------------------------ MODULE LibrarySearchProofs -------------------------
(***************************************************************************)
(* The invariants of LibrarySearch, for every set of names, paths and      *)
(* files.  A library is not loaded while it is searched for, so two of one *)
(* basename never are; a file that is there throughout a call is not       *)
(* missed by the first open that names it; and the images are counted, of  *)
(* either build.                                                           *)
(***************************************************************************)
EXTENDS LibrarySearch, FiniteSetTheorems, SequenceTheorems, TLAPS

Searching == {"direct", "as_is", "on_path", "not_found"}
Loading   == {"opened", "loaded"}
Library   == [name : Base, file : File]

TypeInv ==
  /\ windows \in BOOLEAN
  /\ files \subseteq File /\ there \subseteq files
  /\ solist \subseteq Library /\ IsFiniteSet(solist)
  /\ at \in Searching \cup Loading \cup {"idle", "linking"}
  /\ i \in Nat \ {0}
  /\ at # "idle" => name \in Name
  /\ at \in Loading \cup {"linking"} => fd \in File
  /\ images \in [File -> Nat] /\ lost \in [File -> Nat] /\ left \in [File -> Nat]

\* The library a call looks for is not on solist until soinfo_alloc puts it there;
\* it stays there while it is linked.
SoughtIsNew ==
  /\ at \in Searching \cup Loading => find_loaded_library(name) = {}
  /\ at = "linking" => Opening \in solist

\* The name as it is has been opened in vain: before the search along gLdPaths if it
\* has a slash, at the entry "" if it has none.
Missed ==
  \/ at \in {"on_path", "not_found"}
  \/ at = "as_is" /\ (name.dir # NoDir \/ i > 1)

MissedIsGone == Missed => name \notin there

SearchInv ==
  /\ TypeInv
  /\ SoughtIsNew
  /\ MissedIsGone
  /\ OnePerBasename
  /\ ImagesAccounted

-----------------------------------------------------------------------------
(* Lemmas about the data.                                                  *)

\* The first path opened is the name as it is.
LEMMA FirstPath == Len(gLdPaths) \in Nat /\ Len(gLdPaths) >= 1 /\ gLdPaths[1] = NoDir
<1>1. Len(gLdPaths) \in Nat
  BY PathsAssumption, LenProperties
<1> QED BY <1>1, PathsAssumption

\* A name is a file that may exist.
LEMMA NameIsFile == Name \subseteq File
BY DEF Name, File

\* The soinfo of the file being loaded.
LEMMA OpeningIsLibrary ==
  ASSUME name \in Name, fd \in File
  PROVE  Opening \in Library /\ Opening.name = name.base /\ Opening.file = fd
BY DEF Opening, Library, Name

\* The libraries loaded from a file ...
Of(f) == {l \in solist : l.file = f}

\* ... are finitely many.
LEMMA OfFinite ==
  ASSUME TypeInv, NEW f
  PROVE  IsFiniteSet(Of(f)) /\ Cardinality(Of(f)) \in Nat
<1>1. IsFiniteSet(Of(f))
  BY FS_Subset DEF Of, TypeInv
<1> QED BY <1>1, FS_CardinalityType

\* One more library on solist is one more of its own file.
LEMMA OfAdded ==
  ASSUME TypeInv, NEW x, x \notin solist, solist' = solist \cup {x}, NEW f
  PROVE  Cardinality(Of(f)') = Cardinality(Of(f)) + (IF x.file = f THEN 1 ELSE 0)
<1>1. CASE x.file = f
  <2>1. Of(f)' = Of(f) \cup {x} /\ x \notin Of(f)
    BY <1>1 DEF Of
  <2>2. Cardinality(Of(f)') = Cardinality(Of(f)) + 1
    BY <2>1, OfFinite, FS_AddElement
  <2> QED BY <1>1, <2>2
<1>2. CASE x.file # f
  <2>1. Of(f)' = Of(f)
    BY <1>2 DEF Of
  <2> QED BY <1>2, <2>1, OfFinite
<1> QED BY <1>1, <1>2

\* And one less.
LEMMA OfRemoved ==
  ASSUME TypeInv, NEW x \in solist, solist' = solist \ {x}, NEW f
  PROVE  Cardinality(Of(f)') = Cardinality(Of(f)) - (IF x.file = f THEN 1 ELSE 0)
<1>1. CASE x.file = f
  <2>1. Of(f)' = Of(f) \ {x} /\ x \in Of(f)
    BY <1>1 DEF Of
  <2>2. Cardinality(Of(f)') = Cardinality(Of(f)) - 1
    BY <2>1, OfFinite, FS_RemoveElement
  <2> QED BY <1>1, <2>2
<1>2. CASE x.file # f
  <2>1. Of(f)' = Of(f)
    BY <1>2 DEF Of
  <2> QED BY <1>2, <2>1, OfFinite
<1> QED BY <1>1, <1>2

\* The account of the images, in these terms.
LEMMA Account ==
  /\ ImagesAccounted <=>
       \A f \in File :
         /\ images[f] = Cardinality(Of(f)) + (IF at = "loaded" /\ fd = f THEN 1 ELSE 0) + lost[f] + left[f]
         /\ ~windows => left[f] = 0
  /\ ImagesAccounted' <=>
       \A f \in File :
         /\ images'[f] = Cardinality(Of(f)') + (IF at' = "loaded" /\ fd' = f THEN 1 ELSE 0)
                           + lost'[f] + left'[f]
         /\ ~windows' => left'[f] = 0
BY DEF ImagesAccounted, Described, Of

-----------------------------------------------------------------------------
(* The steps.                                                              *)

\* Nothing is searched for, loaded or mapped at the start.
LEMMA InitInv ==
  ASSUME Init
  PROVE  SearchInv
<1>1. TypeInv
  BY BuildsAssumption, FS_EmptySet DEF Init, TypeInv, Searching, Loading
<1>2. SoughtIsNew /\ MissedIsGone /\ OnePerBasename
  BY DEF Init, SoughtIsNew, MissedIsGone, Missed, OnePerBasename, Searching, Loading
<1>3. ImagesAccounted
  <2>1. \A f : Cardinality(Of(f)) = 0
    <3>1. \A f : Of(f) = {}
      BY DEF Init, Of
    <3> QED BY <3>1, FS_EmptySet
  <2> QED BY <2>1, Account DEF Init
<1> QED BY <1>1, <1>2, <1>3 DEF SearchInv

\* A step that neither maps an image nor changes solist keeps the account.
LEMMA AccountKept ==
  ASSUME ImagesAccounted, UNCHANGED <<solist, images, lost, left, windows>>, at # "loaded", at' # "loaded"
  PROVE  ImagesAccounted'
BY DEF ImagesAccounted, Described

\* Files come and go: what is gone does not come back to there.
LEMMA FilesInv ==
  ASSUME SearchInv,
         \/ \E f \in File \ files : FileComes(f)
         \/ \E f \in files : FileGoes(f)
         \/ UNCHANGED vars
  PROVE  SearchInv'
<1>1. /\ UNCHANGED <<solist, name, at, i, result, fd, images, lost, left, windows>>
      /\ files' \subseteq File /\ there' \subseteq there /\ there' \subseteq files'
  BY DEF SearchInv, TypeInv, FileComes, FileGoes, vars, memory
<1>2. TypeInv'
  BY <1>1 DEF SearchInv, TypeInv
<1>3. SoughtIsNew' /\ MissedIsGone' /\ OnePerBasename' /\ ImagesAccounted'
  BY <1>1 DEF SearchInv, SoughtIsNew, find_loaded_library, Opening, MissedIsGone, Missed,
              OnePerBasename, ImagesAccounted, Described
<1> QED BY <1>2, <1>3 DEF SearchInv

\* find_library_internal before it opens anything.
LEMMA StartInv ==
  ASSUME SearchInv, NEW n \in Name, FindLoaded(n) \/ Search(n)
  PROVE  SearchInv'
<1>1. CASE FindLoaded(n)
  <2>1. UNCHANGED <<files, solist, name, at, i, there, fd, images, lost, left, windows>>
    BY <1>1 DEF FindLoaded, memory
  <2> QED BY <2>1 DEF SearchInv, TypeInv, SoughtIsNew, find_loaded_library, Opening, MissedIsGone,
                      Missed, OnePerBasename, ImagesAccounted, Described
<1>2. CASE Search(n)
  <2>1. /\ at = "idle" /\ find_loaded_library(n) = {}
        /\ name' = n /\ i' = 1 /\ there' = files
        /\ at' = IF n.dir # NoDir THEN "direct" ELSE "as_is"
        /\ UNCHANGED <<files, solist, fd, images, lost, left, windows>>
    BY <1>2 DEF Search, memory
  <2>2. TypeInv'
    BY <2>1 DEF SearchInv, TypeInv, Searching, Loading
  <2>3. SoughtIsNew'
    BY <2>1 DEF SoughtIsNew, find_loaded_library
  <2>4. MissedIsGone'
    BY <2>1 DEF MissedIsGone, Missed
  <2>5. OnePerBasename' /\ ImagesAccounted'
    BY <2>1, AccountKept DEF SearchInv, OnePerBasename
  <2> QED BY <2>2, <2>3, <2>4, <2>5 DEF SearchInv
<1> QED BY <1>1, <1>2

\* A successful open(): the search is over, the rest of load_library begins.
LEMMA OpenedInv ==
  ASSUME SearchInv, at \in Searching, name \in files, Opened(name)
  PROVE  SearchInv'
<1>1. at' = "opened" /\ fd' = name /\ UNCHANGED <<files, solist, name, i, there, images, lost, left, windows>>
  BY DEF Opened
<1>2. TypeInv'
  BY <1>1, NameIsFile DEF SearchInv, TypeInv, Searching, Loading
<1>3. SoughtIsNew' /\ MissedIsGone' /\ OnePerBasename'
  BY <1>1 DEF SearchInv, SoughtIsNew, find_loaded_library, Searching, Loading, MissedIsGone,
              Missed, OnePerBasename
<1>4. ImagesAccounted'
  BY <1>1, AccountKept DEF SearchInv, Searching
<1> QED BY <1>2, <1>3, <1>4 DEF SearchInv

\* An open() in vain: the search goes on.
LEMMA GotoInv ==
  ASSUME SearchInv, at \in Searching, NEW place \in {"as_is", "on_path"}, NEW index \in Nat \ {0},
         Goto(place, index), Missed \/ name \notin files
  PROVE  SearchInv'
<1>1. at' = place /\ i' = index /\ UNCHANGED <<files, solist, name, there, fd, images, lost, left, windows>>
  BY DEF Goto, memory
<1>2. TypeInv'
  BY <1>1 DEF SearchInv, TypeInv, Searching, Loading
<1>3. SoughtIsNew' /\ OnePerBasename'
  BY <1>1 DEF SearchInv, SoughtIsNew, find_loaded_library, Searching, Loading, OnePerBasename
<1>4. MissedIsGone'
  BY <1>1 DEF SearchInv, TypeInv, MissedIsGone
<1>5. ImagesAccounted'
  BY <1>1, AccountKept DEF SearchInv, Searching
<1> QED BY <1>2, <1>3, <1>4, <1>5 DEF SearchInv

\* open_library: what it opens is not loaded, and what it has not found is gone.
LEMMA OpenInv ==
  ASSUME SearchInv, OpenDirect \/ OpenAsIs \/ OpenOnPath
  PROVE  SearchInv'
<1>1. i \in Nat \ {0} /\ 1 \in Nat \ {0} /\ i + 1 \in Nat \ {0}
  BY DEF SearchInv, TypeInv
<1>2. CASE OpenDirect
  <2>1. at = "direct" /\ ((name \in files /\ Opened(name)) \/ (name \notin files /\ Goto("as_is", 1)))
    BY <1>2 DEF OpenDirect
  <2> QED BY <1>1, <2>1, OpenedInv, GotoInv DEF Searching
<1>3. CASE OpenAsIs
  <2>1. /\ at = "as_is"
        /\ \/ name \in files /\ Opened(name)
           \/ ~(gLdPaths[i] = NoDir /\ name \in files) /\ Goto("on_path", i)
    BY <1>3 DEF OpenAsIs
  <2>2. i > 1 \/ gLdPaths[i] = NoDir
    BY <1>1, FirstPath
  <2>3. ASSUME ~(gLdPaths[i] = NoDir /\ name \in files) PROVE Missed \/ name \notin files
    BY <2>1, <2>2, <2>3 DEF Missed
  <2> QED BY <1>1, <2>1, <2>3, OpenedInv, GotoInv DEF Searching
<1>4. CASE OpenOnPath
  <2>1. /\ at = "on_path"
        /\ (name \in files /\ Opened(name)) \/ Goto("as_is", i + 1)
    BY <1>4 DEF OpenOnPath
  <2>2. Missed
    BY <2>1 DEF Missed
  <2> QED BY <1>1, <2>1, <2>2, OpenedInv, GotoInv DEF Searching
<1> QED BY <1>2, <1>3, <1>4

\* The search has ended in vain.
LEMMA NotFoundInv ==
  ASSUME SearchInv, NotFound \/ GiveUp
  PROVE  SearchInv'
<1>1. UNCHANGED <<files, solist, there, fd, images, lost, left, windows>>
  BY DEF NotFound, GiveUp, memory
<1>2. CASE NotFound
  <2>1. at = "as_is" /\ i > Len(gLdPaths) /\ at' = "not_found" /\ UNCHANGED <<name, i>>
    BY <1>2 DEF NotFound
  <2>2. Missed
    BY <2>1, FirstPath DEF Missed, SearchInv, TypeInv
  <2>3. TypeInv'
    BY <1>1, <2>1 DEF SearchInv, TypeInv, Searching, Loading
  <2>4. SoughtIsNew' /\ OnePerBasename' /\ MissedIsGone'
    BY <1>1, <2>1, <2>2 DEF SearchInv, SoughtIsNew, find_loaded_library, Searching, Loading,
                            OnePerBasename, MissedIsGone
  <2>5. ImagesAccounted'
    BY <1>1, <2>1, AccountKept DEF SearchInv
  <2> QED BY <2>3, <2>4, <2>5 DEF SearchInv
<1>3. CASE GiveUp
  <2>1. at = "not_found" /\ at' = "idle" /\ i' = 1
    BY <1>3 DEF GiveUp
  <2>2. TypeInv' /\ OnePerBasename' /\ SoughtIsNew' /\ MissedIsGone'
    BY <1>1, <2>1 DEF SearchInv, TypeInv, Searching, Loading, OnePerBasename, SoughtIsNew,
                      MissedIsGone, Missed
  <2>3. ImagesAccounted'
    BY <1>1, <2>1, AccountKept DEF SearchInv
  <2> QED BY <2>2, <2>3 DEF SearchInv
<1> QED BY <1>2, <1>3

-----------------------------------------------------------------------------
(* Loading and linking.                                                    *)

\* load_library fails before the image is described: what it has mapped is lost.
LEMMA LoadFailsInv ==
  ASSUME SearchInv, LoadFails \/ LoadFailsReserved \/ AllocFails
  PROVE  SearchInv'
<1>1. /\ UNCHANGED <<windows, files, solist, there, left>>
      /\ at' = "idle" /\ i' = 1 /\ at \in Loading
  BY DEF LoadFails, LoadFailsReserved, AllocFails, Answer, Loading
<1>2. /\ fd \in File /\ images \in [File -> Nat] /\ lost \in [File -> Nat]
      /\ left \in [File -> Nat]
  BY <1>1 DEF SearchInv, TypeInv
<1>3. images' \in [File -> Nat] /\ lost' \in [File -> Nat]
  BY <1>2 DEF LoadFails, LoadFailsReserved, AllocFails
<1>4. TypeInv'
  BY <1>1, <1>3 DEF SearchInv, TypeInv, Loading
<1>5. SoughtIsNew' /\ MissedIsGone' /\ OnePerBasename'
  BY <1>1 DEF SearchInv, SoughtIsNew, MissedIsGone, Missed, OnePerBasename, Searching, Loading
<1>6. ImagesAccounted'
  <2> SUFFICES ASSUME NEW f \in File
               PROVE  /\ images'[f] = Cardinality(Of(f)') + 0 + lost'[f] + left[f]
                      /\ ~windows => left[f] = 0
    BY <1>1, Account
  <2>0. ~windows => left[f] = 0
    BY Account DEF SearchInv
  <2>1. Of(f)' = Of(f) /\ Cardinality(Of(f)) \in Nat
    BY <1>1, OfFinite DEF Of, SearchInv
  <2>2. images[f] = Cardinality(Of(f)) + (IF at = "loaded" /\ fd = f THEN 1 ELSE 0) + lost[f] + left[f]
    BY Account DEF SearchInv
  <2>3. images[f] \in Nat /\ lost[f] \in Nat /\ left[f] \in Nat
    BY <1>2
  <2>4. CASE LoadFails
    <3>1. at = "opened" /\ images' = images /\ lost' = lost
      BY <2>4 DEF LoadFails
    <3> QED BY <2>0, <2>1, <2>2, <2>3, <3>1
  <2>5. CASE LoadFailsReserved
    <3>1. /\ at = "opened"
          /\ images'[f] = images[f] + (IF fd = f THEN 1 ELSE 0)
          /\ lost'[f] = lost[f] + (IF fd = f THEN 1 ELSE 0)
      BY <1>2, <2>3, <2>5 DEF LoadFailsReserved
    <3> QED BY <2>0, <2>1, <2>2, <2>3, <3>1
  <2>6. CASE AllocFails
    <3>1. /\ at = "loaded" /\ images' = images
          /\ lost'[f] = lost[f] + (IF fd = f THEN 1 ELSE 0)
      BY <1>2, <2>3, <2>6 DEF AllocFails
    <3> QED BY <2>0, <2>1, <2>2, <2>3, <3>1
  <2> QED BY <2>4, <2>5, <2>6
<1> QED BY <1>4, <1>5, <1>6 DEF SearchInv

\* ElfReader::Load maps the image.
LEMMA LoadInv ==
  ASSUME SearchInv, Load
  PROVE  SearchInv'
<1>1. /\ at = "opened" /\ at' = "loaded"
      /\ images' = [images EXCEPT ![fd] = @ + 1]
      /\ UNCHANGED <<windows, files, solist, name, i, there, fd, lost, left>>
  BY DEF Load
<1>2. /\ fd \in File /\ images \in [File -> Nat] /\ lost \in [File -> Nat]
      /\ left \in [File -> Nat]
  BY <1>1 DEF SearchInv, TypeInv, Loading
<1>3. TypeInv'
  BY <1>1, <1>2 DEF SearchInv, TypeInv, Searching, Loading
<1>4. SoughtIsNew' /\ MissedIsGone' /\ OnePerBasename'
  BY <1>1 DEF SearchInv, SoughtIsNew, find_loaded_library, MissedIsGone, Missed, OnePerBasename,
              Searching, Loading
<1>5. ImagesAccounted'
  <2> SUFFICES ASSUME NEW f \in File
               PROVE  /\ images'[f] = Cardinality(Of(f)') + (IF fd = f THEN 1 ELSE 0) + lost[f] + left[f]
                      /\ ~windows => left[f] = 0
    BY <1>1, Account
  <2>1. Of(f)' = Of(f) /\ Cardinality(Of(f)) \in Nat
    BY <1>1, OfFinite DEF Of, SearchInv
  <2>2. images[f] = Cardinality(Of(f)) + 0 + lost[f] + left[f] /\ (~windows => left[f] = 0)
    BY <1>1, Account DEF SearchInv
  <2>3. /\ images[f] \in Nat /\ lost[f] \in Nat /\ left[f] \in Nat
        /\ images'[f] = images[f] + (IF fd = f THEN 1 ELSE 0)
    BY <1>1, <1>2
  <2> QED BY <1>1, <2>1, <2>2, <2>3
<1> QED BY <1>3, <1>4, <1>5 DEF SearchInv

\* soinfo_alloc: the library looked for was not there, so its basename is new.
LEMMA AllocInv ==
  ASSUME SearchInv, Alloc
  PROVE  SearchInv'
<1>1. /\ at = "loaded" /\ at' = "linking"
      /\ solist' = solist \cup {Opening}
      /\ UNCHANGED <<files, name, i, there, fd, images, lost, left, windows>>
  BY DEF Alloc, memory
<1>2. Opening \in Library /\ Opening.name = name.base /\ Opening.file = fd
  BY <1>1, OpeningIsLibrary DEF SearchInv, TypeInv, Loading
<1>3. \A l \in solist : l.name # name.base
  BY <1>1 DEF SearchInv, SoughtIsNew, find_loaded_library, Loading
<1>4. TypeInv'
  <2>1. IsFiniteSet(solist')
    BY <1>1, FS_AddElement DEF SearchInv, TypeInv
  <2> QED BY <1>1, <1>2, <2>1 DEF SearchInv, TypeInv, Searching, Loading
<1>5. SoughtIsNew' /\ MissedIsGone'
  BY <1>1 DEF SearchInv, SoughtIsNew, Opening, MissedIsGone, Missed, Searching, Loading
<1>6. OnePerBasename'
  BY <1>1, <1>2, <1>3 DEF SearchInv, OnePerBasename
<1>7. ImagesAccounted'
  <2> SUFFICES ASSUME NEW f \in File
               PROVE  /\ images[f] = Cardinality(Of(f)') + 0 + lost[f] + left[f]
                      /\ ~windows => left[f] = 0
    BY <1>1, Account
  <2>1. Cardinality(Of(f)') = Cardinality(Of(f)) + (IF fd = f THEN 1 ELSE 0)
    BY <1>1, <1>2, <1>3, OfAdded DEF SearchInv
  <2>2. /\ images[f] = Cardinality(Of(f)) + (IF fd = f THEN 1 ELSE 0) + lost[f] + left[f]
        /\ ~windows => left[f] = 0
    BY <1>1, Account DEF SearchInv
  <2>3. Cardinality(Of(f)) \in Nat /\ lost[f] \in Nat /\ left[f] \in Nat /\ images[f] \in Nat
    BY OfFinite DEF SearchInv, TypeInv
  <2> QED BY <1>1, <2>1, <2>2, <2>3
<1> QED BY <1>4, <1>5, <1>6, <1>7 DEF SearchInv

\* s_munmap of an image: it is gone on POSIX, and left on Windows.
LEMMA Unmapped ==
  ASSUME TypeInv, NEW g \in File, Munmap(g)
  PROVE  /\ DOMAIN images' = File /\ left' \in [File -> Nat]
         /\ \A f \in File :
              LET one == IF g = f THEN 1 ELSE 0 IN
              \/ windows /\ images'[f] = images[f] /\ left'[f] = left[f] + one
              \/ ~windows /\ images'[f] = images[f] - one /\ left'[f] = left[f]
<1>1. images \in [File -> Nat] /\ left \in [File -> Nat] /\ windows \in BOOLEAN
  BY DEF TypeInv
<1>2. CASE windows
  BY <1>1, <1>2 DEF Munmap
<1>3. CASE ~windows
  BY <1>1, <1>3 DEF Munmap
<1> QED BY <1>1, <1>2, <1>3

\* A library that leaves solist has its image unmapped, or left.
LEMMA RemovedInv ==
  ASSUME SearchInv, NEW l \in solist, solist' = solist \ {l}, Munmap(l.file),
         at \in {"idle", "linking"}, at' = "idle", i' \in Nat \ {0},
         UNCHANGED <<windows, files, there, lost>>
  PROVE  SearchInv'
<1>1. /\ l.file \in File /\ images \in [File -> Nat] /\ lost \in [File -> Nat]
      /\ left \in [File -> Nat] /\ DOMAIN images' = File /\ left' \in [File -> Nat]
  BY Unmapped DEF SearchInv, TypeInv, Library
<1>2. ASSUME NEW f \in File
      PROVE  /\ images'[f] = Cardinality(Of(f)') + 0 + lost[f] + left'[f]
             /\ ~windows => left'[f] = 0
             /\ images'[f] \in Nat
  <2> DEFINE one == IF l.file = f THEN 1 ELSE 0
  <2>1. Cardinality(Of(f)') = Cardinality(Of(f)) - one /\ Cardinality(Of(f)) \in Nat
    BY OfRemoved, OfFinite DEF SearchInv
  <2>2. images[f] = Cardinality(Of(f)) + 0 + lost[f] + left[f] /\ (~windows => left[f] = 0)
    BY Account DEF SearchInv
  <2>3. images[f] \in Nat /\ lost[f] \in Nat /\ left[f] \in Nat
    BY <1>1
  <2>4. \/ windows /\ images'[f] = images[f] /\ left'[f] = left[f] + one
        \/ ~windows /\ images'[f] = images[f] - one /\ left'[f] = left[f]
    BY <1>1, Unmapped DEF SearchInv
  <2>5. Cardinality(Of(f)') \in Nat
    <3>1. IsFiniteSet(Of(f)')
      <4>1. Of(f)' \subseteq Of(f)
        BY DEF Of
      <4> QED BY <4>1, OfFinite, FS_Subset DEF SearchInv
    <3> QED BY <3>1, FS_CardinalityType
  <2>6. one \in {0, 1}
    OBVIOUS
  <2> HIDE DEF one
  <2> QED BY <2>1, <2>2, <2>3, <2>4, <2>5, <2>6
<1>3. TypeInv'
  <2>1. IsFiniteSet(solist')
    BY FS_RemoveElement DEF SearchInv, TypeInv
  <2>2. images' \in [File -> Nat]
    <3>1. images' = [f \in File |-> images'[f]]
      BY <1>1 DEF Munmap, SearchInv, TypeInv
    <3> QED BY <1>2, <3>1
  <2> QED BY <1>1, <2>1, <2>2 DEF SearchInv, TypeInv, Loading
<1>4. SoughtIsNew' /\ MissedIsGone' /\ OnePerBasename'
  BY DEF SearchInv, SoughtIsNew, MissedIsGone, Missed, OnePerBasename, Searching, Loading
<1>5. ImagesAccounted'
  BY <1>2, Account
<1> QED BY <1>3, <1>4, <1>5 DEF SearchInv

\* The link of the library succeeds, or frees it again; a loaded one is unloaded.
LEMMA LinkInv ==
  ASSUME SearchInv, LinkDone \/ LinkFails \/ \E l \in solist : Unload(l)
  PROVE  SearchInv'
<1>1. CASE LinkDone
  <2>1. at = "linking" /\ at' = "idle" /\ i' = 1 /\ UNCHANGED <<files, solist, there, images, lost, left, windows>>
    BY <1>1 DEF LinkDone, Answer
  <2>2. TypeInv' /\ SoughtIsNew' /\ MissedIsGone' /\ OnePerBasename'
    BY <2>1 DEF SearchInv, TypeInv, SoughtIsNew, MissedIsGone, Missed, OnePerBasename, Searching,
                Loading
  <2>3. ImagesAccounted'
    BY <2>1, AccountKept DEF SearchInv
  <2> QED BY <2>2, <2>3 DEF SearchInv
<1>2. CASE LinkFails
  <2>1. /\ at = "linking" /\ at' = "idle" /\ i' = 1
        /\ solist' = solist \ {Opening} /\ Munmap(fd)
        /\ UNCHANGED <<windows, files, there, lost>>
    BY <1>2 DEF LinkFails, Answer
  <2>2. Opening \in solist /\ Opening.file = fd
    BY <2>1, OpeningIsLibrary DEF SearchInv, SoughtIsNew, TypeInv
  <2>3. 1 \in Nat \ {0}
    OBVIOUS
  <2> QED BY <2>1, <2>2, <2>3, RemovedInv
<1>3. ASSUME NEW l \in solist, Unload(l) PROVE SearchInv'
  <2>1. /\ at = "idle" /\ UNCHANGED <<windows, files, at, i, there, lost>>
        /\ solist' = solist \ {l} /\ Munmap(l.file)
    BY <1>3 DEF Unload
  <2>2. i' \in Nat \ {0}
    BY <2>1 DEF SearchInv, TypeInv
  <2> QED BY <2>1, <2>2, RemovedInv
<1> QED BY <1>1, <1>2, <1>3

-----------------------------------------------------------------------------
\* The invariant of the search and of the load.
THEOREM SearchInvariant == Spec => []SearchInv
<1>1. Init => SearchInv
  BY InitInv
<1>2. SearchInv /\ [Next]_vars => SearchInv'
  BY FilesInv, StartInv, OpenInv, NotFoundInv, LoadFailsInv, LoadInv, AllocInv, LinkInv
     DEF Next, Step, LoadStep
<1> QED BY <1>1, <1>2, PTL DEF Spec

\* find_loaded_library, which compares basenames only, never has a choice.
THEOREM BasenamesUnique == Spec => []OnePerBasename
<1>1. SearchInv => OnePerBasename
  BY DEF SearchInv
<1> QED BY <1>1, SearchInvariant, PTL

\* ImagesAccounted: an image is mapped for a library on solist, or lost in one of the
\* two ways the actions LoadFailsReserved and AllocFails name, or, on Windows only,
\* one that LinkFails or Unload could not unmap.
THEOREM ImagesCounted == Spec => []ImagesAccounted
<1>1. SearchInv => ImagesAccounted
  BY DEF SearchInv
<1> QED BY <1>1, SearchInvariant, PTL

\* open_library finds the file named as the call names it, if it stays there.
THEOREM StayingFileFound == Spec => []FoundIfThere
<1>1. SearchInv => FoundIfThere
  BY DEF SearchInv, MissedIsGone, Missed, FoundIfThere
<1> QED BY <1>1, SearchInvariant, PTL

=============================================================================
