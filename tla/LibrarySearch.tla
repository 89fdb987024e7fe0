--------------------------- MODULE LibrarySearch ----------------------------
(***************************************************************************)
(* From a name to a library (emulator/linker.cpp): find_loaded_library,    *)
(* then open_library, which tries one open() after another while files     *)
(* come and go, then the rest of load_library - ElfReader::Load, which     *)
(* maps the image, and soinfo_alloc - and the link of                      *)
(* find_library_internal.  The images are counted: which of them are       *)
(* unmapped when one of the steps fails, or a library is unloaded, is what *)
(* this module is about, besides the search.  windows selects the _MSC_VER *)
(* branch of s_munmap (emulator/memory.cpp).                               *)
(*                                                                         *)
(* A Windows reservation that fails is not seen by ElfReader::Load and     *)
(* maps nothing; the program then crashes (ElfImage), and such a load is   *)
(* left out here.                                                          *)
(*                                                                         *)
(* A name or a file is a directory and a basename; the directory "" stands *)
(* for a name without a slash, looked up in the current directory.         *)
(***************************************************************************)
EXTENDS Naturals, Sequences, FiniteSetsExt

CONSTANTS
  Base,       \* basenames
  Dirs,       \* directories a name may have
  gLdPaths,   \* "" and the well known directories
  TooLong,    \* the <<i, name>> where "gLdPaths[i]/name" overflows buf
  LongBase,   \* basenames longer than SOINFO_NAME_LEN
  Builds,     \* the values of _MSC_VER considered
  MaxLost     \* bound: images lost or left after which no library is looked for

\* The directory of a name without a slash.
NoDir == ""

ASSUME PathsAssumption == gLdPaths \in Seq(STRING) /\ Len(gLdPaths) > 0 /\ gLdPaths[1] = NoDir
ASSUME LongAssumption  == LongBase \subseteq Base
ASSUME BuildsAssumption == Builds \subseteq BOOLEAN

File == [dir : Dirs \cup {gLdPaths[i] : i \in DOMAIN gLdPaths}, base : Base]
Name == [dir : Dirs, base : Base]
None == [none |-> TRUE]

VARIABLES
  windows,  \* _MSC_VER
  files,    \* the files that exist
  solist,   \* the libraries loaded: soinfo's name, and (ghost) the file it is
  name,     \* the name open_library is looking for, or None
  at, i,    \* where it is: its loop's "" branch or its other open, and the index;
            \* or which step of loading the file it has opened comes next
  fd,       \* the file opened, or None
  images,   \* how many images of each file are mapped
  result,   \* what the last call gave: a library of solist, None for NULL
  there,    \* ghost: the files that have existed since the call began
  lost,     \* ghost: the images of each file that never got a soinfo
  left      \* ghost: those that s_munmap was called for and did not unmap

memory == <<windows, fd, images, lost, left>>
vars   == <<files, solist, name, at, i, result, there, memory>>

Init ==
  /\ windows \in Builds
  /\ files \in SUBSET File
  /\ solist = {}
  /\ name = None
  /\ at = "idle" /\ i = 1
  /\ result = None
  /\ there = {}
  /\ fd = None
  /\ images = [f \in File |-> 0]
  /\ lost = [f \in File |-> 0]
  /\ left = [f \in File |-> 0]

\* Somebody installs or removes a file.
FileComes(f) ==
  /\ files' = files \cup {f}
  /\ UNCHANGED <<solist, name, at, i, result, there, memory>>

FileGoes(f) ==
  /\ files' = files \ {f}
  /\ there' = there \ {f}
  /\ UNCHANGED <<solist, name, at, i, result, memory>>

-----------------------------------------------------------------------------
\* Variant: the file's whole name is compared.
LoadedFrom(n) == {l \in solist : l.file = n}

\* The loaded libraries with that basename.
find_loaded_library(n) == {l \in solist : l.name = n.base}

\* find_library_internal: loaded already ...
FindLoaded(n) ==
  /\ at = "idle"
  /\ find_loaded_library(n) # {}
  /\ result' \in find_loaded_library(n)
  /\ UNCHANGED <<files, solist, name, at, i, there, memory>>

TotalLost == MapThenSumSet(LAMBDA f : lost[f] + left[f], File)

\* Variant: a name without a slash is looked for past the end of the paths.
SearchPastPaths(n) ==
  /\ at = "idle"
  /\ find_loaded_library(n) = {}
  /\ TotalLost < MaxLost
  /\ name' = n
  /\ at' = IF n.dir # NoDir THEN "direct" ELSE "as_is"
  /\ i' = IF n.dir # NoDir THEN 1 ELSE Len(gLdPaths) + 1
  /\ result' = None
  /\ there' = files
  /\ UNCHANGED <<files, solist, memory>>

\* ... or to be opened: directly if the name has a slash, else along gLdPaths.
Search(n) ==
  /\ at = "idle"
  /\ find_loaded_library(n) = {}
  /\ TotalLost < MaxLost
  /\ name' = n
  /\ at' = IF n.dir # NoDir THEN "direct" ELSE "as_is"
  /\ i' = 1
  /\ result' = None
  /\ there' = files
  /\ UNCHANGED <<files, solist, memory>>

\* open() has given a descriptor.
Opened(f) ==
  /\ at' = "opened"
  /\ fd' = f
  /\ UNCHANGED <<windows, files, solist, name, i, result, there, images, lost, left>>

Goto(place, index) ==
  /\ at' = place /\ i' = index
  /\ UNCHANGED <<files, solist, name, result, there, memory>>

\* A name with a slash is opened as it is; failing that the search goes on.
OpenDirect ==
  /\ at = "direct"
  /\ IF name \in files THEN Opened(name) ELSE Goto("as_is", 1)

\* The entry "" of gLdPaths: the name as it is.
OpenAsIs ==
  /\ at = "as_is"
  /\ i <= Len(gLdPaths)
  /\ IF gLdPaths[i] = NoDir /\ name \in files THEN Opened(name) ELSE Goto("on_path", i)

\* Variant: a path skipped is tried again and again.
OpenOnPathAgain ==
  /\ at = "on_path"
  /\ IF <<i, name>> \notin TooLong /\ name \in files THEN Opened(name)
     ELSE Goto("as_is", IF <<i, name>> \in TooLong THEN i ELSE i + 1)

\* Every entry: the path is put together in buf, and the name opened.  One that
\* does not fit is skipped.
OpenOnPath ==
  /\ at = "on_path"
  /\ IF <<i, name>> \notin TooLong /\ name \in files THEN Opened(name)
     ELSE Goto("as_is", i + 1)

\* The paths are exhausted: -1, and dlopen fails.
NotFound ==
  /\ at = "as_is"
  /\ i > Len(gLdPaths)
  /\ at' = "not_found"
  /\ UNCHANGED <<files, solist, name, i, result, there, memory>>

\* find_library_internal returns NULL.
GiveUp ==
  /\ at = "not_found"
  /\ at' = "idle" /\ name' = None /\ i' = 1
  /\ UNCHANGED <<files, solist, result, there, memory>>

-----------------------------------------------------------------------------
(* The rest of load_library and of find_library_internal.                  *)

Answer(r) ==
  /\ at' = "idle" /\ name' = None /\ i' = 1 /\ fd' = None
  /\ result' = r

\* The soinfo for the file opened.
Opening == [name |-> name.base, file |-> fd]

\* s_munmap(base, size) of the image of f, whose result nobody looks at.  On Windows
\* UnmapViewOfFile only unmaps views of files, which the reservation is not: it fails.
Munmap(f) ==
  IF windows
  THEN left' = [left EXCEPT ![f] = @ + 1] /\ UNCHANGED images
  ELSE images' = [images EXCEPT ![f] = @ - 1] /\ UNCHANGED left

\* ElfReader::Load gives up before it has reserved any memory.
LoadFails ==
  /\ at = "opened"
  /\ Answer(None)
  /\ UNCHANGED <<windows, files, solist, there, images, lost, left>>

\* ... or afterwards: ~ElfReader does not release the reservation.
LoadFailsReserved ==
  /\ at = "opened"
  /\ images' = [images EXCEPT ![fd] = @ + 1]
  /\ lost' = [lost EXCEPT ![fd] = @ + 1]
  /\ Answer(None)
  /\ UNCHANGED <<windows, files, solist, there, left>>

Load ==
  /\ at = "opened"
  /\ images' = [images EXCEPT ![fd] = @ + 1]
  /\ at' = "loaded"
  /\ UNCHANGED <<windows, files, solist, name, i, result, there, fd, lost, left>>

\* soinfo_alloc: the basename does not fit, or there is no memory for a pool.
\* load_library returns NULL, and nobody has the address of the image.
AllocFails ==
  /\ at = "loaded"
  /\ lost' = [lost EXCEPT ![fd] = @ + 1]
  /\ Answer(None)
  /\ UNCHANGED <<windows, files, solist, there, images, left>>

Alloc ==
  /\ at = "loaded"
  /\ name.base \notin LongBase
  /\ solist' = solist \cup {Opening}
  /\ at' = "linking"
  /\ UNCHANGED <<files, name, i, result, there, memory>>

LinkDone ==
  /\ at = "linking"
  /\ Answer(Opening)
  /\ UNCHANGED <<windows, files, solist, there, images, lost, left>>

\* Variant: the soinfo is freed and its image stays.
LinkFailsMapped ==
  /\ at = "linking"
  /\ solist' = solist \ {Opening}
  /\ Answer(None)
  /\ UNCHANGED <<windows, files, there, images, lost, left>>

\* soinfo_link_image fails: s_munmap is called for the image and the soinfo freed.
LinkFails ==
  /\ at = "linking"
  /\ Munmap(fd)
  /\ solist' = solist \ {Opening}
  /\ Answer(None)
  /\ UNCHANGED <<windows, files, there, lost>>

\* The last reference is closed (soinfo_unload).
Unload(l) ==
  /\ at = "idle"
  /\ Munmap(l.file)
  /\ solist' = solist \ {l}
  /\ result' = None
  /\ UNCHANGED <<windows, files, name, at, i, there, fd, lost>>

LoadStep == LoadFails \/ LoadFailsReserved \/ Load \/ AllocFails \/ Alloc \/ LinkDone \/ LinkFails
Step     == OpenDirect \/ OpenAsIs \/ OpenOnPath \/ NotFound \/ GiveUp \/ LoadStep

Next ==
  \/ Step
  \/ \E n \in Name : FindLoaded(n) \/ Search(n)
  \/ \E f \in File \ files : FileComes(f)
  \/ \E f \in files : FileGoes(f)
  \/ \E l \in solist : Unload(l)

Spec == Init /\ [][Next]_vars /\ WF_vars(Step)

-----------------------------------------------------------------------------
\* Two libraries on solist never have the same basename, so the lookup by
\* basename that DT_NEEDED entries and soinfo_unload rely on has one answer.
OnePerBasename == \A k, l \in solist : k.name = l.name => k = l

\* The soinfo the image of f is described by, once the image is mapped.
Described(f) ==
  Cardinality({l \in solist : l.file = f}) + (IF at = "loaded" /\ fd = f THEN 1 ELSE 0)

\* Every image mapped is that of a library on solist, or one that nobody will unmap
\* any more.  On POSIX there are two ways to that: its load failed after the
\* reservation, or soinfo_alloc did after the load; a failed link and an unload leave
\* none.  On Windows these two leave theirs as well, every one of them, as s_munmap
\* cannot unmap it.  In neither build is an image unmapped that is in use.
ImagesAccounted ==
  /\ \A f \in File : images[f] = Described(f) + lost[f] + left[f]
  /\ ~windows => \A f \in File : left[f] = 0

\* A file named as the call names it, and there throughout the call, is found,
\* whatever else is installed or removed meanwhile.
FoundIfThere == at = "not_found" => name \notin there

\* "Otherwise we try LD_LIBRARY_PATH first, and fall back to the built-in well
\* known paths" (linker.cpp): a library in one of them throughout the call is found.
FoundOnPaths ==
  at = "not_found" /\ name.dir = NoDir =>
    \A k \in DOMAIN gLdPaths : [dir |-> gLdPaths[k], base |-> name.base] \notin there

\* Every call ends, however often files come and go.
SearchEnds == at # "idle" ~> at = "idle"

=============================================================================
