---------------------------- MODULE DlsymProofs -----------------------------
(***************************************************************************)
(* dlsym and dladdr, for every set of libraries and every address space.   *)
(* The images of the loaded libraries are disjoint, so an address belongs  *)
(* to one of them at most; an address given out lies in the image of the   *)
(* library it was found in for as long as that is loaded.                  *)
(***************************************************************************)
EXTENDS Dlsym, SymbolsProofs

TypeInv ==
  /\ solist \in Seq(Lib) /\ solist # <<>> /\ solist[1] = Libdl
  /\ base \in [Lib -> Nat]

\* A library is listed once, its image is inside the address space, and no two
\* images meet.
Once      == \A i, j \in 1..Len(solist) : solist[i] = solist[j] => i = j
ImagesFit == \A i \in 1..Len(solist) : base[solist[i]] + Size[solist[i]] <= MaxAddress
Covers(b, L, a) == a >= b[L] /\ a < b[L] + Size[L]   \* L, mapped where b says, holds a
ImagesApart ==
  \A i, j \in 1..Len(solist), a \in Nat :
    Covers(base, solist[i], a) /\ Covers(base, solist[j], a) => i = j

\* An address given out is that of a definition of a library still loaded.
GivenInv ==
  \A g \in given :
    /\ g.lib \in Lib
    /\ \E i \in 1..Len(solist) : solist[i] = g.lib
    /\ g.sym \in DOMAIN Symtab[g.lib] /\ Symtab[g.lib][g.sym].defined
    /\ g.addr = At(g.lib, g.sym)

DlsymInv ==
  /\ TypeInv
  /\ Once
  /\ ImagesFit
  /\ ImagesApart
  /\ GivenInv
  /\ FirstGlobalGiven

-----------------------------------------------------------------------------
(* The steps.                                                              *)

\* solist as a function on its positions.
LEMMA Listed ==
  ASSUME TypeInv
  PROVE  /\ Len(solist) \in Nat /\ 1 \in 1..Len(solist) /\ DOMAIN solist = 1..Len(solist)
         /\ \A i \in 1..Len(solist) : solist[i] \in Lib
         /\ \A L : L \in Loaded <=> \E i \in 1..Len(solist) : solist[i] = L
<1>1. Len(solist) \in Nat /\ DOMAIN solist = 1..Len(solist) /\ Len(solist) # 0
  BY LenProperties, EmptySeq DEF TypeInv
<1>2. \A i \in 1..Len(solist) : solist[i] \in Lib
  BY ElementOfSeq DEF TypeInv
<1> QED BY <1>1, <1>2 DEF Loaded

\* What the assumptions say of one library.
LEMMA Layout ==
  ASSUME NEW L \in Lib
  PROVE  /\ MinVaddr[L] \in Nat /\ Size[L] \in Nat
         /\ Symtab[L] \in Seq(Symbol)
         /\ \A n \in DOMAIN Symtab[L] : /\ Symtab[L][n] \in Symbol
                                        /\ n \in Nat \ {0}
         /\ L # Libdl => \A n \in DOMAIN Symtab[L] : Symtab[L][n].defined =>
              /\ Symtab[L][n].value \in Nat /\ Symtab[L][n].value >= MinVaddr[L]
              /\ Symtab[L][n].value < MinVaddr[L] + Size[L]
<1>1. MinVaddr[L] \in Nat /\ Size[L] \in Nat /\ Symtab[L] \in Seq(Symbol)
  BY ImageAssumption, SymtabAssumption
<1>2. DOMAIN Symtab[L] = 1..Len(Symtab[L]) /\ Len(Symtab[L]) \in Nat
  BY <1>1, LenProperties
<1>3. \A n \in DOMAIN Symtab[L] : Symtab[L][n] \in Symbol
  BY <1>1, <1>2, ElementOfSeq
<1>4. L # Libdl => \A n \in DOMAIN Symtab[L] : Symtab[L][n].defined =>
        Symtab[L][n].value \in MinVaddr[L]..(MinVaddr[L] + Size[L] - 1)
  BY ImageAssumption
<1> QED BY <1>1, <1>2, <1>3, <1>4

\* soinfo_alloc appends the new library.
LEMMA LoadInv ==
  ASSUME DlsymInv, NEW L \in Lib, NEW a \in Address, Load(L, a)
  PROVE  DlsymInv'
<1> DEFINE n == Len(solist)
<1>1. /\ L \notin Loaded
      /\ a + Size[L] \in Address
      /\ \A M \in Loaded : Image(M) \cap a..(a + Size[L] - 1) = {}
      /\ solist' = Append(solist, L) /\ base' = [base EXCEPT ![L] = a]
      /\ answer' = Null /\ given' = given
  BY DEF Load
<1>2. /\ n \in Nat /\ 1 \in 1..n
      /\ \A i \in 1..n : solist[i] \in Lib /\ solist[i] \in Loaded /\ solist[i] # L
  BY <1>1, Listed DEF DlsymInv
<1>3. /\ solist' \in Seq(Lib) /\ Len(solist') = n + 1
      /\ \A i \in 1..n : solist'[i] = solist[i]
      /\ solist'[n + 1] = L
  BY <1>1, AppendProperties DEF DlsymInv, TypeInv
<1>4. \A i \in 1..(n + 1) : i \in 1..n \/ i = n + 1
  BY <1>2
<1>5. a \in Nat /\ Size[L] \in Nat /\ MaxAddress \in Nat /\ a + Size[L] <= MaxAddress
  BY <1>1, Layout, ImageAssumption DEF Address
<1>6. /\ base' \in [Lib -> Nat] /\ base'[L] = a
      /\ \A i \in 1..n : base'[solist'[i]] = base[solist[i]]
  <2>1. base \in [Lib -> Nat]
    BY DEF DlsymInv, TypeInv
  <2> QED BY <1>1, <1>2, <1>3, <1>5, <2>1
<1>7. Libdl # L
  <2>1. solist[1] = Libdl
    BY DEF DlsymInv, TypeInv
  <2> QED BY <1>2, <2>1
<1>8. TypeInv'
  <2>1. solist' # <<>>
    <3>1. Len(solist') # 0
      BY <1>2, <1>3
    <3> QED BY <3>1, EmptySeq
  <2>2. solist'[1] = Libdl
    BY <1>2, <1>3 DEF DlsymInv, TypeInv
  <2> QED BY <1>3, <1>6, <2>1, <2>2 DEF TypeInv
<1>9. Once'
  <2>1. \A i \in 1..n : solist'[i] # L
    BY <1>2, <1>3
  <2>2. \A i, j \in 1..n : solist'[i] = solist'[j] => i = j
    BY <1>3 DEF DlsymInv, Once
  <2> QED BY <1>3, <1>4, <2>1, <2>2 DEF Once
<1>10. ImagesFit'
  <2>1. ASSUME NEW i \in 1..(n + 1)
        PROVE  base'[solist'[i]] + Size[solist'[i]] <= MaxAddress
    <3>1. CASE i \in 1..n
      BY <1>3, <1>6, <3>1 DEF DlsymInv, ImagesFit
    <3>2. CASE i = n + 1
      BY <1>1, <1>3, <1>5, <1>6, <3>2
    <3> QED BY <1>4, <3>1, <3>2
  <2> QED BY <1>3, <2>1 DEF ImagesFit
<1>11. ImagesApart'
  <2>1. \A i \in 1..n, c \in Nat : Covers(base', solist'[i], c) <=> Covers(base, solist[i], c)
    BY <1>3, <1>6 DEF Covers
  <2>2. ASSUME NEW i \in 1..n, NEW c \in Nat,
               Covers(base', solist'[i], c), Covers(base', solist'[n + 1], c)
        PROVE  FALSE
    <3>1. c \in a..(a + Size[L] - 1)
      BY <1>3, <1>5, <1>6, <2>2 DEF Covers
    <3>2. base[solist[i]] \in Nat /\ Size[solist[i]] \in Nat
      BY <1>2, Layout DEF DlsymInv, TypeInv
    <3>3. c \in Image(solist[i])
      BY <2>1, <2>2, <3>2 DEF Covers, Image
    <3> QED BY <1>1, <1>2, <3>1, <3>3
  <2>3. \A i, j \in 1..n, c \in Nat :
          Covers(base', solist'[i], c) /\ Covers(base', solist'[j], c) => i = j
    BY <2>1 DEF DlsymInv, ImagesApart
  <2>4. ASSUME NEW i \in 1..(n + 1), NEW j \in 1..(n + 1), NEW c \in Nat,
               Covers(base', solist'[i], c), Covers(base', solist'[j], c)
        PROVE  i = j
    BY <1>4, <2>2, <2>3, <2>4
  <2> QED BY <1>3, <2>4 DEF ImagesApart
<1>12. GivenInv'
  <2> SUFFICES ASSUME NEW g \in given
               PROVE  /\ g.lib \in Lib
                      /\ \E i \in 1..Len(solist') : solist'[i] = g.lib
                      /\ g.sym \in DOMAIN Symtab[g.lib] /\ Symtab[g.lib][g.sym].defined
                      /\ g.addr = At(g.lib, g.sym)'
    BY <1>1 DEF GivenInv
  <2>1. PICK i \in 1..n : solist[i] = g.lib
    BY DEF DlsymInv, GivenInv
  <2>2. i \in 1..Len(solist') /\ solist'[i] = g.lib /\ base'[g.lib] = base[g.lib]
    BY <1>2, <1>3, <1>6, <2>1
  <2> QED BY <2>2 DEF DlsymInv, GivenInv, At
<1>13. FirstGlobalGiven'
  BY <1>1 DEF FirstGlobalGiven
<1> QED BY <1>8, <1>9, <1>10, <1>11, <1>12, <1>13 DEF DlsymInv

\* soinfo_free takes the library off solist.
LEMMA UnloadInv ==
  ASSUME DlsymInv, NEW L \in Lib, Unload(L)
  PROVE  DlsymInv'
<1> DEFINE n == Len(solist)
<1>1. /\ L \in Loaded /\ L # Libdl
      /\ base' = [base EXCEPT ![L] = 0]
      /\ given' = {g \in given : g.lib # L}
      /\ answer' = Null
  BY DEF Unload
<1>2. /\ n \in Nat /\ 1 \in 1..n /\ DOMAIN solist = 1..n
      /\ \A i \in 1..n : solist[i] \in Lib
      /\ solist[1] = Libdl
  BY Listed DEF DlsymInv, TypeInv
<1>3. PICK k \in 1..n :
        solist[k] = L /\ solist' = SubSeq(solist, 1, k - 1) \o SubSeq(solist, k + 1, n)
  BY <1>2 DEF Unload
<1>4. /\ solist' \in Seq(Lib) /\ Len(solist') = n - 1
      /\ \A j \in 1..(n - 1) : solist'[j] = IF j < k THEN solist[j] ELSE solist[j + 1]
  <2>1. solist \in Seq(Lib)
    BY DEF DlsymInv, TypeInv
  <2> QED BY ONLY <1>3, <2>1, Without
\* Where a library that stays was.
<1> DEFINE Old(j) == IF j < k THEN j ELSE j + 1
<1>5. \A j \in 1..(n - 1) : Old(j) \in 1..n /\ Old(j) # k /\ solist'[j] = solist[Old(j)]
  BY <1>2, <1>4
<1>6. \A i, j \in 1..(n - 1) : Old(i) = Old(j) => i = j
  BY <1>2
<1>7. \A i \in 1..n : i # k => \E j \in 1..(n - 1) : solist'[j] = solist[i]
  <2> SUFFICES ASSUME NEW i \in 1..n, i # k PROVE \E j \in 1..(n - 1) : solist'[j] = solist[i]
    OBVIOUS
  <2>1. CASE i < k
    <3>1. i \in 1..(n - 1)
      BY <1>2, <2>1
    <3> QED BY <1>4, <2>1, <3>1
  <2>2. CASE ~ (i < k)
    <3>1. i - 1 \in 1..(n - 1) /\ ~ (i - 1 < k) /\ (i - 1) + 1 = i
      BY <1>2, <2>2
    <3> QED BY <1>4, <3>1
  <2> QED BY <2>1, <2>2
<1>8. \A i, j \in 1..n : solist[i] = solist[j] => i = j
  BY DEF DlsymInv, Once
<1> HIDE DEF Old
<1>9. /\ base' \in [Lib -> Nat]
      /\ \A M : M \in Lib /\ M # L => base'[M] = base[M]
  <2>1. base \in [Lib -> Nat]
    BY DEF DlsymInv, TypeInv
  <2> QED BY <1>1, <2>1
<1>10. \A j \in 1..(n - 1) : solist'[j] # L /\ solist'[j] \in Lib
                            /\ base'[solist'[j]] = base[solist'[j]]
  <2> SUFFICES ASSUME NEW j \in 1..(n - 1)
               PROVE  solist[Old(j)] # L /\ solist[Old(j)] \in Lib
    BY <1>5, <1>9
  <2>1. Old(j) \in 1..n /\ Old(j) # k
    BY <1>5
  <2> QED BY <1>2, <1>3, <1>8, <2>1
<1>11. TypeInv'
  <2>1. k # 1 /\ n - 1 # 0 /\ 1 \in 1..(n - 1) /\ 1 < k
    BY <1>1, <1>2, <1>3
  <2>2. solist' # <<>>
    BY <1>4, <2>1, EmptySeq
  <2>3. solist'[1] = Libdl
    BY <1>2, <1>4, <2>1
  <2> QED BY <1>4, <1>9, <2>2, <2>3 DEF TypeInv
<1>12. Once'
  <2>1. ASSUME NEW i \in 1..(n - 1), NEW j \in 1..(n - 1), solist'[i] = solist'[j] PROVE i = j
    BY <1>5, <1>6, <1>8, <2>1
  <2> QED BY <1>4, <2>1 DEF Once
<1>13. ImagesFit'
  <2>1. ASSUME NEW j \in 1..(n - 1)
        PROVE  base'[solist'[j]] + Size[solist'[j]] <= MaxAddress
    BY <1>5, <1>10 DEF DlsymInv, ImagesFit
  <2> QED BY <1>4, <2>1 DEF ImagesFit
<1>14. ImagesApart'
  <2>1. ASSUME NEW i \in 1..(n - 1), NEW j \in 1..(n - 1), NEW c \in Nat,
               Covers(base', solist'[i], c), Covers(base', solist'[j], c)
        PROVE  i = j
    <3>1. Covers(base, solist[Old(i)], c) /\ Covers(base, solist[Old(j)], c)
      BY <1>5, <1>10, <2>1 DEF Covers
    <3>2. Old(i) = Old(j)
      BY <1>5, <3>1 DEF DlsymInv, ImagesApart
    <3> QED BY <1>6, <3>2
  <2> QED BY <1>4, <2>1 DEF ImagesApart
<1>15. GivenInv'
  <2> SUFFICES ASSUME NEW g \in given, g.lib # L
               PROVE  /\ g.lib \in Lib
                      /\ \E i \in 1..Len(solist') : solist'[i] = g.lib
                      /\ g.sym \in DOMAIN Symtab[g.lib] /\ Symtab[g.lib][g.sym].defined
                      /\ g.addr = At(g.lib, g.sym)'
    BY <1>1 DEF GivenInv
  <2>1. PICK i \in 1..n : solist[i] = g.lib
    BY DEF DlsymInv, GivenInv
  <2>2. \E j \in 1..Len(solist') : solist'[j] = g.lib
    BY <1>3, <1>4, <1>7, <2>1
  <2>3. g.lib \in Lib /\ base'[g.lib] = base[g.lib]
    BY <1>9 DEF DlsymInv, GivenInv
  <2> QED BY <2>2, <2>3 DEF DlsymInv, GivenInv, At
<1>16. FirstGlobalGiven'
  BY <1>1 DEF FirstGlobalGiven
<1> QED BY <1>11, <1>12, <1>13, <1>14, <1>15, <1>16 DEF DlsymInv

\* The tail of s_dlsym, whatever the list it searches: part of solist.
LEMMA AnswerInv ==
  ASSUME DlsymInv, NEW libs \in Seq(Lib), \A i \in DOMAIN libs : libs[i] \in Loaded,
         NEW name \in Name, Answer(libs, name)
  PROVE  /\ DlsymInv'
         /\ UNCHANGED <<solist, base>>
         /\ answer'.sym # 0 => \E i \in DOMAIN libs : answer'.lib = libs[i]
<1> DEFINE i == FirstIn(libs, name)
           L == libs[i]
           n == soinfo_elf_lookup(L, name)
<1>1. UNCHANGED <<solist, base>>
  BY DEF Answer
<1>2. UNCHANGED <<solist, base>> => TypeInv' /\ Once' /\ ImagesFit' /\ ImagesApart'
  BY DEF DlsymInv, TypeInv, Once, ImagesFit, ImagesApart
<1>3. /\ i = 0 <=> \A j \in DOMAIN libs : Definitions(libs[j], name) = {}
      /\ i # 0 =>
           /\ i \in DOMAIN libs
           /\ \A j \in DOMAIN libs : Definitions(libs[j], name) # {} => i <= j
           /\ L \in Lib /\ n # 0 /\ n \in Definitions(L, name)
  <2>1. /\ i = 0 <=> \A j \in DOMAIN libs : Definitions(libs[j], name) = {}
        /\ i # 0 =>
             /\ i \in DOMAIN libs
             /\ Definitions(L, name) # {}
             /\ \A j \in DOMAIN libs : Definitions(libs[j], name) # {} => i <= j
    BY FirstLibrary
  <2>2. \A j \in DOMAIN libs : libs[j] \in Lib
    <3>1. DOMAIN libs = 1..Len(libs)
      BY LenProperties
    <3> QED BY <3>1, ElementOfSeq
  <2> HIDE DEF i
  <2> QED BY <2>1, <2>2, Lookup
<1>4. DOMAIN libs \subseteq Nat \ {0}
  <2>1. DOMAIN libs = 1..Len(libs) /\ Len(libs) \in Nat
    BY LenProperties
  <2> QED BY <2>1
<1> DEFINE Given == [lib |-> L, sym |-> n, addr |-> At(L, n)]
<1>5. CASE i = 0 \/ Symtab[L][n].bind # "GLOBAL"
  <2>1. answer' = [libs |-> libs, name |-> name, lib |-> Libdl, sym |-> 0] /\ given' = given
    BY <1>5 DEF Answer
  <2>2. GivenInv'
    BY <1>1, <2>1 DEF DlsymInv, GivenInv, At
  <2>3. ASSUME NEW j \in DOMAIN libs, Definitions(libs[j], name) # {},
               \A m \in DOMAIN libs : Definitions(libs[m], name) # {} => j <= m
        PROVE  \E d \in Definitions(libs[j], name) : Symtab[libs[j]][d].bind = "WEAK"
    <3>1. i # 0 /\ i \in DOMAIN libs /\ Definitions(L, name) # {}
      BY <1>3, <2>3
    <3>2. i = j
      <4>1. i <= j /\ j <= i
        BY <1>3, <2>3, <3>1
      <4> HIDE DEF i
      <4> QED BY <1>4, <3>1, <4>1
    <3>3. Symtab[L][n].bind \in {"GLOBAL", "WEAK"}
      BY <1>3, <3>1 DEF Definitions, Exported
    <3> QED BY <1>3, <1>5, <3>1, <3>2, <3>3
  <2>4. FirstGlobalGiven'
    BY <2>1, <2>3 DEF FirstGlobalGiven
  <2> QED BY <1>1, <1>2, <2>1, <2>2, <2>4 DEF DlsymInv
<1>6. CASE i # 0 /\ Symtab[L][n].bind = "GLOBAL"
  <2>1. /\ answer' = [libs |-> libs, name |-> name, lib |-> L, sym |-> n]
        /\ given' = given \cup {Given}
    BY <1>6 DEF Answer
  <2>2. GivenInv'
    <3>1. /\ Given.lib \in Lib
          /\ Given.sym \in DOMAIN Symtab[Given.lib] /\ Symtab[Given.lib][Given.sym].defined
          /\ Given.addr = At(Given.lib, Given.sym)
      BY <1>3, <1>6 DEF Definitions, Exported
    <3>2. \E j \in 1..Len(solist) : solist[j] = Given.lib
      BY <1>3, <1>6, Listed DEF DlsymInv
    <3> HIDE DEF Given
    <3> QED BY <1>1, <2>1, <3>1, <3>2 DEF DlsymInv, GivenInv, At
  <2>3. FirstGlobalGiven'
    <3> DEFINE defs == {j \in DOMAIN libs : Definitions(libs[j], name) # {}}
    <3>1. i \in defs /\ \A j \in defs : i <= j
      BY <1>3, <1>6
    <3>2. /\ answer'.libs = libs /\ answer'.name = name
          /\ answer'.lib = L /\ answer'.sym = n
      BY <2>1
    <3>3. n \in Definitions(L, name) /\ n # 0 /\ Symtab[L][n].bind = "GLOBAL"
      BY <1>3, <1>6
    <3> HIDE DEF i, n
    <3> QED BY <3>1, <3>2, <3>3 DEF FirstGlobalGiven
  <2> QED BY <1>1, <1>2, <1>3, <1>6, <2>1, <2>2, <2>3 DEF DlsymInv
<1> QED BY <1>5, <1>6

\* The library find_containing_library gives is the one whose image holds the
\* address: there is no other.
LEMMA Containing ==
  ASSUME DlsymInv, NEW a \in Nat
  PROVE  /\ find_containing_library(a) # 0 =>
              /\ find_containing_library(a) \in 1..Len(solist)
              /\ Covers(base, solist[find_containing_library(a)], a)
         /\ \A i \in 1..Len(solist) :
              Covers(base, solist[i], a) => find_containing_library(a) = i
<1> DEFINE holders == {i \in 1..Len(solist) : Covers(base, solist[i], a)}
<1>1. find_containing_library(a) = FirstOf(holders)
  <2>1. \A i \in 1..Len(solist) : base[solist[i]] \in Nat /\ Size[solist[i]] \in Nat
    BY Listed, Layout DEF DlsymInv, TypeInv
  <2>2. \A i \in 1..Len(solist) :
          (a >= base[solist[i]] /\ a - base[solist[i]] < Size[solist[i]]) <=> i \in holders
    BY <2>1 DEF Covers
  <2>3. DOMAIN solist = 1..Len(solist)
    BY Listed DEF DlsymInv
  <2>4. {i \in DOMAIN solist : a >= base[solist[i]] /\ a - base[solist[i]] < Size[solist[i]]} = holders
    BY <2>2, <2>3
  <2> QED BY <2>4 DEF find_containing_library
<1>2. /\ FirstOf(holders) = 0 <=> holders = {}
      /\ FirstOf(holders) # 0 => FirstOf(holders) \in holders
  <2>1. holders \in SUBSET (Nat \ {0})
    BY Listed DEF DlsymInv
  <2> HIDE DEF holders
  <2> QED BY <2>1, FirstOfIs
<1>3. \A i, j \in holders : i = j
  BY DEF DlsymInv, ImagesApart
<1>4. \A i : i \in holders <=> i \in 1..Len(solist) /\ Covers(base, solist[i], a)
  OBVIOUS
<1> HIDE DEF holders
<1> QED BY <1>1, <1>2, <1>3, <1>4

\* An address given out lies in the image of its library.
LEMMA GivenCovered ==
  ASSUME DlsymInv, NEW g \in given, g.lib # Libdl
  PROVE  /\ g.lib \in Lib /\ g.addr \in Nat
         /\ Covers(base, g.lib, g.addr)
         /\ find_containing_library(g.addr) # 0
         /\ solist[find_containing_library(g.addr)] = g.lib
<1>1. PICK i \in 1..Len(solist) : solist[i] = g.lib
  BY DEF DlsymInv, GivenInv
<1>2. /\ g.lib \in Lib /\ base[g.lib] \in Nat
      /\ g.sym \in DOMAIN Symtab[g.lib] /\ Symtab[g.lib][g.sym].defined
      /\ g.addr = (base[g.lib] + Symtab[g.lib][g.sym].value) - MinVaddr[g.lib]
  BY DEF DlsymInv, TypeInv, GivenInv, At
<1>3. /\ MinVaddr[g.lib] \in Nat /\ Size[g.lib] \in Nat
      /\ Symtab[g.lib][g.sym].value \in Nat /\ Symtab[g.lib][g.sym].value >= MinVaddr[g.lib]
      /\ Symtab[g.lib][g.sym].value < MinVaddr[g.lib] + Size[g.lib]
  BY <1>2, Layout
<1>4. g.addr \in Nat /\ Covers(base, g.lib, g.addr)
  BY <1>2, <1>3 DEF Covers
<1>5. find_containing_library(g.addr) = i
  BY <1>1, <1>4, Containing
<1>6. i # 0
  BY Listed DEF DlsymInv
<1> QED BY <1>1, <1>2, <1>4, <1>5, <1>6

\* What s_dladdr answers for an address of a library.
LEMMA Dladdr ==
  ASSUME NEW a, find_containing_library(a) # 0
  PROVE  LET L    == solist[find_containing_library(a)]
             n    == dladdr_find_symbol(L, a)
             info == s_dladdr(a) IN
         /\ info # Null /\ info.fname = L /\ info.fbase = base[L] /\ info.sym = n
         /\ n # 0 => info.saddr = At(L, n)
BY DEF s_dladdr, Null

\* The libraries RTLD_NEXT searches are those after the caller's.
LEMMA After ==
  ASSUME TypeInv, NEW i \in 1..Len(solist)
  PROVE  LET libs == SubSeq(solist, i + 1, Len(solist)) IN
         /\ libs \in Seq(Lib)
         /\ \A m \in DOMAIN libs : i + m \in 1..Len(solist) /\ libs[m] = solist[i + m] /\ m \in Nat \ {0}
<1> DEFINE n    == Len(solist)
           libs == SubSeq(solist, i + 1, n)
<1>1. n \in Nat /\ i \in Nat /\ i >= 1 /\ i <= n
  BY Listed
<1>2. \A j \in (i + 1)..n : solist[j] \in Lib
  BY <1>1, Listed
<1>3. /\ libs \in Seq(Lib)
      /\ Len(libs) = IF i + 1 <= n THEN n - (i + 1) + 1 ELSE 0
      /\ \A m \in 1..(n - (i + 1) + 1) : libs[m] = solist[(i + 1) + m - 1]
  BY <1>1, <1>2, SubSeqProperties
<1> HIDE DEF libs, n
<1>4. DOMAIN libs = 1..Len(libs) /\ Len(libs) = n - i
  <2>1. Len(libs) = n - i
    BY ONLY <1>1, <1>3
  <2>2. DOMAIN libs = 1..Len(libs)
    BY ONLY <1>3, LenProperties
  <2> QED BY <2>1, <2>2
<1>5. ASSUME NEW m \in DOMAIN libs
      PROVE  i + m \in 1..n /\ libs[m] = solist[i + m] /\ m \in Nat \ {0}
  <2>1. m \in 1..(n - (i + 1) + 1) /\ (i + 1) + m - 1 = i + m
        /\ i + m \in 1..n /\ m \in Nat \ {0}
    BY ONLY <1>1, <1>4, m \in DOMAIN libs
  <2> QED BY ONLY <1>3, <2>1
<1> QED BY <1>3, <1>5 DEF libs, n

\* dlsym, with a handle, RTLD_DEFAULT or RTLD_NEXT.
LEMMA DlsymKeeps ==
  ASSUME DlsymInv, NEW name \in Name,
         \/ \E L \in Lib : DlsymHandle(L, name)
         \/ DlsymDefault(name)
         \/ \E caller \in Address : DlsymNext(caller, name)
  PROVE  DlsymInv'
<1>1. solist \in Seq(Lib) /\ \A i \in DOMAIN solist : solist[i] \in Loaded
  BY Listed DEF DlsymInv, TypeInv
<1>2. ASSUME NEW L \in Lib, DlsymHandle(L, name) PROVE DlsymInv'
  <2>1. <<L>> \in Seq(Lib) /\ \A i \in DOMAIN <<L>> : <<L>>[i] = L
    OBVIOUS
  <2> QED BY <1>2, <2>1, AnswerInv DEF DlsymHandle
<1>3. CASE DlsymDefault(name)
  BY <1>1, <1>3, AnswerInv DEF DlsymDefault
<1>4. ASSUME NEW caller \in Address, DlsymNext(caller, name) PROVE DlsymInv'
  <2> DEFINE i == find_containing_library(caller)
             libs == IF i = 0 THEN <<>> ELSE SubSeq(solist, i + 1, Len(solist))
  <2>1. caller \in Nat
    BY ImageAssumption DEF Address
  <2>2. i = 0 \/ i \in 1..Len(solist)
    BY <2>1, Containing
  <2> HIDE DEF i
  <2>3. libs \in Seq(Lib) /\ \A m \in DOMAIN libs : libs[m] \in Loaded
    <3>1. CASE i = 0
      <4>1. libs = <<>> /\ libs \in Seq(Lib) /\ DOMAIN libs = {}
        BY <3>1
      <4> QED BY <4>1
    <3>2. CASE i # 0
      <4>1. libs = SubSeq(solist, i + 1, Len(solist))
        BY <3>2
      <4> QED BY <2>2, <3>2, <4>1, After, Listed DEF DlsymInv
    <3> QED BY <3>1, <3>2
  <2>4. Answer(libs, name)
    BY <1>4 DEF DlsymNext, i
  <2> HIDE DEF libs
  <2> QED BY <2>3, <2>4, AnswerInv
<1> QED BY <1>2, <1>3, <1>4

-----------------------------------------------------------------------------
(* The theorems.                                                           *)

\* At startup libdl_info is the only library.
LEMMA InitInv == Init => DlsymInv
<1> SUFFICES ASSUME Init PROVE DlsymInv
  OBVIOUS
<1> USE DEF Init
<1>1. Libdl \in Lib /\ Size[Libdl] = 0 /\ MaxAddress \in Nat
  BY LibdlAssumption, ImageAssumption
<1>2. solist \in Seq(Lib) /\ Len(solist) = 1 /\ solist[1] = Libdl
  BY <1>1
<1>3. solist # <<>>
  BY <1>2, EmptySeq
<1>4. base \in [Lib -> Nat] /\ base[Libdl] = 0
  BY <1>1
<1>5. TypeInv /\ Once /\ ImagesApart
  BY <1>2, <1>3, <1>4 DEF TypeInv, Once, ImagesApart
<1>6. ImagesFit
  BY <1>1, <1>2, <1>4 DEF ImagesFit
<1>7. GivenInv /\ FirstGlobalGiven
  BY DEF GivenInv, FirstGlobalGiven
<1> QED BY <1>5, <1>6, <1>7 DEF DlsymInv

\* Nothing changes.
LEMMA StutterInv == DlsymInv /\ UNCHANGED vars => DlsymInv'
<1> SUFFICES ASSUME DlsymInv, UNCHANGED vars PROVE DlsymInv'
  OBVIOUS
<1>1. UNCHANGED <<solist, base, given, answer>>
  BY DEF vars
<1>2. TypeInv' /\ Once' /\ ImagesFit'
  BY <1>1 DEF DlsymInv, TypeInv, Once, ImagesFit
<1>3. ImagesApart'
  BY <1>1 DEF DlsymInv, ImagesApart
<1>4. GivenInv'
  BY <1>1 DEF DlsymInv, GivenInv, At
<1>5. FirstGlobalGiven'
  BY <1>1 DEF DlsymInv, FirstGlobalGiven
<1> QED BY <1>2, <1>3, <1>4, <1>5 DEF DlsymInv

\* Every step keeps the invariant.
LEMMA StepInv == DlsymInv /\ [Next]_vars => DlsymInv'
<1> SUFFICES ASSUME DlsymInv, [Next]_vars PROVE DlsymInv'
  OBVIOUS
<1>1. CASE Next
  BY <1>1, LoadInv, UnloadInv, DlsymKeeps DEF Next
<1>2. CASE UNCHANGED vars
  BY <1>2, StutterInv
<1> QED BY <1>1, <1>2

\* However libraries come and go and whatever is looked up.
THEOREM DlsymInvariant == Spec => []DlsymInv
BY InitInv, StepInv, PTL DEF Spec

\* dlsym gives a global definition of the first library with any (see
\* FirstGlobalGiven).
THEOREM FirstGiven == Spec => []FirstGlobalGiven
<1>1. DlsymInv => FirstGlobalGiven
  BY DEF DlsymInv
<1> QED BY <1>1, DlsymInvariant, PTL

\* dladdr attributes an address dlsym gave out to the library it was found in (see
\* AttributedToItsLibrary).
THEOREM Attributed == Spec => []AttributedToItsLibrary
<1>1. DlsymInv => AttributedToItsLibrary
  <2> SUFFICES ASSUME DlsymInv, NEW g \in given, g.lib # Libdl
               PROVE  LET info == s_dladdr(g.addr) IN
                      info # Null /\ info.fname = g.lib /\ info.fbase = base[g.lib]
    BY DEF AttributedToItsLibrary
  <2> QED BY GivenCovered, Dladdr
<1> QED BY <1>1, DlsymInvariant, PTL

\* dladdr names a defined symbol that holds an address dlsym gave out (see
\* NamedByDladdr).
THEOREM Named == Spec => []NamedByDladdr
<1>1. DlsymInv => NamedByDladdr
  <2> SUFFICES ASSUME DlsymInv, NEW g \in given,
                      g.lib # Libdl, MinVaddr[g.lib] = 0, Symtab[g.lib][g.sym].size > 0
               PROVE  LET info == s_dladdr(g.addr) IN
                      /\ info # Null /\ info.sym # 0
                      /\ Symtab[info.fname][info.sym].defined
                      /\ g.addr \in info.saddr..(info.saddr + Symtab[info.fname][info.sym].size - 1)
    BY DEF NamedByDladdr, RightlyNamed, HasSize
  <2> DEFINE L == g.lib
             hits == {n \in DOMAIN Symtab[L] :
                        /\ Symtab[L][n].defined
                        /\ g.addr - base[L] >= Symtab[L][n].value
                        /\ g.addr - base[L] < Symtab[L][n].value + Symtab[L][n].size}
             n == dladdr_find_symbol(L, g.addr)
  <2>1. /\ L \in Lib /\ g.sym \in DOMAIN Symtab[L] /\ Symtab[L][g.sym].defined
        /\ g.addr = At(L, g.sym) /\ base[L] \in Nat
    BY DEF DlsymInv, TypeInv, GivenInv
  <2>2. \A m \in DOMAIN Symtab[L] :
          /\ m \in Nat \ {0}
          /\ Symtab[L][m].value \in Nat /\ Symtab[L][m].size \in Nat
    BY <2>1, Layout DEF Symbol
  <2>3. \A m \in DOMAIN Symtab[L] : At(L, m) = base[L] + Symtab[L][m].value
    BY <2>1, <2>2 DEF At
  <2>4. g.addr - base[L] = Symtab[L][g.sym].value /\ g.addr \in Nat
    BY <2>1, <2>2, <2>3
  <2>5. g.sym \in hits
    BY <2>1, <2>2, <2>4
  <2>6. n = FirstOf(hits)
    BY DEF dladdr_find_symbol
  <2>7. n # 0 /\ n \in hits
    <3>1. hits \in SUBSET (Nat \ {0})
      BY <2>2
    <3>2. hits # {}
      BY <2>5
    <3> HIDE DEF hits, n
    <3> QED BY ONLY <2>6, <3>1, <3>2, FirstOfIs
  <2>8. g.addr \in At(L, n)..(At(L, n) + Symtab[L][n].size - 1)
    <3>1. /\ n \in DOMAIN Symtab[L]
          /\ g.addr - base[L] >= Symtab[L][n].value
          /\ g.addr - base[L] < Symtab[L][n].value + Symtab[L][n].size
      BY <2>7
    <3> HIDE DEF n
    <3> QED BY <2>1, <2>2, <2>3, <2>4, <3>1
  <2>9. LET info == s_dladdr(g.addr) IN
        info # Null /\ info.fname = L /\ info.sym = n /\ (n # 0 => info.saddr = At(L, n))
    BY GivenCovered, Dladdr
  <2> QED BY <2>7, <2>8, <2>9
<1> QED BY <1>1, DlsymInvariant, PTL

\* The unwinder and dladdr attribute every address to the same library (see
\* UnwindAgrees).
THEOREM Unwound == Spec => []UnwindAgrees
<1>1. DlsymInv => UnwindAgrees
  <2> SUFFICES ASSUME DlsymInv, NEW pc \in Address
               PROVE  dl_unwind_find_exidx(pc) = find_containing_library(pc)
    BY DEF UnwindAgrees
  <2>1. pc \in Nat /\ MaxAddress \in Nat
    BY ImageAssumption DEF Address
  <2>2. ASSUME NEW i \in DOMAIN solist
        PROVE  (pc >= base[solist[i]] /\ pc < (base[solist[i]] + Size[solist[i]]) % (MaxAddress + 1))
                 <=> (pc >= base[solist[i]] /\ pc - base[solist[i]] < Size[solist[i]])
    <3>1. i \in 1..Len(solist) /\ solist[i] \in Lib
      BY Listed DEF DlsymInv
    <3>2. base[solist[i]] \in Nat /\ Size[solist[i]] \in Nat
      BY <3>1, Layout DEF DlsymInv, TypeInv
    <3>3. base[solist[i]] + Size[solist[i]] <= MaxAddress
      BY <3>1 DEF DlsymInv, ImagesFit
    <3>4. (base[solist[i]] + Size[solist[i]]) % (MaxAddress + 1) = base[solist[i]] + Size[solist[i]]
      BY <2>1, <3>2, <3>3
    <3> QED BY <2>1, <3>2, <3>4
  <2>3. {i \in DOMAIN solist :
            pc >= base[solist[i]] /\ pc < (base[solist[i]] + Size[solist[i]]) % (MaxAddress + 1)}
          = {i \in DOMAIN solist : pc >= base[solist[i]] /\ pc - base[solist[i]] < Size[solist[i]]}
    BY <2>2
  <2> QED BY <2>3 DEF dl_unwind_find_exidx, find_containing_library
<1> QED BY <1>1, DlsymInvariant, PTL

\* RTLD_NEXT answers from a library after the caller's (see NextSkipsCaller).
THEOREM CallerSkipped == Spec => NextSkipsCaller
<1>1. DlsymInv /\ [Next]_vars =>
        [\A caller \in Address, name \in Name :
           DlsymNext(caller, name) /\ answer'.sym # 0 =>
             \A i, j \in DOMAIN solist :
               caller \in Image(solist[i]) /\ solist[j] = answer'.lib => i < j]_vars
  <2> SUFFICES ASSUME DlsymInv, NEW caller \in Address, NEW name \in Name,
                      DlsymNext(caller, name), answer'.sym # 0,
                      NEW i \in DOMAIN solist, NEW j \in DOMAIN solist,
                      caller \in Image(solist[i]), solist[j] = answer'.lib
               PROVE  i < j
    OBVIOUS
  <2>1. /\ caller \in Nat /\ i \in 1..Len(solist) /\ j \in 1..Len(solist)
        /\ i \in Nat \ {0} /\ j \in Nat
    BY Listed, ImageAssumption DEF Address, DlsymInv
  <2>2. Covers(base, solist[i], caller)
    <3>1. base[solist[i]] \in Nat /\ Size[solist[i]] \in Nat
      BY <2>1, Listed, Layout DEF DlsymInv, TypeInv
    <3> QED BY <2>1, <3>1 DEF Covers, Image
  <2>3. find_containing_library(caller) = i
    BY <2>1, <2>2, Containing
  <2> DEFINE libs == SubSeq(solist, i + 1, Len(solist))
  <2>4. Answer(libs, name)
    BY <2>1, <2>3 DEF DlsymNext
  <2>5. /\ libs \in Seq(Lib)
        /\ \A m \in DOMAIN libs : i + m \in 1..Len(solist) /\ libs[m] = solist[i + m] /\ m \in Nat \ {0}
    BY <2>1, After DEF DlsymInv
  <2> HIDE DEF libs
  <2>6. \A m \in DOMAIN libs : libs[m] \in Loaded
    BY <2>5, Listed DEF DlsymInv
  <2>7. PICK m \in DOMAIN libs : answer'.lib = libs[m]
    BY <2>4, <2>5, <2>6, AnswerInv
  <2>8. j = i + m
    BY <2>1, <2>5, <2>7 DEF DlsymInv, Once
  <2> QED BY <2>1, <2>5, <2>8
<1> QED BY <1>1, DlsymInvariant, PTL DEF Spec, NextSkipsCaller

=============================================================================
