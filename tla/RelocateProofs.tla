--------------------------- MODULE RelocateProofs ---------------------------
(***************************************************************************)
(* soinfo_relocate, for every library, symbol tables and relocation        *)
(* tables.  What a relocation wrote stays as it is, because no other one   *)
(* is for its place; so a prefix of the tables is applied at any time.     *)
(***************************************************************************)
EXTENDS Relocate, SymbolsProofs

\* The program as it is: nothing assigns somain, and there are no preloads.
NoExecutable == somain = NoMain /\ gLdPreloads = <<>>

TypeInv ==
  /\ plt_rel \in Seq(Rel) /\ rel \in Seq(Rel)
  /\ pass \in {"plt_rel", "rel", "linked"}
  /\ idx \in Nat \ {0}
  /\ pass # "linked" => idx <= Len(Table) + 1
  /\ memory \in [Offsets -> 0..(Word - 1)]

\* No place is relocated twice.
OnePerPlace ==
  /\ \A i, j \in 1..Len(plt_rel) : plt_rel[i].offset = plt_rel[j].offset => i = j
  /\ \A i, j \in 1..Len(rel) : rel[i].offset = rel[j].offset => i = j
  /\ \A i \in 1..Len(plt_rel), j \in 1..Len(rel) : plt_rel[i].offset # rel[j].offset

\* The linker has passed no relocation that fails.
PassedSound == \A r \in Passed : ~ Fails(r)

RelocateInv ==
  /\ TypeInv
  /\ OnePerPlace
  /\ PassedSound
  /\ AppliedPrefix

-----------------------------------------------------------------------------
(* Remainders.                                                             *)

\* A number with a quotient and a remainder below the divisor.
LEMMA ModUnique ==
  ASSUME NEW W \in Nat \ {0}, NEW a \in Nat, NEW q \in Nat, NEW r \in 0..(W - 1), a = q * W + r
  PROVE  a % W = r
OBVIOUS

\* Multiples of the divisor do not count.
LEMMA ModShift ==
  ASSUME NEW W \in Nat \ {0}, NEW a \in Nat, NEW k \in Nat
  PROVE  (a + k * W) % W = a % W
<1> DEFINE r == a % W
           p == a \div W
<1>1. a = p * W + r /\ p \in Nat /\ r \in 0..(W - 1)
  BY Division
<1> HIDE DEF p, r
<1>2. a + k * W = (p + k) * W + r /\ p + k \in Nat /\ a + k * W \in Nat
  BY <1>1
<1>3. (a + k * W) % W = r
  BY ONLY <1>1, <1>2, W \in Nat \ {0}, ModUnique
<1> QED BY <1>3 DEF r

\* A summand may be reduced first.
LEMMA ModOfSum ==
  ASSUME NEW W \in Nat \ {0}, NEW a \in Nat, NEW b \in Nat
  PROVE  ((a % W) + b) % W = (a + b) % W
<1> DEFINE m == a % W
           p == a \div W
<1>1. a = p * W + m /\ p \in Nat /\ m \in Nat
  BY Division
<1> HIDE DEF p, m
<1>2. a + b = (m + b) + p * W /\ m + b \in Nat
  BY <1>1
<1>3. ((m + b) + p * W) % W = (m + b) % W
  BY ONLY <1>1, <1>2, W \in Nat \ {0}, ModShift
<1>4. (m + b) % W = (a + b) % W
  BY ONLY <1>2, <1>3
<1> QED BY <1>4 DEF m

\* What R_ARM_REL32 subtracts comes back when it is added.
LEMMA ModDifference ==
  ASSUME NEW W \in Nat \ {0}, NEW a \in Nat, NEW o \in Nat
  PROVE  (((a + W - (o % W)) % W) + o) % W = a % W
<1> DEFINE m == o % W
           p == o \div W
           v == a + W - m
<1>1. o = p * W + m /\ p \in Nat /\ m \in Nat /\ m < W
  BY Division
<1> HIDE DEF p, m
<1>2. v \in Nat /\ v + o = a + (p + 1) * W /\ p + 1 \in Nat
  BY <1>1
<1> HIDE DEF v
<1>3. ((v % W) + o) % W = (v + o) % W
  BY ONLY <1>2, W \in Nat \ {0}, o \in Nat, ModOfSum
<1>4. (a + (p + 1) * W) % W = a % W
  BY ONLY <1>2, W \in Nat \ {0}, a \in Nat, ModShift
<1>5. ((v % W) + o) % W = a % W
  BY <1>2, <1>3, <1>4
<1> QED BY <1>5 DEF v, m

-----------------------------------------------------------------------------
(* The lookup.                                                             *)

\* soinfo_do_lookup searches the libraries needed.
LEMMA ScopeIsNeeded == NoExecutable => Scope = needed
<1> SUFFICES ASSUME NoExecutable PROVE Scope = needed
  OBVIOUS
<1>1. needed \in Seq(Lib)
  BY LibsAssumption
<1>2. <<>> \o needed = needed
  BY <1>1, ConcatEmptySeq
<1>3. <<>> \o <<>> = <<>>
  <2>1. <<>> \in Seq(Lib)
    OBVIOUS
  <2> QED BY <2>1, ConcatEmptySeq
<1> QED BY <1>2, <1>3 DEF NoExecutable, Scope

\* The symbol a relocation refers to has a name.
LEMMA RefIs ==
  ASSUME NEW r \in Rel, r.sym # 0
  PROVE  Ref(r) \in Symbol /\ Ref(r).name \in Name
<1>1. Symtab[si] \in Seq(Symbol)
  BY LibsAssumption, SymtabAssumption
<1>2. r.sym \in 1..Len(Symtab[si])
  <2>1. Len(Symtab[si]) \in Nat
    BY <1>1, LenProperties
  <2> QED BY <2>1 DEF Rel
<1>3. Ref(r) \in Symbol
  BY <1>1, <1>2, ElementOfSeq DEF Ref
<1> QED BY <1>3 DEF Symbol

\* The address a relocation gets is one its name may be bound to.
LEMMA SymAddrBound ==
  ASSUME NoExecutable, NEW r \in Rel
  PROVE  /\ SymAddr(r) \in 0..(Word - 1)
         /\ r.sym = 0 => SymAddr(r) = 0
         /\ r.sym # 0 => BoundTo(Ref(r).name, SymAddr(r))
<1>0. Word \in Nat \ {0} /\ load_bias \in [Lib -> Nat] /\ needed \in Seq(Lib)
  BY WordAssumption, LibsAssumption
<1>1. CASE r.sym = 0
  BY <1>0, <1>1 DEF SymAddr, Resolved
<1>2. CASE r.sym # 0
  <2> DEFINE name == Ref(r).name
             i == FirstIn(needed, name)
             L == needed[i]
             n == soinfo_elf_lookup(L, name)
             providers == {j \in DOMAIN needed : Definitions(needed[j], name) # {}}
  <2>1. name \in Name
    BY <1>2, RefIs
  <2>2. Found(r) = i /\ Scope = needed
    BY ScopeIsNeeded DEF Found
  <2>3. /\ i = 0 <=> providers = {}
        /\ i # 0 => i \in providers /\ \A j \in providers : i <= j
    <3> HIDE DEF name
    <3> QED BY <1>0, <2>1, FirstLibrary
  <2>4. CASE i = 0
    <3>1. SymAddr(r) = 0
      BY <2>2, <2>4 DEF SymAddr, Resolved
    <3>2. {j \in DOMAIN needed : Definitions(needed[j], Ref(r).name) # {}} = {}
      BY <2>3, <2>4
    <3>3. BoundTo(Ref(r).name, 0)
      BY <3>2 DEF BoundTo
    <3> QED BY <1>0, <1>2, <3>1, <3>3
  <2>5. CASE i # 0
    <3>1. SymAddr(r) = (Symtab[L][n].value + load_bias[L]) % Word
      BY <1>2, <2>2, <2>5 DEF SymAddr, Resolved
    <3>2. L \in Lib
      <4>1. DOMAIN needed = 1..Len(needed)
        BY <1>0, LenProperties
      <4> HIDE DEF i
      <4> QED BY <1>0, <2>3, <2>5, <4>1, ElementOfSeq
    <3>3. n \in Definitions(L, name)
      BY <2>1, <2>3, <2>5, <3>2, Lookup
    <3>4. n \in DOMAIN Symtab[L] /\ Symtab[L][n].value \in Nat
      <4>1. n \in DOMAIN Symtab[L]
        BY <3>3 DEF Definitions
      <4>2. Symtab[L] \in Seq(Symbol) /\ DOMAIN Symtab[L] = 1..Len(Symtab[L])
        BY <3>2, SymtabAssumption, LenProperties
      <4>3. Symtab[L][n] \in Symbol
        BY ONLY <4>1, <4>2, ElementOfSeq
      <4> QED BY <4>1, <4>3 DEF Symbol
    <3>5. SymAddr(r) \in 0..(Word - 1)
      <4>1. Symtab[L][n].value + load_bias[L] \in Nat
        BY <1>0, <3>2, <3>4
      <4> QED BY <1>0, <3>1, <4>1, Division
    <3>6. n \in UNION {DOMAIN Symtab[M] : M \in Lib}
      BY <3>2, <3>4
    <3>7. BoundTo(name, SymAddr(r))
      <4> HIDE DEF i, n, name
      <4> QED BY <2>3, <2>5, <3>1, <3>3, <3>6 DEF BoundTo
    <3> QED BY <1>2, <3>5, <3>7
  <2> QED BY <2>4, <2>5
<1> QED BY <1>1, <1>2

-----------------------------------------------------------------------------
(* One relocation.                                                         *)

\* What is written is what the relocation asks for, where the place still holds
\* what the file has.
LEMMA WrittenApplied ==
  ASSUME NoExecutable, NEW r \in Rel, ~ Fails(r),
         memory \in [Offsets -> 0..(Word - 1)], memory[r.offset] = Addend,
         memory' = IF r.type = "NONE" THEN memory ELSE [memory EXCEPT ![r.offset] = Written(r)]
  PROVE  Applied(r)' /\ memory' \in [Offsets -> 0..(Word - 1)]
<1> DEFINE S == SymAddr(r)
<1>0. /\ Word \in Nat \ {0} /\ Addend \in 0..(Word - 1) /\ r.offset \in Offsets /\ r.offset \in Nat
      /\ base[si] \in Nat
  BY WordAssumption, LibsAssumption DEF Rel
<1>1. /\ S \in 0..(Word - 1)
      /\ IF r.sym = 0 THEN S = 0 ELSE BoundTo(Ref(r).name, S)
  BY SymAddrBound
<1>2. r.type \in Types \ {"COPY", "OTHER"}
  BY DEF Rel, Fails
<1>3. \A T : BoundTo(Ref(r).name, T)' <=> BoundTo(Ref(r).name, T)
  BY DEF BoundTo
<1>4. CASE r.type = "NONE"
  <2>1. memory' = memory
    BY <1>4
  <2> QED BY <1>1, <1>3, <1>4, <2>1 DEF Applied, Ref
<1>5. CASE r.type # "NONE"
  <2> DEFINE new == Written(r)
  <2>1. memory' = [memory EXCEPT ![r.offset] = new]
    BY <1>5
  <2>2. new \in 0..(Word - 1)
        /\ CASE r.type \in {"JUMP_SLOT", "GLOB_DAT"} -> new = S
             [] r.type = "ABS32" -> new = (Addend + S) % Word
             [] r.type = "REL32" -> (new + r.offset) % Word = (Addend + S) % Word
             [] r.type = "RELATIVE" -> new = (Addend + base[si]) % Word
    <3>1. CASE r.type \in {"JUMP_SLOT", "GLOB_DAT"}
      BY <1>1, <3>1 DEF Written
    <3>2. CASE r.type = "ABS32"
      <4>1. new = (Addend + S) % Word
        BY <3>2 DEF Written
      <4>2. Addend + S \in Nat
        BY <1>0, <1>1
      <4> QED BY <1>0, <3>2, <4>1, <4>2, Division
    <3>3. CASE r.type = "REL32"
      <4>1. new = (Addend + S + Word - (r.offset % Word)) % Word
        BY <3>3 DEF Written
      <4>2. Addend + S \in Nat
        BY <1>0, <1>1
      <4>3. r.offset % Word \in 0..(Word - 1)
        BY <1>0, Division
      <4>4. Addend + S + Word - (r.offset % Word) \in Nat
        BY <1>0, <4>2, <4>3
      <4>5. new \in 0..(Word - 1)
        BY <1>0, <4>1, <4>4, Division
      <4>6. (((Addend + S + Word - (r.offset % Word)) % Word) + r.offset) % Word = (Addend + S) % Word
        BY <1>0, <4>2, ModDifference
      <4> QED BY <3>3, <4>1, <4>5, <4>6
    <3>4. CASE r.type = "RELATIVE"
      <4>1. new = (Addend + base[si]) % Word
        BY <3>4 DEF Written
      <4>2. Addend + base[si] \in Nat
        BY <1>0
      <4> QED BY <1>0, <3>4, <4>1, <4>2, Division
    <3> QED BY <1>2, <1>5, <3>1, <3>2, <3>3, <3>4 DEF Types
  <2> HIDE DEF new, S
  <2>3. memory'[r.offset] = new /\ memory' \in [Offsets -> 0..(Word - 1)]
    BY <1>0, <2>1, <2>2
  <2>4. Applied(r)'
    BY <1>1, <1>2, <1>3, <1>5, <2>2, <2>3 DEF Applied, Ref, Types
  <2> QED BY <2>3, <2>4
<1> QED BY <1>4, <1>5

\* A relocation stays applied while its place is left alone.
LEMMA StaysApplied ==
  ASSUME NEW r, Applied(r), memory'[r.offset] = memory[r.offset]
  PROVE  Applied(r)'
BY DEF Applied, BoundTo, Ref

\* The elements of the tables.
LEMMA Tables ==
  ASSUME TypeInv
  PROVE  /\ Len(plt_rel) \in Nat /\ Len(rel) \in Nat
         /\ \A i \in 1..Len(plt_rel) : plt_rel[i] \in Rel
         /\ \A i \in 1..Len(rel) : rel[i] \in Rel
         /\ Range(plt_rel) = {plt_rel[i] : i \in 1..Len(plt_rel)}
         /\ Range(rel) = {rel[i] : i \in 1..Len(rel)}
<1>1. plt_rel \in Seq(Rel) /\ rel \in Seq(Rel)
  BY DEF TypeInv
<1>2. /\ Len(plt_rel) \in Nat /\ DOMAIN plt_rel = 1..Len(plt_rel)
      /\ Len(rel) \in Nat /\ DOMAIN rel = 1..Len(rel)
  BY <1>1, LenProperties
<1> QED BY <1>1, <1>2, ElementOfSeq DEF Range

\* What has been passed is of the tables.
LEMMA PassedInRel == TypeInv => Passed \subseteq Rel
<1> SUFFICES ASSUME TypeInv PROVE Passed \subseteq Rel
  OBVIOUS
<1>1. \A i \in 1..(idx - 1) : pass = "plt_rel" => plt_rel[i] \in Rel
  BY Tables DEF TypeInv, Table
<1>2. \A i \in 1..(idx - 1) : pass = "rel" => rel[i] \in Rel
  BY Tables DEF TypeInv, Table
<1>3. Range(plt_rel) \subseteq Rel /\ Range(rel) \subseteq Rel
  BY Tables
<1> QED BY <1>1, <1>2, <1>3 DEF TypeInv, Passed

\* A relocation that does not fail is applied.
LEMMA ApplyInv ==
  ASSUME NoExecutable, RelocateInv, Apply
  PROVE  RelocateInv'
<1>0. PICK r : r = Table[idx]
  OBVIOUS
<1>1. /\ pass # "linked" /\ idx <= Len(Table) /\ ~ Fails(r)
      /\ memory' = IF r.type = "NONE" THEN memory ELSE [memory EXCEPT ![r.offset] = Written(r)]
      /\ idx' = idx + 1
      /\ UNCHANGED <<plt_rel, rel, pass>>
  BY <1>0 DEF Apply, Relocating
<1>2. /\ idx \in Nat \ {0} /\ memory \in [Offsets -> 0..(Word - 1)]
      /\ pass \in {"plt_rel", "rel"}
      /\ Addend \in 0..(Word - 1)
  BY <1>1, WordAssumption DEF RelocateInv, TypeInv
<1>3. Len(Table) \in Nat /\ idx \in 1..Len(Table) /\ r \in Rel
  BY <1>0, <1>1, <1>2, Tables DEF RelocateInv, Table
<1>4. Passed' = Passed \cup {r}
  <2>1. 1..(idx' - 1) = 1..idx /\ 1..idx = 1..(idx - 1) \cup {idx}
    BY <1>1, <1>2
  <2>2. CASE pass = "plt_rel"
    <3>1. Passed = {plt_rel[i] : i \in 1..(idx - 1)} /\ r = plt_rel[idx]
          /\ Passed' = {plt_rel[i] : i \in 1..(idx' - 1)}
      BY <1>0, <1>1, <2>2 DEF Passed, Table
    <3> QED BY <2>1, <3>1
  <2>3. CASE pass = "rel"
    <3>1. Passed = Range(plt_rel) \cup {rel[i] : i \in 1..(idx - 1)} /\ r = rel[idx]
          /\ Passed' = Range(plt_rel) \cup {rel[i] : i \in 1..(idx' - 1)}
      BY <1>0, <1>1, <2>3 DEF Passed, Table
    <3> QED BY <2>1, <3>1
  <2> QED BY <1>2, <2>2, <2>3
<1>5. \A q \in Passed : q.offset # r.offset
  <2>1. CASE pass = "plt_rel"
    <3>1. r = plt_rel[idx] /\ idx \in 1..Len(plt_rel) /\ Len(plt_rel) \in Nat
      BY <1>0, <1>3, <2>1, Tables DEF Table, RelocateInv
    <3>2. \A i \in 1..(idx - 1) : i \in 1..Len(plt_rel) /\ i # idx
      BY <3>1
    <3>3. \A i \in 1..(idx - 1) : plt_rel[i].offset # r.offset
      BY <3>1, <3>2 DEF RelocateInv, OnePerPlace
    <3> QED BY <2>1, <3>3 DEF Passed
  <2>2. CASE pass = "rel"
    <3>1. r = rel[idx] /\ idx \in 1..Len(rel) /\ Len(rel) \in Nat
      BY <1>0, <1>3, <2>2, Tables DEF Table, RelocateInv
    <3>2. \A i \in 1..(idx - 1) : i \in 1..Len(rel) /\ i # idx
      BY <3>1
    <3>3. \A i \in 1..(idx - 1) : rel[i].offset # r.offset
      BY <3>1, <3>2 DEF RelocateInv, OnePerPlace
    <3>4. \A q \in Range(plt_rel) : q.offset # r.offset
      BY <3>1, Tables DEF RelocateInv, OnePerPlace
    <3> QED BY <2>2, <3>3, <3>4 DEF Passed
  <2> QED BY <1>2, <2>1, <2>2
<1>6. r.offset \in Offsets
  BY <1>3 DEF Rel
<1>7. memory[r.offset] = Addend
  BY <1>5, <1>6 DEF RelocateInv, AppliedPrefix
<1>8. Applied(r)' /\ memory' \in [Offsets -> 0..(Word - 1)]
  BY <1>1, <1>2, <1>3, <1>7, WrittenApplied
<1>9. \A o \in Offsets : o # r.offset => memory'[o] = memory[o]
  BY <1>1, <1>2
<1>10. TypeInv'
  <2>1. Len(Table)' = Len(Table)
    BY <1>1 DEF Table
  <2> QED BY <1>1, <1>2, <1>3, <1>8, <2>1 DEF RelocateInv, TypeInv
<1>11. OnePerPlace'
  BY <1>1 DEF RelocateInv, OnePerPlace
<1>12. PassedSound'
  BY <1>1, <1>4 DEF RelocateInv, PassedSound, Fails, Resolved, Found, Scope, Ref
<1>13. AppliedPrefix'
  <2>1. ASSUME NEW q \in Passed' PROVE Applied(q)'
    <3>1. CASE q = r
      BY <1>8, <3>1
    <3>2. CASE q \in Passed
      <4>1. q.offset \in Offsets
        BY <3>2, PassedInRel DEF Rel, RelocateInv
      <4>2. memory'[q.offset] = memory[q.offset]
        BY <1>5, <1>9, <3>2, <4>1
      <4> QED BY <3>2, <4>2, StaysApplied DEF RelocateInv, AppliedPrefix
    <3> QED BY <1>4, <2>1, <3>1, <3>2
  <2>2. ASSUME NEW o \in Offsets PROVE memory'[o] = Addend \/ o \in {q.offset : q \in Passed'}
    <3>1. CASE o = r.offset
      BY <1>4, <3>1
    <3>2. CASE o # r.offset
      BY <1>4, <1>9, <3>2 DEF RelocateInv, AppliedPrefix
    <3> QED BY <3>1, <3>2
  <2> QED BY <2>1, <2>2 DEF AppliedPrefix
<1> QED BY <1>10, <1>11, <1>12, <1>13 DEF RelocateInv

\* A step that passes no further relocation.
LEMMA PassedSame ==
  ASSUME RelocateInv, UNCHANGED <<plt_rel, rel, memory>>, Passed' = Passed, TypeInv'
  PROVE  RelocateInv'
<1>1. OnePerPlace'
  BY DEF RelocateInv, OnePerPlace
<1>2. PassedSound'
  BY DEF RelocateInv, PassedSound, Fails, Resolved, Found, Scope, Ref
<1>3. AppliedPrefix'
  BY StaysApplied DEF RelocateInv, AppliedPrefix
<1> QED BY <1>1, <1>2, <1>3 DEF RelocateInv

\* A relocation that fails.
LEMMA FailInv ==
  ASSUME RelocateInv, Fail
  PROVE  RelocateInv'
<1>1. UNCHANGED <<plt_rel, rel, pass, idx, memory>>
  BY DEF Fail
<1>2. Passed' = Passed /\ Table' = Table
  BY <1>1 DEF Passed, Table
<1>3. TypeInv'
  BY <1>1, <1>2 DEF RelocateInv, TypeInv
<1> QED BY <1>1, <1>2, <1>3, PassedSame

\* A table is done.
LEMMA NextTableInv ==
  ASSUME RelocateInv, NextTable
  PROVE  RelocateInv'
<1>1. /\ pass \in {"plt_rel", "rel"} /\ idx = Len(Table) + 1
      /\ pass' = IF pass = "plt_rel" THEN "rel" ELSE "linked"
      /\ idx' = 1
      /\ UNCHANGED <<plt_rel, rel, memory>>
  BY DEF NextTable, Relocating, RelocateInv, TypeInv
<1>2. TypeInv'
  <2>1. pass' # "linked" => Table' = rel
    BY <1>1 DEF Table
  <2>2. Len(rel) \in Nat
    BY Tables DEF RelocateInv
  <2> QED BY <1>1, <2>1, <2>2 DEF RelocateInv, TypeInv
<1>3. Passed' = Passed
  <2>1. CASE pass = "plt_rel"
    <3>1. idx - 1 = Len(plt_rel) /\ 1..(idx' - 1) = {}
      BY <1>1, <2>1, Tables DEF RelocateInv, Table
    <3>2. Passed = Range(plt_rel)
      BY <2>1, <3>1, Tables DEF RelocateInv, Passed
    <3>3. Passed' = Range(plt_rel) \cup {rel[i] : i \in 1..(idx' - 1)}
      BY <1>1, <2>1 DEF Passed
    <3> QED BY <3>1, <3>2, <3>3
  <2>2. CASE pass = "rel"
    <3>1. idx - 1 = Len(rel)
      BY <1>1, <2>2, Tables DEF RelocateInv, Table
    <3>2. Passed = Range(plt_rel) \cup Range(rel)
      BY <2>2, <3>1, Tables DEF RelocateInv, Passed
    <3>3. Passed' = Range(plt_rel) \cup Range(rel)
      BY <1>1, <2>2 DEF Passed
    <3> QED BY <3>2, <3>3
  <2> QED BY <1>1, <2>1, <2>2
<1> QED BY <1>1, <1>2, <1>3, PassedSame

-----------------------------------------------------------------------------
(* The theorems.                                                           *)

\* Before the first relocation.
LEMMA InitInv == Init => RelocateInv
<1> SUFFICES ASSUME Init PROVE RelocateInv
  OBVIOUS
<1>1. plt_rel \in Seq(Rel) /\ rel \in Seq(Rel)
  <2>1. PICK k \in 0..MaxRel : plt_rel \in [1..k -> {r \in Rel : r.type = "JUMP_SLOT" /\ r.sym # 0}]
    BY DEF Init
  <2>2. PICK l \in 0..MaxRel : rel \in [1..l -> Rel]
    BY DEF Init
  <2>3. \A x \in 0..MaxRel : x \in Nat
    OBVIOUS
  <2> QED BY ONLY <2>1, <2>2, <2>3
<1>2. /\ \A i, j \in DOMAIN (plt_rel \o rel) :
           i # j => (plt_rel \o rel)[i].offset # (plt_rel \o rel)[j].offset
      /\ pass = "plt_rel" /\ idx = 1 /\ memory = [o \in Offsets |-> Addend]
  BY DEF Init
<1> DEFINE n == Len(plt_rel)
           m == Len(rel)
           all == plt_rel \o rel
<1>3. n \in Nat /\ m \in Nat
  BY <1>1, LenProperties
<1>4. /\ all \in Seq(Rel) /\ Len(all) = n + m
      /\ \A i \in 1..(n + m) : all[i] = IF i <= n THEN plt_rel[i] ELSE rel[i - n]
  BY ONLY <1>1, ConcatProperties
<1>5. DOMAIN all = 1..(n + m)
  BY ONLY <1>4, LenProperties
<1>6. \A i, j \in 1..(n + m) : i # j => all[i].offset # all[j].offset
  BY <1>2, <1>5
<1>7. TypeInv
  BY <1>1, <1>2, <1>3, WordAssumption DEF TypeInv, Table
<1> HIDE DEF all, n, m
<1>8. \A i \in 1..n : i \in 1..(n + m) /\ all[i] = plt_rel[i]
  <2> SUFFICES ASSUME NEW i \in 1..n PROVE i \in 1..(n + m) /\ all[i] = plt_rel[i]
    OBVIOUS
  <2>1. i \in 1..(n + m) /\ i <= n
    BY ONLY <1>3, i \in 1..n
  <2> QED BY ONLY <1>4, <2>1
<1>9. \A i \in 1..m : n + i \in 1..(n + m) /\ n + i \notin 1..n /\ all[n + i] = rel[i]
  <2> SUFFICES ASSUME NEW i \in 1..m
               PROVE  n + i \in 1..(n + m) /\ n + i \notin 1..n /\ all[n + i] = rel[i]
    OBVIOUS
  <2>1. n + i \in 1..(n + m) /\ n + i \notin 1..n /\ ~ (n + i <= n) /\ (n + i) - n = i
    BY ONLY <1>3, i \in 1..m
  <2> QED BY ONLY <1>4, <2>1
<1>10. \A i, j \in 1..m : n + i = n + j => i = j
  BY <1>3
<1>11. OnePerPlace
  <2>1. \A i, j \in 1..n : plt_rel[i].offset = plt_rel[j].offset => i = j
    BY ONLY <1>6, <1>8
  <2>2. \A i, j \in 1..m : rel[i].offset = rel[j].offset => i = j
    BY ONLY <1>6, <1>9, <1>10
  <2>3. ASSUME NEW i \in 1..n, NEW j \in 1..m PROVE plt_rel[i].offset # rel[j].offset
    <3>1. i # n + j
      BY <1>9
    <3> QED BY ONLY <1>6, <1>8, <1>9, <3>1
  <2> QED BY <2>1, <2>2, <2>3 DEF OnePerPlace, n, m
<1>12. Passed = {}
  BY <1>2 DEF Passed
<1>13. PassedSound /\ AppliedPrefix
  BY <1>2, <1>12 DEF PassedSound, AppliedPrefix
<1> QED BY <1>7, <1>11, <1>13 DEF RelocateInv

\* At every point of both passes.
THEOREM RelocateInvariant ==
  ASSUME NoExecutable
  PROVE  Spec => []RelocateInv
<1>1. Init => RelocateInv
  BY InitInv
<1>2. RelocateInv /\ [Next]_vars => RelocateInv'
  <2> SUFFICES ASSUME RelocateInv, [Next]_vars PROVE RelocateInv'
    OBVIOUS
  <2>1. CASE Next
    BY <2>1, ApplyInv, FailInv, NextTableInv DEF Next
  <2>2. CASE UNCHANGED vars
    <3>1. UNCHANGED <<plt_rel, rel, pass, idx, memory>>
      BY <2>2 DEF vars
    <3>2. Passed' = Passed /\ Table' = Table
      BY <3>1 DEF Passed, Table
    <3>3. TypeInv'
      BY <3>1, <3>2 DEF RelocateInv, TypeInv
    <3> QED BY <3>1, <3>2, <3>3, PassedSame
  <2> QED BY <2>1, <2>2
<1> QED BY <1>1, <1>2, PTL DEF Spec

\* Exactly the relocations passed are applied, once, also when the link fails (see
\* AppliedPrefix).
THEOREM PrefixApplied ==
  ASSUME NoExecutable
  PROVE  Spec => []AppliedPrefix
<1>1. RelocateInv => AppliedPrefix
  BY DEF RelocateInv
<1> QED BY <1>1, RelocateInvariant, PTL

\* What a linked library refers to strongly is defined by a library it needs (see
\* StrongResolved).
THEOREM StrongDefined ==
  ASSUME NoExecutable
  PROVE  Spec => []StrongResolved
<1>1. RelocateInv => StrongResolved
  <2> SUFFICES ASSUME RelocateInv, pass = "linked", NEW r \in Range(plt_rel) \cup Range(rel),
                      r.type # "NONE", r.sym # 0, Ref(r).bind # "WEAK"
               PROVE  \E i \in DOMAIN needed : Definitions(needed[i], Ref(r).name) # {}
    BY DEF StrongResolved
  <2>1. r \in Passed
    BY DEF Passed
  <2>2. Resolved(r)
    BY <2>1 DEF RelocateInv, PassedSound, Fails
  <2>3. FirstIn(needed, Ref(r).name) # 0
    BY <2>2, ScopeIsNeeded DEF Resolved, Found
  <2>4. Ref(r).name \in Name
    BY <2>1, PassedInRel, RefIs DEF RelocateInv
  <2> QED BY <2>3, <2>4, LibsAssumption, FirstLibrary
<1> QED BY <1>1, RelocateInvariant, PTL

=============================================================================
