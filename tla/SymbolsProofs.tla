--------------------------- MODULE SymbolsProofs ----------------------------
(***************************************************************************)
(* What the lookups of Symbols find, for every symbol and hash table, and  *)
(* the facts about positions and remainders it takes.                      *)
(***************************************************************************)
EXTENDS Symbols, SequenceTheorems, WellFoundedInduction, TLAPS

\* A set of naturals has a least element.
LEMMA Least ==
  ASSUME NEW T \in SUBSET Nat, T # {}
  PROVE  \E x \in T : \A y \in T : x <= y
<1>1. PICK R : IsWellFoundedOn(R, Nat) /\ \A x, y \in Nat : x < y => <<x, y>> \in R
  <2>1. \A x, y \in Nat : x < y => <<x, y>> \in OpToRel(<, Nat)
    BY DEF OpToRel
  <2> QED BY <2>1, NatLessThanWellFounded, Zenon
<1>2. PICK x \in T : \A y \in T : ~ (<<y, x>> \in R)
  <2>1. T \subseteq Nat
    OBVIOUS
  <2>2. IsWellFoundedOn(R, Nat)
    BY <1>1
  <2> QED BY ONLY <2>1, <2>2, T # {}, WFMin
<1>3. ASSUME NEW y \in T PROVE x <= y
  <2>1. ~ (y < x)
    BY <1>1, <1>2
  <2> QED BY <2>1
<1> QED BY <1>3

\* FirstOf is 0 of no positions, and otherwise the least of them.
LEMMA FirstOfIs ==
  ASSUME NEW I \in SUBSET (Nat \ {0})
  PROVE  /\ FirstOf(I) = 0 <=> I = {}
         /\ FirstOf(I) # 0 => FirstOf(I) \in I /\ \A j \in I : FirstOf(I) <= j
<1>1. CASE I = {}
  BY <1>1 DEF FirstOf
<1>2. CASE I # {}
  <2>1. \E x \in I : \A y \in I : x <= y
    BY <1>2, Least
  <2>2. Min(I) \in I /\ \A y \in I : Min(I) <= y
    BY <2>1 DEF Min
  <2> QED BY <1>2, <2>2 DEF FirstOf
<1> QED BY <1>1, <1>2

\* The quotient and the remainder of a division.
LEMMA Division ==
  ASSUME NEW W \in Nat \ {0}, NEW a \in Nat
  PROVE  a = (a \div W) * W + (a % W) /\ a \div W \in Nat /\ a % W \in 0..(W - 1)
OBVIOUS

\* A sequence without its i-th element.
LEMMA Without ==
  ASSUME NEW S, NEW s \in Seq(S), NEW i \in 1..Len(s), NEW t,
         t = SubSeq(s, 1, i - 1) \o SubSeq(s, i + 1, Len(s))
  PROVE  /\ t \in Seq(S)
         /\ Len(t) = Len(s) - 1
         /\ \A j \in 1..(Len(s) - 1) : t[j] = IF j < i THEN s[j] ELSE s[j + 1]
<1> DEFINE a == SubSeq(s, 1, i - 1)
           b == SubSeq(s, i + 1, Len(s))
           n == Len(s)
<1>1. n \in Nat /\ i \in Nat /\ i > 0 /\ i <= n
  BY LenProperties
<1>2. a \in Seq(S) /\ Len(a) = i - 1 /\ \A j \in 1..(i - 1) : a[j] = s[j]
  <2>1. \A j \in 1..(i - 1) : s[j] \in S
    BY <1>1, ElementOfSeq
  <2> QED BY <1>1, <2>1, SubSeqProperties
<1>3. b \in Seq(S) /\ Len(b) = n - i /\ \A j \in 1..(n - i) : b[j] = s[i + j]
  <2>1. \A j \in (i + 1)..n : s[j] \in S
    BY <1>1, ElementOfSeq
  <2>2. Len(b) = IF i + 1 <= n THEN n - (i + 1) + 1 ELSE 0
    BY <1>1, <2>1, SubSeqProperties
  <2> QED BY <1>1, <2>1, <2>2, SubSeqProperties
<1>0. t = a \o b
  OBVIOUS
<1> HIDE DEF a, b
<1>4. t \in Seq(S) /\ Len(t) = Len(a) + Len(b)
      /\ \A j \in 1..(Len(a) + Len(b)) : t[j] = IF j <= Len(a) THEN a[j] ELSE b[j - Len(a)]
  <2>1. a \in Seq(S) /\ b \in Seq(S)
    BY <1>2, <1>3
  <2> QED BY ONLY <1>0, <2>1, ConcatProperties
<1> HIDE DEF n
<1>5. Len(t) = n - 1
  BY ONLY <1>1, <1>2, <1>3, <1>4
<1>6. ASSUME NEW j \in 1..(n - 1) PROVE t[j] = IF j < i THEN s[j] ELSE s[j + 1]
  <2>0. j \in Nat /\ 1 <= j /\ j <= n - 1
    BY ONLY <1>1, j \in 1..(n - 1)
  <2>1. j \in 1..(Len(a) + Len(b)) /\ (j <= Len(a) <=> j < i)
    BY ONLY <1>1, <1>2, <1>3, <2>0
  <2>2. CASE j < i
    BY ONLY <1>1, <1>2, <1>4, <2>0, <2>1, <2>2
  <2>3. CASE j >= i
    <3>1. t[j] = b[j - Len(a)] /\ j - Len(a) \in 1..(n - i) /\ i + (j - Len(a)) = j + 1
      BY ONLY <1>1, <1>2, <1>4, <2>0, <2>1, <2>3
    <3>2. b[j - Len(a)] = s[i + (j - Len(a))]
      BY ONLY <1>3, <3>1
    <3> QED BY ONLY <1>1, <2>0, <2>3, <3>1, <3>2
  <2> QED BY ONLY <1>1, <2>0, <2>2, <2>3
<1> QED BY <1>4, <1>5, <1>6 DEF n

\* The chain a name's hash selects is one of the library's, and holds every symbol
\* of that name.
LEMMA ChainIs ==
  ASSUME NEW L \in Lib, NEW name \in Name
  PROVE  /\ Symtab[L] \in Seq(Symbol)
         /\ Chain(L, name) \in Seq(DOMAIN Symtab[L])
         /\ \A n \in DOMAIN Symtab[L] :
              Symtab[L][n].name = name => \E k \in DOMAIN Chain(L, name) : Chain(L, name)[k] = n
<1>1. Symtab[L] \in Seq(Symbol)
  BY SymtabAssumption
<1>2. Chains[L] \in Seq(Seq(DOMAIN Symtab[L])) /\ Len(Chains[L]) \in Nat \ {0}
  <2>1. Chains[L] \in Seq(Seq(DOMAIN Symtab[L])) /\ Chains[L] # <<>>
    BY ChainsAssumption
  <2> QED BY ONLY <2>1, LenProperties, EmptySeq
<1>3. (Hash[name] % Len(Chains[L])) + 1 \in 1..Len(Chains[L])
  <2>1. Hash[name] \in Nat
    BY HashAssumption
  <2>2. Hash[name] % Len(Chains[L]) \in 0..(Len(Chains[L]) - 1)
    BY <1>2, <2>1, Division
  <2> QED BY <1>2, <2>2
<1>4. Chain(L, name) \in Seq(DOMAIN Symtab[L])
  BY <1>2, <1>3, ElementOfSeq DEF Chain
<1>5. ASSUME NEW n \in DOMAIN Symtab[L], Symtab[L][n].name = name
      PROVE  \E k \in DOMAIN Chain(L, name) : Chain(L, name)[k] = n
  BY <1>5, ChainsAssumption DEF Chain
<1> QED BY <1>1, <1>4, <1>5

\* soinfo_elf_lookup finds a definition of the name, if the library has one.
THEOREM Lookup ==
  ASSUME NEW L \in Lib, NEW name \in Name
  PROVE  /\ soinfo_elf_lookup(L, name) = 0 <=> Definitions(L, name) = {}
         /\ soinfo_elf_lookup(L, name) # 0 =>
              soinfo_elf_lookup(L, name) \in Definitions(L, name)
<1> DEFINE chain  == Chain(L, name)
           hits   == {j \in DOMAIN chain : Symtab[L][chain[j]].name = name
                                             /\ Exported(Symtab[L][chain[j]])}
           k      == FirstOf(hits)
<1>1. soinfo_elf_lookup(L, name) = IF k = 0 THEN 0 ELSE chain[k]
  BY DEF soinfo_elf_lookup
<1>2. chain \in Seq(DOMAIN Symtab[L]) /\ DOMAIN chain = 1..Len(chain) /\ Len(chain) \in Nat
  BY ChainIs, LenProperties
<1>3. DOMAIN Symtab[L] \subseteq Nat \ {0}
  <2>1. DOMAIN Symtab[L] = 1..Len(Symtab[L]) /\ Len(Symtab[L]) \in Nat
    BY ChainIs, LenProperties
  <2> QED BY <2>1
<1>4. \A j \in DOMAIN chain : chain[j] \in DOMAIN Symtab[L]
  BY ONLY <1>2, ElementOfSeq
<1>5. /\ k = 0 <=> hits = {}
      /\ k # 0 => k \in hits
  <2>1. hits \in SUBSET (Nat \ {0})
    BY <1>2
  <2> HIDE DEF hits
  <2> QED BY <2>1, FirstOfIs
<1>6. ASSUME NEW n \in Definitions(L, name) PROVE hits # {}
  <2>1. n \in DOMAIN Symtab[L] /\ Symtab[L][n].name = name /\ Exported(Symtab[L][n])
    BY <1>6 DEF Definitions
  <2>2. PICK j \in DOMAIN chain : chain[j] = n
    BY <2>1, ChainIs
  <2> QED BY <2>1, <2>2
<1>7. ASSUME k # 0 PROVE chain[k] \in Definitions(L, name) /\ chain[k] # 0
  <2>1. k \in hits
    BY <1>5, <1>7
  <2> HIDE DEF k
  <2> QED BY <1>3, <1>4, <2>1 DEF Definitions
<1> HIDE DEF k, hits, chain
<1> QED BY <1>1, <1>5, <1>6, <1>7

\* FirstIn finds the first library of a search list that defines the name.
THEOREM FirstLibrary ==
  ASSUME NEW libs \in Seq(Lib), NEW name \in Name
  PROVE  /\ FirstIn(libs, name) = 0 <=> \A i \in DOMAIN libs : Definitions(libs[i], name) = {}
         /\ FirstIn(libs, name) # 0 =>
              /\ FirstIn(libs, name) \in DOMAIN libs
              /\ Definitions(libs[FirstIn(libs, name)], name) # {}
              /\ \A j \in DOMAIN libs : Definitions(libs[j], name) # {} => FirstIn(libs, name) <= j
<1> DEFINE hits == {i \in DOMAIN libs : soinfo_elf_lookup(libs[i], name) # 0}
<1>1. DOMAIN libs = 1..Len(libs) /\ Len(libs) \in Nat /\ \A i \in DOMAIN libs : libs[i] \in Lib
  BY LenProperties, ElementOfSeq
<1>2. hits = {i \in DOMAIN libs : Definitions(libs[i], name) # {}}
  BY <1>1, Lookup
<1>3. FirstIn(libs, name) = FirstOf(hits)
  BY DEF FirstIn
<1>4. hits \in SUBSET (Nat \ {0})
  BY <1>1
<1> HIDE DEF hits
<1>5. /\ FirstOf(hits) = 0 <=> hits = {}
      /\ FirstOf(hits) # 0 => FirstOf(hits) \in hits /\ \A j \in hits : FirstOf(hits) <= j
  BY <1>4, FirstOfIs
<1> QED BY <1>2, <1>3, <1>5

=============================================================================
