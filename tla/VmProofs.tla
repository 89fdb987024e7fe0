------------------------------ MODULE VmProofs ------------------------------
(***************************************************************************)
(* Proofs about Vm and Dynamic: a library of any file is linked as the     *)
(* file says and its functions entered in the file's order, and start_vm   *)
(* answers 1 only for a library whose functions the guest has entered.     *)
(*                                                                         *)
(* The properties speak of the file as a whole, the program goes through   *)
(* it entry by entry: the invariant (LinkInv) says that the soinfo, needed *)
(* and calls are what the entries, or the functions, passed so far ask     *)
(* for.  What one more of them changes is a matter of Filter, which is a   *)
(* recursive function: its lemmas go by induction over the set of the      *)
(* lengths at which they hold (Least, Induction).  Of start_vm, the        *)
(* invariant (RunInv) has what the guest has entered at each place.        *)
(***************************************************************************)
EXTENDS Vm, SequenceTheorems, WellFoundedInduction, TLAPS

-----------------------------------------------------------------------------
(* Induction.                                                              *)

\* A set of naturals has a least element.
LEMMA Least ==
  ASSUME NEW T \in SUBSET Nat, T # {}
  PROVE  \E x \in T : \A y \in T : x <= y
<1>1. PICK R : IsWellFoundedOn(R, Nat) /\ \A x, y \in Nat : x < y => <<x, y>> \in R
  <2>1. \A x, y \in Nat : x < y => <<x, y>> \in OpToRel(<, Nat)
    BY DEF OpToRel
  <2> QED BY <2>1, NatLessThanWellFounded, Zenon
<1>2. PICK x \in T : \A y \in T : ~ (<<y, x>> \in R)
  <2>1. T \subseteq Nat
    OBVIOUS
  <2>2. IsWellFoundedOn(R, Nat)
    BY <1>1
  <2> QED BY ONLY <2>1, <2>2, T # {}, WFMin
<1>3. ASSUME NEW y \in T PROVE x <= y
  <2>1. ~ (y < x)
    BY <1>1, <1>2
  <2> QED BY <2>1
<1> QED BY <1>3

\* A set with 0, and with the successor of each natural up to n in it, has the
\* naturals up to n: induction, of a set in place of a predicate.
LEMMA Induction ==
  ASSUME NEW n \in Nat, NEW I, 0 \in I, \A k \in 0..(n - 1) : k \in I => k + 1 \in I
  PROVE  0..n \subseteq I
<1> DEFINE T == (0..n) \ I
<1> SUFFICES ASSUME T # {} PROVE FALSE
  OBVIOUS
<1>1. PICK x \in T : \A y \in T : x <= y
  <2>1. T \in SUBSET Nat
    OBVIOUS
  <2> HIDE DEF T
  <2> QED BY <2>1, Least
<1>2. x \in 0..n /\ x \notin I /\ x # 0
  OBVIOUS
<1>3. x - 1 \in 0..(n - 1) /\ (x - 1) + 1 = x /\ x - 1 \in 0..n /\ ~ (x <= x - 1)
  BY ONLY <1>2, n \in Nat
<1>4. x - 1 \in I
  BY <1>1, <1>3
<1> QED BY <1>2, <1>3, <1>4

-----------------------------------------------------------------------------
(* Filter.                                                                 *)

\* Appending to the second of two sequences appends to both together.
LEMMA ConcatAppend ==
  ASSUME NEW T, NEW s \in Seq(T), NEW t \in Seq(T), NEW x \in T
  PROVE  s \o Append(t, x) = Append(s \o t, x)
<1>1. Append(t, x) = t \o <<x>> /\ <<x>> \in Seq(T) /\ s \o t \in Seq(T)
  BY AppendIsConcat, ConcatProperties
<1>2. Append(s \o t, x) = (s \o t) \o <<x>>
  BY <1>1, AppendIsConcat
<1> QED BY <1>1, <1>2, ConcatAssociative

\* The first k + 1 elements of a sequence.
LEMMA PrefixStep ==
  ASSUME NEW T, NEW s \in Seq(T), NEW k \in Nat, k + 1 <= Len(s)
  PROVE  /\ SubSeq(s, 1, k) \in Seq(T)
         /\ SubSeq(s, 1, k + 1) = Append(SubSeq(s, 1, k), s[k + 1])
<1>1. /\ Len(s) \in Nat /\ k + 1 \in 1..Len(s) /\ 1 \in 1..Len(s) /\ k + 1 \in 1..Len(s) /\ (k + 1) - 1 = k
      /\ \A i \in 1..k : i \in 1..Len(s)
  BY LenProperties
<1>2. s[k + 1] \in T /\ \A i \in 1..k : s[i] \in T
  BY <1>1, ElementOfSeq
<1>3. SubSeq(s, 1, k) \in Seq(T)
  BY <1>2, SubSeqProperties
<1>4. SubSeq(s, 1, k + 1) = SubSeq(s, 1, k) \o <<s[k + 1]>>
  BY <1>1, SubSeqRecursiveSecond
<1> QED BY <1>2, <1>3, <1>4, AppendIsConcat

\* What Filter has kept of the first n elements of s.
Keeps(kept, s, S, m) ==
  kept = [n \in 0..m |-> IF n = 0 THEN <<>>
                         ELSE IF s[n] \in S THEN Append(kept[n - 1], s[n]) ELSE kept[n - 1]]

\* There is such a function: the recursion of Filter has a solution.
LEMMA KeptExists ==
  ASSUME NEW s, NEW S, NEW m \in Nat
  PROVE  \E kept : Keeps(kept, s, S, m)
<1> DEFINE I == {n \in Nat : \E kept : Keeps(kept, s, S, n)}
<1>1. 0 \in I
  <2> DEFINE f == [n \in 0..0 |-> <<>>]
  <2>1. Keeps(f, s, S, 0)
    BY DEF Keeps
  <2> QED BY <2>1
<1>2. ASSUME NEW k \in 0..(m - 1), k \in I PROVE k + 1 \in I
  <2>1. PICK f : Keeps(f, s, S, k)
    BY <1>2
  <2> DEFINE x == IF s[k + 1] \in S THEN Append(f[k], s[k + 1]) ELSE f[k]
             g == [n \in 0..(k + 1) |-> IF n = k + 1 THEN x ELSE f[n]]
             step(n) == IF n = 0 THEN <<>>
                        ELSE IF s[n] \in S THEN Append(g[n - 1], s[n]) ELSE g[n - 1]
  <2>2. k \in Nat /\ k + 1 \in Nat /\ k \in 0..(k + 1) /\ k # k + 1 /\ k + 1 # 0 /\ (k + 1) - 1 = k
        /\ k + 1 \in 0..(k + 1)
    OBVIOUS
  <2>3. ASSUME NEW n \in 0..(k + 1) PROVE g[n] = step(n)
    <3>1. CASE n = k + 1
      <4>1. g[k + 1] = x /\ g[k] = f[k]
        BY <2>2
      <4> QED BY <2>2, <3>1, <4>1
    <3>2. CASE n # k + 1
      <4>1. n \in 0..k /\ g[n] = f[n]
        BY <2>2, <3>2
      <4>2. n # 0 => n - 1 \in 0..(k + 1) /\ n - 1 # k + 1
        BY <2>2, <4>1
      <4>3. n # 0 => g[n - 1] = f[n - 1]
        BY <4>2
      <4>4. f[n] = IF n = 0 THEN <<>>
                   ELSE IF s[n] \in S THEN Append(f[n - 1], s[n]) ELSE f[n - 1]
        BY <2>1, <4>1 DEF Keeps
      <4> QED BY <4>1, <4>3, <4>4
    <3> QED BY <3>1, <3>2
  <2>4. g = [n \in 0..(k + 1) |-> step(n)]
    <3>1. \A n \in 0..(k + 1) : g[n] = step(n)
      BY <2>3
    <3>2. g = [n \in 0..(k + 1) |-> g[n]]
      OBVIOUS
    <3> HIDE DEF g
    <3> QED BY <3>1, <3>2
  <2>5. Keeps(g, s, S, k + 1)
    <3> HIDE DEF g
    <3> QED BY <2>4 DEF Keeps
  <2> QED BY <2>2, <2>5
<1>3. 0..m \subseteq I
  <2> HIDE DEF I
  <2> QED BY <1>1, <1>2, Induction
<1> QED BY <1>3

\* Filter is its last value.
LEMMA FilterKeeps ==
  ASSUME NEW s, NEW S, Len(s) \in Nat
  PROVE  \E kept : Keeps(kept, s, S, Len(s)) /\ Filter(s, S) = kept[Len(s)]
<1> DEFINE kept == CHOOSE kept : Keeps(kept, s, S, Len(s))
<1>1. Keeps(kept, s, S, Len(s))
  BY KeptExists
<1>2. Filter(s, S) = kept[Len(s)]
  BY DEF Filter, Keeps
<1> QED BY <1>1, <1>2

\* Sequences with their first k elements in common have the same kept of those.
LEMMA KeptSame ==
  ASSUME NEW s, NEW t, NEW S, NEW m \in Nat, NEW l \in Nat, NEW k \in Nat, k <= m, k <= l,
         \A i \in 1..k : s[i] = t[i],
         NEW f, Keeps(f, s, S, m), NEW g, Keeps(g, t, S, l)
  PROVE  f[k] = g[k]
<1> DEFINE I == {n \in 0..k : f[n] = g[n]}
<1>1. 0 \in I
  <2>1. 0 \in 0..m /\ 0 \in 0..l /\ 0 \in 0..k
    OBVIOUS
  <2>2. f[0] = <<>> /\ g[0] = <<>>
    BY <2>1 DEF Keeps
  <2> QED BY <2>1, <2>2
<1>2. ASSUME NEW n \in 0..(k - 1), n \in I PROVE n + 1 \in I
  <2>1. /\ n + 1 \in 0..m /\ n + 1 \in 0..l /\ n + 1 \in 0..k /\ n + 1 \in 1..k
        /\ n + 1 # 0 /\ (n + 1) - 1 = n
    OBVIOUS
  <2>2. f[n] = g[n] /\ s[n + 1] = t[n + 1]
    BY <1>2, <2>1
  <2>3. f[n + 1] = IF s[n + 1] \in S THEN Append(f[n], s[n + 1]) ELSE f[n]
    BY <2>1 DEF Keeps
  <2>4. g[n + 1] = IF t[n + 1] \in S THEN Append(g[n], t[n + 1]) ELSE g[n]
    BY <2>1 DEF Keeps
  <2> QED BY <2>1, <2>2, <2>3, <2>4
<1>3. 0..k \subseteq I
  <2> HIDE DEF I
  <2> QED BY <1>1, <1>2, Induction
<1>4. k \in 0..k
  OBVIOUS
<1> QED BY <1>3, <1>4

\* Nothing is kept of nothing.
LEMMA FilterEmpty == \A S : Filter(<<>>, S) = <<>>
<1> SUFFICES ASSUME NEW S PROVE Filter(<<>>, S) = <<>>
  OBVIOUS
<1>1. Len(<<>>) = 0
  BY EmptySeq
<1>2. PICK f : Keeps(f, <<>>, S, 0) /\ Filter(<<>>, S) = f[0]
  BY <1>1, FilterKeeps
<1>3. 0 \in 0..0
  OBVIOUS
<1> QED BY <1>2, <1>3 DEF Keeps

\* One more element.
LEMMA FilterAppend ==
  ASSUME NEW T, NEW s \in Seq(T), NEW x \in T, NEW S
  PROVE  Filter(Append(s, x), S) = IF x \in S THEN Append(Filter(s, S), x) ELSE Filter(s, S)
<1> DEFINE n == Len(s)
           t == Append(s, x)
<1>1. n \in Nat /\ Len(t) = n + 1 /\ t[n + 1] = x /\ \A i \in 1..n : t[i] = s[i]
  BY LenProperties, AppendProperties
<1>2. PICK f : Keeps(f, s, S, n) /\ Filter(s, S) = f[n]
  BY <1>1, FilterKeeps
<1>3. PICK g : Keeps(g, t, S, n + 1) /\ Filter(t, S) = g[n + 1]
  <2>1. Len(t) \in Nat
    BY <1>1
  <2> QED BY <1>1, <2>1, FilterKeeps
<1> HIDE DEF n, t
<1>4. n <= n /\ n <= n + 1 /\ n + 1 \in Nat /\ n + 1 \in 0..(n + 1) /\ n + 1 # 0 /\ (n + 1) - 1 = n
  BY <1>1
<1>5. f[n] = g[n]
  <2>1. \A i \in 1..n : s[i] = t[i]
    BY <1>1
  <2>2. n \in Nat /\ Keeps(f, s, S, n) /\ Keeps(g, t, S, n + 1)
    BY <1>1, <1>2, <1>3
  <2> QED BY ONLY <1>4, <2>1, <2>2, KeptSame
<1>6. g[n + 1] = IF t[n + 1] \in S THEN Append(g[n], t[n + 1]) ELSE g[n]
  BY ONLY <1>3, <1>4 DEF Keeps
<1> QED BY <1>1, <1>2, <1>3, <1>5, <1>6 DEF t

\* Induction over sequences: a set with the empty one in it, and with each sequence
\* in it one element longer, has them all.
LEMMA SequenceInduction ==
  ASSUME NEW T, NEW I, <<>> \in I,
         \A s \in Seq(T), x \in T : s \in I => Append(s, x) \in I
  PROVE  Seq(T) \subseteq I
<1> DEFINE K == {n \in Nat : \A s \in Seq(T) : Len(s) = n => s \in I}
<1>1. 0 \in K
  <2>1. ASSUME NEW s \in Seq(T), Len(s) = 0 PROVE s = <<>>
    BY <2>1, EmptySeq
  <2> QED BY <2>1
<1>2. ASSUME NEW n \in Nat, n \in K PROVE n + 1 \in K
  <2>1. ASSUME NEW s \in Seq(T), Len(s) = n + 1 PROVE s \in I
    <3>1. s # <<>>
      BY <2>1, EmptySeq
    <3>2. PICK r \in Seq(T), x \in T : s = Append(r, x)
      BY <3>1, SequenceEmptyOrAppend
    <3>3. Len(r) \in Nat /\ Len(s) = Len(r) + 1
      BY <3>2, AppendProperties, LenProperties
    <3>4. Len(r) = n
      BY ONLY <2>1, <3>3, n \in Nat
    <3> QED BY <1>2, <3>2, <3>4
  <2> QED BY <2>1
<1>3. ASSUME NEW s \in Seq(T) PROVE s \in I
  <2>1. Len(s) \in Nat
    BY LenProperties
  <2> HIDE DEF K
  <2>2. 0..Len(s) \subseteq K
    <3>1. \A k \in 0..(Len(s) - 1) : k \in K => k + 1 \in K
      BY <1>2, <2>1
    <3> QED BY ONLY <1>1, <2>1, <3>1, Induction
  <2>3. Len(s) \in 0..Len(s)
    BY <2>1
  <2> QED BY <2>2, <2>3 DEF K
<1> QED BY <1>3

\* What is kept is in S.
LEMMA FilterType ==
  ASSUME NEW T, NEW s \in Seq(T), NEW S
  PROVE  Filter(s, S) \in Seq(S \cap T)
<1> DEFINE I == {t \in Seq(T) : Filter(t, S) \in Seq(S \cap T)}
<1>1. <<>> \in I
  BY FilterEmpty, EmptySeq
<1>2. ASSUME NEW t \in Seq(T), NEW x \in T, t \in I PROVE Append(t, x) \in I
  <2>1. Append(t, x) \in Seq(T)
    BY AppendProperties
  <2>2. Filter(Append(t, x), S) = IF x \in S THEN Append(Filter(t, S), x) ELSE Filter(t, S)
    BY FilterAppend
  <2>3. Filter(t, S) \in Seq(S \cap T)
    BY <1>2
  <2>4. x \in S => Append(Filter(t, S), x) \in Seq(S \cap T)
    BY <2>3, AppendProperties
  <2> QED BY <2>1, <2>2, <2>3, <2>4
<1>3. Seq(T) \subseteq I
  <2> HIDE DEF I
  <2> QED BY <1>1, <1>2, SequenceInduction
<1> QED BY <1>3

\* One sequence after another.
LEMMA FilterConcat ==
  ASSUME NEW T, NEW s \in Seq(T), NEW t \in Seq(T), NEW S
  PROVE  Filter(s \o t, S) = Filter(s, S) \o Filter(t, S)
<1> DEFINE I == {u \in Seq(T) : Filter(s \o u, S) = Filter(s, S) \o Filter(u, S)}
<1>0. Filter(s, S) \in Seq(S \cap T)
  BY FilterType
<1>1. <<>> \in I
  <2>1. <<>> \in Seq(T) /\ s \o <<>> = s /\ Filter(<<>>, S) = <<>>
    BY EmptySeq, ConcatEmptySeq, FilterEmpty
  <2>2. Filter(s, S) \o <<>> = Filter(s, S)
    BY <1>0, ConcatEmptySeq
  <2> QED BY <2>1, <2>2
<1>2. ASSUME NEW u \in Seq(T), NEW x \in T, u \in I PROVE Append(u, x) \in I
  <2>1. s \o u \in Seq(T) /\ Append(u, x) \in Seq(T)
    BY ConcatProperties, AppendProperties
  <2>2. s \o Append(u, x) = Append(s \o u, x)
    BY ConcatAppend
  <2>3. Filter(Append(s \o u, x), S) = IF x \in S THEN Append(Filter(s \o u, S), x) ELSE Filter(s \o u, S)
    BY <2>1, FilterAppend
  <2>4. Filter(Append(u, x), S) = IF x \in S THEN Append(Filter(u, S), x) ELSE Filter(u, S)
    BY FilterAppend
  <2>5. Filter(u, S) \in Seq(S \cap T)
    BY FilterType
  <2>6. x \in S => Filter(s, S) \o Append(Filter(u, S), x) = Append(Filter(s, S) \o Filter(u, S), x)
    <3> SUFFICES ASSUME x \in S PROVE Filter(s, S) \o Append(Filter(u, S), x) = Append(Filter(s, S) \o Filter(u, S), x)
      OBVIOUS
    <3>1. x \in S \cap T
      OBVIOUS
    <3> QED BY ONLY <1>0, <2>5, <3>1, ConcatAppend
  <2>7. Filter(s \o u, S) = Filter(s, S) \o Filter(u, S)
    BY <1>2
  <2> QED BY <2>1, <2>2, <2>3, <2>4, <2>6, <2>7
<1>3. Seq(T) \subseteq I
  <2> HIDE DEF I
  <2> QED BY <1>1, <1>2, SequenceInduction
<1> QED BY <1>3

-----------------------------------------------------------------------------
(* Tags and fields.                                                        *)

\* The tags that are extracted and those that are not, apart from each other.
LEMMA TagsApart ==
  /\ DOMAIN Pointers = {"STRTAB", "SYMTAB", "JMPREL", "REL", "PLTGOT", "INIT", "FINI",
                        "INIT_ARRAY", "FINI_ARRAY", "PREINIT_ARRAY"}
  /\ DOMAIN Counts = {"PLTRELSZ", "RELSZ", "INIT_ARRAYSZ", "FINI_ARRAYSZ", "PREINIT_ARRAYSZ"}
  /\ DOMAIN Flags = {"TEXTREL", "SYMBOLIC"}
BY DEF Pointers, Counts, Flags

PointerFields == {Pointers[t] : t \in DOMAIN Pointers}
CountFields   == {Counts[t][1] : t \in DOMAIN Counts}
OtherFields   == {"has_text_relocations", "has_DT_SYMBOLIC", "nbucket", "nchain", "bucket", "chain",
                  "ARM_exidx", "ARM_exidx_count"}

\* Each tag has a field of its own.
LEMMA FieldsApart ==
  /\ \A t, u \in DOMAIN Pointers : Pointers[t] = Pointers[u] => t = u
  /\ \A t, u \in DOMAIN Counts : Counts[t][1] = Counts[u][1] => t = u
  /\ PointerFields \cap CountFields = {} /\ PointerFields \cap OtherFields = {}
  /\ CountFields \cap OtherFields = {}
  /\ PointerFields \cup CountFields \cup OtherFields = Fields
<1>1. \A t, u \in DOMAIN Pointers : Pointers[t] = Pointers[u] => t = u
  BY DEF Pointers
<1>2. \A t, u \in DOMAIN Counts : Counts[t][1] = Counts[u][1] => t = u
  BY DEF Counts
<1>3. PointerFields = {"strtab", "symtab", "plt_rel", "rel", "plt_got", "init_func", "fini_func",
                       "init_array", "fini_array", "preinit_array"}
  BY DEF PointerFields, Pointers
<1>4. CountFields = {"plt_rel_count", "rel_count", "init_array_count", "fini_array_count",
                     "preinit_array_count"}
  BY DEF CountFields, Counts
<1>5. {Flags[t] : t \in DOMAIN Flags} = {"has_text_relocations", "has_DT_SYMBOLIC"}
  BY DEF Flags
<1>6. Fields = PointerFields \cup CountFields \cup OtherFields
  BY <1>5 DEF Fields, PointerFields, CountFields, OtherFields
<1> QED BY <1>1, <1>2, <1>3, <1>4, <1>6 DEF OtherFields

-----------------------------------------------------------------------------
(* The entries of a dynamic section.                                       *)

\* What a file says of its entries.
LEMMA FileIs ==
  ASSUME file \in Files
  PROVE  /\ file.dynamic \in Seq(Entry) /\ Len(file.dynamic) \in Nat
         /\ DOMAIN file.dynamic = 1..Len(file.dynamic)
         /\ \A k \in 1..Len(file.dynamic) :
              /\ file.dynamic[k] \in Entry
              /\ file.dynamic[k].d_tag \in Tags /\ file.dynamic[k].d_un \in 0..(Word - 1)
<1>1. file.dynamic \in Seq(Entry)
  BY FilesAssumption DEF IsFile
<1>2. Len(file.dynamic) \in Nat /\ DOMAIN file.dynamic = 1..Len(file.dynamic)
  BY <1>1, LenProperties
<1>3. \A k \in 1..Len(file.dynamic) : file.dynamic[k] \in Entry
  BY <1>1, ElementOfSeq
<1>4. \A e \in Entry : e.d_tag \in Tags /\ e.d_un \in 0..(Word - 1)
  BY DEF Entry
<1> QED BY <1>1, <1>2, <1>3, <1>4

\* A section has a first DT_NULL.
LEMMA EndIs ==
  ASSUME file \in Files, file.dynamic # <<>>
  PROVE  /\ End \in 1..Len(file.dynamic) /\ End \in Nat /\ End >= 1 /\ End <= Len(file.dynamic)
         /\ file.dynamic[End].d_tag = "NULL"
         /\ \A j \in 1..(End - 1) : file.dynamic[j].d_tag # "NULL"
<1> DEFINE T == {k \in DOMAIN file.dynamic : file.dynamic[k].d_tag = "NULL"}
<1>1. T # {} /\ T \in SUBSET Nat
  BY FileIs, FilesAssumption
<1>2. PICK x \in T : \A y \in T : x <= y
  <2> HIDE DEF T
  <2> QED BY <1>1, Least
<1>3. x \in DOMAIN file.dynamic /\ x \in 1..Len(file.dynamic) /\ Len(file.dynamic) \in Nat
  BY <1>2, FileIs
<1>4. \A j \in 1..(x - 1) : file.dynamic[j].d_tag # "NULL"
  <2> SUFFICES ASSUME NEW j \in 1..(x - 1), file.dynamic[j].d_tag = "NULL" PROVE FALSE
    OBVIOUS
  <2>1. j \in 1..Len(file.dynamic) /\ ~ (x <= j)
    BY ONLY <1>3, j \in 1..(x - 1)
  <2>2. j \in T
    BY <2>1, FileIs
  <2> QED BY <1>2, <2>1, <2>2
<1>5. /\ End \in DOMAIN file.dynamic /\ file.dynamic[End].d_tag = "NULL"
      /\ \A j \in 1..(End - 1) : file.dynamic[j].d_tag # "NULL"
  BY <1>3, <1>4 DEF End
<1>6. End \in 1..Len(file.dynamic)
  BY <1>5, FileIs
<1> QED BY <1>3, <1>5, <1>6

\* The entries among the first k + 1.
LEMMA AmongStep ==
  ASSUME file \in Files, NEW k \in Nat, k + 1 <= Len(file.dynamic), NEW tags
  PROVE  Among(k + 1, tags) = IF file.dynamic[k + 1].d_tag \in tags
                              THEN Append(Among(k, tags), file.dynamic[k + 1])
                              ELSE Among(k, tags)
<1> DEFINE s == file.dynamic
           S == {e \in Entry : e.d_tag \in tags}
<1>1. s \in Seq(Entry) /\ Len(s) \in Nat
  BY FileIs
<1>2. k + 1 \in 1..Len(s)
  BY <1>1
<1>3. s[k + 1] \in Entry
  BY <1>2, FileIs
<1>4. SubSeq(s, 1, k + 1) = Append(SubSeq(s, 1, k), s[k + 1]) /\ SubSeq(s, 1, k) \in Seq(Entry)
  <2> HIDE DEF s
  <2> QED BY <1>1, <1>2, <1>3, PrefixStep
<1>5. Filter(SubSeq(s, 1, k + 1), S) = IF s[k + 1] \in S THEN Append(Filter(SubSeq(s, 1, k), S), s[k + 1])
                                       ELSE Filter(SubSeq(s, 1, k), S)
  <2> HIDE DEF s, S
  <2>1. ASSUME NEW p \in Seq(Entry), NEW x \in Entry
        PROVE  Filter(Append(p, x), S) = IF x \in S THEN Append(Filter(p, S), x) ELSE Filter(p, S)
    BY FilterAppend
  <2> QED BY ONLY <1>3, <1>4, <2>1
<1>6. s[k + 1] \in S <=> s[k + 1].d_tag \in tags
  BY <1>3
<1> HIDE DEF s
<1> QED BY <1>5, <1>6 DEF Among, s

\* None among none.
LEMMA AmongNone ==
  ASSUME file \in Files, NEW tags
  PROVE  Among(0, tags) = <<>>
<1>1. SubSeq(file.dynamic, 1, 0) = <<>>
  BY SubSeqEmpty
<1> QED BY <1>1, FilterEmpty DEF Among

\* The entries among the first k are entries, with the tags.
LEMMA AmongType ==
  ASSUME file \in Files, NEW k \in 0..Len(file.dynamic), NEW tags
  PROVE  Among(k, tags) \in Seq({e \in Entry : e.d_tag \in tags})
<1> DEFINE S == {e \in Entry : e.d_tag \in tags}
<1>1. SubSeq(file.dynamic, 1, k) \in Seq(Entry)
  <2>1. \A i \in 1..k : file.dynamic[i] \in Entry
    BY FileIs
  <2>2. 1 \in Int /\ k \in Int
    BY FileIs
  <2> QED BY ONLY <2>1, <2>2, SubSeqProperties
<1>2. Filter(SubSeq(file.dynamic, 1, k), S) \in Seq(S \cap Entry)
  <2> HIDE DEF S
  <2> QED BY <1>1, FilterType
<1>3. S \cap Entry = S
  OBVIOUS
<1> QED BY <1>2, <1>3 DEF Among

\* What the first k entries say of a tag.
PointerAmong(k, t) == IF Among(k, {t}) = <<>> THEN 0 ELSE Biased(Last(Among(k, {t})).d_un)
SizeAmong(k, t)    == IF Among(k, {t}) = <<>> THEN 0 ELSE Last(Among(k, {t})).d_un
ValuesAmong(k, t)  == [j \in DOMAIN Among(k, {t}) |-> Among(k, {t})[j].d_un]

\* A sequence with an element more, through a function on its elements.
LEMMA ImageAppend ==
  ASSUME NEW s \in Seq(Entry), NEW x \in Entry
  PROVE  [j \in DOMAIN Append(s, x) |-> Append(s, x)[j].d_un]
           = Append([j \in DOMAIN s |-> s[j].d_un], x.d_un)
<1> DEFINE n == Len(s)
           t == Append(s, x)
           V == 0..(Word - 1)
           r == [j \in DOMAIN s |-> s[j].d_un]
           u == [j \in DOMAIN t |-> t[j].d_un]
<1>1. /\ n \in Nat /\ Len(t) = n + 1 /\ t[n + 1] = x /\ \A i \in 1..n : t[i] = s[i]
      /\ DOMAIN s = 1..n /\ DOMAIN t = 1..(n + 1)
  <2>1. t \in Seq(Entry)
    BY AppendProperties
  <2> QED BY <2>1, LenProperties, AppendProperties
<1>2. x.d_un \in V /\ \A i \in 1..n : s[i].d_un \in V
  <2>1. \A i \in 1..n : s[i] \in Entry
    BY ElementOfSeq
  <2> QED BY <2>1 DEF Entry
<1>3. r \in Seq(V) /\ Len(r) = n /\ \A i \in 1..n : r[i] = s[i].d_un
  <2> HIDE DEF V, n
  <2> QED BY <1>1, <1>2
<1>4. /\ Append(r, x.d_un) \in Seq(V) /\ Len(Append(r, x.d_un)) = n + 1
      /\ \A i \in 1..n : Append(r, x.d_un)[i] = s[i].d_un
      /\ Append(r, x.d_un)[n + 1] = x.d_un
  <2> HIDE DEF V, n, r
  <2> QED BY <1>2, <1>3, AppendProperties
<1>5. u \in Seq(V) /\ Len(u) = n + 1 /\ \A i \in 1..(n + 1) : u[i] = t[i].d_un
  <2>1. \A i \in 1..(n + 1) : t[i].d_un \in V
    <3>1. \A i \in 1..(n + 1) : i = n + 1 \/ i \in 1..n
      BY <1>1
    <3> HIDE DEF t, n, V
    <3> QED BY <1>1, <1>2, <3>1
  <2> HIDE DEF V, n, t
  <2> QED BY <1>1, <2>1
<1>6. \A i \in 1..(n + 1) : u[i] = Append(r, x.d_un)[i]
  <2>1. \A i \in 1..(n + 1) : i = n + 1 \/ i \in 1..n
    BY <1>1
  <2> HIDE DEF n, t, r, u
  <2> QED BY <1>1, <1>4, <1>5, <2>1
<1> HIDE DEF V, n, r, u
<1>7. u = Append(r, x.d_un)
  BY ONLY <1>4, <1>5, <1>6, SeqEqual
<1> QED BY <1>7 DEF u, r

\* One entry more.
LEMMA SaidStep ==
  ASSUME file \in Files, NEW k \in Nat, k + 1 <= Len(file.dynamic), NEW t,
         NEW e, e = file.dynamic[k + 1]
  PROVE  /\ PointerAmong(k + 1, t) = IF e.d_tag = t THEN Biased(e.d_un) ELSE PointerAmong(k, t)
         /\ SizeAmong(k + 1, t) = IF e.d_tag = t THEN e.d_un ELSE SizeAmong(k, t)
         /\ ValuesAmong(k + 1, t) = IF e.d_tag = t THEN Append(ValuesAmong(k, t), e.d_un)
                                    ELSE ValuesAmong(k, t)
         /\ Among(k + 1, {t}) = <<>> <=> e.d_tag # t /\ Among(k, {t}) = <<>>
<1> DEFINE s == Among(k, {t})
           r == Among(k + 1, {t})
<1>1. r = IF e.d_tag = t THEN Append(s, e) ELSE s
  BY AmongStep
<1>2. CASE e.d_tag # t
  BY <1>1, <1>2 DEF PointerAmong, SizeAmong, ValuesAmong
<1>3. CASE e.d_tag = t
  <2>1. k \in 0..Len(file.dynamic) /\ k + 1 \in 1..Len(file.dynamic)
    BY FileIs
  <2>2. s \in Seq(Entry) /\ e \in Entry
    <3>1. s \in Seq({x \in Entry : x.d_tag \in {t}})
      BY <2>1, AmongType
    <3>2. {x \in Entry : x.d_tag \in {t}} \subseteq Entry
      OBVIOUS
    <3>3. e \in Entry
      BY <2>1, FileIs
    <3> HIDE DEF s
    <3> QED BY <3>1, <3>2, <3>3, SeqMonotonic
  <2> HIDE DEF s, r
  <2>3. r = Append(s, e)
    BY <1>1, <1>3
  <2>4. r # <<>> /\ Last(r) = e
    <3>1. /\ Append(s, e) # <<>> /\ Len(Append(s, e)) = Len(s) + 1
          /\ Append(s, e)[Len(s) + 1] = e
      BY <2>2, AppendProperties
    <3> QED BY <2>3, <3>1 DEF Last
  <2>5. [j \in DOMAIN r |-> r[j].d_un] = Append([j \in DOMAIN s |-> s[j].d_un], e.d_un)
    BY <2>2, <2>3, ImageAppend
  <2> QED BY <1>3, <2>4, <2>5 DEF r, s, PointerAmong, SizeAmong, ValuesAmong
<1> QED BY <1>2, <1>3

\* Nothing is said by none.
LEMMA SaidNone ==
  ASSUME file \in Files, NEW t
  PROVE  PointerAmong(0, t) = 0 /\ SizeAmong(0, t) = 0 /\ ValuesAmong(0, t) = <<>> /\ Among(0, {t}) = <<>>
<1>1. Among(0, {t}) = <<>>
  BY AmongNone
<1>2. ValuesAmong(0, t) = <<>>
  <2>1. DOMAIN <<>> = {}
    OBVIOUS
  <2>2. ValuesAmong(0, t) \in [{} -> {}]
    BY <1>1, <2>1 DEF ValuesAmong
  <2>3. \A f \in [{} -> {}] : f = <<>>
    OBVIOUS
  <2> QED BY <2>2, <2>3
<1> QED BY <1>1, <1>2 DEF PointerAmong, SizeAmong

\* What the file says of a tag is said before the first DT_NULL.
LEMMA SaidAll ==
  ASSUME file \in Files, file.dynamic # <<>>, NEW t, t # "NULL"
  PROVE  /\ PointerOf(t) = PointerAmong(End - 1, t)
         /\ SizeOf(t) = SizeAmong(End - 1, t)
         /\ Values(t) = ValuesAmong(End - 1, t)
         /\ Values(t) = <<>> <=> Among(End - 1, {t}) = <<>>
         /\ EntriesOf({t}) = Among(End - 1, {t})
<1> DEFINE es == Among(End - 1, {t})
<1>1. /\ End - 1 \in Nat /\ (End - 1) + 1 = End /\ (End - 1) + 1 <= Len(file.dynamic)
      /\ End - 1 \in 0..Len(file.dynamic)
  BY EndIs, FileIs
<1>2. EntriesOf({t}) = es
  <2>1. file.dynamic[End].d_tag \notin {t}
    BY EndIs
  <2> QED BY <1>1, <2>1, AmongStep DEF EntriesOf
<1>3. Values(t) = [j \in DOMAIN es |-> es[j].d_un]
  BY <1>2 DEF Values
<1>4. es \in Seq({e \in Entry : e.d_tag \in {t}})
  BY <1>1, AmongType
<1>5. Len(es) \in Nat /\ DOMAIN es = 1..Len(es) /\ (es = <<>> <=> Len(es) = 0)
  <2> HIDE DEF es
  <2> QED BY <1>4, LenProperties, EmptySeq
<1>6. Values(t) = <<>> <=> es = <<>>
  <2> HIDE DEF es
  <2> QED BY <1>3, <1>5
<1>7. es # <<>> => Last(Values(t)) = Last(es).d_un
  <2> HIDE DEF es
  <2>1. Len(Values(t)) = Len(es)
    BY <1>3, <1>5
  <2>2. es # <<>> => Len(es) \in DOMAIN es
    BY <1>5
  <2> QED BY <1>3, <2>1, <2>2 DEF Last
<1> QED BY <1>2, <1>3, <1>6, <1>7 DEF PointerOf, SizeOf, PointerAmong, SizeAmong, ValuesAmong

-----------------------------------------------------------------------------
(* Words and addresses.                                                    *)

\* What a word of the image may hold.
Contents == 0..(Word - 1) \cup {Junk}

\* An address modulo Word.
LEMMA BiasedType ==
  ASSUME base \in Biases, NEW v \in Nat
  PROVE  Biased(v) \in 0..(Word - 1)
<1>1. base \in Nat /\ Word \in Nat \ {0}
  BY WordAssumption
<1> QED BY <1>1 DEF Biased

\* A word of the image is a word, or junk.
LEMMA WordAtType ==
  ASSUME file \in Files, base \in Biases, NEW a
  PROVE  WordAt(a) \in Contents
<1> DEFINE v == (a + Word - base) % Word
<1>1. CASE v \notin DOMAIN file.words
  BY <1>1 DEF WordAt, Contents
<1>2. CASE v \in DOMAIN file.words
  <2>1. file.words[v] \in 0..(Word - 1) /\ Word \in Nat
    BY <1>2, FilesAssumption, WordAssumption DEF IsFile
  <2> HIDE DEF v
  <2>2. Biased(file.words[v]) \in 0..(Word - 1)
    BY <2>1, BiasedType
  <2>3. WordAt(a) = IF v \in file.relative THEN Biased(file.words[v]) ELSE file.words[v]
    BY <1>2 DEF WordAt, v
  <2> QED BY <2>1, <2>2, <2>3 DEF Contents
<1> QED BY <1>1, <1>2

\* A number with a quotient and a remainder below the divisor.
LEMMA Remainder ==
  ASSUME NEW W \in Nat \ {0}, NEW a \in Nat, NEW q \in Nat, NEW r \in 0..(W - 1), a = q * W + r
  PROVE  a % W = r
OBVIOUS

\* A summand may be reduced first.
LEMMA SameRemainder ==
  ASSUME NEW W \in Nat \ {0}, NEW x \in Nat, NEW c \in Nat
  PROVE  ((x % W) + c) % W = (x + c) % W
<1>1. PICK q \in Nat, r \in 0..(W - 1) : q = x \div W /\ r = x % W /\ x = q * W + r
  OBVIOUS
<1>2. PICK p \in Nat, m \in 0..(W - 1) : r + c = p * W + m
  <2>1. r + c \in Nat
    OBVIOUS
  <2>2. \A y \in Nat : y \div W \in Nat /\ y % W \in 0..(W - 1) /\ y = (y \div W) * W + (y % W)
    OBVIOUS
  <2> QED BY <2>1, <2>2
<1>3. x + c = (q + p) * W + m /\ q + p \in Nat /\ x + c \in Nat /\ r + c \in Nat
  BY ONLY <1>1, <1>2, W \in Nat \ {0}, c \in Nat, x \in Nat
<1>4. (x + c) % W = m
  BY ONLY <1>2, <1>3, W \in Nat \ {0}, Remainder
<1>5. (r + c) % W = m
  BY ONLY <1>2, <1>3, W \in Nat \ {0}, Remainder
<1> QED BY <1>1, <1>4, <1>5

\* The image is found modulo Word.
LEMMA WordAtModulo ==
  ASSUME base \in Biases, NEW a \in Nat
  PROVE  WordAt(a % Word) = WordAt(a)
<1>1. Word \in Nat \ {0} /\ base \in Nat /\ base < Word
  BY WordAssumption
<1>2. PICK c \in Nat : c = Word - base
  BY ONLY <1>1
<1>3. PICK r \in Nat : r = a % Word
  BY ONLY <1>1, a \in Nat
<1>4. (r + Word - base) % Word = (a + Word - base) % Word
  <2>1. (r + c) % Word = (a + c) % Word
    BY <1>1, <1>3, SameRemainder
  <2>2. r + Word - base = r + c /\ a + Word - base = a + c
    BY ONLY <1>1, <1>2, r \in Nat, a \in Nat
  <2> QED BY <2>1, <2>2
<1>5. WordAt(r) = WordAt(a)
  BY <1>4 DEF WordAt
<1> QED BY <1>3, <1>5

\* What the entries say is a word; a pointer is not NULL.
LEMMA SaidType ==
  ASSUME file \in Files, base \in Biases, NEW k \in 0..Len(file.dynamic), NEW t
  PROVE  /\ PointerAmong(k, t) \in 0..(Word - 1) /\ SizeAmong(k, t) \in 0..(Word - 1)
         /\ t \in DOMAIN Pointers => (PointerAmong(k, t) = 0 <=> Among(k, {t}) = <<>>)
<1> DEFINE I == {n \in 0..k : /\ PointerAmong(n, t) \in 0..(Word - 1) /\ SizeAmong(n, t) \in 0..(Word - 1)
                              /\ t \in DOMAIN Pointers => (PointerAmong(n, t) = 0 <=> Among(n, {t}) = <<>>)}
<1>1. k \in Nat /\ k <= Len(file.dynamic) /\ Word \in Nat \ {0}
  BY FileIs, WordAssumption
<1>2. 0 \in I
  BY <1>1, SaidNone
<1>3. ASSUME NEW n \in 0..(k - 1), n \in I PROVE n + 1 \in I
  <2> DEFINE e == file.dynamic[n + 1]
  <2>1. n \in Nat /\ n + 1 <= Len(file.dynamic) /\ n + 1 \in 1..Len(file.dynamic) /\ n + 1 \in 0..k
    BY <1>1, FileIs
  <2>2. e.d_un \in 0..(Word - 1)
    BY <2>1, FileIs
  <2>3. Biased(e.d_un) \in 0..(Word - 1)
    <3>1. e.d_un \in Nat
      BY <1>1, <2>2
    <3> HIDE DEF e
    <3> QED BY <3>1, BiasedType
  <2>4. e.d_tag = t /\ t \in DOMAIN Pointers => Biased(e.d_un) # 0
    <3>1. n + 1 \in DOMAIN file.dynamic
      BY <2>1, FileIs
    <3> QED BY <3>1, FilesAssumption DEF Biased
  <2>5. /\ PointerAmong(n + 1, t) = IF e.d_tag = t THEN Biased(e.d_un) ELSE PointerAmong(n, t)
        /\ SizeAmong(n + 1, t) = IF e.d_tag = t THEN e.d_un ELSE SizeAmong(n, t)
        /\ Among(n + 1, {t}) = <<>> <=> e.d_tag # t /\ Among(n, {t}) = <<>>
    BY <2>1, SaidStep
  <2>6. /\ PointerAmong(n, t) \in 0..(Word - 1) /\ SizeAmong(n, t) \in 0..(Word - 1)
        /\ t \in DOMAIN Pointers => (PointerAmong(n, t) = 0 <=> Among(n, {t}) = <<>>)
    BY <1>3
  <2> HIDE DEF e
  <2>7. /\ PointerAmong(n + 1, t) \in 0..(Word - 1) /\ SizeAmong(n + 1, t) \in 0..(Word - 1)
        /\ t \in DOMAIN Pointers => (PointerAmong(n + 1, t) = 0 <=> Among(n + 1, {t}) = <<>>)
    BY ONLY <2>2, <2>3, <2>4, <2>5, <2>6
  <2> QED BY <2>1, <2>7
<1>4. 0..k \subseteq I
  <2> HIDE DEF I
  <2> QED BY <1>1, <1>2, <1>3, Induction
<1>5. k \in 0..k
  BY <1>1
<1> QED BY <1>4, <1>5

-----------------------------------------------------------------------------
(* The invariant.                                                          *)

\* The soinfo s has what the first k entries say.
SoinfoIs(s, k) ==
  /\ DOMAIN s = Fields
  /\ \A t \in DOMAIN Pointers : s[Pointers[t]] = PointerAmong(k, t)
  /\ \A t \in DOMAIN Counts : s[Counts[t][1]] = SizeAmong(k, t) \div Counts[t][2]
  /\ s["has_text_relocations"] = IF Among(k, {"TEXTREL"}) = <<>> THEN 0 ELSE 1
  /\ Among(k, {"HASH"}) = <<>> => s["nbucket"] = 0
  /\ Among(k, {"HASH"}) # <<>> =>
       LET hash == PointerAmong(k, "HASH") IN
       s["nbucket"] = WordAt(hash) /\ s["chain"] = (hash + 8 + 4 * WordAt(hash)) % Word
  /\ Among(k, {"RELA"}) = <<>>

\* The functions a library is to enter, and where among them it is.
Inits  == <<PointerOf("INIT")>> \o ArrayOf("INIT_ARRAY", "INIT_ARRAYSZ")
Finis  == Reverse(ArrayOf("FINI_ARRAY", "FINI_ARRAYSZ")) \o <<PointerOf("FINI")>>

PltTable == Table("JMPREL", "PLTRELSZ")
RelTable == Table("REL", "RELSZ")

InitialisedPlaces == {"ready", "fini_array", "unloaded"}
LinkedPlaces == {"init", "init_array"} \cup InitialisedPlaces
ExtractedPlaces == {"needed", "plt_rel", "rel", "protect"} \cup LinkedPlaces

ExtractInv ==
  /\ at = "dynamic" => d = 1 /\ si = [f \in Fields |-> 0]
  /\ at = "extract" => d \in 1..End /\ SoinfoIs(si, d - 1)
  /\ at \in ExtractedPlaces => SoinfoIs(si, End - 1) /\ Sane

TablesInv ==
  /\ at \in {"dynamic", "extract"} => needed = <<>>
  /\ at = "needed" => d \in 1..End /\ needed = ValuesAmong(d - 1, "NEEDED")
  /\ at \in ExtractedPlaces \ {"needed"} => needed = Values("NEEDED")
  /\ at \in {"dynamic", "extract", "needed", "plt_rel"} => relocated = <<>>
  /\ at = "rel" => relocated = PltTable
  /\ at \in {"protect"} \cup LinkedPlaces => relocated = PltTable \o RelTable
  /\ at \in {"plt_rel", "rel", "protect"} => exposed = (si.has_text_relocations = 1)
  /\ at \in LinkedPlaces => ~exposed

CallsInv ==
  /\ at \notin {"init_array"} \cup InitialisedPlaces => calls = <<>>
  /\ at = "init_array" => d \in 1..Len(Inits) /\ calls = FunctionsIn(SubSeq(Inits, 1, d))
  /\ at = "ready" => calls = Initialisers
  /\ at = "fini_array" =>
       /\ d \in 0..(Len(Finis) - 1)
       /\ calls = Initialisers \o FunctionsIn(SubSeq(Finis, 1, Len(Finis) - 1 - d))
  /\ at = "unloaded" => calls = Initialisers \o Finalisers

LinkInv ==
  /\ file \in Files /\ base \in Biases /\ arm \in BOOLEAN /\ DOMAIN si = Fields
  /\ at \in {"dynamic", "extract", "failed"} \cup ExtractedPlaces
  /\ at \notin {"dynamic", "failed"} => file.dynamic # <<>>
  /\ ExtractInv /\ TablesInv /\ CallsInv

\* The functions start_vm is to emulate, as its soinfo and s_dlsym have them.
First  == IF si.init_func # 0 THEN <<"init_func">> ELSE <<>>
Second == IF JNI_OnLoad # 0 THEN <<"JNI_OnLoad">> ELSE <<>>

\* What the guest has entered when the first has been passed, and the second.
PastFirst  == IF file.big THEN <<>> ELSE First
PastSecond == IF file.big THEN <<>> ELSE Guests

GuestFunctions == {"init_func", "JNI_OnLoad"}

\* start_vm is reached with the library open, or not; nothing has been entered before
\* it emulates a function, and only an image that is there is entered.
PlacesInv ==
  /\ vm \in {"s_dlopen", "start_vm", "uc_mem_map", "uc_close", "returned", "crashed"} \cup GuestFunctions
  /\ program = "client" => vm = "s_dlopen"
  /\ vm # "s_dlopen" => at \in {"ready", "failed"}
  /\ vm \in GuestFunctions \cup {"uc_close"} => at = "ready"
  /\ vm \in {"s_dlopen", "start_vm", "uc_mem_map"} => ran = <<>>
  /\ vm # "returned" => result # 1
  /\ running \in GuestFunctions \cup {None}
  /\ vm \notin GuestFunctions => running = None
  /\ running = "init_func" => vm = "init_func"
  /\ running # None => ran # <<>> /\ ~file.big
  /\ guest = "image" => ~file.big
  /\ guest = "zeroes" => file.big

\* What has been entered at each of them.
RanInv ==
  /\ ran \in Seq(GuestFunctions)
  /\ ran # <<>> => at = "ready"
  /\ vm = "init_func" =>
       /\ running = None => ran = <<>>
       /\ running = vm => ran = First
       /\ file.early = {} => running \in {None, vm}
  /\ vm = "JNI_OnLoad" =>
       /\ running = None => ran = PastFirst
       /\ running = vm /\ vm \notin file.early => ran = Guests
  /\ vm = "uc_close" => ran = PastSecond

RunInv == PlacesInv /\ RanInv /\ OnLoadOnce /\ SuccessEmulated

VmInv == LinkInv /\ program \in {"main", "client"} /\ RunInv

-----------------------------------------------------------------------------
(* The extraction.                                                         *)

\* The sizes of the items counted.
LEMMA CountsAre == \A t \in DOMAIN Counts : Counts[t][2] \in Nat \ {0}
BY DEF Counts

\* The field of a pointer, and of a count, is no other.
LEMMA PointerField ==
  ASSUME NEW t \in DOMAIN Pointers
  PROVE  /\ Pointers[t] \in PointerFields /\ Pointers[t] \in Fields
         /\ Pointers[t] \notin CountFields /\ Pointers[t] \notin OtherFields
         /\ t \notin DOMAIN Counts /\ t \notin DOMAIN Flags
         /\ t \notin {"HASH", "RELA", "NEEDED", "PLTREL", "OTHER"}
<1>1. Pointers[t] \in PointerFields
  BY DEF PointerFields
<1>2. t \notin DOMAIN Counts /\ t \notin DOMAIN Flags /\ t \notin {"HASH", "RELA", "NEEDED", "PLTREL", "OTHER"}
  BY TagsApart
<1> QED BY <1>1, <1>2, FieldsApart

\* The field of a count is no other.
LEMMA CountField ==
  ASSUME NEW t \in DOMAIN Counts
  PROVE  /\ Counts[t][1] \in CountFields /\ Counts[t][1] \in Fields
         /\ Counts[t][1] \notin PointerFields /\ Counts[t][1] \notin OtherFields
         /\ t \notin DOMAIN Pointers /\ t \notin DOMAIN Flags
         /\ t \notin {"HASH", "RELA", "NEEDED", "PLTREL", "OTHER"}
<1>1. Counts[t][1] \in CountFields
  BY DEF CountFields
<1>2. t \notin DOMAIN Pointers /\ t \notin DOMAIN Flags /\ t \notin {"HASH", "RELA", "NEEDED", "PLTREL", "OTHER"}
  BY TagsApart
<1> QED BY <1>1, <1>2, FieldsApart

\* A soinfo whose fields are 0, but for those of .ARM.exidx, before the first entry.
LEMMA SoinfoStart ==
  ASSUME file \in Files, NEW s, DOMAIN s = Fields,
         \A f \in Fields \ {"ARM_exidx", "ARM_exidx_count"} : s[f] = 0
  PROVE  SoinfoIs(s, 0)
<1>1. \A t \in DOMAIN Pointers : s[Pointers[t]] = 0
  BY FieldsApart DEF PointerFields, OtherFields
<1>2. \A t \in DOMAIN Counts : s[Counts[t][1]] = 0
  BY FieldsApart DEF CountFields, OtherFields
<1>3. s["has_text_relocations"] = 0 /\ s["nbucket"] = 0
  BY FieldsApart DEF OtherFields
<1>4. \A t \in DOMAIN Counts : 0 \div Counts[t][2] = 0
  BY CountsAre
<1> QED BY <1>1, <1>2, <1>3, <1>4, SaidNone DEF SoinfoIs

\* The fields that entry k + 1 says, in u; the others as in s.
LEMMA SoinfoStep ==
  ASSUME file \in Files, NEW k \in Nat, k + 1 <= Len(file.dynamic), NEW e, e = file.dynamic[k + 1],
         NEW s, SoinfoIs(s, k), NEW u, DOMAIN u = Fields,
         \A t \in DOMAIN Pointers :
           u[Pointers[t]] = IF e.d_tag = t THEN Biased(e.d_un) ELSE s[Pointers[t]],
         \A t \in DOMAIN Counts :
           u[Counts[t][1]] = IF e.d_tag = t THEN e.d_un \div Counts[t][2] ELSE s[Counts[t][1]],
         u["has_text_relocations"] = IF e.d_tag = "TEXTREL" THEN 1 ELSE s["has_text_relocations"],
         e.d_tag = "HASH" =>
           LET hash == Biased(e.d_un) IN
           u["nbucket"] = WordAt(hash) /\ u["chain"] = (hash + 8 + 4 * WordAt(hash)) % Word,
         e.d_tag # "HASH" => u["nbucket"] = s["nbucket"] /\ u["chain"] = s["chain"],
         e.d_tag # "RELA"
  PROVE  SoinfoIs(u, k + 1)
<1>1. ASSUME NEW t
      PROVE  /\ PointerAmong(k + 1, t) = IF e.d_tag = t THEN Biased(e.d_un) ELSE PointerAmong(k, t)
             /\ SizeAmong(k + 1, t) = IF e.d_tag = t THEN e.d_un ELSE SizeAmong(k, t)
             /\ Among(k + 1, {t}) = <<>> <=> e.d_tag # t /\ Among(k, {t}) = <<>>
  BY ONLY file \in Files, k \in Nat, k + 1 <= Len(file.dynamic), e = file.dynamic[k + 1], SaidStep
<1>2. \A t \in DOMAIN Pointers : u[Pointers[t]] = PointerAmong(k + 1, t)
  BY <1>1 DEF SoinfoIs
<1>3. \A t \in DOMAIN Counts : u[Counts[t][1]] = SizeAmong(k + 1, t) \div Counts[t][2]
  <2>1. \A t \in DOMAIN Counts : s[Counts[t][1]] = SizeAmong(k, t) \div Counts[t][2]
    BY DEF SoinfoIs
  <2>2. ASSUME NEW t \in DOMAIN Counts
        PROVE  u[Counts[t][1]] = IF e.d_tag = t THEN e.d_un \div Counts[t][2] ELSE s[Counts[t][1]]
    OBVIOUS
  <2> QED BY ONLY <1>1, <2>1, <2>2
<1>4. u["has_text_relocations"] = IF Among(k + 1, {"TEXTREL"}) = <<>> THEN 0 ELSE 1
  BY <1>1 DEF SoinfoIs
<1>5. /\ Among(k + 1, {"HASH"}) = <<>> => u["nbucket"] = 0
      /\ Among(k + 1, {"HASH"}) # <<>> =>
           LET hash == PointerAmong(k + 1, "HASH") IN
           u["nbucket"] = WordAt(hash) /\ u["chain"] = (hash + 8 + 4 * WordAt(hash)) % Word
  BY <1>1 DEF SoinfoIs
<1>6. Among(k + 1, {"RELA"}) = <<>>
  BY <1>1 DEF SoinfoIs
<1> QED BY <1>2, <1>3, <1>4, <1>5, <1>6 DEF SoinfoIs

\* The soinfo after each kind of entry.
LEMMA SoinfoHash ==
  ASSUME file \in Files, NEW k \in Nat, k + 1 <= Len(file.dynamic), NEW e, e = file.dynamic[k + 1],
         NEW s, SoinfoIs(s, k), e.d_tag = "HASH", NEW h, h = Biased(e.d_un), NEW b, NEW c,
         NEW u, u = [s EXCEPT !.nbucket = WordAt(h), !.nchain = c, !.bucket = b,
                              !.chain = (h + 8 + 4 * WordAt(h)) % Word]
  PROVE  SoinfoIs(u, k + 1)
<1>1. DOMAIN s = Fields /\ DOMAIN u = Fields
  BY DEF SoinfoIs
<1>2. \A f \in Fields \ {"nbucket", "nchain", "bucket", "chain"} : u[f] = s[f]
  BY <1>1
<1>3. /\ "nbucket" \in Fields /\ "chain" \in Fields /\ "bucket" \in Fields /\ "nchain" \in Fields
      /\ "has_text_relocations" \in Fields
  BY FieldsApart DEF OtherFields
<1>4. u["nbucket"] = WordAt(h) /\ u["chain"] = (h + 8 + 4 * WordAt(h)) % Word
  BY <1>1, <1>3
<1>5. {"nbucket", "nchain", "bucket", "chain"} \subseteq OtherFields
  BY DEF OtherFields
<1>6. \A t \in DOMAIN Pointers : u[Pointers[t]] = IF e.d_tag = t THEN Biased(e.d_un) ELSE s[Pointers[t]]
  BY ONLY <1>2, <1>5, e.d_tag = "HASH", PointerField
<1>7. \A t \in DOMAIN Counts :
        u[Counts[t][1]] = IF e.d_tag = t THEN e.d_un \div Counts[t][2] ELSE s[Counts[t][1]]
  BY ONLY <1>2, <1>5, e.d_tag = "HASH", CountField
<1>8. u["has_text_relocations"] = IF e.d_tag = "TEXTREL" THEN 1 ELSE s["has_text_relocations"]
  BY <1>2, <1>3
<1>9. /\ e.d_tag = "HASH" =>
           LET hash == Biased(e.d_un) IN
           u["nbucket"] = WordAt(hash) /\ u["chain"] = (hash + 8 + 4 * WordAt(hash)) % Word
      /\ e.d_tag # "HASH" => u["nbucket"] = s["nbucket"] /\ u["chain"] = s["chain"]
      /\ e.d_tag # "RELA"
  BY <1>4
<1>10. /\ file \in Files /\ k + 1 <= Len(file.dynamic) /\ e = file.dynamic[k + 1] /\ SoinfoIs(s, k)
       /\ DOMAIN u = Fields
  BY <1>1
<1> QED BY ONLY <1>6, <1>7, <1>8, <1>9, <1>10, k \in Nat, SoinfoStep

\* A pointer is stored in its field: the last one of its tag counts.
LEMMA SoinfoPointer ==
  ASSUME file \in Files, NEW k \in Nat, k + 1 <= Len(file.dynamic), NEW e, e = file.dynamic[k + 1],
         NEW s, SoinfoIs(s, k), e.d_tag \in DOMAIN Pointers,
         NEW u, u = [s EXCEPT ![Pointers[e.d_tag]] = Biased(e.d_un)]
  PROVE  SoinfoIs(u, k + 1)
<1> DEFINE p == Pointers[e.d_tag]
<1>1. DOMAIN s = Fields /\ DOMAIN u = Fields /\ p \in PointerFields /\ p \in Fields
  BY FieldsApart DEF SoinfoIs, PointerFields
<1>2. u[p] = Biased(e.d_un) /\ \A f \in Fields \ {p} : u[f] = s[f]
  BY <1>1
<1>3. \A t \in DOMAIN Pointers :
        u[Pointers[t]] = IF e.d_tag = t THEN Biased(e.d_un) ELSE s[Pointers[t]]
  BY <1>2, FieldsApart DEF PointerFields
<1>4. \A t \in DOMAIN Counts :
        u[Counts[t][1]] = IF e.d_tag = t THEN e.d_un \div Counts[t][2] ELSE s[Counts[t][1]]
  <2>1. ASSUME NEW t \in DOMAIN Counts PROVE u[Counts[t][1]] = s[Counts[t][1]] /\ e.d_tag # t
    BY <1>1, <1>2, CountField
  <2> QED BY <2>1
<1>5. \A f \in OtherFields : u[f] = s[f]
  BY <1>1, <1>2, FieldsApart
<1>6. {"has_text_relocations", "nbucket", "chain"} \subseteq OtherFields
  BY DEF OtherFields
<1>7. e.d_tag \notin {"TEXTREL", "HASH", "RELA"}
  BY TagsApart
<1>8. /\ u["has_text_relocations"] = IF e.d_tag = "TEXTREL" THEN 1 ELSE s["has_text_relocations"]
      /\ e.d_tag # "HASH" => u["nbucket"] = s["nbucket"] /\ u["chain"] = s["chain"]
      /\ e.d_tag # "HASH" /\ e.d_tag # "RELA"
  BY ONLY <1>5, <1>6, <1>7
<1>9. /\ file \in Files /\ k + 1 <= Len(file.dynamic) /\ e = file.dynamic[k + 1] /\ SoinfoIs(s, k)
      /\ DOMAIN u = Fields
  BY <1>1
<1> QED BY ONLY <1>3, <1>4, <1>8, <1>9, k \in Nat, SoinfoStep

\* A size is stored in its field, as a number of items.
LEMMA SoinfoCount ==
  ASSUME file \in Files, NEW k \in Nat, k + 1 <= Len(file.dynamic), NEW e, e = file.dynamic[k + 1],
         NEW s, SoinfoIs(s, k), e.d_tag \in DOMAIN Counts,
         NEW u, u = [s EXCEPT ![Counts[e.d_tag][1]] = e.d_un \div Counts[e.d_tag][2]]
  PROVE  SoinfoIs(u, k + 1)
<1> DEFINE p == Counts[e.d_tag][1]
<1>1. DOMAIN s = Fields /\ DOMAIN u = Fields /\ p \in CountFields /\ p \in Fields
  BY FieldsApart DEF SoinfoIs, CountFields
<1>2. u[p] = e.d_un \div Counts[e.d_tag][2] /\ \A f \in Fields \ {p} : u[f] = s[f]
  BY <1>1
<1>3. \A t \in DOMAIN Counts :
        u[Counts[t][1]] = IF e.d_tag = t THEN e.d_un \div Counts[t][2] ELSE s[Counts[t][1]]
  BY <1>2, FieldsApart DEF CountFields
<1>4. \A t \in DOMAIN Pointers :
        u[Pointers[t]] = IF e.d_tag = t THEN Biased(e.d_un) ELSE s[Pointers[t]]
  <2>1. ASSUME NEW t \in DOMAIN Pointers PROVE u[Pointers[t]] = s[Pointers[t]] /\ e.d_tag # t
    BY <1>1, <1>2, PointerField
  <2> QED BY <2>1
<1>5. \A f \in OtherFields : u[f] = s[f]
  BY <1>1, <1>2, FieldsApart
<1>6. {"has_text_relocations", "nbucket", "chain"} \subseteq OtherFields
  BY DEF OtherFields
<1>7. e.d_tag \notin {"TEXTREL", "HASH", "RELA"}
  BY TagsApart
<1>8. /\ u["has_text_relocations"] = IF e.d_tag = "TEXTREL" THEN 1 ELSE s["has_text_relocations"]
      /\ e.d_tag # "HASH" => u["nbucket"] = s["nbucket"] /\ u["chain"] = s["chain"]
      /\ e.d_tag # "HASH" /\ e.d_tag # "RELA"
  BY ONLY <1>5, <1>6, <1>7
<1>9. /\ file \in Files /\ k + 1 <= Len(file.dynamic) /\ e = file.dynamic[k + 1] /\ SoinfoIs(s, k)
      /\ DOMAIN u = Fields
  BY <1>1
<1> QED BY ONLY <1>3, <1>4, <1>8, <1>9, k \in Nat, SoinfoStep

\* A flag is set.
LEMMA SoinfoFlag ==
  ASSUME file \in Files, NEW k \in Nat, k + 1 <= Len(file.dynamic), NEW e, e = file.dynamic[k + 1],
         NEW s, SoinfoIs(s, k), e.d_tag \in DOMAIN Flags,
         NEW u, u = [s EXCEPT ![Flags[e.d_tag]] = 1]
  PROVE  SoinfoIs(u, k + 1)
<1> DEFINE p == Flags[e.d_tag]
<1>1. /\ e.d_tag \in {"TEXTREL", "SYMBOLIC"}
      /\ p = IF e.d_tag = "TEXTREL" THEN "has_text_relocations" ELSE "has_DT_SYMBOLIC"
  BY TagsApart DEF Flags
<1>2. DOMAIN s = Fields /\ DOMAIN u = Fields /\ p \in OtherFields /\ p \in Fields
  BY <1>1, FieldsApart DEF SoinfoIs, OtherFields
<1>3. u[p] = 1 /\ \A f \in Fields \ {p} : u[f] = s[f]
  BY <1>2
<1> HIDE DEF p
<1>4. \A t \in DOMAIN Pointers :
        u[Pointers[t]] = IF e.d_tag = t THEN Biased(e.d_un) ELSE s[Pointers[t]]
  <2>1. ASSUME NEW t \in DOMAIN Pointers PROVE u[Pointers[t]] = s[Pointers[t]] /\ e.d_tag # t
    BY <1>2, <1>3, PointerField
  <2> QED BY <2>1
<1>5. \A t \in DOMAIN Counts :
        u[Counts[t][1]] = IF e.d_tag = t THEN e.d_un \div Counts[t][2] ELSE s[Counts[t][1]]
  <2>1. ASSUME NEW t \in DOMAIN Counts PROVE u[Counts[t][1]] = s[Counts[t][1]] /\ e.d_tag # t
    BY <1>2, <1>3, CountField
  <2> QED BY <2>1
<1>6. {"has_text_relocations", "nbucket", "chain"} \subseteq Fields
  BY FieldsApart DEF OtherFields
<1>7. /\ u["has_text_relocations"] = IF e.d_tag = "TEXTREL" THEN 1 ELSE s["has_text_relocations"]
      /\ e.d_tag # "HASH" => u["nbucket"] = s["nbucket"] /\ u["chain"] = s["chain"]
      /\ e.d_tag # "HASH" /\ e.d_tag # "RELA"
  BY <1>1, <1>3, <1>6
<1>8. /\ file \in Files /\ k + 1 <= Len(file.dynamic) /\ e = file.dynamic[k + 1] /\ SoinfoIs(s, k)
      /\ DOMAIN u = Fields
  BY <1>2
<1> QED BY ONLY <1>4, <1>5, <1>7, <1>8, k \in Nat, SoinfoStep

\* An entry of another tag leaves the soinfo as it is.
LEMMA SoinfoOther ==
  ASSUME file \in Files, NEW k \in Nat, k + 1 <= Len(file.dynamic), NEW e, e = file.dynamic[k + 1],
         NEW s, SoinfoIs(s, k), e.d_tag \in {"NEEDED", "PLTREL", "OTHER"}
  PROVE  SoinfoIs(s, k + 1)
<1>1. DOMAIN s = Fields
  BY DEF SoinfoIs
<1>2. e.d_tag \notin DOMAIN Pointers /\ e.d_tag \notin DOMAIN Counts
      /\ e.d_tag \notin {"TEXTREL", "HASH", "RELA"}
  BY TagsApart
<1>3. /\ \A t \in DOMAIN Pointers : e.d_tag # t
      /\ \A t \in DOMAIN Counts : e.d_tag # t
  BY <1>2
<1> QED BY <1>1, <1>2, <1>3, SoinfoStep

-----------------------------------------------------------------------------
(* What a step that leaves the library alone does not change.              *)

\* What is read off the file stays what it is.
LEMMA LibSame ==
  ASSUME UNCHANGED lib
  PROVE  /\ End' = End
         /\ \A k, tags : Among(k, tags)' = Among(k, tags)
         /\ \A v : Biased(v)' = Biased(v)
         /\ \A a : WordAt(a)' = WordAt(a)
         /\ \A t : Values(t)' = Values(t)
         /\ \A t : PointerOf(t)' = PointerOf(t)
         /\ \A t : SizeOf(t)' = SizeOf(t)
         /\ \A s : FunctionsIn(s)' = FunctionsIn(s)
<1>1. file' = file /\ base' = base /\ arm' = arm
  BY DEF lib
<1>2. End' = End
  BY <1>1 DEF End
<1>3. \A k, tags : Among(k, tags)' = Among(k, tags)
  BY <1>1 DEF Among
<1>4. \A v : Biased(v)' = Biased(v)
  BY <1>1 DEF Biased
<1>5. \A a : WordAt(a)' = WordAt(a)
  BY <1>1 DEF WordAt, Biased
<1>6. \A t : Values(t)' = Values(t)
  BY <1>1 DEF Values, EntriesOf, Among, End
<1>7. \A t : PointerOf(t)' = PointerOf(t)
  BY <1>1 DEF PointerOf, Values, EntriesOf, Among, End, Biased
<1>8. \A t : SizeOf(t)' = SizeOf(t)
  BY <1>1 DEF SizeOf, Values, EntriesOf, Among, End
<1>9. \A s : FunctionsIn(s)' = FunctionsIn(s)
  BY <1>1 DEF FunctionsIn
<1> QED BY <1>2, <1>3, <1>4, <1>5, <1>6, <1>7, <1>8, <1>9

\* What the first k entries say of a soinfo, they say in the next state.
LEMMA SoinfoNext ==
  ASSUME UNCHANGED lib, NEW k, d' - 1 = k, SoinfoIs(si', k)
  PROVE  SoinfoIs(si, d - 1)'
<1>1. /\ \A n, tags : Among(n, tags)' = Among(n, tags)
      /\ \A v : Biased(v)' = Biased(v)
      /\ \A a : WordAt(a)' = WordAt(a)
  BY LibSame
<1>2. \A t : PointerAmong(d - 1, t)' = PointerAmong(k, t) /\ SizeAmong(d - 1, t)' = SizeAmong(k, t)
  BY <1>1 DEF PointerAmong, SizeAmong
<1> QED BY <1>1, <1>2 DEF SoinfoIs

\* So do those before the DT_NULL.
LEMMA SoinfoNextEnd ==
  ASSUME UNCHANGED lib, SoinfoIs(si', End - 1)
  PROVE  SoinfoIs(si, End - 1)'
<1>1. /\ End' = End
      /\ \A n, tags : Among(n, tags)' = Among(n, tags)
      /\ \A v : Biased(v)' = Biased(v)
      /\ \A a : WordAt(a)' = WordAt(a)
  BY LibSame
<1>2. \A t : /\ PointerAmong(End - 1, t)' = PointerAmong(End - 1, t)
            /\ SizeAmong(End - 1, t)' = SizeAmong(End - 1, t)
  BY <1>1 DEF PointerAmong, SizeAmong
<1> QED BY <1>1, <1>2 DEF SoinfoIs

\* And the libraries needed among the first k.
LEMMA ValuesNext ==
  ASSUME UNCHANGED lib, NEW k, d' - 1 = k
  PROVE  ValuesAmong(d - 1, "NEEDED")' = ValuesAmong(k, "NEEDED")
BY DEF lib, ValuesAmong, Among

\* The functions and the tables of a file stay what they are.
LEMMA ListsSame ==
  ASSUME UNCHANGED lib
  PROVE  /\ Inits' = Inits /\ Finis' = Finis /\ PltTable' = PltTable /\ RelTable' = RelTable
         /\ Initialisers' = Initialisers /\ Finalisers' = Finalisers
<1>1. /\ \A a : WordAt(a)' = WordAt(a)
      /\ \A t : Values(t)' = Values(t) /\ PointerOf(t)' = PointerOf(t) /\ SizeOf(t)' = SizeOf(t)
  BY LibSame
<1>2. arm' = arm
  BY DEF lib
<1>3. ASSUME NEW t, NEW z PROVE ArrayOf(t, z)' = ArrayOf(t, z)
  <2>1. \A k : WordAt(PointerOf(t) + 4 * (k - 1))' = WordAt(PointerOf(t) + 4 * (k - 1))
    BY <1>1
  <2>2. Values(t)' = Values(t) /\ SizeOf(z)' = SizeOf(z)
    BY <1>1
  <2> QED BY ONLY <2>1, <2>2 DEF ArrayOf
<1>4. Inits' = Inits /\ Finis' = Finis
  BY <1>1, <1>3 DEF Inits, Finis
<1>5. PltTable' = PltTable /\ RelTable' = RelTable
  BY <1>1 DEF PltTable, RelTable, Table
<1>6. Initialisers = FunctionsIn(Inits) /\ Finalisers = FunctionsIn(Finis)
  BY DEF Initialisers, Finalisers, Inits, Finis
<1>7. Initialisers' = FunctionsIn(Inits)' /\ Finalisers' = FunctionsIn(Finis)'
  BY DEF Initialisers, Finalisers, Inits, Finis
<1>8. FunctionsIn(Inits)' = FunctionsIn(Inits) /\ FunctionsIn(Finis)' = FunctionsIn(Finis)
  BY <1>2, <1>4 DEF FunctionsIn
<1> QED BY <1>4, <1>5, <1>6, <1>7, <1>8

-----------------------------------------------------------------------------
(* The functions of a library.                                             *)

\* An array of functions is the one of the soinfo.
LEMMA ArrayIs ==
  ASSUME file \in Files, base \in Biases, file.dynamic # <<>>, SoinfoIs(si, End - 1),
         NEW tag \in DOMAIN Pointers, NEW size \in DOMAIN Counts, Counts[size][2] = 4
  PROVE  LET n == Length(Pointers[tag], Counts[size][1]) IN
         /\ n \in Nat /\ ArrayOf(tag, size) \in Seq(Contents) /\ Len(ArrayOf(tag, size)) = n
         /\ \A k \in 1..n : ArrayOf(tag, size)[k] = Item(Pointers[tag], k)
<1> DEFINE n == Length(Pointers[tag], Counts[size][1])
           array == Pointers[tag]
           p == PointerOf(tag)
<1>1. tag # "NULL" /\ size # "NULL"
  BY TagsApart
<1>2. /\ End - 1 \in 0..Len(file.dynamic)
      /\ p = PointerAmong(End - 1, tag) /\ SizeOf(size) = SizeAmong(End - 1, size)
      /\ Values(tag) = <<>> <=> Among(End - 1, {tag}) = <<>>
  <2>1. End - 1 \in 0..Len(file.dynamic)
    BY EndIs, FileIs
  <2> QED BY <1>1, <2>1, SaidAll
<1>3. /\ p \in 0..(Word - 1) /\ SizeOf(size) \in 0..(Word - 1)
      /\ p = 0 <=> Values(tag) = <<>>
  BY <1>2, SaidType
<1>4. si[array] = p /\ si[Counts[size][1]] = SizeOf(size) \div 4
  BY <1>2 DEF SoinfoIs
<1>5. Word \in Nat \ {0} /\ p \in Nat /\ SizeOf(size) \in Nat
  BY <1>3, WordAssumption
<1>6. n = IF Values(tag) = <<>> THEN 0 ELSE SizeOf(size) \div 4
  BY <1>3, <1>4 DEF Length
<1>7. n \in Nat
  BY <1>5, <1>6
<1> HIDE DEF n, p, array
<1>8. CASE Values(tag) = <<>>
  <2>1. n = 0 /\ ArrayOf(tag, size) = <<>>
    BY <1>6, <1>8 DEF ArrayOf
  <2> QED BY <1>7, <2>1, EmptySeq DEF n
<1>9. CASE Values(tag) # <<>>
  <2>1. ArrayOf(tag, size) = [k \in 1..n |-> WordAt(p + 4 * (k - 1))]
    BY <1>6, <1>9 DEF ArrayOf, p
  <2>2. \A k \in 1..n : WordAt(p + 4 * (k - 1)) \in Contents
    BY WordAtType
  <2>3. ArrayOf(tag, size) \in Seq(Contents) /\ Len(ArrayOf(tag, size)) = n
    BY ONLY <1>7, <2>1, <2>2
  <2>4. ASSUME NEW k \in 1..n PROVE ArrayOf(tag, size)[k] = Item(array, k)
    <3>1. p + 4 * (k - 1) \in Nat
      BY <1>5, <1>7
    <3>2. WordAt((p + 4 * (k - 1)) % Word) = WordAt(p + 4 * (k - 1))
      BY <3>1, WordAtModulo
    <3> QED BY <1>4, <2>1, <3>2 DEF Item
  <2> QED BY <1>7, <2>3, <2>4 DEF n, array
<1> QED BY <1>8, <1>9

\* The initialisers, and those of them reached.
LEMMA InitsAre ==
  ASSUME file \in Files, base \in Biases, file.dynamic # <<>>, SoinfoIs(si, End - 1)
  PROVE  LET n == Length("init_array", "init_array_count") IN
         /\ n \in Nat /\ Inits \in Seq(Contents) /\ Len(Inits) = n + 1
         /\ Inits[1] = si.init_func
         /\ \A k \in 1..n : Inits[k + 1] = Item("init_array", k)
<1> DEFINE n == Length("init_array", "init_array_count")
           a == ArrayOf("INIT_ARRAY", "INIT_ARRAYSZ")
           p == PointerOf("INIT")
<1>1. /\ "INIT_ARRAY" \in DOMAIN Pointers /\ "INIT" \in DOMAIN Pointers /\ "INIT_ARRAYSZ" \in DOMAIN Counts
      /\ Pointers["INIT_ARRAY"] = "init_array" /\ Pointers["INIT"] = "init_func"
      /\ Counts["INIT_ARRAYSZ"][1] = "init_array_count" /\ Counts["INIT_ARRAYSZ"][2] = 4
  BY DEF Pointers, Counts
<1>2. /\ n \in Nat /\ a \in Seq(Contents) /\ Len(a) = n
      /\ \A k \in 1..n : a[k] = Item("init_array", k)
  BY <1>1, ArrayIs
<1>3. p \in Contents /\ p = si["init_func"]
  <2>1. p = PointerAmong(End - 1, "INIT") /\ End - 1 \in 0..Len(file.dynamic)
    <3>1. End - 1 \in 0..Len(file.dynamic)
      BY EndIs, FileIs
    <3>2. PointerOf("INIT") = PointerAmong(End - 1, "INIT")
      <4>1. "INIT" # "NULL"
        OBVIOUS
      <4> QED BY ONLY <4>1, file \in Files, file.dynamic # <<>>, SaidAll
    <3> QED BY <3>1, <3>2
  <2> QED BY <1>1, <2>1, SaidType DEF SoinfoIs, Contents
<1> HIDE DEF n, a, p
<1>4. <<p>> \in Seq(Contents) /\ Len(<<p>>) = 1 /\ <<p>>[1] = p
  BY <1>3
<1>5. /\ <<p>> \o a \in Seq(Contents) /\ Len(<<p>> \o a) = 1 + n
      /\ \A i \in 1..(1 + n) : (<<p>> \o a)[i] = IF i <= 1 THEN <<p>>[1] ELSE a[i - 1]
  BY ONLY <1>2, <1>4, ConcatProperties
<1>6. (<<p>> \o a)[1] = p /\ \A k \in 1..n : (<<p>> \o a)[k + 1] = a[k]
  <2>1. 1 \in 1..(1 + n)
    BY <1>2
  <2>2. ASSUME NEW k \in 1..n PROVE k + 1 \in 1..(1 + n) /\ ~ (k + 1 <= 1) /\ (k + 1) - 1 = k
    BY <1>2
  <2> QED BY ONLY <1>4, <1>5, <2>1, <2>2
<1>7. Inits = <<p>> \o a /\ 1 + n = n + 1
  BY <1>2 DEF Inits, p, a
<1> QED BY <1>2, <1>3, <1>5, <1>6, <1>7 DEF n

\* The finalisers: the array from its end, then DT_FINI.
LEMMA FinisAre ==
  ASSUME file \in Files, base \in Biases, file.dynamic # <<>>, SoinfoIs(si, End - 1)
  PROVE  LET n == Length("fini_array", "fini_array_count") IN
         /\ n \in Nat /\ Finis \in Seq(Contents) /\ Len(Finis) = n + 1
         /\ Finis[n + 1] = si.fini_func
         /\ \A k \in 1..n : Finis[n - k + 1] = Item("fini_array", k)
<1> DEFINE n == Length("fini_array", "fini_array_count")
           a == ArrayOf("FINI_ARRAY", "FINI_ARRAYSZ")
           r == Reverse(a)
           p == PointerOf("FINI")
<1>1. /\ "FINI_ARRAY" \in DOMAIN Pointers /\ "FINI" \in DOMAIN Pointers /\ "FINI_ARRAYSZ" \in DOMAIN Counts
      /\ Pointers["FINI_ARRAY"] = "fini_array" /\ Pointers["FINI"] = "fini_func"
      /\ Counts["FINI_ARRAYSZ"][1] = "fini_array_count" /\ Counts["FINI_ARRAYSZ"][2] = 4
  BY DEF Pointers, Counts
<1>2. /\ n \in Nat /\ a \in Seq(Contents) /\ Len(a) = n
      /\ \A k \in 1..n : a[k] = Item("fini_array", k)
  BY <1>1, ArrayIs
<1>3. p \in Contents /\ p = si["fini_func"]
  <2>1. p = PointerAmong(End - 1, "FINI") /\ End - 1 \in 0..Len(file.dynamic)
    <3>1. End - 1 \in 0..Len(file.dynamic)
      BY EndIs, FileIs
    <3>2. PointerOf("FINI") = PointerAmong(End - 1, "FINI")
      <4>1. "FINI" # "NULL"
        OBVIOUS
      <4> QED BY ONLY <4>1, file \in Files, file.dynamic # <<>>, SaidAll
    <3> QED BY <3>1, <3>2
  <2> QED BY <1>1, <2>1, SaidType DEF SoinfoIs, Contents
<1> HIDE DEF n, a, p
<1>4. <<p>> \in Seq(Contents) /\ Len(<<p>>) = 1 /\ <<p>>[1] = p
  BY <1>3
<1>5. r \in Seq(Contents) /\ Len(r) = n /\ \A i \in 1..n : r[i] = a[n - i + 1]
  <2>1. r = [i \in 1..n |-> a[(n - i) + 1]]
    BY <1>2 DEF Reverse
  <2>2. \A i \in 1..n : a[(n - i) + 1] \in Contents
    <3>1. \A i \in 1..n : (n - i) + 1 \in 1..n
      BY <1>2
    <3>2. \A j \in 1..n : a[j] \in Contents
      BY <1>2, ElementOfSeq
    <3> QED BY <3>1, <3>2
  <2> HIDE DEF r
  <2> QED BY ONLY <1>2, <2>1, <2>2
<1> HIDE DEF r
<1>6. /\ r \o <<p>> \in Seq(Contents) /\ Len(r \o <<p>>) = n + 1
      /\ \A i \in 1..(n + 1) : (r \o <<p>>)[i] = IF i <= n THEN r[i] ELSE <<p>>[i - n]
  BY ONLY <1>4, <1>5, ConcatProperties
<1>7. (r \o <<p>>)[n + 1] = p
  <2>1. n + 1 \in 1..(n + 1) /\ ~ (n + 1 <= n) /\ (n + 1) - n = 1
    BY <1>2
  <2> QED BY ONLY <1>4, <1>6, <2>1
<1>8. ASSUME NEW k \in 1..n PROVE (r \o <<p>>)[n - k + 1] = Item("fini_array", k)
  <2>1. /\ n - k + 1 \in 1..n /\ n - k + 1 <= n /\ n - k + 1 \in 1..(n + 1)
        /\ n - (n - k + 1) + 1 = k
    BY <1>2
  <2>2. (r \o <<p>>)[n - k + 1] = r[n - k + 1]
    BY ONLY <1>6, <2>1
  <2>3. r[n - k + 1] = a[k]
    BY ONLY <1>5, <2>1
  <2> QED BY <1>2, <2>2, <2>3
<1>9. Finis = r \o <<p>>
  BY DEF Finis, r, p, a
<1> QED BY <1>2, <1>3, <1>6, <1>7, <1>8, <1>9 DEF n

\* CallFunction enters the functions among them, and FunctionsIn keeps those.
LEMMA FunctionsStep ==
  ASSUME NEW s \in Seq(Contents), NEW k \in Nat, k + 1 <= Len(s)
  PROVE  /\ SubSeq(s, 1, k) \in Seq(Contents)
         /\ FunctionsIn(SubSeq(s, 1, k + 1)) =
              IF s[k + 1] \notin {0, Word - 1} /\ arm THEN Append(FunctionsIn(SubSeq(s, 1, k)), s[k + 1])
              ELSE FunctionsIn(SubSeq(s, 1, k))
<1> DEFINE S == 1..(Word - 2) \cup {Junk}
           t == SubSeq(s, 1, k)
           x == s[k + 1]
<1>1. t \in Seq(Contents) /\ SubSeq(s, 1, k + 1) = Append(t, x)
  BY PrefixStep
<1>2. x \in Contents
  <2>1. k + 1 \in 1..Len(s)
    BY LenProperties
  <2> QED BY <2>1, ElementOfSeq
<1>3. x \in S <=> x \notin {0, Word - 1}
  <2>1. Word \in Nat \ {0}
    BY WordAssumption
  <2> HIDE DEF x
  <2> QED BY <1>2, <2>1, JunkAssumption DEF Contents
<1> HIDE DEF t, x, S
<1>4. Filter(Append(t, x), S) = IF x \in S THEN Append(Filter(t, S), x) ELSE Filter(t, S)
  BY <1>1, <1>2, FilterAppend
<1>5. \A u : FunctionsIn(u) = IF arm THEN Filter(u, S) ELSE <<>>
  BY DEF FunctionsIn, S
<1>6. FunctionsIn(SubSeq(s, 1, k + 1)) =
        IF x \notin {0, Word - 1} /\ arm THEN Append(FunctionsIn(t), x) ELSE FunctionsIn(t)
  BY ONLY <1>1, <1>3, <1>4, <1>5
<1> QED BY <1>1, <1>6 DEF t, x

\* The functions in a sequence are words; in the first k elements, the first functions.
LEMMA FunctionsAre ==
  ASSUME NEW s \in Seq(Contents), NEW k \in 0..Len(s)
  PROVE  /\ FunctionsIn(s) \in Seq(Contents)
         /\ FunctionsIn(SubSeq(s, 1, k)) \in Seq(Contents)
         /\ \E r \in Seq(Contents) : FunctionsIn(s) = FunctionsIn(SubSeq(s, 1, k)) \o r
<1> DEFINE S == 1..(Word - 2) \cup {Junk}
           t == SubSeq(s, 1, k)
           u == SubSeq(s, k + 1, Len(s))
<1>1. \A v : FunctionsIn(v) = IF arm THEN Filter(v, S) ELSE <<>>
  BY DEF FunctionsIn
<1>2. \A v \in Seq(Contents) : FunctionsIn(v) \in Seq(Contents)
  <2> SUFFICES ASSUME NEW v \in Seq(Contents) PROVE FunctionsIn(v) \in Seq(Contents)
    OBVIOUS
  <2> HIDE DEF S
  <2>1. Filter(v, S) \in Seq(S \cap Contents)
    BY FilterType
  <2>2. Filter(v, S) \in Seq(Contents)
    BY <2>1, SeqMonotonic
  <2> QED BY <1>1, <2>2, EmptySeq
<1>3. t \in Seq(Contents) /\ u \in Seq(Contents) /\ s = t \o u
  <2>1. Len(s) \in Nat /\ \A i \in 1..Len(s) : s[i] \in Contents
    BY LenProperties, ElementOfSeq
  <2>2. k \in Int /\ 1 \in Int /\ k + 1 \in Int /\ Len(s) \in Int /\ 1 \in 1..(Len(s) + 1)
        /\ k \in (1 - 1)..Len(s) /\ Len(s) \in k..Len(s)
    BY <2>1
  <2>3. (\A i \in 1..k : s[i] \in Contents) /\ (\A i \in (k + 1)..Len(s) : s[i] \in Contents)
    BY <2>1
  <2>4. t \in Seq(Contents) /\ u \in Seq(Contents)
    BY ONLY <2>2, <2>3, SubSeqProperties
  <2>5. t \o u = SubSeq(s, 1, Len(s))
    BY ONLY <2>2, s \in Seq(Contents), ConcatAdjacentSubSeq
  <2> QED BY <2>4, <2>5, SubSeqFull
<1> HIDE DEF t, u, S
<1>4. Filter(s, S) = Filter(t, S) \o Filter(u, S)
  BY <1>3, FilterConcat
<1>5. FunctionsIn(s) = FunctionsIn(t) \o FunctionsIn(u)
  <2>1. <<>> \o <<>> = <<>>
    OBVIOUS
  <2> QED BY ONLY <1>1, <1>4, <2>1
<1> QED BY <1>2, <1>3, <1>5 DEF t

-----------------------------------------------------------------------------
(* LinkInv: one lemma for each action, or group of actions alike.          *)

\* The places, apart from one another.
LEMMA PlacesAre ==
  /\ InitialisedPlaces = {"ready", "fini_array", "unloaded"}
  /\ LinkedPlaces = {"init", "init_array", "ready", "fini_array", "unloaded"}
  /\ ExtractedPlaces = {"needed", "plt_rel", "rel", "protect", "init", "init_array",
                        "ready", "fini_array", "unloaded"}
BY DEF InitialisedPlaces, LinkedPlaces, ExtractedPlaces

\* What LinkInv says of a library that is being linked or is linked.
LEMMA LinkingIs ==
  ASSUME LinkInv, at \notin {"dynamic", "failed"}
  PROVE  /\ file \in Files /\ base \in Biases /\ file.dynamic # <<>> /\ DOMAIN si = Fields
         /\ End \in Nat /\ End >= 1 /\ End <= Len(file.dynamic) /\ Len(file.dynamic) \in Nat
         /\ file.dynamic[End].d_tag = "NULL"
         /\ at \in ExtractedPlaces => SoinfoIs(si, End - 1) /\ Sane
         /\ at \in {"extract", "needed"} =>
              /\ d \in Nat /\ d >= 1 /\ d <= End /\ d <= Len(file.dynamic)
              /\ d - 1 \in Nat /\ (d - 1) + 1 = d
              /\ entry.d_tag \in Tags
              /\ entry.d_tag = "NULL" => d = End
              /\ entry.d_tag # "NULL" => d + 1 \in 1..End /\ (d + 1) - 1 = d
<1>1. file \in Files /\ base \in Biases /\ file.dynamic # <<>> /\ DOMAIN si = Fields
  BY DEF LinkInv
<1>2. /\ End \in Nat /\ End >= 1 /\ End <= Len(file.dynamic) /\ Len(file.dynamic) \in Nat
      /\ file.dynamic[End].d_tag = "NULL" /\ \A j \in 1..(End - 1) : file.dynamic[j].d_tag # "NULL"
  BY <1>1, EndIs, FileIs
<1>3. at \in ExtractedPlaces => SoinfoIs(si, End - 1) /\ Sane
  BY DEF LinkInv, ExtractInv
<1>4. ASSUME at \in {"extract", "needed"}
      PROVE  /\ d \in Nat /\ d >= 1 /\ d <= End /\ d <= Len(file.dynamic)
             /\ d - 1 \in Nat /\ (d - 1) + 1 = d
             /\ entry.d_tag \in Tags
             /\ entry.d_tag = "NULL" => d = End
             /\ entry.d_tag # "NULL" => d + 1 \in 1..End /\ (d + 1) - 1 = d
  <2>1. d \in 1..End
    BY <1>4 DEF LinkInv, ExtractInv, TablesInv
  <2>2. /\ d \in Nat /\ d >= 1 /\ d <= End /\ d <= Len(file.dynamic) /\ d \in 1..Len(file.dynamic)
        /\ d - 1 \in Nat /\ (d - 1) + 1 = d /\ (d + 1) - 1 = d
        /\ d # End => d \in 1..(End - 1) /\ d + 1 \in 1..End
    BY ONLY <1>2, <2>1
  <2>3. entry.d_tag \in Tags
    BY <1>1, <2>2, FileIs DEF entry
  <2>4. entry.d_tag = "NULL" <=> d = End
    BY <1>2, <2>2 DEF entry
  <2> QED BY <2>2, <2>3, <2>4
<1> QED BY <1>1, <1>2, <1>3, <1>4

\* Before the library is linked.
LEMMA StartInv == LinkInit => LinkInv
<1> SUFFICES ASSUME LinkInit PROVE LinkInv
  OBVIOUS
<1>1. DOMAIN si = Fields /\ at \in {"dynamic", "failed"} /\ at \notin ExtractedPlaces
  BY PlacesAre DEF LinkInit
<1>2. ExtractInv /\ TablesInv /\ CallsInv
  BY <1>1, PlacesAre DEF LinkInit, ExtractInv, TablesInv, CallsInv
<1> QED BY <1>1, <1>2 DEF LinkInit, LinkInv

\* Whatever makes soinfo_link_image return false.
LEMMA FailsInv ==
  ASSUME LinkInv, LinkFails, at \notin {"init_array"} \cup InitialisedPlaces
  PROVE  LinkInv'
<1>1. at' = "failed" /\ UNCHANGED <<lib, si, calls>> /\ calls = <<>>
  BY DEF LinkFails, LinkInv, CallsInv
<1>2. ExtractInv' /\ TablesInv' /\ CallsInv'
  BY <1>1, PlacesAre DEF ExtractInv, TablesInv, CallsInv
<1> QED BY <1>1, <1>2 DEF LinkInv, lib

\* PT_ARM_EXIDX sets fields that no dynamic entry does.
LEMMA GetDynamicInv ==
  ASSUME LinkInv, GetDynamic
  PROVE  LinkInv'
<1>1. /\ file \in Files /\ si = [f \in Fields |-> 0] /\ d = 1 /\ needed = <<>> /\ relocated = <<>>
      /\ calls = <<>> /\ at = "dynamic"
  BY PlacesAre DEF LinkInv, GetDynamic, ExtractInv, TablesInv, CallsInv
<1>2. at' = "extract" /\ file.dynamic # <<>> /\ UNCHANGED <<lib, d, needed, relocated, calls>>
  BY DEF GetDynamic
<1>3. DOMAIN si' = Fields /\ \A f \in Fields \ {"ARM_exidx", "ARM_exidx_count"} : si'[f] = 0
  BY <1>1 DEF GetDynamic
<1>4. SoinfoIs(si', 0)
  BY <1>1, <1>3, SoinfoStart
<1>5. SoinfoIs(si, d - 1)' /\ d' \in 1..End'
  <2>1. d' - 1 = 0
    BY <1>1, <1>2
  <2>2. d' \in 1..End /\ End' = End
    BY <1>1, <1>2, EndIs, LibSame
  <2> QED BY <1>2, <1>4, <2>1, <2>2, SoinfoNext
<1>6. ExtractInv' /\ TablesInv' /\ CallsInv'
  BY <1>1, <1>2, <1>5, PlacesAre DEF ExtractInv, TablesInv, CallsInv
<1> QED BY <1>2, <1>3, <1>6 DEF LinkInv, lib

\* An entry extracted.
LEMMA ExtractedInv ==
  ASSUME LinkInv, at = "extract", entry.d_tag # "NULL", NEW u, Extracted(u), SoinfoIs(u, d)
  PROVE  LinkInv'
<1>1. d \in Nat /\ d + 1 \in 1..End /\ (d + 1) - 1 = d /\ needed = <<>> /\ relocated = <<>> /\ calls = <<>>
  BY LinkingIs, PlacesAre DEF LinkInv, TablesInv, CallsInv
<1>2. si' = u /\ d' = d + 1 /\ at' = "extract" /\ UNCHANGED <<lib, needed, relocated, calls>>
  BY DEF Extracted
<1>3. SoinfoIs(si, d - 1)' /\ d' \in 1..End'
  <2>1. PICK k \in Nat : k = d
    BY <1>1
  <2>2. d' - 1 = k /\ SoinfoIs(si', k)
    BY <1>1, <1>2, <2>1
  <2>3. SoinfoIs(si, d - 1)'
    BY ONLY <1>2, <2>2, SoinfoNext
  <2>4. End' = End
    BY <1>2, LibSame
  <2> QED BY <1>1, <1>2, <2>3, <2>4
<1>4. DOMAIN si' = Fields
  BY <1>2 DEF SoinfoIs
<1>5. ExtractInv' /\ TablesInv' /\ CallsInv'
  BY <1>1, <1>2, <1>3, PlacesAre DEF ExtractInv, TablesInv, CallsInv
<1> QED BY <1>2, <1>4, <1>5 DEF LinkInv, lib

\* The entries that are stored.
LEMMA ExtractFieldsInv ==
  ASSUME LinkInv, ExtractHash \/ ExtractPointer \/ ExtractCount \/ ExtractFlag \/ ExtractOther
  PROVE  LinkInv'
<1>1. at = "extract"
  BY DEF ExtractHash, ExtractPointer, ExtractCount, ExtractFlag, ExtractOther, Extracting
<1> DEFINE e == file.dynamic[d]
<1>2. /\ file \in Files /\ d - 1 \in Nat /\ (d - 1) + 1 = d /\ (d - 1) + 1 <= Len(file.dynamic)
      /\ SoinfoIs(si, d - 1) /\ entry = e
  <2>1. SoinfoIs(si, d - 1)
    BY <1>1 DEF LinkInv, ExtractInv
  <2>2. entry = e
    BY DEF entry
  <2>3. file \in Files /\ d - 1 \in Nat /\ (d - 1) + 1 = d /\ d <= Len(file.dynamic)
    BY <1>1, LinkingIs
  <2> QED BY <2>1, <2>2, <2>3
<1>3. PICK k, s, x : k = d - 1 /\ s = si /\ x = e
  OBVIOUS
<1>4. k \in Nat /\ file \in Files /\ k + 1 = d /\ k + 1 <= Len(file.dynamic) /\ x = file.dynamic[k + 1] /\ SoinfoIs(s, k)
  BY <1>2, <1>3
<1>5. CASE ExtractHash
  <2> DEFINE h == Biased(x.d_un)
             c == WordAt((h + 4) % Word)
             b == (h + 8) % Word
             u == [s EXCEPT !.nbucket = WordAt(h), !.nchain = c, !.bucket = b,
                            !.chain = (h + 8 + 4 * WordAt(h)) % Word]
  <2>1. x.d_tag = "HASH" /\ Extracted(u)
    BY <1>2, <1>3, <1>5 DEF ExtractHash, Extracting
  <2>2. SoinfoIs(u, k + 1)
    BY <1>4, <2>1, SoinfoHash
  <2> HIDE DEF u
  <2> QED BY <1>1, <1>2, <1>3, <1>4, <2>1, <2>2, ExtractedInv
<1>6. CASE ExtractPointer
  <2> DEFINE u == [s EXCEPT ![Pointers[x.d_tag]] = Biased(x.d_un)]
  <2>1. x.d_tag \in DOMAIN Pointers /\ Extracted(u)
    BY <1>2, <1>3, <1>6 DEF ExtractPointer, Extracting
  <2>2. SoinfoIs(u, k + 1)
    BY <1>4, <2>1, SoinfoPointer
  <2>3. x.d_tag # "NULL"
    BY <2>1, TagsApart
  <2> HIDE DEF u
  <2> QED BY <1>1, <1>2, <1>3, <1>4, <2>1, <2>2, <2>3, ExtractedInv
<1>7. CASE ExtractCount
  <2> DEFINE u == [s EXCEPT ![Counts[x.d_tag][1]] = x.d_un \div Counts[x.d_tag][2]]
  <2>1. x.d_tag \in DOMAIN Counts /\ Extracted(u)
    BY <1>2, <1>3, <1>7 DEF ExtractCount, Extracting
  <2>2. SoinfoIs(u, k + 1)
    BY <1>4, <2>1, SoinfoCount
  <2>3. x.d_tag # "NULL"
    BY <2>1, TagsApart
  <2> HIDE DEF u
  <2> QED BY <1>1, <1>2, <1>3, <1>4, <2>1, <2>2, <2>3, ExtractedInv
<1>8. CASE ExtractFlag
  <2> DEFINE u == [s EXCEPT ![Flags[x.d_tag]] = 1]
  <2>1. x.d_tag \in DOMAIN Flags /\ Extracted(u)
    BY <1>2, <1>3, <1>8 DEF ExtractFlag, Extracting
  <2>2. SoinfoIs(u, k + 1)
    BY <1>4, <2>1, SoinfoFlag
  <2>3. x.d_tag # "NULL"
    BY <2>1, TagsApart
  <2> HIDE DEF u
  <2> QED BY <1>1, <1>2, <1>3, <1>4, <2>1, <2>2, <2>3, ExtractedInv
<1>9. CASE ExtractOther
  <2>1. x.d_tag \in {"NEEDED", "PLTREL", "OTHER"} /\ Extracted(s)
    BY <1>2, <1>3, <1>9 DEF ExtractOther, Extracting
  <2>2. SoinfoIs(s, k + 1)
    BY <1>4, <2>1, SoinfoOther
  <2> QED BY <1>1, <1>2, <1>3, <1>4, <2>1, <2>2, ExtractedInv
<1> QED BY <1>5, <1>6, <1>7, <1>8, <1>9

\* The soinfo, extracted, stays as it is.
LEMMA SoinfoKept ==
  ASSUME UNCHANGED <<lib, si>>, SoinfoIs(si, End - 1) /\ Sane
  PROVE  (SoinfoIs(si, End - 1) /\ Sane)' /\ DOMAIN si' = DOMAIN si
<1>1. SoinfoIs(si', End - 1)
  OBVIOUS
<1>2. SoinfoIs(si, End - 1)'
  BY <1>1, SoinfoNextEnd
<1>3. Sane'
  BY DEF Sane
<1> QED BY <1>2, <1>3

\* The DT_NULL: every entry has been seen.
LEMMA ExtractEndInv ==
  ASSUME LinkInv, Extract
  PROVE  LinkInv'
<1>1. at = "extract" /\ entry.d_tag = "NULL" /\ Sane
  BY DEF Extract, Extracting
<1>2. /\ at' = "needed" /\ d' = 1 /\ UNCHANGED <<lib, si, needed, relocated, calls>>
  BY DEF Extract
<1>3. /\ file \in Files /\ End \in Nat /\ End >= 1 /\ d = End /\ DOMAIN si = Fields
      /\ needed = <<>> /\ relocated = <<>> /\ calls = <<>> /\ SoinfoIs(si, End - 1)
  <2>1. SoinfoIs(si, d - 1) /\ needed = <<>> /\ relocated = <<>> /\ calls = <<>>
    BY <1>1, PlacesAre DEF LinkInv, ExtractInv, TablesInv, CallsInv
  <2> QED BY <1>1, <2>1, LinkingIs
<1>4. (SoinfoIs(si, End - 1) /\ Sane)' /\ DOMAIN si' = Fields
  BY <1>1, <1>2, <1>3, SoinfoKept
<1>5. d' \in 1..End' /\ needed' = ValuesAmong(d - 1, "NEEDED")'
  <2>1. ValuesAmong(0, "NEEDED") = <<>>
    BY <1>3, SaidNone
  <2>2. d' - 1 = 0
    BY <1>2
  <2>3. ValuesAmong(d - 1, "NEEDED")' = ValuesAmong(0, "NEEDED")
    BY <1>2, <2>2, ValuesNext
  <2>4. End' = End
    BY <1>2, LibSame
  <2> QED BY <1>2, <1>3, <2>1, <2>3, <2>4
<1>6. ExtractInv' /\ TablesInv' /\ CallsInv'
  BY <1>2, <1>3, <1>4, <1>5, PlacesAre DEF ExtractInv, TablesInv, CallsInv
<1> QED BY <1>1, <1>2, <1>4, <1>6, PlacesAre DEF LinkInv, lib

\* An entry of the second pass: a library looked for, or none.
LEMMA NeededInv ==
  ASSUME LinkInv, FindNeeded \/ SkipEntry
  PROVE  LinkInv'
<1>1. at = "needed" /\ entry.d_tag # "NULL"
  BY DEF FindNeeded, SkipEntry
<1>2. /\ at' = "needed" /\ d' = d + 1 /\ UNCHANGED <<lib, si, relocated, calls>>
      /\ needed' = IF entry.d_tag = "NEEDED" THEN Append(needed, entry.d_un) ELSE needed
  BY <1>1 DEF FindNeeded, SkipEntry
<1>3. /\ file \in Files /\ d \in Nat /\ d - 1 \in Nat /\ (d - 1) + 1 = d /\ d <= Len(file.dynamic)
      /\ d + 1 \in 1..End /\ (d + 1) - 1 = d /\ DOMAIN si = Fields
      /\ file.dynamic # <<>> /\ SoinfoIs(si, End - 1) /\ Sane
  BY <1>1, LinkingIs, PlacesAre
<1>4. needed = ValuesAmong(d - 1, "NEEDED") /\ relocated = <<>> /\ calls = <<>>
  BY <1>1, PlacesAre DEF LinkInv, TablesInv, CallsInv
<1>5. PICK k, e : k = d - 1 /\ e = entry
  OBVIOUS
<1>6. needed' = ValuesAmong(d, "NEEDED")
  <2>1. k \in Nat /\ k + 1 = d /\ k + 1 <= Len(file.dynamic) /\ e = file.dynamic[k + 1]
    BY <1>3, <1>5 DEF entry
  <2>2. ValuesAmong(k + 1, "NEEDED") = IF e.d_tag = "NEEDED" THEN Append(ValuesAmong(k, "NEEDED"), e.d_un)
                                       ELSE ValuesAmong(k, "NEEDED")
    BY ONLY <1>3, <2>1, SaidStep
  <2> QED BY <1>2, <1>4, <1>5, <2>1, <2>2
<1>7. d' \in 1..End' /\ needed' = ValuesAmong(d - 1, "NEEDED")'
  <2>1. PICK m : m = d
    OBVIOUS
  <2>2. ValuesAmong(d - 1, "NEEDED")' = ValuesAmong(m, "NEEDED")
    BY <1>2, <1>3, <2>1, ValuesNext
  <2>3. End' = End
    BY <1>2, LibSame
  <2> QED BY <1>2, <1>3, <1>6, <2>1, <2>2, <2>3
<1>8. (SoinfoIs(si, End - 1) /\ Sane)' /\ DOMAIN si' = Fields
  BY <1>2, <1>3, SoinfoKept
<1>9. ExtractInv' /\ TablesInv' /\ CallsInv'
  BY <1>2, <1>4, <1>7, <1>8, PlacesAre DEF ExtractInv, TablesInv, CallsInv
<1> QED BY <1>1, <1>2, <1>8, <1>9, PlacesAre DEF LinkInv, lib

\* The second pass over.
LEMMA UnprotectInv ==
  ASSUME LinkInv, Unprotect
  PROVE  LinkInv'
<1>1. at = "needed" /\ entry.d_tag = "NULL"
  BY DEF Unprotect
<1>2. /\ at' = "plt_rel" /\ UNCHANGED <<lib, si, needed, relocated, calls>>
      /\ exposed' = (si.has_text_relocations = 1)
  BY DEF Unprotect
<1>3. /\ file \in Files /\ d = End /\ DOMAIN si = Fields
      /\ file.dynamic # <<>> /\ SoinfoIs(si, End - 1) /\ Sane
  BY <1>1, LinkingIs, PlacesAre
<1>4. needed = ValuesAmong(d - 1, "NEEDED") /\ relocated = <<>> /\ calls = <<>>
  BY <1>1, PlacesAre DEF LinkInv, TablesInv, CallsInv
<1>5. needed' = Values("NEEDED")'
  <2>1. Values("NEEDED") = ValuesAmong(End - 1, "NEEDED")
    BY <1>3, SaidAll
  <2>2. Values("NEEDED")' = Values("NEEDED")
    BY <1>2, LibSame
  <2> QED BY <1>2, <1>3, <1>4, <2>1, <2>2
<1>6. (SoinfoIs(si, End - 1) /\ Sane)' /\ DOMAIN si' = Fields
  BY <1>2, <1>3, SoinfoKept
<1>7. ExtractInv' /\ TablesInv' /\ CallsInv'
  BY <1>2, <1>4, <1>5, <1>6, PlacesAre DEF ExtractInv, TablesInv, CallsInv
<1> QED BY <1>1, <1>2, <1>6, <1>7, PlacesAre DEF LinkInv, lib

\* A table of relocations is the file's.
LEMMA TableIs ==
  ASSUME file \in Files, base \in Biases, file.dynamic # <<>>, SoinfoIs(si, End - 1),
         NEW tag \in DOMAIN Pointers, NEW size \in DOMAIN Counts, Counts[size][2] = 8
  PROVE  LET array == Pointers[tag]
             count == Counts[size][1] IN
         Table(tag, size) = IF si[array] = 0 THEN <<>> ELSE << <<si[array], si[count]>> >>
<1>1. tag # "NULL" /\ size # "NULL"
  BY TagsApart
<1>2. /\ End - 1 \in 0..Len(file.dynamic)
      /\ PointerOf(tag) = PointerAmong(End - 1, tag) /\ SizeOf(size) = SizeAmong(End - 1, size)
      /\ Values(tag) = <<>> <=> Among(End - 1, {tag}) = <<>>
  <2>1. End - 1 \in 0..Len(file.dynamic)
    BY EndIs, FileIs
  <2> QED BY <1>1, <2>1, SaidAll
<1>3. PointerOf(tag) = 0 <=> Values(tag) = <<>>
  BY <1>2, SaidType
<1>4. si[Pointers[tag]] = PointerOf(tag) /\ si[Counts[size][1]] = SizeOf(size) \div 8
  BY <1>2 DEF SoinfoIs
<1> QED BY <1>3, <1>4 DEF Table

\* The two tables, applied or not there.
LEMMA RelocatePltInv ==
  ASSUME LinkInv, RelocatePlt
  PROVE  LinkInv'
<1>1. at = "plt_rel"
  BY DEF RelocatePlt
<1>2. /\ at' = "rel" /\ UNCHANGED <<lib, si, needed, exposed, calls>>
      /\ relocated' = IF si["plt_rel"] = 0 THEN relocated
                      ELSE Append(relocated, <<si["plt_rel"], si["plt_rel_count"]>>)
  BY DEF RelocatePlt, Relocated
<1>3. /\ file \in Files /\ base \in Biases /\ DOMAIN si = Fields
      /\ file.dynamic # <<>> /\ SoinfoIs(si, End - 1) /\ Sane
  BY <1>1, LinkingIs, PlacesAre
<1>4. needed = Values("NEEDED") /\ relocated = <<>> /\ calls = <<>> /\ exposed = (si.has_text_relocations = 1)
  BY <1>1, PlacesAre DEF LinkInv, TablesInv, CallsInv
<1>5. PltTable = IF si["plt_rel"] = 0 THEN <<>> ELSE << <<si["plt_rel"], si["plt_rel_count"]>> >>
  <2>1. /\ "JMPREL" \in DOMAIN Pointers /\ Pointers["JMPREL"] = "plt_rel"
        /\ "PLTRELSZ" \in DOMAIN Counts /\ Counts["PLTRELSZ"][1] = "plt_rel_count"
        /\ Counts["PLTRELSZ"][2] = 8
    BY DEF Pointers, Counts
  <2> QED BY <1>3, <2>1, TableIs DEF PltTable
<1>6. relocated' = PltTable'
  <2>1. \A x : Append(<<>>, x) = <<x>>
    OBVIOUS
  <2>2. PltTable' = PltTable
    BY <1>2, ListsSame
  <2> QED BY <1>2, <1>4, <1>5, <2>1, <2>2
<1>7. needed' = Values("NEEDED")'
  BY <1>2, <1>4, LibSame
<1>8. (SoinfoIs(si, End - 1) /\ Sane)' /\ DOMAIN si' = Fields
  BY <1>2, <1>3, SoinfoKept
<1>9. ExtractInv' /\ TablesInv' /\ CallsInv'
  BY <1>2, <1>4, <1>6, <1>7, <1>8, PlacesAre DEF ExtractInv, TablesInv, CallsInv
<1> QED BY <1>1, <1>2, <1>8, <1>9, PlacesAre DEF LinkInv, lib

\* The other table is applied after the PLT's.
LEMMA RelocateRelInv ==
  ASSUME LinkInv, RelocateRel
  PROVE  LinkInv'
<1>1. at = "rel"
  BY DEF RelocateRel
<1>2. /\ at' = "protect" /\ UNCHANGED <<lib, si, needed, exposed, calls>>
      /\ relocated' = IF si["rel"] = 0 THEN relocated ELSE Append(relocated, <<si["rel"], si["rel_count"]>>)
  BY DEF RelocateRel, Relocated
<1>3. /\ file \in Files /\ base \in Biases /\ DOMAIN si = Fields
      /\ file.dynamic # <<>> /\ SoinfoIs(si, End - 1) /\ Sane
  BY <1>1, LinkingIs, PlacesAre
<1>4. needed = Values("NEEDED") /\ relocated = PltTable /\ calls = <<>> /\ exposed = (si.has_text_relocations = 1)
  BY <1>1, PlacesAre DEF LinkInv, TablesInv, CallsInv
<1>5. RelTable = IF si["rel"] = 0 THEN <<>> ELSE << <<si["rel"], si["rel_count"]>> >>
  <2>1. /\ "REL" \in DOMAIN Pointers /\ Pointers["REL"] = "rel"
        /\ "RELSZ" \in DOMAIN Counts /\ Counts["RELSZ"][1] = "rel_count"
        /\ Counts["RELSZ"][2] = 8
    BY DEF Pointers, Counts
  <2> QED BY <1>3, <2>1, TableIs DEF RelTable
<1>6. relocated' = PltTable' \o RelTable'
  <2> DEFINE x == <<PointerOf("JMPREL"), SizeOf("PLTRELSZ") \div 8>>
             y == <<si["rel"], si["rel_count"]>>
             T == {x, y}
  <2>1. PltTable \in Seq(T) /\ y \in T
    <3>1. PltTable = <<>> \/ PltTable = <<x>>
      BY DEF PltTable, Table
    <3>2. <<x>> \in Seq(T) /\ <<>> \in Seq(T)
      <4> HIDE DEF x, y
      <4> QED BY EmptySeq
    <3> QED BY <3>1, <3>2
  <2> HIDE DEF x, T
  <2>2. Append(PltTable, y) = PltTable \o <<y>> /\ PltTable \o <<>> = PltTable
    BY ONLY <2>1, AppendIsConcat, ConcatEmptySeq
  <2>3. PltTable' = PltTable /\ RelTable' = RelTable
    BY <1>2, ListsSame
  <2> QED BY <1>2, <1>4, <1>5, <2>2, <2>3
<1>7. needed' = Values("NEEDED")'
  BY <1>2, <1>4, LibSame
<1>8. (SoinfoIs(si, End - 1) /\ Sane)' /\ DOMAIN si' = Fields
  BY <1>2, <1>3, SoinfoKept
<1>9. ExtractInv' /\ TablesInv' /\ CallsInv'
  BY <1>2, <1>4, <1>6, <1>7, <1>8, PlacesAre DEF ExtractInv, TablesInv, CallsInv
<1> QED BY <1>1, <1>2, <1>8, <1>9, PlacesAre DEF LinkInv, lib

\* What stays of a linked library at every later step.
LinkedStays ==
  /\ (SoinfoIs(si, End - 1) /\ Sane)' /\ DOMAIN si' = Fields
  /\ (needed = Values("NEEDED"))' /\ (relocated = PltTable \o RelTable)'
  /\ Inits' = Inits /\ Finis' = Finis /\ Initialisers' = Initialisers /\ Finalisers' = Finalisers
  /\ \A s : FunctionsIn(s)' = FunctionsIn(s)

\* It is so as long as the soinfo, needed and relocated stay what they are.
LEMMA LinkedKept ==
  ASSUME LinkInv, at \in {"protect"} \cup LinkedPlaces, UNCHANGED <<lib, si, needed, relocated>>
  PROVE  LinkedStays
<1>1. /\ DOMAIN si = Fields /\ SoinfoIs(si, End - 1) /\ Sane
  BY LinkingIs, PlacesAre
<1>2. needed = Values("NEEDED") /\ relocated = PltTable \o RelTable
  BY PlacesAre DEF LinkInv, TablesInv
<1>3. (SoinfoIs(si, End - 1) /\ Sane)' /\ DOMAIN si' = Fields
  BY <1>1, SoinfoKept
<1>4. (needed = Values("NEEDED"))'
  BY <1>2, LibSame
<1>5. (relocated = PltTable \o RelTable)'
  BY <1>2, ListsSame
<1>6. /\ Inits' = Inits /\ Finis' = Finis /\ Initialisers' = Initialisers /\ Finalisers' = Finalisers
  BY ListsSame
<1>7. \A s : FunctionsIn(s)' = FunctionsIn(s)
  BY LibSame
<1> QED BY <1>3, <1>4, <1>5, <1>6, <1>7 DEF LinkedStays

\* The segments are protected again.
LEMMA ProtectInv ==
  ASSUME LinkInv, Protect
  PROVE  LinkInv'
<1>1. at = "protect" /\ calls = <<>>
  BY PlacesAre DEF Protect, LinkInv, CallsInv
<1>2. at' = "init" /\ ~exposed' /\ UNCHANGED <<lib, si, needed, relocated, calls>>
  BY DEF Protect
<1>3. LinkedStays
  BY <1>1, <1>2, LinkedKept
<1>4. ExtractInv' /\ TablesInv' /\ CallsInv'
  BY <1>1, <1>2, <1>3, PlacesAre DEF ExtractInv, TablesInv, CallsInv, LinkedStays
<1> QED BY <1>1, <1>2, <1>3, <1>4, PlacesAre DEF LinkInv, lib, LinkedStays

\* The functions reached, after a step.
LEMMA ReachedNext ==
  ASSUME UNCHANGED lib, LinkedStays, NEW k, d' = k
  PROVE  /\ FunctionsIn(SubSeq(Inits, 1, d))' = FunctionsIn(SubSeq(Inits, 1, k))
         /\ FunctionsIn(SubSeq(Finis, 1, Len(Finis) - 1 - d))'
              = FunctionsIn(SubSeq(Finis, 1, Len(Finis) - 1 - k))
<1>1. arm' = arm /\ Inits' = Inits /\ Finis' = Finis
  BY DEF lib, LinkedStays
<1> QED BY <1>1 DEF FunctionsIn

\* CallFunction enters the next function of a sequence, if it is one.
LEMMA EntersNext ==
  ASSUME NEW s \in Seq(Contents), NEW k \in Nat, k + 1 <= Len(s),
         NEW p \in Seq(Contents), calls = p \o FunctionsIn(SubSeq(s, 1, k)), NEW f, f = s[k + 1],
         CallFunction(f)
  PROVE  calls' = p \o FunctionsIn(SubSeq(s, 1, k + 1))
<1> DEFINE t == SubSeq(s, 1, k)
           u == SubSeq(s, 1, k + 1)
<1>1. /\ t \in Seq(Contents)
      /\ FunctionsIn(u) = IF f \notin {0, Word - 1} /\ arm THEN Append(FunctionsIn(t), f) ELSE FunctionsIn(t)
  BY FunctionsStep
<1>2. FunctionsIn(t) \in Seq(Contents) /\ f \in Contents
  <2>1. k \in 0..Len(s) /\ k + 1 \in 1..Len(s)
    BY LenProperties
  <2> QED BY <2>1, FunctionsAre, ElementOfSeq
<1>3. calls' = IF f \notin {0, Word - 1} /\ arm THEN Append(calls, f) ELSE calls
  BY DEF CallFunction
<1> HIDE DEF t, u
<1>4. calls = p \o FunctionsIn(t)
  BY DEF t
<1>5. p \o Append(FunctionsIn(t), f) = Append(p \o FunctionsIn(t), f)
  BY ONLY <1>2, p \in Seq(Contents), ConcatAppend
<1>6. calls' = p \o FunctionsIn(u)
  BY ONLY <1>1, <1>3, <1>4, <1>5
<1> QED BY <1>6 DEF u

\* No function in none.
LEMMA NoFunctions == FunctionsIn(<<>>) = <<>>
BY FilterEmpty DEF FunctionsIn

\* The whole of the initialisers, and of the finalisers.
LEMMA AllFunctions ==
  ASSUME Inits \in Seq(Contents), Finis \in Seq(Contents)
  PROVE  /\ FunctionsIn(SubSeq(Inits, 1, Len(Inits))) = Initialisers
         /\ FunctionsIn(SubSeq(Finis, 1, Len(Finis))) = Finalisers
         /\ Initialisers \in Seq(Contents) /\ Finalisers \in Seq(Contents)
<1>1. Initialisers = FunctionsIn(Inits) /\ Finalisers = FunctionsIn(Finis)
  BY DEF Initialisers, Finalisers, Inits, Finis
<1>2. SubSeq(Inits, 1, Len(Inits)) = Inits /\ SubSeq(Finis, 1, Len(Finis)) = Finis
  BY SubSeqFull
<1>3. ASSUME NEW s \in Seq(Contents) PROVE FunctionsIn(s) \in Seq(Contents)
  <2>1. 0 \in 0..Len(s)
    BY LenProperties
  <2> QED BY <2>1, FunctionsAre
<1> QED BY <1>1, <1>2, <1>3

\* DT_INIT is the first of the initialisers.
LEMMA CallInitInv ==
  ASSUME LinkInv, CallInit
  PROVE  LinkInv'
<1>1. at = "init" /\ CallFunction(si.init_func)
  BY DEF CallInit
<1>2. /\ at' = "init_array" /\ d' = 1 /\ UNCHANGED <<lib, si, needed, relocated, exposed>>
  BY DEF CallInit
<1>3. /\ file \in Files /\ base \in Biases /\ file.dynamic # <<>> /\ SoinfoIs(si, End - 1)
      /\ calls = <<>> /\ ~exposed
  BY <1>1, LinkingIs, PlacesAre DEF LinkInv, CallsInv, TablesInv
<1>4. PICK n \in Nat : /\ Inits \in Seq(Contents) /\ Len(Inits) = n + 1 /\ Inits[1] = si.init_func
  BY <1>3, InitsAre
<1>5. LinkedStays
  BY <1>1, <1>2, LinkedKept, PlacesAre
<1>6. calls' = FunctionsIn(SubSeq(Inits, 1, 1))
  <2>1. SubSeq(Inits, 1, 0) = <<>> /\ FunctionsIn(<<>>) = <<>>
    BY SubSeqEmpty, NoFunctions
  <2>2. <<>> \in Seq(Contents) /\ 0 + 1 <= Len(Inits) /\ 0 \in Nat /\ 0 + 1 = 1
    BY <1>4, EmptySeq
  <2>3. calls = <<>> \o FunctionsIn(SubSeq(Inits, 1, 0))
    <3>1. <<>> \o <<>> = <<>>
      OBVIOUS
    <3> QED BY <1>3, <2>1, <3>1
  <2>4. calls' = <<>> \o FunctionsIn(SubSeq(Inits, 1, 0 + 1))
    <3>1. si.init_func = Inits[0 + 1]
      BY <1>4, <2>2
    <3> QED BY ONLY <1>1, <1>4, <2>2, <2>3, <3>1, EntersNext
  <2>5. FunctionsIn(SubSeq(Inits, 1, 1)) \in Seq(Contents)
    <3>1. 1 \in 0..Len(Inits)
      BY <1>4
    <3> QED BY <1>4, <3>1, FunctionsAre
  <2> QED BY <2>2, <2>4, <2>5, ConcatEmptySeq
<1>7. (d \in 1..Len(Inits) /\ calls = FunctionsIn(SubSeq(Inits, 1, d)))'
  <2>1. FunctionsIn(SubSeq(Inits, 1, d))' = FunctionsIn(SubSeq(Inits, 1, 1))
    BY <1>2, <1>5, ReachedNext
  <2>2. d' \in 1..Len(Inits')
    BY <1>2, <1>4, <1>5 DEF LinkedStays
  <2> QED BY <1>6, <2>1, <2>2
<1>8. ExtractInv' /\ TablesInv' /\ CallsInv'
  BY <1>2, <1>3, <1>5, <1>7, PlacesAre DEF ExtractInv, TablesInv, CallsInv, LinkedStays
<1> QED BY <1>1, <1>2, <1>5, <1>8, PlacesAre DEF LinkInv, lib, LinkedStays

\* Item k of DT_INIT_ARRAY is the one after.
LEMMA CallInitItemInv ==
  ASSUME LinkInv, CallInitItem
  PROVE  LinkInv'
<1>1. /\ at = "init_array" /\ d <= Length("init_array", "init_array_count")
      /\ CallFunction(Item("init_array", d))
  BY DEF CallInitItem
<1>2. /\ at' = "init_array" /\ d' = d + 1 /\ UNCHANGED <<lib, si, needed, relocated, exposed>>
  BY <1>1 DEF CallInitItem
<1>3. /\ file \in Files /\ base \in Biases /\ file.dynamic # <<>> /\ SoinfoIs(si, End - 1) /\ ~exposed
      /\ d \in 1..Len(Inits) /\ calls = FunctionsIn(SubSeq(Inits, 1, d))
  BY <1>1, LinkingIs, PlacesAre DEF LinkInv, CallsInv, TablesInv
<1>4. PICK n \in Nat : /\ n = Length("init_array", "init_array_count")
                       /\ Inits \in Seq(Contents) /\ Len(Inits) = n + 1
                       /\ \A k \in 1..n : Inits[k + 1] = Item("init_array", k)
  BY <1>3, InitsAre
<1>5. LinkedStays
  BY <1>1, <1>2, LinkedKept, PlacesAre
<1>6. PICK k, f : k \in Nat /\ k = d /\ f = Item("init_array", d)
  BY <1>3, <1>4
<1>7. k \in 1..n /\ k + 1 <= Len(Inits) /\ k + 1 \in 1..Len(Inits) /\ f = Inits[k + 1]
  BY <1>1, <1>3, <1>4, <1>6
<1>8. calls' = FunctionsIn(SubSeq(Inits, 1, k + 1))
  <2>1. FunctionsIn(SubSeq(Inits, 1, k)) \in Seq(Contents) /\ FunctionsIn(SubSeq(Inits, 1, k + 1)) \in Seq(Contents)
    <3>1. k \in 0..Len(Inits) /\ k + 1 \in 0..Len(Inits)
      BY <1>7
    <3> QED BY <1>4, <3>1, FunctionsAre
  <2>2. <<>> \in Seq(Contents)
    BY EmptySeq
  <2>3. calls = <<>> \o FunctionsIn(SubSeq(Inits, 1, k))
    BY <1>3, <1>6, <2>1, ConcatEmptySeq
  <2>4. calls' = <<>> \o FunctionsIn(SubSeq(Inits, 1, k + 1))
    BY <1>1, <1>4, <1>6, <1>7, <2>2, <2>3, EntersNext
  <2> QED BY <2>1, <2>4, ConcatEmptySeq
<1>9. (d \in 1..Len(Inits) /\ calls = FunctionsIn(SubSeq(Inits, 1, d)))'
  <2>1. PICK m : m = k + 1
    OBVIOUS
  <2>2. FunctionsIn(SubSeq(Inits, 1, d))' = FunctionsIn(SubSeq(Inits, 1, m))
    BY <1>2, <1>5, <1>6, <2>1, ReachedNext
  <2>3. d' \in 1..Len(Inits')
    BY <1>2, <1>5, <1>6, <1>7 DEF LinkedStays
  <2> QED BY <1>8, <2>1, <2>2, <2>3
<1>10. ExtractInv' /\ TablesInv' /\ CallsInv'
  BY <1>2, <1>3, <1>5, <1>9, PlacesAre DEF ExtractInv, TablesInv, CallsInv, LinkedStays
<1> QED BY <1>1, <1>2, <1>5, <1>10, PlacesAre DEF LinkInv, lib, LinkedStays

\* All of them have been called at the end of the array.
LEMMA ConstructedInv ==
  ASSUME LinkInv, Constructed
  PROVE  LinkInv'
<1>1. /\ at = "init_array" /\ d > Length("init_array", "init_array_count")
  BY DEF Constructed
<1>2. /\ at' = "ready" /\ UNCHANGED <<lib, si, needed, relocated, exposed, calls>>
  BY DEF Constructed
<1>3. /\ file \in Files /\ base \in Biases /\ file.dynamic # <<>> /\ SoinfoIs(si, End - 1) /\ ~exposed
      /\ d \in 1..Len(Inits) /\ calls = FunctionsIn(SubSeq(Inits, 1, d))
  BY <1>1, LinkingIs, PlacesAre DEF LinkInv, CallsInv, TablesInv
<1>4. LinkedStays
  BY <1>1, <1>2, LinkedKept, PlacesAre
<1>5. calls = Initialisers
  <2>1. PICK n \in Nat : /\ n = Length("init_array", "init_array_count")
                         /\ Inits \in Seq(Contents) /\ Len(Inits) = n + 1
    BY <1>3, InitsAre
  <2>2. d = Len(Inits)
    BY <1>1, <1>3, <2>1
  <2>3. Finis \in Seq(Contents)
    BY <1>3, FinisAre
  <2> QED BY <1>3, <2>1, <2>2, <2>3, AllFunctions
<1>6. ExtractInv' /\ TablesInv' /\ CallsInv'
  BY <1>2, <1>3, <1>4, <1>5, PlacesAre DEF ExtractInv, TablesInv, CallsInv, LinkedStays
<1> QED BY <1>1, <1>2, <1>4, <1>6, PlacesAre DEF LinkInv, lib, LinkedStays

\* The finalisers begin at the end of DT_FINI_ARRAY.
LEMMA CloseInv ==
  ASSUME LinkInv, Close
  PROVE  LinkInv'
<1>1. at = "ready" /\ calls = Initialisers /\ ~exposed
  BY PlacesAre DEF Close, LinkInv, CallsInv, TablesInv
<1>2. /\ at' = "fini_array" /\ d' = Length("fini_array", "fini_array_count")
      /\ UNCHANGED <<lib, si, needed, relocated, exposed, calls>>
  BY DEF Close
<1>3. /\ file \in Files /\ base \in Biases /\ file.dynamic # <<>> /\ SoinfoIs(si, End - 1)
  BY <1>1, LinkingIs, PlacesAre
<1>4. LinkedStays
  BY <1>1, <1>2, LinkedKept, PlacesAre
<1>5. PICK n \in Nat : /\ n = Length("fini_array", "fini_array_count")
                       /\ Finis \in Seq(Contents) /\ Len(Finis) = n + 1
  BY <1>3, FinisAre
<1>6. (/\ d \in 0..(Len(Finis) - 1)
       /\ calls = Initialisers \o FunctionsIn(SubSeq(Finis, 1, Len(Finis) - 1 - d)))'
  <2>1. Len(Finis) - 1 - n = 0 /\ Len(Finis) - 1 = n
    BY <1>5
  <2>2. FunctionsIn(SubSeq(Finis, 1, Len(Finis) - 1 - d))' = FunctionsIn(SubSeq(Finis, 1, 0))
    BY <1>2, <1>4, <1>5, <2>1, ReachedNext
  <2>3. FunctionsIn(SubSeq(Finis, 1, 0)) = <<>>
    <3>1. SubSeq(Finis, 1, 0) = <<>>
      <4>1. 1 \in Int /\ 0 \in Int /\ 1 > 0
        OBVIOUS
      <4> QED BY <4>1, SubSeqEmpty
    <3> QED BY <3>1, NoFunctions
  <2>4. Initialisers \o <<>> = Initialisers
    <3>1. Inits \in Seq(Contents)
      BY <1>3, InitsAre
    <3>2. Initialisers \in Seq(Contents)
      BY <1>5, <3>1, AllFunctions
    <3> QED BY <3>2, ConcatEmptySeq
  <2>5. d' \in 0..(Len(Finis') - 1)
    BY <1>2, <1>4, <1>5, <2>1 DEF LinkedStays
  <2> QED BY <1>1, <1>2, <1>4, <2>2, <2>3, <2>4, <2>5 DEF LinkedStays
<1>7. ExtractInv' /\ TablesInv' /\ CallsInv'
  BY <1>1, <1>2, <1>4, <1>6, PlacesAre DEF ExtractInv, TablesInv, CallsInv, LinkedStays
<1> QED BY <1>1, <1>2, <1>3, <1>4, <1>7, PlacesAre DEF LinkInv, lib, LinkedStays

\* Item k is the finaliser that comes n - k after the first.
LEMMA CallFiniItemInv ==
  ASSUME LinkInv, CallFiniItem
  PROVE  LinkInv'
<1>1. /\ at = "fini_array" /\ d > 0 /\ CallFunction(Item("fini_array", d))
  BY DEF CallFiniItem
<1>2. /\ at' = "fini_array" /\ d' = d - 1 /\ UNCHANGED <<lib, si, needed, relocated, exposed>>
  BY <1>1 DEF CallFiniItem
<1>3. /\ file \in Files /\ base \in Biases /\ file.dynamic # <<>> /\ SoinfoIs(si, End - 1) /\ ~exposed
      /\ d \in 0..(Len(Finis) - 1)
      /\ calls = Initialisers \o FunctionsIn(SubSeq(Finis, 1, Len(Finis) - 1 - d))
  BY <1>1, LinkingIs, PlacesAre DEF LinkInv, CallsInv, TablesInv
<1>4. PICK n \in Nat : /\ Finis \in Seq(Contents) /\ Len(Finis) = n + 1
                       /\ \A k \in 1..n : Finis[n - k + 1] = Item("fini_array", k)
  BY <1>3, FinisAre
<1>5. LinkedStays
  BY <1>1, <1>2, LinkedKept, PlacesAre
<1>6. PICK m, k, f : m \in Nat /\ k \in Nat /\ m = d /\ k = n - d /\ f = Item("fini_array", d)
  BY <1>3, <1>4
<1>7. /\ m \in 1..n /\ k + 1 <= Len(Finis) /\ k + 1 = n - m + 1 /\ f = Finis[k + 1]
      /\ k = Len(Finis) - 1 - d /\ k + 1 = Len(Finis) - 1 - (m - 1) /\ m - 1 \in 0..(Len(Finis) - 1)
  <2>1. /\ m \in 1..n /\ k + 1 <= n + 1 /\ k + 1 = n - m + 1 /\ k = (n + 1) - 1 - m
        /\ k + 1 = (n + 1) - 1 - (m - 1) /\ m - 1 \in 0..((n + 1) - 1)
    BY <1>1, <1>3, <1>4, <1>6
  <2> QED BY <1>4, <1>6, <2>1
<1>8. calls' = Initialisers \o FunctionsIn(SubSeq(Finis, 1, k + 1))
  <2>1. Initialisers \in Seq(Contents)
    <3>1. Inits \in Seq(Contents)
      BY <1>3, InitsAre
    <3> QED BY <1>4, <3>1, AllFunctions
  <2>2. calls = Initialisers \o FunctionsIn(SubSeq(Finis, 1, k))
    BY <1>3, <1>7
  <2> QED BY <1>1, <1>4, <1>6, <1>7, <2>1, <2>2, EntersNext
<1>9. (/\ d \in 0..(Len(Finis) - 1)
       /\ calls = Initialisers \o FunctionsIn(SubSeq(Finis, 1, Len(Finis) - 1 - d)))'
  <2>1. PICK l : l = m - 1
    OBVIOUS
  <2>2. FunctionsIn(SubSeq(Finis, 1, Len(Finis) - 1 - d))' = FunctionsIn(SubSeq(Finis, 1, Len(Finis) - 1 - l))
    BY <1>2, <1>5, <1>6, <2>1, ReachedNext
  <2>3. d' \in 0..(Len(Finis') - 1)
    BY <1>2, <1>5, <1>6, <1>7 DEF LinkedStays
  <2> QED BY <1>5, <1>7, <1>8, <2>1, <2>2, <2>3 DEF LinkedStays
<1>10. ExtractInv' /\ TablesInv' /\ CallsInv'
  BY <1>2, <1>3, <1>5, <1>9, PlacesAre DEF ExtractInv, TablesInv, CallsInv, LinkedStays
<1> QED BY <1>1, <1>2, <1>3, <1>5, <1>10, PlacesAre DEF LinkInv, lib, LinkedStays

\* DT_FINI is the last of them.
LEMMA CallFiniInv ==
  ASSUME LinkInv, CallFini
  PROVE  LinkInv'
<1>1. /\ at = "fini_array" /\ d = 0 /\ CallFunction(si.fini_func)
  BY DEF CallFini
<1>2. /\ at' = "unloaded" /\ UNCHANGED <<lib, si, d, needed, relocated, exposed>>
  BY DEF CallFini
<1>3. /\ file \in Files /\ base \in Biases /\ file.dynamic # <<>> /\ SoinfoIs(si, End - 1) /\ ~exposed
      /\ calls = Initialisers \o FunctionsIn(SubSeq(Finis, 1, Len(Finis) - 1 - d))
  BY <1>1, LinkingIs, PlacesAre DEF LinkInv, CallsInv, TablesInv
<1>4. PICK n \in Nat : /\ Finis \in Seq(Contents) /\ Len(Finis) = n + 1 /\ Finis[n + 1] = si.fini_func
  BY <1>3, FinisAre
<1>5. LinkedStays
  BY <1>1, <1>2, LinkedKept, PlacesAre
<1>6. Inits \in Seq(Contents)
  BY <1>3, InitsAre
<1>7. calls' = Initialisers \o FunctionsIn(SubSeq(Finis, 1, n + 1))
  <2>1. Initialisers \in Seq(Contents)
    BY <1>4, <1>6, AllFunctions
  <2>2. n = Len(Finis) - 1 - d /\ n + 1 <= Len(Finis)
    BY <1>1, <1>4
  <2>3. calls = Initialisers \o FunctionsIn(SubSeq(Finis, 1, n))
    BY <1>3, <2>2
  <2> QED BY <1>1, <1>4, <2>1, <2>2, <2>3, EntersNext
<1>8. (calls = Initialisers \o Finalisers)'
  BY <1>4, <1>5, <1>6, <1>7, AllFunctions DEF LinkedStays
<1>9. ExtractInv' /\ TablesInv' /\ CallsInv'
  BY <1>2, <1>3, <1>5, <1>8, PlacesAre DEF ExtractInv, TablesInv, CallsInv, LinkedStays
<1> QED BY <1>1, <1>2, <1>3, <1>5, <1>9, PlacesAre DEF LinkInv, lib, LinkedStays

\* A step of another part of the program.
LEMMA LinkSame ==
  ASSUME LinkInv, UNCHANGED lvars
  PROVE  LinkInv'
<1>1. file' = file /\ base' = base /\ arm' = arm /\ si' = si /\ at' = at /\ d' = d /\ needed' = needed
      /\ relocated' = relocated /\ exposed' = exposed /\ calls' = calls
  BY DEF lvars, lib
<1>2. ExtractInv' /\ TablesInv' /\ CallsInv'
  <2> PICK k : k = d - 1
    OBVIOUS
  <2>0. UNCHANGED lib /\ d' - 1 = k
    BY <1>1 DEF lib
  <2>1. ExtractInv'
    <3>1. (at = "dynamic" => d = 1 /\ si = [f \in Fields |-> 0])'
      BY <1>1 DEF LinkInv, ExtractInv
    <3>2. (at = "extract" => d \in 1..End /\ SoinfoIs(si, d - 1))'
      <4>1. SUFFICES ASSUME at = "extract" PROVE (d \in 1..End /\ SoinfoIs(si, d - 1))'
        BY <1>1
      <4>2. d \in 1..End /\ SoinfoIs(si', k)
        BY <1>1, <4>1 DEF LinkInv, ExtractInv
      <4>3. SoinfoIs(si, d - 1)'
        BY <2>0, <4>2, SoinfoNext
      <4> QED BY <1>1, <2>0, <4>2, <4>3, LibSame
    <3>3. (at \in ExtractedPlaces => SoinfoIs(si, End - 1) /\ Sane)'
      <4>1. SUFFICES ASSUME at \in ExtractedPlaces PROVE (SoinfoIs(si, End - 1) /\ Sane)'
        BY <1>1, PlacesAre
      <4>2. SoinfoIs(si', End - 1) /\ Sane
        BY <1>1, <4>1 DEF LinkInv, ExtractInv
      <4>3. SoinfoIs(si, End - 1)'
        BY <2>0, <4>2, SoinfoNextEnd
      <4> QED BY <1>1, <4>2, <4>3 DEF Sane
    <3> QED BY <3>1, <3>2, <3>3 DEF ExtractInv
  <2>2. TablesInv'
    <3>1. at = "needed" => ValuesAmong(d - 1, "NEEDED")' = ValuesAmong(d - 1, "NEEDED")
      <4>1. ValuesAmong(d - 1, "NEEDED")' = ValuesAmong(k, "NEEDED")
        BY <2>0, ValuesNext
      <4> QED BY <4>1
    <3>2. Values("NEEDED")' = Values("NEEDED") /\ End' = End
      BY <2>0, LibSame
    <3>3. PltTable' = PltTable /\ RelTable' = RelTable
      BY <2>0, ListsSame
    <3> QED BY <1>1, <3>1, <3>2, <3>3, PlacesAre DEF LinkInv, TablesInv
  <2>3. CallsInv'
    BY <1>1, LibSame, ListsSame DEF LinkInv, CallsInv, FunctionsIn, lib
  <2> QED BY <2>1, <2>2, <2>3
<1> QED BY <1>1, <1>2 DEF LinkInv

\* The steps of opening and closing a library.
LEMMA LinkStepInv ==
  ASSUME LinkInv, OpenStep \/ CloseStep \/ UNCHANGED lvars
  PROVE  LinkInv'
<1>1. CASE GetDynamic
  BY <1>1, GetDynamicInv
<1>2. CASE \/ NoDynamic \/ ExtractRejected \/ ExtractInsane \/ FindNeededFails \/ UnprotectFails
           \/ RelocateFails \/ ProtectFails
  <2>1. LinkFails /\ at \in {"dynamic", "extract", "needed", "plt_rel", "rel", "protect"}
    BY <1>2 DEF NoDynamic, ExtractRejected, ExtractInsane, Extracting, FindNeededFails, UnprotectFails,
                RelocateFails, ProtectFails
  <2> QED BY <2>1, FailsInv, PlacesAre
<1>3. CASE ExtractHash \/ ExtractPointer \/ ExtractCount \/ ExtractFlag \/ ExtractOther
  BY <1>3, ExtractFieldsInv
<1>4. CASE Extract
  BY <1>4, ExtractEndInv
<1>5. CASE FindNeeded \/ SkipEntry
  BY <1>5, NeededInv
<1>6. CASE Unprotect
  BY <1>6, UnprotectInv
<1>7. CASE RelocatePlt
  BY <1>7, RelocatePltInv
<1>8. CASE RelocateRel
  BY <1>8, RelocateRelInv
<1>9. CASE Protect
  BY <1>9, ProtectInv
<1>10. CASE CallInit
  BY <1>10, CallInitInv
<1>11. CASE CallInitItem
  BY <1>11, CallInitItemInv
<1>12. CASE Constructed
  BY <1>12, ConstructedInv
<1>13. CASE Close
  BY <1>13, CloseInv
<1>14. CASE CallFiniItem
  BY <1>14, CallFiniItemInv
<1>15. CASE CallFini
  BY <1>15, CallFiniInv
<1>16. CASE UNCHANGED lvars
  BY <1>16, LinkSame
<1> QED BY <1>1, <1>2, <1>3, <1>4, <1>5, <1>6, <1>7, <1>8, <1>9, <1>10, <1>11, <1>12, <1>13, <1>14, <1>15, <1>16
        DEF OpenStep, CloseStep, ExtractStep, LinkStep

-----------------------------------------------------------------------------
(* The properties of the link.                                             *)

\* What an entry says, the invariant has.
LEMMA LinkedFollows == LinkInv => LinkedAsInFile
<1> SUFFICES ASSUME LinkInv PROVE LinkedAsInFile
  OBVIOUS
<1>1. ASSUME at \in {"plt_rel", "rel", "protect"} PROVE exposed = (Values("TEXTREL") # <<>>)
  <2>1. file \in Files /\ file.dynamic # <<>> /\ SoinfoIs(si, End - 1)
    BY <1>1, LinkingIs, PlacesAre
  <2>2. exposed = (si.has_text_relocations = 1)
    BY <1>1 DEF LinkInv, TablesInv
  <2>3. Values("TEXTREL") = <<>> <=> Among(End - 1, {"TEXTREL"}) = <<>>
    BY <2>1, SaidAll
  <2>4. si.has_text_relocations = IF Among(End - 1, {"TEXTREL"}) = <<>> THEN 0 ELSE 1
    BY <2>1 DEF SoinfoIs
  <2>5. si.has_text_relocations = 1 <=> Values("TEXTREL") # <<>>
    BY ONLY <2>3, <2>4
  <2>6. exposed \in BOOLEAN
    BY <2>2
  <2> QED BY <2>2, <2>5, <2>6
<1>2. ASSUME at \in LinkedPlaces
      PROVE  /\ needed = Values("NEEDED") /\ relocated = PltTable \o RelTable /\ ~exposed
             /\ EntriesOf({"RELA"}) = <<>>
             /\ si.nbucket = WordAt(PointerOf("HASH")) /\ si.nbucket # 0
             /\ si.chain = (PointerOf("HASH") + 8 + 4 * si.nbucket) % Word
             /\ si.strtab = PointerOf("STRTAB") /\ si.symtab = PointerOf("SYMTAB")
  <2>1. file \in Files /\ file.dynamic # <<>> /\ SoinfoIs(si, End - 1) /\ Sane
    BY <1>2, LinkingIs, PlacesAre
  <2>2. needed = Values("NEEDED") /\ relocated = PltTable \o RelTable /\ ~exposed
    BY <1>2, PlacesAre DEF LinkInv, TablesInv
  <2>3. EntriesOf({"RELA"}) = <<>>
    <3>1. EntriesOf({"RELA"}) = Among(End - 1, {"RELA"})
      BY <2>1, SaidAll
    <3> QED BY <2>1, <3>1 DEF SoinfoIs
  <2>4. si.nbucket # 0
    BY <2>1 DEF Sane
  <2>5. PICK hash : hash = PointerAmong(End - 1, "HASH")
    OBVIOUS
  <2>6. si.nbucket = WordAt(hash) /\ si.chain = (hash + 8 + 4 * WordAt(hash)) % Word
    BY <2>1, <2>4, <2>5 DEF SoinfoIs
  <2>7. PointerOf("HASH") = hash
    BY <2>1, <2>5, SaidAll
  <2>8. si.strtab = PointerOf("STRTAB") /\ si.symtab = PointerOf("SYMTAB")
    <3>1. /\ "STRTAB" \in DOMAIN Pointers /\ Pointers["STRTAB"] = "strtab"
          /\ "SYMTAB" \in DOMAIN Pointers /\ Pointers["SYMTAB"] = "symtab"
      BY DEF Pointers
    <3>2. PointerOf("STRTAB") = PointerAmong(End - 1, "STRTAB") /\ PointerOf("SYMTAB") = PointerAmong(End - 1, "SYMTAB")
      BY <2>1, SaidAll
    <3>3. \A t \in DOMAIN Pointers : si[Pointers[t]] = PointerAmong(End - 1, t)
      BY <2>1 DEF SoinfoIs
    <3> QED BY <3>1, <3>2, <3>3
  <2> QED BY <2>2, <2>3, <2>4, <2>6, <2>7, <2>8
<1> QED BY <1>1, <1>2, PlacesAre DEF LinkedAsInFile, PltTable, RelTable

\* A sequence and a rest.
LEMMA PrefixIs ==
  ASSUME NEW S, NEW p \in Seq(S), NEW r \in Seq(S)
  PROVE  IsPrefix(p, p \o r)
<1>1. /\ Len(p) \in Nat /\ Len(r) \in Nat /\ Len(p \o r) = Len(p) + Len(r)
      /\ p \o r \in Seq(S)
      /\ \A i \in 1..Len(p) : (p \o r)[i] = p[i]
  BY ConcatProperties, LenProperties
<1>2. p = SubSeq(p \o r, 1, Len(p))
  BY <1>1
<1> QED BY <1>1, <1>2 DEF IsPrefix

\* The functions of the first items are the first of the functions.
LEMMA CallsFollow == LinkInv => CallsInOrder
<1> SUFFICES ASSUME LinkInv PROVE CallsInOrder
  OBVIOUS
<1>1. /\ at \in {"dynamic", "failed"} => calls = <<>>
      /\ at = "ready" => calls = Initialisers
      /\ at = "unloaded" => calls = Initialisers \o Finalisers
  BY PlacesAre DEF LinkInv, CallsInv
<1>2. CASE at \notin {"init_array"} \cup InitialisedPlaces
  <2>1. calls = <<>>
    BY <1>2 DEF LinkInv, CallsInv
  <2>2. IsPrefix(<<>>, Initialisers \o Finalisers)
    BY DEF IsPrefix
  <2> QED BY <1>1, <2>1, <2>2 DEF CallsInOrder
<1>3. CASE at \in {"init_array"} \cup InitialisedPlaces
  <2> DEFINE all == Initialisers \o Finalisers
  <2>1. \E r \in Seq(Contents) : calls \in Seq(Contents) /\ all = calls \o r
    <3>1. /\ Inits \in Seq(Contents) /\ Finis \in Seq(Contents)
          /\ Initialisers \in Seq(Contents) /\ Finalisers \in Seq(Contents)
      <4>1. file \in Files /\ base \in Biases /\ file.dynamic # <<>> /\ SoinfoIs(si, End - 1)
        BY <1>3, LinkingIs, PlacesAre
      <4>2. Inits \in Seq(Contents) /\ Finis \in Seq(Contents)
        BY <4>1, InitsAre, FinisAre
      <4> QED BY <4>2, AllFunctions
    <3>2. CASE at = "init_array"
      <4>1. PICK k \in 0..Len(Inits) : calls = FunctionsIn(SubSeq(Inits, 1, k))
        <5>1. d \in 1..Len(Inits) /\ calls = FunctionsIn(SubSeq(Inits, 1, d))
          BY <3>2 DEF LinkInv, CallsInv
        <5> QED BY <5>1
      <4>2. PICK r \in Seq(Contents) : calls \in Seq(Contents) /\ FunctionsIn(Inits) = calls \o r
        BY <3>1, <4>1, FunctionsAre
      <4>3. Initialisers = calls \o r
        BY <4>2 DEF Initialisers, Inits
      <4>4. r \o Finalisers \in Seq(Contents)
        BY ONLY <3>1, <4>2, ConcatProperties
      <4>5. (calls \o r) \o Finalisers = calls \o (r \o Finalisers)
        <5>1. PICK a, b : a = calls /\ b = Finalisers /\ a \in Seq(Contents) /\ b \in Seq(Contents)
          BY <3>1, <4>2
        <5>2. (a \o r) \o b = a \o (r \o b)
          BY ONLY <4>2, <5>1, ConcatAssociative
        <5> QED BY ONLY <5>1, <5>2
      <4>6. all = calls \o (r \o Finalisers)
        BY <4>3, <4>5
      <4> QED BY <4>2, <4>4, <4>6
    <3>3. CASE at = "ready"
      <4>1. calls = Initialisers
        BY <1>1, <3>3
      <4> QED BY <3>1, <4>1
    <3>4. CASE at = "fini_array"
      <4>1. PICK k \in 0..Len(Finis) : calls = Initialisers \o FunctionsIn(SubSeq(Finis, 1, k))
        <5>1. d \in 0..(Len(Finis) - 1) /\ calls = Initialisers \o FunctionsIn(SubSeq(Finis, 1, Len(Finis) - 1 - d))
          BY <3>4, PlacesAre DEF LinkInv, CallsInv
        <5>2. Len(Finis) \in Nat
          BY <3>1, LenProperties
        <5>3. Len(Finis) - 1 - d \in 0..Len(Finis)
          BY ONLY <5>1, <5>2
        <5> QED BY <5>1, <5>3
      <4>2. PICK g, r \in Seq(Contents) : /\ g = FunctionsIn(SubSeq(Finis, 1, k)) /\ g \in Seq(Contents)
                                          /\ FunctionsIn(Finis) = g \o r
        BY <3>1, FunctionsAre
      <4>3. Finalisers = g \o r
        BY <4>2 DEF Finalisers, Finis
      <4>4. Initialisers \o (g \o r) = (Initialisers \o g) \o r
        <5>1. PICK a : a = Initialisers /\ a \in Seq(Contents)
          BY <3>1
        <5>2. a \o (g \o r) = (a \o g) \o r
          BY ONLY <4>2, <5>1, ConcatAssociative
        <5> QED BY ONLY <5>1, <5>2
      <4>5. Initialisers \o g \in Seq(Contents)
        BY ONLY <3>1, <4>2, ConcatProperties
      <4>6. all = (Initialisers \o g) \o r
        BY <4>3, <4>4
      <4> QED BY <4>1, <4>2, <4>5, <4>6
    <3>5. CASE at = "unloaded"
      <4>1. all \in Seq(Contents)
        BY <3>1, ConcatProperties
      <4>2. <<>> \in Seq(Contents) /\ all = all \o <<>>
        <5> HIDE DEF all
        <5> QED BY <4>1, EmptySeq, ConcatEmptySeq
      <4> HIDE DEF all
      <4>3. calls = all
        BY <1>1, <3>5 DEF all
      <4> QED BY <4>1, <4>2, <4>3
    <3> QED BY <1>3, <3>2, <3>3, <3>4, <3>5, PlacesAre
  <2>2. IsPrefix(calls, all)
    BY <2>1, PrefixIs
  <2> QED BY <1>1, <2>2 DEF CallsInOrder
<1> QED BY <1>2, <1>3

-----------------------------------------------------------------------------
(* start_vm.                                                               *)

\* Once the library is open, its soinfo has the initialiser its file names.
LEMMA GuestsAre ==
  ASSUME LinkInv, at = "ready"
  PROVE  Guests = First \o Second
<1>1. file \in Files /\ file.dynamic # <<>> /\ SoinfoIs(si, End - 1)
  BY LinkingIs, PlacesAre
<1>2. PointerOf("INIT") = PointerAmong(End - 1, "INIT")
  BY <1>1, SaidAll
<1>3. "INIT" \in DOMAIN Pointers /\ Pointers["INIT"] = "init_func"
  BY DEF Pointers
<1>4. si["init_func"] = PointerAmong(End - 1, "INIT")
  BY <1>1, <1>3 DEF SoinfoIs
<1> QED BY <1>2, <1>4 DEF Guests, First, Second

\* One function, and two.
LEMMA OneThenTwo ==
  ASSUME NEW S, NEW a \in S, NEW b \in S
  PROVE  /\ <<>> \o <<>> = <<>> /\ <<>> \o <<b>> = <<b>> /\ <<a>> \o <<>> = <<a>>
         /\ <<a>> \o <<b>> = <<a, b>>
         /\ Append(<<>>, a) = <<a>> /\ Append(<<a>>, b) = <<a, b>>
         /\ Head(<<a>>) = a /\ Head(<<a, b>>) = a /\ Len(<<a>>) = 1
         /\ <<a>> # <<>> /\ <<a, b>> # <<>>
         /\ \A s \in {<<>>, <<a>>, <<a, b>>} : IsPrefix(<<>>, s) /\ IsPrefix(s, s)
         /\ IsPrefix(<<a>>, <<a, b>>)
<1>1. /\ <<>> \o <<>> = <<>> /\ <<>> \o <<b>> = <<b>> /\ <<a>> \o <<>> = <<a>>
  <2>1. <<>> \in Seq(S) /\ <<a>> \in Seq(S) /\ <<b>> \in Seq(S)
    OBVIOUS
  <2> QED BY ONLY <2>1, ConcatEmptySeq
<1>2. /\ Append(<<>>, a) = <<a>> /\ Append(<<a>>, b) = <<a, b>> /\ <<a>> \o <<b>> = <<a, b>>
  <2>1. Append(<<>>, a) = <<a>>
    OBVIOUS
  <2>2. Append(<<a>>, b) = <<a, b>>
    <3>1. /\ Append(<<a>>, b) \in Seq(S) /\ Len(Append(<<a>>, b)) = 2
          /\ Append(<<a>>, b)[1] = a /\ Append(<<a>>, b)[2] = b
      <4>1. <<a>> \in Seq(S) /\ Len(<<a>>) = 1 /\ <<a>>[1] = a
        OBVIOUS
      <4> QED BY ONLY <4>1, b \in S, AppendProperties
    <3>2. <<a, b>> \in Seq(S) /\ Len(<<a, b>>) = 2 /\ <<a, b>>[1] = a /\ <<a, b>>[2] = b
      OBVIOUS
    <3>3. \A i \in 1..2 : i = 1 \/ i = 2
      OBVIOUS
    <3> QED BY ONLY <3>1, <3>2, <3>3, SeqEqual
  <2>3. <<a>> \o <<b>> = Append(<<a>> \o <<>>, b)
    <3>1. <<a>> \in Seq(S) /\ <<>> \in Seq(S) /\ Append(<<>>, b) = <<b>>
      OBVIOUS
    <3> QED BY ONLY <3>1, b \in S, ConcatAppend
  <2> QED BY <1>1, <2>1, <2>2, <2>3
<1>3. Head(<<a>>) = a /\ Head(<<a, b>>) = a /\ Len(<<a>>) = 1
  OBVIOUS
<1>4. <<a>> # <<>> /\ <<a, b>> # <<>>
  <2>1. Len(<<a>>) = 1 /\ Len(<<a, b>>) = 2 /\ Len(<<>>) = 0
    OBVIOUS
  <2> QED BY <2>1
<1>5. <<>> \in Seq(S) /\ <<a>> \in Seq(S) /\ <<b>> \in Seq(S) /\ <<a, b>> \in Seq(S)
  OBVIOUS
<1>6. ASSUME NEW s \in Seq(S) PROVE IsPrefix(<<>>, s) /\ IsPrefix(s, s)
  <2>1. s = <<>> \o s /\ s = s \o <<>>
    BY ConcatEmptySeq
  <2> QED BY <1>5, <2>1, PrefixIs
<1>7. IsPrefix(<<a>>, <<a, b>>)
  BY <1>2, <1>5, PrefixIs
<1> QED BY <1>1, <1>2, <1>3, <1>4, <1>5, <1>6, <1>7

\* What start_vm has to emulate, case by case.
LEMMA GuestCases ==
  ASSUME LinkInv, at = "ready"
  PROVE  /\ si.init_func = 0 => First = <<>>
         /\ si.init_func # 0 => First = <<"init_func">> /\ Head(Guests) = "init_func" /\ IsPrefix(First, Guests)
         /\ JNI_OnLoad = 0 => Guests = First
         /\ JNI_OnLoad # 0 => Append(First, "JNI_OnLoad") = Guests /\ Guests # <<>>
         /\ IsPrefix(<<>>, Guests) /\ IsPrefix(Guests, Guests)
         /\ First \in Seq(GuestFunctions) /\ Guests \in Seq(GuestFunctions)
         /\ Len(First) < MaxRan
<1> DEFINE a == "init_func"
           b == "JNI_OnLoad"
<1>1. a \in GuestFunctions /\ b \in GuestFunctions /\ MaxRan >= 2 /\ MaxRan \in Nat
  BY MaxRanAssumption DEF GuestFunctions
<1>2. First = (IF si.init_func # 0 THEN <<a>> ELSE <<>>) /\ Second = IF JNI_OnLoad # 0 THEN <<b>> ELSE <<>>
  BY DEF First, Second
<1> HIDE DEF a, b
<1>3. Guests = First \o Second
  BY GuestsAre
<1>4. /\ <<>> \o <<>> = <<>> /\ <<>> \o <<b>> = <<b>> /\ <<a>> \o <<>> = <<a>> /\ <<a>> \o <<b>> = <<a, b>>
      /\ Append(<<>>, b) = <<b>> /\ Append(<<a>>, b) = <<a, b>>
      /\ Head(<<a>>) = a /\ Head(<<a, b>>) = a /\ <<b>> # <<>> /\ <<a, b>> # <<>>
      /\ IsPrefix(<<>>, <<>>) /\ IsPrefix(<<>>, <<a>>) /\ IsPrefix(<<>>, <<b>>) /\ IsPrefix(<<>>, <<a, b>>)
      /\ IsPrefix(<<a>>, <<a>>) /\ IsPrefix(<<b>>, <<b>>) /\ IsPrefix(<<a, b>>, <<a, b>>)
      /\ IsPrefix(<<a>>, <<a, b>>)
  BY ONLY <1>1, OneThenTwo
<1>5. /\ <<>> \in Seq(GuestFunctions) /\ <<a>> \in Seq(GuestFunctions) /\ <<b>> \in Seq(GuestFunctions)
      /\ <<a, b>> \in Seq(GuestFunctions) /\ Len(<<>>) < MaxRan /\ Len(<<a>>) < MaxRan
  BY ONLY <1>1
<1>6. /\ si.init_func = 0 => First = <<>>
      /\ si.init_func # 0 => First = <<a>> /\ Head(Guests) = a /\ IsPrefix(First, Guests)
      /\ JNI_OnLoad = 0 => Guests = First
      /\ JNI_OnLoad # 0 => Append(First, b) = Guests /\ Guests # <<>>
      /\ IsPrefix(<<>>, Guests) /\ IsPrefix(Guests, Guests)
      /\ First \in Seq(GuestFunctions) /\ Guests \in Seq(GuestFunctions)
      /\ Len(First) < MaxRan
  <2>1. CASE si.init_func = 0 /\ JNI_OnLoad = 0
    <3>1. First = <<>> /\ Guests = <<>>
      BY ONLY <1>2, <1>3, <1>4, <2>1
    <3> QED BY ONLY <1>4, <1>5, <2>1, <3>1
  <2>2. CASE si.init_func = 0 /\ JNI_OnLoad # 0
    <3>1. First = <<>> /\ Guests = <<b>>
      BY ONLY <1>2, <1>3, <1>4, <2>2
    <3> QED BY ONLY <1>4, <1>5, <2>2, <3>1
  <2>3. CASE si.init_func # 0 /\ JNI_OnLoad = 0
    <3>1. First = <<a>> /\ Guests = <<a>>
      BY ONLY <1>2, <1>3, <1>4, <2>3
    <3> QED BY ONLY <1>4, <1>5, <2>3, <3>1
  <2>4. CASE si.init_func # 0 /\ JNI_OnLoad # 0
    <3>1. First = <<a>> /\ Guests = <<a, b>>
      BY ONLY <1>2, <1>3, <1>4, <2>4
    <3> QED BY ONLY <1>4, <1>5, <2>4, <3>1
  <2> QED BY <2>1, <2>2, <2>3, <2>4
<1> QED BY <1>6 DEF a, b

\* Nothing has been entered, and start_vm has not answered 1.
LEMMA NothingRan ==
  ASSUME ran' = <<>>, result' # 1,
         vm' \in {"s_dlopen", "start_vm", "uc_mem_map", "returned", "crashed"}
  PROVE  RanInv' /\ OnLoadOnce' /\ SuccessEmulated'
<1>1. ran' \in Seq(GuestFunctions)
  BY EmptySeq
<1> QED BY <1>1 DEF RanInv, OnLoadOnce, SuccessEmulated

\* While a library is opened or closed, start_vm has not begun.
LEMMA BeforeVm ==
  ASSUME VmInv, OpenStep \/ (program = "client" /\ CloseStep), UNCHANGED <<vm, evars>>, UNCHANGED program
  PROVE  RunInv'
<1>1. vm = "s_dlopen"
  <2>1. CASE program = "client"
    BY <2>1 DEF VmInv, RunInv, PlacesInv
  <2>2. CASE OpenStep
    <3>1. at \notin {"ready", "failed"}
      BY <2>2 DEF OpenStep, ExtractStep, LinkStep, GetDynamic, NoDynamic, ExtractHash, ExtractPointer,
                  ExtractCount, ExtractFlag, ExtractRejected, ExtractOther, Extract, ExtractInsane, Extracting,
                  FindNeeded, FindNeededFails, SkipEntry, Unprotect, UnprotectFails, RelocatePlt, RelocateRel,
                  RelocateFails, Protect, ProtectFails, CallInit, CallInitItem, Constructed
    <3> QED BY <3>1 DEF VmInv, RunInv, PlacesInv
  <2> QED BY <2>1, <2>2
<1>2. file' = file
  BY DEF OpenStep, ExtractStep, LinkStep, GetDynamic, NoDynamic, ExtractHash, ExtractPointer,
         ExtractCount, ExtractFlag, ExtractRejected, ExtractOther, Extract, ExtractInsane, Extracted, LinkFails,
         FindNeeded, FindNeededFails, SkipEntry, Unprotect, UnprotectFails, RelocatePlt, RelocateRel,
         RelocateFails, Protect, ProtectFails, CallInit, CallInitItem, Constructed, CloseStep, Close,
         CallFiniItem, CallFini, lib
<1>3. vm' = "s_dlopen" /\ program' = program /\ UNCHANGED evars
  BY <1>1
<1>4. ran' = <<>> /\ result' # 1
  BY <1>1, <1>3 DEF VmInv, RunInv, PlacesInv, evars
<1>5. PlacesInv'
  BY <1>1, <1>2, <1>3 DEF VmInv, RunInv, PlacesInv, GuestFunctions, evars
<1>6. RanInv' /\ OnLoadOnce' /\ SuccessEmulated'
  BY <1>3, <1>4, NothingRan
<1> QED BY <1>5, <1>6 DEF RunInv

\* The library's variables, and what is read off them.
LEMMA MainKeeps ==
  ASSUME UNCHANGED lvars
  PROVE  /\ file' = file /\ at' = at /\ si' = si /\ First' = First
         /\ JNI_OnLoad' = JNI_OnLoad => Guests' = Guests /\ PastSecond' = PastSecond
         /\ PastFirst' = PastFirst
<1>1. /\ file' = file /\ at' = at /\ si' = si /\ base' = base
  BY DEF lvars, lib
<1>2. First' = First
  BY <1>1 DEF First
<1>3. PointerOf("INIT")' = PointerOf("INIT")
  <2>1. UNCHANGED lib
    BY DEF lvars
  <2> QED BY <2>1, LibSame
<1>4. JNI_OnLoad' = JNI_OnLoad => Guests' = Guests
  BY <1>3 DEF Guests
<1> QED BY <1>1, <1>2, <1>4 DEF PastFirst, PastSecond

\* Before the emulation begins, and when it cannot.
LEMMA BeginInv ==
  ASSUME VmInv, UNCHANGED lvars, UNCHANGED program, program = "main",
         s_dlsym \/ uc_open \/ OpenFails \/ MapCrashes
           \/ \E ok \in BOOLEAN : uc_mem_map(ok) \/ WriteCrashes(ok)
  PROVE  RunInv'
<1>1. file' = file /\ at' = at /\ program' = "main"
  BY MainKeeps
<1>2. vm \in {"s_dlopen", "start_vm", "uc_mem_map"} /\ at \in {"ready", "failed"}
  BY DEF VmInv, RunInv, PlacesInv, s_dlsym, uc_open, OpenFails, MapCrashes, WriteCrashes, uc_mem_map
<1>3. running = None /\ running' = None /\ ran = <<>> /\ ran' = <<>> /\ result # 1
  BY <1>2 DEF VmInv, RunInv, PlacesInv, GuestFunctions, s_dlsym, uc_open, OpenFails, MapCrashes, WriteCrashes, uc_mem_map,
              StartVmReturns, evars
<1>4. result' # 1
  BY <1>3 DEF s_dlsym, uc_open, OpenFails, MapCrashes, WriteCrashes, uc_mem_map, StartVmReturns, evars
<1>5. CASE \E ok \in BOOLEAN : uc_mem_map(ok)
  <2>1. /\ vm' = "init_func" /\ at = "ready"
        /\ guest' \in {"none", "zeroes", "image"} /\ (guest' = "image" => ~file.big) /\ (guest' = "zeroes" => file.big)
    BY <1>5 DEF uc_mem_map, Copied
  <2>2. PlacesInv'
    BY <1>1, <1>3, <1>4, <2>1 DEF PlacesInv, GuestFunctions
  <2>3. RanInv' /\ OnLoadOnce' /\ SuccessEmulated'
    <3>1. ran' \in Seq(GuestFunctions)
      BY <1>3, EmptySeq
    <3> QED BY <1>3, <1>4, <2>1, <3>1, NoneAssumption DEF RanInv, OnLoadOnce, SuccessEmulated
  <2> QED BY <2>2, <2>3 DEF RunInv
<1>6. CASE s_dlsym \/ uc_open \/ OpenFails \/ MapCrashes \/ \E ok \in BOOLEAN : WriteCrashes(ok)
  <2>1. vm' \in {"start_vm", "uc_mem_map", "returned", "crashed"} /\ guest' = guest
    BY <1>6 DEF s_dlsym, uc_open, OpenFails, MapCrashes, WriteCrashes, StartVmReturns, evars
  <2>2. PlacesInv'
    BY <1>1, <1>2, <1>3, <1>4, <2>1 DEF VmInv, RunInv, PlacesInv, GuestFunctions
  <2>3. RanInv' /\ OnLoadOnce' /\ SuccessEmulated'
    BY <1>3, <1>4, <2>1, NothingRan
  <2> QED BY <2>2, <2>3 DEF RunInv
<1> QED BY <1>5, <1>6

\* What is known when a function is emulated.
LEMMA EmulatingIs ==
  ASSUME VmInv, AtFunction \/ running # None
  PROVE  /\ vm \in GuestFunctions /\ at = "ready" /\ LinkInv /\ ran \in Seq(GuestFunctions) /\ result # 1
         /\ running \in GuestFunctions \cup {None} /\ None \notin GuestFunctions
         /\ running = "init_func" => vm = "init_func"
         /\ running # None => ran # <<>> /\ ~file.big
         /\ guest = "image" => ~file.big
         /\ guest = "zeroes" => file.big
         /\ vm = "init_func" =>
              /\ running = None => ran = <<>>
              /\ running = vm => ran = First
              /\ file.early = {} => running \in {None, vm}
         /\ vm = "JNI_OnLoad" =>
              /\ running = None => ran = PastFirst
              /\ running = vm /\ vm \notin file.early => ran = Guests
         /\ OnLoadOnce
<1>1. None \notin GuestFunctions
  BY NoneAssumption DEF GuestFunctions
<1>2. vm \in GuestFunctions
  BY DEF VmInv, RunInv, PlacesInv, GuestFunctions, AtFunction
<1>3. at = "ready" /\ result # 1
  BY <1>2 DEF VmInv, RunInv, PlacesInv, GuestFunctions
<1> QED BY <1>1, <1>2, <1>3 DEF VmInv, RunInv, PlacesInv, RanInv

\* What must be shown of a step of the emulation that goes on.
LEMMA EmulatedInv ==
  ASSUME VmInv, UNCHANGED lvars, UNCHANGED <<program, JNI_OnLoad, guest, result>>, program = "main",
         AtFunction \/ running # None,
         vm' \in GuestFunctions \cup {"uc_close"},
         running' \in GuestFunctions \cup {None},
         vm' = "uc_close" => running' = None,
         running' = "init_func" => vm' = "init_func",
         running' # None => ran' # <<>> /\ ~file.big,
         ran' \in Seq(GuestFunctions),
         vm' = "init_func" =>
           /\ running' = None => ran' = <<>>
           /\ running' = vm' => ran' = First
           /\ file.early = {} => running' \in {None, vm'},
         vm' = "JNI_OnLoad" =>
           /\ running' = None => ran' = PastFirst
           /\ running' = vm' /\ vm' \notin file.early => ran' = Guests,
         vm' = "uc_close" => ran' = PastSecond,
         ran' # <<>> => Head(ran') = Head(Guests) /\ (file.early = {} => IsPrefix(ran', Guests))
  PROVE  RunInv'
<1>1. /\ file' = file /\ at' = at /\ First' = First /\ Guests' = Guests /\ PastFirst' = PastFirst
      /\ PastSecond' = PastSecond
  BY MainKeeps
<1>2. (guest = "image" => ~file.big) /\ (guest = "zeroes" => file.big) /\ at = "ready" /\ result # 1
  BY EmulatingIs
<1>3. PlacesInv'
  BY <1>1, <1>2 DEF PlacesInv, GuestFunctions
<1>4. RanInv'
  BY <1>1, <1>2 DEF RanInv
<1>5. OnLoadOnce' /\ SuccessEmulated'
  BY <1>1, <1>2 DEF OnLoadOnce, SuccessEmulated
<1> QED BY <1>3, <1>4, <1>5 DEF RunInv

\* What the guest has entered is entered still.
LEMMA OnLoadKept ==
  ASSUME VmInv, AtFunction \/ running # None, ran' = ran, ran' # <<>>
  PROVE  Head(ran') = Head(Guests) /\ (file.early = {} => IsPrefix(ran', Guests))
BY EmulatingIs DEF OnLoadOnce

\* NULL is passed over: nothing is to be entered there.
LEMMA SkipFunctionInv ==
  ASSUME VmInv, UNCHANGED lvars, UNCHANGED program, program = "main", SkipFunction
  PROVE  RunInv'
<1>1. /\ AtFunction /\ running = None /\ running' = None /\ ran' = ran /\ vm' = After(vm)
      /\ vm \in GuestFunctions /\ None \notin GuestFunctions /\ ran \in Seq(GuestFunctions)
      /\ UNCHANGED <<JNI_OnLoad, guest, result>>
  BY EmulatingIs DEF SkipFunction, AtFunction, evars, GuestFunctions
<1>2. CASE vm = "init_func"
  <2>1. si.init_func = 0 /\ vm' = "JNI_OnLoad" /\ ran = <<>>
    BY <1>1, <1>2, EmulatingIs DEF SkipFunction, Address, After
  <2>2. ran' = PastFirst
    BY <1>1, <2>1 DEF PastFirst, First
  <2> QED BY <1>1, <2>1, <2>2, EmulatedInv DEF GuestFunctions
<1>3. CASE vm = "JNI_OnLoad"
  <2>1. JNI_OnLoad = 0 /\ vm' = "uc_close" /\ ran = PastFirst
    BY <1>1, <1>3, EmulatingIs DEF SkipFunction, Address, After
  <2>2. Guests = First
    BY <1>1, <2>1, EmulatingIs, GuestCases
  <2>3. ran' = PastSecond
    BY <1>1, <2>1, <2>2 DEF PastFirst, PastSecond
  <2> QED BY <1>1, <2>1, <2>3, EmulatedInv, OnLoadKept DEF GuestFunctions
<1> QED BY <1>1, <1>2, <1>3 DEF GuestFunctions

\* The guest enters the function that start_vm has come to.
LEMMA StartFunctionInv ==
  ASSUME VmInv, UNCHANGED lvars, UNCHANGED program, program = "main", StartFunction
  PROVE  RunInv'
<1>1. /\ AtFunction /\ running = None /\ running' = vm /\ vm' = vm /\ Address(vm) # 0
      /\ ran' = (IF Len(ran) < MaxRan THEN Append(ran, vm) ELSE ran)
      /\ UNCHANGED <<JNI_OnLoad, guest, result>> /\ guest = "image"
  BY DEF StartFunction, AtFunction, Entered
<1>2. /\ vm \in GuestFunctions /\ None \notin GuestFunctions /\ ~file.big /\ LinkInv /\ at = "ready"
  BY <1>1, EmulatingIs
<1>3. CASE vm = "init_func"
  <2>1. si.init_func # 0 /\ ran = <<>>
    BY <1>1, <1>3, EmulatingIs DEF Address
  <2>2. First = <<"init_func">> /\ Head(Guests) = "init_func" /\ IsPrefix(First, Guests)
    BY <1>2, <2>1, GuestCases
  <2>3. ran' = First /\ First # <<>> /\ Head(First) = "init_func" /\ First \in Seq(GuestFunctions)
    <3>1. /\ Len(<<>>) < MaxRan /\ Append(<<>>, "init_func") = <<"init_func">> /\ <<"init_func">> # <<>>
          /\ Head(<<"init_func">>) = "init_func"
      BY MaxRanAssumption, OneThenTwo
    <3>2. <<"init_func">> \in Seq(GuestFunctions)
      BY DEF GuestFunctions
    <3> QED BY <1>1, <1>3, <2>1, <2>2, <3>1, <3>2
  <2> QED BY <1>1, <1>2, <1>3, <2>2, <2>3, EmulatedInv
<1>4. CASE vm = "JNI_OnLoad"
  <2>1. JNI_OnLoad # 0 /\ ran = First
    BY <1>1, <1>2, <1>4, EmulatingIs DEF Address, PastFirst
  <2>2. /\ Append(First, "JNI_OnLoad") = Guests /\ Guests # <<>> /\ IsPrefix(Guests, Guests)
        /\ Guests \in Seq(GuestFunctions) /\ Len(First) < MaxRan
    BY <1>2, <2>1, GuestCases
  <2>3. ran' = Guests
    BY <1>1, <1>4, <2>1, <2>2
  <2> QED BY <1>1, <1>2, <1>4, <2>2, <2>3, EmulatedInv
<1> QED BY <1>2, <1>3, <1>4 DEF GuestFunctions

\* An image that is too large is zeroes: nothing is entered.
LEMMA RunZeroesInv ==
  ASSUME VmInv, UNCHANGED lvars, UNCHANGED program, program = "main", RunZeroes
  PROVE  RunInv'
<1>1. /\ AtFunction /\ running = None /\ running' = None /\ ran' = ran /\ vm' = After(vm)
      /\ guest = "zeroes" /\ UNCHANGED <<JNI_OnLoad, guest, result>>
  BY DEF RunZeroes, AtFunction, evars
<1>2. vm \in GuestFunctions /\ file.big /\ ran \in Seq(GuestFunctions) /\ None \notin GuestFunctions
  BY <1>1, EmulatingIs
<1>3. CASE vm = "init_func"
  <2>1. vm' = "JNI_OnLoad" /\ ran' = PastFirst
    BY <1>1, <1>2, <1>3, EmulatingIs DEF After, PastFirst
  <2> QED BY <1>1, <1>2, <2>1, EmulatedInv, OnLoadKept DEF GuestFunctions
<1>4. CASE vm = "JNI_OnLoad"
  <2>1. vm' = "uc_close" /\ ran' = PastSecond
    BY <1>1, <1>2, <1>4, EmulatingIs DEF After, PastFirst, PastSecond
  <2> QED BY <1>1, <1>2, <2>1, EmulatedInv, OnLoadKept DEF GuestFunctions
<1> QED BY <1>2, <1>3, <1>4 DEF GuestFunctions

\* A function that gets to its end is the one emulated.
LEMMA ReachInv ==
  ASSUME VmInv, UNCHANGED lvars, UNCHANGED program, program = "main", Reach
  PROVE  RunInv'
<1>1. /\ running # None /\ running = vm /\ vm \notin file.early /\ running' = None /\ ran' = ran /\ vm' = After(vm)
      /\ UNCHANGED <<JNI_OnLoad, guest, result>>
  BY DEF Reach
<1>2. vm \in GuestFunctions /\ ~file.big /\ ran \in Seq(GuestFunctions) /\ None \notin GuestFunctions
  BY <1>1, EmulatingIs
<1>3. CASE vm = "init_func"
  <2>1. vm' = "JNI_OnLoad" /\ ran' = PastFirst
    BY <1>1, <1>2, <1>3, EmulatingIs DEF After, PastFirst
  <2> QED BY <1>1, <1>2, <2>1, EmulatedInv, OnLoadKept DEF GuestFunctions
<1>4. CASE vm = "JNI_OnLoad"
  <2>1. vm' = "uc_close" /\ ran' = PastSecond
    BY <1>1, <1>2, <1>4, EmulatingIs DEF After, PastSecond
  <2> QED BY <1>1, <1>2, <2>1, EmulatedInv, OnLoadKept DEF GuestFunctions
<1> QED BY <1>2, <1>3, <1>4 DEF GuestFunctions

\* Only a function that returns early gets back to JNI_OnLoad.
LEMMA ReturnToOnLoadInv ==
  ASSUME VmInv, UNCHANGED lvars, UNCHANGED program, program = "main", ReturnToOnLoad
  PROVE  RunInv'
<1>1. /\ running # None /\ (running # vm \/ running \in file.early) /\ running' = "JNI_OnLoad" /\ vm' = vm
      /\ ran' = (IF Len(ran) < MaxRan THEN Append(ran, "JNI_OnLoad") ELSE ran)
      /\ UNCHANGED <<JNI_OnLoad, guest, result>>
  BY DEF ReturnToOnLoad, Entered
<1>2. /\ vm \in GuestFunctions /\ ~file.big /\ ran \in Seq(GuestFunctions) /\ ran # <<>>
      /\ running \in GuestFunctions /\ None \notin GuestFunctions
      /\ running = "init_func" => vm = "init_func"
      /\ Head(ran) = Head(Guests)
  BY <1>1, EmulatingIs DEF OnLoadOnce
<1>3. file.early # {}
  <2>1. CASE running = vm
    BY <1>1, <2>1
  <2>2. CASE running # vm
    <3>1. vm = "init_func"
      BY <1>2, <2>2 DEF GuestFunctions
    <3> QED BY <1>1, <2>2, <3>1, EmulatingIs
  <2> QED BY <2>1, <2>2
<1>4. vm = "JNI_OnLoad" => vm \in file.early
  BY <1>1, <1>2 DEF GuestFunctions
<1>5. "JNI_OnLoad" \in GuestFunctions /\ "JNI_OnLoad" # "init_func"
  BY DEF GuestFunctions
<1>6. ran' \in Seq(GuestFunctions) /\ ran' # <<>> /\ Head(ran') = Head(ran)
  <2>1. Append(ran, "JNI_OnLoad") \in Seq(GuestFunctions) /\ Append(ran, "JNI_OnLoad") # <<>>
    BY <1>2, <1>5, AppendProperties
  <2>2. Head(Append(ran, "JNI_OnLoad")) = Head(ran)
    BY <1>2, HeadTailAppend
  <2> QED BY <1>1, <1>2, <2>1, <2>2
<1>7. vm' = "init_func" => running' # None /\ running' # vm'
  BY <1>1, <1>2, <1>5
<1>8. vm' = "JNI_OnLoad" => running' # None /\ vm' \in file.early
  BY <1>1, <1>2, <1>4, <1>5
<1>9. vm' \in GuestFunctions /\ vm' # "uc_close" /\ running' # "init_func"
  BY <1>1, <1>2 DEF GuestFunctions
<1> QED BY <1>1, <1>2, <1>3, <1>5, <1>6, <1>7, <1>8, <1>9, EmulatedInv

\* start_vm returns 0 for an error.
LEMMA EmuFailsInv ==
  ASSUME VmInv, UNCHANGED lvars, UNCHANGED program, program = "main", EmuFails
  PROVE  RunInv'
<1>1. /\ AtFunction \/ running # None
      /\ running' = None /\ vm' = "returned" /\ result' = 0 /\ UNCHANGED <<JNI_OnLoad, engine, guest, ran>>
  BY DEF EmuFails, StartVmReturns
<1>2. /\ at = "ready" /\ OnLoadOnce /\ ran \in Seq(GuestFunctions)
      /\ (guest = "image" => ~file.big) /\ (guest = "zeroes" => file.big)
  BY <1>1, EmulatingIs
<1>3. file' = file /\ at' = at /\ Guests' = Guests
  BY <1>1, MainKeeps
<1>4. PlacesInv'
  <2>1. None \notin GuestFunctions /\ program' = "main"
    BY NoneAssumption DEF GuestFunctions
  <2> QED BY <1>1, <1>2, <1>3, <2>1 DEF PlacesInv, GuestFunctions
<1>5. RanInv' /\ OnLoadOnce' /\ SuccessEmulated'
  BY <1>1, <1>2, <1>3 DEF RanInv, OnLoadOnce, SuccessEmulated
<1> QED BY <1>4, <1>5 DEF RunInv

\* start_vm returns 1 with the engine closed, and both functions passed.
LEMMA CloseEngineInv ==
  ASSUME VmInv, UNCHANGED lvars, UNCHANGED program, program = "main", uc_close
  PROVE  RunInv'
<1>1. /\ vm = "uc_close" /\ vm' = "returned" /\ result' = 1 /\ engine' = "closed"
      /\ UNCHANGED <<JNI_OnLoad, guest, running, ran>>
  BY DEF uc_close, StartVmReturns
<1>2. /\ at = "ready" /\ OnLoadOnce /\ ran \in Seq(GuestFunctions) /\ ran = PastSecond /\ running = None
      /\ (guest = "image" => ~file.big) /\ (guest = "zeroes" => file.big)
  BY <1>1 DEF VmInv, RunInv, PlacesInv, RanInv, GuestFunctions
<1>3. file' = file /\ at' = at /\ Guests' = Guests /\ PastSecond' = PastSecond
  BY <1>1, MainKeeps
<1>4. PlacesInv'
  <2>1. None \notin GuestFunctions /\ program' = "main"
    BY NoneAssumption DEF GuestFunctions
  <2> QED BY <1>1, <1>2, <1>3, <2>1 DEF PlacesInv, GuestFunctions
<1>5. RanInv' /\ OnLoadOnce'
  BY <1>1, <1>2, <1>3 DEF RanInv, OnLoadOnce
<1>6. SuccessEmulated'
  BY <1>1, <1>2, <1>3 DEF SuccessEmulated, PastSecond
<1> QED BY <1>4, <1>5, <1>6 DEF RunInv

-----------------------------------------------------------------------------
(* The theorems.                                                           *)

\* The invariant holds of a program that begins, and every step keeps it.
THEOREM VmInvariant == Spec => []VmInv
<1>1. Init => VmInv
  <2> SUFFICES ASSUME Init PROVE VmInv
    OBVIOUS
  <2>1. LinkInv /\ program \in {"main", "client"}
    BY StartInv DEF Init
  <2>2. PlacesInv
    BY NoneAssumption DEF Init, PlacesInv, GuestFunctions
  <2>3. RanInv
    BY EmptySeq DEF Init, RanInv
  <2>4. OnLoadOnce /\ SuccessEmulated
    BY NoneAssumption DEF Init, OnLoadOnce, SuccessEmulated
  <2> QED BY <2>1, <2>2, <2>3, <2>4 DEF VmInv, RunInv
<1>2. VmInv /\ [Next]_vars => VmInv'
  <2> SUFFICES ASSUME VmInv, [Next]_vars PROVE VmInv'
    OBVIOUS
  <2>1. LinkInv /\ program \in {"main", "client"} /\ RunInv
    BY DEF VmInv
  <2>2. CASE UNCHANGED vars
    <3>1. UNCHANGED lvars /\ UNCHANGED <<program, vm>> /\ UNCHANGED evars
      BY <2>2 DEF vars
    <3>2. LinkInv'
      BY <2>1, <3>1, LinkSame
    <3>3. /\ file' = file /\ at' = at /\ First' = First /\ Guests' = Guests /\ PastFirst' = PastFirst
          /\ PastSecond' = PastSecond
      BY <3>1, MainKeeps DEF evars
    <3>4. PlacesInv'
      BY <2>1, <3>1, <3>3 DEF RunInv, PlacesInv, evars
    <3>5. RanInv'
      BY <2>1, <3>1, <3>3 DEF RunInv, RanInv, evars
    <3>6. OnLoadOnce' /\ SuccessEmulated'
      BY <2>1, <3>1, <3>3 DEF RunInv, OnLoadOnce, SuccessEmulated, evars
    <3> QED BY <2>1, <3>1, <3>2, <3>4, <3>5, <3>6 DEF VmInv, RunInv
  <2>3. CASE /\ OpenStep \/ (program = "client" /\ CloseStep)
             /\ UNCHANGED <<vm, evars>> /\ UNCHANGED <<windows, program>>
    BY <2>1, <2>3, LinkStepInv, BeforeVm DEF VmInv
  <2>4. CASE program = "main" /\ MainStep /\ UNCHANGED lvars /\ UNCHANGED <<windows, program>>
    <3>1. LinkInv'
      BY <2>1, <2>4, LinkSame
    <3>2. RunInv'
      BY <2>4, BeginInv, SkipFunctionInv, StartFunctionInv, RunZeroesInv, ReachInv, ReturnToOnLoadInv,
         EmuFailsInv, CloseEngineInv DEF MainStep
    <3> QED BY <2>1, <2>4, <3>1, <3>2 DEF VmInv
  <2> QED BY <2>2, <2>3, <2>4 DEF Next
<1> QED BY <1>1, <1>2, PTL DEF Spec

\* LinkedAsInFile: whatever the order of a library's dynamic entries and however
\* often they come, soinfo_link_image finds all the libraries it names, in order,
\* and applies both of its tables, the segments exposed if the file asks for that.
THEOREM LinksAsInFile == Spec => []LinkedAsInFile
<1>1. VmInv => LinkedAsInFile
  BY LinkedFollows DEF VmInv
<1> QED BY <1>1, VmInvariant, PTL

\* CallsInOrder: CallConstructors and CallDestructors enter the functions of a
\* library of any size in the order of the file, each once.
THEOREM CallsAreInOrder == Spec => []CallsInOrder
<1>1. VmInv => CallsInOrder
  BY CallsFollow DEF VmInv
<1> QED BY <1>1, VmInvariant, PTL

\* OnLoadOnce: JNI_OnLoad is entered after DT_INIT, and each of them once if the
\* guest's functions run to their ends.
THEOREM OnLoadIsOnce == Spec => []OnLoadOnce
<1>1. VmInv => OnLoadOnce
  BY DEF VmInv, RunInv
<1> QED BY <1>1, VmInvariant, PTL

\* SuccessEmulated: start_vm answers 1 only with the engine closed and the guest's
\* functions entered in order, or for an image too large to be there.
THEOREM SuccessIsEmulated == Spec => []SuccessEmulated
<1>1. VmInv => SuccessEmulated
  BY DEF VmInv, RunInv
<1> QED BY <1>1, VmInvariant, PTL
=============================================================================
