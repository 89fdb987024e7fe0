------------------------- MODULE SoinfoPoolProofs --------------------------
(***************************************************************************)
(* The invariants of SoinfoPool, for pools of every size and any number of *)
(* them.  The two lists are the two sequences of the ghosts, threaded      *)
(* through the same next field: a step that redirects a pointer of the one *)
(* must leave the other alone, which is why they have to be disjoint.      *)
(***************************************************************************)
EXTENDS SoinfoPool, SequenceTheorems, TLAPS

Pointers == AllEntries \cup {Null}
Pooled   == {libdl_info} \cup UNION {Entries(p) : p \in 1..pools}

TypeInv ==
  /\ next \in [AllEntries -> Pointers]
  /\ pools \in 0..MaxPools
  /\ list \in Seq(AllEntries) /\ avail \in Seq(AllEntries)
  /\ list # <<>> /\ list[1] = libdl_info
  /\ freeing \in Pointers

\* Partitioned, list by list.
Apart ==
  /\ \A i, j \in 1..Len(list) : list[i] = list[j] => i = j
  /\ \A i, j \in 1..Len(avail) : avail[i] = avail[j] => i = j
  /\ \A i \in 1..Len(list), j \in 1..Len(avail) : list[i] # avail[j]

Complete ==
  \A e : e \in Pooled <=> \/ \E i \in 1..Len(list) : e = list[i]
                          \/ \E i \in 1..Len(avail) : e = avail[i]

\* The two pointers of soinfo_free are neighbours on solist; what it frees is of
\* the pools, and not where a walk is.
FreeInv ==
  freeing # Null =>
    /\ freeing # libdl_info /\ freeing # iter
    /\ trav # Null =>
         \E k \in 1..Len(list) :
           /\ trav = list[k]
           /\ prev = IF k = 1 THEN Null ELSE list[k - 1]

\* A walk has visited what it has passed and what stays.
WalkInv ==
  /\ \A e \in stayed : \E i \in 1..Len(list) : e = list[i]
  /\ iter = Null => stayed \subseteq visited
  /\ iter # Null =>
       \E k \in 1..Len(list) :
         /\ iter = list[k]
         /\ \A j \in 1..k : list[j] \in stayed => list[j] \in visited

PoolInv ==
  /\ TypeInv
  /\ ListsChained
  /\ Apart
  /\ Complete
  /\ FreeInv
  /\ WalkInv

-----------------------------------------------------------------------------
(* Lemmas about entries and sequences.                                     *)

\* Null is no entry.
LEMMA NullIsNoEntry == Null \notin AllEntries
<1>1. AllEntries \subseteq Nat
  BY PoolAssumption DEF AllEntries
<1> QED BY <1>1, NullAssumption

\* The entries of a new pool are new, and are entries.
LEMMA NewPool ==
  ASSUME NEW n \in Nat, n < MaxPools
  PROVE  /\ Entries(n + 1) = (n * PerPool + 1) .. (n * PerPool + PerPool)
         /\ (n + 1) * PerPool = n * PerPool + PerPool
         /\ n * PerPool \in Nat
         /\ Entries(n + 1) \subseteq AllEntries
         /\ \A q \in 1..n : \A e \in Entries(q) : e \in Nat /\ e > 0 /\ e <= n * PerPool
<1>1. PerPool \in Nat \ {0} /\ MaxPools \in Nat
  BY PoolAssumption
<1>2. (n + 1) * PerPool = n * PerPool + PerPool /\ n * PerPool \in Nat /\ ((n + 1) - 1) * PerPool = n * PerPool
  BY <1>1
<1>3. \A p, q \in Nat : p <= q => p * PerPool <= q * PerPool /\ p * PerPool \in Nat /\ q * PerPool \in Nat
  BY <1>1
<1>4. Entries(n + 1) = (n * PerPool + 1) .. (n * PerPool + PerPool)
  BY <1>2 DEF Entries
<1>5. n * PerPool + PerPool <= MaxPools * PerPool /\ MaxPools * PerPool \in Nat
  <2>1. n + 1 \in Nat /\ n + 1 <= MaxPools
    BY <1>1
  <2> QED BY <1>1, <1>2, <1>3, <2>1
<1>6. Entries(n + 1) \subseteq AllEntries
  BY <1>1, <1>2, <1>4, <1>5 DEF AllEntries
<1>7. ASSUME NEW q \in 1..n, NEW e \in Entries(q) PROVE e \in Nat /\ e > 0 /\ e <= n * PerPool
  <2>1. q \in Nat /\ q <= n /\ q - 1 \in Nat
    OBVIOUS
  <2>2. q * PerPool <= n * PerPool /\ (q - 1) * PerPool \in Nat /\ q * PerPool \in Nat
    BY <1>3, <2>1
  <2> QED BY <1>2, <2>2 DEF Entries
<1> QED BY <1>2, <1>4, <1>6, <1>7

\* A sequence without its i-th element.
LEMMA Without ==
  ASSUME NEW S, NEW s \in Seq(S), NEW i \in 1..Len(s), NEW t,
         t = SubSeq(s, 1, i - 1) \o SubSeq(s, i + 1, Len(s))
  PROVE  /\ t \in Seq(S)
         /\ Len(t) = Len(s) - 1
         /\ \A j \in 1..(Len(s) - 1) : t[j] = IF j < i THEN s[j] ELSE s[j + 1]
<1> DEFINE a == SubSeq(s, 1, i - 1)
           b == SubSeq(s, i + 1, Len(s))
           n == Len(s)
<1>1. n \in Nat /\ i \in Nat /\ i > 0 /\ i <= n
  BY LenProperties
<1>2. a \in Seq(S) /\ Len(a) = i - 1 /\ \A j \in 1..(i - 1) : a[j] = s[j]
  <2>1. \A j \in 1..(i - 1) : s[j] \in S
    BY <1>1, ElementOfSeq
  <2> QED BY <1>1, <2>1, SubSeqProperties
<1>3. b \in Seq(S) /\ Len(b) = n - i /\ \A j \in 1..(n - i) : b[j] = s[i + j]
  <2>1. \A j \in (i + 1)..n : s[j] \in S
    BY <1>1, ElementOfSeq
  <2>2. Len(b) = IF i + 1 <= n THEN n - (i + 1) + 1 ELSE 0
    BY <1>1, <2>1, SubSeqProperties
  <2> QED BY <1>1, <2>1, <2>2, SubSeqProperties
<1>0. t = a \o b
  OBVIOUS
<1> HIDE DEF a, b
<1>4. t \in Seq(S) /\ Len(t) = Len(a) + Len(b)
      /\ \A j \in 1..(Len(a) + Len(b)) : t[j] = IF j <= Len(a) THEN a[j] ELSE b[j - Len(a)]
  <2>1. a \in Seq(S) /\ b \in Seq(S)
    BY <1>2, <1>3
  <2> QED BY ONLY <1>0, <2>1, ConcatProperties
<1> HIDE DEF n
<1>5. Len(t) = n - 1
  BY ONLY <1>1, <1>2, <1>3, <1>4
<1>6. ASSUME NEW j \in 1..(n - 1) PROVE t[j] = IF j < i THEN s[j] ELSE s[j + 1]
  <2>0. j \in Nat /\ 1 <= j /\ j <= n - 1
    BY ONLY <1>1, j \in 1..(n - 1)
  <2>1. j \in 1..(Len(a) + Len(b)) /\ (j <= Len(a) <=> j < i)
    BY ONLY <1>1, <1>2, <1>3, <2>0
  <2>2. CASE j < i
    BY ONLY <1>1, <1>2, <1>4, <2>0, <2>1, <2>2
  <2>3. CASE j >= i
    <3>1. t[j] = b[j - Len(a)] /\ j - Len(a) \in 1..(n - i) /\ i + (j - Len(a)) = j + 1
      BY ONLY <1>1, <1>2, <1>4, <2>0, <2>1, <2>3
    <3>2. b[j - Len(a)] = s[i + (j - Len(a))]
      BY ONLY <1>3, <3>1
    <3> QED BY ONLY <1>1, <2>0, <2>3, <3>1, <3>2
  <2> QED BY ONLY <1>1, <2>0, <2>2, <2>3
<1> QED BY <1>4, <1>5, <1>6 DEF n

\* The pointers from head on run through exactly s, in the next fields nxt.
ChainIn(nxt, head, s) ==
  /\ head = IF Len(s) = 0 THEN Null ELSE s[1]
  /\ \A j \in 1..Len(s) : nxt[s[j]] = IF j = Len(s) THEN Null ELSE s[j + 1]

\* IsChain on a sequence, whichever pointers it is read with.
LEMMA Chains ==
  ASSUME NEW S, NEW s \in Seq(S), NEW head
  PROVE  /\ IsChain(head, s) <=> ChainIn(next, head, s)
         /\ \A t \in Seq(S) : IsChain(head, t)' <=> ChainIn(next', head, t)
<1>1. \A t \in Seq(S) : DOMAIN t = 1..Len(t) /\ (t = <<>> <=> Len(t) = 0)
  BY LenProperties, EmptySeq
<1> QED BY <1>1 DEF IsChain, ChainIn

\* ListsChained, before and after a step.
LEMMA Lists ==
  ASSUME TypeInv
  PROVE  /\ ListsChained <=> /\ ChainIn(next, libdl_info, list)
                             /\ sonext = list[Len(list)]
                             /\ ChainIn(next, gSoInfoFreeList, avail)
         /\ TypeInv' =>
              (ListsChained' <=> /\ ChainIn(next', libdl_info, list')
                                 /\ sonext' = list'[Len(list')]
                                 /\ ChainIn(next', gSoInfoFreeList', avail'))
<1>1. ListsChained <=> /\ ChainIn(next, libdl_info, list)
                       /\ sonext = list[Len(list)]
                       /\ ChainIn(next, gSoInfoFreeList, avail)
  BY Chains DEF ListsChained, TypeInv
<1>2. ASSUME TypeInv'
      PROVE  ListsChained' <=> /\ ChainIn(next', libdl_info, list')
                               /\ sonext' = list'[Len(list')]
                               /\ ChainIn(next', gSoInfoFreeList', avail')
  <2>1. \A t \in Seq(AllEntries) : DOMAIN t = 1..Len(t) /\ (t = <<>> <=> Len(t) = 0)
    BY LenProperties, EmptySeq
  <2> QED BY <1>2, <2>1 DEF ListsChained, IsChain, ChainIn, TypeInv
<1> QED BY <1>1, <1>2

\* The list of libraries is not empty.
LEMMA ListLength ==
  ASSUME TypeInv
  PROVE  /\ Len(list) \in Nat /\ Len(list) >= 1 /\ 1 \in 1..Len(list) /\ Len(list) \in 1..Len(list)
         /\ Len(avail) \in Nat
         /\ \A i \in 1..Len(list) : list[i] \in AllEntries
         /\ \A i \in 1..Len(avail) : avail[i] \in AllEntries
<1>1. list \in Seq(AllEntries) /\ avail \in Seq(AllEntries) /\ list # <<>>
  BY DEF TypeInv
<1>2. Len(list) \in Nat /\ Len(avail) \in Nat /\ Len(list) # 0
  BY <1>1, LenProperties, EmptySeq
<1> QED BY <1>1, <1>2, ElementOfSeq

\* A sequence with one element more, at its end or at its head.
LEMMA OneMore ==
  ASSUME NEW S, NEW s \in Seq(S), NEW x \in S
  PROVE  /\ Append(s, x) \in Seq(S) /\ Len(Append(s, x)) = Len(s) + 1
         /\ \A j \in 1..(Len(s) + 1) : Append(s, x)[j] = IF j = Len(s) + 1 THEN x ELSE s[j]
         /\ <<x>> \o s \in Seq(S) /\ Len(<<x>> \o s) = Len(s) + 1
         /\ \A j \in 1..(Len(s) + 1) : (<<x>> \o s)[j] = IF j = 1 THEN x ELSE s[j - 1]
<1>1. /\ Append(s, x) \in Seq(S) /\ Len(Append(s, x)) = Len(s) + 1
      /\ \A j \in 1..Len(s) : Append(s, x)[j] = s[j]
      /\ Append(s, x)[Len(s) + 1] = x
  BY AppendProperties
<1>2. Len(s) \in Nat
  BY LenProperties
<1>3. \A j \in 1..(Len(s) + 1) : Append(s, x)[j] = IF j = Len(s) + 1 THEN x ELSE s[j]
  BY ONLY <1>1, <1>2
<1>4. <<x>> \in Seq(S) /\ Len(<<x>>) = 1 /\ <<x>>[1] = x
  OBVIOUS
<1>5. /\ <<x>> \o s \in Seq(S) /\ Len(<<x>> \o s) = 1 + Len(s)
      /\ \A j \in 1..(1 + Len(s)) : (<<x>> \o s)[j] = IF j <= 1 THEN <<x>>[j] ELSE s[j - 1]
  <2>1. \A t \in Seq(S) :
           /\ t \o s \in Seq(S) /\ Len(t \o s) = Len(t) + Len(s)
           /\ \A j \in 1..(Len(t) + Len(s)) :
                (t \o s)[j] = IF j <= Len(t) THEN t[j] ELSE s[j - Len(t)]
    BY ConcatProperties
  <2> QED BY ONLY <1>4, <2>1
<1>6. ASSUME NEW j \in 1..(Len(s) + 1) PROVE (<<x>> \o s)[j] = IF j = 1 THEN x ELSE s[j - 1]
  <2>1. j \in 1..(1 + Len(s)) /\ (j <= 1 <=> j = 1)
    BY <1>2
  <2> QED BY <1>4, <1>5, <2>1
<1>7. 1 + Len(s) = Len(s) + 1
  BY <1>2
<1> QED BY <1>1, <1>3, <1>5, <1>6, <1>7

\* A sequence without its head.
LEMMA OneLess ==
  ASSUME NEW S, NEW s \in Seq(S), Len(s) > 0
  PROVE  /\ SubSeq(s, 2, Len(s)) \in Seq(S) /\ Len(SubSeq(s, 2, Len(s))) = Len(s) - 1
         /\ \A j \in 1..(Len(s) - 1) : SubSeq(s, 2, Len(s))[j] = s[j + 1]
<1>1. Len(s) \in Nat
  BY LenProperties
<1>2. \A j \in 2..Len(s) : s[j] \in S
  BY <1>1, ElementOfSeq
<1>3. /\ SubSeq(s, 2, Len(s)) \in Seq(S)
      /\ Len(SubSeq(s, 2, Len(s))) = IF 2 <= Len(s) THEN Len(s) - 2 + 1 ELSE 0
      /\ \A j \in 1..(Len(s) - 2 + 1) : SubSeq(s, 2, Len(s))[j] = s[2 + j - 1]
  BY <1>1, <1>2, SubSeqProperties
<1>4. Len(s) - 2 + 1 = Len(s) - 1 /\ \A j \in 1..(Len(s) - 1) : 2 + j - 1 = j + 1
  BY <1>1
<1> QED BY <1>1, <1>3, <1>4

-----------------------------------------------------------------------------
(* soinfo_alloc.                                                           *)

\* Taking the head off the free list, wherever its entries come from: nxt are the
\* next fields then, rest what follows the head.
LEMMA TakeInv ==
  ASSUME PoolInv, NEW nxt \in [AllEntries -> Pointers], NEW head \in AllEntries,
         NEW rest \in Seq(AllEntries),
         \A i \in 1..Len(list) : list[i] # head,
         \A i \in 1..Len(rest) : rest[i] # head /\ \A j \in 1..Len(list) : list[j] # rest[i],
         \A i, j \in 1..Len(rest) : rest[i] = rest[j] => i = j,
         ChainIn(nxt, libdl_info, list), ChainIn(nxt, nxt[head], rest),
         freeing = Null, Take(nxt, head), avail' = rest, pools' \in 0..MaxPools,
         \A e : e \in Pooled' <=> \/ \E i \in 1..Len(list) : e = list[i]
                                  \/ e = head
                                  \/ \E i \in 1..Len(rest) : e = rest[i]
  PROVE  PoolInv'
<1> DEFINE n == Len(list)
<1>1. /\ gSoInfoFreeList' = nxt[head]
      /\ next' = [nxt EXCEPT ![head] = Null, ![sonext] = head]
      /\ sonext' = head
      /\ list' = Append(list, head)
      /\ freeing' = Null /\ UNCHANGED <<iter, visited, stayed>>
  BY DEF Take, walk
<1>2. /\ n \in Nat /\ n >= 1 /\ \A i \in 1..n : list[i] \in AllEntries
      /\ list \in Seq(AllEntries) /\ list[1] = libdl_info
  BY ListLength DEF PoolInv, TypeInv
<1>3. list' \in Seq(AllEntries) /\ Len(list') = n + 1
      /\ \A j \in 1..(n + 1) : list'[j] = IF j = n + 1 THEN head ELSE list[j]
  BY <1>1, <1>2, OneMore
<1>4. sonext = list[n] /\ sonext \in AllEntries /\ sonext # head
  <2>1. sonext = list[n]
    BY Lists DEF PoolInv
  <2>2. n \in 1..n
    BY <1>2
  <2> QED BY <1>2, <2>1, <2>2
<1>5. /\ next' \in [AllEntries -> Pointers]
      /\ next'[head] = Null /\ next'[sonext] = head
      /\ \A e \in AllEntries : e # head /\ e # sonext => next'[e] = nxt[e]
  BY <1>1, <1>4 DEF Pointers
<1>6. TypeInv'
  <2>1. list'[1] = libdl_info /\ list' # <<>>
    <3>1. 1 \in 1..(n + 1) /\ 1 # n + 1 /\ Len(list') # 0
      BY <1>2, <1>3
    <3>2. Len(<<>>) = 0
      BY EmptySeq
    <3> QED BY <1>2, <1>3, <3>1, <3>2
  <2> QED BY <1>1, <1>3, <1>5, <2>1 DEF TypeInv, Pointers
<1>7. ChainIn(next', libdl_info, list')
  <2>1. Len(list') # 0 /\ list'[1] = libdl_info
    BY <1>2, <1>3, <1>6 DEF TypeInv
  <2>2. ASSUME NEW j \in 1..(n + 1)
        PROVE  next'[list'[j]] = IF j = n + 1 THEN Null ELSE list'[j + 1]
    <3>1. CASE j = n + 1
      BY <1>3, <1>5, <3>1
    <3>2. CASE j = n
      <4>1. list'[j] = sonext /\ list'[j + 1] = head
        BY <1>2, <1>3, <1>4, <3>2
      <4> QED BY <1>2, <1>5, <3>2, <4>1
    <3>3. CASE j \in 1..(n - 1)
      <4>1. j \in 1..n /\ j + 1 \in 1..n /\ n \in 1..n /\ j # n /\ j + 1 \in 1..(n + 1) /\ j + 1 # n + 1
            /\ j # n + 1
        BY <1>2, <3>3
      <4>2. list'[j] = list[j] /\ list'[j + 1] = list[j + 1]
        BY <1>3, <4>1
      <4>3. list[j] # head /\ list[j] # sonext /\ list[j] \in AllEntries
        BY <1>2, <1>4, <4>1 DEF PoolInv, Apart
      <4>4. nxt[list[j]] = list[j + 1]
        BY <4>1 DEF ChainIn
      <4> QED BY <1>5, <4>1, <4>2, <4>3, <4>4
    <3>4. j = n + 1 \/ j = n \/ j \in 1..(n - 1)
      BY <1>2
    <3> QED BY <3>1, <3>2, <3>3, <3>4
  <2> QED BY <1>3, <2>1, <2>2 DEF ChainIn
<1>8. ChainIn(next', gSoInfoFreeList', rest)
  <2>1. ASSUME NEW j \in 1..Len(rest) PROVE next'[rest[j]] = nxt[rest[j]]
    <3>1. rest[j] # head /\ rest[j] # sonext
      <4>1. n \in 1..n
        BY <1>2
      <4> QED BY <1>4, <4>1
    <3>2. rest[j] \in AllEntries
      BY ElementOfSeq
    <3> QED BY <1>5, <3>1, <3>2
  <2> QED BY <1>1, <2>1 DEF ChainIn
<1>9. ListsChained'
  <2>1. sonext' = list'[Len(list')]
    BY <1>1, <1>2, <1>3
  <2> QED BY <1>6, <1>7, <1>8, <2>1, Lists DEF PoolInv
<1>10. Apart'
  <2>1. \A i, j \in 1..(n + 1) : list'[i] = list'[j] => i = j
    BY <1>2, <1>3 DEF PoolInv, Apart
  <2>2. \A i \in 1..(n + 1), j \in 1..Len(rest) : list'[i] # rest[j]
    BY <1>2, <1>3
  <2> QED BY <1>3, <2>1, <2>2 DEF Apart
<1>11. Complete'
  <2>1. \A e : (\E i \in 1..Len(list') : e = list'[i]) <=> (\E i \in 1..n : e = list[i]) \/ e = head
    <3>1. /\ n + 1 \in 1..(n + 1)
          /\ \A i \in 1..n : i \in 1..(n + 1) /\ i # n + 1
          /\ \A i \in 1..(n + 1) : i = n + 1 \/ i \in 1..n
      BY <1>2
    <3>2. list'[n + 1] = head /\ \A i \in 1..n : list'[i] = list[i]
      BY ONLY <1>3, <3>1
    <3> QED BY ONLY <1>3, <3>1, <3>2
  <2> QED BY <2>1 DEF Complete
<1>12. FreeInv'
  BY <1>1 DEF FreeInv
<1>13. WalkInv'
  <2>1. \A j \in 1..n : j \in 1..(n + 1) /\ list'[j] = list[j]
    BY <1>2, <1>3
  <2>2. \A e \in stayed : \E i \in 1..Len(list') : e = list'[i]
    BY <1>3, <2>1 DEF PoolInv, WalkInv
  <2>3. iter # Null =>
          \E k \in 1..Len(list') :
             iter = list'[k] /\ \A j \in 1..k : list'[j] \in stayed => list'[j] \in visited
    <3> SUFFICES ASSUME iter # Null
                 PROVE  \E k \in 1..Len(list') : 
                          iter = list'[k] /\ \A j \in 1..k : list'[j] \in stayed => list'[j] \in visited
      OBVIOUS
    <3>1. PICK k \in 1..n : iter = list[k] /\ \A j \in 1..k : list[j] \in stayed => list[j] \in visited
      BY DEF PoolInv, WalkInv
    <3>2. \A j \in 1..k : j \in 1..n
      BY <1>2
    <3> QED BY <1>3, <2>1, <3>1, <3>2
  <2> QED BY <1>1, <2>2, <2>3 DEF PoolInv, WalkInv
<1> QED BY <1>6, <1>9, <1>10, <1>11, <1>12, <1>13 DEF PoolInv

\* The free list's head, when there is one.
LEMMA AllocReusedInv ==
  ASSUME PoolInv, AllocReused
  PROVE  PoolInv'
<1> DEFINE head == gSoInfoFreeList
           rest == SubSeq(avail, 2, Len(avail))
           m    == Len(avail)
<1>1. freeing = Null /\ head # Null /\ Take(next, head) /\ avail' = rest /\ pools' = pools
  BY DEF AllocReused
<1>2. ChainIn(next, libdl_info, list) /\ ChainIn(next, head, avail)
  BY Lists DEF PoolInv
<1>3. /\ m \in Nat /\ m > 0 /\ 1 \in 1..m /\ head = avail[1] /\ head \in AllEntries
      /\ avail \in Seq(AllEntries)
  <2>1. m \in Nat /\ \A i \in 1..m : avail[i] \in AllEntries
    BY ListLength DEF PoolInv
  <2>2. m # 0 /\ head = avail[1]
    BY <1>1, <1>2 DEF ChainIn
  <2> QED BY <2>1, <2>2 DEF PoolInv, TypeInv
<1>4. /\ rest \in Seq(AllEntries) /\ Len(rest) = m - 1
      /\ \A j \in 1..(m - 1) : rest[j] = avail[j + 1]
  BY <1>3, OneLess
<1>5. \A j \in 1..(m - 1) : j + 1 \in 1..m /\ j + 1 # 1
  BY <1>3
<1> HIDE DEF rest, head
<1>6. ChainIn(next, next[head], rest)
  <2>1. next[head] = IF m = 1 THEN Null ELSE avail[2]
    <3>1. next[avail[1]] = IF 1 = m THEN Null ELSE avail[1 + 1]
      BY <1>2, <1>3 DEF ChainIn
    <3>2. 1 + 1 = 2
      OBVIOUS
    <3> QED BY <1>3, <3>1, <3>2
  <2>2. next[head] = IF Len(rest) = 0 THEN Null ELSE rest[1]
    BY <1>3, <1>4, <2>1
  <2>3. ASSUME NEW j \in 1..(m - 1)
        PROVE  next[rest[j]] = IF j = m - 1 THEN Null ELSE rest[j + 1]
    <3>1. next[avail[j + 1]] = IF j + 1 = m THEN Null ELSE avail[(j + 1) + 1]
      BY <1>2, <1>5 DEF ChainIn
    <3>2. j + 1 = m <=> j = m - 1
      BY <1>3
    <3>3. j # m - 1 => j + 1 \in 1..(m - 1)
      BY <1>3
    <3> QED BY <1>4, <3>1, <3>2, <3>3
  <2> QED BY <1>4, <2>2, <2>3 DEF ChainIn
<1>7. \A i \in 1..Len(list) : list[i] # head
  BY <1>3 DEF PoolInv, Apart
<1>8. \A i \in 1..Len(rest) : rest[i] # head /\ \A j \in 1..Len(list) : list[j] # rest[i]
  BY <1>3, <1>4, <1>5 DEF PoolInv, Apart
<1>9. ASSUME NEW i \in 1..Len(rest), NEW j \in 1..Len(rest), rest[i] = rest[j] PROVE i = j
  <2>1. i \in 1..(m - 1) /\ j \in 1..(m - 1) /\ avail[i + 1] = avail[j + 1]
    BY <1>4, <1>9
  <2>2. i + 1 = j + 1
    BY <1>5, <2>1 DEF PoolInv, Apart
  <2> QED BY <2>1, <2>2
<1>10. \A e : e \in Pooled' <=> \/ \E i \in 1..Len(list) : e = list[i]
                                \/ e = head
                                \/ \E i \in 1..Len(rest) : e = rest[i]
  <2>1. ASSUME NEW e
        PROVE  (\E i \in 1..m : e = avail[i]) <=> (e = head \/ \E i \in 1..(m - 1) : e = rest[i])
    <3>1. \A i \in 1..m : i = 1 \/ (i - 1 \in 1..(m - 1) /\ (i - 1) + 1 = i)
      BY <1>3
    <3>2. ASSUME NEW i \in 1..m, e = avail[i], e # head PROVE \E j \in 1..(m - 1) : e = rest[j]
      <4>1. i - 1 \in 1..(m - 1) /\ (i - 1) + 1 = i
        BY <1>3, <3>1, <3>2
      <4>2. rest[i - 1] = avail[(i - 1) + 1]
        BY <1>4, <4>1
      <4> QED BY <3>2, <4>1, <4>2
    <3>3. ASSUME NEW j \in 1..(m - 1), e = rest[j] PROVE \E i \in 1..m : e = avail[i]
      BY <1>4, <1>5, <3>3
    <3> QED BY <1>3, <3>2, <3>3
  <2>2. Pooled' = Pooled
    BY <1>1 DEF Pooled
  <2>3. ASSUME NEW e
        PROVE  e \in Pooled <=> (\E i \in 1..Len(list) : e = list[i]) \/ \E i \in 1..m : e = avail[i]
    BY DEF PoolInv, Complete
  <2>4. 1..Len(rest) = 1..(m - 1)
    BY <1>4
  <2> HIDE DEF m
  <2>5. ASSUME NEW e
        PROVE  e \in Pooled' <=> \/ \E i \in 1..Len(list) : e = list[i]
                                 \/ e = head
                                 \/ \E i \in 1..(m - 1) : e = rest[i]
    BY ONLY <2>1, <2>2, <2>3
  <2> QED BY <2>4, <2>5
<1>11. next \in [AllEntries -> Pointers] /\ pools' \in 0..MaxPools
  BY <1>1 DEF PoolInv, TypeInv
<1> QED BY <1>1, <1>2, <1>3, <1>4, <1>6, <1>7, <1>8, <1>9, <1>10, <1>11, TakeInv

\* A new pool: its entries are chained in order, and its first one is taken.
LEMMA AllocNewPoolInv ==
  ASSUME PoolInv, AllocNewPool
  PROVE  PoolInv'
<1> DEFINE n     == pools
           P     == PerPool
           last  == n * P
           first == n * P + 1
           nxt   == Chained(n + 1)
           rest  == [k \in 1..(P - 1) |-> first + k]
<1>1. /\ freeing = Null /\ gSoInfoFreeList = Null /\ n < MaxPools
      /\ pools' = n + 1 /\ Take(nxt, first) /\ avail' = rest
  BY DEF AllocNewPool
<1>2. P \in Nat \ {0} /\ n \in Nat /\ MaxPools \in Nat
  BY PoolAssumption DEF PoolInv, TypeInv
<1>3. /\ Entries(n + 1) = (last + 1)..(last + P)
      /\ (n + 1) * P = last + P
      /\ last \in Nat
      /\ Entries(n + 1) \subseteq AllEntries
      /\ \A q \in 1..n : \A e \in Entries(q) : e \in Nat /\ e > 0 /\ e <= last
  BY <1>1, <1>2, NewPool
<1>4. first \in Nat /\ first = last + 1 /\ first \in Entries(n + 1) /\ first \in AllEntries
  BY <1>2, <1>3
<1>5. nxt = [e \in AllEntries |-> IF e \notin Entries(n + 1) THEN next[e]
                                  ELSE IF e = last + P THEN Null ELSE e + 1]
  BY <1>3 DEF Chained
<1>6. nxt \in [AllEntries -> Pointers]
  <2>1. ASSUME NEW e \in AllEntries
        PROVE  (IF e \notin Entries(n + 1) THEN next[e]
                ELSE IF e = last + P THEN Null ELSE e + 1) \in Pointers
    <3>1. e \in Entries(n + 1) /\ e # last + P => e + 1 \in Entries(n + 1)
      BY <1>2, <1>3
    <3> QED BY <1>3, <3>1 DEF PoolInv, TypeInv, Pointers
  <2> QED BY <1>5, <2>1
<1> HIDE DEF last, first, nxt
<1>7. Len(avail) = 0
  <2>1. ChainIn(next, gSoInfoFreeList, avail)
    BY Lists DEF PoolInv
  <2>2. Len(avail) # 0 => Null = avail[1] /\ 1 \in 1..Len(avail)
    BY <1>1, <2>1, ListLength DEF ChainIn, PoolInv
  <2> QED BY <2>2, ListLength, NullIsNoEntry DEF PoolInv
<1>8. \A e \in Entries(n + 1) : e \notin Pooled
  BY <1>2, <1>3 DEF Pooled, libdl_info
<1>9. \A e : e \in Pooled <=> \E i \in 1..Len(list) : e = list[i]
  BY <1>7 DEF PoolInv, Complete
<1>10. ChainIn(nxt, libdl_info, list)
  <2>1. \A j \in 1..Len(list) : nxt[list[j]] = next[list[j]]
    BY <1>5, <1>8, <1>9, ListLength DEF PoolInv
  <2>2. ChainIn(next, libdl_info, list)
    BY Lists DEF PoolInv
  <2> QED BY <2>1, <2>2 DEF ChainIn
<1>11. \A k \in 1..(P - 1) : /\ rest[k] = first + k /\ first + k \in Entries(n + 1)
                             /\ first + k # first
  BY <1>2, <1>3, <1>4
<1>12. rest \in Seq(AllEntries) /\ Len(rest) = P - 1
  BY <1>2, <1>3, <1>11
<1>13. ChainIn(nxt, nxt[first], rest)
  <2>1. nxt[first] = IF P - 1 = 0 THEN Null ELSE first + 1
    BY <1>2, <1>3, <1>4, <1>5
  <2>2. nxt[first] = IF Len(rest) = 0 THEN Null ELSE rest[1]
    <3>1. P - 1 # 0 => 1 \in 1..(P - 1)
      BY <1>2
    <3> QED BY <1>11, <1>12, <2>1, <3>1
  <2>3. ASSUME NEW k \in 1..(P - 1)
        PROVE  nxt[rest[k]] = IF k = P - 1 THEN Null ELSE rest[k + 1]
    <3>1. nxt[first + k] = IF first + k = last + P THEN Null ELSE (first + k) + 1
      BY <1>3, <1>5, <1>11
    <3>2. (first + k = last + P <=> k = P - 1) /\ (first + k) + 1 = first + (k + 1)
      BY <1>2, <1>3, <1>4
    <3>3. k # P - 1 => k + 1 \in 1..(P - 1)
      BY <1>2
    <3>4. k # P - 1 => rest[k + 1] = first + (k + 1)
      BY <3>3
    <3> QED BY <1>11, <3>1, <3>2, <3>4
  <2> QED BY <1>12, <2>2, <2>3 DEF ChainIn
<1>14. \A i \in 1..Len(list) : list[i] # first
  BY <1>4, <1>8, <1>9
<1>15. \A i \in 1..Len(rest) : rest[i] # first /\ \A j \in 1..Len(list) : list[j] # rest[i]
  BY <1>8, <1>9, <1>11, <1>12
<1>16. \A i, j \in 1..Len(rest) : rest[i] = rest[j] => i = j
  BY <1>2, <1>4, <1>11, <1>12
<1>17. \A e : e \in Pooled' <=> \/ \E i \in 1..Len(list) : e = list[i]
                                \/ e = first
                                \/ \E i \in 1..Len(rest) : e = rest[i]
  <2>1. \A e : e \in Pooled' <=> e \in Pooled \/ e \in Entries(n + 1)
    <3>1. \A q : q \in 1..(n + 1) <=> q \in 1..n \/ q = n + 1
      BY <1>2
    <3> QED BY <1>1, <3>1 DEF Pooled, Entries
  <2>2. ASSUME NEW e
        PROVE  e \in Entries(n + 1) <=> e = first \/ \E k \in 1..(P - 1) : e = first + k
    <3>1. ASSUME e \in Entries(n + 1), e # first PROVE \E k \in 1..(P - 1) : e = first + k
      <4>1. e - first \in 1..(P - 1) /\ e = first + (e - first)
        BY <1>2, <1>3, <1>4, <3>1
      <4> QED BY <4>1
    <3> QED BY <1>4, <1>11, <3>1
  <2> QED BY <1>9, <1>11, <1>12, <2>1, <2>2
<1>18. pools' \in 0..MaxPools
  BY <1>1, <1>2
<1> HIDE DEF rest
<1> QED BY <1>1, <1>4, <1>6, <1>10, <1>12, <1>13, <1>14, <1>15, <1>16, <1>17, <1>18, TakeInv

-----------------------------------------------------------------------------
(* soinfo_free.                                                            *)

\* A step that changes none of the lists keeps what is said of them.
LEMMA SameLists ==
  ASSUME PoolInv, UNCHANGED <<next, pools, gSoInfoFreeList, sonext, list, avail>>,
         freeing' \in Pointers, FreeInv', WalkInv'
  PROVE  PoolInv'
<1>1. TypeInv'
  BY DEF PoolInv, TypeInv
<1>2. ListsChained' /\ Apart' /\ Complete'
  BY DEF PoolInv, ListsChained, IsChain, Apart, Complete, Pooled
<1> QED BY <1>1, <1>2 DEF PoolInv

\* The walk of soinfo_free, up to where it finds its entry or the end.
LEMMA FreeWalkInv ==
  ASSUME PoolInv, \/ \E p \in 1..pools : \E si \in Entries(p) : FreeStart(si)
                  \/ FreeStep \/ FreeMissing
  PROVE  PoolInv'
<1>1. /\ UNCHANGED <<next, pools, gSoInfoFreeList, sonext, list, avail>>
      /\ UNCHANGED <<iter, visited, stayed>>
  BY DEF FreeStart, FreeStep, FreeMissing, walk
<1>2. WalkInv'
  BY <1>1 DEF PoolInv, WalkInv
<1>3. freeing' \in Pointers /\ FreeInv'
  <2>1. ASSUME NEW p \in 1..pools, NEW si \in Entries(p), FreeStart(si)
        PROVE  freeing' \in Pointers /\ FreeInv'
    <3>1. freeing' = si /\ trav' = libdl_info /\ prev' = Null /\ si # iter
      BY <2>1 DEF FreeStart
    <3>2. si \in AllEntries /\ si # libdl_info
      <4>1. pools \in Nat /\ MaxPools \in Nat /\ pools <= MaxPools
        BY PoolAssumption DEF PoolInv, TypeInv
      <4>2. p - 1 \in Nat /\ p - 1 < MaxPools /\ (p - 1) + 1 = p
        BY <4>1
      <4>3. Entries(p) \subseteq AllEntries
        BY <4>2, NewPool
      <4>4. si > 0
        <5>1. Entries(p) = ((p - 1) * PerPool + 1)..((p - 1) * PerPool + PerPool)
              /\ (p - 1) * PerPool \in Nat
          BY <4>2, NewPool
        <5> QED BY <5>1, PoolAssumption
      <4> QED BY <4>3, <4>4 DEF libdl_info
    <3>3. 1 \in 1..Len(list) /\ list[1] = libdl_info
      BY ListLength DEF PoolInv, TypeInv
    <3> QED BY <1>1, <3>1, <3>2, <3>3 DEF FreeInv, Pointers
  <2>2. CASE FreeStep
    <3>1. freeing # Null /\ trav # Null /\ trav # freeing /\ freeing' = freeing
          /\ prev' = trav /\ trav' = next[trav]
      BY <2>2 DEF FreeStep
    <3>2. PICK k \in 1..Len(list) : trav = list[k]
      BY <3>1 DEF PoolInv, FreeInv
    <3>3. next[trav] = IF k = Len(list) THEN Null ELSE list[k + 1]
      BY <3>2, Lists DEF PoolInv, ChainIn
    <3>4. ASSUME trav' # Null
          PROVE  \E m \in 1..Len(list) : trav' = list[m] /\ prev' = IF m = 1 THEN Null ELSE list[m - 1]
      <4>1. k + 1 \in 1..Len(list) /\ k + 1 # 1 /\ (k + 1) - 1 = k
        <5>1. k # Len(list) /\ Len(list) \in Nat
          BY <3>1, <3>3, <3>4, ListLength DEF PoolInv
        <5> QED BY <5>1
      <4>2. trav' = list[k + 1] /\ prev' = list[(k + 1) - 1]
        BY <3>1, <3>2, <3>3, <3>4, <4>1
      <4> QED BY <4>1, <4>2
    <3>5. freeing # libdl_info /\ freeing # iter
      BY <3>1 DEF PoolInv, FreeInv
    <3> QED BY <1>1, <3>1, <3>4, <3>5 DEF FreeInv, PoolInv, TypeInv
  <2>3. CASE FreeMissing
    BY <2>3 DEF FreeMissing, FreeInv, Pointers
  <2> QED BY <2>1, <2>2, <2>3
<1> QED BY <1>1, <1>2, <1>3, SameLists

\* Where soinfo_free has found its entry.
LEMMA Found ==
  ASSUME PoolInv, FreeFound
  PROVE  \E k \in 2..Len(list) :
           /\ freeing = list[k] /\ prev = list[k - 1] /\ freeing # iter
           /\ list' = SubSeq(list, 1, k - 1) \o SubSeq(list, k + 1, Len(list))
<1>1. freeing # Null /\ trav = freeing
  BY DEF FreeFound
<1>2. PICK k \in 1..Len(list) : freeing = list[k] /\ prev = IF k = 1 THEN Null ELSE list[k - 1]
  BY <1>1 DEF PoolInv, FreeInv
<1>3. freeing # libdl_info /\ freeing # iter
  BY <1>1 DEF PoolInv, FreeInv
<1>4. k # 1
  BY <1>2, <1>3 DEF PoolInv, TypeInv
<1>5. k \in 2..Len(list)
  BY <1>4
<1>6. PICK m \in DOMAIN list :
        list[m] = freeing /\ list' = SubSeq(list, 1, m - 1) \o SubSeq(list, m + 1, Len(list))
  BY DEF FreeFound, Forget
<1>7. m = k
  <2>1. DOMAIN list = 1..Len(list)
    BY LenProperties DEF PoolInv, TypeInv
  <2> QED BY <1>2, <1>6, <2>1 DEF PoolInv, Apart
<1> QED BY <1>2, <1>3, <1>4, <1>5, <1>6, <1>7

\* The entry is unlinked from solist and pushed on the free list.
LEMMA FreeFoundInv ==
  ASSUME PoolInv, FreeFound
  PROVE  PoolInv'
<1> DEFINE n  == Len(list)
           si == freeing
<1>1. PICK k \in 2..n :
        /\ si = list[k] /\ prev = list[k - 1] /\ si # iter
        /\ list' = SubSeq(list, 1, k - 1) \o SubSeq(list, k + 1, n)
  BY Found
<1>2. /\ si # Null
      /\ next' = [next EXCEPT ![prev] = next[si], ![si] = gSoInfoFreeList]
      /\ sonext' = IF si = sonext THEN prev ELSE sonext
      /\ gSoInfoFreeList' = si
      /\ freeing' = Null /\ avail' = <<si>> \o avail /\ stayed' = stayed \ {si}
      /\ UNCHANGED <<pools, iter, visited>>
  BY DEF FreeFound, Forget
<1>3. /\ n \in Nat /\ k \in Nat /\ 2 <= k /\ k <= n /\ k \in 1..n /\ k - 1 \in 1..n
      /\ n \in 1..n /\ 1 \in 1..(n - 1) /\ n - 1 \in 1..(n - 1)
      /\ \A i \in 1..n : list[i] \in AllEntries
  BY <1>1, ListLength DEF PoolInv
<1>4. /\ list' \in Seq(AllEntries)
      /\ Len(list') = n - 1
      /\ \A j \in 1..(n - 1) : list'[j] = IF j < k THEN list[j] ELSE list[j + 1]
  <2>1. list \in Seq(AllEntries)
    BY DEF PoolInv, TypeInv
  <2>2. k \in 1..Len(list) /\ list' = SubSeq(list, 1, k - 1) \o SubSeq(list, k + 1, Len(list))
    BY ONLY <1>1, <1>3
  <2> QED BY ONLY <2>1, <2>2, Without
<1>5. \A i, j \in 1..n : list[i] = list[j] => i = j
  BY DEF PoolInv, Apart
<1>6. si \in AllEntries /\ prev \in AllEntries /\ si # prev
  <2>1. k # k - 1
    BY <1>3
  <2> QED BY <1>1, <1>3, <1>5, <2>1
<1>7. /\ avail' \in Seq(AllEntries) /\ Len(avail') = Len(avail) + 1 /\ Len(avail) \in Nat
      /\ \A j \in 1..(Len(avail) + 1) : avail'[j] = IF j = 1 THEN si ELSE avail[j - 1]
  BY <1>2, <1>6, OneMore, ListLength DEF PoolInv, TypeInv
<1>8. /\ next' \in [AllEntries -> Pointers]
      /\ next'[si] = gSoInfoFreeList /\ next'[prev] = next[si]
      /\ \A e \in AllEntries : e # si /\ e # prev => next'[e] = next[e]
  <2>1. next \in [AllEntries -> Pointers]
    BY DEF PoolInv, TypeInv
  <2>2. gSoInfoFreeList \in Pointers
    BY Lists, ListLength DEF PoolInv, ChainIn, Pointers
  <2> QED BY <1>2, <1>6, <2>1, <2>2
<1>9. TypeInv'
  <2>1. list'[1] = libdl_info
    BY <1>3, <1>4 DEF PoolInv, TypeInv
  <2>2. list' # <<>>
    <3>1. Len(list') # 0 /\ Len(<<>>) = 0
      BY <1>3, <1>4, EmptySeq
    <3> QED BY <3>1
  <2> QED BY <1>2, <1>4, <1>7, <1>8, <2>1, <2>2 DEF PoolInv, TypeInv, Pointers
<1>10. ChainIn(next, libdl_info, list) /\ sonext = list[n] /\ ChainIn(next, gSoInfoFreeList, avail)
  BY Lists DEF PoolInv
<1>11. ChainIn(next', libdl_info, list')
  <2>1. ASSUME NEW j \in 1..(n - 1)
        PROVE  next'[list'[j]] = IF j = n - 1 THEN Null ELSE list'[j + 1]
    <3>1. CASE j < k - 1
      <4>1. j \in 1..n /\ j + 1 \in 1..(n - 1) /\ j # k /\ j # k - 1 /\ j < k /\ j + 1 < k /\ j # n
            /\ j # n - 1
        BY <1>3, <3>1
      <4>2. list'[j] = list[j] /\ list'[j + 1] = list[j + 1]
        BY <1>4, <4>1
      <4>3. list[j] # si /\ list[j] # prev
        BY <1>1, <1>3, <1>5, <4>1
      <4>4. next[list[j]] = list[j + 1]
        BY <1>10, <4>1 DEF ChainIn
      <4> QED BY <1>3, <1>8, <4>1, <4>2, <4>3, <4>4
    <3>2. CASE j = k - 1
      <4>1. list'[j] = prev
        BY <1>1, <1>3, <1>4, <3>2
      <4>2. next[si] = IF k = n THEN Null ELSE list[k + 1]
        BY <1>1, <1>3, <1>10 DEF ChainIn
      <4>3. k = n <=> j = n - 1
        BY <1>3, <3>2
      <4>4. ASSUME k # n PROVE list'[j + 1] = list[k + 1]
        <5>1. j + 1 = k /\ k \in 1..(n - 1)
          BY <1>3, <3>2, <4>4
        <5> QED BY <1>3, <1>4, <5>1
      <4> QED BY <1>8, <4>1, <4>2, <4>3, <4>4
    <3>3. CASE j >= k
      <4>1. j + 1 \in 1..n /\ j + 1 # k /\ j + 1 # k - 1 /\ ~(j < k) /\ (j + 1 = n <=> j = n - 1)
        BY <1>3, <3>3
      <4>2. list'[j] = list[j + 1]
        BY <1>4, <4>1
      <4>3. list[j + 1] # si /\ list[j + 1] # prev /\ list[j + 1] \in AllEntries
        BY <1>1, <1>3, <1>5, <4>1
      <4>4. next[list[j + 1]] = IF j + 1 = n THEN Null ELSE list[(j + 1) + 1]
        BY <1>10, <4>1 DEF ChainIn
      <4>5. ASSUME j # n - 1 PROVE list'[j + 1] = list[(j + 1) + 1]
        <5>1. j + 1 \in 1..(n - 1) /\ ~(j + 1 < k)
          BY <1>3, <3>3, <4>5
        <5> QED BY <1>4, <5>1
      <4> QED BY <1>8, <4>1, <4>2, <4>3, <4>4, <4>5
    <3>4. j < k - 1 \/ j = k - 1 \/ j >= k
      BY <1>3
    <3> QED BY <3>1, <3>2, <3>3, <3>4
  <2>2. Len(list') # 0 /\ list'[1] = libdl_info
    BY <1>3, <1>4, <1>9 DEF TypeInv
  <2> QED BY <1>4, <2>1, <2>2 DEF ChainIn
<1>12. sonext' = list'[Len(list')]
  <2>1. CASE k = n
    <3>1. si = sonext /\ list'[n - 1] = list[n - 1]
      BY <1>1, <1>3, <1>4, <1>10, <2>1
    <3> QED BY <1>1, <1>2, <1>4, <2>1, <3>1
  <2>2. CASE k # n
    <3>1. si # sonext
      BY <1>1, <1>3, <1>5, <1>10, <2>2
    <3>2. ~(n - 1 < k) /\ (n - 1) + 1 = n
      BY <1>3, <2>2
    <3>3. list'[n - 1] = list[n]
      BY <1>3, <1>4, <3>2
    <3> QED BY <1>2, <1>4, <1>10, <3>1, <3>3
  <2> QED BY <2>1, <2>2
<1>13. \A i \in 1..n, j \in 1..Len(avail) : list[i] # avail[j]
  BY DEF PoolInv, Apart
<1>14. ChainIn(next', si, avail')
  <2>1. ASSUME NEW j \in 1..(Len(avail) + 1)
        PROVE  next'[avail'[j]] = IF j = Len(avail) + 1 THEN Null ELSE avail'[j + 1]
    <3>1. CASE j = 1
      <4>1. avail'[1] = si
        BY <1>7, <3>1
      <4>2. gSoInfoFreeList = IF Len(avail) = 0 THEN Null ELSE avail[1]
        BY <1>10 DEF ChainIn
      <4>3. (1 = Len(avail) + 1 <=> Len(avail) = 0) /\ (Len(avail) # 0 => 2 \in 1..(Len(avail) + 1))
        BY <1>7
      <4>4. Len(avail) # 0 => avail'[2] = avail[1]
        BY <1>7, <4>3
      <4> QED BY <1>8, <3>1, <4>1, <4>2, <4>3, <4>4
    <3>2. CASE j # 1
      <4>1. j - 1 \in 1..Len(avail) /\ (j - 1) + 1 = j /\ (j - 1 = Len(avail) <=> j = Len(avail) + 1)
        BY <1>7, <3>2
      <4>2. avail'[j] = avail[j - 1]
        BY <1>7, <3>2
      <4>3. avail[j - 1] # si /\ avail[j - 1] # prev /\ avail[j - 1] \in AllEntries
        BY <1>1, <1>3, <1>13, <4>1, ListLength DEF PoolInv
      <4>4. next[avail[j - 1]] = IF j - 1 = Len(avail) THEN Null ELSE avail[(j - 1) + 1]
        BY <1>10, <4>1 DEF ChainIn
      <4>5. ASSUME j # Len(avail) + 1 PROVE avail'[j + 1] = avail[j]
        <5>1. j + 1 \in 1..(Len(avail) + 1) /\ j + 1 # 1 /\ (j + 1) - 1 = j
          BY <1>7, <3>2, <4>5
        <5> QED BY <1>7, <5>1
      <4> QED BY <1>8, <4>1, <4>2, <4>3, <4>4, <4>5
    <3> QED BY <3>1, <3>2
  <2>2. Len(avail') # 0 /\ avail'[1] = si
    BY <1>7
  <2> QED BY <1>7, <2>1, <2>2 DEF ChainIn
<1>15. ListsChained'
  BY <1>2, <1>9, <1>11, <1>12, <1>14, Lists DEF PoolInv
\* Which positions the entries that stay have now.
<1>16. \A i \in 1..n : i # k => \E j \in 1..(n - 1) : /\ list'[j] = list[i]
                                                      /\ j = IF i < k THEN i ELSE i - 1
  <2> SUFFICES ASSUME NEW i \in 1..n, i # k
               PROVE  LET j == IF i < k THEN i ELSE i - 1 IN j \in 1..(n - 1) /\ list'[j] = list[i]
    OBVIOUS
  <2>1. CASE i < k
    BY <1>3, <1>4, <2>1
  <2>2. CASE ~(i < k)
    <3>1. i - 1 \in 1..(n - 1) /\ ~(i - 1 < k) /\ (i - 1) + 1 = i
      BY <1>3, <2>2
    <3> QED BY <1>4, <2>2, <3>1
  <2> QED BY <2>1, <2>2
<1>17. \A j \in 1..(n - 1) : \E i \in 1..n : i # k /\ list'[j] = list[i]
                                             /\ i = IF j < k THEN j ELSE j + 1
  <2> SUFFICES ASSUME NEW j \in 1..(n - 1)
               PROVE  LET i == IF j < k THEN j ELSE j + 1 IN i \in 1..n /\ i # k /\ list'[j] = list[i]
    OBVIOUS
  <2> QED BY <1>3, <1>4
<1>18. Apart'
  <2>1. ASSUME NEW i \in 1..(n - 1), NEW j \in 1..(n - 1), list'[i] = list'[j] PROVE i = j
    <3>1. (IF i < k THEN i ELSE i + 1) = (IF j < k THEN j ELSE j + 1)
      BY <1>5, <1>17, <2>1
    <3> QED BY <1>3, <3>1
  <2>2. ASSUME NEW i \in 1..Len(avail'), NEW j \in 1..Len(avail'), avail'[i] = avail'[j] PROVE i = j
    <3>1. \A m \in 1..Len(avail') : m # 1 => /\ m - 1 \in 1..Len(avail)
                                             /\ avail'[m] = avail[m - 1] /\ avail'[m] # si
      <4> SUFFICES ASSUME NEW m \in 1..Len(avail'), m # 1
                   PROVE  m - 1 \in 1..Len(avail) /\ avail'[m] = avail[m - 1] /\ avail'[m] # si
        OBVIOUS
      <4>1. m \in 1..(Len(avail) + 1) /\ m - 1 \in 1..Len(avail)
        BY <1>7
      <4>2. avail'[m] = avail[m - 1]
        BY <1>7, <4>1
      <4>3. list[k] # avail[m - 1]
        BY <1>3, <1>13, <4>1
      <4> QED BY <1>1, <4>1, <4>2, <4>3
    <3>2. avail'[1] = si
      BY <1>7
    <3>3. i # 1 /\ j # 1 => i - 1 = j - 1
      BY <2>2, <3>1 DEF PoolInv, Apart
    <3> QED BY <2>2, <3>1, <3>2, <3>3
  <2>3. ASSUME NEW i \in 1..(n - 1), NEW j \in 1..Len(avail') PROVE list'[i] # avail'[j]
    <3>1. PICK m \in 1..n : m # k /\ list'[i] = list[m]
      BY <1>17
    <3>2. list[m] # si
      BY <1>1, <1>3, <1>5, <3>1
    <3>3. avail'[j] = si \/ (j - 1 \in 1..Len(avail) /\ avail'[j] = avail[j - 1])
      BY <1>7
    <3> QED BY <1>13, <3>1, <3>2, <3>3
  <2> QED BY <1>4, <2>1, <2>2, <2>3 DEF Apart
<1>19. Complete'
  <2>1. ASSUME NEW e
        PROVE  (\E i \in 1..n : e = list[i]) <=> (e = si \/ \E j \in 1..(n - 1) : e = list'[j])
    <3>1. ASSUME NEW i \in 1..n, e = list[i] PROVE e = si \/ \E j \in 1..(n - 1) : e = list'[j]
      BY <1>1, <1>16, <3>1
    <3>2. ASSUME NEW j \in 1..(n - 1), e = list'[j] PROVE \E i \in 1..n : e = list[i]
      BY <1>17, <3>2
    <3>3. si = list[k] /\ k \in 1..n
      BY <1>1, <1>3
    <3> HIDE DEF n, si
    <3> QED BY ONLY <3>1, <3>2, <3>3
  <2>2. ASSUME NEW e
        PROVE  (\E j \in 1..(Len(avail) + 1) : e = avail'[j])
                  <=> (e = si \/ \E j \in 1..Len(avail) : e = avail[j])
    <3>1. \A j \in 1..Len(avail) : j + 1 \in 1..(Len(avail) + 1) /\ avail'[j + 1] = avail[j]
      BY <1>7
    <3>2. \A j \in 1..(Len(avail) + 1) :
            avail'[j] = si \/ (j - 1 \in 1..Len(avail) /\ avail'[j] = avail[j - 1])
      BY <1>7
    <3>3. 1 \in 1..(Len(avail) + 1) /\ avail'[1] = si
      BY <1>7
    <3> QED BY <3>1, <3>2, <3>3
  <2>3. Pooled' = Pooled
    BY <1>2 DEF Pooled
  <2>4. \A e : e \in Pooled <=> \/ \E i \in 1..n : e = list[i]
                                \/ \E i \in 1..Len(avail) : e = avail[i]
    BY DEF PoolInv, Complete
  <2>5. 1..Len(list') = 1..(n - 1) /\ 1..Len(avail') = 1..(Len(avail) + 1)
    BY <1>4, <1>7
  <2>6. ASSUME NEW e
        PROVE  e \in Pooled' <=> \/ \E j \in 1..(n - 1) : e = list'[j]
                                 \/ \E j \in 1..(Len(avail) + 1) : e = avail'[j]
    <3> HIDE DEF n, si
    <3>1. e \in Pooled <=> \/ e = si \/ \E j \in 1..(n - 1) : e = list'[j]
                           \/ \E i \in 1..Len(avail) : e = avail[i]
      BY <2>1, <2>4
    <3> QED BY <2>2, <2>3, <3>1
  <2> QED BY <2>5, <2>6 DEF Complete
<1>20. FreeInv'
  BY <1>2 DEF FreeInv
<1>21. WalkInv'
  <2>1. ASSUME NEW e \in stayed' PROVE \E i \in 1..Len(list') : e = list'[i]
    <3>1. PICK i \in 1..n : e = list[i]
      BY <1>2, <2>1 DEF PoolInv, WalkInv
    <3>2. i # k
      BY <1>1, <1>2, <2>1, <3>1
    <3> QED BY <1>4, <1>16, <3>1, <3>2
  <2>2. ASSUME iter # Null
        PROVE  \E m \in 1..Len(list') :
                 iter = list'[m] /\ \A j \in 1..m : list'[j] \in stayed' => list'[j] \in visited
    <3>1. PICK m \in 1..n : iter = list[m] /\ \A j \in 1..m : list[j] \in stayed => list[j] \in visited
      BY <2>2 DEF PoolInv, WalkInv
    <3>2. m # k
      BY <1>1, <3>1
    <3> DEFINE q == IF m < k THEN m ELSE m - 1
    <3>3. q \in 1..(n - 1) /\ list'[q] = list[m]
      BY <1>16, <3>2
    <3>4. ASSUME NEW j \in 1..q, list'[j] \in stayed' PROVE list'[j] \in visited
      <4>1. j \in 1..(n - 1)
        BY <1>3, <3>3
      <4>2. (IF j < k THEN j ELSE j + 1) \in 1..m /\ list'[j] = list[IF j < k THEN j ELSE j + 1]
        BY <1>3, <1>4, <3>2, <4>1
      <4> QED BY <1>2, <3>1, <3>4, <4>2
    <3> QED BY <1>4, <3>1, <3>3, <3>4
  <2> QED BY <1>2, <2>1, <2>2 DEF PoolInv, WalkInv
<1> QED BY <1>9, <1>15, <1>18, <1>19, <1>20, <1>21 DEF PoolInv

\* A walk of dl_iterate_phdr, which changes neither list.
LEMMA IterateInv ==
  ASSUME PoolInv, WalkStart \/ WalkNext \/ WalkStop
  PROVE  PoolInv'
<1>1. /\ UNCHANGED <<next, pools, gSoInfoFreeList, sonext, list, avail>>
      /\ freeing' = Null
  BY DEF WalkStart, WalkNext, WalkStop
<1>2. freeing' \in Pointers /\ FreeInv'
  BY <1>1 DEF Pointers, FreeInv
<1>3. CASE WalkStart
  <2>1. iter' = libdl_info /\ visited' = {libdl_info} /\ stayed' = Range(list)
    BY <1>3 DEF WalkStart
  <2>2. 1 \in 1..Len(list) /\ list[1] = libdl_info /\ DOMAIN list = 1..Len(list)
    BY ListLength, LenProperties DEF PoolInv, TypeInv
  <2>3. \A e \in stayed' : \E i \in 1..Len(list) : e = list[i]
    BY <2>1, <2>2 DEF Range
  <2>4. \A j \in 1..1 : list[j] \in visited'
    BY <2>1, <2>2
  <2>5. libdl_info # Null
    BY NullAssumption DEF libdl_info
  <2>6. WalkInv'
    BY <1>1, <2>1, <2>2, <2>3, <2>4, <2>5 DEF WalkInv
  <2> QED BY <1>1, <1>2, <2>6, SameLists
<1>4. CASE WalkNext
  <2>1. /\ iter # Null /\ iter' = next[iter] /\ stayed' = stayed
        /\ visited' = visited \cup ({next[iter]} \ {Null})
    BY <1>4 DEF WalkNext
  <2>2. PICK k \in 1..Len(list) :
          iter = list[k] /\ \A j \in 1..k : list[j] \in stayed => list[j] \in visited
    BY <2>1 DEF PoolInv, WalkInv
  <2>3. next[iter] = IF k = Len(list) THEN Null ELSE list[k + 1]
    BY <2>2, Lists DEF PoolInv, ChainIn
  <2>4. \A e \in stayed : \E i \in 1..Len(list) : e = list[i]
    BY DEF PoolInv, WalkInv
  <2>5. Len(list) \in Nat /\ \A i \in 1..Len(list) : list[i] # Null
    BY ListLength, NullIsNoEntry DEF PoolInv
  <2>6. CASE k = Len(list)
    <3>1. \A e \in stayed : e \in visited
      BY <2>2, <2>4, <2>6
    <3> QED BY <1>1, <1>2, <2>1, <2>3, <2>4, <2>6, <3>1, SameLists DEF WalkInv
  <2>7. CASE k # Len(list)
    <3>1. k + 1 \in 1..Len(list) /\ \A j \in 1..(k + 1) : j \in 1..k \/ j = k + 1
      BY <2>5, <2>7
    <3>2. iter' = list[k + 1] /\ list[k + 1] \in visited' /\ list[k + 1] # Null
      BY <2>1, <2>3, <2>5, <2>7, <3>1
    <3>3. \A j \in 1..(k + 1) : list[j] \in stayed => list[j] \in visited'
      BY <2>1, <2>2, <3>1, <3>2
    <3> QED BY <1>1, <1>2, <2>1, <2>4, <3>1, <3>2, <3>3, SameLists DEF WalkInv
  <2> QED BY <2>6, <2>7
<1>5. CASE WalkStop
  BY <1>1, <1>2, <1>5, SameLists DEF WalkStop, WalkInv
<1> QED BY <1>3, <1>4, <1>5

-----------------------------------------------------------------------------
(* The theorems.                                                           *)

\* At startup solist holds libdl_info alone.
LEMMA InitInv == Init => PoolInv
<1> SUFFICES ASSUME Init PROVE PoolInv
  OBVIOUS
<1> USE DEF Init
<1>1. 0 \in AllEntries /\ libdl_info = 0
  BY PoolAssumption DEF AllEntries, libdl_info
<1>2. list \in Seq(AllEntries) /\ Len(list) = 1 /\ list[1] = libdl_info
  BY <1>1
<1>3. avail \in Seq(AllEntries) /\ Len(avail) = 0
  BY EmptySeq
<1>4. list # <<>>
  BY <1>2, EmptySeq
<1>5. TypeInv
  BY <1>1, <1>2, <1>3, <1>4, PoolAssumption DEF TypeInv, Pointers
<1>6. ListsChained
  <2>1. next[libdl_info] = Null
    BY <1>1
  <2>2. ChainIn(next, libdl_info, list) /\ ChainIn(next, gSoInfoFreeList, avail)
    BY <1>2, <1>3, <2>1 DEF ChainIn
  <2> QED BY <1>2, <1>5, <2>2, Lists
<1>7. Apart
  BY <1>2, <1>3 DEF Apart
<1>8. Complete
  <2>1. Pooled = {libdl_info}
    BY DEF Pooled
  <2> QED BY <1>2, <1>3, <2>1 DEF Complete
<1>9. FreeInv /\ WalkInv
  BY DEF FreeInv, WalkInv
<1> QED BY <1>5, <1>6, <1>7, <1>8, <1>9 DEF PoolInv

\* Nothing changes.
LEMMA StutterInv == PoolInv /\ UNCHANGED vars => PoolInv'
<1> SUFFICES ASSUME PoolInv, UNCHANGED vars PROVE PoolInv'
  OBVIOUS
<1>1. FreeInv' /\ WalkInv' /\ freeing' \in Pointers
  BY DEF vars, PoolInv, TypeInv, FreeInv, WalkInv
<1> QED BY <1>1, SameLists DEF vars

\* However libraries come and go, during walks of solist too, the two lists stay
\* disjoint, complete and in order.
THEOREM PoolInvariant == Spec => []PoolInv
<1>1. Init => PoolInv
  BY InitInv
<1>2. PoolInv /\ [Next]_vars => PoolInv'
  <2> SUFFICES ASSUME PoolInv, [Next]_vars PROVE PoolInv'
    OBVIOUS
  <2>1. CASE Next
    BY <2>1, AllocReusedInv, AllocNewPoolInv, FreeWalkInv, FreeFoundInv, IterateInv DEF Next
  <2>2. CASE UNCHANGED vars
    BY <2>2, StutterInv
  <2> QED BY <2>1, <2>2
<1> QED BY <1>1, <1>2, PTL DEF Spec

\* solist lists the loaded libraries in load order, sonext is its last entry, and
\* the free list the free entries (see ListsChained).
THEOREM ListsInOrder == Spec => []ListsChained
<1>1. PoolInv => ListsChained
  BY DEF PoolInv
<1> QED BY <1>1, PoolInvariant, PTL

\* No entry of a pool is lost, none is both free and a library's (see Partitioned).
THEOREM EntriesPartitioned == Spec => []Partitioned
<1>1. PoolInv => Partitioned
  <2> SUFFICES ASSUME PoolInv PROVE Partitioned
    OBVIOUS
  <2> DEFINE all == list \o avail
             n == Len(list)
             m == Len(avail)
  <2>1. list \in Seq(AllEntries) /\ avail \in Seq(AllEntries)
    BY DEF PoolInv, TypeInv
  <2>2. n \in Nat /\ m \in Nat
    BY <2>1, LenProperties
  <2>3. /\ all \in Seq(AllEntries) /\ Len(all) = n + m
        /\ \A i \in 1..(n + m) : all[i] = IF i <= n THEN list[i] ELSE avail[i - n]
    BY ONLY <2>1, ConcatProperties
  <2>4. DOMAIN all = 1..(n + m)
    BY ONLY <2>3, LenProperties
  <2>5. /\ \A i, j \in 1..n : list[i] = list[j] => i = j
        /\ \A i, j \in 1..m : avail[i] = avail[j] => i = j
        /\ \A i \in 1..n, j \in 1..m : list[i] # avail[j]
    BY DEF PoolInv, Apart
  <2>6. \A e : e \in Pooled <=> \/ \E i \in 1..n : e = list[i]
                                \/ \E i \in 1..m : e = avail[i]
    BY DEF PoolInv, Complete
  <2> HIDE DEF all, n, m
  <2>7. ASSUME NEW i \in 1..(n + m)
        PROVE  \/ i \in 1..n /\ all[i] = list[i]
               \/ i - n \in 1..m /\ all[i] = avail[i - n]
    BY ONLY <2>2, <2>3, <2>7
  <2>8. ASSUME NEW i \in 1..(n + m), NEW j \in 1..(n + m), all[i] = all[j] PROVE i = j
    <3>1. \/ i \in 1..n /\ j \in 1..n /\ i = j
          \/ i - n \in 1..m /\ j - n \in 1..m /\ i - n = j - n
      BY ONLY <2>5, <2>7, <2>8
    <3> QED BY ONLY <2>2, <3>1, i \in 1..(n + m), j \in 1..(n + m)
  <2>9. ASSUME NEW e PROVE e \in Pooled <=> \E i \in 1..(n + m) : e = all[i]
    <3>1. ASSUME NEW i \in 1..n, e = list[i] PROVE \E q \in 1..(n + m) : e = all[q]
      <4>1. i \in 1..(n + m) /\ i <= n
        BY ONLY <2>2, i \in 1..n
      <4> QED BY ONLY <2>3, <3>1, <4>1
    <3>2. ASSUME NEW i \in 1..m, e = avail[i] PROVE \E q \in 1..(n + m) : e = all[q]
      <4>1. n + i \in 1..(n + m) /\ ~(n + i <= n) /\ (n + i) - n = i
        BY ONLY <2>2, i \in 1..m
      <4> QED BY ONLY <2>3, <3>2, <4>1
    <3> QED BY ONLY <2>6, <2>7, <3>1, <3>2
  <2>10. IsInjective(all) /\ Range(all) = Pooled
    BY <2>4, <2>8, <2>9 DEF IsInjective, Range
  <2> QED BY <2>10 DEF Partitioned, Pooled, all
<1> QED BY <1>1, PoolInvariant, PTL

\* prev is never NULL where soinfo_free writes through it (see PrevPrecedes).
THEOREM PrevNeverNull == Spec => []PrevPrecedes
<1>1. PoolInv => PrevPrecedes
  <2> SUFFICES ASSUME PoolInv, freeing # Null, trav # Null, trav # libdl_info
               PROVE  prev # Null /\ next[prev] = trav
    BY DEF PrevPrecedes
  <2>1. PICK k \in 1..Len(list) : trav = list[k] /\ prev = IF k = 1 THEN Null ELSE list[k - 1]
    BY DEF PoolInv, FreeInv
  <2>2. k # 1
    BY <2>1 DEF PoolInv, TypeInv
  <2>3. k - 1 \in 1..Len(list) /\ k - 1 # Len(list) /\ (k - 1) + 1 = k
    BY <2>2, ListLength DEF PoolInv
  <2>4. prev = list[k - 1] /\ list[k - 1] # Null
    BY <2>1, <2>2, <2>3, ListLength, NullIsNoEntry DEF PoolInv
  <2>5. next[list[k - 1]] = list[k]
    BY <2>3, Lists DEF PoolInv, ChainIn
  <2> QED BY <2>1, <2>4, <2>5
<1> QED BY <1>1, PoolInvariant, PTL

\* dl_iterate_phdr stays on solist and visits every library that stays listed (see
\* WalkComplete).
THEOREM WalkVisitsAll == Spec => []WalkComplete
<1>1. PoolInv => WalkComplete
  <2> SUFFICES ASSUME PoolInv PROVE WalkComplete
    OBVIOUS
  <2>1. DOMAIN list = 1..Len(list)
    BY LenProperties DEF PoolInv, TypeInv
  <2> QED BY <2>1 DEF PoolInv, WalkInv, WalkComplete, Range
<1> QED BY <1>1, PoolInvariant, PTL

=============================================================================
