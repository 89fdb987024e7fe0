--------------------------- MODULE ElfImageProofs ---------------------------
(***************************************************************************)
(* The invariants of ElfImage, for every well-formed file, page size and   *)
(* address space.  In memory a segment is a range of pages inside the      *)
(* reservation, whatever the load bias; a step that maps, reads, clears or *)
(* protects one is then about that range only.  After the arithmetic of    *)
(* pages come the image in memory, the invariant, one lemma for each       *)
(* action, and the theorems.                                               *)
(***************************************************************************)
EXTENDS ElfImage, SequenceTheorems, WellFoundedInduction, TLAPS

-----------------------------------------------------------------------------
(* Pages.                                                                  *)

\* The quotient and the remainder of a division ...
LEMMA Division ==
  ASSUME NEW P \in Nat \ {0}, NEW a \in Nat
  PROVE  a = (a \div P) * P + (a % P) /\ a \div P \in Nat /\ a % P \in 0..(P - 1)
OBVIOUS

\* ... are the only numbers of that kind.
LEMMA DivisionUnique ==
  ASSUME NEW P \in Nat \ {0}, NEW a \in Nat, NEW q \in Nat, NEW r \in 0..(P - 1), a = q * P + r
  PROVE  a \div P = q /\ a % P = r
OBVIOUS

\* An address is below the next multiple of the divisor, and so are those of its page.
LEMMA SamePage ==
  ASSUME NEW P \in Nat \ {0}, NEW a \in Nat, NEW q \in Nat
  PROVE  a \div P >= q <=> a >= q * P
<1> DEFINE d == a \div P
           r == a % P
<1>1. a = d * P + r /\ d \in Nat /\ r \in 0..(P - 1)
  BY Division
<1> HIDE DEF d, r
<1>2. CASE d >= q
  <2>1. PICK k \in Nat : d = q + k
    <3>1. d - q \in Nat /\ d = q + (d - q)
      BY <1>1, <1>2
    <3> QED BY <3>1
  <2>2. d * P = q * P + k * P /\ q * P \in Nat /\ k * P \in Nat
    BY <2>1
  <2> QED BY <1>1, <1>2, <2>2 DEF d
<1>3. CASE d < q
  <2>1. PICK k \in Nat : q = d + 1 + k
    <3>1. q - d - 1 \in Nat /\ q = d + 1 + (q - d - 1)
      BY <1>1, <1>3
    <3> QED BY <3>1
  <2>2. q * P = d * P + P + k * P /\ d * P \in Nat /\ k * P \in Nat
    BY <1>1, <2>1
  <2> QED BY <1>1, <1>3, <2>2 DEF d
<1> QED BY <1>1, <1>2, <1>3

\* Page numbers ascend with the addresses.
LEMMA PagesAscend ==
  ASSUME NEW P \in Nat \ {0}, NEW a \in Nat, NEW b \in Nat, a <= b
  PROVE  a \div P <= b \div P
<1>1. a = (a \div P) * P + (a % P) /\ a \div P \in Nat /\ a % P \in 0..(P - 1) /\ b \div P \in Nat
  BY Division
<1>2. (a \div P) * P \in Nat
  BY <1>1
<1>3. b >= (a \div P) * P
  BY <1>1, <1>2
<1> QED BY <1>1, <1>3, SamePage

\* Whole pages more change the page only.
LEMMA Shift ==
  ASSUME NEW P \in Nat \ {0}, NEW a \in Nat, NEW k \in Nat
  PROVE  (k * P + a) \div P = k + (a \div P) /\ (k * P + a) % P = a % P
<1> DEFINE d == a \div P
           r == a % P
<1>1. a = d * P + r /\ d \in Nat /\ r \in 0..(P - 1)
  BY Division
<1> HIDE DEF d, r
<1>2. k * P + a = (k + d) * P + r /\ k + d \in Nat /\ k * P + a \in Nat
  BY <1>1
<1>3. (k * P + a) \div P = k + d /\ (k * P + a) % P = r
  BY ONLY <1>1, <1>2, P \in Nat \ {0}, DivisionUnique
<1> QED BY <1>3 DEF d, r

\* The roundings of an address to its page's start and to the next one.
LEMMA Rounded ==
  ASSUME NEW x \in Nat
  PROVE  /\ PageSize \in Nat \ {0}
         /\ PAGE_OFFSET(x) \in 0..(PageSize - 1)
         /\ PAGE_START(x) \in Nat /\ PAGE_START(x) <= x /\ x < PAGE_START(x) + PageSize
         /\ PAGE_START(x) = (x \div PageSize) * PageSize
         /\ PAGE_START(x) \div PageSize = x \div PageSize
         /\ PAGE_OFFSET(PAGE_START(x)) = 0
         /\ x \div PageSize \in Nat
<1> DEFINE q == x \div PageSize
           r == x % PageSize
<1>0. PageSize \in Nat \ {0}
  BY SizeAssumption
<1>1. x = q * PageSize + r /\ q \in Nat /\ r \in 0..(PageSize - 1)
  BY <1>0, Division
<1> HIDE DEF q, r
<1>2. q * PageSize \in Nat
  BY <1>0, <1>1
<1>3. x - r = q * PageSize
  BY <1>1, <1>2
<1>4. (q * PageSize) \div PageSize = q /\ (q * PageSize) % PageSize = 0
  <2>1. q * PageSize = q * PageSize + 0 /\ 0 \in 0..(PageSize - 1)
    BY <1>0, <1>2
  <2> QED BY ONLY <1>0, <1>1, <1>2, <2>1, DivisionUnique
<1>5. r \in Nat /\ r <= x /\ r < PageSize
  BY <1>0, <1>1, <1>2
<1>6. PAGE_START(x) = q * PageSize /\ PAGE_OFFSET(x) = r
  BY <1>3 DEF PAGE_START, PAGE_OFFSET, r
<1>7. q * PageSize <= x /\ x < q * PageSize + PageSize
  BY ONLY <1>0, <1>1, <1>2, <1>5
<1> QED BY <1>0, <1>1, <1>2, <1>4, <1>6, <1>7 DEF q, PAGE_OFFSET

\* What PAGE_END gives.
LEMMA RoundedUp ==
  ASSUME NEW x \in Nat
  PROVE  /\ PAGE_END(x) \in Nat /\ x <= PAGE_END(x) /\ PAGE_END(x) < x + PageSize
         /\ PAGE_OFFSET(PAGE_END(x)) = 0
         /\ PAGE_END(x) = (PAGE_END(x) \div PageSize) * PageSize
         /\ PAGE_OFFSET(x) = 0 => PAGE_END(x) = x
         /\ PAGE_OFFSET(x) > 0 => PAGE_END(x) = PAGE_START(x) + PageSize
         /\ x > 0 => PAGE_END(x) \div PageSize = (x - 1) \div PageSize + 1
<1> DEFINE y == x + PageSize - 1
<1>0. PageSize \in Nat \ {0} /\ y \in Nat
  BY SizeAssumption
<1>1. PAGE_END(x) = PAGE_START(y)
  BY DEF PAGE_END
<1>2. /\ PAGE_START(y) \in Nat /\ PAGE_START(y) <= y /\ y < PAGE_START(y) + PageSize
      /\ PAGE_START(y) = (y \div PageSize) * PageSize
      /\ PAGE_START(y) \div PageSize = y \div PageSize
      /\ PAGE_OFFSET(PAGE_START(y)) = 0
  BY <1>0, Rounded
<1>3. x > 0 => y \div PageSize = (x - 1) \div PageSize + 1
  <2>1. SUFFICES ASSUME x > 0 PROVE y \div PageSize = (x - 1) \div PageSize + 1
    OBVIOUS
  <2>2. y = 1 * PageSize + (x - 1) /\ x - 1 \in Nat
    BY <1>0, <2>1
  <2>3. y \div PageSize = 1 + ((x - 1) \div PageSize)
    BY ONLY <1>0, <2>2, 1 \in Nat, Shift
  <2>4. (x - 1) \div PageSize \in Nat
    BY ONLY <1>0, <2>2, Division
  <2> QED BY ONLY <2>3, <2>4
<1>4. PAGE_OFFSET(x) \in 0..(PageSize - 1) /\ PAGE_START(x) \in Nat /\ x = PAGE_START(x) + PAGE_OFFSET(x)
  <2>1. PAGE_START(x) = x - PAGE_OFFSET(x)
    BY DEF PAGE_START, PAGE_OFFSET
  <2>2. PAGE_OFFSET(x) \in 0..(PageSize - 1) /\ PAGE_START(x) \in Nat
    BY Rounded
  <2> QED BY ONLY <2>1, <2>2, <1>0, x \in Nat
<1>5. PAGE_START(x) = (x \div PageSize) * PageSize /\ x \div PageSize \in Nat
  BY Rounded
<1>6. PAGE_OFFSET(x) = 0 => PAGE_START(y) = x
  <2>1. SUFFICES ASSUME PAGE_OFFSET(x) = 0 PROVE PAGE_START(y) = x
    OBVIOUS
  <2>2. y = (x \div PageSize) * PageSize + (PageSize - 1) /\ PageSize - 1 \in 0..(PageSize - 1)
    BY ONLY <2>1, <1>0, <1>4, <1>5
  <2>3. y \div PageSize = x \div PageSize
    BY ONLY <2>2, <1>0, <1>5, DivisionUnique
  <2> QED BY ONLY <2>1, <2>3, <1>2, <1>4, <1>5
<1>7. PAGE_OFFSET(x) > 0 => PAGE_START(y) = PAGE_START(x) + PageSize
  <2>1. SUFFICES ASSUME PAGE_OFFSET(x) > 0 PROVE PAGE_START(y) = PAGE_START(x) + PageSize
    OBVIOUS
  <2> DEFINE q == x \div PageSize
             r == PAGE_OFFSET(x)
  <2>2. x = q * PageSize + r /\ q \in Nat /\ r \in 0..(PageSize - 1) /\ r > 0
    BY <2>1, <1>4, <1>5
  <2> HIDE DEF q, r
  <2>3. y = (q + 1) * PageSize + (r - 1) /\ r - 1 \in 0..(PageSize - 1) /\ q + 1 \in Nat
    BY ONLY <2>2, <1>0
  <2>4. y \div PageSize = q + 1
    <3> HIDE DEF y
    <3> QED BY ONLY <2>3, <1>0, DivisionUnique
  <2>5. (q + 1) * PageSize = q * PageSize + PageSize
    BY ONLY <2>2, <1>0
  <2> QED BY <2>4, <2>5, <1>2, <1>5 DEF q
<1> HIDE DEF y
<1>8. y = x + PageSize - 1
  BY DEF y
<1> QED BY <1>0, <1>1, <1>2, <1>3, <1>6, <1>7, <1>8

-----------------------------------------------------------------------------
(* The image in memory.                                                    *)

\* The reservation is made: at a page, for an image with segments.
Placed ==
  /\ image \in Images /\ image.load # <<>>
  /\ load_start \in Nat /\ PAGE_OFFSET(load_start) = 0
  /\ load_start + load_size <= Word

\* The tables of a file are sequences of entries.
LEMMA Tables ==
  ASSUME image \in Images
  PROVE  /\ WellFormed(image)
         /\ Len(image.load) \in Nat /\ DOMAIN image.load = 1..Len(image.load)
         /\ \A k \in 1..Len(image.load) :
              /\ image.load[k] \in Segment
              /\ image.load[k].vaddr \in Nat /\ image.load[k].offset \in Nat
              /\ image.load[k].filesz \in Nat /\ image.load[k].memsz \in Nat
              /\ image.load[k].flags \in Prot
         /\ \A r \in DOMAIN image.relro :
              image.relro[r].vaddr \in Nat /\ image.relro[r].memsz \in Nat
         /\ image.phdr \in Nat \cup {None} /\ image.phoff \in Nat /\ image.phlen \in Nat
         /\ image.textrel \in BOOLEAN
<1>1. image \in Image /\ WellFormed(image)
  BY ImagesAssumption
<1>2. /\ image.load \in Seq(Segment) /\ image.relro \in Seq([vaddr : Nat, memsz : Nat])
      /\ image.phdr \in Nat \cup {None} /\ image.phoff \in Nat /\ image.phlen \in Nat
      /\ image.textrel \in BOOLEAN
  BY <1>1 DEF Image
<1>3. Len(image.load) \in Nat /\ DOMAIN image.load = 1..Len(image.load)
  BY <1>2, LenProperties
<1>4. \A k \in 1..Len(image.load) : image.load[k] \in Segment
  BY <1>2, <1>3, ElementOfSeq
<1>5. \A r \in DOMAIN image.relro : image.relro[r] \in [vaddr : Nat, memsz : Nat]
  BY <1>2, LenProperties, ElementOfSeq
<1>6. \A s \in Segment : /\ s.vaddr \in Nat /\ s.offset \in Nat /\ s.filesz \in Nat
                         /\ s.memsz \in Nat /\ s.flags \in Prot
  BY DEF Segment
<1> QED BY <1>1, <1>2, <1>3, <1>4, <1>5, <1>6

\* The image goes from the page of the first segment to that of the last one's end.
LEMMA Span ==
  ASSUME image \in Images, image.load # <<>>
  PROVE  /\ Len(image.load) >= 1
         /\ MinVaddr = PAGE_START(image.load[1].vaddr)
         /\ MinVaddr \in Nat /\ MaxVaddr \in Nat
         /\ PAGE_OFFSET(MinVaddr) = 0 /\ PAGE_OFFSET(MaxVaddr) = 0
         /\ \A k \in 1..Len(image.load) :
              /\ MinVaddr <= image.load[k].vaddr
              /\ image.load[k].vaddr + image.load[k].memsz <= MaxVaddr
         /\ load_size = MaxVaddr - MinVaddr /\ load_size \in Nat /\ load_size > 0
<1> DEFINE n      == Len(image.load)
           start(k) == image.load[k].vaddr
           end(k)   == image.load[k].vaddr + image.load[k].memsz
<1>1. /\ n \in Nat /\ DOMAIN image.load = 1..n
      /\ \A k \in 1..n : start(k) \in Nat /\ image.load[k].memsz \in Nat
      /\ WellFormed(image)
  BY Tables
<1>2. n >= 1
  <2>1. image.load \in Seq(Segment)
    BY ImagesAssumption DEF Image
  <2>2. n # 0
    BY <2>1, EmptySeq
  <2> QED BY <1>1, <2>2
<1>3. /\ \A k \in 1..n : end(k) \in Nat /\ start(k) < end(k)
      /\ \A j, k \in 1..n : j < k => end(j) <= start(k)
  <2>1. \A k \in 1..n : image.load[k].memsz > 0
    BY <1>1 DEF WellFormed
  <2>2. \A j, k \in 1..n : j < k => end(j) <= start(k)
    BY <1>1 DEF WellFormed
  <2> QED BY <1>1, <2>1, <2>2
<1> HIDE DEF n
<1>4. \A k \in 1..n : start(1) <= start(k) /\ end(k) <= end(n)
  <2> HIDE DEF start, end
  <2>1. TAKE k \in 1..n
  <2>2. 1 \in 1..n /\ n \in 1..n
    BY <1>1, <1>2
  <2>3. start(k) \in Nat /\ end(k) \in Nat /\ start(n) \in Nat /\ start(1) \in Nat /\ end(1) \in Nat
    BY <1>1, <1>3, <2>2 DEF start
  <2>4. k = 1 \/ 1 < k
    BY <1>1
  <2>5. k = n \/ k < n
    BY <1>1
  <2>6. start(1) <= start(k)
    BY <1>3, <2>2, <2>3, <2>4
  <2>7. end(k) <= end(n)
    BY <1>3, <2>2, <2>3, <2>5
  <2> QED BY <2>6, <2>7
<1>5. 1 \in 1..n /\ n \in 1..n
  BY <1>1, <1>2
<1>6. (CHOOSE v \in {start(k) : k \in 1..n} : \A k \in 1..n : v <= start(k)) = start(1)
  <2> HIDE DEF start, end
  <2>1. \A v \in {start(k) : k \in 1..n} : (\A k \in 1..n : v <= start(k)) => v = start(1)
    BY <1>1, <1>4, <1>5 DEF start
  <2>2. start(1) \in {start(k) : k \in 1..n} /\ \A k \in 1..n : start(1) <= start(k)
    BY <1>4, <1>5
  <2> QED BY <2>1, <2>2
<1>7. (CHOOSE v \in {end(k) : k \in 1..n} : \A k \in 1..n : end(k) <= v) = end(n)
  <2> HIDE DEF start, end
  <2>1. \A v \in {end(k) : k \in 1..n} : (\A k \in 1..n : end(k) <= v) => v = end(n)
    BY <1>3, <1>4, <1>5
  <2>2. end(n) \in {end(k) : k \in 1..n} /\ \A k \in 1..n : end(k) <= end(n)
    BY <1>4, <1>5
  <2> QED BY <2>1, <2>2
<1>8. MinVaddr = PAGE_START(start(1)) /\ MaxVaddr = PAGE_END(end(n))
  BY <1>1, <1>6, <1>7 DEF MinVaddr, MaxVaddr, n
<1>9. /\ start(1) \in Nat /\ end(n) \in Nat /\ start(1) < end(n)
      /\ \A k \in 1..n : start(k) \in Nat /\ end(k) \in Nat
  <2> HIDE DEF start, end
  <2>1. /\ start(1) \in Nat /\ end(n) \in Nat /\ end(1) \in Nat /\ start(1) < end(1) /\ end(1) <= end(n)
    BY <1>1, <1>3, <1>4, <1>5 DEF start
  <2> QED BY <2>1, <1>1, <1>3 DEF start
<1>10. /\ PAGE_START(start(1)) \in Nat /\ PAGE_START(start(1)) <= start(1)
       /\ PAGE_OFFSET(PAGE_START(start(1))) = 0
  BY <1>9, Rounded
<1>11. PAGE_END(end(n)) \in Nat /\ end(n) <= PAGE_END(end(n)) /\ PAGE_OFFSET(PAGE_END(end(n))) = 0
  BY <1>9, RoundedUp
<1>12. load_size = MaxVaddr - MinVaddr
  BY DEF load_size
<1>13. \A k \in 1..n : MinVaddr <= start(k) /\ end(k) <= MaxVaddr
  <2> HIDE DEF start, end
  <2> QED BY <1>4, <1>8, <1>9, <1>10, <1>11
<1>14. load_size \in Nat /\ load_size > 0 /\ MinVaddr \in Nat /\ MaxVaddr \in Nat
  <2> HIDE DEF start, end
  <2> QED BY <1>8, <1>9, <1>10, <1>11, <1>12
<1> QED BY <1>2, <1>8, <1>10, <1>11, <1>12, <1>13, <1>14 DEF n

\* Touched, for addresses that are in order.
LEMMA TouchedIs ==
  ASSUME NEW a \in Nat, NEW b \in Nat, a < b
  PROVE  Touched(a, b) = (a \div PageSize)..((b - 1) \div PageSize)
<1>1. ~ (a >= b)
  OBVIOUS
<1> QED BY ONLY <1>1 DEF Touched

\* The reservation's pages.
LEMMA ReservationIs ==
  ASSUME load_start \in Nat, load_size \in Nat, load_size > 0
  PROVE  Reservation = (load_start \div PageSize)..((load_start + load_size - 1) \div PageSize)
<1>1. load_start + load_size \in Nat /\ load_start < load_start + load_size
  OBVIOUS
<1>2. Reservation = Touched(load_start, load_start + load_size)
  BY DEF Reservation
<1>3. Touched(load_start, load_start + load_size)
        = (load_start \div PageSize)..((load_start + load_size - 1) \div PageSize)
  BY <1>1, TouchedIs
<1> QED BY ONLY <1>2, <1>3

\* An address of the file has the same place of a page in memory.
LEMMA Place ==
  ASSUME Placed, NEW v \in Nat, MinVaddr <= v, v < MaxVaddr
  PROVE  /\ Biased(v) \in Nat
         /\ Biased(v) = load_start + (v - MinVaddr)
         /\ load_start <= Biased(v) /\ Biased(v) < load_start + load_size
         /\ PAGE_OFFSET(Biased(v)) = PAGE_OFFSET(v)
<1>1. /\ MinVaddr \in Nat /\ MaxVaddr \in Nat /\ PAGE_OFFSET(MinVaddr) = 0
      /\ load_size = MaxVaddr - MinVaddr
  BY Span DEF Placed
<1>2. load_start \in Nat /\ PAGE_OFFSET(load_start) = 0 /\ load_start + load_size <= Word
  BY DEF Placed
<1>3. Word \in Nat \ {0} /\ PageSize \in Nat \ {0}
  <2>1. PageSize \in Nat \ {0} /\ Pages \in Nat \ {0}
    BY SizeAssumption
  <2>2. PageSize * Pages \in Nat
    BY <2>1
  <2>3. Word \in Nat
    BY <2>2 DEF Word
  <2>4. load_size > 0
    BY Span DEF Placed
  <2> QED BY ONLY <2>1, <2>3, <2>4, <1>1, <1>2
<1> DEFINE u == v - MinVaddr
           b == load_start + u
<1>4. u \in Nat /\ v = MinVaddr + u /\ b \in Nat /\ b < load_start + load_size /\ load_start <= b
  BY <1>1, <1>2
<1>5. load_start + v + Word - MinVaddr = 1 * Word + b /\ b \in 0..(Word - 1)
  BY ONLY <1>1, <1>2, <1>3, <1>4
<1> HIDE DEF u, b
<1>6. (1 * Word + b) % Word = b
  <2>1. 1 * Word + b \in Nat
    BY ONLY <1>3, <1>4
  <2> QED BY ONLY <1>3, <1>5, <2>1, 1 \in Nat, DivisionUnique
<1>7. Biased(v) = b
  BY ONLY <1>5, <1>6 DEF Biased
<1>8. MinVaddr = (MinVaddr \div PageSize) * PageSize /\ MinVaddr \div PageSize \in Nat
  <2>1. PAGE_START(MinVaddr) = MinVaddr
    BY <1>1 DEF PAGE_START, PAGE_OFFSET
  <2> QED BY <1>1, <2>1, Rounded
<1>9. load_start = (load_start \div PageSize) * PageSize /\ load_start \div PageSize \in Nat
  <2>1. PAGE_START(load_start) = load_start
    BY <1>2 DEF PAGE_START, PAGE_OFFSET
  <2> QED BY <1>2, <2>1, Rounded
<1>10. v % PageSize = u % PageSize
  <2>1. ((MinVaddr \div PageSize) * PageSize + u) % PageSize = u % PageSize
    BY ONLY <1>3, <1>4, <1>8, Shift
  <2> QED BY <2>1, <1>4, <1>8
<1>11. b % PageSize = u % PageSize
  <2>1. ((load_start \div PageSize) * PageSize + u) % PageSize = u % PageSize
    BY ONLY <1>3, <1>4, <1>9, Shift
  <2> QED BY <2>1, <1>9 DEF b
<1> QED BY <1>4, <1>7, <1>10, <1>11 DEF PAGE_OFFSET, b, u

\* Rounding is the same in the file's addresses and in memory.
LEMMA RoundedAlike ==
  ASSUME Placed, NEW v \in Nat, NEW m \in Nat, m > 0, MinVaddr <= v, v + m <= MaxVaddr
  PROVE  /\ Biased(PAGE_START(v)) = PAGE_START(Biased(v))
         /\ Biased(PAGE_START(v)) + PAGE_END(v + m) - PAGE_START(v) = PAGE_END(Biased(v) + m)
         /\ Biased(v) + m <= load_start + load_size
<1>1. /\ MinVaddr \in Nat /\ MaxVaddr \in Nat /\ PAGE_OFFSET(MinVaddr) = 0
      /\ load_size = MaxVaddr - MinVaddr
  BY Span DEF Placed
<1>2. load_start \in Nat /\ PAGE_OFFSET(load_start) = 0
  BY DEF Placed
<1>3. /\ Biased(v) \in Nat /\ Biased(v) = load_start + (v - MinVaddr)
      /\ PAGE_OFFSET(Biased(v)) = PAGE_OFFSET(v)
  BY <1>1, Place
<1>4. PAGE_START(v) \in Nat /\ PAGE_START(v) <= v /\ PAGE_START(v) = v - PAGE_OFFSET(v)
      /\ PAGE_OFFSET(v) \in Nat /\ PAGE_START(v) = (v \div PageSize) * PageSize
      /\ v \div PageSize \in Nat
  BY Rounded, SizeAssumption DEF PAGE_START, PAGE_OFFSET
<1>5. MinVaddr <= PAGE_START(v)
  <2>1. PAGE_START(MinVaddr) = MinVaddr
    BY <1>1 DEF PAGE_START, PAGE_OFFSET
  <2>2. MinVaddr \div PageSize <= v \div PageSize
    BY <1>1, SizeAssumption, PagesAscend
  <2>3. MinVaddr = (MinVaddr \div PageSize) * PageSize /\ MinVaddr \div PageSize \in Nat
    BY <1>1, <2>1, Rounded
  <2>4. (v \div PageSize) * PageSize >= (MinVaddr \div PageSize) * PageSize
    <3>1. PICK k \in Nat : v \div PageSize = (MinVaddr \div PageSize) + k
      <4>1. (v \div PageSize) - (MinVaddr \div PageSize) \in Nat
            /\ v \div PageSize = (MinVaddr \div PageSize) + ((v \div PageSize) - (MinVaddr \div PageSize))
        BY ONLY <2>2, <2>3, <1>4
      <4> QED BY <4>1
    <3> DEFINE q == MinVaddr \div PageSize
    <3>2. q \in Nat
      BY <2>3
    <3> HIDE DEF q
    <3>3. (q + k) * PageSize = q * PageSize + k * PageSize /\ k * PageSize \in Nat /\ q * PageSize \in Nat
      BY <3>2, SizeAssumption
    <3>4. (q + k) * PageSize >= q * PageSize
      BY <3>3
    <3> QED BY <3>1, <3>4 DEF q
  <2> QED BY <2>3, <2>4, <1>4
<1>6. Biased(PAGE_START(v)) = load_start + (PAGE_START(v) - MinVaddr)
  <2>1. PAGE_START(v) < MaxVaddr
    BY <1>1, <1>4
  <2> QED BY <2>1, <1>4, <1>5, Place
<1>7. Biased(PAGE_START(v)) = PAGE_START(Biased(v))
  <2>1. PAGE_START(Biased(v)) = Biased(v) - PAGE_OFFSET(Biased(v))
    BY DEF PAGE_START, PAGE_OFFSET
  <2> QED BY ONLY <2>1, <1>1, <1>2, <1>3, <1>4, <1>5, <1>6
<1> DEFINE x == v + m + PageSize - 1
           y == Biased(v) + m + PageSize - 1
<1>8. x \in Nat /\ y \in Nat /\ x >= MinVaddr /\ y = load_start + (x - MinVaddr) /\ PageSize \in Nat \ {0}
  BY <1>1, <1>2, <1>3, SizeAssumption
<1>9. PAGE_OFFSET(x) = PAGE_OFFSET(y)
  <2> DEFINE u == x - MinVaddr
  <2>1. u \in Nat /\ x = MinVaddr + u /\ y = load_start + u
    BY <1>1, <1>2, <1>8
  <2> HIDE DEF u, x, y
  <2>2. MinVaddr = (MinVaddr \div PageSize) * PageSize /\ MinVaddr \div PageSize \in Nat
    <3>1. PAGE_START(MinVaddr) = MinVaddr
      BY <1>1 DEF PAGE_START, PAGE_OFFSET
    <3> QED BY <1>1, <3>1, Rounded
  <2>3. load_start = (load_start \div PageSize) * PageSize /\ load_start \div PageSize \in Nat
    <3>1. PAGE_START(load_start) = load_start
      BY <1>2 DEF PAGE_START, PAGE_OFFSET
    <3> QED BY <1>2, <3>1, Rounded
  <2>4. ((MinVaddr \div PageSize) * PageSize + u) % PageSize = u % PageSize
    BY ONLY <1>8, <2>1, <2>2, Shift
  <2>5. ((load_start \div PageSize) * PageSize + u) % PageSize = u % PageSize
    BY ONLY <1>8, <2>1, <2>3, Shift
  <2> QED BY <2>1, <2>2, <2>3, <2>4, <2>5 DEF PAGE_OFFSET
<1>10. PAGE_START(x) = x - PAGE_OFFSET(x) /\ PAGE_START(y) = y - PAGE_OFFSET(y)
       /\ PAGE_OFFSET(x) \in Nat /\ PAGE_START(x) \in Nat /\ PAGE_START(y) \in Nat
  <2>1. PAGE_START(x) = x - PAGE_OFFSET(x) /\ PAGE_START(y) = y - PAGE_OFFSET(y)
    BY DEF PAGE_START, PAGE_OFFSET
  <2> HIDE DEF x, y
  <2>2. PAGE_OFFSET(x) \in Nat /\ PAGE_START(x) \in Nat /\ PAGE_START(y) \in Nat
    BY <1>8, Rounded
  <2> QED BY <2>1, <2>2
<1>11. PAGE_END(v + m) = PAGE_START(x) /\ PAGE_END(Biased(v) + m) = PAGE_START(y)
  BY DEF PAGE_END
<1>12. Biased(PAGE_START(v)) + PAGE_END(v + m) - PAGE_START(v) = PAGE_END(Biased(v) + m)
  <2> HIDE DEF x, y
  <2> QED BY ONLY <1>1, <1>2, <1>4, <1>5, <1>6, <1>8, <1>9, <1>10, <1>11
<1> QED BY <1>1, <1>2, <1>3, <1>7, <1>12

\* The pages of a header are those of its bytes in memory, and of the reservation.
LEMMA PagesOf ==
  ASSUME Placed, NEW h, h.vaddr \in Nat, h.memsz \in Nat, h.memsz > 0,
         MinVaddr <= h.vaddr, h.vaddr + h.memsz <= MaxVaddr
  PROVE  /\ HeaderPages(h) = (Biased(h.vaddr) \div PageSize)
                               ..((Biased(h.vaddr) + h.memsz - 1) \div PageSize)
         /\ HeaderPages(h) \subseteq Reservation
         /\ Biased(h.vaddr) \in Nat /\ load_start <= Biased(h.vaddr)
         /\ Biased(h.vaddr) + h.memsz <= load_start + load_size
         /\ PAGE_OFFSET(Biased(h.vaddr)) = PAGE_OFFSET(h.vaddr)
<1> DEFINE B == Biased(h.vaddr)
           m == h.memsz
<1>1. /\ MinVaddr \in Nat /\ MaxVaddr \in Nat /\ load_size \in Nat
      /\ PageSize \in Nat \ {0} /\ m \in Nat /\ m > 0 /\ load_start \in Nat
  BY Span, SizeAssumption DEF Placed
<1>2. h.vaddr < MaxVaddr
  BY <1>1
<1>3. B \in Nat /\ load_start <= B /\ PAGE_OFFSET(B) = PAGE_OFFSET(h.vaddr)
  BY <1>2, Place
<1>4. /\ Biased(PAGE_START(h.vaddr)) = PAGE_START(B)
      /\ Biased(PAGE_START(h.vaddr)) + PAGE_END(h.vaddr + m) - PAGE_START(h.vaddr) = PAGE_END(B + m)
      /\ B + m <= load_start + load_size
  BY RoundedAlike
<1>5. HeaderPages(h) = Touched(PAGE_START(B), PAGE_END(B + m))
  BY <1>4 DEF HeaderPages
<1> HIDE DEF B, m
<1>6. /\ PAGE_START(B) \div PageSize = B \div PageSize /\ PAGE_START(B) \in Nat /\ PAGE_START(B) <= B
  BY <1>3, Rounded
<1>7. /\ PAGE_END(B + m) \in Nat /\ B + m <= PAGE_END(B + m)
      /\ PAGE_END(B + m) \div PageSize = (B + m - 1) \div PageSize + 1
      /\ PAGE_END(B + m) = (PAGE_END(B + m) \div PageSize) * PageSize
  BY <1>1, <1>3, RoundedUp
<1>8. (PAGE_END(B + m) - 1) \div PageSize = (B + m - 1) \div PageSize
  <2> DEFINE q == (B + m - 1) \div PageSize
             e == PAGE_END(B + m)
  <2>1. q \in Nat
    <3>1. B + m - 1 \in Nat
      BY <1>1, <1>3
    <3> QED BY <3>1, <1>1, Division
  <2>2. e = (q + 1) * PageSize /\ e \in Nat /\ e > 0
    BY <1>1, <1>3, <1>7
  <2> HIDE DEF q, e
  <2>3. e - 1 = q * PageSize + (PageSize - 1) /\ PageSize - 1 \in 0..(PageSize - 1) /\ e - 1 \in Nat
    BY <1>1, <2>1, <2>2
  <2>4. (e - 1) \div PageSize = q
    BY ONLY <2>1, <2>3, <1>1, DivisionUnique
  <2> QED BY <2>4 DEF e, q
<1>9. PAGE_START(B) < PAGE_END(B + m)
  BY <1>1, <1>3, <1>6, <1>7
<1>10. HeaderPages(h) = (B \div PageSize)..((B + m - 1) \div PageSize)
  <2>1. ~ (PAGE_START(B) >= PAGE_END(B + m))
    BY <1>6, <1>7, <1>9
  <2> QED BY <2>1, <1>5, <1>6, <1>8 DEF Touched
<1>11. HeaderPages(h) \subseteq Reservation
  <2>1. load_start \div PageSize <= B \div PageSize
    BY <1>1, <1>3, PagesAscend
  <2>2. (B + m - 1) \div PageSize <= (load_start + load_size - 1) \div PageSize
    <3>1. B + m - 1 \in Nat /\ load_start + load_size - 1 \in Nat
          /\ B + m - 1 <= load_start + load_size - 1
      BY <1>1, <1>3, <1>4
    <3> QED BY <3>1, <1>1, PagesAscend
  <2>3. Reservation = (load_start \div PageSize)..((load_start + load_size - 1) \div PageSize)
    BY <1>1, <1>3, <1>4, ReservationIs
  <2>4. /\ load_start \div PageSize \in Nat /\ B \div PageSize \in Nat
        /\ (B + m - 1) \div PageSize \in Nat /\ (load_start + load_size - 1) \div PageSize \in Nat
    <3>1. B + m - 1 \in Nat /\ load_start + load_size - 1 \in Nat
      BY <1>1, <1>3, <1>4
    <3> QED BY <3>1, <1>1, <1>3, Division
  <2> QED BY <1>10, <2>1, <2>2, <2>3, <2>4
<1> QED BY <1>3, <1>4, <1>10, <1>11 DEF B, m

\* The byte at a is on a page that touches s to e if it lies between their roundings.
LEMMA TouchedRange ==
  ASSUME NEW s \in Nat, NEW e \in Nat
  PROVE  /\ Touched(s, e) \subseteq Nat
         /\ \A a \in Nat : a \div PageSize \in Touched(s, e) <=>
              s < e /\ PAGE_START(s) <= a /\ a < PAGE_END(e)
<1>0. PageSize \in Nat \ {0}
  BY SizeAssumption
<1>1. CASE s < e
  <2> DEFINE q == s \div PageSize
             r == (e - 1) \div PageSize
  <2>1. Touched(s, e) = q..r
    BY <1>1, TouchedIs
  <2>2. q \in Nat /\ r \in Nat
    <3>1. e - 1 \in Nat
      BY <1>1
    <3> QED BY <3>1, <1>0, Division
  <2>3. PAGE_START(s) = q * PageSize
    BY Rounded
  <2>4. PAGE_END(e) = (r + 1) * PageSize
    <3>1. e > 0
      BY <1>1
    <3> QED BY <3>1, RoundedUp
  <2> HIDE DEF q, r
  <2>5. ASSUME NEW a \in Nat
        PROVE  a \div PageSize \in q..r <=> q * PageSize <= a /\ a < (r + 1) * PageSize
    <3>1. a \div PageSize >= q <=> a >= q * PageSize
      BY <1>0, <2>2, SamePage
    <3>2. a \div PageSize >= r + 1 <=> a >= (r + 1) * PageSize
      <4>1. r + 1 \in Nat
        BY <2>2
      <4> QED BY <4>1, <1>0, SamePage
    <3>3. a \div PageSize \in Nat /\ q * PageSize \in Nat /\ (r + 1) * PageSize \in Nat
      BY <1>0, <2>2, Division
    <3> QED BY <3>1, <3>2, <3>3, <2>2
  <2> QED BY <1>1, <2>1, <2>2, <2>3, <2>4, <2>5
<1>2. CASE ~ (s < e)
  <2>1. s >= e
    BY <1>2
  <2>2. Touched(s, e) = {}
    BY ONLY <2>1 DEF Touched
  <2> QED BY <1>2, <2>2
<1> QED BY <1>1, <1>2

\* Roundings ascend with the addresses, and whole pages are their own.
LEMMA RoundedAscend ==
  ASSUME NEW x \in Nat, NEW y \in Nat, x <= y
  PROVE  /\ PAGE_START(x) <= PAGE_START(y) /\ PAGE_END(x) <= PAGE_END(y)
         /\ PAGE_START(x) <= PAGE_END(y)
<1>0. PageSize \in Nat \ {0} /\ x + PageSize - 1 \in Nat /\ y + PageSize - 1 \in Nat
      /\ x + PageSize - 1 <= y + PageSize - 1
  BY SizeAssumption
<1>1. ASSUME NEW a \in Nat, NEW b \in Nat, a <= b PROVE PAGE_START(a) <= PAGE_START(b)
  <2>1. PAGE_START(a) = (a \div PageSize) * PageSize /\ PAGE_START(a) <= a /\ PAGE_START(a) \in Nat
        /\ a \div PageSize \in Nat
    BY Rounded
  <2>2. b >= (a \div PageSize) * PageSize
    BY <1>1, <2>1
  <2>3. b \div PageSize >= a \div PageSize
    BY <1>0, <2>1, <2>2, SamePage
  <2>4. PAGE_START(b) = (b \div PageSize) * PageSize /\ PAGE_START(b) \in Nat
        /\ PAGE_START(b) \div PageSize = b \div PageSize
    BY Rounded
  <2>5. PAGE_START(b) \div PageSize >= a \div PageSize
    BY <2>3, <2>4
  <2>6. PAGE_START(b) >= (a \div PageSize) * PageSize
    BY <1>0, <2>1, <2>4, <2>5, SamePage
  <2> QED BY <2>1, <2>6
<1>2. PAGE_END(x) <= PAGE_END(y)
  BY <1>0, <1>1 DEF PAGE_END
<1>3. PAGE_START(x) \in Nat /\ PAGE_START(x) <= x /\ y <= PAGE_END(y) /\ PAGE_END(y) \in Nat
  BY Rounded, RoundedUp
<1> QED BY <1>1, <1>2, <1>3

\* A rounding is a whole page already.
LEMMA RoundedTwice ==
  ASSUME NEW x \in Nat
  PROVE  /\ PAGE_OFFSET(x) = 0 => PAGE_START(x) = x /\ PAGE_END(x) = x
         /\ PAGE_START(PAGE_START(x)) = PAGE_START(x)
         /\ PAGE_START(PAGE_END(x)) = PAGE_END(x)
         /\ PAGE_END(PAGE_END(x)) = PAGE_END(x)
<1>1. ASSUME NEW y \in Nat, PAGE_OFFSET(y) = 0 PROVE PAGE_START(y) = y /\ PAGE_END(y) = y
  <2>1. PAGE_START(y) = y
    BY <1>1 DEF PAGE_START, PAGE_OFFSET
  <2> QED BY <1>1, <2>1, RoundedUp
<1>2. PAGE_START(x) \in Nat /\ PAGE_OFFSET(PAGE_START(x)) = 0
  BY Rounded
<1>3. PAGE_END(x) \in Nat /\ PAGE_OFFSET(PAGE_END(x)) = 0
  BY RoundedUp
<1> QED BY <1>1, <1>2, <1>3

\* Every address has a page, and the reservation is of such pages.
LEMMA PageOfAddress ==
  /\ Word \in Nat /\ PageSize \in Nat \ {0}
  /\ \A a \in Address : a \in Nat /\ a \div PageSize \in Page
  /\ \A p \in Page, n \in 0..(PageSize - 1) :
       p * PageSize + n \in Address /\ (p * PageSize + n) \div PageSize = p
<1>0. PageSize \in Nat \ {0} /\ Pages \in Nat \ {0}
  BY SizeAssumption
<1>1. Word \in Nat /\ Word = Pages * PageSize
  BY <1>0 DEF Word
<1>2. ASSUME NEW a \in Address PROVE a \in Nat /\ a \div PageSize \in Page
  <2>1. a \in Nat /\ a < Word
    BY <1>1 DEF Address
  <2>2. ~ (a >= Pages * PageSize)
    BY <1>1, <2>1
  <2>3. ~ (a \div PageSize >= Pages)
    BY <1>0, <2>1, <2>2, SamePage
  <2>4. a \div PageSize \in Nat
    BY <1>0, <2>1, Division
  <2> QED BY <1>0, <2>1, <2>3, <2>4 DEF Page
<1>3. ASSUME NEW p \in Page, NEW n \in 0..(PageSize - 1)
      PROVE  p * PageSize + n \in Address /\ (p * PageSize + n) \div PageSize = p
  <2>1. p \in Nat /\ p < Pages /\ n \in Nat
    BY <1>0 DEF Page
  <2>2. p * PageSize + n \in Nat
    BY <1>0, <2>1
  <2> DEFINE a == p * PageSize + n
  <2>3. a \div PageSize = p
    <3>1. a \in Nat
      BY <2>2
    <3> QED BY ONLY <3>1, <1>0, <2>1, <1>3, DivisionUnique
  <2>4. ~ (a >= Pages * PageSize)
    <3>1. ~ (a \div PageSize >= Pages)
      BY <1>0, <2>1, <2>3
    <3> QED BY <3>1, <1>0, <2>2, SamePage
  <2>5. a < Word
    <3> HIDE DEF a
    <3>1. a \in Nat
      BY <2>2 DEF a
    <3> QED BY <3>1, <1>1, <2>4
  <2> QED BY <1>1, <2>2, <2>3, <2>5 DEF Address
<1> QED BY <1>0, <1>1, <1>2, <1>3

\* Where the segment k starts in memory, and where its bytes of the file and it end.
SegAt(k)   == Biased(image.load[k].vaddr)
FileEnd(k) == SegAt(k) + image.load[k].filesz
End(k)     == SegAt(k) + image.load[k].memsz

\* What is known of one segment in memory.
LEMMA OneSegment ==
  ASSUME Placed, NEW k \in 1..Len(image.load)
  PROVE  /\ SegAt(k) \in Nat /\ FileEnd(k) \in Nat /\ End(k) \in Nat /\ load_start \in Nat
         /\ image.load[k].filesz \in Nat /\ image.load[k].memsz \in Nat
         /\ image.load[k].offset \in Nat /\ image.load[k].flags \in Prot
         /\ load_start <= SegAt(k) /\ SegAt(k) < End(k) /\ SegAt(k) <= FileEnd(k)
         /\ FileEnd(k) <= End(k) /\ End(k) <= load_start + load_size /\ End(k) <= Word
         /\ PAGE_OFFSET(SegAt(k)) = PAGE_OFFSET(image.load[k].offset)
         /\ HeaderPages(image.load[k]) \subseteq Reservation
         /\ HeaderPages(image.load[k]) = Touched(SegAt(k), End(k))
         /\ \A a \in Nat : a \div PageSize \in HeaderPages(image.load[k]) <=>
              PAGE_START(SegAt(k)) <= a /\ a < PAGE_END(End(k))
<1> DEFINE s == image.load[k]
<1>1. /\ s.vaddr \in Nat /\ s.offset \in Nat /\ s.filesz \in Nat /\ s.memsz \in Nat /\ s.flags \in Prot
      /\ WellFormed(image) /\ DOMAIN image.load = 1..Len(image.load)
  BY Tables DEF Placed
<1>2. s.memsz > 0 /\ s.filesz <= s.memsz /\ PAGE_OFFSET(s.offset) = PAGE_OFFSET(s.vaddr)
  BY <1>1 DEF WellFormed
<1>3. MinVaddr <= s.vaddr /\ s.vaddr + s.memsz <= MaxVaddr /\ load_size \in Nat
  BY Span DEF Placed
<1>4. load_start \in Nat /\ load_start + load_size <= Word /\ Word \in Nat
  BY PageOfAddress DEF Placed
<1>5. /\ HeaderPages(s) = (SegAt(k) \div PageSize)..((SegAt(k) + s.memsz - 1) \div PageSize)
      /\ HeaderPages(s) \subseteq Reservation
      /\ SegAt(k) \in Nat /\ load_start <= SegAt(k)
      /\ SegAt(k) + s.memsz <= load_start + load_size
      /\ PAGE_OFFSET(SegAt(k)) = PAGE_OFFSET(s.vaddr)
  BY <1>1, <1>2, <1>3, PagesOf DEF SegAt
<1> HIDE DEF s
<1>6. /\ FileEnd(k) \in Nat /\ End(k) \in Nat /\ SegAt(k) < End(k) /\ SegAt(k) <= FileEnd(k)
      /\ FileEnd(k) <= End(k) /\ End(k) <= load_start + load_size /\ End(k) <= Word
  <2>1. FileEnd(k) = SegAt(k) + s.filesz /\ End(k) = SegAt(k) + s.memsz
    BY DEF FileEnd, End, s
  <2>2. /\ SegAt(k) \in Nat /\ SegAt(k) + s.memsz <= load_start + load_size
        /\ s.filesz \in Nat /\ s.memsz \in Nat
    BY <1>1, <1>5
  <2> QED BY ONLY <2>1, <2>2, <1>2, <1>3, <1>4
<1>7. HeaderPages(s) = Touched(SegAt(k), End(k))
  <2>1. Touched(SegAt(k), End(k)) = (SegAt(k) \div PageSize)..((End(k) - 1) \div PageSize)
    BY <1>5, <1>6, TouchedIs
  <2>2. End(k) = SegAt(k) + s.memsz
    BY DEF End, s
  <2>3. HeaderPages(s) = (SegAt(k) \div PageSize)..((SegAt(k) + s.memsz - 1) \div PageSize)
    BY <1>5
  <2>4. SegAt(k) \in Nat /\ s.memsz \in Nat
    BY <1>1, <1>5
  <2> QED BY ONLY <2>1, <2>2, <2>3, <2>4
<1>8. \A a \in Nat : a \div PageSize \in HeaderPages(s) <=>
        PAGE_START(SegAt(k)) <= a /\ a < PAGE_END(End(k))
  BY <1>5, <1>6, <1>7, TouchedRange
<1> QED BY <1>1, <1>2, <1>4, <1>5, <1>6, <1>7, <1>8 DEF s

\* What is known of two of them.
LEMMA TwoSegments ==
  ASSUME Placed, NEW j \in 1..Len(image.load), NEW k \in 1..Len(image.load), j < k
  PROVE  /\ End(j) <= SegAt(k)
         /\ PAGE_START(SegAt(k)) < End(j) =>
              /\ FileEnd(j) = End(j)
              /\ SegAt(j) + image.load[k].offset = SegAt(k) + image.load[j].offset
              /\ "W" \in image.load[j].flags => "W" \in image.load[k].flags
<1> DEFINE s == image.load[j]
           t == image.load[k]
<1>1. /\ s.vaddr \in Nat /\ s.offset \in Nat /\ s.filesz \in Nat /\ s.memsz \in Nat
      /\ t.vaddr \in Nat /\ t.offset \in Nat
      /\ WellFormed(image) /\ DOMAIN image.load = 1..Len(image.load)
  BY Tables DEF Placed
<1>2. /\ s.vaddr + s.memsz <= t.vaddr
      /\ PAGE_START(t.vaddr) < s.vaddr + s.memsz => Contiguous(s, t)
  BY <1>1 DEF WellFormed
<1>3. /\ s.memsz > 0 /\ t.memsz > 0 /\ t.memsz \in Nat
  BY <1>1, Tables DEF WellFormed, Placed
<1>4. /\ MinVaddr <= s.vaddr /\ s.vaddr + s.memsz <= MaxVaddr
      /\ MinVaddr <= t.vaddr /\ t.vaddr + t.memsz <= MaxVaddr
      /\ MinVaddr \in Nat /\ MaxVaddr \in Nat
  BY Span DEF Placed
<1>5. /\ SegAt(j) = load_start + (s.vaddr - MinVaddr) /\ SegAt(k) = load_start + (t.vaddr - MinVaddr)
      /\ PAGE_OFFSET(SegAt(k)) = PAGE_OFFSET(t.vaddr) /\ load_start \in Nat
  <2>1. s.vaddr < MaxVaddr /\ t.vaddr < MaxVaddr
    <3>1. s.memsz \in Nat
      BY <1>1
    <3> HIDE DEF s, t
    <3> QED BY ONLY <1>1, <1>3, <1>4, <3>1
  <2> QED BY <1>1, <1>4, <2>1, Place DEF SegAt, Placed
<1>6. /\ PAGE_START(SegAt(k)) = SegAt(k) - PAGE_OFFSET(SegAt(k))
      /\ PAGE_START(t.vaddr) = t.vaddr - PAGE_OFFSET(t.vaddr)
  BY DEF PAGE_START, PAGE_OFFSET
<1>7. PAGE_OFFSET(t.vaddr) \in Nat /\ PAGE_START(t.vaddr) \in Nat
  <2>1. \A x \in Nat : PAGE_OFFSET(x) \in 0..(PageSize - 1) /\ PAGE_START(x) \in Nat
    BY Rounded
  <2>2. t.vaddr \in Nat /\ 0..(PageSize - 1) \subseteq Nat
    BY <1>1
  <2> QED BY ONLY <2>1, <2>2
<1>11. End(j) = SegAt(j) + s.memsz /\ FileEnd(j) = SegAt(j) + s.filesz
  BY DEF End, FileEnd
<1>12. SegAt(j) \in Nat /\ SegAt(k) \in Nat /\ PAGE_START(SegAt(k)) \in Nat
  <2>1. SegAt(j) \in Nat /\ SegAt(k) \in Nat
    BY OneSegment
  <2> QED BY <2>1, Rounded
<1>13. PICK sv \in Nat, sm \in Nat, so \in Nat, tv \in Nat, to \in Nat, m \in Nat, b \in Nat, o \in Nat :
         /\ sv = s.vaddr /\ sm = s.memsz /\ so = s.offset /\ tv = t.vaddr /\ to = t.offset
         /\ m = MinVaddr /\ b = load_start /\ o = PAGE_OFFSET(t.vaddr)
  BY <1>1, <1>4, <1>5, <1>7
<1>14. /\ SegAt(j) = b + (sv - m) /\ SegAt(k) = b + (tv - m) /\ m <= sv /\ m <= tv
       /\ PAGE_START(SegAt(k)) = (b + (tv - m)) - o /\ PAGE_START(t.vaddr) = tv - o
       /\ End(j) = b + (sv - m) + sm
  BY ONLY <1>4, <1>5, <1>6, <1>11, <1>13
<1>8. End(j) <= SegAt(k)
  <2>1. sv + sm <= tv
    BY <1>2, <1>13
  <2> QED BY ONLY <2>1, <1>14
<1>9. PAGE_START(SegAt(k)) < End(j) <=> PAGE_START(t.vaddr) < s.vaddr + s.memsz
  <2>1. (b + (tv - m)) - o < b + (sv - m) + sm <=> tv - o < sv + sm
    BY ONLY <1>14
  <2> QED BY ONLY <2>1, <1>13, <1>14
<1>10. ASSUME Contiguous(s, t)
       PROVE  /\ FileEnd(j) = End(j)
              /\ SegAt(j) + t.offset = SegAt(k) + s.offset
              /\ "W" \in s.flags => "W" \in t.flags
  <2>1. s.filesz = s.memsz /\ sv + to = tv + so /\ ("W" \in s.flags => "W" \in t.flags)
    BY <1>10, <1>13 DEF Contiguous
  <2>2. FileEnd(j) = End(j)
    BY <2>1, <1>11
  <2>3. SegAt(j) + to = SegAt(k) + so
    <3>1. sv + to = tv + so
      BY <2>1
    <3>2. (b + (sv - m)) + to = (b + (tv - m)) + so
      BY ONLY <3>1
    <3> QED BY ONLY <3>2, <1>14
  <2> QED BY <2>1, <2>2, <2>3, <1>13
<1> QED BY <1>2, <1>8, <1>9, <1>10

\* RELRO is inside the reservation, and the reservation in the address space.
LEMMA RelroInside ==
  ASSUME Placed
  PROVE  /\ RelroPages \subseteq Reservation
         /\ \A r \in DOMAIN image.relro : \A n \in 0..(image.relro[r].memsz - 1) :
              (Biased(image.relro[r].vaddr) + n) \div PageSize \in RelroPages
<1>1. ASSUME NEW r \in DOMAIN image.relro
      PROVE  /\ HeaderPages(image.relro[r]) \subseteq Reservation
             /\ \A n \in 0..(image.relro[r].memsz - 1) :
                  (Biased(image.relro[r].vaddr) + n) \div PageSize \in HeaderPages(image.relro[r])
  <2> DEFINE h == image.relro[r]
  <2>1. h.vaddr \in Nat /\ h.memsz \in Nat /\ WellFormed(image) /\ DOMAIN image.load = 1..Len(image.load)
    BY Tables DEF Placed
  <2>2. PICK j \in 1..Len(image.load), k \in 1..Len(image.load) :
          /\ h.memsz > 0 /\ image.load[j].vaddr <= h.vaddr
          /\ h.vaddr + h.memsz <= image.load[k].vaddr + image.load[k].memsz
    BY <2>1 DEF WellFormed
  <2>3. /\ MinVaddr <= image.load[j].vaddr
        /\ image.load[k].vaddr + image.load[k].memsz <= MaxVaddr
        /\ MinVaddr \in Nat /\ MaxVaddr \in Nat
        /\ image.load[j].vaddr \in Nat /\ image.load[k].vaddr \in Nat /\ image.load[k].memsz \in Nat
    BY Span, Tables DEF Placed
  <2>4. MinVaddr <= h.vaddr /\ h.vaddr + h.memsz <= MaxVaddr
    <3> HIDE DEF h
    <3>1. PICK v \in Nat, z \in Nat : v = h.vaddr /\ z = h.memsz
      BY ONLY <2>1
    <3>2. PICK low \in Nat, high \in Nat : low = MinVaddr /\ high = MaxVaddr
      BY ONLY <2>3
    <3>3. PICK first \in Nat, last \in Nat, size \in Nat :
            /\ first = image.load[j].vaddr /\ last = image.load[k].vaddr /\ size = image.load[k].memsz
      BY ONLY <2>3
    <3>4. low <= first /\ last + size <= high /\ first <= v /\ v + z <= last + size
      BY ONLY <2>2, <2>3, <3>1, <3>2, <3>3
    <3>5. low <= v /\ v + z <= high
      BY ONLY <3>4
    <3> QED BY ONLY <3>1, <3>2, <3>5
  <2>5. /\ HeaderPages(h) = (Biased(h.vaddr) \div PageSize)
                              ..((Biased(h.vaddr) + h.memsz - 1) \div PageSize)
        /\ HeaderPages(h) \subseteq Reservation /\ Biased(h.vaddr) \in Nat
    BY <2>1, <2>2, <2>4, PagesOf
  <2>6. ASSUME NEW n \in 0..(h.memsz - 1)
        PROVE  (Biased(h.vaddr) + n) \div PageSize \in HeaderPages(h)
    <3> DEFINE b == Biased(h.vaddr)
               m == h.memsz
    <3>1. b \in Nat /\ m \in Nat /\ m > 0 /\ n \in Nat /\ n <= m - 1 /\ PageSize \in Nat \ {0}
      BY <2>1, <2>2, <2>5, SizeAssumption
    <3> HIDE DEF b, m
    <3>2. b + n \in Nat /\ b + m - 1 \in Nat /\ b <= b + n /\ b + n <= b + m - 1
      BY <3>1
    <3>3. b \div PageSize <= (b + n) \div PageSize /\ (b + n) \div PageSize <= (b + m - 1) \div PageSize
      BY <3>1, <3>2, PagesAscend
    <3>4. b \div PageSize \in Nat /\ (b + n) \div PageSize \in Nat /\ (b + m - 1) \div PageSize \in Nat
      BY <3>1, <3>2, Division
    <3>5. (b + n) \div PageSize \in (b \div PageSize)..((b + m - 1) \div PageSize)
      BY <3>3, <3>4
    <3> QED BY <2>5, <3>5 DEF b, m
  <2> QED BY <2>5, <2>6
<1>2. RelroPages = UNION {HeaderPages(image.relro[k]) : k \in DOMAIN image.relro}
  BY DEF RelroPages
<1> QED BY <1>1, <1>2

\* The reservation is of pages of the address space.
LEMMA ReservationFits == Placed => Reservation \subseteq Page
<1> SUFFICES ASSUME Placed, NEW p \in Reservation PROVE p \in Page
  OBVIOUS
<1>1. load_start \in Nat /\ load_size \in Nat /\ load_size > 0 /\ load_start + load_size <= Word
  BY Span DEF Placed
<1> DEFINE e == load_start + load_size - 1
<1>2. e \in Address
  BY <1>1, PageOfAddress DEF Address
<1>3. e \div PageSize \in Page /\ load_start \div PageSize \in Nat
  BY <1>1, <1>2, PageOfAddress, Division
<1>4. p \in (load_start \div PageSize)..(e \div PageSize)
  BY <1>1, ReservationIs
<1> HIDE DEF e
<1> QED BY <1>3, <1>4, SizeAssumption DEF Page

\* What LoadSegments does for the segment i, in addresses.
LEMMA SegmentBytes ==
  ASSUME Placed, i \in 1..Len(image.load)
  PROVE  /\ SegStart = SegAt(i) /\ SegFileEnd = FileEnd(i) /\ SegEnd = End(i)
         /\ FileStart \in Nat /\ PAGE_START(SegStart) \in Nat
         /\ FileStart + SegAt(i) = PAGE_START(SegStart) + seg.offset
         /\ PAGE_START(SegStart) + FileLength = FileEnd(i)
<1>1. SegStart = SegAt(i) /\ SegFileEnd = FileEnd(i) /\ SegEnd = End(i)
  BY DEF SegStart, SegFileEnd, SegEnd, SegAt, FileEnd, End, seg
<1>2. /\ SegAt(i) \in Nat /\ seg.offset \in Nat /\ seg.filesz \in Nat
      /\ PAGE_OFFSET(SegAt(i)) = PAGE_OFFSET(seg.offset)
      /\ FileEnd(i) = SegAt(i) + seg.filesz
  BY OneSegment DEF FileEnd, seg
<1>3. PICK b \in Nat, f \in Nat, m \in Nat : b = SegAt(i) /\ f = seg.offset /\ m = seg.filesz
  BY <1>2
<1>4. PAGE_START(b) = b - PAGE_OFFSET(b) /\ PAGE_START(f) = f - PAGE_OFFSET(f)
  BY DEF PAGE_START, PAGE_OFFSET
<1>5. /\ PAGE_START(b) \in Nat /\ PAGE_START(f) \in Nat
      /\ PAGE_OFFSET(b) \in 0..(PageSize - 1) /\ PAGE_OFFSET(f) = PAGE_OFFSET(b)
  BY <1>2, <1>3, Rounded
<1>6. PICK o \in Nat : o = PAGE_OFFSET(b)
  BY <1>5, SizeAssumption
<1>7. PICK x \in Nat, y \in Nat : x = PAGE_START(b) /\ y = PAGE_START(f)
  BY <1>5
<1>8. x = b - o /\ y = f - o
  BY <1>4, <1>5, <1>6, <1>7
<1>9. y + b = x + f /\ x + ((f + m) - y) = b + m
  BY ONLY <1>8
<1>10. FileStart = y /\ PAGE_START(SegStart) = x /\ FileLength = (f + m) - y
  BY <1>1, <1>3, <1>7 DEF FileStart, FileLength
<1> QED BY <1>1, <1>2, <1>3, <1>9, <1>10

\* The pages LoadSegments maps for the segment i are all of its pages: those of its bytes
\* in the file and those of the rest.
LEMMA SegmentPages ==
  ASSUME Placed, i \in 1..Len(image.load)
  PROVE  /\ \A a \in Nat : a \div PageSize \in FilePages <=>
              PAGE_START(SegAt(i)) <= a /\ a < PAGE_END(FileEnd(i))
         /\ \A a \in Nat : a \div PageSize \in ZeroPages <=>
              PAGE_END(FileEnd(i)) <= a /\ a < PAGE_END(End(i))
         /\ FilePages \cup ZeroPages = HeaderPages(seg)
<1>1. /\ SegAt(i) \in Nat /\ FileEnd(i) \in Nat /\ End(i) \in Nat
      /\ SegAt(i) <= FileEnd(i) /\ FileEnd(i) <= End(i) /\ SegAt(i) < End(i)
      /\ HeaderPages(seg) = Touched(SegAt(i), End(i))
      /\ \A a \in Nat : a \div PageSize \in HeaderPages(seg) <=>
           PAGE_START(SegAt(i)) <= a /\ a < PAGE_END(End(i))
  BY OneSegment DEF seg
<1>2. PICK b \in Nat, f \in Nat, e \in Nat : b = SegAt(i) /\ f = FileEnd(i) /\ e = End(i)
  BY <1>1
<1>3. /\ PAGE_START(b) \in Nat /\ PAGE_START(b) <= b /\ PAGE_OFFSET(PAGE_START(b)) = 0
      /\ PAGE_START(PAGE_START(b)) = PAGE_START(b)
  BY Rounded, RoundedTwice
<1>4. /\ PAGE_END(f) \in Nat /\ PAGE_START(PAGE_END(f)) = PAGE_END(f)
      /\ PAGE_END(e) \in Nat /\ PAGE_END(PAGE_END(e)) = PAGE_END(e)
      /\ f <= PAGE_END(f)
  BY RoundedUp, RoundedTwice
<1>5. b <= f /\ f <= e /\ b < e
  BY <1>1, <1>2
<1>6. PAGE_START(b) <= PAGE_END(f) /\ PAGE_END(f) <= PAGE_END(e)
  BY <1>5, RoundedAscend
<1>7. FilePages = Touched(PAGE_START(b), f)
  BY <1>2, SegmentBytes DEF FilePages
<1>8. ZeroPages = Touched(PAGE_END(f), PAGE_END(e))
  BY <1>2, SegmentBytes DEF ZeroPages
<1>9. \A a \in Nat : a \div PageSize \in FilePages <=> PAGE_START(b) <= a /\ a < PAGE_END(f)
  <2>1. TAKE a \in Nat
  <2>2. a \div PageSize \in FilePages <=>
          PAGE_START(b) < f /\ PAGE_START(PAGE_START(b)) <= a /\ a < PAGE_END(f)
    BY <1>3, <1>7, TouchedRange
  <2>3. ~ (PAGE_START(b) < f) => PAGE_END(f) = PAGE_START(b)
    <3>1. SUFFICES ASSUME ~ (PAGE_START(b) < f) PROVE PAGE_END(f) = PAGE_START(b)
      OBVIOUS
    <3>2. f = PAGE_START(b)
      BY <3>1, <1>3, <1>5
    <3> QED BY <3>2, <1>3, RoundedTwice
  <2> QED BY <2>2, <2>3, <1>3, <1>4
<1>10. \A a \in Nat : a \div PageSize \in ZeroPages <=> PAGE_END(f) <= a /\ a < PAGE_END(e)
  <2>1. TAKE a \in Nat
  <2>2. a \div PageSize \in ZeroPages <=>
          /\ PAGE_END(f) < PAGE_END(e)
          /\ PAGE_START(PAGE_END(f)) <= a /\ a < PAGE_END(PAGE_END(e))
    BY <1>4, <1>8, TouchedRange
  <2> QED BY <2>2, <1>4, <1>6
<1>11. FilePages \subseteq Nat /\ ZeroPages \subseteq Nat /\ HeaderPages(seg) \subseteq Nat
  BY <1>1, <1>3, <1>4, <1>7, <1>8, TouchedRange
<1>12. \A p \in Nat : p \in FilePages \cup ZeroPages <=> p \in HeaderPages(seg)
  <2>1. TAKE p \in Nat
  <2>2. PICK a \in Nat : a \div PageSize = p
    <3>1. PageSize \in Nat \ {0}
      BY SizeAssumption
    <3>2. p * PageSize \in Nat /\ p * PageSize = p * PageSize + 0 /\ 0 \in 0..(PageSize - 1)
      BY <3>1
    <3>3. (p * PageSize) \div PageSize = p
      BY ONLY <3>1, <3>2, p \in Nat, DivisionUnique
    <3> QED BY <3>2, <3>3
  <2>3. a \div PageSize \in FilePages <=> PAGE_START(b) <= a /\ a < PAGE_END(f)
    BY <1>9
  <2>4. a \div PageSize \in ZeroPages <=> PAGE_END(f) <= a /\ a < PAGE_END(e)
    BY <1>10
  <2>5. a \div PageSize \in HeaderPages(seg) <=> PAGE_START(b) <= a /\ a < PAGE_END(e)
    BY <1>1, <1>2
  <2> QED BY <2>2, <2>3, <2>4, <2>5, <1>3, <1>4, <1>6
<1> QED BY <1>2, <1>9, <1>10, <1>11, <1>12

\* The bytes cleared follow the file's, those read are the file's, and both are on
\* the segment's pages.
LEMMA SegmentWrites ==
  ASSUME Placed, i \in 1..Len(image.load)
  PROVE  /\ \A a \in Cleared : /\ a \in Nat /\ FileEnd(i) <= a /\ a < PAGE_END(FileEnd(i))
                               /\ a \div PageSize \in HeaderPages(seg) /\ "W" \in seg.flags
         /\ "W" \in seg.flags =>
              \A a \in Nat : FileEnd(i) <= a /\ a < PAGE_END(FileEnd(i)) => a \in Cleared
         /\ \A a \in ReadBytes : /\ PAGE_START(SegAt(i)) <= a /\ a < FileEnd(i)
                                 /\ a \div PageSize \in HeaderPages(seg)
<1>1. /\ SegAt(i) \in Nat /\ FileEnd(i) \in Nat /\ End(i) \in Nat
      /\ SegAt(i) <= FileEnd(i) /\ FileEnd(i) <= End(i)
      /\ \A a \in Nat : a \div PageSize \in HeaderPages(seg) <=>
           PAGE_START(SegAt(i)) <= a /\ a < PAGE_END(End(i))
  BY OneSegment DEF seg
<1>2. PICK b \in Nat, f \in Nat, e \in Nat : b = SegAt(i) /\ f = FileEnd(i) /\ e = End(i)
  BY <1>1
<1>3. /\ PAGE_START(b) \in Nat /\ PAGE_START(b) <= b /\ b <= f /\ f <= e
      /\ PAGE_END(f) \in Nat /\ PAGE_END(e) \in Nat /\ PAGE_END(f) <= PAGE_END(e) /\ f <= PAGE_END(f)
      /\ PAGE_OFFSET(f) \in 0..(PageSize - 1)
      /\ PAGE_OFFSET(f) = 0 => PAGE_END(f) = f
  BY <1>1, <1>2, Rounded, RoundedUp, RoundedAscend
<1>4. SegFileEnd = f /\ SegStart = b /\ PAGE_START(SegStart) + FileLength = f
  BY <1>2, SegmentBytes
<1>5. ASSUME NEW a \in Cleared
      PROVE  a \in Nat /\ f <= a /\ a < PAGE_END(f) /\ "W" \in seg.flags
  <2>1. "W" \in seg.flags /\ a \in f..(PAGE_END(f) - 1)
    BY <1>4 DEF Cleared
  <2> QED BY <2>1, <1>3
<1>6. ASSUME "W" \in seg.flags, NEW a \in Nat, f <= a, a < PAGE_END(f)
      PROVE  a \in Cleared
  <2>1. PAGE_OFFSET(f) # 0
    BY <1>3, <1>6
  <2>2. PAGE_OFFSET(f) > 0
    BY <1>3, <2>1
  <2>3. a \in f..(PAGE_END(f) - 1)
    BY <1>3, <1>6
  <2> QED BY <1>4, <1>6, <2>2, <2>3 DEF Cleared
<1>7. ASSUME NEW a \in ReadBytes
      PROVE  a \in Nat /\ PAGE_START(b) <= a /\ a < f
  BY <1>4, PageOfAddress DEF ReadBytes
<1>8. ASSUME NEW a \in Nat, PAGE_START(b) <= a, a < PAGE_END(f)
      PROVE  a \div PageSize \in HeaderPages(seg)
  BY <1>1, <1>2, <1>3, <1>8
<1>9. \A a \in Cleared : a \div PageSize \in HeaderPages(seg)
  BY <1>3, <1>5, <1>8
<1>10. \A a \in ReadBytes : a \div PageSize \in HeaderPages(seg)
  BY <1>3, <1>7, <1>8
<1> QED BY <1>2, <1>5, <1>6, <1>7, <1>9, <1>10

-----------------------------------------------------------------------------
(* The invariant.                                                          *)

TypeInv ==
  /\ image \in Images /\ windows \in BOOLEAN /\ others \subseteq Page \ {0}
  /\ prot \in [Page -> Prot \cup {None}]
  /\ phdr_mmap \in Page \cup {None}
  /\ load_start \in Nat \cup {None}
  /\ i \in 1..(Len(image.load) + 1)

\* What each function finds when it is reached: where the header table and the image
\* are, and that neither is on others' pages.
PlaceInv ==
  /\ at \in {"headers", "reserve"} => load_start = None /\ i = 1
  /\ at \in {"segments", "released", "crashed"} \/ InMemory =>
       load_start # None /\ (~windows => Reserved)
  /\ InMemory => i = Len(image.load) + 1
  /\ phdr_mmap # None <=> at \in {"reserve", "segments", "crashed"}
  /\ phdr_mmap \notin others
  /\ Reserved => Placed /\ Reservation \cap others = {} /\ phdr_mmap \notin Reservation

\* Everything mapped is others', the header table or the reservation.
MappedInv ==
  \A p \in Page : prot[p] # None <=>
    \/ p \in others \/ p = phdr_mmap
    \/ Reserved /\ p \in Reservation /\ (windows \/ at # "released")

\* Others' pages are as they were, unless the reservation failed unseen.
OthersInv ==
  load_start # 0 => \A p \in others :
    /\ prot[p] = {"R", "W"}
    /\ \A n \in 0..(PageSize - 1) : byte[p * PageSize + n] = None

\* A page has the flags of the last segment mapped there, if any.
Latest(p) ==
  \/ \A k \in 1..(i - 1) : p \notin HeaderPages(image.load[k])
  \/ \E k \in 1..(i - 1) :
       /\ p \in HeaderPages(image.load[k])
       /\ prot[p] = image.load[k].flags
       /\ \A l \in (k + 1)..(i - 1) : p \notin HeaderPages(image.load[l])

\* LatterFlags, before RELRO.
LatterInv ==
  at = "relro" /\ ~windows =>
    \A k \in DOMAIN image.load : \A p \in HeaderPages(image.load[k]) :
      \/ \E l \in DOMAIN image.load : l > k /\ p \in HeaderPages(image.load[l])
      \/ prot[p] = image.load[k].flags
      \/ /\ image.textrel /\ "W" \in image.load[k].flags
         /\ \E l \in 1..(k - 1) : l \in ReadOnlyAt(p) /\ prot[p] = image.load[l].flags

\* On Windows the reservation's protection stays until the relocations; elsewhere
\* the segments' does, but for text relocations.
ProtInv ==
  /\ Reserved /\ windows /\ at \in {"segments", "loaded"} =>
       \A p \in Reservation : prot[p] = {"R", "W"}
  /\ ~windows /\ at \in {"segments", "loaded", "relocating"} =>
       \A p \in Reservation :
         (at = "relocating" /\ image.textrel => ReadOnlyAt(p) = {}) => Latest(p)
  /\ at = "relocating" /\ image.textrel => Protectable
  /\ LatterInv
  /\ at = "linked" /\ Reserved => \A p \in RelroPages : prot[p] = {"R"}

\* The segments mapped or read have their bytes, and zeroes in memory only; on Windows
\* what is beyond them is as it was reserved.
ReadInv ==
  ~unread => \A k \in 1..(i - 1) : \A n \in 0..(image.load[k].filesz - 1) :
    byte[SegAt(k) + n] = FileByte(image.load[k].offset + n)
ZeroInv ==
  \A k \in 1..(i - 1) : windows \/ "W" \in image.load[k].flags =>
    \A n \in Gap(k) : byte[SegAt(k) + n] = 0
FreshInv ==
  windows => \A a \in Address :
    a \div PageSize \in Reservation /\ (\A k \in 1..(i - 1) : FileEnd(k) <= a) => byte[a] = 0

BytesInv ==
  /\ at \in {"headers", "reserve"} =>
       \A a \in Address : byte[a] = IF a \div PageSize \in others THEN None ELSE 0
  /\ Reserved /\ (at = "segments" \/ InMemory) => ReadInv /\ ZeroInv /\ FreshInv

ElfInv ==
  /\ TypeInv
  /\ PlaceInv
  /\ MappedInv
  /\ OthersInv
  /\ ProtInv
  /\ WritableWhileRelocating
  /\ LatterFlags
  /\ BytesInv
  /\ HeaderTableFound

-----------------------------------------------------------------------------
(* The bytes and pages of a segment, from step to step.                    *)

\* The size of the image is the file's.
LEMMA SameSize ==
  ASSUME image' = image
  PROVE  /\ MinVaddr' = MinVaddr /\ MaxVaddr' = MaxVaddr /\ load_size' = load_size
<1>1. MinVaddr' = MinVaddr
  BY Zenon DEF MinVaddr
<1>2. MaxVaddr' = MaxVaddr
  BY Zenon DEF MaxVaddr
<1>3. load_size' = load_size
  BY <1>1, <1>2, Zenon DEF load_size
<1> QED BY <1>1, <1>2, <1>3
\* A step that keeps the file and the place of the image keeps what they give.
LEMMA Same ==
  ASSUME image' = image, load_start' = load_start
  PROVE  /\ Placed' <=> Placed
         /\ Reserved' <=> Reserved
         /\ Reservation' = Reservation /\ RelroPages' = RelroPages
         /\ \A k : /\ SegAt(k)' = SegAt(k) /\ FileEnd(k)' = FileEnd(k) /\ End(k)' = End(k)
                   /\ HeaderPages(image.load[k])' = HeaderPages(image.load[k])
                   /\ HeaderPages(image.relro[k])' = HeaderPages(image.relro[k])
                   /\ Gap(k)' = Gap(k)
         /\ \A p : ReadOnlyAt(p)' = ReadOnlyAt(p)
<1>0. MinVaddr' = MinVaddr /\ load_size' = load_size
  BY SameSize
<1>1. \A v : Biased(v)' = Biased(v)
  BY <1>0 DEF Biased
<1>2. \A k : SegAt(k)' = SegAt(k)
  BY <1>1 DEF SegAt
<1>3. \A k : FileEnd(k)' = FileEnd(k) /\ End(k)' = End(k) /\ Gap(k)' = Gap(k)
  BY <1>2 DEF FileEnd, End, Gap
<1>6. \A k : /\ HeaderPages(image.load[k])' = HeaderPages(image.load[k])
             /\ HeaderPages(image.relro[k])' = HeaderPages(image.relro[k])
  BY <1>1 DEF HeaderPages
<1>5. Placed' <=> Placed
  BY <1>0 DEF Placed
<1>7. Reservation' = Reservation
  BY <1>0 DEF Reservation
<1>8. RelroPages' = RelroPages
  BY <1>6 DEF RelroPages
<1>9. \A p : ReadOnlyAt(p)' = ReadOnlyAt(p)
  BY <1>6 DEF ReadOnlyAt
<1>10. Reserved' <=> Reserved
  BY DEF Reserved
<1> QED BY <1>2, <1>3, <1>5, <1>6, <1>7, <1>8, <1>9, <1>10

\* A set of naturals with a bound has a greatest element.
LEMMA Greatest ==
  ASSUME NEW n \in Nat, NEW T \in SUBSET (0..n), T # {}
  PROVE  \E x \in T : \A y \in T : y <= x
<1>1. PICK R : IsWellFoundedOn(R, Nat) /\ \A x, y \in Nat : x < y => <<x, y>> \in R
  <2>1. \A x, y \in Nat : x < y => <<x, y>> \in OpToRel(<, Nat)
    BY DEF OpToRel
  <2> QED BY <2>1, NatLessThanWellFounded, Zenon
<1> DEFINE D == {n - x : x \in T}
<1>2. D \subseteq Nat
  <2>1. \A x \in T : x \in 0..n
    OBVIOUS
  <2>2. \A x \in 0..n : n - x \in Nat
    OBVIOUS
  <2> QED BY <2>1, <2>2
<1>0. D # {}
  OBVIOUS
<1>3. PICK d \in D : \A e \in D : ~ (<<e, d>> \in R)
  <2>1. IsWellFoundedOn(R, Nat)
    BY <1>1
  <2> HIDE DEF D
  <2> QED BY ONLY <1>0, <1>2, <2>1, WFMin
<1>4. PICK x \in T : d = n - x
  OBVIOUS
<1>5. ASSUME NEW y \in T PROVE y <= x
  <2>1. n - y \in D /\ n - y \in Nat /\ n - x \in Nat
    BY <1>2
  <2>2. ~ (n - y < n - x)
    BY <2>1, <1>1, <1>3, <1>4
  <2>3. x \in Nat /\ y \in Nat
    OBVIOUS
  <2> QED BY ONLY <2>2, <2>3, n \in Nat
<1> QED BY <1>5

\* The later of the read-only segments that touch a page.
LEMMA LastReadOnly ==
  ASSUME image \in Images, NEW p, ReadOnlyAt(p) # {}
  PROVE  LET m == CHOOSE k \in ReadOnlyAt(p) : \A l \in ReadOnlyAt(p) : l <= k IN
         /\ m \in ReadOnlyAt(p) /\ \A l \in ReadOnlyAt(p) : l <= m
         /\ m \in 1..Len(image.load) /\ image.load[m].flags \in Prot
<1>1. /\ Len(image.load) \in Nat /\ DOMAIN image.load = 1..Len(image.load)
      /\ \A k \in 1..Len(image.load) : image.load[k].flags \in Prot
  BY Tables
<1>2. ReadOnlyAt(p) \subseteq 1..Len(image.load)
  BY <1>1 DEF ReadOnlyAt
<1>3. \E m \in ReadOnlyAt(p) : \A l \in ReadOnlyAt(p) : l <= m
  <2>1. ReadOnlyAt(p) \in SUBSET (0..Len(image.load))
    BY <1>1, <1>2
  <2> QED BY <1>1, <2>1, Greatest
<1> QED BY <1>1, <1>2, <1>3

\* Two segments on one page are side by side in the file.
LEMMA SharedPage ==
  ASSUME Placed, NEW j \in 1..Len(image.load), NEW k \in 1..Len(image.load), j < k,
         NEW p, p \in HeaderPages(image.load[j]), p \in HeaderPages(image.load[k])
  PROVE  "W" \in image.load[j].flags => "W" \in image.load[k].flags
<1>1. /\ SegAt(j) \in Nat /\ End(j) \in Nat /\ SegAt(j) < End(j)
      /\ HeaderPages(image.load[j]) = Touched(SegAt(j), End(j))
  BY OneSegment
<1>2. /\ SegAt(k) \in Nat /\ End(k) \in Nat /\ SegAt(k) < End(k)
      /\ HeaderPages(image.load[k]) = Touched(SegAt(k), End(k))
  BY OneSegment
<1>3. p \in (SegAt(j) \div PageSize)..((End(j) - 1) \div PageSize)
  BY <1>1, TouchedIs
<1>4. p \in (SegAt(k) \div PageSize)..((End(k) - 1) \div PageSize)
  BY <1>2, TouchedIs
<1>5. PageSize \in Nat \ {0}
  BY SizeAssumption
<1>6. /\ SegAt(k) \div PageSize \in Nat /\ PAGE_START(SegAt(k)) = (SegAt(k) \div PageSize) * PageSize
      /\ PAGE_START(SegAt(k)) \in Nat
  BY <1>2, Rounded
<1>7. End(j) - 1 \in Nat /\ (End(j) - 1) \div PageSize \in Nat
  <2>1. End(j) - 1 \in Nat
    BY <1>1
  <2> QED BY <2>1, <1>5, Division
<1>8. (End(j) - 1) \div PageSize >= SegAt(k) \div PageSize
  BY <1>3, <1>4, <1>6, <1>7
<1>9. End(j) - 1 >= PAGE_START(SegAt(k))
  BY <1>5, <1>6, <1>7, <1>8, SamePage
<1>10. PAGE_START(SegAt(k)) < End(j)
  BY <1>1, <1>6, <1>9
<1> QED BY <1>10, TwoSegments

\* What a segment mapped or read leaves of an earlier one: its bytes, which are in the
\* file where the later one's are if they share a page.
LEMMA EarlierKept ==
  ASSUME Placed, i \in 1..Len(image.load), NEW k \in 1..(i - 1),
         NEW a \in Nat, SegAt(k) <= a, a < End(k)
  PROVE  /\ a \notin Cleared /\ a \div PageSize \notin ZeroPages /\ a < SegAt(i)
         /\ a \div PageSize \in FilePages \/ a \in ReadBytes =>
              /\ FileEnd(k) = End(k)
              /\ FileStart + (a - PAGE_START(SegStart)) = image.load[k].offset + (a - SegAt(k))
<1>1. k \in 1..Len(image.load) /\ k < i
  BY Tables DEF Placed
<1>2. /\ End(k) <= SegAt(i)
      /\ PAGE_START(SegAt(i)) < End(k) =>
           /\ FileEnd(k) = End(k)
           /\ SegAt(k) + seg.offset = SegAt(i) + image.load[k].offset
  BY <1>1, TwoSegments DEF seg
<1>3. /\ SegAt(k) \in Nat /\ End(k) \in Nat /\ image.load[k].offset \in Nat
  BY <1>1, OneSegment
<1>4. /\ SegAt(i) \in Nat /\ FileEnd(i) \in Nat /\ SegAt(i) <= FileEnd(i) /\ seg.offset \in Nat
  BY OneSegment DEF seg
<1>5. FileEnd(i) <= PAGE_END(FileEnd(i)) /\ PAGE_END(FileEnd(i)) \in Nat
  BY <1>4, RoundedUp
<1>6. a < SegAt(i) /\ a < FileEnd(i)
  BY <1>2, <1>3, <1>4
<1>7. a \notin Cleared
  BY <1>4, <1>6, SegmentWrites
<1>8. a \div PageSize \notin ZeroPages
  <2>1. a < PAGE_END(FileEnd(i))
    BY <1>4, <1>5, <1>6
  <2> QED BY <2>1, <1>5, SegmentPages
<1>9. ASSUME a \div PageSize \in FilePages \/ a \in ReadBytes
      PROVE  /\ FileEnd(k) = End(k)
             /\ FileStart + (a - PAGE_START(SegStart)) = image.load[k].offset + (a - SegAt(k))
  <2>1. PAGE_START(SegAt(i)) <= a
    BY <1>9, SegmentPages, SegmentWrites
  <2>2. /\ PAGE_START(SegStart) \in Nat /\ FileStart \in Nat /\ SegStart = SegAt(i)
        /\ FileStart + SegAt(i) = PAGE_START(SegStart) + seg.offset
    BY SegmentBytes
  <2>3. PAGE_START(SegAt(i)) < End(k)
    BY <1>3, <2>1, <2>2
  <2>4. FileEnd(k) = End(k) /\ SegAt(k) + seg.offset = SegAt(i) + image.load[k].offset
    BY <1>2, <2>3
  <2>5. PICK s \in Nat, t \in Nat, f \in Nat, o \in Nat, q \in Nat, x \in Nat :
          /\ s = SegAt(k) /\ t = SegAt(i) /\ f = FileStart /\ o = seg.offset
          /\ q = image.load[k].offset /\ x = PAGE_START(SegStart)
    BY <1>3, <1>4, <2>2
  <2>6. s + o = t + q /\ f + t = x + o
    BY <2>2, <2>4, <2>5
  <2>7. f + (a - x) = q + (a - s)
    BY ONLY <2>6, a \in Nat, s \in Nat, t \in Nat, f \in Nat, o \in Nat, q \in Nat, x \in Nat
  <2> QED BY <2>4, <2>5, <2>7
<1> QED BY <1>6, <1>7, <1>8, <1>9

\* The segment's own bytes are the file's.
LEMMA OwnWritten ==
  ASSUME Placed, i \in 1..Len(image.load), NEW a \in Nat, SegAt(i) <= a, a < FileEnd(i)
  PROVE  /\ a \notin Cleared /\ a \div PageSize \notin ZeroPages /\ a \div PageSize \in FilePages
         /\ a \div PageSize \in HeaderPages(seg)
         /\ PAGE_START(SegStart) <= a /\ a < PAGE_START(SegStart) + FileLength
         /\ FileStart + (a - PAGE_START(SegStart)) = seg.offset + (a - SegAt(i))
<1>1. /\ SegAt(i) \in Nat /\ FileEnd(i) \in Nat /\ seg.offset \in Nat
  BY OneSegment DEF seg
<1>2. FileEnd(i) <= PAGE_END(FileEnd(i)) /\ PAGE_END(FileEnd(i)) \in Nat
  BY <1>1, RoundedUp
<1>3. PAGE_START(SegAt(i)) <= SegAt(i) /\ PAGE_START(SegAt(i)) \in Nat
  BY <1>1, Rounded
<1>4. PAGE_START(SegAt(i)) <= a /\ a < PAGE_END(FileEnd(i))
  BY <1>1, <1>2, <1>3
<1>5. a \notin Cleared
  BY <1>1, SegmentWrites
<1>6. a \div PageSize \notin ZeroPages /\ a \div PageSize \in FilePages
      /\ a \div PageSize \in HeaderPages(seg)
  BY <1>2, <1>4, SegmentPages
<1>7. /\ PAGE_START(SegStart) \in Nat /\ FileStart \in Nat /\ SegStart = SegAt(i)
      /\ FileStart + SegAt(i) = PAGE_START(SegStart) + seg.offset
      /\ PAGE_START(SegStart) + FileLength = FileEnd(i)
  BY SegmentBytes
<1>8. PICK t \in Nat, f \in Nat, o \in Nat, x \in Nat :
        t = SegAt(i) /\ f = FileStart /\ o = seg.offset /\ x = PAGE_START(SegStart)
  BY <1>1, <1>7
<1>9. f + (a - x) = o + (a - t)
  <2>1. f + t = x + o
    BY <1>7, <1>8
  <2> QED BY ONLY <2>1, a \in Nat, t \in Nat, f \in Nat, o \in Nat, x \in Nat
<1> QED BY <1>4, <1>5, <1>6, <1>7, <1>8, <1>9

\* The rest of its bytes in memory are cleared or on the pages mapped for them.
LEMMA GapZeroed ==
  ASSUME Placed, i \in 1..Len(image.load), "W" \in seg.flags,
         NEW a \in Nat, FileEnd(i) <= a, a < End(i)
  PROVE  a \in Cleared \/ a \div PageSize \in ZeroPages
<1>1. /\ FileEnd(i) \in Nat /\ End(i) \in Nat
  BY OneSegment
<1>2. PAGE_END(FileEnd(i)) \in Nat /\ PAGE_END(End(i)) \in Nat /\ End(i) <= PAGE_END(End(i))
  BY <1>1, RoundedUp
<1>3. CASE a < PAGE_END(FileEnd(i))
  BY <1>3, SegmentWrites
<1>4. CASE PAGE_END(FileEnd(i)) <= a
  <2>1. a < PAGE_END(End(i))
    BY <1>1, <1>2
  <2> QED BY <1>4, <2>1, SegmentPages
<1> QED BY <1>2, <1>3, <1>4

\* The bytes of a segment in the file, at their addresses in memory ...
LEMMA ByteOfSegment ==
  ASSUME Placed, NEW k \in 1..Len(image.load), NEW n \in 0..(image.load[k].filesz - 1)
  PROVE  /\ n \in Nat /\ n < image.load[k].filesz
         /\ SegAt(k) + n \in Nat /\ SegAt(k) + n \in Address
         /\ SegAt(k) <= SegAt(k) + n /\ SegAt(k) + n < FileEnd(k) /\ SegAt(k) + n < End(k)
<1>1. /\ SegAt(k) \in Nat /\ FileEnd(k) \in Nat /\ End(k) \in Nat /\ FileEnd(k) <= End(k) /\ End(k) <= Word
      /\ image.load[k].filesz \in Nat /\ FileEnd(k) = SegAt(k) + image.load[k].filesz
  BY OneSegment DEF FileEnd
<1>2. Word \in Nat
  BY PageOfAddress
<1>3. PICK s \in Nat, f \in Nat, e \in Nat, m \in Nat, w \in Nat :
        s = SegAt(k) /\ f = FileEnd(k) /\ e = End(k) /\ m = image.load[k].filesz /\ w = Word
  BY <1>1, <1>2
<1>4. f <= e /\ e <= w /\ f = s + m /\ n \in 0..(m - 1)
  BY <1>1, <1>3
<1>5. /\ n \in Nat /\ n < m /\ s + n \in Nat /\ s + n \in 0..(w - 1) /\ s <= s + n /\ s + n < f
      /\ s + n < e
  BY ONLY <1>4, s \in Nat, f \in Nat, e \in Nat, m \in Nat, w \in Nat
<1> QED BY <1>3, <1>5 DEF Address

\* ... and those it has in memory only.
LEMMA ByteOfGap ==
  ASSUME Placed, NEW k \in 1..Len(image.load), NEW n \in Gap(k)
  PROVE  /\ SegAt(k) + n \in Nat /\ SegAt(k) + n \in Address
         /\ SegAt(k) <= SegAt(k) + n /\ FileEnd(k) <= SegAt(k) + n /\ SegAt(k) + n < End(k)
         /\ FileEnd(k) # End(k)
<1>1. /\ SegAt(k) \in Nat /\ FileEnd(k) \in Nat /\ End(k) \in Nat /\ FileEnd(k) <= End(k) /\ End(k) <= Word
      /\ image.load[k].filesz \in Nat /\ FileEnd(k) = SegAt(k) + image.load[k].filesz
      /\ image.load[k].memsz \in Nat /\ End(k) = SegAt(k) + image.load[k].memsz
  BY OneSegment DEF FileEnd, End
<1>2. Word \in Nat /\ n \in image.load[k].filesz..(image.load[k].memsz - 1)
  BY PageOfAddress DEF Gap
<1>3. PICK s \in Nat, f \in Nat, e \in Nat, m \in Nat, w \in Nat, z \in Nat :
        /\ s = SegAt(k) /\ f = FileEnd(k) /\ e = End(k) /\ m = image.load[k].filesz /\ w = Word
        /\ z = image.load[k].memsz
  BY <1>1, <1>2
<1>4. f <= e /\ e <= w /\ f = s + m /\ e = s + z /\ n \in m..(z - 1)
  BY <1>1, <1>2, <1>3
<1>5. /\ s + n \in Nat /\ s + n \in 0..(w - 1) /\ s <= s + n /\ f <= s + n
      /\ s + n < e /\ f # e
  BY ONLY <1>4, s \in Nat, f \in Nat, e \in Nat, m \in Nat, w \in Nat, z \in Nat
<1> QED BY <1>3, <1>5 DEF Address

-----------------------------------------------------------------------------
(* What a step keeps that leaves the memory or a page alone.               *)

\* A step that writes no memory and keeps the count of segments.
LEMMA BytesKept ==
  ASSUME BytesInv, UNCHANGED <<input, byte, load_start, i, unread>>,
         at' \notin {"headers", "reserve"},
         at' = "segments" \/ InMemory' => at = "segments" \/ InMemory
  PROVE  BytesInv'
<1>1. /\ image' = image /\ windows' = windows /\ others' = others /\ byte' = byte
      /\ load_start' = load_start /\ i' = i /\ unread' = unread
  BY DEF input
<1>2. /\ Reserved' <=> Reserved
      /\ Reservation' = Reservation
      /\ \A k : SegAt(k)' = SegAt(k) /\ FileEnd(k)' = FileEnd(k) /\ Gap(k)' = Gap(k)
  BY <1>1, Same
<1>3. ReadInv => ReadInv'
  BY <1>1, <1>2 DEF ReadInv
<1>4. ZeroInv => ZeroInv'
  BY <1>1, <1>2 DEF ZeroInv
<1>5. FreshInv => FreshInv'
  BY <1>1, <1>2 DEF FreshInv
<1> QED BY <1>2, <1>3, <1>4, <1>5 DEF BytesInv

\* Nor does it lose the header table.
LEMMA TableKept ==
  ASSUME HeaderTableFound, UNCHANGED <<input, byte, load_start, loaded_phdr, unread>>,
         InMemory' => InMemory
  PROVE  HeaderTableFound'
<1>1. /\ image' = image /\ byte' = byte
      /\ load_start' = load_start /\ loaded_phdr' = loaded_phdr /\ unread' = unread
  BY DEF input
<1> QED BY <1>1 DEF HeaderTableFound, Reserved

\* Nor does it touch others' pages, if it changes only the protection of others.
LEMMA OthersKept ==
  ASSUME OthersInv, UNCHANGED <<input, byte, load_start>>,
         load_start # 0 => \A p \in others : prot'[p] = prot[p]
  PROVE  OthersInv'
<1>1. others' = others /\ byte' = byte /\ load_start' = load_start
  BY DEF input
<1> QED BY <1>1 DEF OthersInv

\* The protections at the points a step does not reach.
LEMMA NoProtections ==
  ASSUME at' \notin {"segments", "loaded", "relocating", "relro", "linked"}
  PROVE  ProtInv' /\ WritableWhileRelocating' /\ LatterFlags'
BY DEF ProtInv, LatterInv, WritableWhileRelocating, LatterFlags

\* The flags of a page, as the model has them.
LEMMA Flags ==
  /\ {"R"} \in Prot /\ {} \in Prot /\ {"R", "W"} \in Prot
  /\ \A f \in Prot : f # None /\ f \cup {"R"} \in Prot /\ f \cup {"W"} \in Prot /\ f \cup {} = f
  /\ None \notin Nat /\ None # 0 /\ None \notin Page
  /\ Page \subseteq Nat
BY NoneAssumption, SizeAssumption DEF Prot, Page

-----------------------------------------------------------------------------
(* The steps.                                                              *)

\* Nothing is mapped but others' pages.
LEMMA InitElf == Init => ElfInv
<1> SUFFICES ASSUME Init PROVE ElfInv
  OBVIOUS
<1>1. /\ image \in Images /\ windows \in BOOLEAN /\ others \subseteq Page \ {0}
      /\ prot = [p \in Page |-> IF p \in others THEN {"R", "W"} ELSE None]
      /\ byte = [a \in Address |-> IF a \div PageSize \in others THEN None ELSE 0]
      /\ phdr_mmap = None /\ load_start = None /\ i = 1 /\ at = "headers"
  BY BuildsAssumption DEF Init
<1>2. TypeInv
  <2>1. prot \in [Page -> Prot \cup {None}]
    BY <1>1, Flags
  <2>2. i \in 1..(Len(image.load) + 1)
    BY <1>1, Tables
  <2> QED BY <1>1, <2>1, <2>2 DEF TypeInv
<1>3. ~ Reserved /\ ~ InMemory
  BY <1>1 DEF Reserved, InMemory
<1>4. PlaceInv
  BY <1>1, <1>3, Flags DEF PlaceInv
<1>5. MappedInv
  BY <1>1, <1>3, Flags DEF MappedInv
<1>6. OthersInv
  BY <1>1, PageOfAddress DEF OthersInv
<1>7. ProtInv /\ WritableWhileRelocating /\ LatterFlags
  BY <1>1 DEF ProtInv, LatterInv, WritableWhileRelocating, LatterFlags
<1>8. BytesInv
  BY <1>1, <1>3 DEF BytesInv
<1>9. HeaderTableFound
  BY <1>3 DEF HeaderTableFound
<1> QED BY <1>2, <1>4, <1>5, <1>6, <1>7, <1>8, <1>9 DEF ElfInv

\* The header table comes on a page that was free.
LEMMA ReadHeadersElf ==
  ASSUME ElfInv, NEW p \in Page, ReadHeaders(p)
  PROVE  ElfInv'
<1>1. /\ image' = image /\ windows' = windows /\ others' = others /\ byte' = byte
      /\ load_start' = load_start /\ i' = i /\ loaded_phdr' = loaded_phdr /\ unread' = unread
      /\ at = "headers" /\ at' = "reserve" /\ phdr_mmap' = p /\ prot[p] = None
      /\ prot' = [prot EXCEPT ![p] = {"R"}]
      /\ UNCHANGED input
  BY DEF ReadHeaders, MapFile, input, Free
<1>2. TypeInv /\ PlaceInv /\ MappedInv /\ OthersInv /\ BytesInv
  BY DEF ElfInv
<1>3. load_start = None /\ phdr_mmap = None /\ i = 1 /\ ~ Reserved
  BY <1>1, <1>2 DEF PlaceInv, Reserved
<1>4. p \notin others /\ p # None
  BY <1>1, <1>2, Flags DEF MappedInv
<1>5. ~ Reserved' /\ ~ InMemory'
  BY <1>1, <1>3 DEF Reserved, InMemory
<1>6. TypeInv'
  BY <1>1, <1>2, Flags DEF TypeInv
<1>7. PlaceInv'
  BY <1>1, <1>3, <1>4, <1>5 DEF PlaceInv
<1>8. MappedInv'
  BY <1>1, <1>2, <1>3, <1>4, <1>5, Flags DEF MappedInv, TypeInv
<1>9. OthersInv'
  BY <1>1, <1>2, <1>4, OthersKept DEF TypeInv
<1>10. ProtInv' /\ WritableWhileRelocating' /\ LatterFlags'
  BY <1>1, NoProtections
<1>11. BytesInv'
  BY <1>1, <1>2, <1>5 DEF BytesInv
<1>12. HeaderTableFound'
  BY <1>5 DEF HeaderTableFound
<1> QED BY <1>6, <1>7, <1>8, <1>9, <1>10, <1>11, <1>12 DEF ElfInv

\* Of a failed load the header table goes, wherever it failed.
LEMMA LoadFailsElf ==
  ASSUME ElfInv, at \in {"headers", "reserve", "segments"}, LoadFails
  PROVE  ElfInv'
<1>1. /\ image' = image /\ windows' = windows /\ others' = others /\ byte' = byte
      /\ load_start' = load_start /\ i' = i /\ loaded_phdr' = loaded_phdr /\ unread' = unread
      /\ at' = "load_failed" /\ phdr_mmap' = None
      /\ prot' = IF phdr_mmap = None THEN prot ELSE [prot EXCEPT ![phdr_mmap] = None]
      /\ UNCHANGED input
  BY DEF LoadFails, input
<1>2. TypeInv /\ PlaceInv /\ MappedInv /\ OthersInv /\ BytesInv /\ HeaderTableFound
  BY DEF ElfInv
<1>3. /\ Reserved' <=> Reserved
      /\ Reservation' = Reservation
      /\ Placed' <=> Placed
      /\ ~ InMemory'
  BY <1>1, Same DEF InMemory
<1>4. TypeInv'
  BY <1>1, <1>2, Flags DEF TypeInv
<1>5. PlaceInv'
  <2>1. Reserved => None \notin Reservation
    BY <1>2, ReservationFits, Flags DEF PlaceInv
  <2>2. None \notin others
    BY <1>2, Flags DEF TypeInv
  <2> QED BY <1>1, <1>2, <1>3, <2>1, <2>2 DEF PlaceInv
<1>6. MappedInv'
  <2>1. \A p \in Page : prot'[p] = IF p = phdr_mmap THEN None ELSE prot[p]
    BY <1>1, <1>2, Flags DEF TypeInv
  <2>2. phdr_mmap \notin others /\ (Reserved => phdr_mmap \notin Reservation)
    BY <1>2 DEF PlaceInv
  <2>3. at # "released"
    OBVIOUS
  <2> QED BY <1>1, <1>2, <1>3, <2>1, <2>2, <2>3, Flags DEF MappedInv
<1>7. OthersInv'
  BY <1>1, <1>2, OthersKept DEF TypeInv, PlaceInv
<1>8. ProtInv' /\ WritableWhileRelocating' /\ LatterFlags'
  BY <1>1, NoProtections
<1>9. BytesInv'
  BY <1>1, <1>2, <1>3, BytesKept
<1>10. HeaderTableFound'
  BY <1>3 DEF HeaderTableFound
<1> QED BY <1>4, <1>5, <1>6, <1>7, <1>8, <1>9, <1>10 DEF ElfInv

\* A fault changes nothing but what runs next.
LEMMA CrashElf ==
  ASSUME ElfInv, at = "segments", Crash
  PROVE  ElfInv'
<1>1. /\ image' = image /\ windows' = windows /\ others' = others /\ byte' = byte
      /\ load_start' = load_start /\ i' = i /\ loaded_phdr' = loaded_phdr /\ unread' = unread
      /\ at' = "crashed" /\ phdr_mmap' = phdr_mmap /\ prot' = prot
      /\ UNCHANGED input
  BY DEF Crash, input
<1>2. TypeInv /\ PlaceInv /\ MappedInv /\ OthersInv /\ BytesInv /\ HeaderTableFound
  BY DEF ElfInv
<1>3. /\ Reserved' <=> Reserved
      /\ Reservation' = Reservation
      /\ Placed' <=> Placed
      /\ ~ InMemory'
  BY <1>1, Same DEF InMemory
<1>4. TypeInv'
  BY <1>1, <1>2 DEF TypeInv
<1>5. PlaceInv'
  BY <1>1, <1>2, <1>3 DEF PlaceInv
<1>6. MappedInv'
  BY <1>1, <1>2, <1>3 DEF MappedInv
<1>7. OthersInv'
  BY <1>1, <1>2, OthersKept
<1>8. ProtInv' /\ WritableWhileRelocating' /\ LatterFlags'
  BY <1>1, NoProtections
<1>9. BytesInv'
  BY <1>1, <1>2, <1>3, BytesKept
<1>10. HeaderTableFound'
  BY <1>3 DEF HeaderTableFound
<1> QED BY <1>4, <1>5, <1>6, <1>7, <1>8, <1>9, <1>10 DEF ElfInv

\* The reservation that failed unseen: most of the invariant says nothing of it.
LEMMA ReserveNullElf ==
  ASSUME ElfInv, ReserveNull
  PROVE  ElfInv'
<1>1. /\ image' = image /\ windows' = windows /\ others' = others /\ byte' = byte
      /\ load_start' = 0 /\ i' = i /\ loaded_phdr' = loaded_phdr /\ unread' = unread
      /\ at = "reserve" /\ at' = "segments" /\ phdr_mmap' = phdr_mmap /\ prot' = prot
      /\ windows
  BY DEF ReserveNull, input
<1>2. TypeInv /\ PlaceInv /\ MappedInv
  BY DEF ElfInv
<1>3. load_start = None /\ ~ Reserved
  BY <1>1, <1>2 DEF PlaceInv, Reserved
<1>4. ~ Reserved' /\ ~ InMemory'
  BY <1>1 DEF Reserved, InMemory
<1>5. TypeInv'
  BY <1>1, <1>2 DEF TypeInv
<1>6. PlaceInv'
  BY <1>1, <1>2, <1>4, Flags DEF PlaceInv
<1>7. MappedInv'
  BY <1>1, <1>2, <1>3, <1>4 DEF MappedInv
<1>8. OthersInv'
  BY <1>1 DEF OthersInv
<1>9. ProtInv' /\ WritableWhileRelocating' /\ LatterFlags'
  BY <1>1, <1>4 DEF ProtInv, LatterInv, WritableWhileRelocating, LatterFlags
<1>10. BytesInv'
  BY <1>1, <1>4 DEF BytesInv
<1>11. HeaderTableFound'
  BY <1>4 DEF HeaderTableFound
<1> QED BY <1>5, <1>6, <1>7, <1>8, <1>9, <1>10, <1>11 DEF ElfInv

\* The reservation is of free pages, so of nobody else's, and of zeroes on Windows.
LEMMA ReserveElf ==
  ASSUME ElfInv, NEW a \in Address, Reserve(a)
  PROVE  ElfInv'
<1>1. /\ image' = image /\ windows' = windows /\ others' = others /\ byte' = byte
      /\ load_start' = a /\ i' = i /\ loaded_phdr' = loaded_phdr /\ unread' = unread
      /\ at = "reserve" /\ at' = "segments" /\ phdr_mmap' = phdr_mmap
      /\ load_size # 0 /\ PAGE_OFFSET(a) = 0 /\ a + load_size <= Word
  BY DEF Reserve, input
<1> DEFINE T == Touched(a, a + load_size)
<1>2. T \subseteq Free \ {0}
  BY DEF Reserve
<1>3. prot' = [p \in Page |-> IF p \notin T THEN prot[p] ELSE IF windows THEN {"R", "W"} ELSE {}]
  BY DEF Reserve
<1>4. TypeInv /\ PlaceInv /\ MappedInv /\ OthersInv /\ BytesInv
  BY DEF ElfInv
<1>5. load_start = None /\ i = 1 /\ ~ Reserved
  BY <1>1, <1>4 DEF PlaceInv, Reserved
<1>6. image.load # <<>> /\ load_size \in Nat /\ load_size > 0 /\ image \in Images
  <2>1. image.load # <<>>
    BY <1>1 DEF load_size
  <2> QED BY <2>1, <1>4, Span DEF TypeInv
<1>7. load_size' = load_size
  BY <1>1, SameSize
<1>8. Reservation' = T
  BY <1>1, <1>7 DEF Reservation
<1>9. a \in Nat /\ a # 0
  <2>1. a \in Nat
    BY PageOfAddress
  <2>2. T = (a \div PageSize)..((a + load_size - 1) \div PageSize)
    BY <2>1, <1>6, TouchedIs
  <2>3. ASSUME a = 0 PROVE FALSE
    <3>1. PageSize \in Nat \ {0} /\ load_size - 1 \in Nat
      BY <1>6, SizeAssumption
    <3>2. (load_size - 1) \div PageSize \in Nat
      BY <3>1, Division
    <3>3. 0 \div PageSize = 0
      <4>1. 0 = 0 * PageSize + 0 /\ 0 \in 0..(PageSize - 1)
        BY <3>1
      <4> QED BY ONLY <3>1, <4>1, 0 \in Nat, DivisionUnique
    <3>4. a \div PageSize = 0 /\ (a + load_size - 1) \div PageSize \in Nat
      BY <2>3, <3>2, <3>3, <1>6
    <3>5. 0 \in T
      BY <2>2, <3>4
    <3> QED BY <3>5, <1>2
  <2> QED BY <2>1, <2>3
<1>10. Reserved' /\ ~ InMemory' /\ Placed'
  BY <1>1, <1>6, <1>7, <1>9, Flags DEF Reserved, InMemory, Placed
<1>11. /\ T \subseteq Page /\ T \cap others = {} /\ phdr_mmap \notin T
       /\ \A p \in T : prot[p] = None
  BY <1>2, <1>4 DEF Free, MappedInv
<1> HIDE DEF T
<1>12. TypeInv'
  <2>1. prot' \in [Page -> Prot \cup {None}]
    BY <1>3, <1>4, Flags DEF TypeInv
  <2> QED BY <1>1, <1>4, <1>9, <2>1 DEF TypeInv
<1>13. PlaceInv'
  BY <1>1, <1>4, <1>8, <1>9, <1>10, <1>11, Flags DEF PlaceInv
<1>14. MappedInv'
  <2>1. \A p \in Page : prot'[p] # None <=> prot[p] # None \/ p \in T
    BY <1>3, <1>11, Flags
  <2> QED BY <1>1, <1>4, <1>5, <1>8, <1>10, <2>1 DEF MappedInv
<1>15. OthersInv'
  <2>1. \A p \in others : prot'[p] = prot[p]
    BY <1>3, <1>4, <1>11 DEF TypeInv
  <2>2. load_start # 0
    BY <1>5, Flags
  <2> QED BY <1>1, <1>4, <2>1, <2>2 DEF OthersInv
<1>16. ProtInv' /\ WritableWhileRelocating' /\ LatterFlags'
  <2>1. windows' => \A p \in Reservation' : prot'[p] = {"R", "W"}
    BY <1>1, <1>3, <1>8, <1>11
  <2>2. \A p : Latest(p)'
    BY <1>1, <1>5 DEF Latest
  <2>3. ProtInv'
    BY <1>1, <2>1, <2>2 DEF ProtInv, LatterInv
  <2> QED BY <1>1, <2>3 DEF WritableWhileRelocating, LatterFlags
<1>17. BytesInv'
  <2>1. ReadInv' /\ ZeroInv'
    BY <1>1, <1>5 DEF ReadInv, ZeroInv
  <2>2. \A x \in Address : x \div PageSize \in T => byte[x] = 0
    BY <1>1, <1>4, <1>11 DEF BytesInv
  <2>3. FreshInv'
    BY <1>1, <1>8, <2>2 DEF FreshInv
  <2> QED BY <1>1, <2>1, <2>3 DEF BytesInv
<1>18. HeaderTableFound'
  BY <1>10 DEF HeaderTableFound
<1> QED BY <1>12, <1>13, <1>14, <1>15, <1>16, <1>17, <1>18 DEF ElfInv

\* A segment mapped is as in the file, and the earlier ones stay as they are: where it
\* replaces a page of theirs, the file has the same bytes there.
LEMMA MapSegmentElf ==
  ASSUME ElfInv, MapSegment
  PROVE  ElfInv'
<1> DEFINE H == HeaderPages(seg)
<1>1. /\ image' = image /\ windows' = windows /\ others' = others
      /\ load_start' = load_start /\ i' = i + 1 /\ loaded_phdr' = loaded_phdr /\ unread' = unread
      /\ at = "segments" /\ at' = "segments" /\ phdr_mmap' = phdr_mmap
      /\ i <= Len(image.load) /\ ~ windows
  BY DEF MapSegment, Segments, input
<1>2. byte' = [a \in Address |->
                 IF a \in Cleared \/ a \div PageSize \in ZeroPages THEN 0
                 ELSE IF a \div PageSize \in FilePages
                 THEN FileByte(FileStart + (a - PAGE_START(SegStart)))
                 ELSE byte[a]]
  BY DEF MapSegment
<1>3. prot' = [p \in Page |-> IF p \in FilePages \cup ZeroPages THEN seg.flags ELSE prot[p]]
  BY DEF MapSegment
<1>4. TypeInv /\ PlaceInv /\ MappedInv /\ OthersInv /\ BytesInv /\ ProtInv
  BY DEF ElfInv
<1>5. Reserved /\ Placed /\ Reservation \cap others = {} /\ phdr_mmap \notin Reservation
  BY <1>1, <1>4 DEF PlaceInv
<1>6. /\ Reserved' /\ Placed' /\ ~ InMemory' /\ Reservation' = Reservation
      /\ \A k : /\ SegAt(k)' = SegAt(k) /\ FileEnd(k)' = FileEnd(k) /\ Gap(k)' = Gap(k)
                /\ HeaderPages(image.load[k])' = HeaderPages(image.load[k])
  BY <1>1, <1>5, Same DEF InMemory
<1>7. Len(image.load) \in Nat /\ i \in 1..Len(image.load) /\ i' \in 1..(Len(image.load) + 1)
      /\ 1..(i' - 1) = 1..i /\ 1..i = (1..(i - 1)) \cup {i} /\ i \in Nat
  BY <1>1, <1>4, Tables DEF TypeInv
<1>8. H = FilePages \cup ZeroPages
  BY <1>5, <1>7, SegmentPages
<1>9. H = HeaderPages(image.load[i]) /\ H \subseteq Reservation /\ H \subseteq Page /\ seg.flags \in Prot
  BY <1>5, <1>7, OneSegment, ReservationFits DEF seg
<1>10. \A p \in Page : prot'[p] = IF p \in H THEN seg.flags ELSE prot[p]
  BY <1>3, <1>8
<1>11. \A a \in Address :
         byte'[a] = IF a \in Cleared \/ a \div PageSize \in ZeroPages THEN 0
                    ELSE IF a \div PageSize \in FilePages
                    THEN FileByte(FileStart + (a - PAGE_START(SegStart)))
                    ELSE byte[a]
  BY <1>2
<1> HIDE DEF H
<1>12. TypeInv'
  <2>1. prot' \in [Page -> Prot \cup {None}]
    BY <1>3, <1>4, <1>9 DEF TypeInv
  <2> QED BY <1>1, <1>4, <1>7, <2>1 DEF TypeInv
<1>13. PlaceInv'
  BY <1>1, <1>4, <1>5, <1>6 DEF PlaceInv, InMemory
<1>14. MappedInv'
  <2>1. \A p \in Page : p \in H => prot[p] # None
    BY <1>1, <1>4, <1>5, <1>9 DEF MappedInv
  <2>2. \A p \in Page : prot'[p] # None <=> prot[p] # None
    BY <1>9, <1>10, <2>1, Flags
  <2> QED BY <1>1, <1>4, <1>5, <1>6, <2>2 DEF MappedInv
<1>15. OthersInv'
  <2>1. SUFFICES ASSUME NEW p \in others, NEW n \in 0..(PageSize - 1)
                 PROVE  prot'[p] = {"R", "W"} /\ byte'[p * PageSize + n] = None
    <3>1. 0 \in 0..(PageSize - 1)
      BY SizeAssumption
    <3> QED BY <1>1, <3>1, <2>1 DEF OthersInv
  <2>2. p \in Page /\ p \notin H /\ load_start # 0
    BY <1>4, <1>5, <1>9 DEF TypeInv, Reserved
  <2>3. p * PageSize + n \in Address /\ (p * PageSize + n) \div PageSize = p
    BY <2>2, PageOfAddress
  <2>4. p * PageSize + n \notin Cleared
    BY <1>5, <1>7, <2>2, <2>3, SegmentWrites DEF H
  <2>5. p \notin FilePages /\ p \notin ZeroPages
    BY <1>8, <2>2
  <2>6. byte'[p * PageSize + n] = byte[p * PageSize + n]
    BY <1>11, <2>3, <2>4, <2>5
  <2> QED BY <1>4, <1>10, <2>2, <2>6 DEF OthersInv
<1>16. ProtInv' /\ WritableWhileRelocating' /\ LatterFlags'
  <2>1. ASSUME NEW p \in Reservation PROVE Latest(p)'
    <3>1. p \in Page
      BY <1>5, ReservationFits
    <3>2. CASE p \in H
      <4>0. PICK k \in 1..Len(image.load) : k = i
        BY <1>7
      <4>1. p \in HeaderPages(image.load[k])'
        BY <1>6, <1>9, <3>2, <4>0
      <4>2. prot'[p] = image'.load[k].flags
        BY <1>1, <1>10, <3>1, <3>2, <4>0 DEF seg
      <4>3. k \in 1..(i' - 1) /\ (k + 1)..(i' - 1) = {}
        BY <1>1, <1>7, <4>0
      <4> QED BY <4>1, <4>2, <4>3 DEF Latest
    <3>3. CASE p \notin H
      <4>1. Latest(p)
        BY <1>1, <1>4 DEF ProtInv
      <4>2. prot'[p] = prot[p] /\ p \notin HeaderPages(image.load[i])
        BY <1>9, <1>10, <3>1, <3>3
      <4>3. CASE \A k \in 1..(i - 1) : p \notin HeaderPages(image.load[k])
        <5>1. \A k \in 1..(i' - 1) : p \notin HeaderPages(image.load[k])'
          <6>1. \A k \in 1..(i' - 1) : k \in 1..(i - 1) \/ k = i
            BY ONLY <1>7
          <6>2. \A k \in 1..(i' - 1) : p \notin HeaderPages(image.load[k])
            BY ONLY <4>2, <4>3, <6>1
          <6>3. \A k : HeaderPages(image.load[k])' = HeaderPages(image.load[k])
            BY ONLY <1>6
          <6> QED BY ONLY <6>2, <6>3
        <5> QED BY <5>1 DEF Latest
      <4>4. CASE \E k \in 1..(i - 1) :
                   /\ p \in HeaderPages(image.load[k])
                   /\ prot[p] = image.load[k].flags
                   /\ \A l \in (k + 1)..(i - 1) : p \notin HeaderPages(image.load[l])
        <5>1. PICK k \in 1..(i - 1) :
                /\ p \in HeaderPages(image.load[k])
                /\ prot[p] = image.load[k].flags
                /\ \A l \in (k + 1)..(i - 1) : p \notin HeaderPages(image.load[l])
          BY <4>4
        <5>2. /\ k \in 1..(i' - 1) /\ p \in HeaderPages(image.load[k])'
              /\ prot'[p] = image'.load[k].flags
          BY <1>1, <1>6, <1>7, <4>2, <5>1
        <5>3. \A l \in (k + 1)..(i' - 1) : p \notin HeaderPages(image.load[l])'
          <6>1. TAKE l \in (k + 1)..(i' - 1)
          <6>2. l \in (k + 1)..(i - 1) \/ l = i
            BY <1>1, <1>7
          <6> QED BY <1>6, <4>2, <5>1, <6>2
        <5> QED BY <5>2, <5>3 DEF Latest
      <4> QED BY <4>1, <4>3, <4>4 DEF Latest
    <3> QED BY <3>2, <3>3
  <2>2. ProtInv'
    BY <1>1, <1>6, <2>1 DEF ProtInv, LatterInv
  <2> QED BY <1>1, <2>2 DEF WritableWhileRelocating, LatterFlags
<1>17. BytesInv'
  <2>0. ReadInv /\ ZeroInv
    BY <1>1, <1>4, <1>5 DEF BytesInv
  <2>1. ASSUME ~ unread, NEW k \in 1..i, NEW n \in 0..(image.load[k].filesz - 1)
        PROVE  byte'[SegAt(k) + n] = FileByte(image.load[k].offset + n)
    <3> DEFINE a == SegAt(k) + n
    <3>0. k \in 1..Len(image.load)
      BY <1>7
    <3>1. /\ k \in 1..Len(image.load) /\ n \in Nat /\ a \in Nat /\ a \in Address
          /\ SegAt(k) <= a /\ a < FileEnd(k) /\ a < End(k) /\ a - SegAt(k) = n
          /\ n < image.load[k].filesz
      <4>1. Placed /\ n \in 0..(image.load[k].filesz - 1)
        BY <1>5
      <4>2. /\ n \in Nat /\ a \in Nat /\ a \in Address /\ n < image.load[k].filesz
            /\ SegAt(k) <= a /\ a < FileEnd(k) /\ a < End(k)
        BY ONLY <3>0, <4>1, ByteOfSegment
      <4>3. SegAt(k) \in Nat
        BY <3>0, <4>1, OneSegment
      <4>4. a - SegAt(k) = n
        BY ONLY <4>2, <4>3
      <4> QED BY <3>0, <4>2, <4>4
    <3> HIDE DEF a
    <3>2. CASE k = i
      <4>1. /\ a \notin Cleared /\ a \div PageSize \notin ZeroPages /\ a \div PageSize \in FilePages
            /\ FileStart + (a - PAGE_START(SegStart)) = seg.offset + (a - SegAt(i))
        BY <1>5, <1>7, <3>1, <3>2, OwnWritten
      <4>2. byte'[a] = FileByte(seg.offset + (a - SegAt(i)))
        BY <1>11, <3>1, <4>1
      <4> QED BY <3>1, <3>2, <4>2 DEF a, seg
    <3>3. CASE k # i
      <4>1. k \in 1..(i - 1)
        BY <1>7, <3>3
      <4>2. /\ a \notin Cleared /\ a \div PageSize \notin ZeroPages
            /\ a \div PageSize \in FilePages =>
                 FileStart + (a - PAGE_START(SegStart)) = image.load[k].offset + (a - SegAt(k))
        BY <1>5, <1>7, <3>1, <4>1, EarlierKept
      <4>3. byte[a] = FileByte(image.load[k].offset + n)
        BY <2>0, <2>1, <4>1 DEF ReadInv, a
      <4>4. byte'[a] = FileByte(image.load[k].offset + n)
        BY <1>11, <3>1, <4>2, <4>3
      <4> QED BY <4>4 DEF a
    <3> QED BY <3>2, <3>3
  <2>2. ReadInv'
    BY <1>1, <1>6, <1>7, <2>1 DEF ReadInv, FileByte
  <2>3. ASSUME NEW k \in 1..i, "W" \in image.load[k].flags, NEW n \in Gap(k)
        PROVE  byte'[SegAt(k) + n] = 0
    <3> DEFINE a == SegAt(k) + n
    <3>1. /\ k \in 1..Len(image.load) /\ a \in Nat /\ a \in Address
          /\ SegAt(k) <= a /\ FileEnd(k) <= a /\ a < End(k) /\ FileEnd(k) # End(k)
      BY <1>5, <1>7, <2>3, ByteOfGap
    <3> HIDE DEF a
    <3>2. CASE k = i
      <4>1. a \in Cleared \/ a \div PageSize \in ZeroPages
        BY <1>5, <1>7, <2>3, <3>1, <3>2, GapZeroed DEF seg
      <4> QED BY <1>11, <3>1, <4>1 DEF a
    <3>3. CASE k # i
      <4>1. k \in 1..(i - 1)
        BY <1>7, <3>3
      <4>2. /\ a \notin Cleared /\ a \div PageSize \notin ZeroPages
            /\ a \div PageSize \notin FilePages
        BY <1>5, <1>7, <3>1, <4>1, EarlierKept
      <4>3. byte[a] = 0
        BY <2>0, <2>3, <4>1 DEF ZeroInv, a
      <4>4. byte'[a] = 0
        BY <1>11, <3>1, <4>2, <4>3
      <4> QED BY <4>4 DEF a
    <3> QED BY <3>2, <3>3
  <2>4. ZeroInv'
    BY <1>1, <1>6, <1>7, <2>3 DEF ZeroInv
  <2>5. FreshInv'
    BY <1>1 DEF FreshInv
  <2> QED BY <1>1, <2>2, <2>4, <2>5 DEF BytesInv
<1>18. HeaderTableFound'
  BY <1>6 DEF HeaderTableFound
<1> QED BY <1>12, <1>13, <1>14, <1>15, <1>16, <1>17, <1>18 DEF ElfInv

\* The same of a segment read into the reservation, with zeroes from the reservation itself.
LEMMA ReadSegmentElf ==
  ASSUME ElfInv, NEW ok \in BOOLEAN, ReadSegment(ok)
  PROVE  ElfInv'
<1>1. /\ image' = image /\ windows' = windows /\ others' = others /\ prot' = prot
      /\ load_start' = load_start /\ i' = i + 1 /\ loaded_phdr' = loaded_phdr
      /\ unread' = (unread \/ ~ ok)
      /\ at = "segments" /\ at' = "segments" /\ phdr_mmap' = phdr_mmap
      /\ i <= Len(image.load) /\ windows
  BY DEF ReadSegment, Segments, input
<1>2. \A a \in Address :
        byte'[a] = IF a \in Cleared THEN 0
                   ELSE IF ok /\ a \in ReadBytes THEN FileByte(FileStart + (a - PAGE_START(SegStart)))
                   ELSE byte[a]
  BY DEF ReadSegment
<1>3. TypeInv /\ PlaceInv /\ MappedInv /\ OthersInv /\ BytesInv /\ ProtInv
  BY DEF ElfInv
<1>4. Reserved => Placed /\ Reservation \cap others = {}
  BY <1>3 DEF PlaceInv
<1>5. /\ Reserved' <=> Reserved
      /\ Placed' <=> Placed
      /\ Reservation' = Reservation
      /\ ~ InMemory'
      /\ \A k : /\ SegAt(k)' = SegAt(k) /\ FileEnd(k)' = FileEnd(k) /\ Gap(k)' = Gap(k)
  BY <1>1, Same DEF InMemory
<1>6. Len(image.load) \in Nat /\ i \in 1..Len(image.load) /\ i' \in 1..(Len(image.load) + 1)
      /\ 1..(i' - 1) = 1..i /\ 1..i = (1..(i - 1)) \cup {i} /\ i \in Nat
  BY <1>1, <1>3, Tables DEF TypeInv
<1>7. TypeInv'
  BY <1>1, <1>3, <1>6 DEF TypeInv
<1>8. PlaceInv'
  BY <1>1, <1>3, <1>5 DEF PlaceInv
<1>9. MappedInv'
  BY <1>1, <1>3, <1>5 DEF MappedInv
<1>10. ASSUME Reserved
       PROVE  HeaderPages(seg) \subseteq Reservation /\ HeaderPages(seg) \cap others = {}
  BY <1>4, <1>6, <1>10, OneSegment DEF seg
<1>11. OthersInv'
  <2>1. SUFFICES ASSUME load_start # 0, NEW p \in others, NEW n \in 0..(PageSize - 1)
                 PROVE  byte'[p * PageSize + n] = byte[p * PageSize + n]
    BY <1>1, <1>3 DEF OthersInv
  <2>2. p \in Page /\ Reserved
    BY <1>1, <1>3, <2>1 DEF TypeInv, PlaceInv, Reserved
  <2>3. p * PageSize + n \in Address /\ (p * PageSize + n) \div PageSize = p
    BY <2>2, PageOfAddress
  <2>4. p * PageSize + n \notin Cleared /\ p * PageSize + n \notin ReadBytes
    BY <1>4, <1>6, <1>10, <2>2, <2>3, SegmentWrites
  <2> QED BY <1>2, <2>3, <2>4
<1>12. ProtInv' /\ WritableWhileRelocating' /\ LatterFlags'
  <2>1. ProtInv'
    BY <1>1, <1>3, <1>5 DEF ProtInv, LatterInv
  <2> QED BY <1>1, <2>1 DEF WritableWhileRelocating, LatterFlags
<1>13. ASSUME Reserved PROVE ReadInv' /\ ZeroInv' /\ FreshInv'
  <2>0. ReadInv /\ ZeroInv /\ FreshInv /\ Placed
    BY <1>1, <1>3, <1>4, <1>13 DEF BytesInv
  <2>1. ASSUME ~ unread, ok, NEW k \in 1..i, NEW n \in 0..(image.load[k].filesz - 1)
        PROVE  byte'[SegAt(k) + n] = FileByte(image.load[k].offset + n)
    <3> DEFINE a == SegAt(k) + n
    <3>0. k \in 1..Len(image.load)
      BY <1>6
    <3>1. /\ n \in Nat /\ a \in Nat /\ a \in Address /\ n < image.load[k].filesz
          /\ SegAt(k) <= a /\ a < FileEnd(k) /\ a < End(k)
      BY ONLY <2>0, <2>1, <3>0, ByteOfSegment
    <3>2. SegAt(k) \in Nat
      BY <2>0, <3>0, OneSegment
    <3>3. a - SegAt(k) = n
      BY ONLY <3>1, <3>2
    <3> HIDE DEF a
    <3>4. CASE k = i
      <4>1. /\ a \notin Cleared /\ a \div PageSize \in HeaderPages(seg)
            /\ PAGE_START(SegStart) <= a /\ a < PAGE_START(SegStart) + FileLength
            /\ FileStart + (a - PAGE_START(SegStart)) = seg.offset + (a - SegAt(i))
        BY <1>6, <2>0, <3>1, <3>4, OwnWritten
      <4>2. a \div PageSize \in Page /\ a \div PageSize \in Reservation
        BY <1>10, <1>13, <3>1, <4>1, PageOfAddress
      <4>3. prot[a \div PageSize] # None
        BY <1>1, <1>3, <1>13, <4>2 DEF MappedInv
      <4>4. a \in ReadBytes
        BY <3>1, <4>1, <4>3 DEF ReadBytes
      <4>5. byte'[a] = FileByte(seg.offset + (a - SegAt(i)))
        BY <1>2, <2>1, <3>1, <4>1, <4>4
      <4> QED BY <3>3, <3>4, <4>5 DEF a, seg
    <3>5. CASE k # i
      <4>1. k \in 1..(i - 1)
        BY <1>6, <3>5
      <4>2. /\ a \notin Cleared
            /\ a \in ReadBytes =>
                 FileStart + (a - PAGE_START(SegStart)) = image.load[k].offset + (a - SegAt(k))
        BY <1>6, <2>0, <3>1, <4>1, EarlierKept
      <4>3. byte[a] = FileByte(image.load[k].offset + n)
        BY <2>0, <2>1, <4>1 DEF ReadInv, a
      <4>4. byte'[a] = FileByte(image.load[k].offset + n)
        BY <1>2, <3>1, <3>3, <4>2, <4>3
      <4> QED BY <4>4 DEF a
    <3> QED BY <3>4, <3>5
  <2>2. ReadInv'
    BY <1>1, <1>5, <1>6, <2>1 DEF ReadInv, FileByte
  <2>3. ASSUME NEW a \in Address, a \div PageSize \in Reservation,
               \A k \in 1..i : FileEnd(k) <= a
        PROVE  byte'[a] = 0
    <3>1. FileEnd(i) <= a /\ i \in 1..i
      BY <1>6, <2>3
    <3>2. a \notin ReadBytes
      <4>1. a \in Nat /\ FileEnd(i) \in Nat
        BY <1>6, <2>0, OneSegment, PageOfAddress
      <4> QED BY <1>6, <2>0, <3>1, <4>1, SegmentWrites
    <3>3. byte[a] = 0
      <4>1. \A k \in 1..(i - 1) : FileEnd(k) <= a
        BY <1>6, <2>3
      <4> QED BY <1>1, <2>0, <2>3, <4>1 DEF FreshInv
    <3> QED BY <1>2, <3>2, <3>3
  <2>4. FreshInv'
    BY <1>1, <1>5, <1>6, <2>3 DEF FreshInv
  <2>5. ASSUME NEW k \in 1..i, NEW n \in Gap(k)
        PROVE  byte'[SegAt(k) + n] = 0
    <3> DEFINE a == SegAt(k) + n
    <3>0. k \in 1..Len(image.load)
      BY <1>6
    <3>1. /\ a \in Nat /\ a \in Address
          /\ SegAt(k) <= a /\ FileEnd(k) <= a /\ a < End(k) /\ FileEnd(k) # End(k)
      BY ONLY <2>0, <2>5, <3>0, ByteOfGap
    <3> HIDE DEF a
    <3>2. CASE k = i
      <4>1. \A j \in 1..i : FileEnd(j) <= a
        <5>1. TAKE j \in 1..i
        <5>2. j \in 1..Len(image.load) /\ (j = i \/ j < i)
          BY <1>6
        <5>3. /\ FileEnd(j) \in Nat /\ End(j) \in Nat /\ FileEnd(j) <= End(j)
              /\ SegAt(i) \in Nat /\ (j < i => End(j) <= SegAt(i))
          BY <1>6, <2>0, <5>2, OneSegment, TwoSegments
        <5> QED BY <3>1, <3>2, <5>2, <5>3
      <4>2. a \div PageSize \in HeaderPages(seg)
        <5>1. /\ SegAt(i) \in Nat /\ End(i) \in Nat
              /\ a \div PageSize \in HeaderPages(seg) <=>
                   PAGE_START(SegAt(i)) <= a /\ a < PAGE_END(End(i))
          BY <1>6, <2>0, <3>1, OneSegment DEF seg
        <5>2. /\ PAGE_START(SegAt(i)) <= SegAt(i) /\ PAGE_START(SegAt(i)) \in Nat
              /\ End(i) <= PAGE_END(End(i)) /\ PAGE_END(End(i)) \in Nat
          BY <5>1, Rounded, RoundedUp
        <5> QED BY <3>1, <3>2, <5>1, <5>2
      <4>3. a \div PageSize \in Reservation
        BY <1>10, <1>13, <4>2
      <4> QED BY <2>3, <3>1, <4>1, <4>3 DEF a
    <3>3. CASE k # i
      <4>1. k \in 1..(i - 1)
        BY <1>6, <3>3
      <4>2. a \notin Cleared /\ a \notin ReadBytes
        BY <1>6, <2>0, <3>1, <4>1, EarlierKept
      <4>3. byte[a] = 0
        BY <1>1, <2>0, <2>5, <4>1 DEF ZeroInv, a
      <4>4. byte'[a] = 0
        BY <1>2, <3>1, <4>2, <4>3
      <4> QED BY <4>4 DEF a
    <3> QED BY <3>2, <3>3
  <2>6. ZeroInv'
    BY <1>1, <1>5, <1>6, <2>5 DEF ZeroInv
  <2> QED BY <2>2, <2>4, <2>6
<1>14. BytesInv'
  BY <1>1, <1>5, <1>13 DEF BytesInv
<1>15. HeaderTableFound'
  BY <1>5 DEF HeaderTableFound
<1> QED BY <1>7, <1>8, <1>9, <1>11, <1>12, <1>14, <1>15 DEF ElfInv

\* The header table found is the file's.
LEMMA TableInMemory ==
  ASSUME Placed, ReadInv, ~ unread, i = Len(image.load) + 1, Found, NEW n \in 0..(image.phlen - 1)
  PROVE  byte[LoadedPhdr + n] = FileByte(image.phoff + n)
<1>1. /\ WellFormed(image) /\ Len(image.load) \in Nat /\ DOMAIN image.load = 1..Len(image.load)
      /\ image.phdr \in Nat \cup {None} /\ image.phoff \in Nat /\ image.phlen \in Nat
      /\ 1..(i - 1) = 1..Len(image.load)
  BY Tables DEF Placed
<1>2. n \in Nat /\ n < image.phlen
  BY <1>1
<1>3. \A k \in 1..Len(image.load) : \A m \in 0..(image.load[k].filesz - 1) :
        byte[SegAt(k) + m] = FileByte(image.load[k].offset + m)
  BY <1>1 DEF ReadInv
<1>4. CASE image.phdr # None
  <2>1. image.phdr \in Nat /\ LoadedPhdr = Biased(image.phdr)
    BY <1>1, <1>4 DEF LoadedPhdr
  <2>2. PICK j \in 1..Len(image.load), l \in 1..Len(image.load) :
          image.load[j].vaddr <= image.phdr /\ image.phdr < image.load[l].vaddr + image.load[l].memsz
    BY <1>1, <1>4 DEF WellFormed
  <2>3. MinVaddr <= image.phdr /\ image.phdr < MaxVaddr
    <3>1. /\ image.load[j].vaddr \in Nat /\ image.load[l].vaddr \in Nat /\ image.load[l].memsz \in Nat
      BY Tables DEF Placed
    <3>2. /\ MinVaddr \in Nat /\ MaxVaddr \in Nat /\ MinVaddr <= image.load[j].vaddr
          /\ image.load[l].vaddr + image.load[l].memsz <= MaxVaddr
      BY Span DEF Placed
    <3>3. PICK v \in Nat : v = image.phdr
      BY ONLY <2>1
    <3>4. PICK low \in Nat, high \in Nat : low = MinVaddr /\ high = MaxVaddr
      BY ONLY <3>2
    <3>5. PICK first \in Nat, last \in Nat, size \in Nat :
            /\ first = image.load[j].vaddr /\ last = image.load[l].vaddr /\ size = image.load[l].memsz
      BY ONLY <3>1
    <3>6. low <= first /\ last + size <= high /\ first <= v /\ v < last + size
      BY ONLY <2>2, <3>2, <3>3, <3>4, <3>5
    <3>7. low <= v /\ v < high
      BY ONLY <3>6
    <3> QED BY ONLY <3>3, <3>4, <3>7
  <2>4. Biased(image.phdr) \in Nat /\ Biased(image.phdr) = load_start + (image.phdr - MinVaddr)
    BY <2>1, <2>3, Place
  <2>5. PICK k \in 1..Len(image.load) :
          /\ SegAt(k) <= LoadedPhdr
          /\ LoadedPhdr + image.phlen <= SegAt(k) + image.load[k].filesz
    BY <1>1 DEF Found, CheckPhdr, SegAt
  <2>6. /\ image.load[k].vaddr \in Nat /\ image.load[k].offset \in Nat /\ image.load[k].filesz \in Nat
        /\ SegAt(k) \in Nat /\ load_start \in Nat /\ MinVaddr \in Nat /\ MinVaddr <= image.load[k].vaddr
        /\ SegAt(k) = load_start + (image.load[k].vaddr - MinVaddr)
    <3>1. /\ image.load[k].vaddr \in Nat /\ image.load[k].offset \in Nat /\ image.load[k].filesz \in Nat
          /\ image.load[k].memsz \in Nat /\ image.load[k].memsz > 0
      BY <1>1, Tables DEF Placed, WellFormed
    <3>2. /\ MinVaddr <= image.load[k].vaddr /\ MinVaddr \in Nat /\ MaxVaddr \in Nat
          /\ image.load[k].vaddr + image.load[k].memsz <= MaxVaddr
      BY Span DEF Placed
    <3>3. image.load[k].vaddr < MaxVaddr
      BY <3>1, <3>2
    <3> QED BY <3>1, <3>2, <3>3, Place, OneSegment DEF SegAt
  <2>7. PICK v \in Nat, h \in Nat, b \in Nat, m \in Nat, z \in Nat, o \in Nat, q \in Nat, c \in Nat :
          /\ v = image.load[k].vaddr /\ h = image.phdr /\ b = load_start /\ m = MinVaddr
          /\ z = image.load[k].filesz /\ o = image.load[k].offset /\ q = image.phoff /\ c = image.phlen
    BY <1>1, <2>1, <2>6
  <2>8. /\ m <= v /\ m <= h /\ SegAt(k) = b + (v - m) /\ LoadedPhdr = b + (h - m)
        /\ b + (v - m) <= b + (h - m) /\ (b + (h - m)) + c <= (b + (v - m)) + z
        /\ n < c /\ n \in Nat
    BY <1>2, <2>1, <2>3, <2>4, <2>5, <2>6, <2>7
  <2>9. v <= h /\ h < v + z
    BY ONLY <2>8, v \in Nat, h \in Nat, b \in Nat, m \in Nat, z \in Nat, c \in Nat
  <2>10. q + v = o + h
    BY <1>1, <1>4, <2>7, <2>9 DEF WellFormed
  <2>11. /\ (h - v) + n \in 0..(z - 1)
         /\ (b + (v - m)) + ((h - v) + n) = (b + (h - m)) + n
         /\ o + ((h - v) + n) = q + n
    BY ONLY <2>8, <2>9, <2>10, v \in Nat, h \in Nat, b \in Nat, m \in Nat, z \in Nat, c \in Nat,
            o \in Nat, q \in Nat
  <2>12. byte[SegAt(k) + ((h - v) + n)] = FileByte(o + ((h - v) + n))
    BY <1>3, <2>7, <2>11
  <2>13. SegAt(k) + ((h - v) + n) = LoadedPhdr + n
    BY ONLY <2>8, <2>11
  <2> QED BY <2>7, <2>11, <2>12, <2>13
<1>5. CASE image.phdr = None
  <2>1. /\ LoadedPhdr # None
        /\ LoadedPhdr = IF image.load[1].offset # 0 THEN None
                        ELSE ElfAddr + (IF byte[ElfAddr] = 1 THEN image.phoff ELSE 0)
    BY <1>5 DEF Found, LoadedPhdr
  <2>2. 1 \in 1..Len(image.load)
    BY <1>1, Span DEF Placed
  <2>3. /\ image.load[1].offset = 0 /\ ElfAddr = SegAt(1)
        /\ LoadedPhdr = SegAt(1) + (IF byte[SegAt(1)] = 1 THEN image.phoff ELSE 0)
    BY <2>1 DEF ElfAddr, SegAt
  <2>4. image.phoff + image.phlen <= image.load[1].filesz
    BY <1>1, <1>5, <2>3 DEF WellFormed, Placed
  <2>5. /\ SegAt(1) \in Nat /\ image.load[1].filesz \in Nat
    BY <2>2, OneSegment
  <2>6. \A m \in 0..(image.load[1].filesz - 1) : byte[SegAt(1) + m] = FileByte(m)
    <3>1. TAKE m \in 0..(image.load[1].filesz - 1)
    <3>2. byte[SegAt(1) + m] = FileByte(image.load[1].offset + m)
      BY <1>3, <2>2
    <3>3. image.load[1].offset + m = m
      BY <2>3
    <3> QED BY <3>2, <3>3
  <2>7. PICK s \in Nat, q \in Nat, c \in Nat, z \in Nat :
          s = SegAt(1) /\ q = image.phoff /\ c = image.phlen /\ z = image.load[1].filesz
    BY <1>1, <2>5
  <2>8. 0 \in 0..(z - 1) /\ q + n \in 0..(z - 1) /\ n \in 0..(z - 1) /\ s + 0 = s
        /\ (s + q) + n = s + (q + n) /\ (s + 0) + n = s + n
    <3>1. q + c <= z /\ n < c
      BY <1>2, <2>4, <2>7
    <3> QED BY ONLY <3>1, <1>2, s \in Nat, q \in Nat, c \in Nat, z \in Nat
  <2>9. byte[s] = FileByte(0)
    BY <2>6, <2>7, <2>8
  <2>10. CASE FileSize = 0
    <3>1. byte[s] = 0 /\ FileByte(n) = 0 /\ FileByte(q + n) = 0
      BY <1>2, <2>9, <2>10 DEF FileByte
    <3>2. LoadedPhdr = s + 0
      BY <2>3, <2>7, <3>1
    <3>3. byte[s + n] = FileByte(n)
      BY <2>6, <2>7, <2>8
    <3> QED BY <2>7, <2>8, <3>1, <3>2, <3>3
  <2>11. CASE FileSize # 0
    <3>1. byte[s] = 1
      BY <2>9, <2>11, SizeAssumption DEF FileByte
    <3>2. LoadedPhdr = s + q
      BY <2>3, <2>7, <3>1
    <3>3. byte[s + (q + n)] = FileByte(q + n)
      BY <2>6, <2>7, <2>8
    <3> QED BY <2>7, <2>8, <3>2, <3>3
  <2> QED BY <2>10, <2>11
<1> QED BY <1>4, <1>5

\* The load is over: the header table is found, the temporary one unmapped.
LEMMA FindPhdrElf ==
  ASSUME ElfInv, FindPhdr
  PROVE  ElfInv'
<1>1. /\ image' = image /\ windows' = windows /\ others' = others /\ byte' = byte
      /\ load_start' = load_start /\ i' = i /\ loaded_phdr' = LoadedPhdr /\ unread' = unread
      /\ at = "segments" /\ at' = "loaded" /\ phdr_mmap' = None /\ i = Len(image.load) + 1
      /\ prot' = [prot EXCEPT ![phdr_mmap] = None] /\ Found
      /\ UNCHANGED input
  BY DEF FindPhdr, SegmentsDone, input
<1>2. TypeInv /\ PlaceInv /\ MappedInv /\ OthersInv /\ BytesInv /\ ProtInv
  BY DEF ElfInv
<1>3. /\ Reserved' <=> Reserved
      /\ Reservation' = Reservation
      /\ Placed' <=> Placed
      /\ \A k : HeaderPages(image.load[k])' = HeaderPages(image.load[k])
  BY <1>1, Same
<1>4. /\ \A p \in Page : prot'[p] = IF p = phdr_mmap THEN None ELSE prot[p]
      /\ phdr_mmap # None /\ phdr_mmap \notin others
      /\ Reserved => Placed /\ phdr_mmap \notin Reservation /\ Reservation \subseteq Page
  BY <1>1, <1>2, ReservationFits DEF TypeInv, PlaceInv
<1>5. Reserved => \A p \in Reservation : prot'[p] = prot[p]
  BY <1>4
<1>6. TypeInv'
  BY <1>1, <1>2, Flags DEF TypeInv
<1>7. PlaceInv'
  BY <1>1, <1>2, <1>3, <1>4, Flags DEF PlaceInv, InMemory, TypeInv
<1>8. MappedInv'
  BY <1>1, <1>2, <1>3, <1>4, Flags DEF MappedInv
<1>9. OthersInv'
  BY <1>1, <1>2, <1>4, OthersKept DEF TypeInv
<1>10. ProtInv' /\ WritableWhileRelocating' /\ LatterFlags'
  <2>1. ~ windows => Reserved
    BY <1>1, <1>2 DEF PlaceInv
  <2>2. ASSUME ~ windows, NEW p \in Reservation PROVE Latest(p)'
    <3>1. Latest(p) /\ prot'[p] = prot[p]
      BY <1>1, <1>2, <1>5, <2>1, <2>2 DEF ProtInv
    <3> QED BY <1>1, <1>3, <3>1 DEF Latest
  <2>3. ProtInv'
    BY <1>1, <1>2, <1>3, <1>5, <2>2 DEF ProtInv, LatterInv
  <2> QED BY <1>1, <2>3 DEF WritableWhileRelocating, LatterFlags
<1>11. BytesInv'
  BY <1>1, <1>2, BytesKept
<1>12. HeaderTableFound'
  <2>1. ASSUME Reserved, ~ unread, NEW n \in 0..(image.phlen - 1)
        PROVE  byte[LoadedPhdr + n] = FileByte(image.phoff + n)
    <3>1. ReadInv /\ Placed
      BY <1>1, <1>2, <1>4, <2>1 DEF BytesInv
    <3> QED BY <1>1, <2>1, <3>1, TableInMemory
  <2> QED BY <1>1, <1>3, <2>1 DEF HeaderTableFound, FileByte
<1> QED BY <1>6, <1>7, <1>8, <1>9, <1>10, <1>11, <1>12 DEF ElfInv

\* The protection of the pages that are not writable, extra flags added, is flags of
\* theirs; the other pages keep theirs.
LEMMA SetLoadProtIs ==
  ASSUME TypeInv, NEW extra \in {{}, {"W"}}, NEW p \in Page
  PROVE  /\ ReadOnlyAt(p) = {} => SetLoadProt(extra)[p] = prot[p]
         /\ ReadOnlyAt(p) # {} => \E m \in ReadOnlyAt(p) :
              /\ \A l \in ReadOnlyAt(p) : l <= m
              /\ m \in 1..Len(image.load)
              /\ SetLoadProt(extra)[p] = Granted(image.load[m].flags \cup extra)
              /\ Granted(image.load[m].flags \cup extra) \in Prot
<1>1. SetLoadProt(extra)[p]
        = IF ReadOnlyAt(p) = {} THEN prot[p]
          ELSE Granted(image.load[CHOOSE k \in ReadOnlyAt(p) : \A l \in ReadOnlyAt(p) : l <= k].flags
                         \cup extra)
  BY DEF SetLoadProt
<1>2. CASE ReadOnlyAt(p) # {}
  <2> DEFINE m == CHOOSE k \in ReadOnlyAt(p) : \A l \in ReadOnlyAt(p) : l <= k
  <2>1. /\ m \in ReadOnlyAt(p) /\ \A l \in ReadOnlyAt(p) : l <= m
        /\ m \in 1..Len(image.load) /\ image.load[m].flags \in Prot
    BY <1>2, LastReadOnly DEF TypeInv
  <2>2. SetLoadProt(extra)[p] = Granted(image.load[m].flags \cup extra)
    BY <1>1, <1>2
  <2> HIDE DEF m
  <2>3. image.load[m].flags \cup extra \in Prot
    BY <2>1 DEF Prot
  <2>4. Granted(image.load[m].flags \cup extra) \in Prot
    BY <2>3, Flags DEF Granted
  <2> QED BY <1>2, <2>1, <2>2, <2>4
<1> QED BY <1>1, <1>2

\* What _phdr_table_set_load_prot keeps, where it does not fail.
LEMMA SetLoadProtKeeps ==
  ASSUME TypeInv, PlaceInv, MappedInv, Protectable, NEW extra \in {{}, {"W"}}
  PROVE  /\ SetLoadProt(extra) \in [Page -> Prot \cup {None}]
         /\ \A p \in Page : SetLoadProt(extra)[p] # None <=> prot[p] # None
         /\ Reserved => \A p \in others : SetLoadProt(extra)[p] = prot[p]
<1>1. \A p \in Page : ReadOnlyAt(p) # {} => SetLoadProt(extra)[p] \in Prot
  BY SetLoadProtIs
<1>2. \A p \in Page : ReadOnlyAt(p) = {} => SetLoadProt(extra)[p] = prot[p]
  BY SetLoadProtIs
<1>3. SetLoadProt(extra) = [p \in Page |-> SetLoadProt(extra)[p]]
  BY DEF SetLoadProt
<1>4. SetLoadProt(extra) \in [Page -> Prot \cup {None}]
  <2>1. \A p \in Page : SetLoadProt(extra)[p] \in Prot \cup {None}
    BY <1>1, <1>2 DEF TypeInv
  <2> QED BY <1>3, <2>1
<1>5. \A p \in Page : SetLoadProt(extra)[p] # None <=> prot[p] # None
  BY <1>1, <1>2, Flags DEF Protectable
<1>6. ASSUME Reserved, NEW p \in others PROVE SetLoadProt(extra)[p] = prot[p]
  <2>1. p \in Page /\ p \notin Reservation /\ Placed
    BY <1>6 DEF TypeInv, PlaceInv
  <2>2. ReadOnlyAt(p) = {}
    BY <2>1, Tables, OneSegment DEF ReadOnlyAt, TypeInv
  <2> QED BY <1>2, <2>1, <2>2
<1> QED BY <1>4, <1>5, <1>6

\* What a page that no read-only segment touches has of the writable ones.
LEMMA WritablePage ==
  ASSUME Placed, i = Len(image.load) + 1, NEW p, Latest(p),
         NEW k \in 1..Len(image.load), p \in HeaderPages(image.load[k])
  PROVE  \E l \in 1..Len(image.load) :
           /\ l >= k /\ p \in HeaderPages(image.load[l])
           /\ prot[p] = image.load[l].flags
           /\ "W" \in image.load[k].flags => "W" \in image.load[l].flags
<1>1. Len(image.load) \in Nat /\ 1..(i - 1) = 1..Len(image.load)
  BY Tables DEF Placed
<1>2. PICK l \in 1..Len(image.load) :
        /\ p \in HeaderPages(image.load[l])
        /\ prot[p] = image.load[l].flags
        /\ \A m \in (l + 1)..(i - 1) : p \notin HeaderPages(image.load[m])
  BY <1>1 DEF Latest
<1>3. l >= k
  <2>1. k \notin (l + 1)..(i - 1)
    BY <1>2
  <2> QED BY <1>1, <2>1
<1>4. CASE l = k
  BY <1>2, <1>3, <1>4
<1>5. CASE l # k
  <2>1. k < l
    BY <1>3, <1>5
  <2>2. "W" \in image.load[k].flags => "W" \in image.load[l].flags
    BY <1>2, <2>1, SharedPage
  <2> QED BY <1>2, <1>3, <2>2
<1> QED BY <1>4, <1>5

\* Whatever segment a page is from, relocations may write it now if they may write the
\* segment: a later segment on its page is writable as well.
LEMMA UnprotectElf ==
  ASSUME ElfInv, Unprotect
  PROVE  ElfInv'
<1>1. /\ image' = image /\ windows' = windows /\ others' = others /\ byte' = byte
      /\ load_start' = load_start /\ i' = i /\ loaded_phdr' = loaded_phdr /\ unread' = unread
      /\ at = "loaded" /\ at' = "relocating" /\ phdr_mmap' = phdr_mmap
      /\ image.textrel => Protectable
      /\ prot' = IF image.textrel THEN SetLoadProt({"W"}) ELSE prot
      /\ UNCHANGED input
  BY DEF Unprotect, link, input
<1>2. TypeInv /\ PlaceInv /\ MappedInv /\ OthersInv /\ BytesInv /\ ProtInv /\ HeaderTableFound
  BY DEF ElfInv
<1>3. /\ Reserved' <=> Reserved
      /\ Reservation' = Reservation
      /\ Placed' <=> Placed
      /\ \A k : HeaderPages(image.load[k])' = HeaderPages(image.load[k])
      /\ \A p : ReadOnlyAt(p)' = ReadOnlyAt(p)
      /\ InMemory /\ InMemory'
  BY <1>1, Same DEF InMemory
<1>4. /\ prot' \in [Page -> Prot \cup {None}]
      /\ \A p \in Page : prot'[p] # None <=> prot[p] # None
      /\ Reserved => \A p \in others : prot'[p] = prot[p]
  <2>1. {"W"} \in {{}, {"W"}}
    OBVIOUS
  <2>2. CASE image.textrel
    BY <1>1, <1>2, <2>1, <2>2, SetLoadProtKeeps
  <2>3. CASE ~ image.textrel
    BY <1>1, <1>2, <2>3 DEF TypeInv
  <2> QED BY <2>2, <2>3
<1>5. Reserved => Placed /\ Reservation \subseteq Page
  BY <1>2, ReservationFits DEF PlaceInv
<1>6. i = Len(image.load) + 1 /\ DOMAIN image.load = 1..Len(image.load) /\ (~ windows => Reserved)
      /\ load_start # None
  BY <1>2, <1>3, Tables DEF PlaceInv, TypeInv
<1>7. TypeInv'
  BY <1>1, <1>2, <1>4 DEF TypeInv
<1>8. PlaceInv'
  BY <1>1, <1>2, <1>3 DEF PlaceInv
<1>9. MappedInv'
  BY <1>1, <1>2, <1>3, <1>4 DEF MappedInv
<1>10. OthersInv'
  <2>1. load_start # 0 => Reserved
    BY <1>6 DEF Reserved
  <2> QED BY <1>1, <1>2, <1>4, <2>1, OthersKept
<1>11. \A p \in Page : ~ image.textrel \/ ReadOnlyAt(p) = {} => prot'[p] = prot[p]
  BY <1>1, <1>2, SetLoadProtIs
<1>12. ProtInv'
  <2>1. ASSUME ~ windows, NEW p \in Reservation, image.textrel => ReadOnlyAt(p) = {}
        PROVE  Latest(p)'
    <3>1. p \in Page /\ Latest(p)
      BY <1>1, <1>2, <1>5, <1>6, <2>1 DEF ProtInv
    <3>2. prot'[p] = prot[p]
      BY <1>11, <2>1, <3>1
    <3> QED BY <1>1, <1>3, <3>1, <3>2 DEF Latest
  <2>2. image.textrel => Protectable'
    BY <1>1, <1>3, <1>4 DEF Protectable
  <2> QED BY <1>1, <1>3, <2>1, <2>2 DEF ProtInv, LatterInv
<1>13. WritableWhileRelocating'
  <2>1. ASSUME Reserved, NEW k \in 1..Len(image.load),
               image.textrel \/ "W" \in image.load[k].flags,
               NEW p \in HeaderPages(image.load[k])
        PROVE  "W" \in prot'[p]
    <3>1. p \in Reservation /\ p \in Page /\ Placed
      BY <1>5, <2>1, OneSegment
    <3>2. CASE image.textrel /\ ReadOnlyAt(p) # {}
      <4>1. {"W"} \in {{}, {"W"}}
        OBVIOUS
      <4>2. PICK m \in ReadOnlyAt(p) : SetLoadProt({"W"})[p] = Granted(image.load[m].flags \cup {"W"})
        BY <1>2, <3>1, <3>2, <4>1, SetLoadProtIs
      <4>3. "W" \in Granted(image.load[m].flags \cup {"W"})
        BY DEF Granted
      <4> QED BY <1>1, <3>2, <4>2, <4>3
    <3>3. CASE ~ image.textrel \/ ReadOnlyAt(p) = {}
      <4>1. prot'[p] = prot[p]
        BY <1>11, <3>1, <3>3
      <4>2. "W" \in image.load[k].flags
        BY <1>6, <2>1, <3>3 DEF ReadOnlyAt
      <4>3. CASE windows
        <5>1. prot[p] = {"R", "W"}
          BY <1>1, <1>2, <2>1, <3>1, <4>3 DEF ProtInv
        <5> QED BY <4>1, <5>1
      <4>4. CASE ~ windows
        <5>1. Latest(p)
          BY <1>1, <1>2, <3>1, <4>4 DEF ProtInv
        <5> QED BY <1>6, <2>1, <3>1, <4>1, <4>2, <5>1, WritablePage
      <4> QED BY <4>3, <4>4
    <3> QED BY <3>2, <3>3
  <2> QED BY <1>1, <1>3, <1>6, <2>1 DEF WritableWhileRelocating
<1>14. LatterFlags'
  BY <1>1 DEF LatterFlags
<1>15. BytesInv'
  BY <1>1, <1>2, <1>3, BytesKept
<1>16. HeaderTableFound'
  BY <1>1, <1>2, <1>3, TableKept
<1> QED BY <1>7, <1>8, <1>9, <1>10, <1>12, <1>13, <1>14, <1>15, <1>16 DEF ElfInv

\* The flags come back, those of the last segment of each page.
LEMMA ProtectElf ==
  ASSUME ElfInv, Protect
  PROVE  ElfInv'
<1>1. /\ image' = image /\ windows' = windows /\ others' = others /\ byte' = byte
      /\ load_start' = load_start /\ i' = i /\ loaded_phdr' = loaded_phdr /\ unread' = unread
      /\ at = "relocating" /\ at' = "relro" /\ phdr_mmap' = phdr_mmap
      /\ prot' = IF image.textrel THEN SetLoadProt({}) ELSE prot
      /\ UNCHANGED input
  BY DEF Protect, link, input
<1>2. TypeInv /\ PlaceInv /\ MappedInv /\ OthersInv /\ BytesInv /\ ProtInv /\ HeaderTableFound
  BY DEF ElfInv
<1>3. /\ Reserved' <=> Reserved
      /\ Reservation' = Reservation
      /\ Placed' <=> Placed
      /\ \A k : HeaderPages(image.load[k])' = HeaderPages(image.load[k])
      /\ \A p : ReadOnlyAt(p)' = ReadOnlyAt(p)
      /\ InMemory /\ InMemory'
  BY <1>1, Same DEF InMemory
<1>4. /\ prot' \in [Page -> Prot \cup {None}]
      /\ \A p \in Page : prot'[p] # None <=> prot[p] # None
      /\ Reserved => \A p \in others : prot'[p] = prot[p]
  <2>1. {} \in {{}, {"W"}}
    OBVIOUS
  <2>2. CASE image.textrel
    <3>1. Protectable
      BY <1>1, <1>2, <2>2 DEF ProtInv
    <3> QED BY <1>1, <1>2, <2>1, <2>2, <3>1, SetLoadProtKeeps
  <2>3. CASE ~ image.textrel
    BY <1>1, <1>2, <2>3 DEF TypeInv
  <2> QED BY <2>2, <2>3
<1>5. Reserved => Placed /\ Reservation \subseteq Page
  BY <1>2, ReservationFits DEF PlaceInv
<1>6. i = Len(image.load) + 1 /\ DOMAIN image.load = 1..Len(image.load) /\ (~ windows => Reserved)
      /\ load_start # None /\ Len(image.load) \in Nat
  BY <1>2, <1>3, Tables DEF PlaceInv, TypeInv
<1>7. TypeInv'
  BY <1>1, <1>2, <1>4 DEF TypeInv
<1>8. PlaceInv'
  BY <1>1, <1>2, <1>3 DEF PlaceInv
<1>9. MappedInv'
  BY <1>1, <1>2, <1>3, <1>4 DEF MappedInv
<1>10. OthersInv'
  <2>1. load_start # 0 => Reserved
    BY <1>6 DEF Reserved
  <2> QED BY <1>1, <1>2, <1>4, <2>1, OthersKept
<1>11. ASSUME ~ windows, NEW k \in 1..Len(image.load), NEW p \in HeaderPages(image.load[k])
       PROVE  \/ \E l \in 1..Len(image.load) : l > k /\ p \in HeaderPages(image.load[l])
              \/ prot'[p] = image.load[k].flags
              \/ /\ image.textrel /\ "W" \in image.load[k].flags
                 /\ \E l \in 1..(k - 1) : l \in ReadOnlyAt(p) /\ prot'[p] = image.load[l].flags
  <2>1. p \in Reservation /\ p \in Page /\ Placed
    BY <1>5, <1>6, <1>11, OneSegment
  <2>2. CASE ~ image.textrel \/ ReadOnlyAt(p) = {}
    <3>1. Latest(p)
      BY <1>1, <1>2, <1>11, <2>1, <2>2 DEF ProtInv
    <3>2. prot'[p] = prot[p]
      BY <1>1, <1>2, <2>1, <2>2, SetLoadProtIs
    <3>3. PICK l \in 1..Len(image.load) :
            l >= k /\ p \in HeaderPages(image.load[l]) /\ prot[p] = image.load[l].flags
      BY <1>6, <2>1, <3>1, WritablePage
    <3>4. l = k \/ l > k
      BY <1>6, <3>3
    <3> QED BY <3>2, <3>3, <3>4
  <2>3. CASE image.textrel /\ ReadOnlyAt(p) # {}
    <3>1. {} \in {{}, {"W"}}
      OBVIOUS
    <3>2. PICK m \in ReadOnlyAt(p) :
            /\ \A l \in ReadOnlyAt(p) : l <= m
            /\ m \in 1..Len(image.load)
            /\ SetLoadProt({})[p] = Granted(image.load[m].flags \cup {})
      BY <1>2, <2>1, <2>3, <3>1, SetLoadProtIs
    <3>3. prot'[p] = image.load[m].flags
      <4>1. image.load[m].flags \cup {} = image.load[m].flags
        OBVIOUS
      <4> QED BY <1>1, <1>11, <2>3, <3>2, <4>1 DEF Granted
    <3>4. p \in HeaderPages(image.load[m])
      BY <3>2 DEF ReadOnlyAt
    <3>5. m > k \/ m = k \/ (m < k /\ m \in 1..(k - 1))
      BY <1>6, <3>2
    <3>6. m < k => "W" \in image.load[k].flags
      <4>1. SUFFICES ASSUME m < k, "W" \notin image.load[k].flags PROVE FALSE
        OBVIOUS
      <4>2. k \in ReadOnlyAt(p)
        BY <1>6, <1>11, <4>1 DEF ReadOnlyAt
      <4> QED BY <1>6, <3>2, <4>1, <4>2
    <3> QED BY <2>3, <3>2, <3>3, <3>4, <3>5, <3>6
  <2> QED BY <2>2, <2>3
<1>12. LatterInv'
  BY <1>1, <1>3, <1>6, <1>11 DEF LatterInv
<1>13. ProtInv'
  BY <1>1, <1>12 DEF ProtInv
<1>14. WritableWhileRelocating' /\ LatterFlags'
  BY <1>1 DEF WritableWhileRelocating, LatterFlags
<1>15. BytesInv'
  BY <1>1, <1>2, <1>3, BytesKept
<1>16. HeaderTableFound'
  BY <1>1, <1>2, <1>3, TableKept
<1> QED BY <1>7, <1>8, <1>9, <1>10, <1>13, <1>14, <1>15, <1>16 DEF ElfInv

\* RELRO takes its own pages.
LEMMA RelroElf ==
  ASSUME ElfInv, Relro
  PROVE  ElfInv'
<1>1. /\ image' = image /\ windows' = windows /\ others' = others /\ byte' = byte
      /\ load_start' = load_start /\ i' = i /\ loaded_phdr' = loaded_phdr /\ unread' = unread
      /\ at = "relro" /\ at' = "linked" /\ phdr_mmap' = phdr_mmap
      /\ \A p \in RelroPages : prot[p] # None
      /\ prot' = [p \in Page |-> IF p \in RelroPages THEN {"R"} ELSE prot[p]]
      /\ UNCHANGED input
  BY DEF Relro, link, input
<1>2. TypeInv /\ PlaceInv /\ MappedInv /\ OthersInv /\ BytesInv /\ ProtInv /\ HeaderTableFound
  BY DEF ElfInv
<1>3. /\ Reserved' <=> Reserved
      /\ Reservation' = Reservation
      /\ RelroPages' = RelroPages
      /\ Placed' <=> Placed
      /\ \A k : HeaderPages(image.load[k])' = HeaderPages(image.load[k])
      /\ \A k : HeaderPages(image.relro[k])' = HeaderPages(image.relro[k])
      /\ \A p : ReadOnlyAt(p)' = ReadOnlyAt(p)
      /\ InMemory /\ InMemory'
  BY <1>1, Same DEF InMemory
<1>4. Reserved => Placed /\ Reservation \subseteq Page /\ RelroPages \subseteq Reservation
                  /\ Reservation \cap others = {}
  BY <1>2, ReservationFits, RelroInside DEF PlaceInv
<1>5. load_start # None /\ (~ windows => Reserved) /\ DOMAIN image.load = 1..Len(image.load)
  BY <1>2, <1>3, Tables DEF PlaceInv, TypeInv
<1>6. TypeInv'
  BY <1>1, <1>2, Flags DEF TypeInv
<1>7. PlaceInv'
  BY <1>1, <1>2, <1>3 DEF PlaceInv
<1>8. MappedInv'
  <2>1. \A p \in Page : prot'[p] # None <=> prot[p] # None
    BY <1>1, Flags
  <2> QED BY <1>1, <1>2, <1>3, <2>1 DEF MappedInv
<1>9. OthersInv'
  <2>1. load_start # 0 => \A p \in others : prot'[p] = prot[p]
    BY <1>1, <1>2, <1>4, <1>5 DEF Reserved, TypeInv
  <2> QED BY <1>1, <1>2, <2>1, OthersKept
<1>10. ProtInv'
  <2>1. Reserved => \A p \in RelroPages : prot'[p] = {"R"}
    BY <1>1, <1>4
  <2> QED BY <1>1, <1>3, <2>1 DEF ProtInv, LatterInv
<1>11. LatterFlags'
  <2>1. ASSUME ~ windows, NEW k \in DOMAIN image.load, NEW p \in HeaderPages(image.load[k])
        PROVE  \/ \E l \in DOMAIN image.relro : p \in HeaderPages(image.relro[l])
               \/ \E l \in DOMAIN image.load : l > k /\ p \in HeaderPages(image.load[l])
               \/ prot'[p] = image.load[k].flags
               \/ /\ image.textrel /\ "W" \in image.load[k].flags
                  /\ \E l \in 1..(k - 1) : l \in ReadOnlyAt(p) /\ prot'[p] = image.load[l].flags
    <3>1. p \in Page
      BY <1>4, <1>5, <2>1, OneSegment
    <3>2. CASE p \in RelroPages
      BY <3>2 DEF RelroPages
    <3>3. CASE p \notin RelroPages
      <4>1. prot'[p] = prot[p]
        BY <1>1, <3>1, <3>3
      <4>2. \/ \E l \in DOMAIN image.load : l > k /\ p \in HeaderPages(image.load[l])
            \/ prot[p] = image.load[k].flags
            \/ /\ image.textrel /\ "W" \in image.load[k].flags
               /\ \E l \in 1..(k - 1) : l \in ReadOnlyAt(p) /\ prot[p] = image.load[l].flags
        BY <1>1, <1>2, <2>1 DEF ProtInv, LatterInv
      <4> QED BY <4>1, <4>2
    <3> QED BY <3>2, <3>3
  <2>2. /\ image' = image /\ windows' = windows
        /\ \A k : HeaderPages(image.load[k])' = HeaderPages(image.load[k])
        /\ \A k : HeaderPages(image.relro[k])' = HeaderPages(image.relro[k])
        /\ \A p : ReadOnlyAt(p)' = ReadOnlyAt(p)
    BY <1>1, <1>3
  <2>3. ASSUME ~ windows', NEW k \in DOMAIN image'.load, NEW p, p \in HeaderPages(image.load[k])'
        PROVE  \/ \E l \in DOMAIN image'.relro : p \in HeaderPages(image.relro[l])'
               \/ \E l \in DOMAIN image'.load : l > k /\ p \in HeaderPages(image.load[l])'
               \/ prot'[p] = image'.load[k].flags
               \/ /\ image'.textrel /\ "W" \in image'.load[k].flags
                  /\ \E l \in 1..(k - 1) : l \in ReadOnlyAt(p)' /\ prot'[p] = image'.load[l].flags
    <3>1. ~ windows /\ k \in DOMAIN image.load /\ p \in HeaderPages(image.load[k])
      BY ONLY <2>2, <2>3
    <3>2. CASE \E l \in DOMAIN image.relro : p \in HeaderPages(image.relro[l])
      BY ONLY <2>2, <3>2
    <3>3. CASE \E l \in DOMAIN image.load : l > k /\ p \in HeaderPages(image.load[l])
      BY ONLY <2>2, <3>3
    <3>4. CASE prot'[p] = image.load[k].flags
      BY ONLY <2>2, <3>4
    <3>5. CASE /\ image.textrel /\ "W" \in image.load[k].flags
               /\ \E l \in 1..(k - 1) : l \in ReadOnlyAt(p) /\ prot'[p] = image.load[l].flags
      BY ONLY <2>2, <3>5
    <3> QED BY ONLY <2>1, <3>1, <3>2, <3>3, <3>4, <3>5
  <2> QED BY ONLY <2>3 DEF LatterFlags
<1>12. WritableWhileRelocating'
  BY <1>1 DEF WritableWhileRelocating
<1>13. BytesInv'
  BY <1>1, <1>2, <1>3, BytesKept
<1>14. HeaderTableFound'
  BY <1>1, <1>2, <1>3, TableKept
<1> QED BY <1>6, <1>7, <1>8, <1>9, <1>10, <1>11, <1>12, <1>13, <1>14 DEF ElfInv

\* One range holds all of the image.
LEMMA ReleaseElf ==
  ASSUME ElfInv, InMemory, Release
  PROVE  ElfInv'
<1>1. /\ image' = image /\ windows' = windows /\ others' = others /\ byte' = byte
      /\ load_start' = load_start /\ i' = i /\ loaded_phdr' = loaded_phdr /\ unread' = unread
      /\ at' = "released" /\ phdr_mmap' = phdr_mmap /\ prot' = Munmap
      /\ UNCHANGED input
  BY DEF Release, link, input
<1>2. TypeInv /\ PlaceInv /\ MappedInv /\ OthersInv /\ BytesInv /\ HeaderTableFound
  BY DEF ElfInv
<1>3. /\ Reserved' <=> Reserved
      /\ Reservation' = Reservation
      /\ Placed' <=> Placed
      /\ ~ InMemory'
  BY <1>1, Same DEF InMemory
<1>4. \A p \in Page : prot'[p] = IF ~ windows /\ p \in Reservation THEN None ELSE prot[p]
  BY <1>1 DEF Munmap
<1>5. load_start # None /\ (~ windows => Reserved) /\ phdr_mmap = None /\ at # "released"
      /\ (Reserved => Reservation \cap others = {})
  BY <1>2 DEF PlaceInv, InMemory
<1>6. TypeInv'
  <2>1. prot' \in [Page -> Prot \cup {None}]
    BY <1>1, <1>2 DEF Munmap, TypeInv
  <2> QED BY <1>1, <1>2, <2>1 DEF TypeInv
<1>7. PlaceInv'
  BY <1>1, <1>2, <1>3, <1>5 DEF PlaceInv
<1>8. MappedInv'
  BY <1>1, <1>2, <1>3, <1>4, <1>5, Flags DEF MappedInv
<1>9. OthersInv'
  BY <1>1, <1>2, <1>4, <1>5, OthersKept DEF TypeInv
<1>10. ProtInv' /\ WritableWhileRelocating' /\ LatterFlags'
  BY <1>1, NoProtections
<1>11. BytesInv'
  BY <1>1, <1>2, <1>3, BytesKept
<1>12. HeaderTableFound'
  BY <1>3 DEF HeaderTableFound
<1> QED BY <1>6, <1>7, <1>8, <1>9, <1>10, <1>11, <1>12 DEF ElfInv

\* What no variable changes stays.
LEMMA StutterElf ==
  ASSUME ElfInv, UNCHANGED vars
  PROVE  ElfInv'
<1>1. /\ image' = image /\ windows' = windows /\ others' = others /\ byte' = byte
      /\ load_start' = load_start /\ i' = i /\ loaded_phdr' = loaded_phdr /\ unread' = unread
      /\ at' = at /\ phdr_mmap' = phdr_mmap /\ prot' = prot
      /\ UNCHANGED input
  BY DEF vars, input
<1>2. /\ Reserved' <=> Reserved
      /\ Reservation' = Reservation
      /\ RelroPages' = RelroPages
      /\ Placed' <=> Placed
      /\ InMemory' <=> InMemory
      /\ \A k : /\ SegAt(k)' = SegAt(k) /\ FileEnd(k)' = FileEnd(k) /\ Gap(k)' = Gap(k)
                /\ HeaderPages(image.load[k])' = HeaderPages(image.load[k])
                /\ HeaderPages(image.relro[k])' = HeaderPages(image.relro[k])
      /\ \A p : ReadOnlyAt(p)' = ReadOnlyAt(p)
  BY <1>1, Same DEF InMemory
<1>3. TypeInv' /\ PlaceInv' /\ MappedInv' /\ OthersInv'
  BY <1>1, <1>2 DEF ElfInv, TypeInv, PlaceInv, MappedInv, OthersInv
<1>4. ProtInv'
  <2>1. \A p : Latest(p) => Latest(p)'
    BY <1>1, <1>2 DEF Latest
  <2>2. LatterInv => LatterInv'
    BY <1>1, <1>2 DEF LatterInv
  <2>3. Protectable => Protectable'
    BY <1>1, <1>2 DEF Protectable
  <2> QED BY <1>1, <1>2, <2>1, <2>2, <2>3 DEF ElfInv, ProtInv
<1>5. WritableWhileRelocating'
  BY <1>1, <1>2 DEF ElfInv, WritableWhileRelocating
<1>6. LatterFlags'
  BY <1>1, <1>2 DEF ElfInv, LatterFlags
<1>7. BytesInv'
  <2>1. ReadInv => ReadInv'
    BY <1>1, <1>2 DEF ReadInv
  <2>2. ZeroInv => ZeroInv'
    BY <1>1, <1>2 DEF ZeroInv
  <2>3. FreshInv => FreshInv'
    BY <1>1, <1>2 DEF FreshInv
  <2> QED BY <1>1, <1>2, <2>1, <2>2, <2>3 DEF ElfInv, BytesInv
<1>8. HeaderTableFound'
  BY <1>1, <1>2, TableKept DEF ElfInv
<1> QED BY <1>3, <1>4, <1>5, <1>6, <1>7, <1>8 DEF ElfInv

-----------------------------------------------------------------------------
(* The theorems.                                                           *)

\* The invariant of a load, of its link and of its release.
THEOREM ElfInvariant == Spec => []ElfInv
<1>1. Init => ElfInv
  BY InitElf
<1>2. ElfInv /\ [Next]_vars => ElfInv'
  <2> SUFFICES ASSUME ElfInv, [Next]_vars PROVE ElfInv'
    OBVIOUS
  <2>1. CASE \E p \in Page : ReadHeaders(p)
    BY <2>1, ReadHeadersElf
  <2>2. CASE RejectHeaders
    BY <2>2, LoadFailsElf DEF RejectHeaders
  <2>3. CASE \E a \in Address : Reserve(a)
    BY <2>3, ReserveElf
  <2>4. CASE ReserveFails
    BY <2>4, LoadFailsElf DEF ReserveFails
  <2>5. CASE ReserveNull
    BY <2>5, ReserveNullElf
  <2>6. CASE MapSegment
    BY <2>6, MapSegmentElf
  <2>7. CASE MapSegmentFails
    BY <2>7, LoadFailsElf DEF MapSegmentFails, Segments
  <2>8. CASE \E ok \in BOOLEAN : ReadSegment(ok)
    BY <2>8, ReadSegmentElf
  <2>9. CASE ReadSegmentCrashes
    BY <2>9, CrashElf DEF ReadSegmentCrashes, Segments
  <2>10. CASE FindPhdr
    BY <2>10, FindPhdrElf
  <2>11. CASE FindPhdrFails
    BY <2>11, LoadFailsElf DEF FindPhdrFails, SegmentsDone
  <2>12. CASE FindPhdrCrashes
    BY <2>12, CrashElf DEF FindPhdrCrashes, SegmentsDone
  <2>13. CASE Unprotect
    BY <2>13, UnprotectElf
  <2>14. CASE Protect
    BY <2>14, ProtectElf
  <2>15. CASE Relro
    BY <2>15, RelroElf
  <2>16. CASE LinkFails
    BY <2>16, ReleaseElf DEF LinkFails, InMemory
  <2>17. CASE Unload
    BY <2>17, ReleaseElf DEF Unload, InMemory
  <2>18. CASE UNCHANGED vars
    BY <2>18, StutterElf
  <2> QED BY <2>1, <2>2, <2>3, <2>4, <2>5, <2>6, <2>7, <2>8, <2>9, <2>10, <2>11, <2>12, <2>13,
             <2>14, <2>15, <2>16, <2>17, <2>18 DEF Next
<1> QED BY <1>1, <1>2, PTL DEF Spec

\* Load returns true only with every byte of every segment of the file in place, at its
\* biased address, unless a reservation or a read failed unseen on Windows.
THEOREM SegmentsReadHold == Spec => []SegmentsRead
<1>1. ElfInv => SegmentsRead
  <2> SUFFICES ASSUME ElfInv, Reserved, ~ unread, InMemory,
                      NEW k \in DOMAIN image.load, NEW n \in 0..(image.load[k].filesz - 1)
               PROVE  LET a == Biased(image.load[k].vaddr) + n IN
                      /\ a \div PageSize \in Reservation
                      /\ prot[a \div PageSize] # None
                      /\ byte[a] = FileByte(image.load[k].offset + n)
    BY DEF SegmentsRead, SegmentsMapped
  <2>1. TypeInv /\ PlaceInv /\ MappedInv /\ BytesInv
    BY DEF ElfInv
  <2>2. Placed /\ i = Len(image.load) + 1 /\ Len(image.load) \in Nat
        /\ k \in 1..Len(image.load) /\ k \in 1..(i - 1) /\ at # "released"
    BY <2>1, Tables DEF PlaceInv, TypeInv, InMemory
  <2> DEFINE a == SegAt(k) + n
  <2>3. byte[a] = FileByte(image.load[k].offset + n)
    BY <2>1, <2>2 DEF BytesInv, ReadInv
  <2>4. a \in Nat /\ a \in Address /\ SegAt(k) <= a /\ a < End(k)
    BY <2>2, ByteOfSegment
  <2> HIDE DEF a
  <2>5. a \div PageSize \in Reservation
    <3>1. /\ SegAt(k) \in Nat /\ End(k) \in Nat
          /\ HeaderPages(image.load[k]) \subseteq Reservation
          /\ a \div PageSize \in HeaderPages(image.load[k]) <=>
               PAGE_START(SegAt(k)) <= a /\ a < PAGE_END(End(k))
      BY <2>2, <2>4, OneSegment
    <3>2. /\ PAGE_START(SegAt(k)) <= SegAt(k) /\ PAGE_START(SegAt(k)) \in Nat
          /\ End(k) <= PAGE_END(End(k)) /\ PAGE_END(End(k)) \in Nat
      BY <3>1, Rounded, RoundedUp
    <3> QED BY <2>4, <3>1, <3>2
  <2>6. prot[a \div PageSize] # None
    <3>1. a \div PageSize \in Page
      BY <2>4, PageOfAddress
    <3> QED BY <2>1, <2>2, <2>5, <3>1 DEF MappedInv
  <2> QED BY <2>3, <2>5, <2>6 DEF a, SegAt
<1> QED BY <1>1, ElfInvariant, PTL

\* The bytes a segment has in memory only are 0: all of them on Windows, where they are
\* those of a fresh reservation, and elsewhere those of the writable segments.
THEOREM ExtraBytesZeroHold == Spec => []ExtraBytesZero
<1>1. ElfInv => ExtraBytesZero
  <2> SUFFICES ASSUME ElfInv, InMemory, Reserved, NEW k \in DOMAIN image.load,
                      windows \/ "W" \in image.load[k].flags, NEW n \in Gap(k)
               PROVE  byte[Biased(image.load[k].vaddr) + n] = 0
    BY DEF ExtraBytesZero
  <2>1. TypeInv /\ PlaceInv /\ BytesInv
    BY DEF ElfInv
  <2>2. k \in 1..(i - 1)
    BY <2>1, Tables DEF PlaceInv, TypeInv
  <2> QED BY <2>1, <2>2 DEF BytesInv, ZeroInv, SegAt
<1> QED BY <1>1, ElfInvariant, PTL

\* No step of a load or a release replaces, unmaps or writes what the rest of the
\* program had mapped.
THEOREM OthersUntouchedHold == Spec => []OthersUntouched
<1>1. ElfInv => OthersUntouched
  BY DEF ElfInv, OthersInv, OthersUntouched, Reserved
<1> QED BY <1>1, ElfInvariant, PTL

\* The header table a soinfo keeps is the file's.
THEOREM HeaderTableFoundHold == Spec => []HeaderTableFound
<1>1. ElfInv => HeaderTableFound
  BY DEF ElfInv
<1> QED BY <1>1, ElfInvariant, PTL

\* What relocations may write is writable while they are applied.
THEOREM WritableWhileRelocatingHold == Spec => []WritableWhileRelocating
<1>1. ElfInv => WritableWhileRelocating
  BY DEF ElfInv
<1> QED BY <1>1, ElfInvariant, PTL

\* Of a linked library every page RELRO touches is read-only.
THEOREM RelroReadOnlyHold == Spec => []RelroReadOnly
<1>1. ElfInv => RelroReadOnly
  <2> SUFFICES ASSUME ElfInv, at = "linked", Reserved, NEW k \in DOMAIN image.relro,
                      NEW n \in 0..(image.relro[k].memsz - 1)
               PROVE  prot[(Biased(image.relro[k].vaddr) + n) \div PageSize] = {"R"}
    BY DEF RelroReadOnly
  <2>1. \A p \in RelroPages : prot[p] = {"R"}
    BY DEF ElfInv, ProtInv
  <2>2. Placed
    BY DEF ElfInv, PlaceInv
  <2> QED BY <2>1, <2>2, RelroInside
<1> QED BY <1>1, ElfInvariant, PTL

\* Of a linked library every other page has the flags of the last segment touching it,
\* but for text relocations.
THEOREM LatterFlagsHold == Spec => []LatterFlags
<1>1. ElfInv => LatterFlags
  BY DEF ElfInv
<1> QED BY <1>1, ElfInvariant, PTL

\* A released image leaves nothing mapped, except on Windows; a failed load leaves its
\* whole reservation.
THEOREM LeftMappedHold == Spec => []LeftMapped
<1>1. ElfInv => LeftMapped
  <2> SUFFICES ASSUME ElfInv, at \in {"released", "load_failed"}
               PROVE  {p \in Page : prot[p] # None} \ others
                        = IF (windows \/ at = "load_failed") /\ Reserved THEN Reservation ELSE {}
    BY DEF LeftMapped
  <2>1. PlaceInv /\ MappedInv /\ TypeInv
    BY DEF ElfInv
  <2>2. phdr_mmap = None
    BY <2>1 DEF PlaceInv
  <2>3. Reserved => Reservation \subseteq Page /\ Reservation \cap others = {}
    BY <2>1, ReservationFits DEF PlaceInv
  <2>4. \A p \in Page : prot[p] # None <=>
          p \in others \/ (Reserved /\ p \in Reservation /\ (windows \/ at # "released"))
    BY <2>1, <2>2, Flags DEF MappedInv
  <2> QED BY <2>3, <2>4
<1> QED BY <1>1, ElfInvariant, PTL
=============================================================================
