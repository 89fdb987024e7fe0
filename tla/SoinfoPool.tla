---------------------------- MODULE SoinfoPool -----------------------------
(***************************************************************************)
(* Where the soinfos live (emulator/linker.cpp): pools of PerPool entries, *)
(* a free list and the list of loaded libraries, both threaded through the *)
(* same next field, with sonext remembering the last library.              *)
(*                                                                         *)
(* soinfo_free walks solist with two pointers before it unlinks an entry;  *)
(* dl_iterate_phdr walks it too and runs a callback at each entry, which   *)
(* may load or unload libraries before the walk reads the entry's next.    *)
(* dl_iterate_phdr is in the source for i386 and MIPS; linker.h always     *)
(* defines ANDROID_ARM_LINKER, so no program has it as the code stands.    *)
(*                                                                         *)
(* An entry is a number: libdl_info is 0, the pools' entries follow.  Null *)
(* is the null pointer.                                                    *)
(***************************************************************************)
EXTENDS Naturals, Sequences, FiniteSets, Functions

CONSTANTS
  PerPool,    \* SOINFO_PER_POOL
  MaxPools,   \* bound: pools before s_mmap fails
  Null

ASSUME PoolAssumption == PerPool \in Nat \ {0} /\ MaxPools \in Nat
ASSUME NullAssumption == Null \notin Nat

libdl_info  == 0
Entries(p)  == ((p - 1) * PerPool + 1) .. (p * PerPool)   \* of the p-th pool
AllEntries  == 0 .. (MaxPools * PerPool)

VARIABLES
  next,             \* the next field of every entry
  pools,            \* gSoInfoPools, by its length
  gSoInfoFreeList,
  sonext,
  freeing,          \* soinfo_free's argument while it walks, or Null
  trav, prev,       \* its two pointers
  iter,             \* dl_iterate_phdr's pointer while its callback runs, or Null
  list,             \* ghost: the loaded libraries, oldest first
  avail,            \* ghost: the free entries, next to be allocated first
  visited,          \* ghost: the entries the current or last walk gave its callback
  stayed            \* ghost: those listed since that walk began

vars == <<next, pools, gSoInfoFreeList, sonext, freeing, trav, prev, iter,
          list, avail, visited, stayed>>

walk == <<iter, visited, stayed>>

Init ==
  /\ next = [e \in AllEntries |-> Null]
  /\ pools = 0
  /\ gSoInfoFreeList = Null
  /\ sonext = libdl_info
  /\ freeing = Null /\ trav = Null /\ prev = Null
  /\ iter = Null
  /\ list = <<libdl_info>>
  /\ avail = <<>>
  /\ visited = {}
  /\ stayed = {}

-----------------------------------------------------------------------------
\* ensure_free_list_non_empty maps a new pool and chains its entries in order.
Chained(p) ==
  [e \in AllEntries |->
     IF e \notin Entries(p) THEN next[e] ELSE IF e = p * PerPool THEN Null ELSE e + 1]

\* soinfo_alloc once there is a free entry: its head becomes the last library.
\* The memset clears its next.
Take(nxt, head) ==
  /\ gSoInfoFreeList' = nxt[head]
  /\ next' = [nxt EXCEPT ![head] = Null, ![sonext] = head]
  /\ sonext' = head
  /\ list' = Append(list, head)
  /\ UNCHANGED <<freeing, trav, prev, walk>>

\* soinfo_alloc.  A name too long and a failing s_mmap return NULL and change nothing.
AllocReused ==
  /\ freeing = Null
  /\ gSoInfoFreeList # Null
  /\ Take(next, gSoInfoFreeList)
  /\ avail' = SubSeq(avail, 2, Len(avail))
  /\ UNCHANGED pools

AllocNewPool ==
  LET p == pools + 1
      first == pools * PerPool + 1 IN
  /\ freeing = Null
  /\ gSoInfoFreeList = Null
  /\ pools < MaxPools
  /\ pools' = p
  /\ Take(Chained(p), first)
  /\ avail' = [i \in 1..(PerPool - 1) |-> first + i]

-----------------------------------------------------------------------------
\* soinfo_free(si), for any entry of the pools, listed or not, but not for the
\* one a walk's callback was just given (see WalkComplete).
FreeStart(si) ==
  /\ freeing = Null
  /\ si # iter
  /\ freeing' = si
  /\ trav' = libdl_info
  /\ prev' = Null
  /\ UNCHANGED <<next, pools, gSoInfoFreeList, sonext, list, avail, walk>>

\* Variant: prev is assigned after trav.
FreeStepLate ==
  /\ freeing # Null
  /\ trav \notin {Null, freeing}
  /\ trav' = next[trav]
  /\ prev' = trav'
  /\ UNCHANGED <<next, pools, gSoInfoFreeList, sonext, freeing, list, avail, walk>>

FreeStep ==
  /\ freeing # Null
  /\ trav \notin {Null, freeing}
  /\ prev' = trav
  /\ trav' = next[trav]
  /\ UNCHANGED <<next, pools, gSoInfoFreeList, sonext, freeing, list, avail, walk>>

\* Variant: an entry that is not listed is pushed on the free list all the same.
FreeTwice ==
  /\ freeing # Null
  /\ trav = Null
  /\ next' = [next EXCEPT ![freeing] = gSoInfoFreeList]
  /\ gSoInfoFreeList' = freeing
  /\ avail' = <<freeing>> \o avail
  /\ freeing' = Null
  /\ prev' = Null
  /\ UNCHANGED <<pools, sonext, trav, list, walk>>

\* Not in solist: nothing to do.
FreeMissing ==
  /\ freeing # Null
  /\ trav = Null
  /\ freeing' = Null
  /\ prev' = Null
  /\ UNCHANGED <<next, pools, gSoInfoFreeList, sonext, trav, list, avail, walk>>

\* What soinfo_free does to the ghosts when it has found si.
Forget(si) ==
  /\ freeing' = Null /\ trav' = Null /\ prev' = Null
  /\ \E i \in DOMAIN list :
       list[i] = si /\ list' = SubSeq(list, 1, i - 1) \o SubSeq(list, i + 1, Len(list))
  /\ avail' = <<si>> \o avail
  /\ stayed' = stayed \ {si}
  /\ UNCHANGED <<pools, iter, visited>>

\* Variant: sonext is left pointing at the freed entry.
FreeStaleLast ==
  LET si == freeing IN
  /\ si # Null
  /\ trav = si
  /\ next' = [next EXCEPT ![prev] = next[si], ![si] = gSoInfoFreeList]
  /\ gSoInfoFreeList' = si
  /\ UNCHANGED sonext
  /\ Forget(si)

\* Variant: the entry stays linked from its predecessor.
FreeStillLinked ==
  LET si == freeing IN
  /\ si # Null
  /\ trav = si
  /\ next' = [next EXCEPT ![si] = gSoInfoFreeList]
  /\ sonext' = IF si = sonext THEN prev ELSE sonext
  /\ gSoInfoFreeList' = si
  /\ Forget(si)

\* Found: unlinked from solist, pushed on the free list.
FreeFound ==
  LET si == freeing IN
  /\ si # Null
  /\ trav = si
  /\ next' = [next EXCEPT ![prev] = next[si], ![si] = gSoInfoFreeList]
  /\ sonext' = IF si = sonext THEN prev ELSE sonext
  /\ gSoInfoFreeList' = si
  /\ Forget(si)

-----------------------------------------------------------------------------
\* dl_iterate_phdr: the callback gets solist's first entry ...
WalkStart ==
  /\ freeing = Null
  /\ iter = Null
  /\ iter' = libdl_info
  /\ visited' = {libdl_info}
  /\ stayed' = Range(list)
  /\ UNCHANGED <<next, pools, gSoInfoFreeList, sonext, freeing, trav, prev, list, avail>>

\* ... and after each return the entry's next, read only now, until NULL.
WalkNext ==
  /\ freeing = Null
  /\ iter # Null
  /\ iter' = next[iter]
  /\ visited' = visited \cup ({next[iter]} \ {Null})
  /\ UNCHANGED <<next, pools, gSoInfoFreeList, sonext, freeing, trav, prev, list, avail, stayed>>

\* A callback that returns something else than 0 ends the walk early.
WalkStop ==
  /\ freeing = Null
  /\ iter # Null
  /\ iter' = Null
  /\ stayed' = {}
  /\ UNCHANGED <<next, pools, gSoInfoFreeList, sonext, freeing, trav, prev, list, avail, visited>>

Next ==
  \/ AllocReused \/ AllocNewPool
  \/ \E p \in 1..pools : \E si \in Entries(p) : FreeStart(si)
  \/ FreeStep \/ FreeMissing \/ FreeFound
  \/ WalkStart \/ WalkNext \/ WalkStop

Spec == Init /\ [][Next]_vars

-----------------------------------------------------------------------------
\* The pointers from head on run through exactly s.
IsChain(head, s) ==
  /\ head = IF s = <<>> THEN Null ELSE s[1]
  /\ \A i \in DOMAIN s : next[s[i]] = IF i = Len(s) THEN Null ELSE s[i + 1]

\* solist runs through the loaded libraries in the order they were loaded, libdl
\* first, and sonext is its last entry: the next soinfo_alloc appends, loses no
\* library and closes no cycle.  The free list runs through the free entries, last
\* freed first.
ListsChained ==
  /\ IsChain(libdl_info, list)
  /\ sonext = list[Len(list)]
  /\ IsChain(gSoInfoFreeList, avail)

\* Every entry of every pool is in exactly one of the two lists, once: none is
\* lost, none handed out while a library owns it.
Partitioned ==
  LET all == list \o avail IN
  /\ IsInjective(all)
  /\ Range(all) = {libdl_info} \cup UNION {Entries(p) : p \in 1..pools}

\* When soinfo_free finds its entry, prev is its predecessor and not NULL (the
\* comment of the code: "prev will never be NULL").
PrevPrecedes ==
  freeing # Null /\ trav # Null /\ trav # libdl_info => prev # Null /\ next[prev] = trav

\* A walk stays on solist whatever its callback loads or unloads (other than the
\* library it was called for), and has visited every library listed throughout
\* when it ends: dl_iterate_phdr, of the i386 and MIPS builds, iterates across all
\* the loaded libraries.
WalkComplete ==
  /\ iter # Null => iter \in Range(list)
  /\ iter = Null => stayed \subseteq visited

=============================================================================
