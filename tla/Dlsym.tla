------------------------------- MODULE Dlsym --------------------------------
(***************************************************************************)
(* dlsym and dladdr (emulator/dlfcn.cpp) over the list of loaded           *)
(* libraries, while libraries come and go.                                 *)
(*                                                                         *)
(* The addresses dlsym has given out stay in the client's hands: when the  *)
(* library is unloaded and another one mapped in its place, an old address *)
(* lies in the new library.                                                *)
(***************************************************************************)
EXTENDS Symbols

CONSTANTS
  Libdl,      \* libdl_info: base and size 0, always first on solist
  MinVaddr,   \* MinVaddr[L]: the page of L's lowest segment
  Size,       \* Size[L]: the pages its segments span
  MaxAddress, \* bound: the address space
  PageSize

ASSUME LibdlAssumption == Libdl \in Lib /\ MinVaddr[Libdl] = 0 /\ Size[Libdl] = 0
ASSUME ImageAssumption ==
  /\ PageSize \in Nat \ {0} /\ MaxAddress \in Nat
  /\ MinVaddr \in [Lib -> Nat] /\ Size \in [Lib -> Nat]
  /\ \A L \in Lib : MinVaddr[L] % PageSize = 0 /\ Size[L] % PageSize = 0
  /\ \A L \in Lib \ {Libdl} : \A n \in DOMAIN Symtab[L] :
       Symtab[L][n].defined =>
         Symtab[L][n].value \in MinVaddr[L]..(MinVaddr[L] + Size[L] - 1)

\* gLibDlSymtab and its fake hash table: the linker's own functions, global and of
\* size 0, all on the chain of a single bucket and in order.
LibdlTable ==
  /\ \A n \in DOMAIN Symtab[Libdl] :
       LET s == Symtab[Libdl][n] IN s.bind = "GLOBAL" /\ s.defined /\ s.size = 0
  /\ Chains[Libdl] = << [n \in DOMAIN Symtab[Libdl] |-> n] >>

ASSUME LibdlTableAssumption == LibdlTable

Null    == [null |-> TRUE]
Address == 0..MaxAddress

VARIABLES
  solist,  \* from solist along next
  base,    \* si->base
  given,   \* ghost: what dlsym gave the client, while its library stays loaded
  answer   \* the last call of dlsym: its search list, name and result

vars == <<solist, base, given, answer>>

Loaded     == {solist[i] : i \in DOMAIN solist}
Image(L)   == base[L]..(base[L] + Size[L] - 1)
\* load_bias + value: the address of the symbol n of L.
At(L, n) == (base[L] + Symtab[L][n].value) - MinVaddr[L]

Init ==
  /\ solist = <<Libdl>>
  /\ base = [L \in Lib |-> 0]
  /\ given = {}
  /\ answer = Null

\* load_library: the kernel has placed the image where nothing is mapped, below the
\* last page of the address space, and soinfo_alloc has appended its soinfo.  Its
\* bias is not negative.
Load(L, a) ==
  /\ L \notin Loaded
  /\ a % PageSize = 0 /\ a >= MinVaddr[L] /\ a + Size[L] \in Address
  /\ \A M \in Loaded : Image(M) \cap a..(a + Size[L] - 1) = {}
  /\ solist' = Append(solist, L)
  /\ base' = [base EXCEPT ![L] = a]
  /\ answer' = Null
  /\ UNCHANGED given

\* The end of soinfo_unload: the image is unmapped and the soinfo freed.
Unload(L) ==
  /\ L \in Loaded \ {Libdl}
  /\ \E i \in DOMAIN solist :
       /\ solist[i] = L
       /\ solist' = SubSeq(solist, 1, i - 1) \o SubSeq(solist, i + 1, Len(solist))
  /\ base' = [base EXCEPT ![L] = 0]
  /\ given' = {g \in given : g.lib # L}
  /\ answer' = Null

-----------------------------------------------------------------------------
\* Variant: the end of the image belongs to it.
ContainingInclusive(address) ==
  LET In(L) == address >= base[L] /\ address - base[L] <= Size[L] IN
  FirstOf({i \in DOMAIN solist : In(solist[i])})

\* The position of the first library whose image holds the address, or 0.
find_containing_library(address) ==
  LET In(L) == address >= base[L] /\ address - base[L] < Size[L] IN
  FirstOf({i \in DOMAIN solist : In(solist[i])})

\* Variant: the end of the image belongs to it.
ExidxInclusive(pc) ==
  LET In(L) == pc >= base[L] /\ pc <= (base[L] + Size[L]) % (MaxAddress + 1) IN
  FirstOf({i \in DOMAIN solist : In(solist[i])})

\* The library whose unwind table the unwinder is given for pc, or 0.  The sum is
\* one of unsigned addresses.
dl_unwind_find_exidx(pc) ==
  LET In(L) == pc >= base[L] /\ pc < (base[L] + Size[L]) % (MaxAddress + 1) IN
  FirstOf({i \in DOMAIN solist : In(solist[i])})

\* Variant: undefined symbols are not skipped.
AnySymbolAt(L, addr) ==
  LET soaddr == addr - base[L]
      Holds(n) == /\ soaddr >= Symtab[L][n].value
                  /\ soaddr < Symtab[L][n].value + Symtab[L][n].size IN
  FirstOf({n \in DOMAIN Symtab[L] : Holds(n)})

\* The first symbol of the table that is defined and holds the address, or 0.
\* The offset is taken from base, not from load_bias.
dladdr_find_symbol(L, addr) ==
  LET soaddr == addr - base[L]
      Holds(n) == /\ Symtab[L][n].defined
                  /\ soaddr >= Symtab[L][n].value
                  /\ soaddr < Symtab[L][n].value + Symtab[L][n].size IN
  FirstOf({n \in DOMAIN Symtab[L] : Holds(n)})

\* s_dladdr: the library, its base, and the symbol with its address.
s_dladdr(addr) ==
  LET i == find_containing_library(addr) IN
  IF i = 0 THEN Null
  ELSE LET L == solist[i]
           n == dladdr_find_symbol(L, addr) IN
       [fname |-> L, fbase |-> base[L], sym |-> n, saddr |-> IF n = 0 THEN 0 ELSE At(L, n)]

-----------------------------------------------------------------------------
\* The tail of s_dlsym, once libs is the list to search: the first definition
\* counts, and it is given out only if it is global.
Answer(libs, name) ==
  LET i == FirstIn(libs, name)
      L == libs[i]
      n == soinfo_elf_lookup(L, name) IN
  IF i = 0 \/ Symtab[L][n].bind # "GLOBAL"
  THEN /\ answer' = [libs |-> libs, name |-> name, lib |-> Libdl, sym |-> 0]
       /\ UNCHANGED <<solist, base, given>>
  ELSE /\ answer' = [libs |-> libs, name |-> name, lib |-> L, sym |-> n]
       /\ given' = given \cup {[lib |-> L, sym |-> n, addr |-> At(L, n)]}
       /\ UNCHANGED <<solist, base>>

DlsymHandle(L, name) == L \in Loaded /\ Answer(<<L>>, name)

DlsymDefault(name) == Answer(solist, name)

\* Variant: the search starts with the caller's library itself.
NextFromCaller(caller, name) ==
  LET i == find_containing_library(caller) IN
  Answer(IF i = 0 THEN <<>> ELSE SubSeq(solist, i, Len(solist)), name)

\* RTLD_NEXT: the libraries after the one that holds the return address.
DlsymNext(caller, name) ==
  LET i == find_containing_library(caller) IN
  Answer(IF i = 0 THEN <<>> ELSE SubSeq(solist, i + 1, Len(solist)), name)

Next ==
  \/ \E L \in Lib : \E a \in Address : Load(L, a)
  \/ \E L \in Lib : Unload(L)
  \/ \E name \in Name :
       \/ \E L \in Lib : DlsymHandle(L, name)
       \/ DlsymDefault(name)
       \/ \E caller \in Address : DlsymNext(caller, name)

Spec == Init /\ [][Next]_vars

-----------------------------------------------------------------------------
\* An address dlsym gave out is attributed by dladdr to the library it was found
\* in, whatever has been loaded and unloaded around it.
AttributedToItsLibrary ==
  \A g \in given :
    g.lib # Libdl => LET info == s_dladdr(g.addr) IN
                     info # Null /\ info.fname = g.lib /\ info.fbase = base[g.lib]

\* dladdr names a defined symbol that holds the address.
RightlyNamed(addr) ==
  LET info == s_dladdr(addr) IN
  /\ info # Null /\ info.sym # 0
  /\ Symtab[info.fname][info.sym].defined
  /\ addr \in info.saddr..(info.saddr + Symtab[info.fname][info.sym].size - 1)

HasSize(g) == g.lib # Libdl /\ Symtab[g.lib][g.sym].size > 0

\* dladdr names a defined symbol that really holds an address dlsym gave out, in a
\* library whose file starts at address 0.  In any other it need not: it subtracts
\* base where dlsym has added load_bias.
NamedByDladdr == \A g \in given : HasSize(g) /\ MinVaddr[g.lib] = 0 => RightlyNamed(g.addr)

\* The unwinder and dladdr, which test the same range by different arithmetic,
\* attribute every address to the same library.
UnwindAgrees ==
  \A pc \in Address : dl_unwind_find_exidx(pc) = find_containing_library(pc)

\* dlsym gives a global definition, from the first library of its search list
\* with any; it answers NULL only if no library has one or that library's is weak.
FirstGlobalGiven ==
  answer # Null =>
    LET libs == answer.libs
        defs == {i \in DOMAIN libs : Definitions(libs[i], answer.name) # {}} IN
    IF answer.sym # 0
    THEN /\ Symtab[answer.lib][answer.sym].bind = "GLOBAL"
         /\ \E i \in defs : /\ libs[i] = answer.lib
                            /\ answer.sym \in Definitions(libs[i], answer.name)
                            /\ \A j \in defs : i <= j
    ELSE \A i \in defs : (\A j \in defs : i <= j) =>
           \E n \in Definitions(libs[i], answer.name) : Symtab[libs[i]][n].bind = "WEAK"

\* RTLD_NEXT never answers from the library that calls it or an earlier one, so
\* a wrapper can reach what it wraps.
NextSkipsCaller ==
  [][\A caller \in Address, name \in Name :
       DlsymNext(caller, name) /\ answer'.sym # 0 =>
         \A i, j \in DOMAIN solist :
           caller \in Image(solist[i]) /\ solist[j] = answer'.lib => i < j]_vars

=============================================================================
