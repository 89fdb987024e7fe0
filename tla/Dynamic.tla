------------------------------ MODULE Dynamic -------------------------------
(***************************************************************************)
(* What soinfo_link_image makes of a library's dynamic section             *)
(* (emulator/linker.cpp): the fields of its soinfo, the libraries looked   *)
(* for, the tables relocated and the protections changed around them; and  *)
(* the functions that CallConstructors and CallDestructors then call.      *)
(*                                                                         *)
(* One library is linked.  The libraries it needs, the relocation of a     *)
(* table and the protections succeed or fail: Linker, Relocate and         *)
(* ElfImage have them.  Words and addresses are modulo Word, 2^32 in the   *)
(* code.                                                                   *)
(***************************************************************************)
EXTENDS Naturals, SequencesExt

CONSTANTS
  Word,
  Biases,   \* the load biases considered
  Files,    \* the files (see File)
  None,
  Junk      \* what memory holds where the file says nothing

ASSUME WordAssumption == Word \in Nat \ {0} /\ Biases \subseteq 0..(Word - 1)
ASSUME JunkAssumption == Junk \notin {0, Word - 1}

\* DT_ tags with a pointer, and the soinfo field it is stored in, load_bias added.
Pointers ==
  [STRTAB |-> "strtab", SYMTAB |-> "symtab", JMPREL |-> "plt_rel", REL |-> "rel",
   PLTGOT |-> "plt_got", INIT |-> "init_func", FINI |-> "fini_func",
   INIT_ARRAY |-> "init_array", FINI_ARRAY |-> "fini_array", PREINIT_ARRAY |-> "preinit_array"]

\* Those with a size in bytes: the field it is stored in, and the size of an item.
Counts ==
  [PLTRELSZ |-> <<"plt_rel_count", 8>>, RELSZ |-> <<"rel_count", 8>>,
   INIT_ARRAYSZ |-> <<"init_array_count", 4>>, FINI_ARRAYSZ |-> <<"fini_array_count", 4>>,
   PREINIT_ARRAYSZ |-> <<"preinit_array_count", 4>>]

\* Those that set a flag.
Flags == [TEXTREL |-> "has_text_relocations", SYMBOLIC |-> "has_DT_SYMBOLIC"]

Tags   == DOMAIN Pointers \cup DOMAIN Counts \cup DOMAIN Flags
            \cup {"NULL", "NEEDED", "HASH", "RELA", "PLTREL", "OTHER"}
Fields == {Pointers[t] : t \in DOMAIN Pointers} \cup {Counts[t][1] : t \in DOMAIN Counts}
            \cup {Flags[t] : t \in DOMAIN Flags}
            \cup {"nbucket", "nchain", "bucket", "chain", "ARM_exidx", "ARM_exidx_count"}

\* The d_val of a PLTREL entry that is supported.
DT_REL == 17

\* dynamic: the entries, <<>> if there is no PT_DYNAMIC; exidx: the p_vaddr and p_memsz
\* of PT_ARM_EXIDX, if there is one; words: words of the image by p_vaddr, and
\* relative: those of them with an R_ARM_RELATIVE relocation.
Entry == [d_tag : Tags, d_un : 0..(Word - 1)]
IsFile(f) ==
  /\ f.dynamic \in Seq(Entry)
  /\ f.exidx = None \/ f.exidx \in [vaddr : Nat, memsz : Nat]
  /\ \A v \in DOMAIN f.words : f.words[v] \in 0..(Word - 1)
  /\ f.relative \subseteq DOMAIN f.words

\* The loops over the entries run to a DT_NULL, wherever it is: there is one.  A
\* hash table's first two words are in the image, and not relocated.  Nothing of an
\* image is at address 0, which is never mapped.
ASSUME FilesAssumption ==
  \A f \in Files :
    /\ IsFile(f)
    /\ f.dynamic # <<>> => \E k \in DOMAIN f.dynamic : f.dynamic[k].d_tag = "NULL"
    /\ \A k \in DOMAIN f.dynamic :
         f.dynamic[k].d_tag = "HASH" =>
           {f.dynamic[k].d_un, f.dynamic[k].d_un + 4} \subseteq DOMAIN f.words \ f.relative
    /\ \A k \in DOMAIN f.dynamic, bias \in Biases :
         f.dynamic[k].d_tag \in DOMAIN Pointers => (bias + f.dynamic[k].d_un) % Word # 0

VARIABLES
  file,       \* the library's file
  base,       \* its load_bias
  arm,        \* __arm__: CallFunction enters the function
  si,         \* the fields of its soinfo; 0 is NULL and false, 1 true
  at,         \* the step reached
  d,          \* the entry, or the item of an array, that comes next
  needed,     \* needed[]: the names, as string table offsets
  relocated,  \* the tables soinfo_relocate has applied: <<address, count>>
  exposed,    \* the segments are unprotected
  calls       \* the functions entered, in order

lib   == <<file, base, arm>>
lvars == <<lib, si, at, d, needed, relocated, exposed, calls>>

\* load_library has made a zeroed soinfo, or has failed.
LinkInit ==
  /\ file \in Files
  /\ base \in Biases
  /\ arm \in BOOLEAN
  /\ si = [f \in Fields |-> 0]
  /\ at \in {"dynamic", "failed"}
  /\ d = 1
  /\ needed = <<>> /\ relocated = <<>> /\ exposed = FALSE
  /\ calls = <<>>

Biased(v) == (base + v) % Word

\* A word of the image.
WordAt(a) ==
  LET v == (a + Word - base) % Word IN
  IF v \notin DOMAIN file.words THEN Junk
  ELSE IF v \in file.relative THEN Biased(file.words[v]) ELSE file.words[v]

-----------------------------------------------------------------------------
(* soinfo_link_image: the dynamic section                                  *)

\* soinfo_link_image returns false, and find_library_internal frees the soinfo.
LinkFails ==
  /\ at' = "failed"
  /\ UNCHANGED <<lib, si, d, needed, relocated, exposed, calls>>

\* phdr_table_get_dynamic_section and phdr_table_get_arm_exidx.
GetDynamic ==
  /\ at = "dynamic"
  /\ file.dynamic # <<>>
  /\ si' = IF file.exidx = None THEN si
           ELSE [si EXCEPT !.ARM_exidx = Biased(file.exidx.vaddr),
                           !.ARM_exidx_count = file.exidx.memsz \div 8]
  /\ at' = "extract"
  /\ UNCHANGED <<lib, d, needed, relocated, exposed, calls>>

NoDynamic == at = "dynamic" /\ file.dynamic = <<>> /\ LinkFails

entry == file.dynamic[d]

Extracting(tags) == at = "extract" /\ entry.d_tag \in tags

\* The next entry; the soinfo's fields change to those given.
Extracted(fields) ==
  /\ si' = fields
  /\ d' = d + 1
  /\ UNCHANGED <<lib, at, needed, relocated, exposed, calls>>

ExtractHash ==
  LET hash == Biased(entry.d_un)
      n    == WordAt(hash) IN
  /\ Extracting({"HASH"})
  /\ Extracted([si EXCEPT !.nbucket = n, !.nchain = WordAt((hash + 4) % Word),
                          !.bucket = (hash + 8) % Word, !.chain = (hash + 8 + 4 * n) % Word])

\* Variant: the first entry of a tag counts.
ExtractPointerOnce ==
  /\ Extracting(DOMAIN Pointers)
  /\ Extracted([si EXCEPT ![Pointers[entry.d_tag]] = IF @ = 0 THEN Biased(entry.d_un) ELSE @])

ExtractPointer ==
  /\ Extracting(DOMAIN Pointers)
  /\ Extracted([si EXCEPT ![Pointers[entry.d_tag]] = Biased(entry.d_un)])

ExtractCount ==
  /\ Extracting(DOMAIN Counts)
  /\ Extracted([si EXCEPT ![Counts[entry.d_tag][1]] = entry.d_un \div Counts[entry.d_tag][2]])

ExtractFlag ==
  /\ Extracting(DOMAIN Flags)
  /\ Extracted([si EXCEPT ![Flags[entry.d_tag]] = 1])

\* Tables with explicit addends are not supported.
Rejected == entry.d_tag = "RELA" \/ (entry.d_tag = "PLTREL" /\ entry.d_un # DT_REL)

ExtractRejected == at = "extract" /\ Rejected /\ LinkFails

\* Variant: the loop stays where it is.
ExtractOtherAgain ==
  /\ Extracting({"NEEDED", "PLTREL", "OTHER"}) /\ ~Rejected
  /\ UNCHANGED lvars

\* A supported PLTREL, a NEEDED, which is counted, or a tag of no use.
ExtractOther ==
  /\ Extracting({"NEEDED", "PLTREL", "OTHER"}) /\ ~Rejected
  /\ Extracted(si)

\* The sanity checks.  The flags are 0: neither the linker itself nor an executable
\* is linked, so LD_PRELOAD has no part here.
Sane == si.nbucket # 0 /\ si.strtab # 0 /\ si.symtab # 0

Extract ==
  /\ Extracting({"NULL"}) /\ Sane
  /\ at' = "needed" /\ d' = 1
  /\ UNCHANGED <<lib, si, needed, relocated, exposed, calls>>

ExtractInsane == Extracting({"NULL"}) /\ ~Sane /\ LinkFails

-----------------------------------------------------------------------------
(* soinfo_link_image: the libraries needed, the relocations, the protections *)

\* find_library finds, loads or has the library the entry names.
FindNeeded ==
  /\ at = "needed" /\ entry.d_tag = "NEEDED"
  /\ needed' = Append(needed, entry.d_un)
  /\ d' = d + 1
  /\ UNCHANGED <<lib, si, at, relocated, exposed, calls>>

FindNeededFails == at = "needed" /\ entry.d_tag = "NEEDED" /\ LinkFails

SkipEntry ==
  /\ at = "needed" /\ entry.d_tag \notin {"NEEDED", "NULL"}
  /\ d' = d + 1
  /\ UNCHANGED <<lib, si, at, needed, relocated, exposed, calls>>

\* The last one: the segments are made writable if there are text relocations.
Unprotect ==
  /\ at = "needed" /\ entry.d_tag = "NULL"
  /\ exposed' = (si.has_text_relocations = 1)
  /\ at' = "plt_rel"
  /\ UNCHANGED <<lib, si, d, needed, relocated, calls>>

UnprotectFails ==
  /\ at = "needed" /\ entry.d_tag = "NULL" /\ si.has_text_relocations = 1
  /\ LinkFails

Relocated(table, count) ==
  relocated' = IF si[table] = 0 THEN relocated ELSE Append(relocated, <<si[table], si[count]>>)

RelocatePlt ==
  /\ at = "plt_rel"
  /\ Relocated("plt_rel", "plt_rel_count")
  /\ at' = "rel"
  /\ UNCHANGED <<lib, si, d, needed, exposed, calls>>

RelocateRel ==
  /\ at = "rel"
  /\ Relocated("rel", "rel_count")
  /\ at' = "protect"
  /\ UNCHANGED <<lib, si, d, needed, exposed, calls>>

RelocateFails == at \in {"plt_rel", "rel"} /\ si[at] # 0 /\ LinkFails

\* FLAG_LINKED is set, the segments protected again and RELRO applied:
\* soinfo_link_image returns true, and do_dlopen goes on to CallConstructors.
Protect ==
  /\ at = "protect"
  /\ exposed' = FALSE
  /\ at' = "init"
  /\ UNCHANGED <<lib, si, d, needed, relocated, calls>>

ProtectFails == at = "protect" /\ LinkFails

-----------------------------------------------------------------------------
(* soinfo::CallFunction, CallArray, CallConstructors and CallDestructors   *)

\* Variant: -1 is called.
CallFunctionAny(f) ==
  calls' = IF f # 0 /\ arm THEN Append(calls, f) ELSE calls

\* NULL and -1 are no functions.
CallFunction(f) ==
  calls' = IF f \notin {0, Word - 1} /\ arm THEN Append(calls, f) ELSE calls

\* Item k of an array, counted from 1.
Item(array, k) == WordAt((si[array] + 4 * (k - 1)) % Word)

\* CallArray does nothing without an array, whatever its count.
Length(array, count) == IF si[array] = 0 THEN 0 ELSE si[count]

\* The libraries needed are constructed first (Linker); then DT_INIT.
CallInit ==
  /\ at = "init"
  /\ CallFunction(si.init_func)
  /\ at' = "init_array" /\ d' = 1
  /\ UNCHANGED <<lib, si, needed, relocated, exposed>>

CallInitItem ==
  /\ at = "init_array" /\ d <= Length("init_array", "init_array_count")
  /\ CallFunction(Item("init_array", d))
  /\ d' = d + 1
  /\ UNCHANGED <<lib, si, at, needed, relocated, exposed>>

\* do_dlopen returns the library.
Constructed ==
  /\ at = "init_array" /\ d > Length("init_array", "init_array_count")
  /\ at' = "ready"
  /\ UNCHANGED <<lib, si, d, needed, relocated, exposed, calls>>

\* soinfo_unload: the last reference is dropped.
Close ==
  /\ at = "ready"
  /\ at' = "fini_array" /\ d' = Length("fini_array", "fini_array_count")
  /\ UNCHANGED <<lib, si, needed, relocated, exposed, calls>>

CallFiniItem ==
  /\ at = "fini_array" /\ d > 0
  /\ CallFunction(Item("fini_array", d))
  /\ d' = d - 1
  /\ UNCHANGED <<lib, si, at, needed, relocated, exposed>>

CallFini ==
  /\ at = "fini_array" /\ d = 0
  /\ CallFunction(si.fini_func)
  /\ at' = "unloaded"
  /\ UNCHANGED <<lib, si, d, needed, relocated, exposed>>

ExtractStep == GetDynamic \/ NoDynamic \/ ExtractHash \/ ExtractPointer \/ ExtractCount \/ ExtractFlag
                 \/ ExtractRejected \/ ExtractOther \/ Extract \/ ExtractInsane
LinkStep    == FindNeeded \/ FindNeededFails \/ SkipEntry \/ Unprotect \/ UnprotectFails
                 \/ RelocatePlt \/ RelocateRel \/ RelocateFails \/ Protect \/ ProtectFails
OpenStep    == ExtractStep \/ LinkStep \/ CallInit \/ CallInitItem \/ Constructed
CloseStep   == Close \/ CallFiniItem \/ CallFini

-----------------------------------------------------------------------------
(* The same, read off the file as a whole.                                 *)

\* The elements of s that are in S, in order: SelectSeq, by a recursive function.
Filter(s, S) ==
  LET kept[n \in 0..Len(s)] ==
        IF n = 0 THEN <<>>
        ELSE IF s[n] \in S THEN Append(kept[n - 1], s[n]) ELSE kept[n - 1]
  IN kept[Len(s)]

\* The first DT_NULL.
End == CHOOSE k \in DOMAIN file.dynamic :
         /\ file.dynamic[k].d_tag = "NULL"
         /\ \A j \in 1..(k - 1) : file.dynamic[j].d_tag # "NULL"

\* The first n entries with one of the tags, in order; and all of those that count.
Among(n, tags)  == Filter(SubSeq(file.dynamic, 1, n), {e \in Entry : e.d_tag \in tags})
EntriesOf(tags) == Among(End, tags)

Values(tag) == LET es == EntriesOf({tag}) IN [k \in DOMAIN es |-> es[k].d_un]

\* The last entry of a tag, as an address and as a size; 0 without one.
PointerOf(tag) == IF Values(tag) = <<>> THEN 0 ELSE Biased(Last(Values(tag)))
SizeOf(tag)    == IF Values(tag) = <<>> THEN 0 ELSE Last(Values(tag))

Table(tag, size) ==
  IF Values(tag) = <<>> THEN <<>> ELSE << <<PointerOf(tag), SizeOf(size) \div 8>> >>

\* The functions among an array's items, each of a word.
ArrayOf(tag, size) ==
  IF Values(tag) = <<>> THEN <<>>
  ELSE [k \in 1..(SizeOf(size) \div 4) |-> WordAt(PointerOf(tag) + 4 * (k - 1))]
FunctionsIn(s) == IF arm THEN Filter(s, 1..(Word - 2) \cup {Junk}) ELSE <<>>

Initialisers == FunctionsIn(<<PointerOf("INIT")>> \o ArrayOf("INIT_ARRAY", "INIT_ARRAYSZ"))
Finalisers   == FunctionsIn(Reverse(ArrayOf("FINI_ARRAY", "FINI_ARRAYSZ")) \o <<PointerOf("FINI")>>)

\* A library that links does so as its file says, in whatever order the entries
\* come and however often: every library it names is looked for, in order; the PLT's
\* table is applied, then the other one, the whole of each, and with the segments
\* unprotected if the file asks for that; the symbols are found through its own hash
\* table; and no table with addends is passed over.  The segments are protected again
\* before any of its functions is called: so the code has it, against its comment in
\* linker.cpp, "after all of them are applied and all constructors are run".
LinkedAsInFile ==
  /\ at \in {"plt_rel", "rel", "protect"} => exposed = (Values("TEXTREL") # <<>>)
  /\ at \in {"init", "init_array", "ready", "fini_array", "unloaded"} =>
       /\ needed = Values("NEEDED")
       /\ relocated = Table("JMPREL", "PLTRELSZ") \o Table("REL", "RELSZ")
       /\ ~exposed
       /\ EntriesOf({"RELA"}) = <<>>
       /\ si.nbucket = WordAt(PointerOf("HASH")) /\ si.nbucket # 0
       /\ si.chain = (PointerOf("HASH") + 8 + 4 * si.nbucket) % Word
       /\ si.strtab = PointerOf("STRTAB") /\ si.symtab = PointerOf("SYMTAB")

\* "DT_INIT should be called before DT_INIT_ARRAY if both are present", "DT_FINI_ARRAY
\* must be parsed in reverse order", "DT_FINI should be called after DT_FINI_ARRAY"
\* (linker.cpp): a library's functions are entered in that order, each once, none
\* of a library that does not link; none at all where the processor is no ARM.
CallsInOrder ==
  /\ file.dynamic # <<>> => IsPrefix(calls, Initialisers \o Finalisers)
  /\ at \in {"dynamic", "failed"} => calls = <<>>
  /\ at = "ready" => calls = Initialisers
  /\ at = "unloaded" => calls = Initialisers \o Finalisers

=============================================================================
