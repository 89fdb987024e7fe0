------------------------------ MODULE Relocate ------------------------------
(***************************************************************************)
(* soinfo_relocate (emulator/linker.cpp), called by soinfo_link_image      *)
(* first for the library's plt_rel table and then for its rel table.       *)
(*                                                                         *)
(* A step applies one relocation.  Any failing one makes the whole link    *)
(* fail with the earlier ones applied.  Which relocations the file has is  *)
(* chosen at the start; the libraries, their symbols and where they are    *)
(* mapped are constants.  ARM build; addresses and words are modulo Word,  *)
(* 2^32 in the code.                                                       *)
(***************************************************************************)
EXTENDS Symbols, Functions

CONSTANTS
  si,           \* the library being linked
  needed,       \* the libraries it needs, in DT_NEEDED order, linked before
  somain,       \* NoMain: nothing in the program assigns it
  NoMain,
  gLdPreloads,  \* <<>>: only filled for a FLAG_EXE library, and no soinfo has that flag
  Symbolic,     \* the libraries with has_DT_SYMBOLIC
  base, load_bias,
  Word,         \* words are 0..Word-1
  Offsets,      \* the r_offset values the tables use
  Addend,       \* what the file has at every such place
  MaxRel        \* bound: relocations of one table

ASSUME LibsAssumption == si \in Lib /\ needed \in Seq(Lib) /\ gLdPreloads \in Seq(Lib)
ASSUME MainAssumption == NoMain \notin Lib /\ somain \in Lib \cup {NoMain}
ASSUME WordAssumption ==
  /\ Word \in Nat \ {0} /\ Offsets \subseteq Nat /\ Addend \in 0..(Word - 1)
  /\ base \in [Lib -> Nat] /\ load_bias \in [Lib -> Nat]

Types == {"NONE", "JUMP_SLOT", "GLOB_DAT", "ABS32", "REL32", "RELATIVE", "COPY", "OTHER"}
Rel   == [type : Types, sym : 0..Len(Symtab[si]), offset : Offsets]

VARIABLES
  plt_rel, rel,  \* the two tables
  pass,          \* the table being applied, then "linked"
  failed,        \* soinfo_relocate has returned -1
  idx,
  memory         \* the words at the places relocated, by r_offset

vars == <<plt_rel, rel, pass, failed, idx, memory>>

Table      == IF pass = "plt_rel" THEN plt_rel ELSE rel
Relocating == pass # "linked" /\ ~failed

\* A linker emits at most one relocation for a place, and JUMP_SLOTs in plt_rel.
Init ==
  /\ plt_rel \in UNION {[1..n -> {r \in Rel : r.type = "JUMP_SLOT" /\ r.sym # 0}] : n \in 0..MaxRel}
  /\ rel \in UNION {[1..n -> Rel] : n \in 0..MaxRel}
  /\ LET all == plt_rel \o rel IN
     \A i, j \in DOMAIN all : i # j => all[i].offset # all[j].offset
  /\ pass = "plt_rel"
  /\ failed = FALSE
  /\ idx = 1
  /\ memory = [o \in Offsets |-> Addend]

-----------------------------------------------------------------------------
\* The libraries soinfo_do_lookup searches, in order: none but gLdPreloads and
\* needed while there is no main executable.
Scope ==
  LET local == IF somain = NoMain THEN <<>>
               ELSE IF si = somain THEN <<si>>
               ELSE IF si \in Symbolic THEN <<si, somain>>
               ELSE <<somain, si>> IN
  local \o gLdPreloads \o needed

\* The symbol's table entry, and the definition the lookup finds for its name:
\* its position in Scope, or 0.
Ref(r)      == Symtab[si][r.sym]
Found(r)    == FirstIn(Scope, Ref(r).name)
Resolved(r) == r.sym # 0 /\ Found(r) # 0

\* st_value + lsi->load_bias of the definition; 0 for a weak reference without.
SymAddr(r) ==
  IF ~Resolved(r) THEN 0
  ELSE LET L == Scope[Found(r)] IN
       (Symtab[L][soinfo_elf_lookup(L, Ref(r).name)].value + load_bias[L]) % Word

\* The reasons to fail: an undefined symbol, unless its reference is weak and
\* the type allows that; RELATIVE with a symbol; COPY outside an executable (no
\* library is one); a type unknown here.
Fails(r) ==
  /\ r.type # "NONE"
  /\ \/ /\ r.sym # 0 /\ ~Resolved(r)
        /\ \/ Ref(r).bind # "WEAK"
           \/ r.type \notin {"JUMP_SLOT", "GLOB_DAT", "ABS32", "RELATIVE"}
     \/ r.type = "RELATIVE" /\ r.sym # 0
     \/ r.type \in {"COPY", "OTHER"}

\* What is stored at the place.
Written(r) ==
  CASE r.type \in {"JUMP_SLOT", "GLOB_DAT"} -> SymAddr(r)
    [] r.type = "ABS32"    -> (memory[r.offset] + SymAddr(r)) % Word
    [] r.type = "REL32"    -> (memory[r.offset] + SymAddr(r) + Word - (r.offset % Word)) % Word
    [] r.type = "RELATIVE" -> (memory[r.offset] + base[si]) % Word

-----------------------------------------------------------------------------
\* Variant: a failing relocation is skipped.
SkipFailing ==
  /\ Relocating
  /\ idx <= Len(Table)
  /\ Fails(Table[idx])
  /\ idx' = idx + 1
  /\ UNCHANGED <<plt_rel, rel, pass, failed, memory>>

Fail ==
  /\ Relocating
  /\ idx <= Len(Table)
  /\ Fails(Table[idx])
  /\ failed' = TRUE
  /\ UNCHANGED <<plt_rel, rel, pass, idx, memory>>

Apply ==
  /\ Relocating
  /\ idx <= Len(Table)
  /\ LET r == Table[idx] IN
     /\ ~Fails(r)
     /\ memory' = IF r.type = "NONE" THEN memory ELSE [memory EXCEPT ![r.offset] = Written(r)]
  /\ idx' = idx + 1
  /\ UNCHANGED <<plt_rel, rel, pass, failed>>

\* Variant: the second table starts where the first one ended.
NextTableLate ==
  /\ Relocating
  /\ idx = Len(Table) + 1
  /\ pass' = IF pass = "plt_rel" THEN "rel" ELSE "linked"
  /\ idx' = IF pass = "plt_rel" /\ rel # <<>> THEN (Len(plt_rel) % Len(rel)) + 1 ELSE 1
  /\ UNCHANGED <<plt_rel, rel, failed, memory>>

\* The table is done: the next one, or FLAG_LINKED.
NextTable ==
  /\ Relocating
  /\ idx = Len(Table) + 1
  /\ pass' = IF pass = "plt_rel" THEN "rel" ELSE "linked"
  /\ idx' = 1
  /\ UNCHANGED <<plt_rel, rel, failed, memory>>

Next == Apply \/ Fail \/ NextTable

Spec == Init /\ [][Next]_vars

-----------------------------------------------------------------------------
\* S is an address the name may be bound to: that of an exported symbol of the
\* first needed library with one, 0 if none has.
BoundTo(name, S) ==
  LET providers == {i \in DOMAIN needed : Definitions(needed[i], name) # {}} IN
  IF providers = {} THEN S = 0
  ELSE \E i \in providers, n \in UNION {DOMAIN Symtab[L] : L \in Lib} :
         /\ \A j \in providers : i <= j
         /\ n \in Definitions(needed[i], name)
         /\ S = (Symtab[needed[i]][n].value + load_bias[needed[i]]) % Word

\* The relocation r has been applied, once: its place holds the symbol's address
\* or the addend moved by it; a strong symbol has a definition.
Applied(r) ==
  \E S \in 0..(Word - 1) :
    /\ IF r.sym = 0 THEN S = 0 ELSE BoundTo(Ref(r).name, S)
    /\ CASE r.type = "NONE" -> memory[r.offset] = Addend
         [] r.type \in {"JUMP_SLOT", "GLOB_DAT"} -> memory[r.offset] = S
         [] r.type = "ABS32" -> memory[r.offset] = (Addend + S) % Word
         [] r.type = "REL32" -> (memory[r.offset] + r.offset) % Word = (Addend + S) % Word
         [] r.type = "RELATIVE" -> memory[r.offset] = (Addend + base[si]) % Word
         [] OTHER -> FALSE

\* The relocations the linker has passed.
Passed ==
  CASE pass = "plt_rel" -> {plt_rel[i] : i \in 1..(idx - 1)}
    [] pass = "rel"     -> Range(plt_rel) \cup {rel[i] : i \in 1..(idx - 1)}
    [] pass = "linked"  -> Range(plt_rel) \cup Range(rel)

\* At every point, also when the link fails half-way, each relocation passed has
\* been applied exactly once and every other place is as the file has it: no
\* relocation is skipped, repeated or applied in the other table's stead.
AppliedPrefix ==
  /\ \A r \in Passed : Applied(r)
  /\ \A o \in Offsets : memory[o] = Addend \/ o \in {r.offset : r \in Passed}

\* A library is linked only if a library it needs exports each symbol it refers
\* to strongly.
StrongResolved ==
  pass = "linked" =>
    \A r \in Range(plt_rel) \cup Range(rel) :
      r.type # "NONE" /\ r.sym # 0 /\ Ref(r).bind # "WEAK" =>
        \E i \in DOMAIN needed : Definitions(needed[i], Ref(r).name) # {}

\* Why a link failed.
Culprit == Table[idx]

\* "Look for symbols in the local scope (the object who is searching)"
\* (linker.cpp): a symbol the library itself defines is always found.
OwnDefinitionFound ==
  failed /\ Culprit.type = "GLOB_DAT" => Definitions(si, Ref(Culprit).name) = {}

\* "When you read a virtual address from the ELF file, add this value to get the
\* corresponding address in the process' address space" (linker.h, load_bias):
\* the address RELATIVE stores is the one in the file, biased.
RebasedByBias ==
  \A r \in Passed :
    r.type = "RELATIVE" => memory[r.offset] = (Addend + load_bias[si]) % Word

=============================================================================
