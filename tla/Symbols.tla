------------------------------ MODULE Symbols -------------------------------
(***************************************************************************)
(* The symbol lookups of the linker (emulator/linker.cpp) that dlsym,      *)
(* dladdr and relocation share.                                            *)
(*                                                                         *)
(* A library's symbol table and hash table are files' contents, hence      *)
(* constants.  A symbol is its index in the table, and 0, the index of the *)
(* reserved first entry, stands for NULL.  A hash table is the sequence of *)
(* symbols each of its chains runs through; elfhash is any function of the *)
(* name.  libdl's own table (emulator/dlfcn.cpp) is one more library.      *)
(***************************************************************************)
EXTENDS Naturals, Sequences, FiniteSetsExt

CONSTANTS
  Lib, Name,
  Symtab,    \* Symtab[L]: the entries from index 1 on
  Hash,      \* Hash[name]: elfhash(name)
  Chains     \* Chains[L][b + 1]: the chain of bucket b, in order

Binds  == {"LOCAL", "GLOBAL", "WEAK"}
Symbol == [name : Name, bind : Binds, defined : BOOLEAN, value : Nat, size : Nat]

ASSUME SymtabAssumption == Symtab \in [Lib -> Seq(Symbol)]
ASSUME HashAssumption   == Hash \in [Name -> Nat]
ASSUME ChainsAssumption ==
  \A L \in Lib :
    /\ Chains[L] \in Seq(Seq(DOMAIN Symtab[L])) /\ Chains[L] # <<>>
    /\ \A n \in DOMAIN Symtab[L] :
         LET b == Hash[Symtab[L][n].name] % Len(Chains[L]) IN
         \E k \in DOMAIN Chains[L][b + 1] : Chains[L][b + 1][k] = n

-----------------------------------------------------------------------------
\* A global or weak definition: what a lookup may find.
Exported(s) == s.bind \in {"GLOBAL", "WEAK"} /\ s.defined

\* The chain the hash of name selects in L.
Chain(L, name) == Chains[L][(Hash[name] % Len(Chains[L])) + 1]

\* The least of the positions I, counted from 1, or 0 if there is none.
FirstOf(I) == IF I = {} THEN 0 ELSE Min(I)

\* Variant: the first symbol of the name ends the walk, whatever its binding.
FirstNamed(L, name) ==
  LET chain == Chain(L, name)
      k     == FirstOf({j \in DOMAIN chain : Symtab[L][chain[j]].name = name}) IN
  IF k # 0 /\ Exported(Symtab[L][chain[k]]) THEN chain[k] ELSE 0

\* The first exported symbol of that name on its chain, or 0.
soinfo_elf_lookup(L, name) ==
  LET chain  == Chain(L, name)
      Hit(n) == Symtab[L][n].name = name /\ Exported(Symtab[L][n])
      k      == FirstOf({j \in DOMAIN chain : Hit(chain[j])}) IN
  IF k = 0 THEN 0 ELSE chain[k]

\* The position in libs of the first library that exports name, or 0.  This is
\* the loop of dlsym_linear_lookup over solist, and of soinfo_do_lookup over
\* its scopes.
FirstIn(libs, name) == FirstOf({i \in DOMAIN libs : soinfo_elf_lookup(libs[i], name) # 0})

\* The exported symbols of that name in L, in whatever order the chains have them.
Definitions(L, name) ==
  {n \in DOMAIN Symtab[L] : Symtab[L][n].name = name /\ Exported(Symtab[L][n])}

=============================================================================
