----------------------------- MODULE MCRelocate -----------------------------
(***************************************************************************)
(* A library a that needs x and y, for the runs of Relocate: a name both   *)
(* export, a weak reference nobody satisfies, and a symbol a defines       *)
(* itself.                                                                 *)
(***************************************************************************)
EXTENDS Relocate

CONSTANTS a, x, y, p, w, own

Sym(name, bind, defined, value) ==
  [name |-> name, bind |-> bind, defined |-> defined, value |-> value, size |-> 1]

MCSymtab ==
  [L \in Lib |->
     CASE L = a -> << Sym(p, "GLOBAL", FALSE, 0), Sym(w, "WEAK", FALSE, 0),
                      Sym(own, "GLOBAL", TRUE, 3) >>
       [] L = x -> << Sym(p, "LOCAL", TRUE, 1), Sym(w, "WEAK", FALSE, 0) >>
       [] L = y -> << Sym(p, "GLOBAL", TRUE, 5) >> ]

MCHash   == [n \in Name |-> 0]
MCChains == [L \in Lib |-> << [i \in DOMAIN Symtab[L] |-> i] >>]
MCNeeded == <<x, y>>
MCBase   == [L \in Lib |-> CASE L = a -> 16 [] L = x -> 32 [] L = y -> 48]

\* The lowest segment of a starts at 16.
MCBias   == [MCBase EXCEPT ![a] = 0]
NoPreloads == <<>>
=============================================================================
