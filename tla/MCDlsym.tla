------------------------------ MODULE MCDlsym -------------------------------
(***************************************************************************)
(* Two small libraries for the runs of Dlsym: a name defined weakly by one *)
(* and globally by the other, undefined and local entries before the       *)
(* definition on a chain.                                                  *)
(***************************************************************************)
EXTENDS Dlsym

CONSTANTS
  dl, x, y, p, q,
  Low              \* the lowest virtual address of x's file; that of y's is 0

Sym(name, bind, defined, value, size) ==
  [name |-> name, bind |-> bind, defined |-> defined, value |-> value, size |-> size]

MCSymtab ==
  [L \in Lib |->
     CASE L = dl -> << Sym(q, "GLOBAL", TRUE, 9, 0) >>
       [] L = x  -> << Sym(p, "WEAK", TRUE, Low + 1, 1), Sym(q, "LOCAL", FALSE, Low, 4),
                       Sym(q, "GLOBAL", TRUE, Low, 1) >>
       [] L = y  -> << Sym(p, "LOCAL", TRUE, 1, 1), Sym(q, "WEAK", FALSE, 0, 4),
                       Sym(p, "GLOBAL", TRUE, 2, 2), Sym(q, "GLOBAL", TRUE, 0, 1) >> ]

MCHash   == [n \in Name |-> IF n = p THEN 6 ELSE 9]
MCChains ==
  [L \in Lib |->
     CASE L = dl -> << <<1>> >>
       [] L = x  -> << <<3, 2, 1>> >>
       [] L = y  -> << <<1, 3>>, <<2, 4>> >> ]

MCMinVaddr == [L \in Lib |-> IF L = x THEN Low ELSE 0]
MCSize     == [L \in Lib |-> IF L = dl THEN 0 ELSE 4]
=============================================================================
