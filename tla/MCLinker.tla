------------------------------ MODULE MCLinker ------------------------------
(***************************************************************************)
(* Small systems of libraries for the runs of Linker.                      *)
(***************************************************************************)
EXTENDS LinkerInv

CONSTANTS dl, a, b, c, d

\* c is shared: a needs it directly and through b.
SharedNeeded ==
  [X \in Lib |-> CASE X = a -> <<b, c>> [] X = b -> <<c, dl>> [] OTHER -> <<>>]

\* a and b need each other; c, which needs the system library d twice, is acquired
\* before the cycle is met.
MixedNeeded ==
  [X \in Lib |-> CASE X = a -> <<c, b>> [] X = b -> <<a>> [] X = c -> <<d, dl, d>>
                   [] OTHER -> <<>>]

\* The hypothesis some theorems of LinkerProofs have, which these systems fulfil.
ASSUME SystemLibrariesClosed == SystemClosed
=============================================================================
