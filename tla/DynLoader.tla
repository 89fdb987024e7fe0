----------------------------- MODULE DynLoader ------------------------------
(***************************************************************************)
(* What dlopen and dlclose promise a program, without soinfos, reference   *)
(* counts or nested calls: the set of libraries it may use, closed under   *)
(* DT_NEEDED, and the handles it keeps.  Linker implements it.             *)
(***************************************************************************)
EXTENDS Naturals, Sequences

CONSTANTS Lib, Libdl, Needed

VARIABLES resident, handles

Requires(X) == {Needed[X][i] : i \in DOMAIN Needed[X]}

Init ==
  /\ resident = {Libdl}
  /\ handles = [X \in Lib |-> 0]

\* A library becomes usable once everything it needs is.
Load(X) ==
  /\ X \notin resident
  /\ Requires(X) \subseteq resident
  /\ resident' = resident \cup {X}
  /\ UNCHANGED handles

\* It stops being usable when no handle and no usable library refers to it.
Unload(X) ==
  /\ X \in resident \ {Libdl}
  /\ handles[X] = 0
  /\ \A Y \in resident : X \notin Requires(Y)
  /\ resident' = resident \ {X}
  /\ UNCHANGED handles

\* dlopen returns a handle on a usable library only.
Open(X) ==
  /\ X \in resident
  /\ handles' = [handles EXCEPT ![X] = @ + 1]
  /\ UNCHANGED resident

Close(X) ==
  /\ handles[X] > 0
  /\ handles' = [handles EXCEPT ![X] = @ - 1]
  /\ UNCHANGED resident

Next == \E X \in Lib : Load(X) \/ Unload(X) \/ Open(X) \/ Close(X)

Spec == Init /\ [][Next]_<<resident, handles>>

=============================================================================
