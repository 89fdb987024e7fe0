-------------------------------- MODULE MCVm --------------------------------
(***************************************************************************)
(* Small files for the run of Vm: what linkers emit, and the ways their    *)
(* dynamic sections may differ or be refused.  Words are modulo 64.        *)
(***************************************************************************)
EXTENDS Vm

E(tag, value) == [d_tag |-> tag, d_un |-> value]
Null          == E("NULL", 0)

\* The hash table is at 12, an empty one at 56; at 24 and 40 are arrays of functions, with a NULL and
\* a -1 among them.
Words    == (12 :> 2) @@ (16 :> 3) @@ (20 :> 4) @@ (24 :> 5) @@ (28 :> 0) @@ (32 :> 6)
              @@ (40 :> 7) @@ (44 :> 63) @@ (48 :> 9) @@ (56 :> 0) @@ (60 :> 0)
Relative == {24, 32, 40, 48}

File(dynamic) ==
  [dynamic |-> dynamic, exidx |-> None, words |-> Words, relative |-> Relative,
   early |-> {}, onload |-> 11, big |-> FALSE, holes |-> FALSE]

Symbolics == <<E("HASH", 12), E("STRTAB", 4), E("SYMTAB", 8)>>
Tables    == <<E("PLTRELSZ", 8), E("PLTREL", DT_REL), E("JMPREL", 52), E("REL", 56), E("RELSZ", 17)>>
Ctors     == <<E("INIT", 1), E("INIT_ARRAY", 24), E("INIT_ARRAYSZ", 12)>>
Dtors     == <<E("FINI_ARRAYSZ", 12), E("FINI_ARRAY", 40), E("FINI", 2)>>
Rest      == <<E("NEEDED", 1), E("OTHER", 3), E("NEEDED", 2), E("PLTGOT", 60)>>

Usual == Rest \o Tables \o Symbolics \o Ctors \o Dtors

\* Text relocations, .ARM.exidx and a list that goes on after its end.
Old == [File(<<E("TEXTREL", 0), E("SYMBOLIC", 0)>> \o Symbolics \o Ctors \o <<Null, E("RELA", 4), E("INIT", 3), Null>>)
          EXCEPT !.exidx = [vaddr |-> 60, memsz |-> 20]]

\* Tags that come twice, counts before or without their arrays, and arrays without.
Odd ==
  {File(Symbolics \o Ctors \o <<E("INIT", 3), E("SYMTAB", 20),
                               E("INIT_ARRAY", 40), E("PREINIT_ARRAY", 24), E("PREINIT_ARRAYSZ", 4), Null>>),
   File(<<E("INIT_ARRAYSZ", 8), E("FINI_ARRAY", 24), E("FINI", 63)>> \o Symbolics \o <<Null>>),
   File(Symbolics \o <<E("INIT_ARRAY", 48), E("INIT_ARRAYSZ", 8), E("FINI_ARRAYSZ", 7), E("FINI_ARRAY", 24), Null>>)}

\* Refused: no section, tables with addends, no or an empty hash table, no symbols,
\* no strings.
Refused ==
  {File(entries) : entries \in {<<>>, Symbolics \o <<E("RELA", 52), Null>>, Symbolics \o <<E("PLTREL", 7), Null>>,
                    <<E("STRTAB", 4), E("SYMTAB", 8), Null>>,
                    <<E("HASH", 16), E("STRTAB", 4), E("SYMTAB", 8), E("HASH", 56), Null>>,
                    <<E("HASH", 12), E("STRTAB", 4), Null>>, <<E("HASH", 12), E("SYMTAB", 8), Null>>}}

Guest(early, onload, big) ==
  [File(Usual \o <<Null>>) EXCEPT !.early = early, !.onload = onload, !.big = big]

\* Pages between the segments, in an image that is copied and in one that is too large.
Holes(big) == [Guest({}, 11, big) EXCEPT !.holes = TRUE]

MCFiles ==
  {Old, File(Reverse(Usual) \o <<Null>>)} \cup Odd \cup Refused
    \cup {Guest(e, o, b) : e \in SUBSET {"init_func", "JNI_OnLoad"}, o \in {None, 11}, b \in BOOLEAN}
    \cup {Holes(b) : b \in BOOLEAN}
=============================================================================
