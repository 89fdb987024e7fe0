----------------------------- MODULE MCElfImage -----------------------------
(***************************************************************************)
(* Small files for the runs of ElfImage, with pages of 2 bytes.            *)
(***************************************************************************)
EXTENDS ElfImage

RX == {"R", "X"}
RW == {"R", "W"}

Seg(vaddr, offset, filesz, memsz, flags) ==
  [vaddr |-> vaddr, offset |-> offset, filesz |-> filesz, memsz |-> memsz, flags |-> flags]
File(load, relro, phdr, phoff, textrel) ==
  [errors |-> {}, load |-> load, relro |-> relro, phdr |-> phdr, phoff |-> phoff, phlen |-> 1,
   textrel |-> textrel]
Ro(vaddr, memsz) == << [vaddr |-> vaddr, memsz |-> memsz] >>

\* Text, then data with a bss that ends on a later page.
TextDataBss(low, textrel) ==
  File(<<Seg(low, 0, 3, 3, RX), Seg(low + 5, 3, 2, 5, RW)>>, <<>>, low + 1, 1, textrel)

\* The data starts with RELRO; both segments have bytes of file page 1; no PT_PHDR.
SharedFilePage(textrel) ==
  File(<<Seg(0, 0, 3, 3, RX), Seg(5, 3, 2, 2, RW)>>, Ro(5, 1), None, 1, textrel)

\* Nothing at offset 0 of the file: PT_PHDR, in the file's bytes or the bss, or not found.
NoHeader(phdr) == File(<<Seg(2, 2, 2, 2, RX), Seg(4, 4, 1, 2, RW)>>, <<>>, phdr, 3, FALSE)

\* The end of the text and the start of the data share a page of memory.
SharedPage(textrel) ==
  File(<<Seg(0, 0, 3, 3, RX), Seg(3, 3, 2, 3, RW)>>, <<>>, None, 1, textrel)

\* Text and data with more bytes in memory than in the file, where the file has
\* others, and a read-only segment with the file's last byte.
Gaps ==
  File(<<Seg(0, 0, 1, 2, RX), Seg(2, 2, 1, 2, RW), Seg(4, 4, 1, 1, {"R"})>>,
       <<>>, 0, 0, FALSE)

\* A segment that may only be executed.
ExecuteOnly == File(<<Seg(0, 0, 2, 2, {"X"})>>, <<>>, None, 1, FALSE)

\* A file some check rejects, with all else in order.
Bad(error) == [Gaps EXCEPT !.errors = {error}]

Nothing == File(<<>>, <<>>, None, 0, FALSE)

MCImages ==
  {TextDataBss(low, t) : low \in {0, 2}, t \in BOOLEAN}
    \cup {SharedFilePage(t) : t \in BOOLEAN} \cup {SharedPage(t) : t \in BOOLEAN}
    \cup {NoHeader(None), NoHeader(3), NoHeader(5), Gaps, ExecuteOnly, Nothing}
    \cup {Bad(e) : e \in HeaderErrors}
=============================================================================
