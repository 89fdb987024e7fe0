------------------------------ MODULE ElfImage ------------------------------
(***************************************************************************)
(* Loading the image of one library (emulator/linker_phdr.cpp) through the *)
(* wrappers of emulator/memory.cpp: the headers, the reservation, the      *)
(* segments mapped over it, the page protections before and after          *)
(* relocation, and the release of the image.                               *)
(*                                                                         *)
(* The address space is Pages pages of PageSize bytes, and its size is the *)
(* modulus of the code's unsigned arithmetic, 2^32 there.  A byte of       *)
(* memory is 0 or, for the byte k of the file, k + 1; None is one of the   *)
(* rest of the program.  windows selects the _MSC_VER branches of the      *)
(* wrappers, which reserve with VirtualAlloc and read the segments into    *)
(* the reservation; elsewhere they are the POSIX calls.                    *)
(***************************************************************************)
EXTENDS Naturals, Sequences

CONSTANTS
  PageSize, Pages,
  FileSize,   \* the file's length
  Images,     \* the files: their program headers (see Image)
  Builds,     \* the values of _MSC_VER considered
  None

ASSUME SizeAssumption == PageSize \in Nat \ {0} /\ Pages \in Nat \ {0} /\ FileSize \in Nat
ASSUME BuildsAssumption == Builds \subseteq BOOLEAN

Word    == PageSize * Pages
Address == 0..(Word - 1)
Page    == 0..(Pages - 1)
Prot    == SUBSET {"R", "W", "X"}

ASSUME NoneAssumption == None \notin Nat /\ \A f \in Prot : f # None

\* The checks of ReadElfHeader, VerifyElfHeader and ReadProgramHeader a file may
\* fail.  That of e_type is commented out.
HeaderErrors == {"too small", "magic", "class", "data", "version", "machine", "phnum"}

\* errors: the checks that fail; load: the PT_LOAD entries; relro: the PT_GNU_RELRO
\* entries; phdr: the p_vaddr of PT_PHDR, if there is one; phoff, phlen: the header
\* table in the file.
Segment == [vaddr : Nat, offset : Nat, filesz : Nat, memsz : Nat, flags : Prot]
Image   == [errors : SUBSET HeaderErrors, load : Seq(Segment), relro : Seq([vaddr : Nat, memsz : Nat]),
            phdr : Nat \cup {None}, phoff : Nat, phlen : Nat, textrel : BOOLEAN]

PAGE_START(x)  == x - (x % PageSize)
PAGE_OFFSET(x) == x % PageSize
PAGE_END(x)    == PAGE_START(x + PageSize - 1)

\* What linkers emit and the code relies on.  A segment's bytes in the file are at
\* most those in memory, at the same place of a page.  The segments ascend; where the
\* later one starts on the last page of an earlier one, the file has them side by
\* side, the earlier one has no bss, and is writable only if the later one is.  RELRO
\* is part of the segments.  PT_PHDR, if it lies in a segment, has the header table's
\* address; without it, the table is in the first segment, if that has offset 0.
Contiguous(s, t) ==
  /\ s.filesz = s.memsz
  /\ s.vaddr + t.offset = t.vaddr + s.offset
  /\ "W" \in s.flags => "W" \in t.flags
WellFormed(m) ==
  /\ \A k \in DOMAIN m.load :
       LET s == m.load[k] IN
       s.memsz > 0 /\ s.filesz <= s.memsz /\ PAGE_OFFSET(s.offset) = PAGE_OFFSET(s.vaddr)
  /\ \A j, k \in DOMAIN m.load : j < k =>
       LET end == m.load[j].vaddr + m.load[j].memsz IN
       /\ end <= m.load[k].vaddr
       /\ PAGE_START(m.load[k].vaddr) < end => Contiguous(m.load[j], m.load[k])
  /\ \A r \in DOMAIN m.relro : \E j, k \in DOMAIN m.load :
       /\ m.relro[r].memsz > 0
       /\ m.load[j].vaddr <= m.relro[r].vaddr
       /\ m.relro[r].vaddr + m.relro[r].memsz <= m.load[k].vaddr + m.load[k].memsz
  /\ m.phdr # None =>
       /\ \E j, k \in DOMAIN m.load :
            m.load[j].vaddr <= m.phdr /\ m.phdr < m.load[k].vaddr + m.load[k].memsz
       /\ \A k \in DOMAIN m.load :
            m.load[k].vaddr <= m.phdr /\ m.phdr < m.load[k].vaddr + m.load[k].filesz =>
              m.phoff + m.load[k].vaddr = m.load[k].offset + m.phdr
  /\ m.phdr = None /\ m.load # <<>> /\ m.load[1].offset = 0 =>
       m.phoff + m.phlen <= m.load[1].filesz

ASSUME ImagesAssumption == \A m \in Images : m \in Image /\ WellFormed(m)

\* The pages that touch the addresses from a on, up to and without b.
Touched(a, b) == IF a >= b THEN {} ELSE (a \div PageSize)..((b - 1) \div PageSize)

VARIABLES
  image,       \* the file being loaded
  windows,     \* _MSC_VER
  prot,        \* the protection of every page, None where nothing is mapped
  byte,        \* the bytes of memory
  phdr_mmap,   \* the page that holds the header table while the file is read
  load_start,
  i,           \* the segment LoadSegments has reached
  loaded_phdr,
  at,          \* the function reached
  others,      \* ghost: what the rest of the program had mapped at first
  unread       \* ghost: a read() of a segment failed

input == <<image, windows, others>>
vars  == <<input, prot, byte, phdr_mmap, load_start, i, loaded_phdr, at, unread>>

Free == {p \in Page : prot[p] = None}

\* Page 0 is never mapped.
Init ==
  /\ image \in Images
  /\ windows \in Builds
  /\ others \in SUBSET (Page \ {0})
  /\ prot = [p \in Page |-> IF p \in others THEN {"R", "W"} ELSE None]
  /\ byte = [a \in Address |-> IF a \div PageSize \in others THEN None ELSE 0]
  /\ phdr_mmap = None
  /\ load_start = None
  /\ i = 1
  /\ loaded_phdr = None
  /\ at = "headers"
  /\ unread = FALSE

-----------------------------------------------------------------------------
(* phdr_table_get_load_size                                                *)

\* Variant: the end is taken from the bytes in the file, not those in memory.
MaxVaddrInFile ==
  PAGE_END(CHOOSE v \in {image.load[k].vaddr + image.load[k].filesz : k \in DOMAIN image.load} :
             \A k \in DOMAIN image.load : image.load[k].vaddr + image.load[k].filesz <= v)

MinVaddr ==
  PAGE_START(CHOOSE v \in {image.load[k].vaddr : k \in DOMAIN image.load} :
               \A k \in DOMAIN image.load : v <= image.load[k].vaddr)
MaxVaddr ==
  PAGE_END(CHOOSE v \in {image.load[k].vaddr + image.load[k].memsz : k \in DOMAIN image.load} :
             \A k \in DOMAIN image.load : image.load[k].vaddr + image.load[k].memsz <= v)

load_size == IF image.load = <<>> THEN 0 ELSE MaxVaddr - MinVaddr

\* An address read from the file, load_bias added.
Biased(vaddr) == (load_start + vaddr + Word - MinVaddr) % Word

Reservation == Touched(load_start, load_start + load_size)

-----------------------------------------------------------------------------
(* ElfReader::Load                                                         *)

\* Load returns false: ~ElfReader closes the file and unmaps the header table.
LoadFails ==
  /\ at' = "load_failed"
  /\ phdr_mmap' = None
  /\ prot' = IF phdr_mmap = None THEN prot ELSE [prot EXCEPT ![phdr_mmap] = None]
  /\ UNCHANGED <<input, byte, load_start, i, loaded_phdr, unread>>

\* s_mmap of a file at no given address: a view of it, in either build, on a page
\* that is free.
MapFile(p, flags) == [prot EXCEPT ![p] = flags]

\* ReadElfHeader, VerifyElfHeader and ReadProgramHeader: an ELF file for this
\* machine, whose header table is mapped read-only (one page of it here).
ReadHeaders(p) ==
  /\ at = "headers" /\ image.errors = {}
  /\ p \in Free \ {0}
  /\ phdr_mmap' = p
  /\ prot' = MapFile(p, {"R"})
  /\ at' = "reserve"
  /\ UNCHANGED <<input, byte, load_start, i, loaded_phdr, unread>>

\* A check fails, or the map does.
RejectHeaders == at = "headers" /\ LoadFails

\* ReserveAddressSpace.  POSIX maps the range without access, Windows read-write;
\* both give zeroed pages that nothing else uses.
Reserve(a) ==
  /\ at = "reserve"
  /\ load_size # 0
  /\ PAGE_OFFSET(a) = 0 /\ a + load_size <= Word
  /\ Touched(a, a + load_size) \subseteq Free \ {0}
  /\ load_start' = a
  /\ prot' = [p \in Page |-> IF p \notin Touched(a, a + load_size) THEN prot[p]
                             ELSE IF windows THEN {"R", "W"} ELSE {}]
  /\ at' = "segments"
  /\ UNCHANGED <<input, byte, phdr_mmap, i, loaded_phdr, unread>>

\* No loadable segment, or mmap fails.
ReserveFails ==
  /\ at = "reserve"
  /\ ~windows \/ load_size = 0
  /\ LoadFails

\* VirtualAlloc fails with NULL, which is not MAP_FAILED: the load goes on as if
\* the image were reserved at 0.
ReserveNull ==
  /\ at = "reserve"
  /\ windows /\ load_size # 0
  /\ load_start' = 0
  /\ at' = "segments"
  /\ UNCHANGED <<input, prot, byte, phdr_mmap, i, loaded_phdr, unread>>

-----------------------------------------------------------------------------
(* ElfReader::LoadSegments                                                 *)

seg        == image.load[i]

\* Variant: the file is mapped from the segment's first byte on, not its page.
FileStartUnrounded == seg.offset

FileByte(k) == IF k < FileSize THEN k + 1 ELSE 0
SegStart   == Biased(seg.vaddr)
SegFileEnd == SegStart + seg.filesz
SegEnd     == SegStart + seg.memsz
FileStart  == PAGE_START(seg.offset)
FileLength == (seg.offset + seg.filesz) - FileStart
FilePages  == Touched(PAGE_START(SegStart), PAGE_START(SegStart) + FileLength)
ZeroPages  == Touched(PAGE_END(SegFileEnd), PAGE_END(SegEnd))

\* Variant: nothing is cleared.
ClearedNot == {}

\* What the memset clears: the rest of a writable segment's last file page.
Cleared ==
  IF "W" \in seg.flags /\ PAGE_OFFSET(SegFileEnd) > 0
  THEN SegFileEnd..(PAGE_END(SegFileEnd) - 1) ELSE {}

Segments == at = "segments" /\ i <= Len(image.load)

\* POSIX: whole pages of the file, then zeroed pages, each with the segment's flags.
MapSegment ==
  /\ Segments /\ ~windows
  /\ prot' = [p \in Page |-> IF p \in FilePages \cup ZeroPages THEN seg.flags ELSE prot[p]]
  /\ byte' = [a \in Address |->
                IF a \in Cleared \/ a \div PageSize \in ZeroPages THEN 0
                ELSE IF a \div PageSize \in FilePages
                THEN FileByte(FileStart + (a - PAGE_START(SegStart)))
                ELSE byte[a]]
  /\ i' = i + 1
  /\ UNCHANGED <<input, phdr_mmap, load_start, loaded_phdr, at, unread>>

\* One of the two mmaps fails.
MapSegmentFails ==
  /\ Segments
  /\ IF windows THEN seg.flags = {"X"} /\ FilePages \cup ZeroPages # {}
     ELSE FilePages \cup ZeroPages # {}
  /\ LoadFails

\* Where read() stores the segment's bytes.
ReadBytes ==
  {a \in Address : /\ a >= PAGE_START(SegStart) /\ a < PAGE_START(SegStart) + FileLength
                   /\ prot[a \div PageSize] # None}

\* The memset faults where nothing is mapped.
Faults == ~(Cleared \subseteq {a \in Address : prot[a \div PageSize] # None})

\* Windows: the bytes are read into the reservation, whether read() succeeds or
\* not; protections stay, and a zero map only returns the address given.
ReadSegment(ok) ==
  /\ Segments /\ windows
  /\ seg.flags # {"X"} \/ FilePages \cup ZeroPages = {}
  /\ ~Faults
  /\ byte' = [a \in Address |->
                IF a \in Cleared THEN 0
                ELSE IF ok /\ a \in ReadBytes THEN FileByte(FileStart + (a - PAGE_START(SegStart)))
                ELSE byte[a]]
  /\ i' = i + 1
  /\ unread' = (unread \/ ~ok)
  /\ UNCHANGED <<input, prot, phdr_mmap, load_start, loaded_phdr, at>>

Crash ==
  /\ at' = "crashed"
  /\ UNCHANGED <<input, prot, byte, phdr_mmap, load_start, i, loaded_phdr, unread>>

ReadSegmentCrashes == Segments /\ windows /\ Faults /\ Crash

-----------------------------------------------------------------------------
(* ElfReader::FindPhdr                                                     *)

\* CheckPhdr: the table lies in the file bytes of one segment.
CheckPhdr(loaded) ==
  \E k \in DOMAIN image.load :
    /\ Biased(image.load[k].vaddr) <= loaded
    /\ loaded + image.phlen <= Biased(image.load[k].vaddr) + image.load[k].filesz

ElfAddr == Biased(image.load[1].vaddr)

\* Variant: the first segment is taken to start with the ELF header.
LoadedPhdrFirst ==
  IF image.phdr # None THEN Biased(image.phdr)
  ELSE ElfAddr + (IF byte[ElfAddr] = 1 THEN image.phoff ELSE 0)

\* Where the table should be: at PT_PHDR, or where the ELF header, at the start
\* of a first segment of offset 0, says.
LoadedPhdr ==
  IF image.phdr # None THEN Biased(image.phdr)
  ELSE IF image.load[1].offset # 0 THEN None
  ELSE ElfAddr + (IF byte[ElfAddr] = 1 THEN image.phoff ELSE 0)

Found == LoadedPhdr # None /\ CheckPhdr(LoadedPhdr)

HeaderFaults ==
  image.phdr = None /\ image.load[1].offset = 0 /\ prot[ElfAddr \div PageSize] = None

SegmentsDone == at = "segments" /\ i = Len(image.load) + 1

\* Load returns true, and ~ElfReader unmaps the temporary table.
FindPhdr ==
  /\ SegmentsDone /\ ~HeaderFaults /\ Found
  /\ loaded_phdr' = LoadedPhdr
  /\ at' = "loaded"
  /\ prot' = [prot EXCEPT ![phdr_mmap] = None]
  /\ phdr_mmap' = None
  /\ UNCHANGED <<input, byte, load_start, i, unread>>

FindPhdrFails   == SegmentsDone /\ ~HeaderFaults /\ ~Found /\ LoadFails
FindPhdrCrashes == SegmentsDone /\ HeaderFaults /\ Crash

-----------------------------------------------------------------------------
(* soinfo_link_image: protections around the relocations                   *)

\* The pages of a program header, as the protections round it.
HeaderPages(h) ==
  Touched(Biased(PAGE_START(h.vaddr)),
          Biased(PAGE_START(h.vaddr)) + PAGE_END(h.vaddr + h.memsz) - PAGE_START(h.vaddr))

\* The segments that are not writable and touch the page p.
ReadOnlyAt(p) ==
  {k \in DOMAIN image.load : "W" \notin image.load[k].flags /\ p \in HeaderPages(image.load[k])}

\* What a protection grants: VirtualProtect has none that can be executed or
\* written and not read.
Granted(flags) == IF windows THEN flags \cup {"R"} ELSE flags

\* Variant: the extra flags are not added.
SetLoadProtPlain(extra) ==
  [p \in Page |->
     IF ReadOnlyAt(p) = {} THEN prot[p]
     ELSE Granted(image.load[CHOOSE k \in ReadOnlyAt(p) : \A l \in ReadOnlyAt(p) : l <= k].flags)]

\* _phdr_table_set_load_prot: the pages of every segment that is not writable get
\* its flags and extra; where two share a page, those of the later one.
SetLoadProt(extra) ==
  [p \in Page |->
     IF ReadOnlyAt(p) = {} THEN prot[p]
     ELSE Granted(image.load[CHOOSE k \in ReadOnlyAt(p) : \A l \in ReadOnlyAt(p) : l <= k].flags
                    \cup extra)]

\* mprotect fails where nothing is mapped.
Protectable == \A p \in Page : ReadOnlyAt(p) # {} => prot[p] # None

link == <<input, byte, phdr_mmap, load_start, i, loaded_phdr, unread>>

\* Up to the relocations: the needed libraries, and the segments made writable if
\* the library has text relocations.
Unprotect ==
  /\ at = "loaded"
  /\ image.textrel => Protectable
  /\ prot' = IF image.textrel THEN SetLoadProt({"W"}) ELSE prot
  /\ at' = "relocating"
  /\ UNCHANGED link

\* Variant: the segments stay writable.
ProtectNot ==
  /\ at = "relocating"
  /\ at' = "relro"
  /\ UNCHANGED <<prot, link>>

\* The relocations are done: FLAG_LINKED, and the segments' own protection back.
Protect ==
  /\ at = "relocating"
  /\ prot' = IF image.textrel THEN SetLoadProt({}) ELSE prot
  /\ at' = "relro"
  /\ UNCHANGED link

\* Variant: only the pages that lie in a RELRO entry as a whole.
RelroPagesInside ==
  {p \in Page : \E k \in DOMAIN image.relro :
     /\ Biased(image.relro[k].vaddr) <= p * PageSize
     /\ (p + 1) * PageSize <= Biased(image.relro[k].vaddr) + image.relro[k].memsz}

\* Every page a RELRO entry touches.
RelroPages == UNION {HeaderPages(image.relro[k]) : k \in DOMAIN image.relro}

\* phdr_table_protect_gnu_relro, and soinfo_link_image returns true.
Relro ==
  /\ at = "relro"
  /\ \A p \in RelroPages : prot[p] # None
  /\ prot' = [p \in Page |-> IF p \in RelroPages THEN {"R"} ELSE prot[p]]
  /\ at' = "linked"
  /\ UNCHANGED link

\* Variant: the size of the first segment is unmapped.
MunmapFirst ==
  IF windows THEN prot
  ELSE [p \in Page |-> IF p \in HeaderPages(image.load[1]) THEN None ELSE prot[p]]

\* s_munmap(base, size).  UnmapViewOfFile only unmaps views of files, which a
\* reservation of VirtualAlloc is not; its failure is ignored.
Munmap ==
  IF windows THEN prot ELSE [p \in Page |-> IF p \in Reservation THEN None ELSE prot[p]]

Release ==
  /\ prot' = Munmap
  /\ at' = "released"
  /\ UNCHANGED link

\* Anything in soinfo_link_image fails: no .dynamic, a library needed, a
\* relocation, an mprotect.  find_library_internal unmaps the image.
LinkFails == at \in {"loaded", "relocating", "relro"} /\ Release

\* soinfo_unload, with the last reference.
Unload == at = "linked" /\ Release

Next ==
  \/ \E p \in Page : ReadHeaders(p)
  \/ RejectHeaders
  \/ \E a \in Address : Reserve(a)
  \/ ReserveFails \/ ReserveNull
  \/ MapSegment \/ MapSegmentFails
  \/ \E ok \in BOOLEAN : ReadSegment(ok)
  \/ ReadSegmentCrashes
  \/ FindPhdr \/ FindPhdrFails \/ FindPhdrCrashes
  \/ Unprotect \/ Protect \/ Relro
  \/ LinkFails \/ Unload

Spec == Init /\ [][Next]_vars

-----------------------------------------------------------------------------
InMemory == at \in {"loaded", "relocating", "relro", "linked"}

\* The reservation is one: see ReserveNull.
Reserved == load_start \notin {None, 0}

\* "At this point we know that whatever is loaded @ base is a valid ELF shared
\* library whose segments are properly mapped in" (linker.cpp): every byte of
\* every segment the file has is at its biased address, inside the reservation,
\* however the segments share pages.
SegmentsMapped ==
  InMemory =>
    \A k \in DOMAIN image.load : \A n \in 0..(image.load[k].filesz - 1) :
      LET a == Biased(image.load[k].vaddr) + n IN
      /\ a \div PageSize \in Reservation
      /\ prot[a \div PageSize] # None
      /\ byte[a] = FileByte(image.load[k].offset + n)

\* So it is, unless a reservation or a read failed unseen on Windows.
SegmentsRead == Reserved /\ ~unread => SegmentsMapped

Gap(k) == image.load[k].filesz..(image.load[k].memsz - 1)

\* "If a segment's p_filesz is smaller than its p_memsz, the extra bytes between
\* them should always be initialized to 0" (linker_phdr.cpp): the rest of the file's
\* last page, which mmap fills with what follows in the file, and the pages after
\* it.  With mmap this is so of the writable segments.
ExtraBytesZero ==
  InMemory /\ Reserved =>
    \A k \in DOMAIN image.load : windows \/ "W" \in image.load[k].flags =>
      \A n \in Gap(k) : byte[Biased(image.load[k].vaddr) + n] = 0

\* Mapping at fixed addresses replaces what is there: nothing the rest of the
\* program had mapped is replaced, unmapped or written.
OthersUntouched ==
  Reserved => \A p \in others : /\ prot[p] = {"R", "W"}
                               /\ \A n \in 0..(PageSize - 1) : byte[p * PageSize + n] = None

\* The table that soinfo keeps as phdr, and walks at every later protection, is
\* in memory where Load says.
HeaderTableFound ==
  InMemory /\ Reserved /\ ~unread =>
    \A n \in 0..(image.phlen - 1) :
      byte[loaded_phdr + n] = FileByte(image.phoff + n)

\* While relocations are applied, every page they may touch can be written: RELRO
\* comes after them, and text relocations find their segments unprotected.
WritableWhileRelocating ==
  at = "relocating" /\ Reserved =>
    \A k \in DOMAIN image.load :
      image.textrel \/ "W" \in image.load[k].flags =>
        \A p \in HeaderPages(image.load[k]) : "W" \in prot[p]

\* Once linked, what RELRO covers is read-only, to the last byte: "put every page
\* touched by the segment as read-only" (linker_phdr.cpp).
RelroReadOnly ==
  at = "linked" /\ Reserved =>
    \A k \in DOMAIN image.relro : \A n \in 0..(image.relro[k].memsz - 1) :
      prot[(Biased(image.relro[k].vaddr) + n) \div PageSize] = {"R"}

\* Once linked, a page that is not RELRO has the flags of the last segment
\* touching it ("the page inherits the mapping flags of the latter segment"); on
\* Windows the protections are not the segments'.  The exception: after text
\* relocations, a page a writable segment shares with an earlier read-only one is
\* left with the flags of that one.
LatterFlags ==
  at = "linked" /\ ~windows =>
    \A k \in DOMAIN image.load : \A p \in HeaderPages(image.load[k]) :
      \/ \E l \in DOMAIN image.relro : p \in HeaderPages(image.relro[l])
      \/ \E l \in DOMAIN image.load : l > k /\ p \in HeaderPages(image.load[l])
      \/ prot[p] = image.load[k].flags
      \/ /\ image.textrel /\ "W" \in image.load[k].flags
         /\ \E l \in 1..(k - 1) : l \in ReadOnlyAt(p) /\ prot[p] = image.load[l].flags

\* What stays mapped: of a released image nothing, since one range holds all of it;
\* of one whose load failed the whole reservation, which ~ElfReader leaves; and on
\* Windows the reservation always.
LeftMapped ==
  at \in {"released", "load_failed"} =>
    {p \in Page : prot[p] # None} \ others
      = IF (windows \/ at = "load_failed") /\ Reserved THEN Reservation ELSE {}

=============================================================================
