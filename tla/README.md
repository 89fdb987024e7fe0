# A verification of and-emu's dynamic linker in TLA+

and-emu (`src/emulator`) loads Android's ARM shared libraries into a Windows or POSIX
process and runs their code in the unicorn engine. Almost all of its own logic is a port
of Bionic's dynamic linker: `linker.cpp` (libraries, symbols, relocation), `linker_phdr.cpp`
(ELF images), `dlfcn.cpp` (the `dl*` functions), over the system calls wrapped in
`memory.cpp`. `emulator.cpp` and `engine.cpp` drive the engine. Everything is
single-threaded; what makes it hard is re-entrance (the code of a library runs in the
middle of the linker and may call the linker again), partial failure, and lists, counts,
addresses and page protections that several functions must keep consistent over long
sequences of calls.

Run everything inside this directory: `tlc -config X.cfg M` for a run of the table below,
`tlapm M.tla` for the proofs of a module of section 5.

## 1. The system

| Part | Code | State it keeps | Operations | Module |
|---|---|---|---|---|
| dlopen, dlclose | `linker.cpp` 607-709, 930-1060, 1250-1290 | `flags`, `ref_count`, `constructors_called`, `needed` of every soinfo; the C stack | `do_dlopen`, `find_library(_internal)`, `load_library`, `soinfo_link_image`'s loop over DT_NEEDED, `CallConstructors`, `CallDestructors`, `soinfo_unload`, `do_dlclose` | `Linker`, `DynLoader` |
| soinfo storage | `linker.cpp` 54-280 | `gSoInfoPools`, `gSoInfoFreeList`, `solist`, `sonext` | `ensure_free_list_non_empty`, `soinfo_alloc`, `soinfo_free`; `dl_iterate_phdr` (not in the ARM build) | `SoinfoPool` |
| Library search and load | `linker.cpp` 495-640, `engine.cpp`, `s_munmap` | `gLdPaths`, the soinfo's `name`, the file opened, the images mapped | `find_loaded_library`, `open_library`, `open_library_on_path`, `load_library`, `find_library_internal` | `LibrarySearch` |
| Symbol lookup | `linker.cpp` 281-490, `dlfcn.cpp` | the symbol and hash tables of each image | `soinfo_elf_lookup`, `soinfo_do_lookup`, `s_dlsym`, `s_dladdr`, `dl_unwind_find_exidx` | `Symbols`, `Dlsym` |
| Relocation | `linker.cpp` 711-957 | the words of the image | `soinfo_relocate` | `Relocate` |
| ELF images | `linker_phdr.cpp`, `memory.cpp` | mappings, page protections, the program header table | `ElfReader::Load`, `phdr_table_*protect*`, `s_mmap`, `s_mprotect`, `s_munmap` | `ElfImage` |
| Dynamic section | `linker.cpp` 959-1330, `linker_phdr.cpp` 519-586 | the soinfo's pointers into the image and counts, one for each DT_ entry | `soinfo_link_image`, `CallFunction`, `CallArray`, `CallConstructors`, `CallDestructors` | `Dynamic` |
| Virtual machine | `emulator.cpp` | the engine's handle, its memory, the guest's progress | `main`, `start_vm` | `Vm` |

How they interact. `dlopen` (`dlfcn.cpp`) calls `do_dlopen`, which looks a library up by
basename on `solist`, else opens a file (library search), maps it (`ElfReader`), takes a
soinfo from the pool and links it: the dynamic section is read, every DT_NEEDED name goes
recursively through the same search, the relocations are applied with the symbols of the
libraries found, the pages are protected. Then the constructors run, needed libraries first;
these are library code, entered through `CallFunction`, and may call `dlopen` and `dlclose`.
`dlclose` drops a reference and, with the last one, runs the destructors (library code
again), releases the needed libraries by name, unmaps the image and frees the soinfo. The
soinfo pools are write-protected whenever no function of the linker runs.

What makes each part correct:

- *dlopen, dlclose*: a reference count equals the references that exist, so that a library is
  unloaded exactly when nobody uses it; a loaded library has its needed libraries loaded
  (the code dereferences lookups by name without a test); nothing stays half linked after a
  failure; initialisers run once and in dependency order, destructors only after constructors;
  the pools are writable when the linker writes; every call returns, cyclic dependencies
  included.
- *soinfo storage*: one chain for the loaded libraries and one for the free entries, which
  share the `next` field and partition the entries; a walk with a callback that changes the
  list stays on it.
- *Library search and load*: one library for each basename; a file that is there is found; an
  image without a soinfo comes from one of the failures that leave one, which on Windows are
  more than on POSIX.
- *Symbols*: the first global definition in search order; an address is attributed to the
  library it came from.
- *Relocation*: every relocation is applied exactly once, with the right definition.
- *ELF images*: the bytes of every segment at their place, zeroes after them, nothing of
  others overwritten, every page with the right protection at each phase, and nothing left
  mapped but what the code is known to leave.
- *Dynamic section*: what is linked is what the file says, in whatever order it says it; a
  library's functions are called in order, each once.
- *Virtual machine*: an answer of success means that the guest's functions ran on a linked
  image; `start_vm` ends.

Hazards. `PROJECT.json` lists 35 places where this code is hard to test, each with the
properties that would catch it. Those no property covers, and why, are in section 7.

## 2. Modules

**Linker** is the core. The functions are recursive and re-entrant, so the model keeps the
call stack: a frame is `[at, lib, i, ret]`, the place the function has reached, its soinfo,
its position in the DT_NEEDED entries, and what the call it made returned. One action is the
stretch of a function from one call it makes to the next:

| Action | Code |
|---|---|
| `Dlopen`, `DlopenNull`, `Dlclose` | the client's calls, from outside or from a constructor or destructor (`MayCall`) |
| `FindLinked`, `FindFails`, `LoadLibrary` | `find_library_internal`: found (counted), refused (listed but not linked, a failed open), or loaded |
| `LinkNeeded`, `LinkAcquire`, `LinkDone`, `LinkFails` | `soinfo_link_image`: the next needed library, the reference it brings, the end, and a failure of any later part, with `find_library_internal`'s cleanup |
| `DlopenFails`, `DlopenConstruct`, `DlopenReturns` | the rest of `do_dlopen` |
| `ConstructAgain` ... `ConstructReturns` | `CallConstructors`, `CallFunction` |
| `UnloadShared` ... `DlcloseReturns` | `soinfo_unload`, `CallDestructors`, `do_dlclose` |

State: `listed` is `solist` as a set of names, `linked` is FLAG_LINKED, `ref_count` and
`constructors_called` are the fields, `mapped` the images, `writable` the protection of the
pools. Three variables are ghosts that only record history: `acquired` (the DT_NEEDED entries
that hold a reference), `leaked` (references that a failed link has lost), `inits`. The client
keeps its `handles`.

**DynLoader** is what a program is promised: a set of libraries it may use, closed under
DT_NEEDED, and handles on them. No counts, no stack, no half-linked state. `Linker` implements
it with `resident <- Usable` (linked and not being unloaded).

**LinkerInv** holds its inductive invariant, **LinkerProofs** the proofs. The other proofs are in
**SoinfoPoolProofs**, **SymbolsProofs**, **DlsymProofs**, **RelocateProofs**,
**LibrarySearchProofs**, **ElfImageProofs** and **VmProofs**, each about the module of that name,
the last one about `Dynamic` as well (section 5).

**SoinfoPool** has the pointers themselves: `next` of every entry, the heads, `sonext`, the two
pointers of `soinfo_free` while it walks, and `dl_iterate_phdr`'s while its callback runs.
Allocation and freeing may happen inside the callback. The code has that walk for i386 and MIPS
only, and always builds for ARM; it is kept because the list is the same. `Linker` uses the list as
a set.

**Symbols** has a library's symbol table and hash chains and the lookup on them, shared by
**Dlsym** (lookups from the client, with `dladdr` and the unwinder's search by address, while
libraries come and go) and **Relocate** (the two tables applied in order, the scopes of
`soinfo_do_lookup`, the arithmetic of the ARM types modulo the word size, and the failures,
which leave the earlier relocations applied).

**LibrarySearch** has the `open()` attempts one step each, with files installed and removed
between them; a file's descriptor, once open, is not affected. The rest of `load_library` and
`find_library_internal` follows: `ElfReader::Load` maps an image, `soinfo_alloc` gives it a
soinfo, the link succeeds or has image and soinfo removed. Each may fail after the others have
succeeded; `images` counts what is mapped, and the ghost `lost` what nobody can unmap any more.
`Munmap` is `s_munmap`: on POSIX it unmaps; on Windows (`windows`) `UnmapViewOfFile` fails on
what `VirtualAlloc` gave, nobody looks at the result, and the image is `left`.

**ElfImage** is an address space of pages with protections and bytes, one file chosen from
`Images`, and the program's other mappings. Its actions are `ElfReader::Load`'s parts, the
protection changes of `soinfo_link_image`, and the releases. The variable `windows`, one of `Builds`,
selects the `_MSC_VER` branches of `memory.cpp`: `VirtualAlloc` for a reservation, `read()` into
it for a segment, protections that always grant reading, an unmapping that fails. A file's
`errors` are the header checks it fails.

**Dynamic** is `soinfo_link_image` for one library, an entry of the dynamic section for each
step: `ExtractHash` ... `ExtractOther` are the cases of the switch, `FindNeeded` ... `Protect` what
follows it, `CallInit` ... `CallFini` the functions called by `CallConstructors` and
`CallDestructors`. The definitions below them (`EntriesOf`, `PointerOf`, `Table`, `Initialisers`)
read the same off the file as a whole; the properties compare the two. `Linker`, `Relocate` and
`ElfImage` have the recursion, the arithmetic and the pages that are one step here.

**Vm** composes `Dynamic` with `main` and `start_vm`: the library is opened, `JNI_OnLoad` looked
up, the image copied into an engine, DT_INIT and `JNI_OnLoad` emulated. The engine is external:
each call of it succeeds or gives an error, and a guest function is entered, reaches the address
where emulation stops, fails, or returns early (`file.early`), to where LR points. `uc_mem_write`
reads the image on the host: on POSIX the pages of the reservation that no segment covers
(`file.holes`) have no access, and the program crashes there (`WriteCrashes`).

Operators marked *Variant* in a module are plausible mistakes in the definition that follows
or shares their name. No specification uses them; each shows that some property can fail
(`PROJECT.json`, "mutants").

## 3. Modelling assumptions

- *Client obligations (Linker)*. A program closes only handles it has. A destructor does not
  open a library that needs, or is, a library being unloaded at that moment: the code does
  nothing about it, and a handle so obtained names a soinfo the outer call frees. A walk's
  callback does not unload the library it was called for.
- *Library code returns*, and makes at most `MaxNested` calls.
- *Files are well formed* (`WellFormed` in `ElfImage`). Segments are in ascending order with
  offsets congruent to addresses modulo the page size. Where one starts on the last page of an
  earlier one, the file has them side by side, as one page of it is mapped twice; the earlier one
  then has no bss, and is writable only if the later one is, whose flags the page gets. RELRO lies in
  the segments, and PT_PHDR has the header table's address. The code checks none of this. Symbols lie
  in their image; `Relocate` has one relocation for each place.
- *Memory*. Page 0 is never mapped; an image does not end on the last byte of the address
  space; allocation granularity on Windows is one page. A `read()` that fails reads nothing. Every
  segment has some access flags. An `mprotect` that fails after others of the same walk succeeded
  is one failing step: the image is unmapped right after. A `VirtualAlloc` at no given address
  gives no memory at 0. One that fails goes unseen, maps nothing and ends in a crash: `ElfImage`
  has it, `LibrarySearch`, which counts images, leaves such a load out.
- *Dynamic sections* end with a DT_NULL, and a hash table's header is in the image and not
  relocated (`FilesAssumption`): the code checks neither.
- *The engine*: registers and hooks always succeed, `uc_mem_write` writes all or nothing and
  reads the image only if the engine has memory for all of it, and a function that neither fails nor returns early reaches the address where it is to be stopped.
  Whether that address is reached in practice is a matter of the engine and of the guest.
- *ARM build*: the `ANDROID_ARM_LINKER` branches; the i386 and MIPS relocation types are left
  out. On an x86 host `CallFunction` does not enter the function: in `Linker` that is
  `Callers = {}`, a special case of any other value, as the calls library code may make are
  optional; in `Dynamic` the variable `arm` says which host it is. It is never one together with
  `windows` in `Vm`: Microsoft's compiler does not define `__arm__`.
- *Failures*. `LoadLibrary`'s and the later parts of a link's may happen at any time, whatever
  their cause; the causes are in `LibrarySearch`, `ElfImage` and `Relocate`.

## 4. Runs

| Run | Bounds | What it shows |
|---|---|---|
| `nested` | 3 libraries and libdl, one needed both directly and through another; all their code calls, twice per constructor; 2 handles each; 1 leaked reference | The inductive invariant (`FullInv`), and everything about re-entrance: needed libraries resident, handles valid, pools writable, initialisers once and in order, a library freed only unreferenced, every call returns |
| `mixed` | 4 libraries and libdl: two need each other, one names a system library twice; up to 3 leaks | Failing links leave exact counts and nothing half linked; destructors only after constructors although the two lists of system libraries differ; `Linker` implements `DynLoader` |
| `pool` | 2 pools of 2 entries | The two chains, their partition, `soinfo_free`'s pointers, and complete walks |
| `dlsym` | 2 libraries in 3 pages of addresses, two names: weak, global, local and undefined entries; a file that starts at 0 and one that does not | What `dlsym`, `dladdr` and the unwinder answer as libraries come and go |
| `relocate` | up to 2 relocations in each table, every type and symbol | Each passed relocation applied exactly once, also when the link fails half-way; strong symbols defined |
| `search` | 2 basenames (one too long for a soinfo), 2 directories, 2 paths, 2 images lost or left, both builds | One library for each basename, files that stay are found, every image is a library's, one of the lost, or on Windows one that a failed link or an unload left; every search ends |
| `elf` | 14 files and one for each header check, with pages of 2 bytes in 8 pages, every set of other mappings, both builds | Segments, bss, protections, header table, nothing of others touched, what stays mapped |
| `vm` | 30 files: as linkers emit them, reversed, with repeated, missing or late entries, refused, with pages between segments; words modulo 64, 3 biases, with and without functions entered, both builds | What is extracted and relocated, the order of calls, what the guest enters, what `start_vm` answers and that it ends |
| `relocate_own`, `relocate_rebase`, `search_paths`, `elf_unread` | as above, smaller | The disagreements of section 6 |

Why these bounds are enough: the counting hazards need a library that is referenced by a
handle, an entry and a call in progress at once, which two handles, a shared dependency and a
nested call give; the stack reaches every pair of functions on top of each other with two
levels of nesting. An off-by-one at a page needs pages of more than one byte and segments that
begin and end inside one; two pages of a pool with two entries have a first, last and only
entry of every list. Where a property is proved, the run is only a cheap test before the proof.

Bounds in the modules: `MaxHandles`, `MaxLeaks`, `MaxNested` (`Linker`), `MaxPools`
(`SoinfoPool`), `MaxAddress` (`Dlsym`), `MaxRel` (`Relocate`), `MaxLost` (`LibrarySearch`: no
search starts once so many images are lost or left), `Pages` and `FileSize` (`ElfImage`), `Word` and
`Biases` (`Dynamic`), `MaxRan` (`Vm`: how many entries of guest functions are recorded).

Fairness. `Linker` has `WF_vars(LinkerStep)`: a call that has started keeps running, because
there is one thread and no step of the linker waits for anything; the client is not obliged to
call. `LibrarySearch` has `WF_vars(Step)`: a search goes on whatever happens to the files. `Vm` has
`WF_vars(Next)`: it is a program with one thread, which runs to its end; that the guest's
functions do not run for ever is a condition of `StartVmEnds`, not of the fairness. The
other modules state safety only. `CHECK_DEADLOCK FALSE` stands in the runs of `Relocate` (a
linked or failed library has no further step), `ElfImage` (a released image) and `Vm` (a program
that has ended).

## 5. Proofs

`tlapm` checks every theorem below for every value of the constants: all sets of libraries,
every DT_NEEDED graph (cycles included), every depth of nesting, pools of every size, every
symbol and hash table, every list of relocations, every well-formed file and page size, every
dynamic section. Each invariant that is proved was first checked by TLC on the bounds of section 4.

### The linker

| Theorem | Says | Module |
|---|---|---|
| `Invariant`, `TypeCorrect` | `IInv`, and with it `TypeOK`, always holds | `LinkerProofs` |
| `RefCountsExact` | every count is libdl's own, plus handles, entries held, references in flight and leaks | |
| `PoolsStayWritable` | the pools are writable while linker code runs | |
| `NeededStayResident` | what a usable library needs is usable: `CallConstructors` never dereferences NULL | |
| `RestStaysResident` | what an unload has still to release is usable: nor does `soinfo_unload` | |
| `HandlesValid` | a handle names a linked, mapped library nobody is unloading | |
| `Ordered` | `OrderInv` always holds | |
| `NoneHalfLinked` | a library is listed and not linked only while `soinfo_link_image` runs for it | |
| `InitialisedInOrder` | initialisers run once, after those of what the library needs and no frame below constructs | |
| `FullInvariant`, `DestructsOnlyConstructed` | destructors run only after constructors, if `SystemClosed` | |
| `FreedByItsLastUser` | a soinfo leaves `solist` only when no handle, entry, leak or other frame refers to it | |
| `Implemented` | `Linker` implements `DynLoader` | |

The argument. `RefCountExact` alone is not inductive. A step of `soinfo_unload` lowers a count
because the *caller* gave up a reference, and it is the caller's place in its loop over
DT_NEEDED that says which. `IInv` therefore adds what the stack says:

- `StackInv`: every frame is waiting for the call above it (`Called`); searches form the top
  part of the stack; no library is linked by two frames.
- `FramesInv`: a library being linked is listed, not linked, has count 0 and holds exactly the
  entries before the loop's position; a library being unloaded has count exactly 1 and holds
  exactly the entries from the position on; one being constructed is usable; nothing needed by
  a search is being unloaded.
- `ReferencedResident`, `EntriesHeld`, `ImagesMapped`: positive counts belong to linked
  libraries, usable libraries hold all their entries, listed images are mapped.

`OrderInv` adds whose code has run. A library that is not linked is being linked and none of its
code has run (`HalfLinked`); a library marked `constructors_called` has had its initialisers run,
or a frame is still on its way to them (`CalledOnce`); and the entries such a frame's loop has
passed are in one of these two states themselves (`CtorsInv`): with cycles, `InitOrder` cannot say
more, and the frame below that excuses an entry is what makes the induction go through.
`StartedInv` says of every way to an `soinfo_unload` (handle, entry, frame) that the library's
constructors have been started; started and not finished means a frame holds a reference, so the
count is not 1 and the destructors are not reached.

`LinkerProofs` first proves how each way of changing the stack (going on, call, return, return with a
result, a client's call) changes the references in flight, the libraries being unloaded,
`StackInv` and `FramesInv`, and derives the counting facts used everywhere: a library whose last
reference is a frame's is in no other frame (`CarriedCount`, `LastReference`). Then it has
one lemma for each action; the actions that change no soinfo are instances of three general ones
(`QuietPop`, `QuietGoto`, `QuietCall`), those that count use `CountStep`. Its second half says once
which frames a step can make (`StepMade`) and which actions change a field (`Fields`), and proves
each part of `OrderInv` and `StartedInv` frame by frame from them. For the refinement, every action
is shown to be a load, an unload, an open, a close, or hidden from the client: usable and handles
unchanged. The two steps that are not hidden and not obvious are `LinkDone` (all a library needs is
usable when it becomes so) and `UnloadStarts` (the last reference is gone, so no handle and no usable
library's entry is left).

Assumptions: those of `Linker`. `libdl_info` is a library that needs none and starts with a count
greater than 1 (so it is never unloaded), `Needed` is a function to sequences of libraries, libdl is
in no list of system libraries. `FullInvariant` and `DestructsOnlyConstructed` also have the
hypothesis `SystemClosed`: a system library needs system libraries and libdl only. Without it the
property is false of the code: `do_dlopen` skips the constructors of a system library and with them
those of all it needs, but the `soinfo_unload` of what it needs runs their destructors. `MCLinker`
assumes the same, so that TLC evaluates it on the graphs it checks.

### The parts

| Theorem | Says | Module |
|---|---|---|
| `PoolInvariant` | `PoolInv` always holds | `SoinfoPoolProofs` |
| `ListsInOrder`, `EntriesPartitioned` | `solist` and the free list are chained in order and partition the entries | |
| `PrevNeverNull` | where `soinfo_free` writes through `prev`, it is the predecessor | |
| `WalkVisitsAll` | a walk stays on `solist` and visits whatever was there throughout | |
| `Lookup`, `FirstLibrary` | `soinfo_elf_lookup` gives an exported definition if there is one; a search stops at the first library with one | `SymbolsProofs` |
| `DlsymInvariant` | `DlsymInv` always holds | `DlsymProofs` |
| `Attributed`, `Named`, `Unwound` | `dladdr` and the unwinder attribute an address to the library it came from, and `dladdr` names it | |
| `FirstGiven`, `CallerSkipped` | `dlsym` gives the first global definition of its scope; RTLD_NEXT none up to the caller's | |
| `RelocateInvariant`, `PrefixApplied` | what was passed was applied exactly once, nothing else was written | `RelocateProofs` |
| `StrongDefined` | in a linked library every strong reference has a definition in what it needs | |
| `SearchInvariant` | `SearchInv` always holds | `LibrarySearchProofs` |
| `BasenamesUnique`, `StayingFileFound`, `ImagesCounted` | one library for each basename; no file that stays is missed; images are accounted for, in both builds | |
| `ElfInvariant` | `ElfInv` always holds | `ElfImageProofs` |
| `SegmentsReadHold`, `ExtraBytesZeroHold` | every byte of every segment is at its biased address, what is in memory only is 0 | |
| `OthersUntouchedHold`, `LeftMappedHold` | nothing of others is replaced, unmapped or written; what stays mapped is what the code is known to leave | |
| `HeaderTableFoundHold` | the header table a soinfo keeps is the file's | |
| `WritableWhileRelocatingHold`, `RelroReadOnlyHold`, `LatterFlagsHold` | the protections while relocating and once linked | |
| `VmInvariant` | `VmInv` always holds | `VmProofs` |
| `LinksAsInFile` | what is extracted, looked for and relocated is what the file says, in any order, however often | |
| `CallsAreInOrder` | the functions of a library are entered in the file's order, each once | |
| `OnLoadIsOnce` | JNI_OnLoad after DT_INIT, each once unless a guest function returns early | |
| `SuccessIsEmulated` | `start_vm` answers 1 only if the guest has entered both, or the image was too large | |

*`PoolInv`*. Both lists are threaded through the one field `next`, so a write for the one must not be
an entry of the other: `ListsChained` is inductive only together with `Apart` (no entry twice, none
on both) and `Complete` (every entry of a pool on one). `FreeInv` places `soinfo_free`'s two pointers
next to each other on `solist`. `WalkInv` is what lets a callback free: what the walk has passed and
what stays has been visited, and the entry it stands on is not the one freed.

*`Lookup`* needs the least position of a set (`Least`, from well-foundedness) in place of the loop
along a chain, and that a symbol's bucket holds it (`ChainsAssumption`).

*`DlsymInv`*. `ImagesApart` makes `find_containing_library` a function of the address; `GivenInv` keeps
the addresses given out inside the image of a library still listed while others come and go. That
the unwinder agrees is arithmetic on top: it compares a difference, `dladdr` two bounds. The
theorem `Named` is about libraries whose file starts at 0, as the property is (section 6).

*`RelocateInv`*. A word, once relocated, stays as it is because no other relocation is for its place
(`OnePerPlace`, from `Init`); R_ARM_REL32, ABS32 and the others are inverted modulo the word size by
the lemmas on remainders; `PassedSound` says that nothing that fails is behind the position.

*`SearchInv`*. While a library is searched for, none of its basename is loaded (`SoughtIsNew`): the
test at the start of `find_library_internal` holds until `soinfo_alloc`, whatever happens to files in
between. `MissedIsGone` ties a failed `open()` to a file that was not there at some time of the call.
The images are counted file by file with the cardinalities of the libraries loaded from each. One of a
failed link or an unload is gone on POSIX; on Windows it moves from the libraries to `left`, so that
the sum is the same.

*`ElfInv`*. `MappedInv` says whose every mapped page is: others', the temporary header table's, or the
reservation's. That a segment's pages, wherever a header rounds them to, are inside the reservation
is the arithmetic of `OneSegment` and `PagesOf`: the load bias moves whole pages, so rounding in the file
and in memory agree (`RoundedAlike`). `ReadInv` and `ZeroInv` are about the segments before `i`. Mapping
the next one keeps them because it replaces a page of an earlier one only by the same bytes of the file
(`EarlierKept`), and writes zeroes only after its own (`SegmentWrites`). On Windows the zeroes beyond the
file come from the reservation, which `FreshInv` follows past the segments read. `ProtInv` keeps, until
the relocations, that a page has the flags of the last segment there (`Latest`), and hence is writable if any
segment on it is (`WritablePage`); `LatterInv` is `LatterFlags` before RELRO takes its pages. A
reservation that failed unseen (`load_start` 0) is kept apart by `Reserved`: `ElfInv` says of it no more than
what is mapped.

*`VmInv`*. The properties of `Dynamic` read the file as a whole, the program reads it entry by entry, so
the invariant (`LinkInv`) says what the entries passed so far ask for: the soinfo has the last pointer
and size of each tag among them (`SoinfoIs`), `needed` their names, and `calls` the functions in the part
of the two lists gone through (`Inits`, `Finis`: an item for each call of `CallFunction`, NULL and -1
included). One more entry extends each of these by one element, or not at all (`SaidStep`,
`FunctionsStep`); the last one before the DT_NULL completes them (`SaidAll`). A write for one tag is not
seen in the field of another (`TagsApart`, `FieldsApart`). For `start_vm`, `RunInv` has what the guest has
entered at each place: `running` is what it is in, `vm` what it was started for, and the two
differ only if a function has returned early.

*Induction over data.* The library's induction theorems take an operator as a parameter, which no
installed prover can instantiate. What `Filter`, a recursive function, gives for every sequence is proved
by induction over a *set* instead, that of the lengths for which the fact holds (`Least`, from
well-foundedness; `Induction`, `SequenceInduction`); `Dynamic` has `Filter` in place of `SelectSeq` for
that reason.

Assumptions: those the modules name. `FilesAssumption` (`Dynamic`) is section 3's; it also says that no
pointer of a file is biased to address 0, where nothing is ever mapped. `JunkAssumption`: `Junk`
stands for whatever memory holds where the file says nothing, if that is not one of the two words
`CallFunction` passes over. `MaxRanAssumption` and `NoneAssumption` (`Vm`) make room in `ran` for
both functions and keep `None` apart from them; `GuestAssumption` types a guest's fields, and
`BuildsAssumption` (`Vm`, `LibrarySearch`) says that builds are Booleans. `ImagesAssumption` (`ElfImage`): files are well formed, as section 3
has it. `ImageAssumption` (`Dlsym`): images are whole pages, defined
symbols lie in their library's image. `ChainsAssumption` (`Symbols`): a hash table has a bucket, and
the chain of a symbol's bucket reaches it. `PathsAssumption` (`LibrarySearch`): the first of `gLdPaths` is
"", as the array in the code has it, so that a plain name is first opened as it is.
`RelocateProofs` has the hypothesis `NoExecutable`: nothing in the code assigns `somain` and no
preload is ever recorded. With either, another library might take precedence; what follows for the
program as it is, is the finding `relocate_own`.

### Only model-checked

- Liveness (`EveryCallReturns`, `SearchEnds`, `StartVmEnds`) and ENABLED, which the prover cannot do.
- The findings of section 6, which are counterexamples.

## 6. Where the code and its comments disagree

Shown by a run that TLC must find violated:

- `search_paths` (`linker.cpp:525`): `open_library_on_path` builds `path/name` in a buffer and
  then opens `name`. A library in a well known directory is found only if it is also in the
  current one.
- `relocate_own` (`linker.cpp:327`): the local scope is searched only with a main executable,
  and nothing assigns `somain`. A reference to a symbol only the library itself defines fails.
- `relocate_rebase` (`linker.cpp:884`): R_ARM_RELATIVE adds `base`, where `linker.h` says
  addresses of the file need `load_bias`; they differ if the first segment is not at 0.
- `elf_unread` (`memory.cpp:121`): on Windows a failing `read()` or `VirtualAlloc` is not
  noticed, and a library is linked whose segments are not there.

Seen while modelling, and stated in, or as an exception of, a property that runs check:

- `dladdr_find_symbol` (`linker.cpp:478`) takes `base` for `load_bias` too, and in a library whose
  first segment is not at 0 does not name the symbol of an address `dlsym` gave out; `NamedByDladdr`
  is about libraries whose file starts at 0.
- The comment at `linker.cpp:1272-1275` has the segments of a library with text relocations
  protected "after all of them are applied and all constructors are run". The code protects them in
  `soinfo_link_image` (lines 1311-1320), before any constructor; `LinkedAsInFile` states what the code
  does (its conjunct `~exposed`).
- A page that a writable segment shares with an earlier read-only one loses write permission
  after text relocations (`linker_phdr.cpp:381`; the header comment says it has the later
  segment's flags); see `LatterFlags`.
- On POSIX the bytes of a read-only segment beyond `p_filesz` are the file's, not 0
  (`linker_phdr.cpp:345`); `ExtraBytesZero` is about writable segments there.
- An unsatisfied weak reference with R_ARM_REL32 fails the link (`linker.cpp:791`), though the
  comment above it says it is not an error; see `Fails` in `Relocate`.
- `start_vm` has `uc_mem_write` read the host's memory from `base` to `base + size`
  (`emulator.cpp:72`). On POSIX the pages between segments keep the reservation's PROT_NONE
  (`linker_phdr.cpp:292`), and a library that has such pages crashes the program; see `StartVmEnds`.
- `s_munmap` cannot unmap an image on Windows (`memory.cpp:196`), and no caller looks: a failed link
  (`linker.cpp:634`) and an unload (`linker.cpp:670`) leave it; see `ImagesAccounted`, `LeftMapped`.
- `start_vm` prepares a value for LR (`lr`, `emulator.cpp:50`) and then writes `pc` to it (line
  77), so a guest function that returns enters `JNI_OnLoad`; see `OnLoadOnce`.
- `start_vm`'s comment speaks of 2 MB where it maps 64 (`emulator.cpp:68`); the image of a larger
  library is not copied, zeroes are run, and the answer is 1; see `SuccessEmulated`.
- The comments of DT_FINI_ARRAY and DT_INIT_ARRAYSZ (`elf.h:157`) are each other's.

## 7. Not modelled, and the plan

- *i386 and MIPS relocations*, and MIPS's global offset table: the build is the ARM one.
- *The headers of unicorn* (`src/include`): registers and instructions of an external library;
  of its functions, what `start_vm` calls is in `Vm`. `type.h` and `dlfcn.h` are declarations.
- *`dl_iterate_phdr`* is in the source for i386 and MIPS (`linker.cpp:256-279`) and not in the ARM
  build; `SoinfoPool` has its walk all the same, and no hazard is counted on its account.
- *Error codes and their wording*, the tracing hooks, `s_msync` (never called), `gLdPreloads` (no
  soinfo is an executable), `CallPreInitConstructors` (never called).
- *Hazards no property covers*: a destructor that opens a library being unloaded
  (`linker.cpp:659`) and a handle used after its soinfo went to another library (`linker.cpp:186`)
  are the client's to avoid, and obligations of it in `Linker`; R_ARM_REL32's missing bias
  (`linker.cpp:842`) is what the code does, and no text of the repository says otherwise; a
  dynamic section without a DT_NULL (`linker.cpp:1096`) is excluded by `FilesAssumption`. Of
  `start_vm`, the model has what the code does and no text says what it should: a guest function
  that returns early may enter `JNI_OnLoad` again and again (`emulator.cpp:77`), DT_INIT_ARRAY is
  not emulated and DT_INIT may run twice (line 89), and an error leaves the engine open (line 94).
- *The whole in one model*: `LibrarySearch`, `ElfImage`, `Dynamic` and `Linker` each see the steps
  of the others as ones that succeed or fail, and are not composed: an address space beside a
  call stack would be out of TLC's reach, and the failures are all they exchange.

Every safety property that a run finds to hold is proved. What is left to the runs is liveness.
