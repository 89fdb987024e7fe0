--------------------------------- MODULE Vm ---------------------------------
(***************************************************************************)
(* The driver (emulator/emulator.cpp): main opens a library, looks up      *)
(* JNI_OnLoad and calls start_vm, which copies the image into a unicorn    *)
(* engine and emulates DT_INIT and JNI_OnLoad.  The other program is one   *)
(* that opens a library and closes it.                                     *)
(*                                                                         *)
(* The engine is external: a call of it gives UC_ERR_OK or an error.  A    *)
(* function of the guest runs from its first instruction to the address    *)
(* where uc_emu_start is to stop, ends with an error, or, if it is one of  *)
(* file.early, returns before that address, to where LR points.  To copy   *)
(* the image the engine reads it from the host's memory, where a page      *)
(* between two segments has no access on POSIX (ElfImage).                 *)
(***************************************************************************)
EXTENDS Dynamic

CONSTANTS
  MaxRan,  \* bound: functions recorded in ran
  Builds   \* the values of _MSC_VER considered

ASSUME BuildsAssumption == Builds \subseteq BOOLEAN

\* There is room for the two functions that start_vm emulates.
ASSUME MaxRanAssumption == MaxRan \in Nat /\ MaxRan >= 2

ASSUME NoneAssumption == None \notin {0, 1} /\ None \notin {"init_func", "JNI_OnLoad"}

\* early: the guest's functions, of "init_func" and "JNI_OnLoad", that return before
\* the address; onload: the p_vaddr of JNI_OnLoad, None without a global definition;
\* big: the image is larger than the 64 MB mapped for it; holes: between its segments
\* are pages that none of them covers.
ASSUME GuestAssumption ==
  \A f \in Files : /\ f.early \subseteq {"init_func", "JNI_OnLoad"}
                   /\ f.onload \in 0..(Word - 1) \cup {None}
                   /\ f.big \in BOOLEAN /\ f.holes \in BOOLEAN

VARIABLES
  windows,     \* _MSC_VER, of a compiler that does not define __arm__
  program,     \* "main" or "client"
  vm,          \* the place in main and start_vm
  JNI_OnLoad,  \* what s_dlsym gave
  engine,      \* "none", "open" or "closed"
  guest,       \* what the engine has at si->base: nothing, zeroes or the image
  running,     \* the guest's function
  ran,         \* the guest's functions entered
  result       \* start_vm's

evars == <<JNI_OnLoad, engine, guest, running, ran, result>>
vars  == <<lvars, windows, program, vm, evars>>

Init ==
  /\ LinkInit
  /\ windows \in Builds /\ (windows => ~arm)
  /\ program \in {"main", "client"}
  /\ vm = "s_dlopen"
  /\ JNI_OnLoad = 0
  /\ engine = "none" /\ guest = "none"
  /\ running = None /\ ran = <<>>
  /\ result = None

-----------------------------------------------------------------------------
\* The library is open, or is not: s_dlsym, which answers NULL for a NULL handle.
\* The results of opening five system libraries before are not looked at.
s_dlsym ==
  /\ vm = "s_dlopen" /\ at \in {"ready", "failed"}
  /\ JNI_OnLoad' = IF at = "failed" \/ file.onload = None THEN 0 ELSE Biased(file.onload)
  /\ vm' = "start_vm"
  /\ UNCHANGED <<engine, guest, running, ran, result>>

StartVmReturns(r) == vm' = "returned" /\ result' = r

uc_open ==
  /\ vm = "start_vm"
  /\ engine' = "open"
  /\ vm' = "uc_mem_map"
  /\ UNCHANGED <<JNI_OnLoad, guest, running, ran, result>>

OpenFails ==
  /\ vm = "start_vm"
  /\ StartVmReturns(0)
  /\ UNCHANGED <<JNI_OnLoad, engine, guest, running, ran>>

\* The image has pages the host may not read: ReserveAddressSpace maps the whole range
\* without access, LoadSegments the segments over it.  VirtualAlloc's can be read.
Unreadable == file.holes /\ ~windows

\* uc_mem_write reads the image only if all of it is mapped in the engine.
Copied(ok) == ok /\ ~file.big

\* si is NULL.
MapCrashes ==
  /\ vm = "uc_mem_map" /\ at = "failed"
  /\ vm' = "crashed"
  /\ UNCHANGED evars

\* uc_mem_write reads the image on the host, and faults between two segments.
WriteCrashes(ok) ==
  /\ vm = "uc_mem_map" /\ at = "ready"
  /\ Copied(ok) /\ Unreadable
  /\ vm' = "crashed"
  /\ UNCHANGED evars

\* Variant: JNI_OnLoad is all that is emulated.
MapForOnLoad(ok) ==
  /\ vm = "uc_mem_map" /\ at = "ready"
  /\ ~(Copied(ok) /\ Unreadable)
  /\ guest' = IF ~ok THEN "none" ELSE IF file.big THEN "zeroes" ELSE "image"
  /\ vm' = "JNI_OnLoad"
  /\ UNCHANGED <<JNI_OnLoad, engine, running, ran, result>>

\* Whether uc_mem_map fails is not looked at, nor whether uc_mem_write does, which
\* writes all of the image or nothing.  Registers and hooks always succeed here.
uc_mem_map(ok) ==
  /\ vm = "uc_mem_map" /\ at = "ready"
  /\ ~(Copied(ok) /\ Unreadable)
  /\ guest' = IF ~ok THEN "none" ELSE IF file.big THEN "zeroes" ELSE "image"
  /\ vm' = "init_func"
  /\ UNCHANGED <<JNI_OnLoad, engine, running, ran, result>>

-----------------------------------------------------------------------------
(* uc_emu_start                                                            *)

\* The function start_vm has come to, and what follows it.
Address(f) == IF f = "init_func" THEN si.init_func ELSE JNI_OnLoad
After(f)   == IF f = "init_func" THEN "JNI_OnLoad" ELSE "uc_close"

AtFunction == vm \in {"init_func", "JNI_OnLoad"} /\ running = None

Entered(f) == ran' = IF Len(ran) < MaxRan THEN Append(ran, f) ELSE ran

\* NULL is not emulated.
SkipFunction ==
  /\ AtFunction /\ Address(vm) = 0
  /\ vm' = After(vm)
  /\ UNCHANGED evars

\* The image is there and the function entered.
StartFunction ==
  /\ AtFunction /\ Address(vm) # 0 /\ guest = "image"
  /\ running' = vm
  /\ Entered(vm)
  /\ UNCHANGED <<vm, JNI_OnLoad, engine, guest, result>>

\* Zeroes are Thumb instructions that do nothing: the end is reached.
RunZeroes ==
  /\ AtFunction /\ Address(vm) # 0 /\ guest = "zeroes"
  /\ vm' = After(vm)
  /\ UNCHANGED evars

\* The function emulation started with gets to the end.
Reach ==
  /\ running # None
  /\ running = vm /\ vm \notin file.early
  /\ running' = None
  /\ vm' = After(vm)
  /\ UNCHANGED <<JNI_OnLoad, engine, guest, ran, result>>

\* It returns before: LR has been given pc, not lr, so the guest goes on with
\* JNI_OnLoad, and once there, past its end, and back to its start.
ReturnToOnLoad ==
  /\ running # None
  /\ running # vm \/ running \in file.early
  /\ JNI_OnLoad # 0
  /\ running' = "JNI_OnLoad"
  /\ Entered("JNI_OnLoad")
  /\ UNCHANGED <<vm, JNI_OnLoad, engine, guest, result>>

\* Variant: an error is not looked at.
EmuFailsUnseen ==
  /\ running # None \/ (AtFunction /\ Address(vm) # 0)
  /\ running' = None
  /\ vm' = After(vm)
  /\ UNCHANGED <<JNI_OnLoad, engine, guest, ran, result>>

\* uc_emu_start gives an error: start_vm returns 0, and the engine stays open.
EmuFails ==
  /\ running # None \/ (AtFunction /\ Address(vm) # 0)
  /\ running' = None
  /\ StartVmReturns(0)
  /\ UNCHANGED <<JNI_OnLoad, engine, guest, ran>>

uc_close ==
  /\ vm = "uc_close"
  /\ engine' = "closed"
  /\ StartVmReturns(1)
  /\ UNCHANGED <<JNI_OnLoad, guest, running, ran>>

MainStep ==
  \/ s_dlsym \/ uc_open \/ OpenFails \/ MapCrashes
  \/ \E ok \in BOOLEAN : uc_mem_map(ok) \/ WriteCrashes(ok)
  \/ SkipFunction \/ StartFunction \/ RunZeroes \/ Reach \/ ReturnToOnLoad \/ EmuFails
  \/ uc_close

Next ==
  /\ \/ OpenStep /\ UNCHANGED <<vm, evars>>
     \/ program = "client" /\ CloseStep /\ UNCHANGED <<vm, evars>>
     \/ program = "main" /\ MainStep /\ UNCHANGED lvars
  /\ UNCHANGED <<windows, program>>

\* A program with one thread, which runs until it ends.
Spec == Init /\ [][Next]_vars /\ WF_vars(Next)

-----------------------------------------------------------------------------
\* The functions start_vm is to emulate.
Guests == (IF PointerOf("INIT") # 0 THEN <<"init_func">> ELSE <<>>)
            \o (IF JNI_OnLoad # 0 THEN <<"JNI_OnLoad">> ELSE <<>>)

\* JNI_OnLoad is never entered before the library's initialiser; and each is
\* entered once, unless a function returns before its end: LR then makes the guest
\* enter JNI_OnLoad again.
OnLoadOnce ==
  ran # <<>> =>
    /\ Head(ran) = Head(Guests)
    /\ file.early = {} => IsPrefix(ran, Guests)

\* start_vm answers 1 only for a library that was linked and whose functions the
\* guest has entered, in order, with the engine closed - but for an image of
\* more than 64 MB, where none of the library's code has run.
SuccessEmulated ==
  result = 1 =>
    /\ at = "ready" /\ engine = "closed"
    /\ ran = IF file.big THEN <<>> ELSE Guests

\* start_vm returns whatever fails, if the guest's functions do not return before the
\* end - but for two crashes: the library could not be opened, and the image, which
\* the engine is to copy, has pages between its segments that the host may not read.
StartVmEnds ==
  program = "main" /\ file.early = {} ~>
    \/ vm = "returned"
    \/ vm = "crashed" /\ (at = "failed" \/ (Unreadable /\ ~file.big))

=============================================================================
