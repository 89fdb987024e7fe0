------------------------------- MODULE Linker -------------------------------
(***************************************************************************)
(* The dynamic linker's dlopen and dlclose (emulator/linker.cpp): finding  *)
(* and linking a library with the libraries it needs, running its          *)
(* constructors, and unloading what nobody references any more.            *)
(*                                                                         *)
(* The code is single-threaded and recursive, and the code of a library    *)
(* (its DT_INIT and DT_FINI functions) may call dlopen or dlclose again    *)
(* while an outer call is half done.  The state is therefore the soinfo    *)
(* fields the functions share and the call stack; a step runs the function *)
(* on top of the stack from one call it makes to the next.  A frame holds  *)
(* the place the function has reached (at), its soinfo or name (lib), its  *)
(* position in the DT_NEEDED entries (i), and what the call it made        *)
(* returned (ret).                                                         *)
(*                                                                         *)
(* find_loaded_library compares basenames only, so a library is its        *)
(* basename, and solist is the set of listed names (SoinfoPool has the     *)
(* list itself).                                                           *)
(***************************************************************************)
EXTENDS Naturals, Sequences, FiniteSets

CONSTANTS
  Lib,         \* the library names
  Libdl,       \* the linker's own libdl_info, listed and linked from the start
  Needed,      \* Needed[L]: the DT_NEEDED entries of L, in order
  SystemLibs,  \* names whose constructors do_dlopen itself never calls
  Callers,     \* libraries whose code calls dlopen or dlclose ({} on x86, where
               \* CallFunction does not enter the function)
  LibdlRefs,   \* libdl_info's initial ref_count, 0xffffff in the code
  MaxHandles,  \* bound: handles the program keeps on one library
  MaxLeaks,    \* bound: leaked references after which dlopen is not called
  MaxNested    \* bound: calls made by one constructor or destructor

ASSUME LibdlAssumption   == Libdl \in Lib
ASSUME NeededAssumption  == Needed \in [Lib -> Seq(Lib)] /\ Needed[Libdl] = <<>>
ASSUME SystemAssumption  == SystemLibs \subseteq Lib \ {Libdl}
ASSUME RefsAssumption    == LibdlRefs \in Nat /\ LibdlRefs > 1

VARIABLES
  listed,              \* the soinfos on solist
  linked,              \* flags & FLAG_LINKED
  ref_count,
  constructors_called,
  mapped,              \* the images a listed soinfo's base and size describe
  writable,            \* set_soinfo_pool_protection: read-write or read-only
  stack,               \* the activations of the linker's functions, top last
  handles,             \* the client's: handles dlopen gave it and not yet closed
  acquired,            \* ghost: the DT_NEEDED entries <<L, i>> holding a reference
  leaked,              \* ghost: references no step will ever release
  inits                \* ghost: runs of the initialisers since the library was loaded

soinfos == <<listed, linked, ref_count, constructors_called, mapped>>
ghosts  == <<acquired, leaked, inits>>
vars    == <<soinfos, writable, stack, handles, ghosts>>

-----------------------------------------------------------------------------
(* The call stack.                                                         *)

CodeFrames   == {"ctors_code", "unload_code"}
UnloadFrames == {"unload_code", "unload_needed"}
Labels       == CodeFrames \cup UnloadFrames \cup
                {"do_dlopen", "do_dlopen_ctors", "find_library", "link_image",
                 "CallConstructors", "ctors_needed", "soinfo_unload", "do_dlclose"}
Frames       == [at : Labels, lib : Lib, i : Nat, ret : {"none", "ok", "fail"}]

Frame(at, L, i) == [at |-> at, lib |-> L, i |-> i, ret |-> "none"]

Depth  == Len(stack)
Top    == stack[Depth]
At(at) == stack # <<>> /\ Top.at = at
InCode == stack # <<>> /\ Top.at \in CodeFrames

Goto(f)     == stack' = [stack EXCEPT ![Depth] = f]
Call(f, g)  == stack' = Append([stack EXCEPT ![Depth] = f], g)
Pop         == stack' = SubSeq(stack, 1, Depth - 1)
Return(ret) == stack' = [SubSeq(stack, 1, Depth - 1) EXCEPT ![Depth - 1].ret = ret]

-----------------------------------------------------------------------------
(* What a state says about a library.                                      *)

Entries(L) == DOMAIN Needed[L]
Deps(L)    == {Needed[L][i] : i \in Entries(L)}

\* Everything dlopen(L) may have to load: the least set with L closed under Deps.
NeededClosure(L) ==
  {X \in Lib : \A S \in SUBSET Lib : (L \in S /\ \A Y \in S : Deps(Y) \subseteq S) => X \in S}

Unloading == {stack[k].lib : k \in {j \in 1..Depth : stack[j].at \in UnloadFrames}}
Resident  == {X \in listed : linked[X]}
Usable    == Resident \ Unloading

\* The frame f carries one reference to X: a dlopen about to return it, a
\* DT_NEEDED entry not yet recorded in needed[], an soinfo_unload in progress.
Carries(f, X) ==
  \/ f.at \in UnloadFrames \cup {"do_dlopen_ctors", "soinfo_unload"} /\ f.lib = X
  \/ f.at = "do_dlopen" /\ f.ret = "ok" /\ f.lib = X
  \/ f.at = "link_image" /\ f.ret = "ok" /\ Needed[f.lib][f.i] = X

Transit(X) == {k \in 1..Depth : Carries(stack[k], X)}
Refs(X)    == {r \in acquired : Needed[r[1]][r[2]] = X}

-----------------------------------------------------------------------------
Init ==
  /\ listed = {Libdl}
  /\ linked = [X \in Lib |-> X = Libdl]
  /\ ref_count = [X \in Lib |-> IF X = Libdl THEN LibdlRefs ELSE 0]
  /\ constructors_called = [X \in Lib |-> FALSE]
  /\ mapped = {Libdl}
  /\ writable = FALSE
  /\ stack = <<>>
  /\ handles = [X \in Lib |-> 0]
  /\ acquired = {}
  /\ leaked = [X \in Lib |-> 0]
  /\ inits = [X \in Lib |-> 0]

-----------------------------------------------------------------------------
(* The client: the program, and the constructors and destructors it runs.  *)

MayCall ==
  \/ stack = <<>>
  \/ InCode /\ Top.lib \in Callers /\ Top.i < MaxNested

\* The stack below a call of the client, the call counted against MaxNested.
Counted == IF stack = <<>> THEN stack ELSE [stack EXCEPT ![Depth].i = @ + 1]

\* The client calls f, which calls g.
Enter(f, g) == stack' = Counted \o <<f, g>>

\* do_dlopen(name, flags) up to its call of find_library.  An invalid flag
\* returns before anything is changed and is no step.  The client's obligation:
\* it does not open a library that depends on one being unloaded right now.
Dlopen(L) ==
  /\ MayCall
  /\ NeededClosure(L) \cap Unloading = {}
  /\ handles[L] < MaxHandles
  /\ \A X \in Lib : leaked[X] < MaxLeaks
  /\ writable' = TRUE
  /\ Enter(Frame("do_dlopen", L, 0), Frame("find_library", L, 0))
  /\ UNCHANGED <<soinfos, handles, ghosts>>

\* do_dlopen(NULL): find_library answers somain, which nothing ever assigns, so
\* the call only makes the pools writable and read-only again.
DlopenNull ==
  /\ MayCall
  /\ writable' = FALSE
  /\ UNCHANGED <<soinfos, stack, handles, ghosts>>

\* do_dlclose of a handle the client owns, up to its call of soinfo_unload.
Dlclose(L) ==
  /\ MayCall
  /\ handles[L] > 0
  /\ handles' = [handles EXCEPT ![L] = @ - 1]
  /\ writable' = TRUE
  /\ Enter(Frame("do_dlclose", L, 0), Frame("soinfo_unload", L, 0))
  /\ UNCHANGED <<soinfos, ghosts>>

-----------------------------------------------------------------------------
(* find_library, find_library_internal, load_library and soinfo_link_image. *)

\* Variant: find_library forgets to count the reference it returns.
FindUncounted ==
  /\ At("find_library")
  /\ Top.lib \in Resident
  /\ Return("ok")
  /\ UNCHANGED <<soinfos, writable, handles, ghosts>>

\* Variant: find_library_internal does not test FLAG_LINKED.
FindListed ==
  LET L == Top.lib IN
  /\ At("find_library")
  /\ L \in listed
  /\ ref_count' = [ref_count EXCEPT ![L] = @ + 1]
  /\ Return("ok")
  /\ UNCHANGED <<listed, linked, constructors_called, mapped, writable, handles, ghosts>>

\* Already listed and linked: one more reference to the same soinfo.
FindLinked ==
  LET L == Top.lib IN
  /\ At("find_library")
  /\ L \in Resident
  /\ ref_count' = [ref_count EXCEPT ![L] = @ + 1]
  /\ Return("ok")
  /\ UNCHANGED <<listed, linked, constructors_called, mapped, writable, handles, ghosts>>

\* No soinfo: the name is listed but not linked yet ("recursive link"), or the
\* file is not found, not loadable, or there is no soinfo to allocate for it.
FindFails ==
  /\ At("find_library")
  /\ Top.lib \notin Resident
  /\ Return("fail")
  /\ UNCHANGED <<soinfos, writable, handles, ghosts>>

\* load_library maps the segments and soinfo_alloc zeroes and lists the soinfo;
\* soinfo_link_image starts.
LoadLibrary ==
  LET L == Top.lib IN
  /\ At("find_library")
  /\ L \notin listed
  /\ listed' = listed \cup {L}
  /\ mapped' = mapped \cup {L}
  /\ linked' = [linked EXCEPT ![L] = FALSE]
  /\ ref_count' = [ref_count EXCEPT ![L] = 0]
  /\ constructors_called' = [constructors_called EXCEPT ![L] = FALSE]
  /\ inits' = [inits EXCEPT ![L] = 0]
  /\ Goto(Frame("link_image", L, 1))
  /\ UNCHANGED <<writable, handles, acquired, leaked>>

\* The loop over DT_NEEDED calls find_library ...
LinkNeeded ==
  /\ At("link_image")
  /\ Top.ret = "none"
  /\ Top.i \in Entries(Top.lib)
  /\ Call(Top, Frame("find_library", Needed[Top.lib][Top.i], 0))
  /\ UNCHANGED <<soinfos, writable, handles, ghosts>>

\* ... and records the soinfo it returns in needed[].
LinkAcquire ==
  /\ At("link_image")
  /\ Top.ret = "ok"
  /\ acquired' = acquired \cup {<<Top.lib, Top.i>>}
  /\ Goto(Frame("link_image", Top.lib, Top.i + 1))
  /\ UNCHANGED <<soinfos, writable, handles, leaked, inits>>

\* Every library needed was found, the image relocates and can be protected:
\* FLAG_LINKED is set and find_library counts the reference it returns.
LinkDone ==
  LET L == Top.lib IN
  /\ At("link_image")
  /\ Top.ret = "none"
  /\ Top.i \notin Entries(L)
  /\ linked' = [linked EXCEPT ![L] = TRUE]
  /\ ref_count' = [ref_count EXCEPT ![L] = @ + 1]
  /\ Return("ok")
  /\ UNCHANGED <<listed, constructors_called, mapped, writable, handles, ghosts>>

\* Variant: a failed link unmaps the image but does not free the soinfo.
LinkFailsListed ==
  /\ At("link_image")
  /\ Top.ret # "ok"
  /\ mapped' = mapped \ {Top.lib}
  /\ Return("fail")
  /\ UNCHANGED <<listed, linked, ref_count, constructors_called, writable, handles, ghosts>>

\* soinfo_link_image fails: on the dynamic section at the start, on a library it
\* needs, or when it relocates or protects the image at the end (FLAG_LINKED may
\* then be set already).  The image is unmapped and the soinfo freed; the libraries
\* already in needed[] keep the reference they were given.
LinkFails ==
  LET L    == Top.lib
      Mine == {r \in acquired : r[1] = L} IN
  /\ At("link_image")
  /\ Top.ret # "ok"
  /\ Top.ret = "fail" \/ Top.i = 1 \/ Top.i \notin Entries(L)
  /\ listed' = listed \ {L}
  /\ mapped' = mapped \ {L}
  /\ acquired' = acquired \ Mine
  /\ leaked' = [X \in Lib |-> leaked[X] + Cardinality(Refs(X) \cap Mine)]
  /\ Return("fail")
  /\ UNCHANGED <<linked, ref_count, constructors_called, writable, handles, inits>>

-----------------------------------------------------------------------------
(* The rest of do_dlopen, and soinfo::CallConstructors.                    *)

\* find_library returned NULL, and so does dlopen.
DlopenFails ==
  /\ At("do_dlopen")
  /\ Top.ret = "fail"
  /\ writable' = FALSE
  /\ Pop
  /\ UNCHANGED <<soinfos, handles, ghosts>>

DlopenConstruct ==
  /\ At("do_dlopen")
  /\ Top.ret = "ok"
  /\ Top.lib \notin SystemLibs
  /\ Call(Frame("do_dlopen_ctors", Top.lib, 0), Frame("CallConstructors", Top.lib, 0))
  /\ UNCHANGED <<soinfos, writable, handles, ghosts>>

\* dlopen returns the soinfo: the reference becomes the client's handle.
DlopenReturns ==
  /\ \/ At("do_dlopen") /\ Top.ret = "ok" /\ Top.lib \in SystemLibs
     \/ At("do_dlopen_ctors")
  /\ writable' = FALSE
  /\ handles' = [handles EXCEPT ![Top.lib] = @ + 1]
  /\ Pop
  /\ UNCHANGED <<soinfos, ghosts>>

\* Called before: the early return that also stops recursive constructor calls.
ConstructAgain ==
  /\ At("CallConstructors")
  /\ constructors_called[Top.lib]
  /\ Pop
  /\ UNCHANGED <<soinfos, writable, handles, ghosts>>

\* Variant: constructors_called is set only by somebody else, after the constructors.
ConstructUnmarked ==
  /\ At("CallConstructors")
  /\ ~constructors_called[Top.lib]
  /\ Goto(Frame("ctors_needed", Top.lib, 1))
  /\ UNCHANGED <<soinfos, writable, handles, ghosts>>

ConstructFirst ==
  LET L == Top.lib IN
  /\ At("CallConstructors")
  /\ ~constructors_called[L]
  /\ constructors_called' = [constructors_called EXCEPT ![L] = TRUE]
  /\ Goto(Frame("ctors_needed", L, 1))
  /\ UNCHANGED <<listed, linked, ref_count, mapped, writable, handles, ghosts>>

\* Variant: the loop over DT_NEEDED does not advance.
ConstructSameAgain ==
  LET L == Top.lib IN
  /\ At("ctors_needed")
  /\ Top.i \in Entries(L)
  /\ Call(Top, Frame("CallConstructors", Needed[L][Top.i], 0))
  /\ UNCHANGED <<soinfos, writable, handles, ghosts>>

\* find_loaded_library(...)->CallConstructors() for the next library needed.
ConstructNeeded ==
  LET L == Top.lib IN
  /\ At("ctors_needed")
  /\ Top.i \in Entries(L)
  /\ Call(Frame("ctors_needed", L, Top.i + 1),
          Frame("CallConstructors", Needed[L][Top.i], 0))
  /\ UNCHANGED <<soinfos, writable, handles, ghosts>>

\* DT_INIT and DT_INIT_ARRAY are entered.
ConstructRun ==
  LET L == Top.lib IN
  /\ At("ctors_needed")
  /\ Top.i \notin Entries(L)
  /\ inits' = [inits EXCEPT ![L] = @ + 1]
  /\ Goto(Frame("ctors_code", L, 0))
  /\ UNCHANGED <<soinfos, writable, handles, acquired, leaked>>

\* Variant: CallFunction leaves the pools as the function left them.
ConstructReturnsOnly ==
  /\ At("ctors_code")
  /\ Pop
  /\ UNCHANGED <<soinfos, writable, handles, ghosts>>

\* ... and return: CallFunction makes the pools writable again, since the
\* function may have called dlopen or dlclose.
ConstructReturns ==
  /\ At("ctors_code")
  /\ writable' = TRUE
  /\ Pop
  /\ UNCHANGED <<soinfos, handles, ghosts>>

-----------------------------------------------------------------------------
(* soinfo_unload and the rest of do_dlclose.                               *)

\* Somebody else still holds a reference.
UnloadShared ==
  LET L == Top.lib IN
  /\ At("soinfo_unload")
  /\ ref_count[L] # 1
  /\ ref_count' = [ref_count EXCEPT ![L] = @ - 1]
  /\ Pop
  /\ UNCHANGED <<listed, linked, constructors_called, mapped, writable, handles, ghosts>>

\* Variant: a library is unloaded while somebody else still holds a reference.
UnloadEarly ==
  /\ At("soinfo_unload")
  /\ ref_count[Top.lib] <= 2
  /\ Goto(Frame("unload_code", Top.lib, 0))
  /\ UNCHANGED <<soinfos, writable, handles, ghosts>>

\* Variant: the destructors of the system libraries are called as well.
UnloadDestructsAll ==
  /\ At("soinfo_unload")
  /\ ref_count[Top.lib] = 1
  /\ Goto(Frame("unload_code", Top.lib, 0))
  /\ UNCHANGED <<soinfos, writable, handles, ghosts>>

\* The last reference: CallDestructors enters DT_FINI_ARRAY and DT_FINI, except
\* for the system libraries and libdl.
UnloadStarts ==
  LET L == Top.lib IN
  /\ At("soinfo_unload")
  /\ ref_count[L] = 1
  /\ IF L \in SystemLibs \cup {Libdl} THEN Goto(Frame("unload_needed", L, 1))
                                      ELSE Goto(Frame("unload_code", L, 0))
  /\ UNCHANGED <<soinfos, writable, handles, ghosts>>

DestructReturns ==
  /\ At("unload_code")
  /\ writable' = TRUE
  /\ Goto(Frame("unload_needed", Top.lib, 1))
  /\ UNCHANGED <<soinfos, handles, ghosts>>

\* soinfo_unload(find_loaded_library(...)) for the next library needed: the
\* reference its entry held is the one soinfo_unload is to drop.
UnloadNeeded ==
  LET L == Top.lib IN
  /\ At("unload_needed")
  /\ Top.i \in Entries(L)
  /\ acquired' = acquired \ {<<L, Top.i>>}
  /\ Call(Frame("unload_needed", L, Top.i + 1),
          Frame("soinfo_unload", Needed[L][Top.i], 0))
  /\ UNCHANGED <<soinfos, writable, handles, leaked, inits>>

\* After the last one the image is unmapped and the soinfo freed.
UnloadDone ==
  LET L == Top.lib IN
  /\ At("unload_needed")
  /\ Top.i \notin Entries(L)
  /\ listed' = listed \ {L}
  /\ mapped' = mapped \ {L}
  /\ ref_count' = [ref_count EXCEPT ![L] = 0]
  /\ Pop
  /\ UNCHANGED <<linked, constructors_called, writable, handles, ghosts>>

DlcloseReturns ==
  /\ At("do_dlclose")
  /\ writable' = FALSE
  /\ Pop
  /\ UNCHANGED <<soinfos, handles, ghosts>>

-----------------------------------------------------------------------------
ClientCall == DlopenNull \/ \E L \in Lib : Dlopen(L) \/ Dlclose(L)

FindStep   == FindLinked \/ FindFails \/ LoadLibrary
LinkStep   == LinkNeeded \/ LinkAcquire \/ LinkDone \/ LinkFails
OpenStep   == DlopenFails \/ DlopenConstruct \/ DlopenReturns
CtorsStep  == ConstructAgain \/ ConstructFirst \/ ConstructNeeded \/ ConstructRun \/ ConstructReturns
UnloadStep == UnloadShared \/ UnloadStarts \/ DestructReturns \/ UnloadNeeded \/ UnloadDone
                \/ DlcloseReturns

LinkerStep == FindStep \/ LinkStep \/ OpenStep \/ CtorsStep \/ UnloadStep

Next == ClientCall \/ LinkerStep

\* A call that has started is run to its end, the library code it enters too:
\* that code makes at most MaxNested calls and returns.
Spec == Init /\ [][Next]_vars /\ WF_vars(LinkerStep)

-----------------------------------------------------------------------------
(* Properties.                                                             *)

TypeOK ==
  /\ listed \subseteq Lib
  /\ linked \in [Lib -> BOOLEAN]
  /\ ref_count \in [Lib -> Nat]
  /\ constructors_called \in [Lib -> BOOLEAN]
  /\ mapped \subseteq Lib
  /\ writable \in BOOLEAN
  /\ stack \in Seq(Frames)
  /\ handles \in [Lib -> Nat]
  /\ acquired \subseteq Lib \X Nat
  /\ leaked \in [Lib -> Nat]
  /\ inits \in [Lib -> Nat]

\* ref_count is exact: libdl's own, one for each handle of the client, each
\* DT_NEEDED entry recorded, each reference in flight on the stack, and each one
\* a failed link leaked.  An inexact count frees a library in use or never.
RefCountExact ==
  \A X \in Lib :
    ref_count[X] = (IF X = Libdl THEN LibdlRefs ELSE 0) + handles[X]
                     + Cardinality(Transit(X)) + Cardinality(Refs(X)) + leaked[X]

\* A linked library that is not being unloaded has all the libraries it needs
\* listed and linked, whatever calls are nested: the find_loaded_library of
\* CallConstructors and soinfo_unload, dereferenced unchecked, is never NULL.
NeededResident == \A X \in Usable : Deps(X) \subseteq Usable

\* The same for a library half unloaded: what its remaining entries name is there.
RestResident ==
  \A k \in 1..Depth :
    stack[k].at \in UnloadFrames =>
      \A i \in Entries(stack[k].lib) :
        stack[k].at = "unload_code" \/ i >= stack[k].i => Needed[stack[k].lib][i] \in Usable

\* A handle the client keeps is a listed, linked, mapped library that no nested
\* call is unloading.
HandleValid == \A X \in Lib : handles[X] > 0 => X \in Usable \cap mapped

\* While a function of the linker runs, the pools its soinfos live in are
\* writable, whatever dlopen and dlclose the library code it called has made
\* (the reason CallFunction gives for its set_soinfo_pool_protection).
PoolsWritable == stack # <<>> /\ ~InCode => writable

\* Outside a call of dlopen no library is left half linked, and every listed
\* image is mapped, every unlisted one unmapped.
NothingHalfLinked ==
  /\ listed = mapped
  /\ \A X \in listed : linked[X] \/ \E k \in 1..Depth : stack[k].at = "link_image" /\ stack[k].lib = X

\* The initialisers of a library run once, and after those of every library it
\* needs; the one exception is a library whose own construction, further down the
\* stack, is what led here (libc's constructor opening a library that needs libc).
InitOrder ==
  /\ \A X \in Lib : inits[X] <= 1
  /\ \A k \in 1..Depth :
       stack[k].at = "ctors_code" =>
         \A Y \in Deps(stack[k].lib) :
           \/ inits[Y] = 1
           \/ \E j \in 1..(k - 1) : stack[j].at = "ctors_needed" /\ stack[j].lib = Y

\* Destructors run only for a library whose constructors have run to their end:
\* no frame below is still constructing it.
DestructConstructed ==
  \A k \in 1..Depth :
    stack[k].at = "unload_code" =>
      /\ inits[stack[k].lib] = 1
      /\ \A j \in 1..Depth :
           stack[j].at \in {"CallConstructors", "ctors_needed", "ctors_code"} =>
             stack[j].lib # stack[k].lib

\* A library is unloaded by nobody but the call that dropped its last reference:
\* it leaves solist only with no handle, no recorded entry and no other frame
\* naming it.
FreedUnreferenced ==
  [][\A X \in listed \ listed' :
       handles[X] = 0 /\ Refs(X) = {} /\ leaked[X] = 0
         /\ \A k \in 1..(Depth - 1) : stack[k].lib = X => stack[k].at \in {"do_dlopen", "do_dlclose"}]_vars

\* Every dlopen and dlclose returns.
EveryCallReturns == stack # <<>> ~> stack = <<>>

\* What the loader promises: see DynLoader.
Promise == INSTANCE DynLoader WITH resident <- Usable
Implements == Promise!Spec

=============================================================================
