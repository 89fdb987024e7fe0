----------------------------- MODULE LinkerInv ------------------------------
(***************************************************************************)
(* The inductive invariant of Linker, as a conjunction of named parts.     *)
(* Reference counts are exact only because of what the call stack says     *)
(* about who called whom and how far each loop over DT_NEEDED has come.    *)
(***************************************************************************)
EXTENDS Linker

EntryFrames  == {"do_dlopen", "do_dlopen_ctors", "do_dlclose"}
FindFrames   == {"find_library", "link_image"}
CtorsFrames  == {"CallConstructors", "ctors_needed", "ctors_code"}
FreeingFrames == UnloadFrames \cup {"soinfo_unload"}

\* f is waiting for the call that g is the activation of.
Called(f, g) ==
  /\ g.at \in EntryFrames => f.at \in CodeFrames
  /\ g.at \in FindFrames =>
       /\ f.ret = "none"
       /\ \/ f.at = "do_dlopen" /\ f.lib = g.lib
          \/ f.at = "link_image" /\ f.i \in Entries(f.lib) /\ Needed[f.lib][f.i] = g.lib
  /\ g.at \in CtorsFrames =>
       \/ f.at = "do_dlopen_ctors" /\ f.lib = g.lib
       \/ f.at = "ctors_needed" /\ \E j \in Entries(f.lib) : j + 1 = f.i /\ Needed[f.lib][j] = g.lib
  /\ g.at \in FreeingFrames =>
       \/ f.at = "do_dlclose" /\ f.lib = g.lib
       \/ f.at = "unload_needed" /\ \E j \in Entries(f.lib) : j + 1 = f.i /\ Needed[f.lib][j] = g.lib

\* The stack is made of such calls, and its first frame is the client's.
WellStacked ==
  /\ stack # <<>> => stack[1].at \in EntryFrames
  /\ \A k \in 1..Depth : k > 1 => Called(stack[k - 1], stack[k])

\* The first search of a dlopen ends before any library code runs.
FindOnTop ==
  \A j, k \in 1..Depth :
    j <= k /\ stack[j].at \in FindFrames => stack[k].at \in FindFrames

\* No library is being linked twice.
LinkOnce ==
  \A j, k \in 1..Depth :
    /\ stack[j].at = "link_image" /\ stack[k].at = "link_image"
    /\ stack[j].lib = stack[k].lib
    => j = k

StackInv == WellStacked /\ FindOnTop /\ LinkOnce

\* What a frame says about the soinfos.  The operators take the state they speak
\* of as arguments, so that one lemma serves for a frame before and after a step.

\* Nothing a search may need is being unloaded: the client's obligation.
SearchFrame(f, unl) == f.at \in FindFrames => NeededClosure(f.lib) \cap unl = {}

\* A library being linked is listed, not linked, referenced by nobody, and holds
\* the entries its loop has passed.
LinkFrame(f, lst, lnk, rc, acq) ==
  f.at = "link_image" =>
    /\ f.lib \in lst
    /\ ~lnk[f.lib]
    /\ rc[f.lib] = 0
    /\ f.i \in 1..(Len(Needed[f.lib]) + 1)
    /\ f.ret # "none" => f.i \in Entries(f.lib)
    /\ \A j \in Entries(f.lib) : <<f.lib, j>> \in acq <=> j < f.i

\* A library being unloaded has exactly the reference its frame carries, and
\* holds the entries its loop has not reached.
UnloadFrame(f, rc, acq) ==
  f.at \in UnloadFrames =>
    /\ rc[f.lib] = 1
    /\ f.at = "unload_needed" => f.i > 0
    /\ \A j \in Entries(f.lib) : <<f.lib, j>> \in acq <=> f.at = "unload_code" \/ j >= f.i

\* A library whose constructors are being called cannot be unloaded by them.
CtorsFrame(f, usable) == f.at \in CtorsFrames => f.lib \in usable

FramesInv ==
  \A k \in 1..Depth :
    /\ SearchFrame(stack[k], Unloading)
    /\ LinkFrame(stack[k], listed, linked, ref_count, acquired)
    /\ UnloadFrame(stack[k], ref_count, acquired)
    /\ CtorsFrame(stack[k], Usable)

\* A reference is one to a listed and linked library.
ReferencedResident == \A X \in Lib : ref_count[X] > 0 => X \in Resident

\* The entries of a usable library hold a reference each; so do only entries of
\* listed libraries.
EntriesHeld ==
  /\ \A X \in Usable : \A j \in Entries(X) : <<X, j>> \in acquired
  /\ \A r \in acquired : r[1] \in listed /\ r[2] \in Entries(r[1])
  /\ IsFiniteSet(acquired)

ImagesMapped == listed = mapped

IInv ==
  /\ TypeOK
  /\ StackInv
  /\ FramesInv
  /\ ReferencedResident
  /\ EntriesHeld
  /\ ImagesMapped
  /\ RefCountExact
  /\ PoolsWritable

-----------------------------------------------------------------------------
(* The rest: which libraries are linked, and in which order their code runs. *)

Linking(X) == \E k \in 1..Depth : stack[k].at = "link_image" /\ stack[k].lib = X

\* A library that is not linked is being linked, and none of its code has run.
HalfLinked ==
  \A X \in listed :
    ~linked[X] => Linking(X) /\ ~constructors_called[X] /\ inits[X] = 0

\* The initialisers of X have run, or a frame below k is on its way to them.
Constructed(X, k) ==
  \/ inits[X] = 1
  \/ \E m \in 1..(k - 1) : stack[m].at = "ctors_needed" /\ stack[m].lib = X

\* constructors_called is set once, before the initialisers run once.
CalledOnce ==
  \A X \in Lib :
    /\ inits[X] <= 1
    /\ inits[X] = 1 => constructors_called[X]
    /\ X \in listed /\ constructors_called[X] => Constructed(X, Depth + 1)

\* A library is being constructed by one frame at most; the entries its loop over
\* DT_NEEDED has passed are constructed, except the one it is waiting for.
CtorsInv ==
  \A k \in 1..Depth :
    /\ stack[k].at = "ctors_needed" =>
         /\ stack[k].i > 0
         /\ constructors_called[stack[k].lib]
         /\ inits[stack[k].lib] = 0
         /\ \A m \in 1..(k - 1) : stack[m].at = "ctors_needed" => stack[m].lib # stack[k].lib
         /\ \A j \in Entries(stack[k].lib) :
              j < stack[k].i /\ (j + 1 = stack[k].i => k = Depth) =>
                Constructed(Needed[stack[k].lib][j], k)
    /\ stack[k].at = "ctors_code" =>
         /\ inits[stack[k].lib] = 1
         /\ \A Y \in Deps(stack[k].lib) : Constructed(Y, k)

\* No library needs itself: it would be listed and not linked when looked for.
NoneNeedsItself == \A r \in acquired : Needed[r[1]][r[2]] # r[1]

OrderInv == HalfLinked /\ CalledOnce /\ CtorsInv /\ NoneNeedsItself

\* The constructors of X have been run or started, or X has none the linker calls.
Started(X) == X \in SystemLibs \cup {Libdl} \/ Constructed(X, Depth + 1)

\* Whatever can lead to an soinfo_unload of X has X started: a handle, an entry of
\* a constructed library, and the frames on the way there.
StartedInv ==
  /\ \A X \in Lib : handles[X] > 0 => Started(X)
  /\ \A r \in acquired : inits[r[1]] = 1 => Started(Needed[r[1]][r[2]])
  /\ \A k \in 1..Depth :
       /\ stack[k].at = "do_dlopen_ctors" /\ k = Depth => Started(stack[k].lib)
       /\ stack[k].at = "soinfo_unload" => Started(stack[k].lib)
       /\ stack[k].at = "unload_needed" =>
            stack[k].lib \in SystemLibs \cup {Libdl} \/ inits[stack[k].lib] = 1
       /\ stack[k].at = "unload_code" => inits[stack[k].lib] = 1

\* do_dlopen never calls the constructors of a system library itself.  When such
\* a library needs one that is not, its soinfo_unload runs the destructors of that
\* one although nothing has run its constructors; the rest is about a system whose
\* system libraries need only each other.
SystemClosed == \A L \in SystemLibs : Deps(L) \subseteq SystemLibs \cup {Libdl}

\* The whole invariant; StartedInv is kept under SystemClosed.
FullInv == IInv /\ OrderInv /\ StartedInv

=============================================================================
