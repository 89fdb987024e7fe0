---------------------------- MODULE LinkerProofs ----------------------------
(***************************************************************************)
(* IInv is an inductive invariant of Linker.  First the call stack: what   *)
(* each way of changing it does to its frames, to the references in flight *)
(* (Transit), to the set of libraries being unloaded, and to StackInv.     *)
(* Then what the invariant says of a state, and what it takes for the      *)
(* frames of the next state to satisfy it again.  Then one lemma for the   *)
(* initial state, one for each action, and the theorems that follow.       *)
(*                                                                         *)
(* OrderInv and StartedInv, the parts of FullInv that say which libraries  *)
(* are linked and in which order their code runs, come second.  A step     *)
(* touches the top of the call stack only, so each part is split into the  *)
(* frames below the top, which a step leaves alone, and the few actions    *)
(* that make a frame the part speaks of.                                   *)
(*                                                                         *)
(* Last, what the client of dlopen and dlclose sees of the linker: Linker  *)
(* implements DynLoader, the resident libraries being the usable ones.     *)
(* One lemma for each group of actions says what the group does to Usable  *)
(* and handles; the refinement combines them.  The same invariant gives    *)
(* what a library must be for the linker to free it.                       *)
(***************************************************************************)
EXTENDS LinkerInv, TLAPS, FiniteSetTheorems, SequenceTheorems

\* A frame the linker pushes is one of Frames.
LEMMA FrameType ==
  ASSUME NEW at \in Labels, NEW L \in Lib, NEW i \in Nat
  PROVE  Frame(at, L, i) \in Frames
BY DEF Frame, Frames

\* Going on in the same function changes the top frame only.
LEMMA GotoShape ==
  ASSUME stack \in Seq(Frames), stack # <<>>, NEW f \in Frames, Goto(f)
  PROVE  /\ stack' \in Seq(Frames)
         /\ Depth' = Depth
         /\ stack'[Depth] = f
         /\ \A k \in 1..(Depth - 1) : stack'[k] = stack[k]
BY DEF Goto, Depth

\* A call updates the caller's frame and pushes the callee's.
LEMMA CallShape ==
  ASSUME stack \in Seq(Frames), stack # <<>>, NEW f \in Frames, NEW g \in Frames, Call(f, g)
  PROVE  /\ stack' \in Seq(Frames)
         /\ Depth' = Depth + 1
         /\ stack'[Depth] = f
         /\ stack'[Depth + 1] = g
         /\ \A k \in 1..(Depth - 1) : stack'[k] = stack[k]
BY DEF Call, Depth

\* The stack below the top frame.
LEMMA PrefixShape ==
  ASSUME stack \in Seq(Frames), stack # <<>>
  PROVE  LET s == SubSeq(stack, 1, Depth - 1) IN
         /\ Depth \in Nat \ {0}
         /\ s \in Seq(Frames)
         /\ Len(s) = Depth - 1
         /\ \A k \in 1..(Depth - 1) : s[k] = stack[k]
<1> DEFINE s == SubSeq(stack, 1, Depth - 1)
<1>1. Depth \in Nat \ {0} /\ \A k \in 1..(Depth - 1) : stack[k] \in Frames
  BY DEF Depth
<1>2. s \in Seq(Frames) /\ Len(s) = Depth - 1 /\ \A k \in 1..(Depth - 1) : s[k] = stack[k]
  BY <1>1, SubSeqProperties
<1> QED BY <1>1, <1>2

\* A return pops the top frame and leaves the others.
LEMMA PopShape ==
  ASSUME stack \in Seq(Frames), stack # <<>>, Pop
  PROVE  /\ stack' \in Seq(Frames)
         /\ Depth' = Depth - 1
         /\ \A k \in 1..(Depth - 1) : stack'[k] = stack[k]
<1>1. stack' = SubSeq(stack, 1, Depth - 1)
  BY DEF Pop
<1>2. Depth' = Len(stack')
  BY DEF Depth
<1> QED BY <1>1, <1>2, PrefixShape

\* A return with a result pops the top frame and leaves the result in the
\* caller's.
LEMMA ReturnShape ==
  ASSUME stack \in Seq(Frames), Depth > 1, NEW ret \in {"none", "ok", "fail"}, Return(ret)
  PROVE  /\ stack' \in Seq(Frames)
         /\ Depth' = Depth - 1
         /\ stack'[Depth - 1] = [stack[Depth - 1] EXCEPT !.ret = ret]
         /\ \A k \in 1..(Depth - 2) : stack'[k] = stack[k]
<1> DEFINE s == SubSeq(stack, 1, Depth - 1)
           e == [s[Depth - 1] EXCEPT !.ret = ret]
<1>1. stack' = [s EXCEPT ![Depth - 1] = e]
  BY DEF Return
<1>2. stack # <<>>
  BY DEF Depth
<1>3. /\ Depth \in Nat \ {0}
      /\ s \in Seq(Frames)
      /\ Len(s) = Depth - 1
      /\ \A k \in 1..(Depth - 1) : s[k] = stack[k]
  BY <1>2, PrefixShape
<1> HIDE DEF s
<1>4. Depth - 1 \in 1..Len(s) /\ s[Depth - 1] = stack[Depth - 1] /\ s[Depth - 1] \in Frames
  BY <1>3
<1>5. e \in Frames /\ e = [stack[Depth - 1] EXCEPT !.ret = ret]
  BY <1>4 DEF Frames
<1> HIDE DEF e
<1>6. /\ stack' \in Seq(Frames)
      /\ Len(stack') = Len(s)
      /\ \A j \in 1..Len(s) : stack'[j] = IF j = Depth - 1 THEN e ELSE s[j]
  BY <1>1, <1>3, <1>4, <1>5, ExceptSeq
<1>7. Depth' = Len(stack')
  BY DEF Depth
<1> QED BY <1>3, <1>4, <1>5, <1>6, <1>7

\* A call of dlopen or dlclose pushes its frame and that of the linker function
\* it calls first; library code that calls has made one call more.
LEMMA ClientShape ==
  ASSUME stack \in Seq(Frames), NEW f \in Frames, NEW g \in Frames, Enter(f, g)
  PROVE  /\ stack' \in Seq(Frames)
         /\ Depth' = Depth + 2
         /\ stack'[Depth + 1] = f
         /\ stack'[Depth + 2] = g
         /\ stack # <<>> => stack'[Depth] = [Top EXCEPT !.i = @ + 1]
         /\ \A k \in 1..(Depth - 1) : stack'[k] = stack[k]
<1>1. Depth \in Nat /\ Depth' = Len(stack') /\ (stack # <<>> => Depth > 0)
  BY DEF Depth
<1>2. /\ Counted \in Seq(Frames)
      /\ Len(Counted) = Depth
      /\ stack # <<>> => Counted[Depth] = [Top EXCEPT !.i = @ + 1]
      /\ \A k \in 1..(Depth - 1) : Counted[k] = stack[k]
  <2>1. CASE stack = <<>>
    BY <2>1 DEF Counted, Depth
  <2>2. CASE stack # <<>>
    <3> DEFINE e == [Top EXCEPT !.i = @ + 1]
    <3>1. Depth \in 1..Len(stack) /\ Top \in Frames
      BY <2>2 DEF Top, Depth
    <3>2. e \in Frames
      <4>1. Top.i + 1 \in Nat /\ e = [Top EXCEPT !.i = Top.i + 1]
        BY <3>1 DEF Frames
      <4> QED BY <3>1, <4>1 DEF Frames
    <3>3. Counted = [stack EXCEPT ![Depth] = e]
      BY <2>2, <3>1 DEF Counted, Top
    <3> HIDE DEF e
    <3>4. /\ Counted \in Seq(Frames)
          /\ Len(Counted) = Len(stack)
          /\ \A j \in 1..Len(stack) : Counted[j] = IF j = Depth THEN e ELSE stack[j]
      BY <3>1, <3>2, <3>3, ExceptSeq
    <3>5. Len(stack) = Depth
      BY DEF Depth
    <3>6. Counted[Depth] = e /\ \A k \in 1..(Depth - 1) : Counted[k] = stack[k]
      BY <1>1, <3>1, <3>4, <3>5
    <3> QED BY <3>4, <3>5, <3>6 DEF e
  <2> QED BY <2>1, <2>2
<1>3. <<f, g>> \in Seq(Frames) /\ Len(<<f, g>>) = 2
  OBVIOUS
<1>4. /\ stack' \in Seq(Frames)
      /\ Len(stack') = Depth + 2
      /\ \A j \in 1..(Depth + 2) :
           stack'[j] = IF j <= Depth THEN Counted[j] ELSE <<f, g>>[j - Depth]
  <2>1. stack' = Counted \o <<f, g>>
    BY DEF Enter
  <2> QED BY <1>2, <1>3, <2>1, ConcatProperties
<1>5. stack'[Depth + 1] = f /\ stack'[Depth + 2] = g
  <2>1. Depth + 1 \in 1..(Depth + 2) /\ ~(Depth + 1 <= Depth) /\ (Depth + 1) - Depth = 1
    BY <1>1
  <2>2. Depth + 2 \in 1..(Depth + 2) /\ ~(Depth + 2 <= Depth) /\ (Depth + 2) - Depth = 2
    BY <1>1
  <2>3. stack'[Depth + 1] = <<f, g>>[1]
    BY <1>4, <2>1
  <2>4. stack'[Depth + 2] = <<f, g>>[2]
    BY <1>4, <2>2
  <2> QED BY <2>3, <2>4
<1>6. stack # <<>> => stack'[Depth] = [Top EXCEPT !.i = @ + 1]
  BY <1>1, <1>2, <1>4
<1>7. \A k \in 1..(Depth - 1) : stack'[k] = stack[k]
  BY <1>1, <1>2, <1>4
<1> QED BY <1>1, <1>4, <1>5, <1>6, <1>7

-----------------------------------------------------------------------------
(* Counting the references in flight: Held counts the frames of s up to m  *)
(* that carry one, and each change of the stack adds and removes the loads *)
(* of the frames it touches.                                               *)

Held(s, m, X) == {k \in 1..m : Carries(s[k], X)}
Load(f, X)    == IF Carries(f, X) THEN 1 ELSE 0

\* Counting the frames that carry a reference to X, one frame at a time.
LEMMA HeldStep ==
  ASSUME NEW s, NEW m \in Nat, NEW X
  PROVE  /\ Cardinality(Held(s, m, X)) \in Nat
         /\ Cardinality(Held(s, m + 1, X)) = Cardinality(Held(s, m, X)) + Load(s[m + 1], X)
<1>1. IsFiniteSet(1..m)
  BY FS_Interval
<1>2. IsFiniteSet(Held(s, m, X)) /\ m + 1 \notin Held(s, m, X)
  BY <1>1, FS_Subset DEF Held
<1>3. Cardinality(Held(s, m, X)) \in Nat
  BY <1>2, FS_CardinalityType
<1>4. CASE Carries(s[m + 1], X)
  <2>1. Held(s, m + 1, X) = Held(s, m, X) \cup {m + 1}
    BY <1>4 DEF Held
  <2> QED BY <1>2, <1>3, <1>4, <2>1, FS_AddElement DEF Load
<1>5. CASE ~Carries(s[m + 1], X)
  <2>1. Held(s, m + 1, X) = Held(s, m, X)
    BY <1>5 DEF Held
  <2> QED BY <1>3, <1>5, <2>1 DEF Load
<1> QED BY <1>3, <1>4, <1>5

\* Stacks that agree up to a depth carry the same references up to it.
LEMMA HeldSame ==
  ASSUME NEW s, NEW t, NEW m \in Int, NEW X, \A k \in 1..m : s[k] = t[k]
  PROVE  Held(s, m, X) = Held(t, m, X)
BY DEF Held

\* The references in flight are those the whole stack carries, before and after a
\* step.
LEMMA TransitIsHeld ==
  ASSUME NEW X
  PROVE  /\ Transit(X) = Held(stack, Depth, X)
         /\ Transit(X)' = Held(stack', Depth', X)
BY DEF Transit, Held

\* The load of a code frame does not depend on the calls it has made.
LEMMA LoadOfCode ==
  ASSUME NEW f \in Frames, f.at \in CodeFrames, NEW n \in Nat, NEW X
  PROVE  Load([f EXCEPT !.i = n], X) = Load(f, X)
<1> DEFINE g == [f EXCEPT !.i = n]
<1>1. g.at = f.at /\ g.lib = f.lib /\ g.ret = f.ret
  BY DEF Frames
<1>2. f.at # "do_dlopen" /\ f.at # "link_image"
  BY DEF CodeFrames
<1> HIDE DEF g
<1>3. Carries(g, X) <=> Carries(f, X)
  BY <1>1, <1>2 DEF Carries
<1> QED BY <1>3 DEF Load, g

\* The references in flight, with the top frame's apart.
LEMMA TransitSplit ==
  ASSUME stack \in Seq(Frames), stack # <<>>, NEW X
  PROVE  /\ Depth \in Nat \ {0}
         /\ Cardinality(Held(stack, Depth - 1, X)) \in Nat
         /\ Cardinality(Transit(X)) = Cardinality(Held(stack, Depth - 1, X)) + Load(Top, X)
<1>1. Depth \in Nat \ {0}
  BY DEF Depth
<1>2. /\ Cardinality(Held(stack, Depth - 1, X)) \in Nat
      /\ Cardinality(Held(stack, (Depth - 1) + 1, X))
           = Cardinality(Held(stack, Depth - 1, X)) + Load(stack[(Depth - 1) + 1], X)
  BY <1>1, HeldStep
<1>3. (Depth - 1) + 1 = Depth
  BY <1>1
<1> QED BY <1>1, <1>2, <1>3, TransitIsHeld DEF Top

\* Going on in the same function changes the references in flight by what its
\* frame carries before and after.
LEMMA GotoTransit ==
  ASSUME stack \in Seq(Frames), stack # <<>>, NEW f \in Frames, Goto(f), NEW X
  PROVE  Cardinality(Transit(X)') + Load(Top, X) = Cardinality(Transit(X)) + Load(f, X)
<1>1. /\ Depth' = Depth
      /\ stack'[Depth] = f
      /\ \A k \in 1..(Depth - 1) : stack'[k] = stack[k]
  BY GotoShape
<1>2. /\ Depth \in Nat \ {0}
      /\ Cardinality(Held(stack, Depth - 1, X)) \in Nat
      /\ Cardinality(Transit(X)) = Cardinality(Held(stack, Depth - 1, X)) + Load(Top, X)
  BY TransitSplit
<1>3. Held(stack', Depth - 1, X) = Held(stack, Depth - 1, X)
  BY <1>1, <1>2, HeldSame
<1>4. Cardinality(Held(stack', (Depth - 1) + 1, X))
        = Cardinality(Held(stack', Depth - 1, X)) + Load(stack'[(Depth - 1) + 1], X)
  BY <1>2, HeldStep
<1>5. (Depth - 1) + 1 = Depth
  BY <1>2
<1>6. Cardinality(Transit(X)') = Cardinality(Held(stack, Depth - 1, X)) + Load(f, X)
  BY <1>1, <1>3, <1>4, <1>5, TransitIsHeld
<1>7. Load(f, X) \in Nat /\ Load(Top, X) \in Nat
  BY DEF Load
<1> QED BY <1>2, <1>6, <1>7

\* A call adds what the callee's frame carries, and changes what the caller's does.
LEMMA CallTransit ==
  ASSUME stack \in Seq(Frames), stack # <<>>, NEW f \in Frames, NEW g \in Frames,
         Call(f, g), NEW X
  PROVE  Cardinality(Transit(X)') + Load(Top, X) = Cardinality(Transit(X)) + Load(f, X) + Load(g, X)
<1>1. /\ Depth' = Depth + 1
      /\ stack'[Depth] = f
      /\ stack'[Depth + 1] = g
      /\ \A k \in 1..(Depth - 1) : stack'[k] = stack[k]
  BY CallShape
<1>2. /\ Depth \in Nat \ {0}
      /\ Cardinality(Held(stack, Depth - 1, X)) \in Nat
      /\ Cardinality(Transit(X)) = Cardinality(Held(stack, Depth - 1, X)) + Load(Top, X)
  BY TransitSplit
<1>3. Held(stack', Depth - 1, X) = Held(stack, Depth - 1, X)
  BY <1>1, <1>2, HeldSame
<1>4. /\ Cardinality(Held(stack', (Depth - 1) + 1, X))
           = Cardinality(Held(stack', Depth - 1, X)) + Load(stack'[(Depth - 1) + 1], X)
      /\ Cardinality(Held(stack', Depth + 1, X))
           = Cardinality(Held(stack', Depth, X)) + Load(stack'[Depth + 1], X)
  BY <1>2, HeldStep
<1>5. (Depth - 1) + 1 = Depth
  BY <1>2
<1>6. Cardinality(Transit(X)')
        = Cardinality(Held(stack, Depth - 1, X)) + Load(f, X) + Load(g, X)
  BY <1>1, <1>3, <1>4, <1>5, TransitIsHeld
<1>7. Load(f, X) \in Nat /\ Load(g, X) \in Nat /\ Load(Top, X) \in Nat
  BY DEF Load
<1> QED BY <1>2, <1>6, <1>7

\* A return drops what the top frame carries.
LEMMA PopTransit ==
  ASSUME stack \in Seq(Frames), stack # <<>>, Pop, NEW X
  PROVE  Cardinality(Transit(X)') + Load(Top, X) = Cardinality(Transit(X))
<1>1. Depth' = Depth - 1 /\ \A k \in 1..(Depth - 1) : stack'[k] = stack[k]
  BY PopShape
<1>2. /\ Depth \in Nat \ {0}
      /\ Cardinality(Transit(X)) = Cardinality(Held(stack, Depth - 1, X)) + Load(Top, X)
  BY TransitSplit
<1>3. Held(stack', Depth - 1, X) = Held(stack, Depth - 1, X)
  BY <1>1, <1>2, HeldSame
<1> QED BY <1>1, <1>2, <1>3, TransitIsHeld

\* A return with a result drops what the top frame carries; the caller's frame
\* may carry the result.
LEMMA ReturnTransit ==
  ASSUME stack \in Seq(Frames), Depth > 1, NEW ret \in {"none", "ok", "fail"}, Return(ret), NEW X
  PROVE  Cardinality(Transit(X)') + Load(Top, X) + Load(stack[Depth - 1], X)
           = Cardinality(Transit(X)) + Load([stack[Depth - 1] EXCEPT !.ret = ret], X)
<1> DEFINE c == stack[Depth - 1]
           e == [c EXCEPT !.ret = ret]
<1>0. stack # <<>>
  BY DEF Depth
<1>1. /\ Depth' = Depth - 1
      /\ stack'[Depth - 1] = e
      /\ \A k \in 1..(Depth - 2) : stack'[k] = stack[k]
  BY ReturnShape
<1>2. /\ Depth \in Nat \ {0}
      /\ Cardinality(Transit(X)) = Cardinality(Held(stack, Depth - 1, X)) + Load(Top, X)
  BY <1>0, TransitSplit
<1>3. Depth - 2 \in Nat /\ (Depth - 2) + 1 = Depth - 1
  BY <1>2
<1>4. Held(stack', Depth - 2, X) = Held(stack, Depth - 2, X)
  BY <1>1, <1>3, HeldSame
<1>5. /\ Cardinality(Held(stack, Depth - 2, X)) \in Nat
      /\ Cardinality(Held(stack, (Depth - 2) + 1, X))
           = Cardinality(Held(stack, Depth - 2, X)) + Load(stack[(Depth - 2) + 1], X)
      /\ Cardinality(Held(stack', (Depth - 2) + 1, X))
           = Cardinality(Held(stack', Depth - 2, X)) + Load(stack'[(Depth - 2) + 1], X)
  BY <1>3, HeldStep
<1>6. /\ Cardinality(Transit(X)) = Cardinality(Held(stack, Depth - 2, X)) + Load(c, X) + Load(Top, X)
      /\ Cardinality(Transit(X)') = Cardinality(Held(stack, Depth - 2, X)) + Load(e, X)
  BY <1>1, <1>2, <1>3, <1>4, <1>5, TransitIsHeld
<1>7. Load(c, X) \in Nat /\ Load(e, X) \in Nat /\ Load(Top, X) \in Nat
  BY DEF Load
<1> HIDE DEF c, e
<1>8. Cardinality(Transit(X)') + Load(Top, X) + Load(c, X) = Cardinality(Transit(X)) + Load(e, X)
  BY <1>5, <1>6, <1>7
<1> QED BY <1>8 DEF c, e

\* A call of dlopen or dlclose adds what its frames carry.
LEMMA ClientTransit ==
  ASSUME stack \in Seq(Frames), stack = <<>> \/ InCode, NEW f \in Frames, NEW g \in Frames,
         Enter(f, g), NEW X
  PROVE  Cardinality(Transit(X)') = Cardinality(Transit(X)) + Load(f, X) + Load(g, X)
<1>1. /\ Depth' = Depth + 2
      /\ stack'[Depth + 1] = f
      /\ stack'[Depth + 2] = g
      /\ stack # <<>> => stack'[Depth] = [Top EXCEPT !.i = @ + 1]
  BY ClientShape
<1>c. \A k \in 1..(Depth - 1) : stack'[k] = stack[k]
  BY ClientShape
<1>2. Depth \in Nat
  BY DEF Depth
<1>3. Cardinality(Held(stack', Depth, X)) = Cardinality(Transit(X))
  <2>1. CASE stack = <<>>
    <3>1. Depth = 0
      BY <2>1 DEF Depth
    <3> QED BY <3>1, HeldSame, TransitIsHeld
  <2>2. CASE InCode
    <3>1. stack # <<>> /\ Top.at \in CodeFrames /\ Top \in Frames
      BY <2>2 DEF InCode, Top, Depth
    <3>2. Top.i + 1 \in Nat
      BY <3>1 DEF Frames
    <3>3. Load(stack'[Depth], X) = Load(Top, X)
      BY <1>1, <3>1, <3>2, LoadOfCode
    <3>4. /\ Depth \in Nat \ {0}
          /\ Cardinality(Transit(X)) = Cardinality(Held(stack, Depth - 1, X)) + Load(Top, X)
      BY <3>1, TransitSplit
    <3>a. Depth - 1 \in Nat
      BY <3>4
    <3>5. Held(stack', Depth - 1, X) = Held(stack, Depth - 1, X)
      BY <3>a, <1>c, HeldSame
    <3>6. Cardinality(Held(stack', (Depth - 1) + 1, X))
            = Cardinality(Held(stack', Depth - 1, X)) + Load(stack'[(Depth - 1) + 1], X)
      BY <3>a, HeldStep
    <3>7. (Depth - 1) + 1 = Depth
      BY <3>4
    <3> QED BY <3>3, <3>4, <3>5, <3>6, <3>7
  <2> QED BY <2>1, <2>2
<1>a. Cardinality(Held(stack', Depth + 1, X))
        = Cardinality(Held(stack', Depth, X)) + Load(stack'[Depth + 1], X)
  BY <1>2, HeldStep
<1>b. Depth + 1 \in Nat
  BY <1>2
<1>4. Cardinality(Held(stack', (Depth + 1) + 1, X))
        = Cardinality(Held(stack', Depth + 1, X)) + Load(stack'[(Depth + 1) + 1], X)
  BY <1>b, HeldStep
<1>5. (Depth + 1) + 1 = Depth + 2
  BY <1>2
<1> QED BY <1>1, <1>3, <1>a, <1>4, <1>5, TransitIsHeld

-----------------------------------------------------------------------------
(* The libraries being unloaded.                                           *)

\* The libraries being unloaded, before and after a step, frame by frame.
LEMMA UnloadingMember ==
  /\ \A X : X \in Unloading <=> \E k \in 1..Depth : stack[k].at \in UnloadFrames /\ stack[k].lib = X
  /\ \A X : X \in Unloading' <=>
              \E k \in 1..Depth' : stack'[k].at \in UnloadFrames /\ stack'[k].lib = X
BY DEF Unloading

\* What the proofs use of a stack that is not empty.
LEMMA StackFacts ==
  ASSUME stack \in Seq(Frames), stack # <<>>
  PROVE  /\ Depth \in Nat \ {0}
         /\ Top = stack[Depth]
         /\ Top \in Frames
         /\ \A k \in 1..Depth : stack[k] \in Frames
BY DEF Depth, Top

\* Going on in the same function unloads what was being unloaded.
LEMMA GotoUnloading ==
  ASSUME stack \in Seq(Frames), stack # <<>>, NEW f \in Frames, Goto(f),
         f.at \in UnloadFrames <=> Top.at \in UnloadFrames,
         f.lib = Top.lib
  PROVE  Unloading' = Unloading
<1>1. /\ Depth' = Depth
      /\ stack'[Depth] = f
      /\ \A k \in 1..(Depth - 1) : stack'[k] = stack[k]
  BY GotoShape
<1>2. Depth \in Nat \ {0} /\ Top = stack[Depth]
  BY StackFacts
<1>3. \A k \in 1..Depth : k \in 1..(Depth - 1) \/ k = Depth
  BY <1>2
<1>4. \A X : X \in Unloading' <=> X \in Unloading
  BY <1>1, <1>2, <1>3, UnloadingMember
<1> QED BY <1>4

\* A call of a function that does not unload leaves what is being unloaded.
LEMMA CallUnloading ==
  ASSUME stack \in Seq(Frames), stack # <<>>, NEW f \in Frames, NEW g \in Frames, Call(f, g),
         f.at \in UnloadFrames <=> Top.at \in UnloadFrames,
         f.lib = Top.lib,
         g.at \notin UnloadFrames
  PROVE  Unloading' = Unloading
<1>1. /\ Depth' = Depth + 1
      /\ stack'[Depth] = f
      /\ stack'[Depth + 1] = g
      /\ \A k \in 1..(Depth - 1) : stack'[k] = stack[k]
  BY CallShape
<1>2. Depth \in Nat \ {0} /\ Top = stack[Depth]
  BY StackFacts
<1>3. /\ \A k \in 1..Depth : k \in 1..(Depth - 1) \/ k = Depth
      /\ \A k \in 1..(Depth + 1) : k \in 1..(Depth - 1) \/ k = Depth \/ k = Depth + 1
      /\ 1..(Depth - 1) \subseteq 1..(Depth + 1)
      /\ Depth \in 1..(Depth + 1) /\ Depth \in 1..Depth
  BY <1>2
<1>4. \A X : X \in Unloading' <=> X \in Unloading
  BY <1>1, <1>2, <1>3, UnloadingMember
<1> QED BY <1>4

\* A return ends at most the unloading of the top frame's library.
LEMMA PopUnloading ==
  ASSUME stack \in Seq(Frames), stack # <<>>, Pop
  PROVE  /\ Unloading' \subseteq Unloading
         /\ Top.at \in UnloadFrames => Unloading \ {Top.lib} \subseteq Unloading'
         /\ Top.at \notin UnloadFrames => Unloading' = Unloading
<1>1. /\ Depth' = Depth - 1
      /\ \A k \in 1..(Depth - 1) : stack'[k] = stack[k]
  BY PopShape
<1>2. Depth \in Nat \ {0} /\ Top = stack[Depth]
  BY StackFacts
<1>3. \A k \in 1..Depth : k \in 1..(Depth - 1) \/ k = Depth
  BY <1>2
<1>4. \A k \in 1..(Depth - 1) : k \in 1..Depth
  BY <1>2
<1>5. ASSUME NEW X \in Unloading' PROVE X \in Unloading
  <2>1. PICK k \in 1..Depth' : stack'[k].at \in UnloadFrames /\ stack'[k].lib = X
    BY <1>5, UnloadingMember
  <2>2. k \in 1..Depth /\ stack[k].at \in UnloadFrames /\ stack[k].lib = X
    BY <1>1, <1>4, <2>1
  <2> QED BY <2>2, UnloadingMember
<1>6. ASSUME NEW X \in Unloading, X # Top.lib \/ Top.at \notin UnloadFrames PROVE X \in Unloading'
  <2>1. PICK k \in 1..Depth : stack[k].at \in UnloadFrames /\ stack[k].lib = X
    BY <1>6, UnloadingMember
  <2>2. k # Depth
    BY <1>2, <1>6, <2>1
  <2>3. k \in 1..Depth' /\ stack'[k].at \in UnloadFrames /\ stack'[k].lib = X
    BY <1>1, <1>3, <2>1, <2>2
  <2> QED BY <2>3, UnloadingMember
<1> QED BY <1>5, <1>6

\* A return with a result from a function that does not unload ends no unloading.
LEMMA ReturnUnloading ==
  ASSUME stack \in Seq(Frames), Depth > 1, NEW ret \in {"none", "ok", "fail"}, Return(ret),
         Top.at \notin UnloadFrames
  PROVE  Unloading' = Unloading
<1>0. stack # <<>>
  BY DEF Depth
<1>1. /\ Depth' = Depth - 1
      /\ stack'[Depth - 1] = [stack[Depth - 1] EXCEPT !.ret = ret]
      /\ \A k \in 1..(Depth - 2) : stack'[k] = stack[k]
  BY ReturnShape
<1>2. Depth \in Nat \ {0} /\ Top = stack[Depth] /\ Depth - 1 \in 1..Depth
  BY <1>0, StackFacts
<1>3. stack[Depth - 1] \in Frames
  BY <1>0, <1>2, StackFacts
<1>4. stack'[Depth - 1].at = stack[Depth - 1].at /\ stack'[Depth - 1].lib = stack[Depth - 1].lib
  BY <1>1, <1>3 DEF Frames
<1>5. /\ \A k \in 1..Depth : k \in 1..(Depth - 2) \/ k = Depth - 1 \/ k = Depth
      /\ \A k \in 1..(Depth - 1) : k \in 1..(Depth - 2) \/ k = Depth - 1
      /\ \A k \in 1..(Depth - 2) : k \in 1..(Depth - 1) /\ k \in 1..Depth
      /\ Depth - 1 \in 1..(Depth - 1)
  BY <1>2
<1>6. \A X : X \in Unloading' <=> X \in Unloading
  <2> TAKE X
  <2>1. ASSUME X \in Unloading PROVE X \in Unloading'
    <3>1. PICK k \in 1..Depth : stack[k].at \in UnloadFrames /\ stack[k].lib = X
      BY <2>1, UnloadingMember
    <3>2. k # Depth
      BY <3>1, <1>2
    <3>3. k \in 1..Depth' /\ stack'[k].at \in UnloadFrames /\ stack'[k].lib = X
      BY <1>1, <1>4, <1>5, <3>1, <3>2
    <3> QED BY <3>3, UnloadingMember
  <2>2. ASSUME X \in Unloading' PROVE X \in Unloading
    <3>1. PICK k \in 1..Depth' : stack'[k].at \in UnloadFrames /\ stack'[k].lib = X
      BY <2>2, UnloadingMember
    <3>2. k \in 1..Depth /\ stack[k].at \in UnloadFrames /\ stack[k].lib = X
      BY <1>1, <1>2, <1>4, <1>5, <3>1
    <3> QED BY <3>2, UnloadingMember
  <2> QED BY <2>1, <2>2
<1> QED BY <1>6

\* A call of dlopen or dlclose starts no unloading by itself.
LEMMA EnterUnloading ==
  ASSUME stack \in Seq(Frames), NEW f \in Frames, NEW g \in Frames, Enter(f, g),
         f.at \notin UnloadFrames, g.at \notin UnloadFrames
  PROVE  Unloading' = Unloading
<1>1. /\ Depth' = Depth + 2
      /\ stack'[Depth + 1] = f
      /\ stack'[Depth + 2] = g
  BY ClientShape
<1>2. stack # <<>> => stack'[Depth] = [Top EXCEPT !.i = @ + 1]
  BY ClientShape
<1>3. \A k \in 1..(Depth - 1) : stack'[k] = stack[k]
  BY ClientShape
<1>4. Depth \in Nat
  BY DEF Depth
<1>5. \A k \in 1..Depth : stack'[k].at = stack[k].at /\ stack'[k].lib = stack[k].lib
  <2> SUFFICES ASSUME NEW k \in 1..Depth
               PROVE  stack'[k].at = stack[k].at /\ stack'[k].lib = stack[k].lib
    OBVIOUS
  <2>1. stack # <<>>
    BY <1>4 DEF Depth
  <2>2. CASE k = Depth
    BY <1>2, <2>1, <2>2, StackFacts DEF Frames
  <2>3. CASE k \in 1..(Depth - 1)
    BY <1>3, <2>3
  <2> QED BY <1>4, <2>2, <2>3
<1>6. \A k \in 1..(Depth + 2) : k \in 1..Depth \/ k = Depth + 1 \/ k = Depth + 2
  BY <1>4
<1>7. \A k \in 1..Depth : k \in 1..(Depth + 2)
  BY <1>4
<1>8. \A X : X \in Unloading' <=> X \in Unloading
  BY <1>1, <1>5, <1>6, <1>7, UnloadingMember
<1> QED BY <1>8

-----------------------------------------------------------------------------
(* StackInv.                                                               *)

\* Whether a frame waits for another depends on who that is, not on how far it is.
LEMMA CalledSame ==
  ASSUME NEW f, NEW g, NEW h, g.at = h.at, g.lib = h.lib
  PROVE  Called(f, g) <=> Called(f, h)
BY DEF Called

\* StackInv of the next state, from its two stacks frame by frame: the frames below
\* m are unchanged, m's own caller may have called what is there now.
LEMMA GotoStackInv ==
  ASSUME stack \in Seq(Frames), stack # <<>>, NEW f \in Frames, Goto(f), StackInv,
         Top.at \in EntryFrames => f.at \in EntryFrames,
         \A c : Called(c, Top) => Called(c, f),
         Top.at \in FindFrames => f.at \in FindFrames,
         f.at = "link_image" =>
           \/ Top.at = "link_image" /\ Top.lib = f.lib
           \/ \A k \in 1..Depth : ~(stack[k].at = "link_image" /\ stack[k].lib = f.lib)
  PROVE  StackInv'
<1>1. /\ Depth' = Depth
      /\ stack'[Depth] = f
      /\ \A k \in 1..(Depth - 1) : stack'[k] = stack[k]
      /\ stack' \in Seq(Frames)
  BY GotoShape
<1>2. Depth \in Nat \ {0} /\ Top = stack[Depth]
  BY StackFacts
<1>3. \A k \in 1..Depth : k \in 1..(Depth - 1) \/ k = Depth
  BY <1>2
<1>4. WellStacked'
  <2>1. stack'[1].at \in EntryFrames
    <3>1. stack[1].at \in EntryFrames
      BY DEF StackInv, WellStacked
    <3>2. 1 = Depth \/ 1 \in 1..(Depth - 1)
      BY <1>2
    <3> QED BY <1>1, <1>2, <3>1, <3>2
  <2>2. ASSUME NEW k \in 1..Depth, k > 1 PROVE Called(stack'[k - 1], stack'[k])
    <3>1. Called(stack[k - 1], stack[k])
      BY <2>2 DEF StackInv, WellStacked
    <3>2. k - 1 \in 1..(Depth - 1)
      BY <1>2, <2>2
    <3>3. CASE k = Depth
      BY <1>1, <1>2, <3>1, <3>2, <3>3
    <3>4. CASE k \in 1..(Depth - 1)
      BY <1>1, <3>1, <3>2, <3>4
    <3> QED BY <1>3, <3>3, <3>4
  <2> QED BY <1>1, <2>1, <2>2 DEF WellStacked
<1>5. FindOnTop'
  <2> SUFFICES ASSUME NEW j \in 1..Depth, NEW k \in 1..Depth, j <= k, stack'[j].at \in FindFrames
               PROVE  stack'[k].at \in FindFrames
    BY <1>1 DEF FindOnTop
  <2>1. CASE j = Depth
    BY <1>2, <2>1
  <2>2. CASE j \in 1..(Depth - 1)
    <3>1. stack[j].at \in FindFrames
      BY <1>1, <2>2
    <3>2. stack[k].at \in FindFrames
      BY <3>1 DEF StackInv, FindOnTop
    <3> QED BY <1>1, <1>2, <1>3, <3>2
  <2> QED BY <1>3, <2>1, <2>2
<1>6. LinkOnce'
  <2> SUFFICES ASSUME NEW j \in 1..Depth, NEW k \in 1..Depth,
                      stack'[j].at = "link_image", stack'[k].at = "link_image",
                      stack'[j].lib = stack'[k].lib
               PROVE  j = k
    BY <1>1 DEF LinkOnce
  <2>1. LinkOnce
    BY DEF StackInv
  <2>2. CASE j \in 1..(Depth - 1) /\ k \in 1..(Depth - 1)
    BY <1>1, <2>1, <2>2 DEF LinkOnce
  <2>3. CASE j = Depth /\ k \in 1..(Depth - 1)
    BY <1>1, <1>2, <2>1, <2>3 DEF LinkOnce
  <2>4. CASE k = Depth /\ j \in 1..(Depth - 1)
    BY <1>1, <1>2, <2>1, <2>4 DEF LinkOnce
  <2> QED BY <1>3, <2>2, <2>3, <2>4
<1> QED BY <1>4, <1>5, <1>6 DEF StackInv

\* The stack stays well formed over a call, if the caller's frame was waiting for
\* nothing else and the callee's is one it may wait for.
LEMMA CallStackInv ==
  ASSUME stack \in Seq(Frames), stack # <<>>, NEW f \in Frames, NEW g \in Frames,
         Call(f, g), StackInv,
         f.at \in EntryFrames <=> Top.at \in EntryFrames,
         \A c : Called(c, Top) => Called(c, f),
         Top.at \in FindFrames => f.at \in FindFrames,
         f.at = "link_image" => Top.at = "link_image" /\ Top.lib = f.lib,
         Called(f, g),
         f.at \in FindFrames => g.at \in FindFrames,
         g.at # "link_image"
  PROVE  StackInv'
<1>1. /\ Depth' = Depth + 1
      /\ stack'[Depth] = f
      /\ stack'[Depth + 1] = g
      /\ \A k \in 1..(Depth - 1) : stack'[k] = stack[k]
      /\ stack' \in Seq(Frames)
  BY CallShape
<1>2. Depth \in Nat \ {0} /\ Top = stack[Depth]
  BY StackFacts
<1>3. \A k \in 1..(Depth + 1) : k \in 1..(Depth - 1) \/ k = Depth \/ k = Depth + 1
  BY <1>2
<1>4. WellStacked'
  <2>1. stack'[1].at \in EntryFrames
    <3>1. stack[1].at \in EntryFrames
      BY DEF StackInv, WellStacked
    <3>2. 1 = Depth \/ 1 \in 1..(Depth - 1)
      BY <1>2
    <3> QED BY <1>1, <1>2, <3>1, <3>2
  <2>2. ASSUME NEW k \in 1..(Depth + 1), k > 1 PROVE Called(stack'[k - 1], stack'[k])
    <3>1. CASE k = Depth + 1
      <4>1. k - 1 = Depth
        BY <1>2, <3>1
      <4> QED BY <1>1, <3>1, <4>1
    <3>2. CASE k \in 1..Depth
      <4>1. Called(stack[k - 1], stack[k])
        BY <2>2, <3>2 DEF StackInv, WellStacked
      <4>2. k - 1 \in 1..(Depth - 1)
        BY <1>2, <2>2, <3>2
      <4>3. k = Depth \/ k \in 1..(Depth - 1)
        BY <1>2, <3>2
      <4> QED BY <1>1, <1>2, <4>1, <4>2, <4>3
    <3> QED BY <1>2, <3>1, <3>2
  <2> QED BY <1>1, <2>1, <2>2 DEF WellStacked
<1>5. FindOnTop'
  <2> SUFFICES ASSUME NEW j \in 1..(Depth + 1), NEW k \in 1..(Depth + 1), j <= k,
                      stack'[j].at \in FindFrames
               PROVE  stack'[k].at \in FindFrames
    BY <1>1 DEF FindOnTop
  <2>1. CASE j = Depth + 1
    BY <1>2, <2>1
  <2>2. CASE j = Depth
    BY <1>1, <1>2, <1>3, <2>2
  <2>3. CASE j \in 1..(Depth - 1)
    <3>1. j \in 1..Depth /\ Depth \in 1..Depth /\ j <= Depth /\ stack[j].at \in FindFrames
      BY <1>1, <1>2, <2>3
    <3>2. Top.at \in FindFrames /\ f.at \in FindFrames /\ g.at \in FindFrames
      BY <1>2, <3>1 DEF StackInv, FindOnTop
    <3>3. CASE k \in 1..(Depth - 1)
      <4>1. k \in 1..Depth
        BY <1>2, <3>3
      <4> QED BY <1>1, <3>1, <3>3, <4>1 DEF StackInv, FindOnTop
    <3> QED BY <1>1, <1>3, <3>2, <3>3
  <2> QED BY <1>3, <2>1, <2>2, <2>3
<1>6. LinkOnce'
  <2> SUFFICES ASSUME NEW j \in 1..(Depth + 1), NEW k \in 1..(Depth + 1),
                      stack'[j].at = "link_image", stack'[k].at = "link_image",
                      stack'[j].lib = stack'[k].lib
               PROVE  j = k
    BY <1>1 DEF LinkOnce
  <2>1. j \in 1..Depth /\ k \in 1..Depth
    BY <1>1, <1>2
  <2>2. \A i \in 1..Depth : stack'[i].at = "link_image" =>
           stack[i].at = "link_image" /\ stack[i].lib = stack'[i].lib
    BY <1>1, <1>2
  <2> QED BY <2>1, <2>2 DEF StackInv, LinkOnce
<1> QED BY <1>4, <1>5, <1>6 DEF StackInv

\* The stack stays well formed over a return.
LEMMA PopStackInv ==
  ASSUME stack \in Seq(Frames), stack # <<>>, Pop, StackInv
  PROVE  StackInv'
<1>1. /\ Depth' = Depth - 1
      /\ \A k \in 1..(Depth - 1) : stack'[k] = stack[k]
      /\ stack' \in Seq(Frames)
  BY PopShape
<1>2. Depth \in Nat \ {0}
  BY StackFacts
<1>3. \A k \in 1..(Depth - 1) : k \in 1..Depth
  BY <1>2
<1>4. WellStacked'
  <2>1. ASSUME stack' # <<>> PROVE stack'[1].at \in EntryFrames
    <3>1. Depth' # 0
      BY <1>1, <2>1 DEF Depth
    <3>2. 1 \in 1..(Depth - 1)
      BY <1>1, <1>2, <3>1
    <3> QED BY <1>1, <3>2 DEF StackInv, WellStacked
  <2>2. ASSUME NEW k \in 1..(Depth - 1), k > 1 PROVE Called(stack'[k - 1], stack'[k])
    <3>1. k - 1 \in 1..(Depth - 1)
      BY <1>2, <2>2
    <3>2. Called(stack[k - 1], stack[k])
      BY <1>3, <2>2 DEF StackInv, WellStacked
    <3> QED BY <1>1, <3>1, <3>2
  <2> QED BY <1>1, <2>1, <2>2 DEF WellStacked
<1>5. FindOnTop'
  BY <1>1, <1>3 DEF StackInv, FindOnTop
<1>6. LinkOnce'
  BY <1>1, <1>3 DEF StackInv, LinkOnce
<1> QED BY <1>4, <1>5, <1>6 DEF StackInv


\* A called search returns to the frame that is waiting for it, whose place and
\* library do not change; only its ret does, which Called looks at under a search.
LEMMA ReturnStackInv ==
  ASSUME stack \in Seq(Frames), Depth > 1, NEW ret \in {"none", "ok", "fail"}, Return(ret),
         StackInv
  PROVE  StackInv'
<1>0. stack # <<>>
  BY DEF Depth
<1>1. /\ Depth' = Depth - 1
      /\ stack'[Depth - 1] = [stack[Depth - 1] EXCEPT !.ret = ret]
      /\ \A k \in 1..(Depth - 2) : stack'[k] = stack[k]
      /\ stack' \in Seq(Frames)
  BY ReturnShape
<1>2. Depth \in Nat \ {0} /\ Depth - 1 \in 1..Depth /\ stack[Depth - 1] \in Frames
  <2>1. Depth \in Nat \ {0} /\ \A k \in 1..Depth : stack[k] \in Frames
    BY <1>0, StackFacts
  <2> QED BY <2>1
<1>3. stack'[Depth - 1].at = stack[Depth - 1].at /\ stack'[Depth - 1].lib = stack[Depth - 1].lib
  BY <1>1, <1>2 DEF Frames
<1>4. \A k \in 1..(Depth - 1) : k \in 1..(Depth - 2) \/ k = Depth - 1
  BY <1>2
<1>5. \A k \in 1..(Depth - 1) : stack'[k].at = stack[k].at /\ stack'[k].lib = stack[k].lib
  BY <1>1, <1>3, <1>4
<1>6. \A k \in 1..(Depth - 1) : k \in 1..Depth
  BY <1>2
<1>7. WellStacked'
  <2>1. stack'[1].at \in EntryFrames
    <3>1. 1 \in 1..(Depth - 1)
      BY <1>2
    <3> QED BY <1>0, <1>5, <3>1 DEF StackInv, WellStacked
  <2>2. ASSUME NEW k \in 1..(Depth - 1), k > 1 PROVE Called(stack'[k - 1], stack'[k])
    <3>1. k - 1 \in 1..(Depth - 2)
      BY <1>2, <2>2
    <3>2. Called(stack[k - 1], stack[k])
      BY <1>6, <2>2 DEF StackInv, WellStacked
    <3>3. Called(stack[k - 1], stack'[k])
      BY <1>5, <3>2, CalledSame
    <3> QED BY <1>1, <3>1, <3>3
  <2> QED BY <1>1, <2>1, <2>2 DEF WellStacked
<1>8. FindOnTop'
  BY <1>1, <1>5, <1>6 DEF StackInv, FindOnTop
<1>9. LinkOnce'
  BY <1>1, <1>5, <1>6 DEF StackInv, LinkOnce
<1> QED BY <1>7, <1>8, <1>9 DEF StackInv

\* A client's call starts on an empty stack or on library code.
LEMMA EnterStackInv ==
  ASSUME stack \in Seq(Frames), NEW f \in Frames, NEW g \in Frames, Enter(f, g), StackInv,
         stack = <<>> \/ InCode,
         f.at \in EntryFrames, Called(f, g), g.at # "link_image"
  PROVE  StackInv'
<1>1. /\ stack' \in Seq(Frames)
      /\ Depth' = Depth + 2
      /\ stack'[Depth + 1] = f
      /\ stack'[Depth + 2] = g
  BY ClientShape
<1>2. stack # <<>> => stack'[Depth] = [Top EXCEPT !.i = @ + 1]
  BY ClientShape
<1>3. \A k \in 1..(Depth - 1) : stack'[k] = stack[k]
  BY ClientShape
<1>4. Depth \in Nat /\ (stack # <<>> => Depth > 0) /\ (stack = <<>> => Depth = 0)
  BY DEF Depth
<1>5. \A k \in 1..Depth : stack'[k].at = stack[k].at /\ stack'[k].lib = stack[k].lib
  <2> SUFFICES ASSUME NEW k \in 1..Depth
               PROVE  stack'[k].at = stack[k].at /\ stack'[k].lib = stack[k].lib
    OBVIOUS
  <2>1. stack # <<>>
    BY <1>4
  <2>2. CASE k = Depth
    BY <1>2, <2>1, <2>2, StackFacts DEF Frames
  <2>3. CASE k \in 1..(Depth - 1)
    BY <1>3, <2>3
  <2> QED BY <1>4, <2>2, <2>3
<1>6. \A k \in 1..(Depth + 2) : k \in 1..Depth \/ k = Depth + 1 \/ k = Depth + 2
  BY <1>4
<1>7. f.at \notin FindFrames /\ f.at \notin CodeFrames
  BY DEF EntryFrames, FindFrames, CodeFrames
<1>8. stack # <<>> => stack[Depth].at \in CodeFrames
  BY DEF InCode, Top
<1>9. WellStacked'
  <2>1. stack'[1].at \in EntryFrames
    <3>1. CASE stack = <<>>
      BY <1>1, <1>4, <3>1
    <3>2. CASE stack # <<>>
      <4>1. 1 \in 1..Depth
        BY <1>4, <3>2
      <4> QED BY <1>5, <3>2, <4>1 DEF StackInv, WellStacked
    <3> QED BY <3>1, <3>2
  <2>2. ASSUME NEW k \in 1..(Depth + 2), k > 1 PROVE Called(stack'[k - 1], stack'[k])
    <3>1. CASE k = Depth + 2
      <4>1. k - 1 = Depth + 1
        BY <1>4, <3>1
      <4> QED BY <1>1, <3>1, <4>1
    <3>2. CASE k = Depth + 1
      <4>1. stack # <<>> /\ k - 1 = Depth /\ Depth \in 1..Depth
        BY <1>4, <2>2, <3>2
      <4>2. stack'[Depth].at \in CodeFrames
        BY <1>5, <1>8, <4>1
      <4>3. f.at \notin FindFrames \cup CtorsFrames \cup FreeingFrames
        BY DEF EntryFrames, FindFrames, CtorsFrames, FreeingFrames, UnloadFrames
      <4> QED BY <1>1, <3>2, <4>1, <4>2, <4>3 DEF Called
    <3>3. CASE k \in 1..Depth
      <4>1. Called(stack[k - 1], stack[k])
        BY <2>2, <3>3 DEF StackInv, WellStacked
      <4>2. Called(stack[k - 1], stack'[k])
        BY <1>5, <3>3, <4>1, CalledSame
      <4>3. k - 1 \in 1..(Depth - 1)
        BY <1>4, <2>2, <3>3
      <4> QED BY <1>3, <4>2, <4>3
    <3> QED BY <1>6, <3>1, <3>2, <3>3
  <2> QED BY <1>1, <2>1, <2>2 DEF WellStacked
<1>10. FindOnTop'
  <2> SUFFICES ASSUME NEW j \in 1..(Depth + 2), NEW k \in 1..(Depth + 2), j <= k,
                      stack'[j].at \in FindFrames
               PROVE  stack'[k].at \in FindFrames
    BY <1>1 DEF FindOnTop
  <2>1. j = Depth + 2
    <3>1. CASE j \in 1..Depth
      <4>1. stack # <<>> /\ Depth \in 1..Depth /\ j <= Depth
        BY <1>4, <3>1
      <4>2. stack[Depth].at \in FindFrames
        BY <1>5, <3>1, <4>1 DEF StackInv, FindOnTop
      <4> QED BY <1>8, <4>1, <4>2 DEF FindFrames, CodeFrames
    <3> QED BY <1>1, <1>6, <1>7, <3>1
  <2>2. k = j
    BY <1>4, <2>1
  <2> QED BY <2>2
<1>11. LinkOnce'
  <2> SUFFICES ASSUME NEW j \in 1..(Depth + 2), NEW k \in 1..(Depth + 2),
                      stack'[j].at = "link_image", stack'[k].at = "link_image",
                      stack'[j].lib = stack'[k].lib
               PROVE  j = k
    BY <1>1 DEF LinkOnce
  <2>1. f.at # "link_image"
    BY DEF EntryFrames
  <2>2. j \in 1..Depth /\ k \in 1..Depth
    BY <1>1, <1>6, <2>1
  <2> QED BY <1>5, <2>2 DEF StackInv, LinkOnce
<1> QED BY <1>9, <1>10, <1>11 DEF StackInv

-----------------------------------------------------------------------------
(* The frames, and what they say about the soinfos.                        *)

\* All a frame says about the soinfos, in this state and in the next.
FrameOK(f, unl, lst, lnk, rc, acq) ==
  /\ SearchFrame(f, unl)
  /\ LinkFrame(f, lst, lnk, rc, acq)
  /\ UnloadFrame(f, rc, acq)
  /\ CtorsFrame(f, {X \in lst : lnk[X]} \ unl)

OK(f)     == FrameOK(f, Unloading, listed, linked, ref_count, acquired)
OKNext(f) == FrameOK(f, Unloading', listed', linked', ref_count', acquired')

\* FramesInv, before and after a step, frame by frame.
LEMMA FramesAreOK ==
  /\ FramesInv <=> \A k \in 1..Depth : OK(stack[k])
  /\ FramesInv' <=> \A k \in 1..Depth' : OKNext(stack'[k])
BY DEF FramesInv, OK, OKNext, FrameOK, Usable, Resident

\* A step that changes none of the state the frames speak of changes nothing
\* about them, nor about the entries and references held.
LEMMA Quiet ==
  ASSUME UNCHANGED <<listed, linked, ref_count, acquired>>, Unloading' = Unloading
  PROVE  /\ \A f : OK(f) => OKNext(f)
         /\ Usable' = Usable
         /\ ReferencedResident => ReferencedResident'
         /\ EntriesHeld => EntriesHeld'
         /\ \A X : Refs(X)' = Refs(X)
<1>1. Usable' = Usable /\ Resident' = Resident
  BY DEF Usable, Resident
<1>2. \A f : OK(f) => OKNext(f)
  BY DEF OK, OKNext
<1>3. ReferencedResident => ReferencedResident'
  BY <1>1 DEF ReferencedResident
<1>4. EntriesHeld => EntriesHeld'
  BY <1>1 DEF EntriesHeld
<1>5. \A X : Refs(X)' = Refs(X)
  BY DEF Refs
<1> QED BY <1>1, <1>2, <1>3, <1>4, <1>5

\* Going on in the same function: the new top frame and the others are right.
LEMMA GotoFrames ==
  ASSUME stack \in Seq(Frames), stack # <<>>, NEW f \in Frames, Goto(f),
         \A k \in 1..(Depth - 1) : OKNext(stack[k]),
         OKNext(f)
  PROVE  FramesInv'
<1>1. /\ Depth' = Depth
      /\ stack'[Depth] = f
      /\ \A k \in 1..(Depth - 1) : stack'[k] = stack[k]
  BY GotoShape
<1>2. Depth \in Nat \ {0}
  BY StackFacts
<1>3. \A k \in 1..Depth : k \in 1..(Depth - 1) \/ k = Depth
  BY <1>2
<1>4. ASSUME NEW k \in 1..Depth' PROVE OKNext(stack'[k])
  BY <1>1, <1>3
<1> QED BY <1>4, FramesAreOK

\* A call: the caller's frame, the callee's and the others are right.
LEMMA CallFrames ==
  ASSUME stack \in Seq(Frames), stack # <<>>, NEW f \in Frames, NEW g \in Frames, Call(f, g),
         \A k \in 1..(Depth - 1) : OKNext(stack[k]),
         OKNext(f), OKNext(g)
  PROVE  FramesInv'
<1>1. /\ Depth' = Depth + 1
      /\ stack'[Depth] = f
      /\ stack'[Depth + 1] = g
      /\ \A k \in 1..(Depth - 1) : stack'[k] = stack[k]
  BY CallShape
<1>2. Depth \in Nat \ {0}
  BY StackFacts
<1>3. \A k \in 1..(Depth + 1) : k \in 1..(Depth - 1) \/ k = Depth \/ k = Depth + 1
  BY <1>2
<1>4. ASSUME NEW k \in 1..Depth' PROVE OKNext(stack'[k])
  BY <1>1, <1>3
<1> QED BY <1>4, FramesAreOK

\* A return: the frames left are right.
LEMMA PopFrames ==
  ASSUME stack \in Seq(Frames), stack # <<>>, Pop,
         \A k \in 1..(Depth - 1) : OKNext(stack[k])
  PROVE  FramesInv'
<1>1. /\ Depth' = Depth - 1
      /\ \A k \in 1..(Depth - 1) : stack'[k] = stack[k]
  BY PopShape
<1>2. ASSUME NEW k \in 1..Depth' PROVE OKNext(stack'[k])
  BY <1>1
<1> QED BY <1>2, FramesAreOK

\* A return with a result: the caller's frame, with it, and the others are right.
LEMMA ReturnFrames ==
  ASSUME stack \in Seq(Frames), Depth > 1, NEW ret \in {"none", "ok", "fail"}, Return(ret),
         \A k \in 1..(Depth - 2) : OKNext(stack[k]),
         OKNext([stack[Depth - 1] EXCEPT !.ret = ret])
  PROVE  FramesInv'
<1>1. /\ Depth' = Depth - 1
      /\ stack'[Depth - 1] = [stack[Depth - 1] EXCEPT !.ret = ret]
      /\ \A k \in 1..(Depth - 2) : stack'[k] = stack[k]
  BY ReturnShape
<1>2. Depth \in Nat
  BY DEF Depth
<1>3. \A k \in 1..(Depth - 1) : k \in 1..(Depth - 2) \/ k = Depth - 1
  BY <1>2
<1>4. ASSUME NEW k \in 1..Depth' PROVE OKNext(stack'[k])
  BY <1>1, <1>3
<1> QED BY <1>4, FramesAreOK

\* What a frame of library code says does not depend on the calls it has made.
LEMMA CodeFrameOK ==
  ASSUME NEW f \in Frames, f.at \in CodeFrames, NEW n \in Nat, OKNext(f)
  PROVE  OKNext([f EXCEPT !.i = n])
<1> DEFINE g == [f EXCEPT !.i = n]
<1>1. g.at = f.at /\ g.lib = f.lib
  BY DEF Frames
<1>2. f.at \notin FindFrames /\ f.at # "link_image" /\ f.at # "unload_needed"
      /\ (f.at \in UnloadFrames => f.at = "unload_code")
  BY DEF CodeFrames, FindFrames, UnloadFrames
<1> HIDE DEF g
<1>3. OKNext(g)
  BY <1>1, <1>2 DEF OKNext, FrameOK, SearchFrame, LinkFrame, UnloadFrame, CtorsFrame
<1> QED BY <1>3 DEF g

\* A call of dlopen or dlclose: its frames and those below are right.
LEMMA ClientFrames ==
  ASSUME stack \in Seq(Frames), stack = <<>> \/ InCode, NEW f \in Frames, NEW g \in Frames,
         Enter(f, g),
         \A k \in 1..Depth : OKNext(stack[k]),
         OKNext(f), OKNext(g)
  PROVE  FramesInv'
<1>1. /\ Depth' = Depth + 2
      /\ stack'[Depth + 1] = f
      /\ stack'[Depth + 2] = g
  BY ClientShape
<1>2. \A k \in 1..(Depth - 1) : stack'[k] = stack[k]
  BY ClientShape
<1>3. Depth \in Nat
  BY DEF Depth
<1>4. \A k \in 1..(Depth + 2) :
         k \in 1..(Depth - 1) \/ (k = Depth /\ Depth # 0) \/ k = Depth + 1 \/ k = Depth + 2
  BY <1>3
<1>5. ASSUME Depth # 0 PROVE OKNext(stack'[Depth])
  <2>1. InCode /\ stack # <<>> /\ Depth \in 1..Depth
    BY <1>3, <1>5 DEF Depth
  <2>2. stack'[Depth] = [Top EXCEPT !.i = Top.i + 1]
    BY <2>1, ClientShape
  <2>3. Top \in Frames /\ Top = stack[Depth] /\ Top.at \in CodeFrames /\ Top.i + 1 \in Nat
    BY <2>1, StackFacts DEF InCode, Frames
  <2> QED BY <2>1, <2>2, <2>3, CodeFrameOK
<1>6. ASSUME NEW k \in 1..Depth' PROVE OKNext(stack'[k])
  <2>1. k \in 1..(Depth - 1) => k \in 1..Depth
    BY <1>3
  <2> QED BY <1>1, <1>2, <1>4, <1>5, <2>1
<1> QED BY <1>6, FramesAreOK

-----------------------------------------------------------------------------
(* NeededClosure.                                                          *)

\* A library is in its own closure.
LEMMA ClosureSelf ==
  ASSUME NEW L \in Lib
  PROVE  L \in NeededClosure(L)
BY DEF NeededClosure

\* The closure of a library contains that of every library it needs.
LEMMA ClosureNeeded ==
  ASSUME NEW L \in Lib, NEW i \in Entries(L)
  PROVE  NeededClosure(Needed[L][i]) \subseteq NeededClosure(L)
<1>1. Needed[L][i] \in Deps(L)
  BY DEF Deps
<1>2. ASSUME NEW X \in NeededClosure(Needed[L][i]) PROVE X \in NeededClosure(L)
  <2>1. X \in Lib
    BY <1>2 DEF NeededClosure
  <2>2. ASSUME NEW S \in SUBSET Lib, L \in S, \A Y \in S : Deps(Y) \subseteq S PROVE X \in S
    <3>1. Needed[L][i] \in S
      BY <1>1, <2>2
    <3> QED BY <1>2, <2>2, <3>1 DEF NeededClosure
  <2> QED BY <2>1, <2>2 DEF NeededClosure
<1> QED BY <1>2

\* The library named by a DT_NEEDED entry.
LEMMA NeededIsLib ==
  ASSUME NEW L \in Lib, NEW i \in Entries(L)
  PROVE  Needed[L][i] \in Lib /\ i \in Nat /\ i > 0
<1>1. Needed[L] \in Seq(Lib)
  BY NeededAssumption
<1> QED BY <1>1 DEF Entries

-----------------------------------------------------------------------------
(* Counting references.                                                    *)

\* The sets counted are finite, so RefCountExact is an equation of numbers.
LEMMA Numbers ==
  ASSUME TypeOK, EntriesHeld, RefCountExact, NEW X \in Lib
  PROVE  /\ IsFiniteSet(Transit(X)) /\ IsFiniteSet(Refs(X))
         /\ Cardinality(Transit(X)) \in Nat /\ Cardinality(Refs(X)) \in Nat
         /\ handles[X] \in Nat /\ leaked[X] \in Nat
         /\ (IF X = Libdl THEN LibdlRefs ELSE 0) \in Nat
         /\ ref_count[X] = (IF X = Libdl THEN LibdlRefs ELSE 0) + handles[X]
                             + Cardinality(Transit(X)) + Cardinality(Refs(X)) + leaked[X]
<1>1. Depth \in Nat
  BY DEF TypeOK, Depth
<1>2. IsFiniteSet(1..Depth)
  BY <1>1, FS_Interval
<1>3. IsFiniteSet(Transit(X))
  BY <1>2, FS_Subset DEF Transit
<1>4. IsFiniteSet(Refs(X))
  BY FS_Subset DEF Refs, EntriesHeld
<1>5. Cardinality(Transit(X)) \in Nat /\ Cardinality(Refs(X)) \in Nat
  BY <1>3, <1>4, FS_CardinalityType
<1>6. (IF X = Libdl THEN LibdlRefs ELSE 0) \in Nat
  BY RefsAssumption
<1>7. handles[X] \in Nat /\ leaked[X] \in Nat
  BY DEF TypeOK
<1>8. ref_count[X] = (IF X = Libdl THEN LibdlRefs ELSE 0) + handles[X]
                             + Cardinality(Transit(X)) + Cardinality(Refs(X)) + leaked[X]
  BY DEF RefCountExact
<1> QED BY <1>3, <1>4, <1>5, <1>6, <1>7, <1>8

\* A finite set with a member has at least one.
LEMMA NotEmpty ==
  ASSUME NEW S, IsFiniteSet(S), NEW x \in S
  PROVE  Cardinality(S) \in Nat /\ Cardinality(S) >= 1
<1>1. Cardinality(S) \in Nat
  BY FS_CardinalityType
<1>2. Cardinality(S) # 0
  BY FS_EmptySet
<1> QED BY <1>1, <1>2

\* A finite set with two different members has at least two.
LEMMA TwoMembers ==
  ASSUME NEW S, IsFiniteSet(S), NEW x \in S, NEW y \in S, x # y
  PROVE  Cardinality(S) \in Nat /\ Cardinality(S) >= 2
<1>1. IsFiniteSet(S \ {x}) /\ Cardinality(S \ {x}) = Cardinality(S) - 1
  BY FS_RemoveElement
<1>2. y \in S \ {x}
  OBVIOUS
<1>3. Cardinality(S \ {x}) \in Nat /\ Cardinality(S \ {x}) >= 1
  BY <1>1, <1>2, NotEmpty
<1>4. Cardinality(S) \in Nat
  BY FS_CardinalityType
<1> QED BY <1>1, <1>3, <1>4

\* The library a frame carries a reference to is referenced, hence resident.
LEMMA CarriedCount ==
  ASSUME IInv, NEW X \in Lib, NEW k \in 1..Depth, Carries(stack[k], X)
  PROVE  /\ ref_count[X] >= 1
         /\ X \in Resident
         /\ \A j \in 1..Depth : j # k /\ Carries(stack[j], X) => ref_count[X] >= 2
         /\ Refs(X) # {} => ref_count[X] >= 2
<1>0. TypeOK /\ EntriesHeld /\ RefCountExact /\ ReferencedResident
  BY DEF IInv
<1>1. k \in Transit(X)
  BY DEF Transit
<1> DEFINE own == IF X = Libdl THEN LibdlRefs ELSE 0
           t == Cardinality(Transit(X))
           r == Cardinality(Refs(X))
<1>2. /\ IsFiniteSet(Transit(X)) /\ IsFiniteSet(Refs(X))
      /\ own \in Nat /\ t \in Nat /\ r \in Nat /\ handles[X] \in Nat /\ leaked[X] \in Nat
      /\ ref_count[X] = own + handles[X] + t + r + leaked[X]
  BY <1>0, Numbers
<1>3. t >= 1
  BY <1>1, <1>2, NotEmpty
<1>4. ASSUME NEW j \in 1..Depth, j # k, Carries(stack[j], X) PROVE t >= 2
  <2>1. j \in Transit(X)
    BY <1>4 DEF Transit
  <2> QED BY <1>1, <1>2, <1>4, <2>1, TwoMembers
<1>5. ASSUME Refs(X) # {} PROVE r >= 1
  BY <1>2, <1>5, NotEmpty
<1> HIDE DEF own, t, r
<1>6. ref_count[X] >= 1
  BY <1>2, <1>3
<1>7. X \in Resident
  BY <1>0, <1>6 DEF ReferencedResident, TypeOK
<1> QED BY <1>2, <1>3, <1>4, <1>5, <1>6, <1>7

\* A library being unloaded has one reference left, carried by one frame.
LEMMA UnloadingCount ==
  ASSUME IInv, NEW X \in Unloading
  PROVE  \E k \in 1..Depth : /\ stack[k].at \in UnloadFrames /\ stack[k].lib = X
                             /\ Carries(stack[k], X) /\ X \in Lib /\ ref_count[X] = 1
<1>1. PICK k \in 1..Depth : stack[k].at \in UnloadFrames /\ stack[k].lib = X
  BY UnloadingMember
<1>2. stack \in Seq(Frames) /\ stack # <<>> /\ FramesInv
  BY DEF IInv, TypeOK, Depth
<1>3. stack[k] \in Frames
  BY <1>2, StackFacts
<1>4. X \in Lib
  BY <1>1, <1>3 DEF Frames
<1>5. ref_count[X] = 1
  BY <1>1, <1>2 DEF FramesInv, UnloadFrame
<1>6. Carries(stack[k], X)
  BY <1>1 DEF Carries
<1> QED BY <1>1, <1>4, <1>5, <1>6

\* A reference carried by a frame that is not unloading keeps its library usable.
LEMMA CarriedUsable ==
  ASSUME IInv, NEW X \in Lib, NEW k \in 1..Depth, Carries(stack[k], X),
         stack[k].at \notin UnloadFrames
  PROVE  X \in Usable
<1>1. X \in Resident
  BY CarriedCount
<1>2. ASSUME X \in Unloading PROVE FALSE
  <2>1. PICK j \in 1..Depth : /\ stack[j].at \in UnloadFrames
                              /\ Carries(stack[j], X) /\ ref_count[X] = 1
    BY <1>2, UnloadingCount
  <2>2. ref_count[X] >= 2
    BY <2>1, CarriedCount
  <2> QED BY <2>1, <2>2
<1> QED BY <1>1, <1>2 DEF Usable

\* So does a recorded DT_NEEDED entry.
LEMMA EntryUsable ==
  ASSUME IInv, NEW X \in Lib, Refs(X) # {}
  PROVE  X \in Usable
<1>0. TypeOK /\ EntriesHeld /\ RefCountExact /\ ReferencedResident
  BY DEF IInv
<1>1. ref_count[X] >= 1
  <2> DEFINE own == IF X = Libdl THEN LibdlRefs ELSE 0
             t == Cardinality(Transit(X))
             r == Cardinality(Refs(X))
  <2>1. /\ own \in Nat /\ t \in Nat /\ r \in Nat /\ handles[X] \in Nat /\ leaked[X] \in Nat
        /\ ref_count[X] = own + handles[X] + t + r + leaked[X]
        /\ IsFiniteSet(Refs(X))
    BY <1>0, Numbers
  <2>2. r >= 1
    BY <2>1, NotEmpty
  <2> HIDE DEF own, t, r
  <2> QED BY <2>1, <2>2
<1>2. X \in Resident
  BY <1>0, <1>1 DEF ReferencedResident, TypeOK
<1>3. ASSUME X \in Unloading PROVE FALSE
  <2>1. PICK j \in 1..Depth : Carries(stack[j], X) /\ ref_count[X] = 1
    BY <1>3, UnloadingCount
  <2>2. ref_count[X] >= 2
    BY <2>1, CarriedCount
  <2> QED BY <2>1, <2>2
<1> QED BY <1>2, <1>3 DEF Usable

\* A DT_NEEDED entry a library holds is a reference to the library it names.
LEMMA EntryRefs ==
  ASSUME NEW L, NEW i, <<L, i>> \in acquired
  PROVE  <<L, i>> \in Refs(Needed[L][i])
BY DEF Refs

\* The top frame, and the frame that called it.
LEMMA Caller ==
  ASSUME IInv, stack # <<>>
  PROVE  /\ Depth \in Nat \ {0} /\ Top = stack[Depth] /\ Top \in Frames
         /\ Top.lib \in Lib /\ Top.i \in Nat
         /\ OK(Top)
         /\ \A k \in 1..Depth : stack[k] \in Frames /\ stack[k].lib \in Lib
         /\ Top.at \notin EntryFrames => Depth > 1
         /\ Depth > 1 => /\ Depth - 1 \in 1..Depth
                         /\ stack[Depth - 1] \in Frames
                         /\ Called(stack[Depth - 1], Top)
                         /\ OK(stack[Depth - 1])
         /\ \A k \in 1..(Depth - 1) : k \in 1..Depth /\ k # Depth /\ OK(stack[k])
<1>1. stack \in Seq(Frames) /\ FramesInv /\ WellStacked
  BY DEF IInv, TypeOK, StackInv
<1>2. Depth \in Nat \ {0} /\ Top = stack[Depth] /\ Top \in Frames
      /\ \A k \in 1..Depth : stack[k] \in Frames
  BY <1>1, StackFacts
<1>3. \A k \in 1..Depth : OK(stack[k])
  BY <1>1, FramesAreOK
<1>4. Top.at \notin EntryFrames => Depth > 1
  <2>1. stack[1].at \in EntryFrames
    BY <1>1 DEF WellStacked
  <2> QED BY <1>2, <2>1
<1>5. ASSUME Depth > 1 PROVE Depth - 1 \in 1..Depth /\ Called(stack[Depth - 1], Top)
  <2>1. Depth - 1 \in 1..Depth /\ Depth \in 1..Depth
    BY <1>2, <1>5
  <2> QED BY <1>1, <1>2, <1>5, <2>1 DEF WellStacked
<1>6. OK(Top)
  <2>1. Depth \in 1..Depth
    BY <1>2
  <2> QED BY <1>2, <1>3, <2>1
<1>7. \A k \in 1..Depth : stack[k].lib \in Lib /\ stack[k].i \in Nat
  BY <1>2 DEF Frames
<1>8. \A k \in 1..(Depth - 1) : k \in 1..Depth /\ k # Depth
  BY <1>2
<1>9. Top.lib \in Lib /\ Top.i \in Nat
  BY <1>2 DEF Frames
<1> QED BY <1>2, <1>3, <1>4, <1>5, <1>6, <1>7, <1>8, <1>9

-----------------------------------------------------------------------------
(* The initial state and the actions.                                      *)

\* The fields of a frame the linker pushes.
LEMMA FrameFields ==
  ASSUME NEW at \in Labels, NEW L \in Lib, NEW i \in Nat
  PROVE  LET f == Frame(at, L, i) IN
         f \in Frames /\ f.at = at /\ f.lib = L /\ f.i = i /\ f.ret = "none"
BY DEF Frame, Frames

\* What remains to be shown of a step that leaves the soinfos and the entries
\* recorded alone.
LEMMA QuietInv ==
  ASSUME IInv, UNCHANGED <<listed, linked, ref_count, mapped, acquired>>,
         Unloading' = Unloading, TypeOK', StackInv', FramesInv', PoolsWritable',
         \A X \in Lib : handles'[X] + Cardinality(Transit(X)') = handles[X] + Cardinality(Transit(X)),
         UNCHANGED leaked
  PROVE  IInv'
<1>1. ReferencedResident' /\ EntriesHeld' /\ \A X : Refs(X)' = Refs(X)
  BY Quiet DEF IInv
<1>2. ImagesMapped'
  BY DEF IInv, ImagesMapped
<1>3. ASSUME NEW X \in Lib
      PROVE  ref_count'[X] = (IF X = Libdl THEN LibdlRefs ELSE 0) + handles'[X]
                     + Cardinality(Transit(X)') + Cardinality(Refs(X)') + leaked'[X]
  <2> DEFINE own == IF X = Libdl THEN LibdlRefs ELSE 0
             t == Cardinality(Transit(X))
             u == Cardinality(Transit(X)')
             r == Cardinality(Refs(X))
             h == handles'[X]
  <2>1. /\ own \in Nat /\ t \in Nat /\ r \in Nat /\ handles[X] \in Nat /\ leaked[X] \in Nat
        /\ ref_count[X] = own + handles[X] + t + r + leaked[X]
    BY Numbers DEF IInv
  <2>2. h + u = handles[X] + t /\ h \in Nat
    BY DEF TypeOK
  <2>3. u \in Nat
    <3>1. IsFiniteSet(1..Depth')
      BY FS_Interval DEF TypeOK, Depth
    <3> QED BY <3>1, FS_Subset, FS_CardinalityType DEF Transit
  <2>4. ref_count'[X] = ref_count[X] /\ Refs(X)' = Refs(X) /\ leaked'[X] = leaked[X]
    BY <1>1
  <2> HIDE DEF own, t, r, u, h
  <2>5. ref_count[X] = own + h + u + r + leaked[X]
    BY <2>1, <2>2, <2>3
  <2> QED BY <2>4, <2>5 DEF own, t, r, u, h
<1>4. RefCountExact'
  BY <1>3 DEF RefCountExact
<1> QED BY <1>1, <1>2, <1>4 DEF IInv

-----------------------------------------------------------------------------
(* The client's calls.                                                     *)

\* dlopen(NULL) preserves the invariant.
LEMMA DlopenNullInv ==
  ASSUME IInv, DlopenNull
  PROVE  IInv'
<1>1. UNCHANGED <<listed, linked, ref_count, constructors_called, mapped, stack, handles,
                  acquired, leaked, inits>>
  BY DEF DlopenNull, soinfos, ghosts
<1>2. Unloading' = Unloading /\ (\A X : Transit(X)' = Transit(X))
  BY <1>1 DEF Unloading, Depth, Transit
<1>3. StackInv' /\ FramesInv'
  <2>1. FramesInv'
    BY <1>1, <1>2, Quiet, FramesAreOK DEF IInv, Depth
  <2>2. StackInv'
    BY <1>1 DEF IInv, StackInv, WellStacked, FindOnTop, LinkOnce, Depth
  <2> QED BY <2>1, <2>2
<1>4. TypeOK'
  BY <1>1 DEF IInv, TypeOK, DlopenNull
<1>5. PoolsWritable'
  BY <1>1 DEF DlopenNull, MayCall, PoolsWritable, InCode, Top, Depth
<1> QED BY <1>1, <1>2, <1>3, <1>4, <1>5, QuietInv

\* dlopen, called by the client or by library code, preserves the invariant: it
\* changes nothing that is counted.
LEMMA DlopenInv ==
  ASSUME IInv, NEW L \in Lib, Dlopen(L)
  PROVE  IInv'
<1> DEFINE f == Frame("do_dlopen", L, 0)
           g == Frame("find_library", L, 0)
<1>1. /\ Enter(f, g)
      /\ writable' = TRUE
      /\ UNCHANGED <<listed, linked, ref_count, constructors_called, mapped, handles,
                     acquired, leaked, inits>>
      /\ NeededClosure(L) \cap Unloading = {}
      /\ stack = <<>> \/ InCode
  BY DEF Dlopen, soinfos, ghosts, MayCall
<1>2. /\ f \in Frames /\ f.at = "do_dlopen" /\ f.lib = L /\ f.ret = "none"
      /\ g \in Frames /\ g.at = "find_library" /\ g.lib = L
  BY FrameFields DEF Labels
<1>3. stack \in Seq(Frames) /\ StackInv /\ FramesInv /\ TypeOK
  BY DEF IInv, TypeOK
<1> HIDE DEF f, g
<1>4. Unloading' = Unloading
  BY <1>1, <1>2, <1>3, EnterUnloading DEF UnloadFrames
<1>5. Called(f, g)
  BY <1>2 DEF Called, EntryFrames, FindFrames, CtorsFrames, FreeingFrames, UnloadFrames
<1>6. StackInv'
  BY <1>1, <1>2, <1>3, <1>5, EnterStackInv DEF EntryFrames
<1>7. FramesInv'
  <2>1. \A k \in 1..Depth : OKNext(stack[k])
    BY <1>1, <1>3, <1>4, Quiet, FramesAreOK
  <2>2. OKNext(f) /\ OKNext(g)
    BY <1>1, <1>2, <1>4 DEF OKNext, FrameOK, SearchFrame, LinkFrame, UnloadFrame, CtorsFrame,
         FindFrames, UnloadFrames, CtorsFrames
  <2> QED BY <1>1, <1>2, <1>3, <2>1, <2>2, ClientFrames
<1>8. TypeOK'
  <2>1. stack' \in Seq(Frames)
    BY <1>1, <1>2, <1>3, ClientShape
  <2> QED BY <1>1, <1>3, <2>1 DEF TypeOK
<1>9. ASSUME NEW X \in Lib PROVE Cardinality(Transit(X)') = Cardinality(Transit(X))
  <2>1. Load(f, X) = 0 /\ Load(g, X) = 0
    BY <1>2 DEF Load, Carries, UnloadFrames
  <2>2. Cardinality(Transit(X)') = Cardinality(Transit(X)) + Load(f, X) + Load(g, X)
    BY <1>1, <1>2, <1>3, ClientTransit
  <2>3. Cardinality(Transit(X)) \in Nat
    BY Numbers DEF IInv
  <2> QED BY <2>1, <2>2, <2>3
<1>10. PoolsWritable'
  BY <1>1 DEF PoolsWritable
<1> QED BY <1>1, <1>4, <1>6, <1>7, <1>8, <1>9, <1>10, QuietInv

\* dlclose preserves the invariant: the client's handle becomes the reference
\* its frame carries.
LEMMA DlcloseInv ==
  ASSUME IInv, NEW L \in Lib, Dlclose(L)
  PROVE  IInv'
<1> DEFINE f == Frame("do_dlclose", L, 0)
           g == Frame("soinfo_unload", L, 0)
<1>1. /\ Enter(f, g)
      /\ writable' = TRUE
      /\ UNCHANGED <<listed, linked, ref_count, constructors_called, mapped,
                     acquired, leaked, inits>>
      /\ handles[L] > 0 /\ handles' = [handles EXCEPT ![L] = @ - 1]
      /\ stack = <<>> \/ InCode
  BY DEF Dlclose, soinfos, ghosts, MayCall
<1>2. /\ f \in Frames /\ f.at = "do_dlclose" /\ f.lib = L /\ f.ret = "none"
      /\ g \in Frames /\ g.at = "soinfo_unload" /\ g.lib = L
  BY FrameFields DEF Labels
<1>3. stack \in Seq(Frames) /\ StackInv /\ FramesInv /\ TypeOK
  BY DEF IInv, TypeOK
<1> HIDE DEF f, g
<1>4. Unloading' = Unloading
  BY <1>1, <1>2, <1>3, EnterUnloading DEF UnloadFrames
<1>5. Called(f, g)
  BY <1>2 DEF Called, EntryFrames, FindFrames, CtorsFrames, FreeingFrames, UnloadFrames
<1>6. StackInv'
  BY <1>1, <1>2, <1>3, <1>5, EnterStackInv DEF EntryFrames
<1>7. FramesInv'
  <2>1. \A k \in 1..Depth : OKNext(stack[k])
    BY <1>1, <1>3, <1>4, Quiet, FramesAreOK
  <2>2. OKNext(f) /\ OKNext(g)
    BY <1>2 DEF OKNext, FrameOK, SearchFrame, LinkFrame, UnloadFrame, CtorsFrame,
         FindFrames, UnloadFrames, CtorsFrames
  <2> QED BY <1>1, <1>2, <1>3, <2>1, <2>2, ClientFrames
<1>8. TypeOK'
  <2>1. stack' \in Seq(Frames)
    BY <1>1, <1>2, <1>3, ClientShape
  <2>2. handles' \in [Lib -> Nat]
    BY <1>1, <1>3 DEF TypeOK
  <2> QED BY <1>1, <1>3, <2>1, <2>2 DEF TypeOK
<1>9. ASSUME NEW X \in Lib
      PROVE  handles'[X] + Cardinality(Transit(X)') = handles[X] + Cardinality(Transit(X))
  <2>1. Load(f, X) = 0 /\ Load(g, X) = IF X = L THEN 1 ELSE 0
    BY <1>2 DEF Load, Carries, UnloadFrames
  <2>2. Cardinality(Transit(X)') = Cardinality(Transit(X)) + Load(f, X) + Load(g, X)
    BY <1>1, <1>2, <1>3, ClientTransit
  <2>3. Cardinality(Transit(X)) \in Nat /\ handles[X] \in Nat
    BY Numbers DEF IInv
  <2>4. handles'[X] = IF X = L THEN handles[X] - 1 ELSE handles[X]
    BY <1>1, <1>3 DEF TypeOK
  <2> QED BY <2>1, <2>2, <2>3, <2>4
<1>10. PoolsWritable'
  BY <1>1 DEF PoolsWritable
<1> QED BY <1>1, <1>4, <1>6, <1>7, <1>8, <1>9, <1>10, QuietInv

-----------------------------------------------------------------------------
(* Steps that leave the soinfos and entries alone and pop, replace or call *)
(* a frame.                                                                *)

\* A return that neither searches nor counts preserves the invariant.
LEMMA QuietPop ==
  ASSUME IInv, stack # <<>>, Pop, Top.at \notin UnloadFrames,
         UNCHANGED <<listed, linked, ref_count, mapped, acquired, leaked>>,
         constructors_called' \in [Lib -> BOOLEAN], inits' \in [Lib -> Nat],
         writable' \in BOOLEAN, handles' \in [Lib -> Nat],
         \A X \in Lib : handles'[X] = handles[X] + Load(Top, X),
         PoolsWritable'
  PROVE  IInv'
<1>1. stack \in Seq(Frames) /\ StackInv /\ FramesInv /\ TypeOK
  BY DEF IInv, TypeOK
<1>2. Unloading' = Unloading
  BY <1>1, PopUnloading
<1>3. StackInv'
  BY <1>1, PopStackInv
<1>4. FramesInv'
  <2>1. \A k \in 1..(Depth - 1) : OKNext(stack[k])
    BY <1>1, <1>2, Quiet, Caller
  <2> QED BY <1>1, <2>1, PopFrames
<1>5. TypeOK'
  <2>1. stack' \in Seq(Frames)
    BY <1>1, PopShape
  <2> QED BY <1>1, <2>1 DEF TypeOK
<1>6. ASSUME NEW X \in Lib
      PROVE  handles'[X] + Cardinality(Transit(X)') = handles[X] + Cardinality(Transit(X))
  <2>1. Cardinality(Transit(X)') + Load(Top, X) = Cardinality(Transit(X))
    BY <1>1, PopTransit
  <2>2. Cardinality(Transit(X)) \in Nat /\ handles[X] \in Nat /\ Load(Top, X) \in {0, 1}
    BY Numbers DEF IInv, Load
  <2>3. Cardinality(Transit(X)') \in Nat
    <3>1. IsFiniteSet(1..Depth')
      BY <1>5, FS_Interval DEF TypeOK, Depth
    <3> QED BY <3>1, FS_Subset, FS_CardinalityType DEF Transit
  <2>4. handles'[X] = handles[X] + Load(Top, X)
    OBVIOUS
  <2> QED BY <2>1, <2>2, <2>3, <2>4
<1> QED BY <1>2, <1>3, <1>4, <1>5, <1>6, QuietInv

\* A step within a function that neither searches nor counts preserves the invariant.
LEMMA QuietGoto ==
  ASSUME IInv, stack # <<>>, NEW f \in Frames, Goto(f),
         Top.at \in UnloadFrames <=> f.at \in UnloadFrames,
         Top.at \notin EntryFrames \cup FindFrames,
         f.at \notin FindFrames, f.lib = Top.lib,
         \A c : Called(c, Top) => Called(c, f),
         \A X \in Lib : Load(f, X) = Load(Top, X),
         OK(f),
         UNCHANGED <<listed, linked, ref_count, mapped, acquired, leaked, handles>>,
         constructors_called' \in [Lib -> BOOLEAN], inits' \in [Lib -> Nat],
         writable' \in BOOLEAN, PoolsWritable'
  PROVE  IInv'
<1>1. stack \in Seq(Frames) /\ StackInv /\ FramesInv /\ TypeOK
  BY DEF IInv, TypeOK
<1>2. Unloading' = Unloading
  BY <1>1, GotoUnloading
<1>3. StackInv'
  BY <1>1, GotoStackInv DEF FindFrames
<1>4. FramesInv'
  <2>1. \A k \in 1..(Depth - 1) : OKNext(stack[k])
    BY <1>1, <1>2, Quiet, Caller
  <2>2. OKNext(f)
    BY <1>2, Quiet
  <2> QED BY <1>1, <2>1, <2>2, GotoFrames
<1>5. TypeOK'
  <2>1. stack' \in Seq(Frames)
    BY <1>1, GotoShape
  <2> QED BY <1>1, <2>1 DEF TypeOK
<1>6. ASSUME NEW X \in Lib
      PROVE  Cardinality(Transit(X)') = Cardinality(Transit(X))
  <2>1. Cardinality(Transit(X)') + Load(Top, X) = Cardinality(Transit(X)) + Load(f, X)
    BY <1>1, GotoTransit
  <2>2. Cardinality(Transit(X)) \in Nat /\ Load(Top, X) \in {0, 1}
    BY Numbers DEF IInv, Load
  <2>3. Cardinality(Transit(X)') \in Nat
    <3>1. IsFiniteSet(1..Depth')
      BY <1>5, FS_Interval DEF TypeOK, Depth
    <3> QED BY <3>1, FS_Subset, FS_CardinalityType DEF Transit
  <2>4. Load(f, X) = Load(Top, X)
    OBVIOUS
  <2> QED BY <2>1, <2>2, <2>3, <2>4
<1> QED BY <1>2, <1>3, <1>4, <1>5, <1>6, QuietInv

\* A call that neither searches nor counts preserves the invariant.
LEMMA QuietCall ==
  ASSUME IInv, stack # <<>>, NEW f \in Frames, NEW g \in Frames, Call(f, g),
         Top.at \in UnloadFrames <=> f.at \in UnloadFrames, g.at \notin UnloadFrames,
         Top.at \in EntryFrames <=> f.at \in EntryFrames,
         Top.at \in FindFrames => f = Top /\ g.at \in FindFrames,
         Top.at \notin FindFrames => f.at \notin FindFrames,
         f.lib = Top.lib, g.at # "link_image",
         \A c : Called(c, Top) => Called(c, f),
         Called(f, g),
         \A X \in Lib : Load(f, X) = Load(Top, X) /\ Load(g, X) = 0,
         OK(f), OK(g),
         UNCHANGED <<listed, linked, ref_count, mapped, acquired, leaked, handles,
                     constructors_called, inits, writable>>,
         Top.at \notin CodeFrames
  PROVE  IInv'
<1>1. stack \in Seq(Frames) /\ StackInv /\ FramesInv /\ TypeOK
  BY DEF IInv, TypeOK
<1>2. Unloading' = Unloading
  BY <1>1, CallUnloading
<1>3. StackInv'
  <2>1. f.at = "link_image" => Top.at = "link_image" /\ Top.lib = f.lib
    BY DEF FindFrames
  <2> QED BY <1>1, <2>1, CallStackInv
<1>4. FramesInv'
  <2>1. \A k \in 1..(Depth - 1) : OKNext(stack[k])
    BY <1>1, <1>2, Quiet, Caller
  <2>2. OKNext(f) /\ OKNext(g)
    BY <1>2, Quiet
  <2> QED BY <1>1, <2>1, <2>2, CallFrames
<1>5. TypeOK'
  <2>1. stack' \in Seq(Frames)
    BY <1>1, CallShape
  <2> QED BY <1>1, <2>1 DEF TypeOK
<1>6. ASSUME NEW X \in Lib
      PROVE  Cardinality(Transit(X)') = Cardinality(Transit(X))
  <2>1. Cardinality(Transit(X)') + Load(Top, X)
          = Cardinality(Transit(X)) + Load(f, X) + Load(g, X)
    BY <1>1, CallTransit
  <2>2. Cardinality(Transit(X)) \in Nat /\ Load(Top, X) \in {0, 1}
    BY Numbers DEF IInv, Load
  <2>3. Cardinality(Transit(X)') \in Nat
    <3>1. IsFiniteSet(1..Depth')
      BY <1>5, FS_Interval DEF TypeOK, Depth
    <3> QED BY <3>1, FS_Subset, FS_CardinalityType DEF Transit
  <2>4. Load(f, X) = Load(Top, X) /\ Load(g, X) = 0
    OBVIOUS
  <2> QED BY <2>1, <2>2, <2>3, <2>4
<1>7. PoolsWritable'
  BY DEF IInv, PoolsWritable, InCode
<1> QED BY <1>2, <1>3, <1>4, <1>5, <1>6, <1>7, QuietInv

-----------------------------------------------------------------------------
(* do_dlopen and CallConstructors.                                         *)

\* A call of the client returns to library code, or to nobody.
LEMMA ReturnsToClient ==
  ASSUME IInv, stack # <<>>, Top.at \in EntryFrames, Pop
  PROVE  PoolsWritable'
<1>1. Depth' = Depth - 1 /\ \A k \in 1..(Depth - 1) : stack'[k] = stack[k]
      /\ stack' \in Seq(Frames)
  BY PopShape DEF IInv, TypeOK
<1>2. Depth \in Nat \ {0} /\ (Depth > 1 => Called(stack[Depth - 1], Top))
  BY Caller
<1>3. CASE Depth > 1
  <2>1. stack[Depth - 1].at \in CodeFrames
    BY <1>2, <1>3 DEF Called
  <2>2. Depth - 1 \in 1..(Depth - 1)
    BY <1>2, <1>3
  <2>3. stack'[Depth'].at \in CodeFrames
    BY <1>1, <2>1, <2>2
  <2> QED BY <2>3 DEF PoolsWritable, InCode, Top
<1>4. CASE Depth = 1
  <2>1. stack' = <<>>
    BY <1>1, <1>4 DEF Depth
  <2> QED BY <2>1 DEF PoolsWritable
<1> QED BY <1>2, <1>3, <1>4

\* A dlopen that returns NULL preserves the invariant.
LEMMA DlopenFailsInv ==
  ASSUME IInv, DlopenFails
  PROVE  IInv'
<1>1. /\ stack # <<>> /\ Top.at = "do_dlopen" /\ Top.ret = "fail"
      /\ Pop
      /\ writable' = FALSE
      /\ UNCHANGED <<listed, linked, ref_count, constructors_called, mapped, handles,
                     acquired, leaked, inits>>
  BY DEF DlopenFails, At, soinfos, ghosts
<1>2. PoolsWritable'
  BY <1>1, ReturnsToClient DEF EntryFrames
<1>3. \A X \in Lib : handles'[X] = handles[X] + Load(Top, X)
  <2>1. \A X : Load(Top, X) = 0
    BY <1>1 DEF Load, Carries, UnloadFrames
  <2> QED BY <1>1, <2>1 DEF IInv, TypeOK
<1>4. /\ constructors_called' \in [Lib -> BOOLEAN] /\ inits' \in [Lib -> Nat]
      /\ writable' \in BOOLEAN /\ handles' \in [Lib -> Nat]
  BY <1>1 DEF IInv, TypeOK
<1>5. Top.at \notin UnloadFrames
  BY <1>1 DEF UnloadFrames
<1> QED BY <1>1, <1>2, <1>3, <1>4, <1>5, QuietPop

\* dlopen's call of CallConstructors preserves the invariant.
LEMMA DlopenConstructInv ==
  ASSUME IInv, DlopenConstruct
  PROVE  IInv'
<1> DEFINE f == Frame("do_dlopen_ctors", Top.lib, 0)
           g == Frame("CallConstructors", Top.lib, 0)
<1>1. /\ stack # <<>> /\ Top.at = "do_dlopen" /\ Top.ret = "ok"
      /\ Call(f, g)
      /\ UNCHANGED <<listed, linked, ref_count, constructors_called, mapped, handles,
                     writable, acquired, leaked, inits>>
  BY DEF DlopenConstruct, At, soinfos, ghosts
<1>2. Top.lib \in Lib /\ Depth \in 1..Depth /\ Top = stack[Depth]
  BY <1>1, Caller
<1>3. /\ f \in Frames /\ f.at = "do_dlopen_ctors" /\ f.lib = Top.lib /\ f.ret = "none"
      /\ g \in Frames /\ g.at = "CallConstructors" /\ g.lib = Top.lib
  <2>1. "do_dlopen_ctors" \in Labels /\ "CallConstructors" \in Labels /\ 0 \in Nat
    BY DEF Labels
  <2>2. /\ f \in Frames /\ f.at = "do_dlopen_ctors" /\ f.lib = Top.lib /\ f.ret = "none"
    BY <1>2, <2>1, FrameFields
  <2>3. /\ g \in Frames /\ g.at = "CallConstructors" /\ g.lib = Top.lib
    BY <1>2, <2>1, FrameFields
  <2> QED BY <2>2, <2>3
<1> HIDE DEF f, g
<1>4. Top.lib \in Usable
  <2>1. Carries(stack[Depth], Top.lib) /\ stack[Depth].at \notin UnloadFrames
    BY <1>1, <1>2 DEF Carries, UnloadFrames
  <2> QED BY <1>2, <2>1, CarriedUsable
<1>5. OK(f) /\ OK(g)
  BY <1>3, <1>4 DEF OK, FrameOK, SearchFrame, LinkFrame, UnloadFrame, CtorsFrame,
     FindFrames, UnloadFrames, CtorsFrames, Usable, Resident
<1>6. \A X \in Lib : Load(f, X) = Load(Top, X) /\ Load(g, X) = 0
  BY <1>1, <1>3 DEF Load, Carries, UnloadFrames
<1>7. Called(f, g) /\ \A c : Called(c, Top) => Called(c, f)
  BY <1>1, <1>3 DEF Called, EntryFrames, FindFrames, CtorsFrames, FreeingFrames, UnloadFrames
<1>8. /\ Top.at \notin UnloadFrames /\ f.at \notin UnloadFrames /\ g.at \notin UnloadFrames
      /\ Top.at \in EntryFrames /\ f.at \in EntryFrames
      /\ Top.at \notin FindFrames /\ f.at \notin FindFrames
      /\ g.at # "link_image" /\ Top.at \notin CodeFrames
  BY <1>1, <1>3 DEF UnloadFrames, EntryFrames, FindFrames, CodeFrames
<1> QED BY <1>1, <1>3, <1>5, <1>6, <1>7, <1>8, QuietCall

\* A dlopen that returns a handle preserves the invariant: the reference its
\* frame carried becomes the client's.
LEMMA DlopenReturnsInv ==
  ASSUME IInv, DlopenReturns
  PROVE  IInv'
<1>1. /\ stack # <<>>
      /\ (Top.at = "do_dlopen" /\ Top.ret = "ok") \/ Top.at = "do_dlopen_ctors"
      /\ Pop
      /\ writable' = FALSE
      /\ handles' = [handles EXCEPT ![Top.lib] = @ + 1]
      /\ UNCHANGED <<listed, linked, ref_count, constructors_called, mapped,
                     acquired, leaked, inits>>
  BY DEF DlopenReturns, At, soinfos, ghosts
<1>2. PoolsWritable'
  BY <1>1, ReturnsToClient DEF EntryFrames
<1>3. handles \in [Lib -> Nat] /\ Top.lib \in Lib
  BY <1>1, Caller DEF IInv, TypeOK
<1>4. \A X \in Lib : handles'[X] = handles[X] + Load(Top, X)
  <2>1. \A X : Load(Top, X) = IF X = Top.lib THEN 1 ELSE 0
    BY <1>1 DEF Load, Carries, UnloadFrames
  <2> QED BY <1>1, <1>3, <2>1
<1>5. /\ constructors_called' \in [Lib -> BOOLEAN] /\ inits' \in [Lib -> Nat]
      /\ writable' \in BOOLEAN
  BY <1>1 DEF IInv, TypeOK
<1>6. handles' \in [Lib -> Nat]
  BY <1>1, <1>3
<1>7. Top.at \notin UnloadFrames
  BY <1>1 DEF UnloadFrames
<1> QED BY <1>1, <1>2, <1>4, <1>5, <1>6, <1>7, QuietPop

\* CallConstructors of a library constructed before preserves the invariant.
LEMMA ConstructAgainInv ==
  ASSUME IInv, ConstructAgain
  PROVE  IInv'
<1>1. /\ stack # <<>> /\ Top.at = "CallConstructors"
      /\ Pop
      /\ UNCHANGED <<listed, linked, ref_count, constructors_called, mapped, handles,
                     writable, acquired, leaked, inits>>
  BY DEF ConstructAgain, At, soinfos, ghosts
<1>2. PoolsWritable'
  BY <1>1 DEF IInv, PoolsWritable, InCode, CodeFrames
<1>3. \A X \in Lib : handles'[X] = handles[X] + Load(Top, X)
  <2>1. \A X : Load(Top, X) = 0
    BY <1>1 DEF Load, Carries, UnloadFrames
  <2> QED BY <1>1, <2>1 DEF IInv, TypeOK
<1>4. /\ constructors_called' \in [Lib -> BOOLEAN] /\ inits' \in [Lib -> Nat]
      /\ writable' \in BOOLEAN /\ handles' \in [Lib -> Nat]
  BY <1>1 DEF IInv, TypeOK
<1>5. Top.at \notin UnloadFrames
  BY <1>1 DEF UnloadFrames
<1> QED BY <1>1, <1>2, <1>3, <1>4, <1>5, QuietPop

\* CallConstructors' marking of the library preserves the invariant.
LEMMA ConstructFirstInv ==
  ASSUME IInv, ConstructFirst
  PROVE  IInv'
<1> DEFINE f == Frame("ctors_needed", Top.lib, 1)
<1>1. /\ stack # <<>> /\ Top.at = "CallConstructors"
      /\ Goto(f)
      /\ constructors_called' = [constructors_called EXCEPT ![Top.lib] = TRUE]
      /\ UNCHANGED <<listed, linked, ref_count, mapped, handles,
                     writable, acquired, leaked, inits>>
  BY DEF ConstructFirst, At, soinfos, ghosts
<1>2. Top.lib \in Lib /\ OK(Top)
  BY <1>1, Caller
<1>3. f \in Frames /\ f.at = "ctors_needed" /\ f.lib = Top.lib
  <2>1. 1 \in Nat /\ "ctors_needed" \in Labels
    BY DEF Labels
  <2> QED BY <1>2, <2>1, FrameFields
<1> HIDE DEF f
<1>4. OK(f)
  BY <1>1, <1>2, <1>3 DEF OK, FrameOK, SearchFrame, LinkFrame, UnloadFrame, CtorsFrame,
     FindFrames, UnloadFrames, CtorsFrames
<1>5. \A X \in Lib : Load(f, X) = Load(Top, X)
  BY <1>1, <1>3 DEF Load, Carries, UnloadFrames
<1>6. \A c : Called(c, Top) => Called(c, f)
  BY <1>1, <1>3 DEF Called, EntryFrames, FindFrames, CtorsFrames, FreeingFrames, UnloadFrames
<1>7. /\ Top.at \notin UnloadFrames /\ f.at \notin UnloadFrames
      /\ Top.at \notin EntryFrames \cup FindFrames /\ f.at \notin FindFrames
  BY <1>1, <1>3 DEF UnloadFrames, EntryFrames, FindFrames
<1>8. /\ constructors_called' \in [Lib -> BOOLEAN] /\ inits' \in [Lib -> Nat]
      /\ writable' \in BOOLEAN
  BY <1>1 DEF IInv, TypeOK
<1>9. PoolsWritable'
  BY <1>1 DEF IInv, PoolsWritable, InCode, CodeFrames
<1> QED BY <1>1, <1>3, <1>4, <1>5, <1>6, <1>7, <1>8, <1>9, QuietGoto

\* Constructing a needed library first preserves the invariant.
LEMMA ConstructNeededInv ==
  ASSUME IInv, ConstructNeeded
  PROVE  IInv'
<1> DEFINE L == Top.lib
           f == Frame("ctors_needed", L, Top.i + 1)
           g == Frame("CallConstructors", Needed[L][Top.i], 0)
<1>1. /\ stack # <<>> /\ Top.at = "ctors_needed" /\ Top.i \in Entries(L)
      /\ Call(f, g)
      /\ UNCHANGED <<listed, linked, ref_count, constructors_called, mapped, handles,
                     writable, acquired, leaked, inits>>
  BY DEF ConstructNeeded, At, soinfos, ghosts
<1>2. L \in Lib /\ OK(Top) /\ Top.i \in Nat
  BY <1>1, Caller
<1>3. Needed[L][Top.i] \in Lib
  BY <1>1, <1>2, NeededIsLib
<1>4. /\ f \in Frames /\ f.at = "ctors_needed" /\ f.lib = L /\ f.i = Top.i + 1
      /\ g \in Frames /\ g.at = "CallConstructors" /\ g.lib = Needed[L][Top.i]
  <2>1. Top.i + 1 \in Nat /\ 0 \in Nat /\ "ctors_needed" \in Labels /\ "CallConstructors" \in Labels
    BY <1>2 DEF Labels
  <2> QED BY <1>2, <1>3, <2>1, FrameFields
<1> HIDE DEF f, g
<1>5. L \in Usable
  BY <1>1, <1>2 DEF OK, FrameOK, CtorsFrame, CtorsFrames, Usable, Resident
<1>6. Needed[L][Top.i] \in Usable
  <2>1. <<L, Top.i>> \in acquired
    BY <1>1, <1>5 DEF IInv, EntriesHeld
  <2> QED BY <1>3, <2>1, EntryRefs, EntryUsable
<1>7. OK(f) /\ OK(g)
  BY <1>4, <1>5, <1>6 DEF OK, FrameOK, SearchFrame, LinkFrame, UnloadFrame, CtorsFrame,
     FindFrames, UnloadFrames, CtorsFrames, Usable, Resident
<1>8. \A X \in Lib : Load(f, X) = Load(Top, X) /\ Load(g, X) = 0
  BY <1>1, <1>4 DEF Load, Carries, UnloadFrames
<1>9. Called(f, g) /\ \A c : Called(c, Top) => Called(c, f)
  BY <1>1, <1>4 DEF Called, EntryFrames, FindFrames, CtorsFrames, FreeingFrames, UnloadFrames
<1>10. /\ Top.at \notin UnloadFrames /\ f.at \notin UnloadFrames /\ g.at \notin UnloadFrames
       /\ Top.at \notin EntryFrames /\ f.at \notin EntryFrames
       /\ Top.at \notin FindFrames /\ f.at \notin FindFrames
       /\ g.at # "link_image" /\ Top.at \notin CodeFrames
  BY <1>1, <1>4 DEF UnloadFrames, EntryFrames, FindFrames, CodeFrames
<1> QED BY <1>1, <1>4, <1>7, <1>8, <1>9, <1>10, QuietCall

\* Running a library's own constructors preserves the invariant.
LEMMA ConstructRunInv ==
  ASSUME IInv, ConstructRun
  PROVE  IInv'
<1> DEFINE f == Frame("ctors_code", Top.lib, 0)
<1>1. /\ stack # <<>> /\ Top.at = "ctors_needed"
      /\ Goto(f)
      /\ inits' = [inits EXCEPT ![Top.lib] = @ + 1]
      /\ UNCHANGED <<listed, linked, ref_count, constructors_called, mapped, handles,
                     writable, acquired, leaked>>
  BY DEF ConstructRun, At, soinfos
<1>2. Top.lib \in Lib /\ OK(Top)
  BY <1>1, Caller
<1>3. f \in Frames /\ f.at = "ctors_code" /\ f.lib = Top.lib
  BY <1>2, FrameFields DEF Labels, CodeFrames
<1> HIDE DEF f
<1>4. OK(f)
  BY <1>1, <1>2, <1>3 DEF OK, FrameOK, SearchFrame, LinkFrame, UnloadFrame, CtorsFrame,
     FindFrames, UnloadFrames, CtorsFrames
<1>5. \A X \in Lib : Load(f, X) = Load(Top, X)
  BY <1>1, <1>3 DEF Load, Carries, UnloadFrames
<1>6. \A c : Called(c, Top) => Called(c, f)
  BY <1>1, <1>3 DEF Called, EntryFrames, FindFrames, CtorsFrames, FreeingFrames, UnloadFrames
<1>7. /\ Top.at \notin UnloadFrames /\ f.at \notin UnloadFrames
      /\ Top.at \notin EntryFrames \cup FindFrames /\ f.at \notin FindFrames
  BY <1>1, <1>3 DEF UnloadFrames, EntryFrames, FindFrames
<1>8. /\ constructors_called' \in [Lib -> BOOLEAN] /\ inits' \in [Lib -> Nat]
      /\ writable' \in BOOLEAN
  <2>1. inits \in [Lib -> Nat] /\ inits' \in [Lib -> Nat]
    BY <1>1, <1>2 DEF IInv, TypeOK
  <2> QED BY <1>1, <2>1 DEF IInv, TypeOK
<1>9. PoolsWritable'
  BY <1>1 DEF IInv, PoolsWritable, InCode, CodeFrames
<1> QED BY <1>1, <1>3, <1>4, <1>5, <1>6, <1>7, <1>8, <1>9, QuietGoto

\* The return of a library's constructors preserves the invariant.
LEMMA ConstructReturnsInv ==
  ASSUME IInv, ConstructReturns
  PROVE  IInv'
<1>1. /\ stack # <<>> /\ Top.at = "ctors_code"
      /\ Pop
      /\ writable' = TRUE
      /\ UNCHANGED <<listed, linked, ref_count, constructors_called, mapped, handles,
                     acquired, leaked, inits>>
  BY DEF ConstructReturns, At, soinfos, ghosts
<1>2. PoolsWritable'
  BY <1>1 DEF PoolsWritable
<1>3. \A X \in Lib : handles'[X] = handles[X] + Load(Top, X)
  <2>1. \A X : Load(Top, X) = 0
    BY <1>1 DEF Load, Carries, UnloadFrames
  <2> QED BY <1>1, <2>1 DEF IInv, TypeOK
<1>4. /\ constructors_called' \in [Lib -> BOOLEAN] /\ inits' \in [Lib -> Nat]
      /\ writable' \in BOOLEAN /\ handles' \in [Lib -> Nat]
  BY <1>1 DEF IInv, TypeOK
<1>5. Top.at \notin UnloadFrames
  BY <1>1 DEF UnloadFrames
<1> QED BY <1>1, <1>2, <1>3, <1>4, <1>5, QuietPop

-----------------------------------------------------------------------------
(* find_library and soinfo_link_image.                                     *)

\* What a search returns to: the dlopen or the link that asked for the library,
\* which carries the reference from then on if the search succeeded.
LEMMA SearchCaller ==
  ASSUME IInv, stack # <<>>, Top.at \in FindFrames, NEW ret \in {"ok", "fail"}
  PROVE  /\ Depth > 1
         /\ Top.lib \in Lib
         /\ Top.lib \notin Unloading
         /\ \A X : Load(stack[Depth - 1], X) = 0
         /\ \A X : Load([stack[Depth - 1] EXCEPT !.ret = ret], X)
                     = IF ret = "ok" /\ X = Top.lib THEN 1 ELSE 0
         /\ OKNext(stack[Depth - 1]) => OKNext([stack[Depth - 1] EXCEPT !.ret = ret])
<1> DEFINE p == stack[Depth - 1]
           e == [p EXCEPT !.ret = ret]
<1>1. Depth > 1 /\ p \in Frames /\ Called(p, Top) /\ Top.lib \in Lib /\ OK(Top)
  BY Caller DEF FindFrames, EntryFrames
<1> HIDE DEF p
<1>2. /\ p.ret = "none"
      /\ \/ p.at = "do_dlopen" /\ p.lib = Top.lib
         \/ p.at = "link_image" /\ p.i \in Entries(p.lib) /\ Needed[p.lib][p.i] = Top.lib
  BY <1>1 DEF Called
<1>3. e.at = p.at /\ e.lib = p.lib /\ e.i = p.i /\ e.ret = ret
  BY <1>1 DEF Frames
<1> HIDE DEF e
<1>4. Top.lib \notin Unloading
  <2>1. Top.lib \in NeededClosure(Top.lib)
    BY <1>1, ClosureSelf
  <2> QED BY <1>1, <2>1 DEF OK, FrameOK, SearchFrame
<1>5. \A X : Load(p, X) = 0
  BY <1>2 DEF Load, Carries, UnloadFrames
<1>6. \A X : Load(e, X) = IF ret = "ok" /\ X = Top.lib THEN 1 ELSE 0
  BY <1>2, <1>3 DEF Load, Carries, UnloadFrames
<1>7. ASSUME OKNext(p) PROVE OKNext(e)
  <2>1. SearchFrame(e, Unloading')
    BY <1>3, <1>7 DEF OKNext, FrameOK, SearchFrame
  <2>2. LinkFrame(e, listed', linked', ref_count', acquired')
    BY <1>2, <1>3, <1>7 DEF OKNext, FrameOK, LinkFrame
  <2>3. UnloadFrame(e, ref_count', acquired')
    BY <1>2, <1>3 DEF UnloadFrame, UnloadFrames
  <2>4. CtorsFrame(e, {X \in listed' : linked'[X]} \ Unloading')
    BY <1>2, <1>3 DEF CtorsFrame, CtorsFrames
  <2> QED BY <2>1, <2>2, <2>3, <2>4 DEF OKNext, FrameOK
<1> QED BY <1>1, <1>4, <1>5, <1>6, <1>7 DEF p, e

\* The references in flight after a search returns.
LEMMA SearchTransit ==
  ASSUME IInv, stack # <<>>, Top.at \in FindFrames, NEW ret \in {"ok", "fail"}, Return(ret),
         NEW X \in Lib
  PROVE  Cardinality(Transit(X)') + Load(Top, X)
           = Cardinality(Transit(X)) + (IF ret = "ok" /\ X = Top.lib THEN 1 ELSE 0)
<1> DEFINE e == [stack[Depth - 1] EXCEPT !.ret = ret]
<1>1. Cardinality(Transit(X)') + Load(Top, X) + Load(stack[Depth - 1], X)
        = Cardinality(Transit(X)) + Load(e, X)
  BY SearchCaller, ReturnTransit DEF IInv, TypeOK
<1>2. /\ Load(stack[Depth - 1], X) = 0
      /\ Load(e, X) = IF ret = "ok" /\ X = Top.lib THEN 1 ELSE 0
  BY SearchCaller
<1>3. Load(Top, X) \in Nat
  BY DEF Load
<1>4. Cardinality(Transit(X)') \in Nat
  <2>1. stack' \in Seq(Frames)
    BY SearchCaller, ReturnShape DEF IInv, TypeOK
  <2>2. IsFiniteSet(1..Depth')
    BY <2>1, FS_Interval DEF Depth
  <2> QED BY <2>2, FS_Subset, FS_CardinalityType DEF Transit
<1> HIDE DEF e
<1> QED BY <1>1, <1>2, <1>3, <1>4

\* FramesInv after a search returns, from what the step does to the other frames.
LEMMA SearchFrames ==
  ASSUME IInv, stack # <<>>, Top.at \in FindFrames, NEW ret \in {"ok", "fail"}, Return(ret),
         \A k \in 1..(Depth - 1) : OKNext(stack[k])
  PROVE  FramesInv'
<1>1. Depth > 1 /\ stack \in Seq(Frames) /\ Depth \in Nat
  BY SearchCaller, Caller DEF IInv, TypeOK
<1>2. \A k \in 1..(Depth - 2) : k \in 1..(Depth - 1)
  BY <1>1
<1>3. Depth - 1 \in 1..(Depth - 1)
  BY <1>1
<1>4. OKNext([stack[Depth - 1] EXCEPT !.ret = ret])
  BY <1>3, SearchCaller
<1> QED BY <1>1, <1>2, <1>4, ReturnFrames

\* A search that finds no library preserves the invariant.
LEMMA FindFailsInv ==
  ASSUME IInv, FindFails
  PROVE  IInv'
<1>1. /\ stack # <<>> /\ Top.at = "find_library"
      /\ Return("fail")
      /\ UNCHANGED <<listed, linked, ref_count, constructors_called, mapped, handles,
                     writable, acquired, leaked, inits>>
  BY DEF FindFails, At, soinfos, ghosts
<1>2. stack \in Seq(Frames) /\ StackInv /\ TypeOK /\ Depth > 1 /\ Top.at \in FindFrames
  BY <1>1, SearchCaller DEF IInv, TypeOK, FindFrames
<1>3. Unloading' = Unloading
  BY <1>1, <1>2, ReturnUnloading DEF UnloadFrames
<1>4. StackInv'
  BY <1>1, <1>2, ReturnStackInv
<1>5. FramesInv'
  <2>1. \A k \in 1..(Depth - 1) : OKNext(stack[k])
    BY <1>1, <1>3, Quiet, Caller
  <2> QED BY <1>1, <1>2, <2>1, SearchFrames
<1>6. TypeOK'
  <2>1. stack' \in Seq(Frames)
    BY <1>1, <1>2, ReturnShape
  <2> QED BY <1>1, <1>2, <2>1 DEF TypeOK
<1>7. ASSUME NEW X \in Lib PROVE Cardinality(Transit(X)') = Cardinality(Transit(X))
  <2>1. Load(Top, X) = 0
    BY <1>1 DEF Load, Carries, UnloadFrames
  <2>2. Cardinality(Transit(X)') + Load(Top, X) = Cardinality(Transit(X)) + 0
    BY <1>1, <1>2, SearchTransit
  <2>3. Cardinality(Transit(X)) \in Nat
    BY Numbers DEF IInv
  <2>4. Cardinality(Transit(X)') \in Nat
    <3>1. IsFiniteSet(1..Depth')
      BY <1>6, FS_Interval DEF TypeOK, Depth
    <3> QED BY <3>1, FS_Subset, FS_CardinalityType DEF Transit
  <2> QED BY <2>1, <2>2, <2>3, <2>4
<1>8. PoolsWritable'
  BY <1>1 DEF IInv, PoolsWritable, InCode, CodeFrames
<1> QED BY <1>1, <1>3, <1>4, <1>5, <1>6, <1>7, <1>8, QuietInv

\* soinfo_link_image's search for the next needed library preserves the invariant.
LEMMA LinkNeededInv ==
  ASSUME IInv, LinkNeeded
  PROVE  IInv'
<1> DEFINE L == Top.lib
           g == Frame("find_library", Needed[L][Top.i], 0)
<1>1. /\ stack # <<>> /\ Top.at = "link_image" /\ Top.ret = "none" /\ Top.i \in Entries(L)
      /\ Call(Top, g)
      /\ UNCHANGED <<listed, linked, ref_count, constructors_called, mapped, handles,
                     writable, acquired, leaked, inits>>
  BY DEF LinkNeeded, At, soinfos, ghosts
<1>2. L \in Lib /\ OK(Top) /\ Top \in Frames
  BY <1>1, Caller
<1>3. Needed[L][Top.i] \in Lib
  BY <1>1, <1>2, NeededIsLib
<1>4. g \in Frames /\ g.at = "find_library" /\ g.lib = Needed[L][Top.i]
  BY <1>3, FrameFields DEF Labels
<1> HIDE DEF g
<1>5. OK(g)
  <2>1. NeededClosure(Needed[L][Top.i]) \cap Unloading = {}
    <3>1. NeededClosure(L) \cap Unloading = {}
      BY <1>1, <1>2 DEF OK, FrameOK, SearchFrame, FindFrames
    <3> QED BY <1>1, <1>2, <3>1, ClosureNeeded
  <2> QED BY <1>4, <2>1 DEF OK, FrameOK, SearchFrame, LinkFrame, UnloadFrame, CtorsFrame,
       UnloadFrames, CtorsFrames
<1>6. \A X \in Lib : Load(Top, X) = Load(Top, X) /\ Load(g, X) = 0
  BY <1>4 DEF Load, Carries, UnloadFrames
<1>7. Called(Top, g)
  BY <1>1, <1>4 DEF Called, EntryFrames, FindFrames, CtorsFrames, FreeingFrames, UnloadFrames
<1>8. /\ Top.at \notin UnloadFrames /\ g.at \notin UnloadFrames
      /\ Top.at \in FindFrames /\ g.at \in FindFrames
      /\ g.at # "link_image" /\ Top.at \notin CodeFrames
  BY <1>1, <1>4 DEF UnloadFrames, FindFrames, CodeFrames
<1> QED BY <1>1, <1>2, <1>4, <1>5, <1>6, <1>7, <1>8, QuietCall

-----------------------------------------------------------------------------
(* Steps that change reference counts.                                     *)

\* The references in flight are a number, also after a step.
LEMMA TransitNat ==
  ASSUME stack' \in Seq(Frames), NEW X
  PROVE  Cardinality(Transit(X)') \in Nat
<1>1. IsFiniteSet(1..Depth')
  BY FS_Interval DEF Depth
<1> QED BY <1>1, FS_Subset, FS_CardinalityType DEF Transit

\* The arithmetic of CountStep.
LEMMA Balance ==
  ASSUME NEW n \in Nat, NEW c \in Nat, NEW own \in Nat, NEW a \in Nat, NEW b \in Nat,
         NEW plus \in Nat, NEW minus \in Nat,
         n + minus = c + plus, b + minus = a + plus, c = own + a
  PROVE  n = own + b
OBVIOUS

\* The references counted, other than libdl's own.
Owned(X) == handles[X] + Cardinality(Transit(X)) + Cardinality(Refs(X)) + leaked[X]

\* ref_count moves with the references it counts: those in flight or kept by the
\* client, and those recorded or leaked.
Moves(X, plus, minus) ==
  /\ ref_count'[X] \in Nat /\ handles'[X] \in Nat /\ leaked'[X] \in Nat
  /\ Cardinality(Transit(X)') \in Nat /\ Cardinality(Refs(X)') \in Nat
  /\ ref_count'[X] + minus = ref_count[X] + plus
  /\ Owned(X)' + minus = Owned(X) + plus

\* A count that moves with what it counts stays exact.
LEMMA CountStep ==
  ASSUME IInv, NEW X \in Lib, NEW plus \in Nat, NEW minus \in Nat, Moves(X, plus, minus)
  PROVE  ref_count'[X] = (IF X = Libdl THEN LibdlRefs ELSE 0) + handles'[X]
                           + Cardinality(Transit(X)') + Cardinality(Refs(X)') + leaked'[X]
<1> DEFINE own == IF X = Libdl THEN LibdlRefs ELSE 0
<1>1. /\ own \in Nat /\ Cardinality(Transit(X)) \in Nat /\ Cardinality(Refs(X)) \in Nat
      /\ handles[X] \in Nat /\ leaked[X] \in Nat
      /\ ref_count[X] = own + handles[X] + Cardinality(Transit(X)) + Cardinality(Refs(X)) + leaked[X]
  BY Numbers DEF IInv
<1>2. Owned(X) \in Nat /\ ref_count[X] = own + Owned(X) /\ ref_count[X] \in Nat
  BY <1>1 DEF Owned
<1>a. /\ handles'[X] \in Nat /\ leaked'[X] \in Nat
      /\ Cardinality(Transit(X)') \in Nat /\ Cardinality(Refs(X)') \in Nat
  BY DEF Moves
<1>3. /\ ref_count'[X] \in Nat /\ Owned(X)' \in Nat
      /\ ref_count'[X] + minus = ref_count[X] + plus
      /\ Owned(X)' + minus = Owned(X) + plus
  BY <1>a DEF Moves, Owned
<1>4. ref_count'[X] = own + Owned(X)'
  <2> DEFINE n == ref_count'[X]
             c == ref_count[X]
             d == Owned(X)
             e == Owned(X)'
  <2>1. n \in Nat /\ c \in Nat /\ own \in Nat /\ d \in Nat /\ e \in Nat
        /\ n + minus = c + plus /\ e + minus = d + plus /\ c = own + d
    BY <1>1, <1>2, <1>3
  <2> HIDE DEF n, c, d, e, own
  <2>2. n = own + e
    BY <2>1, Balance
  <2> QED BY <2>2 DEF n, e
<1> DEFINE h == handles'[X]
           t == Cardinality(Transit(X)')
           r == Cardinality(Refs(X)')
           l == leaked'[X]
           n == ref_count'[X]
<1>5. n = own + (h + t + r + l) /\ own \in Nat /\ h \in Nat /\ t \in Nat /\ r \in Nat /\ l \in Nat
  BY <1>1, <1>a, <1>4 DEF Owned
<1> HIDE DEF own, h, t, r, l, n
<1>6. n = own + h + t + r + l
  BY <1>5
<1> QED BY <1>6 DEF own, h, t, r, l, n

\* A search that finds a linked library preserves the invariant: the reference
\* counted is the one returned.
LEMMA FindLinkedInv ==
  ASSUME IInv, FindLinked
  PROVE  IInv'
<1> DEFINE L == Top.lib
<1>1. /\ stack # <<>> /\ Top.at = "find_library" /\ L \in Resident
      /\ ref_count' = [ref_count EXCEPT ![L] = @ + 1]
      /\ Return("ok")
      /\ UNCHANGED <<listed, linked, constructors_called, mapped, handles,
                     writable, acquired, leaked, inits>>
  BY DEF FindLinked, At, ghosts
<1>2. stack \in Seq(Frames) /\ StackInv /\ TypeOK /\ Depth > 1 /\ Top.at \in FindFrames
      /\ L \in Lib /\ L \notin Unloading
  BY <1>1, SearchCaller DEF IInv, TypeOK, FindFrames
<1>3. Unloading' = Unloading
  BY <1>1, <1>2, ReturnUnloading DEF UnloadFrames
<1>4. StackInv'
  BY <1>1, <1>2, ReturnStackInv
<1>5. \A X \in Lib : ref_count'[X] = (IF X = L THEN ref_count[X] + 1 ELSE ref_count[X])
                     /\ ref_count[X] \in Nat
  BY <1>1, <1>2 DEF TypeOK
<1>6. FramesInv'
  <2>1. ASSUME NEW k \in 1..(Depth - 1) PROVE OKNext(stack[k])
    <3> DEFINE f == stack[k]
    <3>1. OK(f) /\ f.lib \in Lib /\ k \in 1..Depth
      BY <1>1, <2>1, Caller
    <3>2. LinkFrame(f, listed', linked', ref_count', acquired')
      <4>1. ASSUME f.at = "link_image" PROVE f.lib # L
        BY <1>1, <3>1, <4>1 DEF OK, FrameOK, LinkFrame, Resident
      <4> QED BY <1>1, <1>5, <3>1, <4>1 DEF OK, FrameOK, LinkFrame
    <3>3. UnloadFrame(f, ref_count', acquired')
      <4>1. ASSUME f.at \in UnloadFrames PROVE f.lib # L
        BY <1>2, <3>1, <4>1, UnloadingMember
      <4> QED BY <1>1, <1>5, <3>1, <4>1 DEF OK, FrameOK, UnloadFrame
    <3> QED BY <1>1, <1>3, <3>1, <3>2, <3>3 DEF OK, OKNext, FrameOK
  <2> QED BY <1>1, <1>2, <2>1, SearchFrames
<1>7. TypeOK'
  <2>1. stack' \in Seq(Frames)
    BY <1>1, <1>2, ReturnShape
  <2>2. ref_count' \in [Lib -> Nat]
    BY <1>1, <1>2 DEF TypeOK
  <2> QED BY <1>1, <1>2, <2>1, <2>2 DEF TypeOK
<1>8. Usable' = Usable /\ Resident' = Resident
  BY <1>1, <1>3 DEF Usable, Resident
<1>9. EntriesHeld' /\ \A X : Refs(X)' = Refs(X)
  BY <1>1, <1>8 DEF IInv, EntriesHeld, Refs
<1>10. ReferencedResident'
  BY <1>1, <1>5, <1>8 DEF IInv, ReferencedResident
<1>11. RefCountExact'
  <2> SUFFICES ASSUME NEW X \in Lib
      PROVE  ref_count'[X] = (IF X = Libdl THEN LibdlRefs ELSE 0) + handles'[X]
                               + Cardinality(Transit(X)') + Cardinality(Refs(X)') + leaked'[X]
    BY DEF RefCountExact
  <2> DEFINE one == IF X = L THEN 1 ELSE 0
  <2>1. Cardinality(Transit(X)') + Load(Top, X) = Cardinality(Transit(X)) + one
    BY <1>1, <1>2, SearchTransit
  <2>2. Load(Top, X) = 0
    BY <1>1 DEF Load, Carries, UnloadFrames
  <2>3. one \in Nat /\ ref_count'[X] = ref_count[X] + one
    BY <1>5
  <2>4. stack' \in Seq(Frames) /\ ref_count'[X] \in Nat
    BY <1>7 DEF TypeOK
  <2>5. /\ Cardinality(Transit(X)) \in Nat /\ Cardinality(Refs(X)) \in Nat
        /\ handles[X] \in Nat /\ leaked[X] \in Nat
    BY Numbers DEF IInv
  <2>6. handles'[X] = handles[X] /\ leaked'[X] = leaked[X] /\ Refs(X)' = Refs(X)
    BY <1>1, <1>9
  <2>7. Cardinality(Transit(X)') \in Nat
    BY <2>4, TransitNat
  <2> HIDE DEF one
  <2>8. Moves(X, one, 0)
    <3> DEFINE t == Cardinality(Transit(X))
               u == Cardinality(Transit(X)')
               r == Cardinality(Refs(X))
               h == handles[X]
               l == leaked[X]
    <3>1. u = t + one /\ t \in Nat /\ u \in Nat /\ r \in Nat /\ h \in Nat /\ l \in Nat
      BY <2>1, <2>2, <2>3, <2>5, <2>7
    <3> HIDE DEF t, u, r, h, l
    <3>2. h + u + r + l + 0 = h + t + r + l + one
      BY <2>3, <3>1
    <3>3. Owned(X)' + 0 = Owned(X) + one
      BY <2>6, <3>2 DEF Owned, t, u, r, h, l
    <3>4. ref_count'[X] + 0 = ref_count[X] + one
      BY <2>3, <2>4
    <3> QED BY <2>4, <2>5, <2>6, <2>7, <3>3, <3>4 DEF Moves
  <2> QED BY <2>3, <2>8, CountStep
<1>12. PoolsWritable'
  BY <1>1 DEF IInv, PoolsWritable, InCode, CodeFrames
<1>13. ImagesMapped'
  BY <1>1 DEF IInv, ImagesMapped
<1> QED BY <1>4, <1>6, <1>7, <1>9, <1>10, <1>11, <1>12, <1>13 DEF IInv

\* Loading a library that is not listed preserves the invariant: it is listed
\* without references, about to be linked.
LEMMA LoadLibraryInv ==
  ASSUME IInv, LoadLibrary
  PROVE  IInv'
<1> DEFINE L == Top.lib
           f == Frame("link_image", L, 1)
<1>1. /\ stack # <<>> /\ Top.at = "find_library" /\ L \notin listed
      /\ listed' = listed \cup {L}
      /\ mapped' = mapped \cup {L}
      /\ linked' = [linked EXCEPT ![L] = FALSE]
      /\ ref_count' = [ref_count EXCEPT ![L] = 0]
      /\ constructors_called' = [constructors_called EXCEPT ![L] = FALSE]
      /\ inits' = [inits EXCEPT ![L] = 0]
      /\ Goto(f)
      /\ UNCHANGED <<writable, handles, acquired, leaked>>
  BY DEF LoadLibrary, At
<1>2. stack \in Seq(Frames) /\ StackInv /\ TypeOK /\ L \in Lib /\ OK(Top)
  BY <1>1, Caller DEF IInv, TypeOK
<1>3. f \in Frames /\ f.at = "link_image" /\ f.lib = L /\ f.i = 1 /\ f.ret = "none"
  <2>1. "link_image" \in Labels /\ 1 \in Nat
    BY DEF Labels
  <2> QED BY <1>2, <2>1, FrameFields
<1> HIDE DEF f
<1>4. Unloading' = Unloading
  BY <1>1, <1>2, <1>3, GotoUnloading DEF UnloadFrames
<1>5. ref_count' = ref_count
  <2>1. ref_count[L] = 0
    BY <1>1, <1>2 DEF IInv, ReferencedResident, TypeOK, Resident
  <2> QED BY <1>1, <1>2, <2>1 DEF TypeOK
<1>6. \A X \in Lib : X # L => linked'[X] = linked[X]
  BY <1>1, <1>2 DEF TypeOK
<1>7. ~linked'[L]
  BY <1>1, <1>2 DEF TypeOK
<1>8. Resident' = Resident /\ Usable' = Usable
  <2>1. \A X : X \in Resident' <=> X \in Resident
    BY <1>1, <1>2, <1>6, <1>7 DEF Resident, TypeOK
  <2> QED BY <1>4, <2>1 DEF Usable
<1>9. StackInv'
  <2>1. \A k \in 1..Depth : ~(stack[k].at = "link_image" /\ stack[k].lib = L)
    BY <1>1 DEF IInv, FramesInv, LinkFrame
  <2>2. \A c : Called(c, Top) => Called(c, f)
    BY <1>1, <1>3 DEF Called, EntryFrames, FindFrames, CtorsFrames, FreeingFrames, UnloadFrames
  <2> QED BY <1>1, <1>2, <1>3, <2>1, <2>2, GotoStackInv DEF EntryFrames, FindFrames
<1>10. FramesInv'
  <2>1. ASSUME NEW k \in 1..(Depth - 1) PROVE OKNext(stack[k])
    <3> DEFINE g == stack[k]
    <3>1. OK(g) /\ g.lib \in Lib
      BY <1>1, Caller
    <3>2. LinkFrame(g, listed', linked', ref_count', acquired')
      BY <1>1, <1>5, <1>6, <3>1 DEF OK, FrameOK, LinkFrame
    <3>3. SearchFrame(g, Unloading') /\ UnloadFrame(g, ref_count', acquired')
      BY <1>1, <1>4, <1>5, <3>1 DEF OK, FrameOK
    <3>4. CtorsFrame(g, {X \in listed' : linked'[X]} \ Unloading')
      BY <1>8, <3>1 DEF OK, FrameOK, Usable, Resident
    <3> QED BY <3>2, <3>3, <3>4 DEF OKNext, FrameOK
  <2>2. SearchFrame(f, Unloading')
    BY <1>1, <1>2, <1>3, <1>4 DEF OK, FrameOK, SearchFrame, FindFrames
  <2>3. LinkFrame(f, listed', linked', ref_count', acquired')
    <3>1. L \in listed' /\ ~linked'[L]
      BY <1>1, <1>7
    <3>2. ref_count'[L] = 0
      BY <1>1, <1>2 DEF TypeOK
    <3>3. Needed[L] \in Seq(Lib)
      BY <1>2, NeededAssumption
    <3>4. 1 \in 1..(Len(Needed[L]) + 1)
      BY <3>3
    <3>5. \A j \in Entries(L) : <<L, j>> \notin acquired' /\ ~(j < 1)
      <4> TAKE j \in Entries(L)
      <4>1. j \in Nat /\ j > 0
        BY <1>2, NeededIsLib
      <4>2. <<L, j>> \notin acquired
        <5>1. \A r \in acquired : r[1] \in listed
          BY DEF IInv, EntriesHeld
        <5> QED BY <1>1, <5>1
      <4> QED BY <1>1, <4>1, <4>2
    <3> QED BY <1>3, <3>1, <3>2, <3>4, <3>5 DEF LinkFrame
  <2>4. UnloadFrame(f, ref_count', acquired')
        /\ CtorsFrame(f, {X \in listed' : linked'[X]} \ Unloading')
    BY <1>3 DEF UnloadFrame, CtorsFrame, UnloadFrames, CtorsFrames
  <2>5. OKNext(f)
    BY <2>2, <2>3, <2>4 DEF OKNext, FrameOK
  <2> QED BY <1>1, <1>2, <1>3, <2>1, <2>5, GotoFrames
<1>11. TypeOK'
  <2>1. stack' \in Seq(Frames)
    BY <1>1, <1>2, <1>3, GotoShape
  <2>2. /\ linked' \in [Lib -> BOOLEAN] /\ constructors_called' \in [Lib -> BOOLEAN]
        /\ inits' \in [Lib -> Nat] /\ listed' \subseteq Lib /\ mapped' \subseteq Lib
    BY <1>1, <1>2 DEF TypeOK
  <2> QED BY <1>1, <1>2, <1>5, <2>1, <2>2 DEF TypeOK
<1>12. EntriesHeld' /\ \A X : Refs(X)' = Refs(X)
  BY <1>1, <1>8 DEF IInv, EntriesHeld, Refs
<1>13. ReferencedResident'
  BY <1>5, <1>8 DEF IInv, ReferencedResident
<1>14. RefCountExact'
  <2>1. ASSUME NEW X \in Lib PROVE Cardinality(Transit(X)') = Cardinality(Transit(X))
    <3>1. Load(Top, X) = 0 /\ Load(f, X) = 0
      BY <1>1, <1>3 DEF Load, Carries, UnloadFrames
    <3>2. Cardinality(Transit(X)') + Load(Top, X) = Cardinality(Transit(X)) + Load(f, X)
      BY <1>1, <1>2, <1>3, GotoTransit
    <3>3. Cardinality(Transit(X)) \in Nat /\ Cardinality(Transit(X)') \in Nat
      BY <1>11, Numbers, TransitNat DEF IInv, TypeOK
    <3> QED BY <3>1, <3>2, <3>3
  <2> QED BY <1>1, <1>5, <1>12, <2>1 DEF IInv, RefCountExact
<1>15. PoolsWritable'
  BY <1>1 DEF IInv, PoolsWritable, InCode, CodeFrames
<1>16. ImagesMapped'
  BY <1>1 DEF IInv, ImagesMapped
<1> QED BY <1>9, <1>10, <1>11, <1>12, <1>13, <1>14, <1>15, <1>16 DEF IInv

\* soinfo_link_image's taking a reference to a needed library preserves the
\* invariant: the reference returned becomes the one the entry holds.
LEMMA LinkAcquireInv ==
  ASSUME IInv, LinkAcquire
  PROVE  IInv'
<1> DEFINE L == Top.lib
           i == Top.i
           f == Frame("link_image", L, i + 1)
           N == Needed[L][i]
<1>1. /\ stack # <<>> /\ Top.at = "link_image" /\ Top.ret = "ok"
      /\ acquired' = acquired \cup {<<L, i>>}
      /\ Goto(f)
      /\ UNCHANGED <<listed, linked, ref_count, constructors_called, mapped, writable,
                     handles, leaked, inits>>
  BY DEF LinkAcquire, At, soinfos
<1>2. stack \in Seq(Frames) /\ StackInv /\ TypeOK /\ L \in Lib /\ i \in Nat /\ OK(Top)
      /\ Depth \in Nat \ {0} /\ Top = stack[Depth]
  BY <1>1, Caller DEF IInv, TypeOK
<1>3. f \in Frames /\ f.at = "link_image" /\ f.lib = L /\ f.i = i + 1 /\ f.ret = "none"
  <2>1. "link_image" \in Labels /\ i + 1 \in Nat
    BY <1>2 DEF Labels
  <2> QED BY <1>2, <2>1, FrameFields
<1> HIDE DEF f
<1>4. /\ L \in listed /\ ~linked[L] /\ ref_count[L] = 0
      /\ i \in Entries(L) /\ i \in 1..(Len(Needed[L]) + 1)
      /\ \A j \in Entries(L) : <<L, j>> \in acquired <=> j < i
  BY <1>1, <1>2 DEF OK, FrameOK, LinkFrame
<1>5. <<L, i>> \notin acquired /\ N \in Lib
  BY <1>2, <1>4, NeededIsLib
<1>6. Unloading' = Unloading
  BY <1>1, <1>2, <1>3, GotoUnloading DEF UnloadFrames
<1>7. Resident' = Resident /\ Usable' = Usable
  BY <1>1, <1>6 DEF Resident, Usable
<1>8. StackInv'
  <2>1. \A c : Called(c, Top) => Called(c, f)
    BY <1>1, <1>3 DEF Called, EntryFrames, FindFrames, CtorsFrames, FreeingFrames, UnloadFrames
  <2> QED BY <1>1, <1>2, <1>3, <2>1, GotoStackInv DEF EntryFrames, FindFrames
<1>9. FramesInv'
  <2>1. ASSUME NEW k \in 1..(Depth - 1) PROVE OKNext(stack[k])
    <3> DEFINE g == stack[k]
    <3>1. OK(g) /\ g.lib \in Lib /\ k \in 1..Depth /\ k # Depth /\ Depth \in 1..Depth
      BY <1>1, <1>2, Caller
    <3>2. ASSUME g.at = "link_image" PROVE g.lib # L
      BY <1>1, <1>2, <3>1, <3>2 DEF StackInv, LinkOnce
    <3>3. ASSUME g.at \in UnloadFrames PROVE g.lib # L
      BY <1>4, <3>1, <3>3 DEF OK, FrameOK, UnloadFrame
    <3>4. \A j : g.lib # L => (<<g.lib, j>> \in acquired' <=> <<g.lib, j>> \in acquired)
      BY <1>1
    <3>5. LinkFrame(g, listed', linked', ref_count', acquired')
      BY <1>1, <3>1, <3>2, <3>4 DEF OK, FrameOK, LinkFrame
    <3>6. UnloadFrame(g, ref_count', acquired')
      BY <1>1, <3>1, <3>3, <3>4 DEF OK, FrameOK, UnloadFrame
    <3> QED BY <1>1, <1>6, <3>1, <3>5, <3>6 DEF OK, OKNext, FrameOK
  <2>2. LinkFrame(f, listed', linked', ref_count', acquired')
    <3>1. Needed[L] \in Seq(Lib)
      BY <1>2, NeededAssumption
    <3>2. i + 1 \in 1..(Len(Needed[L]) + 1)
      BY <1>2, <1>4, <3>1 DEF Entries
    <3>3. ASSUME NEW j \in Entries(L) PROVE <<L, j>> \in acquired' <=> j < i + 1
      <4>1. j \in Nat
        BY <1>2, NeededIsLib
      <4>2. <<L, j>> \in acquired' <=> <<L, j>> \in acquired \/ j = i
        BY <1>1
      <4> QED BY <1>2, <1>4, <4>1, <4>2
    <3> QED BY <1>1, <1>3, <1>4, <3>2, <3>3 DEF LinkFrame
  <2>3. OKNext(f)
    BY <1>1, <1>2, <1>3, <1>6, <2>2 DEF OK, OKNext, FrameOK, SearchFrame, UnloadFrame, CtorsFrame,
       FindFrames, UnloadFrames, CtorsFrames
  <2> QED BY <1>1, <1>2, <1>3, <2>1, <2>3, GotoFrames
<1>10. TypeOK'
  <2>1. stack' \in Seq(Frames)
    BY <1>1, <1>2, <1>3, GotoShape
  <2>2. acquired' \subseteq Lib \X Nat
    BY <1>1, <1>2 DEF TypeOK
  <2> QED BY <1>1, <1>2, <2>1, <2>2 DEF TypeOK
<1>11. EntriesHeld'
  <2>1. IsFiniteSet(acquired')
    BY <1>1, FS_AddElement DEF IInv, EntriesHeld
  <2>2. \A r \in acquired' : r[1] \in listed' /\ r[2] \in Entries(r[1])
    BY <1>1, <1>4 DEF IInv, EntriesHeld
  <2>3. \A X \in Usable' : \A j \in Entries(X) : <<X, j>> \in acquired'
    BY <1>1, <1>7 DEF IInv, EntriesHeld
  <2> QED BY <2>1, <2>2, <2>3 DEF EntriesHeld
<1>12. ReferencedResident'
  BY <1>1, <1>7 DEF IInv, ReferencedResident
<1>13. RefCountExact'
  <2> SUFFICES ASSUME NEW X \in Lib
      PROVE  ref_count'[X] = (IF X = Libdl THEN LibdlRefs ELSE 0) + handles'[X]
                               + Cardinality(Transit(X)') + Cardinality(Refs(X)') + leaked'[X]
    BY DEF RefCountExact
  <2> DEFINE one == IF X = N THEN 1 ELSE 0
  <2>1. Load(Top, X) = one /\ Load(f, X) = 0
    BY <1>1, <1>3 DEF Load, Carries, UnloadFrames
  <2>2. Cardinality(Transit(X)') + Load(Top, X) = Cardinality(Transit(X)) + Load(f, X)
    BY <1>1, <1>2, <1>3, GotoTransit
  <2>3. /\ Cardinality(Transit(X)) \in Nat /\ Cardinality(Refs(X)) \in Nat
        /\ handles[X] \in Nat /\ leaked[X] \in Nat /\ IsFiniteSet(Refs(X))
    BY Numbers DEF IInv
  <2>4. Cardinality(Transit(X)') \in Nat /\ ref_count[X] \in Nat
    BY <1>2, <1>10, TransitNat DEF TypeOK
  <2>5. Cardinality(Refs(X)') = Cardinality(Refs(X)) + one
    <3>1. CASE X = N
      <4>1. Refs(X)' = Refs(X) \cup {<<L, i>>} /\ <<L, i>> \notin Refs(X)
        BY <1>1, <1>5, <3>1 DEF Refs
      <4> QED BY <2>3, <3>1, <4>1, FS_AddElement
    <3>2. CASE X # N
      <4>1. Refs(X)' = Refs(X)
        BY <1>1, <3>2 DEF Refs
      <4> QED BY <2>3, <3>2, <4>1
    <3> QED BY <3>1, <3>2
  <2>6. one \in Nat
    OBVIOUS
  <2> HIDE DEF one
  <2>7. Moves(X, 0, 0)
    <3> DEFINE t == Cardinality(Transit(X))
               u == Cardinality(Transit(X)')
               r == Cardinality(Refs(X))
               s == Cardinality(Refs(X)')
               h == handles[X]
               l == leaked[X]
               m == leaked'[X]
    <3>1. handles'[X] = h /\ ref_count'[X] = ref_count[X] /\ m = l
      BY <1>1
    <3>2. t = u + one /\ s = r + one
      BY <2>1, <2>2, <2>3, <2>4, <2>5, <2>6
    <3>3. /\ t \in Nat /\ u \in Nat /\ r \in Nat /\ s \in Nat
          /\ h \in Nat /\ l \in Nat /\ m \in Nat
      BY <2>3, <2>4, <2>5, <2>6, <3>1
    <3> HIDE DEF t, u, r, s, h, l, m
    <3>4. h + u + s + m + 0 = h + t + r + l + 0
      BY <2>6, <3>1, <3>2, <3>3
    <3>5. Owned(X)' + 0 = Owned(X) + 0
      BY <3>1, <3>4 DEF Owned, t, u, r, s, h, l, m
    <3> QED BY <2>4, <3>1, <3>3, <3>5 DEF Moves, u, s, h, m
  <2> QED BY <2>7, CountStep
<1>14. PoolsWritable'
  BY <1>1 DEF IInv, PoolsWritable, InCode, CodeFrames
<1>15. ImagesMapped'
  BY <1>1 DEF IInv, ImagesMapped
<1> QED BY <1>8, <1>9, <1>10, <1>11, <1>12, <1>13, <1>14, <1>15 DEF IInv

\* The end of a link preserves the invariant: the library is linked and the
\* reference counted is the one returned.
LEMMA LinkDoneInv ==
  ASSUME IInv, LinkDone
  PROVE  IInv'
<1> DEFINE L == Top.lib
<1>1. /\ stack # <<>> /\ Top.at = "link_image" /\ Top.ret = "none" /\ Top.i \notin Entries(L)
      /\ linked' = [linked EXCEPT ![L] = TRUE]
      /\ ref_count' = [ref_count EXCEPT ![L] = @ + 1]
      /\ Return("ok")
      /\ UNCHANGED <<listed, constructors_called, mapped, handles,
                     writable, acquired, leaked, inits>>
  BY DEF LinkDone, At, ghosts
<1>2. stack \in Seq(Frames) /\ StackInv /\ TypeOK /\ Depth > 1 /\ Top.at \in FindFrames
      /\ L \in Lib /\ L \notin Unloading /\ OK(Top) /\ Top.i \in Nat
      /\ Depth \in Nat \ {0} /\ Top = stack[Depth]
  BY <1>1, SearchCaller, Caller DEF IInv, TypeOK, FindFrames
<1>3. Unloading' = Unloading
  BY <1>1, <1>2, ReturnUnloading DEF UnloadFrames
<1>4. StackInv'
  BY <1>1, <1>2, ReturnStackInv
<1>5. /\ L \in listed /\ ~linked[L] /\ ref_count[L] = 0
      /\ Top.i \in 1..(Len(Needed[L]) + 1)
      /\ \A j \in Entries(L) : <<L, j>> \in acquired <=> j < Top.i
  BY <1>1, <1>2 DEF OK, FrameOK, LinkFrame
<1>6. \A X \in Lib : /\ ref_count'[X] = (IF X = L THEN ref_count[X] + 1 ELSE ref_count[X])
                     /\ ref_count[X] \in Nat
                     /\ linked'[X] = (X = L \/ linked[X])
  BY <1>1, <1>2 DEF TypeOK
<1>7. /\ \A X : X \in Resident' <=> X \in Resident \/ X = L
      /\ \A X : X \in Usable' <=> X \in Usable \/ X = L
  <2>1. \A X \in listed : X \in Lib
    BY <1>2 DEF TypeOK
  <2>2. \A X : X \in Resident' <=> X \in Resident \/ X = L
    BY <1>1, <1>5, <1>6, <2>1 DEF Resident
  <2> QED BY <1>2, <1>3, <2>2 DEF Usable
<1>8. FramesInv'
  <2>1. ASSUME NEW k \in 1..(Depth - 1) PROVE OKNext(stack[k])
    <3> DEFINE g == stack[k]
    <3>1. OK(g) /\ g.lib \in Lib /\ k \in 1..Depth /\ k # Depth /\ Depth \in 1..Depth
      BY <1>1, <1>2, Caller
    <3>2. ASSUME g.at = "link_image" PROVE g.lib # L
      BY <1>1, <1>2, <3>1, <3>2 DEF StackInv, LinkOnce
    <3>3. ASSUME g.at \in UnloadFrames PROVE g.lib # L
      BY <1>5, <3>1, <3>3 DEF OK, FrameOK, UnloadFrame
    <3>4. LinkFrame(g, listed', linked', ref_count', acquired')
      BY <1>1, <1>6, <3>1, <3>2 DEF OK, FrameOK, LinkFrame
    <3>5. UnloadFrame(g, ref_count', acquired')
      BY <1>1, <1>6, <3>1, <3>3 DEF OK, FrameOK, UnloadFrame
    <3>6. CtorsFrame(g, {X \in listed' : linked'[X]} \ Unloading')
      <4>1. g.at \in CtorsFrames => g.lib \in Usable'
        BY <1>7, <3>1 DEF OK, FrameOK, CtorsFrame, Usable, Resident
      <4> QED BY <4>1 DEF CtorsFrame, Usable, Resident
    <3> QED BY <1>1, <1>3, <3>1, <3>4, <3>5, <3>6 DEF OK, OKNext, FrameOK
  <2> QED BY <1>1, <1>2, <2>1, SearchFrames
<1>9. TypeOK'
  <2>1. stack' \in Seq(Frames)
    BY <1>1, <1>2, ReturnShape
  <2>2. ref_count' \in [Lib -> Nat] /\ linked' \in [Lib -> BOOLEAN]
    BY <1>1, <1>2 DEF TypeOK
  <2> QED BY <1>1, <1>2, <2>1, <2>2 DEF TypeOK
<1>10. EntriesHeld' /\ \A X : Refs(X)' = Refs(X)
  <2>1. \A j \in Entries(L) : <<L, j>> \in acquired
    <3> TAKE j \in Entries(L)
    <3>1. Needed[L] \in Seq(Lib) /\ j \in 1..Len(Needed[L])
      BY <1>2, NeededAssumption DEF Entries
    <3>2. Top.i = Len(Needed[L]) + 1
      BY <1>1, <1>5, <3>1 DEF Entries
    <3>3. j < Top.i
      BY <3>1, <3>2
    <3> QED BY <1>5, <3>3
  <2> QED BY <1>1, <1>7, <2>1 DEF IInv, EntriesHeld, Refs
<1>11. ReferencedResident'
  BY <1>1, <1>6, <1>7 DEF IInv, ReferencedResident
<1>12. RefCountExact'
  <2> SUFFICES ASSUME NEW X \in Lib
      PROVE  ref_count'[X] = (IF X = Libdl THEN LibdlRefs ELSE 0) + handles'[X]
                               + Cardinality(Transit(X)') + Cardinality(Refs(X)') + leaked'[X]
    BY DEF RefCountExact
  <2> DEFINE one == IF X = L THEN 1 ELSE 0
  <2>1. Cardinality(Transit(X)') + Load(Top, X) = Cardinality(Transit(X)) + one
    BY <1>1, <1>2, SearchTransit
  <2>2. Load(Top, X) = 0
    BY <1>1 DEF Load, Carries, UnloadFrames
  <2>3. one \in Nat /\ ref_count'[X] = ref_count[X] + one
    BY <1>6
  <2>4. stack' \in Seq(Frames) /\ ref_count'[X] \in Nat
    BY <1>9 DEF TypeOK
  <2>5. /\ Cardinality(Transit(X)) \in Nat /\ Cardinality(Refs(X)) \in Nat
        /\ handles[X] \in Nat /\ leaked[X] \in Nat
    BY Numbers DEF IInv
  <2>6. handles'[X] = handles[X] /\ leaked'[X] = leaked[X] /\ Refs(X)' = Refs(X)
    BY <1>1, <1>10
  <2>7. Cardinality(Transit(X)') \in Nat
    BY <2>4, TransitNat
  <2> HIDE DEF one
  <2>8. Moves(X, one, 0)
    <3> DEFINE t == Cardinality(Transit(X))
               u == Cardinality(Transit(X)')
               r == Cardinality(Refs(X))
               h == handles[X]
               l == leaked[X]
    <3>1. u = t + one /\ t \in Nat /\ u \in Nat /\ r \in Nat /\ h \in Nat /\ l \in Nat
      BY <2>1, <2>2, <2>3, <2>5, <2>7
    <3> HIDE DEF t, u, r, h, l
    <3>2. h + u + r + l + 0 = h + t + r + l + one
      BY <2>3, <3>1
    <3>3. Owned(X)' + 0 = Owned(X) + one
      BY <2>6, <3>2 DEF Owned, t, u, r, h, l
    <3>4. ref_count'[X] + 0 = ref_count[X] + one
      BY <2>3, <2>4
    <3> QED BY <2>4, <2>5, <2>6, <2>7, <3>3, <3>4 DEF Moves
  <2> QED BY <2>3, <2>8, CountStep
<1>13. PoolsWritable'
  BY <1>1 DEF IInv, PoolsWritable, InCode, CodeFrames
<1>14. ImagesMapped'
  BY <1>1 DEF IInv, ImagesMapped
<1> QED BY <1>4, <1>8, <1>9, <1>10, <1>11, <1>12, <1>13, <1>14 DEF IInv

\* A failed link preserves the invariant: the library is freed and the references
\* its entries held are leaked.
LEMMA LinkFailsInv ==
  ASSUME IInv, LinkFails
  PROVE  IInv'
<1> DEFINE L    == Top.lib
           Mine == {r \in acquired : r[1] = L}
<1>1. /\ stack # <<>> /\ Top.at = "link_image" /\ Top.ret # "ok"
      /\ listed' = listed \ {L}
      /\ mapped' = mapped \ {L}
      /\ acquired' = acquired \ Mine
      /\ leaked' = [X \in Lib |-> leaked[X] + Cardinality(Refs(X) \cap Mine)]
      /\ Return("fail")
      /\ UNCHANGED <<linked, ref_count, constructors_called, writable, handles, inits>>
  BY DEF LinkFails, At
<1>2. stack \in Seq(Frames) /\ StackInv /\ TypeOK /\ Depth > 1 /\ Top.at \in FindFrames
      /\ L \in Lib /\ OK(Top) /\ Depth \in Nat \ {0} /\ Top = stack[Depth]
  BY <1>1, SearchCaller, Caller DEF IInv, TypeOK, FindFrames
<1>3. Unloading' = Unloading
  BY <1>1, <1>2, ReturnUnloading DEF UnloadFrames
<1>4. StackInv'
  BY <1>1, <1>2, ReturnStackInv
<1>5. L \in listed /\ ~linked[L] /\ ref_count[L] = 0
  BY <1>1, <1>2 DEF OK, FrameOK, LinkFrame
<1>6. Resident' = Resident /\ Usable' = Usable
  <2>1. \A X : X \in Resident' <=> X \in Resident
    BY <1>1, <1>5 DEF Resident
  <2> QED BY <1>3, <2>1 DEF Usable
<1>7. \A X, j : X # L => (<<X, j>> \in acquired' <=> <<X, j>> \in acquired)
  BY <1>1
<1>8. FramesInv'
  <2>1. ASSUME NEW k \in 1..(Depth - 1) PROVE OKNext(stack[k])
    <3> DEFINE g == stack[k]
    <3>1. OK(g) /\ g.lib \in Lib /\ k \in 1..Depth /\ k # Depth /\ Depth \in 1..Depth
      BY <1>1, <1>2, Caller
    <3>2. ASSUME g.at = "link_image" PROVE g.lib # L
      BY <1>1, <1>2, <3>1, <3>2 DEF StackInv, LinkOnce
    <3>3. ASSUME g.at \in UnloadFrames PROVE g.lib # L
      BY <1>5, <3>1, <3>3 DEF OK, FrameOK, UnloadFrame
    <3>4. LinkFrame(g, listed', linked', ref_count', acquired')
      BY <1>1, <1>7, <3>1, <3>2 DEF OK, FrameOK, LinkFrame
    <3>5. UnloadFrame(g, ref_count', acquired')
      BY <1>1, <1>7, <3>1, <3>3 DEF OK, FrameOK, UnloadFrame
    <3>6. CtorsFrame(g, {X \in listed' : linked'[X]} \ Unloading')
      BY <1>6, <3>1 DEF OK, FrameOK, CtorsFrame, Usable, Resident
    <3> QED BY <1>1, <1>3, <3>1, <3>4, <3>5, <3>6 DEF OK, OKNext, FrameOK
  <2> QED BY <1>1, <1>2, <2>1, SearchFrames
<1>9. ASSUME NEW X \in Lib
      PROVE  /\ Refs(X)' = Refs(X) \ Mine
             /\ Cardinality(Refs(X) \cap Mine) \in Nat /\ Cardinality(Refs(X)') \in Nat
             /\ Cardinality(Refs(X)') + Cardinality(Refs(X) \cap Mine) = Cardinality(Refs(X))
  <2>1. IsFiniteSet(Refs(X))
    BY Numbers DEF IInv
  <2>2. Refs(X)' = Refs(X) \ Mine
    BY <1>1 DEF Refs
  <2>3. /\ IsFiniteSet(Refs(X) \cap Mine) /\ IsFiniteSet(Refs(X) \ Mine)
    BY <2>1, FS_Subset
  <2>4. Cardinality(Refs(X) \ Mine) = Cardinality(Refs(X)) - Cardinality(Refs(X) \cap Mine)
    BY <2>1, FS_Difference
  <2>5. /\ Cardinality(Refs(X) \cap Mine) \in Nat /\ Cardinality(Refs(X) \ Mine) \in Nat
        /\ Cardinality(Refs(X)) \in Nat
    BY <2>1, <2>3, FS_CardinalityType
  <2> QED BY <2>2, <2>4, <2>5
<1>10. TypeOK'
  <2>1. stack' \in Seq(Frames)
    BY <1>1, <1>2, ReturnShape
  <2>2. listed' \subseteq Lib /\ mapped' \subseteq Lib /\ acquired' \subseteq Lib \X Nat
    BY <1>1, <1>2 DEF TypeOK
  <2>3. leaked' \in [Lib -> Nat]
    <3>1. \A X \in Lib : leaked[X] + Cardinality(Refs(X) \cap Mine) \in Nat
      <4> TAKE X \in Lib
      <4>1. leaked[X] \in Nat
        BY <1>2 DEF TypeOK
      <4>2. Cardinality(Refs(X) \cap Mine) \in Nat
        BY <1>9
      <4> QED BY <4>1, <4>2
    <3> HIDE DEF Mine
    <3> QED BY <1>1, <3>1
  <2> QED BY <1>1, <1>2, <2>1, <2>2, <2>3 DEF TypeOK
<1>11. EntriesHeld'
  <2>1. \A X \in Usable : X # L
    BY <1>5 DEF Usable, Resident
  <2>2. \A X \in Usable' : \A j \in Entries(X) : <<X, j>> \in acquired'
    BY <1>6, <1>7, <2>1 DEF IInv, EntriesHeld
  <2>3. \A r \in acquired' : r[1] \in listed' /\ r[2] \in Entries(r[1])
    BY <1>1 DEF IInv, EntriesHeld
  <2>4. IsFiniteSet(acquired')
    BY <1>1, FS_Subset DEF IInv, EntriesHeld
  <2> QED BY <2>2, <2>3, <2>4 DEF EntriesHeld
<1>12. ReferencedResident'
  BY <1>1, <1>6 DEF IInv, ReferencedResident
<1>13. RefCountExact'
  <2> SUFFICES ASSUME NEW X \in Lib
      PROVE  ref_count'[X] = (IF X = Libdl THEN LibdlRefs ELSE 0) + handles'[X]
                               + Cardinality(Transit(X)') + Cardinality(Refs(X)') + leaked'[X]
    BY DEF RefCountExact
  <2> DEFINE lost == Cardinality(Refs(X) \cap Mine)
  <2>1. Cardinality(Transit(X)') + Load(Top, X) = Cardinality(Transit(X)) + 0
    BY <1>1, <1>2, SearchTransit
  <2>2. Load(Top, X) = 0
    BY <1>1 DEF Load, Carries, UnloadFrames
  <2>3. /\ Cardinality(Transit(X)) \in Nat /\ Cardinality(Refs(X)) \in Nat
        /\ handles[X] \in Nat /\ leaked[X] \in Nat
    BY Numbers DEF IInv
  <2>4. Cardinality(Transit(X)') \in Nat /\ ref_count[X] \in Nat
    BY <1>2, <1>10, TransitNat DEF TypeOK
  <2>5. leaked'[X] = leaked[X] + lost
    BY <1>1
  <2>6. lost \in Nat /\ Cardinality(Refs(X)') \in Nat
        /\ Cardinality(Refs(X)') + lost = Cardinality(Refs(X))
    BY <1>9
  <2> HIDE DEF lost, Mine
  <2>7. Moves(X, 0, 0)
    <3> DEFINE t == Cardinality(Transit(X))
               u == Cardinality(Transit(X)')
               r == Cardinality(Refs(X))
               s == Cardinality(Refs(X)')
               h == handles[X]
               l == leaked[X]
               m == leaked'[X]
    <3>1. handles'[X] = h /\ ref_count'[X] = ref_count[X]
      BY <1>1
    <3>2. u = t /\ s + lost = r /\ m = l + lost
      BY <2>1, <2>2, <2>3, <2>4, <2>5, <2>6
    <3>3. /\ t \in Nat /\ u \in Nat /\ r \in Nat /\ s \in Nat
          /\ h \in Nat /\ l \in Nat /\ m \in Nat
      BY <2>3, <2>4, <2>5, <2>6
    <3> HIDE DEF t, u, r, s, h, l, m
    <3>4. h + u + s + m + 0 = h + t + r + l + 0
      BY <2>6, <3>1, <3>2, <3>3
    <3>5. Owned(X)' + 0 = Owned(X) + 0
      BY <3>1, <3>4 DEF Owned, t, u, r, s, h, l, m
    <3> QED BY <2>4, <3>1, <3>3, <3>5 DEF Moves, u, s, h, m
  <2> QED BY <2>7, CountStep
<1>14. PoolsWritable'
  BY <1>1 DEF IInv, PoolsWritable, InCode, CodeFrames
<1>15. ImagesMapped'
  BY <1>1 DEF IInv, ImagesMapped
<1> QED BY <1>4, <1>8, <1>10, <1>11, <1>12, <1>13, <1>14, <1>15 DEF IInv

-----------------------------------------------------------------------------
(* soinfo_unload and do_dlclose.                                           *)

\* The return of dlclose preserves the invariant.
LEMMA DlcloseReturnsInv ==
  ASSUME IInv, DlcloseReturns
  PROVE  IInv'
<1>1. /\ stack # <<>> /\ Top.at = "do_dlclose"
      /\ Pop
      /\ writable' = FALSE
      /\ UNCHANGED <<listed, linked, ref_count, constructors_called, mapped, handles,
                     acquired, leaked, inits>>
  BY DEF DlcloseReturns, At, soinfos, ghosts
<1>2. PoolsWritable'
  BY <1>1, ReturnsToClient DEF EntryFrames
<1>3. \A X \in Lib : handles'[X] = handles[X] + Load(Top, X)
  <2>1. \A X : Load(Top, X) = 0
    BY <1>1 DEF Load, Carries, UnloadFrames
  <2> QED BY <1>1, <2>1 DEF IInv, TypeOK
<1>4. /\ constructors_called' \in [Lib -> BOOLEAN] /\ inits' \in [Lib -> Nat]
      /\ writable' \in BOOLEAN /\ handles' \in [Lib -> Nat]
  BY <1>1 DEF IInv, TypeOK
<1>5. Top.at \notin UnloadFrames
  BY <1>1 DEF UnloadFrames
<1> QED BY <1>1, <1>2, <1>3, <1>4, <1>5, QuietPop

\* The return of a library's destructors preserves the invariant.
LEMMA DestructReturnsInv ==
  ASSUME IInv, DestructReturns
  PROVE  IInv'
<1> DEFINE f == Frame("unload_needed", Top.lib, 1)
<1>1. /\ stack # <<>> /\ Top.at = "unload_code"
      /\ Goto(f)
      /\ writable' = TRUE
      /\ UNCHANGED <<listed, linked, ref_count, constructors_called, mapped, handles,
                     acquired, leaked, inits>>
  BY DEF DestructReturns, At, soinfos, ghosts
<1>2. Top.lib \in Lib /\ OK(Top)
  BY <1>1, Caller
<1>3. f \in Frames /\ f.at = "unload_needed" /\ f.lib = Top.lib /\ f.i = 1
  <2>1. "unload_needed" \in Labels /\ 1 \in Nat
    BY DEF Labels, UnloadFrames
  <2> QED BY <1>2, <2>1, FrameFields
<1> HIDE DEF f
<1>4. OK(f)
  <2>1. UnloadFrame(f, ref_count, acquired)
    <3>1. \A j \in Entries(Top.lib) : j >= 1
      BY <1>2, NeededIsLib
    <3> QED BY <1>1, <1>2, <1>3, <3>1 DEF OK, FrameOK, UnloadFrame, UnloadFrames
  <2> QED BY <1>3, <2>1 DEF OK, FrameOK, SearchFrame, LinkFrame, CtorsFrame, FindFrames, CtorsFrames
<1>5. \A X \in Lib : Load(f, X) = Load(Top, X)
  BY <1>1, <1>3 DEF Load, Carries, UnloadFrames
<1>6. \A c : Called(c, Top) => Called(c, f)
  BY <1>1, <1>3 DEF Called, EntryFrames, FindFrames, CtorsFrames, FreeingFrames, UnloadFrames
<1>7. /\ Top.at \in UnloadFrames /\ f.at \in UnloadFrames
      /\ Top.at \notin EntryFrames \cup FindFrames /\ f.at \notin FindFrames
  BY <1>1, <1>3 DEF UnloadFrames, EntryFrames, FindFrames
<1>8. /\ constructors_called' \in [Lib -> BOOLEAN] /\ inits' \in [Lib -> Nat]
      /\ writable' \in BOOLEAN
  BY <1>1 DEF IInv, TypeOK
<1>9. PoolsWritable'
  BY <1>1 DEF PoolsWritable
<1> QED BY <1>1, <1>3, <1>4, <1>5, <1>6, <1>7, <1>8, <1>9, QuietGoto

\* No search is going on below a frame that is none.
LEMMA NoSearchBelow ==
  ASSUME IInv, stack # <<>>, Top.at \notin FindFrames
  PROVE  \A k \in 1..Depth : stack[k].at \notin FindFrames
<1>1. Depth \in 1..Depth /\ Top = stack[Depth] /\ \A k \in 1..Depth : k <= Depth
  <2>1. Depth \in Nat \ {0} /\ Top = stack[Depth]
    BY Caller
  <2> QED BY <2>1
<1> QED BY <1>1 DEF IInv, StackInv, FindOnTop

\* soinfo_unload of a library with other references preserves the invariant: the
\* one its caller carried is gone.
LEMMA UnloadSharedInv ==
  ASSUME IInv, UnloadShared
  PROVE  IInv'
<1> DEFINE L == Top.lib
<1>1. /\ stack # <<>> /\ Top.at = "soinfo_unload" /\ ref_count[L] # 1
      /\ ref_count' = [ref_count EXCEPT ![L] = @ - 1]
      /\ Pop
      /\ UNCHANGED <<listed, linked, constructors_called, mapped, writable, handles,
                     acquired, leaked, inits>>
  BY DEF UnloadShared, At, ghosts
<1>2. /\ stack \in Seq(Frames) /\ StackInv /\ TypeOK /\ L \in Lib
      /\ Depth \in Nat \ {0} /\ Top = stack[Depth]
  BY <1>1, Caller DEF IInv, TypeOK
<1>3. Unloading' = Unloading
  BY <1>1, <1>2, PopUnloading DEF UnloadFrames
<1>4. StackInv'
  BY <1>1, <1>2, PopStackInv
<1>5. ref_count[L] \in Nat /\ ref_count[L] >= 2
  <2>1. Depth \in 1..Depth /\ Carries(stack[Depth], L)
    BY <1>1, <1>2 DEF Carries
  <2>2. ref_count[L] >= 1
    BY <1>2, <2>1, CarriedCount
  <2> QED BY <1>1, <1>2, <2>2 DEF TypeOK
<1>6. \A X \in Lib : /\ ref_count'[X] = (IF X = L THEN ref_count[X] - 1 ELSE ref_count[X])
                     /\ ref_count[X] \in Nat
  BY <1>1, <1>2 DEF TypeOK
<1>7. Resident' = Resident /\ Usable' = Usable
  BY <1>1, <1>3 DEF Resident, Usable
<1>8. FramesInv'
  <2>1. ASSUME NEW k \in 1..(Depth - 1) PROVE OKNext(stack[k])
    <3> DEFINE g == stack[k]
    <3>1. OK(g) /\ g.lib \in Lib
      BY <1>1, Caller
    <3>2. ASSUME g.at = "link_image" PROVE g.lib # L
      BY <1>5, <3>1, <3>2 DEF OK, FrameOK, LinkFrame
    <3>3. ASSUME g.at \in UnloadFrames PROVE g.lib # L
      BY <1>5, <3>1, <3>3 DEF OK, FrameOK, UnloadFrame
    <3>4. LinkFrame(g, listed', linked', ref_count', acquired')
      BY <1>1, <1>6, <3>1, <3>2 DEF OK, FrameOK, LinkFrame
    <3>5. UnloadFrame(g, ref_count', acquired')
      BY <1>1, <1>6, <3>1, <3>3 DEF OK, FrameOK, UnloadFrame
    <3> QED BY <1>1, <1>3, <3>1, <3>4, <3>5 DEF OK, OKNext, FrameOK
  <2> QED BY <1>1, <1>2, <2>1, PopFrames
<1>9. TypeOK'
  <2>1. stack' \in Seq(Frames)
    BY <1>1, <1>2, PopShape
  <2>2. ref_count' \in [Lib -> Nat]
    <3>1. ref_count[L] - 1 \in Nat
      BY <1>5
    <3> QED BY <1>1, <1>2, <3>1 DEF TypeOK
  <2> QED BY <1>1, <1>2, <2>1, <2>2 DEF TypeOK
<1>10. EntriesHeld' /\ \A X : Refs(X)' = Refs(X)
  BY <1>1, <1>7 DEF IInv, EntriesHeld, Refs
<1>11. ReferencedResident'
  <2>1. L \in Resident
    BY <1>2, <1>5 DEF IInv, ReferencedResident
  <2> QED BY <1>6, <1>7, <2>1 DEF IInv, ReferencedResident
<1>12. RefCountExact'
  <2> SUFFICES ASSUME NEW X \in Lib
      PROVE  ref_count'[X] = (IF X = Libdl THEN LibdlRefs ELSE 0) + handles'[X]
                               + Cardinality(Transit(X)') + Cardinality(Refs(X)') + leaked'[X]
    BY DEF RefCountExact
  <2> DEFINE one == IF X = L THEN 1 ELSE 0
  <2>1. Cardinality(Transit(X)') + Load(Top, X) = Cardinality(Transit(X))
    BY <1>1, <1>2, PopTransit
  <2>2. Load(Top, X) = one
    BY <1>1 DEF Load, Carries, UnloadFrames
  <2>3. one \in Nat /\ ref_count'[X] + one = ref_count[X]
    BY <1>5, <1>6
  <2>4. stack' \in Seq(Frames) /\ ref_count'[X] \in Nat
    BY <1>9 DEF TypeOK
  <2>5. /\ Cardinality(Transit(X)) \in Nat /\ Cardinality(Refs(X)) \in Nat
        /\ handles[X] \in Nat /\ leaked[X] \in Nat /\ ref_count[X] \in Nat
    BY <1>6, Numbers DEF IInv
  <2>6. handles'[X] = handles[X] /\ leaked'[X] = leaked[X] /\ Refs(X)' = Refs(X)
    BY <1>1, <1>10
  <2>7. Cardinality(Transit(X)') \in Nat
    BY <2>4, TransitNat
  <2> HIDE DEF one
  <2>8. Moves(X, 0, one)
    <3> DEFINE t == Cardinality(Transit(X))
               u == Cardinality(Transit(X)')
               r == Cardinality(Refs(X))
               h == handles[X]
               l == leaked[X]
    <3>1. t = u + one /\ t \in Nat /\ u \in Nat /\ r \in Nat /\ h \in Nat /\ l \in Nat /\ one \in Nat
      BY <2>1, <2>2, <2>3, <2>5, <2>7
    <3> HIDE DEF t, u, r, h, l
    <3>2. h + u + r + l + one = h + t + r + l + 0
      BY <3>1
    <3>3. Owned(X)' + one = Owned(X) + 0
      BY <2>6, <3>2 DEF Owned, t, u, r, h, l
    <3>4. ref_count'[X] + one = ref_count[X] + 0
      BY <2>3, <2>5
    <3> QED BY <2>4, <2>5, <2>6, <2>7, <3>3, <3>4 DEF Moves
  <2> QED BY <2>3, <2>8, CountStep
<1>13. PoolsWritable'
  BY <1>1 DEF IInv, PoolsWritable, InCode, CodeFrames
<1>14. ImagesMapped'
  BY <1>1 DEF IInv, ImagesMapped
<1> QED BY <1>4, <1>8, <1>9, <1>10, <1>11, <1>12, <1>13, <1>14 DEF IInv

\* A library under construction is referenced by the dlopen or by the entry that
\* led to its constructors, so one more reference makes two.
LEMMA ConstructedElsewhere ==
  ASSUME IInv, stack # <<>>, Top.at \in FreeingFrames, ref_count[Top.lib] = 1,
         NEW k \in 1..(Depth - 1), stack[k].at \in CtorsFrames
  PROVE  stack[k].lib # Top.lib
<1> SUFFICES ASSUME stack[k].lib = Top.lib PROVE FALSE
  OBVIOUS
<1> DEFINE L == Top.lib
<1>1. /\ Depth \in Nat \ {0} /\ Top = stack[Depth] /\ L \in Lib
      /\ k \in 1..Depth /\ k # Depth /\ stack[k] \in Frames
      /\ \A j \in 1..Depth : stack[j] \in Frames /\ stack[j].lib \in Lib
  BY Caller
<1>2. Depth \in 1..Depth /\ Carries(stack[Depth], L)
  BY <1>1 DEF Carries, FreeingFrames
<1>3. k > 1 /\ k - 1 \in 1..Depth /\ k - 1 # Depth
  <2>1. stack[1].at \in EntryFrames
    BY DEF IInv, StackInv, WellStacked
  <2>2. k # 1
    BY <2>1 DEF EntryFrames, CtorsFrames
  <2> QED BY <1>1, <2>2
<1>4. Called(stack[k - 1], stack[k])
  BY <1>1, <1>3 DEF IInv, StackInv, WellStacked
<1>5. CASE stack[k - 1].at = "do_dlopen_ctors" /\ stack[k - 1].lib = L
  <2>1. Carries(stack[k - 1], L)
    BY <1>5 DEF Carries
  <2>2. ref_count[L] >= 2
    BY <1>1, <1>2, <1>3, <2>1, CarriedCount
  <2> QED BY <2>2
<1>6. CASE /\ stack[k - 1].at = "ctors_needed"
           /\ \E j \in Entries(stack[k - 1].lib) : Needed[stack[k - 1].lib][j] = L
  <2> DEFINE Y == stack[k - 1].lib
  <2>1. PICK j \in Entries(Y) : Needed[Y][j] = L
    BY <1>6
  <2>2. Y \in Usable
    <3>1. CtorsFrame(stack[k - 1], Usable)
      BY <1>3 DEF IInv, FramesInv
    <3> QED BY <1>6, <3>1 DEF CtorsFrame, CtorsFrames
  <2>3. <<Y, j>> \in acquired
    BY <2>1, <2>2 DEF IInv, EntriesHeld
  <2>4. Refs(L) # {}
    BY <2>1, <2>3, EntryRefs
  <2>5. ref_count[L] >= 2
    BY <1>1, <1>2, <2>4, CarriedCount
  <2> QED BY <2>5
<1> QED BY <1>4, <1>5, <1>6 DEF Called

\* The last reference to a library is carried by one frame only.
LEMMA LastReference ==
  ASSUME IInv, stack # <<>>, Top.at \in FreeingFrames, ref_count[Top.lib] = 1,
         NEW k \in 1..(Depth - 1), stack[k].at \in FreeingFrames
  PROVE  stack[k].lib # Top.lib
<1> SUFFICES ASSUME stack[k].lib = Top.lib PROVE FALSE
  OBVIOUS
<1>1. /\ Depth \in Nat \ {0} /\ Top = stack[Depth] /\ Top.lib \in Lib
      /\ k \in 1..Depth /\ k # Depth
  BY Caller
<1>2. Depth \in 1..Depth /\ Carries(stack[Depth], Top.lib) /\ Carries(stack[k], Top.lib)
  BY <1>1 DEF Carries, FreeingFrames
<1>3. ref_count[Top.lib] >= 2
  BY <1>1, <1>2, CarriedCount
<1> QED BY <1>3

\* soinfo_unload of the last reference preserves the invariant: no other frame
\* speaks of the library, so it may be unloaded.
LEMMA UnloadStartsInv ==
  ASSUME IInv, UnloadStarts
  PROVE  IInv'
<1> DEFINE L == Top.lib
           f == IF L \in SystemLibs \cup {Libdl} THEN Frame("unload_needed", L, 1)
                                                 ELSE Frame("unload_code", L, 0)
<1>1. /\ stack # <<>> /\ Top.at = "soinfo_unload" /\ ref_count[L] = 1
      /\ Goto(f)
      /\ UNCHANGED <<listed, linked, ref_count, constructors_called, mapped, writable, handles,
                     acquired, leaked, inits>>
  BY DEF UnloadStarts, At, soinfos, ghosts
<1>2. /\ stack \in Seq(Frames) /\ StackInv /\ TypeOK /\ L \in Lib
      /\ Depth \in Nat \ {0} /\ Top = stack[Depth] /\ Depth \in 1..Depth
  <2>1. Depth \in Nat \ {0}
    BY <1>1, Caller
  <2>2. Depth \in 1..Depth
    BY <2>1
  <2> QED BY <1>1, <2>1, <2>2, Caller DEF IInv, TypeOK
<1>3. /\ f \in Frames /\ f.at \in UnloadFrames /\ f.lib = L
      /\ f.at = "unload_needed" => f.i = 1
      /\ f.at = "unload_code" \/ f.at = "unload_needed"
  <2>1. "unload_needed" \in Labels /\ "unload_code" \in Labels /\ 1 \in Nat /\ 0 \in Nat
        /\ "unload_needed" \in UnloadFrames /\ "unload_code" \in UnloadFrames
    BY DEF Labels, UnloadFrames
  <2> QED BY <1>2, <2>1, FrameFields
<1> HIDE DEF f
<1>4. L \in Usable
  <2>1. Carries(stack[Depth], L) /\ stack[Depth].at \notin UnloadFrames
    BY <1>1, <1>2 DEF Carries, UnloadFrames
  <2> QED BY <1>2, <2>1, CarriedUsable
<1>5. /\ Depth' = Depth
      /\ stack'[Depth] = f
      /\ \A k \in 1..(Depth - 1) : stack'[k] = stack[k]
      /\ stack' \in Seq(Frames)
  BY <1>1, <1>2, <1>3, GotoShape
<1>6. \A X : X \in Unloading' <=> X \in Unloading \/ X = L
  <2>1. \A k \in 1..Depth : k \in 1..(Depth - 1) \/ k = Depth
    BY <1>2
  <2>2. stack[Depth].at \notin UnloadFrames
    BY <1>1, <1>2 DEF UnloadFrames
  <2>3. \A k \in 1..(Depth - 1) : k \in 1..Depth
    BY <1>2
  <2>4. ASSUME NEW X \in Unloading' PROVE X \in Unloading \/ X = L
    <3>1. PICK k \in 1..Depth : stack'[k].at \in UnloadFrames /\ stack'[k].lib = X
      BY <1>5, <2>4, UnloadingMember
    <3> QED BY <1>3, <1>5, <2>1, <3>1, UnloadingMember
  <2>5. L \in Unloading'
    BY <1>2, <1>3, <1>5, UnloadingMember
  <2>6. ASSUME NEW X \in Unloading PROVE X \in Unloading'
    <3>1. PICK k \in 1..Depth : stack[k].at \in UnloadFrames /\ stack[k].lib = X
      BY <2>6, UnloadingMember
    <3>2. k \in 1..(Depth - 1)
      BY <2>1, <2>2, <3>1
    <3> QED BY <1>5, <2>3, <3>1, <3>2, UnloadingMember
  <2> QED BY <2>4, <2>5, <2>6
<1>7. \A X : X \in Usable' <=> X \in Usable /\ X # L
  BY <1>1, <1>6 DEF Usable, Resident
<1>8. StackInv'
  <2>1. \A c : Called(c, Top) => Called(c, f)
    BY <1>1, <1>3 DEF Called, EntryFrames, FindFrames, CtorsFrames, FreeingFrames, UnloadFrames
  <2> QED BY <1>1, <1>2, <1>3, <2>1, GotoStackInv DEF EntryFrames, FindFrames, UnloadFrames
<1>9. FramesInv'
  <2>1. ASSUME NEW k \in 1..(Depth - 1) PROVE OKNext(stack[k])
    <3> DEFINE g == stack[k]
    <3>1. OK(g) /\ k \in 1..Depth
      BY <1>1, Caller
    <3>2. g.at \notin FindFrames
      BY <1>1, <3>1, NoSearchBelow DEF FindFrames
    <3>3. UnloadFrame(g, ref_count', acquired')
      BY <1>1, <3>1 DEF OK, FrameOK
    <3>4. g.at \in CtorsFrames => g.lib \in Usable'
      <4>1. g.at \in CtorsFrames => g.lib # L
        BY <1>1, ConstructedElsewhere DEF FreeingFrames
      <4> QED BY <1>7, <3>1, <4>1 DEF OK, FrameOK, CtorsFrame, Usable, Resident
    <3>5. CtorsFrame(g, {X \in listed' : linked'[X]} \ Unloading')
      BY <3>4 DEF CtorsFrame, Usable, Resident
    <3> QED BY <3>2, <3>3, <3>5 DEF OKNext, FrameOK, SearchFrame, LinkFrame, FindFrames
  <2>2. UnloadFrame(f, ref_count', acquired')
    <3>1. \A j \in Entries(L) : <<L, j>> \in acquired /\ j >= 1
      BY <1>2, <1>4, NeededIsLib DEF IInv, EntriesHeld
    <3> QED BY <1>1, <1>3, <3>1 DEF UnloadFrame
  <2>3. OKNext(f)
    BY <1>3, <2>2 DEF OKNext, FrameOK, SearchFrame, LinkFrame, CtorsFrame, FindFrames, CtorsFrames
  <2> QED BY <1>1, <1>2, <1>3, <2>1, <2>3, GotoFrames
<1>10. TypeOK'
  BY <1>1, <1>2, <1>5 DEF TypeOK
<1>11. EntriesHeld' /\ ReferencedResident' /\ \A X : Refs(X)' = Refs(X)
  BY <1>1, <1>7 DEF IInv, EntriesHeld, ReferencedResident, Refs, Resident
<1>12. RefCountExact'
  <2>1. ASSUME NEW X \in Lib PROVE Cardinality(Transit(X)') = Cardinality(Transit(X))
    <3>1. Load(Top, X) = Load(f, X)
      BY <1>1, <1>3 DEF Load, Carries
    <3>2. Cardinality(Transit(X)') + Load(Top, X) = Cardinality(Transit(X)) + Load(f, X)
      BY <1>1, <1>2, <1>3, GotoTransit
    <3>3. Cardinality(Transit(X)) \in Nat /\ Cardinality(Transit(X)') \in Nat /\ Load(Top, X) \in {0, 1}
      BY <1>5, Numbers, TransitNat DEF IInv, Load
    <3> QED BY <3>1, <3>2, <3>3
  <2> QED BY <1>1, <1>11, <2>1 DEF IInv, RefCountExact
<1>13. PoolsWritable'
  BY <1>1 DEF IInv, PoolsWritable, InCode, CodeFrames
<1>14. ImagesMapped'
  BY <1>1 DEF IInv, ImagesMapped
<1> QED BY <1>8, <1>9, <1>10, <1>11, <1>12, <1>13, <1>14 DEF IInv

\* soinfo_unload's release of a needed library preserves the invariant: the
\* reference the entry held is the one the call carries.
LEMMA UnloadNeededInv ==
  ASSUME IInv, UnloadNeeded
  PROVE  IInv'
<1> DEFINE L == Top.lib
           i == Top.i
           N == Needed[L][i]
           f == Frame("unload_needed", L, i + 1)
           g == Frame("soinfo_unload", N, 0)
<1>1. /\ stack # <<>> /\ Top.at = "unload_needed" /\ i \in Entries(L)
      /\ acquired' = acquired \ {<<L, i>>}
      /\ Call(f, g)
      /\ UNCHANGED <<listed, linked, ref_count, constructors_called, mapped, writable, handles,
                     leaked, inits>>
  BY DEF UnloadNeeded, At, soinfos
<1>2. /\ stack \in Seq(Frames) /\ StackInv /\ TypeOK /\ L \in Lib /\ i \in Nat /\ OK(Top)
      /\ Depth \in Nat \ {0} /\ Top = stack[Depth] /\ Depth \in 1..Depth
  <2>1. Depth \in Nat \ {0}
    BY <1>1, Caller
  <2>2. Depth \in 1..Depth
    BY <2>1
  <2> QED BY <1>1, <2>1, <2>2, Caller DEF IInv, TypeOK
<1>3. N \in Lib
  BY <1>1, <1>2, NeededIsLib
<1>4. /\ f \in Frames /\ f.at = "unload_needed" /\ f.lib = L /\ f.i = i + 1
      /\ g \in Frames /\ g.at = "soinfo_unload" /\ g.lib = N
  <2>1. "unload_needed" \in Labels /\ "soinfo_unload" \in Labels /\ i + 1 \in Nat /\ 0 \in Nat
    BY <1>2 DEF Labels, UnloadFrames
  <2> QED BY <1>2, <1>3, <2>1, FrameFields
<1> HIDE DEF f, g
<1>5. /\ ref_count[L] = 1 /\ i > 0
      /\ \A j \in Entries(L) : <<L, j>> \in acquired <=> j >= i
  BY <1>1, <1>2 DEF OK, FrameOK, UnloadFrame, UnloadFrames
<1>6. <<L, i>> \in acquired
  BY <1>1, <1>2, <1>5
<1>7. Unloading' = Unloading
  BY <1>1, <1>2, <1>4, CallUnloading DEF UnloadFrames
<1>8. Resident' = Resident /\ Usable' = Usable
  BY <1>1, <1>7 DEF Resident, Usable
<1>9. StackInv'
  <2>1. Called(f, g) /\ \A c : Called(c, Top) => Called(c, f)
    BY <1>1, <1>4 DEF Called, EntryFrames, FindFrames, CtorsFrames, FreeingFrames, UnloadFrames
  <2> QED BY <1>1, <1>2, <1>4, <2>1, CallStackInv DEF EntryFrames, FindFrames
<1>10. FramesInv'
  <2>1. ASSUME NEW k \in 1..(Depth - 1) PROVE OKNext(stack[k])
    <3> DEFINE h == stack[k]
    <3>1. OK(h) /\ k \in 1..Depth
      BY <1>1, Caller
    <3>2. h.at \notin FindFrames
      BY <1>1, <3>1, NoSearchBelow DEF FindFrames
    <3>3. ASSUME h.at \in UnloadFrames PROVE h.lib # L
      BY <1>1, <1>5, <3>3, LastReference DEF FreeingFrames, UnloadFrames
    <3>4. \A j : h.lib # L => (<<h.lib, j>> \in acquired' <=> <<h.lib, j>> \in acquired)
      BY <1>1
    <3>5. UnloadFrame(h, ref_count', acquired')
      BY <1>1, <3>1, <3>3, <3>4 DEF OK, FrameOK, UnloadFrame
    <3> QED BY <1>1, <1>7, <3>1, <3>2, <3>5 DEF OK, OKNext, FrameOK, SearchFrame, LinkFrame, FindFrames
  <2>2. UnloadFrame(f, ref_count', acquired')
    <3>1. ASSUME NEW j \in Entries(L) PROVE <<L, j>> \in acquired' <=> j >= i + 1
      <4>1. j \in Nat
        BY <1>2, NeededIsLib
      <4>2. <<L, j>> \in acquired' <=> <<L, j>> \in acquired /\ j # i
        BY <1>1
      <4> QED BY <1>2, <1>5, <4>1, <4>2
    <3>2. i + 1 > 0
      BY <1>2
    <3> QED BY <1>1, <1>4, <1>5, <3>1, <3>2 DEF UnloadFrame
  <2>3. OKNext(f)
    BY <1>4, <2>2 DEF OKNext, FrameOK, SearchFrame, LinkFrame, CtorsFrame, FindFrames, CtorsFrames
  <2>4. OKNext(g)
    BY <1>4 DEF OKNext, FrameOK, SearchFrame, LinkFrame, UnloadFrame, CtorsFrame,
       FindFrames, CtorsFrames, UnloadFrames
  <2> QED BY <1>1, <1>2, <1>4, <2>1, <2>3, <2>4, CallFrames
<1>11. TypeOK'
  <2>1. stack' \in Seq(Frames)
    BY <1>1, <1>2, <1>4, CallShape
  <2> QED BY <1>1, <1>2, <2>1 DEF TypeOK
<1>12. EntriesHeld'
  <2>1. \A X \in Usable : X # L
    <3>1. L \in Unloading
      BY <1>1, <1>2, UnloadingMember DEF UnloadFrames
    <3> QED BY <3>1 DEF Usable
  <2>2. \A X \in Usable' : \A j \in Entries(X) : <<X, j>> \in acquired'
    BY <1>1, <1>8, <2>1 DEF IInv, EntriesHeld
  <2>3. \A r \in acquired' : r[1] \in listed' /\ r[2] \in Entries(r[1])
    BY <1>1 DEF IInv, EntriesHeld
  <2>4. IsFiniteSet(acquired')
    BY <1>1, FS_Subset DEF IInv, EntriesHeld
  <2> QED BY <2>2, <2>3, <2>4 DEF EntriesHeld
<1>13. ReferencedResident'
  BY <1>1, <1>8 DEF IInv, ReferencedResident
<1>14. RefCountExact'
  <2> SUFFICES ASSUME NEW X \in Lib
      PROVE  ref_count'[X] = (IF X = Libdl THEN LibdlRefs ELSE 0) + handles'[X]
                               + Cardinality(Transit(X)') + Cardinality(Refs(X)') + leaked'[X]
    BY DEF RefCountExact
  <2> DEFINE one == IF X = N THEN 1 ELSE 0
  <2>1. Load(Top, X) = Load(f, X) /\ Load(g, X) = one /\ Load(f, X) \in {0, 1}
    BY <1>1, <1>4 DEF Load, Carries, UnloadFrames
  <2>2. Cardinality(Transit(X)') + Load(Top, X)
          = Cardinality(Transit(X)) + Load(f, X) + Load(g, X)
    BY <1>1, <1>2, <1>4, CallTransit
  <2>3. /\ Cardinality(Transit(X)) \in Nat /\ Cardinality(Refs(X)) \in Nat
        /\ handles[X] \in Nat /\ leaked[X] \in Nat /\ IsFiniteSet(Refs(X))
    BY Numbers DEF IInv
  <2>4. Cardinality(Transit(X)') \in Nat /\ ref_count[X] \in Nat
    BY <1>2, <1>11, TransitNat DEF TypeOK
  <2>5. Cardinality(Refs(X)') \in Nat /\ Cardinality(Refs(X)') + one = Cardinality(Refs(X))
    <3>1. CASE X = N
      <4>1. Refs(X)' = Refs(X) \ {<<L, i>>} /\ <<L, i>> \in Refs(X)
        BY <1>1, <1>6, <3>1 DEF Refs
      <4>2. IsFiniteSet(Refs(X)') /\ Cardinality(Refs(X)') = Cardinality(Refs(X)) - 1
        BY <2>3, <4>1, FS_RemoveElement
      <4>3. Cardinality(Refs(X)') \in Nat
        BY <4>2, FS_CardinalityType
      <4> QED BY <2>3, <3>1, <4>2, <4>3
    <3>2. CASE X # N
      <4>1. Refs(X)' = Refs(X)
        BY <1>1, <3>2 DEF Refs
      <4> QED BY <2>3, <3>2, <4>1
    <3> QED BY <3>1, <3>2
  <2>6. one \in Nat
    OBVIOUS
  <2> HIDE DEF one
  <2>7. Cardinality(Transit(X)') = Cardinality(Transit(X)) + one
    BY <2>1, <2>2, <2>3, <2>4, <2>6
  <2>8. Moves(X, 0, 0)
    BY <1>1, <2>3, <2>4, <2>5, <2>6, <2>7 DEF Moves, Owned
  <2> QED BY <2>8, CountStep
<1>15. PoolsWritable'
  BY <1>1 DEF IInv, PoolsWritable, InCode, CodeFrames
<1>16. ImagesMapped'
  BY <1>1 DEF IInv, ImagesMapped
<1> QED BY <1>9, <1>10, <1>11, <1>12, <1>13, <1>14, <1>15, <1>16 DEF IInv

\* The end of soinfo_unload preserves the invariant: the library freed is
\* referenced by nobody and holds nothing.
LEMMA UnloadDoneInv ==
  ASSUME IInv, UnloadDone
  PROVE  IInv'
<1> DEFINE L == Top.lib
<1>1. /\ stack # <<>> /\ Top.at = "unload_needed" /\ Top.i \notin Entries(L)
      /\ listed' = listed \ {L}
      /\ mapped' = mapped \ {L}
      /\ ref_count' = [ref_count EXCEPT ![L] = 0]
      /\ Pop
      /\ UNCHANGED <<linked, constructors_called, writable, handles, acquired, leaked, inits>>
  BY DEF UnloadDone, At, ghosts
<1>2. /\ stack \in Seq(Frames) /\ StackInv /\ TypeOK /\ L \in Lib /\ Top.i \in Nat /\ OK(Top)
      /\ Depth \in Nat \ {0} /\ Top = stack[Depth] /\ Depth \in 1..Depth
  <2>1. Depth \in Nat \ {0}
    BY <1>1, Caller
  <2>2. Depth \in 1..Depth
    BY <2>1
  <2> QED BY <1>1, <2>1, <2>2, Caller DEF IInv, TypeOK
<1>3. /\ ref_count[L] = 1 /\ Top.i > 0
      /\ \A j \in Entries(L) : <<L, j>> \in acquired <=> j >= Top.i
  BY <1>1, <1>2 DEF OK, FrameOK, UnloadFrame, UnloadFrames
<1>4. \A j \in Entries(L) : <<L, j>> \notin acquired
  <2> TAKE j \in Entries(L)
  <2>1. Needed[L] \in Seq(Lib) /\ j \in 1..Len(Needed[L])
    BY <1>2, NeededAssumption DEF Entries
  <2>2. Top.i > Len(Needed[L])
    BY <1>1, <1>2, <1>3, <2>1 DEF Entries
  <2>3. ~(j >= Top.i)
    BY <1>2, <2>1, <2>2
  <2> QED BY <1>3, <2>3
<1>5. L \in Unloading /\ Unloading' \subseteq Unloading /\ Unloading \ {L} \subseteq Unloading'
  BY <1>1, <1>2, PopUnloading, UnloadingMember DEF UnloadFrames
<1>6. \A X : X \in Resident' <=> X \in Resident /\ X # L
  BY <1>1 DEF Resident
<1>7. Usable' = Usable
  <2>1. \A X : X \in Usable' <=> X \in Usable
    BY <1>5, <1>6 DEF Usable
  <2> QED BY <2>1
<1>8. StackInv'
  BY <1>1, <1>2, PopStackInv
<1>9. \A X \in Lib : ref_count'[X] = (IF X = L THEN 0 ELSE ref_count[X]) /\ ref_count[X] \in Nat
  BY <1>1, <1>2 DEF TypeOK
<1>10. FramesInv'
  <2>1. ASSUME NEW k \in 1..(Depth - 1) PROVE OKNext(stack[k])
    <3> DEFINE h == stack[k]
    <3>1. OK(h) /\ k \in 1..Depth /\ h.lib \in Lib
      BY <1>1, Caller
    <3>2. h.at \notin FindFrames
      BY <1>1, <3>1, NoSearchBelow DEF FindFrames
    <3>3. ASSUME h.at \in UnloadFrames PROVE h.lib # L
      BY <1>1, <1>3, <3>3, LastReference DEF FreeingFrames, UnloadFrames
    <3>4. UnloadFrame(h, ref_count', acquired')
      BY <1>1, <1>9, <3>1, <3>3 DEF OK, FrameOK, UnloadFrame
    <3>5. CtorsFrame(h, {X \in listed' : linked'[X]} \ Unloading')
      BY <1>7, <3>1 DEF OK, FrameOK, CtorsFrame, Usable, Resident
    <3> QED BY <3>2, <3>4, <3>5 DEF OKNext, FrameOK, SearchFrame, LinkFrame, FindFrames
  <2> QED BY <1>1, <1>2, <2>1, PopFrames
<1>11. TypeOK'
  <2>1. stack' \in Seq(Frames)
    BY <1>1, <1>2, PopShape
  <2>2. listed' \subseteq Lib /\ mapped' \subseteq Lib /\ ref_count' \in [Lib -> Nat]
    BY <1>1, <1>2 DEF TypeOK
  <2> QED BY <1>1, <1>2, <2>1, <2>2 DEF TypeOK
<1>12. EntriesHeld' /\ \A X : Refs(X)' = Refs(X)
  <2>1. ASSUME NEW r \in acquired PROVE r[1] \in listed' /\ r[2] \in Entries(r[1])
    <3>1. r[1] \in listed /\ r[2] \in Entries(r[1]) /\ r = <<r[1], r[2]>>
      BY <1>2 DEF IInv, EntriesHeld, TypeOK
    <3>2. r[1] # L
      BY <1>4, <2>1, <3>1
    <3> QED BY <1>1, <3>1, <3>2
  <2> QED BY <1>1, <1>7, <2>1 DEF IInv, EntriesHeld, Refs
<1>13. ReferencedResident'
  BY <1>6, <1>9 DEF IInv, ReferencedResident
<1>14. RefCountExact'
  <2> SUFFICES ASSUME NEW X \in Lib
      PROVE  ref_count'[X] = (IF X = Libdl THEN LibdlRefs ELSE 0) + handles'[X]
                               + Cardinality(Transit(X)') + Cardinality(Refs(X)') + leaked'[X]
    BY DEF RefCountExact
  <2> DEFINE one == IF X = L THEN 1 ELSE 0
  <2>1. Cardinality(Transit(X)') + Load(Top, X) = Cardinality(Transit(X))
    BY <1>1, <1>2, PopTransit
  <2>2. Load(Top, X) = one
    BY <1>1 DEF Load, Carries, UnloadFrames
  <2>3. one \in Nat /\ ref_count'[X] + one = ref_count[X]
    BY <1>3, <1>9
  <2>4. stack' \in Seq(Frames) /\ ref_count'[X] \in Nat
    BY <1>11 DEF TypeOK
  <2>5. /\ Cardinality(Transit(X)) \in Nat /\ Cardinality(Refs(X)) \in Nat
        /\ handles[X] \in Nat /\ leaked[X] \in Nat /\ ref_count[X] \in Nat
    BY <1>9, Numbers DEF IInv
  <2>6. handles'[X] = handles[X] /\ leaked'[X] = leaked[X] /\ Refs(X)' = Refs(X)
    BY <1>1, <1>12
  <2>7. Cardinality(Transit(X)') \in Nat
    BY <2>4, TransitNat
  <2> HIDE DEF one
  <2>8. Moves(X, 0, one)
    <3> DEFINE t == Cardinality(Transit(X))
               u == Cardinality(Transit(X)')
               r == Cardinality(Refs(X))
               h == handles[X]
               l == leaked[X]
    <3>1. t = u + one /\ t \in Nat /\ u \in Nat /\ r \in Nat /\ h \in Nat /\ l \in Nat /\ one \in Nat
      BY <2>1, <2>2, <2>3, <2>5, <2>7
    <3> HIDE DEF t, u, r, h, l
    <3>2. h + u + r + l + one = h + t + r + l + 0
      BY <3>1
    <3>3. Owned(X)' + one = Owned(X) + 0
      BY <2>6, <3>2 DEF Owned, t, u, r, h, l
    <3>4. ref_count'[X] + one = ref_count[X] + 0
      BY <2>3, <2>5
    <3> QED BY <2>4, <2>5, <2>6, <2>7, <3>3, <3>4 DEF Moves
  <2> QED BY <2>3, <2>8, CountStep
<1>15. PoolsWritable'
  BY <1>1 DEF IInv, PoolsWritable, InCode, CodeFrames
<1>16. ImagesMapped'
  BY <1>1 DEF IInv, ImagesMapped
<1> QED BY <1>8, <1>10, <1>11, <1>12, <1>13, <1>14, <1>15, <1>16 DEF IInv

-----------------------------------------------------------------------------
(* The invariant.                                                          *)

\* The state dlopen is first called in satisfies the invariant.
LEMMA InitInv ==
  ASSUME Init
  PROVE  IInv
<1>1. TypeOK
  <2>1. ref_count \in [Lib -> Nat] /\ linked \in [Lib -> BOOLEAN]
    <3>1. \A X \in Lib : (IF X = Libdl THEN LibdlRefs ELSE 0) \in Nat /\ (X = Libdl) \in BOOLEAN
      BY RefsAssumption
    <3> QED BY <3>1 DEF Init
  <2>2. stack \in Seq(Frames)
    BY DEF Init
  <2> QED BY <2>1, <2>2, LibdlAssumption DEF Init, TypeOK
<1>2. stack = <<>> /\ Depth = 0
  BY DEF Init, Depth
<1>3. StackInv /\ FramesInv /\ PoolsWritable
  BY <1>2 DEF StackInv, WellStacked, FindOnTop, LinkOnce, FramesInv, PoolsWritable
<1>4. ReferencedResident /\ ImagesMapped
  <2>1. \A X \in Lib : ref_count[X] = (IF X = Libdl THEN LibdlRefs ELSE 0) /\ linked[X] = (X = Libdl)
    BY DEF Init
  <2>2. listed = {Libdl} /\ mapped = {Libdl}
    BY DEF Init
  <2>3. ASSUME NEW X \in Lib, ref_count[X] > 0 PROVE X \in Resident
    <3>1. X = Libdl
      BY <2>1, <2>3
    <3> QED BY <2>1, <2>2, <3>1 DEF Resident
  <2> QED BY <2>2, <2>3 DEF ReferencedResident, ImagesMapped
<1>5. EntriesHeld
  <2>1. acquired = {} /\ Usable \subseteq {Libdl}
    BY DEF Init, Usable, Resident
  <2>2. Entries(Libdl) = {}
    BY NeededAssumption DEF Entries
  <2> QED BY <2>1, <2>2, FS_EmptySet DEF EntriesHeld
<1>6. RefCountExact
  <2> SUFFICES ASSUME NEW X \in Lib
      PROVE  ref_count[X] = (IF X = Libdl THEN LibdlRefs ELSE 0) + handles[X]
                              + Cardinality(Transit(X)) + Cardinality(Refs(X)) + leaked[X]
    BY DEF RefCountExact
  <2>1. Transit(X) = {} /\ Refs(X) = {}
    BY <1>2 DEF Init, Transit, Refs
  <2>2. Cardinality(Transit(X)) = 0 /\ Cardinality(Refs(X)) = 0
    BY <2>1, FS_EmptySet
  <2> QED BY <2>2, RefsAssumption DEF Init
<1> QED BY <1>1, <1>3, <1>4, <1>5, <1>6 DEF IInv

\* The invariant is about the state only.
LEMMA StutterInv ==
  ASSUME IInv, UNCHANGED vars
  PROVE  IInv'
<1>1. UNCHANGED <<listed, linked, ref_count, constructors_called, mapped, writable, stack, handles,
                  acquired, leaked, inits>>
  BY DEF vars, soinfos, ghosts
<1>2. Unloading' = Unloading /\ (\A X : Transit(X)' = Transit(X)) /\ Depth' = Depth
  BY <1>1 DEF Unloading, Depth, Transit
<1>3. FramesInv'
  BY <1>1, <1>2, Quiet, FramesAreOK DEF IInv
<1>4. StackInv'
  BY <1>1, <1>2 DEF IInv, StackInv, WellStacked, FindOnTop, LinkOnce
<1>5. TypeOK' /\ PoolsWritable'
  BY <1>1, <1>2 DEF IInv, TypeOK, PoolsWritable, InCode, Top
<1> QED BY <1>1, <1>2, <1>3, <1>4, <1>5, QuietInv

\* Every step preserves the invariant.
LEMMA NextInv ==
  ASSUME IInv, [Next]_vars
  PROVE  IInv'
<1>1. CASE UNCHANGED vars
  BY <1>1, StutterInv
<1>2. CASE ClientCall
  BY <1>2, DlopenNullInv, DlopenInv, DlcloseInv DEF ClientCall
<1>3. CASE FindStep
  BY <1>3, FindLinkedInv, FindFailsInv, LoadLibraryInv DEF FindStep
<1>4. CASE LinkStep
  BY <1>4, LinkNeededInv, LinkAcquireInv, LinkDoneInv, LinkFailsInv DEF LinkStep
<1>5. CASE OpenStep
  BY <1>5, DlopenFailsInv, DlopenConstructInv, DlopenReturnsInv DEF OpenStep
<1>6. CASE CtorsStep
  BY <1>6, ConstructAgainInv, ConstructFirstInv, ConstructNeededInv, ConstructRunInv,
     ConstructReturnsInv DEF CtorsStep
<1>7. CASE UnloadStep
  BY <1>7, UnloadSharedInv, UnloadStartsInv, DestructReturnsInv, UnloadNeededInv, UnloadDoneInv,
     DlcloseReturnsInv DEF UnloadStep
<1> QED BY <1>1, <1>2, <1>3, <1>4, <1>5, <1>6, <1>7 DEF Next, LinkerStep

\* Every state of the linker satisfies the inductive invariant, for any system of
\* libraries, any nesting of calls and any bounds.
THEOREM Invariant == Spec => []IInv
BY InitInv, NextInv, PTL DEF Spec

-----------------------------------------------------------------------------
(* What the runs check, for every value of the constants.                  *)

\* Type correctness: in particular ref_count, decremented by soinfo_unload, never
\* goes below zero.
THEOREM TypeCorrect == Spec => []TypeOK
<1>1. IInv => TypeOK
  BY DEF IInv
<1> QED BY <1>1, Invariant, PTL

\* Every reference soinfo's ref_count counts is accounted for: libdl's own, the
\* client's handles, the recorded DT_NEEDED entries, those in flight, those leaked.
THEOREM RefCountsExact == Spec => []RefCountExact
<1>1. IInv => RefCountExact
  BY DEF IInv
<1> QED BY <1>1, Invariant, PTL

\* The pools are writable whenever a function of the linker is about to write a
\* soinfo, whatever the library code it called has done (CallFunction).
THEOREM PoolsStayWritable == Spec => []PoolsWritable
<1>1. IInv => PoolsWritable
  BY DEF IInv
<1> QED BY <1>1, Invariant, PTL

\* The find_loaded_library of CallConstructors never returns NULL for a DT_NEEDED
\* entry of a library that is in use.
LEMMA NeededInv ==
  ASSUME IInv
  PROVE  NeededResident
<1> SUFFICES ASSUME NEW X \in Usable, NEW j \in Entries(X)
             PROVE  Needed[X][j] \in Usable
  BY DEF NeededResident, Deps
<1>1. X \in Lib
  BY DEF IInv, TypeOK, Usable, Resident
<1>2. Needed[X][j] \in Lib
  BY <1>1, NeededIsLib
<1>3. <<X, j>> \in acquired
  BY DEF IInv, EntriesHeld
<1> QED BY <1>2, <1>3, EntryRefs, EntryUsable

\* In every state, then.
THEOREM NeededStayResident == Spec => []NeededResident
BY NeededInv, Invariant, PTL

\* Nor does that of soinfo_unload for an entry it has still to unload, though the
\* destructors it ran may have opened and closed anything.
THEOREM RestStaysResident == Spec => []RestResident
<1>1. ASSUME IInv PROVE RestResident
  <2> SUFFICES ASSUME NEW k \in 1..Depth, stack[k].at \in UnloadFrames,
                      NEW j \in Entries(stack[k].lib),
                      stack[k].at = "unload_code" \/ j >= stack[k].i
               PROVE  Needed[stack[k].lib][j] \in Usable
    BY DEF RestResident
  <2> DEFINE L == stack[k].lib
  <2>1. L \in Lib
    <3>1. stack \in Seq(Frames) /\ stack # <<>>
      BY <1>1 DEF IInv, TypeOK, Depth
    <3> QED BY <3>1, StackFacts DEF Frames
  <2>2. Needed[L][j] \in Lib
    BY <2>1, NeededIsLib
  <2>3. <<L, j>> \in acquired
    BY <1>1 DEF IInv, FramesInv, UnloadFrame
  <2> QED BY <1>1, <2>2, <2>3, EntryRefs, EntryUsable
<1> QED BY <1>1, Invariant, PTL

\* A handle dlopen returned and nobody has closed is a listed, linked and mapped
\* library, not one a call further up the stack is freeing.
LEMMA HandlesInv ==
  ASSUME IInv
  PROVE  HandleValid
<1> SUFFICES ASSUME NEW X \in Lib, handles[X] > 0 PROVE X \in Usable \cap mapped
  BY DEF HandleValid
<1> DEFINE own == IF X = Libdl THEN LibdlRefs ELSE 0
           t == Cardinality(Transit(X))
           r == Cardinality(Refs(X))
           h == handles[X]
           l == leaked[X]
           n == ref_count[X]
<1>1. /\ own \in Nat /\ t \in Nat /\ r \in Nat /\ h \in Nat /\ l \in Nat /\ h > 0
      /\ n = own + h + t + r + l
      /\ IsFiniteSet(Transit(X))
  BY Numbers DEF IInv
<1>2. ASSUME X \in Unloading PROVE n = 1 /\ t >= 1
  <2>1. PICK k \in 1..Depth : Carries(stack[k], X) /\ n = 1
    BY <1>2, UnloadingCount
  <2>2. k \in Transit(X)
    BY <2>1 DEF Transit
  <2> QED BY <1>1, <2>1, <2>2, NotEmpty
<1> HIDE DEF own, t, r, h, l, n
<1>3. n > 0 /\ (t >= 1 => n # 1)
  BY <1>1
<1>4. X \in Resident /\ X \notin Unloading
  BY <1>2, <1>3 DEF n, IInv, ReferencedResident
<1> QED BY <1>4 DEF IInv, ImagesMapped, Usable, Resident

\* In every state, then.
THEOREM HandlesValid == Spec => []HandleValid
BY HandlesInv, Invariant, PTL

-----------------------------------------------------------------------------
(* What a step does to the call stack.                                     *)

\* The frames below the top stay, but for what a call returned to the one that
\* made it.
BelowKept ==
  /\ Depth \in Nat /\ Depth' \in Nat /\ Depth' >= Depth - 1
  /\ \A k \in 1..(Depth - 1) :
       /\ k \in 1..Depth /\ k \in 1..Depth'
       /\ stack'[k].at = stack[k].at /\ stack'[k].lib = stack[k].lib /\ stack'[k].i = stack[k].i

\* Enough for it: the depth does not fall by more than one, nor the frames change.
LEMMA Keeps ==
  ASSUME Depth \in Nat, Depth' \in Nat, Depth' >= Depth - 1,
         \A k \in 1..(Depth - 1) :
           stack'[k].at = stack[k].at /\ stack'[k].lib = stack[k].lib /\ stack'[k].i = stack[k].i
  PROVE  BelowKept
<1>1. \A k \in 1..(Depth - 1) : k \in 1..Depth /\ k \in 1..Depth'
  OBVIOUS
<1> QED BY <1>1 DEF BelowKept

\* A step within a function replaces the top frame.
LEMMA GotoKeeps ==
  ASSUME stack \in Seq(Frames), stack' \in Seq(Frames), stack # <<>>, NEW f, Goto(f)
  PROVE  /\ BelowKept /\ Depth' = Depth /\ Depth > 0
         /\ stack'[Depth] = f
<1>1. Depth \in Nat \ {0} /\ stack' = [stack EXCEPT ![Depth] = f]
  BY DEF Goto, Depth
<1>2. Depth' = Len(stack') /\ DOMAIN stack' = DOMAIN stack
  BY <1>1 DEF Depth
<1>3. Depth' = Depth
  BY <1>1, <1>2 DEF Depth
<1>4. stack'[Depth] = f /\ \A k \in 1..(Depth - 1) : stack'[k] = stack[k]
  BY <1>1 DEF Depth
<1> QED BY <1>1, <1>3, <1>4, Keeps

\* A call replaces it and pushes one.
LEMMA CallKeeps ==
  ASSUME stack \in Seq(Frames), stack # <<>>, NEW f, NEW g, Call(f, g)
  PROVE  /\ BelowKept /\ Depth' = Depth + 1 /\ Depth > 0
         /\ stack'[Depth] = f
         /\ stack'[Depth + 1] = g
<1> DEFINE S == Frames \cup {f, g}
           s == [stack EXCEPT ![Depth] = f]
<1>1. Depth \in Nat \ {0} /\ stack \in Seq(S)
  BY DEF Depth
<1>2. s \in Seq(S) /\ Len(s) = Depth
  BY <1>1, ExceptSeq DEF Depth
<1>3. stack' = Append(s, g) /\ Len(stack') = Depth + 1
  BY <1>2 DEF Call
<1>4. Depth' = Depth + 1
  BY <1>3 DEF Depth
<1>5. \A k \in 1..Depth : stack'[k] = s[k]
  BY <1>1, <1>2, <1>3
<1>6. stack'[Depth] = f /\ \A k \in 1..(Depth - 1) : stack'[k] = stack[k]
  BY <1>1, <1>5 DEF Depth
<1> QED BY <1>1, <1>2, <1>3, <1>4, <1>6, Keeps

\* A return removes it.
LEMMA PopKeeps ==
  ASSUME stack \in Seq(Frames), stack # <<>>, Pop
  PROVE  BelowKept /\ Depth' = Depth - 1
<1>1. Depth \in Nat \ {0} /\ Depth' = Depth - 1 /\ \A k \in 1..(Depth - 1) : stack'[k] = stack[k]
  BY PopShape, StackFacts
<1>2. Depth' \in Nat
  BY <1>1
<1> QED BY <1>1, <1>2, Keeps

\* A return of find_library removes it and tells its caller.
LEMMA ReturnKeeps ==
  ASSUME stack \in Seq(Frames), Depth > 1, NEW ret \in {"none", "ok", "fail"}, Return(ret)
  PROVE  BelowKept /\ Depth' = Depth - 1
<1>0. stack # <<>>
  BY DEF Depth
<1>1. /\ Depth' = Depth - 1
      /\ stack'[Depth - 1] = [stack[Depth - 1] EXCEPT !.ret = ret]
      /\ \A k \in 1..(Depth - 2) : stack'[k] = stack[k]
      /\ stack' \in Seq(Frames)
  BY ReturnShape
<1>2. Depth \in Nat \ {0} /\ \A k \in 1..Depth : stack[k] \in Frames
  BY <1>0, StackFacts
<1>3. \A k \in 1..(Depth - 1) : k = Depth - 1 \/ k \in 1..(Depth - 2)
  BY <1>2
<1>4. \A k \in 1..(Depth - 1) :
        stack'[k].at = stack[k].at /\ stack'[k].lib = stack[k].lib /\ stack'[k].i = stack[k].i
  <2> TAKE k \in 1..(Depth - 1)
  <2>1. CASE k = Depth - 1
    <3>1. stack[k] \in Frames
      BY <1>2
    <3> QED BY <1>1, <2>1, <3>1 DEF Frames
  <2>2. CASE k \in 1..(Depth - 2)
    BY <1>1, <2>2
  <2> QED BY <1>3, <2>1, <2>2
<1>5. Depth' \in Nat
  BY <1>1, <1>2
<1> QED BY <1>1, <1>2, <1>4, <1>5, Keeps

\* A call of the client counts it in the library code that made it, if any.
LEMMA EnterKeeps ==
  ASSUME stack \in Seq(Frames), NEW f \in Frames, NEW g \in Frames, Enter(f, g)
  PROVE  /\ BelowKept /\ Depth' = Depth + 2
         /\ stack'[Depth + 1] = f
         /\ stack'[Depth + 2] = g
         /\ Depth > 0 => stack'[Depth].at = Top.at /\ stack'[Depth].lib = Top.lib
<1>1. /\ stack' \in Seq(Frames)
      /\ Depth' = Depth + 2
      /\ stack'[Depth + 1] = f
      /\ stack'[Depth + 2] = g
      /\ stack # <<>> => stack'[Depth] = [Top EXCEPT !.i = @ + 1]
      /\ \A k \in 1..(Depth - 1) : stack'[k] = stack[k]
  BY ClientShape
<1>2. Depth \in Nat
  BY DEF Depth
<1>3. Depth > 0 => stack # <<>> /\ Top \in Frames
  BY StackFacts DEF Depth
<1>4. Depth > 0 => stack'[Depth].at = Top.at /\ stack'[Depth].lib = Top.lib
  BY <1>1, <1>3 DEF Frames
<1> QED BY <1>1, <1>2, <1>4, Keeps

\* What may be said of a frame f at position k that a step has pushed or replaced:
\* which action made it, and of what.
Made(f, k) ==
  /\ f.at = "ctors_needed" =>
       /\ k = Depth /\ f.lib = Top.lib
       /\ \/ ConstructFirst /\ f.i = 1
          \/ ConstructNeeded /\ f.i = Top.i + 1 /\ k < Depth'
  /\ f.at = "ctors_code" =>
       k = Depth /\ f.lib = Top.lib /\ (ConstructRun \/ Top.at = "ctors_code")
  /\ f.at = "do_dlopen_ctors" => k < Depth'
  /\ f.at = "soinfo_unload" =>
       \/ UnloadNeeded /\ f.lib = Needed[Top.lib][Top.i]
       \/ \E L \in Lib : Dlclose(L) /\ f.lib = L
  /\ f.at = "unload_needed" =>
       /\ k = Depth /\ f.lib = Top.lib
       /\ Top.at \in UnloadFrames \/ Top.lib \in SystemLibs \cup {Libdl}
  /\ f.at = "unload_code" =>
       /\ k = Depth /\ f.lib = Top.lib
       /\ \/ Top.at = "unload_code"
          \/ UnloadStarts /\ Top.lib \notin SystemLibs \cup {Libdl}

\* No frame is made by a step that only removes the top one.
LEMMA Removed ==
  ASSUME Depth \in Nat, Depth' = Depth - 1
  PROVE  \A k \in 1..Depth' : ~(k >= Depth)
OBVIOUS

\* A step that replaces the top frame makes that one.
LEMMA Replaced ==
  ASSUME Depth \in Nat, Depth' = Depth, Made(stack'[Depth], Depth)
  PROVE  \A k \in 1..Depth' : k >= Depth => Made(stack'[k], k)
<1> SUFFICES ASSUME NEW k \in 1..Depth', k >= Depth PROVE Made(stack'[k], k)
  OBVIOUS
<1>1. k = Depth
  OBVIOUS
<1> QED BY <1>1

\* A call makes the one it leaves behind and the one it pushes.
LEMMA Pushed ==
  ASSUME Depth \in Nat, Depth' = Depth + 1, Made(stack'[Depth], Depth),
         Made(stack'[Depth + 1], Depth + 1)
  PROVE  \A k \in 1..Depth' : k >= Depth => Made(stack'[k], k)
<1> SUFFICES ASSUME NEW k \in 1..Depth', k >= Depth PROVE Made(stack'[k], k)
  OBVIOUS
<1>1. k = Depth \/ k = Depth + 1
  OBVIOUS
<1> QED BY <1>1

\* The frames the client's calls make.
LEMMA ClientMade ==
  ASSUME IInv, IInv', ClientCall
  PROVE  BelowKept /\ \A k \in 1..Depth' : k >= Depth => Made(stack'[k], k)
<1>1. stack \in Seq(Frames) /\ Depth \in Nat /\ Depth = Len(stack)
  BY DEF IInv, TypeOK, Depth
<1>2. Depth > 0 => stack # <<>>
  BY <1>1
<1>3. stack # <<>> => Top.at \in CodeFrames
  BY DEF ClientCall, DlopenNull, Dlopen, Dlclose, MayCall, InCode
<1>4. ASSUME NEW f, Depth > 0, f.at = Top.at, f.lib = Top.lib PROVE Made(f, Depth)
  BY <1>2, <1>3, <1>4 DEF Made, CodeFrames
<1>5. CASE DlopenNull
  <2>1. stack' = stack /\ Depth' = Depth
    BY <1>5 DEF DlopenNull, Depth
  <2>2. BelowKept
    BY <1>1, <2>1, Keeps
  <2>3. \A k \in 1..Depth' : k >= Depth => k = Depth /\ Depth > 0
    BY <1>1, <2>1
  <2>4. Depth > 0 => stack'[Depth] = Top
    BY <1>2, <2>1 DEF Top
  <2> QED BY <1>4, <2>2, <2>3, <2>4
<1>6. ASSUME NEW L \in Lib, Dlopen(L) \/ Dlclose(L)
      PROVE  BelowKept /\ \A k \in 1..Depth' : k >= Depth => Made(stack'[k], k)
  <2> DEFINE o == Frame("do_dlopen", L, 0)
             p == Frame("find_library", L, 0)
             c == Frame("do_dlclose", L, 0)
             u == Frame("soinfo_unload", L, 0)
  <2>1. (Dlopen(L) /\ Enter(o, p)) \/ (Dlclose(L) /\ Enter(c, u))
    BY <1>6 DEF Dlopen, Dlclose
  <2>2. /\ o \in Frames /\ o.at = "do_dlopen" /\ p \in Frames /\ p.at = "find_library"
        /\ c \in Frames /\ c.at = "do_dlclose"
        /\ u \in Frames /\ u.at = "soinfo_unload" /\ u.lib = L
    <3>1. /\ "do_dlopen" \in Labels /\ "find_library" \in Labels /\ "do_dlclose" \in Labels
          /\ "soinfo_unload" \in Labels /\ 0 \in Nat
      BY DEF Labels
    <3> QED BY <3>1, FrameFields
  <2> HIDE DEF o, p, c, u
  <2>3. /\ BelowKept /\ Depth' = Depth + 2
        /\ \/ stack'[Depth + 1] = o /\ stack'[Depth + 2] = p
           \/ stack'[Depth + 1] = c /\ stack'[Depth + 2] = u /\ Dlclose(L)
        /\ Depth > 0 => stack'[Depth].at = Top.at /\ stack'[Depth].lib = Top.lib
    BY <1>1, <2>1, <2>2, EnterKeeps
  <2>4. Made(stack'[Depth + 1], Depth + 1)
    BY <2>2, <2>3 DEF Made
  <2>5. Made(stack'[Depth + 2], Depth + 2)
    BY <2>2, <2>3 DEF Made
  <2>6. \A k \in 1..Depth' : k >= Depth => k = Depth + 1 \/ k = Depth + 2 \/ (k = Depth /\ Depth > 0)
    BY <1>1, <2>3
  <2> QED BY <1>4, <2>3, <2>4, <2>5, <2>6
<1> QED BY <1>5, <1>6 DEF ClientCall

\* The frames find_library and soinfo_link_image make.
LEMMA SearchMade ==
  ASSUME IInv, IInv', FindStep \/ LinkStep
  PROVE  BelowKept /\ \A k \in 1..Depth' : k >= Depth => Made(stack'[k], k)
<1> DEFINE P == BelowKept /\ \A k \in 1..Depth' : k >= Depth => Made(stack'[k], k)
<1>1. stack # <<>> /\ Top.at \in FindFrames
  BY DEF FindStep, LinkStep, FindLinked, FindFails, LoadLibrary, LinkNeeded, LinkAcquire, LinkDone,
         LinkFails, At, FindFrames
<1>2. stack \in Seq(Frames) /\ stack' \in Seq(Frames) /\ Depth \in Nat /\ Depth > 1
  BY <1>1, SearchCaller DEF IInv, TypeOK, Depth
<1>3. CASE FindLinked \/ FindFails \/ LinkDone \/ LinkFails
  <2>1. Return("ok") \/ Return("fail")
    BY <1>3 DEF FindLinked, FindFails, LinkDone, LinkFails
  <2>2. BelowKept /\ Depth' = Depth - 1
    BY <1>2, <2>1, ReturnKeeps
  <2> QED BY <1>2, <2>2, Removed
<1>4. CASE LoadLibrary \/ LinkAcquire
  <2>1. PICK i : Goto(Frame("link_image", Top.lib, i))
    BY <1>4 DEF LoadLibrary, LinkAcquire
  <2>2. BelowKept /\ Depth' = Depth /\ stack'[Depth] = Frame("link_image", Top.lib, i)
    BY <1>1, <1>2, <2>1, GotoKeeps
  <2>3. Made(stack'[Depth], Depth)
    BY <2>2 DEF Made, Frame
  <2> QED BY <1>2, <2>2, <2>3, Replaced
<1>5. CASE LinkNeeded
  <2>1. PICK N : Call(Top, Frame("find_library", N, 0)) /\ Top.at = "link_image"
    BY <1>5 DEF LinkNeeded, At
  <2>2. /\ BelowKept /\ Depth' = Depth + 1
        /\ stack'[Depth] = Top /\ stack'[Depth + 1] = Frame("find_library", N, 0)
    BY <1>1, <1>2, <2>1, CallKeeps
  <2>3. Made(stack'[Depth], Depth) /\ Made(stack'[Depth + 1], Depth + 1)
    BY <2>1, <2>2 DEF Made, Frame
  <2> QED BY <1>2, <2>2, <2>3, Pushed
<1> QED BY <1>3, <1>4, <1>5 DEF FindStep, LinkStep

\* The frames the rest of do_dlopen, CallConstructors, soinfo_unload and do_dlclose make.
LEMMA CodeMade ==
  ASSUME IInv, IInv', OpenStep \/ CtorsStep \/ UnloadStep
  PROVE  BelowKept /\ \A k \in 1..Depth' : k >= Depth => Made(stack'[k], k)
<1>1. stack # <<>>
  BY DEF OpenStep, CtorsStep, UnloadStep, DlopenFails, DlopenConstruct, DlopenReturns,
         ConstructAgain, ConstructFirst, ConstructNeeded, ConstructRun, ConstructReturns,
         UnloadShared, UnloadStarts, DestructReturns, UnloadNeeded, UnloadDone, DlcloseReturns, At
<1>2. stack \in Seq(Frames) /\ stack' \in Seq(Frames) /\ Depth \in Nat
  BY DEF IInv, TypeOK, Depth
<1>3. CASE DlopenFails \/ DlopenReturns \/ ConstructAgain \/ ConstructReturns \/ UnloadShared
             \/ UnloadDone \/ DlcloseReturns
  <2>1. Pop
    BY <1>3 DEF DlopenFails, DlopenReturns, ConstructAgain, ConstructReturns, UnloadShared,
                UnloadDone, DlcloseReturns
  <2>2. BelowKept /\ Depth' = Depth - 1
    BY <1>1, <1>2, <2>1, PopKeeps
  <2> QED BY <1>2, <2>2, Removed
<1>4. ASSUME NEW f, Goto(f), Made(f, Depth)
      PROVE  BelowKept /\ \A k \in 1..Depth' : k >= Depth => Made(stack'[k], k)
  <2>1. BelowKept /\ Depth' = Depth /\ stack'[Depth] = f
    BY <1>1, <1>2, <1>4, GotoKeeps
  <2> QED BY <1>2, <1>4, <2>1, Replaced
<1>5. ASSUME NEW f, NEW g, Call(f, g), Depth' = Depth + 1 => Made(f, Depth) /\ Made(g, Depth + 1)
      PROVE  BelowKept /\ \A k \in 1..Depth' : k >= Depth => Made(stack'[k], k)
  <2>1. /\ BelowKept /\ Depth' = Depth + 1
        /\ stack'[Depth] = f /\ stack'[Depth + 1] = g
    BY <1>1, <1>2, <1>5, CallKeeps
  <2> QED BY <1>2, <1>5, <2>1, Pushed
<1>6. CASE ConstructFirst
  <2>1. Goto(Frame("ctors_needed", Top.lib, 1))
    BY <1>6 DEF ConstructFirst
  <2>2. Made(Frame("ctors_needed", Top.lib, 1), Depth)
    BY <1>6 DEF Made, Frame
  <2> QED BY <1>4, <2>1, <2>2
<1>7. CASE ConstructRun
  <2>1. Goto(Frame("ctors_code", Top.lib, 0))
    BY <1>7 DEF ConstructRun
  <2>2. Made(Frame("ctors_code", Top.lib, 0), Depth)
    BY <1>7 DEF Made, Frame
  <2> QED BY <1>4, <2>1, <2>2
<1>8. CASE UnloadStarts
  <2>1. CASE Top.lib \in SystemLibs \cup {Libdl}
    <3>1. Goto(Frame("unload_needed", Top.lib, 1))
      BY <1>8, <2>1 DEF UnloadStarts
    <3>2. Made(Frame("unload_needed", Top.lib, 1), Depth)
      BY <2>1 DEF Made, Frame
    <3> QED BY <1>4, <3>1, <3>2
  <2>2. CASE Top.lib \notin SystemLibs \cup {Libdl}
    <3>1. Goto(Frame("unload_code", Top.lib, 0))
      BY <1>8, <2>2 DEF UnloadStarts
    <3>2. Made(Frame("unload_code", Top.lib, 0), Depth)
      BY <1>8, <2>2 DEF Made, Frame
    <3> QED BY <1>4, <3>1, <3>2
  <2> QED BY <2>1, <2>2
<1>9. CASE DestructReturns
  <2>1. Goto(Frame("unload_needed", Top.lib, 1)) /\ Top.at = "unload_code"
    BY <1>9 DEF DestructReturns, At
  <2>2. Made(Frame("unload_needed", Top.lib, 1), Depth)
    BY <2>1 DEF Made, Frame, UnloadFrames
  <2> QED BY <1>4, <2>1, <2>2
<1>10. CASE DlopenConstruct
  <2> DEFINE f == Frame("do_dlopen_ctors", Top.lib, 0)
             g == Frame("CallConstructors", Top.lib, 0)
  <2>1. Call(f, g)
    BY <1>10 DEF DlopenConstruct
  <2>2. ASSUME Depth' = Depth + 1 PROVE Made(f, Depth) /\ Made(g, Depth + 1)
    <3>1. Depth < Depth'
      BY <1>2, <2>2
    <3> QED BY <3>1 DEF Made, Frame
  <2> HIDE DEF f, g
  <2> QED BY <1>5, <2>1, <2>2
<1>11. CASE ConstructNeeded
  <2> DEFINE f == Frame("ctors_needed", Top.lib, Top.i + 1)
             g == Frame("CallConstructors", Needed[Top.lib][Top.i], 0)
  <2>1. Call(f, g)
    BY <1>11 DEF ConstructNeeded
  <2>2. ASSUME Depth' = Depth + 1 PROVE Made(f, Depth) /\ Made(g, Depth + 1)
    <3>1. Depth < Depth'
      BY <1>2, <2>2
    <3> QED BY <1>11, <3>1 DEF Made, Frame
  <2> HIDE DEF f, g
  <2> QED BY <1>5, <2>1, <2>2
<1>12. CASE UnloadNeeded
  <2> DEFINE f == Frame("unload_needed", Top.lib, Top.i + 1)
             g == Frame("soinfo_unload", Needed[Top.lib][Top.i], 0)
  <2>1. Call(f, g) /\ Top.at = "unload_needed"
    BY <1>12 DEF UnloadNeeded, At
  <2>2. Made(f, Depth) /\ Made(g, Depth + 1)
    BY <1>12, <2>1 DEF Made, Frame, UnloadFrames
  <2> HIDE DEF f, g
  <2> QED BY <1>5, <2>1, <2>2
<1> QED BY <1>3, <1>6, <1>7, <1>8, <1>9, <1>10, <1>11, <1>12 DEF OpenStep, CtorsStep, UnloadStep

\* A step keeps the frames below the top, and makes no others but these.
LEMMA StepMade ==
  ASSUME IInv, IInv', Next
  PROVE  BelowKept /\ \A k \in 1..Depth' : k >= Depth => Made(stack'[k], k)
BY ClientMade, SearchMade, CodeMade DEF Next, LinkerStep

-----------------------------------------------------------------------------
(* What a step does to the soinfos.                                        *)

\* Only these actions list or link a library, mark its constructors, run its
\* initialisers, record an entry or hand out a handle.
LEMMA Fields ==
  ASSUME IInv, Next
  PROVE  /\ inits' = inits \/ LoadLibrary \/ ConstructRun
         /\ constructors_called' = constructors_called \/ LoadLibrary \/ ConstructFirst
         /\ linked' = linked \/ LoadLibrary \/ LinkDone
         /\ listed' \subseteq listed \/ LoadLibrary
         /\ acquired' \subseteq acquired \/ LinkAcquire
         /\ (\A X \in Lib : handles'[X] > 0 => handles[X] > 0) \/ DlopenReturns
<1>1. CASE ClientCall
  <2>1. CASE DlopenNull
    BY <2>1 DEF DlopenNull, soinfos, ghosts
  <2>2. ASSUME NEW L \in Lib, Dlopen(L)
        PROVE  UNCHANGED <<inits, constructors_called, linked, listed, acquired, handles>>
    BY <2>2 DEF Dlopen, soinfos, ghosts
  <2>3. ASSUME NEW L \in Lib, Dlclose(L)
        PROVE  /\ UNCHANGED <<inits, constructors_called, linked, listed, acquired>>
               /\ \A X \in Lib : handles'[X] > 0 => handles[X] > 0
    <3>1. /\ UNCHANGED <<inits, constructors_called, linked, listed, acquired>>
          /\ handles' = [handles EXCEPT ![L] = @ - 1] /\ handles[L] > 0
      BY <2>3 DEF Dlclose, soinfos, ghosts
    <3>2. handles \in [Lib -> Nat]
      BY DEF IInv, TypeOK
    <3> QED BY <3>1, <3>2
  <2> QED BY <1>1, <2>1, <2>2, <2>3 DEF ClientCall
<1>2. CASE FindStep
  BY <1>2 DEF FindStep, FindLinked, FindFails, LoadLibrary, soinfos, ghosts
<1>3. CASE LinkStep
  <2>1. CASE LinkNeeded \/ LinkAcquire
    BY <2>1 DEF LinkNeeded, LinkAcquire, soinfos, ghosts
  <2>2. CASE LinkDone
    BY <2>2 DEF LinkDone, ghosts
  <2>3. CASE LinkFails
    BY <2>3 DEF LinkFails
  <2> QED BY <1>3, <2>1, <2>2, <2>3 DEF LinkStep
<1>4. CASE OpenStep
  BY <1>4 DEF OpenStep, DlopenFails, DlopenConstruct, DlopenReturns, soinfos, ghosts
<1>5. CASE CtorsStep
  BY <1>5 DEF CtorsStep, ConstructAgain, ConstructFirst, ConstructNeeded, ConstructRun,
              ConstructReturns, soinfos, ghosts
<1>6. CASE UnloadStep
  BY <1>6 DEF UnloadStep, UnloadShared, UnloadStarts, DestructReturns, UnloadNeeded, UnloadDone,
              DlcloseReturns, soinfos, ghosts
<1> QED BY <1>1, <1>2, <1>3, <1>4, <1>5, <1>6 DEF Next, LinkerStep

\* The frame that calls the constructors of what a library needs is left in two
\* ways only.
LEMMA LoopOnTop ==
  ASSUME Next, stack # <<>>, Top.at = "ctors_needed"
  PROVE  ConstructNeeded \/ ConstructRun
BY DEF Next, ClientCall, DlopenNull, Dlopen, Dlclose, MayCall, InCode, CodeFrames, LinkerStep,
       FindStep, FindLinked, FindFails, LoadLibrary, LinkStep, LinkNeeded, LinkAcquire, LinkDone,
       LinkFails, OpenStep, DlopenFails, DlopenConstruct, DlopenReturns, CtorsStep, ConstructAgain,
       ConstructFirst, ConstructReturns, UnloadStep, UnloadShared, UnloadStarts, DestructReturns,
       UnloadNeeded, UnloadDone, DlcloseReturns, At

\* What ConstructRun finds and leaves.
LEMMA RunFacts ==
  ASSUME IInv, OrderInv, ConstructRun
  PROVE  /\ stack # <<>> /\ Top.at = "ctors_needed" /\ Depth \in 1..Depth /\ Top = stack[Depth]
         /\ Top.lib \in Usable /\ Top.lib \in Lib
         /\ constructors_called[Top.lib]
         /\ inits[Top.lib] = 0
         /\ \A X \in Lib : inits'[X] = IF X = Top.lib THEN 1 ELSE inits[X]
         /\ \A Y \in Deps(Top.lib) : Constructed(Y, Depth)
<1>1. /\ stack # <<>> /\ Top.at = "ctors_needed" /\ Top.i \notin Entries(Top.lib)
      /\ inits' = [inits EXCEPT ![Top.lib] = @ + 1]
  BY DEF ConstructRun, At
<1>2. Depth \in Nat \ {0} /\ Top = stack[Depth] /\ Top.lib \in Lib /\ Top.i \in Nat /\ OK(Top)
  BY <1>1, Caller
<1>3. Depth \in 1..Depth
  BY <1>2
<1>4. Top.lib \in Usable
  BY <1>1, <1>2 DEF OK, FrameOK, CtorsFrame, CtorsFrames, Usable, Resident
<1>5. /\ Top.i > 0 /\ constructors_called[Top.lib] /\ inits[Top.lib] = 0
      /\ \A j \in Entries(Top.lib) : j < Top.i => Constructed(Needed[Top.lib][j], Depth)
  BY <1>1, <1>2, <1>3 DEF OrderInv, CtorsInv
<1>6. \A X \in Lib : inits'[X] = IF X = Top.lib THEN 1 ELSE inits[X]
  BY <1>1, <1>2, <1>5 DEF IInv, TypeOK
<1>7. ASSUME NEW j \in Entries(Top.lib) PROVE Constructed(Needed[Top.lib][j], Depth)
  <2>1. Needed[Top.lib] \in Seq(Lib) /\ j \in 1..Len(Needed[Top.lib])
    BY <1>2, NeededAssumption DEF Entries
  <2>2. ~(Top.i \in 1..Len(Needed[Top.lib]))
    BY <1>1, <2>1 DEF Entries
  <2>3. j < Top.i
    BY <1>2, <1>5, <2>1, <2>2
  <2> QED BY <1>5, <2>3
<1> QED BY <1>1, <1>2, <1>3, <1>4, <1>5, <1>6, <1>7 DEF Deps

\* A position on the stack is one of a stack that is not empty.
LEMMA OnStack ==
  ASSUME IInv, NEW k \in 1..Depth
  PROVE  stack # <<>> /\ Depth \in Nat /\ Depth > 0 /\ Depth \in 1..Depth /\ Top = stack[Depth]
<1>1. Depth \in Nat /\ stack \in Seq(Frames)
  BY DEF IInv, TypeOK, Depth
<1>2. Depth > 0 /\ Depth \in 1..Depth
  BY <1>1
<1> QED BY <1>1, <1>2 DEF Depth, Top

\* Constructed, for the whole stack.
LEMMA ConstructedDepth ==
  ASSUME IInv, IInv', NEW X
  PROVE  /\ Constructed(X, Depth + 1) <=>
              \/ inits[X] = 1
              \/ \E m \in 1..Depth : stack[m].at = "ctors_needed" /\ stack[m].lib = X
         /\ Constructed(X, Depth + 1)' <=>
              \/ inits'[X] = 1
              \/ \E m \in 1..Depth' : stack'[m].at = "ctors_needed" /\ stack'[m].lib = X
<1>1. Depth \in Nat /\ Depth' \in Nat
  BY DEF IInv, TypeOK, Depth
<1>2. \A n \in Nat : (n + 1) - 1 = n
  OBVIOUS
<1>3. (Depth + 1) - 1 = Depth /\ (Depth' + 1) - 1 = Depth'
  BY <1>1, <1>2
<1> QED BY <1>3 DEF Constructed

\* A library that is listed stays constructed or on its way to be.
LEMMA Monotone ==
  ASSUME IInv, IInv', OrderInv, Next, NEW X \in listed
  PROVE  /\ inits[X] = 1 => inits'[X] = 1
         /\ constructors_called[X] => constructors_called'[X]
         /\ \A k \in 1..Depth : Constructed(X, k) => Constructed(X, k)'
         /\ Constructed(X, Depth + 1) => Constructed(X, Depth + 1)'
<1>1. X \in Lib
  BY DEF IInv, TypeOK
<1>2. BelowKept
  BY StepMade
<1>3. LoadLibrary => X # Top.lib /\ Top.lib \in Lib
  BY Caller DEF LoadLibrary, At
<1>4. inits[X] = 1 => inits'[X] = 1
  <2>1. CASE LoadLibrary
    BY <1>1, <1>3, <2>1 DEF LoadLibrary, IInv, TypeOK
  <2>2. CASE ConstructRun
    BY <1>1, <2>2, RunFacts
  <2> QED BY <2>1, <2>2, Fields
<1>5. constructors_called[X] => constructors_called'[X]
  <2>1. CASE LoadLibrary
    BY <1>1, <1>3, <2>1 DEF LoadLibrary, IInv, TypeOK
  <2>2. CASE ConstructFirst
    BY <1>1, <2>2 DEF ConstructFirst, IInv, TypeOK
  <2> QED BY <2>1, <2>2, Fields
<1>6. ASSUME NEW k \in 1..Depth, Constructed(X, k) PROVE Constructed(X, k)'
  <2>1. CASE inits[X] = 1
    BY <1>4, <2>1 DEF Constructed
  <2>2. CASE \E m \in 1..(k - 1) : stack[m].at = "ctors_needed" /\ stack[m].lib = X
    <3>1. PICK m \in 1..(k - 1) : stack[m].at = "ctors_needed" /\ stack[m].lib = X
      BY <2>2
    <3>2. m \in 1..(Depth - 1)
      BY <1>2 DEF BelowKept
    <3>3. stack'[m].at = "ctors_needed" /\ stack'[m].lib = X
      BY <1>2, <3>1, <3>2 DEF BelowKept
    <3> QED BY <3>3 DEF Constructed
  <2> QED BY <1>6, <2>1, <2>2 DEF Constructed
<1>7. ASSUME Constructed(X, Depth + 1) PROVE Constructed(X, Depth + 1)'
  <2>1. CASE inits[X] = 1
    BY <1>4, <2>1 DEF Constructed
  <2>2. CASE inits[X] # 1
    <3>1. PICK m \in 1..Depth : stack[m].at = "ctors_needed" /\ stack[m].lib = X
      BY <1>7, <2>2, ConstructedDepth
    <3>2. m \in 1..(Depth - 1) \/ m = Depth
      BY <1>2 DEF BelowKept
    <3>3. ASSUME NEW n \in 1..Depth', stack'[n].at = "ctors_needed", stack'[n].lib = X
          PROVE  Constructed(X, Depth + 1)'
      BY <3>3, ConstructedDepth
    <3>4. CASE m \in 1..(Depth - 1)
      BY <1>2, <3>1, <3>3, <3>4 DEF BelowKept
    <3>5. CASE m = Depth
      <4>1. stack # <<>> /\ Top = stack[Depth] /\ Depth > 0
        BY <3>1, <3>5, OnStack
      <4>2. Top.at = "ctors_needed" /\ Top.lib = X
        BY <3>1, <3>5, <4>1
      <4>3. CASE ConstructNeeded
        <5>1. PICK f, g : Call(f, g) /\ f = Frame("ctors_needed", Top.lib, Top.i + 1)
          BY <4>3 DEF ConstructNeeded
        <5>2. Depth' = Depth + 1 /\ stack'[Depth] = f
          BY <4>1, <5>1, CallKeeps DEF IInv, TypeOK
        <5>3. f.at = "ctors_needed" /\ f.lib = X
          BY <4>2, <5>1 DEF Frame
        <5>4. Depth \in 1..Depth'
          BY <1>2, <4>1, <5>2 DEF BelowKept
        <5> QED BY <3>3, <5>2, <5>3, <5>4
      <4>4. CASE ConstructRun
        <5>1. inits'[X] = 1
          BY <1>1, <4>2, <4>4, RunFacts
        <5> QED BY <5>1 DEF Constructed
      <4> QED BY <4>1, <4>2, <4>3, <4>4, LoopOnTop
    <3> QED BY <3>2, <3>4, <3>5
  <2> QED BY <2>1, <2>2
<1> QED BY <1>4, <1>5, <1>6, <1>7

-----------------------------------------------------------------------------
(* OrderInv, part by part.                                                 *)

\* soinfo_link_image stays on the stack until it returns.
LEMMA LinkOnTop ==
  ASSUME Next, stack # <<>>, Top.at = "link_image"
  PROVE  LinkNeeded \/ LinkAcquire \/ LinkDone \/ LinkFails
BY DEF Next, ClientCall, DlopenNull, Dlopen, Dlclose, MayCall, InCode, CodeFrames, LinkerStep,
       FindStep, FindLinked, FindFails, LoadLibrary, LinkStep, OpenStep, DlopenFails,
       DlopenConstruct, DlopenReturns, CtorsStep, ConstructAgain, ConstructFirst, ConstructNeeded,
       ConstructRun, ConstructReturns, UnloadStep, UnloadShared, UnloadStarts, DestructReturns,
       UnloadNeeded, UnloadDone, DlcloseReturns, At

\* A library being linked goes on being linked, is linked, or is freed.
LEMMA LinkingStays ==
  ASSUME IInv, IInv', Next, NEW X \in listed, Linking(X)
  PROVE  \/ Linking(X)'
         \/ linked'[X]
         \/ X \notin listed'
<1>1. PICK k \in 1..Depth : stack[k].at = "link_image" /\ stack[k].lib = X
  BY DEF Linking
<1>2. BelowKept /\ X \in Lib /\ stack \in Seq(Frames) /\ stack' \in Seq(Frames)
  BY StepMade DEF IInv, TypeOK
<1>3. CASE k \in 1..(Depth - 1)
  <2>1. k \in 1..Depth' /\ stack'[k].at = "link_image" /\ stack'[k].lib = X
    BY <1>1, <1>2, <1>3 DEF BelowKept
  <2> QED BY <2>1 DEF Linking
<1>4. CASE k = Depth
  <2>1. stack # <<>> /\ Top.at = "link_image" /\ Top.lib = X /\ Depth \in Nat /\ Depth > 0
    BY <1>1, <1>4, OnStack
  <2>2. CASE LinkNeeded
    <3>1. PICK g : Call(Top, g)
      BY <2>2 DEF LinkNeeded
    <3>2. Depth' = Depth + 1 /\ stack'[Depth] = Top
      BY <1>2, <2>1, <3>1, CallKeeps
    <3>3. Depth \in 1..Depth'
      BY <2>1, <3>2
    <3> QED BY <2>1, <3>2, <3>3 DEF Linking
  <2>3. CASE LinkAcquire
    <3>1. PICK f : Goto(f) /\ f = Frame("link_image", X, Top.i + 1)
      BY <2>1, <2>3 DEF LinkAcquire
    <3>2. Depth' = Depth /\ stack'[Depth] = f
      BY <1>2, <2>1, <3>1, GotoKeeps
    <3>3. Depth \in 1..Depth' /\ f.at = "link_image" /\ f.lib = X
      BY <2>1, <3>1, <3>2 DEF Frame
    <3> QED BY <3>2, <3>3 DEF Linking
  <2>4. CASE LinkDone
    BY <1>2, <2>1, <2>4 DEF LinkDone, IInv, TypeOK
  <2>5. CASE LinkFails
    BY <2>1, <2>5 DEF LinkFails
  <2> QED BY <2>1, <2>2, <2>3, <2>4, <2>5, LinkOnTop
<1> QED BY <1>2, <1>3, <1>4 DEF BelowKept

\* What LoadLibrary finds and leaves.
LEMMA LoadFacts ==
  ASSUME IInv, IInv', LoadLibrary
  PROVE  /\ Top.lib \in Lib /\ Top.lib \notin listed
         /\ listed' = listed \cup {Top.lib}
         /\ ~linked'[Top.lib] /\ ~constructors_called'[Top.lib] /\ inits'[Top.lib] = 0
         /\ \A X \in Lib : X # Top.lib =>
               /\ linked'[X] = linked[X]
               /\ constructors_called'[X] = constructors_called[X]
               /\ inits'[X] = inits[X]
         /\ \A X : X = Top.lib => Linking(X)'
<1>1. /\ stack # <<>> /\ Top.lib \notin listed
      /\ listed' = listed \cup {Top.lib}
      /\ linked' = [linked EXCEPT ![Top.lib] = FALSE]
      /\ constructors_called' = [constructors_called EXCEPT ![Top.lib] = FALSE]
      /\ inits' = [inits EXCEPT ![Top.lib] = 0]
      /\ Goto(Frame("link_image", Top.lib, 1))
  BY DEF LoadLibrary, At
<1>2. Top.lib \in Lib
  BY <1>1, Caller
<1>3. PICK f : Goto(f) /\ f = Frame("link_image", Top.lib, 1)
  BY <1>1
<1>4. Depth' = Depth /\ Depth > 0 /\ stack'[Depth] = f
  BY <1>1, <1>3, GotoKeeps DEF IInv, TypeOK
<1>5. Depth \in 1..Depth' /\ f.at = "link_image" /\ f.lib = Top.lib
  <2>1. Depth \in Nat
    BY DEF IInv, TypeOK, Depth
  <2> QED BY <1>3, <1>4, <2>1 DEF Frame
<1>6. \A X : X = Top.lib => Linking(X)'
  BY <1>4, <1>5 DEF Linking
<1> QED BY <1>1, <1>2, <1>6 DEF IInv, TypeOK

\* What ConstructFirst finds and leaves.
LEMMA FirstFacts ==
  ASSUME IInv, IInv', ConstructFirst
  PROVE  /\ Top.lib \in Usable /\ Top.lib \in Lib /\ ~constructors_called[Top.lib]
         /\ \A X \in Lib : constructors_called'[X] = (X = Top.lib \/ constructors_called[X])
         /\ Depth \in 1..Depth'
         /\ stack'[Depth].at = "ctors_needed" /\ stack'[Depth].lib = Top.lib
         /\ UNCHANGED <<listed, linked, inits>>
<1>1. /\ stack # <<>> /\ Top.at = "CallConstructors" /\ ~constructors_called[Top.lib]
      /\ constructors_called' = [constructors_called EXCEPT ![Top.lib] = TRUE]
      /\ Goto(Frame("ctors_needed", Top.lib, 1))
      /\ UNCHANGED <<listed, linked, inits>>
  BY DEF ConstructFirst, At, ghosts
<1>2. Top.lib \in Lib /\ OK(Top) /\ Depth \in Nat
  BY <1>1, Caller
<1>3. Top.lib \in Usable
  BY <1>1, <1>2 DEF OK, FrameOK, CtorsFrame, CtorsFrames, Usable, Resident
<1>4. PICK f : Goto(f) /\ f = Frame("ctors_needed", Top.lib, 1)
  BY <1>1
<1>5. Depth' = Depth /\ Depth > 0 /\ stack'[Depth] = f
  BY <1>1, <1>4, GotoKeeps DEF IInv, TypeOK
<1>6. Depth \in 1..Depth' /\ f.at = "ctors_needed" /\ f.lib = Top.lib
  BY <1>2, <1>4, <1>5 DEF Frame
<1>7. \A X \in Lib : constructors_called'[X] = (X = Top.lib \/ constructors_called[X])
  BY <1>1, <1>2 DEF IInv, TypeOK
<1> QED BY <1>1, <1>2, <1>3, <1>5, <1>6, <1>7

\* No step leaves a library half linked.
LEMMA HalfLinkedStep ==
  ASSUME IInv, IInv', OrderInv, Next
  PROVE  HalfLinked'
<1> SUFFICES ASSUME NEW X \in listed', ~linked'[X]
             PROVE  Linking(X)' /\ ~constructors_called'[X] /\ inits'[X] = 0
  BY DEF HalfLinked
<1>1. X \in Lib
  BY DEF IInv, TypeOK
<1>2. CASE LoadLibrary /\ X = Top.lib
  BY <1>2, LoadFacts
<1>3. CASE ~(LoadLibrary /\ X = Top.lib)
  <2>1. X \in listed
    BY <1>3, Fields, LoadFacts
  <2>2. ~linked[X]
    <3>1. CASE LoadLibrary
      BY <1>1, <1>3, <3>1, LoadFacts
    <3>2. CASE LinkDone
      BY <1>1, <3>2 DEF LinkDone, IInv, TypeOK
    <3> QED BY <3>1, <3>2, Fields
  <2>3. Linking(X) /\ ~constructors_called[X] /\ inits[X] = 0
    BY <2>1, <2>2 DEF OrderInv, HalfLinked
  <2>4. ~constructors_called'[X]
    <3>1. CASE LoadLibrary
      BY <1>1, <1>3, <2>3, <3>1, LoadFacts
    <3>2. CASE ConstructFirst
      BY <1>1, <2>2, <2>3, <3>2, FirstFacts DEF Usable, Resident
    <3> QED BY <2>3, <3>1, <3>2, Fields
  <2>5. inits'[X] = 0
    <3>1. CASE LoadLibrary
      BY <1>1, <1>3, <2>3, <3>1, LoadFacts
    <3>2. CASE ConstructRun
      BY <1>1, <2>2, <2>3, <3>2, RunFacts DEF Usable, Resident
    <3> QED BY <2>3, <3>1, <3>2, Fields
  <2> QED BY <2>1, <2>3, <2>4, <2>5, LinkingStays
<1> QED BY <1>2, <1>3

\* No step marks or runs a library's initialisers twice.
LEMMA CalledOnceStep ==
  ASSUME IInv, IInv', OrderInv, Next
  PROVE  CalledOnce'
<1> SUFFICES ASSUME NEW X \in Lib
             PROVE  /\ inits'[X] <= 1
                    /\ inits'[X] = 1 => constructors_called'[X]
                    /\ X \in listed' /\ constructors_called'[X] => Constructed(X, Depth + 1)'
  BY DEF CalledOnce
<1>1. /\ inits[X] <= 1 /\ inits[X] \in Nat
      /\ inits[X] = 1 => constructors_called[X]
      /\ X \in listed /\ constructors_called[X] => Constructed(X, Depth + 1)
  BY DEF OrderInv, CalledOnce, IInv, TypeOK
<1>2. CASE LoadLibrary
  <2>1. CASE X = Top.lib
    BY <1>2, <2>1, LoadFacts
  <2>2. CASE X # Top.lib
    BY <1>1, <1>2, <2>2, LoadFacts, Monotone
  <2> QED BY <2>1, <2>2
<1>3. CASE ConstructFirst
  <2>1. inits' = inits /\ listed' = listed
    BY <1>3, FirstFacts
  <2>2. CASE X = Top.lib
    BY <1>1, <1>3, <2>1, <2>2, FirstFacts, ConstructedDepth
  <2>3. CASE X # Top.lib
    BY <1>1, <1>3, <2>1, <2>3, FirstFacts, Monotone
  <2> QED BY <2>2, <2>3
<1>4. CASE ConstructRun
  <2>1. /\ inits'[X] <= 1
        /\ inits'[X] = 1 => X = Top.lib \/ inits[X] = 1
        /\ constructors_called[Top.lib]
    BY <1>1, <1>4, RunFacts
  <2>2. constructors_called' = constructors_called /\ listed' = listed
    BY <1>4 DEF ConstructRun, soinfos
  <2> QED BY <1>1, <2>1, <2>2, Monotone
<1>5. CASE ~LoadLibrary /\ ~ConstructFirst /\ ~ConstructRun
  BY <1>1, <1>5, Fields, Monotone
<1> QED BY <1>2, <1>3, <1>4, <1>5

\* No library is recorded as needed by itself: it has no reference while it is linked.
LEMMA NoneNeedsItselfStep ==
  ASSUME IInv, OrderInv, Next
  PROVE  NoneNeedsItself'
<1>1. CASE LinkAcquire
  <2>1. /\ stack # <<>> /\ Top.at = "link_image" /\ Top.ret = "ok"
        /\ acquired' = acquired \cup {<<Top.lib, Top.i>>}
    BY <1>1 DEF LinkAcquire, At
  <2>2. Top.lib \in Lib /\ OK(Top) /\ Depth \in 1..Depth /\ Top = stack[Depth]
    <3>1. Depth \in Nat \ {0}
      BY <2>1, Caller
    <3> QED BY <2>1, <3>1, Caller
  <2>3. ref_count[Top.lib] = 0 /\ Top.i \in Entries(Top.lib)
    BY <2>1, <2>2 DEF OK, FrameOK, LinkFrame
  <2>4. Needed[Top.lib][Top.i] \in Lib
    BY <2>2, <2>3, NeededIsLib
  <2>5. Carries(Top, Needed[Top.lib][Top.i])
    BY <2>1 DEF Carries
  <2>6. ref_count[Needed[Top.lib][Top.i]] >= 1
    BY <2>2, <2>4, <2>5, CarriedCount
  <2>7. Needed[Top.lib][Top.i] # Top.lib
    BY <2>3, <2>6
  <2> QED BY <2>1, <2>7 DEF OrderInv, NoneNeedsItself
<1>2. CASE acquired' \subseteq acquired
  BY <1>2 DEF OrderInv, NoneNeedsItself
<1> QED BY <1>1, <1>2, Fields

\* Nothing but CallConstructors and the library code it runs returns to a frame
\* that called it.
LEMMA CtorsOnTop ==
  ASSUME Next, stack # <<>>, Top.at \in CtorsFrames
  PROVE  ConstructAgain \/ ConstructFirst \/ ConstructNeeded \/ ConstructRun \/ ConstructReturns
           \/ ClientCall
BY DEF CtorsFrames, Next, LinkerStep, FindStep, FindLinked, FindFails, LoadLibrary, LinkStep,
       LinkNeeded, LinkAcquire, LinkDone, LinkFails, OpenStep, DlopenFails, DlopenConstruct,
       DlopenReturns, CtorsStep, UnloadStep, UnloadShared, UnloadStarts, DestructReturns,
       UnloadNeeded, UnloadDone, DlcloseReturns, At

\* A client's call does not shorten the stack.
LEMMA ClientDepth ==
  ASSUME IInv, ClientCall
  PROVE  Depth' >= Depth
<1>1. stack \in Seq(Frames) /\ Depth \in Nat
  BY DEF IInv, TypeOK, Depth
<1>2. CASE DlopenNull
  <2>1. Depth' = Depth
    BY <1>2 DEF DlopenNull, Depth
  <2> QED BY <1>1, <2>1
<1>3. ASSUME NEW L \in Lib, Dlopen(L) \/ Dlclose(L) PROVE Depth' >= Depth
  <2> DEFINE o == Frame("do_dlopen", L, 0)
             p == Frame("find_library", L, 0)
             c == Frame("do_dlclose", L, 0)
             u == Frame("soinfo_unload", L, 0)
  <2>1. Enter(o, p) \/ Enter(c, u)
    BY <1>3 DEF Dlopen, Dlclose
  <2>2. o \in Frames /\ p \in Frames /\ c \in Frames /\ u \in Frames
    <3>1. /\ "do_dlopen" \in Labels /\ "find_library" \in Labels /\ "do_dlclose" \in Labels
          /\ "soinfo_unload" \in Labels /\ 0 \in Nat
      BY DEF Labels
    <3> QED BY <3>1, FrameFields
  <2> HIDE DEF o, p, c, u
  <2>3. Depth' = Depth + 2
    BY <1>1, <2>1, <2>2, EnterKeeps
  <2> QED BY <1>1, <2>3
<1> QED BY <1>2, <1>3 DEF ClientCall

\* The library whose constructors a frame called is constructed when the call
\* returns, or a frame below is on its way to it.
LEMMA CtorsReturn ==
  ASSUME IInv, IInv', OrderInv, Next, Depth > 1, Depth' = Depth - 1,
         stack[Depth - 1].at \in {"ctors_needed", "do_dlopen_ctors"}
  PROVE  /\ Called(stack[Depth - 1], Top) /\ Top.at \in CtorsFrames /\ Top.lib \in Usable
         /\ inits' = inits
         /\ inits[Top.lib] = 1 \/ \E m \in 1..(Depth - 1) :
                                     stack[m].at = "ctors_needed" /\ stack[m].lib = Top.lib
<1>1. stack # <<>> /\ Depth \in Nat
  BY DEF Depth, IInv, TypeOK
<1>2. Called(stack[Depth - 1], Top) /\ Top \in Frames /\ OK(Top) /\ Top = stack[Depth] /\ Top.lib \in Lib
  BY <1>1, Caller
<1>3. Top.at \in CtorsFrames
  <2>1. Top.at \in EntryFrames \cup FindFrames \cup CtorsFrames \cup FreeingFrames
    BY <1>2 DEF Frames, Labels, EntryFrames, FindFrames, CtorsFrames, FreeingFrames, UnloadFrames,
                CodeFrames
  <2> QED BY <1>2, <2>1 DEF Called, CodeFrames
<1>4. Top.lib \in Usable
  BY <1>2, <1>3 DEF OK, FrameOK, CtorsFrame, Usable, Resident
<1>5. ConstructAgain \/ ConstructReturns
  <2>1. ~ClientCall
    BY <1>1, ClientDepth
  <2>2. ~ConstructFirst /\ ~ConstructRun
    <3>1. \A f : Goto(f) => Depth' = Depth
      BY <1>1, GotoKeeps DEF IInv, TypeOK
    <3> QED BY <1>1, <3>1 DEF ConstructFirst, ConstructRun
  <2>3. ~ConstructNeeded
    <3>1. \A f, g : Call(f, g) => Depth' = Depth + 1
      BY <1>1, CallKeeps DEF IInv, TypeOK
    <3> QED BY <1>1, <3>1 DEF ConstructNeeded
  <2> QED BY <1>1, <1>3, <2>1, <2>2, <2>3, CtorsOnTop
<1>6. inits' = inits
  BY <1>5 DEF ConstructAgain, ConstructReturns, ghosts
<1>7. CASE ConstructAgain
  <2>1. Top.at = "CallConstructors" /\ constructors_called[Top.lib]
    BY <1>7 DEF ConstructAgain, At
  <2>2. Constructed(Top.lib, Depth + 1)
    BY <1>2, <1>4, <2>1 DEF OrderInv, CalledOnce, Usable, Resident
  <2>3. ASSUME NEW m \in 1..Depth, stack[m].at = "ctors_needed" PROVE m \in 1..(Depth - 1)
    <3>1. m # Depth
      BY <1>2, <2>1, <2>3
    <3> QED BY <1>1, <3>1
  <2> QED BY <1>2, <1>3, <1>4, <1>6, <2>2, <2>3, ConstructedDepth
<1>8. CASE ConstructReturns
  <2>1. Top.at = "ctors_code" /\ Depth \in 1..Depth
    BY <1>1, <1>8 DEF ConstructReturns, At
  <2>2. inits[Top.lib] = 1
    BY <1>2, <2>1 DEF OrderInv, CtorsInv
  <2> QED BY <1>2, <1>3, <1>4, <1>6, <2>2
<1> QED BY <1>5, <1>7, <1>8

\* What a usable library needs is listed, and is not the library itself.
LEMMA UsableDeps ==
  ASSUME IInv, OrderInv, NEW L \in Usable
  PROVE  L \in Lib /\ L \in listed /\ \A Y \in Deps(L) : Y \in listed /\ Y \in Lib /\ Y # L
<1>1. L \in Lib /\ L \in listed
  BY DEF IInv, TypeOK, Usable, Resident
<1>2. ASSUME NEW j \in Entries(L) PROVE Needed[L][j] \in Usable /\ Needed[L][j] # L
  <2>1. Needed[L][j] \in Usable
    BY NeededInv DEF NeededResident, Deps
  <2>2. <<L, j>> \in acquired
    BY DEF IInv, EntriesHeld
  <2> QED BY <2>1, <2>2 DEF OrderInv, NoneNeedsItself
<1> QED BY <1>1, <1>2 DEF Deps, Usable, Resident, IInv, TypeOK

\* The constructors of a library run in the order of its entries, after those of
\* the libraries it needs.
LEMMA CtorsInvStep ==
  ASSUME IInv, IInv', OrderInv, Next
  PROVE  CtorsInv'
<1> SUFFICES ASSUME NEW k \in 1..Depth'
      PROVE  LET L == stack'[k].lib IN
             /\ stack'[k].at = "ctors_needed" =>
                  /\ stack'[k].i > 0
                  /\ constructors_called'[L]
                  /\ inits'[L] = 0
                  /\ \A m \in 1..(k - 1) : stack'[m].at = "ctors_needed" => stack'[m].lib # L
                  /\ \A j \in Entries(L) :
                       j < stack'[k].i /\ (j + 1 = stack'[k].i => k = Depth') =>
                         \A Y : Y = Needed[L][j] => Constructed(Y, k)'
             /\ stack'[k].at = "ctors_code" =>
                  inits'[L] = 1 /\ \A Y \in Deps(L) : Constructed(Y, k)'
  BY DEF CtorsInv, Entries, Deps
<1> DEFINE L == stack'[k].lib
<1>1. /\ BelowKept /\ Depth \in Nat /\ Depth' \in Nat /\ Depth' >= Depth - 1
      /\ k >= Depth => Made(stack'[k], k)
  BY StepMade DEF BelowKept
<1>2. CASE k \in 1..(Depth - 1)
  <2> DEFINE f == stack[k]
  <2>1. /\ k \in 1..Depth
        /\ f.at = stack'[k].at /\ f.lib = L /\ f.i = stack'[k].i
        /\ \A m \in 1..(k - 1) : stack'[m].at = stack[m].at /\ stack'[m].lib = stack[m].lib
    <3>1. \A m \in 1..(k - 1) : m \in 1..(Depth - 1)
      BY <1>1, <1>2
    <3> QED BY <1>1, <1>2, <3>1 DEF BelowKept
  <2>2. stack # <<>> /\ Depth > 1 /\ Depth \in 1..Depth /\ Top = stack[Depth]
    BY <1>1, <1>2, <2>1, OnStack
  <2>3. ASSUME f.at \in {"ctors_needed", "ctors_code"}
        PROVE  L \in Usable /\ L \in listed /\ L \in Lib /\ \A Y \in Deps(L) : Y \in listed /\ Y # L
    <3>1. L \in Usable
      BY <2>1, <2>3 DEF IInv, FramesInv, CtorsFrame, CtorsFrames
    <3> QED BY <3>1, UsableDeps
  <2>4. ASSUME f.at = "ctors_needed"
        PROVE  /\ stack'[k].i > 0
               /\ constructors_called'[L]
               /\ inits'[L] = 0
               /\ \A m \in 1..(k - 1) : stack'[m].at = "ctors_needed" => stack'[m].lib # L
    <3>1. /\ f.i > 0 /\ constructors_called[L] /\ inits[L] = 0
          /\ \A m \in 1..(k - 1) : stack[m].at = "ctors_needed" => stack[m].lib # L
      BY <2>1, <2>4 DEF OrderInv, CtorsInv
    <3>2. constructors_called'[L]
      BY <2>3, <2>4, <3>1, Monotone
    <3>3. inits'[L] = 0
      <4>1. CASE LoadLibrary
        BY <2>3, <2>4, <3>1, <4>1, LoadFacts
      <4>2. CASE ConstructRun
        <5>1. Top.at = "ctors_needed" /\ \A X \in Lib : X # Top.lib => inits'[X] = inits[X]
          BY <4>2, RunFacts
        <5>2. Top.lib # L
          BY <1>2, <2>1, <2>2, <2>4, <5>1 DEF OrderInv, CtorsInv
        <5> QED BY <2>3, <2>4, <3>1, <5>1, <5>2
      <4> QED BY <3>1, <4>1, <4>2, Fields
    <3> QED BY <2>1, <3>1, <3>2, <3>3
  <2>5. ASSUME f.at = "ctors_needed", NEW j \in Entries(L), j < f.i, j + 1 = f.i => k = Depth',
               NEW Y, Y = Needed[L][j]
        PROVE  Constructed(Y, k)'
    <3>1. Y \in Deps(L)
      BY <2>5 DEF Deps
    <3>2. CASE j + 1 # f.i
      <4>1. Constructed(Y, k)
        BY <2>1, <2>5, <3>2 DEF OrderInv, CtorsInv
      <4> QED BY <2>1, <2>3, <2>5, <3>1, <4>1, Monotone
    <3>3. CASE j + 1 = f.i
      <4>1. Depth' = Depth - 1 /\ k = Depth - 1
        <5>1. k = Depth'
          BY <2>5, <3>3
        <5>2. \A d, e \in Nat : d >= e - 1 /\ k = d /\ k <= e - 1 => d = e - 1 /\ k = e - 1
          OBVIOUS
        <5>3. Depth \in Nat /\ Depth' \in Nat /\ Depth' >= Depth - 1 /\ k <= Depth - 1
          BY <1>1, <1>2
        <5> QED BY <5>1, <5>2, <5>3
      <4>2. /\ Called(f, Top) /\ Top.at \in CtorsFrames /\ inits' = inits
            /\ inits[Top.lib] = 1 \/ \E m \in 1..k : stack[m].at = "ctors_needed" /\ stack[m].lib = Top.lib
        BY <2>2, <2>5, <4>1, CtorsReturn
      <4>3. Top.lib = Y
        <5>1. PICK n \in Entries(f.lib) : n + 1 = f.i /\ Needed[f.lib][n] = Top.lib
          BY <2>5, <4>2 DEF Called
        <5>2. n \in Nat /\ j \in Nat
          BY <2>1, <2>3, <2>5, <5>1, NeededIsLib
        <5>3. n = j
          BY <3>3, <5>1, <5>2
        <5> QED BY <2>1, <2>5, <5>1, <5>3
      <4>4. CASE inits[Y] = 1
        BY <4>2, <4>4 DEF Constructed
      <4>5. CASE \E m \in 1..k : stack[m].at = "ctors_needed" /\ stack[m].lib = Y
        <5>1. PICK m \in 1..k : stack[m].at = "ctors_needed" /\ stack[m].lib = Y
          BY <4>5
        <5>2. m # k
          BY <2>1, <2>3, <2>5, <3>1, <5>1
        <5>3. m \in 1..(k - 1)
          BY <1>2, <5>2
        <5> QED BY <2>1, <5>1, <5>3 DEF Constructed
      <4> QED BY <4>2, <4>3, <4>4, <4>5
    <3> QED BY <3>2, <3>3
  <2>6. ASSUME f.at = "ctors_code"
        PROVE  inits'[L] = 1 /\ \A Y \in Deps(L) : Constructed(Y, k)'
    <3>1. inits[L] = 1 /\ \A Y \in Deps(L) : Constructed(Y, k)
      BY <2>1, <2>6 DEF OrderInv, CtorsInv
    <3> QED BY <2>1, <2>3, <2>6, <3>1, Monotone
  <2> HIDE DEF f
  <2> QED BY <2>1, <2>4, <2>5, <2>6
<1>3. CASE k >= Depth
  <2>1. ASSUME stack'[k].at = "ctors_needed"
        PROVE  /\ k = Depth /\ L = Top.lib
               /\ \/ ConstructFirst /\ stack'[k].i = 1
                  \/ ConstructNeeded /\ stack'[k].i = Top.i + 1 /\ k < Depth'
    BY <1>1, <1>3, <2>1 DEF Made
  <2>2. ASSUME stack'[k].at = "ctors_needed"
        PROVE  \A m \in 1..(k - 1) :
                 stack'[m].at = stack[m].at /\ stack'[m].lib = stack[m].lib /\ m \in 1..Depth
    BY <1>1, <2>1, <2>2 DEF BelowKept
  <2>3. ASSUME stack'[k].at = "ctors_needed", ConstructFirst, stack'[k].i = 1
        PROVE  /\ stack'[k].i > 0
               /\ constructors_called'[L]
               /\ inits'[L] = 0
               /\ \A m \in 1..(k - 1) : stack'[m].at = "ctors_needed" => stack'[m].lib # L
               /\ \A j \in Entries(L) : ~(j < stack'[k].i)
    <3>1. L = Top.lib /\ L \in Lib /\ ~constructors_called[L] /\ constructors_called'[L] /\ inits' = inits
      BY <2>1, <2>3, FirstFacts
    <3>2. inits[L] = 0
      <4>1. inits[L] \in Nat
        BY <3>1 DEF IInv, TypeOK
      <4>2. inits[L] <= 1 /\ inits[L] # 1
        BY <3>1 DEF OrderInv, CalledOnce
      <4> QED BY <4>1, <4>2
    <3>3. \A m \in 1..(k - 1) : stack'[m].at = "ctors_needed" => stack'[m].lib # L
      BY <2>2, <2>3, <3>1 DEF OrderInv, CtorsInv
    <3>4. \A j \in Entries(L) : j \in Nat /\ j > 0
      BY <3>1, NeededIsLib
    <3> QED BY <2>3, <3>1, <3>2, <3>3, <3>4
  <2>4. ASSUME stack'[k].at = "ctors_needed", ConstructNeeded, stack'[k].i = Top.i + 1, k < Depth'
        PROVE  /\ stack'[k].i > 0
               /\ constructors_called'[L]
               /\ inits'[L] = 0
               /\ \A m \in 1..(k - 1) : stack'[m].at = "ctors_needed" => stack'[m].lib # L
               /\ \A j \in Entries(L) :
                    j < stack'[k].i /\ (j + 1 = stack'[k].i => k = Depth') =>
                      \A Y : Y = Needed[L][j] => Constructed(Y, k)'
    <3>1. /\ stack # <<>> /\ Top.at = "ctors_needed"
          /\ UNCHANGED <<constructors_called, inits>>
      BY <2>4 DEF ConstructNeeded, At, soinfos, ghosts
    <3>2. k = Depth /\ L = Top.lib /\ k \in 1..Depth /\ Top = stack[k] /\ Top.i \in Nat
      BY <1>3, <2>1, <2>4, <3>1, Caller
    <3>3. /\ Top.i > 0 /\ constructors_called[L] /\ inits[L] = 0
          /\ \A m \in 1..(k - 1) : stack[m].at = "ctors_needed" => stack[m].lib # L
          /\ \A j \in Entries(L) : j < Top.i => Constructed(Needed[L][j], k)
      BY <3>1, <3>2 DEF OrderInv, CtorsInv
    <3>4. L \in Usable
      BY <3>1, <3>2 DEF IInv, FramesInv, CtorsFrame, CtorsFrames
    <3>5. L \in Lib /\ \A Y \in Deps(L) : Y \in listed
      BY <3>4, UsableDeps
    <3>6. ASSUME NEW j \in Entries(L), j < Top.i + 1, j + 1 # Top.i + 1
          PROVE  \A Y : Y = Needed[L][j] => Constructed(Y, k)'
      <4>1. j \in Nat
        BY <3>5, NeededIsLib
      <4>2. j < Top.i
        BY <3>2, <3>6, <4>1
      <4>3. Constructed(Needed[L][j], k)
        BY <3>3, <4>2
      <4>4. Needed[L][j] \in listed
        BY <3>5 DEF Deps
      <4> QED BY <3>2, <4>3, <4>4, Monotone
    <3>7. k # Depth'
      BY <1>1, <2>4, <3>2
    <3> QED BY <2>2, <2>4, <3>1, <3>2, <3>3, <3>6, <3>7
  <2>5. ASSUME stack'[k].at = "ctors_code"
        PROVE  inits'[L] = 1 /\ \A Y \in Deps(L) : Constructed(Y, k)'
    <3>1. k = Depth /\ L = Top.lib /\ (ConstructRun \/ Top.at = "ctors_code")
      BY <1>1, <1>3, <2>5 DEF Made
    <3>2. k \in 1..Depth
      BY <1>1, <3>1
    <3>3. Top = stack[k] /\ stack # <<>>
      BY <3>1, <3>2, OnStack
    <3>4. CASE ConstructRun
      <4>1. /\ L \in Usable /\ inits'[L] = 1
            /\ \A Y \in Deps(L) : Constructed(Y, k)
        BY <3>1, <3>4, RunFacts
      <4> QED BY <3>2, <4>1, UsableDeps, Monotone
    <3>5. CASE Top.at = "ctors_code"
      <4>1. inits[L] = 1 /\ \A Y \in Deps(L) : Constructed(Y, k)
        BY <3>1, <3>2, <3>3, <3>5 DEF OrderInv, CtorsInv
      <4>2. L \in Usable
        BY <3>1, <3>2, <3>3, <3>5 DEF IInv, FramesInv, CtorsFrame, CtorsFrames
      <4> QED BY <3>2, <4>1, <4>2, UsableDeps, Monotone
    <3> QED BY <3>1, <3>4, <3>5
  <2> QED BY <2>1, <2>3, <2>4, <2>5
<1> QED BY <1>1, <1>2, <1>3

\* The order in which the libraries' code runs is an invariant.
LEMMA OrderStep ==
  ASSUME IInv, IInv', OrderInv, [Next]_vars
  PROVE  OrderInv'
<1>1. CASE Next
  BY <1>1, HalfLinkedStep, CalledOnceStep, CtorsInvStep, NoneNeedsItselfStep DEF OrderInv
<1>2. CASE UNCHANGED vars
  <2>1. /\ UNCHANGED <<listed, linked, constructors_called, stack, acquired, inits>>
        /\ Depth' = Depth
    BY <1>2 DEF vars, soinfos, ghosts, Depth
  <2>2. \A X : Linking(X)' <=> Linking(X)
    BY <2>1 DEF Linking
  <2>3. \A X, k : Constructed(X, k)' <=> Constructed(X, k)
    BY <2>1 DEF Constructed
  <2>4. HalfLinked' /\ NoneNeedsItself'
    BY <2>1, <2>2 DEF OrderInv, HalfLinked, NoneNeedsItself
  <2>5. CalledOnce'
    <3>1. \A X : Constructed(X, Depth + 1)' <=> Constructed(X, Depth + 1)
      BY <2>1 DEF Constructed
    <3> QED BY <2>1, <3>1 DEF OrderInv, CalledOnce
  <2>6. CtorsInv'
    BY <2>1 DEF OrderInv, CtorsInv, Constructed
  <2> QED BY <2>4, <2>5, <2>6 DEF OrderInv
<1> QED BY <1>1, <1>2

\* Nothing has run when only libdl is listed.
LEMMA OrderInit ==
  ASSUME Init
  PROVE  OrderInv
<1>1. listed = {Libdl} /\ linked[Libdl] /\ stack = <<>> /\ acquired = {}
  BY LibdlAssumption DEF Init
<1>2. \A X \in Lib : ~constructors_called[X] /\ inits[X] = 0
  BY DEF Init
<1>3. Depth = 0
  BY <1>1 DEF Depth
<1>4. HalfLinked /\ NoneNeedsItself
  BY <1>1 DEF HalfLinked, NoneNeedsItself
<1>5. CalledOnce
  BY <1>2 DEF CalledOnce
<1>6. CtorsInv
  BY <1>3 DEF CtorsInv
<1> QED BY <1>4, <1>5, <1>6 DEF OrderInv

\* What is linked, marked and initialised follows the calls on the stack.
THEOREM Ordered == Spec => []OrderInv
<1>1. Init => OrderInv
  BY OrderInit
<1>2. IInv /\ IInv' /\ OrderInv /\ [Next]_vars => OrderInv'
  BY OrderStep
<1> QED BY <1>1, <1>2, Invariant, PTL DEF Spec

\* A library is not linked only while soinfo_link_image runs for it, and solist
\* holds exactly the mapped images: a failed link leaves nothing behind.
THEOREM NoneHalfLinked == Spec => []NothingHalfLinked
<1>1. IInv /\ OrderInv => NothingHalfLinked
  BY DEF IInv, ImagesMapped, OrderInv, HalfLinked, Linking, NothingHalfLinked
<1> QED BY <1>1, Invariant, Ordered, PTL

\* CallConstructors runs DT_INIT and DT_INIT_ARRAY of a library once, after those
\* of every library it needs, but for one that a frame below is constructing.
THEOREM InitialisedInOrder == Spec => []InitOrder
<1>1. OrderInv => InitOrder
  <2> SUFFICES ASSUME OrderInv PROVE InitOrder
    OBVIOUS
  <2>1. \A X \in Lib : inits[X] <= 1
    BY DEF OrderInv, CalledOnce
  <2>2. ASSUME NEW k \in 1..Depth, stack[k].at = "ctors_code", NEW Y \in Deps(stack[k].lib)
        PROVE  \/ inits[Y] = 1
               \/ \E j \in 1..(k - 1) : stack[j].at = "ctors_needed" /\ stack[j].lib = Y
    BY <2>2 DEF OrderInv, CtorsInv, Constructed
  <2> QED BY <2>1, <2>2 DEF InitOrder
<1> QED BY <1>1, Ordered, PTL

-----------------------------------------------------------------------------
(* StartedInv: what can lead to the destructors of a library.              *)

\* A library that is listed stays constructed.
LEMMA StartedStays ==
  ASSUME IInv, IInv', OrderInv, Next, NEW X \in listed, Started(X)
  PROVE  Started(X)'
<1>1. CASE X \in SystemLibs \cup {Libdl}
  BY <1>1 DEF Started
<1>2. CASE Constructed(X, Depth + 1)
  BY <1>2, Monotone DEF Started
<1> QED BY <1>1, <1>2 DEF Started

\* A handle is given out only after the constructors, or for a system library.
LEMMA HandlesStarted ==
  ASSUME IInv, IInv', OrderInv, StartedInv, Next, NEW X \in Lib, handles'[X] > 0
  PROVE  Started(X)'
<1>1. CASE handles[X] > 0
  <2>1. X \in listed
    BY <1>1, HandlesInv DEF HandleValid, Usable, Resident
  <2> QED BY <1>1, <2>1, StartedStays DEF StartedInv
<1>2. CASE DlopenReturns /\ X = Top.lib
  <2>1. /\ stack # <<>>
        /\ Top.at = "do_dlopen_ctors" \/ (Top.at = "do_dlopen" /\ Top.ret = "ok" /\ X \in SystemLibs)
    BY <1>2 DEF DlopenReturns, At
  <2>2. Depth \in 1..Depth /\ Top = stack[Depth]
    BY <2>1, Caller
  <2>3. X \in listed
    BY <1>2, <2>1, <2>2, CarriedCount DEF Carries, Resident
  <2>4. Started(X)
    BY <1>2, <2>1, <2>2 DEF StartedInv, Started
  <2> QED BY <2>3, <2>4, StartedStays
<1>3. CASE DlopenReturns /\ X # Top.lib
  <2>1. handles' = [handles EXCEPT ![Top.lib] = @ + 1]
    BY <1>3 DEF DlopenReturns
  <2>2. handles'[X] = handles[X]
    BY <1>3, <2>1 DEF IInv, TypeOK
  <2> QED BY <1>1, <2>2
<1> QED BY <1>1, <1>2, <1>3, Fields

\* What a constructed library needs is constructed.
LEMMA EntriesStarted ==
  ASSUME IInv, IInv', OrderInv, StartedInv, Next, NEW r \in acquired', inits'[r[1]] = 1
  PROVE  \A Y : Y = Needed[r[1]][r[2]] => Started(Y)'
<1> DEFINE L == r[1]
           Y == Needed[r[1]][r[2]]
<1> SUFFICES Started(Y)'
  BY DEF Started, Constructed
<1>1. L \in Lib /\ r = <<r[1], r[2]>> /\ L \in listed' /\ r[2] \in Entries(L)
  BY DEF IInv, TypeOK, EntriesHeld
<1>2. CASE r \notin acquired
  <2>1. LinkAcquire
    BY <1>2, Fields
  <2>2. stack # <<>> /\ Top.at = "link_image" /\ inits' = inits /\ r = <<Top.lib, Top.i>>
    BY <1>2, <2>1 DEF LinkAcquire, At
  <2>3. L \in listed /\ ~linked[L]
    BY <2>2, Caller DEF IInv, FramesInv, LinkFrame, OK, FrameOK
  <2>4. inits[L] = 0
    BY <2>3 DEF OrderInv, HalfLinked
  <2> QED BY <2>2, <2>4
<1>3. CASE r \in acquired
  <2>1. Y \in Usable /\ Y \in listed /\ Y \in Lib /\ Y \in Deps(L)
    <3>1. Refs(Y) # {} /\ Y \in Lib
      BY <1>1, <1>3, EntryRefs, NeededIsLib
    <3> QED BY <1>1, <3>1, EntryUsable DEF Usable, Resident, Deps
  <2>2. CASE inits[L] = 1
    BY <1>3, <2>1, <2>2, StartedStays DEF StartedInv
  <2>3. CASE inits[L] # 1
    <3>1. ConstructRun /\ L = Top.lib
      <4>1. CASE LoadLibrary
        BY <1>1, <2>3, <4>1, LoadFacts
      <4>2. CASE ConstructRun
        BY <1>1, <2>3, <4>2, RunFacts
      <4> QED BY <2>3, <4>1, <4>2, Fields
    <3>2. Constructed(Y, Depth) /\ Depth \in Nat
      <4>1. Constructed(Y, Depth)
        BY <2>1, <3>1, RunFacts
      <4>2. Depth \in Nat
        BY <3>1, RunFacts, Caller
      <4> QED BY <4>1, <4>2
    <3>3. Constructed(Y, Depth + 1)
      <4>1. \A m \in 1..(Depth - 1) : m \in 1..((Depth + 1) - 1)
        BY <3>2
      <4> QED BY <3>2, <4>1 DEF Constructed
    <3> QED BY <2>1, <3>3, Monotone DEF Started
  <2> QED BY <2>2, <2>3
<1> QED BY <1>2, <1>3

\* The frames a step leaves alone go on speaking of started libraries.
LEMMA BelowStarted ==
  ASSUME IInv, IInv', OrderInv, StartedInv, Next, NEW k \in 1..(Depth - 1), k \in 1..Depth',
         NEW X, X = stack[k].lib
  PROVE  /\ stack[k].at = "do_dlopen_ctors" /\ k = Depth' => Started(X)'
         /\ stack[k].at = "soinfo_unload" => Started(X)'
         /\ stack[k].at = "unload_needed" => X \in SystemLibs \cup {Libdl} \/ inits'[X] = 1
         /\ stack[k].at = "unload_code" => inits'[X] = 1
<1> DEFINE f == stack[k]
<1>1. /\ k \in 1..Depth /\ Depth \in Nat /\ Depth' \in Nat /\ Depth' >= Depth - 1
      /\ \A m \in 1..(Depth - 1) : m \in 1..Depth
  <2>1. Depth \in Nat
    BY DEF IInv, TypeOK, Depth
  <2> QED BY <2>1, StepMade DEF BelowKept
<1>2. X \in Lib
  BY <1>1, OnStack, Caller
<1>3. ASSUME f.at = "do_dlopen_ctors", k = Depth' PROVE Started(X)'
  <2>1. Depth' = Depth - 1 /\ k = Depth - 1 /\ Depth > 1
    <3>1. \A d, e \in Nat : d >= e - 1 /\ k = d /\ k \in 1..(e - 1) => d = e - 1 /\ k = e - 1 /\ e > 1
      OBVIOUS
    <3> QED BY <1>1, <1>3, <3>1
  <2>2. /\ Called(f, Top) /\ Top.at \in CtorsFrames /\ Top.lib \in Usable
        /\ inits[Top.lib] = 1 \/ \E m \in 1..(Depth - 1) :
                                    stack[m].at = "ctors_needed" /\ stack[m].lib = Top.lib
    BY <1>3, <2>1, CtorsReturn
  <2>3. Top.lib = X
    BY <1>3, <2>2 DEF Called
  <2>4. Constructed(X, Depth + 1)
    BY <1>1, <2>2, <2>3, ConstructedDepth
  <2>5. X \in listed
    BY <2>2, <2>3 DEF Usable, Resident
  <2> QED BY <2>4, <2>5, Monotone DEF Started
<1>4. ASSUME f.at \in UnloadFrames \cup {"soinfo_unload"} PROVE X \in listed
  <2>1. Carries(f, X)
    BY <1>4 DEF Carries
  <2> QED BY <1>1, <1>2, <2>1, CarriedCount DEF Resident
<1>5. ASSUME f.at = "soinfo_unload" PROVE Started(X)'
  <2>1. Started(X)
    BY <1>1, <1>5 DEF StartedInv
  <2> QED BY <1>4, <1>5, <2>1, StartedStays
<1>6. ASSUME f.at = "unload_needed" PROVE X \in SystemLibs \cup {Libdl} \/ inits'[X] = 1
  <2>1. X \in SystemLibs \cup {Libdl} \/ inits[X] = 1
    BY <1>1, <1>6 DEF StartedInv
  <2>2. X \in listed
    BY <1>4, <1>6 DEF UnloadFrames
  <2> QED BY <2>1, <2>2, Monotone
<1>7. ASSUME f.at = "unload_code" PROVE inits'[X] = 1
  <2>1. inits[X] = 1
    BY <1>1, <1>7 DEF StartedInv
  <2>2. X \in listed
    BY <1>4, <1>7 DEF UnloadFrames
  <2> QED BY <2>1, <2>2, Monotone
<1> QED BY <1>3, <1>5, <1>6, <1>7

\* Destructors are entered only for a library whose constructors ran to their end:
\* a frame still constructing it would hold a second reference.
LEMMA DestructsConstructed ==
  ASSUME IInv, StartedInv, UnloadStarts, Top.lib \notin SystemLibs \cup {Libdl}
  PROVE  inits[Top.lib] = 1
<1>1. stack # <<>> /\ Top.at = "soinfo_unload" /\ ref_count[Top.lib] = 1
  BY DEF UnloadStarts, At
<1>2. Depth \in Nat \ {0} /\ Top = stack[Depth]
  BY <1>1, Caller
<1>3. Constructed(Top.lib, Depth + 1)
  BY <1>1, <1>2 DEF StartedInv, Started
<1>4. ASSUME NEW m \in 1..Depth, stack[m].at = "ctors_needed", stack[m].lib = Top.lib
      PROVE  FALSE
  <2>1. m # Depth
    BY <1>1, <1>2, <1>4
  <2>2. m \in 1..(Depth - 1)
    BY <1>2, <2>1
  <2> QED BY <1>1, <1>4, <2>2, ConstructedElsewhere DEF FreeingFrames, CtorsFrames
<1>5. \A m \in 1..((Depth + 1) - 1) : m \in 1..Depth
  BY <1>2
<1> QED BY <1>3, <1>4, <1>5 DEF Constructed

\* The frames a step makes speak of started libraries.
LEMMA MadeStarted ==
  ASSUME SystemClosed, IInv, IInv', OrderInv, StartedInv, Next,
         NEW k \in 1..Depth', k >= Depth, NEW X, X = stack'[k].lib
  PROVE  /\ stack'[k].at = "do_dlopen_ctors" /\ k = Depth' => Started(X)'
         /\ stack'[k].at = "soinfo_unload" => Started(X)'
         /\ stack'[k].at = "unload_needed" => X \in SystemLibs \cup {Libdl} \/ inits'[X] = 1
         /\ stack'[k].at = "unload_code" => inits'[X] = 1
<1>1. Made(stack'[k], k) /\ Depth \in Nat /\ Depth' \in Nat
  BY StepMade DEF BelowKept, IInv, TypeOK, Depth
<1>2. ASSUME stack'[k].at = "do_dlopen_ctors", k = Depth' PROVE Started(X)'
  BY <1>1, <1>2 DEF Made
<1>3. ASSUME stack'[k].at = "soinfo_unload" PROVE Started(X)'
  <2>1. CASE \E L \in Lib : Dlclose(L) /\ X = L
    <3>1. X \in Lib /\ handles[X] > 0
      BY <2>1 DEF Dlclose
    <3>2. X \in listed
      BY <3>1, HandlesInv DEF HandleValid, Usable, Resident
    <3> QED BY <3>1, <3>2, StartedStays DEF StartedInv
  <2>2. CASE UnloadNeeded /\ X = Needed[Top.lib][Top.i]
    <3> DEFINE L == Top.lib
               i == Top.i
    <3>1. stack # <<>> /\ Top.at = "unload_needed" /\ i \in Entries(L)
      BY <2>2 DEF UnloadNeeded, At
    <3>2. Depth \in 1..Depth /\ Top = stack[Depth] /\ L \in Lib /\ OK(Top) /\ i \in Nat
      BY <3>1, Caller
    <3>3. <<L, i>> \in acquired
      BY <3>1, <3>2 DEF OK, FrameOK, UnloadFrame, UnloadFrames
    <3>4. X \in listed
      <4>1. Refs(X) # {} /\ X \in Lib
        BY <2>2, <3>1, <3>2, <3>3, EntryRefs, NeededIsLib
      <4> QED BY <4>1, EntryUsable DEF Usable, Resident
    <3>5. L \in SystemLibs \cup {Libdl} \/ inits[L] = 1
      BY <3>1, <3>2 DEF StartedInv
    <3>6. CASE inits[L] = 1
      <4>1. Started(X)
        BY <2>2, <3>3, <3>6 DEF StartedInv
      <4> QED BY <3>4, <4>1, StartedStays
    <3>7. CASE L \in SystemLibs \cup {Libdl}
      <4>1. X \in Deps(L)
        BY <2>2, <3>1 DEF Deps
      <4>2. L # Libdl
        BY <3>1, NeededAssumption DEF Entries
      <4> QED BY <3>7, <4>1, <4>2 DEF SystemClosed, Started
    <3> QED BY <3>5, <3>6, <3>7
  <2> QED BY <1>1, <1>3, <2>1, <2>2 DEF Made
<1>4. ASSUME stack # <<>>, X = Top.lib, Top.at \in UnloadFrames \cup {"soinfo_unload"}
      PROVE  X \in listed /\ Depth \in 1..Depth /\ Top = stack[Depth]
  <2>1. Depth \in 1..Depth /\ Top = stack[Depth] /\ X \in Lib
    BY <1>4, Caller
  <2>2. Carries(Top, X)
    BY <1>4 DEF Carries
  <2> QED BY <2>1, <2>2, CarriedCount DEF Resident
<1>5. ASSUME stack'[k].at = "unload_needed" PROVE X \in SystemLibs \cup {Libdl} \/ inits'[X] = 1
  <2>1. k = Depth /\ X = Top.lib /\ (Top.at \in UnloadFrames \/ X \in SystemLibs \cup {Libdl})
    BY <1>1, <1>5 DEF Made
  <2>2. ASSUME Top.at \in UnloadFrames, X \notin SystemLibs \cup {Libdl} PROVE inits'[X] = 1
    <3>1. stack # <<>> /\ Depth \in 1..Depth /\ Top = stack[Depth]
      BY <1>1, <2>1, OnStack
    <3>2. inits[X] = 1
      BY <2>1, <2>2, <3>1 DEF StartedInv, UnloadFrames
    <3>3. X \in listed
      BY <1>4, <2>1, <2>2, <3>1
    <3> QED BY <3>2, <3>3, Monotone
  <2> QED BY <2>1, <2>2
<1>6. ASSUME stack'[k].at = "unload_code" PROVE inits'[X] = 1
  <2>1. /\ k = Depth /\ X = Top.lib
        /\ Top.at = "unload_code" \/ (UnloadStarts /\ Top.lib \notin SystemLibs \cup {Libdl})
    BY <1>1, <1>6 DEF Made
  <2>2. stack # <<>> /\ Depth \in 1..Depth /\ Top = stack[Depth]
    BY <1>1, <2>1, OnStack
  <2>3. inits[X] = 1 /\ Top.at \in UnloadFrames \cup {"soinfo_unload"}
    <3>1. CASE Top.at = "unload_code"
      BY <2>1, <2>2, <3>1 DEF StartedInv, UnloadFrames
    <3>2. CASE UnloadStarts /\ Top.lib \notin SystemLibs \cup {Libdl}
      BY <2>1, <3>2, DestructsConstructed DEF UnloadStarts, At
    <3> QED BY <2>1, <3>1, <3>2
  <2>4. X \in listed
    BY <1>4, <2>1, <2>2, <2>3
  <2> QED BY <2>3, <2>4, Monotone
<1> QED BY <1>2, <1>3, <1>5, <1>6

\* StartedInv is kept, part by part.
LEMMA StartedStep ==
  ASSUME SystemClosed, IInv, IInv', OrderInv, StartedInv, [Next]_vars
  PROVE  StartedInv'
<1>1. CASE Next
  <2>1. \A X \in Lib : handles'[X] > 0 => Started(X)'
    BY <1>1, HandlesStarted
  <2>2. \A r \in acquired' : \A Y : inits'[r[1]] = 1 /\ Y = Needed[r[1]][r[2]] => Started(Y)'
    BY <1>1, EntriesStarted
  <2>3. ASSUME NEW k \in 1..Depth', NEW X, X = stack'[k].lib
        PROVE  /\ stack'[k].at = "do_dlopen_ctors" /\ k = Depth' => Started(X)'
               /\ stack'[k].at = "soinfo_unload" => Started(X)'
               /\ stack'[k].at = "unload_needed" => X \in SystemLibs \cup {Libdl} \/ inits'[X] = 1
               /\ stack'[k].at = "unload_code" => inits'[X] = 1
    <3>1. BelowKept /\ Depth \in Nat /\ Depth' \in Nat
      BY <1>1, StepMade DEF BelowKept, IInv, TypeOK, Depth
    <3>2. CASE k >= Depth
      BY <1>1, <2>3, <3>2, MadeStarted
    <3>3. CASE k \in 1..(Depth - 1)
      <4>1. stack'[k].at = stack[k].at /\ X = stack[k].lib
        BY <2>3, <3>1, <3>3 DEF BelowKept
      <4> QED BY <1>1, <3>3, <4>1, BelowStarted
    <3>4. k >= Depth \/ k \in 1..(Depth - 1)
      BY <3>1
    <3> QED BY <3>2, <3>3, <3>4
  <2> QED BY <2>1, <2>2, <2>3 DEF StartedInv, Started, Constructed
<1>2. CASE UNCHANGED vars
  <2>1. UNCHANGED <<stack, handles, acquired, inits>> /\ Depth' = Depth
    BY <1>2 DEF vars, soinfos, ghosts, Depth
  <2>2. \A X : Started(X)' <=> Started(X)
    BY <2>1 DEF Started, Constructed
  <2> QED BY <2>1, <2>2 DEF StartedInv, Started, Constructed
<1> QED BY <1>1, <1>2

\* Nor is there a handle, an entry or a frame at the start.
LEMMA StartedInit ==
  ASSUME Init
  PROVE  StartedInv
<1>1. acquired = {} /\ stack = <<>> /\ \A X \in Lib : ~(handles[X] > 0)
  BY DEF Init
<1>2. Depth = 0
  BY <1>1 DEF Depth
<1> QED BY <1>1, <1>2 DEF StartedInv

\* FullInv is inductive, and with it all that the runs check of it.
THEOREM FullInvariant == ASSUME SystemClosed PROVE Spec => []FullInv
<1>1. Init => StartedInv
  BY StartedInit
<1>2. IInv /\ IInv' /\ OrderInv /\ StartedInv /\ [Next]_vars => StartedInv'
  BY StartedStep
<1>3. IInv /\ OrderInv /\ StartedInv => FullInv
  BY DEF FullInv
<1> QED BY <1>1, <1>2, <1>3, Invariant, Ordered, PTL DEF Spec

\* CallDestructors is reached only for a library whose DT_INIT and DT_INIT_ARRAY
\* ran to their end, whatever those functions opened and closed.
THEOREM DestructsOnlyConstructed == ASSUME SystemClosed PROVE Spec => []DestructConstructed
<1>1. FullInv => DestructConstructed
  <2> SUFFICES ASSUME FullInv, NEW k \in 1..Depth, stack[k].at = "unload_code"
               PROVE  /\ inits[stack[k].lib] = 1
                      /\ \A j \in 1..Depth :
                           stack[j].at \in CtorsFrames => stack[j].lib # stack[k].lib
    BY DEF DestructConstructed, CtorsFrames
  <2>1. inits[stack[k].lib] = 1
    BY DEF FullInv, StartedInv
  <2>2. stack[k].lib \in Unloading
    BY UnloadingMember DEF UnloadFrames
  <2>3. ASSUME NEW j \in 1..Depth, stack[j].at \in CtorsFrames PROVE stack[j].lib # stack[k].lib
    BY <2>2, <2>3 DEF FullInv, IInv, FramesInv, CtorsFrame, Usable
  <2> QED BY <2>1, <2>3
<1> QED BY <1>1, FullInvariant, PTL

-----------------------------------------------------------------------------
(* Linker implements DynLoader.                                            *)

\* The step is one the client does not see.
Hidden == Usable' = Usable /\ handles' = handles

\* A step that neither lists, links nor frees, nor starts or ends an unloading,
\* leaves the same libraries usable.
LEMMA SameUsable ==
  ASSUME UNCHANGED <<listed, linked>>, Unloading' = Unloading
  PROVE  Usable' = Usable
BY DEF Usable, Resident

-----------------------------------------------------------------------------
(* The client's calls.                                                     *)

\* dlopen(NULL) only protects the pools.
LEMMA DlopenNullHidden ==
  ASSUME IInv, DlopenNull
  PROVE  Hidden
BY DEF DlopenNull, soinfos, Hidden, Usable, Resident, Unloading, Depth

\* A dlopen that starts shows nothing yet.
LEMMA DlopenHidden ==
  ASSUME IInv, NEW L \in Lib, Dlopen(L)
  PROVE  Hidden
<1> DEFINE f == Frame("do_dlopen", L, 0)
           g == Frame("find_library", L, 0)
<1>1. /\ Enter(f, g)
      /\ UNCHANGED <<listed, linked, handles>>
  BY DEF Dlopen, soinfos
<1>2. f \in Frames /\ f.at \notin UnloadFrames /\ g \in Frames /\ g.at \notin UnloadFrames
  BY FrameFields DEF Labels, UnloadFrames
<1> HIDE DEF f, g
<1>3. Unloading' = Unloading
  BY <1>1, <1>2, EnterUnloading DEF IInv, TypeOK
<1> QED BY <1>1, <1>3, SameUsable DEF Hidden

\* A dlclose takes the handle back at once, whatever it goes on to unload.
LEMMA DlcloseCloses ==
  ASSUME IInv, NEW L \in Lib, Dlclose(L)
  PROVE  Usable' = Usable /\ Promise!Close(L)
<1> DEFINE f == Frame("do_dlclose", L, 0)
           g == Frame("soinfo_unload", L, 0)
<1>1. /\ Enter(f, g)
      /\ handles[L] > 0
      /\ handles' = [handles EXCEPT ![L] = @ - 1]
      /\ UNCHANGED <<listed, linked>>
  BY DEF Dlclose, soinfos
<1>2. f \in Frames /\ f.at \notin UnloadFrames /\ g \in Frames /\ g.at \notin UnloadFrames
  BY FrameFields DEF Labels, UnloadFrames
<1> HIDE DEF f, g
<1>3. Unloading' = Unloading
  BY <1>1, <1>2, EnterUnloading DEF IInv, TypeOK
<1>4. Usable' = Usable
  BY <1>1, <1>3, SameUsable
<1> QED BY <1>1, <1>4 DEF Promise!Close

-----------------------------------------------------------------------------
(* Searching and linking.                                                  *)

\* A search that ends without linking changes nothing the client sees.
LEMMA FindHidden ==
  ASSUME IInv, FindLinked \/ FindFails
  PROVE  Hidden
<1>1. /\ stack # <<>> /\ Top.at = "find_library"
      /\ \E ret \in {"ok", "fail"} : Return(ret)
      /\ UNCHANGED <<listed, linked, handles>>
  BY DEF FindLinked, FindFails, At, soinfos
<1>2. Depth > 1
  BY <1>1, SearchCaller DEF FindFrames
<1>3. Unloading' = Unloading
  BY <1>1, <1>2, ReturnUnloading DEF IInv, TypeOK, UnloadFrames
<1> QED BY <1>1, <1>3, SameUsable DEF Hidden

\* A library listed is not usable before it is linked.
LEMMA LoadLibraryHidden ==
  ASSUME IInv, LoadLibrary
  PROVE  Hidden
<1> DEFINE L == Top.lib
           f == Frame("link_image", L, 1)
<1>1. /\ stack # <<>> /\ Top.at = "find_library" /\ L \notin listed
      /\ listed' = listed \cup {L}
      /\ linked' = [linked EXCEPT ![L] = FALSE]
      /\ Goto(f)
      /\ handles' = handles
  BY DEF LoadLibrary, At
<1>2. L \in Lib /\ stack \in Seq(Frames) /\ linked \in [Lib -> BOOLEAN]
  BY <1>1, Caller DEF IInv, TypeOK
<1>3. f \in Frames /\ f.at = "link_image" /\ f.lib = L
  BY <1>2, FrameFields DEF Labels
<1> HIDE DEF f
<1>4. Unloading' = Unloading
  BY <1>1, <1>2, <1>3, GotoUnloading DEF UnloadFrames
<1>5. Resident' = Resident
  <2>1. \A X : X \in Resident' <=> X \in Resident
    BY <1>1, <1>2 DEF Resident, IInv, TypeOK
  <2> QED BY <2>1 DEF Resident
<1> QED BY <1>1, <1>4, <1>5 DEF Hidden, Usable

\* Neither do the steps of its loop over DT_NEEDED make it so.
LEMMA LinkLoopHidden ==
  ASSUME IInv, LinkNeeded \/ LinkAcquire
  PROVE  Hidden
<1> DEFINE L == Top.lib
<1>1. /\ stack # <<>> /\ Top.at = "link_image"
      /\ UNCHANGED <<listed, linked, handles>>
  BY DEF LinkNeeded, LinkAcquire, At, soinfos
<1>2. L \in Lib /\ Top \in Frames /\ Top.i \in Nat /\ stack \in Seq(Frames)
  BY <1>1, Caller DEF IInv, TypeOK
<1>3. ASSUME LinkNeeded PROVE Unloading' = Unloading
  <2> DEFINE g == Frame("find_library", Needed[L][Top.i], 0)
  <2>1. Call(Top, g) /\ Top.i \in Entries(L)
    BY <1>3 DEF LinkNeeded
  <2>2. Needed[L][Top.i] \in Lib
    BY <1>2, <2>1, NeededIsLib
  <2>3. g \in Frames /\ g.at = "find_library"
    BY <2>2, FrameFields DEF Labels
  <2> HIDE DEF g
  <2> QED BY <1>1, <1>2, <2>1, <2>3, CallUnloading DEF UnloadFrames
<1>4. ASSUME LinkAcquire PROVE Unloading' = Unloading
  <2> DEFINE f == Frame("link_image", L, Top.i + 1)
  <2>1. Goto(f)
    BY <1>4 DEF LinkAcquire
  <2>2. Top.i + 1 \in Nat /\ "link_image" \in Labels
    BY <1>2 DEF Labels
  <2>3. f \in Frames /\ f.at = "link_image" /\ f.lib = L
    BY <1>2, <2>2, FrameFields
  <2> HIDE DEF f
  <2> QED BY <1>1, <1>2, <2>1, <2>3, GotoUnloading DEF UnloadFrames
<1> QED BY <1>1, <1>3, <1>4, SameUsable DEF Hidden

\* A link that is done makes the library usable, and all it needs is usable then.
LEMMA LinkDoneLoads ==
  ASSUME IInv, LinkDone
  PROVE  handles' = handles /\ \E X \in Lib : Promise!Load(X)
<1> DEFINE L == Top.lib
<1>1. /\ stack # <<>> /\ Top.at = "link_image" /\ Top.ret = "none" /\ Top.i \notin Entries(L)
      /\ linked' = [linked EXCEPT ![L] = TRUE]
      /\ Return("ok")
      /\ UNCHANGED <<listed, handles, acquired>>
  BY DEF LinkDone, At, ghosts
<1>2. /\ stack \in Seq(Frames) /\ Depth > 1 /\ Top.at \in FindFrames
      /\ L \in Lib /\ L \notin Unloading /\ OK(Top) /\ Top.i \in Nat
      /\ linked \in [Lib -> BOOLEAN] /\ listed \subseteq Lib
  BY <1>1, SearchCaller, Caller DEF IInv, TypeOK, FindFrames
<1>3. Unloading' = Unloading
  BY <1>1, <1>2, ReturnUnloading DEF UnloadFrames
<1>4. /\ L \in listed /\ ~linked[L]
      /\ Top.i \in 1..(Len(Needed[L]) + 1)
      /\ \A j \in Entries(L) : <<L, j>> \in acquired <=> j < Top.i
  BY <1>1, <1>2 DEF OK, FrameOK, LinkFrame
<1>5. L \notin Usable /\ Usable' = Usable \cup {L}
  <2>1. \A X : X \in Resident' <=> X \in Resident \/ X = L
    BY <1>1, <1>2, <1>4 DEF Resident
  <2>2. \A X : X \in Usable' <=> X \in Usable \/ X = L
    BY <1>2, <1>3, <2>1 DEF Usable
  <2> QED BY <1>4, <2>2 DEF Usable, Resident
<1>6. Promise!Requires(L) \subseteq Usable
  <2> SUFFICES ASSUME NEW j \in Entries(L) PROVE Needed[L][j] \in Usable
    BY DEF Promise!Requires, Entries
  <2>1. Needed[L] \in Seq(Lib) /\ j \in 1..Len(Needed[L])
    BY <1>2, NeededAssumption DEF Entries
  <2>2. Top.i = Len(Needed[L]) + 1
    BY <1>1, <1>4, <2>1 DEF Entries
  <2>3. <<L, j>> \in acquired
    BY <1>4, <2>1, <2>2
  <2> QED BY <1>2, <2>3, NeededIsLib, EntryRefs, EntryUsable
<1> QED BY <1>1, <1>2, <1>5, <1>6 DEF Promise!Load

\* A failed link frees a library that never was usable.
LEMMA LinkFailsHidden ==
  ASSUME IInv, LinkFails
  PROVE  Hidden
<1> DEFINE L == Top.lib
<1>1. /\ stack # <<>> /\ Top.at = "link_image"
      /\ listed' = listed \ {L}
      /\ Return("fail")
      /\ UNCHANGED <<linked, handles>>
  BY DEF LinkFails, At
<1>2. stack \in Seq(Frames) /\ Depth > 1 /\ ~linked[L]
  BY <1>1, SearchCaller, Caller DEF IInv, TypeOK, FindFrames, OK, FrameOK, LinkFrame
<1>3. Unloading' = Unloading
  BY <1>1, <1>2, ReturnUnloading DEF UnloadFrames
<1>4. \A X : X \in Resident' <=> X \in Resident
  BY <1>1, <1>2 DEF Resident
<1> QED BY <1>1, <1>3, <1>4 DEF Hidden, Usable, Resident

-----------------------------------------------------------------------------
(* The rest of do_dlopen, and the constructors.                            *)

\* dlopen returns a usable library.
LEMMA DlopenReturnsOpens ==
  ASSUME IInv, DlopenReturns
  PROVE  Usable' = Usable /\ \E X \in Lib : Promise!Open(X)
<1> DEFINE L == Top.lib
<1>1. /\ stack # <<>>
      /\ (Top.at = "do_dlopen" /\ Top.ret = "ok") \/ Top.at = "do_dlopen_ctors"
      /\ handles' = [handles EXCEPT ![L] = @ + 1]
      /\ Pop
      /\ UNCHANGED <<listed, linked>>
  BY DEF DlopenReturns, At, soinfos
<1>2. L \in Lib /\ Depth \in 1..Depth /\ Top = stack[Depth] /\ stack \in Seq(Frames)
  <2>1. Depth \in Nat \ {0}
    BY <1>1, Caller
  <2> QED BY <1>1, <2>1, Caller DEF IInv, TypeOK
<1>3. Unloading' = Unloading
  BY <1>1, <1>2, PopUnloading DEF UnloadFrames
<1>4. Usable' = Usable
  BY <1>1, <1>3, SameUsable
<1>5. Carries(Top, L) /\ Top.at \notin UnloadFrames
  BY <1>1 DEF Carries, UnloadFrames
<1>6. L \in Usable
  BY <1>2, <1>5, CarriedUsable
<1> QED BY <1>1, <1>2, <1>4, <1>6 DEF Promise!Open

\* The linker's other steps up to the end of the constructors.
LEMMA OpenHidden ==
  ASSUME IInv, DlopenFails \/ DlopenConstruct \/ CtorsStep
  PROVE  Hidden
<1> DEFINE L == Top.lib
<1>1. stack # <<>>
  BY DEF DlopenFails, DlopenConstruct, CtorsStep, ConstructAgain, ConstructFirst, ConstructNeeded,
         ConstructRun, ConstructReturns, At
<1>2. L \in Lib /\ Top.i \in Nat /\ Top.i + 1 \in Nat /\ stack \in Seq(Frames)
  BY <1>1, Caller DEF IInv, TypeOK
<1>3. ASSUME DlopenFails \/ ConstructAgain \/ ConstructReturns
      PROVE  Hidden
  <2>1. Pop /\ Top.at \notin UnloadFrames /\ UNCHANGED <<listed, linked, handles>>
    BY <1>3 DEF DlopenFails, ConstructAgain, ConstructReturns, At, soinfos, UnloadFrames
  <2>2. Unloading' = Unloading
    BY <1>1, <1>2, <2>1, PopUnloading
  <2> QED BY <2>1, <2>2, SameUsable DEF Hidden
<1>4. ASSUME ConstructFirst \/ ConstructRun
      PROVE  Hidden
  <2>1. /\ Top.at \in CtorsFrames
        /\ \E at \in CtorsFrames, i \in Nat : Goto(Frame(at, L, i))
        /\ UNCHANGED <<listed, linked, handles>>
    BY <1>4 DEF ConstructFirst, ConstructRun, At, soinfos, CtorsFrames
  <2>2. PICK at \in CtorsFrames, i \in Nat : Goto(Frame(at, L, i))
    BY <2>1
  <2> DEFINE f == Frame(at, L, i)
  <2>3. f \in Frames /\ f.at \notin UnloadFrames /\ f.lib = L
    BY <1>2, FrameFields DEF Labels, CtorsFrames, UnloadFrames, CodeFrames
  <2>4. Goto(f) /\ Top.at \notin UnloadFrames
    BY <2>1, <2>2 DEF CtorsFrames, UnloadFrames
  <2> HIDE DEF f
  <2>5. Unloading' = Unloading
    BY <1>1, <1>2, <2>3, <2>4, GotoUnloading
  <2> QED BY <2>1, <2>5, SameUsable DEF Hidden
<1>5. ASSUME DlopenConstruct
      PROVE  Hidden
  <2> DEFINE f == Frame("do_dlopen_ctors", L, 0)
             g == Frame("CallConstructors", L, 0)
  <2>1. Top.at = "do_dlopen" /\ Call(f, g) /\ UNCHANGED <<listed, linked, handles>>
    BY <1>5 DEF DlopenConstruct, At, soinfos
  <2>2. /\ f \in Frames /\ f.at = "do_dlopen_ctors" /\ f.lib = L
        /\ g \in Frames /\ g.at = "CallConstructors"
    <3>1. "do_dlopen_ctors" \in Labels /\ "CallConstructors" \in Labels /\ 0 \in Nat
      BY DEF Labels
    <3> QED BY <1>2, <3>1, FrameFields
  <2> HIDE DEF f, g
  <2>3. Unloading' = Unloading
    BY <1>1, <1>2, <2>1, <2>2, CallUnloading DEF UnloadFrames
  <2> QED BY <2>1, <2>3, SameUsable DEF Hidden
<1>6. ASSUME ConstructNeeded
      PROVE  Hidden
  <2> DEFINE f == Frame("ctors_needed", L, Top.i + 1)
             g == Frame("CallConstructors", Needed[L][Top.i], 0)
  <2>1. /\ Top.at = "ctors_needed" /\ Top.i \in Entries(L)
        /\ Call(f, g) /\ UNCHANGED <<listed, linked, handles>>
    BY <1>6 DEF ConstructNeeded, At, soinfos
  <2>2. Needed[L][Top.i] \in Lib
    BY <1>2, <2>1, NeededIsLib
  <2>3. /\ f \in Frames /\ f.at = "ctors_needed" /\ f.lib = L
        /\ g \in Frames /\ g.at = "CallConstructors"
    <3>1. "ctors_needed" \in Labels /\ "CallConstructors" \in Labels /\ 0 \in Nat
      BY DEF Labels
    <3> QED BY <1>2, <2>2, <3>1, FrameFields
  <2> HIDE DEF f, g
  <2>4. Unloading' = Unloading
    BY <1>1, <1>2, <2>1, <2>3, CallUnloading DEF UnloadFrames
  <2> QED BY <2>1, <2>4, SameUsable DEF Hidden
<1> QED BY <1>3, <1>4, <1>5, <1>6 DEF CtorsStep

-----------------------------------------------------------------------------
(* soinfo_unload and the rest of do_dlclose.                               *)

\* The last reference to a library is dropped when no handle and no usable
\* library refers to it any more; libdl's own reference is never dropped.
LEMMA UnloadStartsUnloads ==
  ASSUME IInv, UnloadStarts
  PROVE  handles' = handles /\ \E X \in Lib : Promise!Unload(X)
<1> DEFINE L == Top.lib
           f == IF L \in SystemLibs \cup {Libdl} THEN Frame("unload_needed", L, 1)
                                                ELSE Frame("unload_code", L, 0)
<1>1. /\ stack # <<>> /\ Top.at = "soinfo_unload" /\ ref_count[L] = 1
      /\ Goto(f)
      /\ UNCHANGED <<listed, linked, handles>>
  BY DEF UnloadStarts, At, soinfos
<1>2. L \in Lib /\ Depth \in 1..Depth /\ Top = stack[Depth] /\ stack \in Seq(Frames)
  <2>1. Depth \in Nat \ {0}
    BY <1>1, Caller
  <2> QED BY <1>1, <2>1, Caller DEF IInv, TypeOK
<1>3. f \in Frames /\ f.at \in UnloadFrames /\ f.lib = L
  <2>1. "unload_needed" \in Labels /\ "unload_code" \in Labels /\ 0 \in Nat /\ 1 \in Nat
    BY DEF Labels, UnloadFrames
  <2> QED BY <1>2, <2>1, FrameFields DEF UnloadFrames
<1> HIDE DEF f
<1>4. Carries(Top, L) /\ Top.at \notin UnloadFrames
  BY <1>1 DEF Carries, UnloadFrames
<1>5. L \in Usable
  BY <1>2, <1>4, CarriedUsable
<1>6. Refs(L) = {} /\ handles[L] = 0 /\ L # Libdl
  <2> DEFINE own == IF L = Libdl THEN LibdlRefs ELSE 0
             t == Cardinality(Transit(L))
             r == Cardinality(Refs(L))
             h == handles[L]
             l == leaked[L]
  <2>1. /\ own \in Nat /\ t \in Nat /\ r \in Nat /\ h \in Nat /\ l \in Nat
        /\ 1 = own + h + t + r + l
        /\ IsFiniteSet(Transit(L))
    BY <1>1, <1>2, Numbers DEF IInv
  <2>2. t >= 1
    <3>1. Depth \in Transit(L)
      BY <1>2, <1>4 DEF Transit
    <3> QED BY <2>1, <3>1, NotEmpty
  <2>3. L = Libdl => own > 1
    BY RefsAssumption
  <2> HIDE DEF own, t, r, h, l
  <2>4. h = 0 /\ ~(own > 1)
    BY <2>1, <2>2
  <2>5. Refs(L) = {}
    <3>1. Refs(L) # {} => ref_count[L] >= 2
      BY <1>2, <1>4, CarriedCount
    <3> QED BY <1>1, <3>1
  <2> QED BY <2>3, <2>4, <2>5 DEF h
<1>7. \A Y \in Usable : L \notin Promise!Requires(Y)
  <2> SUFFICES ASSUME NEW Y \in Usable, NEW j \in DOMAIN Needed[Y], L = Needed[Y][j]
               PROVE  FALSE
    BY DEF Promise!Requires
  <2>1. <<Y, j>> \in acquired
    BY DEF IInv, EntriesHeld, Entries
  <2> QED BY <1>6, <2>1, EntryRefs
<1>8. Usable' = Usable \ {L}
  <2>1. /\ Depth' = Depth
        /\ stack'[Depth] = f
        /\ \A k \in 1..(Depth - 1) : stack'[k] = stack[k]
    BY <1>1, <1>2, <1>3, GotoShape
  <2>2. Depth \in Nat \ {0}
    BY <1>1, Caller
  <2>3. \A k \in 1..Depth : k = Depth \/ k \in 1..(Depth - 1)
    BY <2>2
  <2>4. \A X : X \in Unloading' <=> X \in Unloading \/ X = L
    BY <1>2, <1>3, <1>4, <2>1, <2>3, UnloadingMember
  <2>5. \A X : X \in Usable' <=> X \in Usable /\ X # L
    BY <1>1, <2>4 DEF Usable, Resident
  <2> QED BY <2>5
<1> QED BY <1>1, <1>2, <1>5, <1>6, <1>7, <1>8 DEF Promise!Unload

\* The linker's other steps of a dlclose change nothing more for the client.
LEMMA CloseHidden ==
  ASSUME IInv, UnloadShared \/ DestructReturns \/ UnloadNeeded \/ UnloadDone \/ DlcloseReturns
  PROVE  Hidden
<1> DEFINE L == Top.lib
<1>1. stack # <<>>
  BY DEF UnloadShared, DestructReturns, UnloadNeeded, UnloadDone, DlcloseReturns, At
<1>2. L \in Lib /\ Top.i \in Nat /\ Top.i + 1 \in Nat /\ stack \in Seq(Frames)
  <2>1. stack \in Seq(Frames)
    BY DEF IInv, TypeOK
  <2>2. Top.lib \in Lib /\ Top.i \in Nat
    BY <1>1, Caller
  <2> HIDE DEF IInv
  <2> QED BY ONLY <2>1, <2>2
<1>3. ASSUME UnloadShared \/ DlcloseReturns
      PROVE  Hidden
  <2>1. Pop /\ Top.at \notin UnloadFrames /\ UNCHANGED <<listed, linked, handles>>
    BY <1>3 DEF UnloadShared, DlcloseReturns, At, soinfos, UnloadFrames
  <2>2. Unloading' = Unloading
    BY <1>1, <1>2, <2>1, PopUnloading
  <2> QED BY <2>1, <2>2, SameUsable DEF Hidden
<1>4. ASSUME DestructReturns
      PROVE  Hidden
  <2> DEFINE f == Frame("unload_needed", L, 1)
  <2>1. Top.at = "unload_code" /\ Goto(f) /\ UNCHANGED <<listed, linked, handles>>
    BY <1>4 DEF DestructReturns, At, soinfos
  <2>2. f \in Frames /\ f.at = "unload_needed" /\ f.lib = L
    <3>1. "unload_needed" \in Labels /\ 1 \in Nat
      BY DEF Labels, UnloadFrames
    <3> QED BY <1>2, <3>1, FrameFields
  <2> HIDE DEF f
  <2>3. Unloading' = Unloading
    BY <1>1, <1>2, <2>1, <2>2, GotoUnloading DEF UnloadFrames
  <2> QED BY <2>1, <2>3, SameUsable DEF Hidden
<1>5. ASSUME UnloadNeeded
      PROVE  Hidden
  <2> DEFINE f == Frame("unload_needed", L, Top.i + 1)
             g == Frame("soinfo_unload", Needed[L][Top.i], 0)
  <2>1. /\ Top.at = "unload_needed" /\ Top.i \in Entries(L)
        /\ Call(f, g) /\ UNCHANGED <<listed, linked, handles>>
    BY <1>5 DEF UnloadNeeded, At, soinfos
  <2>2. Needed[L][Top.i] \in Lib
    BY <1>2, <2>1, NeededIsLib
  <2>3. /\ f \in Frames /\ f.at = "unload_needed" /\ f.lib = L
        /\ g \in Frames /\ g.at = "soinfo_unload"
    <3>1. "unload_needed" \in Labels /\ "soinfo_unload" \in Labels /\ 0 \in Nat
      BY DEF Labels, UnloadFrames
    <3> QED BY <1>2, <2>2, <3>1, FrameFields
  <2> HIDE DEF f, g
  <2>4. Unloading' = Unloading
    BY <1>1, <1>2, <2>1, <2>3, CallUnloading DEF UnloadFrames
  <2> QED BY <2>1, <2>4, SameUsable DEF Hidden
<1>6. ASSUME UnloadDone
      PROVE  Hidden
  <2>1. /\ Top.at = "unload_needed" /\ Pop
        /\ listed' = listed \ {L}
        /\ UNCHANGED <<linked, handles>>
    BY <1>6 DEF UnloadDone, At
  <2>2. Top \in Frames /\ Depth \in 1..Depth /\ Top = stack[Depth]
    <3>1. Depth \in Nat \ {0}
      BY <1>1, Caller
    <3> QED BY <1>1, <3>1, Caller
  <2>3. L \in Unloading /\ Unloading' \subseteq Unloading /\ Unloading \ {L} \subseteq Unloading'
    BY <1>1, <1>2, <2>1, <2>2, PopUnloading, UnloadingMember DEF UnloadFrames
  <2>4. \A X : X \in Usable' <=> X \in Usable
    BY <2>1, <2>3 DEF Usable, Resident
  <2> QED BY <2>1, <2>4 DEF Hidden
<1> QED BY <1>3, <1>4, <1>5, <1>6

-----------------------------------------------------------------------------
(* The refinement.                                                         *)

\* No library but libdl is usable before the first dlopen.
LEMMA InitPromised ==
  ASSUME Init
  PROVE  Promise!Init
<1>1. Depth = 0 /\ Unloading = {}
  BY DEF Init, Depth, Unloading
<1>2. \A X : X \in Usable <=> X = Libdl
  BY <1>1, LibdlAssumption DEF Init, Usable, Resident
<1> QED BY <1>2 DEF Init, Promise!Init

\* Every step of the linker is one the promise allows, or is hidden from the client.
LEMMA NextPromised ==
  ASSUME IInv, [Next]_vars
  PROVE  [Promise!Next]_<<Usable, handles>>
<1>1. CASE UNCHANGED vars
  BY <1>1 DEF vars, soinfos, Usable, Resident, Unloading, Depth
<1>2. CASE ClientCall
  BY <1>2, DlopenNullHidden, DlopenHidden, DlcloseCloses DEF ClientCall, Hidden, Promise!Next
<1>3. CASE FindStep
  BY <1>3, FindHidden, LoadLibraryHidden DEF FindStep, Hidden
<1>4. CASE LinkStep
  BY <1>4, LinkLoopHidden, LinkDoneLoads, LinkFailsHidden DEF LinkStep, Hidden, Promise!Next
<1>5. CASE OpenStep
  BY <1>5, OpenHidden, DlopenReturnsOpens DEF OpenStep, Hidden, Promise!Next
<1>6. CASE CtorsStep
  BY <1>6, OpenHidden DEF Hidden
<1>7. CASE UnloadStep
  BY <1>7, UnloadStartsUnloads, CloseHidden DEF UnloadStep, Hidden, Promise!Next
<1> QED BY <1>1, <1>2, <1>3, <1>4, <1>5, <1>6, <1>7 DEF Next, LinkerStep

\* The linker implements what it promises: reference counts, nested calls from
\* constructors and destructors and failed links included, the client sees only
\* libraries that become usable after all they need, stop being usable when
\* nobody refers to them, and handles on usable ones.
THEOREM Implemented == Spec => Implements
<1>1. Init => Promise!Init
  BY InitPromised
<1>2. IInv /\ [Next]_vars => [Promise!Next]_<<Usable, handles>>
  BY NextPromised
<1> QED BY <1>1, <1>2, Invariant, PTL DEF Spec, Implements, Promise!Spec

-----------------------------------------------------------------------------
(* What a library must be to be freed.                                     *)

\* Only a failed link and the end of soinfo_unload take a soinfo off solist.
LEMMA Frees ==
  ASSUME [Next]_vars, NEW X \in listed, X \notin listed'
  PROVE  (LinkFails \/ UnloadDone) /\ X = Top.lib
<1>1. LinkFails \/ UnloadDone \/ listed \subseteq listed'
  BY DEF Next, ClientCall, DlopenNull, Dlopen, Dlclose, LinkerStep, FindStep, FindLinked, FindFails,
         LoadLibrary, LinkStep, LinkNeeded, LinkAcquire, LinkDone, OpenStep, DlopenFails,
         DlopenConstruct, DlopenReturns, CtorsStep, ConstructAgain, ConstructFirst, ConstructNeeded,
         ConstructRun, ConstructReturns, UnloadStep, UnloadShared, UnloadStarts, DestructReturns,
         UnloadNeeded, DlcloseReturns, vars, soinfos
<1>2. LinkFails \/ UnloadDone => listed' = listed \ {Top.lib}
  BY DEF LinkFails, UnloadDone
<1> QED BY <1>1, <1>2

\* A count that is used up by n frames leaves nothing for the other holders.
LEMMA NoOther ==
  ASSUME IInv, NEW X \in Lib, ref_count[X] = Cardinality(Transit(X))
  PROVE  handles[X] = 0 /\ Refs(X) = {} /\ leaked[X] = 0
<1> DEFINE own == IF X = Libdl THEN LibdlRefs ELSE 0
           t == Cardinality(Transit(X))
           r == Cardinality(Refs(X))
<1>1. /\ IsFiniteSet(Refs(X))
      /\ own \in Nat /\ t \in Nat /\ r \in Nat /\ handles[X] \in Nat /\ leaked[X] \in Nat
      /\ ref_count[X] = own + handles[X] + t + r + leaked[X]
  BY Numbers DEF IInv
<1>2. Refs(X) # {} => r >= 1
  BY <1>1, NotEmpty
<1> HIDE DEF own, r
<1>3. handles[X] = 0 /\ leaked[X] = 0 /\ r = 0
  BY <1>1
<1> QED BY <1>2, <1>3

\* No frame waits in find_library.
LEMMA SearchDoesNotWait ==
  ASSUME IInv, NEW k \in 1..(Depth - 1)
  PROVE  stack[k].at # "find_library"
<1>1. /\ Depth \in Nat /\ stack \in Seq(Frames) /\ k + 1 \in 1..Depth /\ k + 1 > 1
      /\ (k + 1) - 1 = k
  <2>1. Depth \in Nat /\ stack \in Seq(Frames)
    BY DEF IInv, TypeOK, Depth
  <2>2. \A d \in Nat : \A j \in 1..(d - 1) : j + 1 \in 1..d /\ j + 1 > 1 /\ (j + 1) - 1 = j
    OBVIOUS
  <2> QED BY <2>1, <2>2
<1>2. Called(stack[k], stack[k + 1])
  BY <1>1 DEF IInv, StackInv, WellStacked
<1>3. stack[k + 1].at \in Labels
  <2>1. stack # <<>>
    BY <1>1 DEF Depth
  <2>2. stack[k + 1] \in Frames
    BY <1>1, <2>1, Caller
  <2> QED BY <2>2 DEF Frames
<1> QED BY <1>2, <1>3 DEF Called, Labels, CodeFrames, UnloadFrames, EntryFrames, FindFrames,
                          CtorsFrames, FreeingFrames

\* A library whose link fails has been given to nobody.
LEMMA FailedUnreferenced ==
  ASSUME IInv, LinkFails, NEW X, X = Top.lib
  PROVE  /\ handles[X] = 0 /\ Refs(X) = {} /\ leaked[X] = 0
         /\ \A k \in 1..(Depth - 1) :
              stack[k].lib = X => stack[k].at \in {"do_dlopen", "do_dlclose"}
<1>1. stack # <<>> /\ Top.at = "link_image"
  BY DEF LinkFails, At
<1>2. Depth \in Nat \ {0} /\ Top = stack[Depth] /\ X \in Lib /\ OK(Top)
      /\ \A k \in 1..Depth : stack[k] \in Frames
  BY <1>1, Caller
<1>3. ~linked[X] /\ ref_count[X] = 0
  BY <1>1, <1>2 DEF OK, FrameOK, LinkFrame
<1>4. \A k \in 1..Depth : ~Carries(stack[k], X)
  BY <1>2, <1>3, CarriedCount
<1>5. ref_count[X] = Cardinality(Transit(X))
  <2>1. Transit(X) = {}
    BY <1>4 DEF Transit
  <2> QED BY <1>3, <2>1, FS_EmptySet
<1>6. ASSUME NEW k \in 1..(Depth - 1), stack[k].lib = X
      PROVE  stack[k].at \in {"do_dlopen", "do_dlclose"}
  <2>1. k \in 1..Depth /\ k # Depth /\ Depth \in 1..Depth
    BY <1>2
  <2>2. stack[k].at \notin CtorsFrames
    BY <1>3, <1>6, <2>1 DEF IInv, FramesInv, CtorsFrame, Usable, Resident
  <2>3. stack[k].at # "link_image"
    BY <1>1, <1>2, <1>6, <2>1 DEF IInv, StackInv, LinkOnce
  <2>4. stack[k].at \notin UnloadFrames \cup {"do_dlopen_ctors", "soinfo_unload"}
    BY <1>4, <1>6, <2>1 DEF Carries
  <2>5. stack[k].at \in Labels /\ stack[k].at # "find_library"
    BY <1>2, <2>1, SearchDoesNotWait DEF Frames
  <2> QED BY <2>2, <2>3, <2>4, <2>5 DEF Labels, CodeFrames, UnloadFrames, CtorsFrames
<1> QED BY <1>2, <1>5, <1>6, NoOther

\* A library soinfo_unload frees is referenced by that call only.
LEMMA UnloadedUnreferenced ==
  ASSUME IInv, UnloadDone, NEW X, X = Top.lib
  PROVE  /\ handles[X] = 0 /\ Refs(X) = {} /\ leaked[X] = 0
         /\ \A k \in 1..(Depth - 1) :
              stack[k].lib = X => stack[k].at \in {"do_dlopen", "do_dlclose"}
<1>1. stack # <<>> /\ Top.at = "unload_needed"
  BY DEF UnloadDone, At
<1>2. Depth \in Nat \ {0} /\ Top = stack[Depth] /\ X \in Lib /\ OK(Top) /\ Depth \in 1..Depth
      /\ \A k \in 1..Depth : stack[k] \in Frames
  <2>1. \A d \in Nat \ {0} : d \in 1..d
    OBVIOUS
  <2> QED BY <1>1, <2>1, Caller
<1>3. ref_count[X] = 1 /\ Carries(stack[Depth], X)
  BY <1>1, <1>2 DEF OK, FrameOK, UnloadFrame, UnloadFrames, Carries
<1>4. \A k \in 1..Depth : k # Depth => ~Carries(stack[k], X)
  BY <1>2, <1>3, CarriedCount
<1>5. ref_count[X] = Cardinality(Transit(X))
  <2>1. Transit(X) = {Depth}
    BY <1>2, <1>3, <1>4 DEF Transit
  <2> QED BY <1>3, <2>1, FS_Singleton
<1>6. ASSUME NEW k \in 1..(Depth - 1), stack[k].lib = X
      PROVE  stack[k].at \in {"do_dlopen", "do_dlclose"}
  <2>1. k \in 1..Depth /\ k # Depth
    BY <1>2
  <2>2. stack[k].at \notin CtorsFrames
    BY <1>1, <1>3, <1>6, ConstructedElsewhere DEF FreeingFrames, UnloadFrames
  <2>3. stack[k].at \notin FindFrames
    BY <1>1, <2>1, NoSearchBelow DEF FindFrames
  <2>4. stack[k].at \notin UnloadFrames \cup {"do_dlopen_ctors", "soinfo_unload"}
    BY <1>4, <1>6, <2>1 DEF Carries
  <2>5. stack[k].at \in Labels
    BY <1>2, <2>1 DEF Frames
  <2> QED BY <2>2, <2>3, <2>4, <2>5 DEF Labels, CodeFrames, UnloadFrames, CtorsFrames, FindFrames
<1> QED BY <1>2, <1>5, <1>6, NoOther

\* A soinfo is freed by nobody but the call that dropped its last reference.
THEOREM FreedByItsLastUser == Spec => FreedUnreferenced
<1>1. IInv /\ [Next]_vars =>
        [\A X \in listed \ listed' :
           handles[X] = 0 /\ Refs(X) = {} /\ leaked[X] = 0
             /\ \A k \in 1..(Depth - 1) :
                  stack[k].lib = X => stack[k].at \in {"do_dlopen", "do_dlclose"}]_vars
  BY Frees, FailedUnreferenced, UnloadedUnreferenced
<1> QED BY <1>1, Invariant, PTL DEF Spec, FreedUnreferenced

=============================================================================
