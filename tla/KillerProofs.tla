---------------------------- MODULE KillerProofs ----------------------------
(***************************************************************************)
(* What holds of the native side of the killer for every set of threads,   *)
(* listeners and lines of the maps, and for loads nested to any depth.     *)
(***************************************************************************)
EXTENDS Killer, Maps, SequenceFacts

-----------------------------------------------------------------------------
(* The inductive invariant of the hook of do_dlopen *)

Stages == {"uninitialised", "listener", "origin", "commit", "end", "initialised"}
Frames == [phase : {"original", "callback", "loop", "listener"},
           detach : BOOLEAN, todo : Seq(Listeners)]

KillerTypeOK ==
    /\ init \in Stages /\ initBy \in Threads \cup {Null}
    /\ jvm \in BOOLEAN /\ listener \in BOOLEAN /\ origin \in BOOLEAN
    /\ hooked \in BOOLEAN /\ starved \in BOOLEAN /\ dead \in BOOLEAN
    /\ listeners \in Seq(Listeners)
    /\ attached \in [Threads -> BOOLEAN]
    /\ stack \in [Threads -> Seq(Frames)]

\* What the initializer has done by its progress: do_dlopen is redirected only
\* after the listener and the original are stored.
InitOrder ==
    /\ init \notin {"uninitialised", "listener"} => jvm /\ listener
    /\ init = "commit" => origin \/ starved
    /\ hooked => jvm /\ listener /\ (origin \/ starved)
    /\ dead => starved

\* A thread in the hook came through it, and waits in every call but its last
\* for a listener that loads.
NestedInListeners ==
    \A t \in Threads :
        /\ stack[t] # << >> => hooked
        /\ \A i \in 1..Len(stack[t]) : i < Len(stack[t]) => stack[t][i].phase = "listener"

\* A native thread is attached by its outermost call, from the moment the
\* original returned, and by that call alone; a Java thread by none.
Outermost(t) == t \in Native /\ stack[t] # << >> /\ stack[t][1].phase # "original"
AttachedByOutermost ==
    \A t \in Threads :
        /\ attached[t] <=> t \notin Native \/ Outermost(t)
        /\ \A i \in 1..Len(stack[t]) : stack[t][i].detach <=> i = 1 /\ Outermost(t)

KillerInv == KillerTypeOK /\ InitOrder /\ NestedInListeners /\ AttachedByOutermost

\* The list holds a listener once, and so does every snapshot of it.
ListenersOnce ==
    /\ Once(listeners)
    /\ \A t \in Threads : \A i \in 1..Len(stack[t]) : Once(stack[t][i].todo)
-----------------------------------------------------------------------------
(* Facts about stacks *)

\* A thread in a phase has a last frame of that phase.
LEMMA TopFacts ==
    ASSUME KillerTypeOK, NEW t \in Threads, NEW phase, At(t, phase)
    PROVE  /\ stack[t] \in Seq(Frames) /\ stack[t] # << >>
           /\ Len(stack[t]) \in Nat /\ Len(stack[t]) >= 1
           /\ Top(t) \in Frames /\ Top(t).phase = phase /\ Top(t) = stack[t][Len(stack[t])]
BY DEF KillerTypeOK, At, Busy, Top

-----------------------------------------------------------------------------
(* KillerInv is inductive *)

\* The initial state satisfies the invariant.
LEMMA KillerInit == Init => KillerInv /\ ListenersOnce
<1> SUFFICES ASSUME Init PROVE KillerInv /\ ListenersOnce
  OBVIOUS
<1>1. KillerTypeOK
  <2>1. stack \in [Threads -> Seq(Frames)] /\ listeners \in Seq(Listeners)
    BY DEF Init
  <2>2. attached \in [Threads -> BOOLEAN]
    BY DEF Init
  <2> QED BY <2>1, <2>2 DEF Init, KillerTypeOK, Stages
<1>2. InitOrder /\ NestedInListeners
  BY DEF Init, InitOrder, NestedInListeners
<1>3. AttachedByOutermost
  <2>1. \A t \in Threads : ~Outermost(t) /\ Len(stack[t]) = 0
    BY DEF Init, Outermost
  <2>2. \A t \in Threads : attached[t] <=> t \notin Native
    BY DEF Init
  <2> QED BY <2>1, <2>2 DEF AttachedByOutermost
<1>4. ListenersOnce
  BY DEF Init, ListenersOnce, Once
<1> QED BY <1>1, <1>2, <1>3, <1>4 DEF KillerInv

\* A step inside the callback: the last frame changes, but not whether it is
\* to detach the thread.
LEMMA CallbackStep ==
    ASSUME KillerInv, NEW t \in Threads, NEW phase, At(t, phase), phase # "original",
           NEW frame \in Frames, frame.phase # "original", frame.detach = Top(t).detach,
           SetTop(t, frame), UNCHANGED <<initVars, dead, listeners, attached>>
    PROVE  KillerInv'
<1>1. KillerTypeOK /\ stack \in [Threads -> Seq(Frames)]
  BY DEF KillerInv, KillerTypeOK
<1>2. /\ stack[t] \in Seq(Frames) /\ stack[t] # << >>
      /\ Len(stack[t]) \in Nat /\ Len(stack[t]) >= 1
      /\ Top(t) \in Frames /\ Top(t).phase = phase /\ Top(t) = stack[t][Len(stack[t])]
  BY <1>1, TopFacts
<1>3. /\ stack'[t] \in Seq(Frames) /\ stack'[t] # << >> /\ Len(stack'[t]) = Len(stack[t])
      /\ stack'[t][Len(stack[t])] = frame
      /\ \A i \in 1..Len(stack[t]) : i < Len(stack[t]) => stack'[t][i] = stack[t][i]
  <2>1. stack'[t] = [stack[t] EXCEPT ![Len(stack[t])] = frame]
    BY <1>1 DEF SetTop
  <2> QED BY <1>2, <2>1, SetTopFacts
<1>4. \A u \in Threads : u # t => stack'[u] = stack[u]
  BY <1>1 DEF SetTop
<1>5. stack' \in [Threads -> Seq(Frames)]
  BY <1>1, <1>3 DEF SetTop
<1>6. KillerTypeOK' /\ InitOrder'
  BY <1>1, <1>5 DEF KillerTypeOK, KillerInv, InitOrder, initVars
<1>7. NestedInListeners'
  <2> SUFFICES ASSUME NEW u \in Threads
               PROVE  /\ stack'[u] # << >> => hooked
                      /\ \A i \in 1..Len(stack'[u]) : i < Len(stack'[u]) => stack'[u][i].phase = "listener"
    BY DEF NestedInListeners, initVars
  <2>1. CASE u = t
    BY <1>2, <1>3, <2>1 DEF KillerInv, NestedInListeners
  <2>2. CASE u # t
    BY <1>4, <2>2 DEF KillerInv, NestedInListeners
  <2> QED BY <2>1, <2>2
<1>8. AttachedByOutermost'
  <2>1. Outermost(t)' <=> Outermost(t)
    <3>0. Len(stack[t]) \in Nat /\ Len(stack[t]) >= 1
      BY <1>2
    <3>1. CASE Len(stack[t]) = 1
      BY <1>2, <1>3, <3>1 DEF Outermost
    <3>2. CASE Len(stack[t]) > 1
      <4>0. 1 \in 1..Len(stack[t]) /\ 1 < Len(stack[t])
        BY <3>0, <3>2
      <4>1. stack'[t][1] = stack[t][1]
        BY <1>3, <4>0
      <4> QED BY <1>2, <1>3, <4>1 DEF Outermost
    <3>3. \A n \in Nat : n >= 1 => n = 1 \/ n > 1
      OBVIOUS
    <3> QED BY <3>0, <3>1, <3>2, <3>3, Zenon
  <2>2. \A u \in Threads : u # t => (Outermost(u)' <=> Outermost(u))
    BY <1>4 DEF Outermost
  <2>3. \A i \in 1..Len(stack'[t]) : stack'[t][i].detach <=> i = 1 /\ Outermost(t)'
    <3> SUFFICES ASSUME NEW i \in 1..Len(stack[t])
                 PROVE  stack'[t][i].detach = stack[t][i].detach
      BY <1>3, <2>1 DEF KillerInv, AttachedByOutermost
    <3> QED BY <1>2, <1>3
  <2>4. \A u \in Threads : u # t =>
            \A i \in 1..Len(stack'[u]) : stack'[u][i].detach <=> i = 1 /\ Outermost(u)'
    BY <1>4, <2>2 DEF KillerInv, AttachedByOutermost
  <2>5. \A u \in Threads : attached'[u] <=> u \notin Native \/ Outermost(u)'
    BY <2>1, <2>2 DEF KillerInv, AttachedByOutermost
  <2> QED BY <2>3, <2>4, <2>5 DEF AttachedByOutermost
<1> QED BY <1>6, <1>7, <1>8 DEF KillerInv

\* do_dlopen is entered through the hook.
LEMMA LoadStep ==
    ASSUME KillerInv, NEW t \in Threads, Load(t)
    PROVE  KillerInv'
<1> DEFINE frame == [phase |-> "original", detach |-> FALSE, todo |-> << >>]
<1>1. /\ KillerTypeOK /\ stack \in [Threads -> Seq(Frames)] /\ stack[t] \in Seq(Frames)
      /\ frame \in Frames /\ Len(stack[t]) \in Nat
  <2>1. frame \in Frames
    BY DEF Frames
  <2> QED BY <2>1 DEF KillerInv, KillerTypeOK
<1>2. stack' = [stack EXCEPT ![t] = Append(@, frame)] /\ hooked
  BY DEF Load
<1>0. frame.phase = "original" /\ frame.detach = FALSE
  OBVIOUS
<1> HIDE DEF frame
<1>3. /\ stack'[t] \in Seq(Frames) /\ stack'[t] # << >> /\ Len(stack'[t]) = Len(stack[t]) + 1
      /\ stack'[t][Len(stack[t]) + 1] = frame
      /\ \A i \in 1..Len(stack[t]) : stack'[t][i] = stack[t][i]
  <2>1. stack'[t] = Append(stack[t], frame)
    BY <1>1, <1>2
  <2> QED BY <1>1, <2>1, PushFacts
<1>4. \A u \in Threads : u # t => stack'[u] = stack[u]
  BY <1>1, <1>2
<1>5. stack' \in [Threads -> Seq(Frames)]
  BY <1>1, <1>2, <1>3
<1>6. KillerTypeOK' /\ InitOrder'
  BY <1>1, <1>5 DEF Load, KillerTypeOK, KillerInv, InitOrder, initVars
<1>7. stack[t] # << >> => stack[t][Len(stack[t])].phase = "listener"
  BY DEF Load, At, Busy, Top
<1>8. NestedInListeners'
  <2> SUFFICES ASSUME NEW u \in Threads
               PROVE  /\ stack'[u] # << >> => hooked
                      /\ \A i \in 1..Len(stack'[u]) : i < Len(stack'[u]) => stack'[u][i].phase = "listener"
    BY DEF NestedInListeners, Load, initVars
  <2>1. CASE u = t
    <3> SUFFICES ASSUME NEW i \in 1..Len(stack[t]) PROVE stack'[t][i].phase = "listener"
      BY <1>1, <1>2, <1>3, <2>1
    <3>1. stack[t] # << >>
      BY <1>1
    <3> QED BY <1>1, <1>3, <1>7, <3>1 DEF KillerInv, NestedInListeners
  <2>2. CASE u # t
    BY <1>4, <2>2 DEF KillerInv, NestedInListeners
  <2> QED BY <2>1, <2>2
<1>9. AttachedByOutermost'
  <2>1. Outermost(t)' <=> Outermost(t)
    <3>1. CASE Len(stack[t]) = 0
      BY <1>0, <1>1, <1>3, <3>1 DEF Outermost
    <3>2. CASE Len(stack[t]) >= 1
      <4>1. stack'[t][1] = stack[t][1] /\ stack[t] # << >>
        BY <1>1, <1>3, <3>2
      <4> QED BY <1>3, <4>1 DEF Outermost
    <3> QED BY <1>1, <1>2, <3>1, <3>2
  <2>2. \A u \in Threads : u # t => (Outermost(u)' <=> Outermost(u))
    BY <1>4 DEF Outermost
  <2>3. ASSUME NEW i \in 1..Len(stack'[t])
        PROVE  stack'[t][i].detach <=> i = 1 /\ Outermost(t)'
    <3>1. CASE i = Len(stack[t]) + 1
      <4>1. i = 1 => ~Outermost(t)
        BY <1>1, <3>1 DEF Outermost
      <4> QED BY <1>0, <1>3, <2>1, <3>1, <4>1
    <3>2. CASE i \in 1..Len(stack[t])
      BY <1>3, <2>1, <3>2 DEF KillerInv, AttachedByOutermost
    <3> QED BY <1>1, <1>3, <3>1, <3>2
  <2>4. \A u \in Threads : u # t =>
            \A i \in 1..Len(stack'[u]) : stack'[u][i].detach <=> i = 1 /\ Outermost(u)'
    BY <1>4, <2>2 DEF KillerInv, AttachedByOutermost
  <2>5. \A u \in Threads : attached'[u] <=> u \notin Native \/ Outermost(u)'
    BY <2>1, <2>2 DEF KillerInv, AttachedByOutermost, Load
  <2> QED BY <2>3, <2>4, <2>5 DEF AttachedByOutermost
<1> QED BY <1>6, <1>8, <1>9 DEF KillerInv
\* The original has returned: the outermost call attaches a native thread.
LEMMA EnterStep ==
    ASSUME KillerInv, NEW t \in Threads, Enter(t)
    PROVE  KillerInv'
<1>1. /\ KillerTypeOK /\ stack \in [Threads -> Seq(Frames)] /\ attached \in [Threads -> BOOLEAN]
      /\ NestedInListeners /\ AttachedByOutermost
  BY DEF KillerInv, KillerTypeOK
<1>2. /\ stack[t] \in Seq(Frames) /\ stack[t] # << >>
      /\ Len(stack[t]) \in Nat /\ Len(stack[t]) >= 1
      /\ Top(t) \in Frames /\ Top(t).phase = "original" /\ Top(t) = stack[t][Len(stack[t])]
  BY <1>1, TopFacts DEF Enter
<1>3. PICK frame \in Frames : /\ frame.phase = "callback" /\ frame.detach = ~attached[t]
                              /\ SetTop(t, frame)
  <2>1. [Top(t) EXCEPT !.phase = "callback", !.detach = ~attached[t]] \in Frames
    BY <1>1, <1>2 DEF Frames
  <2> QED BY <1>2, <2>1 DEF Enter, Frames
<1>4. /\ stack'[t] \in Seq(Frames) /\ stack'[t] # << >> /\ Len(stack'[t]) = Len(stack[t])
      /\ stack'[t][Len(stack[t])] = frame
      /\ \A i \in 1..Len(stack[t]) : i < Len(stack[t]) => stack'[t][i] = stack[t][i]
  <2>1. stack'[t] = [stack[t] EXCEPT ![Len(stack[t])] = frame]
    BY <1>1, <1>3 DEF SetTop
  <2> QED BY <1>2, <2>1, SetTopFacts
<1>5. \A u \in Threads : u # t => stack'[u] = stack[u] /\ attached'[u] = attached[u]
  BY <1>1, <1>3 DEF SetTop, Enter
<1>6. stack' \in [Threads -> Seq(Frames)] /\ attached' \in [Threads -> BOOLEAN] /\ attached'[t]
  BY <1>1, <1>3, <1>4 DEF SetTop, Enter
<1>7. KillerTypeOK' /\ InitOrder'
  BY <1>1, <1>6 DEF Enter, KillerTypeOK, KillerInv, InitOrder, initVars
<1>8. NestedInListeners'
  <2> SUFFICES ASSUME NEW u \in Threads
               PROVE  /\ stack'[u] # << >> => hooked
                      /\ \A i \in 1..Len(stack'[u]) : i < Len(stack'[u]) => stack'[u][i].phase = "listener"
    BY DEF NestedInListeners, Enter, initVars
  <2>1. CASE u = t
    BY <1>1, <1>2, <1>4, <2>1 DEF NestedInListeners
  <2>2. CASE u # t
    BY <1>1, <1>5, <2>2 DEF NestedInListeners
  <2> QED BY <2>1, <2>2
<1>9. (Outermost(t)' <=> t \in Native)
      /\ \A i \in 1..Len(stack'[t]) : stack'[t][i].detach <=> i = 1 /\ Outermost(t)'
  <2>1. CASE Len(stack[t]) = 1
    <3>1. ~Outermost(t)
      BY <1>2, <2>1 DEF Outermost
    <3>2. attached[t] <=> t \notin Native
      BY <1>1, <3>1 DEF AttachedByOutermost
    <3>3. Len(stack'[t]) = 1 /\ stack'[t][1] = frame
      BY <1>4, <2>1
    <3>4. Outermost(t)' <=> t \in Native
      BY <1>3, <1>4, <3>3 DEF Outermost
    <3>5. \A i \in 1..Len(stack'[t]) : i = 1
      BY <3>3
    <3> QED BY <1>3, <3>2, <3>3, <3>4, <3>5
  <2>2. CASE Len(stack[t]) > 1
    <3>1. 1 \in 1..Len(stack[t]) /\ 1 < Len(stack[t])
      BY <1>2, <2>2
    <3>2. stack'[t][1] = stack[t][1] /\ stack[t][1].phase = "listener"
      BY <1>1, <1>4, <3>1 DEF NestedInListeners
    <3>3. (Outermost(t) <=> t \in Native) /\ (Outermost(t)' <=> t \in Native)
      BY <1>2, <1>4, <3>2 DEF Outermost
    <3>4. attached[t]
      BY <1>1, <3>3 DEF AttachedByOutermost
    <3>5. ASSUME NEW i \in 1..Len(stack'[t])
          PROVE  stack'[t][i].detach <=> i = 1 /\ Outermost(t)'
      <4>1. i \in 1..Len(stack[t])
        BY <1>4
      <4>2. CASE i = Len(stack[t])
        <5>0. ~(1 < 1)
          OBVIOUS
        <5>1. i # 1
          BY <3>1, <4>2, <5>0, Zenon
        <5>2. stack'[t][i].detach = ~attached[t]
          BY <1>3, <1>4, <4>2
        <5> QED BY <3>4, <5>1, <5>2
      <4>3. CASE i < Len(stack[t])
        BY <1>1, <1>4, <3>3, <4>1, <4>3 DEF AttachedByOutermost
      <4>4. i = Len(stack[t]) \/ i < Len(stack[t])
        BY <1>2, <4>1
      <4> QED BY <4>2, <4>3, <4>4
    <3> QED BY <3>3, <3>5
  <2>3. \A n \in Nat : n >= 1 => n = 1 \/ n > 1
    OBVIOUS
  <2>4. Len(stack[t]) = 1 \/ Len(stack[t]) > 1
    BY <1>2, <2>3, Zenon
  <2> QED BY <2>1, <2>2, <2>4
<1>10. AttachedByOutermost'
  <2>1. \A u \in Threads : u # t => (Outermost(u)' <=> Outermost(u))
    BY <1>5 DEF Outermost
  <2>2. \A u \in Threads : u # t =>
            \A i \in 1..Len(stack'[u]) : stack'[u][i].detach <=> i = 1 /\ Outermost(u)'
    BY <1>1, <1>5, <2>1 DEF AttachedByOutermost
  <2>3. \A u \in Threads : attached'[u] <=> u \notin Native \/ Outermost(u)'
    BY <1>1, <1>5, <1>6, <1>9, <2>1 DEF AttachedByOutermost
  <2> QED BY <1>9, <2>2, <2>3 DEF AttachedByOutermost
<1> QED BY <1>7, <1>8, <1>10 DEF KillerInv

\* do_dlopen returns: the outermost call detaches a native thread.
LEMMA LeaveStep ==
    ASSUME KillerInv, NEW t \in Threads, Leave(t)
    PROVE  KillerInv'
<1>1. /\ KillerTypeOK /\ stack \in [Threads -> Seq(Frames)] /\ attached \in [Threads -> BOOLEAN]
      /\ NestedInListeners /\ AttachedByOutermost
  BY DEF KillerInv, KillerTypeOK
<1>2. /\ stack[t] \in Seq(Frames) /\ stack[t] # << >>
      /\ Len(stack[t]) \in Nat /\ Len(stack[t]) >= 1
      /\ Top(t) \in Frames /\ Top(t).phase = "loop" /\ Top(t) = stack[t][Len(stack[t])]
  BY <1>1, TopFacts DEF Leave
<1>3. Top(t).detach \in BOOLEAN
  BY <1>2 DEF Frames
<1>4. /\ stack'[t] \in Seq(Frames) /\ Len(stack'[t]) = Len(stack[t]) - 1
      /\ stack'[t] = << >> <=> Len(stack[t]) = 1
      /\ \A i \in 1..Len(stack[t]) - 1 : stack'[t][i] = stack[t][i]
  <2>1. stack'[t] = Drop(stack[t])
    BY <1>1 DEF Leave
  <2> QED BY <1>2, <2>1, FrontFacts DEF Drop, Front
<1>5. \A u \in Threads : u # t => stack'[u] = stack[u] /\ attached'[u] = attached[u]
  BY <1>1 DEF Leave
<1>6. stack' \in [Threads -> Seq(Frames)] /\ attached' \in [Threads -> BOOLEAN]
      /\ attached'[t] = ~Top(t).detach
  <2>1. stack' = [stack EXCEPT ![t] = stack'[t]]
    BY <1>1 DEF Leave
  <2>2. attached' = [attached EXCEPT ![t] = ~Top(t).detach]
    BY DEF Leave
  <2> QED BY <1>1, <1>3, <1>4, <2>1, <2>2
<1>7. KillerTypeOK' /\ InitOrder'
  BY <1>1, <1>6 DEF Leave, KillerTypeOK, KillerInv, InitOrder, initVars
<1>8. NestedInListeners'
  <2> SUFFICES ASSUME NEW u \in Threads
               PROVE  /\ stack'[u] # << >> => hooked
                      /\ \A i \in 1..Len(stack'[u]) : i < Len(stack'[u]) => stack'[u][i].phase = "listener"
    BY DEF NestedInListeners, Leave, initVars
  <2>1. CASE u = t
    <3>1. hooked
      BY <1>1, <1>2 DEF NestedInListeners
    <3>2. ASSUME NEW i \in 1..Len(stack'[t]) PROVE stack'[t][i].phase = "listener"
      <4>1. i \in 1..Len(stack[t]) - 1 /\ i \in 1..Len(stack[t]) /\ i < Len(stack[t])
        BY <1>2, <1>4
      <4> QED BY <1>1, <1>4, <4>1 DEF NestedInListeners
    <3> QED BY <2>1, <3>1, <3>2
  <2>2. CASE u # t
    BY <1>1, <1>5, <2>2 DEF NestedInListeners
  <2> QED BY <2>1, <2>2
<1>9. /\ attached'[t] <=> t \notin Native \/ Outermost(t)'
      /\ \A i \in 1..Len(stack'[t]) : stack'[t][i].detach <=> i = 1 /\ Outermost(t)'
  <2>0. Len(stack[t]) \in 1..Len(stack[t])
    BY <1>2
  <2>1. CASE Len(stack[t]) = 1
    <3>1. Outermost(t) <=> t \in Native
      BY <1>2, <2>1 DEF Outermost
    <3>2. Top(t).detach <=> t \in Native
      BY <1>1, <1>2, <2>0, <2>1, <3>1 DEF AttachedByOutermost
    <3>3. ~Outermost(t)' /\ Len(stack'[t]) = 0
      BY <1>4, <2>1 DEF Outermost
    <3> QED BY <1>3, <1>6, <3>2, <3>3
  <2>2. CASE Len(stack[t]) > 1
    <3>1. 1 \in 1..Len(stack[t]) /\ 1 < Len(stack[t]) /\ 1 \in 1..Len(stack[t]) - 1
      BY <1>2, <2>2
    <3>2. stack'[t][1] = stack[t][1] /\ stack[t][1].phase = "listener"
      BY <1>1, <1>4, <3>1 DEF NestedInListeners
    <3>3. stack'[t] # << >>
      BY <1>4, <2>2
    <3>4. (Outermost(t) <=> t \in Native) /\ (Outermost(t)' <=> t \in Native)
      BY <1>2, <3>2, <3>3 DEF Outermost
    <3>5. ~Top(t).detach
      BY <1>1, <1>2, <2>0, <2>2 DEF AttachedByOutermost
    <3>6. ASSUME NEW i \in 1..Len(stack'[t])
          PROVE  stack'[t][i].detach <=> i = 1 /\ Outermost(t)'
      <4>1. i \in 1..Len(stack[t]) - 1 /\ i \in 1..Len(stack[t])
        BY <1>2, <1>4
      <4> QED BY <1>1, <1>4, <3>4, <4>1 DEF AttachedByOutermost
    <3> QED BY <1>6, <3>4, <3>5, <3>6
  <2>3. \A n \in Nat : n >= 1 => n = 1 \/ n > 1
    OBVIOUS
  <2>4. Len(stack[t]) = 1 \/ Len(stack[t]) > 1
    BY <1>2, <2>3, Zenon
  <2> QED BY <2>1, <2>2, <2>4
<1>10. AttachedByOutermost'
  <2>1. \A u \in Threads : u # t => (Outermost(u)' <=> Outermost(u))
    BY <1>5 DEF Outermost
  <2>2. \A u \in Threads : u # t =>
            \A i \in 1..Len(stack'[u]) : stack'[u][i].detach <=> i = 1 /\ Outermost(u)'
    BY <1>1, <1>5, <2>1 DEF AttachedByOutermost
  <2>3. \A u \in Threads : attached'[u] <=> u \notin Native \/ Outermost(u)'
    BY <1>1, <1>5, <1>9, <2>1 DEF AttachedByOutermost
  <2> QED BY <1>9, <2>2, <2>3 DEF AttachedByOutermost
<1> QED BY <1>7, <1>8, <1>10 DEF KillerInv

\* A step that leaves the stacks and attachments alone.
LEMMA QuietStep ==
    ASSUME KillerInv, KillerTypeOK', InitOrder', hooked => hooked', UNCHANGED <<attached, stack>>
    PROVE  KillerInv'
<1>1. NestedInListeners'
  BY DEF KillerInv, NestedInListeners
<1>2. AttachedByOutermost'
  BY DEF KillerInv, AttachedByOutermost, Outermost
<1> QED BY <1>1, <1>2 DEF KillerInv

\* Every step of a load, of the initializer and of the users of the list
\* preserves the invariant.
LEMMA KillerNext == KillerInv /\ ListenersOnce /\ [Next]_vars => KillerInv'
<1> SUFFICES ASSUME KillerInv, ListenersOnce, [Next]_vars PROVE KillerInv'
  OBVIOUS
<1>0. KillerTypeOK /\ InitOrder
  BY DEF KillerInv
<1>1. CASE UNCHANGED vars
  <2>1. KillerTypeOK' /\ InitOrder'
    BY <1>0, <1>1 DEF vars, initVars, KillerTypeOK, InitOrder
  <2> QED BY <1>1, <2>1, QuietStep DEF vars, initVars
<1>2. CASE Initializer
  <2>1. /\ KillerTypeOK' /\ InitOrder' /\ (hooked => hooked')
        /\ UNCHANGED <<attached, stack>>
    <3>1. CASE SetListener
      <4>1. KillerTypeOK'
        BY <1>0, <3>1 DEF SetListener, KillerTypeOK, Stages
      <4>2. InitOrder' /\ (hooked => hooked')
        BY <1>0, <3>1 DEF SetListener, KillerTypeOK, InitOrder
      <4> QED BY <3>1, <4>1, <4>2 DEF SetListener
    <3>2. CASE EndInit
      <4>1. KillerTypeOK'
        BY <1>0, <3>2 DEF EndInit, KillerTypeOK, Stages
      <4>2. InitOrder' /\ (hooked => hooked')
        BY <1>0, <3>2 DEF EndInit, KillerTypeOK, InitOrder
      <4> QED BY <3>2, <4>1, <4>2 DEF EndInit
    <3>3. CASE SetOrigin
      <4>1. KillerTypeOK'
        BY <1>0, <3>3 DEF SetOrigin, KillerTypeOK, Stages
      <4>2. InitOrder' /\ (hooked => hooked')
        BY <1>0, <3>3 DEF SetOrigin, KillerTypeOK, InitOrder
      <4> QED BY <3>3, <4>1, <4>2 DEF SetOrigin
    <3>4. CASE SetNoOrigin
      <4>1. KillerTypeOK'
        BY <1>0, <3>4 DEF SetNoOrigin, KillerTypeOK, Stages
      <4>2. InitOrder' /\ (hooked => hooked')
        BY <1>0, <3>4 DEF SetNoOrigin, KillerTypeOK, InitOrder
      <4> QED BY <3>4, <4>1, <4>2 DEF SetNoOrigin
    <3>5. CASE HookFails
      <4>1. KillerTypeOK'
        BY <1>0, <3>5 DEF HookFails, KillerTypeOK, Stages
      <4>2. InitOrder' /\ (hooked => hooked')
        BY <1>0, <3>5 DEF HookFails, KillerTypeOK, InitOrder
      <4> QED BY <3>5, <4>1, <4>2 DEF HookFails
    <3>6. CASE Commit
      <4>1. KillerTypeOK'
        BY <1>0, <3>6 DEF Commit, KillerTypeOK, Stages
      <4>2. InitOrder' /\ (hooked => hooked')
        BY <1>0, <3>6 DEF Commit, KillerTypeOK, InitOrder
      <4> QED BY <3>6, <4>1, <4>2 DEF Commit
    <3> QED BY <1>2, <3>1, <3>2, <3>3, <3>4, <3>5, <3>6 DEF Initializer
  <2> QED BY <2>1, QuietStep
<1>3. ASSUME NEW t \in Threads, BeginInit(t) PROVE KillerInv'
  <2>1. KillerTypeOK' /\ InitOrder'
    BY <1>0, <1>3 DEF BeginInit, KillerTypeOK, InitOrder, Stages
  <2> QED BY <1>3, <2>1, QuietStep DEF BeginInit
<1>4. ASSUME NEW t \in Threads, NEW l \in Listeners, AddListener(t, l) \/ RemoveListener(t, l)
      PROVE  KillerInv'
  <2>1. RemoveFirst(listeners, l) \in Seq(Listeners)
    BY <1>0, RemoveFirstFacts DEF KillerTypeOK, ListenersOnce
  <2>2. <<l>> \o RemoveFirst(listeners, l) \in Seq(Listeners)
    BY <2>1
  <2>3. UNCHANGED <<initVars, dead, attached, stack>> /\ listeners' \in Seq(Listeners)
    BY <1>4, <2>1, <2>2 DEF AddListener, RemoveListener
  <2>4. KillerTypeOK' /\ InitOrder'
    BY <1>0, <2>3 DEF KillerTypeOK, InitOrder, initVars
  <2> QED BY <2>3, <2>4, QuietStep DEF initVars
<1>5. ASSUME NEW t \in Threads, CallNull(t) PROVE KillerInv'
  <2>1. hooked
    BY <1>5 DEF CallNull, At, Busy, KillerInv, NestedInListeners
  <2>2. KillerTypeOK' /\ InitOrder'
    BY <1>0, <1>5, <2>1 DEF CallNull, KillerTypeOK, InitOrder, initVars
  <2> QED BY <1>5, <2>2, QuietStep DEF CallNull, initVars
<1>6. ASSUME NEW t \in Threads, Snapshot(t) PROVE KillerInv'
  <2>1. Top(t) \in Frames /\ At(t, "callback")
    BY <1>0, <1>6, TopFacts DEF Snapshot
  <2>2. PICK frame \in Frames : /\ frame.phase = "loop" /\ frame.detach = Top(t).detach
                                /\ SetTop(t, frame)
    <3>1. [Top(t) EXCEPT !.phase = "loop", !.todo = listeners] \in Frames
      BY <1>0, <2>1 DEF Frames, KillerTypeOK
    <3> QED BY <1>6, <2>1, <3>1 DEF Snapshot, Frames
  <2> QED BY <1>6, <2>1, <2>2, CallbackStep DEF Snapshot
<1>7. ASSUME NEW t \in Threads, CallListener(t) PROVE KillerInv'
  <2>1. Top(t) \in Frames /\ At(t, "loop")
    BY <1>0, <1>7, TopFacts DEF CallListener
  <2>2. PICK frame \in Frames : /\ frame.phase = "listener" /\ frame.detach = Top(t).detach
                                /\ SetTop(t, frame)
    <3>0. Tail(Top(t).todo) \in Seq(Listeners)
      BY <1>7, <2>1 DEF CallListener, Frames
    <3>1. [Top(t) EXCEPT !.phase = "listener", !.todo = Tail(@)] \in Frames
      BY <2>1, <3>0 DEF Frames
    <3> QED BY <1>7, <2>1, <3>1 DEF CallListener, Frames
  <2> QED BY <1>7, <2>1, <2>2, CallbackStep DEF CallListener
<1>8. ASSUME NEW t \in Threads, ListenerReturns(t) PROVE KillerInv'
  <2>1. Top(t) \in Frames /\ At(t, "listener")
    BY <1>0, <1>8, TopFacts DEF ListenerReturns
  <2>2. PICK frame \in Frames : /\ frame.phase = "loop" /\ frame.detach = Top(t).detach
                                /\ SetTop(t, frame)
    <3>1. [Top(t) EXCEPT !.phase = "loop"] \in Frames
      BY <2>1 DEF Frames
    <3> QED BY <1>8, <2>1, <3>1 DEF ListenerReturns, Frames
  <2> QED BY <1>8, <2>1, <2>2, CallbackStep DEF ListenerReturns
<1>9. ASSUME NEW t \in Threads, ListenerThrows(t) PROVE KillerInv'
  <2>1. Top(t) \in Frames /\ At(t, "listener")
    BY <1>0, <1>9, TopFacts DEF ListenerThrows
  <2>2. PICK frame \in Frames : /\ frame.phase = "loop" /\ frame.detach = Top(t).detach
                                /\ SetTop(t, frame)
    <3>0. << >> \in Seq(Listeners)
      OBVIOUS
    <3>1. [Top(t) EXCEPT !.phase = "loop", !.todo = << >>] \in Frames
      BY <2>1, <3>0 DEF Frames
    <3> QED BY <1>9, <2>1, <3>1 DEF ListenerThrows, Frames
  <2> QED BY <1>9, <2>1, <2>2, CallbackStep DEF ListenerThrows
<1> QED
  BY <1>1, <1>2, <1>3, <1>4, <1>5, <1>6, <1>7, <1>8, <1>9, LoadStep, EnterStep, LeaveStep
  DEF Next, InLoad

\* A listener is in the list once: add removes it before it puts it first.
\* Every step keeps the list and the snapshots so.
LEMMA ListenersNext == KillerInv /\ ListenersOnce /\ [Next]_vars => ListenersOnce'
<1> SUFFICES ASSUME KillerInv, ListenersOnce, [Next]_vars PROVE ListenersOnce'
  OBVIOUS
<1>0. KillerTypeOK /\ stack \in [Threads -> Seq(Frames)] /\ listeners \in Seq(Listeners)
  BY DEF KillerInv, KillerTypeOK
<1>1. CASE UNCHANGED <<listeners, stack>>
  BY <1>1 DEF ListenersOnce
<1>2. ASSUME NEW t \in Threads, NEW l \in Listeners, AddListener(t, l) \/ RemoveListener(t, l)
      PROVE  ListenersOnce'
  <2> DEFINE r == RemoveFirst(listeners, l)
  <2>1. r \in Seq(Listeners) /\ Once(r) /\ \A i \in 1..Len(r) : r[i] # l
    BY <1>0, RemoveFirstFacts DEF ListenersOnce
  <2> HIDE DEF r
  <2>2. Once(<<l>> \o r)
    <3> DEFINE c == <<l>> \o r
    <3>1. <<l>> \in Seq(Listeners) /\ Len(<<l>>) = 1 /\ <<l>>[1] = l
      OBVIOUS
    <3>2. /\ Len(c) = 1 + Len(r)
          /\ \A i \in 1..1 + Len(r) : c[i] = IF i <= 1 THEN <<l>>[i] ELSE r[i - 1]
      BY <2>1, <3>1, ConcatProperties
    <3>3. Len(r) \in Nat
      BY <2>1
    <3> HIDE DEF c
    <3> SUFFICES ASSUME NEW i \in 1..1 + Len(r), NEW j \in 1..1 + Len(r), c[i] = c[j], i < j
                 PROVE  FALSE
      BY <3>2, <3>3 DEF Once, c
    <3>4. c[j] = r[j - 1] /\ j - 1 \in 1..Len(r)
      BY <3>2, <3>3
    <3>5. CASE i = 1
      BY <2>1, <3>1, <3>2, <3>3, <3>4, <3>5
    <3>6. CASE i > 1
      <4>1. c[i] = r[i - 1] /\ i - 1 \in 1..Len(r) /\ i - 1 # j - 1
        BY <3>2, <3>3, <3>6
      <4> QED BY <2>1, <3>4, <4>1 DEF Once
    <3> QED BY <3>5, <3>6
  <2>3. Once(listeners') /\ UNCHANGED stack
    BY <1>2, <2>1, <2>2 DEF AddListener, RemoveListener, r
  <2> QED BY <2>3 DEF ListenersOnce
<1>3. ASSUME NEW t \in Threads, Load(t) PROVE ListenersOnce'
  <2> DEFINE frame == [phase |-> "original", detach |-> FALSE, todo |-> << >>]
  <2>1. frame \in Frames /\ Once(frame.todo)
    BY DEF Frames, Once
  <2>2. stack'[t] = Append(stack[t], frame) /\ UNCHANGED listeners
    BY <1>0, <1>3 DEF Load
  <2> HIDE DEF frame
  <2>3. /\ Len(stack'[t]) = Len(stack[t]) + 1 /\ stack'[t][Len(stack[t]) + 1] = frame
        /\ \A i \in 1..Len(stack[t]) : stack'[t][i] = stack[t][i]
        /\ Len(stack[t]) \in Nat
    BY <1>0, <2>1, <2>2, PushFacts
  <2>4. \A i \in 1..Len(stack'[t]) : Once(stack'[t][i].todo)
    BY <2>1, <2>3, SMTT(20) DEF ListenersOnce
  <2>5. \A u \in Threads : u # t => stack'[u] = stack[u]
    BY <1>0, <1>3 DEF Load
  <2> QED BY <2>2, <2>4, <2>5 DEF ListenersOnce
<1>4. ASSUME NEW t \in Threads, Leave(t) PROVE ListenersOnce'
  <2>1. stack[t] \in Seq(Frames) /\ stack[t] # << >>
    BY <1>0, <1>4, TopFacts DEF Leave
  <2>2. stack'[t] = Drop(stack[t]) /\ UNCHANGED listeners
    BY <1>0, <1>4 DEF Leave
  <2>3. /\ Len(stack'[t]) = Len(stack[t]) - 1 /\ Len(stack[t]) \in Nat
        /\ \A i \in 1..Len(stack[t]) - 1 : stack'[t][i] = stack[t][i]
    BY <2>1, <2>2, FrontFacts DEF Drop, Front
  <2>4. \A i \in 1..Len(stack'[t]) : Once(stack'[t][i].todo)
    BY <2>3 DEF ListenersOnce
  <2>5. \A u \in Threads : u # t => stack'[u] = stack[u]
    BY <1>0, <1>4 DEF Leave
  <2> QED BY <2>2, <2>4, <2>5 DEF ListenersOnce
<1>5. ASSUME NEW t \in Threads, NEW frame \in Frames, Once(frame.todo), SetTop(t, frame),
             stack[t] # << >>, UNCHANGED listeners
      PROVE  ListenersOnce'
  <2>1. stack'[t] = [stack[t] EXCEPT ![Len(stack[t])] = frame] /\ stack[t] \in Seq(Frames)
    BY <1>0, <1>5 DEF SetTop
  <2>2. /\ Len(stack'[t]) = Len(stack[t]) /\ stack'[t][Len(stack[t])] = frame
        /\ \A i \in 1..Len(stack[t]) : i < Len(stack[t]) => stack'[t][i] = stack[t][i]
        /\ Len(stack[t]) \in Nat
    BY <1>5, <2>1, SetTopFacts
  <2>3. ASSUME NEW i \in 1..Len(stack[t]) PROVE Once(stack'[t][i].todo)
    BY <1>5, <2>2 DEF ListenersOnce
  <2>4. \A u \in Threads : u # t => stack'[u] = stack[u]
    BY <1>0, <1>5 DEF SetTop
  <2> QED BY <1>5, <2>2, <2>3, <2>4 DEF ListenersOnce
<1>6. ASSUME NEW t \in Threads, NEW phase, At(t, phase)
      PROVE  /\ Top(t) \in Frames /\ stack[t] # << >>
             /\ Top(t).todo \in Seq(Listeners) /\ Once(Top(t).todo)
  <2>1. /\ Top(t) \in Frames /\ stack[t] # << >> /\ Top(t) = stack[t][Len(stack[t])]
        /\ Len(stack[t]) \in 1..Len(stack[t])
    BY <1>0, <1>6, TopFacts
  <2> QED BY <2>1 DEF ListenersOnce, Frames
<1>7. ASSUME NEW t \in Threads, Enter(t) PROVE ListenersOnce'
  <2>1. Top(t) \in Frames /\ stack[t] # << >> /\ Once(Top(t).todo) /\ attached[t] \in BOOLEAN
    BY <1>0, <1>6, <1>7 DEF Enter, KillerTypeOK
  <2>2. PICK frame \in Frames : frame.todo = Top(t).todo /\ SetTop(t, frame)
    <3>1. [Top(t) EXCEPT !.phase = "callback", !.detach = ~attached[t]] \in Frames
      BY <2>1 DEF Frames
    <3> QED BY <1>7, <2>1, <3>1 DEF Enter, Frames
  <2> QED BY <1>5, <1>7, <2>1, <2>2 DEF Enter
<1>8. ASSUME NEW t \in Threads, Snapshot(t) PROVE ListenersOnce'
  <2>1. Top(t) \in Frames /\ stack[t] # << >>
    BY <1>6, <1>8 DEF Snapshot
  <2>2. PICK frame \in Frames : frame.todo = listeners /\ SetTop(t, frame)
    <3>1. [Top(t) EXCEPT !.phase = "loop", !.todo = listeners] \in Frames
      BY <1>0, <2>1 DEF Frames
    <3> QED BY <1>8, <2>1, <3>1 DEF Snapshot, Frames
  <2> QED BY <1>5, <1>8, <2>1, <2>2 DEF Snapshot, ListenersOnce
<1>9. ASSUME NEW t \in Threads, CallListener(t) PROVE ListenersOnce'
  <2>1. /\ Top(t) \in Frames /\ stack[t] # << >> /\ Top(t).todo # << >>
        /\ Top(t).todo \in Seq(Listeners) /\ Once(Top(t).todo)
    BY <1>6, <1>9 DEF CallListener
  <2>2. Tail(Top(t).todo) \in Seq(Listeners) /\ Once(Tail(Top(t).todo))
    <3> SUFFICES ASSUME NEW s \in Seq(Listeners), s # << >>, Once(s)
                 PROVE  Tail(s) \in Seq(Listeners) /\ Once(Tail(s))
      BY <2>1
    <3>1. /\ Tail(s) \in Seq(Listeners) /\ Len(Tail(s)) = Len(s) - 1
          /\ \A i \in 1..Len(s) - 1 : Tail(s)[i] = s[i + 1]
      BY HeadTailProperties
    <3> QED BY <3>1 DEF Once
  <2>3. PICK frame \in Frames : frame.todo = Tail(Top(t).todo) /\ SetTop(t, frame)
    <3>1. [Top(t) EXCEPT !.phase = "listener", !.todo = Tail(@)] \in Frames
      BY <2>1, <2>2 DEF Frames
    <3> QED BY <1>9, <2>1, <3>1 DEF CallListener, Frames
  <2> QED BY <1>5, <1>9, <2>1, <2>2, <2>3 DEF CallListener
<1>10. ASSUME NEW t \in Threads, ListenerReturns(t) PROVE ListenersOnce'
  <2>1. Top(t) \in Frames /\ stack[t] # << >> /\ Once(Top(t).todo)
    BY <1>6, <1>10 DEF ListenerReturns
  <2>2. PICK frame \in Frames : frame.todo = Top(t).todo /\ SetTop(t, frame)
    <3>1. [Top(t) EXCEPT !.phase = "loop"] \in Frames
      BY <2>1 DEF Frames
    <3> QED BY <1>10, <2>1, <3>1 DEF ListenerReturns, Frames
  <2> QED BY <1>5, <1>10, <2>1, <2>2 DEF ListenerReturns
<1>11. ASSUME NEW t \in Threads, ListenerThrows(t) PROVE ListenersOnce'
  <2>1. Top(t) \in Frames /\ stack[t] # << >>
    BY <1>6, <1>11 DEF ListenerThrows
  <2>2. PICK frame \in Frames : frame.todo = << >> /\ SetTop(t, frame)
    <3>0. << >> \in Seq(Listeners)
      OBVIOUS
    <3>1. [Top(t) EXCEPT !.phase = "loop", !.todo = << >>] \in Frames
      BY <2>1, <3>0 DEF Frames
    <3> QED BY <1>11, <2>1, <3>1 DEF ListenerThrows, Frames
  <2>3. Once(<< >>)
    BY DEF Once
  <2> QED BY <1>5, <1>11, <2>1, <2>2, <2>3 DEF ListenerThrows
<1>12. CASE Initializer \/ \E t \in Threads : BeginInit(t) \/ CallNull(t)
  <2>1. UNCHANGED <<listeners, stack>>
    BY <1>12 DEF Initializer, SetListener, SetOrigin, SetNoOrigin, HookFails, Commit, EndInit,
       BeginInit, CallNull
  <2> QED BY <1>1, <2>1
<1> QED
  BY <1>1, <1>2, <1>3, <1>4, <1>7, <1>8, <1>9, <1>10, <1>11, <1>12 DEF Next, InLoad, vars

-----------------------------------------------------------------------------
(* What follows *)

\* The invariant holds in every reachable state.
THEOREM KillerInvariance == Spec => [](KillerInv /\ ListenersOnce)
<1>1. KillerInv /\ ListenersOnce /\ [Next]_vars => (KillerInv /\ ListenersOnce)'
  BY KillerNext, ListenersNext
<1> QED BY <1>1, KillerInit, PTL DEF Spec

\* ReadyWhenHooked: whoever comes through the hook finds the VM, the listener
\* and the original, and the process dies only when memory was short.
THEOREM HookIsReady == Spec => []ReadyWhenHooked
<1>1. KillerInv => ReadyWhenHooked
  BY DEF KillerInv, InitOrder, NestedInListeners, ReadyWhenHooked, Busy
<1> QED BY <1>1, KillerInvariance, PTL

\* AttachedWhileNeeded: listeners run on attached threads at every depth of
\* nested loads, and a thread leaves do_dlopen as it came.
THEOREM JavaRunsAttached == Spec => []AttachedWhileNeeded
<1>1. ASSUME KillerInv PROVE AttachedWhileNeeded
  <2> SUFFICES ASSUME NEW t \in Threads
               PROVE  /\ \A i \in 1..Len(stack[t]) :
                           stack[t][i].phase \in {"callback", "loop", "listener"} => attached[t]
                      /\ ~Busy(t) => (attached[t] <=> t \notin Native)
    BY DEF AttachedWhileNeeded
  <2>1. stack[t] \in Seq(Frames) /\ Len(stack[t]) \in Nat
    BY <1>1 DEF KillerInv, KillerTypeOK
  <2>2. ASSUME NEW i \in 1..Len(stack[t]),
               stack[t][i].phase \in {"callback", "loop", "listener"}
        PROVE  attached[t]
    <3>1. stack[t] # << >> /\ 1 \in 1..Len(stack[t])
      BY <2>1
    <3>2. stack[t][1].phase # "original"
      <4>1. CASE i = 1
        BY <2>2, <4>1
      <4>2. CASE i > 1
        <5>1. 1 < Len(stack[t])
          BY <2>1, <4>2
        <5>2. stack[t][1].phase = "listener"
          BY <1>1, <3>1, <5>1 DEF KillerInv, NestedInListeners
        <5> QED BY <5>2
      <4> QED BY <2>1, <4>1, <4>2
    <3>3. t \in Native => Outermost(t)
      BY <3>1, <3>2 DEF Outermost
    <3> QED BY <1>1, <3>3 DEF KillerInv, AttachedByOutermost
  <2>3. ~Busy(t) => ~Outermost(t)
    BY DEF Busy, Outermost
  <2> QED BY <1>1, <2>2, <2>3 DEF KillerInv, AttachedByOutermost
<1> QED BY <1>1, KillerInvariance, PTL

\* A load tells a listener once: neither the list nor a snapshot of it holds a
\* listener twice, though add may be called with a listener that is there.
THEOREM ToldOnce == Spec => []ListenersOnce
BY KillerInvariance, PTL

-----------------------------------------------------------------------------
(* The maps *)

\* start and end bound the ranges of the matching lines and are taken from
\* them, whatever the order of the lines.
Covers ==
    /\ \A line \in Matching : start <= line.left /\ line.right <= end
    /\ \E line \in Matching : start = line.left
    /\ \E line \in Matching : end = line.right

MapsTypeOK ==
    /\ at \in {"open", "reading", "closed", "dumped"} /\ got \in BOOLEAN
    /\ start \in Addresses /\ end \in Addresses /\ length \in Int
    /\ past \subseteq Lines

MapsInv ==
    /\ MapsTypeOK
    /\ IF got THEN Covers ELSE Matching = {}
    /\ at = "dumped" => /\ length = Signed(end - start)
                        /\ ~got => start = 0 /\ end = 0

\* The signed length of a range shorter than half of the addresses is its size.
LEMMA SignedFacts ==
    ASSUME NEW n \in Nat, n < Half
    PROVE  Signed(n) = n
<1>1. Half \in Nat /\ Space \in Nat /\ n < Space
  BY MapsAssumption DEF Space
<1>2. n % Space = n
  BY <1>1
<1> QED BY <1>1, <1>2 DEF Signed

\* The signed length is a number.
LEMMA SignedType ==
    ASSUME NEW n \in Int
    PROVE  Signed(n) \in Int
<1>1. Half \in Nat /\ Space \in Nat /\ Space > 0
  BY MapsAssumption DEF Space
<1>2. n % Space \in Int
  BY <1>1
<1> QED BY <1>1, <1>2 DEF Signed

\* The invariant of the reader of the maps holds in every reachable state.
THEOREM MapsInvariance == MapsSpec => []MapsInv
<1>1. MapsInit => MapsInv
  <2> SUFFICES ASSUME MapsInit PROVE MapsInv
    OBVIOUS
  <2>1. MapsTypeOK
    <3>1. past \subseteq Lines /\ got \in BOOLEAN
      BY DEF MapsInit
    <3>2. start \in Addresses /\ end \in Addresses /\ length \in Int
      BY DEF MapsInit
    <3> QED BY <3>1, <3>2 DEF MapsInit, MapsTypeOK
  <2>2. Matching = {} /\ ~got /\ at # "dumped"
    BY DEF MapsInit, Matching
  <2> QED BY <2>1, <2>2 DEF MapsInv
<1>2. MapsInv /\ [MapsNext]_mapsVars => MapsInv'
  <2> SUFFICES ASSUME MapsInv, [MapsNext]_mapsVars PROVE MapsInv'
    OBVIOUS
  <2>0. MapsTypeOK /\ (IF got THEN Covers ELSE Matching = {})
    BY DEF MapsInv
  <2>1. CASE UNCHANGED mapsVars
    BY <2>1 DEF mapsVars, MapsInv, MapsTypeOK, Covers, Matching
  <2>2. CASE OpenFile \/ CloseFile
    <3>1. UNCHANGED <<got, start, end, length, past>> /\ at' \in {"reading", "closed"}
      BY <2>2 DEF OpenFile, CloseFile
    <3> QED BY <2>0, <3>1 DEF MapsInv, MapsTypeOK, Covers, Matching
  <2>3. CASE Dump
    <3>1. /\ start' \in Addresses /\ end' \in Addresses
          /\ got => start' = start /\ end' = end
          /\ ~got => start' = 0 /\ end' = 0
      BY <2>0, <2>3, MapsAssumption DEF Dump, MapsTypeOK, Addresses, Space
    <3>2. end' - start' \in Int
      BY <3>1, MapsAssumption DEF Addresses, Space
    <3>3. length' = Signed(end' - start') /\ length' \in Int
      BY <2>3, <3>2, SignedType DEF Dump
    <3>4. MapsTypeOK'
      BY <2>0, <2>3, <3>1, <3>3 DEF Dump, MapsTypeOK
    <3>5. IF got' THEN Covers' ELSE Matching' = {}
      BY <2>0, <2>3, <3>1 DEF Dump, Covers, Matching
    <3> QED BY <2>3, <3>1, <3>3, <3>4, <3>5 DEF Dump, MapsInv
  <2>4. ASSUME NEW line \in Lines, SkipLine(line) PROVE MapsInv'
    <3>1. Matching' = Matching
      BY <2>4, <2>0 DEF SkipLine, Record, Matching, Lines, Addresses
    <3>2. /\ past' \subseteq Lines /\ at = "reading"
          /\ UNCHANGED <<at, got, start, end, length>>
      BY <2>0, <2>4 DEF SkipLine, Record, MapsTypeOK
    <3> QED BY <2>0, <3>1, <3>2 DEF MapsInv, MapsTypeOK, Covers
  <2>5. ASSUME NEW line \in Lines, FirstMatch(line) PROVE MapsInv'
    <3>1. Matching' = {line}
      BY <2>5, <2>0 DEF FirstMatch, Record, Matching
    <3>2. line.left \in Addresses /\ line.right \in Addresses /\ line.left <= line.right
      BY <2>5 DEF FirstMatch, Lines
    <3>3. Covers'
      BY <2>5, <3>1, <3>2 DEF FirstMatch, Covers, Addresses
    <3>4. MapsTypeOK' /\ got' /\ at' # "dumped"
      BY <2>0, <2>5, <3>2 DEF FirstMatch, Record, MapsTypeOK
    <3> QED BY <3>3, <3>4 DEF MapsInv
  <2>6. ASSUME NEW line \in Lines, NextMatch(line) PROVE MapsInv'
    <3>1. Matching' = Matching \cup {line} /\ Covers
      BY <2>6, <2>0 DEF NextMatch, Record, Matching
    <3>2. line.left \in Addresses /\ line.right \in Addresses /\ line.left <= line.right
      BY <2>6 DEF NextMatch, Lines
    <3>3. \A m \in Matching : m.left \in Addresses /\ m.right \in Addresses
      BY <2>0 DEF Matching, MapsTypeOK, Lines
    <3>4. start \in Addresses /\ end \in Addresses
      BY <2>0 DEF MapsTypeOK
    <3>5. /\ start' \in {start, line.left} /\ start' <= start /\ start' <= line.left
          /\ end' \in {end, line.right} /\ end <= end' /\ line.right <= end'
      BY <2>6, <3>2, <3>4 DEF NextMatch, Addresses
    <3>6. Covers'
      <4>1. ASSUME NEW m \in Matching' PROVE start' <= m.left /\ m.right <= end'
        BY <3>1, <3>2, <3>3, <3>4, <3>5 DEF Covers, Addresses
      <4>2. \E m \in Matching' : start' = m.left
        BY <3>1, <3>5 DEF Covers
      <4>3. \E m \in Matching' : end' = m.right
        BY <3>1, <3>5 DEF Covers
      <4> QED BY <4>1, <4>2, <4>3 DEF Covers
    <3>7. MapsTypeOK' /\ got' /\ at' # "dumped"
      BY <2>0, <2>6, <3>2, <3>4, <3>5 DEF NextMatch, Record, MapsTypeOK
    <3> QED BY <3>6, <3>7 DEF MapsInv
  <2> QED BY <2>1, <2>2, <2>3, <2>4, <2>5, <2>6 DEF MapsNext
<1> QED BY <1>1, <1>2, PTL DEF MapsSpec

\* SmallestCover: the dump has the smallest range that covers every segment of
\* the object, for any number of lines in any order and addresses of any width,
\* and its length is right below half of the address space.
THEOREM DumpCovers == MapsSpec => []SmallestCover
<1>1. ASSUME MapsInv PROVE SmallestCover
  <2> SUFFICES ASSUME at = "dumped"
               PROVE  /\ IF Matching = {} THEN start = 0 /\ end = 0
                         ELSE /\ start = Min({line.left : line \in Matching})
                              /\ end = Max({line.right : line \in Matching})
                      /\ end - start < Half => length = end - start
    BY DEF SmallestCover
  <2>0. /\ start \in Int /\ end \in Int /\ start \in Addresses /\ end \in Addresses
        /\ \A line \in Matching : line.left \in Int /\ line.right \in Int
    BY <1>1, MapsAssumption DEF MapsInv, MapsTypeOK, Matching, Lines, Addresses, Space
  <2>1. CASE Matching = {}
    <3>1. ~got
      BY <1>1, <2>1 DEF MapsInv, Covers
    <3>2. start = 0 /\ end = 0 /\ length = Signed(end - start)
      BY <1>1, <3>1 DEF MapsInv
    <3>3. Signed(0) = 0
      BY SignedFacts, MapsAssumption
    <3> QED BY <2>1, <3>2, <3>3
  <2>2. CASE Matching # {}
    <3>1. Covers /\ length = Signed(end - start)
      BY <1>1, <2>2 DEF MapsInv
    <3>2. start = Min({line.left : line \in Matching})
      <4> DEFINE S == {line.left : line \in Matching}
      <4>1. start \in S /\ \A y \in S : start <= y /\ y \in Int
        BY <2>0, <3>1 DEF Covers
      <4> HIDE DEF S
      <4>2. ASSUME NEW x \in S, \A y \in S : x <= y PROVE x = start
        BY <2>0, <4>1, <4>2
      <4>3. start = Min(S)
        BY <4>1, <4>2 DEF Min
      <4> QED BY <4>3 DEF S
    <3>3. end = Max({line.right : line \in Matching})
      <4> DEFINE S == {line.right : line \in Matching}
      <4>1. end \in S /\ \A y \in S : end >= y /\ y \in Int
        BY <2>0, <3>1 DEF Covers
      <4> HIDE DEF S
      <4>2. ASSUME NEW x \in S, \A y \in S : x >= y PROVE x = end
        BY <2>0, <4>1, <4>2
      <4>3. end = Max(S)
        BY <4>1, <4>2 DEF Max
      <4> QED BY <4>3 DEF S
    <3>4. end - start \in Nat
      <4>1. PICK line \in Matching : start = line.left
        BY <3>1 DEF Covers
      <4>2. line.left <= line.right /\ line.right <= end
        BY <3>1 DEF Covers, Matching
      <4> QED BY <2>0, <4>1, <4>2
    <3> QED BY <2>2, <3>1, <3>2, <3>3, <3>4, SignedFacts
  <2> QED BY <2>1, <2>2
<1> QED BY <1>1, MapsInvariance, PTL
=============================================================================
