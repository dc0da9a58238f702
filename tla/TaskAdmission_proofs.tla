------------------------ MODULE TaskAdmission_proofs ------------------------
(***************************************************************************)
(* Machine-checked proofs about TaskAdmission, for any finite number of    *)
(* calls, any backpressure limit and both scheduling policies.             *)
(***************************************************************************)
EXTENDS TaskAdmission, FiniteSetTheorems, TLAPS

(* How the parts of a task's state go together: where its thread can stand *)
(* depends on its kind, and its state on what its caller has been told.    *)
Together ==
  \A t \in Tasks :
    /\ place[t] = "out" <=> kind[t] = "none"
    /\ place[t] \in {"out", "entering"} => state[t] = "initial" /\ outcome[t] = "none"
    /\ place[t] = "entering" => kind[t] # "syncTyped"
    /\ place[t] \in {"yield", "wait"} => kind[t] = "callback"
    /\ state[t] = "resolved" <=> outcome[t] \in {"returned", "cancelled"}
    /\ outcome[t] = "trapped" => place[t] = "done"
    /\ place[t] = "core" /\ kind[t] \notin {"callback", "stackful"}
         => outcome[t] = "none"

(* The types of every variable but the counter, which needs counting.      *)
Types ==
  /\ kind \in [Tasks -> Kinds \cup {"none"}]
  /\ state \in [Tasks -> States]
  /\ place \in [Tasks -> Places]
  /\ ahead \in [Tasks -> SUBSET Tasks]
  /\ event \in [Tasks -> BOOLEAN]
  /\ backpressure \in -1 .. BackpressureLimit
  /\ exclusiveThread \in Tasks \cup {Nobody}
  /\ poisoned \in BOOLEAN
  /\ outcome \in [Tasks -> {"none", "returned", "cancelled", "trapped"}]

Local == Types /\ ExclusiveSlot /\ NoSilentExit /\ Together

IInv == Local /\ WaitersCounted

LEMMA InitInv == Init => IInv
<1> SUFFICES ASSUME Init PROVE IInv
  OBVIOUS
<1> USE TasksAssumption, LimitAssumption DEF Init
<1>1. Types
  <2>1. /\ kind \in [Tasks -> Kinds \cup {"none"}] /\ state \in [Tasks -> States]
        /\ place \in [Tasks -> Places]
    BY DEF Kinds, States, Places
  <2>2. /\ ahead \in [Tasks -> SUBSET Tasks] /\ event \in [Tasks -> BOOLEAN]
        /\ outcome \in [Tasks -> {"none", "returned", "cancelled", "trapped"}]
    OBVIOUS
  <2>3. /\ backpressure \in -1 .. BackpressureLimit
        /\ exclusiveThread \in Tasks \cup {Nobody} /\ poisoned \in BOOLEAN
    <3>1. 0 \in -1 .. BackpressureLimit
      BY LimitAssumption
    <3> QED
      BY <3>1
  <2> QED
    BY <2>1, <2>2, <2>3 DEF Types
<1>2. ExclusiveSlot /\ NoSilentExit /\ Together
  BY DEF ExclusiveSlot, NoSilentExit, Together, NeedsExclusive
<1>3. WaitersCounted
  <2>1. AtGate = {}
    BY DEF AtGate
  <2> QED
    BY <2>1, FS_EmptySet DEF WaitersCounted
<1> QED
  BY <1>1, <1>2, <1>3 DEF IInv, Local

LEMMA NextLocal == Local /\ [Next]_vars => Local'
<1> SUFFICES ASSUME Local, [Next]_vars PROVE Local'
  OBVIOUS
<1> USE TasksAssumption, LimitAssumption
        DEF Local, Types, ExclusiveSlot, NoSilentExit, Together, NeedsExclusive,
            Kinds, States, Places
<1>1. ASSUME NEW t \in Tasks, NEW k \in Kinds, Call(t, k) PROVE Local'
  BY <1>1 DEF Call, MustWait, HasBackpressure, Admitted, Parked, Waiters
<1>2. ASSUME NEW t \in Tasks, Enter(t) PROVE Local'
  BY <1>2 DEF Enter, Chosen, Candidate, Ready, HasBackpressure, Admitted, Unparked
<1>3. ASSUME NEW t \in Tasks, Invoke(t) PROVE Local'
  BY <1>3 DEF Invoke, Chosen, Candidate, Ready, Unparked
<1>4. ASSUME NEW t \in Tasks, RequestCancellation(t) PROVE Local'
  BY <1>4 DEF RequestCancellation, Unparked
<1>5. ASSUME NEW t \in Tasks, EventArrives(t) PROVE Local'
  BY <1>5 DEF EventArrives
<1>0. ASSUME NEW t \in Tasks, Live(t), Trapped(t),
             backpressure' \in -1 .. BackpressureLimit
      PROVE Local'
  <2>1. CASE kind[t] = "nested"
    BY <1>0, <2>1 DEF Live, Trapped
  <2>2. CASE kind[t] # "nested"
    BY <1>0, <2>2 DEF Live, Trapped
  <2> QED
    BY <2>1, <2>2
<1>6. ASSUME NEW t \in Tasks,
             NEW n \in {backpressure + 1, backpressure - 1}, SetBackpressure(t, n)
      PROVE Local'
  <2>0. Live(t)
    BY <1>6 DEF SetBackpressure
  <2>1. CASE ~InRange
    BY <1>0, <1>6, <2>0, <2>1 DEF SetBackpressure
  <2>2. CASE InRange
    <3>1. backpressure' = n /\ n \in -1 .. BackpressureLimit
      BY <1>6, <2>2 DEF SetBackpressure, InRange
    <3>2. CASE Trapped(t)
      BY <1>0, <2>0, <3>1, <3>2
    <3>3. CASE UNCHANGED <<kind, state, place, ahead, event, numWaitingToEnter,
                           exclusiveThread, poisoned, outcome>>
      BY <3>1, <3>3
    <3> QED
      BY <1>6, <2>2, <3>2, <3>3 DEF SetBackpressure
  <2> QED
    BY <2>1, <2>2
<1>7. ASSUME NEW t \in Tasks, TaskReturn(t) \/ TaskCancel(t) PROVE Local'
  <2>0. Live(t) /\ backpressure' = backpressure
    BY <1>7 DEF TaskReturn, TaskCancel
  <2>1. CASE Trapped(t)
    BY <1>0, <2>0, <2>1
  <2>2. ASSUME NEW how \in {"returned", "cancelled"}, Resolved(t, how),
               kind[t] \in {"callback", "stackful"},
               UNCHANGED <<place, exclusiveThread, poisoned, kind, ahead, event>>
        PROVE Local'
    BY <2>0, <2>2 DEF Resolved, Live
  <2> QED
    BY <1>7, <2>1, <2>2 DEF TaskReturn, TaskCancel
<1>8. ASSUME NEW t \in Tasks, ReturnResult(t) \/ Exit(t) \/ Trap(t) PROVE Local'
  <2>1. CASE ReturnResult(t)
    BY <2>1 DEF ReturnResult, Live, Resolved
  <2>2. CASE Live(t) /\ Trapped(t) /\ UNCHANGED backpressure
    BY <1>0, <2>2
  <2>3. CASE Exit(t) /\ state[t] = "resolved"
    BY <2>3 DEF Exit, Live
  <2> QED
    BY <1>8, <2>1, <2>2, <2>3 DEF Exit, Trap
<1>9. ASSUME NEW t \in Tasks, NEW c \in {"yield", "wait"}, CallbackReturns(t, c)
      PROVE Local'
  BY <1>9 DEF CallbackReturns, Live, Parked, Waiters
<1>10. ASSUME NEW t \in Tasks, WaitOnNoSet(t) PROVE Local'
  BY <1>10 DEF WaitOnNoSet, Live
<1>11. CASE UNCHANGED vars
  BY <1>11 DEF vars
<1> QED
  BY <1>1, <1>2, <1>3, <1>4, <1>5, <1>6, <1>7, <1>8, <1>9, <1>10, <1>11
     DEF Next, Tick, GuestStep, BackpressureInc, BackpressureDec

(* Each step adds one call to the gate, takes one away, or neither, and    *)
(* counts accordingly.                                                     *)
LEMMA NextCounted == Local /\ WaitersCounted /\ [Next]_vars => WaitersCounted'
<1> SUFFICES ASSUME Local, WaitersCounted, [Next]_vars PROVE WaitersCounted'
  OBVIOUS
<1> USE DEF Local, Types, Together
<1>0. IsFiniteSet(AtGate) /\ Cardinality(AtGate) \in Nat
  BY TasksAssumption, FS_Subset, FS_CardinalityType DEF AtGate
<1>1. ASSUME NEW t \in Tasks, place[t] # "entering",
             AtGate' = AtGate \cup {t}, numWaitingToEnter' = numWaitingToEnter + 1
      PROVE WaitersCounted'
  <2>1. t \notin AtGate
    BY <1>1 DEF AtGate
  <2>2. Cardinality(AtGate \cup {t}) = Cardinality(AtGate) + 1
    BY <1>0, <2>1, FS_AddElement
  <2> QED
    BY <1>1, <2>2 DEF WaitersCounted
<1>2. ASSUME NEW t \in Tasks, place[t] = "entering",
             AtGate' = AtGate \ {t}, numWaitingToEnter' = numWaitingToEnter - 1
      PROVE WaitersCounted'
  <2>1. t \in AtGate
    BY <1>2 DEF AtGate
  <2>2. Cardinality(AtGate \ {t}) = Cardinality(AtGate) - 1
    BY <1>0, <2>1, FS_RemoveElement
  <2> QED
    BY <1>2, <2>2 DEF WaitersCounted
<1>3. ASSUME AtGate' = AtGate, numWaitingToEnter' = numWaitingToEnter
      PROVE WaitersCounted'
  BY <1>3 DEF WaitersCounted
<1>4. ASSUME NEW t \in Tasks, NEW k \in Kinds, Call(t, k) PROVE WaitersCounted'
  <2>1. CASE MustWait(k)
    BY <2>1, <1>1, <1>4 DEF Call, AtGate
  <2>2. CASE ~MustWait(k)
    BY <2>2, <1>3, <1>4 DEF Call, Admitted, AtGate
  <2> QED
    BY <2>1, <2>2
<1>5. ASSUME NEW t \in Tasks, Enter(t) PROVE WaitersCounted'
  BY <1>2, <1>5 DEF Enter, Admitted, AtGate
<1>6. ASSUME NEW t \in Tasks, RequestCancellation(t) PROVE WaitersCounted'
  <2>1. CASE place' = place /\ numWaitingToEnter' = numWaitingToEnter
    BY <2>1, <1>3 DEF AtGate
  <2>2. CASE /\ place[t] = "entering" /\ numWaitingToEnter' = numWaitingToEnter - 1
             /\ place' = [place EXCEPT ![t] = "done"]
    BY <2>2, <1>2 DEF AtGate
  <2> QED
    BY <2>1, <2>2, <1>6 DEF RequestCancellation
<1>7. ASSUME NEW t \in Tasks, Invoke(t) \/ EventArrives(t) PROVE WaitersCounted'
  BY <1>3, <1>7 DEF Invoke, EventArrives, AtGate
<1>8. ASSUME NEW t \in Tasks, GuestStep(t) PROVE WaitersCounted'
  <2>1. numWaitingToEnter' = numWaitingToEnter
    BY <1>8 DEF GuestStep, BackpressureInc, BackpressureDec, SetBackpressure,
         TaskReturn, TaskCancel, ReturnResult, Exit, Trap, Trapped,
         CallbackReturns, WaitOnNoSet
  <2>2. \/ place' = place
        \/ /\ place[t] = "core"
           /\ \E p \in {"done", "yield", "wait"} : place' = [place EXCEPT ![t] = p]
    BY <1>8 DEF GuestStep, BackpressureInc, BackpressureDec, SetBackpressure,
         TaskReturn, TaskCancel, ReturnResult, Exit, Trap, Trapped,
         CallbackReturns, WaitOnNoSet, Live
  <2>3. AtGate' = AtGate
    BY <2>2 DEF AtGate
  <2> QED
    BY <2>1, <2>3, <1>3
<1>9. CASE UNCHANGED vars
  BY <1>3, <1>9 DEF vars, AtGate
<1> QED
  BY <1>4, <1>5, <1>6, <1>7, <1>8, <1>9 DEF Next, Tick

(* Guest code is entered by a call, at the gate, or by an invocation of a  *)
(* callback.                                                               *)
LEMMA EntersCore ==
  ASSUME IInv, [Next]_vars, NEW t \in Tasks, place[t] # "core", place'[t] = "core"
  PROVE  (\E k \in Kinds : Call(t, k)) \/ Enter(t) \/ Invoke(t)
<1> USE DEF IInv, Local, Types
<1>1. ASSUME NEW u \in Tasks, RequestCancellation(u) \/ EventArrives(u) PROVE FALSE
  BY <1>1 DEF RequestCancellation, EventArrives
<1>2. ASSUME NEW u \in Tasks, GuestStep(u) PROVE FALSE
  BY <1>2 DEF GuestStep, BackpressureInc, BackpressureDec, SetBackpressure, TaskReturn,
       TaskCancel, ReturnResult, Exit, Trap, Trapped, CallbackReturns, WaitOnNoSet, Live
<1>3. ASSUME NEW u \in Tasks, NEW k \in Kinds, Call(u, k) PROVE u = t
  BY <1>3 DEF Call, Admitted
<1>4. ASSUME NEW u \in Tasks, Enter(u) \/ Invoke(u) PROVE u = t
  BY <1>4 DEF Enter, Invoke, Admitted
<1> QED
  BY <1>1, <1>2, <1>3, <1>4 DEF Next, Tick, vars

(* Everything below rests on this inductive invariant.                     *)
THEOREM Invariance == Spec => []IInv
<1>1. IInv /\ [Next]_vars => IInv'
  BY NextLocal, NextCounted DEF IInv
<1> QED
  BY InitInv, <1>1, PTL DEF Spec

(* Every variable keeps its type, the counter of waiting calls included:   *)
(* it never goes below zero.                                               *)
THEOREM TypeCorrect == Spec => []TypeOK
<1>1. IInv => TypeOK
  <2> SUFFICES ASSUME IInv PROVE TypeOK
    OBVIOUS
  <2>1. IsFiniteSet(AtGate)
    BY TasksAssumption, FS_Subset DEF AtGate
  <2>2. numWaitingToEnter \in Nat
    BY <2>1, FS_CardinalityType DEF IInv, WaitersCounted
  <2> QED
    BY <2>2 DEF IInv, Local, Types, TypeOK
<1> QED
  BY Invariance, <1>1, PTL

(* At most one exclusive invocation runs in a live instance, and the slot  *)
(* is held exactly by that one.                                            *)
THEOREM ExclusionSafe == Spec => []ExclusiveSlot
<1>1. IInv => ExclusiveSlot
  BY DEF IInv, Local
<1> QED
  BY Invariance, <1>1, PTL

(* The counter that holds newcomers back is exact.                         *)
THEOREM CountExact == Spec => []WaitersCounted
<1>1. IInv => WaitersCounted
  BY DEF IInv
<1> QED
  BY Invariance, <1>1, PTL

(* A finished call has told its caller how it ended.                       *)
THEOREM AlwaysAnswered == Spec => []NoSilentExit
<1>1. IInv => NoSilentExit
  BY DEF IInv, Local
<1> QED
  BY Invariance, <1>1, PTL

(* No gated call overtakes one that is waiting at the gate.                *)
THEOREM Orderly == Spec => NoOvertaking
<1> DEFINE Ok == \A t \in Tasks :
             place[t] = "out" /\ place'[t] = "core" /\ kind'[t] # "syncTyped"
               => \A u \in Tasks : place[u] # "entering"
<1>1. IInv /\ [Next]_vars => Ok
  <2> SUFFICES ASSUME IInv, [Next]_vars, NEW t \in Tasks,
                      place[t] = "out", place'[t] = "core", kind'[t] # "syncTyped"
               PROVE \A u \in Tasks : place[u] # "entering"
    OBVIOUS
  <2> USE DEF IInv, Local, Types, Together
  <2>1. \E k \in Kinds : Call(t, k)
    BY EntersCore DEF Enter, Invoke
  <2>2. PICK k \in Kinds : Call(t, k)
    BY <2>1
  <2>3. ~MustWait(k) /\ k # "syncTyped"
    BY <2>2 DEF Call
  <2>4. numWaitingToEnter = Cardinality(AtGate) /\ IsFiniteSet(AtGate)
    BY TasksAssumption, FS_Subset DEF WaitersCounted, AtGate
  <2>5. Cardinality(AtGate) = 0
    BY <2>3, <2>4, FS_CardinalityType DEF MustWait
  <2>6. AtGate = {}
    BY <2>4, <2>5, FS_EmptySet
  <2> QED
    BY <2>6 DEF AtGate
<1>2. IInv /\ [Next]_vars => [Ok]_vars
  BY <1>1
<1> QED
  BY Invariance, <1>2, PTL DEF Spec, NoOvertaking

(* What a caller has been told is never taken back or said twice.          *)
THEOREM AnsweredOnce == Spec => ResolvedOnce
<1> DEFINE Ok == \A t \in Tasks : outcome[t] # "none" => outcome'[t] = outcome[t]
<1>1. IInv /\ [Next]_vars => Ok
  <2> SUFFICES ASSUME IInv, [Next]_vars PROVE Ok
    OBVIOUS
  <2> USE DEF IInv, Local, Types, Together
  <2>1. ASSUME NEW t \in Tasks, GuestStep(t) PROVE Ok
    BY <2>1 DEF GuestStep, BackpressureInc, BackpressureDec, SetBackpressure,
         TaskReturn, TaskCancel, ReturnResult, Exit, Trap, Trapped, Resolved,
         CallbackReturns, WaitOnNoSet, Live
  <2>2. ASSUME NEW t \in Tasks, RequestCancellation(t) PROVE Ok
    BY <2>2 DEF RequestCancellation
  <2>3. CASE outcome' = outcome
    BY <2>3
  <2> QED
    BY <2>1, <2>2, <2>3 DEF Next, Tick, Call, Enter, Invoke, EventArrives, vars
<1>2. IInv /\ [Next]_vars => [Ok]_vars
  BY <1>1
<1> QED
  BY Invariance, <1>2, PTL DEF Spec, ResolvedOnce

(* Code is entered in order: no gated call overtakes one that waits at the *)
(* gate, and a task with a pending cancellation learns of it before it     *)
(* sees any event, which is kept.                                          *)
THEOREM InOrder == Spec => EntryOrder
<1> DEFINE Ok == \A t \in Tasks :
             (state[t] = "pending-cancel" /\ place[t] # "core" /\ place'[t] = "core")
               => state'[t] = "cancel-delivered" /\ event'[t] = event[t]
<1>1. IInv /\ [Next]_vars => Ok
  <2> SUFFICES ASSUME IInv, [Next]_vars, NEW t \in Tasks, state[t] = "pending-cancel",
                      place[t] # "core", place'[t] = "core"
               PROVE  state'[t] = "cancel-delivered" /\ event'[t] = event[t]
    OBVIOUS
  <2> USE DEF IInv, Local, Types, Together
  <2>1. place[t] \notin {"out", "entering"}
    OBVIOUS
  <2>2. Invoke(t)
    BY <2>1, EntersCore DEF Call, Enter
  <2> QED
    BY <2>2 DEF Invoke
<1>2. IInv /\ [Next]_vars => [Ok]_vars
  BY <1>1
<1>3. Spec => CancellationFirst
  BY Invariance, <1>2, PTL DEF Spec, CancellationFirst
<1> QED
  BY Orderly, <1>3 DEF EntryOrder

(* No code of a poisoned instance runs again but the synchronous callees   *)
(* that its callers already wait for.                                      *)
THEOREM PoisonedStaySilent == Spec => PoisonStopsTasks
<1> DEFINE Ok == \A t \in Tasks :
             poisoned /\ kind[t] # "nested" /\ place'[t] = "core" => place[t] = "core"
<1>1. IInv /\ [Next]_vars => Ok
  <2> SUFFICES ASSUME IInv, [Next]_vars, NEW t \in Tasks, poisoned, kind[t] # "nested",
                      place'[t] = "core", place[t] # "core"
               PROVE  FALSE
    OBVIOUS
  <2>1. Enter(t) \/ Invoke(t)
    BY EntersCore DEF Call
  <2> QED
    BY <2>1 DEF Enter, Invoke, Chosen, Candidate
<1>2. IInv /\ [Next]_vars => [Ok]_vars
  BY <1>1
<1> QED
  BY Invariance, <1>2, PTL DEF Spec, PoisonStopsTasks
============================================================================
