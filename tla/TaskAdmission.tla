--------------------------- MODULE TaskAdmission ---------------------------
(***************************************************************************)
(* Admission of calls into one component instance, and the life of a task  *)
(* from its call to its resolution (runtime/src/task/mod.ts, the implicit  *)
(* thread's body in exec/boundary.ts, the deferred enter-sync-call of      *)
(* intrinsics/mod.ts, and the part of Store.tick that resumes waiters).    *)
(*                                                                         *)
(* Kinds of call:                                                          *)
(*   "syncTyped"  sync-typed function: not gated at all                    *)
(*   "syncLift"   async-typed function lifted with the sync ABI            *)
(*   "callback"   async callback ABI                                       *)
(*   "stackful"   async lift without a callback                            *)
(*   "nested"     an enter-sync-call of an async-typed function, run on    *)
(*                the stack of a caller that lives in another instance     *)
(***************************************************************************)
EXTENDS Integers, FiniteSets

CONSTANTS
  Tasks,               \* the calls made to the instance
  Nobody,              \* exclusiveThread === null
  BackpressureLimit,   \* stands for 2^16, where the counter traps
  Fifo                 \* TRUE: default scheduling; FALSE: seeded shuffle

ASSUME TasksAssumption == Nobody \notin Tasks /\ IsFiniteSet(Tasks)
ASSUME LimitAssumption == BackpressureLimit \in Nat \ {0}
ASSUME FifoAssumption == Fifo \in BOOLEAN

Kinds == {"syncTyped", "syncLift", "callback", "stackful", "nested"}
States == {"initial", "started", "pending-cancel", "cancel-delivered", "resolved"}

(* Where the implicit thread stands: not called yet, parked at the entry    *)
(* gate, inside the core function (running or suspended mid-invocation),    *)
(* parked between two callback invocations after a YIELD or a WAIT, over.   *)
Places == {"out", "entering", "core", "yield", "wait", "done"}

VARIABLES
  kind,               \* what kind of call each task is, "none" before it is made
  state,              \* Task.state
  place,              \* where the implicit thread stands
  ahead,              \* Store.waiting as an order: the waiters listed before this one
  event,              \* the task's waitable set has a pending event
  backpressure,       \* inst.backpressure
  numWaitingToEnter,  \* inst.numWaitingToEnter
  exclusiveThread,    \* inst.exclusiveThread
  poisoned,           \* the instance is in poisonedInstances
  outcome             \* how the call was resolved, as its caller was told

vars == <<kind, state, place, ahead, event, backpressure, numWaitingToEnter,
          exclusiveThread, poisoned, outcome>>

Init ==
  /\ kind = [t \in Tasks |-> "none"]
  /\ state = [t \in Tasks |-> "initial"]
  /\ place = [t \in Tasks |-> "out"]
  /\ ahead = [t \in Tasks |-> {}]
  /\ event = [t \in Tasks |-> FALSE]
  /\ backpressure = 0
  /\ numWaitingToEnter = 0
  /\ exclusiveThread = Nobody
  /\ poisoned = FALSE
  /\ outcome = [t \in Tasks |-> "none"]

----------------------------------------------------------------------------
(* The gate.                                                                *)

NeedsExclusive(k) == k \in {"syncLift", "callback", "nested"}

HasBackpressure_CounterOnly(k) == backpressure > 0

HasBackpressure(k) ==
  backpressure > 0 \/ (NeedsExclusive(k) /\ exclusiveThread # Nobody)

(* A newcomer also waits whenever somebody is waiting already.              *)
MustWait(k) ==
  k # "syncTyped" /\ (HasBackpressure(k) \/ numWaitingToEnter > 0)

----------------------------------------------------------------------------
(* The store's waiting list.                                                *)

Waiters == {t \in Tasks : place[t] \in {"entering", "yield", "wait"}}
AtGate == {t \in Tasks : place[t] = "entering"}

(* t goes to the end of the list; t, wherever it was, leaves the list.      *)
Parked(t) == ahead' = [ahead EXCEPT ![t] = Waiters]
Unparked(t) == ahead' = [u \in Tasks |-> IF u = t THEN {} ELSE ahead[u] \ {t}]

Ready(t) ==
  \/ place[t] = "entering" /\ ~HasBackpressure(kind[t])
  \/ place[t] = "yield" /\ exclusiveThread = Nobody
  \/ /\ place[t] = "wait" /\ exclusiveThread = Nobody
     /\ state[t] = "pending-cancel" \/ event[t]

Candidate_PoisonedToo(t) == Ready(t)

(* Threads of a poisoned instance are no candidates. A deferred             *)
(* enter-sync-call waits as a thread of its caller's instance.              *)
Candidate(t) == Ready(t) /\ (poisoned => kind[t] = "nested")

Chosen(t) == Candidate(t) /\ (Fifo => \A u \in ahead[t] : ~Candidate(u))

----------------------------------------------------------------------------
(* Calls and admission.                                                     *)

(* What follows a passed gate: the slot is taken and the task started.      *)
Admitted(t, k) ==
  /\ place' = [place EXCEPT ![t] = "core"]
  /\ state' = [state EXCEPT ![t] = "started"]
  /\ exclusiveThread' = IF NeedsExclusive(k) THEN t ELSE exclusiveThread

(* A poisoned instance refuses the call before any state is touched.        *)
Call(t, k) ==
  /\ place[t] = "out" /\ ~poisoned
  /\ kind' = [kind EXCEPT ![t] = k]
  /\ IF MustWait(k)
     THEN /\ place' = [place EXCEPT ![t] = "entering"]
          /\ numWaitingToEnter' = numWaitingToEnter + 1
          /\ Parked(t)
          /\ UNCHANGED <<state, exclusiveThread>>
     ELSE Admitted(t, k) /\ UNCHANGED <<numWaitingToEnter, ahead>>
  /\ UNCHANGED <<event, backpressure, poisoned, outcome>>

(* Store.tick resumes a waiter at the gate.                                 *)
Enter(t) ==
  /\ place[t] = "entering" /\ Chosen(t)
  /\ numWaitingToEnter' = numWaitingToEnter - 1
  /\ Admitted(t, kind[t])
  /\ Unparked(t)
  /\ UNCHANGED <<kind, event, backpressure, poisoned, outcome>>

Invoke_EventFirst(t) ==
  /\ place[t] \in {"yield", "wait"} /\ Chosen(t)
  /\ IF state[t] = "pending-cancel" /\ ~event[t]
     THEN state' = [state EXCEPT ![t] = "cancel-delivered"] /\ UNCHANGED event
     ELSE /\ event' = [event EXCEPT ![t] = place[t] = "yield" /\ event[t]]
          /\ UNCHANGED state
  /\ place' = [place EXCEPT ![t] = "core"]
  /\ exclusiveThread' = t
  /\ Unparked(t)
  /\ UNCHANGED <<kind, backpressure, numWaitingToEnter, poisoned, outcome>>

(* Store.tick resumes a callback task between two invocations: it retakes   *)
(* the slot, and a pending cancellation wins over an event, which stays.    *)
Invoke(t) ==
  /\ place[t] \in {"yield", "wait"} /\ Chosen(t)
  /\ IF state[t] = "pending-cancel"
     THEN state' = [state EXCEPT ![t] = "cancel-delivered"] /\ UNCHANGED event
     ELSE /\ event' = [event EXCEPT ![t] = place[t] = "yield" /\ event[t]]
          /\ UNCHANGED state
  /\ place' = [place EXCEPT ![t] = "core"]
  /\ exclusiveThread' = t
  /\ Unparked(t)
  /\ UNCHANGED <<kind, backpressure, numWaitingToEnter, poisoned, outcome>>

(* The caller cancels. A task still at the gate is resumed on the spot,     *)
(* past its readiness, and resolves as cancelled without ever starting; a   *)
(* started one only records the request.                                    *)
RequestCancellation(t) ==
  /\ kind[t] \notin {"none", "nested"}
  /\ \/ /\ place[t] = "entering" /\ state[t] = "initial"
        /\ numWaitingToEnter' = numWaitingToEnter - 1
        /\ state' = [state EXCEPT ![t] = "resolved"]
        /\ outcome' = [outcome EXCEPT ![t] = "cancelled"]
        /\ place' = [place EXCEPT ![t] = "done"]
        /\ Unparked(t)
     \/ /\ state[t] = "started"
        /\ state' = [state EXCEPT ![t] = "pending-cancel"]
        /\ UNCHANGED <<numWaitingToEnter, outcome, place, ahead>>
  /\ UNCHANGED <<kind, event, backpressure, exclusiveThread, poisoned>>

(* A waitable of the set a callback task waits on gets an event.            *)
EventArrives(t) ==
  /\ kind[t] = "callback" /\ place[t] # "done" /\ ~event[t]
  /\ event' = [event EXCEPT ![t] = TRUE]
  /\ UNCHANGED <<kind, state, place, ahead, backpressure, numWaitingToEnter,
                 exclusiveThread, poisoned, outcome>>

----------------------------------------------------------------------------
(* Steps of the guest, inside the core function.                            *)

(* A poisoned instance's own frames never run again; a nested call is part  *)
(* of its caller's frame.                                                   *)
Live(t) == place[t] = "core" /\ (poisoned => kind[t] = "nested")

(* A trap ends the thread. It poisons the instance whose task it escapes    *)
(* from and leaves the slot where it was; for a nested call that instance   *)
(* is the caller's, and the abandoned activation gives the slot back.       *)
Trapped(t) ==
  /\ place' = [place EXCEPT ![t] = "done"]
  /\ outcome' = [outcome EXCEPT ![t] = IF @ = "none" THEN "trapped" ELSE @]
  /\ IF kind[t] = "nested"
     THEN /\ exclusiveThread' = IF exclusiveThread = t THEN Nobody ELSE exclusiveThread
          /\ UNCHANGED poisoned
     ELSE poisoned' = TRUE /\ UNCHANGED exclusiveThread
  /\ UNCHANGED <<kind, state, ahead, event, numWaitingToEnter>>

Trap(t) == Live(t) /\ Trapped(t) /\ UNCHANGED backpressure

InRange == backpressure \in 0 .. BackpressureLimit - 1

(* backpressure.inc and .dec assert the range, then change the counter,     *)
(* then trap on the new value.                                              *)
SetBackpressure(t, n) ==
  /\ Live(t)
  /\ IF InRange
     THEN /\ backpressure' = n
          /\ IF n \in {-1, BackpressureLimit} THEN Trapped(t)
             ELSE UNCHANGED <<kind, state, place, ahead, event, numWaitingToEnter,
                              exclusiveThread, poisoned, outcome>>
     ELSE Trapped(t) /\ UNCHANGED backpressure

BackpressureInc(t) == SetBackpressure(t, backpressure + 1)
BackpressureDec(t) == SetBackpressure(t, backpressure - 1)

Resolved(t, how) ==
  /\ state' = [state EXCEPT ![t] = "resolved"]
  /\ outcome' = [outcome EXCEPT ![t] = how]

(* The task.return and task.cancel built-ins, for async lifts only.         *)
TaskReturn(t) ==
  /\ Live(t)
  /\ IF kind[t] \in {"callback", "stackful"} /\ state[t] # "resolved"
     THEN /\ Resolved(t, "returned")
          /\ UNCHANGED <<place, exclusiveThread, poisoned, kind, ahead, event,
                         numWaitingToEnter>>
     ELSE Trapped(t)
  /\ UNCHANGED backpressure

TaskCancel(t) ==
  /\ Live(t)
  /\ IF kind[t] \in {"callback", "stackful"} /\ state[t] = "cancel-delivered"
     THEN /\ Resolved(t, "cancelled")
          /\ UNCHANGED <<place, exclusiveThread, poisoned, kind, ahead, event,
                         numWaitingToEnter>>
     ELSE Trapped(t)
  /\ UNCHANGED backpressure

(* The core function of a call without task.return returns: the result is   *)
(* delivered, then the implicit thread exits and gives the slot back.       *)
ReturnResult(t) ==
  /\ Live(t) /\ kind[t] \in {"syncTyped", "syncLift", "nested"}
  /\ Resolved(t, "returned")
  /\ place' = [place EXCEPT ![t] = "done"]
  /\ exclusiveThread' = IF NeedsExclusive(kind[t]) THEN Nobody ELSE exclusiveThread
  /\ UNCHANGED <<kind, ahead, event, backpressure, numWaitingToEnter, poisoned>>

(* A stackful function returns, or a callback returns EXIT: the thread      *)
(* exits, and an unresolved task traps before the slot is released.         *)
Exit(t) ==
  /\ Live(t) /\ kind[t] \in {"callback", "stackful"}
  /\ IF state[t] = "resolved"
     THEN /\ place' = [place EXCEPT ![t] = "done"]
          /\ exclusiveThread' = IF NeedsExclusive(kind[t]) THEN Nobody
                                ELSE exclusiveThread
          /\ UNCHANGED <<state, outcome, poisoned, kind, ahead, event,
                         numWaitingToEnter>>
     ELSE Trapped(t)
  /\ UNCHANGED backpressure

(* A callback returns YIELD or WAIT: a pending cancellation is delivered by *)
(* another invocation at once, the slot held; otherwise the slot is         *)
(* released and the thread parks.                                           *)
CallbackReturns(t, code) ==
  /\ Live(t) /\ kind[t] = "callback"
  /\ IF state[t] = "pending-cancel"
     THEN /\ state' = [state EXCEPT ![t] = "cancel-delivered"]
          /\ UNCHANGED <<place, exclusiveThread, ahead>>
     ELSE /\ exclusiveThread' = Nobody
          /\ place' = [place EXCEPT ![t] = code]
          /\ Parked(t)
          /\ UNCHANGED state
  /\ UNCHANGED <<kind, event, backpressure, numWaitingToEnter, poisoned, outcome>>

(* WAIT names an index that is no waitable set: the slot is free already    *)
(* when the loop traps.                                                     *)
WaitOnNoSet(t) ==
  /\ Live(t) /\ kind[t] = "callback" /\ state[t] # "pending-cancel"
  /\ exclusiveThread' = Nobody
  /\ place' = [place EXCEPT ![t] = "done"]
  /\ outcome' = [outcome EXCEPT ![t] = IF @ = "none" THEN "trapped" ELSE @]
  /\ poisoned' = TRUE
  /\ UNCHANGED <<kind, state, ahead, event, backpressure, numWaitingToEnter>>

----------------------------------------------------------------------------
Tick == \E t \in Tasks : Enter(t) \/ Invoke(t)

GuestStep(t) ==
  \/ BackpressureInc(t) \/ BackpressureDec(t)
  \/ TaskReturn(t) \/ TaskCancel(t)
  \/ ReturnResult(t) \/ Exit(t) \/ Trap(t)
  \/ CallbackReturns(t, "yield") \/ CallbackReturns(t, "wait")
  \/ WaitOnNoSet(t)

Next ==
  \/ \E t \in Tasks, k \in Kinds : Call(t, k)
  \/ Tick
  \/ \E t \in Tasks : RequestCancellation(t) \/ EventArrives(t) \/ GuestStep(t)

Spec == Init /\ [][Next]_vars

(* The coordinator keeps ticking while a candidate exists; nothing is asked *)
(* of the guest or of callers.                                              *)
FairSpec == Spec /\ WF_vars(Tick)

----------------------------------------------------------------------------
(* Type correctness of the instance's admission state.                      *)
TypeOK ==
  /\ kind \in [Tasks -> Kinds \cup {"none"}]
  /\ state \in [Tasks -> States]
  /\ place \in [Tasks -> Places]
  /\ ahead \in [Tasks -> SUBSET Tasks]
  /\ event \in [Tasks -> BOOLEAN]
  /\ backpressure \in -1 .. BackpressureLimit
  /\ numWaitingToEnter \in Nat
  /\ exclusiveThread \in Tasks \cup {Nobody}
  /\ poisoned \in BOOLEAN
  /\ outcome \in [Tasks -> {"none", "returned", "cancelled", "trapped"}]

(* Exclusive execution (Task.enterImplicitThread, runCallbackLoop,          *)
(* SynchronousActivation): while the instance lives, the slot's holder is   *)
(* exactly the one task of an exclusive kind whose core function is on the  *)
(* stack, running or suspended; a callback task parked between invocations  *)
(* does not hold it, and a finished one has given it back.                  *)
ExclusiveSlot ==
  ~poisoned => \A t \in Tasks :
    (exclusiveThread = t) <=> (place[t] = "core" /\ NeedsExclusive(kind[t]))

(* numWaitingToEnter, which holds newcomers back, counts exactly the calls  *)
(* parked at the gate, whichever way they leave it: admission or            *)
(* cancellation past their readiness.                                       *)
WaitersCounted == numWaitingToEnter = Cardinality(AtGate)

(* No overtaking (the comment in enterImplicitThread: entry is "a queue     *)
(* rather than a stampede"): a gated call is not admitted on arrival while  *)
(* another call is still parked at the gate.                                *)
NoOvertaking ==
  [][\A t \in Tasks :
       place[t] = "out" /\ place'[t] = "core" /\ kind'[t] # "syncTyped"
         => \A u \in Tasks : place[u] # "entering"]_vars

(* A call is resolved at most once: a result delivered to the caller, a     *)
(* cancellation or a trap it has learnt of, is never replaced.              *)
ResolvedOnce ==
  [][\A t \in Tasks : outcome[t] # "none" => outcome'[t] = outcome[t]]_vars

(* No call is left unanswered (unregisterThread's trap): a thread that is   *)
(* over has told its caller something, and one that returned normally is    *)
(* resolved.                                                                *)
NoSilentExit ==
  \A t \in Tasks : place[t] = "done" =>
    /\ outcome[t] # "none"
    /\ outcome[t] \in {"returned", "cancelled"} => state[t] = "resolved"

(* Cancellation comes first and costs nothing (waitForCallbackEvent): a     *)
(* task with a pending request that is invoked again learns of it in that   *)
(* very invocation, and an event that was waiting stays for the next.       *)
CancellationFirst ==
  [][\A t \in Tasks :
       (state[t] = "pending-cancel" /\ place[t] # "core" /\ place'[t] = "core")
         => state'[t] = "cancel-delivered" /\ event'[t] = event[t]]_vars

(* Guest code is entered in order: calls in turn through the gate, and a    *)
(* task's cancellation before any other of its events.                      *)
EntryOrder == NoOvertaking /\ CancellationFirst

(* Once the instance is poisoned, no task of its own runs guest code again: *)
(* readyCandidates filters its threads and entry is refused.                *)
PoisonStopsTasks ==
  [][\A t \in Tasks :
       poisoned /\ kind[t] # "nested" /\ place'[t] = "core" => place[t] = "core"]_vars

(* docs/architecture.md: a trap permanently poisons the instance and later  *)
(* entry is refused with the original cause, whatever the kind of call.     *)
PoisonRefusesEntry ==
  [][\A t \in Tasks : poisoned /\ place'[t] = "core" => place[t] = "core"]_vars

============================================================================
