---------------------------- MODULE SubtaskCalls ----------------------------
(***************************************************************************)
(* Asynchronous calls of one guest instance, from the call to the drop of  *)
(* the subtask that stands for it (runtime/src/task/subtask.ts): calls of  *)
(* host imports that return a Promise (createLoweredImport), calls of a    *)
(* guest callee (createAsyncStartCall), their events, their cancellation   *)
(* (createSubtaskCancel) and their drop.                                   *)
(*                                                                         *)
(* Kinds of call:                                                          *)
(*   "host"      a host import, cancelled promptly                         *)
(*   "deferred"  a host import marked deferCancel()                        *)
(*   "fact"      a callee in another component instance                    *)
(* All guest callees live in one instance and the calls in another; a call *)
(* that a built-in refuses is a trap of the caller (CallerTraps).          *)
(***************************************************************************)
EXTENDS Naturals

CONSTANTS
  Calls,   \* the asynchronous calls the caller makes
  Jspi     \* whether a wasm frame can be suspended (SuspensionMode)

ASSUME JspiAssumption == Jspi \in BOOLEAN

Kinds == {"host", "deferred", "fact"}
Final == {"RETURNED", "CANCELLED_BEFORE_STARTED", "CANCELLED_BEFORE_RETURNED"}
States == {"unborn", "STARTING", "STARTED"} \cup Final

(* Where the callee of a "fact" call stands: parked at the entry gate, in   *)
(* its core function or on a promising-entry hop, parked in the scheduler,  *)
(* all its threads done.                                                    *)
CalleePlaces == {"none", "gate", "hop", "parked", "over"}

VARIABLES
  kind,             \* what is called, "none" before the call
  state,            \* Subtask.state
  told,             \* the latest status the guest was given for the call
  handle,           \* the subtask's slot in the caller's table
  event,            \* Waitable.pendingEvent is set
  inSet,            \* the subtask is in a waitable set
  hasSyncWaiter,    \* Waitable.hasSyncWaiter
  cancelRequested,  \* Subtask.cancellationRequested
  delivered,        \* Subtask.lenders === null
  numLends,         \* lends of the caller's handles the call holds
  park,             \* what the calling frame waits for
  hostPending,      \* the call is in Store.pendingHostCalls
  callee,           \* where the callee stands
  calleeCancel,     \* the callee task's cancellation: none, pending, delivered
  callerDead,       \* the caller's instance is poisoned
  calleeDead        \* the callee's instance is poisoned

vars == <<kind, state, told, handle, event, inSet, hasSyncWaiter, cancelRequested,
          delivered, numLends, park, hostPending, callee, calleeCancel,
          callerDead, calleeDead>>

Init ==
  /\ kind = [c \in Calls |-> "none"]
  /\ state = [c \in Calls |-> "unborn"]
  /\ told = [c \in Calls |-> "none"]
  /\ handle = [c \in Calls |-> "none"]
  /\ event = [c \in Calls |-> FALSE]
  /\ inSet = [c \in Calls |-> FALSE]
  /\ hasSyncWaiter = [c \in Calls |-> FALSE]
  /\ cancelRequested = [c \in Calls |-> FALSE]
  /\ delivered = [c \in Calls |-> FALSE]
  /\ numLends = [c \in Calls |-> 0]
  /\ park = [c \in Calls |-> "none"]
  /\ hostPending = [c \in Calls |-> FALSE]
  /\ callee = [c \in Calls |-> "none"]
  /\ calleeCancel = [c \in Calls |-> "none"]
  /\ callerDead = FALSE
  /\ calleeDead = FALSE

----------------------------------------------------------------------------
(* Groups of variables steps leave alone together.                          *)
claim == <<inSet, hasSyncWaiter, cancelRequested>>
calleeSide == <<callee, calleeCancel, calleeDead>>

Resolved(c) == state[c] \in Final

(* Frames of the caller run while its instance lives; a frame of the callee *)
(* that cannot be suspended is on top of them.                              *)
CallerRuns == ~callerDead /\ (Jspi \/ \A c \in Calls : callee[c] # "hop")

(* resolve, then the progress notice: an event once the guest has a handle. *)
ResolvesTo(c, s) ==
  /\ state' = [state EXCEPT ![c] = s]
  /\ event' = IF handle[c] = "none" THEN event ELSE [event EXCEPT ![c] = TRUE]

(* The lends stay with the delivered subtask.                               *)
Delivers_KeepsLends(c, s) ==
  /\ told' = [told EXCEPT ![c] = s]
  /\ delivered' = [delivered EXCEPT ![c] = TRUE]
  /\ UNCHANGED numLends

(* deliverResolve: the lends end, and the guest knows how the call ended.   *)
Delivers(c, s) ==
  /\ told' = [told EXCEPT ![c] = s]
  /\ delivered' = [delivered EXCEPT ![c] = TRUE]
  /\ numLends' = [numLends EXCEPT ![c] = 0]

----------------------------------------------------------------------------
(* Host imports.                                                            *)

(* The host answers at once: no handle, no event, no lend left.             *)
HostAtOnce(c, k) ==
  /\ CallerRuns /\ kind[c] = "none"
  /\ kind' = [kind EXCEPT ![c] = k]
  /\ state' = [state EXCEPT ![c] = "RETURNED"]
  /\ Delivers(c, "RETURNED")
  /\ UNCHANGED <<handle, event, claim, park, hostPending, calleeSide, callerDead>>

(* The host returns a Promise: the arguments are lifted, the guest gets a   *)
(* handle in state STARTED, the store an outstanding host call.             *)
HostPromises(c, k) ==
  /\ CallerRuns /\ kind[c] = "none"
  /\ kind' = [kind EXCEPT ![c] = k]
  /\ state' = [state EXCEPT ![c] = "STARTED"]
  /\ told' = [told EXCEPT ![c] = "STARTED"]
  /\ handle' = [handle EXCEPT ![c] = "live"]
  /\ numLends' = [numLends EXCEPT ![c] = 1]
  /\ hostPending' = [hostPending EXCEPT ![c] = TRUE]
  /\ UNCHANGED <<event, claim, delivered, park, calleeSide, callerDead>>

(* The Promise settles. A result nobody can receive any more is discarded;  *)
(* a failing conversion becomes the store's hostFailure, after the progress *)
(* notice or before it, and leaves the call unresolved.                     *)
HostSettles(c) ==
  /\ hostPending[c]
  /\ hostPending' = [hostPending EXCEPT ![c] = FALSE]
  /\ IF Resolved(c) \/ callerDead
     THEN UNCHANGED <<state, event>>
     ELSE \/ ResolvesTo(c, "RETURNED")
          \/ UNCHANGED state /\ (UNCHANGED event \/ event' = [event EXCEPT ![c] = TRUE])
  /\ UNCHANGED <<kind, told, handle, claim, delivered, numLends, park, calleeSide,
                 callerDead>>

----------------------------------------------------------------------------
(* Guest callees.                                                           *)

(* report(): a resolved call needs no handle, another one gets it now and  *)
(* keeps its lends, n of them.                                              *)
Reports(c, s, n) ==
  IF s \in Final
  THEN Delivers(c, s) /\ UNCHANGED handle
  ELSE /\ handle' = [handle EXCEPT ![c] = "live"]
       /\ told' = [told EXCEPT ![c] = s]
       /\ numLends' = [numLends EXCEPT ![c] = n]
       /\ UNCHANGED delivered

(* [async-start] lifts the arguments, and lends, when the callee starts.    *)
LentAt(s) == IF s = "STARTED" THEN 1 ELSE 0

(* async-start-call runs the callee up to its first park or hop, then       *)
(* reports at once or, when the status is not determinate yet, parks until  *)
(* it is. At the gate that depends on who holds the exclusive slot.         *)
AsyncStartCall(c, at, s) ==
  /\ CallerRuns /\ kind[c] = "none" /\ ~calleeDead
  /\ (at = "gate") <=> (s = "STARTING")
  /\ at = "over" => s = "RETURNED"
  /\ at = "hop" => Jspi
  /\ kind' = [kind EXCEPT ![c] = "fact"]
  /\ state' = [state EXCEPT ![c] = s]
  /\ callee' = [callee EXCEPT ![c] = at]
  /\ \/ /\ s \in Final \/ at # "hop"
        /\ Reports(c, s, LentAt(s))
        /\ UNCHANGED park
     \/ /\ Jspi /\ s \notin Final /\ at \in {"hop", "gate"}
        /\ park' = [park EXCEPT ![c] = "report"]
        /\ numLends' = [numLends EXCEPT ![c] = LentAt(s)]
        /\ UNCHANGED <<handle, told, delivered>>
  /\ UNCHANGED <<event, claim, hostPending, calleeCancel, callerDead, calleeDead>>

(* The callee traps within the call: its instance is poisoned, the lends    *)
(* end, and the trap goes on into the caller.                               *)
StartTraps(c, s) ==
  /\ CallerRuns /\ kind[c] = "none" /\ ~calleeDead
  /\ kind' = [kind EXCEPT ![c] = "fact"]
  /\ state' = [state EXCEPT ![c] = s]
  /\ callee' = [callee EXCEPT ![c] = "over"]
  /\ Delivers(c, "trapped")
  /\ callerDead' = TRUE /\ calleeDead' = TRUE
  /\ UNCHANGED <<handle, event, claim, park, hostPending, calleeCancel>>

(* A deferred report: what the callee has done meanwhile is in it, and made *)
(* no event.                                                                *)
ReportResumes(c) ==
  /\ park[c] = "report" /\ CallerRuns
  /\ Resolved(c) \/ callee[c] # "hop"
  /\ park' = [park EXCEPT ![c] = "none"]
  /\ Reports(c, state[c], numLends[c])
  /\ UNCHANGED <<kind, state, event, claim, hostPending, calleeSide, callerDead>>

CalleeRuns(c) == callee[c] = "hop" /\ ~calleeDead

(* The gate opens: [async-start] lends the handles, the callee starts.      *)
CalleeEnters(c) ==
  /\ callee[c] = "gate" /\ ~calleeDead
  /\ callee' = [callee EXCEPT ![c] = "hop"]
  /\ numLends' = [numLends EXCEPT ![c] = @ + 1]
  /\ ResolvesTo(c, "STARTED")
  /\ UNCHANGED <<kind, told, handle, claim, delivered, park, hostPending,
                 calleeCancel, callerDead, calleeDead>>

CalleeParks(c) ==
  /\ CalleeRuns(c)
  /\ callee' = [callee EXCEPT ![c] = "parked"]
  /\ UNCHANGED <<kind, state, told, handle, event, claim, delivered, numLends, park,
                 hostPending, calleeCancel, callerDead, calleeDead>>

(* The callee is resumed, to hear of a pending cancellation or not.         *)
CalleeResumes(c) ==
  /\ callee[c] = "parked" /\ ~calleeDead
  /\ callee' = [callee EXCEPT ![c] = "hop"]
  /\ \E d \in {calleeCancel[c], "delivered"} :
       /\ d # calleeCancel[c] => calleeCancel[c] = "pending"
       /\ calleeCancel' = [calleeCancel EXCEPT ![c] = d]
  /\ UNCHANGED <<kind, state, told, handle, event, claim, delivered, numLends, park,
                 hostPending, callerDead, calleeDead>>

(* The callee returns its result, or acknowledges the cancellation.         *)
CalleeResolves(c, s) ==
  /\ CalleeRuns(c) /\ ~Resolved(c)
  /\ \/ s = "RETURNED"
     \/ s = "CANCELLED_BEFORE_RETURNED" /\ calleeCancel[c] = "delivered"
  /\ ResolvesTo(c, s)
  /\ UNCHANGED <<kind, told, handle, claim, delivered, numLends, park, hostPending,
                 calleeSide, callerDead>>

CalleeExits(c) ==
  /\ CalleeRuns(c) /\ Resolved(c)
  /\ callee' = [callee EXCEPT ![c] = "over"]
  /\ UNCHANGED <<kind, state, told, handle, event, claim, delivered, numLends, park,
                 hostPending, calleeCancel, callerDead, calleeDead>>

(* A trap outside the call: nothing tells the caller.                       *)
CalleeTraps(c) ==
  /\ CalleeRuns(c)
  /\ callee' = [callee EXCEPT ![c] = "over"]
  /\ calleeDead' = TRUE
  /\ UNCHANGED <<kind, state, told, handle, event, claim, delivered, numLends, park,
                 hostPending, calleeCancel, callerDead>>

----------------------------------------------------------------------------
(* Events.                                                                  *)

(* waitable.join, with a set or without.                                    *)
Join(c, b) ==
  /\ CallerRuns /\ handle[c] = "live" /\ ~hasSyncWaiter[c]
  /\ inSet' = [inSet EXCEPT ![c] = b]
  /\ UNCHANGED <<kind, state, told, handle, event, hasSyncWaiter, cancelRequested,
                 delivered, numLends, park, hostPending, calleeSide, callerDead>>

(* The set the subtask is in delivers its event: the status is read now,    *)
(* and a resolution is delivered with it.                                   *)
TakeEvent(c) ==
  /\ CallerRuns /\ inSet[c] /\ event[c]
  /\ event' = [event EXCEPT ![c] = FALSE]
  /\ IF Resolved(c) THEN Delivers(c, state[c])
     ELSE told' = [told EXCEPT ![c] = state[c]] /\ UNCHANGED <<delivered, numLends>>
  /\ UNCHANGED <<kind, state, handle, claim, park, hostPending, calleeSide, callerDead>>

----------------------------------------------------------------------------
(* Cancellation.                                                            *)

(* finish(): the claimed subtask's own event is taken on the spot.          *)
Finishes(c, s) ==
  /\ Delivers(c, s)
  /\ event' = [event EXCEPT ![c] = FALSE]

(* onCancel. A host call is discarded unless it defers; a callee at the     *)
(* gate resolves without starting; a started one gets a request.            *)
Asked(c, s, at) ==
  /\ s = CASE kind[c] = "host" -> "CANCELLED_BEFORE_RETURNED"
           [] callee[c] = "gate" -> "CANCELLED_BEFORE_STARTED"
           [] OTHER -> state[c]
  /\ at = IF callee[c] = "gate" THEN "over" ELSE callee[c]
  /\ calleeCancel' = [calleeCancel EXCEPT
                        ![c] = IF kind[c] = "fact" /\ callee[c] # "gate" THEN "pending" ELSE @]
  /\ hostPending' = IF kind[c] = "host" THEN [hostPending EXCEPT ![c] = FALSE]
                    ELSE hostPending

(* Set membership is not looked at.                                         *)
MayCancel_InSet(c) ==
  handle[c] = "live" /\ ~delivered[c] /\ ~cancelRequested[c]

MayCancel(c) ==
  handle[c] = "live" /\ ~delivered[c] /\ ~cancelRequested[c] /\ ~inSet[c]

(* subtask.cancel: a resolved call is finished; an unresolved one is asked  *)
(* and, if that resolves it, finished. Otherwise the frame parks with its   *)
(* claim on the subtask: a turn in the async form, until the resolution in  *)
(* the sync form. Without JSPI the async form reports BLOCKED and the sync  *)
(* form is a capability failure, the claim ended in both.                   *)
SubtaskCancel(c, form) ==
  /\ CallerRuns /\ MayCancel(c)
  /\ \/ /\ Resolved(c)
        /\ Finishes(c, state[c])
        /\ UNCHANGED <<state, claim, park, hostPending, callee, calleeCancel>>
     \/ /\ ~Resolved(c)
        /\ cancelRequested' = [cancelRequested EXCEPT ![c] = TRUE]
        /\ \E s \in States, at \in CalleePlaces :
             /\ Asked(c, s, at)
             /\ state' = [state EXCEPT ![c] = s]
             /\ callee' = [callee EXCEPT ![c] = at]
             /\ IF s \in Final
                THEN /\ Finishes(c, s)
                     /\ UNCHANGED <<hasSyncWaiter, park>>
                ELSE /\ hasSyncWaiter' = [hasSyncWaiter EXCEPT ![c] = Jspi]
                     /\ park' = [park EXCEPT ![c] = IF Jspi THEN form ELSE @]
                     /\ UNCHANGED <<event, told, delivered, numLends>>
        /\ UNCHANGED inSet
  /\ UNCHANGED <<kind, handle, calleeDead, callerDead>>

(* The sync form waits for every thread of the callee to end.               *)
CancelResumes_AllDone(c) ==
  /\ CallerRuns
  /\ \/ park[c] = "cancelAsync"
     \/ park[c] = "cancelSync" /\ Resolved(c) /\ callee[c] \in {"none", "over"}
  /\ hasSyncWaiter' = [hasSyncWaiter EXCEPT ![c] = FALSE]
  /\ park' = [park EXCEPT ![c] = "none"]
  /\ IF Resolved(c) THEN Finishes(c, state[c])
     ELSE UNCHANGED <<event, told, delivered, numLends>>
  /\ UNCHANGED <<kind, state, handle, inSet, cancelRequested, hostPending, calleeSide,
                 callerDead>>

(* The parked frame is resumed: the async form in any case, the sync form   *)
(* when the call is resolved and its callee is between two steps.           *)
CancelResumes(c) ==
  /\ CallerRuns
  /\ \/ park[c] = "cancelAsync"
     \/ park[c] = "cancelSync" /\ Resolved(c) /\ callee[c] # "hop"
  /\ hasSyncWaiter' = [hasSyncWaiter EXCEPT ![c] = FALSE]
  /\ park' = [park EXCEPT ![c] = "none"]
  /\ IF Resolved(c) THEN Finishes(c, state[c])
     ELSE UNCHANGED <<event, told, delivered, numLends>>
  /\ UNCHANGED <<kind, state, handle, inSet, cancelRequested, hostPending, calleeSide,
                 callerDead>>

(* A synchronous root cannot wait for a callee that has parked: the claim   *)
(* is abandoned and the wait becomes a trap of the caller.                  *)
CancelAbandoned(c) ==
  /\ park[c] = "cancelSync" /\ kind[c] = "fact" /\ callee[c] = "parked"
  /\ ~Resolved(c) /\ ~callerDead
  /\ hasSyncWaiter' = [hasSyncWaiter EXCEPT ![c] = FALSE]
  /\ park' = [park EXCEPT ![c] = "none"]
  /\ callerDead' = TRUE
  /\ UNCHANGED <<kind, state, told, handle, event, inSet, cancelRequested, delivered,
                 numLends, hostPending, calleeSide>>

(* subtask.drop traps unless the resolution was delivered; the event goes   *)
(* with the subtask.                                                        *)
SubtaskDrop(c) ==
  /\ CallerRuns /\ handle[c] = "live" /\ delivered[c]
  /\ handle' = [handle EXCEPT ![c] = "dropped"]
  /\ event' = [event EXCEPT ![c] = FALSE]
  /\ inSet' = [inSet EXCEPT ![c] = FALSE]
  /\ UNCHANGED <<kind, state, told, hasSyncWaiter, cancelRequested, delivered,
                 numLends, park, hostPending, calleeSide, callerDead>>

CallerTraps ==
  /\ CallerRuns
  /\ callerDead' = TRUE
  /\ UNCHANGED <<kind, state, told, handle, event, claim, delivered, numLends, park,
                 hostPending, calleeSide>>

----------------------------------------------------------------------------
CallerStep(c) ==
  \/ \E k \in {"host", "deferred"} : HostAtOnce(c, k) \/ HostPromises(c, k)
  \/ \E at \in CalleePlaces \ {"none"}, s \in {"STARTING", "STARTED", "RETURNED"} :
       AsyncStartCall(c, at, s)
  \/ \E s \in Final \ {"RETURNED"} : StartTraps(c, s)
  \/ \E b \in BOOLEAN : Join(c, b)
  \/ TakeEvent(c)
  \/ \E f \in {"cancelAsync", "cancelSync"} : SubtaskCancel(c, f)
  \/ SubtaskDrop(c)

CalleeStep(c) ==
  \/ CalleeEnters(c) \/ CalleeParks(c) \/ CalleeResumes(c)
  \/ \E s \in Final : CalleeResolves(c, s)
  \/ CalleeExits(c) \/ CalleeTraps(c)

Next ==
  \/ \E c \in Calls :
       CallerStep(c) \/ CalleeStep(c) \/ HostSettles(c)
         \/ ReportResumes(c) \/ CancelResumes(c) \/ CancelAbandoned(c)
  \/ CallerTraps

Spec == Init /\ [][Next]_vars

(* The scheduler keeps resuming ready frames in waiting order, so a frame   *)
(* whose condition holds again and again is resumed; a hop ends.            *)
FairSpec ==
  /\ Spec
  /\ \A c \in Calls :
       /\ SF_vars(CancelResumes(c))
       /\ WF_vars(CalleeParks(c) \/ CalleeExits(c) \/ CalleeTraps(c))

----------------------------------------------------------------------------
(* Type correctness of the calls' state.                                    *)
TypeOK ==
  /\ kind \in [Calls -> Kinds \cup {"none"}]
  /\ state \in [Calls -> States]
  /\ told \in [Calls -> States \cup {"none", "trapped"}]
  /\ handle \in [Calls -> {"none", "live", "dropped"}]
  /\ event \in [Calls -> BOOLEAN]
  /\ inSet \in [Calls -> BOOLEAN]
  /\ hasSyncWaiter \in [Calls -> BOOLEAN]
  /\ cancelRequested \in [Calls -> BOOLEAN]
  /\ delivered \in [Calls -> BOOLEAN]
  /\ numLends \in [Calls -> 0..1]
  /\ park \in [Calls -> {"none", "report", "cancelAsync", "cancelSync"}]
  /\ hostPending \in [Calls -> BOOLEAN]
  /\ callee \in [Calls -> CalleePlaces]
  /\ calleeCancel \in [Calls -> {"none", "pending", "delivered"}]
  /\ callerDead \in BOOLEAN /\ calleeDead \in BOOLEAN

(* The resolution reaches the guest (setSubtaskPendingEvent, report): a     *)
(* call that is resolved and whose guest holds a handle has either told it  *)
(* so or still carries the event that will, whether the callee resolved     *)
(* before the handle existed, during a deferred report or under a claim.    *)
ResolutionObservable ==
  \A c \in Calls :
    handle[c] = "live" /\ Resolved(c) /\ ~delivered[c] => event[c]

(* The claim of subtask.cancel (has_sync_waiter): while the frame is parked *)
(* no set can take the subtask's event from it, and no claim outlives it.   *)
ClaimExclusive ==
  \A c \in Calls :
    /\ hasSyncWaiter[c] <=> park[c] \in {"cancelAsync", "cancelSync"}
    /\ hasSyncWaiter[c] => ~inSet[c] /\ ~delivered[c] /\ handle[c] = "live"

(* The news of the resolution takes one way to the guest and arrives: by an *)
(* event or the report, or by the frame that claimed it, never by both.     *)
ResolutionReported == ResolutionObservable /\ ClaimExclusive

(* A call cancelled before it started never starts: its callee's thread is  *)
(* over, and nothing was lent to it.                                        *)
NeverStarted ==
  \A c \in Calls :
    state[c] = "CANCELLED_BEFORE_STARTED" => callee[c] = "over" /\ numLends[c] = 0

(* A discarded host call is no outstanding host work (docs/architecture.md, *)
(* host-import cancellation), or a store would wait for it forever; only a  *)
(* deferCancel() import stays registered, and only until it settles.        *)
DiscardedNotPending ==
  \A c \in Calls : hostPending[c] => ~Resolved(c)

(* The call keeps the promise of SubtaskContract to its guest: statuses go  *)
(* forward, the last is final, lends end with it and not before.            *)
Contract == INSTANCE SubtaskContract
              WITH lent <- {c \in Calls : numLends[c] = 1}
KeepsContract == Contract!Spec

(* A parked subtask.cancel whose call has been resolved returns, whatever   *)
(* the callee's remaining threads go on doing; the async form returns in    *)
(* any case.                                                                *)
CancelReturns ==
  \A c \in Calls :
    (park[c] = "cancelAsync" \/ (park[c] = "cancelSync" /\ Resolved(c)))
      ~> (park[c] = "none" \/ callerDead \/ calleeDead)
============================================================================
