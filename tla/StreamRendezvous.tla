-------------------------- MODULE StreamRendezvous --------------------------
(***************************************************************************)
(* One guest-to-guest component-model stream: the shared object with its   *)
(* single pending slot (SharedStreamImpl), the two ends in the handle      *)
(* tables of their instances (CopyEnd, a Waitable), the stream.read,       *)
(* stream.write, stream.cancel-*, stream.drop-* and stream-transfer        *)
(* built-ins, the three ways a guest receives an event, and the teardown   *)
(* of the ends of an instance that traps.                                  *)
(*                                                                         *)
(* A rendezvous is synchronous: whichever side arrives second copies       *)
(* min(remaining, remaining) elements against the buffer parked in the     *)
(* slot.  The parked side is told later, by an event whose payload is      *)
(* computed when it is delivered.  Element values, memories and handle     *)
(* indices are abstracted to counts.                                       *)
(*                                                                         *)
(* A built-in whose trapIf fires does not return to the guest; the trap    *)
(* unwinds to the instance's boundary, which poisons the instance.  That   *)
(* is Poison (or FailedRemoval, where the trap happens after the handle    *)
(* left its table), so the negated trap conditions are guards here.        *)
(*                                                                         *)
(* An operator named X_Y is X with the slip Y; the mutants in PROJECT.json *)
(* put it in the place of X to show that a property notices the slip.      *)
(***************************************************************************)
EXTENDS Naturals

CONSTANTS Instances,      \* component instances
          MaxLen,         \* longest buffer (BUFFER_MAX_LENGTH in the code)
          MaxMoved,       \* bound: elements that cross the stream in a run
          NumberPayload,  \* noneOrNumberType(t): intra-instance copies allowed
          Gone            \* owner of an end removed from its handle table

ASSUME StreamAssumption == /\ MaxLen \in Nat /\ MaxMoved \in Nat
                           /\ NumberPayload \in BOOLEAN
                           /\ Gone \notin Instances

Ends == {"r", "w"}
Peer(e) == IF e = "r" THEN "w" ELSE "r"
Min2(a, b) == IF a <= b THEN a ELSE b

NoEnd == "noEnd"   \* nothing in the pending slot

CopyStates == {"IDLE", "COPYING", "DONE"}

(* What an end's pendingEvent thunk would do: report an armed copy and     *)
(* reclaim the parked buffer ("onCopy"), report a finished operation, or   *)
(* report the peer's drop to an idle end ("idleDrop").                     *)
CopyEvents == {"onCopy", "COMPLETED", "DROPPED", "CANCELLED"}
Events == CopyEvents \cup {"none", "idleDrop"}

Results == {"none", "COMPLETED", "DROPPED", "CANCELLED"}

VARIABLES
  owner,      \* instance whose handle table holds the end, or Gone
  state,      \* CopyEnd.state
  event,      \* Waitable.pendingEvent
  buf,        \* buffer of the end's latest operation: length and progress
  syncWait,   \* Waitable.hasSyncWaiter: a thread blocks in a synchronous copy
  inSet,      \* Waitable.wset # null
  setWaiter,  \* a thread blocks in waitable-set.wait on the end's set
  slot,       \* the end whose operation fills the pending* fields, or NoEnd
  dropped,    \* SharedStreamImpl.dropped
  poisoned,   \* instances that have trapped
  moved,      \* history: elements copied by rendezvous
  seen,       \* history: progress reported to the end's guest so far
  last        \* history: last copy result the end's guest was given

ends   == <<owner, state, event, buf, syncWait, inSet, setWaiter>>
shared == <<slot, dropped>>
hist   == <<moved, seen, last>>
vars   == <<ends, shared, poisoned, hist>>

TypeOK ==
  /\ owner \in [Ends -> Instances \cup {Gone}]
  /\ state \in [Ends -> CopyStates]
  /\ event \in [Ends -> Events]
  /\ buf \in [Ends -> [len : 0..MaxLen, progress : 0..MaxLen]]
  /\ syncWait \in [Ends -> BOOLEAN]
  /\ inSet \in [Ends -> BOOLEAN]
  /\ setWaiter \in [Ends -> BOOLEAN]
  /\ slot \in Ends \cup {NoEnd}
  /\ dropped \in BOOLEAN
  /\ poisoned \in SUBSET Instances
  /\ moved \in Nat
  /\ seen \in [Ends -> Nat]
  /\ last \in [Ends -> Results]

Live(e) == owner[e] \in Instances \ poisoned
Remain(e) == buf[e].len - buf[e].progress

-----------------------------------------------------------------------------
(* stream.new: both ends enter the handle table of the calling instance. *)
Init ==
  /\ \E i \in Instances : owner = [e \in Ends |-> i]
  /\ state = [e \in Ends |-> "IDLE"]
  /\ event = [e \in Ends |-> "none"]
  /\ buf = [e \in Ends |-> [len |-> 0, progress |-> 0]]
  /\ syncWait = [e \in Ends |-> FALSE]
  /\ inSet = [e \in Ends |-> FALSE]
  /\ setWaiter = [e \in Ends |-> FALSE]
  /\ slot = NoEnd
  /\ dropped = FALSE
  /\ poisoned = {}
  /\ moved = 0
  /\ seen = [e \in Ends |-> 0]
  /\ last = [e \in Ends |-> "none"]

-----------------------------------------------------------------------------
(* stream.read / stream.write.  The traps streamCopy checks first. *)
MayCopy(e, sync) == /\ Live(e)
                    /\ state[e] = "IDLE"
                    /\ sync => ~inSet[e]

Fresh(len) == [len |-> len, progress |-> 0]

(* finishCopy on an operation that left no event: async returns BLOCKED,   *)
(* sync blocks the calling thread with hasSyncWaiter set.                  *)
Block(e, sync) ==
  /\ state' = [state EXCEPT ![e] = "COPYING"]
  /\ syncWait' = [syncWait EXCEPT ![e] = sync]
  /\ UNCHANGED <<owner, inSet, setWaiter, dropped, poisoned, hist>>

(* finishCopy on an operation that completed on arrival: the event it set  *)
(* is taken in the same call and reports n elements.                       *)
ReturnAtOnce(e, res, n) ==
  /\ state' = [state EXCEPT ![e] = IF res = "DROPPED" THEN "DONE" ELSE "IDLE"]
  /\ seen' = [seen EXCEPT ![e] = @ + n]
  /\ last' = [last EXCEPT ![e] = res]
  /\ UNCHANGED <<owner, syncWait, inSet, setWaiter, shared, poisoned>>

(* The peer is gone: the copy's DROPPED replaces an idle notification. *)
CopyDropped(e, len, sync) ==
  /\ MayCopy(e, sync)
  /\ dropped
  /\ buf' = [buf EXCEPT ![e] = Fresh(len)]
  /\ event' = [event EXCEPT ![e] = "none"]
  /\ moved' = moved
  /\ ReturnAtOnce(e, "DROPPED", 0)

(* Nobody is waiting: park the buffer in the slot. *)
CopyPark(e, len, sync) ==
  /\ MayCopy(e, sync)
  /\ ~dropped /\ slot = NoEnd
  /\ buf' = [buf EXCEPT ![e] = Fresh(len)]
  /\ slot' = e
  /\ event' = event
  /\ Block(e, sync)

(* Copy against the parked buffer.  The parked side keeps the slot, with   *)
(* whatever room is left, until its event reclaims it.                     *)
CopyExchange(e, len, sync) ==
  LET n == Min2(len, Remain(slot)) IN
  /\ MayCopy(e, sync)
  /\ ~dropped /\ slot # NoEnd
  /\ n > 0
  /\ NumberPayload \/ owner[e] # owner[slot]
  /\ moved + n <= MaxMoved
  /\ buf' = [buf EXCEPT ![e] = [len |-> len, progress |-> n],
                        ![slot].progress = @ + n]
  /\ event' = [event EXCEPT ![slot] = "onCopy"]
  /\ moved' = moved + n
  /\ ReturnAtOnce(e, "COMPLETED", n)

(* Two empty buffers complete an arriving write's handshake. *)
EmptyHandshake(e, len) == e = "w" /\ len = 0 /\ buf[slot].len = 0

(* An empty buffer completes against a parked one that still has room, or  *)
(* in the empty handshake; the parked side is left alone.                  *)
CopyEmpty(e, len, sync) ==
  /\ MayCopy(e, sync)
  /\ ~dropped /\ slot # NoEnd
  /\ \/ len = 0 /\ Remain(slot) > 0
     \/ Remain(slot) = 0 /\ EmptyHandshake(e, len)
  /\ buf' = [buf EXCEPT ![e] = Fresh(len)]
  /\ moved' = moved /\ event' = event
  /\ ReturnAtOnce(e, "COMPLETED", 0)

(* The parked buffer is exhausted: complete it and take its place. *)
CopyReplace(e, len, sync) ==
  /\ MayCopy(e, sync)
  /\ ~dropped /\ slot # NoEnd
  /\ Remain(slot) = 0 /\ ~EmptyHandshake(e, len)
  /\ buf' = [buf EXCEPT ![e] = Fresh(len)]
  /\ event' = [event EXCEPT ![slot] = "COMPLETED"]
  /\ slot' = e
  /\ Block(e, sync)

Copy(e, len, sync) == \/ CopyDropped(e, len, sync)
                      \/ CopyPark(e, len, sync)
                      \/ CopyExchange(e, len, sync)
                      \/ CopyEmpty(e, len, sync)
                      \/ CopyReplace(e, len, sync)

-----------------------------------------------------------------------------
(* Delivery of an event (Waitable.getPendingEvent running the thunk).      *)
(* streamEvent looks at the stream when it is delivered: a drop since the  *)
(* event was armed turns any result into DROPPED.                          *)
ResultOf(ev) == CASE ev = "onCopy"   -> "COMPLETED"
                  [] ev = "idleDrop" -> "DROPPED"
                  [] OTHER           -> ev

Delivered_AsArmed(e) == ResultOf(event[e])
Delivered(e) == IF dropped THEN "DROPPED" ELSE ResultOf(event[e])

(* The slot after the thunk has reclaimed its buffer, if it does. *)
Reclaimed(e) == IF event[e] = "onCopy" THEN NoEnd ELSE slot

Progress(e) == IF event[e] = "idleDrop" THEN 0 ELSE buf[e].progress

Take(e, result) ==
  /\ event' = [event EXCEPT ![e] = "none"]
  /\ slot' = Reclaimed(e)
  /\ state' = [state EXCEPT ![e] = IF result = "DROPPED" THEN "DONE" ELSE "IDLE"]
  /\ seen' = [seen EXCEPT ![e] = @ + Progress(e)]
  /\ last' = [last EXCEPT ![e] = result]
  /\ UNCHANGED <<owner, buf, inSet, dropped, poisoned, moved>>

(* The scheduler resumes a thread blocked in a synchronous copy. *)
SyncResume(e) ==
  /\ Live(e) /\ syncWait[e] /\ event[e] # "none"
  /\ syncWait' = [syncWait EXCEPT ![e] = FALSE]
  /\ setWaiter' = setWaiter
  /\ Take(e, Delivered(e))

(* waitable-set.wait finds no event and blocks. *)
WaitBlock(e) ==
  /\ Live(e) /\ ~setWaiter[e]
  /\ ~(inSet[e] /\ event[e] # "none")
  /\ setWaiter' = [setWaiter EXCEPT ![e] = TRUE]
  /\ UNCHANGED <<owner, state, event, buf, syncWait, inSet, shared, poisoned, hist>>

(* The scheduler resumes a thread blocked in waitable-set.wait. *)
WaitResume(e) ==
  /\ Live(e) /\ setWaiter[e] /\ inSet[e] /\ event[e] # "none"
  /\ setWaiter' = [setWaiter EXCEPT ![e] = FALSE]
  /\ syncWait' = syncWait
  /\ Take(e, Delivered(e))

(* waitable-set.poll, and waitable-set.wait with an event at hand. *)
Poll(e) ==
  /\ Live(e) /\ inSet[e] /\ event[e] # "none"
  /\ UNCHANGED <<syncWait, setWaiter>>
  /\ Take(e, Delivered(e))

(* waitable.join, with a set or with 0. *)
Join(e, in) ==
  /\ Live(e) /\ ~syncWait[e]
  /\ inSet' = [inSet EXCEPT ![e] = in]
  /\ UNCHANGED <<owner, state, event, buf, syncWait, setWaiter, shared, poisoned, hist>>

-----------------------------------------------------------------------------
(* stream.cancel-read / stream.cancel-write.  takeCancelEvent reports an   *)
(* undelivered COMPLETED as CANCELLED.                                     *)
MayCancel(e) == Live(e) /\ state[e] = "COPYING" /\ ~syncWait[e]

Superseded(result) == IF result = "COMPLETED" THEN "CANCELLED" ELSE result

CancelArmed(e) ==
  /\ MayCancel(e)
  /\ event[e] # "none"
  /\ UNCHANGED <<syncWait, setWaiter>>
  /\ Take(e, Superseded(Delivered(e)))

(* shared.cancel() retracts the operation in the slot and its event is     *)
(* taken in the same call.  The slot is the caller's own: SlotIsLiveOp     *)
(* says that no other case exists.                                         *)
CancelParked(e) ==
  /\ MayCancel(e)
  /\ event[e] = "none" /\ slot = e
  /\ slot' = NoEnd
  /\ state' = [state EXCEPT ![e] = IF dropped THEN "DONE" ELSE "IDLE"]
  /\ seen' = [seen EXCEPT ![e] = @ + buf[e].progress]
  /\ last' = [last EXCEPT ![e] = IF dropped THEN "DROPPED" ELSE "CANCELLED"]
  /\ UNCHANGED <<owner, event, buf, syncWait, inSet, setWaiter, dropped,
                 poisoned, moved>>

-----------------------------------------------------------------------------
(* SharedStreamImpl.drop on behalf of end e, with operation `parked` in    *)
(* the slot: the parked operation ends with DROPPED, and the peer of e is  *)
(* armed with an idle notification unless it is DONE or has an event.      *)
Notified_ParkedOnly(e, parked) ==
  IF parked = NoEnd THEN event ELSE [event EXCEPT ![parked] = "DROPPED"]

Notified(e, parked) ==
  LET evs == IF parked = NoEnd THEN event ELSE [event EXCEPT ![parked] = "DROPPED"]
      p   == Peer(e)
  IN  IF state[p] # "DONE" /\ evs[p] = "none"
        THEN [evs EXCEPT ![p] = "idleDrop"] ELSE evs

(* stream.drop-readable / stream.drop-writable. *)
Drop(e) ==
  /\ Live(e) /\ state[e] # "COPYING"
  /\ event' = [(IF dropped THEN event ELSE Notified(e, slot)) EXCEPT ![e] = "none"]
  /\ slot' = IF dropped THEN slot ELSE NoEnd
  /\ dropped' = TRUE
  /\ owner' = [owner EXCEPT ![e] = Gone]
  /\ inSet' = [inSet EXCEPT ![e] = FALSE]
  /\ UNCHANGED <<state, buf, syncWait, setWaiter, poisoned, hist>>

(* FACT stream-transfer: the readable end, and any idle notification it    *)
(* carries, moves to the table of another instance.                        *)
Transfer(i) ==
  /\ Live("r") /\ state["r"] = "IDLE" /\ ~inSet["r"]
  /\ i \in Instances \ (poisoned \cup {owner["r"]})
  /\ owner' = [owner EXCEPT !["r"] = i]
  /\ setWaiter' = [setWaiter EXCEPT !["r"] = FALSE]
  /\ UNCHANGED <<state, event, buf, syncWait, inSet, shared, poisoned, hist>>

(* dropSharedForTeardown: an operation parked by a guest that will never   *)
(* run again is retracted silently; everyone else is notified.             *)
Teardown_Silent(e, dead) ==
  event' = event /\ slot' = (IF dropped THEN slot ELSE NoEnd) /\ dropped' = TRUE

Teardown(e, dead) ==
  LET parked == IF slot # NoEnd /\ owner[slot] \in dead THEN NoEnd ELSE slot
  IN  /\ event' = IF dropped THEN event ELSE Notified(e, parked)
      /\ slot' = IF dropped THEN slot ELSE NoEnd
      /\ dropped' = TRUE

(* A removal that traps after the handle left its table: dropping a busy   *)
(* end, or lifting a busy, finished or joined readable end.  The end is    *)
(* retired at once and the trap poisons its instance.                      *)
FailedRemoval(e) ==
  /\ Live(e)
  /\ \/ state[e] = "COPYING"
     \/ e = "r" /\ (state[e] = "DONE" \/ inSet[e])
  /\ Teardown(e, poisoned \cup {owner[e]})
  /\ owner' = [owner EXCEPT ![e] = Gone]
  /\ poisoned' = poisoned \cup {owner[e]}
  /\ UNCHANGED <<state, buf, syncWait, inSet, setWaiter, hist>>

(* Instance i traps.  retireInstanceAsyncEnds drops the ends in its table, *)
(* in table order; only the first drop of the stream has an effect.        *)
Poison(i) ==
  /\ i \in Instances \ poisoned
  /\ poisoned' = poisoned \cup {i}
  /\ \/ /\ \A e \in Ends : owner[e] # i
        /\ UNCHANGED <<event, shared>>
     \/ \E e \in Ends : owner[e] = i /\ Teardown(e, poisoned \cup {i})
  /\ UNCHANGED <<owner, state, buf, syncWait, inSet, setWaiter, hist>>

-----------------------------------------------------------------------------
Next ==
  \/ \E e \in Ends :
       \/ \E len \in 0..MaxLen, sync \in BOOLEAN : Copy(e, len, sync)
       \/ SyncResume(e) \/ WaitBlock(e) \/ WaitResume(e) \/ Poll(e)
       \/ \E in \in BOOLEAN : Join(e, in)
       \/ CancelArmed(e) \/ CancelParked(e)
       \/ Drop(e) \/ FailedRemoval(e)
  \/ \E i \in Instances : Transfer(i) \/ Poison(i)

Spec == Init /\ [][Next]_vars

(* The store's drain resumes every thread whose wait has become ready. *)
Fairness == \A e \in Ends : WF_vars(SyncResume(e)) /\ WF_vars(WaitResume(e))

FairSpec == Spec /\ Fairness

-----------------------------------------------------------------------------
(* The pending slot and the ends' states agree: the slot always holds the  *)
(* operation its end is still waiting on, and an operation still waiting   *)
(* is never missing from the slot.  So shared.cancel() and the             *)
(* resetPending() of a reclaim thunk, which act on whatever is in the      *)
(* slot, only ever touch the caller's own operation.                       *)
SlotIsLiveOp ==
  /\ slot # NoEnd => /\ Live(slot) /\ ~dropped
                     /\ state[slot] = "COPYING"
                     /\ event[slot] \in {"none", "onCopy"}
  /\ \A e \in Ends : Live(e) =>
       /\ event[e] = "onCopy" /\ ~dropped => slot = e
       /\ state[e] = "COPYING" /\ event[e] = "none" => slot = e

(* A streamEvent thunk only runs on a copying end and an idle-drop thunk   *)
(* only on an idle one: the assert_ in streamEvent cannot fail, and no     *)
(* stale event survives the operation it belongs to.                       *)
EventFitsState ==
  \A e \in Ends : Live(e) =>
    /\ event[e] \in CopyEvents => state[e] = "COPYING"
    /\ event[e] = "idleDrop" => state[e] = "IDLE"

(* Every element counted at one end is counted at the other: what an end   *)
(* was told plus the progress of an operation not yet reported is exactly  *)
(* what crossed the stream, whatever was cancelled, dropped or poisoned.   *)
Conservation ==
  \A e \in Ends :
    seen[e] + (IF state[e] = "COPYING" THEN buf[e].progress ELSE 0) = moved

(* No lost wakeup: once the stream is dropped, a surviving end that has    *)
(* not been told has an event to find.                                     *)
DropObservable ==
  \A e \in Ends : dropped /\ Live(e) /\ state[e] # "DONE" => event[e] # "none"

(* Neither elements nor the news of a drop are lost on the way to a guest  *)
(* (setCopyEvent, drop, setFreshDropEvent).                                *)
NothingMissed == Conservation /\ DropObservable

(* A thread blocked in a synchronous copy is alone with its end: it is     *)
(* never in a waitable set, whose waiters could take the event, and the    *)
(* operation it blocks on is in flight.                                    *)
SyncWaiterExclusive ==
  \A e \in Ends : Live(e) /\ syncWait[e] => ~inSet[e] /\ state[e] = "COPYING"

(* A thread blocked on a live end is not left hanging when the other end   *)
(* is dropped or its instance traps.                                       *)
NoHangOnDeadPeer ==
  \A e \in Ends :
    (Live(e) /\ ~Live(Peer(e)) /\ (syncWait[e] \/ (setWaiter[e] /\ inSet[e])))
      ~> (last[e] = "DROPPED" \/ ~Live(e) \/ (~syncWait[e] /\ ~inSet[e]))

(* The stream's promise to its guests. *)
Contract == INSTANCE StreamContract
              WITH closed <- dropped,
                   over <- [e \in Ends |-> last[e] = "DROPPED"]

KeepsContract == Contract!Spec
=============================================================================
