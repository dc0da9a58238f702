-------------------------- MODULE FutureRendezvous --------------------------
(***************************************************************************)
(* One guest-to-guest component-model future: SharedFutureImpl, its two    *)
(* ends, the future.* built-ins, event delivery, and what happens to a     *)
(* future whose writer disappears without delivering.                      *)
(*                                                                         *)
(* It shares the slot and the events of StreamRendezvous and differs where *)
(* a future differs: one element, both ends finished by the copy, a result *)
(* that a later drop cannot change, a writable end that may only be        *)
(* dropped when DONE, and an abandoned reader, whose guest traps when it   *)
(* looks instead of being told DROPPED.                                    *)
(*                                                                         *)
(* An operator named X_Y is X with the slip Y, used by the mutants.        *)
(***************************************************************************)
EXTENDS Naturals

CONSTANTS Instances,      \* component instances
          MaxOps,         \* bound: copies an end may start (cancel and retry)
          NumberPayload,  \* noneOrNumberType(t): intra-instance copies allowed
          Gone            \* owner of an end removed from its handle table

ASSUME FutureAssumption == /\ MaxOps \in Nat
                           /\ NumberPayload \in BOOLEAN
                           /\ Gone \notin Instances

Ends == {"r", "w"}
Peer(e) == IF e = "r" THEN "w" ELSE "r"
NoEnd == "noEnd"

CopyStates == {"IDLE", "COPYING", "DONE"}

(* pendingEvent: the result of a finished operation, the peer's drop seen  *)
(* by an idle end, or a thunk that throws the abandonment trap.            *)
CopyEvents == {"COMPLETED", "DROPPED"}
Events == CopyEvents \cup {"none", "idleDrop", "abandoned"}

Results == {"none", "COMPLETED", "DROPPED", "CANCELLED", "trap"}

VARIABLES
  owner,      \* instance whose handle table holds the end, or Gone
  state,      \* CopyEnd.state
  event,      \* Waitable.pendingEvent
  syncWait,   \* Waitable.hasSyncWaiter
  inSet,      \* Waitable.wset # null
  setWaiter,  \* a thread blocks in waitable-set.wait on the end's set
  slot,       \* the end whose operation fills the pending* fields, or NoEnd
  dropped,    \* SharedFutureImpl.dropped
  abandoned,  \* SharedFutureImpl.abandonReason # null
  poisoned,   \* instances that have trapped
  copies,     \* history: times a value was copied
  ops,        \* history: copies started by each end
  last        \* history: last result the end's guest was given

ends   == <<owner, state, event, syncWait, inSet, setWaiter>>
shared == <<slot, dropped, abandoned>>
hist   == <<copies, ops, last>>
vars   == <<ends, shared, poisoned, hist>>

TypeOK ==
  /\ owner \in [Ends -> Instances \cup {Gone}]
  /\ state \in [Ends -> CopyStates]
  /\ event \in [Ends -> Events]
  /\ syncWait \in [Ends -> BOOLEAN]
  /\ inSet \in [Ends -> BOOLEAN]
  /\ setWaiter \in [Ends -> BOOLEAN]
  /\ slot \in Ends \cup {NoEnd}
  /\ dropped \in BOOLEAN
  /\ abandoned \in BOOLEAN
  /\ poisoned \in SUBSET Instances
  /\ copies \in Nat
  /\ ops \in [Ends -> 0..MaxOps]
  /\ last \in [Ends -> Results]

Live(e) == owner[e] \in Instances \ poisoned

-----------------------------------------------------------------------------
(* future.new *)
Init ==
  /\ \E i \in Instances : owner = [e \in Ends |-> i]
  /\ state = [e \in Ends |-> "IDLE"]
  /\ event = [e \in Ends |-> "none"]
  /\ syncWait = [e \in Ends |-> FALSE]
  /\ inSet = [e \in Ends |-> FALSE]
  /\ setWaiter = [e \in Ends |-> FALSE]
  /\ slot = NoEnd
  /\ dropped = FALSE /\ abandoned = FALSE
  /\ poisoned = {}
  /\ copies = 0
  /\ ops = [e \in Ends |-> 0]
  /\ last = [e \in Ends |-> "none"]

-----------------------------------------------------------------------------
(* future.read / future.write; futureCopy's traps, and the one             *)
(* SharedFutureImpl.read adds for the reader of an abandoned future.       *)
StartCopy(e, sync) ==
  /\ Live(e) /\ state[e] = "IDLE"
  /\ sync => ~inSet[e]
  /\ ~(e = "r" /\ dropped /\ abandoned)
  /\ ops[e] < MaxOps
  /\ ops' = [ops EXCEPT ![e] = @ + 1]

Told(e, res) ==
  /\ state' = [state EXCEPT ![e] =
                 IF res \in {"COMPLETED", "DROPPED"} THEN "DONE" ELSE "IDLE"]
  /\ last' = [last EXCEPT ![e] = res]

(* The readable end is gone: the write is refused at once.                 *)
(* SharedFutureImpl.read asserts that a reader never gets this far.        *)
CopyDropped(e, sync) ==
  /\ StartCopy(e, sync)
  /\ dropped
  /\ event' = [event EXCEPT ![e] = "none"]
  /\ Told(e, "DROPPED")
  /\ UNCHANGED <<owner, syncWait, inSet, setWaiter, shared, poisoned, copies>>

CopyPark(e, sync) ==
  /\ StartCopy(e, sync)
  /\ ~dropped /\ slot = NoEnd
  /\ slot' = e
  /\ state' = [state EXCEPT ![e] = "COPYING"]
  /\ syncWait' = [syncWait EXCEPT ![e] = sync]
  /\ UNCHANGED <<owner, event, inSet, setWaiter, dropped, abandoned, poisoned,
                 copies, last>>

(* The value is copied; the parked side is notified, the arriving side's   *)
(* own notification is taken in the same call.                             *)
CopyMeet(e, sync) ==
  /\ StartCopy(e, sync)
  /\ ~dropped /\ slot # NoEnd
  /\ NumberPayload \/ owner[e] # owner[slot]
  /\ copies' = copies + 1
  /\ event' = [event EXCEPT ![slot] = "COMPLETED"]
  /\ slot' = NoEnd
  /\ Told(e, "COMPLETED")
  /\ UNCHANGED <<owner, syncWait, inSet, setWaiter, dropped, abandoned, poisoned>>

Copy(e, sync) == CopyDropped(e, sync) \/ CopyPark(e, sync) \/ CopyMeet(e, sync)

-----------------------------------------------------------------------------
(* Delivery.  futureEvent leaves a COMPLETED or DROPPED alone, whatever    *)
(* has happened to the peer since.                                         *)
Delivered(e) == IF event[e] = "idleDrop" THEN "DROPPED" ELSE event[e]

(* An ordinary event is reported.  An abandoned reader's event throws, and *)
(* the trap poisons the reader's instance; the future is dropped already,  *)
(* so retiring that instance's ends does nothing more to it.               *)
Take_NoTrap(e) ==
  /\ event' = [event EXCEPT ![e] = "none"]
  /\ Told(e, IF event[e] = "abandoned" THEN "DROPPED" ELSE Delivered(e))
  /\ poisoned' = poisoned
  /\ UNCHANGED <<owner, inSet, shared, copies, ops>>

Take(e) ==
  /\ event' = [event EXCEPT ![e] = "none"]
  /\ \/ /\ event[e] # "abandoned"
        /\ Told(e, Delivered(e))
        /\ poisoned' = poisoned
     \/ /\ event[e] = "abandoned"
        /\ last' = [last EXCEPT ![e] = "trap"]
        /\ poisoned' = poisoned \cup {owner[e]}
        /\ state' = state
  /\ UNCHANGED <<owner, inSet, shared, copies, ops>>

SyncResume(e) ==
  /\ Live(e) /\ syncWait[e] /\ event[e] # "none"
  /\ syncWait' = [syncWait EXCEPT ![e] = FALSE]
  /\ setWaiter' = setWaiter
  /\ Take(e)

WaitBlock(e) ==
  /\ Live(e) /\ ~setWaiter[e]
  /\ ~(inSet[e] /\ event[e] # "none")
  /\ setWaiter' = [setWaiter EXCEPT ![e] = TRUE]
  /\ UNCHANGED <<owner, state, event, syncWait, inSet, shared, poisoned, hist>>

WaitResume(e) ==
  /\ Live(e) /\ setWaiter[e] /\ inSet[e] /\ event[e] # "none"
  /\ setWaiter' = [setWaiter EXCEPT ![e] = FALSE]
  /\ syncWait' = syncWait
  /\ Take(e)

Poll(e) ==
  /\ Live(e) /\ inSet[e] /\ event[e] # "none"
  /\ UNCHANGED <<syncWait, setWaiter>>
  /\ Take(e)

Join(e, in) ==
  /\ Live(e) /\ ~syncWait[e]
  /\ inSet' = [inSet EXCEPT ![e] = in]
  /\ UNCHANGED <<owner, state, event, syncWait, setWaiter, shared, poisoned, hist>>

-----------------------------------------------------------------------------
(* future.cancel-read / future.cancel-write: an event that is already      *)
(* there is reported as it is, otherwise the operation leaves the slot.    *)
MayCancel(e) == Live(e) /\ state[e] = "COPYING" /\ ~syncWait[e]

CancelArmed(e) ==
  /\ MayCancel(e) /\ event[e] # "none"
  /\ UNCHANGED <<syncWait, setWaiter>>
  /\ Take(e)

CancelParked(e) ==
  /\ MayCancel(e) /\ event[e] = "none" /\ slot = e
  /\ slot' = NoEnd
  /\ Told(e, IF dropped THEN "DROPPED" ELSE "CANCELLED")
  /\ UNCHANGED <<owner, event, syncWait, inSet, setWaiter, dropped, abandoned,
                 poisoned, copies, ops>>

-----------------------------------------------------------------------------
(* SharedFutureImpl.drop on behalf of e; `forsaken` is abandonReason as it *)
(* is by then.  An abandoned reader, parked or idle, gets the throwing     *)
(* thunk; anyone else DROPPED or the idle notification.                    *)
PeerTold(e, parked, forsaken) ==
  LET evs  == IF parked = NoEnd THEN event
              ELSE [event EXCEPT ![parked] =
                      IF parked = "r" /\ forsaken THEN "abandoned" ELSE "DROPPED"]
      p    == Peer(e)
      idle == IF p = "r" /\ forsaken THEN "abandoned" ELSE "idleDrop"
  IN  IF state[p] # "DONE" /\ evs[p] = "none" THEN [evs EXCEPT ![p] = idle] ELSE evs

(* WritableFutureEnd.drop insists on a finished end. *)
MayDrop(e) == /\ Live(e) /\ state[e] # "COPYING"
              /\ e = "w" => state[e] = "DONE"

Drop(e) ==
  /\ MayDrop(e)
  /\ event' = [(IF dropped THEN event ELSE PeerTold(e, slot, abandoned))
                 EXCEPT ![e] = "none"]
  /\ slot' = IF dropped THEN slot ELSE NoEnd
  /\ dropped' = TRUE
  /\ owner' = [owner EXCEPT ![e] = Gone]
  /\ inSet' = [inSet EXCEPT ![e] = FALSE]
  /\ UNCHANGED <<state, syncWait, setWaiter, abandoned, poisoned, hist>>

(* FACT future-transfer. *)
Transfer(i) ==
  /\ Live("r") /\ state["r"] = "IDLE" /\ ~inSet["r"]
  /\ i \in Instances \ (poisoned \cup {owner["r"]})
  /\ owner' = [owner EXCEPT !["r"] = i]
  /\ setWaiter' = [setWaiter EXCEPT !["r"] = FALSE]
  /\ UNCHANGED <<state, event, syncWait, inSet, shared, poisoned, hist>>

(* retireAsyncEnds marks the future abandoned if its writable end is among *)
(* those retired and has not finished, before anybody is notified.         *)
Forsakes(retired) == "w" \in retired /\ state["w"] # "DONE" /\ ~dropped

Teardown_Silent(e, retired, dead) ==
  /\ abandoned' = (abandoned \/ Forsakes(retired))
  /\ event' = event
  /\ slot' = IF dropped THEN slot ELSE NoEnd
  /\ dropped' = TRUE

Teardown(e, retired, dead) ==
  LET parked == IF slot # NoEnd /\ owner[slot] \in dead THEN NoEnd ELSE slot
      forsaken == abandoned \/ Forsakes(retired)
  IN  /\ abandoned' = forsaken
      /\ event' = IF dropped THEN event ELSE PeerTold(e, parked, forsaken)
      /\ slot' = IF dropped THEN slot ELSE NoEnd
      /\ dropped' = TRUE

(* A removal that traps: dropping an end that may not be dropped, lifting  *)
(* a readable end that may not be lifted.                                  *)
FailedRemoval(e) ==
  /\ Live(e)
  /\ ~MayDrop(e) \/ (e = "r" /\ (state[e] # "IDLE" \/ inSet[e]))
  /\ Teardown(e, {e}, poisoned \cup {owner[e]})
  /\ owner' = [owner EXCEPT ![e] = Gone]
  /\ poisoned' = poisoned \cup {owner[e]}
  /\ UNCHANGED <<state, syncWait, inSet, setWaiter, hist>>

(* Instance i traps and the ends in its table are retired. *)
Poison(i) ==
  LET mine == {e \in Ends : owner[e] = i} IN
  /\ i \in Instances \ poisoned
  /\ poisoned' = poisoned \cup {i}
  /\ \/ mine = {} /\ UNCHANGED <<event, shared>>
     \/ \E e \in mine : Teardown(e, mine, poisoned \cup {i})
  /\ UNCHANGED <<owner, state, syncWait, inSet, setWaiter, hist>>

-----------------------------------------------------------------------------
Next ==
  \/ \E e \in Ends :
       \/ \E sync \in BOOLEAN : Copy(e, sync)
       \/ SyncResume(e) \/ WaitBlock(e) \/ WaitResume(e) \/ Poll(e)
       \/ \E in \in BOOLEAN : Join(e, in)
       \/ CancelArmed(e) \/ CancelParked(e)
       \/ Drop(e) \/ FailedRemoval(e)
  \/ \E i \in Instances : Transfer(i) \/ Poison(i)

Spec == Init /\ [][Next]_vars

(* The store's drain resumes every thread whose wait has become ready. *)
Fairness == \A e \in Ends : WF_vars(SyncResume(e)) /\ WF_vars(WaitResume(e))

FairSpec == Spec /\ Fairness

-----------------------------------------------------------------------------
(* The slot holds the live operation of its end, and an operation that is  *)
(* still waiting is never missing from it: shared.cancel() only retracts   *)
(* the caller's own copy.                                                  *)
SlotIsLiveOp ==
  /\ slot # NoEnd => /\ Live(slot) /\ ~dropped /\ copies = 0
                     /\ state[slot] = "COPYING" /\ event[slot] = "none"
  /\ \A e \in Ends :
       Live(e) /\ state[e] = "COPYING" /\ event[e] = "none" => slot = e

(* A value crosses at most once, and once it has both guests learn of it   *)
(* and of nothing else: a drop or a cancel after the copy cannot turn the  *)
(* completion into anything else.                                          *)
CompletionIsFinal ==
  /\ copies <= 1
  /\ \A e \in Ends : Live(e) =>
       (copies = 1 <=> \/ state[e] = "COPYING" /\ event[e] = "COMPLETED"
                       \/ state[e] = "DONE" /\ last[e] = "COMPLETED")

(* The reader of a future that is gone without a value is never told so by *)
(* a completion: a live one has the throwing thunk pending, so the asserts *)
(* in futureCopy and SharedFutureImpl.read cannot fail.                    *)
AbandonedReaderTraps ==
  /\ last["r"] # "DROPPED"
  /\ dropped /\ Live("r") /\ copies = 0 => abandoned /\ event["r"] = "abandoned"

(* No lost wakeup: a surviving end that has not finished has an event.     *)
DropObservable ==
  \A e \in Ends : dropped /\ Live(e) /\ state[e] # "DONE" => event[e] # "none"

(* A guest blocked on a live end is released when its peer is gone.        *)
NoHangOnDeadPeer ==
  \A e \in Ends :
    (Live(e) /\ ~Live(Peer(e)) /\ (syncWait[e] \/ (setWaiter[e] /\ inSet[e])))
      ~> (state[e] = "DONE" \/ ~Live(e) \/ (~syncWait[e] /\ ~inSet[e]))

(* The future's promise to its guests.  A reader told DROPPED would have   *)
(* been given a completion without a value: the contract sees a value.     *)
Contract == INSTANCE FutureContract
  WITH crossed <- copies > 0,
       closed  <- dropped,
       reader  <- CASE last["r"] \in {"COMPLETED", "DROPPED"} -> "value"
                    [] last["r"] = "trap" -> "trapped"
                    [] OTHER -> "waiting",
       writer  <- CASE last["w"] = "COMPLETED" -> "value"
                    [] last["w"] = "DROPPED" -> "refused"
                    [] OTHER -> "waiting"

KeepsContract == Contract!Spec
=============================================================================
