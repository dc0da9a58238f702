--------------------------- MODULE FutureHandles ---------------------------
(***************************************************************************)
(* One future with an end in the hands of the embedder: the handle         *)
(* (Future), the wrapper of the shared object (HostFuture, mkFuture), the  *)
(* producer of a future the embedder gives away (lowerFutureSource), and   *)
(* the transfers of its readable end.  The peer is a guest's end, as in    *)
(* FutureRendezvous, or the producer.                                      *)
(*                                                                         *)
(* A handle may be deferred: the export call that returns the future has   *)
(* not resolved.  What the embedder asks of it meanwhile is queued on a    *)
(* promise, and runs after the wrapper has been adopted.                   *)
(*                                                                         *)
(* An operator named X_Y is X with the slip Y.                             *)
(***************************************************************************)
EXTENDS Naturals, Sequences, HostActivities

CONSTANT MaxFutureHops  \* bound: transfers of the readable end in a run

ASSUME FutureHandlesAssumption == MaxFutureHops \in Nat

Sides == {"r", "w"}
Other(e) == IF e = "r" THEN "w" ELSE "r"

VARIABLES
  origin,  \* "host": made by lowerFutureSource, or "guest": lifted
  reader,  \* who holds the readable end: "host", "guest", or "call" (deferred)
  hops,    \* history: transfers of the readable end
  up,      \* per end: the guest instance that has or had it has not trapped
  fut,       \* the shared object, the guests' ends and the wrapper
  hand,       \* the handle
  prod        \* the producer

(* The fields of fut:                                                      *)
(*   slot, dropped, abandoned  SharedFutureImpl                            *)
(*   op        per end: a "host" operation (parked), a "guest" copy, "none"*)
(*   result    per end: how the host's operation ended, its await pending  *)
(*   event     per guest end: its pending event;  done: CopyState.DONE     *)
(*   left      per guest end: removed by its drop                          *)
(*   delivered, lowered        of mkFuture and bindOnLower                 *)
(*   poisoned, blamed          poisonFailures, producerFailures            *)
(*   act       the wrapper's HostActivity                                  *)
(*   copied, cause    history: copies of the value, who dropped first      *)
(*   revoked, stale   history: the producer's write was cancelled; the     *)
(*             handle was passed to a guest after a plain drop             *)
(* The fields of hand: phase, reading, dropped (the private fields), memo  *)
(* (#settled), queue (reactions on #hostP), asked (history: cancel called) *)
(* The fields of prod: pc, owned (the codec has a release), and made and   *)
(* released (history: values lowered, and released).                       *)
futureVars == <<origin, reader, hops, up, fut, hand, prod>>

Side(e) == IF e = "w" THEN origin ELSE reader
GuestHas(e) == up[e] /\ Side(e) # "host"

-----------------------------------------------------------------------------
(* Callbacks of an operation: settle of the wrapper, and onCopyDone of a   *)
(* guest's copy, which turns the end of an abandoned read into a trap.     *)
HostDone(t, e, res) ==
  [t EXCEPT !.op[e] = "none", !.result[e] = res,
            !.delivered = @ \/ res = "COMPLETED",
            !.act = IF res = "DROPPED" THEN Closed(@) ELSE Notified(@)]

GuestDone(t, e, res) ==
  [t EXCEPT !.event[e] = IF e = "r" /\ res = "DROPPED" /\ t.abandoned THEN "trap" ELSE res]

OpDone(t, e, res) == IF t.op[e] = "host" THEN HostDone(t, e, res) ELSE GuestDone(t, e, res)

(* SharedFutureImpl.read and write.  A guest's built-in that does not      *)
(* block takes the event it set.                                           *)
Taken(t, e) ==
  IF t.op[e] = "guest" /\ t.event[e] # "none"
    THEN [t EXCEPT !.op[e] = "none", !.event[e] = "none", !.done[e] = TRUE] ELSE t

FutureArrives(t, e) ==
  CASE t.dropped -> Taken(OpDone(t, e, "DROPPED"), e)
    [] ~t.dropped /\ t.slot = "none" -> [t EXCEPT !.slot = e]
    [] OTHER -> Taken(OpDone(OpDone([t EXCEPT !.slot = "none", !.copied = @ + 1],
                                    t.slot, "COMPLETED"), e, "COMPLETED"), e)

(* SharedFutureImpl.drop: the parked operation, the idle guest ends, and   *)
(* the drop observer that closes the activity.                             *)
FutureDropped(t, by, notified) ==
  IF t.dropped THEN t
  ELSE LET u == [t EXCEPT !.dropped = TRUE, !.slot = "none", !.cause = by]
           v == IF t.slot = "none" THEN u ELSE OpDone(u, t.slot, "DROPPED")
           idle == {e \in notified : Side(e) # "host" /\ ~v.done[e] /\ v.event[e] = "none"}
       IN  [v EXCEPT !.act = Closed(@),
                     !.event = [e \in Sides |-> IF e \notin idle THEN @[e]
                                                ELSE IF e = "r" /\ v.abandoned THEN "trap"
                                                ELSE "idleDrop"]]

Abandoned(t, by) ==
  IF t.dropped THEN t ELSE FutureDropped([t EXCEPT !.abandoned = TRUE], by, Sides)

(* HostFuture.readResult, cancel, drop and fail. *)
ReadIssued(t) ==
  IF t.dropped THEN [t EXCEPT !.result["r"] = "DROPPED"]
  ELSE LET u == FutureArrives([t EXCEPT !.op["r"] = "host"], "r")
       IN  [u EXCEPT !.act = Notified(@)]

Cancelled(t) ==
  IF \A e \in Sides : t.op[e] # "host" THEN t
  ELSE LET u == OpDone([t EXCEPT !.slot = "none"], t.slot, "CANCELLED")
       IN  [u EXCEPT !.act = Notified(@), !.revoked = @ \/ t.slot = "w"]

Released(t) ==
  LET u == IF ~t.delivered /\ t.lowered THEN Abandoned(t, "host")
           ELSE FutureDropped(t, "host", Sides)
  IN  [u EXCEPT !.act = Closed(@)]

Failed(t) ==
  LET u == [t EXCEPT !.blamed = TRUE]
      v == IF ~t.delivered THEN Abandoned(u, "producer") ELSE FutureDropped(u, "producer", Sides)
  IN  [v EXCEPT !.act = Closed(@)]

-----------------------------------------------------------------------------
Fresh == [slot |-> "none", dropped |-> FALSE, abandoned |-> FALSE,
          op |-> [e \in Sides |-> "none"], result |-> [e \in Sides |-> "none"],
          event |-> [e \in Sides |-> "none"], done |-> [e \in Sides |-> FALSE],
          left |-> [e \in Sides |-> FALSE], delivered |-> FALSE, lowered |-> FALSE,
          poisoned |-> FALSE, blamed |-> FALSE, act |-> NewActivity,
          copied |-> 0, cause |-> "none", revoked |-> FALSE, stale |-> FALSE]

Handle(phase) == [phase |-> phase, reading |-> FALSE, dropped |-> FALSE, memo |-> "none",
                  queue |-> <<>>, asked |-> FALSE]

(* An export call under way that will return a guest's future, or a future *)
(* of the embedder that a guest has been given.                            *)
FutureInit ==
  /\ up = [e \in Sides |-> TRUE]
  /\ \/ /\ origin = "guest" /\ reader = "call" /\ hops = 0
        /\ fut = Fresh /\ hand = Handle("deferred")
        /\ prod = [pc |-> "done", owned |-> FALSE, made |-> 0, released |-> 0]
     \/ /\ origin = "host" /\ reader = "guest" /\ hops = 1
        /\ fut = [Fresh EXCEPT !.lowered = TRUE, !.act = Bound(@)] /\ hand = Handle("passed")
        /\ \E owned \in BOOLEAN :
             prod = [pc |-> "waiting", owned |-> owned, made |-> 0, released |-> 0]

-----------------------------------------------------------------------------
(* The handle.  A memoized outcome is returned again.                      *)
Materialized == hand.phase \in {"held", "passed"}

AwaitValue ==
  /\ hand.phase = "held" /\ hand.memo = "none" /\ ~fut.delivered
  /\ fut' = ReadIssued(fut)
  /\ hand' = [hand EXCEPT !.memo = "pending", !.reading = TRUE]
  /\ UNCHANGED <<origin, reader, hops, up, prod>>

AwaitDeferred ==
  /\ hand.phase = "deferred" /\ hand.memo = "none"
  /\ hand' = [hand EXCEPT !.memo = "pending", !.reading = TRUE, !.queue = Append(@, "read")]
  /\ UNCHANGED <<origin, reader, hops, up, fut, prod>>

CancelAwait ==
  /\ \/ /\ Materialized
        /\ fut' = Cancelled(fut)
        /\ hand' = [hand EXCEPT !.asked = TRUE]
     \/ /\ hand.phase = "deferred" /\ ~hand.asked
        /\ hand' = [hand EXCEPT !.asked = TRUE, !.queue = Append(@, "cancel")]
        /\ UNCHANGED fut
  /\ UNCHANGED <<origin, reader, hops, up, prod>>

DropHandle ==
  /\ ~hand.dropped
  /\ \/ Materialized /\ fut' = Released(fut) /\ hand' = [hand EXCEPT !.dropped = TRUE]
     \/ /\ hand.phase = "deferred"
        /\ hand' = [hand EXCEPT !.dropped = TRUE, !.queue = Append(@, "drop")]
        /\ UNCHANGED fut
  /\ UNCHANGED <<origin, reader, hops, up, prod>>

(* dropForTeardown: a host import that threw drops the futures it was      *)
(* given.                                                                  *)
TearDown ==
  /\ hand.phase = "held" /\ ~hand.dropped
  /\ fut' = FutureDropped(fut, "host", Sides)
  /\ hand' = [hand EXCEPT !.dropped = TRUE]
  /\ UNCHANGED <<origin, reader, hops, up, prod>>

(* The producing call resolves: hostFutureFor wraps the future and adopt   *)
(* starts the read that an await has reserved.                             *)
Adopted_NoRead(t) == t
Adopted(t) == IF hand.reading THEN ReadIssued(t) ELSE t

Wrapped(t) == [t EXCEPT !.act = IF t.dropped THEN Closed(@) ELSE Bound(@)]

CallReturns ==
  /\ hand.phase = "deferred"
  /\ reader' = "host" /\ hops' = hops + 1
  /\ fut' = Adopted(Wrapped(fut))
  /\ hand' = [hand EXCEPT !.phase = "held"]
  /\ UNCHANGED <<origin, up, prod>>

CallFails ==
  /\ hand.phase = "deferred"
  /\ hand' = [hand EXCEPT !.phase = "failed", !.queue = <<>>, !.reading = FALSE,
                          !.memo = IF @ = "pending" THEN "failed" ELSE @]
  /\ UNCHANGED <<origin, reader, hops, up, fut, prod>>

(* The reactions on #hostP, in the order they were registered. *)
Reaction ==
  /\ Materialized /\ hand.queue # <<>>
  /\ hand' = [hand EXCEPT !.queue = Tail(@)]
  /\ fut' = CASE Head(hand.queue) = "read" -> fut
              [] Head(hand.queue) = "cancel" -> Cancelled(fut)
              [] Head(hand.queue) = "drop" -> Released(fut)
  /\ UNCHANGED <<origin, reader, hops, up, prod>>

(* #finishRead: a recorded failure outranks the ordinary outcome. *)
Outcome(res) ==
  CASE res = "COMPLETED" -> "value"
    [] res # "COMPLETED" /\ fut.blamed -> "producer"
    [] res # "COMPLETED" /\ ~fut.blamed /\ fut.poisoned -> "peer"
    [] OTHER -> IF res = "CANCELLED" THEN "cancelled" ELSE "dropped"

FinishRead ==
  /\ fut.result["r"] # "none"
  /\ hand' = [hand EXCEPT !.memo = Outcome(fut.result["r"]), !.reading = FALSE]
  /\ fut' = [fut EXCEPT !.result["r"] = "none"]
  /\ UNCHANGED <<origin, reader, hops, up, prod>>

(* takeValue and lowerFuture.  The handle need not be undropped.           *)
Transferable == ~hand.reading /\ fut.op["r"] # "host" /\ ~fut.delivered

Pass ==
  /\ hand.phase = "held" /\ hops < MaxFutureHops /\ up["r"]
  /\ Transferable
  /\ reader' = "guest" /\ hops' = hops + 1
  /\ hand' = [hand EXCEPT !.phase = "passed"]
  /\ fut' = [fut EXCEPT !.lowered = TRUE, !.stale = fut.dropped /\ ~fut.abandoned,
                      !.act = IF origin = "guest" THEN Disarmed(@) ELSE Bound(@),
                      !.event["r"] = IF ~fut.dropped \/ @ # "none" THEN @
                                     ELSE IF fut.abandoned THEN "trap" ELSE "idleDrop"]
  /\ UNCHANGED <<origin, up, prod>>

(* The guest gives its readable end back: a new handle on the old wrapper. *)
GiveBack ==
  /\ reader = "guest" /\ up["r"] /\ hops < MaxFutureHops
  /\ fut.op["r"] = "none" /\ ~fut.done["r"] /\ ~fut.left["r"]
  /\ reader' = "host" /\ hops' = hops + 1
  /\ hand' = Handle("held")
  /\ fut' = [fut EXCEPT !.act = Rearmed(@)]
  /\ UNCHANGED <<origin, up, prod>>

-----------------------------------------------------------------------------
(* The producer: await the source, lower its value, write it.  Lowering    *)
(* runs the embedder's code, which can drop the handle, and can fail.      *)
SourceResolves(drops) ==
  LET t == IF drops THEN Released(fut) ELSE fut IN
  /\ prod.pc = "waiting"
  /\ drops => Materialized /\ ~hand.dropped /\ reader = "host"
  /\ hand' = [hand EXCEPT !.dropped = @ \/ drops]
  /\ IF t.dropped /\ ~prod.owned
       THEN fut' = t /\ prod' = [prod EXCEPT !.pc = "done"]
       ELSE LET u == FutureArrives([t EXCEPT !.op["w"] = "host"], "w")
            IN  /\ fut' = [u EXCEPT !.act = Notified(@)]
                /\ prod' = [prod EXCEPT !.pc = "writing", !.made = 1]
  /\ UNCHANGED <<origin, reader, hops, up>>

(* The source rejects, or the conversion of its value throws. *)
SourceFails ==
  /\ prod.pc = "waiting"
  /\ fut' = Failed(fut)
  /\ prod' = [prod EXCEPT !.pc = "done"]
  /\ UNCHANGED <<origin, reader, hops, up, hand>>

(* A value nobody took is released; a peer that trapped is a failure. *)
Untaken(q, n) == IF n = 0 /\ q.owned THEN [q EXCEPT !.released = 1] ELSE q

WriteSettles ==
  LET n == IF fut.result["w"] = "COMPLETED" THEN 1 ELSE 0
      t == [fut EXCEPT !.result["w"] = "none"]
  IN  /\ fut.result["w"] # "none"
      /\ prod' = [Untaken(prod, n) EXCEPT !.pc = "done"]
      /\ fut' = IF n = 0 /\ prod.owned /\ fut.poisoned THEN Failed(t) ELSE t
      /\ UNCHANGED <<origin, reader, hops, up, hand>>

-----------------------------------------------------------------------------
(* The guests (FutureRendezvous has the other ways one can wait).          *)
Trapped(e) ==
  LET held == Side(e) # "host" /\ ~fut.left[e]
      t == [fut EXCEPT !.slot = IF @ = e THEN "none" ELSE @,
                       !.poisoned = TRUE,
                       !.abandoned = @ \/ (e = "w" /\ ~fut.done["w"] /\ ~fut.dropped)]
  IN  /\ up' = [up EXCEPT ![e] = FALSE]
      /\ fut' = IF held THEN FutureDropped(t, "trap", {Other(e)}) ELSE fut
      /\ UNCHANGED <<origin, reader, hops, hand, prod>>

EndTraps(e) == GuestHas(e) /\ ~(e = "r" /\ reader = "call") /\ Trapped(e)

GuestSteps(e, t) ==
  /\ GuestHas(e) /\ ~(e = "r" /\ reader = "call")
  /\ fut' = t
  /\ UNCHANGED <<origin, reader, hops, up, hand, prod>>

GuestCopies(e) ==
  /\ fut.op[e] = "none" /\ ~fut.done[e] /\ ~fut.left[e]
  /\ IF e = "r" /\ fut.dropped
       THEN EndTraps(e)
       ELSE GuestSteps(e, FutureArrives([fut EXCEPT !.op[e] = "guest", !.event[e] = "none"], e))

GuestTakes(e) ==
  /\ fut.event[e] # "none" /\ ~fut.left[e]
  /\ IF fut.event[e] = "trap" THEN EndTraps(e)
     ELSE GuestSteps(e, [fut EXCEPT !.op[e] = "none", !.event[e] = "none", !.done[e] = TRUE])

(* A cancelled copy whose peer is gone was dropped. *)
GuestCancels(e) ==
  /\ fut.op[e] = "guest" /\ fut.event[e] = "none"
  /\ GuestSteps(e, [fut EXCEPT !.op[e] = "none", !.slot = "none", !.done[e] = fut.dropped])

GuestDrops(e) ==
  /\ fut.op[e] = "none" /\ ~fut.left[e] /\ (e = "w" => fut.done["w"])
  /\ GuestSteps(e, [FutureDropped(fut, "guest", {Other(e)}) EXCEPT
                       !.left[e] = TRUE, !.event[e] = "none"])

FutureNext ==
  \/ AwaitValue \/ AwaitDeferred \/ CancelAwait \/ DropHandle \/ TearDown
  \/ CallReturns \/ CallFails \/ Reaction \/ FinishRead \/ Pass \/ GiveBack
  \/ \E drops \in BOOLEAN : SourceResolves(drops)
  \/ SourceFails \/ WriteSettles
  \/ \E e \in Sides : \/ EndTraps(e) \/ GuestCopies(e) \/ GuestTakes(e)
                      \/ GuestCancels(e) \/ GuestDrops(e)

FutureSpec == FutureInit /\ [][FutureNext]_futureVars

-----------------------------------------------------------------------------
(* Properties *)

(* What an await of the handle says is what happened to the future: a      *)
(* value was copied once, to the host; a cancellation was asked for; a     *)
(* plain drop is never told of a future lost to a trap or to its producer. *)
(* A guest reader is told DROPPED only of a handle passed after its drop   *)
(* (#finishRead, throwIfFailed, HostFuture.drop).                          *)
Truthful ==
  /\ fut.copied <= 1
  /\ hand.memo = "value" => fut.copied = 1 /\ ~fut.done["r"]
  /\ hand.memo = "cancelled" => hand.asked
  /\ hand.memo = "dropped" => fut.cause \in {"host", "guest"}
  /\ hand.memo = "peer" => \E e \in Sides : ~up[e]
  /\ reader = "guest" /\ up["r"] /\ fut.event["r"] \in {"DROPPED", "idleDrop"} => fut.stale

(* Nobody waits for an operation that nobody can end: a parked read has a  *)
(* writer that still owes its value, unless the embedder cancelled the     *)
(* write; an await that is not settled has a read of its own; a guest is   *)
(* not handed an end that is reading, or whose value is gone (takeValue,   *)
(* adopt, HostFuture).                                                     *)
NobodyStranded ==
  /\ fut.slot = "r" => /\ ~fut.dropped
                       /\ IF origin = "host" THEN prod.pc = "waiting" \/ fut.revoked
                          ELSE up["w"] /\ ~fut.left["w"] /\ ~fut.done["w"]
  /\ hand.memo = "pending" /\ hand.phase # "deferred"
       => reader = "host" /\ (fut.op["r"] = "host" \/ fut.result["r"] # "none")
  /\ fut.copied = 1 /\ reader = "guest" => fut.done["r"] \/ fut.event["r"] # "none" \/ fut.left["r"]

(* A handle dropped at any time -- before the producing call resolves,     *)
(* under an await, after the transfer -- ends the future and with it the   *)
(* arm that holds off the store's deadlock verdict, and a value the        *)
(* producer had made is either taken or released (drop, HostFuture.drop,   *)
(* lowerFutureSource).                                                     *)
DropReleases ==
  /\ hand.dropped /\ Materialized /\ (\A i \in DOMAIN hand.queue : hand.queue[i] # "drop")
       => fut.dropped
  /\ fut.dropped => ~fut.act.armed
  /\ reader = "host" /\ ~fut.dropped => fut.act.armed
  /\ prod.owned => /\ prod.made >= fut.copied + prod.released
                   /\ prod.pc # "writing" => prod.made = fut.copied + prod.released

(* A future settles for all its parties: what each is told is true, and    *)
(* nobody is left behind by a wait or by a drop (Future, HostFuture,       *)
(* lowerFutureSource).                                                     *)
FutureSettles == Truthful /\ NobodyStranded /\ DropReleases

=============================================================================
