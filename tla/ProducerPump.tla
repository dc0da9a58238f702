---------------------------- MODULE ProducerPump ----------------------------
(***************************************************************************)
(* The pump that feeds a stream from a producer of the embedder            *)
(* (lowerStreamSource, pump, batches, packChunk, releaseUntaken), on top   *)
(* of HostStreams: the pump holds the writable end and calls its writeAll  *)
(* and drop.  The stream has been lowered when the pump starts.            *)
(*                                                                         *)
(* A pull of the producer, a write and the producer's cleanup are awaited; *)
(* the reader can drop or trap during each of them.                        *)
(*                                                                         *)
(* An operator named X_Y is X with the slip Y.                             *)
(***************************************************************************)
EXTENDS HostStreams

CONSTANT MaxPulls   \* bound: batches the producer yields

ASSUME ProducerPumpAssumption == MaxPulls \in Nat /\ MaxPulls * MaxLen <= MaxMoved

VARIABLES
  driver,  \* who holds the writer: "embedder", or a pump and its producer
  pump     \* the pump's activation
(* The producers: a ReadableStream ("web"), an async iterable whose cancel *)
(* hook settles a pending pull ("hooked"), and one without a hook.         *)
Cooperative == {"web", "hooked"}
Producers == Cooperative \cup {"plain"}

(* The fields of pump:                                                     *)
(*   pc         the await or the code the pump is at                       *)
(*   pulling    a pull has not settled;  pulls   batches yielded so far    *)
(*   batch      length of the batch in hand                                *)
(*   last       the batch is a straggler: the generator returns after it   *)
(*   cancelled  reader.cancel() or the cancel hook has been called         *)
(*   ended      the producer said done;  closed: cleaned up, lock released *)
(*   failed, reported   failure, and reportProducerFailure                 *)
(*   before     what the writes had taken before this writeAll             *)
(*   owned      the codec has a release: the elements are resources        *)
(*   made, destroyed    history: elements lowered, and released            *)
(*   offered    history: elements of the batches yielded                   *)
(*   lost       history: the stream was dropped by another than the pump   *)
allVars == <<vars, driver, pump>>

Idling == [pc |-> "pull", pulling |-> TRUE, pulls |-> 0, batch |-> 0, last |-> FALSE,
           cancelled |-> FALSE, ended |-> FALSE, closed |-> FALSE, failed |-> FALSE,
           reported |-> FALSE, before |-> 0, owned |-> FALSE, made |-> 0, destroyed |-> 0,
           offered |-> 0, lost |-> FALSE]

PumpInit ==
  \/ Init /\ driver = "embedder" /\ pump = [Idling EXCEPT !.pc = "done"]
  \/ /\ driver \in Producers
     /\ kind = "created" /\ at = "guest" /\ hops = 1 /\ alive = TRUE
     /\ s = [slot |-> NoEnd, dropped |-> FALSE,
             op |-> [e \in Ends |-> "none"], buf |-> [e \in Ends |-> NoBuffer],
             sess |-> [e \in Ends |-> FreshSession], all |-> NotWhole,
             event |-> [e \in Ends |-> "none"], done |-> [e \in Ends |-> FALSE],
             left |-> [e \in Ends |-> FALSE], poisoned |-> FALSE,
             act |-> [bound |-> TRUE, closed |-> FALSE, disarmed |-> FALSE, armed |-> TRUE],
             hollow |-> FALSE, moved |-> [e \in Ends |-> 0], total |-> [e \in Ends |-> 0]]
     /\ \E owned \in BOOLEAN : pump = [Idling EXCEPT !.owned = owned]

At(pc) == driver \in Producers /\ pump.pc = pc

To(p) == pump' = p /\ UNCHANGED <<vars, driver>>

(* The embedder has a handle on the stream once it has been lifted back.   *)
HasHandle == hops > 1

-----------------------------------------------------------------------------
(* batches: the pull races the loss of the reader.                         *)
Pulled(len) == [pump EXCEPT !.pc = "lower", !.pulling = FALSE, !.batch = len,
                            !.pulls = @ + 1, !.offered = @ + len]

Closing(p) == [p EXCEPT !.pc = "closing", !.batch = 0]

PullYields(len) == At("pull") /\ pump.pulls < MaxPulls /\ To(Pulled(len))

PullEnds ==
  At("pull") /\ To(Closing([pump EXCEPT !.pulling = FALSE, !.ended = TRUE]))

PullThrows ==
  At("pull") /\ To(Closing([pump EXCEPT !.pulling = FALSE, !.failed = TRUE]))

Gone_NoCancel == At("pull") /\ s.dropped /\ To([pump EXCEPT !.pc = "drain"])

Gone == /\ At("pull") /\ s.dropped
        /\ To([pump EXCEPT !.pc = "drain", !.cancelled = driver \in Cooperative])

(* The drained pull: an element already handed over is yielded; its end or *)
(* its rejection is the end of the generator.                              *)
StragglerYields(len) ==
  At("drain") /\ pump.pulls < MaxPulls /\ To([Pulled(len) EXCEPT !.last = TRUE])

StragglerEnds == At("drain") /\ To(Closing([pump EXCEPT !.pulling = FALSE]))

-----------------------------------------------------------------------------
(* packChunk and the code around it.  Lowering runs the embedder's code,   *)
(* which can drop the stream, and can fail at an element.                  *)
Made(p, n) == IF p.owned THEN [p EXCEPT !.made = @ + n] ELSE p

ReleaseUntaken(p, n) == IF p.owned THEN [p EXCEPT !.destroyed = @ + n] ELSE p

(* The next turn of the for-await loop: the generator resumes. *)
Resumed(p) == IF p.last THEN Closing(p)
              ELSE [p EXCEPT !.pc = "pull", !.pulling = TRUE, !.batch = 0]

Broken(p) == Closing(p)

(* A failed conversion releases the prefix that it has lowered. *)
PackFails_KeepsPrefix(p, n) == Closing([Made(p, n) EXCEPT !.failed = TRUE])
PackFails(p, n) == Closing([ReleaseUntaken(Made(p, n), n) EXCEPT !.failed = TRUE])

(* Elements lowered after the drop were acquired, and are released. *)
LoweredTooLate(p) == Broken(ReleaseUntaken(Made(p, p.batch), p.batch))

Abandons ==
  /\ At("lower") /\ s.dropped /\ ~pump.owned
  /\ To(Broken(pump))

LowerFails ==
  /\ At("lower") /\ (pump.owned \/ ~s.dropped) /\ pump.batch > 0
  /\ \E n \in 0..(pump.batch - 1) : To(PackFails(pump, n))

(* CLEANLY_ABANDONED: pump returns at once, which only skips a second drop. *)
DropsWhileLowering ==
  /\ At("lower") /\ ~s.dropped /\ HasHandle /\ pump.batch > 0
  /\ s' = LET t == DroppedBy(s, Ends) IN [t EXCEPT !.act = Closed(@)]
  /\ pump' = [LoweredTooLate(pump) EXCEPT !.lost = TRUE]
  /\ UNCHANGED <<kind, at, hops, alive, driver>>

LowerDropped ==
  At("lower") /\ s.dropped /\ pump.owned /\ To(LoweredTooLate(pump))

(* writeAll of an empty batch returns at once. *)
LowerNothing ==
  At("lower") /\ ~s.dropped /\ pump.batch = 0 /\ To(Resumed(pump))

LowerAndWrite ==
  /\ At("lower") /\ pump.batch > 0
  /\ HostWriteAll(pump.batch)
  /\ pump' = [Made(pump, pump.batch) EXCEPT !.pc = "writing", !.before = s.total["w"]]
  /\ UNCHANGED driver

(* writeAll has settled.  A short write is a clean end if the reader       *)
(* dropped and a failure if its instance trapped; the tail is destroyed.   *)
Written(p, n) ==
  LET q == ReleaseUntaken(p, p.batch - n) IN
  IF n < p.batch THEN Broken([q EXCEPT !.failed = s.poisoned]) ELSE Resumed(q)

WriteSettles ==
  /\ At("writing") /\ s.all.mode = "none"
  /\ To(Written(pump, s.total["w"] - pump.before))

-----------------------------------------------------------------------------
(* The generator's finally block, then the tail of pump: report, and only  *)
(* then drop, since the drop is what lets the guest see the end.           *)
CleanedUp(p) ==
  [p EXCEPT !.closed = TRUE,
            !.cancelled = @ \/ (driver = "web" /\ ~p.ended)]

Reported(p) == [p EXCEPT !.reported = p.failed]

Finishes(fails) ==
  /\ At("closing") /\ ~pump.pulling
  /\ pump' = [Reported([CleanedUp(pump) EXCEPT !.failed = @ \/ fails]) EXCEPT !.pc = "done"]
  /\ s' = IF s.act.closed THEN s
          ELSE LET t == DroppedBy(s, Ends) IN [t EXCEPT !.act = Closed(@)]
  /\ UNCHANGED <<kind, at, hops, alive, driver>>

(* it.return() may reject: the for-await loop passes the rejection on.     *)
Finish == \E fails \in BOOLEAN : (fails => driver # "web") /\ Finishes(fails)

-----------------------------------------------------------------------------
PumpSteps ==
  \/ Gone \/ Abandons \/ LowerFails \/ DropsWhileLowering \/ LowerDropped
  \/ LowerNothing \/ LowerAndWrite \/ WriteSettles \/ Finish

ProducerSteps ==
  \/ \E len \in 0..MaxLen : PullYields(len) \/ StragglerYields(len)
  \/ PullEnds \/ PullThrows \/ StragglerEnds

(* A step of HostStreams beside the pump. *)
Beside(A) ==
  /\ A
  /\ pump' = [pump EXCEPT !.lost = @ \/ (s'.dropped /\ ~s.dropped)]
  /\ UNCHANGED driver

Surroundings ==
  \/ driver = "embedder" /\ Beside(EmbedderActs)
  \/ driver # "embedder" /\ HasHandle /\ Beside(HostDrop("r"))
  \/ Beside(Others)

PumpNext == PumpSteps \/ ProducerSteps \/ Surroundings

(* Promise continuations run; a producer whose pull has been cancelled     *)
(* settles it, and its cleanup settles.                                    *)
PumpFairness ==
  /\ WF_allVars(PumpSteps)
  /\ WF_allVars(pump.cancelled /\ StragglerEnds)
  /\ WF_allVars(Beside(WriteAllResumes))
  /\ \A e \in Ends : WF_allVars(Beside(SessionResumes(e)))

PumpSpec == PumpInit /\ [][PumpNext]_allVars /\ PumpFairness

-----------------------------------------------------------------------------
(* Properties *)

(* Every resource the pump has lowered goes to exactly one place: taken by *)
(* the reader, or released by the pump -- the prefix of a batch that       *)
(* failed, the tail of a short write, the straggler of a drained pull      *)
(* (packChunk, releaseUntaken).                                            *)
Custody ==
  pump.owned =>
    /\ pump.made >= s.moved["w"] + pump.destroyed
    /\ pump.pc # "writing" => pump.made = s.moved["w"] + pump.destroyed

(* The reader sees a clean end only of a whole stream: a pump that         *)
(* finished without reporting a failure had exhausted its producer and     *)
(* given everything away, unless the reader left first (pump,              *)
(* reportProducerFailure).                                                 *)
CleanEnd ==
  driver \in Producers /\ pump.pc = "done" /\ ~pump.reported /\ ~pump.lost
    => pump.ended /\ pump.offered = s.moved["w"]

(* The producer is cleaned up once, with no pull outstanding: return()     *)
(* would queue behind one, and a lock released under one could not cancel  *)
(* it.  A ReadableStream left unfinished has been cancelled (batches).     *)
ProducerClosed ==
  /\ pump.pc \in {"closing", "done"} /\ driver \in Producers => ~pump.pulling
  /\ pump.closed /\ driver = "web" => (pump.cancelled <=> ~pump.ended)

(* However the pump ends, nothing it made is lost or told of wrongly.      *)
PumpSound == Custody /\ CleanEnd /\ ProducerClosed

(* Once the reader is gone the pump of a producer that can be cancelled    *)
(* ends, so its activity and the producer's resources are released (pump,  *)
(* batches; HostActivity).                                                 *)
PumpEnds ==
  driver \in Cooperative /\ s.dropped ~> pump.pc = "done"

=============================================================================
