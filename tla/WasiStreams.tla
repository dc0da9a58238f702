----------------------------- MODULE WasiStreams -----------------------------
(***************************************************************************)
(* The asynchronous byte streams of wasi:io 0.2 (wasi/src/io.ts): what     *)
(* FedInputStream and SinkOutputStream do to their own state.  The module  *)
(* has no variables; a module that has a stream passes its record.         *)
(*                                                                         *)
(* Bytes are counted, not carried: the streams keep them in order, and     *)
(* only the counts steer the feed, the permit and the wake-ups.            *)
(*                                                                         *)
(* An operator named X_Y is X with the slip Y.                             *)
(***************************************************************************)
EXTENDS Naturals, Sequences

CONSTANT HighWater   \* STREAM_HIGH_WATER: buffered bytes, and the permit

ASSUME WasiStreamsAssumption == HighWater \in Nat \ {0}

(* FedInputStream: what its feed is at, the bytes buffered, how it ended.  *)
FreshInput == [feed |-> "pulling", buffered |-> 0, eof |-> FALSE, failed |-> FALSE,
               closed |-> FALSE]

InputReady(i) == i.buffered > 0 \/ i.eof \/ i.closed

(* The feed after a chunk or a resume: it pauses above the high water mark *)
(* of a stream that still has a reader.                                    *)
Fed(i) == [i EXCEPT !.feed = IF i.buffered >= HighWater /\ ~i.closed THEN "paused"
                             ELSE "pulling"]

(* #feed: a chunk from the source; its end, or its failure. *)
GotChunk(i, n) ==
  IF i.closed THEN [i EXCEPT !.feed = "returned"] ELSE Fed([i EXCEPT !.buffered = @ + n])

SourceEnded(i, fails) ==
  [i EXCEPT !.feed = "returned", !.eof = TRUE, !.failed = fails]

Resumed(i) == IF i.feed = "paused" THEN Fed(i) ELSE i

(* read: drains the buffer before it reports the end. *)
Taken(i, n) ==
  LET t == [i EXCEPT !.buffered = @ - n]
  IN  IF t.buffered < HighWater THEN Resumed(t) ELSE t

InputClosed(i) == Resumed([i EXCEPT !.closed = TRUE])

-----------------------------------------------------------------------------
(* SinkOutputStream: the chain of sink calls as the writes whose call has  *)
(* not been made (queue) and the one whose call has not settled (flying).  *)
FreshOutput == [queue |-> <<>>, flying |-> 0, queued |-> 0, failed |-> FALSE, closed |-> FALSE]

Permit(o) == IF o.queued < HighWater THEN HighWater - o.queued ELSE 0

OutputReady(o) == o.closed \/ o.failed \/ o.queued < HighWater

(* blockingFlush waits for this, and does not look at closed. *)
Flushed(o) == o.queued = 0 \/ o.failed

Writable(o) == ~o.closed /\ ~o.failed

Accepted(o, n) == [o EXCEPT !.queue = Append(@, n), !.queued = @ + n]

(* The next link of the chain.  After a failure none of the rest is sent.  *)
Skipped(o) == [o EXCEPT !.queue = <<>>, !.queued = 0]

Called(o) == [o EXCEPT !.queue = Tail(@), !.flying = Head(o.queue)]

(* The sink settled: the permit grows either way. *)
Settled(o, fails) ==
  [o EXCEPT !.flying = 0, !.failed = @ \/ fails, !.queued = @ - o.flying]

OutputClosed(o) == [o EXCEPT !.closed = TRUE]
=============================================================================
