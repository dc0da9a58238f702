--------------------------- MODULE StreamHandles ---------------------------
(***************************************************************************)
(* The embedder's stream handles: the pair Stream.create() makes (Stream,  *)
(* StreamWriter), whose element type is known only when the stream is      *)
(* first lowered, and the handle of a stream lifted out of a guest, or     *)
(* lifted back.  An operation the writer starts before the binding is      *)
(* launched by it.  HostStreams has the rendezvous below: here a write or  *)
(* a read is parked, takes or is taken some elements, and settles; its     *)
(* promise is followed up in a later step.                                 *)
(*                                                                         *)
(* Lowering a chunk runs the embedder's code, which may call the handles   *)
(* again: while an operation is "preparing" only such calls run.           *)
(*                                                                         *)
(* An operator named X_Y is X with the slip Y.                             *)
(***************************************************************************)
EXTENDS Naturals

CONSTANTS MaxChunk,   \* longest chunk, and the most one read asks for
          MaxWrites,  \* bound: operations the writer starts
          MaxTurns    \* bound: transfers of the readable end

ASSUME StreamHandlesAssumption == /\ MaxChunk \in Nat \ {0}
                                  /\ MaxWrites \in Nat /\ MaxTurns \in Nat

VARIABLES
  source,  \* "pair": Stream.create(), or "guest": the writer is a guest
  holder,  \* who holds the readable end: "host" or "guest"
  turns,   \* history: its transfers
  sound,   \* neither guest has trapped
  pair,    \* the Stream of the pair: bound, dropped
  wr,      \* the StreamWriter and its active operation
  rd,      \* the handle that reads, once there is one
  lo       \* the shared stream and its wrapper

(* The fields of wr: pc (none, queued, preparing, low), cancelled, closed, *)
(* closing (close() has dropped nothing yet), kind, len, owned (the codec  *)
(* has a release); history: starts, told (the sum of the counts answered), *)
(* and of the elements of an owned chunk made (lowered), released, kept    *)
(* (answered as taken).                                                    *)
(* The fields of rd: there, dropped; history: eos (told a clean end), and  *)
(* asked (cancelRead called).                                              *)
(* The fields of lo: dropped, poisoned; w and r (none, parked, settled),   *)
(* len and got of the write, room and put of the read; history: taken      *)
(* (elements of the pair's writer copied), cause (what ended the stream first).                 *)
handleVars == <<source, holder, turns, sound, pair, wr, rd, lo>>

Least(a, b) == IF a <= b THEN a ELSE b

-----------------------------------------------------------------------------
(* The shared stream.  A write that has room left stays parked.            *)
EndedBy(t, why) ==
  IF t.dropped THEN t
  ELSE [t EXCEPT !.dropped = TRUE, !.cause = why,
                 !.w = IF @ = "parked" THEN "settled" ELSE @,
                 !.r = IF @ = "parked" THEN "settled" ELSE @]

Moved(t, n) ==
  [t EXCEPT !.got = @ + n,
            !.taken = IF source = "pair" THEN @ + n ELSE @,
            !.w = IF t.got + n = t.len THEN "settled" ELSE @]

(* A write settles when it is all taken; one that arrives at a read        *)
(* settles with what the read had room for, unless it is a writeAll.       *)
LowWrite(t, len, all) ==
  LET u == [t EXCEPT !.len = len, !.got = 0, !.w = "parked"]
      n == Least(len, t.room)
  IN  CASE t.dropped -> [u EXCEPT !.w = "settled"]
        [] ~t.dropped /\ t.r # "parked" -> IF len = 0 THEN [u EXCEPT !.w = "settled"] ELSE u
        [] OTHER -> LET v == Moved([u EXCEPT !.r = "settled", !.put = n], n)
                    IN  IF all THEN v ELSE [v EXCEPT !.w = "settled"]

LowRead(t, max) ==
  LET u == [t EXCEPT !.room = max, !.put = 0, !.r = "parked"]
      n == Least(max, t.len - t.got)
  IN  CASE t.dropped -> [u EXCEPT !.r = "settled"]
        [] ~t.dropped /\ t.w # "parked" -> u
        [] OTHER -> Moved([u EXCEPT !.r = "settled", !.put = n], n)

CancelLow(t, e) ==
  IF e = "w" THEN [t EXCEPT !.w = IF @ = "parked" THEN "settled" ELSE @]
             ELSE [t EXCEPT !.r = IF @ = "parked" THEN "settled" ELSE @]

-----------------------------------------------------------------------------
NoWriter == [pc |-> "none", cancelled |-> FALSE, closed |-> FALSE, closing |-> FALSE,
             kind |-> "write", len |-> 0, owned |-> FALSE, starts |-> 0,
             made |-> 0, released |-> 0, kept |-> 0, told |-> 0]

HandlesInit ==
  /\ source \in {"pair", "guest"} /\ holder = "host"
  /\ turns = 0 /\ sound = TRUE
  /\ pair = [bound |-> FALSE, dropped |-> FALSE]
  /\ \E owned \in {FALSE, source = "pair"} : wr = [NoWriter EXCEPT !.owned = owned]
  /\ rd = [there |-> source = "guest", dropped |-> FALSE, eos |-> FALSE, asked |-> FALSE]
  /\ lo = [dropped |-> FALSE, poisoned |-> FALSE, w |-> "none", r |-> "none",
           len |-> 0, got |-> 0, room |-> 0, put |-> 0, taken |-> 0, cause |-> "none"]

Outside == wr.pc # "preparing"

(* #resolve: the operation is over, and its promise has its count. *)
Answered(w, n) == [w EXCEPT !.pc = "none", !.cancelled = FALSE, !.told = @ + n]

(* #launch, up to the lowering of the chunk. *)
Launched(w) == IF w.pc = "queued" THEN [w EXCEPT !.pc = "preparing"] ELSE w

-----------------------------------------------------------------------------
(* StreamWriter.                                                           *)
Start ==
  /\ source = "pair" /\ Outside
  /\ wr.pc = "none" /\ ~wr.closed /\ ~pair.dropped /\ wr.starts < MaxWrites
  /\ \E kind \in {"write", "all", "direct"}, len \in 1..MaxChunk :
       wr' = [wr EXCEPT !.kind = kind, !.len = len, !.starts = @ + 1,
                        !.pc = IF ~pair.bound THEN "queued"
                               ELSE IF lo.poisoned THEN "none" ELSE "preparing"]
  /\ UNCHANGED <<source, holder, turns, sound, pair, rd, lo>>

Accounts(w) == w.owned /\ w.kind # "direct"
WithMade(w, n) == IF Accounts(w) THEN [w EXCEPT !.made = @ + n] ELSE w
Untouched(w, n) == IF Accounts(w) THEN [w EXCEPT !.released = @ + n] ELSE w
Touched(w, n) == IF Accounts(w) THEN [w EXCEPT !.kept = @ + n] ELSE w

(* packChunk throws at an element: the lowered prefix is released. *)
PrefixFailed_Keeps(w, n) == Answered(WithMade(w, n), 0)
PrefixFailed(w, n) == Answered(Untouched(WithMade(w, n), n), 0)

PrepareFails ==
  /\ wr.pc = "preparing"
  /\ \E n \in 0..(wr.len - 1) : wr' = PrefixFailed(wr, n)
  /\ UNCHANGED <<source, holder, turns, sound, pair, rd, lo>>

(* A stream whose peer trapped refuses; one cancelled or dropped while the *)
(* chunk was prepared answers 0; otherwise the low-level write starts.     *)
Goes_Cancelled == ~lo.poisoned
Goes == ~wr.cancelled /\ ~pair.dropped /\ ~lo.poisoned

ChunkPrepared ==
  /\ wr.pc = "preparing"
  /\ IF Goes
       THEN /\ wr' = [WithMade(wr, wr.len) EXCEPT !.pc = "low"]
            /\ lo' = LowWrite(lo, wr.len, wr.kind # "write")
       ELSE /\ wr' = Answered(Untouched(WithMade(wr, wr.len), wr.len), 0)
            /\ UNCHANGED lo
  /\ UNCHANGED <<source, holder, turns, sound, pair, rd>>

(* After the await: the untaken tail is released, and the count answered,  *)
(* or carried by the PeerTrappedError of a short write.                    *)
WriteReturns ==
  /\ Outside /\ source = "pair" /\ lo.w = "settled"
  /\ wr' = Answered(Touched(Untouched(wr, lo.len - lo.got), lo.got), lo.got)
  /\ lo' = [lo EXCEPT !.w = "none", !.len = 0, !.got = 0]
  /\ UNCHANGED <<source, holder, turns, sound, pair, rd>>

CancelWrite ==
  /\ wr.pc # "none" /\ ~wr.cancelled
  /\ wr' = IF wr.pc = "queued" THEN Answered(wr, 0) ELSE [wr EXCEPT !.cancelled = TRUE]
  /\ lo' = IF wr.pc = "low" THEN CancelLow(lo, "w") ELSE lo
  /\ UNCHANGED <<source, holder, turns, sound, pair, rd>>

CloseAnswers(w) ==
  [IF w.pc = "queued" THEN Answered(w, 0) ELSE w EXCEPT !.closed = TRUE, !.closing = pair.bound]

Close ==
  /\ source = "pair" /\ ~wr.closed
  /\ wr' = CloseAnswers(wr)
  /\ UNCHANGED <<source, holder, turns, sound, pair, rd, lo>>

CloseDrops ==
  /\ wr.closing /\ Outside
  /\ wr' = [wr EXCEPT !.closing = FALSE]
  /\ lo' = EndedBy(lo, "closed")
  /\ UNCHANGED <<source, holder, turns, sound, pair, rd>>

-----------------------------------------------------------------------------
(* Stream.  bindElement runs the writer's listener: a closed writer drops  *)
(* the stream, an operation in waiting is launched.                        *)
BoundLow(t) == IF wr.closed THEN EndedBy(t, "closed") ELSE t

Bind ==
  /\ source = "pair" /\ ~pair.bound /\ ~pair.dropped /\ Outside /\ sound /\ turns < MaxTurns
  /\ pair' = [pair EXCEPT !.bound = TRUE]
  /\ wr' = Launched(wr)
  /\ lo' = BoundLow(lo)
  /\ holder' = "guest" /\ turns' = turns + 1
  /\ UNCHANGED <<source, sound, rd>>

(* drop() of the pair's Stream.  The listener of a closed writer throws if *)
(* the stream has no element type yet: nothing is left to release then.    *)
DropPair ==
  /\ source = "pair" /\ ~pair.dropped
  /\ pair' = [pair EXCEPT !.dropped = TRUE]
  /\ wr' = IF wr.pc = "queued" THEN Answered(wr, 0) ELSE wr
  /\ lo' = IF pair.bound THEN EndedBy(lo, "dropped") ELSE lo
  /\ UNCHANGED <<source, holder, turns, sound, rd>>

(* read(): one at a time, refused once the peer is known to have trapped.  *)
Reads == rd.there /\ holder = "host" /\ Outside

Read ==
  /\ Reads /\ lo.r = "none" /\ ~lo.poisoned
  /\ \E max \in 1..MaxChunk : lo' = LowRead(lo, max)
  /\ UNCHANGED <<source, holder, turns, sound, pair, wr, rd>>

(* #finishRead: an empty chunk is the end of the stream, unless the peer's *)
(* instance trapped, which rejects.                                        *)
CleanEnd == lo.put = 0 /\ ~lo.poisoned

ReadReturns ==
  /\ lo.r = "settled" /\ Outside
  /\ rd' = [rd EXCEPT !.eos = @ \/ CleanEnd]
  /\ lo' = [lo EXCEPT !.r = "none", !.room = 0, !.put = 0]
  /\ UNCHANGED <<source, holder, turns, sound, pair, wr>>

CancelRead ==
  /\ rd.there /\ lo.r = "parked"
  /\ lo' = CancelLow(lo, "r")
  /\ rd' = [rd EXCEPT !.asked = TRUE]
  /\ UNCHANGED <<source, holder, turns, sound, pair, wr>>

DropReader ==
  /\ rd.there /\ ~rd.dropped
  /\ rd' = [rd EXCEPT !.dropped = TRUE]
  /\ lo' = EndedBy(lo, "dropped")
  /\ UNCHANGED <<source, holder, turns, sound, pair, wr>>

(* takeValue of a bound handle. *)
Idle == lo.r # "parked"

PassOn ==
  /\ Reads /\ ~rd.dropped /\ sound /\ turns < MaxTurns
  /\ Idle
  /\ holder' = "guest" /\ turns' = turns + 1
  /\ UNCHANGED <<source, sound, pair, wr, rd, lo>>

-----------------------------------------------------------------------------
(* The guests: one that reads, and the writer of a lifted stream.          *)
LiftBack ==
  /\ holder = "guest" /\ sound /\ Outside /\ turns < MaxTurns
  /\ holder' = "host" /\ turns' = turns + 1
  /\ rd' = [rd EXCEPT !.there = TRUE, !.dropped = FALSE]
  /\ UNCHANGED <<source, sound, pair, wr, lo>>

GuestReads ==
  /\ holder = "guest" /\ sound /\ Outside /\ lo.w = "parked"
  /\ \E n \in 1..(lo.len - lo.got) : lo' = Moved(lo, n)
  /\ UNCHANGED <<source, holder, turns, sound, pair, wr, rd>>

GuestWrites ==
  /\ source = "guest" /\ sound /\ lo.w = "none"
  /\ \E len \in 1..MaxChunk :
       lo' = [LowWrite(lo, len, FALSE) EXCEPT !.w = IF @ = "settled" THEN "none" ELSE @]
  /\ UNCHANGED <<source, holder, turns, sound, pair, wr, rd>>

GuestHears ==
  /\ source = "guest" /\ sound /\ lo.w = "settled"
  /\ lo' = [lo EXCEPT !.w = "none", !.len = 0, !.got = 0]
  /\ UNCHANGED <<source, holder, turns, sound, pair, wr, rd>>

GuestEnds ==
  /\ sound /\ Outside /\ (source = "guest" \/ holder = "guest")
  /\ lo' = EndedBy(lo, "closed")
  /\ UNCHANGED <<source, holder, turns, sound, pair, wr, rd>>

GuestDies ==
  /\ sound /\ Outside /\ (source = "guest" \/ holder = "guest")
  /\ sound' = FALSE
  /\ lo' = [EndedBy(IF source = "guest" THEN CancelLow(lo, "w") ELSE lo, "trap") EXCEPT !.poisoned = TRUE]
  /\ UNCHANGED <<source, holder, turns, pair, wr, rd>>

HandlesNext ==
  \/ Start \/ PrepareFails \/ ChunkPrepared \/ WriteReturns \/ CancelWrite \/ Close \/ CloseDrops
  \/ Bind \/ DropPair \/ Read \/ ReadReturns \/ CancelRead \/ DropReader \/ PassOn
  \/ LiftBack \/ GuestReads \/ GuestWrites \/ GuestHears \/ GuestEnds \/ GuestDies

HandlesSpec == HandlesInit /\ [][HandlesNext]_handleVars

-----------------------------------------------------------------------------
(* Properties *)

(* No operation is forgotten between the writer, the stream and the        *)
(* binding: one in waiting still has a binding to come; a writer closed    *)
(* and a stream dropped at any time -- before the binding, while a chunk   *)
(* is prepared, under a write -- have ended the stream once it has one; no *)
(* cancellation is lost; nothing stays parked on an ended stream (onBound, *)
(* #launch, #write, cancelWrite, close, drop).                             *)
WriterAnswered ==
  /\ wr.pc = "queued" => ~pair.bound /\ ~pair.dropped /\ ~wr.closed
  /\ source = "pair" => (wr.pc = "low" <=> lo.w # "none")
  /\ pair.bound /\ (wr.closed \/ pair.dropped) => lo.dropped \/ wr.closing
  /\ lo.dropped => lo.w # "parked" /\ lo.r # "parked"
  /\ wr.pc = "low" /\ wr.cancelled => lo.w = "settled"

(* The counts answered are the elements taken, and every element lowered   *)
(* is taken or released, whether its operation ended, was cut short, was   *)
(* cancelled under preparation or failed (#write, releaseUntaken).         *)
ChunksSettled ==
  source = "pair" =>
    LET flying == IF wr.pc = "low" THEN lo.got ELSE 0 IN
    /\ lo.taken = wr.told + flying
    /\ wr.pc # "low" => wr.made = wr.released + wr.kept

(* A reader told of a clean end was not cut off by a trap, and the         *)
(* readable end is never with a guest while a read of the host's is parked *)
(* (#finishRead, takeValue).                                               *)
ReadsTold ==
  /\ rd.eos => rd.asked \/ lo.cause \in {"closed", "dropped"}
  /\ lo.r = "parked" => holder = "host"

(* What the handles answer of a stream is what was copied, on either side. *)
HandlesTold == ChunksSettled /\ ReadsTold

=============================================================================
