--------------------------- MODULE HostSide_proofs --------------------------
(***************************************************************************)
(* The host's side of the guests, for any number of calls, transfers and   *)
(* batches.                                                                *)
(*                                                                         *)
(* Host calls settle soundly.  What a step does to one call depends on     *)
(* that call and on who is on the stack, so the invariant is about each    *)
(* call by itself, and about the one thing the calls share: the carrier.   *)
(*                                                                         *)
(* A stream with ends in the embedder's hands tells the store when it may  *)
(* still be acted on, and its host what crossed it; the pump over it loses *)
(* nothing.  A call of the stream is a chain of operators on one record:   *)
(* Held is what each of them keeps of it (the types, writeAll's helper,    *)
(* and of either end what is told, parked, pending and counted), with one  *)
(* end let go while its operation is between arrival and verdict; the      *)
(* lemmas follow the chain, and PumpInv adds where the pump is and what it *)
(* has made of its batches.                                                *)
(***************************************************************************)
EXTENDS HostCalls, ProducerPump, SequenceTheorems, TLAPS

Stages == {"body", "offered", "finish", "transfer", "pending", "settled", "done"}
SubStates == {"started", "returned", "cancelled", "failed"}
Signals == {"unused", "due", "aborted"}
CallRecord ==
    [inst: Callers, lower: {"sync", "async"},
     brand: {"suspending", "deferCancel", "abortable"},
     at: Stages, via: {"now", "later"}, outcome: {"none", "value", "err", "throw"},
     scope: {"open", "ended"}, args: {"held", "dropped"}, lent: BOOLEAN,
     sub: SubStates, custody: {"host", "moving", "guest"}, signal: Signals]

\* The assignments of the actions that write several fields keep a call's type.
LEMMA FieldsTyped ==
  ASSUME NEW r \in CallRecord, NEW a \in Stages, NEW st \in SubStates, NEW g \in Signals
  PROVE  /\ [r EXCEPT !.at = a] \in CallRecord
         /\ [r EXCEPT !.sub = st, !.at = a] \in CallRecord
         /\ [r EXCEPT !.at = a, !.sub = st] \in CallRecord
         /\ [r EXCEPT !.sub = st, !.signal = g] \in CallRecord
         /\ [r EXCEPT !.lent = FALSE, !.sub = st] \in CallRecord
         /\ [r EXCEPT !.at = a, !.via = "later"] \in CallRecord
         /\ Discarded(r) \in CallRecord
<1>1. Discarded(r) \in CallRecord
  BY DEF CallRecord, Discarded, Ended
<1>2. /\ [r EXCEPT !.at = a] \in CallRecord
      /\ [r EXCEPT !.at = a, !.via = "later"] \in CallRecord
  BY DEF CallRecord
<1>3. [r EXCEPT !.sub = st, !.at = a] \in CallRecord /\ [r EXCEPT !.at = a, !.sub = st] \in CallRecord
  BY DEF CallRecord
<1>4. /\ [r EXCEPT !.sub = st, !.signal = g] \in CallRecord
      /\ [r EXCEPT !.lent = FALSE, !.sub = st] \in CallRecord
  BY DEF CallRecord
<1>5. QED
  BY <1>1, <1>2, <1>3, <1>4

LEMMA SettledTyped ==
  ASSUME NEW r \in CallRecord, NEW o \in {"value", "err", "throw"}
  PROVE  Settled(r, o) \in CallRecord
<1>1. \A g \in {"held", "dropped"} :
         [r EXCEPT !.scope = "ended", !.outcome = o, !.args = g] \in CallRecord
  BY DEF CallRecord
<1>2. (IF o = "throw" THEN "dropped" ELSE r.args) \in {"held", "dropped"}
  BY DEF CallRecord
<1>3. Settled(r, o) = [r EXCEPT !.scope = "ended", !.outcome = o,
                                !.args = IF o = "throw" THEN "dropped" ELSE r.args]
  BY DEF Settled, Ended, CallRecord
<1>4. QED
  BY <1>1, <1>2, <1>3

USE DEF Stages, SubStates, Signals

\* What holds of a call wherever it is.  From the moment the host has completed,
\* and from any resolution, its borrows are over; a call resolves as returned
\* only at its end, and only one with a handle is cancelled.
Sound(r) ==
    /\ r.at \in {"offered", "finish", "transfer", "settled", "done"} => r.scope = "ended"
    /\ r.sub \in {"returned", "cancelled"} => r.scope = "ended"
    /\ r.lent \/ r.scope = "ended"
    /\ r.sub = "returned" => r.at = "done"
    /\ r.custody = "guest" <=> r.sub = "returned"
    /\ r.custody = "moving" => r.at = "transfer"
    /\ r.signal # "unused" => r.sub = "cancelled"
    /\ r.at \in {"body", "offered"} => r.via = "now"
    /\ r.sub = "cancelled" => r.via = "later" /\ r.lower = "async"
    /\ r.at = "settled" => r.lower = "sync"
SoundCall == {r \in CallRecord : Sound(r)}

\* The inductive invariant.
HostInv == calls \in Seq(SoundCall) /\ CarrierHoldsOwn

With(cs, c, r) == [cs EXCEPT ![c] = r]

\* Replacing a call by a sound one leaves every call sound.
LEMMA CallChanged ==
  ASSUME NEW cs \in Seq(SoundCall), NEW c \in DOMAIN cs, NEW r \in SoundCall
  PROVE  /\ With(cs, c, r) \in Seq(SoundCall) /\ DOMAIN With(cs, c, r) = DOMAIN cs
         /\ With(cs, c, r)[c] = r
<1>1. DOMAIN cs = 1..Len(cs)
  BY LenProperties
<1>2. With(cs, c, r) \in Seq(SoundCall)
  BY <1>1, ExceptSeq DEF With
<1>3. QED
  BY <1>2 DEF With

\* The calls made so far are sound ones.
LEMMA CallIsSound ==
  ASSUME NEW cs \in Seq(SoundCall), NEW c \in DOMAIN cs
  PROVE  cs[c] \in CallRecord /\ Sound(cs[c])
<1>1. cs[c] \in SoundCall
  BY ElementOfSeq, LenProperties
<1>2. QED
  BY <1>1 DEF SoundCall

\* The guest, or host code of another call, runs while the carrier is free.
LEMMA CarrierFree ==
  ASSUME CarrierHoldsOwn,
         GuestRuns \/ running = <<>> \/ calls[Innermost].at # "offered"
  PROVE  carrier = 0
BY DEF CarrierHoldsOwn, OnTop, GuestRuns

LEMMA HostInitInv == HostInit => HostInv
<1> SUFFICES ASSUME HostInit PROVE HostInv
  OBVIOUS
<1>1. calls \in Seq(SoundCall)
  BY EmptySeq DEF HostInit
<1>2. QED
  BY <1>1 DEF HostInit, HostInv, CarrierHoldsOwn


LEMMA BodyCompletesSound ==
  ASSUME HostInv, NEW c \in DOMAIN calls,
         NEW outcome \in {"value", "err", "throw"}, BodyCompletes(c, outcome)
  PROVE  calls' \in Seq(SoundCall)
<1> DEFINE r == [Settled(calls[c], outcome) EXCEPT !.at = "offered"]
<1>1. calls \in Seq(SoundCall) /\ calls[c] \in CallRecord /\ Sound(calls[c])
  BY CallIsSound DEF HostInv
<1>2. r \in CallRecord
  BY <1>1 DEF CallRecord, BodyCompletes, OnTop, Settled, Ended
<1>3. Sound(r)
  BY <1>1 DEF CallRecord, Sound, BodyCompletes, OnTop, Settled, Ended
<1>4. calls' = With(calls, c, r)
  BY DEF With, BodyCompletes
<1>5. r \in SoundCall
  BY <1>2, <1>3 DEF SoundCall
<1> HIDE DEF r
<1>6. QED
  BY <1>1, <1>4, <1>5, CallChanged

LEMMA BodyPromisesSound ==
  ASSUME HostInv, NEW c \in DOMAIN calls,
         BodyPromises(c)
  PROVE  calls' \in Seq(SoundCall)
<1> DEFINE r == IF calls[c].lower = "sync" /\ calls[c].brand # "suspending"
                   THEN [Discarded([calls[c] EXCEPT !.at = "pending", !.via = "later"])
                           EXCEPT !.lent = FALSE, !.sub = "failed"]
                   ELSE [calls[c] EXCEPT !.at = "pending", !.via = "later"]
<1>1. calls \in Seq(SoundCall) /\ calls[c] \in CallRecord /\ Sound(calls[c])
  BY CallIsSound DEF HostInv
<1>2. r \in CallRecord
  <2> DEFINE p == [calls[c] EXCEPT !.at = "pending", !.via = "later"]
             q == Discarded(p)
  <2>1. p \in CallRecord
    BY <1>1, FieldsTyped
  <2>2. q \in CallRecord
    BY <2>1, FieldsTyped
  <2> HIDE DEF q
  <2>3. [q EXCEPT !.lent = FALSE, !.sub = "failed"] \in CallRecord
    BY <2>2, FieldsTyped
  <2>4. QED
    BY <2>1, <2>3 DEF q
<1>3. Sound(r)
  BY <1>1 DEF CallRecord, Sound, BodyPromises, OnTop, Discarded, Ended
<1>4. calls' = With(calls, c, r)
  BY DEF With, BodyPromises
<1>5. r \in SoundCall
  BY <1>2, <1>3 DEF SoundCall
<1> HIDE DEF r
<1>6. QED
  BY <1>1, <1>4, <1>5, CallChanged

LEMMA AcceptSound ==
  ASSUME HostInv, NEW c \in DOMAIN calls,
         Accept(c)
  PROVE  calls' \in Seq(SoundCall)
<1> DEFINE r == [calls[c] EXCEPT !.at = "finish"]
<1>1. calls \in Seq(SoundCall) /\ calls[c] \in CallRecord /\ Sound(calls[c])
  BY CallIsSound DEF HostInv
<1>2. r \in CallRecord
  BY <1>1 DEF CallRecord, Accept, OnTop
<1>3. Sound(r)
  BY <1>1 DEF CallRecord, Sound, Accept, OnTop
<1>4. calls' = With(calls, c, r)
  BY DEF With, Accept
<1>5. r \in SoundCall
  BY <1>2, <1>3 DEF SoundCall
<1> HIDE DEF r
<1>6. QED
  BY <1>1, <1>4, <1>5, CallChanged

LEMMA RefuseSound ==
  ASSUME HostInv, NEW c \in DOMAIN calls,
         Refuse(c)
  PROVE  calls' \in Seq(SoundCall)
<1> DEFINE r == [calls[c] EXCEPT !.at = "done", !.sub = "failed"]
<1>1. calls \in Seq(SoundCall) /\ calls[c] \in CallRecord /\ Sound(calls[c])
  BY CallIsSound DEF HostInv
<1>2. r \in CallRecord
  BY ZenonT(60), <1>1 DEF CallRecord, Refuse, OnTop
<1>3. Sound(r)
  BY <1>1 DEF CallRecord, Sound, Refuse, OnTop
<1>4. calls' = With(calls, c, r)
  BY DEF With, Refuse
<1>5. r \in SoundCall
  BY <1>2, <1>3 DEF SoundCall
<1> HIDE DEF r
<1>6. QED
  BY <1>1, <1>4, <1>5, CallChanged

LEMMA PreparedSound ==
  ASSUME HostInv, NEW c \in DOMAIN calls,
         Prepared(c)
  PROVE  calls' \in Seq(SoundCall)
<1> DEFINE r == [calls[c] EXCEPT !.at = "transfer"]
<1>1. calls \in Seq(SoundCall) /\ calls[c] \in CallRecord /\ Sound(calls[c])
  BY CallIsSound DEF HostInv
<1>2. r \in CallRecord
  BY <1>1 DEF CallRecord, Prepared, OnTop
<1>3. Sound(r)
  BY <1>1 DEF CallRecord, Sound, Prepared, OnTop
<1>4. calls' = With(calls, c, r)
  BY DEF With, Prepared
<1>5. r \in SoundCall
  BY <1>2, <1>3 DEF SoundCall
<1> HIDE DEF r
<1>6. QED
  BY <1>1, <1>4, <1>5, CallChanged

LEMMA AcquireSound ==
  ASSUME HostInv, NEW c \in DOMAIN calls,
         Acquire(c)
  PROVE  calls' \in Seq(SoundCall)
<1> DEFINE r == [calls[c] EXCEPT !.custody = "moving"]
<1>1. calls \in Seq(SoundCall) /\ calls[c] \in CallRecord /\ Sound(calls[c])
  BY CallIsSound DEF HostInv
<1>2. r \in CallRecord
  BY <1>1 DEF CallRecord, Acquire, OnTop, Eligible
<1>3. Sound(r)
  BY <1>1 DEF CallRecord, Sound, Acquire, OnTop, Eligible
<1>4. calls' = With(calls, c, r)
  BY DEF With, Acquire
<1>5. r \in SoundCall
  BY <1>2, <1>3 DEF SoundCall
<1> HIDE DEF r
<1>6. QED
  BY <1>1, <1>4, <1>5, CallChanged

LEMMA CommitSound ==
  ASSUME HostInv, NEW c \in DOMAIN calls,
         Commit(c)
  PROVE  calls' \in Seq(SoundCall)
<1> DEFINE r == Returned(calls[c])
<1>1. calls \in Seq(SoundCall) /\ calls[c] \in CallRecord /\ Sound(calls[c])
  BY CallIsSound DEF HostInv
<1>2. r \in CallRecord
  BY <1>1 DEF CallRecord, Commit, OnTop, Eligible, Returned
<1>3. Sound(r)
  BY <1>1 DEF CallRecord, Sound, Commit, OnTop, Eligible, Returned
<1>4. calls' = With(calls, c, r)
  BY DEF With, Commit
<1>5. r \in SoundCall
  BY <1>2, <1>3 DEF SoundCall
<1> HIDE DEF r
<1>6. QED
  BY <1>1, <1>4, <1>5, CallChanged

LEMMA BackstopTyped ==
  ASSUME NEW r \in CallRecord
  PROVE  Backstop(r) \in CallRecord
<1>1. CASE r.via = "later" /\ r.lower = "sync"
  <2>1. Backstop(r) = [r EXCEPT !.scope = "ended", !.lent = FALSE]
    BY <1>1 DEF Backstop, Discarded, Ended, CallRecord
  <2>2. QED
    BY ZenonT(60), <2>1 DEF CallRecord
<1>2. CASE ~(r.via = "later" /\ r.lower = "sync")
  BY <1>2 DEF Backstop
<1>3. QED
  BY <1>1, <1>2

LEMMA OverTyped ==
  ASSUME NEW b \in CallRecord, NEW st \in {"started", "returned", "cancelled", "failed"}
  PROVE  [b EXCEPT !.at = "done", !.custody = "host", !.sub = st] \in CallRecord
<1> DEFINE d == [b EXCEPT !.at = "done"]
           e == [d EXCEPT !.custody = "host"]
<1>1. d \in CallRecord
  BY DEF CallRecord
<1>2. e \in CallRecord
  <2> HIDE DEF d
  <2>1. QED
    BY <1>1 DEF CallRecord
<1>3. [e EXCEPT !.sub = st] \in CallRecord
  <2> HIDE DEF d, e
  <2>1. QED
    BY <1>2 DEF CallRecord
<1>4. [b EXCEPT !.at = "done", !.custody = "host", !.sub = st] = [e EXCEPT !.sub = st]
  BY DEF CallRecord
<1>5. QED
  BY <1>3, <1>4

LEMMA FailSound ==
  ASSUME HostInv, NEW c \in DOMAIN calls,
         Fail(c)
  PROVE  calls' \in Seq(SoundCall)
<1> DEFINE r == [Backstop(calls[c]) EXCEPT !.at = "done", !.custody = "host",
                          !.sub = IF Unwaited(c) THEN Backstop(calls[c]).sub ELSE "failed"]
<1>1. calls \in Seq(SoundCall) /\ calls[c] \in CallRecord /\ Sound(calls[c])
  BY CallIsSound DEF HostInv
<1>2. r \in CallRecord
  <2> DEFINE b == Backstop(calls[c])
             st == IF Unwaited(c) THEN b.sub ELSE "failed"
  <2>1. b \in CallRecord
    BY <1>1, BackstopTyped
  <2>2. st \in {"started", "returned", "cancelled", "failed"}
    BY <2>1 DEF CallRecord
  <2>3. [b EXCEPT !.at = "done", !.custody = "host", !.sub = st] \in CallRecord
    BY <2>1, <2>2, OverTyped
  <2>4. QED
    BY <2>3
<1>3. Sound(r)
  BY <1>1 DEF CallRecord, Sound, Fail, Unwaited, Backstop, Discarded, Ended
<1>4. calls' = With(calls, c, r)
  BY DEF With, Fail
<1>5. r \in SoundCall
  BY <1>2, <1>3 DEF SoundCall
<1> HIDE DEF r
<1>6. QED
  BY <1>1, <1>4, <1>5, CallChanged

LEMMA PromiseSettlesSound ==
  ASSUME HostInv, NEW c \in DOMAIN calls,
         NEW outcome \in {"value", "err", "throw"}, PromiseSettles(c, outcome)
  PROVE  calls' \in Seq(SoundCall)
<1> DEFINE r == [Settled(calls[c], outcome) EXCEPT
                   !.at = IF /\ ~Eligible(c)
                             /\ \/ Settled(calls[c], outcome).lower = "async"
                                \/ Settled(calls[c], outcome).sub # "started"
                          THEN "done"
                          ELSE IF Settled(calls[c], outcome).lower = "async"
                               THEN "finish" ELSE "settled"]
<1>1. calls \in Seq(SoundCall) /\ calls[c] \in CallRecord /\ Sound(calls[c])
  BY CallIsSound DEF HostInv
<1>2. r \in CallRecord
  <2> DEFINE d == Settled(calls[c], outcome)
  <2>1. d \in CallRecord
    BY <1>1, SettledTyped
  <2> HIDE DEF d
  <2>2. \A to \in {"done", "finish", "settled"} : [d EXCEPT !.at = to] \in CallRecord
    BY <2>1, FieldsTyped
  <2>3. QED
    BY <2>2 DEF d
<1>3. Sound(r)
  BY <1>1 DEF CallRecord, Sound, PromiseSettles, Settled, Ended
<1>4. calls' = With(calls, c, r)
  BY DEF With, PromiseSettles
<1>5. r \in SoundCall
  BY <1>2, <1>3 DEF SoundCall
<1> HIDE DEF r
<1>6. QED
  BY <1>1, <1>4, <1>5, CallChanged

LEMMA ResumeCallSound ==
  ASSUME HostInv, NEW c \in DOMAIN calls,
         ResumeCall(c)
  PROVE  calls' \in Seq(SoundCall)
<1> DEFINE r == IF calls[c].inst \in poisoned
                   THEN [Backstop(calls[c]) EXCEPT !.at = "done", !.sub = "failed"]
                   ELSE [calls[c] EXCEPT !.at = "finish"]
<1>1. calls \in Seq(SoundCall) /\ calls[c] \in CallRecord /\ Sound(calls[c])
  BY CallIsSound DEF HostInv
<1>2. r \in CallRecord
  <2>1. Backstop(calls[c]) \in CallRecord
    BY <1>1, BackstopTyped
  <2>2. [Backstop(calls[c]) EXCEPT !.at = "done", !.sub = "failed"] \in CallRecord
    BY <2>1, FieldsTyped
  <2>3. [calls[c] EXCEPT !.at = "finish"] \in CallRecord
    BY <1>1, FieldsTyped
  <2>4. QED
    BY <2>2, <2>3
<1>3. Sound(r)
  BY <1>1 DEF CallRecord, Sound, ResumeCall, Backstop, Discarded, Ended
<1>4. calls' = With(calls, c, r)
  BY DEF With, ResumeCall
<1>5. r \in SoundCall
  BY <1>2, <1>3 DEF SoundCall
<1> HIDE DEF r
<1>6. QED
  BY <1>1, <1>4, <1>5, CallChanged

LEMMA AbandonSound ==
  ASSUME HostInv, NEW c \in DOMAIN calls,
         Abandon(c)
  PROVE  calls' \in Seq(SoundCall)
<1> DEFINE r == [Backstop(calls[c]) EXCEPT !.sub = "failed",
                          !.at = IF Backstop(calls[c]).at = "settled" THEN "done"
                                 ELSE Backstop(calls[c]).at]
<1>1. calls \in Seq(SoundCall) /\ calls[c] \in CallRecord /\ Sound(calls[c])
  BY CallIsSound DEF HostInv
<1>2. r \in CallRecord
  <2>1. Backstop(calls[c]) \in CallRecord
    BY <1>1, BackstopTyped
  <2> DEFINE b == Backstop(calls[c])
             a == IF b.at = "settled" THEN "done" ELSE b.at
  <2>2. a \in Stages
    BY <2>1 DEF CallRecord
  <2> HIDE DEF a
  <2>3. [b EXCEPT !.sub = "failed", !.at = a] \in CallRecord
    BY <2>1, <2>2, FieldsTyped
  <2>4. QED
    BY <2>3 DEF a
<1>3. Sound(r)
  BY <1>1 DEF CallRecord, Sound, Abandon, Backstop, Discarded, Ended
<1>4. calls' = With(calls, c, r)
  BY DEF With, Abandon
<1>5. r \in SoundCall
  BY <1>2, <1>3 DEF SoundCall
<1> HIDE DEF r
<1>6. QED
  BY <1>1, <1>4, <1>5, CallChanged

LEMMA CancelSound ==
  ASSUME HostInv, NEW c \in DOMAIN calls,
         Cancel(c)
  PROVE  calls' \in Seq(SoundCall)
<1> DEFINE r == [Discarded(calls[c]) EXCEPT !.sub = "cancelled",
                          !.signal = IF calls[c].brand = "abortable" THEN "due"
                                     ELSE calls[c].signal]
<1>1. calls \in Seq(SoundCall) /\ calls[c] \in CallRecord /\ Sound(calls[c])
  BY CallIsSound DEF HostInv
<1>2. r \in CallRecord
  <2>1. Discarded(calls[c]) \in CallRecord
    BY <1>1 DEF CallRecord, Discarded, Ended
  <2>2. (IF calls[c].brand = "abortable" THEN "due" ELSE calls[c].signal)
          \in {"unused", "due", "aborted"}
    BY <1>1 DEF CallRecord
  <2> DEFINE g == IF calls[c].brand = "abortable" THEN "due" ELSE calls[c].signal
             d == Discarded(calls[c])
  <2>3. g \in {"unused", "due", "aborted"} /\ d \in CallRecord
    BY <2>1, <2>2
  <2> HIDE DEF g
  <2>4. [d EXCEPT !.sub = "cancelled", !.signal = g] \in CallRecord
    BY <2>3, FieldsTyped
  <2>5. QED
    BY <2>4 DEF g
<1>3. Sound(r)
  BY <1>1 DEF CallRecord, Sound, Cancel, Discarded, Ended
<1>4. calls' = With(calls, c, r)
  BY DEF With, Cancel
<1>5. r \in SoundCall
  BY <1>2, <1>3 DEF SoundCall
<1> HIDE DEF r
<1>6. QED
  BY <1>1, <1>4, <1>5, CallChanged

LEMMA AbortSound ==
  ASSUME HostInv, NEW c \in DOMAIN calls,
         Abort(c)
  PROVE  calls' \in Seq(SoundCall)
<1> DEFINE r == [calls[c] EXCEPT !.signal = "aborted"]
<1>1. calls \in Seq(SoundCall) /\ calls[c] \in CallRecord /\ Sound(calls[c])
  BY CallIsSound DEF HostInv
<1>2. r \in CallRecord
  BY <1>1 DEF CallRecord, Abort
<1>3. Sound(r)
  BY <1>1 DEF CallRecord, Sound, Abort
<1>4. calls' = With(calls, c, r)
  BY DEF With, Abort
<1>5. r \in SoundCall
  BY <1>2, <1>3 DEF SoundCall
<1> HIDE DEF r
<1>6. QED
  BY <1>1, <1>4, <1>5, CallChanged

LEMMA DeliverSound ==
  ASSUME HostInv, NEW c \in DOMAIN calls,
         Deliver(c)
  PROVE  calls' \in Seq(SoundCall)
<1> DEFINE r == [calls[c] EXCEPT !.lent = FALSE]
<1>1. calls \in Seq(SoundCall) /\ calls[c] \in CallRecord /\ Sound(calls[c])
  BY CallIsSound DEF HostInv
<1>2. r \in CallRecord
  BY <1>1 DEF CallRecord, Deliver
<1>3. Sound(r)
  BY <1>1 DEF CallRecord, Sound, Deliver
<1>4. calls' = With(calls, c, r)
  BY DEF With, Deliver
<1>5. r \in SoundCall
  BY <1>2, <1>3 DEF SoundCall
<1> HIDE DEF r
<1>6. QED
  BY <1>1, <1>4, <1>5, CallChanged

\* A new call is sound whether its arguments could be lifted or not.
LEMMA BeginSound ==
  ASSUME HostInv, NEW i \in Callers, NEW lower \in {"sync", "async"},
         NEW brand \in {"suspending", "deferCancel", "abortable"}, Begin(i, lower, brand)
  PROVE  calls' \in Seq(SoundCall)
<1> DEFINE made == NewCall(i, lower, brand)
           spoilt == [Settled(made, "throw") EXCEPT !.at = "done", !.sub = "failed"]
<1>1. made \in SoundCall
  BY DEF NewCall, SoundCall, CallRecord, Sound
<1>2. spoilt \in CallRecord
  BY DEF NewCall, CallRecord, Settled, Ended
<1>3. Sound(spoilt)
  BY DEF NewCall, Sound, Settled, Ended
<1>4. calls' = Append(calls, made) \/ calls' = Append(calls, spoilt)
  BY DEF Begin
<1>5. spoilt \in SoundCall
  BY <1>2, <1>3 DEF SoundCall
<1> HIDE DEF made, spoilt
<1>6. QED
  BY <1>1, <1>4, <1>5, AppendProperties DEF HostInv

\* The carrier.  A call takes it while no other one has it, and its own next
\* step is to give it back.
LEMMA CarrierStep ==
  ASSUME HostInv, [HostNext]_hostVars
  PROVE  CarrierHoldsOwn'
<1>1. carrier # 0 => OnTop(carrier, "offered") /\ ~GuestRuns /\ running # <<>>
  BY DEF HostInv, CarrierHoldsOwn, OnTop, GuestRuns
<1>2. ASSUME NEW i \in Callers, GuestTraps(i)
      PROVE  CarrierHoldsOwn'
  BY <1>1, <1>2 DEF GuestTraps, CarrierHoldsOwn
<1>3. ASSUME NEW i \in Callers, NEW lower \in {"sync", "async"},
             NEW brand \in {"suspending", "deferCancel", "abortable"},
             Begin(i, lower, brand)
      PROVE  CarrierHoldsOwn'
  BY <1>1, <1>3 DEF Begin, CarrierHoldsOwn
<1>4. ASSUME NEW c \in DOMAIN calls, NEW outcome \in {"value", "err", "throw"},
             BodyCompletes(c, outcome)
      PROVE  CarrierHoldsOwn'
  <2>1. carrier = 0 /\ carrier' = c
    BY <1>1, <1>4 DEF BodyCompletes, OnTop, TakeCarrier
  <2>2. calls'[c].at = "offered" /\ running' = running /\ running # <<>> /\ Innermost = c
    <3>1. calls'[c] = [Settled(calls[c], outcome) EXCEPT !.at = "offered"]
      BY <1>4 DEF BodyCompletes
    <3>2. calls[c] \in CallRecord
      BY CallIsSound DEF HostInv
    <3>3. QED
      BY <1>4, <3>1, <3>2 DEF BodyCompletes, OnTop, Settled, Ended, CallRecord
  <2>3. QED
    BY <2>1, <2>2 DEF CarrierHoldsOwn, OnTop, Innermost
<1>5. ASSUME NEW c \in DOMAIN calls,
             \/ Accept(c)
             \/ Refuse(c)
      PROVE  CarrierHoldsOwn'
  <2>1. carrier' = 0
    BY <1>1, <1>5 DEF Accept, Refuse, OnTop, Release, Freed
  <2>2. QED
    BY <2>1 DEF CarrierHoldsOwn
<1>6. ASSUME NEW c \in DOMAIN calls,
             \/ BodyPromises(c)
             \/ Prepared(c)
             \/ Acquire(c)
             \/ Commit(c)
             \/ Fail(c)
      PROVE  CarrierHoldsOwn'
  BY <1>1, <1>6 DEF BodyPromises, Prepared, Acquire, Commit, Fail, OnTop, CarrierHoldsOwn
<1>7. ASSUME NEW c \in DOMAIN calls,
             \/ \E outcome \in {"value", "err", "throw"} : PromiseSettles(c, outcome)
             \/ ResumeCall(c)
             \/ Abandon(c)
             \/ Cancel(c)
             \/ Abort(c)
             \/ Deliver(c)
      PROVE  CarrierHoldsOwn'
  BY <1>1, <1>7 DEF PromiseSettles, ResumeCall, Abandon, Cancel, Abort, Deliver, CarrierHoldsOwn
<1>8. CASE UNCHANGED hostVars
  BY <1>8 DEF HostInv, hostVars, CarrierHoldsOwn, OnTop, Innermost
<1>9. QED
  BY <1>2, <1>3, <1>4, <1>5, <1>6, <1>7, <1>8 DEF HostNext

\* Every step leaves every call sound.
LEMMA CallsStep ==
  ASSUME HostInv, [HostNext]_hostVars
  PROVE  calls' \in Seq(SoundCall)
<1>1. ASSUME NEW i \in Callers,
             \/ GuestTraps(i)
             \/ \E lower \in {"sync", "async"},
                   brand \in {"suspending", "deferCancel", "abortable"} : Begin(i, lower, brand)
      PROVE  calls' \in Seq(SoundCall)
  BY <1>1, BeginSound DEF GuestTraps, HostInv
<1>2. ASSUME NEW c \in DOMAIN calls,
             \/ \E outcome \in {"value", "err", "throw"} :
                   BodyCompletes(c, outcome) \/ PromiseSettles(c, outcome)
             \/ BodyPromises(c) \/ Accept(c) \/ Refuse(c) \/ Prepared(c) \/ Acquire(c)
             \/ Commit(c) \/ Fail(c) \/ ResumeCall(c) \/ Abandon(c)
             \/ Cancel(c) \/ Abort(c) \/ Deliver(c)
      PROVE  calls' \in Seq(SoundCall)
  BY <1>2, BodyCompletesSound, PromiseSettlesSound, BodyPromisesSound, AcceptSound,
     RefuseSound, PreparedSound, AcquireSound, CommitSound, FailSound, ResumeCallSound,
     AbandonSound, CancelSound, AbortSound, DeliverSound
<1>3. CASE UNCHANGED hostVars
  BY <1>3 DEF HostInv, hostVars
<1>4. QED
  BY <1>1, <1>2, <1>3 DEF HostNext

\* The invariant says what the runs check.
LEMMA InvSettles == HostInv => CallsSettled
<1> SUFFICES ASSUME HostInv PROVE CallsSettled
  OBVIOUS
<1>1. \A c \in DOMAIN calls : Sound(calls[c])
  BY CallIsSound DEF HostInv
<1>2. BorrowsEnd
  BY <1>1 DEF BorrowsEnd, Sound
<1>3. CustodyFollowsResult
  BY <1>1 DEF CustodyFollowsResult, Sound
<1>4. QED
  BY <1>2, <1>3 DEF HostInv, CallsSettled

\* Host calls settle soundly: a borrow is over before its lender is released,
\* the result's resources are the guest's exactly if the call returned, only
\* a cancelled call is aborted, and the carrier is one call's at a time
\* (boundary.ts:1918-1947, 2152-2196; host_settlement.ts:94).
THEOREM HostCallsSettle == HostSpec => []CallsSettled
<1>1. HostInit => HostInv
  BY HostInitInv
<1>2. HostInv /\ [HostNext]_hostVars => HostInv'
  BY CarrierStep, CallsStep DEF HostInv
<1>3. HostInv => CallsSettled
  BY InvSettles
<1>4. QED
  BY <1>1, <1>2, <1>3, PTL DEF HostSpec
-----------------------------------------------------------------------------
(* Streams with host ends. *)

Ops == {"none", "plain", "direct", "guest"}
Deliveries == {"none", "onCopy", "COMPLETED", "DROPPED", "CANCELLED", "idleDrop"}
Results == {"COMPLETED", "DROPPED", "CANCELLED"}
Turns == {"none", "reissue", "done", "failed"}
BufferType == [len : 0..MaxLen, progress : Nat]
SessionType == [pending : BOOLEAN, ended : BOOLEAN, cancelled : BOOLEAN, step : Turns]
WholeType == [mode : {"none", "active", "cancelled"}, left : 0..MaxLen, sent : Nat, got : Nat,
              paused : BOOLEAN]
ActType == [bound : BOOLEAN, closed : BOOLEAN, disarmed : BOOLEAN, armed : BOOLEAN]
StreamType ==
  [slot : Ends \cup {NoEnd}, dropped : BOOLEAN, op : [Ends -> Ops], buf : [Ends -> BufferType],
   sess : [Ends -> SessionType], all : WholeType, event : [Ends -> Deliveries],
   done : [Ends -> BOOLEAN], left : [Ends -> BOOLEAN], poisoned : BOOLEAN, act : ActType,
   hollow : BOOLEAN, moved : [Ends -> Nat], total : [Ends -> Nat]]

\* An activity is armed exactly while it may be.
ActSound(a) == a \in ActType /\ (a.armed <=> a.bound /\ ~a.closed /\ ~a.disarmed)
Typed(t) == t \in StreamType /\ ActSound(t.act) /\ at \in {"host", "guest"}

\* What the operators below leave of t in u: what no operation changes, all
\* that is end x's, and the activity, which only a drop closes.
Rest(t, u) == u.dropped = t.dropped /\ u.left = t.left /\ u.poisoned = t.poisoned
SameEnd(t, u, x) ==
  /\ u.op[x] = t.op[x] /\ u.buf[x] = t.buf[x] /\ u.sess[x] = t.sess[x] /\ u.event[x] = t.event[x]
  /\ u.done[x] = t.done[x] /\ u.moved[x] = t.moved[x] /\ u.total[x] = t.total[x]
ActTo(t, u, drops) == u.act = t.act \/ (drops /\ u.act = Closed(t.act))
Apart(t, u, e, drops) ==
  Typed(u) /\ Rest(t, u) /\ SameEnd(t, u, Peer(e)) /\ ActTo(t, u, drops)

LEMMA EndsAre == /\ \A e \in Ends : e # NoEnd /\ Peer(e) \in Ends /\ Peer(e) # e /\ Peer(Peer(e)) = e
                 /\ Ends = {"r", "w"}
                 /\ \A e, x \in Ends : x = e \/ x = Peer(e)
BY DEF Ends, NoEnd, Peer

LEMMA NotifiedSame == ASSUME NEW a, ActSound(a) PROVE Notified(a) = a
BY DEF ActSound, ActType, Notified

LEMMA ClosedSound ==
  ASSUME NEW a, ActSound(a)
  PROVE  ActSound(Closed(a)) /\ Closed(Closed(a)) = Closed(a) /\ (a.closed => Closed(a) = a)
BY DEF ActSound, ActType, Closed

LEMMA SettleSays ==
  ASSUME NEW t, Typed(t), NEW res
  PROVE  /\ Typed(Settle(t, res)) /\ ActTo(t, Settle(t, res), res = "DROPPED")
         /\ \E a \in ActType : Settle(t, res) = [t EXCEPT !.act = a]
<1>1. ActSound(t.act) /\ t \in StreamType /\ t.act \in ActType
  BY DEF Typed, ActSound
<1>2. CASE res = "DROPPED"
  <2>1. Settle(t, res) = [t EXCEPT !.act = Closed(t.act)]
    BY <1>2 DEF Settle
  <2>2. Closed(t.act) \in ActType /\ ActSound(Closed(t.act))
    BY <1>1, ClosedSound DEF ActSound
  <2>3. QED
    BY <1>1, <1>2, <2>1, <2>2 DEF Typed, StreamType, ActTo
<1>3. CASE res # "DROPPED"
  <2>1. Settle(t, res) = [t EXCEPT !.act = t.act]
    BY <1>1, <1>3, NotifiedSame DEF Settle
  <2>2. QED
    BY <1>1, <2>1 DEF Typed, StreamType, ActTo
<1>4. QED
  BY <1>2, <1>3

\* The host's operation of end e is over.
PlainTo(t, u, e, res) ==
  /\ Apart(t, u, e, res = "DROPPED") /\ u.slot = t.slot
  /\ u.op[e] = "none" /\ u.sess[e] = t.sess[e] /\ u.event[e] = t.event[e] /\ u.done[e] = t.done[e]
  /\ u.moved[e] = t.moved[e]
  /\ IF e = "w" /\ t.all.mode # "none"
       THEN u.total[e] = t.total[e]
            /\ u.all = [t.all EXCEPT !.got = t.buf[e].progress, !.paused = TRUE]
       ELSE u.total[e] = t.total[e] + t.buf[e].progress /\ u.all = t.all

LEMMA RecordedSays ==
  ASSUME NEW t, Typed(t), NEW e \in Ends, NEW res
  PROVE  LET u == Recorded(t, e, res)
         IN  /\ Typed(u) /\ Rest(t, u) /\ SameEnd(t, u, Peer(e)) /\ u.act = t.act
             /\ u.slot = t.slot /\ u.all = t.all /\ u.op[e] = "none" /\ u.sess[e] = t.sess[e]
             /\ u.event[e] = t.event[e] /\ u.done[e] = t.done[e] /\ u.moved[e] = t.moved[e]
             /\ u.total[e] = t.total[e]
<1> DEFINE u == Recorded(t, e, res)
<1>1. PICK h \in BOOLEAN : u = [t EXCEPT !.op[e] = "none", !.buf[e] = NoBuffer, !.hollow = h]
  BY DEF Recorded, Typed, StreamType
<1>2. NoBuffer \in BufferType
  BY HostStreamsAssumption DEF NoBuffer, BufferType
<1>3. u \in StreamType /\ u.act = t.act
  <2> DEFINE o == [t.op EXCEPT ![e] = "none"]
             b == [t.buf EXCEPT ![e] = NoBuffer]
  <2>1. o \in [Ends -> Ops] /\ b \in [Ends -> BufferType]
    BY <1>2 DEF Typed, StreamType, Ops
  <2>2. u = [t EXCEPT !.op = o, !.buf = b, !.hollow = h]
    BY <1>1 DEF Typed, StreamType
  <2> HIDE DEF o, b, u
  <2>3. QED
    BY <2>1, <2>2 DEF Typed, StreamType
<1>4. QED
  BY <1>1, <1>3, EndsAre DEF Typed, StreamType, Rest, SameEnd

LEMMA PlainSays ==
  ASSUME NEW t, Typed(t), NEW e \in Ends, NEW res
  PROVE  PlainTo(t, PlainDone(t, e, res), e, res)
<1> DEFINE v == Recorded(t, e, res)
           u == Settle(v, res)
<1>1. /\ Typed(v) /\ Rest(t, v) /\ SameEnd(t, v, Peer(e)) /\ v.act = t.act
      /\ v.slot = t.slot /\ v.all = t.all /\ v.op[e] = "none" /\ v.sess[e] = t.sess[e]
      /\ v.event[e] = t.event[e] /\ v.done[e] = t.done[e] /\ v.moved[e] = t.moved[e]
      /\ v.total[e] = t.total[e]
  BY RecordedSays
<1>2. PlainDone(t, e, res) = IF e = "w" /\ u.all.mode # "none"
                             THEN [u EXCEPT !.all.got = t.buf[e].progress, !.all.paused = TRUE]
                             ELSE [u EXCEPT !.total[e] = @ + t.buf[e].progress]
  <2>1. u.all = t.all
    BY <1>1, SettleSays DEF Typed, StreamType
  <2>2. QED
    BY <2>1 DEF PlainDone
<1> HIDE DEF v
<1>3. Typed(u) /\ ActTo(t, u, res = "DROPPED") /\ Rest(t, u) /\ SameEnd(t, u, Peer(e))
      /\ u.slot = t.slot /\ u.all = t.all /\ u.op[e] = "none" /\ u.sess[e] = t.sess[e]
      /\ u.event[e] = t.event[e] /\ u.done[e] = t.done[e] /\ u.moved[e] = t.moved[e]
      /\ u.total[e] = t.total[e]
  <2>1. /\ Typed(u) /\ ActTo(v, u, res = "DROPPED")
        /\ \E a \in ActType : u = [v EXCEPT !.act = a]
    BY <1>1, SettleSays
  <2>2. QED
    BY ZenonT(60), <1>1, <2>1 DEF ActTo, Rest, SameEnd, Typed, StreamType
<1> HIDE DEF u
<1>4. t.buf[e].progress \in Nat
  BY DEF Typed, StreamType, BufferType
<1>5. CASE e = "w" /\ t.all.mode # "none"
  <2>1. PlainDone(t, e, res) = [u EXCEPT !.all = [t.all EXCEPT !.got = t.buf[e].progress, !.paused = TRUE]]
    BY ZenonT(60), <1>2, <1>3, <1>5 DEF Typed, StreamType
  <2>2. [t.all EXCEPT !.got = t.buf[e].progress, !.paused = TRUE] \in WholeType
    BY <1>4 DEF Typed, StreamType, WholeType
  <2>3. PlainDone(t, e, res) \in StreamType
    BY <1>3, <2>1, <2>2 DEF Typed, StreamType
  <2>4. QED
    BY <1>3, <1>5, <2>1, <2>3 DEF PlainTo, Apart, Typed, StreamType, Rest, SameEnd, ActTo
<1>6. CASE ~(e = "w" /\ t.all.mode # "none")
  <2>1. PlainDone(t, e, res) = [u EXCEPT !.total[e] = @ + t.buf[e].progress]
    BY <1>2, <1>3, <1>6
  <2>2. PlainDone(t, e, res) \in StreamType
    <3> DEFINE n == [u.total EXCEPT ![e] = @ + t.buf[e].progress]
    <3>1. n \in [Ends -> Nat]
      BY <1>3, <1>4 DEF Typed, StreamType
    <3>2. PlainDone(t, e, res) = [u EXCEPT !.total = n]
      BY <1>3, <2>1 DEF Typed, StreamType
    <3> HIDE DEF n
    <3>3. QED
      BY <1>3, <3>1, <3>2 DEF Typed, StreamType
  <2>3. QED
    BY SMTT(40), <1>3, <1>6, <2>1, <2>2, EndsAre DEF PlainTo, Apart, Typed, StreamType, Rest, SameEnd, ActTo
<1>7. QED
  BY <1>5, <1>6

\* A direct session has its step, and what crossed is kept.
SessionTo(t, u, e, drops) ==
  /\ Apart(t, u, e, drops) /\ u.slot = t.slot /\ u.all = t.all
  /\ u.op[e] = t.op[e] /\ u.buf[e] = t.buf[e] /\ u.event[e] = t.event[e] /\ u.done[e] = t.done[e]
  /\ u.moved[e] = t.moved[e] /\ u.total[e] = t.total[e]
  /\ ~u.sess[e].pending /\ u.sess[e].step # "none"

\* A record of sessions, or of one field of t.
LEMMA SessionsTyped ==
  ASSUME NEW t, Typed(t), NEW n \in [Ends -> SessionType]
  PROVE  LET u == [t EXCEPT !.sess = n]
         IN  /\ Typed(u) /\ u.sess = n /\ Rest(t, u) /\ u.act = t.act /\ u.slot = t.slot
             /\ u.all = t.all /\ u.op = t.op /\ u.buf = t.buf /\ u.event = t.event
             /\ u.done = t.done /\ u.moved = t.moved /\ u.total = t.total
BY DEF Typed, StreamType, Rest

LEMMA SteppedSays ==
  ASSUME NEW t, Typed(t), NEW e \in Ends, NEW step \in Turns, step # "none"
  PROVE  SessionTo(t, Stepped(t, e, step), e, FALSE)
<1> DEFINE c == [t.sess[e] EXCEPT !.pending = FALSE, !.ended = @ \/ step # "reissue",
                                  !.step = IF @ = "none" THEN step ELSE @]
           n == [t.sess EXCEPT ![e] = c]
<1>1. t.sess \in [Ends -> SessionType] /\ t.sess[e] \in SessionType
  BY DEF Typed, StreamType
<1>2. c \in SessionType /\ ~c.pending /\ c.step # "none"
  BY <1>1 DEF SessionType, Turns
<1>3. Stepped(t, e, step) = [t EXCEPT !.sess = n]
  BY ZenonT(60), <1>1 DEF Stepped, Typed, StreamType, SessionType
<1> HIDE DEF c
<1>4. n \in [Ends -> SessionType] /\ n[e] = c /\ n[Peer(e)] = t.sess[Peer(e)]
  BY <1>1, <1>2, EndsAre
<1> HIDE DEF n
<1>5. QED
  BY <1>2, <1>3, <1>4, SessionsTyped DEF SessionTo, Apart, SameEnd, ActTo

LEMMA SessionSays ==
  ASSUME NEW t, Typed(t), NEW e \in Ends, NEW res
  PROVE  SessionTo(t, SessionDone(t, e, res), e, res = "DROPPED")
<1> DEFINE v == Settle(t, res)
           step == IF res = "COMPLETED" /\ ~t.sess[e].ended THEN "reissue" ELSE "done"
<1>1. Typed(v) /\ ActTo(t, v, res = "DROPPED") /\ \E a \in ActType : v = [t EXCEPT !.act = a]
  BY SettleSays
<1>2. /\ Rest(t, v) /\ v.slot = t.slot /\ v.all = t.all /\ v.op = t.op /\ v.buf = t.buf
      /\ v.sess = t.sess /\ v.event = t.event /\ v.done = t.done /\ v.moved = t.moved
      /\ v.total = t.total
  BY <1>1 DEF Typed, StreamType, Rest
<1>3. SessionDone(t, e, res) = Stepped(v, e, step) /\ step \in Turns /\ step # "none"
  BY DEF SessionDone, Turns
<1> HIDE DEF v, step
<1>4. SessionTo(v, Stepped(v, e, step), e, FALSE)
  BY <1>1, <1>3, SteppedSays
<1>5. QED
  BY <1>1, <1>2, <1>3, <1>4 DEF SessionTo, Apart, SameEnd, ActTo, Rest

\* A guest's operation of end e, at its arrival.
GuestTo(t, u, e, res) ==
  /\ Apart(t, u, e, FALSE) /\ u.slot = t.slot /\ u.all = t.all
  /\ u.op[e] = "none" /\ u.sess[e] = t.sess[e] /\ u.event[e] = "none"
  /\ u.done[e] = (res = "DROPPED") /\ u.moved[e] = t.moved[e] /\ u.total[e] = t.total[e]

LEMMA GuestArrivalSays ==
  ASSUME NEW t, Typed(t), NEW e \in Ends, NEW res, t.op[e] \notin {"plain", "direct"}
  PROVE  GuestTo(t, ArrivalDone(t, e, res), e, res)
<1> DEFINE v == Recorded(t, e, res)
           n == [v.event EXCEPT ![e] = "none"]
           f == [v.done EXCEPT ![e] = res = "DROPPED"]
           u == [v EXCEPT !.event = n, !.done = f]
<1>1. /\ Typed(v) /\ Rest(t, v) /\ SameEnd(t, v, Peer(e)) /\ v.act = t.act
      /\ v.slot = t.slot /\ v.all = t.all /\ v.op[e] = "none" /\ v.sess[e] = t.sess[e]
      /\ v.event[e] = t.event[e] /\ v.done[e] = t.done[e] /\ v.moved[e] = t.moved[e]
      /\ v.total[e] = t.total[e]
  BY RecordedSays
<1>2. ArrivalDone(t, e, res) = u
  BY <1>1 DEF ArrivalDone, Typed, StreamType
<1> HIDE DEF v
<1>3. /\ n \in [Ends -> Deliveries] /\ f \in [Ends -> BOOLEAN] /\ n[e] = "none" /\ f[e] = (res = "DROPPED")
      /\ n[Peer(e)] = v.event[Peer(e)] /\ f[Peer(e)] = v.done[Peer(e)]
  BY <1>1, EndsAre DEF Typed, StreamType, Deliveries
<1> HIDE DEF n, f
<1>4. /\ Typed(u) /\ u.event = n /\ u.done = f /\ Rest(v, u) /\ u.act = v.act /\ u.slot = v.slot
      /\ u.all = v.all /\ u.op = v.op /\ u.buf = v.buf /\ u.sess = v.sess
      /\ u.moved = v.moved /\ u.total = v.total
  BY <1>1, <1>3 DEF Typed, StreamType, Rest
<1> HIDE DEF u
<1>5. GuestTo(t, u, e, res)
  BY <1>1, <1>3, <1>4 DEF GuestTo, Apart, SameEnd, ActTo, Rest
<1>6. QED
  BY <1>2, <1>5

\* The host's operation, the session or the guest's copy that arrived is over.
ArrivalTo(t, u, e, res) ==
  CASE t.op[e] = "plain"  -> PlainTo(t, u, e, res)
    [] t.op[e] = "direct" -> SessionTo(t, u, e, res = "DROPPED")
    [] OTHER -> GuestTo(t, u, e, res)

LEMMA ArrivalSays ==
  ASSUME NEW t, Typed(t), NEW e \in Ends, NEW res
  PROVE  ArrivalTo(t, ArrivalDone(t, e, res), e, res)
<1>1. CASE t.op[e] = "plain"
  BY <1>1, PlainSays DEF ArrivalTo, ArrivalDone
<1>2. CASE t.op[e] = "direct"
  BY <1>2, SessionSays DEF ArrivalTo, ArrivalDone
<1>3. CASE t.op[e] \notin {"plain", "direct"}
  BY <1>3, GuestArrivalSays DEF ArrivalTo
<1>4. QED
  BY <1>1, <1>2, <1>3

LEMMA SlotTyped ==
  ASSUME NEW t, Typed(t), NEW x \in Ends \cup {NoEnd}
  PROVE  LET u == [t EXCEPT !.slot = x]
         IN  /\ Typed(u) /\ u.slot = x /\ Rest(t, u) /\ u.act = t.act
             /\ u.all = t.all /\ u.op = t.op /\ u.buf = t.buf /\ u.sess = t.sess
             /\ u.event = t.event /\ u.done = t.done /\ u.moved = t.moved /\ u.total = t.total
BY DEF Typed, StreamType, Rest

\* The operation in the slot is over: a guest's gets an event.
WaitingTo(t, u, e, res) ==
  /\ Apart(t, u, e, FALSE) /\ u.all = t.all
  /\ u.op[e] = t.op[e] /\ u.buf[e] = t.buf[e] /\ u.sess[e] = t.sess[e] /\ u.event[e] = res
  /\ u.done[e] = t.done[e] /\ u.moved[e] = t.moved[e] /\ u.total[e] = t.total[e]

PendingTo(t, u, e, res) ==
  LET v == [t EXCEPT !.slot = NoEnd]
  IN  /\ u.slot = NoEnd
      /\ CASE t.op[e] = "plain"  -> PlainTo(v, u, e, res)
           [] t.op[e] = "direct" -> SessionTo(v, u, e, res = "DROPPED")
           [] OTHER -> WaitingTo(t, u, e, res)

LEMMA PendingSays ==
  ASSUME NEW t, Typed(t), t.slot \in Ends, NEW res \in Results
  PROVE  PendingTo(t, PendingDone(t, res), t.slot, res)
<1> DEFINE e == t.slot
           v == [t EXCEPT !.slot = NoEnd]
<1>1. /\ Typed(v) /\ v.slot = NoEnd /\ Rest(t, v) /\ v.act = t.act
      /\ v.all = t.all /\ v.op = t.op /\ v.buf = t.buf /\ v.sess = t.sess
      /\ v.event = t.event /\ v.done = t.done /\ v.moved = t.moved /\ v.total = t.total
  BY SlotTyped
<1>2. PendingDone(t, res) = CASE t.op[e] = "plain"  -> PlainDone(v, e, res)
                              [] t.op[e] = "direct" -> SessionDone(v, e, res)
                              [] OTHER -> [v EXCEPT !.event[e] = res]
  BY DEF PendingDone
<1>3. CASE t.op[e] = "plain"
  <2>1. PendingDone(t, res) = PlainDone(v, e, res)
    BY <1>2, <1>3
  <2> HIDE DEF v
  <2>2. PlainTo(v, PlainDone(v, e, res), e, res)
    BY <1>1, PlainSays
  <2>3. QED
    BY <1>1, <1>3, <2>1, <2>2 DEF PendingTo, PlainTo, v
<1>4. CASE t.op[e] = "direct"
  <2>1. PendingDone(t, res) = SessionDone(v, e, res)
    BY <1>2, <1>4
  <2> HIDE DEF v
  <2>2. SessionTo(v, SessionDone(v, e, res), e, res = "DROPPED")
    BY <1>1, SessionSays
  <2>3. QED
    BY <1>1, <1>4, <2>1, <2>2 DEF PendingTo, SessionTo, v
<1>5. CASE t.op[e] \notin {"plain", "direct"}
  <2> DEFINE n == [v.event EXCEPT ![e] = res]
             u == [v EXCEPT !.event = n]
  <2>1. PendingDone(t, res) = u
    BY <1>2, <1>5
  <2> HIDE DEF v
  <2>2. n \in [Ends -> Deliveries] /\ n[e] = res /\ n[Peer(e)] = v.event[Peer(e)]
    BY <1>1, EndsAre DEF Typed, StreamType, Deliveries, Results
  <2> HIDE DEF n
  <2>3. /\ Typed(u) /\ u.event = n /\ Rest(v, u) /\ u.act = v.act /\ u.slot = NoEnd
        /\ u.all = v.all /\ u.op = v.op /\ u.buf = v.buf /\ u.sess = v.sess
        /\ u.done = v.done /\ u.moved = v.moved /\ u.total = v.total
    BY <1>1, <2>2 DEF Typed, StreamType, Rest
  <2> HIDE DEF u
  <2>4. WaitingTo(t, u, e, res)
    BY <1>1, <2>2, <2>3 DEF WaitingTo, Apart, SameEnd, ActTo, Rest
  <2>5. QED
    BY <1>5, <2>1, <2>3, <2>4 DEF PendingTo
<1>6. QED
  BY <1>3, <1>4, <1>5

-----------------------------------------------------------------------------
(* What holds of each end, of an end whose operation has arrived and is not *)
(* settled or parked yet, and of writeAll.                                  *)

FlightOf(t, x) ==
  (IF t.op[x] \in {"plain", "direct"} THEN t.buf[x].progress ELSE 0)
    + (IF x = "w" THEN t.all.sent + t.all.got ELSE 0)

Both(t, x) ==
  /\ t.op[x] # "none" => (t.op[x] = "guest" <=> Side(x) = "guest")
  /\ t.left[x] => t.dropped /\ t.op[x] # "guest" /\ t.done[x]
  /\ t.op[x] \in {"plain", "guest"} => t.buf[x].progress <= t.buf[x].len
  /\ t.moved[x] = t.total[x] + FlightOf(t, x)

On(t, x) ==
  /\ t.op[x] = "plain" => t.slot = x
  /\ t.sess[x].pending <=> t.op[x] = "direct" /\ t.slot = x
  /\ t.op[x] = "direct" /\ t.sess[x].step # "none" => t.slot # x
  /\ t.slot = x => t.op[x] # "none" /\ ~t.dropped /\ t.event[x] \in {"none", "onCopy"}
  /\ t.op[x] # "guest" => t.event[x] \in {"none", "idleDrop"}
  /\ t.event[x] = "idleDrop" => t.dropped
  /\ alive /\ t.event[x] = "onCopy" => t.slot = x
  /\ alive /\ t.op[x] = "guest" /\ t.event[x] = "none" => t.slot = x

Off(t, x) ==
  /\ t.op[x] # "none" /\ t.slot # x /\ ~t.sess[x].pending
  /\ t.event[x] \in {"none", "idleDrop"} /\ (t.event[x] = "idleDrop" => t.dropped)
  /\ t.op[x] = "direct" => t.sess[x].step = "none"

Whole(t) ==
  /\ t.all.mode = "none" => t.all = NotWhole
  /\ t.all.mode # "none" =>
       /\ kind = "created" /\ t.op["w"] \in {"none", "plain"} /\ t.all.got <= t.all.left
       /\ t.all.paused <=> t.op["w"] = "none"
       /\ ~t.all.paused => t.all.got = 0 /\ t.buf["w"].len = t.all.left

\* X holds the end whose operation has arrived.
Held(t, X) ==
  /\ Typed(t) /\ Whole(t)
  /\ \A x \in Ends : Both(t, x) /\ (x \in X => Off(t, x)) /\ (x \notin X => On(t, x))

\* What an operation leaves of the writer, and to those who wait for the stream.
KeptW(t, u) ==
  /\ u.all.mode = t.all.mode /\ u.all.sent = t.all.sent /\ u.all.left = t.all.left
  /\ u.op["w"] \in {"none", t.op["w"]}
  /\ t.op["w"] = "none" \/ t.all.mode # "none" => u.total["w"] = t.total["w"]
Kept(t, u) == Rest(t, u) /\ u.act = t.act /\ KeptW(t, u)

LEMMA KeptOn ==
  ASSUME NEW t, NEW u, NEW v
  PROVE  /\ KeptW(t, u) /\ KeptW(u, v) => KeptW(t, v)
         /\ Kept(t, u) /\ Kept(u, v) => Kept(t, v)
<1>1. KeptW(t, u) /\ KeptW(u, v) => KeptW(t, v)
  BY DEF KeptW
<1>2. QED
  BY <1>1 DEF Kept, Rest

LEMMA OtherEnd ==
  ASSUME NEW t, NEW u, NEW e \in Ends, NEW b, Apart(t, u, e, b),
         t.slot = Peer(e) <=> u.slot = Peer(e), e = "r" => u.all = t.all
  PROVE  /\ Both(t, Peer(e)) => Both(u, Peer(e))
         /\ On(t, Peer(e)) => On(u, Peer(e))
         /\ Off(t, Peer(e)) => Off(u, Peer(e))
<1> DEFINE x == Peer(e)
<1>1. /\ u.op[x] = t.op[x] /\ u.buf[x] = t.buf[x] /\ u.sess[x] = t.sess[x] /\ u.event[x] = t.event[x]
      /\ u.done[x] = t.done[x] /\ u.moved[x] = t.moved[x] /\ u.total[x] = t.total[x]
      /\ u.dropped = t.dropped /\ u.left = t.left
  BY DEF Apart, SameEnd, Rest
<1>2. x = "w" => u.all = t.all
  BY EndsAre DEF Ends, Peer
<1> HIDE DEF x
<1>3. FlightOf(u, x) = FlightOf(t, x)
  BY <1>1, <1>2 DEF FlightOf
<1>4. /\ Both(t, x) => Both(u, x)
  BY <1>1, <1>3 DEF Both
<1>5. On(t, x) => On(u, x)
  BY <1>1 DEF On, x
<1>6. Off(t, x) => Off(u, x)
  BY <1>1 DEF Off, x
<1>7. QED
  BY <1>4, <1>5, <1>6 DEF x

\* The host's own operation is over, for the promise and for writeAll.
LEMMA PlainHeld ==
  ASSUME NEW t, Typed(t), Whole(t), NEW e \in Ends, t.op[e] = "plain", Both(t, e), NEW u, NEW res,
         PlainTo(t, u, e, res)
  PROVE  Whole(u) /\ Both(u, e) /\ Typed(u) /\ (e = "r" => u.all = t.all)
         /\ u.all.mode = t.all.mode /\ u.all.sent = t.all.sent /\ u.all.left = t.all.left
         /\ (t.all.mode # "none" => u.total["w"] = t.total["w"])
<1>1. /\ t.buf[e] \in BufferType /\ t.all \in WholeType /\ t.total[e] \in Nat
      /\ t.buf[e].progress \in Nat /\ t.all.sent \in Nat /\ t.all.got \in Nat
  BY DEF Typed, StreamType, BufferType, WholeType
<1>2. /\ u.op[e] = "none" /\ u.dropped = t.dropped /\ u.left = t.left /\ u.moved[e] = t.moved[e]
      /\ u.done[e] = t.done[e] /\ Typed(u)
      /\ u.op[Peer(e)] = t.op[Peer(e)] /\ u.buf[Peer(e)] = t.buf[Peer(e)] /\ u.total[Peer(e)] = t.total[Peer(e)]
  BY DEF PlainTo, Apart, Rest, SameEnd
<1>3. t.moved[e] = t.total[e] + t.buf[e].progress + (IF e = "w" THEN t.all.sent + t.all.got ELSE 0)
  BY <1>1 DEF Both, FlightOf
<1>4. CASE e = "w" /\ t.all.mode # "none"
  <2>1. u.total[e] = t.total[e] /\ u.all = [t.all EXCEPT !.got = t.buf[e].progress, !.paused = TRUE]
    BY <1>4 DEF PlainTo
  <2>2. /\ u.all.mode = t.all.mode /\ u.all.sent = t.all.sent /\ u.all.left = t.all.left
        /\ u.all.got = t.buf[e].progress /\ u.all.paused
    BY <1>1, <2>1 DEF WholeType
  <2>3. t.all.got = 0 /\ t.buf[e].len = t.all.left /\ kind = "created"
    BY <1>4 DEF Whole
  <2>4. Whole(u)
    BY <1>2, <1>4, <2>2, <2>3 DEF Whole, Both
  <2>5. Both(u, e)
    BY <1>1, <1>2, <1>3, <1>4, <2>1, <2>2, <2>3 DEF Both, FlightOf
  <2>6. QED
    BY <1>2, <1>4, <2>1, <2>2, <2>4, <2>5
<1>5. CASE ~(e = "w" /\ t.all.mode # "none")
  <2>1. u.total[e] = t.total[e] + t.buf[e].progress /\ u.all = t.all
    BY <1>5 DEF PlainTo
  <2>2. Both(u, e)
    BY <1>1, <1>2, <1>3, <2>1 DEF Both, FlightOf
  <2>3. e = "r" => u.op["w"] = t.op["w"] /\ u.buf["w"] = t.buf["w"] /\ u.total["w"] = t.total["w"]
    BY <1>2 DEF Peer
  <2>4. Whole(u)
    BY <1>5, <2>1, <2>3, EndsAre DEF Whole
  <2>5. QED
    BY <1>2, <1>5, <2>1, <2>2, <2>3, <2>4, EndsAre
<1>6. QED
  BY <1>4, <1>5

\* A session is over or issues again; what it has copied stays its own.
LEMMA SessionHeld ==
  ASSUME NEW t, Typed(t), Whole(t), NEW e \in Ends, t.op[e] = "direct", Both(t, e), NEW u, NEW b,
         SessionTo(t, u, e, b)
  PROVE  Whole(u) /\ Both(u, e) /\ Typed(u) /\ u.all = t.all /\ u.total["w"] = t.total["w"]
<1>1. /\ u.op[e] = "direct" /\ u.buf[e] = t.buf[e] /\ u.moved[e] = t.moved[e]
      /\ u.total[e] = t.total[e] /\ u.done[e] = t.done[e] /\ u.all = t.all
      /\ u.dropped = t.dropped /\ u.left = t.left /\ Typed(u)
      /\ u.op[Peer(e)] = t.op[Peer(e)] /\ u.buf[Peer(e)] = t.buf[Peer(e)]
      /\ u.total[Peer(e)] = t.total[Peer(e)]
  BY DEF SessionTo, Apart, Rest, SameEnd
<1>2. Both(u, e)
  BY <1>1 DEF Both, FlightOf
<1>3. u.op["w"] = t.op["w"] /\ u.buf["w"] = t.buf["w"] /\ u.total["w"] = t.total["w"]
  BY <1>1, EndsAre DEF Peer
<1>4. Whole(u)
  BY <1>1, <1>3 DEF Whole
<1>5. QED
  BY <1>1, <1>2, <1>3, <1>4

LEMMA GuestHeld ==
  ASSUME NEW t, Typed(t), Whole(t), NEW e \in Ends, t.op[e] \notin {"none", "plain", "direct"}, Both(t, e),
         NEW u, NEW res, GuestTo(t, u, e, res)
  PROVE  Whole(u) /\ Both(u, e) /\ Typed(u) /\ u.all = t.all /\ u.total["w"] = t.total["w"]
<1>1. /\ u.op[e] = "none" /\ u.moved[e] = t.moved[e]
      /\ u.total[e] = t.total[e] /\ u.all = t.all
      /\ u.dropped = t.dropped /\ u.left = t.left /\ Typed(u)
      /\ u.op[Peer(e)] = t.op[Peer(e)] /\ u.buf[Peer(e)] = t.buf[Peer(e)]
      /\ u.total[Peer(e)] = t.total[Peer(e)]
  BY DEF GuestTo, Apart, Rest, SameEnd
<1>2. t.op[e] = "guest"
  BY DEF Typed, StreamType, Ops
<1>3. Both(u, e)
  BY <1>1, <1>2 DEF Both, FlightOf
<1>4. u.total["w"] = t.total["w"]
  BY <1>1, EndsAre DEF Peer
<1>5. Whole(u)
  <2>1. CASE e = "w"
    <3>1. t.all.mode = "none"
      BY <1>2, <2>1 DEF Whole
    <3>2. QED
      BY <1>1, <3>1 DEF Whole
  <2>2. CASE e = "r"
    BY <1>1, <2>2 DEF Whole, Peer
  <2>3. QED
    BY <2>1, <2>2, EndsAre
<1>6. QED
  BY <1>1, <1>3, <1>4, <1>5

LEMMA SettledFrom ==
  ASSUME NEW u, NEW e \in Ends, Typed(u), Whole(u), Both(u, e), Both(u, Peer(e)), On(u, e), On(u, Peer(e))
  PROVE  Held(u, {})
<1>1. ASSUME NEW x \in Ends PROVE Both(u, x) /\ On(u, x)
  BY EndsAre
<1>2. QED
  BY <1>1 DEF Held

LEMMA ArrivingFrom ==
  ASSUME NEW u, NEW e \in Ends, Typed(u), Whole(u), Both(u, e), Both(u, Peer(e)), Off(u, e), On(u, Peer(e))
  PROVE  Held(u, {e})
<1>1. ASSUME NEW x \in Ends PROVE Both(u, x) /\ (x = e => Off(u, x)) /\ (x # e => On(u, x))
  BY EndsAre
<1>2. QED
  BY <1>1 DEF Held

\* The arrived operation is over.
LEMMA ArrivalHeld ==
  ASSUME NEW t, NEW e \in Ends, Held(t, {e}), NEW res, res = "DROPPED" => t.act.closed
  PROVE  LET u == ArrivalDone(t, e, res) IN Held(u, {}) /\ Kept(t, u) /\ u.slot = t.slot
<1> DEFINE u == ArrivalDone(t, e, res)
<1>1. /\ Typed(t) /\ Whole(t) /\ Both(t, e) /\ Both(t, Peer(e)) /\ Off(t, e) /\ On(t, Peer(e))
      /\ ActSound(t.act)
  BY EndsAre DEF Held, Typed
<1>2. ArrivalTo(t, u, e, res)
  BY <1>1, ArrivalSays
<1>3. Peer(e) \in Ends /\ Peer(e) # e /\ t.op[e] # "none"
  BY <1>1, EndsAre DEF Off
<1> HIDE DEF u
<1>4. CASE t.op[e] = "plain"
  <2>1. PlainTo(t, u, e, res)
    BY <1>2, <1>4 DEF ArrivalTo
  <2>2. /\ Whole(u) /\ Both(u, e) /\ Typed(u) /\ (e = "r" => u.all = t.all)
        /\ u.all.mode = t.all.mode /\ u.all.sent = t.all.sent /\ u.all.left = t.all.left
        /\ (t.all.mode # "none" => u.total["w"] = t.total["w"])
    BY <1>1, <1>4, <2>1, PlainHeld
  <2>3. Apart(t, u, e, res = "DROPPED") /\ u.slot = t.slot
    BY <2>1 DEF PlainTo
  <2>4. Both(u, Peer(e)) /\ On(u, Peer(e))
    BY <1>1, <2>2, <2>3, OtherEnd
  <2>5. On(u, e)
    BY <1>1, <2>1, <2>3 DEF PlainTo, Apart, Rest, On, Off
  <2>6. u.act = t.act
    BY <1>1, <2>3, ClosedSound DEF Apart, ActTo
  <2>7. Kept(t, u)
    <3>1. CASE e = "w"
      BY <1>4, <2>1, <2>2, <2>3, <2>6, <3>1 DEF Kept, KeptW, Apart, PlainTo
    <3>2. CASE e = "r"
      BY <1>4, <2>2, <2>3, <2>6, <3>2 DEF Kept, KeptW, Apart, SameEnd, Peer
    <3>3. QED
      BY <3>1, <3>2, EndsAre
  <2>8. Held(u, {})
    BY <2>2, <2>4, <2>5, SettledFrom
  <2>9. QED
    BY <2>3, <2>7, <2>8 DEF u
<1>5. CASE t.op[e] = "direct"
  <2>1. SessionTo(t, u, e, res = "DROPPED")
    BY <1>2, <1>5 DEF ArrivalTo
  <2>2. Whole(u) /\ Both(u, e) /\ Typed(u) /\ u.all = t.all /\ u.total["w"] = t.total["w"]
    BY <1>1, <1>5, <2>1, SessionHeld
  <2>3. Apart(t, u, e, res = "DROPPED") /\ u.slot = t.slot
    BY <2>1 DEF SessionTo
  <2>4. Both(u, Peer(e)) /\ On(u, Peer(e))
    BY <1>1, <2>2, <2>3, OtherEnd
  <2>5. On(u, e)
    BY <1>1, <1>5, <2>1, <2>3 DEF SessionTo, Apart, Rest, On, Off
  <2>6. u.act = t.act
    BY <1>1, <2>3, ClosedSound DEF Apart, ActTo
  <2>7. u.op["w"] = t.op["w"]
    BY <2>1, <2>3, EndsAre DEF SessionTo, Apart, SameEnd, Peer
  <2>8. Kept(t, u)
    BY <2>2, <2>3, <2>6, <2>7 DEF Kept, KeptW, Apart
  <2>9. Held(u, {})
    BY <2>2, <2>4, <2>5, SettledFrom
  <2>10. QED
    BY <2>3, <2>8, <2>9 DEF u
<1>6. CASE t.op[e] \notin {"plain", "direct"}
  <2>1. GuestTo(t, u, e, res)
    BY <1>2, <1>6 DEF ArrivalTo
  <2>2. Whole(u) /\ Both(u, e) /\ Typed(u) /\ u.all = t.all /\ u.total["w"] = t.total["w"]
    BY <1>1, <1>3, <1>6, <2>1, GuestHeld
  <2>3. Apart(t, u, e, FALSE) /\ u.slot = t.slot /\ u.op[e] = "none"
    BY <2>1 DEF GuestTo
  <2>4. Both(u, Peer(e)) /\ On(u, Peer(e))
    BY <1>1, <2>2, <2>3, OtherEnd
  <2>5. On(u, e)
    BY <1>1, <2>1, <2>3 DEF GuestTo, Apart, Rest, On, Off
  <2>6. u.act = t.act
    BY <1>1, <2>3 DEF Apart, ActTo
  <2>7. u.op["w"] \in {"none", t.op["w"]}
    BY <2>3, EndsAre DEF Apart, SameEnd, Peer
  <2>8. Kept(t, u)
    BY <2>2, <2>3, <2>6, <2>7 DEF Kept, KeptW, Apart
  <2>9. Held(u, {})
    BY <2>2, <2>4, <2>5, SettledFrom
  <2>10. QED
    BY <2>3, <2>8, <2>9 DEF u
<1>7. QED
  BY <1>4, <1>5, <1>6 DEF u

LEMMA HeldParts ==
  ASSUME NEW t, NEW X, Held(t, X)
  PROVE  /\ Typed(t) /\ ActSound(t.act) /\ Whole(t)
         /\ \A x \in Ends : Both(t, x) /\ (x \in X => Off(t, x)) /\ (x \notin X => On(t, x))
BY DEF Held, Typed

\* The same ends wait, whatever becomes of the one in the slot.
LEMMA HeldFrom ==
  ASSUME NEW t, NEW X, Held(t, X), NEW u, NEW y \in Ends, y \notin X, Typed(u), Whole(u),
         Both(u, y), On(u, y), Both(t, Peer(y)) => Both(u, Peer(y)),
         On(t, Peer(y)) => On(u, Peer(y)), Off(t, Peer(y)) => Off(u, Peer(y))
  PROVE  Held(u, X)
<1>1. ASSUME NEW x \in Ends
      PROVE Both(u, x) /\ (x \in X => Off(u, x)) /\ (x \notin X => On(u, x))
  <2>1. Both(t, x) /\ (x \in X => Off(t, x)) /\ (x \notin X => On(t, x))
    BY HeldParts
  <2>2. CASE x = y
    BY <2>2
  <2>3. CASE x = Peer(y)
    BY <2>1, <2>3
  <2>4. QED
    BY <2>2, <2>3, EndsAre
<1>2. QED
  BY <1>1 DEF Held

\* The operation in the slot is over.
LEMMA PendingHeld ==
  ASSUME NEW t, NEW X, Held(t, X), t.slot \in Ends, NEW res \in Results
  PROVE  LET u == PendingDone(t, res)
         IN  Held(u, X) /\ u.slot = NoEnd /\ Rest(t, u) /\ ActTo(t, u, res = "DROPPED")
             /\ KeptW(t, u) /\ SameEnd(t, u, Peer(t.slot))
             /\ u.op[t.slot] \in {"none", t.op[t.slot]}
<1> DEFINE u == PendingDone(t, res)
           e == t.slot
           v == [t EXCEPT !.slot = NoEnd]
<1>1. /\ Typed(t) /\ Whole(t) /\ Both(t, e) /\ On(t, e) /\ e \notin X
  BY HeldParts DEF Off
<1>2. PendingTo(t, u, e, res)
  BY <1>1, PendingSays
<1>3. /\ Typed(v) /\ v.slot = NoEnd /\ Rest(t, v) /\ v.act = t.act
      /\ v.all = t.all /\ v.op = t.op /\ v.buf = t.buf /\ v.sess = t.sess
      /\ v.event = t.event /\ v.done = t.done /\ v.moved = t.moved /\ v.total = t.total
  BY <1>1, SlotTyped
<1>4. e \in Ends /\ e # NoEnd /\ Peer(e) # e /\ u.slot = NoEnd /\ t.op[e] # "none"
      /\ Peer(e) # NoEnd
  BY <1>1, <1>2, EndsAre DEF PendingTo, On
<1>5. Whole(v) /\ Both(v, e)
  BY <1>1, <1>3 DEF Whole, Both, FlightOf, Rest
<1> HIDE DEF u, v
<1>6. CASE t.op[e] = "plain"
  <2>1. PlainTo(v, u, e, res)
    BY <1>2, <1>6 DEF PendingTo, v
  <2>2. /\ Whole(u) /\ Both(u, e) /\ Typed(u) /\ (e = "r" => u.all = t.all)
        /\ u.all.mode = t.all.mode /\ u.all.sent = t.all.sent /\ u.all.left = t.all.left
        /\ (t.all.mode # "none" => u.total["w"] = t.total["w"])
    BY <1>3, <1>5, <1>6, <2>1, PlainHeld
  <2>3. Apart(t, u, e, res = "DROPPED")
    BY <1>3, <2>1 DEF PlainTo, Apart, Rest, SameEnd, ActTo
  <2>4. /\ Both(t, Peer(e)) => Both(u, Peer(e))
        /\ On(t, Peer(e)) => On(u, Peer(e))
        /\ Off(t, Peer(e)) => Off(u, Peer(e))
    BY <1>4, <2>2, <2>3, OtherEnd
  <2>5. On(u, e) /\ u.op[e] = "none"
    BY <1>1, <1>3, <1>4, <1>6, <2>1, <2>3 DEF PlainTo, Apart, Rest, On
  <2>6. KeptW(t, u)
    <3>1. CASE e = "w"
      BY <1>6, <2>2, <2>3, <2>5, <3>1 DEF KeptW, Apart
    <3>2. CASE e = "r"
      BY <1>6, <2>2, <2>3, <3>2 DEF KeptW, Apart, SameEnd, Peer
    <3>3. QED
      BY <3>1, <3>2, EndsAre
  <2>7. Held(u, X)
    BY <1>1, <2>2, <2>4, <2>5, HeldFrom
  <2>8. QED
    BY <1>4, <2>3, <2>5, <2>6, <2>7 DEF Apart, u
<1>7. CASE t.op[e] = "direct"
  <2>1. SessionTo(v, u, e, res = "DROPPED")
    BY <1>2, <1>7 DEF PendingTo, v
  <2>2. Whole(u) /\ Both(u, e) /\ Typed(u) /\ u.all = t.all /\ u.total["w"] = t.total["w"]
    BY <1>3, <1>5, <1>7, <2>1, SessionHeld
  <2>3. Apart(t, u, e, res = "DROPPED")
    BY <1>3, <2>1 DEF SessionTo, Apart, Rest, SameEnd, ActTo
  <2>4. /\ Both(t, Peer(e)) => Both(u, Peer(e))
        /\ On(t, Peer(e)) => On(u, Peer(e))
        /\ Off(t, Peer(e)) => Off(u, Peer(e))
    BY <1>4, <2>2, <2>3, OtherEnd
  <2>5. On(u, e) /\ u.op[e] = t.op[e]
    BY <1>1, <1>3, <1>4, <1>7, <2>1, <2>3 DEF SessionTo, Apart, Rest, On
  <2>6. KeptW(t, u)
    <3>1. u.op["w"] = t.op["w"]
      BY <2>3, <2>5, EndsAre DEF Apart, SameEnd, Peer
    <3>2. QED
      BY <2>2, <2>3, <3>1 DEF KeptW, Apart
  <2>7. Held(u, X)
    BY <1>1, <2>2, <2>4, <2>5, HeldFrom
  <2>8. QED
    BY <1>4, <2>3, <2>5, <2>6, <2>7 DEF Apart, u
<1>8. CASE t.op[e] \notin {"plain", "direct"}
  <2>1. WaitingTo(t, u, e, res)
    BY <1>2, <1>8 DEF PendingTo
  <2>2. /\ u.op[e] = t.op[e] /\ u.buf[e] = t.buf[e] /\ u.sess[e] = t.sess[e] /\ u.event[e] = res
        /\ u.done[e] = t.done[e] /\ u.moved[e] = t.moved[e] /\ u.total[e] = t.total[e]
        /\ u.all = t.all
    BY <2>1 DEF WaitingTo
  <2>3. Apart(t, u, e, FALSE)
    BY <2>1 DEF WaitingTo
  <2>4. /\ Both(t, Peer(e)) => Both(u, Peer(e))
        /\ On(t, Peer(e)) => On(u, Peer(e))
        /\ Off(t, Peer(e)) => Off(u, Peer(e))
    BY <1>4, <2>2, <2>3, OtherEnd
  <2>5. Both(u, e)
    BY <1>1, <2>2, <2>3 DEF Both, FlightOf, Apart, Rest
  <2>6. On(u, e)
    <3>1. t.op[e] = "guest"
      BY <1>1, <1>4, <1>8 DEF Typed, StreamType, Ops
    <3>2. QED
      BY <1>1, <1>4, <2>2, <2>3, <3>1 DEF On, Results, Apart, Rest
  <2>7. u.op["w"] = t.op["w"] /\ u.buf["w"] = t.buf["w"] /\ u.total["w"] = t.total["w"]
    BY <2>2, <2>3, EndsAre DEF Apart, SameEnd, Peer
  <2>8. Whole(u) /\ Typed(u)
    BY <1>1, <2>2, <2>3, <2>7 DEF Whole, Apart
  <2>9. KeptW(t, u)
    BY <2>2, <2>3, <2>7 DEF KeptW, Apart
  <2>10. Held(u, X)
    BY <1>1, <2>4, <2>5, <2>6, <2>8, HeldFrom
  <2>11. QED
    BY <1>4, <2>2, <2>3, <2>9, <2>10 DEF Apart, u, ActTo
<1>9. QED
  BY <1>6, <1>7, <1>8

\* What of t the predicates above do not read of u.
Alike(t, u) ==
  /\ Typed(u) /\ Rest(t, u) /\ u.act = t.act /\ u.slot = t.slot /\ u.all = t.all /\ u.op = t.op
  /\ u.sess = t.sess /\ u.event = t.event /\ u.done = t.done /\ u.total = t.total

\* Elements cross: both sides count them.
LEMMA AdvancedSays ==
  ASSUME NEW t, Typed(t), NEW e \in Ends, NEW n \in Nat
  PROVE  LET u == Advanced(t, e, n)
         IN  /\ Alike(t, u) /\ u.buf[Peer(e)] = t.buf[Peer(e)] /\ u.moved[Peer(e)] = t.moved[Peer(e)]
             /\ u.buf[e].len = t.buf[e].len /\ u.buf[e].progress = t.buf[e].progress + n
             /\ u.moved[e] = IF Side(e) = "host" THEN t.moved[e] + n ELSE t.moved[e]
<1> DEFINE c == [t.buf[e] EXCEPT !.progress = @ + n]
           b == [t.buf EXCEPT ![e] = c]
           m == [t.moved EXCEPT ![e] = IF Side(e) = "host" THEN @ + n ELSE @]
           u == [t EXCEPT !.buf = b, !.moved = m]
<1>1. t.buf \in [Ends -> BufferType] /\ t.moved \in [Ends -> Nat] /\ t \in StreamType
  BY DEF Typed, StreamType
<1>2. Advanced(t, e, n) = u
  BY <1>1 DEF Advanced, StreamType, BufferType
<1>3. c \in BufferType /\ c.len = t.buf[e].len /\ c.progress = t.buf[e].progress + n
  BY <1>1 DEF BufferType
<1> HIDE DEF c
<1>4. b \in [Ends -> BufferType] /\ b[e] = c /\ b[Peer(e)] = t.buf[Peer(e)]
  BY <1>1, <1>3, EndsAre
<1>5. /\ m \in [Ends -> Nat] /\ m[Peer(e)] = t.moved[Peer(e)]
      /\ m[e] = IF Side(e) = "host" THEN t.moved[e] + n ELSE t.moved[e]
  BY <1>1, EndsAre
<1> HIDE DEF b, m
<1>6. Alike(t, u) /\ u.buf = b /\ u.moved = m
  BY <1>1, <1>4, <1>5 DEF Alike, Typed, StreamType, Rest
<1> HIDE DEF u
<1>7. QED
  BY <1>2, <1>3, <1>4, <1>5, <1>6

\* Room for n more elements in the buffer of a copy.
Room(t, x, n) == t.op[x] \in {"plain", "guest"} => t.buf[x].progress + n <= t.buf[x].len

LEMMA AdvancedHeld ==
  ASSUME NEW t, NEW X, Held(t, X), NEW e \in Ends, t.op[e] # "none", NEW n \in Nat, Room(t, e, n)
  PROVE  LET u == Advanced(t, e, n)
         IN  /\ Held(u, X) /\ Kept(t, u) /\ Alike(t, u)
             /\ u.buf[Peer(e)] = t.buf[Peer(e)]
             /\ u.buf[e].len = t.buf[e].len /\ u.buf[e].progress = t.buf[e].progress + n
<1> DEFINE u == Advanced(t, e, n)
<1>1. /\ Typed(t) /\ Whole(t)
      /\ \A x \in Ends : Both(t, x) /\ (x \in X => Off(t, x)) /\ (x \notin X => On(t, x))
  BY HeldParts
<1>2. /\ Alike(t, u) /\ u.buf[Peer(e)] = t.buf[Peer(e)] /\ u.moved[Peer(e)] = t.moved[Peer(e)]
      /\ u.buf[e].len = t.buf[e].len /\ u.buf[e].progress = t.buf[e].progress + n
      /\ u.moved[e] = IF Side(e) = "host" THEN t.moved[e] + n ELSE t.moved[e]
  BY <1>1, AdvancedSays
<1> HIDE DEF u
<1>3. /\ Rest(t, u) /\ u.slot = t.slot /\ u.all = t.all /\ u.op = t.op
      /\ u.sess = t.sess /\ u.event = t.event /\ u.done = t.done /\ u.total = t.total
      /\ u.dropped = t.dropped /\ u.left = t.left /\ Typed(u)
  BY <1>2 DEF Alike, Rest
<1>4. Whole(u)
  <2>1. u.buf["w"].len = t.buf["w"].len
    BY <1>2, EndsAre
  <2>2. QED
    BY <1>1, <1>3, <2>1 DEF Whole
<1>5. Both(u, Peer(e))
  BY <1>1, <1>2, <1>3, EndsAre DEF Both, FlightOf
<1>6. Both(u, e)
  <2>1. /\ t.buf[e].progress \in Nat /\ t.moved[e] \in Nat /\ t.total[e] \in Nat
        /\ t.all.sent \in Nat /\ t.all.got \in Nat /\ t.op[e] \in Ops
    BY <1>1 DEF Typed, StreamType, BufferType, WholeType
  <2>2. Side(e) \in {"host", "guest"}
    BY <1>1 DEF Typed, Side
  <2>3. (t.op[e] \in {"plain", "direct"}) <=> Side(e) # "guest"
    BY <1>1, <2>1 DEF Both, Ops
  <2>4. CASE Side(e) = "guest"
    BY <1>1, <1>2, <1>3, <2>1, <2>3, <2>4 DEF Both, FlightOf, Room
  <2>5. CASE Side(e) = "host"
    <3>1. FlightOf(u, e) = FlightOf(t, e) + n
      BY <1>2, <1>3, <2>1, <2>3, <2>5 DEF FlightOf
    <3>2. u.moved[e] = u.total[e] + FlightOf(u, e)
      <4>1. FlightOf(t, e) \in Nat
        BY <2>1 DEF FlightOf
      <4>2. t.moved[e] = t.total[e] + FlightOf(t, e)
        BY <1>1 DEF Both
      <4>3. QED
        BY <1>2, <1>3, <2>1, <2>5, <3>1, <4>1, <4>2
    <3>3. QED
      BY <1>1, <1>2, <1>3, <3>2 DEF Both, Room
  <2>6. QED
    BY <2>2, <2>4, <2>5
<1>7. ASSUME NEW x \in Ends PROVE Both(u, x) /\ (x \in X => Off(u, x)) /\ (x \notin X => On(u, x))
  <2>1. Both(u, x)
    BY <1>5, <1>6, EndsAre
  <2>2. (x \in X => Off(u, x)) /\ (x \notin X => On(u, x))
    BY <1>1, <1>3 DEF Off, On
  <2>3. QED
    BY <2>1, <2>2
<1>8. Held(u, X)
  BY <1>3, <1>4, <1>7 DEF Held
<1>9. Kept(t, u)
  BY <1>2, <1>3 DEF Kept, KeptW, Alike
<1>10. QED
  BY <1>2, <1>8, <1>9 DEF u

-----------------------------------------------------------------------------
(* A write of writeAll takes something, or the reader is gone. *)

Fed(t) ==
  t.all.mode = "active" =>
    /\ t.all.paused => t.all.got > 0 \/ t.dropped
    /\ ~t.all.paused => t.buf["w"].progress < t.buf["w"].len

\* A write that has taken something and is not over.
Moving(t) ==
  t.all.mode = "active" /\ ~t.all.paused => t.buf["w"].progress > 0

Over(t) == t.all.mode = "active" /\ ~t.all.paused => t.buf["w"].progress > 0 \/ t.dropped

LEMMA FedSame ==
  ASSUME NEW t, NEW u, NEW e \in Ends, NEW b, Apart(t, u, e, b), e = "r", u.all = t.all
  PROVE  (Fed(t) => Fed(u)) /\ (Moving(t) => Moving(u))
BY DEF Apart, SameEnd, Rest, Peer, Fed, Moving

LEMMA FedPlain ==
  ASSUME NEW t, Typed(t), Whole(t), t.op["w"] = "plain", Over(t), NEW u, NEW res,
         PlainTo(t, u, "w", res)
  PROVE  Fed(u)
<1>1. SUFFICES ASSUME u.all.mode = "active" PROVE u.all.paused /\ (u.all.got > 0 \/ u.dropped)
  BY DEF Fed
<1>2. t.all.mode # "none" /\ u.all = [t.all EXCEPT !.got = t.buf["w"].progress, !.paused = TRUE]
  BY <1>1 DEF PlainTo, Whole, NotWhole
<1>3. t.all \in WholeType /\ ~t.all.paused
  BY <1>2 DEF Typed, StreamType, Whole
<1>4. u.all.mode = t.all.mode /\ u.all.paused /\ u.all.got = t.buf["w"].progress
  BY <1>2, <1>3 DEF WholeType
<1>5. u.dropped = t.dropped
  BY DEF PlainTo, Apart, Rest
<1>6. QED
  BY <1>1, <1>3, <1>4, <1>5 DEF Over

\* An operation of the writer that is not a write leaves no writeAll.
LEMMA FedOther ==
  ASSUME NEW t, Whole(t), t.op["w"] \notin {"none", "plain"}, NEW u, u.all = t.all
  PROVE  Fed(u)
BY DEF Whole, Fed, NotWhole

LEMMA ArrivalFed ==
  ASSUME NEW t, NEW e \in Ends, Held(t, {e}), NEW res
  PROVE  LET u == ArrivalDone(t, e, res)
         IN  (e = "r" /\ Fed(t) => Fed(u)) /\ (e = "w" /\ Over(t) => Fed(u))
<1> DEFINE u == ArrivalDone(t, e, res)
<1>1. Typed(t) /\ Whole(t) /\ Off(t, e)
  BY DEF Held
<1>2. ArrivalTo(t, u, e, res) /\ t.op[e] # "none"
  BY <1>1, ArrivalSays DEF Off
<1> HIDE DEF u
<1>3. ASSUME e = "r", Fed(t) PROVE Fed(u)
  <2>1. \E b \in BOOLEAN : Apart(t, u, e, b)
    BY <1>2 DEF ArrivalTo, PlainTo, SessionTo, GuestTo
  <2>2. u.all = t.all
    BY <1>2, <1>3 DEF ArrivalTo, PlainTo, SessionTo, GuestTo
  <2>3. QED
    BY <1>3, <2>1, <2>2, FedSame
<1>4. ASSUME e = "w", Over(t) PROVE Fed(u)
  <2>1. CASE t.op[e] = "plain"
    <3>1. PlainTo(t, u, "w", res)
      BY <1>2, <1>4, <2>1 DEF ArrivalTo
    <3>2. QED
      BY <1>1, <1>4, <2>1, <3>1, FedPlain
  <2>2. CASE t.op[e] # "plain"
    <3>1. u.all = t.all
      BY <1>2, <2>2 DEF ArrivalTo, SessionTo, GuestTo
    <3>2. QED
      BY <1>1, <1>2, <1>4, <2>2, <3>1, FedOther
  <2>3. QED
    BY <2>1, <2>2
<1>5. QED
  BY <1>3, <1>4 DEF u

LEMMA PendingFed ==
  ASSUME NEW t, NEW X, Held(t, X), t.slot \in Ends, NEW res \in Results
  PROVE  LET u == PendingDone(t, res)
         IN  /\ t.slot = "r" => (Fed(t) => Fed(u)) /\ (Moving(t) => Moving(u))
             /\ t.slot = "w" => (u.all.mode = "active" => u.all.paused) /\ (Over(t) => Fed(u))
<1> DEFINE u == PendingDone(t, res)
           e == t.slot
           v == [t EXCEPT !.slot = NoEnd]
<1>1. Typed(t) /\ Whole(t) /\ On(t, e)
  BY HeldParts DEF Off
<1>2. PendingTo(t, u, e, res)
  BY <1>1, PendingSays
<1>3. /\ Typed(v) /\ Rest(t, v)
      /\ v.all = t.all /\ v.op = t.op /\ v.buf = t.buf /\ v.sess = t.sess
      /\ v.event = t.event /\ v.done = t.done /\ v.moved = t.moved /\ v.total = t.total
      /\ v.act = t.act
  BY <1>1, SlotTyped
<1>4. Whole(v) /\ (Over(t) => Over(v)) /\ t.op[e] # "none"
  BY <1>1, <1>3 DEF Whole, Over, Rest, On
<1> HIDE DEF u, v
<1>5. ASSUME e = "r" PROVE (Fed(t) => Fed(u)) /\ (Moving(t) => Moving(u))
  <2>1. /\ u.all = t.all /\ u.buf["w"] = t.buf["w"] /\ u.dropped = t.dropped
    BY <1>2, <1>3, <1>5 DEF PendingTo, PlainTo, SessionTo, WaitingTo, Apart, SameEnd, Rest, v, Peer
  <2>2. QED
    BY <2>1 DEF Fed, Moving
<1>6. ASSUME e = "w" PROVE (u.all.mode = "active" => u.all.paused) /\ (Over(t) => Fed(u))
  <2>1. CASE t.op[e] = "plain"
    <3>1. PlainTo(v, u, "w", res) /\ v.op["w"] = "plain"
      BY <1>2, <1>3, <1>6, <2>1 DEF PendingTo, v
    <3>2. Over(t) => Fed(u)
      BY <1>3, <1>4, <3>1, FedPlain
    <3>3. u.all.mode = "active" => u.all.paused
      <4>1. CASE v.all.mode = "none"
        BY <3>1, <4>1 DEF PlainTo
      <4>2. CASE v.all.mode # "none"
        BY <1>3, <3>1, <4>2 DEF PlainTo, Typed, StreamType, WholeType
      <4>3. QED
        BY <4>1, <4>2
    <3>4. QED
      BY <3>2, <3>3
  <2>2. CASE t.op[e] # "plain"
    <3>1. u.all = t.all
      BY <1>2, <1>3, <2>2 DEF PendingTo, SessionTo, WaitingTo, v
    <3>2. Fed(u) /\ t.all.mode = "none"
      BY <1>1, <1>4, <1>6, <2>2, <3>1, FedOther DEF Whole
    <3>3. QED
      BY <3>1, <3>2
  <2>3. QED
    BY <2>1, <2>2
<1>7. QED
  BY <1>5, <1>6 DEF u

-----------------------------------------------------------------------------
(* The rendezvous. *)

LEMMA EventTyped ==
  ASSUME NEW t, Typed(t), NEW n \in [Ends -> Deliveries]
  PROVE  LET u == [t EXCEPT !.event = n]
         IN  /\ Typed(u) /\ u.event = n /\ Rest(t, u) /\ u.act = t.act /\ u.slot = t.slot
             /\ u.all = t.all /\ u.op = t.op /\ u.buf = t.buf /\ u.sess = t.sess
             /\ u.done = t.done /\ u.moved = t.moved /\ u.total = t.total
BY DEF Typed, StreamType, Rest

\* The operation in the slot has copied.
LEMMA CopyingIs ==
  ASSUME NEW t, Typed(t), NEW e \in Ends, t.slot = e, t.op[e] # "none"
  PROVE  \/ t.op[e] # "guest" /\ PendingCopied(t) = t
            /\ (t.op[e] = "plain" /\ e = "w" => Remain(t, e) > 0)
         \/ t.op[e] = "guest" /\ PendingCopied(t) = [t EXCEPT !.event = [t.event EXCEPT ![e] = "onCopy"]]
         \/ PendingCopied(t) = PendingDone(t, "COMPLETED")
<1> DEFINE u == [t EXCEPT !.slot = NoEnd]
<1>1. CASE t.op[e] = "guest"
  BY <1>1 DEF PendingCopied, Typed, StreamType
<1>2. CASE t.op[e] = "plain"
  BY <1>2 DEF PendingCopied, PendingDone
<1>3. CASE t.op[e] \notin {"guest", "plain"}
  <2>1. t.op[e] = "none" \/ t.op[e] = "direct"
    BY <1>3 DEF Typed, StreamType, Ops
  <2>2. u.sess = t.sess
    BY DEF Typed, StreamType
  <2>3. CASE ~t.sess[e].ended
    BY <1>3, <2>3 DEF PendingCopied
  <2>4. CASE t.sess[e].ended /\ t.op[e] = "direct"
    BY <2>2, <2>4 DEF PendingCopied, PendingDone, SessionDone
  <2>5. QED
    BY <2>1, <2>3, <2>4
<1>4. QED
  BY <1>1, <1>2, <1>3

LEMMA CopyingHeld ==
  ASSUME NEW t, NEW X, Held(t, X), t.slot \in Ends
  PROVE  LET u == PendingCopied(t)
         IN  /\ Held(u, X) /\ Kept(t, u) /\ SameEnd(t, u, Peer(t.slot))
             /\ t.slot = "r" => (Moving(t) => Moving(u)) /\ (Fed(t) => Fed(u))
             /\ t.slot = "w" => (Moving(t) => Fed(u))
<1> DEFINE e == t.slot
           u == PendingCopied(t)
<1>1. /\ Typed(t) /\ Whole(t) /\ Both(t, e) /\ On(t, e) /\ e \notin X
  BY HeldParts DEF Off
<1>2. t.op[e] # "none" /\ Peer(e) \in Ends /\ e # Peer(e)
  BY <1>1, EndsAre DEF On
<1>3. \/ t.op[e] # "guest" /\ u = t /\ (t.op[e] = "plain" /\ e = "w" => Remain(t, e) > 0)
      \/ t.op[e] = "guest" /\ u = [t EXCEPT !.event = [t.event EXCEPT ![e] = "onCopy"]]
      \/ u = PendingDone(t, "COMPLETED")
  BY <1>1, <1>2, CopyingIs
<1> HIDE DEF u
<1>4. CASE t.op[e] # "guest" /\ u = t /\ (t.op[e] = "plain" /\ e = "w" => Remain(t, e) > 0)
  <2>1. Kept(t, u) /\ SameEnd(t, u, Peer(e))
    BY <1>4 DEF Kept, KeptW, Rest, SameEnd
  <2>2. e = "w" => (Moving(t) => Fed(u))
    <3>1. SUFFICES ASSUME e = "w", t.all.mode = "active" PROVE Fed(t)
      BY <1>4 DEF Fed
    <3>2. t.op["w"] = "plain" /\ ~t.all.paused
      BY <1>1, <1>2, <3>1 DEF Whole
    <3>3. t.buf["w"].len - t.buf["w"].progress > 0 /\ t.buf["w"] \in BufferType
      BY <1>1, <1>4, <3>1, <3>2 DEF Remain, Typed, StreamType
    <3>4. t.buf["w"].progress < t.buf["w"].len
      BY <3>3, HostStreamsAssumption DEF BufferType
    <3>5. QED
      BY <3>2, <3>4 DEF Fed
  <2>3. QED
    BY <1>4, <2>1, <2>2 DEF u
<1>5. CASE t.op[e] = "guest" /\ u = [t EXCEPT !.event = [t.event EXCEPT ![e] = "onCopy"]]
  <2> DEFINE n == [t.event EXCEPT ![e] = "onCopy"]
  <2>1. n \in [Ends -> Deliveries] /\ n[e] = "onCopy" /\ n[Peer(e)] = t.event[Peer(e)]
    BY <1>1, <1>2 DEF Typed, StreamType, Deliveries
  <2> HIDE DEF n
  <2>2. u = [t EXCEPT !.event = n]
    BY <1>5 DEF n
  <2>3. /\ Typed(u) /\ u.event = n /\ Rest(t, u) /\ u.act = t.act /\ u.slot = t.slot
        /\ u.all = t.all /\ u.op = t.op /\ u.buf = t.buf /\ u.sess = t.sess
        /\ u.done = t.done /\ u.moved = t.moved /\ u.total = t.total
    BY <1>1, <2>1, <2>2, EventTyped
  <2>4. u.dropped = t.dropped /\ u.left = t.left
    BY <2>3 DEF Rest
  <2>5. Apart(t, u, e, FALSE)
    BY <2>1, <2>3 DEF Apart, SameEnd, ActTo
  <2>6. /\ Both(t, Peer(e)) => Both(u, Peer(e))
        /\ On(t, Peer(e)) => On(u, Peer(e))
        /\ Off(t, Peer(e)) => Off(u, Peer(e))
    BY <2>3, <2>5, OtherEnd
  <2>7. Both(u, e) /\ Whole(u)
    BY <1>1, <2>3, <2>4 DEF Both, FlightOf, Whole
  <2>8. On(u, e)
    BY <1>1, <1>5, <2>1, <2>3, <2>4 DEF On
  <2>9. Held(u, X)
    BY <1>1, <2>3, <2>6, <2>7, <2>8, HeldFrom
  <2>10. Kept(t, u) /\ SameEnd(t, u, Peer(e))
    BY <2>3, <2>5 DEF Kept, KeptW, Apart
  <2>11. (Moving(t) => Moving(u)) /\ (Fed(t) => Fed(u))
    BY <2>3, <2>4 DEF Moving, Fed
  <2>12. e = "w" => Fed(u)
    BY <1>1, <1>5, <2>3, FedOther
  <2>13. QED
    BY <2>9, <2>10, <2>11, <2>12 DEF u
<1>6. CASE u = PendingDone(t, "COMPLETED")
  <2>1. "COMPLETED" \in Results
    BY DEF Results
  <2> DEFINE w == PendingDone(t, "COMPLETED")
  <2>2. Held(w, X) /\ w.slot = NoEnd /\ Rest(t, w) /\ ActTo(t, w, "COMPLETED" = "DROPPED")
        /\ KeptW(t, w) /\ SameEnd(t, w, Peer(t.slot))
    BY <2>1, PendingHeld
  <2>3. /\ t.slot = "r" => (Fed(t) => Fed(w)) /\ (Moving(t) => Moving(w))
        /\ t.slot = "w" => (w.all.mode = "active" => w.all.paused) /\ (Over(t) => Fed(w))
    BY <2>1, PendingFed
  <2>4. u = w
    BY <1>6
  <2> HIDE DEF w
  <2>5. Kept(t, u)
    BY <2>2, <2>4 DEF Kept, ActTo
  <2>6. Moving(t) => Over(t)
    BY DEF Moving, Over
  <2>7. QED
    BY <2>2, <2>3, <2>4, <2>5, <2>6 DEF u
<1>7. QED
  BY <1>3, <1>4, <1>5, <1>6

LEMMA CopiedHeld ==
  ASSUME NEW t, NEW e \in Ends, Held(t, {e}), t.slot \in Ends, NEW n \in Nat, n > 0,
         \A x \in Ends : Room(t, x, n), Fed(t)
  PROVE  LET u == Copied(t, e, n) IN Held(u, {}) /\ Kept(t, u) /\ Fed(u)
<1> DEFINE f == t.slot
           v == Advanced(t, e, n)
           w == Advanced(v, f, n)
           x == PendingCopied(w)
           u == ArrivalDone(x, e, "COMPLETED")
<1>1. Typed(t) /\ Whole(t) /\ Off(t, e) /\ f # e
  BY DEF Held, Off
<1>2. On(t, f)
  BY <1>1, HeldParts
<1>3. f = Peer(e) /\ e = Peer(f) /\ t.op[e] # "none" /\ t.op[f] # "none"
  BY <1>1, <1>2, EndsAre DEF On, Off
<1>4. Copied(t, e, n) = ArrivalDone(PendingCopied(Advanced(v, t.slot, n)), e, "COMPLETED")
  BY DEF Copied
<1>5. /\ Held(v, {e}) /\ Kept(t, v) /\ Alike(t, v)
      /\ v.buf[f] = t.buf[f]
      /\ v.buf[e].len = t.buf[e].len /\ v.buf[e].progress = t.buf[e].progress + n
  BY <1>3, AdvancedHeld
<1> HIDE DEF v, f
<1>6. v.slot = f /\ v.op = t.op /\ v.all = t.all /\ v.sess = t.sess
  BY <1>5 DEF Alike, f
<1>7. /\ Held(w, {e}) /\ Kept(v, w) /\ Alike(v, w)
      /\ w.buf[e] = v.buf[e]
      /\ w.buf[f].len = v.buf[f].len /\ w.buf[f].progress = v.buf[f].progress + n
  <2>1. Room(v, f, n)
    BY <1>5, <1>6 DEF Room, f
  <2>2. f \in Ends /\ v.op[f] # "none"
    BY <1>3, <1>6 DEF f
  <2>3. QED
    BY <1>3, <1>5, <2>1, <2>2, AdvancedHeld
<1> HIDE DEF w
<1>8. w.slot = f /\ w.all = t.all /\ f \in Ends
  BY <1>6, <1>7 DEF Alike, f
<1>9. Moving(w)
  <2>1. w.buf["w"].progress > 0
    <3>1. t.buf["w"].progress \in Nat
      BY <1>1, EndsAre DEF Typed, StreamType, BufferType
    <3>2. w.buf["w"].progress = t.buf["w"].progress + n
      BY <1>3, <1>5, <1>7, EndsAre
    <3>3. QED
      BY <3>1, <3>2
  <2>2. QED
    BY <2>1 DEF Moving
<1>10. /\ Held(x, {e}) /\ Kept(w, x) /\ SameEnd(w, x, e)
       /\ f = "r" => Moving(x)
       /\ f = "w" => Fed(x)
  <2>1. Peer(w.slot) = e /\ w.slot \in Ends
    BY <1>3, <1>8
  <2>2. /\ Held(x, {e}) /\ Kept(w, x) /\ SameEnd(w, x, Peer(w.slot))
        /\ w.slot = "r" => (Moving(w) => Moving(x)) /\ (Fed(w) => Fed(x))
        /\ w.slot = "w" => (Moving(w) => Fed(x))
    BY <1>7, <2>1, CopyingHeld
  <2> HIDE DEF x
  <2>3. QED
    BY <1>8, <1>9, <2>1, <2>2
<1> HIDE DEF x
<1>11. Held(u, {}) /\ Kept(x, u) /\ u.slot = x.slot
  BY <1>10, ArrivalHeld
<1>12. /\ e = "r" /\ Fed(x) => Fed(u)
       /\ e = "w" /\ Over(x) => Fed(u)
  BY <1>10, ArrivalFed
<1>13. Fed(u)
  <2>1. CASE e = "r"
    BY <1>3, <1>10, <1>12, <2>1 DEF Peer
  <2>2. CASE e = "w"
    <3>1. Over(x)
      BY <1>3, <1>10, <2>2 DEF Peer, Moving, Over
    <3>2. QED
      BY <1>12, <2>2, <3>1
  <2>3. QED
    BY <2>1, <2>2, EndsAre
<1>14. Kept(t, u)
  <2>1. Kept(t, w)
    BY <1>5, <1>7, KeptOn
  <2>2. Kept(t, x)
    BY <1>10, <2>1, KeptOn
  <2>3. QED
    BY <1>11, <2>2, KeptOn
<1>15. Copied(t, e, n) = u
  BY <1>4 DEF u, x, w, f
<1>16. QED
  BY <1>11, <1>13, <1>14, <1>15

\* The callback of a direct session has said whether it is done.
LEMMA SaidHeld ==
  ASSUME NEW t, NEW X, Held(t, X), NEW e \in Ends, NEW b \in BOOLEAN
  PROVE  LET u == [t EXCEPT !.sess[e].ended = b]
         IN  /\ Held(u, X) /\ Kept(t, u) /\ u.slot = t.slot /\ u.op = t.op /\ u.buf = t.buf
             /\ (Fed(t) => Fed(u)) /\ u.dropped = t.dropped /\ u.all = t.all
<1> DEFINE c == [t.sess[e] EXCEPT !.ended = b]
           n == [t.sess EXCEPT ![e] = c]
           u == [t EXCEPT !.sess = n]
<1>1. /\ Typed(t) /\ Whole(t)
      /\ \A x \in Ends : Both(t, x) /\ (x \in X => Off(t, x)) /\ (x \notin X => On(t, x))
  BY HeldParts
<1>2. t.sess \in [Ends -> SessionType] /\ t.sess[e] \in SessionType
  BY <1>1 DEF Typed, StreamType
<1>3. c \in SessionType /\ c.pending = t.sess[e].pending /\ c.step = t.sess[e].step
  BY <1>2 DEF SessionType
<1>4. [t EXCEPT !.sess[e].ended = b] = u
  BY <1>1, <1>2 DEF Typed, StreamType, SessionType
<1> HIDE DEF c
<1>5. /\ n \in [Ends -> SessionType]
      /\ \A x \in Ends : n[x].pending = t.sess[x].pending /\ n[x].step = t.sess[x].step
  BY <1>2, <1>3
<1> HIDE DEF n
<1>6. /\ Typed(u) /\ u.sess = n /\ Rest(t, u) /\ u.act = t.act /\ u.slot = t.slot
      /\ u.all = t.all /\ u.op = t.op /\ u.buf = t.buf /\ u.event = t.event
      /\ u.done = t.done /\ u.moved = t.moved /\ u.total = t.total
  BY <1>1, <1>5, SessionsTyped
<1> HIDE DEF u
<1>7. u.dropped = t.dropped /\ u.left = t.left
  BY <1>6 DEF Rest
<1>8. Whole(u) /\ Kept(t, u) /\ (Fed(t) => Fed(u))
  BY <1>1, <1>6, <1>7 DEF Whole, Kept, KeptW, Fed
<1>9. ASSUME NEW x \in Ends PROVE Both(u, x) /\ (x \in X => Off(u, x)) /\ (x \notin X => On(u, x))
  <2>1. Both(u, x)
    BY <1>1, <1>6, <1>7 DEF Both, FlightOf
  <2>2. (x \in X => Off(u, x)) /\ (x \notin X => On(u, x))
    BY <1>1, <1>5, <1>6, <1>7 DEF Off, On
  <2>3. QED
    BY <2>1, <2>2
<1>10. Held(u, X)
  BY <1>6, <1>8, <1>9 DEF Held
<1>11. QED
  BY <1>4, <1>6, <1>7, <1>8, <1>10

\* The operation that found nobody waits in the slot.
LEMMA ParkedHeld ==
  ASSUME NEW t, NEW e \in Ends, Held(t, {e}), t.slot = NoEnd, ~t.dropped
  PROVE  LET u == Parked(t, e) IN Held(u, {}) /\ Kept(t, u) /\ (Fed(t) => Fed(u))
<1> DEFINE c == [t.sess[e] EXCEPT !.pending = t.op[e] = "direct"]
           n == [t.sess EXCEPT ![e] = c]
           v == [t EXCEPT !.slot = e]
           u == [v EXCEPT !.sess = n]
           x == Peer(e)
<1>1. Typed(t) /\ Whole(t) /\ Off(t, e) /\ On(t, x) /\ Both(t, e) /\ Both(t, x)
  BY EndsAre DEF Held
<1>2. t.sess \in [Ends -> SessionType] /\ t.sess[e] \in SessionType
  BY <1>1 DEF Typed, StreamType
<1>3. c \in SessionType /\ (c.pending <=> t.op[e] = "direct") /\ c.step = t.sess[e].step
  BY <1>2 DEF SessionType
<1>4. Parked(t, e) = u
  BY <1>1, <1>2 DEF Parked, Typed, StreamType, SessionType
<1> HIDE DEF c
<1>5. x \in Ends /\ x # e /\ e # NoEnd /\ x # NoEnd
  BY EndsAre
<1>6. n \in [Ends -> SessionType] /\ n[e] = c /\ n[x] = t.sess[x]
  BY <1>2, <1>3, <1>5
<1>7. /\ Typed(v) /\ v.slot = e /\ Rest(t, v) /\ v.act = t.act
      /\ v.all = t.all /\ v.op = t.op /\ v.buf = t.buf /\ v.sess = t.sess
      /\ v.event = t.event /\ v.done = t.done /\ v.moved = t.moved /\ v.total = t.total
  BY <1>1, SlotTyped
<1> HIDE DEF n, v
<1>8. /\ Typed(u) /\ u.sess = n /\ Rest(v, u) /\ u.act = v.act /\ u.slot = v.slot
      /\ u.all = v.all /\ u.op = v.op /\ u.buf = v.buf /\ u.event = v.event
      /\ u.done = v.done /\ u.moved = v.moved /\ u.total = v.total
  BY <1>6, <1>7, SessionsTyped
<1> HIDE DEF u
<1>9. Rest(t, u) /\ u.dropped = t.dropped /\ u.left = t.left
  BY <1>7, <1>8 DEF Rest
<1>10. Whole(u) /\ Kept(t, u) /\ (Fed(t) => Fed(u))
  BY <1>1, <1>7, <1>8, <1>9 DEF Whole, Kept, KeptW, Fed
<1>11. Both(u, e) /\ Both(u, x)
  BY <1>1, <1>7, <1>8, <1>9 DEF Both, FlightOf
<1>12. On(u, x)
  BY <1>1, <1>5, <1>6, <1>7, <1>8, <1>9 DEF On
<1>13. On(u, e)
  BY <1>1, <1>3, <1>5, <1>6, <1>7, <1>8, <1>9 DEF On, Off
<1>14. Held(u, {})
  BY <1>8, <1>10, <1>11, <1>12, <1>13, SettledFrom DEF x
<1>15. QED
  BY <1>4, <1>10, <1>14

\* A direct session whose callback failed is over: the one that arrived, ...
LEMMA FailedArrival ==
  ASSUME NEW t, NEW e \in Ends, Held(t, {e}), t.op[e] = "direct"
  PROVE  LET u == DirectFailed(t, e) IN Held(u, {}) /\ Kept(t, u) /\ (Fed(t) => Fed(u))
<1> DEFINE u == DirectFailed(t, e)
<1>1. Typed(t) /\ Whole(t) /\ Off(t, e) /\ On(t, Peer(e)) /\ Both(t, e) /\ Both(t, Peer(e))
  BY EndsAre DEF Held
<1>2. SessionTo(t, u, e, FALSE)
  BY <1>1, SteppedSays DEF DirectFailed, Turns
<1> HIDE DEF u
<1>3. Whole(u) /\ Both(u, e) /\ Typed(u) /\ u.all = t.all /\ u.total["w"] = t.total["w"]
  BY <1>1, <1>2, SessionHeld
<1>4. Apart(t, u, e, FALSE) /\ u.slot = t.slot /\ u.op[e] = t.op[e] /\ u.buf[e] = t.buf[e]
  BY <1>2 DEF SessionTo
<1>5. Both(u, Peer(e)) /\ On(u, Peer(e))
  BY <1>1, <1>3, <1>4, OtherEnd
<1>6. On(u, e)
  BY <1>1, <1>2, <1>4 DEF SessionTo, Apart, Rest, On, Off
<1>7. u.op["w"] = t.op["w"] /\ u.buf["w"] = t.buf["w"]
  BY <1>4, EndsAre DEF Apart, SameEnd
<1>8. Kept(t, u) /\ (Fed(t) => Fed(u))
  BY <1>3, <1>4, <1>7 DEF Kept, KeptW, Apart, ActTo, Rest, Fed
<1>9. Held(u, {})
  BY <1>1, <1>3, <1>5, <1>6, SettledFrom
<1>10. QED
  BY <1>8, <1>9 DEF u

\* ... or the one in the slot, which the arrival takes over.
LEMMA FailedPending ==
  ASSUME NEW t, NEW e \in Ends, Held(t, {e}), NEW x \in Ends, t.slot = x, t.op[x] = "direct"
  PROVE  LET u == [DirectFailed(t, x) EXCEPT !.slot = NoEnd]
         IN  Held(u, {e}) /\ Kept(t, u) /\ u.slot = NoEnd /\ (Fed(t) => Fed(u))
<1> DEFINE v == DirectFailed(t, x)
           u == [v EXCEPT !.slot = NoEnd]
<1>1. Typed(t) /\ Whole(t) /\ Off(t, e) /\ On(t, x) /\ Both(t, e) /\ Both(t, x) /\ x = Peer(e)
      /\ e = Peer(x) /\ x # e /\ x # NoEnd /\ e # NoEnd
  <2>1. Off(t, e)
    BY DEF Held
  <2>2. x # e
    BY <2>1 DEF Off
  <2>3. x = Peer(e) /\ e = Peer(x) /\ x # NoEnd /\ e # NoEnd
    BY <2>2, EndsAre
  <2>4. QED
    BY <2>1, <2>2, <2>3 DEF Held
<1>2. SessionTo(t, v, x, FALSE)
  BY <1>1, SteppedSays DEF DirectFailed, Turns
<1> HIDE DEF v
<1>3. Whole(v) /\ Both(v, x) /\ Typed(v) /\ v.all = t.all /\ v.total["w"] = t.total["w"]
  BY <1>1, <1>2, SessionHeld
<1>4. /\ Typed(u) /\ u.slot = NoEnd /\ Rest(v, u) /\ u.act = v.act
      /\ u.all = v.all /\ u.op = v.op /\ u.buf = v.buf /\ u.sess = v.sess
      /\ u.event = v.event /\ u.done = v.done /\ u.moved = v.moved /\ u.total = v.total
  BY <1>3, SlotTyped
<1> HIDE DEF u
<1>5. Apart(t, u, x, FALSE) /\ u.dropped = t.dropped /\ u.left = t.left
  BY <1>2, <1>4 DEF SessionTo, Apart, SameEnd, ActTo, Rest
<1>6. Both(u, e) /\ Off(u, e)
  <2>1. u.all = t.all
    BY <1>3, <1>4
  <2>2. (t.slot = Peer(x) <=> u.slot = Peer(x))
    BY <1>1, <1>4
  <2>3. QED
    BY <1>1, <1>5, <2>1, <2>2, OtherEnd
<1>7. Both(u, x) /\ Whole(u)
  BY <1>3, <1>4 DEF Both, FlightOf, Whole, Rest
<1>8. /\ u.op[x] = "direct" /\ u.buf[x] = t.buf[x] /\ u.event[x] = t.event[x]
      /\ ~u.sess[x].pending
  BY <1>2, <1>4 DEF SessionTo
<1>9. On(u, x)
  BY <1>1, <1>4, <1>5, <1>8 DEF On
<1>10. u.op["w"] = t.op["w"] /\ u.buf["w"] = t.buf["w"] /\ u.total["w"] = t.total["w"]
  BY <1>2, <1>3, <1>4, <1>5, EndsAre DEF SessionTo, Apart, SameEnd
<1>11. Kept(t, u) /\ (Fed(t) => Fed(u))
  BY <1>3, <1>4, <1>5, <1>10 DEF Kept, KeptW, Apart, ActTo, Fed
<1>12. Held(u, {e})
  BY <1>1, <1>4, <1>6, <1>7, <1>9, ArrivingFrom
<1>13. QED
  BY <1>4, <1>11, <1>12 DEF u, v

\* The operation in the slot is over with what it has, and the arrival waits.
LEMMA ReplacedHeld ==
  ASSUME NEW t, NEW e \in Ends, Held(t, {e}), t.slot \in Ends, ~t.dropped, Fed(t),
         t.slot = "w" => Over(t)
  PROVE  LET u == Parked(PendingDone(t, "COMPLETED"), e)
         IN  Held(u, {}) /\ Kept(t, u) /\ Fed(u)
<1> DEFINE v == PendingDone(t, "COMPLETED")
           u == Parked(v, e)
<1>1. "COMPLETED" \in Results
  BY DEF Results
<1>2. Held(v, {e}) /\ v.slot = NoEnd /\ Rest(t, v) /\ ActTo(t, v, "COMPLETED" = "DROPPED")
      /\ KeptW(t, v)
  BY <1>1, PendingHeld
<1>3. /\ t.slot = "r" => (Fed(t) => Fed(v)) /\ (Moving(t) => Moving(v))
      /\ t.slot = "w" => (v.all.mode = "active" => v.all.paused) /\ (Over(t) => Fed(v))
  BY <1>1, PendingFed
<1> HIDE DEF v
<1>4. Kept(t, v) /\ Fed(v) /\ ~v.dropped
  BY <1>2, <1>3, EndsAre DEF Kept, ActTo, Rest
<1>5. Held(u, {}) /\ Kept(v, u) /\ (Fed(v) => Fed(u))
  BY <1>2, <1>4, ParkedHeld
<1>6. Kept(t, u)
  BY <1>4, <1>5, KeptOn
<1>7. QED
  BY <1>4, <1>5, <1>6 DEF u, v

\* The callback of a direct session ran, and the copy it has refused or made.
LEMMA DirectHeld ==
  ASSUME NEW t, NEW e \in Ends, Held(t, {e}), t.slot \in Ends, ~t.dropped, Fed(t),
         NEW x \in {e, t.slot}, t.op[x] = "direct", NEW d, d.k \in Nat,
         d.says \in {"more", "done", "throws"}, \A y \in Ends : Room(t, y, d.k)
  PROVE  LET u == DirectCopy(t, e, x, d) IN Held(u, {}) /\ Kept(t, u) /\ Fed(u)
<1> DEFINE u == DirectCopy(t, e, x, d)
<1>1. Typed(t) /\ Whole(t) /\ Off(t, e) /\ t.slot # e
  BY DEF Held, Off
<1>2. CASE d.says = "throws" \/ (d.k = 0 /\ d.says = "more")
  <2> DEFINE v == DirectFailed(t, x)
  <2>1. u = NoCopy(v, e, x, FALSE)
    BY <1>2 DEF DirectCopy
  <2>2. CASE x = e
    <3>1. u = v
      BY <2>1, <2>2 DEF NoCopy
    <3>2. QED
      BY <2>2, <3>1, FailedArrival
  <2>3. CASE x # e
    <3> DEFINE w == [v EXCEPT !.slot = NoEnd]
    <3>1. u = Parked(w, e)
      BY <2>1, <2>3 DEF NoCopy
    <3>2. Held(w, {e}) /\ Kept(t, w) /\ w.slot = NoEnd /\ (Fed(t) => Fed(w))
      BY <2>3, FailedPending
    <3> HIDE DEF w
    <3>3. ~w.dropped
      BY <3>2 DEF Kept, Rest
    <3>4. Held(Parked(w, e), {}) /\ Kept(w, Parked(w, e)) /\ (Fed(w) => Fed(Parked(w, e)))
      BY <3>2, <3>3, ParkedHeld
    <3>5. Kept(t, Parked(w, e))
      BY <3>2, <3>4, KeptOn
    <3>6. QED
      BY <3>1, <3>2, <3>4, <3>5
  <2>4. QED
    BY <2>2, <2>3
<1>3. CASE d.k = 0 /\ d.says = "done"
  <2> DEFINE v == [t EXCEPT !.sess[x].ended = TRUE]
  <2>1. u = NoCopy(v, e, x, TRUE)
    BY <1>3 DEF DirectCopy
  <2>2. /\ Held(v, {e}) /\ Kept(t, v) /\ v.slot = t.slot /\ v.op = t.op /\ v.buf = t.buf
        /\ (Fed(t) => Fed(v)) /\ v.dropped = t.dropped /\ v.all = t.all
    BY ZenonT(60), SaidHeld
  <2> HIDE DEF v
  <2>3. x = "w" => v.all.mode = "none"
    BY <1>1, <2>2 DEF Whole
  <2>4. CASE x = e
    <3>1. u = ArrivalDone(v, e, "COMPLETED")
      BY <2>1, <2>4 DEF NoCopy
    <3>2. Held(u, {}) /\ Kept(v, u)
      BY <2>2, <3>1, ArrivalHeld
    <3>3. Fed(u)
      <4>1. e = "w" => Over(v)
        BY <2>3, <2>4 DEF Over
      <4>2. QED
        BY <2>2, <3>1, <4>1, ArrivalFed, EndsAre
    <3>4. Kept(t, u)
      BY <2>2, <3>2, KeptOn
    <3>5. QED
      BY <3>2, <3>3, <3>4
  <2>5. CASE x # e
    <3>1. u = Parked(PendingDone(v, "COMPLETED"), e)
      BY <2>1, <2>5 DEF NoCopy
    <3>2. v.slot = "w" => Over(v)
      BY <2>2, <2>3, <2>5 DEF Over
    <3>3. ~v.dropped /\ v.slot \in Ends /\ Fed(v)
      BY <2>2
    <3>4. Held(u, {}) /\ Kept(v, u) /\ Fed(u)
      BY <2>2, <3>1, <3>2, <3>3, ReplacedHeld
    <3>5. Kept(t, u)
      BY <2>2, <3>4, KeptOn
    <3>6. QED
      BY <3>4, <3>5
  <2>6. QED
    BY <2>4, <2>5
<1>4. CASE d.k # 0 /\ d.says # "throws"
  <2> DEFINE b == d.says = "done"
             v == [t EXCEPT !.sess[x].ended = b]
  <2>1. u = Copied(v, e, d.k)
    BY <1>4 DEF DirectCopy
  <2>2. /\ Held(v, {e}) /\ Kept(t, v) /\ v.slot = t.slot /\ v.op = t.op /\ v.buf = t.buf
        /\ (Fed(t) => Fed(v)) /\ v.dropped = t.dropped /\ v.all = t.all
    <3>1. x \in Ends /\ b \in BOOLEAN
      OBVIOUS
    <3> HIDE DEF b
    <3>2. QED
      BY <3>1, SaidHeld
  <2> HIDE DEF v
  <2>3. d.k > 0 /\ \A y \in Ends : Room(v, y, d.k)
    BY <1>4, <2>2 DEF Room
  <2>4. Held(Copied(v, e, d.k), {}) /\ Kept(v, Copied(v, e, d.k)) /\ Fed(Copied(v, e, d.k))
    BY <2>2, <2>3, CopiedHeld
  <2>5. Kept(t, Copied(v, e, d.k))
    BY <2>2, <2>4, KeptOn
  <2>6. QED
    BY <2>1, <2>4, <2>5
<1>5. QED
  BY <1>2, <1>3, <1>4

LEMMA RemainIs ==
  ASSUME NEW t, Typed(t), NEW e \in Ends
  PROVE  /\ Remain(t, e) \in Int /\ t.buf[e].len \in Nat /\ t.buf[e].progress \in Nat
         /\ \A n \in Nat : n <= Remain(t, e) => Room(t, e, n)
BY HostStreamsAssumption DEF Typed, StreamType, BufferType, Remain, Room

LEMMA ExchangedHeld ==
  ASSUME NEW t, NEW e \in Ends, Held(t, {e}), t.slot \in Ends, ~t.dropped, Fed(t),
         Remain(t, e) > 0, Remain(t, t.slot) > 0, NEW d \in Verdicts
  PROVE  LET u == Exchanged(t, e, d) IN Held(u, {}) /\ Kept(t, u) /\ Fed(u)
<1> DEFINE n == Min2(Remain(t, e), Remain(t, t.slot))
           D == {x \in {e, t.slot} : t.op[x] = "direct"}
           c == [d EXCEPT !.k = Min2(@, n)]
           x == CHOOSE x \in D : TRUE
<1>1. Typed(t) /\ Off(t, e) /\ t.slot # e
  BY DEF Held, Off
<1>2. n \in Nat /\ n > 0 /\ n <= Remain(t, e) /\ n <= Remain(t, t.slot)
  BY <1>1, RemainIs DEF Min2
<1> HIDE DEF n
<1>3. ASSUME NEW m \in Nat, m <= n PROVE \A y \in Ends : Room(t, y, m)
  <2>1. m <= Remain(t, e) /\ m <= Remain(t, t.slot)
    BY <1>1, <1>2, <1>3, RemainIs
  <2>2. Room(t, e, m) /\ Room(t, t.slot, m)
    BY <1>1, <2>1, RemainIs
  <2>3. QED
    BY <1>1, <2>2, EndsAre
<1>4. CASE D = {}
  <2>1. Exchanged(t, e, d) = Copied(t, e, n)
    BY <1>4 DEF Exchanged, n
  <2>2. \A y \in Ends : Room(t, y, n)
    BY <1>2, <1>3
  <2>3. QED
    BY <1>2, <2>1, <2>2, CopiedHeld
<1>5. CASE D = Ends
  <2>1. Exchanged(t, e, d) = DirectFailed(t, e) /\ t.op[e] = "direct"
    BY <1>5, EndsAre DEF Exchanged
  <2>2. QED
    BY <2>1, FailedArrival
<1>6. CASE D # {} /\ D # Ends
  <2>1. Exchanged(t, e, d) = DirectCopy(t, e, x, c)
    BY <1>6 DEF Exchanged, n
  <2>2. x \in {e, t.slot} /\ t.op[x] = "direct"
    BY <1>6
  <2>3. c.k \in Nat /\ c.k <= n /\ c.says \in {"more", "done", "throws"}
    BY <1>2, HostStreamsAssumption DEF Verdicts, Min2
  <2> HIDE DEF x, c
  <2>4. \A y \in Ends : Room(t, y, c.k)
    BY <1>3, <2>3
  <2>5. QED
    BY <2>1, <2>2, <2>3, <2>4, DirectHeld
<1>7. QED
  BY <1>4, <1>5, <1>6

\* SharedStreamImpl.read and write.
LEMMA ArrivesHeld ==
  ASSUME NEW t, NEW e \in Ends, Held(t, {e}), t.dropped => t.act.closed, Fed(t), NEW d \in Verdicts
  PROVE  LET u == Arrives(t, e, d) IN Held(u, {}) /\ Kept(t, u) /\ Fed(u)
<1> DEFINE u == Arrives(t, e, d)
<1>1. /\ Typed(t) /\ Whole(t) /\ Off(t, e) /\ t.op[e] # "none" /\ t.slot \in Ends \cup {NoEnd}
      /\ t.slot # e
  BY DEF Held, Off, Typed, StreamType
<1>2. ASSUME NEW res, res = "DROPPED" => t.dropped, u = ArrivalDone(t, e, res), e = "w" => Over(t)
      PROVE  Held(u, {}) /\ Kept(t, u) /\ Fed(u)
  BY <1>2, ArrivalHeld, ArrivalFed, EndsAre
\* A write of writeAll that is offered has something to give.
<1>3. ASSUME NEW x \in {e, t.slot}, x = "w", t.op[x] # "none", ~(Remain(t, x) > 0) \/ t.buf[x].len = 0
      PROVE  Over(t)
  <2>1. SUFFICES ASSUME t.all.mode = "active", ~t.all.paused PROVE FALSE
    BY DEF Over
  <2>2. t.op["w"] = "plain" /\ t.buf["w"].progress < t.buf["w"].len
    BY <1>1, <1>3, <2>1 DEF Whole, Fed
  <2>3. Remain(t, "w") = t.buf["w"].len - t.buf["w"].progress
    BY <2>2 DEF Remain
  <2>4. "w" \in Ends
    BY DEF Ends
  <2>5. t.buf["w"].len \in Nat /\ t.buf["w"].progress \in Nat
    BY <1>1, <2>4, RemainIs
  <2>6. QED
    BY <1>3, <2>2, <2>3, <2>5
<1>4. CASE t.dropped
  <2>1. u = ArrivalDone(t, e, "DROPPED")
    BY <1>4 DEF Arrives
  <2>2. Over(t)
    BY <1>4 DEF Over
  <2>3. QED
    BY <1>2, <1>4, <2>1, <2>2
<1>5. CASE ~t.dropped /\ t.slot = NoEnd
  <2>1. u = Parked(t, e)
    BY <1>5 DEF Arrives
  <2>2. QED
    BY <1>5, <2>1, ParkedHeld
<1>6. CASE ~t.dropped /\ t.slot # NoEnd
  <2>1. t.slot \in Ends /\ t.op[t.slot] # "none"
    <3>1. t.slot \in Ends
      BY <1>1, <1>6
    <3>2. On(t, t.slot)
      BY <1>1, <3>1, HeldParts
    <3>3. QED
      BY <3>1, <3>2 DEF On
  <2>2. u = IF Remain(t, t.slot) > 0
              THEN IF Remain(t, e) > 0
                     THEN Exchanged(t, e, d)
                     ELSE ArrivalDone(t, e, "COMPLETED")
            ELSE IF EmptyHandshake(t, e)
              THEN ArrivalDone(t, e, "COMPLETED")
              ELSE Parked(PendingDone(t, "COMPLETED"), e)
    BY <1>6 DEF Arrives
  <2> SUFFICES Held(u, {}) /\ Kept(t, u) /\ Fed(u)
    OBVIOUS
  <2> HIDE DEF u
  <2>3. CASE Remain(t, t.slot) > 0 /\ Remain(t, e) > 0
    BY <1>6, <2>1, <2>2, <2>3, ExchangedHeld
  <2>4. CASE Remain(t, t.slot) > 0 /\ ~(Remain(t, e) > 0)
    <3>1. e = "w" => Over(t)
      BY <1>1, <1>3, <2>4
    <3>2. QED
      BY <1>2, <2>2, <2>4, <3>1
  <2>5. CASE ~(Remain(t, t.slot) > 0) /\ EmptyHandshake(t, e)
    <3>1. e = "w" => Over(t)
      BY <1>1, <1>3, <2>5 DEF EmptyHandshake
    <3>2. QED
      BY <1>2, <2>2, <2>5, <3>1
  <2>6. CASE ~(Remain(t, t.slot) > 0) /\ ~EmptyHandshake(t, e)
    <3>1. t.slot = "w" => Over(t)
      BY <1>3, <2>1, <2>6
    <3>2. QED
      BY <1>6, <2>1, <2>2, <2>6, <3>1, ReplacedHeld
  <2>7. QED
    BY <2>3, <2>4, <2>5, <2>6
<1>7. QED
  BY <1>4, <1>5, <1>6

\* SharedStreamImpl.drop closes the activity and leaves nobody waiting.
DropTo(t, u) ==
  /\ Held(u, {}) /\ u.dropped /\ u.act = Closed(t.act) /\ u.left = t.left /\ u.poisoned = t.poisoned
  /\ KeptW(t, u) /\ u.slot = NoEnd
  /\ \A e \in Ends : u.op[e] \in {"none", t.op[e]}

LEMMA DroppedSlot ==
  ASSUME NEW t, Held(t, {}), t.dropped
  PROVE  t.slot = NoEnd
<1>1. t.slot \in Ends \cup {NoEnd} /\ \A e \in Ends : On(t, e)
  BY HeldParts DEF Typed, StreamType
<1>2. QED
  BY <1>1 DEF On

\* What the drop observers tell the ends that wait for nothing.
LEMMA ToldHeld ==
  ASSUME NEW t, Typed(t), Whole(t), \A e \in Ends : Both(t, e), t.slot = NoEnd, NEW N,
         \A e \in Ends :
           /\ t.op[e] # "plain" /\ ~t.sess[e].pending
           /\ t.op[e] # "guest" => t.event[e] \in {"none", "idleDrop"}
           /\ alive => t.event[e] # "onCopy" /\ (t.op[e] = "guest" => t.event[e] # "none")
  PROVE  LET idle == {e \in N : ~t.done[e] /\ t.event[e] = "none"}
             u == [t EXCEPT !.dropped = TRUE,
                            !.act = Closed(@),
                            !.event = [e \in Ends |-> IF e \in idle THEN "idleDrop" ELSE @[e]]]
         IN  /\ Held(u, {}) /\ u.dropped /\ u.act = Closed(t.act) /\ u.left = t.left
             /\ u.poisoned = t.poisoned /\ KeptW(t, u) /\ u.slot = NoEnd /\ u.op = t.op
             /\ u.all = t.all /\ u.buf = t.buf
<1> DEFINE idle == {e \in N : ~t.done[e] /\ t.event[e] = "none"}
           n == [e \in Ends |-> IF e \in idle THEN "idleDrop" ELSE t.event[e]]
           a == Closed(t.act)
           u == [t EXCEPT !.dropped = TRUE, !.act = a, !.event = n]
<1>1. t \in StreamType /\ t.event \in [Ends -> Deliveries] /\ ActSound(t.act)
  BY DEF Typed, StreamType
<1>2. ActSound(a) /\ a \in ActType
  BY <1>1, ClosedSound DEF ActSound
<1>3. /\ n \in [Ends -> Deliveries]
      /\ \A e \in Ends : n[e] = "idleDrop" \/ n[e] = t.event[e]
      /\ \A e \in Ends : n[e] = "idleDrop" /\ t.event[e] # "idleDrop" => t.event[e] = "none"
  BY <1>1 DEF Deliveries
<1> HIDE DEF n, a
<1>4. /\ Typed(u) /\ u.dropped /\ u.act = a /\ u.event = n /\ u.slot = NoEnd /\ u.left = t.left
      /\ u.poisoned = t.poisoned /\ u.op = t.op /\ u.all = t.all /\ u.buf = t.buf /\ u.sess = t.sess
      /\ u.done = t.done /\ u.moved = t.moved /\ u.total = t.total
  BY <1>1, <1>2, <1>3 DEF Typed, StreamType
<1>5. [t EXCEPT !.dropped = TRUE, !.act = Closed(@),
                !.event = [e \in Ends |-> IF e \in idle THEN "idleDrop" ELSE @[e]]] = u
  BY <1>1 DEF StreamType, a, n
<1> HIDE DEF u, idle
<1>6. Whole(u) /\ KeptW(t, u)
  BY <1>4 DEF Whole, KeptW
<1>7. ASSUME NEW e \in Ends PROVE Both(u, e) /\ On(u, e)
  <2>1. Both(u, e)
    BY <1>4 DEF Both, FlightOf
  <2>2. On(u, e)
    <3>1. e # NoEnd /\ t.event[e] \in Deliveries
      BY <1>1, EndsAre
    <3>2. /\ t.op[e] # "plain" /\ ~t.sess[e].pending
          /\ t.op[e] # "guest" => t.event[e] \in {"none", "idleDrop"}
          /\ alive => t.event[e] # "onCopy" /\ (t.op[e] = "guest" => t.event[e] # "none")
      OBVIOUS
    <3>3. n[e] = "idleDrop" \/ n[e] = t.event[e]
      BY <1>3
    <3>4. QED
      BY <1>4, <3>1, <3>2, <3>3 DEF On
  <2>3. QED
    BY <2>1, <2>2
<1>8. Held(u, {})
  BY <1>4, <1>6, <1>7 DEF Held
<1>9. QED
  BY <1>4, <1>5, <1>6, <1>8 DEF a, idle

LEMMA DroppedHeld ==
  ASSUME NEW t, Held(t, {}), t.dropped => t.act.closed, NEW N
  PROVE  LET u == DroppedBy(t, N) IN DropTo(t, u) /\ (Fed(t) => Fed(u))
<1> DEFINE u == DroppedBy(t, N)
<1>1. Typed(t) /\ Whole(t) /\ ActSound(t.act) /\ t.slot \in Ends \cup {NoEnd}
      /\ \A e \in Ends : Both(t, e) /\ On(t, e)
  BY HeldParts DEF Typed, StreamType
<1>2. CASE t.dropped
  <2>1. u = t
    BY <1>2 DEF DroppedBy
  <2>2. t.slot = NoEnd /\ Closed(t.act) = t.act
    BY <1>1, <1>2, DroppedSlot, ClosedSound
  <2>3. QED
    BY <1>2, <2>1, <2>2 DEF DropTo, KeptW
<1>3. CASE ~t.dropped
  <2> DEFINE v == IF t.slot = NoEnd THEN t ELSE PendingDone(t, "DROPPED")
             idle == {e \in N : ~v.done[e] /\ v.event[e] = "none"}
             w == [v EXCEPT !.dropped = TRUE,
                            !.act = Closed(@),
                            !.event = [e \in Ends |-> IF e \in idle THEN "idleDrop" ELSE @[e]]]
  <2>1. u = w
    BY <1>3 DEF DroppedBy
  <2>2. /\ Held(v, {}) /\ v.slot = NoEnd /\ Rest(t, v) /\ ActTo(t, v, TRUE) /\ KeptW(t, v)
        /\ \A e \in Ends : v.op[e] \in {"none", t.op[e]}
        /\ Fed(t) /\ v.all.mode = "active" /\ ~v.all.paused => v.buf["w"].progress < v.buf["w"].len
    <3>1. CASE t.slot = NoEnd
      BY <3>1 DEF Rest, ActTo, KeptW, Fed
    <3>2. CASE t.slot # NoEnd
      <4> DEFINE p == PendingDone(t, "DROPPED")
      <4>1. t.slot \in Ends /\ "DROPPED" \in Results /\ v = p
        BY <1>1, <3>2 DEF Results
      <4>2. /\ Held(p, {}) /\ p.slot = NoEnd /\ Rest(t, p) /\ ActTo(t, p, "DROPPED" = "DROPPED")
            /\ KeptW(t, p) /\ SameEnd(t, p, Peer(t.slot)) /\ p.op[t.slot] \in {"none", t.op[t.slot]}
        BY <4>1, PendingHeld
      <4>3. /\ t.slot = "r" => (Fed(t) => Fed(p)) /\ (Moving(t) => Moving(p))
            /\ t.slot = "w" => (p.all.mode = "active" => p.all.paused) /\ (Over(t) => Fed(p))
        BY <4>1, PendingFed
      <4> HIDE DEF p, v
      <4>4. \A e \in Ends : p.op[e] \in {"none", t.op[e]}
        BY <4>1, <4>2, EndsAre DEF SameEnd
      <4>5. Fed(t) /\ p.all.mode = "active" /\ ~p.all.paused => p.buf["w"].progress < p.buf["w"].len
        BY <4>1, <4>3, EndsAre DEF Fed
      <4>6. QED
        BY <4>1, <4>2, <4>4, <4>5
    <3>3. QED
      BY <3>1, <3>2
  <2> HIDE DEF v
  <2>3. Typed(v) /\ Whole(v) /\ \A e \in Ends : Both(v, e) /\ On(v, e)
    BY <2>2 DEF Held
  <2>4. \A e \in Ends :
           /\ v.op[e] # "plain" /\ ~v.sess[e].pending
           /\ v.op[e] # "guest" => v.event[e] \in {"none", "idleDrop"}
           /\ alive => v.event[e] # "onCopy" /\ (v.op[e] = "guest" => v.event[e] # "none")
    BY <2>2, <2>3, EndsAre DEF On
  <2>5. /\ Held(w, {}) /\ w.dropped /\ w.act = Closed(v.act) /\ w.left = v.left
        /\ w.poisoned = v.poisoned /\ KeptW(v, w) /\ w.slot = NoEnd /\ w.op = v.op
        /\ w.all = v.all /\ w.buf = v.buf
    BY ZenonT(60), <2>2, <2>3, <2>4, ToldHeld
  <2> HIDE DEF w, idle
  <2>6. KeptW(t, w)
    BY <2>2, <2>5, KeptOn
  <2>7. w.act = Closed(t.act)
    BY <1>1, <2>2, <2>5, ClosedSound DEF ActTo
  <2>8. Fed(t) => Fed(w)
    BY <2>2, <2>5 DEF Fed
  <2>9. DropTo(t, w)
    BY <2>2, <2>5, <2>6, <2>7 DEF DropTo, Rest
  <2>10. QED
    BY <2>1, <2>8, <2>9 DEF u, w, idle
<1>4. QED
  BY <1>2, <1>3

-----------------------------------------------------------------------------
(* The operations around the rendezvous. *)

LEMMA NotifySame == ASSUME NEW t, Typed(t) PROVE [t EXCEPT !.act = Notified(@)] = t
<1>1. Notified(t.act) = t.act /\ t \in StreamType
  BY NotifiedSame DEF Typed
<1>2. QED
  BY <1>1 DEF StreamType

\* End e may put in an operation.
MayOffer(t, e, how, len) ==
  /\ how \in {"plain", "direct", "guest"} /\ (how = "guest" <=> Side(e) = "guest")
  /\ how = "guest" => ~t.left[e]
  /\ how = "direct" => t.sess[e].step = "none"
  /\ len \in 0..MaxLen /\ t.op[e] = "none"

\* End e puts its operation in: what it had of the stream stays.
LEMMA OfferedHeld ==
  ASSUME NEW t, Typed(t), \A x \in Ends : Both(t, x) /\ On(t, x), NEW e \in Ends,
         NEW how, NEW len, MayOffer(t, e, how, len), Whole(Offered(t, e, how, len))
  PROVE  LET u == Offered(t, e, how, len)
         IN  /\ Held(u, {e}) /\ Rest(t, u) /\ u.act = t.act /\ u.all = t.all /\ u.total = t.total
             /\ u.op[Peer(e)] = t.op[Peer(e)] /\ u.buf[Peer(e)] = t.buf[Peer(e)]
             /\ u.buf[e].len = len /\ u.buf[e].progress = 0 /\ u.op[e] = how
<1> DEFINE c == [len |-> len, progress |-> 0]
           o == [t.op EXCEPT ![e] = how]
           b == [t.buf EXCEPT ![e] = c]
           u == [t EXCEPT !.op = o, !.buf = b]
           x == Peer(e)
<1>1. t \in StreamType /\ t.op \in [Ends -> Ops] /\ t.buf \in [Ends -> BufferType]
      /\ how \in {"plain", "direct", "guest"} /\ (how = "guest" <=> Side(e) = "guest")
      /\ (how = "guest" => ~t.left[e]) /\ (how = "direct" => t.sess[e].step = "none")
      /\ len \in 0..MaxLen /\ t.op[e] = "none"
  BY DEF Typed, StreamType, MayOffer
<1>2. Offered(t, e, how, len) = u
  BY <1>1 DEF Offered, StreamType
<1>3. c \in BufferType /\ c.len = len /\ c.progress = 0
  BY <1>1, HostStreamsAssumption DEF BufferType
<1> HIDE DEF c
<1>4. /\ o \in [Ends -> Ops] /\ b \in [Ends -> BufferType] /\ o[e] = how /\ b[e] = c
      /\ x \in Ends /\ x # e /\ o[x] = t.op[x] /\ b[x] = t.buf[x] /\ e # NoEnd
  BY <1>1, <1>3, EndsAre DEF Ops
<1> HIDE DEF o, b
<1>5. /\ Typed(u) /\ Rest(t, u) /\ u.act = t.act /\ u.slot = t.slot /\ u.all = t.all
      /\ u.op = o /\ u.buf = b /\ u.sess = t.sess /\ u.event = t.event
      /\ u.done = t.done /\ u.moved = t.moved /\ u.total = t.total
      /\ u.dropped = t.dropped /\ u.left = t.left
  BY <1>1, <1>4 DEF Typed, StreamType, Rest
<1>6. Whole(u)
  BY <1>2
<1> HIDE DEF u
<1>7. Both(u, x) /\ On(u, x)
  BY <1>4, <1>5 DEF Both, FlightOf, On
<1>8. Both(t, e) /\ On(t, e)
  OBVIOUS
<1>9. Both(u, e)
  <2>1. FlightOf(u, e) = FlightOf(t, e)
    BY <1>1, <1>3, <1>4, <1>5 DEF FlightOf
  <2>2. QED
    BY <1>1, <1>3, <1>4, <1>5, <1>8, <2>1 DEF Both
<1>10. Off(u, e)
  BY <1>1, <1>4, <1>5, <1>8 DEF On, Off
<1>11. Held(u, {e})
  BY <1>5, <1>6, <1>7, <1>9, <1>10, ArrivingFrom
<1>12. QED
  BY <1>2, <1>3, <1>4, <1>5, <1>11

\* A host's or a guest's call of the rendezvous, for all but writeAll.
LEMMA CopyHeld ==
  ASSUME NEW t, Held(t, {}), t.dropped => t.act.closed, Fed(t), NEW e \in Ends,
         NEW how, NEW len, MayOffer(t, e, how, len), e = "w" => t.all.mode = "none", NEW d \in Verdicts
  PROVE  LET u == Arrives(Offered(t, e, how, len), e, d)
         IN  Held(u, {}) /\ Rest(t, u) /\ u.act = t.act /\ Fed(u) /\ (e = "r" => KeptW(t, u))
             /\ [u EXCEPT !.act = Notified(@)] = u
<1> DEFINE v == Offered(t, e, how, len)
           u == Arrives(v, e, d)
<1>1. Typed(t) /\ Whole(t) /\ \A x \in Ends : Both(t, x) /\ On(t, x)
  BY HeldParts
<1>2. Whole(v)
  <2>1. /\ v.all = t.all /\ (e = "r" => v.op["w"] = t.op["w"] /\ v.buf["w"] = t.buf["w"])
    BY <1>1, EndsAre DEF Offered, Typed, StreamType
  <2>2. QED
    BY <1>1, <2>1, EndsAre DEF Whole
<1>3. /\ Held(v, {e}) /\ Rest(t, v) /\ v.act = t.act /\ v.all = t.all /\ v.total = t.total
      /\ v.op[Peer(e)] = t.op[Peer(e)] /\ v.buf[Peer(e)] = t.buf[Peer(e)]
  <2>1. Typed(t)
    BY <1>1
  <2>2. \A x \in Ends : Both(t, x) /\ On(t, x)
    BY <1>1
  <2>3. Whole(Offered(t, e, how, len))
    BY <1>2
  <2>4. QED
    BY <2>1, <2>2, <2>3, OfferedHeld
<1> HIDE DEF v
<1>4. Fed(v) /\ (v.dropped => v.act.closed) /\ v.dropped = t.dropped
  BY <1>3, EndsAre DEF Fed, Rest, Peer
<1>5. Held(u, {}) /\ Kept(v, u) /\ Fed(u)
  BY <1>3, <1>4, ArrivesHeld
<1> HIDE DEF u
<1>6. Rest(t, u) /\ u.act = t.act
  BY <1>3, <1>5 DEF Kept, Rest
<1>7. e = "r" => KeptW(t, u)
  <2>1. e = "r" => KeptW(t, v)
    BY <1>3 DEF KeptW, Peer
  <2>2. QED
    BY <1>5, <2>1, KeptOn DEF Kept
<1>8. [u EXCEPT !.act = Notified(@)] = u
  BY <1>5, NotifySame DEF Held
<1>9. QED
  BY <1>5, <1>6, <1>7, <1>8 DEF u, v

\* A guest's end is told how its copy, or the stream, has ended.
LEMMA DeliveredHeld ==
  ASSUME NEW t, Held(t, {}), NEW e \in Ends, Side(e) = "guest", alive, t.event[e] # "none", NEW res
  PROVE  LET u == Delivered(t, e, res)
         IN  Held(u, {}) /\ Rest(t, u) /\ u.act = t.act /\ (Fed(t) => Fed(u)) /\ KeptW(t, u)
<1> DEFINE r == IF t.dropped THEN "DROPPED" ELSE res
           v == Recorded(t, e, r)
           n == [v.event EXCEPT ![e] = "none"]
           f == [v.done EXCEPT ![e] = r = "DROPPED"]
           z == IF t.event[e] = "onCopy" THEN NoEnd ELSE v.slot
           u == [v EXCEPT !.event = n, !.slot = z, !.done = f]
           x == Peer(e)
<1>1. Typed(t) /\ Whole(t) /\ Both(t, e) /\ Both(t, x) /\ On(t, e) /\ On(t, x)
      /\ x \in Ends /\ x # e /\ e # NoEnd /\ x # NoEnd
  BY EndsAre DEF Held
<1>2. /\ Typed(v) /\ Rest(t, v) /\ SameEnd(t, v, x) /\ v.act = t.act
      /\ v.slot = t.slot /\ v.all = t.all /\ v.op[e] = "none" /\ v.sess[e] = t.sess[e]
      /\ v.event[e] = t.event[e] /\ v.done[e] = t.done[e] /\ v.moved[e] = t.moved[e]
      /\ v.total[e] = t.total[e]
  BY <1>1, RecordedSays
<1>3. Delivered(t, e, res) = u
  BY <1>2 DEF Delivered, Typed, StreamType
<1> HIDE DEF v
<1>4. v \in StreamType /\ v.event \in [Ends -> Deliveries] /\ v.done \in [Ends -> BOOLEAN]
  BY <1>2 DEF Typed, StreamType
<1>5. /\ n \in [Ends -> Deliveries] /\ n[e] = "none" /\ n[x] = v.event[x]
      /\ f \in [Ends -> BOOLEAN] /\ f[e] = (r = "DROPPED") /\ f[x] = v.done[x]
  BY <1>1, <1>4 DEF Deliveries
<1>6. z # e /\ (z = x <=> t.slot = x) /\ z \in Ends \cup {NoEnd}
  BY <1>1, <1>2 DEF On, Typed, StreamType
<1> HIDE DEF n, f, z
<1>7. /\ Typed(u) /\ Rest(v, u) /\ u.act = v.act /\ u.slot = z /\ u.all = v.all
      /\ u.op = v.op /\ u.buf = v.buf /\ u.sess = v.sess /\ u.event = n
      /\ u.done = f /\ u.moved = v.moved /\ u.total = v.total
  BY <1>2, <1>4, <1>5, <1>6 DEF Typed, StreamType, Rest
<1> HIDE DEF u
<1>8. Apart(t, u, e, FALSE)
  BY <1>2, <1>5, <1>7 DEF Apart, SameEnd, ActTo, Rest
<1>9. u.dropped = t.dropped /\ u.left = t.left /\ Rest(t, u) /\ u.act = t.act /\ u.all = t.all
  BY <1>2, <1>7 DEF Rest
<1>10. Both(u, x) /\ On(u, x)
  BY <1>1, <1>6, <1>7, <1>8, <1>9, OtherEnd
<1>11. t.op[e] \in {"none", "guest"}
  BY <1>1 DEF Both, Typed, StreamType, Ops
<1>12. Both(u, e)
  <2>1. FlightOf(u, e) = FlightOf(t, e)
    BY <1>2, <1>7, <1>9, <1>11 DEF FlightOf
  <2>2. u.left[e] => u.done[e]
    BY <1>1, <1>5, <1>7, <1>9 DEF Both
  <2>3. QED
    BY <1>1, <1>2, <1>7, <1>9, <2>1, <2>2 DEF Both
<1>13. On(u, e)
  <2>1. ~t.sess[e].pending
    BY <1>1, <1>11 DEF On
  <2>2. QED
    BY <1>1, <1>2, <1>5, <1>6, <1>7, <2>1 DEF On
<1>14. e = "w" => t.all.mode = "none"
  BY <1>1 DEF Whole, Side
<1>15. e = "r" => u.op["w"] = t.op["w"] /\ u.buf["w"] = t.buf["w"] /\ u.total["w"] = t.total["w"]
  BY <1>8 DEF Apart, SameEnd, Peer
<1>16. Whole(u)
  BY <1>1, <1>9, <1>14, <1>15, EndsAre DEF Whole
<1>17. KeptW(t, u) /\ (Fed(t) => Fed(u))
  BY <1>2, <1>7, <1>9, <1>14, <1>15, EndsAre DEF KeptW, Fed
<1>18. Held(u, {})
  BY <1>1, <1>7, <1>10, <1>12, <1>13, <1>16, SettledFrom
<1>19. QED
  BY <1>3, <1>9, <1>17, <1>18

-----------------------------------------------------------------------------
(* The invariant of the stream, and its steps. *)

\* The activity is closed by the drop, and knows who holds the readable end.
Armed(t, a, h) ==
  /\ t.act.closed <=> t.dropped
  /\ a = "guest" => h > 0
  /\ ~t.act.closed /\ kind = "lifted" => t.act.bound /\ (t.act.disarmed <=> a = "guest")
  /\ ~t.act.closed /\ kind = "created" => ~t.act.disarmed /\ (t.act.bound <=> h > 0)

StreamInv ==
  /\ kind \in {"created", "lifted"} /\ hops \in Nat /\ alive \in BOOLEAN
  /\ Held(s, {}) /\ Fed(s) /\ Armed(s, at, hops)

\* A step that moves no end.
Goes(t, u) ==
  /\ Held(u, {}) /\ Fed(u)
  /\ (u.act = t.act /\ u.dropped = t.dropped) \/ (u.act = Closed(t.act) /\ u.dropped)

LEMMA InvParts ==
  ASSUME StreamInv
  PROVE  /\ Held(s, {}) /\ Typed(s) /\ ActSound(s.act) /\ Whole(s) /\ Fed(s)
         /\ s.act.closed <=> s.dropped
         /\ \A x \in Ends : Both(s, x) /\ On(s, x)
<1>1. Held(s, {}) /\ Fed(s) /\ (s.act.closed <=> s.dropped)
  BY DEF StreamInv, Armed
<1>2. /\ Typed(s) /\ ActSound(s.act) /\ Whole(s)
      /\ \A x \in Ends : Both(s, x) /\ On(s, x)
  BY <1>1, HeldParts
<1>3. QED
  BY <1>1, <1>2

LEMMA StillHeld ==
  ASSUME Held(s', {}), UNCHANGED <<kind, at, alive>>
  PROVE  Held(s, {})'
BY DEF Held, Typed, Whole, Both, On, Off, FlightOf, Side

LEMMA GoesOn ==
  ASSUME StreamInv, Goes(s, s'), UNCHANGED <<kind, at, hops, alive>>
  PROVE  StreamInv'
<1>1. Held(s, {})'
  BY StillHeld DEF Goes
<1>2. Fed(s)'
  BY DEF Goes, Fed
<1>3. Armed(s, at, hops)'
  <2>1. ActSound(s.act) /\ Armed(s, at, hops)
    BY InvParts DEF StreamInv
  <2>2. Closed(s.act).closed
    BY <2>1 DEF Closed, ActSound, ActType
  <2>3. CASE s'.act = s.act /\ s'.dropped = s.dropped
    BY <2>1, <2>3 DEF Armed
  <2>4. CASE s'.act = Closed(s.act) /\ s'.dropped
    BY <2>1, <2>2, <2>4 DEF Armed
  <2>5. QED
    BY <2>3, <2>4 DEF Goes
<1>4. QED
  BY <1>1, <1>2, <1>3 DEF StreamInv

LEMMA HostCopyStep ==
  ASSUME StreamInv, NEW e \in Ends, NEW len \in 0..MaxLen, HostCopy(e, len)
  PROVE  Goes(s, s') /\ (e = "r" => KeptW(s, s')) /\ UNCHANGED <<kind, at, hops, alive>>
<1>1. PICK d \in Verdicts : Step(Issued(Offered(s, e, "plain", len), e, d))
  BY DEF HostCopy
<1> DEFINE u == Arrives(Offered(s, e, "plain", len), e, d)
<1>2. Held(s, {}) /\ Fed(s) /\ (s.dropped => s.act.closed)
  BY InvParts
<1>3. MayOffer(s, e, "plain", len) /\ (e = "w" => s.all.mode = "none")
  BY DEF HostCopy, Idle, MayOffer
<1>4. Held(u, {}) /\ Rest(s, u) /\ u.act = s.act /\ Fed(u) /\ (e = "r" => KeptW(s, u))
      /\ [u EXCEPT !.act = Notified(@)] = u
  BY <1>2, <1>3, CopyHeld
<1>5. s' = u /\ UNCHANGED <<kind, at, hops, alive>>
  BY <1>1, <1>4 DEF Step, Issued
<1> HIDE DEF u
<1>6. QED
  BY <1>4, <1>5 DEF Goes, Rest

LEMMA GuestCopyStep ==
  ASSUME StreamInv, NEW e \in Ends, NEW len \in 0..MaxLen, GuestCopy(e, len)
  PROVE  Goes(s, s') /\ (e = "r" => KeptW(s, s')) /\ UNCHANGED <<kind, at, hops, alive>>
<1>1. PICK d \in Verdicts : Step(Arrives(Offered(s, e, "guest", len), e, d))
  BY DEF GuestCopy
<1> DEFINE u == Arrives(Offered(s, e, "guest", len), e, d)
<1>2. Held(s, {}) /\ Fed(s) /\ (s.dropped => s.act.closed) /\ Whole(s) /\ Both(s, e)
  BY InvParts
<1>3. MayOffer(s, e, "guest", len)
  BY <1>2 DEF GuestCopy, GuestHas, MayOffer, Both
<1>4. e = "w" => s.all.mode = "none"
  BY <1>2 DEF GuestCopy, GuestHas, Side, Whole
<1>5. Held(u, {}) /\ Rest(s, u) /\ u.act = s.act /\ Fed(u) /\ (e = "r" => KeptW(s, u))
  BY <1>2, <1>3, <1>4, CopyHeld
<1>6. s' = u /\ UNCHANGED <<kind, at, hops, alive>>
  BY <1>1 DEF Step
<1> HIDE DEF u
<1>7. QED
  BY <1>5, <1>6 DEF Goes, Rest

\* A session is renewed, or told that its host has cancelled.
LEMMA SessionRenewed ==
  ASSUME NEW t, Held(t, {}), NEW e \in Ends, NEW c \in SessionType,
         \/ t.slot # e /\ ~c.pending
         \/ c.pending = t.sess[e].pending /\ c.step = t.sess[e].step
  PROVE  LET u == [t EXCEPT !.sess[e] = c]
         IN  /\ Held(u, {}) /\ Kept(t, u) /\ (Fed(t) => Fed(u)) /\ u.sess[e] = c
             /\ u.op = t.op /\ u.all = t.all /\ u.slot = t.slot /\ u.left = t.left
             /\ u.dropped = t.dropped /\ u.act = t.act
<1> DEFINE n == [t.sess EXCEPT ![e] = c]
           u == [t EXCEPT !.sess = n]
<1>1. /\ Typed(t) /\ Whole(t) /\ \A x \in Ends : Both(t, x) /\ On(t, x)
  BY HeldParts
<1>2. n \in [Ends -> SessionType] /\ n[e] = c /\ \A x \in Ends : x # e => n[x] = t.sess[x]
  BY <1>1 DEF Typed, StreamType
<1>3. [t EXCEPT !.sess[e] = c] = u
  BY <1>1 DEF Typed, StreamType
<1> HIDE DEF n
<1>4. /\ Typed(u) /\ u.sess = n /\ Rest(t, u) /\ u.act = t.act /\ u.slot = t.slot
      /\ u.all = t.all /\ u.op = t.op /\ u.buf = t.buf /\ u.event = t.event
      /\ u.done = t.done /\ u.moved = t.moved /\ u.total = t.total
  BY <1>1, <1>2, SessionsTyped
<1> HIDE DEF u
<1>5. u.dropped = t.dropped /\ u.left = t.left
  BY <1>4 DEF Rest
<1>6. Whole(u) /\ Kept(t, u) /\ (Fed(t) => Fed(u))
  BY <1>1, <1>4, <1>5 DEF Whole, Kept, KeptW, Fed
<1>7. ASSUME NEW x \in Ends PROVE Both(u, x) /\ On(u, x)
  <2>1. Both(u, x)
    BY <1>1, <1>4, <1>5 DEF Both, FlightOf
  <2>2. On(t, x)
    BY <1>1
  <2>3. \/ x = e /\ u.sess[x] = c /\ u.slot # x /\ ~c.pending
        \/ u.sess[x].pending = t.sess[x].pending /\ u.sess[x].step = t.sess[x].step
    BY <1>2, <1>4
  <2>4. On(u, x)
    BY <1>4, <1>5, <2>2, <2>3 DEF On
  <2>5. QED
    BY <2>1, <2>4
<1>8. Held(u, {})
  BY <1>4, <1>6, <1>7 DEF Held
<1>9. QED
  BY <1>2, <1>3, <1>4, <1>5, <1>6, <1>8

LEMMA HostDirectStep ==
  ASSUME StreamInv, NEW e \in Ends, HostDirect(e)
  PROVE  Goes(s, s') /\ (e = "r" => KeptW(s, s')) /\ UNCHANGED <<kind, at, hops, alive>>
<1> DEFINE v == [s EXCEPT !.sess[e] = FreshSession]
<1>1. PICK d \in Verdicts : Step(Issued(Offered(v, e, "direct", MaxLen), e, d))
  BY DEF HostDirect
<1> DEFINE u == Arrives(Offered(v, e, "direct", MaxLen), e, d)
<1>2. Held(s, {}) /\ Fed(s) /\ (s.dropped => s.act.closed) /\ On(s, e)
  BY InvParts
<1>3. s.slot # e
  BY <1>2 DEF HostDirect, Idle, On
<1>4. FreshSession \in SessionType /\ ~FreshSession.pending /\ FreshSession.step = "none"
  BY DEF FreshSession, SessionType, Turns
<1>5. /\ Held(v, {}) /\ Kept(s, v) /\ (Fed(s) => Fed(v)) /\ v.sess[e] = FreshSession
      /\ v.op = s.op /\ v.all = s.all /\ v.slot = s.slot /\ v.left = s.left
      /\ v.dropped = s.dropped /\ v.act = s.act
  BY <1>2, <1>3, <1>4, SessionRenewed
<1> HIDE DEF v
<1>6. MayOffer(v, e, "direct", MaxLen) /\ (e = "w" => v.all.mode = "none")
  BY <1>4, <1>5, HostStreamsAssumption DEF HostDirect, Idle, MayOffer
<1>7. Held(u, {}) /\ Rest(v, u) /\ u.act = v.act /\ Fed(u) /\ (e = "r" => KeptW(v, u))
      /\ [u EXCEPT !.act = Notified(@)] = u
  BY <1>2, <1>5, <1>6, CopyHeld
<1>8. s' = u /\ UNCHANGED <<kind, at, hops, alive>>
  BY <1>1, <1>7 DEF Step, Issued
<1> HIDE DEF u
<1>9. e = "r" => KeptW(s, u)
  BY <1>5, <1>7, KeptOn DEF Kept
<1>10. QED
  BY <1>5, <1>7, <1>8, <1>9 DEF Goes, Rest

LEMMA SessionResumesStep ==
  ASSUME StreamInv, NEW e \in Ends, SessionResumes(e)
  PROVE  /\ Goes(s, s') /\ (e = "r" => KeptW(s, s')) /\ UNCHANGED <<kind, at, hops, alive>>
         /\ s.op[e] = "direct"
<1>1. /\ Held(s, {}) /\ Fed(s) /\ (s.dropped => s.act.closed) /\ On(s, e) /\ Typed(s) /\ Whole(s)
      /\ Both(s, e) /\ Both(s, Peer(e)) /\ On(s, Peer(e)) /\ Peer(e) \in Ends /\ Peer(e) # e
  BY InvParts, EndsAre
<1>2. s.op[e] = "direct" /\ s.slot # e /\ ~s.sess[e].pending
  BY <1>1 DEF SessionResumes, On
<1>3. CASE Step([s EXCEPT !.op[e] = "none", !.buf[e] = NoBuffer, !.sess[e] = FreshSession,
                          !.total[e] = @ + s.buf[e].progress])
  <2> DEFINE p == s.buf[e].progress
             o == [s.op EXCEPT ![e] = "none"]
             b == [s.buf EXCEPT ![e] = NoBuffer]
             n == [s.sess EXCEPT ![e] = FreshSession]
             m == [s.total EXCEPT ![e] = @ + p]
             u == [s EXCEPT !.op = o, !.buf = b, !.sess = n, !.total = m]
  <2>1. /\ s \in StreamType /\ s.op \in [Ends -> Ops] /\ s.buf \in [Ends -> BufferType]
        /\ s.sess \in [Ends -> SessionType] /\ s.total \in [Ends -> Nat] /\ p \in Nat
        /\ s.total[e] \in Nat /\ s.all \in WholeType
    BY <1>1 DEF Typed, StreamType, BufferType
  <2>2. s' = u /\ UNCHANGED <<kind, at, hops, alive>>
    BY <1>3, <2>1 DEF Step, StreamType
  <2>3. NoBuffer \in BufferType /\ FreshSession \in SessionType /\ ~FreshSession.pending
    BY HostStreamsAssumption DEF NoBuffer, BufferType, FreshSession, SessionType, Turns
  <2> HIDE DEF p
  <2>4. /\ o \in [Ends -> Ops] /\ o[e] = "none" /\ o[Peer(e)] = s.op[Peer(e)]
        /\ b \in [Ends -> BufferType] /\ b[Peer(e)] = s.buf[Peer(e)]
        /\ n \in [Ends -> SessionType] /\ n[e] = FreshSession /\ n[Peer(e)] = s.sess[Peer(e)]
        /\ m \in [Ends -> Nat] /\ m[e] = s.total[e] + p /\ m[Peer(e)] = s.total[Peer(e)]
    BY <1>1, <2>1, <2>3 DEF Ops
  <2> HIDE DEF o, b, n, m
  <2>5. /\ Typed(u) /\ u.op = o /\ u.buf = b /\ u.sess = n /\ u.total = m /\ u.slot = s.slot
        /\ u.dropped = s.dropped /\ u.left = s.left /\ u.poisoned = s.poisoned /\ u.act = s.act
        /\ u.all = s.all /\ u.event = s.event /\ u.done = s.done /\ u.moved = s.moved
    BY <1>1, <2>1, <2>4 DEF Typed, StreamType
  <2> HIDE DEF u
  <2>6. Apart(s, u, e, FALSE)
    BY <2>4, <2>5 DEF Apart, SameEnd, Rest, ActTo
  <2>7. Both(u, Peer(e)) /\ On(u, Peer(e))
    BY <1>1, <2>5, <2>6, OtherEnd
  <2>8. Both(u, e)
    <3>1. s.moved[e] = s.total[e] + (p + (IF e = "w" THEN s.all.sent + s.all.got ELSE 0))
      BY <1>1, <1>2 DEF Both, FlightOf, p
    <3>2. FlightOf(u, e) = IF e = "w" THEN s.all.sent + s.all.got ELSE 0
      BY <2>1, <2>4, <2>5 DEF FlightOf, WholeType
    <3>3. u.moved[e] = u.total[e] + FlightOf(u, e)
      BY <2>1, <2>4, <2>5, <3>1, <3>2 DEF WholeType
    <3>4. QED
      BY <1>1, <2>4, <2>5, <3>3 DEF Both
  <2>9. On(u, e)
    BY <1>1, <1>2, <2>3, <2>4, <2>5 DEF On
  <2>10. e = "w" => s.all.mode = "none"
    BY <1>1, <1>2 DEF Whole
  <2>11. e = "r" => u.op["w"] = s.op["w"] /\ u.buf["w"] = s.buf["w"] /\ u.total["w"] = s.total["w"]
    BY <2>4, <2>5 DEF Peer
  <2>12. Whole(u) /\ Fed(u) /\ (e = "r" => KeptW(s, u))
    BY <1>1, <2>5, <2>10, <2>11, EndsAre DEF Whole, Fed, KeptW
  <2>13. Held(u, {})
    BY <2>5, <2>7, <2>8, <2>9, <2>12, SettledFrom
  <2>14. QED
    BY <1>2, <2>2, <2>5, <2>12, <2>13 DEF Goes
<1>4. ASSUME NEW d \in Verdicts, Step(Issued([s EXCEPT !.sess[e].step = "none"], e, d))
      PROVE  /\ Goes(s, s') /\ (e = "r" => KeptW(s, s')) /\ UNCHANGED <<kind, at, hops, alive>>
  <2> DEFINE c == [s.sess[e] EXCEPT !.step = "none"]
             v == [s EXCEPT !.sess[e] = c]
             u == Arrives(v, e, d)
  <2>1. s.sess[e] \in SessionType /\ s.event[e] \in {"none", "idleDrop"}
    BY <1>1, <1>2 DEF Typed, StreamType, On
  <2>2. c \in SessionType /\ ~c.pending /\ c.step = "none"
    BY <1>2, <2>1 DEF SessionType, Turns
  <2>3. [s EXCEPT !.sess[e].step = "none"] = v
    BY <1>1 DEF Typed, StreamType, SessionType
  <2> HIDE DEF c
  <2>4. /\ Held(v, {}) /\ Kept(s, v) /\ (Fed(s) => Fed(v)) /\ v.sess[e] = c
        /\ v.op = s.op /\ v.all = s.all /\ v.slot = s.slot /\ v.left = s.left
        /\ v.dropped = s.dropped /\ v.act = s.act
    BY <1>1, <1>2, <2>2, SessionRenewed
  <2> HIDE DEF v
  <2>5. Held(v, {e})
    <3>1. Typed(v) /\ Whole(v) /\ \A x \in Ends : Both(v, x) /\ On(v, x)
      BY <2>4, HeldParts
    <3>2. Off(v, e)
      BY <1>2, <2>2, <2>4, <3>1 DEF On, Off
    <3>3. QED
      BY <1>1, <3>1, <3>2, ArrivingFrom
  <2>6. Held(u, {}) /\ Kept(v, u) /\ Fed(u)
    BY <1>1, <2>4, <2>5, ArrivesHeld
  <2>7. [u EXCEPT !.act = Notified(@)] = u
    BY <2>6, NotifySame DEF Held
  <2>8. s' = u /\ UNCHANGED <<kind, at, hops, alive>>
    BY <1>4, <2>3, <2>7 DEF Step, Issued
  <2> HIDE DEF u
  <2>9. Kept(s, u)
    BY <2>4, <2>6, KeptOn
  <2>10. QED
    BY <2>6, <2>8, <2>9 DEF Goes, Kept, Rest
<1>5. QED
  BY <1>2, <1>3, <1>4 DEF SessionResumes

\* A session settled between two issuances.
LEMMA SteppedHeld ==
  ASSUME NEW t, Held(t, {}), NEW e \in Ends, t.op[e] = "direct", t.slot # e
  PROVE  LET u == Stepped(t, e, "done") IN Held(u, {}) /\ Kept(t, u) /\ (Fed(t) => Fed(u))
<1> DEFINE u == Stepped(t, e, "done")
<1>1. Typed(t) /\ Whole(t) /\ On(t, e) /\ On(t, Peer(e)) /\ Both(t, e) /\ Both(t, Peer(e))
  BY EndsAre DEF Held
<1>2. SessionTo(t, u, e, FALSE)
  BY <1>1, SteppedSays DEF Turns
<1> HIDE DEF u
<1>3. Whole(u) /\ Both(u, e) /\ Typed(u) /\ u.all = t.all /\ u.total["w"] = t.total["w"]
  BY <1>1, <1>2, SessionHeld
<1>4. Apart(t, u, e, FALSE) /\ u.slot = t.slot /\ u.op[e] = t.op[e] /\ u.buf[e] = t.buf[e]
  BY <1>2 DEF SessionTo
<1>5. Both(u, Peer(e)) /\ On(u, Peer(e))
  BY <1>1, <1>3, <1>4, OtherEnd
<1>6. On(u, e)
  BY <1>1, <1>2, <1>4 DEF SessionTo, Apart, Rest, On
<1>7. u.op["w"] = t.op["w"] /\ u.buf["w"] = t.buf["w"]
  BY <1>4, EndsAre DEF Apart, SameEnd
<1>8. Kept(t, u) /\ (Fed(t) => Fed(u))
  BY <1>3, <1>4, <1>7 DEF Kept, KeptW, Apart, ActTo, Rest, Fed
<1>9. Held(u, {})
  BY <1>1, <1>3, <1>5, <1>6, SettledFrom
<1>10. QED
  BY <1>8, <1>9 DEF u

\* An operation withdrawn by its own side.
LEMMA CancelledHeld ==
  ASSUME NEW t, Held(t, {}), t.slot \in Ends,
         t.slot = "w" => t.all.mode # "active"
  PROVE  LET u == PendingDone(t, "CANCELLED") IN Held(u, {}) /\ Kept(t, u) /\ (Fed(t) => Fed(u))
<1> DEFINE u == PendingDone(t, "CANCELLED")
<1>1. "CANCELLED" \in Results
  BY DEF Results
<1>2. Held(u, {}) /\ u.slot = NoEnd /\ Rest(t, u) /\ ActTo(t, u, "CANCELLED" = "DROPPED")
      /\ KeptW(t, u)
  BY <1>1, PendingHeld
<1>3. /\ t.slot = "r" => (Fed(t) => Fed(u)) /\ (Moving(t) => Moving(u))
      /\ t.slot = "w" => (u.all.mode = "active" => u.all.paused) /\ (Over(t) => Fed(u))
  BY <1>1, PendingFed
<1>4. t.slot = "w" => Over(t)
  BY DEF Over
<1>5. QED
  BY <1>2, <1>3, <1>4, EndsAre DEF Kept, ActTo

LEMMA HostCancelStep ==
  ASSUME StreamInv, NEW e \in Ends, HostCancel(e)
  PROVE  Goes(s, s') /\ (e = "r" => KeptW(s, s')) /\ UNCHANGED <<kind, at, hops, alive>>
<1> DEFINE m == IF e = "w" /\ s.all.mode # "none" THEN "cancelled" ELSE s.all.mode
           a == [s.all EXCEPT !.mode = m]
           t == [s EXCEPT !.all = a]
           u == CASE t.op[e] = "none" -> t
                  [] t.op[e] = "plain" -> PendingDone(t, "CANCELLED")
                  [] OTHER -> CancelSession(t, e)
<1>1. /\ Held(s, {}) /\ Fed(s) /\ Typed(s) /\ Whole(s) /\ \A x \in Ends : Both(s, x) /\ On(s, x)
      /\ s \in StreamType /\ s.all \in WholeType
  BY InvParts DEF Typed, StreamType
<1>2. [s EXCEPT !.all.mode = IF e = "w" /\ @ # "none" THEN "cancelled" ELSE @] = t
  BY <1>1 DEF StreamType, WholeType
<1>3. /\ Step([u EXCEPT !.act = Notified(@)]) /\ Side(e) = "host"
  BY <1>2 DEF HostCancel
<1>4. /\ a \in WholeType /\ a.mode = m /\ a.left = s.all.left /\ a.sent = s.all.sent
      /\ a.got = s.all.got /\ a.paused = s.all.paused
      /\ (m = "none" <=> s.all.mode = "none") /\ (s.all.mode = "none" \/ e = "r" => a = s.all)
  BY <1>1 DEF WholeType
<1> HIDE DEF m, a
<1>5. /\ Typed(t) /\ t.all = a /\ t.op = s.op /\ t.buf = s.buf /\ t.sess = s.sess /\ t.slot = s.slot
      /\ t.dropped = s.dropped /\ t.left = s.left /\ t.poisoned = s.poisoned /\ t.act = s.act
      /\ t.event = s.event /\ t.done = s.done /\ t.moved = s.moved /\ t.total = s.total
  BY <1>1, <1>4 DEF Typed, StreamType
<1>6. t.all.mode = "active" => e = "r" /\ a = s.all
  <2>1. e = "w" => m # "active"
    BY <1>1 DEF m, WholeType
  <2>2. QED
    BY <1>4, <1>5, <2>1, EndsAre
<1> HIDE DEF t
<1>7. Whole(t) /\ Fed(t)
  BY <1>1, <1>4, <1>5, <1>6 DEF Whole, Fed
<1>8. ASSUME NEW x \in Ends PROVE Both(t, x) /\ On(t, x)
  <2>1. Both(s, x) /\ On(s, x)
    BY <1>1
  <2>2. Both(t, x)
    BY <1>4, <1>5, <2>1 DEF Both, FlightOf
  <2>3. On(t, x)
    BY <1>5, <2>1 DEF On
  <2>4. QED
    BY <2>2, <2>3
<1>9. Held(t, {})
  BY <1>5, <1>7, <1>8 DEF Held
<1>10. e = "r" => KeptW(s, t)
  BY <1>4, <1>5 DEF KeptW
<1>11. Held(u, {}) /\ Kept(t, u) /\ Fed(u)
  <2>1. CASE t.op[e] = "none"
    BY <1>7, <1>9, <2>1 DEF Kept, KeptW, Rest
  <2>2. CASE t.op[e] = "plain"
    <3>1. t.slot = e
      BY <1>8, <2>2 DEF On
    <3>2. QED
      BY <1>6, <1>7, <1>9, <2>2, <3>1, CancelledHeld
  <2>3. CASE t.op[e] \notin {"none", "plain"}
    <3> DEFINE c == [t.sess[e] EXCEPT !.cancelled = TRUE]
               v == [t EXCEPT !.sess[e] = c]
    <3>1. t.op[e] = "direct" /\ t.sess[e] \in SessionType
      BY <1>3, <1>5, <1>8, <2>3 DEF Typed, StreamType, Ops, Both
    <3>2. c \in SessionType /\ c.pending = t.sess[e].pending /\ c.step = t.sess[e].step
      BY <3>1 DEF SessionType
    <3>3. [t EXCEPT !.sess[e].cancelled = TRUE] = v
      BY <1>5 DEF Typed, StreamType, SessionType
    <3>4. u = IF t.sess[e].pending /\ t.slot = e THEN PendingDone(v, "CANCELLED")
              ELSE Stepped(v, e, "done")
      BY <2>3, <3>1, <3>3 DEF CancelSession
    <3> HIDE DEF c
    <3>5. /\ Held(v, {}) /\ Kept(t, v) /\ Fed(v) /\ v.slot = t.slot /\ v.op = t.op /\ v.all = t.all
          /\ v.sess[e] = c
      BY <1>7, <1>9, <3>2, SessionRenewed
    <3> HIDE DEF v, u
    <3>6. e = "w" => v.all.mode = "none"
      BY <1>7, <3>1, <3>5 DEF Whole
    <3>7. CASE t.sess[e].pending /\ t.slot = e
      <4>1. u = PendingDone(v, "CANCELLED")
        BY <3>4, <3>7
      <4>2. Held(u, {}) /\ Kept(v, u) /\ (Fed(v) => Fed(u))
        BY <3>5, <3>6, <3>7, <4>1, CancelledHeld
      <4>3. Kept(t, u)
        BY <3>5, <4>2, KeptOn
      <4>4. QED
        BY <3>5, <4>2, <4>3
    <3>8. CASE ~(t.sess[e].pending /\ t.slot = e)
      <4>1. u = Stepped(v, e, "done") /\ v.slot # e /\ v.op[e] = "direct"
        BY <1>8, <3>1, <3>4, <3>5, <3>8 DEF On
      <4>2. Held(u, {}) /\ Kept(v, u) /\ (Fed(v) => Fed(u))
        BY <3>5, <4>1, SteppedHeld
      <4>3. Kept(t, u)
        BY <3>5, <4>2, KeptOn
      <4>4. QED
        BY <3>5, <4>2, <4>3
    <3>9. QED
      BY <3>7, <3>8
  <2>4. QED
    BY <2>1, <2>2, <2>3
<1> HIDE DEF u
<1>12. [u EXCEPT !.act = Notified(@)] = u
  BY <1>11, NotifySame DEF Held
<1>13. s' = u /\ UNCHANGED <<kind, at, hops, alive>>
  BY <1>3, <1>12 DEF Step
<1>14. e = "r" => KeptW(s, u)
  BY <1>10, <1>11, KeptOn DEF Kept
<1>15. QED
  BY <1>5, <1>11, <1>13, <1>14 DEF Goes, Kept, Rest

LEMMA DropGoes ==
  ASSUME NEW t, ActSound(t.act), NEW u, DropTo(t, u), Fed(u)
  PROVE  /\ Goes(t, u) /\ KeptW(t, u) /\ u.slot = NoEnd
         /\ [u EXCEPT !.act = Closed(@)] = u
<1>1. u.act = Closed(t.act) /\ u.dropped /\ Held(u, {}) /\ KeptW(t, u) /\ u.slot = NoEnd
  BY DEF DropTo
<1>2. Closed(u.act) = u.act
  BY <1>1, ClosedSound
<1>3. u \in StreamType
  BY <1>1 DEF Held, Typed
<1>4. [u EXCEPT !.act = Closed(@)] = u
  BY <1>2, <1>3 DEF StreamType
<1>5. QED
  BY <1>1, <1>4 DEF Goes

LEMMA DropStep ==
  ASSUME StreamInv, NEW N
  PROVE  LET u == DroppedBy(s, N)
         IN  /\ Goes(s, u) /\ KeptW(s, u) /\ DropTo(s, u)
             /\ [u EXCEPT !.act = Closed(@)] = u
<1> DEFINE u == DroppedBy(s, N)
<1>1. Held(s, {}) /\ (s.dropped => s.act.closed) /\ Fed(s) /\ ActSound(s.act)
  BY InvParts
<1>2. DropTo(s, u) /\ (Fed(s) => Fed(u))
  BY <1>1, DroppedHeld
<1> HIDE DEF u
<1>3. QED
  BY <1>1, <1>2, DropGoes DEF u

LEMMA HostDropStep ==
  ASSUME StreamInv, NEW e \in Ends, HostDrop(e)
  PROVE  Goes(s, s') /\ KeptW(s, s') /\ UNCHANGED <<kind, at, hops, alive>>
<1> DEFINE u == DroppedBy(s, Ends)
<1>1. Goes(s, u) /\ KeptW(s, u) /\ [u EXCEPT !.act = Closed(@)] = u
  BY DropStep
<1>2. Step([u EXCEPT !.act = Closed(@)])
  BY DEF HostDrop
<1> HIDE DEF u
<1>3. s' = u /\ UNCHANGED <<kind, at, hops, alive>>
  BY <1>1, <1>2 DEF Step
<1>4. QED
  BY <1>1, <1>3

LEMMA GuestTakeStep ==
  ASSUME StreamInv, NEW e \in Ends, GuestTake(e)
  PROVE  Goes(s, s') /\ KeptW(s, s') /\ UNCHANGED <<kind, at, hops, alive>>
<1> DEFINE res == IF s.event[e] = "onCopy" THEN "COMPLETED" ELSE s.event[e]
           u == Delivered(s, e, res)
<1>1. Held(s, {}) /\ Fed(s)
  BY InvParts
<1>2. Side(e) = "guest" /\ alive /\ s.event[e] # "none" /\ Step(u)
  BY DEF GuestTake, GuestHas
<1> HIDE DEF res
<1>3. Held(u, {}) /\ Rest(s, u) /\ u.act = s.act /\ (Fed(s) => Fed(u)) /\ KeptW(s, u)
  BY <1>1, <1>2, DeliveredHeld
<1> HIDE DEF u
<1>4. QED
  BY <1>1, <1>2, <1>3 DEF Step, Goes, Rest

LEMMA GuestCancelStep ==
  ASSUME StreamInv, NEW e \in Ends, GuestCancel(e)
  PROVE  Goes(s, s') /\ KeptW(s, s') /\ UNCHANGED <<kind, at, hops, alive>>
<1> DEFINE t == IF s.event[e] = "none" THEN PendingDone(s, "CANCELLED") ELSE s
           u == Delivered(t, e, "CANCELLED")
<1>1. Held(s, {}) /\ Fed(s) /\ Typed(s) /\ Whole(s) /\ On(s, e)
  BY InvParts
<1>2. Side(e) = "guest" /\ alive /\ s.op[e] = "guest" /\ Step(u)
  BY DEF GuestCancel, GuestHas
<1>3. Held(t, {}) /\ Kept(s, t) /\ (Fed(s) => Fed(t)) /\ t.event[e] # "none"
  <2>1. CASE s.event[e] = "none"
    <3>1. s.slot = e
      BY <1>1, <1>2, <2>1 DEF On
    <3>2. e = "w" => s.all.mode # "active"
      BY <1>1, <1>2 DEF Whole
    <3>3. Held(t, {}) /\ Kept(s, t) /\ (Fed(s) => Fed(t))
      BY <1>1, <2>1, <3>1, <3>2, CancelledHeld
    <3>4. PendingTo(s, t, e, "CANCELLED")
      BY <1>1, <2>1, <3>1, PendingSays DEF Results
    <3>5. t.event[e] = "CANCELLED"
      BY <1>2, <3>4 DEF PendingTo, WaitingTo
    <3>6. QED
      BY <3>3, <3>5
  <2>2. CASE s.event[e] # "none"
    BY <1>1, <2>2 DEF Kept, KeptW, Rest
  <2>3. QED
    BY <2>1, <2>2
<1> HIDE DEF t
<1>4. Held(u, {}) /\ Rest(t, u) /\ u.act = t.act /\ (Fed(t) => Fed(u)) /\ KeptW(t, u)
  BY <1>2, <1>3, DeliveredHeld
<1> HIDE DEF u
<1>5. KeptW(s, u)
  BY <1>3, <1>4, KeptOn DEF Kept
<1>6. QED
  BY <1>1, <1>2, <1>3, <1>4, <1>5 DEF Step, Goes, Rest, Kept

\* The end leaves the guest's table with the drop.
LEMMA GuestDropStep ==
  ASSUME StreamInv, NEW e \in Ends, GuestDrop(e)
  PROVE  Goes(s, s') /\ KeptW(s, s') /\ UNCHANGED <<kind, at, hops, alive>>
<1> DEFINE N == {Peer(e)}
           t == DroppedBy(s, N)
           d == [t.done EXCEPT ![e] = TRUE]
           l == [t.left EXCEPT ![e] = TRUE]
           n == [t.event EXCEPT ![e] = "none"]
           u == [t EXCEPT !.done = d, !.left = l, !.event = n]
<1>1. Goes(s, t) /\ KeptW(s, t) /\ DropTo(s, t)
  BY DropStep
<1>2. s.op[e] # "guest" /\ Step([t EXCEPT !.done[e] = TRUE, !.left[e] = TRUE, !.event[e] = "none"])
  BY DEF GuestDrop
<1> HIDE DEF t
<1>3. /\ Typed(t) /\ Whole(t) /\ t.dropped /\ t.slot = NoEnd /\ t.op[e] # "guest"
      /\ \A x \in Ends : Both(t, x) /\ On(t, x)
  BY <1>1, <1>2, HeldParts DEF DropTo
<1>4. /\ t \in StreamType /\ t.done \in [Ends -> BOOLEAN] /\ t.left \in [Ends -> BOOLEAN]
      /\ t.event \in [Ends -> Deliveries]
  BY <1>3 DEF Typed, StreamType
<1>5. s' = u /\ UNCHANGED <<kind, at, hops, alive>>
  BY <1>2, <1>4 DEF Step, StreamType
<1>6. /\ d \in [Ends -> BOOLEAN] /\ l \in [Ends -> BOOLEAN] /\ n \in [Ends -> Deliveries]
      /\ d[e] = TRUE /\ l[e] = TRUE /\ n[e] = "none"
      /\ \A x \in Ends : x # e => d[x] = t.done[x] /\ l[x] = t.left[x] /\ n[x] = t.event[x]
  BY <1>4 DEF Deliveries
<1> HIDE DEF d, l, n
<1>7. /\ Typed(u) /\ u.done = d /\ u.left = l /\ u.event = n /\ u.dropped = t.dropped
      /\ u.act = t.act /\ u.slot = t.slot /\ u.all = t.all /\ u.op = t.op /\ u.buf = t.buf
      /\ u.sess = t.sess /\ u.moved = t.moved /\ u.total = t.total
  BY <1>3, <1>4, <1>6 DEF Typed, StreamType
<1> HIDE DEF u
<1>8. Whole(u) /\ (Fed(t) => Fed(u)) /\ KeptW(t, u)
  BY <1>3, <1>7 DEF Whole, Fed, KeptW
<1>9. ASSUME NEW x \in Ends PROVE Both(u, x) /\ On(u, x)
  <2>1. Both(t, x) /\ On(t, x)
    BY <1>3
  <2>2. CASE x = e
    <3>1. Both(u, x)
      BY <1>3, <1>6, <1>7, <2>1, <2>2 DEF Both, FlightOf
    <3>2. t.slot # x
      BY <1>3, EndsAre
    <3>3. On(u, x)
      BY <1>3, <1>6, <1>7, <2>1, <2>2, <3>2 DEF On
    <3>4. QED
      BY <3>1, <3>3
  <2>3. CASE x # e
    <3>1. Both(u, x)
      BY <1>6, <1>7, <2>1, <2>3 DEF Both, FlightOf
    <3>2. On(u, x)
      BY <1>6, <1>7, <2>1, <2>3 DEF On
    <3>3. QED
      BY <3>1, <3>2
  <2>4. QED
    BY <2>2, <2>3
<1>10. Held(u, {})
  BY <1>7, <1>8, <1>9 DEF Held
<1>11. KeptW(s, u)
  BY <1>1, <1>8, KeptOn
<1>12. QED
  BY <1>1, <1>5, <1>7, <1>8, <1>10, <1>11 DEF Goes

-----------------------------------------------------------------------------
(* The steps that move an end, or kill the guest. *)

LEMMA LowerStep ==
  ASSUME StreamInv, Lower
  PROVE  StreamInv' /\ KeptW(s, s') /\ kind' = kind /\ s'.dropped = s.dropped
<1> DEFINE a == OnLowered(s.act)
           n == [s.event EXCEPT !["r"] = IF s.dropped /\ ~s.done["r"] /\ @ = "none"
                                           THEN "idleDrop" ELSE @]
<1>1. /\ Typed(s) /\ Whole(s) /\ Fed(s) /\ ActSound(s.act) /\ s \in StreamType
      /\ \A x \in Ends : Both(s, x) /\ On(s, x)
      /\ Armed(s, at, hops) /\ hops \in Nat /\ alive \in BOOLEAN /\ kind \in {"created", "lifted"}
  BY InvParts DEF StreamInv, Typed
<1>2. /\ at = "host" /\ s.op["r"] = "none" /\ at' = "guest" /\ hops' = hops + 1
      /\ kind' = kind /\ alive' = alive
      /\ s' = [s EXCEPT !.act = a, !.event = n]
  BY <1>1 DEF Lower, Busy, StreamType
<1>3. ActSound(a) /\ a \in ActType
  BY <1>1 DEF OnLowered, Disarmed, Bound, Notified, ActSound, ActType
<1>4. /\ a.closed = s.act.closed
      /\ ~a.closed /\ kind = "lifted" => a.bound = s.act.bound /\ a.disarmed
      /\ ~a.closed /\ kind = "created" => a.disarmed = s.act.disarmed /\ a.bound
  BY <1>1 DEF OnLowered, Disarmed, Bound, Notified, ActSound, ActType
<1>5. n \in [Ends -> Deliveries] /\ n["w"] = s.event["w"]
      /\ (n["r"] = s.event["r"] \/ (n["r"] = "idleDrop" /\ s.dropped))
  BY <1>1 DEF StreamType, Deliveries, Ends
<1> HIDE DEF a, n
<1>6. /\ s' \in StreamType /\ s'.act = a /\ s'.event = n /\ s'.slot = s.slot /\ s'.dropped = s.dropped
      /\ s'.op = s.op /\ s'.buf = s.buf /\ s'.sess = s.sess /\ s'.all = s.all /\ s'.done = s.done
      /\ s'.left = s.left /\ s'.moved = s.moved /\ s'.total = s.total
  BY <1>1, <1>2, <1>3, <1>5 DEF StreamType
<1>7. Typed(s)'
  BY <1>2, <1>3, <1>6 DEF Typed
<1>8. Whole(s)' /\ Fed(s)' /\ KeptW(s, s')
  BY <1>1, <1>2, <1>6 DEF Whole, Fed, KeptW
<1>9. Both(s, "r")' /\ On(s, "r")'
  <2>1. Both(s, "r") /\ On(s, "r")
    BY <1>1 DEF Ends
  <2>2. Both(s, "r")'
    BY <1>2, <1>6, <2>1 DEF Both, FlightOf
  <2>3. On(s, "r")'
    BY <1>2, <1>5, <1>6, <2>1 DEF On
  <2>4. QED
    BY <2>2, <2>3
<1>10. Both(s, "w")' /\ On(s, "w")'
  <2>1. Both(s, "w") /\ On(s, "w") /\ Side("w")' = Side("w")
    BY <1>1, <1>2 DEF Ends, Side
  <2>2. Both(s, "w")'
    BY <1>6, <2>1 DEF Both, FlightOf
  <2>3. On(s, "w")'
    BY <1>2, <1>5, <1>6, <2>1 DEF On
  <2>4. QED
    BY <2>2, <2>3
<1>11. Held(s, {})'
  BY <1>7, <1>8, <1>9, <1>10 DEF Held, Ends
<1>12. Armed(s, at, hops)'
  BY <1>1, <1>2, <1>4, <1>6 DEF Armed
<1>13. QED
  BY <1>1, <1>2, <1>6, <1>8, <1>11, <1>12 DEF StreamInv

LEMMA LiftStep ==
  ASSUME StreamInv, Lift
  PROVE  StreamInv' /\ KeptW(s, s') /\ kind' = kind /\ s'.dropped = s.dropped
<1> DEFINE a == OnLifted(s.act)
<1>1. /\ Typed(s) /\ Whole(s) /\ Fed(s) /\ ActSound(s.act) /\ s \in StreamType
      /\ \A x \in Ends : Both(s, x) /\ On(s, x)
      /\ Armed(s, at, hops) /\ hops \in Nat /\ alive \in BOOLEAN /\ kind \in {"created", "lifted"}
  BY InvParts DEF StreamInv, Typed
<1>2. /\ at = "guest" /\ s.op["r"] = "none" /\ at' = "host" /\ hops' = hops + 1
      /\ kind' = kind /\ alive' = alive
      /\ s' = [s EXCEPT !.act = a]
  BY <1>1 DEF Lift
<1>3. ActSound(a) /\ a \in ActType
  BY <1>1 DEF OnLifted, Rearmed, Notified, ActSound, ActType
<1>4. /\ a.closed = s.act.closed
      /\ ~a.closed => a.bound = s.act.bound /\ ~a.disarmed
  BY <1>1 DEF OnLifted, Rearmed, Notified, ActSound, ActType
<1> HIDE DEF a
<1>5. /\ s' \in StreamType /\ s'.act = a /\ s'.event = s.event /\ s'.slot = s.slot
      /\ s'.dropped = s.dropped /\ s'.op = s.op /\ s'.buf = s.buf /\ s'.sess = s.sess
      /\ s'.all = s.all /\ s'.done = s.done /\ s'.left = s.left /\ s'.moved = s.moved
      /\ s'.total = s.total
  BY <1>1, <1>2, <1>3 DEF StreamType
<1>6. Typed(s)'
  BY <1>2, <1>3, <1>5 DEF Typed
<1>7. Whole(s)' /\ Fed(s)' /\ KeptW(s, s')
  BY <1>1, <1>2, <1>5 DEF Whole, Fed, KeptW
<1>8. Both(s, "r")' /\ On(s, "r")'
  <2>1. Both(s, "r") /\ On(s, "r")
    BY <1>1 DEF Ends
  <2>2. QED
    BY <1>2, <1>5, <2>1 DEF Both, FlightOf, On
<1>9. Both(s, "w")' /\ On(s, "w")'
  <2>1. Both(s, "w") /\ On(s, "w") /\ Side("w")' = Side("w")
    BY <1>1, <1>2 DEF Ends, Side
  <2>2. QED
    BY <1>2, <1>5, <2>1 DEF Both, FlightOf, On
<1>10. Held(s, {})'
  BY <1>6, <1>7, <1>8, <1>9 DEF Held, Ends
<1>11. Armed(s, at, hops)'
  BY <1>1, <1>2, <1>4, <1>5 DEF Armed
<1>12. QED
  BY <1>1, <1>2, <1>5, <1>7, <1>10, <1>11 DEF StreamInv

\* A dead guest's ends wait for nothing.
DeadOn(t, x) ==
  /\ t.op[x] = "plain" => t.slot = x
  /\ t.sess[x].pending <=> t.op[x] = "direct" /\ t.slot = x
  /\ t.op[x] = "direct" /\ t.sess[x].step # "none" => t.slot # x
  /\ t.slot = x => t.op[x] # "none" /\ ~t.dropped /\ t.event[x] \in {"none", "onCopy"}
  /\ t.op[x] # "guest" => t.event[x] \in {"none", "idleDrop"}
  /\ t.event[x] = "idleDrop" => t.dropped

LEMMA DeadHeld ==
  ASSUME NEW u, Typed(u), Whole(u), \A x \in Ends : Both(u, x) /\ DeadOn(u, x),
         s' \in StreamType, s'.slot = u.slot, s'.dropped = u.dropped, s'.op = u.op, s'.buf = u.buf,
         s'.sess = u.sess, s'.all = u.all, s'.event = u.event, s'.done = u.done,
         s'.left = u.left, s'.act = u.act, s'.moved = u.moved, s'.total = u.total,
         UNCHANGED <<kind, at>>, ~alive'
  PROVE  Held(s, {})'
<1>1. Typed(s)' /\ Whole(s)'
  BY DEF Typed, Whole
<1>2. ASSUME NEW x \in Ends PROVE Both(s, x)' /\ On(s, x)'
  <2>1. Both(u, x) /\ DeadOn(u, x) /\ Side(x)' = Side(x)
    BY DEF Side
  <2>2. Both(s, x)'
    BY <2>1 DEF Both, FlightOf
  <2>3. On(s, x)'
    BY <2>1 DEF On, DeadOn
  <2>4. QED
    BY <2>2, <2>3
<1>3. QED
  BY <1>1, <1>2 DEF Held

\* The instance traps: the ends in its table drop, and its operation goes.
LEMMA PeerTrapsStep ==
  ASSUME StreamInv, PeerTraps
  PROVE  StreamInv' /\ KeptW(s, s') /\ kind' = kind /\ (s.dropped => s'.dropped)
<1> DEFINE held == {e \in Ends : Side(e) = "guest" /\ ~s.left[e]}
           z == IF s.slot \in held THEN NoEnd ELSE s.slot
           t == [s EXCEPT !.slot = z]
           u == DroppedBy(t, Ends)
           v == [u EXCEPT !.poisoned = TRUE]
<1>1. /\ Held(s, {}) /\ Typed(s) /\ Whole(s) /\ Fed(s) /\ ActSound(s.act) /\ s \in StreamType
      /\ \A x \in Ends : Both(s, x) /\ On(s, x)
      /\ Armed(s, at, hops) /\ hops \in Nat /\ alive \in BOOLEAN /\ kind \in {"created", "lifted"}
  BY InvParts DEF StreamInv, Typed
<1>2. /\ alive /\ alive' = FALSE /\ UNCHANGED <<kind, at, hops>>
      /\ s' = IF held = {} THEN s ELSE v
  BY <1>1 DEF PeerTraps, StreamType
<1>3. ASSUME NEW w, Typed(w), Whole(w), \A x \in Ends : Both(w, x) /\ DeadOn(w, x),
             s' = w \/ s' = [w EXCEPT !.poisoned = TRUE],
             Fed(w), KeptW(s, w), w.dropped => w.act.closed, w.act.closed => w.dropped,
             (w.act = s.act /\ w.dropped = s.dropped) \/ w.dropped
      PROVE  StreamInv' /\ KeptW(s, s') /\ kind' = kind /\ (s.dropped => s'.dropped)
  <2>1. /\ s' \in StreamType /\ s'.slot = w.slot /\ s'.dropped = w.dropped /\ s'.op = w.op
        /\ s'.buf = w.buf /\ s'.sess = w.sess /\ s'.all = w.all /\ s'.event = w.event
        /\ s'.done = w.done /\ s'.left = w.left /\ s'.act = w.act /\ s'.moved = w.moved
        /\ s'.total = w.total
    BY <1>3 DEF Typed, StreamType
  <2>2. Held(s, {})'
    BY <1>2, <1>3, <2>1, DeadHeld
  <2>3. Fed(s)' /\ KeptW(s, s')
    BY <1>3, <2>1 DEF Fed, KeptW
  <2>4. Armed(s, at, hops)'
    BY <1>1, <1>2, <1>3, <2>1 DEF Armed
  <2>5. QED
    BY <1>1, <1>2, <1>3, <2>1, <2>2, <2>3, <2>4 DEF StreamInv
<1>4. CASE held = {}
  <2>1. s' = s /\ \A x \in Ends : Both(s, x) /\ DeadOn(s, x)
    BY <1>1, <1>2, <1>4 DEF On, DeadOn
  <2>2. KeptW(s, s) /\ (s.dropped => s.act.closed) /\ (s.act.closed => s.dropped)
    BY <1>1 DEF KeptW, Armed
  <2>3. QED
    BY <1>1, <1>3, <2>1, <2>2
<1>5. CASE held # {} /\ s.slot \notin held
  <2>1. t = s
    BY <1>1, <1>5 DEF StreamType
  <2> DEFINE w == DroppedBy(s, Ends)
  <2>2. Goes(s, w) /\ KeptW(s, w) /\ DropTo(s, w)
    BY DropStep
  <2>3. s' = [w EXCEPT !.poisoned = TRUE]
    BY <1>2, <1>5, <2>1
  <2> HIDE DEF w
  <2>4. /\ Typed(w) /\ Whole(w) /\ Fed(w) /\ w.dropped /\ w.act = Closed(s.act)
        /\ \A x \in Ends : Both(w, x) /\ On(w, x)
    BY <2>2, HeldParts DEF Goes, DropTo
  <2>5. w.act.closed
    BY <1>1, <2>4 DEF Closed, ActSound, ActType
  <2>6. \A x \in Ends : Both(w, x) /\ DeadOn(w, x)
    BY <2>4 DEF On, DeadOn
  <2>7. QED
    BY <1>3, <2>2, <2>3, <2>4, <2>5, <2>6
<1>6. CASE s.slot \in held
  <2> DEFINE g == s.slot
             idle == {e \in Ends : ~t.done[e] /\ t.event[e] = "none"}
             n == [e \in Ends |-> IF e \in idle THEN "idleDrop" ELSE s.event[e]]
             a == Closed(s.act)
             w == [s EXCEPT !.slot = NoEnd, !.dropped = TRUE, !.act = a, !.event = n]
  <2>1. g \in Ends /\ On(s, g) /\ Both(s, g) /\ g # NoEnd
    BY <1>1, <1>6, EndsAre
  <2>2. ~s.dropped /\ s.op[g] = "guest"
    BY <1>6, <2>1 DEF On, Both
  <2>3. u = w
    BY <1>1, <1>6, <2>2 DEF DroppedBy, StreamType
  <2>4. s' = [w EXCEPT !.poisoned = TRUE]
    BY <1>2, <1>6, <2>3
  <2>5. ActSound(a) /\ a \in ActType /\ a.closed
    BY <1>1, ClosedSound DEF ActSound, ActType, Closed
  <2>6. n \in [Ends -> Deliveries] /\ \A e \in Ends : n[e] \in {"idleDrop", s.event[e]}
    BY <1>1 DEF StreamType, Deliveries
  <2> HIDE DEF n, a, idle, u, v, t
  <2>7. /\ w \in StreamType /\ w.slot = NoEnd /\ w.dropped /\ w.act = a /\ w.event = n
        /\ w.op = s.op /\ w.buf = s.buf /\ w.sess = s.sess /\ w.all = s.all /\ w.done = s.done
        /\ w.left = s.left /\ w.moved = s.moved /\ w.total = s.total
    BY <1>1, <2>5, <2>6 DEF StreamType
  <2> HIDE DEF w
  <2>8. Typed(w) /\ Whole(w) /\ Fed(w) /\ KeptW(s, w)
    BY <1>1, <2>5, <2>7 DEF Typed, Whole, Fed, KeptW
  <2>9. ASSUME NEW x \in Ends PROVE Both(w, x) /\ DeadOn(w, x)
    <3>1. Both(s, x) /\ On(s, x) /\ x # NoEnd
      BY <1>1, EndsAre
    <3>2. Both(w, x)
      BY <2>7, <3>1 DEF Both, FlightOf
    <3>3. s.op[x] # "plain" /\ ~s.sess[x].pending
      BY <2>2, <3>1 DEF On
    <3>4. DeadOn(w, x)
      BY <2>6, <2>7, <3>1, <3>3 DEF On, DeadOn
    <3>5. QED
      BY <3>2, <3>4
  <2>10. w.dropped /\ w.act.closed
    BY <2>5, <2>7
  <2>11. QED
    BY <1>3, <2>4, <2>8, <2>9, <2>10
<1>7. QED
  BY <1>4, <1>5, <1>6

-----------------------------------------------------------------------------
(* writeAll. *)

\* Its next write.
LEMMA WriteHeld ==
  ASSUME StreamInv, kind = "created", s.op["w"] = "none", NEW a \in WholeType,
         a.sent + a.got = s.all.sent + s.all.got, a.got = 0, ~a.paused, a.mode # "none", a.left > 0,
         NEW d \in Verdicts
  PROVE  LET u == Arrives(Offered([s EXCEPT !.all = a], "w", "plain", a.left), "w", d)
         IN  /\ Held(u, {}) /\ Fed(u) /\ Rest(s, u) /\ u.act = s.act
             /\ [u EXCEPT !.act = Notified(@)] = u
             /\ u.all.mode = a.mode /\ u.all.sent = a.sent /\ u.all.left = a.left
             /\ u.total["w"] = s.total["w"] /\ u.op["w"] \in {"none", "plain"}
<1> DEFINE t == [s EXCEPT !.all = a]
           v == Offered(t, "w", "plain", a.left)
           u == Arrives(v, "w", d)
<1>1. /\ Typed(s) /\ Whole(s) /\ (s.dropped => s.act.closed) /\ s \in StreamType
      /\ \A x \in Ends : Both(s, x) /\ On(s, x)
  BY InvParts DEF Typed
<1>2. /\ Typed(t) /\ t.all = a /\ t.op = s.op /\ t.buf = s.buf /\ t.sess = s.sess /\ t.slot = s.slot
      /\ t.dropped = s.dropped /\ t.left = s.left /\ t.poisoned = s.poisoned /\ t.act = s.act
      /\ t.event = s.event /\ t.done = s.done /\ t.moved = s.moved /\ t.total = s.total
  BY <1>1 DEF Typed, StreamType
<1> HIDE DEF t
<1>3. \A x \in Ends : Both(t, x) /\ On(t, x)
  <2>1. ASSUME NEW x \in Ends PROVE Both(t, x) /\ On(t, x)
    <3>1. Both(s, x) /\ On(s, x)
      BY <1>1
    <3>2. FlightOf(t, x) = FlightOf(s, x)
      BY <1>2 DEF FlightOf
    <3>3. Both(t, x)
      BY <1>2, <3>1, <3>2 DEF Both
    <3>4. On(t, x)
      BY <1>2, <3>1 DEF On
    <3>5. QED
      BY <3>3, <3>4
  <2>2. QED
    BY <2>1
<1>4. MayOffer(t, "w", "plain", a.left)
  BY <1>2 DEF MayOffer, Side, WholeType
<1>5. v.all = a /\ v.op["w"] = "plain" /\ v.buf["w"] = [len |-> a.left, progress |-> 0]
  BY <1>2, EndsAre DEF Offered, Typed, StreamType
<1>6. Whole(v)
  BY <1>5 DEF Whole, WholeType
<1>7. "w" \in Ends
  BY DEF Ends
<1>8. /\ Held(v, {"w"}) /\ Rest(t, v) /\ v.act = t.act /\ v.all = t.all /\ v.total = t.total
      /\ v.op["w"] = "plain"
  BY SMTT(40), <1>2, <1>3, <1>4, <1>6, <1>7, OfferedHeld
<1>9. Fed(v)
  BY <1>5 DEF Fed
<1> HIDE DEF v
<1>10. v.dropped => v.act.closed
  BY <1>1, <1>2, <1>8 DEF Rest
<1>11. Held(u, {}) /\ Kept(v, u) /\ Fed(u)
  BY <1>7, <1>8, <1>9, <1>10, ArrivesHeld
<1> HIDE DEF u
<1>12. [u EXCEPT !.act = Notified(@)] = u
  BY <1>11, NotifySame DEF Held
<1>13. /\ Rest(s, u) /\ u.act = s.act /\ u.all.mode = a.mode /\ u.all.sent = a.sent
       /\ u.all.left = a.left /\ u.total["w"] = s.total["w"] /\ u.op["w"] \in {"none", "plain"}
  BY <1>2, <1>8, <1>11 DEF Kept, KeptW, Rest
<1>14. QED
  BY <1>11, <1>12, <1>13 DEF u, v, t

LEMMA HostWriteAllStep ==
  ASSUME StreamInv, NEW len \in 0..MaxLen, HostWriteAll(len)
  PROVE  /\ Goes(s, s') /\ UNCHANGED <<kind, at, hops, alive>> /\ s'.dropped = s.dropped
         /\ s'.all.mode = "active" /\ s'.all.sent = 0 /\ s'.all.left = len
         /\ s'.total["w"] = s.total["w"] /\ s'.op["w"] \in {"none", "plain"}
<1> DEFINE a == [NotWhole EXCEPT !.mode = "active", !.left = len]
<1>1. PICK d \in Verdicts :
         Step(Issued(Offered([s EXCEPT !.all = a], "w", "plain", len), "w", d))
  BY DEF HostWriteAll
<1>2. /\ a \in WholeType /\ a.sent = 0 /\ a.got = 0 /\ ~a.paused /\ a.mode = "active" /\ a.left = len
  BY HostStreamsAssumption DEF NotWhole, WholeType
<1> HIDE DEF a
<1>3. s.all = NotWhole /\ len > 0 /\ s.op["w"] = "none" /\ kind = "created"
  BY InvParts DEF HostWriteAll, Idle, Whole, Side
<1>4. a.sent + a.got = s.all.sent + s.all.got
  BY <1>2, <1>3 DEF NotWhole
<1> DEFINE u == Arrives(Offered([s EXCEPT !.all = a], "w", "plain", a.left), "w", d)
<1>5. /\ Held(u, {}) /\ Fed(u) /\ Rest(s, u) /\ u.act = s.act
      /\ [u EXCEPT !.act = Notified(@)] = u
      /\ u.all.mode = a.mode /\ u.all.sent = a.sent /\ u.all.left = a.left
      /\ u.total["w"] = s.total["w"] /\ u.op["w"] \in {"none", "plain"}
  <2>1. a.left > 0 /\ a.mode # "none"
    BY <1>2, <1>3
  <2>2. QED
    BY <1>2, <1>3, <1>4, <2>1, WriteHeld
<1>6. s' = u /\ UNCHANGED <<kind, at, hops, alive>>
  BY <1>1, <1>2, <1>5 DEF Step, Issued
<1> HIDE DEF u
<1>7. QED
  BY <1>2, <1>5, <1>6 DEF Goes, Rest

\* writeAll is over, or writes again.
LEMMA WriteAllResumesStep ==
  ASSUME StreamInv, WriteAllResumes
  PROVE  /\ Goes(s, s') /\ UNCHANGED <<kind, at, hops, alive>> /\ s'.dropped = s.dropped
         /\ s.all.mode # "none" /\ s.all.got <= s.all.left
         /\ s'.op["w"] \in {"none", "plain"}
         /\ \/ /\ s'.all.mode = "none" /\ s'.op["w"] = "none"
               /\ s'.total["w"] = s.total["w"] + (s.all.sent + s.all.got)
               /\ s.all.mode = "active" /\ s.all.got # s.all.left => s.dropped
            \/ /\ s'.all.mode = s.all.mode
               /\ s'.all.sent = s.all.sent + s.all.got /\ s'.all.left = s.all.left - s.all.got
               /\ s'.total["w"] = s.total["w"]
<1>1. /\ Typed(s) /\ Whole(s) /\ Fed(s) /\ ActSound(s.act) /\ s \in StreamType /\ s.all \in WholeType
      /\ \A x \in Ends : Both(s, x) /\ On(s, x)
      /\ s.total \in [Ends -> Nat] /\ s.total["w"] \in Nat
  BY InvParts, EndsAre DEF Typed, StreamType
<1>2. /\ s.all.paused /\ s.all.mode # "none" /\ s.op["w"] = "none" /\ kind = "created"
      /\ s.all.got <= s.all.left
  BY <1>1 DEF WriteAllResumes, Whole, NotWhole
<1>3. /\ s.all.got \in Nat /\ s.all.sent \in Nat /\ s.all.left \in 0..MaxLen
      /\ s.all.mode \in {"active", "cancelled"}
  BY <1>1, <1>2 DEF WholeType
<1>4. CASE Exhausted(s.all) /\ Step([s EXCEPT !.all = NotWhole, !.total["w"] = @ + Sent(s.all)])
  <2> DEFINE k == Sent(s.all)
             m == [s.total EXCEPT !["w"] = @ + k]
             u == [s EXCEPT !.all = NotWhole, !.total = m]
  <2>1. k = s.all.sent + s.all.got /\ k \in Nat
    BY <1>3 DEF Sent
  <2>2. s' = u /\ UNCHANGED <<kind, at, hops, alive>>
    BY <1>1, <1>4 DEF Step, StreamType
  <2> HIDE DEF k
  <2>3. m \in [Ends -> Nat] /\ m["w"] = s.total["w"] + k /\ m["r"] = s.total["r"]
    BY <1>1, <2>1 DEF Ends
  <2> HIDE DEF m
  <2>4. NotWhole \in WholeType
    BY HostStreamsAssumption DEF NotWhole, WholeType
  <2>5. /\ Typed(u) /\ u.all = NotWhole /\ u.total = m /\ u.op = s.op /\ u.buf = s.buf
        /\ u.sess = s.sess /\ u.slot = s.slot /\ u.dropped = s.dropped /\ u.left = s.left
        /\ u.act = s.act /\ u.event = s.event /\ u.done = s.done /\ u.moved = s.moved
    BY <1>1, <2>3, <2>4 DEF Typed, StreamType
  <2> HIDE DEF u
  <2>6. Whole(u) /\ Fed(u) /\ u.all.mode = "none"
    BY <2>5 DEF Whole, Fed, NotWhole
  <2>7. ASSUME NEW x \in Ends PROVE Both(u, x) /\ On(u, x)
    <3>1. Both(s, x) /\ On(s, x)
      BY <1>1
    <3>2. u.moved[x] = u.total[x] + FlightOf(u, x)
      <4>1. CASE x = "w"
        <5>1. FlightOf(s, x) = k /\ FlightOf(u, x) = 0
          BY <1>2, <1>3, <2>1, <2>5, <4>1 DEF FlightOf, NotWhole
        <5>2. QED
          BY <1>1, <2>1, <2>3, <2>5, <3>1, <4>1, <5>1 DEF Both
      <4>2. CASE x = "r"
        BY <2>3, <2>5, <3>1, <4>2 DEF Both, FlightOf
      <4>3. QED
        BY <4>1, <4>2, EndsAre
    <3>3. Both(u, x)
      BY <2>5, <3>1, <3>2 DEF Both
    <3>4. On(u, x)
      BY <2>5, <3>1 DEF On
    <3>5. QED
      BY <3>3, <3>4
  <2>8. Held(u, {})
    BY <2>5, <2>6, <2>7 DEF Held
  <2>9. s.all.mode = "active" /\ s.all.got # s.all.left => s.dropped
    BY <1>1, <1>2, <1>3, <1>4 DEF Exhausted, Fed
  <2>10. QED
    BY <1>2, <2>1, <2>2, <2>3, <2>5, <2>6, <2>8, <2>9 DEF Goes
<1>5. ASSUME NEW d \in Verdicts, ~Exhausted(s.all),
             Step(Issued(Offered([s EXCEPT !.all = [s.all EXCEPT !.left = @ - s.all.got, !.sent = Sent(s.all),
                                                                 !.got = 0, !.paused = FALSE]],
                                 "w", "plain", s.all.left - s.all.got), "w", d))
      PROVE  /\ Goes(s, s') /\ UNCHANGED <<kind, at, hops, alive>> /\ s'.dropped = s.dropped
             /\ s'.op["w"] \in {"none", "plain"} /\ s'.all.mode = s.all.mode
             /\ s'.all.sent = s.all.sent + s.all.got /\ s'.all.left = s.all.left - s.all.got
             /\ s'.total["w"] = s.total["w"]
  <2> DEFINE a == [s.all EXCEPT !.left = @ - s.all.got, !.sent = Sent(s.all),
                                !.got = 0, !.paused = FALSE]
  <2>1. s.all.got < s.all.left
    BY <1>2, <1>3, <1>5 DEF Exhausted
  <2>2. /\ a \in WholeType /\ a.sent = s.all.sent + s.all.got /\ a.got = 0 /\ ~a.paused
        /\ a.mode = s.all.mode /\ a.left = s.all.left - s.all.got
    <3>1. /\ a.sent = s.all.sent + s.all.got /\ a.got = 0 /\ ~a.paused
          /\ a.mode = s.all.mode /\ a.left = s.all.left - s.all.got
      BY <1>1 DEF WholeType, Sent
    <3>2. s.all.left - s.all.got \in 0..MaxLen /\ Sent(s.all) \in Nat
      BY <1>3, <2>1, HostStreamsAssumption DEF Sent
    <3>3. a \in WholeType
      BY <1>1, <3>2 DEF WholeType
    <3>4. QED
      BY <3>1, <3>3
  <2>3. Step(Issued(Offered([s EXCEPT !.all = a], "w", "plain", a.left), "w", d))
    BY <1>5, <2>2
  <2> HIDE DEF a
  <2>4. a.sent + a.got = s.all.sent + s.all.got /\ a.left > 0 /\ a.mode # "none"
    BY <1>2, <1>3, <2>1, <2>2
  <2> DEFINE u == Arrives(Offered([s EXCEPT !.all = a], "w", "plain", a.left), "w", d)
  <2>5. /\ Held(u, {}) /\ Fed(u) /\ Rest(s, u) /\ u.act = s.act
        /\ [u EXCEPT !.act = Notified(@)] = u
        /\ u.all.mode = a.mode /\ u.all.sent = a.sent /\ u.all.left = a.left
        /\ u.total["w"] = s.total["w"] /\ u.op["w"] \in {"none", "plain"}
    BY <1>2, <2>2, <2>4, WriteHeld
  <2>6. s' = u /\ UNCHANGED <<kind, at, hops, alive>>
    BY <2>3, <2>5 DEF Step, Issued
  <2> HIDE DEF u
  <2>7. QED
    BY <2>2, <2>5, <2>6 DEF Goes, Rest
<1>6. QED
  <2>1. \/ Exhausted(s.all) /\ Step([s EXCEPT !.all = NotWhole, !.total["w"] = @ + Sent(s.all)])
        \/ ~Exhausted(s.all) /\ \E d \in Verdicts :
             Step(Issued(Offered([s EXCEPT !.all = [s.all EXCEPT !.left = @ - s.all.got, !.sent = Sent(s.all),
                                                                 !.got = 0, !.paused = FALSE]],
                                 "w", "plain", s.all.left - s.all.got), "w", d))
    BY DEF WriteAllResumes
  <2>2. QED
    BY <1>2, <1>4, <1>5, <2>1

-----------------------------------------------------------------------------
(* The pump. *)

PumpType ==
  [pc : {"pull", "drain", "lower", "writing", "closing", "done"}, pulling : BOOLEAN, pulls : Nat,
   batch : 0..MaxLen, last : BOOLEAN, cancelled : BOOLEAN, ended : BOOLEAN, closed : BOOLEAN,
   failed : BOOLEAN, reported : BOOLEAN, before : Nat, owned : BOOLEAN, made : Nat,
   destroyed : Nat, offered : Nat, lost : BOOLEAN]

\* Where the pump is, and how far its producer is.
Course(p) ==
  /\ p.pc \in {"pull", "drain"} <=> p.pulling
  /\ p.pc = "pull" => ~p.last /\ ~p.cancelled
  /\ p.pc \in {"lower", "writing"} /\ p.cancelled => p.last
  /\ p.ended => p.pc \in {"closing", "done"}
  /\ p.pc = "drain" \/ p.last => p.lost
  /\ p.closed <=> p.pc = "done"
  /\ ~p.closed => ~p.cancelled \/ ~p.ended
  /\ p.closed /\ driver = "web" => (p.cancelled <=> ~p.ended)
  /\ p.pc = "done" => p.reported = p.failed
  /\ p.pc \in {"closing", "done"} => p.failed \/ p.lost \/ p.ended

\* What the stream has taken of the batches, and of the resources in them:
\* while a batch is being written, ...
Writing(p, t) ==
  /\ t.all.mode = "none" =>
       /\ t.op["w"] = "none"
       /\ p.before <= t.total["w"] /\ t.total["w"] <= p.before + p.batch
       /\ t.total["w"] < p.before + p.batch => t.dropped
  /\ t.all.mode # "none" => t.total["w"] = p.before /\ t.all.sent + t.all.left = p.batch
  /\ p.owned => p.made = p.before + p.batch + p.destroyed
  /\ p.failed \/ p.lost \/ p.offered = p.before + p.batch

\* ... and between two batches.
Between(p, t) ==
  /\ t.all.mode = "none" /\ t.op["w"] = "none"
  /\ p.owned => p.made = t.total["w"] + p.destroyed
  /\ p.failed \/ p.lost \/ p.offered = t.total["w"] + (IF p.pc = "lower" THEN p.batch ELSE 0)

Pumping(p, t) ==
  /\ p \in PumpType /\ Course(p)
  /\ t.op["w"] \in {"none", "plain"} /\ t.all.mode # "cancelled"
  /\ t.dropped => p.lost \/ p.pc = "done"
  /\ p.pc = "writing" => Writing(p, t)
  /\ p.pc # "writing" => Between(p, t)

PumpInv ==
  /\ StreamInv
  /\ driver \in Producers \cup {"embedder"}
  /\ driver \in Producers => kind = "created" /\ Pumping(pump, s)
  /\ driver = "embedder" => pump.pc = "done" /\ ~pump.owned /\ ~pump.closed

\* A step of the stream that keeps what the writer has.
LEMMA BesideKept ==
  ASSUME PumpInv, driver \in Producers, KeptW(s, s'), StreamInv', s.dropped => s'.dropped,
         pump' = [pump EXCEPT !.lost = @ \/ (s'.dropped /\ ~s.dropped)], UNCHANGED <<kind, driver>>
  PROVE  PumpInv'
<1> DEFINE b == pump.lost \/ (s'.dropped /\ ~s.dropped)
<1>1. kind = "created" /\ Pumping(pump, s) /\ pump \in PumpType /\ b \in BOOLEAN
  BY DEF PumpInv, Pumping, PumpType
<1>2. pump' = [pump EXCEPT !.lost = b]
  OBVIOUS
<1>3. /\ pump' \in PumpType /\ pump'.lost = b /\ pump'.pc = pump.pc /\ pump'.pulling = pump.pulling
      /\ pump'.batch = pump.batch /\ pump'.last = pump.last /\ pump'.cancelled = pump.cancelled
      /\ pump'.ended = pump.ended /\ pump'.closed = pump.closed /\ pump'.failed = pump.failed
      /\ pump'.reported = pump.reported /\ pump'.before = pump.before /\ pump'.owned = pump.owned
      /\ pump'.made = pump.made /\ pump'.destroyed = pump.destroyed
      /\ pump'.offered = pump.offered
  BY <1>1, <1>2 DEF PumpType
<1>4. /\ s'.all.mode = s.all.mode /\ s'.all.sent = s.all.sent /\ s'.all.left = s.all.left
      /\ s'.op["w"] \in {"none", s.op["w"]}
      /\ s.op["w"] = "none" \/ s.all.mode # "none" => s'.total["w"] = s.total["w"]
  BY DEF KeptW
<1>5. Course(pump)'
  BY <1>1, <1>3 DEF Pumping, Course
<1>6. pump.pc = "writing" => Writing(pump, s)'
  BY <1>1, <1>3, <1>4 DEF Pumping, Writing
<1>7. pump.pc # "writing" => Between(pump, s)'
  BY <1>1, <1>3, <1>4 DEF Pumping, Between
<1>8. Pumping(pump, s)'
  BY <1>1, <1>3, <1>4, <1>5, <1>6, <1>7 DEF Pumping
<1>9. QED
  BY <1>1, <1>8 DEF PumpInv, Producers, Cooperative

\* The embedder's own stream: no pump runs.
LEMMA EmbedderKept ==
  ASSUME PumpInv, driver = "embedder", StreamInv', driver' = driver,
         pump'.pc = pump.pc, pump'.owned = pump.owned, pump'.closed = pump.closed
  PROVE  PumpInv'
BY DEF PumpInv, Producers, Cooperative

LEMMA BesideWriteAll ==
  ASSUME PumpInv, Beside(WriteAllResumes)
  PROVE  PumpInv'
<1>1. /\ StreamInv /\ WriteAllResumes /\ driver' = driver
      /\ pump' = [pump EXCEPT !.lost = @ \/ (s'.dropped /\ ~s.dropped)]
  BY DEF Beside, PumpInv
<1>2. /\ Goes(s, s') /\ UNCHANGED <<kind, at, hops, alive>> /\ s'.dropped = s.dropped
      /\ s.all.mode # "none" /\ s.all.got <= s.all.left
      /\ s'.op["w"] \in {"none", "plain"}
      /\ \/ /\ s'.all.mode = "none" /\ s'.op["w"] = "none"
            /\ s'.total["w"] = s.total["w"] + (s.all.sent + s.all.got)
            /\ s.all.mode = "active" /\ s.all.got # s.all.left => s.dropped
         \/ /\ s'.all.mode = s.all.mode
            /\ s'.all.sent = s.all.sent + s.all.got /\ s'.all.left = s.all.left - s.all.got
            /\ s'.total["w"] = s.total["w"]
  BY <1>1, WriteAllResumesStep
<1>3. StreamInv'
  BY <1>1, <1>2, GoesOn
<1>4. CASE driver = "embedder"
  <2>1. pump'.pc = pump.pc /\ pump'.owned = pump.owned /\ pump'.closed = pump.closed
    BY <1>1
  <2>2. QED
    BY <1>1, <1>3, <1>4, <2>1, EmbedderKept
<1>5. CASE driver \in Producers
  <2>1. kind = "created" /\ Pumping(pump, s) /\ pump \in PumpType
    BY <1>5 DEF PumpInv, Pumping
  <2>2. pump' = pump
    BY <1>1, <1>2, <2>1 DEF PumpType
  <2>3. pump.pc = "writing" /\ Writing(pump, s) /\ s.all.mode = "active"
    <3>1. s.all.mode \in {"none", "active", "cancelled"}
      BY <1>1, InvParts DEF Typed, StreamType, WholeType
    <3>2. QED
      BY <1>2, <2>1, <3>1 DEF Pumping, Between
  <2>4. /\ s.total["w"] = pump.before /\ s.all.sent + s.all.left = pump.batch
        /\ pump.before \in Nat /\ s.all.sent \in Nat /\ s.all.got \in Nat /\ s.all.left \in Int
    <3>1. s.all \in WholeType
      BY <1>1, InvParts DEF Typed, StreamType
    <3>2. QED
      BY <2>1, <2>3, <3>1, HostStreamsAssumption DEF Writing, WholeType, PumpType
  <2>5. Writing(pump, s)'
    <3>1. /\ s'.all.mode = "none" =>
               /\ s'.op["w"] = "none"
               /\ pump.before <= s'.total["w"] /\ s'.total["w"] <= pump.before + pump.batch
               /\ s'.total["w"] < pump.before + pump.batch => s.dropped
      BY <1>2, <2>3, <2>4
    <3>2. s'.all.mode # "none" => s'.total["w"] = pump.before /\ s'.all.sent + s'.all.left = pump.batch
      BY <1>2, <2>3, <2>4
    <3>3. QED
      BY <1>2, <2>2, <2>3, <3>1, <3>2 DEF Writing
  <2>6. Pumping(pump, s)'
    <3>1. Course(pump)'
      BY <1>1, <2>1, <2>2 DEF Pumping, Course
    <3>2. s'.all.mode # "cancelled"
      BY <1>2, <2>3
    <3>3. QED
      BY <1>2, <2>1, <2>2, <2>3, <2>5, <3>1, <3>2 DEF Pumping
  <2>7. QED
    BY <1>1, <1>2, <1>3, <1>5, <2>1, <2>6 DEF PumpInv, Producers, Cooperative
<1>6. QED
  BY <1>4, <1>5 DEF PumpInv

\* What a step of the stream beside the pump leaves.
Leaves == /\ StreamInv' /\ kind' = kind /\ (s.dropped => s'.dropped)
          /\ driver \in Producers => KeptW(s, s')

LEMMA GoesLeaves ==
  ASSUME StreamInv, Goes(s, s'), UNCHANGED <<kind, at, hops, alive>>,
         driver \in Producers => KeptW(s, s')
  PROVE  Leaves
<1>1. StreamInv'
  BY GoesOn
<1>2. s.dropped => s'.dropped
  BY DEF Goes
<1>3. QED
  BY <1>1, <1>2 DEF Leaves

LEMMA OthersLeave ==
  ASSUME PumpInv, Others, ~WriteAllResumes
  PROVE  Leaves
<1>1. /\ StreamInv
      /\ driver \in Producers =>
           /\ Side("w") = "host" /\ s.op["w"] \in {"none", "plain"}
           /\ \A e \in Ends : Side(e) = "guest" => e = "r"
  BY EndsAre DEF PumpInv, Pumping, Side
<1>2. ASSUME NEW len \in 0..MaxLen, HostCopy("r", len) PROVE Leaves
  <2>1. "r" \in Ends
    BY DEF Ends
  <2>2. Goes(s, s') /\ ("r" = "r" => KeptW(s, s')) /\ UNCHANGED <<kind, at, hops, alive>>
    BY <1>1, <1>2, <2>1, HostCopyStep
  <2>3. QED
    BY <1>1, <2>2, GoesLeaves
<1>3. ASSUME NEW len \in 0..MaxLen, NEW e \in Ends, GuestCopy(e, len) PROVE Leaves
  <2>1. Goes(s, s') /\ (e = "r" => KeptW(s, s')) /\ UNCHANGED <<kind, at, hops, alive>>
    BY <1>1, <1>3, GuestCopyStep
  <2>2. driver \in Producers => e = "r"
    BY <1>1, <1>3 DEF GuestCopy, GuestHas
  <2>3. QED
    BY <1>1, <2>1, <2>2, GoesLeaves
<1>4. CASE HostDirect("r")
  <2>1. "r" \in Ends
    BY DEF Ends
  <2>2. Goes(s, s') /\ ("r" = "r" => KeptW(s, s')) /\ UNCHANGED <<kind, at, hops, alive>>
    BY <1>1, <1>4, <2>1, HostDirectStep
  <2>3. QED
    BY <1>1, <2>2, GoesLeaves
<1>5. CASE HostCancel("r")
  <2>1. "r" \in Ends
    BY DEF Ends
  <2>2. Goes(s, s') /\ ("r" = "r" => KeptW(s, s')) /\ UNCHANGED <<kind, at, hops, alive>>
    BY <1>1, <1>5, <2>1, HostCancelStep
  <2>3. QED
    BY <1>1, <2>2, GoesLeaves
<1>6. ASSUME NEW e \in Ends, SessionResumes(e) PROVE Leaves
  <2>1. /\ Goes(s, s') /\ (e = "r" => KeptW(s, s')) /\ UNCHANGED <<kind, at, hops, alive>>
        /\ s.op[e] = "direct"
    BY <1>1, <1>6, SessionResumesStep
  <2>2. driver \in Producers => e = "r"
    BY <1>1, <2>1, EndsAre
  <2>3. QED
    BY <1>1, <2>1, <2>2, GoesLeaves
<1>7. ASSUME NEW e \in Ends, GuestTake(e) \/ GuestCancel(e) \/ GuestDrop(e) PROVE Leaves
  <2>1. Goes(s, s') /\ KeptW(s, s') /\ UNCHANGED <<kind, at, hops, alive>>
    BY <1>1, <1>7, GuestTakeStep, GuestCancelStep, GuestDropStep
  <2>2. QED
    BY <1>1, <2>1, GoesLeaves
<1>8. CASE PeerTraps
  BY <1>1, <1>8, PeerTrapsStep DEF Leaves
<1>9. CASE Lower
  BY <1>1, <1>9, LowerStep DEF Leaves
<1>10. CASE Lift
  BY <1>1, <1>10, LiftStep DEF Leaves
<1>11. QED
  BY <1>2, <1>3, <1>4, <1>5, <1>6, <1>7, <1>8, <1>9, <1>10 DEF Others

\* The embedder acts on a stream of its own.
LEMMA EmbedderLeaves ==
  ASSUME PumpInv, driver = "embedder", EmbedderActs
  PROVE  Leaves
<1>1. StreamInv /\ driver \notin Producers /\ "w" \in Ends
  BY DEF PumpInv, Producers, Cooperative, Ends
<1>2. Goes(s, s') /\ UNCHANGED <<kind, at, hops, alive>>
  <2>1. ASSUME NEW len \in 0..MaxLen, HostCopy("w", len)
        PROVE  Goes(s, s') /\ UNCHANGED <<kind, at, hops, alive>>
    BY <1>1, <2>1, HostCopyStep
  <2>2. ASSUME NEW len \in 1..MaxLen, HostWriteAll(len)
        PROVE  Goes(s, s') /\ UNCHANGED <<kind, at, hops, alive>>
    <3>1. len \in 0..MaxLen
      BY HostStreamsAssumption
    <3>2. QED
      BY <1>1, <2>2, <3>1, HostWriteAllStep
  <2>3. CASE HostDirect("w")
    BY <1>1, <2>3, HostDirectStep
  <2>4. CASE HostCancel("w")
    BY <1>1, <2>4, HostCancelStep
  <2>5. ASSUME NEW e \in Ends, HostDrop(e)
        PROVE  Goes(s, s') /\ UNCHANGED <<kind, at, hops, alive>>
    BY <1>1, <2>5, HostDropStep
  <2>6. QED
    BY <2>1, <2>2, <2>3, <2>4, <2>5 DEF EmbedderActs
<1>3. QED
  BY <1>1, <1>2, GoesLeaves

LEMMA SurroundingsKept ==
  ASSUME PumpInv, Surroundings
  PROVE  PumpInv'
<1>1. ASSUME Leaves, driver' = driver,
             pump' = [pump EXCEPT !.lost = @ \/ (s'.dropped /\ ~s.dropped)]
      PROVE  PumpInv'
  <2>1. CASE driver \in Producers
    BY <1>1, <2>1, BesideKept DEF Leaves
  <2>2. CASE driver = "embedder"
    <3>1. pump'.pc = pump.pc /\ pump'.owned = pump.owned /\ pump'.closed = pump.closed
      BY <1>1
    <3>2. QED
      BY <1>1, <2>2, <3>1, EmbedderKept DEF Leaves
  <2>3. QED
    BY <2>1, <2>2 DEF PumpInv
<1>2. CASE driver = "embedder" /\ Beside(EmbedderActs)
  BY <1>1, <1>2, EmbedderLeaves DEF Beside
<1>3. CASE Beside(HostDrop("r"))
  <2>1. Goes(s, s') /\ KeptW(s, s') /\ UNCHANGED <<kind, at, hops, alive>>
    BY <1>3, HostDropStep DEF Beside, PumpInv, Ends
  <2>2. Leaves
    BY <2>1, GoesLeaves DEF PumpInv
  <2>3. QED
    BY <1>1, <1>3, <2>2 DEF Beside
<1>4. CASE Beside(Others)
  <2>1. CASE WriteAllResumes
    BY <1>4, <2>1, BesideWriteAll DEF Beside
  <2>2. CASE ~WriteAllResumes
    BY <1>1, <1>4, <2>2, OthersLeave DEF Beside
  <2>3. QED
    BY <2>1, <2>2
<1>5. QED
  BY <1>2, <1>3, <1>4 DEF Surroundings

-----------------------------------------------------------------------------
(* The steps of the pump and of its producer. *)

LEMMA PumpParts ==
  ASSUME PumpInv, driver \in Producers
  PROVE  /\ StreamInv /\ kind = "created" /\ pump \in PumpType /\ Course(pump) /\ driver # "embedder"
         /\ s.op["w"] \in {"none", "plain"} /\ s.all.mode # "cancelled"
         /\ s.dropped => pump.lost \/ pump.pc = "done"
         /\ pump.pc = "writing" => Writing(pump, s)
         /\ pump.pc # "writing" => Between(pump, s)
         /\ s.total["w"] \in Nat
<1>1. s.total["w"] \in Nat
  BY InvParts, EndsAre DEF PumpInv, Typed, StreamType
<1>2. QED
  BY <1>1 DEF PumpInv, Pumping, Producers, Cooperative

LEMMA PumpNat ==
  ASSUME NEW p \in PumpType
  PROVE  /\ p.batch \in Nat /\ p.before \in Nat /\ p.made \in Nat /\ p.destroyed \in Nat
         /\ p.offered \in Nat /\ p.pulls \in Nat /\ 0 \in 0..MaxLen /\ p.batch <= MaxLen
BY HostStreamsAssumption DEF PumpType

LEMMA ToKept ==
  ASSUME PumpInv, driver \in Producers, NEW p, To(p), Pumping(p, s)
  PROVE  PumpInv'
<1>1. pump' = p /\ UNCHANGED <<kind, at, hops, alive, s, driver>>
  BY DEF To, vars
<1>2. StreamInv'
  <2>1. Held(s', {}) /\ Fed(s)' /\ Armed(s, at, hops)'
    BY <1>1 DEF PumpInv, StreamInv, Fed, Armed
  <2>2. Held(s, {})'
    BY <1>1, <2>1, StillHeld
  <2>3. QED
    BY <1>1, <2>1, <2>2 DEF PumpInv, StreamInv
<1>3. Pumping(pump, s)'
  BY <1>1 DEF Pumping, Course, Writing, Between
<1>4. QED
  BY <1>1, <1>2, <1>3, PumpParts DEF PumpInv

LEMMA PullStep ==
  ASSUME PumpInv,
         \/ \E len \in 0..MaxLen : PullYields(len) \/ StragglerYields(len)
         \/ PullEnds \/ PullThrows \/ StragglerEnds \/ Gone
  PROVE  PumpInv'
<1>1. driver \in Producers /\ pump.pc \in {"pull", "drain"}
  BY DEF PullYields, StragglerYields, PullEnds, PullThrows, StragglerEnds, Gone, At
<1>2. /\ pump \in PumpType /\ Course(pump) /\ s.op["w"] \in {"none", "plain"}
      /\ s.all.mode # "cancelled" /\ Between(pump, s) /\ s.total["w"] \in Nat
      /\ s.dropped => pump.lost
      /\ pump.batch \in Nat /\ pump.offered \in Nat /\ pump.pulls \in Nat /\ 0 \in 0..MaxLen
  BY <1>1, PumpParts, PumpNat
<1>3. ASSUME NEW len \in 0..MaxLen, PullYields(len) \/ StragglerYields(len) PROVE PumpInv'
  <2> DEFINE l == pump.pc = "drain" \/ pump.last
             p == [Pulled(len) EXCEPT !.last = l]
  <2>0. l \in BOOLEAN /\ (pump.pc = "drain" => l = TRUE) /\ (pump.pc = "pull" => l = pump.last)
    BY <1>2 DEF PumpType
  <2> HIDE DEF l
  <2>1. To(p) /\ len \in Nat
    <3>1. Pulled(len) = [Pulled(len) EXCEPT !.last = pump.last] /\ pump.last \in BOOLEAN
      BY <1>2 DEF Pulled, PumpType
    <3>2. CASE PullYields(len)
      BY <2>0, <3>1, <3>2 DEF PullYields, At
    <3>3. CASE StragglerYields(len)
      BY <2>0, <3>3 DEF StragglerYields, At
    <3>4. QED
      BY <1>3, <3>2, <3>3, HostStreamsAssumption
  <2>2. /\ p \in PumpType /\ p.pc = "lower" /\ ~p.pulling /\ p.batch = len /\ p.last = l
        /\ p.cancelled = pump.cancelled /\ p.ended = pump.ended /\ p.closed = pump.closed
        /\ p.failed = pump.failed /\ p.reported = pump.reported /\ p.owned = pump.owned
        /\ p.made = pump.made /\ p.destroyed = pump.destroyed
        /\ p.offered = pump.offered + len /\ p.lost = pump.lost
    <3> DEFINE n == pump.pulls + 1
               o == pump.offered + len
    <3>1. n \in Nat /\ o \in Nat
      BY <1>2, <2>1
    <3>2. p = [pump EXCEPT !.pc = "lower", !.pulling = FALSE, !.batch = len,
                           !.pulls = n, !.offered = o, !.last = l]
      BY <1>2 DEF Pulled, PumpType
    <3>3. o = pump.offered + len
      OBVIOUS
    <3> HIDE DEF n, o, p
    <3>4. QED
      BY ZenonT(60), <1>2, <2>0, <3>1, <3>2, <3>3 DEF PumpType
  <2> HIDE DEF p
  <2>3. Course(p)
    BY <1>1, <1>2, <2>0, <2>2 DEF Course
  <2>4. Between(p, s)
    BY <1>1, <1>2, <2>1, <2>2 DEF Between
  <2>5. Pumping(p, s)
    BY <1>2, <2>2, <2>3, <2>4 DEF Pumping
  <2>6. QED
    BY <1>1, <2>1, <2>5, ToKept
<1>4. ASSUME NEW e \in BOOLEAN, NEW f \in BOOLEAN, e => pump.pc = "pull",
             pump.pc = "pull" => e \/ f,
             To(Closing([pump EXCEPT !.pulling = FALSE, !.ended = @ \/ e, !.failed = @ \/ f]))
      PROVE  PumpInv'
  <2> DEFINE p == Closing([pump EXCEPT !.pulling = FALSE, !.ended = @ \/ e, !.failed = @ \/ f])
  <2>1. /\ p \in PumpType /\ p.pc = "closing" /\ ~p.pulling /\ p.last = pump.last
        /\ p.cancelled = pump.cancelled /\ (p.ended <=> pump.ended \/ e) /\ p.closed = pump.closed
        /\ (p.failed <=> pump.failed \/ f) /\ p.reported = pump.reported /\ p.owned = pump.owned
        /\ p.made = pump.made /\ p.destroyed = pump.destroyed
        /\ p.offered = pump.offered /\ p.lost = pump.lost
    BY ZenonT(60), <1>2 DEF Closing, PumpType
  <2> HIDE DEF p
  <2>2. Course(p)
    BY <1>1, <1>2, <1>4, <2>1 DEF Course
  <2>3. Between(p, s)
    BY <1>1, <1>2, <2>1 DEF Between
  <2>4. Pumping(p, s)
    BY <1>2, <2>1, <2>2, <2>3 DEF Pumping
  <2>5. QED
    BY <1>1, <1>4, <2>4, ToKept DEF p
<1>5. CASE PullEnds
  <2>1. Closing([pump EXCEPT !.pulling = FALSE, !.ended = TRUE])
          = Closing([pump EXCEPT !.pulling = FALSE, !.ended = @ \/ TRUE, !.failed = @ \/ FALSE])
    BY <1>2 DEF Closing, PumpType
  <2>2. QED
    BY <1>4, <1>5, <2>1 DEF PullEnds, At
<1>6. CASE PullThrows
  <2>1. Closing([pump EXCEPT !.pulling = FALSE, !.failed = TRUE])
          = Closing([pump EXCEPT !.pulling = FALSE, !.ended = @ \/ FALSE, !.failed = @ \/ TRUE])
    BY <1>2 DEF Closing, PumpType
  <2>2. QED
    BY <1>4, <1>6, <2>1 DEF PullThrows, At
<1>7. CASE StragglerEnds
  <2>1. Closing([pump EXCEPT !.pulling = FALSE])
          = Closing([pump EXCEPT !.pulling = FALSE, !.ended = @ \/ FALSE, !.failed = @ \/ FALSE])
    BY <1>2 DEF Closing, PumpType
  <2>2. QED
    BY <1>4, <1>7, <2>1 DEF StragglerEnds, At
<1>8. CASE Gone
  <2> DEFINE c == driver \in Cooperative
             p == [pump EXCEPT !.pc = "drain", !.cancelled = c]
  <2>1. To(p) /\ s.dropped /\ pump.pc = "pull"
    BY <1>8 DEF Gone, At
  <2>2. /\ p \in PumpType /\ p.pc = "drain" /\ p.pulling = pump.pulling /\ p.batch = pump.batch
        /\ p.last = pump.last /\ p.ended = pump.ended /\ p.closed = pump.closed
        /\ p.failed = pump.failed /\ p.owned = pump.owned
        /\ p.made = pump.made /\ p.destroyed = pump.destroyed
        /\ p.offered = pump.offered /\ p.lost = pump.lost
    <3>1. c \in BOOLEAN
      OBVIOUS
    <3> HIDE DEF c
    <3>2. QED
      BY <1>2, <3>1 DEF PumpType
  <2> HIDE DEF p
  <2>3. Course(p)
    BY <1>2, <2>1, <2>2 DEF Course
  <2>4. Between(p, s)
    BY <1>2, <2>1, <2>2 DEF Between
  <2>5. Pumping(p, s)
    BY <1>2, <2>2, <2>3, <2>4 DEF Pumping
  <2>6. QED
    BY <1>1, <2>1, <2>5, ToKept
<1>9. QED
  BY <1>3, <1>5, <1>6, <1>7, <1>8

\* A batch is over: the pump goes on to the next, or to its cleanup.
LEMMA BatchOver ==
  ASSUME PumpInv, driver \in Producers, pump.pc \in {"lower", "writing"},
         s.all.mode = "none", s.op["w"] = "none",
         NEW m \in Nat, NEW d \in Nat, NEW f \in BOOLEAN, NEW p, To(p),
         pump.owned => m = s.total["w"] + d,
         \/ /\ p = [pump EXCEPT !.made = m, !.destroyed = d, !.failed = f, !.pc = "closing", !.batch = 0]
            /\ f \/ pump.lost
         \/ /\ p = [pump EXCEPT !.made = m, !.destroyed = d, !.pc = "pull", !.pulling = TRUE, !.batch = 0]
            /\ ~pump.last /\ (pump.failed \/ pump.lost \/ pump.offered = s.total["w"])
  PROVE  PumpInv'
<1>1. /\ pump \in PumpType /\ Course(pump) /\ s.total["w"] \in Nat /\ 0 \in 0..MaxLen
      /\ s.dropped => pump.lost
      /\ pump.offered \in Nat
  BY PumpParts, PumpNat
<1>2. CASE /\ p = [pump EXCEPT !.made = m, !.destroyed = d, !.failed = f, !.pc = "closing", !.batch = 0]
           /\ f \/ pump.lost
  <2>1. /\ p \in PumpType /\ p.pc = "closing" /\ p.pulling = pump.pulling /\ p.last = pump.last
        /\ p.cancelled = pump.cancelled /\ p.ended = pump.ended /\ p.closed = pump.closed
        /\ p.failed = f /\ p.owned = pump.owned /\ p.made = m /\ p.destroyed = d /\ p.lost = pump.lost
    BY <1>1, <1>2 DEF PumpType
  <2>2. Course(p)
    BY <1>1, <1>2, <2>1 DEF Course
  <2>3. Between(p, s)
    BY <1>1, <1>2, <2>1 DEF Between
  <2>4. Pumping(p, s)
    BY <1>1, <2>1, <2>2, <2>3 DEF Pumping
  <2>5. QED
    BY <2>4, ToKept
<1>3. CASE /\ p = [pump EXCEPT !.made = m, !.destroyed = d, !.pc = "pull", !.pulling = TRUE, !.batch = 0]
           /\ ~pump.last /\ (pump.failed \/ pump.lost \/ pump.offered = s.total["w"])
  <2>1. /\ p \in PumpType /\ p.pc = "pull" /\ p.pulling /\ p.last = pump.last
        /\ p.cancelled = pump.cancelled /\ p.ended = pump.ended /\ p.closed = pump.closed
        /\ p.failed = pump.failed /\ p.owned = pump.owned /\ p.made = m /\ p.destroyed = d
        /\ p.lost = pump.lost /\ p.offered = pump.offered
    BY <1>1, <1>3 DEF PumpType
  <2>2. Course(p)
    BY <1>1, <1>3, <2>1 DEF Course
  <2>3. Between(p, s)
    BY <1>1, <1>3, <2>1 DEF Between
  <2>4. Pumping(p, s)
    BY <1>1, <2>1, <2>2, <2>3 DEF Pumping
  <2>5. QED
    BY <2>4, ToKept
<1>4. QED
  BY <1>2, <1>3

LEMMA MadeIs ==
  ASSUME NEW p \in PumpType, NEW n \in Nat
  PROVE  \E m \in Nat : /\ Made(p, n) = [p EXCEPT !.made = m] /\ Made(p, n) \in PumpType
                        /\ p.owned => m = p.made + n
<1>1. CASE p.owned
  <2>1. p.made + n \in Nat
    BY PumpNat
  <2>2. Made(p, n) = [p EXCEPT !.made = p.made + n]
    BY <1>1 DEF Made, PumpType
  <2> DEFINE m == p.made + n
  <2>3. m \in Nat /\ Made(p, n) = [p EXCEPT !.made = m] /\ m = p.made + n
    BY <2>1, <2>2
  <2> HIDE DEF m
  <2>4. Made(p, n) \in PumpType
    BY <2>3 DEF PumpType
  <2>5. QED
    BY <2>3, <2>4
<1>2. CASE ~p.owned
  <2>1. Made(p, n) = p /\ p.made \in Nat /\ p = [p EXCEPT !.made = p.made]
    BY <1>2, PumpNat DEF Made, PumpType
  <2>2. QED
    BY <1>2, <2>1
<1>3. QED
  BY <1>1, <1>2

LEMMA ReleasedIs ==
  ASSUME NEW p \in PumpType, NEW n \in Nat
  PROVE  \E d \in Nat : /\ ReleaseUntaken(p, n) = [p EXCEPT !.destroyed = d]
                        /\ ReleaseUntaken(p, n) \in PumpType
                        /\ p.owned => d = p.destroyed + n
<1>1. CASE p.owned
  <2>1. p.destroyed + n \in Nat
    BY PumpNat
  <2>2. ReleaseUntaken(p, n) = [p EXCEPT !.destroyed = p.destroyed + n]
    BY <1>1 DEF ReleaseUntaken, PumpType
  <2> DEFINE m == p.destroyed + n
  <2>3. m \in Nat /\ ReleaseUntaken(p, n) = [p EXCEPT !.destroyed = m] /\ m = p.destroyed + n
    BY <2>1, <2>2
  <2> HIDE DEF m
  <2>4. ReleaseUntaken(p, n) \in PumpType
    BY <2>3 DEF PumpType
  <2>5. QED
    BY <2>3, <2>4
<1>2. CASE ~p.owned
  <2>1. ReleaseUntaken(p, n) = p /\ p.destroyed \in Nat /\ p = [p EXCEPT !.destroyed = p.destroyed]
    BY <1>2, PumpNat DEF ReleaseUntaken, PumpType
  <2>2. QED
    BY <1>2, <2>1
<1>3. QED
  BY <1>1, <1>2

\* What is lowered and released at once leaves the balance as it was.
LEMMA MadeAndReleased ==
  ASSUME NEW p \in PumpType, NEW n \in Nat
  PROVE  \E m \in Nat, d \in Nat :
           /\ ReleaseUntaken(Made(p, n), n) = [p EXCEPT !.made = m, !.destroyed = d]
           /\ p.owned => m = p.made + n /\ d = p.destroyed + n
<1>1. PICK m \in Nat : /\ Made(p, n) = [p EXCEPT !.made = m] /\ Made(p, n) \in PumpType
                       /\ p.owned => m = p.made + n
  BY MadeIs
<1> DEFINE q == Made(p, n)
<1>2. q \in PumpType /\ q = [p EXCEPT !.made = m] /\ q.owned = p.owned /\ q.destroyed = p.destroyed
  BY <1>1 DEF PumpType
<1> HIDE DEF q
<1>3. PICK d \in Nat : /\ ReleaseUntaken(q, n) = [q EXCEPT !.destroyed = d]
                       /\ q.owned => d = q.destroyed + n
  BY <1>2, ReleasedIs
<1>4. [q EXCEPT !.destroyed = d] = [p EXCEPT !.made = m, !.destroyed = d]
  BY <1>2 DEF PumpType
<1>5. ReleaseUntaken(q, n) = [p EXCEPT !.made = m, !.destroyed = d]
      /\ (p.owned => m = p.made + n /\ d = p.destroyed + n)
  BY <1>1, <1>2, <1>3, <1>4
<1>6. QED
  BY <1>5 DEF q

LEMMA LowerStops ==
  ASSUME PumpInv, Abandons \/ LowerFails \/ LowerDropped \/ LowerNothing
  PROVE  PumpInv'
<1>1. driver \in Producers /\ pump.pc = "lower"
  BY DEF Abandons, LowerFails, LowerDropped, LowerNothing, At
<1>2. /\ pump \in PumpType /\ Course(pump) /\ Between(pump, s) /\ s.total["w"] \in Nat
      /\ s.dropped => pump.lost
      /\ pump.made \in Nat /\ pump.destroyed \in Nat /\ pump.offered \in Nat /\ pump.batch \in Nat
  BY <1>1, PumpParts, PumpNat
<1>3. /\ s.all.mode = "none" /\ s.op["w"] = "none"
      /\ pump.owned => pump.made = s.total["w"] + pump.destroyed
  BY <1>2 DEF Between
<1>4. Closing(pump) = [pump EXCEPT !.made = pump.made, !.destroyed = pump.destroyed,
                                   !.failed = pump.failed, !.pc = "closing", !.batch = 0]
  BY <1>2 DEF Closing, PumpType
<1>5. pump.failed \in BOOLEAN /\ pump.batch \in 0..MaxLen
  BY <1>2 DEF PumpType
<1>6. ASSUME NEW n \in Nat, NEW f \in BOOLEAN, f \/ pump.lost,
             To(Closing([ReleaseUntaken(Made(pump, n), n) EXCEPT !.failed = f]))
      PROVE  PumpInv'
  <2>1. PICK m \in Nat, d \in Nat :
          /\ ReleaseUntaken(Made(pump, n), n) = [pump EXCEPT !.made = m, !.destroyed = d]
          /\ pump.owned => m = pump.made + n /\ d = pump.destroyed + n
    BY <1>2, MadeAndReleased
  <2> DEFINE p == [pump EXCEPT !.made = m, !.destroyed = d, !.failed = f, !.pc = "closing", !.batch = 0]
  <2>2. Closing([ReleaseUntaken(Made(pump, n), n) EXCEPT !.failed = f]) = p
    BY <1>2, <2>1 DEF Closing, PumpType
  <2>3. pump.owned => m = s.total["w"] + d
    BY <1>2, <1>3, <2>1
  <2>4. To(p)
    BY <1>6, <2>2
  <2>5. p = [pump EXCEPT !.made = m, !.destroyed = d, !.failed = f, !.pc = "closing", !.batch = 0]
    OBVIOUS
  <2> HIDE DEF p
  <2>6. QED
    BY ZenonT(60), <1>1, <1>3, <1>6, <2>3, <2>4, <2>5, BatchOver
<1>7. CASE Abandons
  <2>1. To(Closing(pump)) /\ pump.lost
    BY <1>2, <1>7 DEF Abandons, Broken
  <2>2. QED
    BY <1>1, <1>2, <1>3, <1>4, <1>5, <2>1, BatchOver
<1>8. CASE LowerFails
  <2>1. PICK n \in 0..(pump.batch - 1) : To(PackFails(pump, n))
    BY <1>8 DEF LowerFails
  <2>2. n \in Nat
    BY <1>2
  <2>3. To(Closing([ReleaseUntaken(Made(pump, n), n) EXCEPT !.failed = TRUE]))
    BY <2>1 DEF PackFails
  <2>4. QED
    BY <1>6, <2>2, <2>3
<1>9. CASE LowerDropped
  <2> DEFINE q == ReleaseUntaken(Made(pump, pump.batch), pump.batch)
  <2>1. To(Closing(q)) /\ pump.lost
    BY <1>2, <1>9 DEF LowerDropped, LoweredTooLate, Broken
  <2>2. q = [q EXCEPT !.failed = pump.failed]
    <3>1. PICK m \in Nat, d \in Nat :
            /\ ReleaseUntaken(Made(pump, pump.batch), pump.batch)
                  = [pump EXCEPT !.made = m, !.destroyed = d]
            /\ pump.owned => m = pump.made + pump.batch /\ d = pump.destroyed + pump.batch
      BY <1>2, MadeAndReleased
    <3>2. q = [pump EXCEPT !.made = m, !.destroyed = d]
      BY <3>1
    <3> HIDE DEF q
    <3>3. QED
      BY <1>2, <3>2 DEF PumpType
  <2>3. To(Closing([q EXCEPT !.failed = pump.failed]))
    BY <2>1, <2>2
  <2>4. QED
    BY <1>2, <1>5, <1>6, <2>1, <2>3
<1>10. CASE LowerNothing
  <2>1. To(Resumed(pump)) /\ pump.batch = 0
    BY <1>10 DEF LowerNothing
  <2>2. CASE pump.last
    <3>1. To(Closing(pump)) /\ pump.lost
      BY <1>2, <2>1, <2>2 DEF Resumed, Course
    <3>2. QED
      BY <1>1, <1>2, <1>3, <1>4, <1>5, <3>1, BatchOver
  <2>3. CASE ~pump.last
    <3>1. Resumed(pump) = [pump EXCEPT !.made = pump.made, !.destroyed = pump.destroyed,
                                       !.pc = "pull", !.pulling = TRUE, !.batch = 0]
      BY <1>2, <2>3 DEF Resumed, PumpType
    <3>2. pump.failed \/ pump.lost \/ pump.offered = s.total["w"]
      BY <1>1, <1>2, <2>1 DEF Between
    <3>3. QED
      BY <1>1, <1>2, <1>3, <1>5, <2>1, <2>3, <3>1, <3>2, BatchOver
  <2>4. QED
    BY <2>2, <2>3
<1>11. QED
  BY <1>7, <1>8, <1>9, <1>10

LEMMA WriteSettlesStep ==
  ASSUME PumpInv, WriteSettles
  PROVE  PumpInv'
<1> DEFINE n == s.total["w"] - pump.before
           k == pump.batch - n
           q == ReleaseUntaken(pump, k)
<1>1. driver \in Producers /\ pump.pc = "writing" /\ s.all.mode = "none" /\ To(Written(pump, n))
  BY DEF WriteSettles, At
<1>2. /\ pump \in PumpType /\ Course(pump) /\ Writing(pump, s) /\ s.total["w"] \in Nat
      /\ s.dropped => pump.lost
      /\ pump.made \in Nat /\ pump.destroyed \in Nat /\ pump.offered \in Nat
      /\ pump.batch \in Nat /\ pump.before \in Nat /\ s.poisoned \in BOOLEAN /\ pump.failed \in BOOLEAN
  BY <1>1, PumpParts, PumpNat, InvParts DEF PumpType, Typed, StreamType
<1>3. /\ s.op["w"] = "none" /\ k \in Nat
      /\ pump.owned => pump.made = s.total["w"] + (pump.destroyed + k)
      /\ n < pump.batch => pump.lost
      /\ pump.failed \/ pump.lost \/ n < pump.batch \/ pump.offered = s.total["w"]
  BY <1>1, <1>2 DEF Writing
<1> HIDE DEF n, k
<1>4. PICK d \in Nat : q = [pump EXCEPT !.destroyed = d] /\ (pump.owned => d = pump.destroyed + k)
  BY <1>2, <1>3, ReleasedIs
<1>5. pump.owned => pump.made = s.total["w"] + d
  BY <1>3, <1>4
<1>6. Written(pump, n) = IF n < pump.batch THEN Closing([q EXCEPT !.failed = s.poisoned]) ELSE Resumed(q)
  BY DEF Written, Broken, k
<1> HIDE DEF q
<1>7. CASE n < pump.batch
  <2>1. Closing([q EXCEPT !.failed = s.poisoned])
          = [pump EXCEPT !.made = pump.made, !.destroyed = d, !.failed = s.poisoned,
                         !.pc = "closing", !.batch = 0]
    BY <1>2, <1>4 DEF Closing, PumpType
  <2> DEFINE p == [pump EXCEPT !.made = pump.made, !.destroyed = d, !.failed = s.poisoned,
                               !.pc = "closing", !.batch = 0]
  <2>2. To(p) /\ p = [pump EXCEPT !.made = pump.made, !.destroyed = d, !.failed = s.poisoned,
                                  !.pc = "closing", !.batch = 0]
    BY <1>1, <1>6, <1>7, <2>1
  <2> HIDE DEF p
  <2>3. pump.made \in Nat /\ s.poisoned \in BOOLEAN /\ (s.poisoned \/ pump.lost)
    BY <1>2, <1>3, <1>7
  <2>4. QED
    BY <1>1, <1>3, <1>5, <2>2, <2>3, BatchOver
<1>8. CASE ~(n < pump.batch) /\ pump.last
  <2>1. Closing(q) = [pump EXCEPT !.made = pump.made, !.destroyed = d, !.failed = pump.failed,
                                  !.pc = "closing", !.batch = 0]
    BY <1>2, <1>4 DEF Closing, PumpType
  <2>2. Resumed(q) = Closing(q) /\ pump.lost
    BY <1>2, <1>4, <1>8 DEF Resumed, PumpType, Course
  <2> DEFINE p == [pump EXCEPT !.made = pump.made, !.destroyed = d, !.failed = pump.failed,
                               !.pc = "closing", !.batch = 0]
  <2>3. To(p) /\ p = [pump EXCEPT !.made = pump.made, !.destroyed = d, !.failed = pump.failed,
                                  !.pc = "closing", !.batch = 0]
    BY <1>1, <1>6, <1>8, <2>1, <2>2
  <2> HIDE DEF p
  <2>4. pump.made \in Nat /\ pump.failed \in BOOLEAN /\ (pump.failed \/ pump.lost)
    BY <1>2, <2>2
  <2>5. QED
    BY <1>1, <1>3, <1>5, <2>3, <2>4, BatchOver
<1>9. CASE ~(n < pump.batch) /\ ~pump.last
  <2>1. Resumed(q) = [pump EXCEPT !.made = pump.made, !.destroyed = d,
                                  !.pc = "pull", !.pulling = TRUE, !.batch = 0]
    BY <1>2, <1>4, <1>9 DEF Resumed, PumpType
  <2>2. QED
    BY ZenonT(60), <1>1, <1>2, <1>3, <1>5, <1>6, <1>9, <2>1, BatchOver
<1>10. QED
  BY <1>7, <1>8, <1>9

\* A step of the pump that acts on the stream.
LEMMA ToStream ==
  ASSUME PumpInv, driver \in Producers, UNCHANGED <<kind, driver>>, StreamInv',
         NEW p, pump' = p, Pumping(p, s')
  PROVE  PumpInv'
<1>1. Pumping(pump, s)'
  BY DEF Pumping, Course, Writing, Between
<1>2. QED
  BY <1>1, PumpParts DEF PumpInv

LEMMA DropsWhileLoweringStep ==
  ASSUME PumpInv, DropsWhileLowering
  PROVE  PumpInv'
<1> DEFINE u == DroppedBy(s, Ends)
           q == ReleaseUntaken(Made(pump, pump.batch), pump.batch)
<1>1. /\ driver \in Producers /\ pump.pc = "lower" /\ UNCHANGED <<kind, at, hops, alive, driver>>
      /\ s' = [u EXCEPT !.act = Closed(@)] /\ pump' = [Closing(q) EXCEPT !.lost = TRUE]
  BY DEF DropsWhileLowering, At, LoweredTooLate, Broken
<1>2. /\ pump \in PumpType /\ Course(pump) /\ Between(pump, s) /\ s.total["w"] \in Nat
      /\ s.all.mode # "cancelled"
      /\ pump.made \in Nat /\ pump.destroyed \in Nat /\ pump.offered \in Nat /\ pump.batch \in Nat
  BY <1>1, PumpParts, PumpNat
<1>3. Goes(s, u) /\ KeptW(s, u) /\ [u EXCEPT !.act = Closed(@)] = u
  BY DropStep DEF PumpInv
<1> HIDE DEF u
<1>4. s' = u
  BY <1>1, <1>3
<1>5. PICK m \in Nat, d \in Nat :
        /\ ReleaseUntaken(Made(pump, pump.batch), pump.batch) = [pump EXCEPT !.made = m, !.destroyed = d]
        /\ pump.owned => m = pump.made + pump.batch /\ d = pump.destroyed + pump.batch
  BY <1>2, MadeAndReleased
<1>6. q = [pump EXCEPT !.made = m, !.destroyed = d]
  BY <1>5
<1>7. pump.owned => m = s.total["w"] + d
  BY <1>2, <1>5 DEF Between
<1> HIDE DEF q
<1> DEFINE p == [pump EXCEPT !.made = m, !.destroyed = d, !.pc = "closing", !.batch = 0, !.lost = TRUE]
<1>8. pump' = p
  BY <1>1, <1>2, <1>6 DEF Closing, PumpType
<1>9. /\ p \in PumpType /\ p.pc = "closing" /\ p.pulling = pump.pulling /\ p.last = pump.last
      /\ p.cancelled = pump.cancelled /\ p.ended = pump.ended /\ p.closed = pump.closed
      /\ p.failed = pump.failed /\ p.owned = pump.owned /\ p.made = m /\ p.destroyed = d /\ p.lost
  <2>1. 0 \in 0..MaxLen
    BY HostStreamsAssumption
  <2>2. QED
    BY <1>2, <2>1 DEF PumpType
<1> HIDE DEF p
<1>10. Course(p)
  BY <1>1, <1>2, <1>9 DEF Course
<1>11. Between(p, u)
  BY <1>2, <1>3, <1>7, <1>9 DEF Between, KeptW
<1>12. Pumping(p, u)
  BY <1>2, <1>3, <1>9, <1>10, <1>11 DEF Pumping, KeptW, Between
<1>13. StreamInv'
  BY <1>1, <1>3, <1>4, GoesOn DEF PumpInv
<1>14. QED
  BY <1>1, <1>4, <1>8, <1>12, <1>13, ToStream

LEMMA FinishStep ==
  ASSUME PumpInv, Finish
  PROVE  PumpInv'
<1> DEFINE u == DroppedBy(s, Ends)
<1>1. PICK fails \in BOOLEAN : Finishes(fails)
  BY DEF Finish
<1>2. /\ driver \in Producers /\ pump.pc = "closing" /\ ~pump.pulling
      /\ UNCHANGED <<kind, at, hops, alive, driver>>
      /\ s' = IF s.act.closed THEN s ELSE [u EXCEPT !.act = Closed(@)]
      /\ pump' = [Reported([CleanedUp(pump) EXCEPT !.failed = @ \/ fails]) EXCEPT !.pc = "done"]
  BY <1>1 DEF Finishes, At
<1>3. /\ pump \in PumpType /\ Course(pump) /\ Between(pump, s) /\ s.total["w"] \in Nat
      /\ s.all.mode # "cancelled" /\ StreamInv /\ pump.offered \in Nat
  BY <1>2, PumpParts, PumpNat
<1>4. Goes(s, u) /\ KeptW(s, u) /\ [u EXCEPT !.act = Closed(@)] = u
  BY <1>3, DropStep
<1> HIDE DEF u
<1>5. StreamInv' /\ KeptW(s, s')
  <2>1. CASE s.act.closed
    <3>1. s' = s
      BY <1>2, <2>1
    <3>2. Held(s', {}) /\ Fed(s') /\ Armed(s', at, hops)
      BY <1>3, <3>1 DEF StreamInv
    <3>3. Held(s, {})'
      BY <1>2, <3>2, StillHeld
    <3>4. QED
      BY <1>2, <1>3, <3>1, <3>2, <3>3 DEF StreamInv, Fed, Armed, KeptW
  <2>2. CASE ~s.act.closed
    <3>1. s' = u
      BY <1>2, <1>4, <2>2
    <3>2. QED
      BY <1>2, <1>3, <1>4, <3>1, GoesOn
  <2>3. QED
    BY <2>1, <2>2
<1> DEFINE c == pump.cancelled \/ (driver = "web" /\ ~pump.ended)
           f == pump.failed \/ fails
           p == [pump EXCEPT !.closed = TRUE, !.cancelled = c, !.failed = f, !.reported = f, !.pc = "done"]
<1>6. c \in BOOLEAN /\ f \in BOOLEAN /\ (pump.failed => f)
      /\ (c <=> pump.cancelled \/ (driver = "web" /\ ~pump.ended))
  BY <1>3 DEF PumpType
<1>7. pump' = p
  BY <1>2, <1>3 DEF Reported, CleanedUp, PumpType
<1> HIDE DEF c, f
<1>8. /\ p \in PumpType /\ p.pc = "done" /\ p.pulling = pump.pulling /\ p.last = pump.last
      /\ p.cancelled = c /\ p.ended = pump.ended /\ p.closed /\ p.failed = f /\ p.reported = f
      /\ p.owned = pump.owned /\ p.made = pump.made /\ p.destroyed = pump.destroyed
      /\ p.lost = pump.lost /\ p.offered = pump.offered
  BY ZenonT(60), <1>3, <1>6 DEF PumpType
<1> HIDE DEF p
<1>9. Course(p)
  BY <1>2, <1>3, <1>6, <1>8 DEF Course
<1>10. s'.all.mode = s.all.mode /\ s.op["w"] = "none" /\ s'.op["w"] = "none" /\ s'.total["w"] = s.total["w"]
  BY <1>3, <1>5 DEF Between, KeptW
<1>11. Between(p, s')
  BY <1>2, <1>3, <1>6, <1>8, <1>10 DEF Between
<1>12. Pumping(p, s')
  BY <1>3, <1>8, <1>9, <1>10, <1>11 DEF Pumping
<1>13. QED
  BY <1>2, <1>5, <1>7, <1>12, ToStream

LEMMA LowerAndWriteStep ==
  ASSUME PumpInv, LowerAndWrite
  PROVE  PumpInv'
<1>1. /\ driver \in Producers /\ pump.pc = "lower" /\ HostWriteAll(pump.batch) /\ UNCHANGED driver
      /\ pump' = [Made(pump, pump.batch) EXCEPT !.pc = "writing", !.before = s.total["w"]]
  BY DEF LowerAndWrite, At
<1>2. /\ pump \in PumpType /\ Course(pump) /\ Between(pump, s) /\ s.total["w"] \in Nat
      /\ StreamInv /\ pump.offered \in Nat /\ pump.made \in Nat /\ pump.destroyed \in Nat
      /\ pump.batch \in Nat /\ pump.batch \in 0..MaxLen
      /\ s.dropped => pump.lost
  BY <1>1, PumpParts, PumpNat DEF PumpType
<1>3. /\ Goes(s, s') /\ UNCHANGED <<kind, at, hops, alive>> /\ s'.dropped = s.dropped
      /\ s'.all.mode = "active" /\ s'.all.sent = 0 /\ s'.all.left = pump.batch
      /\ s'.total["w"] = s.total["w"] /\ s'.op["w"] \in {"none", "plain"}
  BY <1>1, <1>2, HostWriteAllStep
<1>4. StreamInv'
  BY <1>2, <1>3, GoesOn
<1>5. PICK m \in Nat : /\ Made(pump, pump.batch) = [pump EXCEPT !.made = m]
                       /\ pump.owned => m = pump.made + pump.batch
  BY <1>2, MadeIs
<1> DEFINE p == [pump EXCEPT !.made = m, !.pc = "writing", !.before = s.total["w"]]
<1>6. pump' = p
  BY <1>1, <1>2, <1>5 DEF PumpType
<1>7. /\ p \in PumpType /\ p.pc = "writing" /\ p.pulling = pump.pulling /\ p.last = pump.last
      /\ p.cancelled = pump.cancelled /\ p.ended = pump.ended /\ p.closed = pump.closed
      /\ p.failed = pump.failed /\ p.reported = pump.reported /\ p.before = s.total["w"]
      /\ p.owned = pump.owned /\ p.made = m /\ p.destroyed = pump.destroyed
      /\ p.lost = pump.lost /\ p.offered = pump.offered /\ p.batch = pump.batch
  BY <1>2 DEF PumpType
<1> HIDE DEF p
<1>8. Course(p)
  BY <1>1, <1>2, <1>7 DEF Course
<1>9. pump.owned => m = s.total["w"] + pump.batch + pump.destroyed
  BY <1>2, <1>5 DEF Between
<1>10. Writing(p, s')
  BY <1>1, <1>2, <1>3, <1>7, <1>9 DEF Writing, Between
<1>11. Pumping(p, s')
  BY <1>2, <1>3, <1>7, <1>8, <1>10 DEF Pumping
<1>12. QED
  BY <1>1, <1>3, <1>4, <1>6, <1>11, ToStream

-----------------------------------------------------------------------------
(* The initial states and the theorems. *)

\* A stream on which nothing has been done.
LEMMA FreshHeld ==
  ASSUME NEW t, NEW gone \in BOOLEAN, NEW done \in [Ends -> BOOLEAN], NEW a, ActSound(a),
         at \in {"host", "guest"},
         t = [slot |-> NoEnd, dropped |-> gone,
              op |-> [e \in Ends |-> "none"], buf |-> [e \in Ends |-> NoBuffer],
              sess |-> [e \in Ends |-> FreshSession], all |-> NotWhole,
              event |-> [e \in Ends |-> "none"], done |-> done, left |-> done, poisoned |-> FALSE,
              act |-> a, hollow |-> FALSE, moved |-> [e \in Ends |-> 0],
              total |-> [e \in Ends |-> 0]],
         \A e \in Ends : done[e] => gone
  PROVE  /\ Held(t, {}) /\ Fed(t) /\ t.dropped = gone /\ t.act = a /\ t.op["w"] = "none"
         /\ t.all.mode = "none" /\ t.total["w"] = 0
<1>1. NoBuffer \in BufferType /\ FreshSession \in SessionType /\ NotWhole \in WholeType
      /\ "w" \in Ends /\ ~FreshSession.pending /\ NotWhole.mode = "none"
      /\ NotWhole.sent = 0 /\ NotWhole.got = 0
  BY HostStreamsAssumption
     DEF NoBuffer, BufferType, FreshSession, SessionType, Turns, NotWhole, WholeType, Ends
<1> DEFINE op == [e \in Ends |-> "none"]
           buf == [e \in Ends |-> NoBuffer]
           sess == [e \in Ends |-> FreshSession]
           zero == [e \in Ends |-> 0]
           all == NotWhole
<1>2. /\ op \in [Ends -> Ops] /\ op \in [Ends -> Deliveries] /\ buf \in [Ends -> BufferType]
      /\ sess \in [Ends -> SessionType] /\ zero \in [Ends -> Nat] /\ all \in WholeType
      /\ all.mode = "none" /\ all.sent = 0 /\ all.got = 0 /\ all = NotWhole
      /\ \A e \in Ends : op[e] = "none" /\ zero[e] = 0 /\ ~sess[e].pending
  BY <1>1 DEF Ops, Deliveries
<1>3. /\ t.slot = NoEnd /\ t.dropped = gone /\ t.op = op /\ t.buf = buf /\ t.sess = sess
      /\ t.all = all /\ t.event = op /\ t.done = done /\ t.left = done /\ t.act = a
      /\ t.moved = zero /\ t.total = zero
  OBVIOUS
<1>4. t \in StreamType
  <2>1. t = [slot |-> NoEnd, dropped |-> gone, op |-> op, buf |-> buf, sess |-> sess, all |-> all,
             event |-> op, done |-> done, left |-> done, poisoned |-> FALSE, act |-> a,
             hollow |-> FALSE, moved |-> zero, total |-> zero]
    OBVIOUS
  <2>2. a \in ActType
    BY DEF ActSound
  <2> HIDE DEF op, buf, sess, zero, all
  <2>3. QED
    BY <1>2, <2>1, <2>2 DEF StreamType
<1> HIDE DEF op, buf, sess, zero, all
<1>5. Typed(t) /\ Whole(t) /\ Fed(t)
  BY <1>2, <1>3, <1>4 DEF Typed, Whole, Fed
<1>6. ASSUME NEW x \in Ends PROVE Both(t, x) /\ On(t, x)
  <2>1. x # NoEnd
    BY EndsAre
  <2>2. Both(t, x)
    BY <1>2, <1>3 DEF Both, FlightOf
  <2>3. On(t, x)
    BY <1>2, <1>3, <2>1 DEF On
  <2>4. QED
    BY <2>2, <2>3
<1>7. Held(t, {})
  BY <1>5, <1>6 DEF Held
<1>8. QED
  BY <1>1, <1>2, <1>3, <1>5, <1>7

LEMMA PumpStarts == PumpInit => PumpInv
<1>1. ASSUME Init, driver = "embedder", pump = [Idling EXCEPT !.pc = "done"] PROVE PumpInv
  <2>1. PICK gone \in {FALSE, kind = "lifted"} :
          s = [slot |-> NoEnd, dropped |-> gone,
               op |-> [e \in Ends |-> "none"], buf |-> [e \in Ends |-> NoBuffer],
               sess |-> [e \in Ends |-> FreshSession], all |-> NotWhole,
               event |-> [e \in Ends |-> "none"],
               done |-> [e \in Ends |-> gone /\ e = "w"], left |-> [e \in Ends |-> gone /\ e = "w"],
               poisoned |-> FALSE,
               act |-> [bound |-> kind = "lifted" /\ ~gone, closed |-> gone,
                        disarmed |-> FALSE, armed |-> kind = "lifted" /\ ~gone],
               hollow |-> FALSE, moved |-> [e \in Ends |-> 0], total |-> [e \in Ends |-> 0]]
    BY <1>1 DEF Init
  <2> DEFINE b == kind = "lifted" /\ ~gone
             done == [e \in Ends |-> gone /\ e = "w"]
             a == [bound |-> b, closed |-> gone, disarmed |-> FALSE, armed |-> b]
  <2>2. /\ kind \in {"created", "lifted"} /\ at = "host" /\ hops = 0 /\ alive = TRUE
        /\ gone \in BOOLEAN /\ b \in BOOLEAN /\ (b <=> kind = "lifted" /\ ~gone)
        /\ gone => kind = "lifted"
    BY <1>1, <2>1 DEF Init
  <2>3. done \in [Ends -> BOOLEAN] /\ \A e \in Ends : done[e] => gone
    BY <2>2
  <2>4. /\ s = [slot |-> NoEnd, dropped |-> gone,
               op |-> [e \in Ends |-> "none"], buf |-> [e \in Ends |-> NoBuffer],
               sess |-> [e \in Ends |-> FreshSession], all |-> NotWhole,
               event |-> [e \in Ends |-> "none"], done |-> done, left |-> done, poisoned |-> FALSE,
               act |-> a, hollow |-> FALSE, moved |-> [e \in Ends |-> 0],
               total |-> [e \in Ends |-> 0]]
    BY <2>1
  <2> HIDE DEF b, done
  <2>5. /\ a.bound = b /\ a.closed = gone /\ ~a.disarmed /\ a.armed = b
        /\ a \in ActType
    BY <2>2 DEF ActType
  <2> HIDE DEF a
  <2>6. ActSound(a)
    BY <2>2, <2>5 DEF ActSound
  <2>7. Held(s, {}) /\ Fed(s) /\ s.dropped = gone /\ s.act = a
    BY <2>2, <2>3, <2>4, <2>6, FreshHeld
  <2>8. Armed(s, at, hops)
    BY <2>2, <2>5, <2>7 DEF Armed
  <2>9. StreamInv
    BY <2>2, <2>7, <2>8 DEF StreamInv
  <2>10. pump.pc = "done" /\ ~pump.owned /\ ~pump.closed
    BY <1>1 DEF Idling
  <2>11. QED
    BY <1>1, <2>9, <2>10 DEF PumpInv, Producers, Cooperative
<1>2. ASSUME driver \in Producers, kind = "created", at = "guest", hops = 1, alive = TRUE,
             s = [slot |-> NoEnd, dropped |-> FALSE,
                  op |-> [e \in Ends |-> "none"], buf |-> [e \in Ends |-> NoBuffer],
                  sess |-> [e \in Ends |-> FreshSession], all |-> NotWhole,
                  event |-> [e \in Ends |-> "none"], done |-> [e \in Ends |-> FALSE],
                  left |-> [e \in Ends |-> FALSE], poisoned |-> FALSE,
                  act |-> [bound |-> TRUE, closed |-> FALSE, disarmed |-> FALSE, armed |-> TRUE],
                  hollow |-> FALSE, moved |-> [e \in Ends |-> 0], total |-> [e \in Ends |-> 0]],
             NEW owned \in BOOLEAN, pump = [Idling EXCEPT !.owned = owned]
      PROVE  PumpInv
  <2> DEFINE done == [e \in Ends |-> FALSE]
             a == [bound |-> TRUE, closed |-> FALSE, disarmed |-> FALSE, armed |-> TRUE]
  <2>1. done \in [Ends -> BOOLEAN] /\ \A e \in Ends : done[e] => FALSE
    OBVIOUS
  <2>2. ActSound(a) /\ a.bound /\ ~a.closed /\ ~a.disarmed
    BY DEF ActSound, ActType
  <2>3. s = [slot |-> NoEnd, dropped |-> FALSE,
             op |-> [e \in Ends |-> "none"], buf |-> [e \in Ends |-> NoBuffer],
             sess |-> [e \in Ends |-> FreshSession], all |-> NotWhole,
             event |-> [e \in Ends |-> "none"], done |-> done, left |-> done, poisoned |-> FALSE,
             act |-> a, hollow |-> FALSE, moved |-> [e \in Ends |-> 0],
             total |-> [e \in Ends |-> 0]]
    BY <1>2
  <2> HIDE DEF done, a
  <2>4. /\ Held(s, {}) /\ Fed(s) /\ s.dropped = FALSE /\ s.act = a /\ s.op["w"] = "none"
        /\ s.all.mode = "none" /\ s.total["w"] = 0
    BY <1>2, <2>1, <2>2, <2>3, FreshHeld
  <2>5. StreamInv
    BY <1>2, <2>2, <2>4 DEF StreamInv, Armed
  <2>6. /\ pump \in PumpType /\ pump.pc = "pull" /\ pump.pulling /\ ~pump.last /\ ~pump.cancelled
        /\ ~pump.ended /\ ~pump.closed /\ pump.made = 0 /\ pump.destroyed = 0 /\ pump.offered = 0
    <3>1. 0 \in 0..MaxLen /\ 0 \in Nat
      BY HostStreamsAssumption
    <3>2. pump = [pc |-> "pull", pulling |-> TRUE, pulls |-> 0, batch |-> 0, last |-> FALSE,
                  cancelled |-> FALSE, ended |-> FALSE, closed |-> FALSE, failed |-> FALSE,
                  reported |-> FALSE, before |-> 0, owned |-> owned, made |-> 0, destroyed |-> 0,
                  offered |-> 0, lost |-> FALSE]
      BY <1>2 DEF Idling
    <3>3. pump \in PumpType
      BY <3>1, <3>2 DEF PumpType
    <3>4. QED
      BY <3>2, <3>3
  <2>7. Course(pump) /\ Between(pump, s)
    BY <2>4, <2>6 DEF Course, Between
  <2>8. Pumping(pump, s)
    BY <2>4, <2>6, <2>7 DEF Pumping
  <2>9. QED
    BY <1>2, <2>5, <2>8 DEF PumpInv, Producers, Cooperative
<1>3. SUFFICES ASSUME PumpInit PROVE PumpInv
  OBVIOUS
<1>4. CASE Init /\ driver = "embedder" /\ pump = [Idling EXCEPT !.pc = "done"]
  BY <1>1, <1>4
<1>5. CASE ~(Init /\ driver = "embedder" /\ pump = [Idling EXCEPT !.pc = "done"])
  BY <1>2, <1>3, <1>5 DEF PumpInit
<1>6. QED
  BY <1>4, <1>5

LEMMA PumpGoesOn == PumpInv /\ [PumpNext]_allVars => PumpInv'
<1>1. ASSUME PumpInv, PumpNext PROVE PumpInv'
  <2>1. CASE PumpSteps
    BY <1>1, <2>1, PullStep, LowerStops, DropsWhileLoweringStep, LowerAndWriteStep,
       WriteSettlesStep, FinishStep DEF PumpSteps
  <2>2. CASE ProducerSteps
    BY <1>1, <2>2, PullStep DEF ProducerSteps
  <2>3. CASE Surroundings
    BY <1>1, <2>3, SurroundingsKept
  <2>4. QED
    BY <1>1, <2>1, <2>2, <2>3 DEF PumpNext
<1>2. ASSUME PumpInv, UNCHANGED allVars PROVE PumpInv'
  <2>1. UNCHANGED <<kind, at, hops, alive, s, driver, pump>>
    BY <1>2 DEF allVars, vars
  <2>2. StreamInv'
    <3>1. Held(s', {}) /\ Fed(s)' /\ Armed(s, at, hops)'
      BY <1>2, <2>1 DEF PumpInv, StreamInv, Fed, Armed
    <3>2. Held(s, {})'
      BY <2>1, <3>1, StillHeld
    <3>3. QED
      BY <1>2, <2>1, <3>1, <3>2 DEF PumpInv, StreamInv
  <2>3. Pumping(pump, s) => Pumping(pump, s)'
    BY <2>1 DEF Pumping, Course, Writing, Between
  <2>4. QED
    BY <1>2, <2>1, <2>2, <2>3 DEF PumpInv
<1>3. QED
  BY <1>1, <1>2

LEMMA ArmsKnown == StreamInv => ArmTracksRetention
<1>1. SUFFICES ASSUME StreamInv PROVE ArmTracksRetention
  OBVIOUS
<1>2. ActSound(s.act) /\ Armed(s, at, hops) /\ kind \in {"created", "lifted"} /\ hops \in Nat
      /\ at \in {"host", "guest"}
  BY <1>1, InvParts DEF StreamInv, Typed
<1>3. QED
  BY <1>2 DEF ArmTracksRetention, HostHolds, ActSound, Armed

LEMMA OpsTold == StreamInv => HostOpsTold
<1>1. SUFFICES ASSUME StreamInv PROVE HostOpsTold
  OBVIOUS
<1>2. /\ \A x \in Ends : Both(s, x) /\ On(s, x)
      /\ s.slot \in Ends \cup {NoEnd}
  BY <1>1, InvParts DEF Typed, StreamType
<1>3. CancelsOwnOp
  BY <1>2 DEF CancelsOwnOp, On, Both
<1>4. ProgressReported
  BY <1>2 DEF ProgressReported, InFlight, Both, FlightOf
<1>5. QED
  BY <1>3, <1>4 DEF HostOpsTold

LEMMA PumpTells == PumpInv => PumpSound
<1>1. SUFFICES ASSUME PumpInv PROVE PumpSound
  OBVIOUS
<1>2. CASE driver = "embedder"
  <2>1. pump.pc = "done" /\ ~pump.owned /\ ~pump.closed /\ driver \notin Producers
    BY <1>1, <1>2 DEF PumpInv, Producers, Cooperative
  <2>2. QED
    BY <2>1 DEF PumpSound, Custody, CleanEnd, ProducerClosed
<1>3. CASE driver \in Producers
  <2>1. /\ pump \in PumpType /\ Course(pump) /\ s.total["w"] \in Nat
        /\ s.all.mode # "cancelled"
        /\ pump.pc = "writing" => Writing(pump, s)
        /\ pump.pc # "writing" => Between(pump, s)
        /\ pump.made \in Nat /\ pump.destroyed \in Nat /\ pump.before \in Nat /\ pump.batch \in Nat
    BY <1>1, <1>3, PumpParts, PumpNat
  <2>2. /\ Whole(s) /\ Both(s, "w") /\ s.all \in WholeType /\ s.moved["w"] \in Nat
        /\ s.buf["w"].progress \in Nat /\ s.buf["w"].len \in Nat
        /\ s.all.sent \in Nat /\ s.all.got \in Nat /\ s.all.left \in Nat
    <3>1. Whole(s) /\ Both(s, "w") /\ s \in StreamType
      BY <1>1, InvParts, EndsAre DEF PumpInv, Typed
    <3>2. s.all \in WholeType /\ s.moved["w"] \in Nat /\ s.buf["w"] \in BufferType
      BY <3>1, EndsAre DEF StreamType
    <3>3. QED
      BY <3>1, <3>2, HostStreamsAssumption DEF WholeType, BufferType
  <2>3. s.moved["w"] = s.total["w"] + FlightOf(s, "w")
    BY <2>2 DEF Both
  <2>4. s.all.mode = "none" /\ s.op["w"] = "none" => s.moved["w"] = s.total["w"]
    BY <2>1, <2>2, <2>3 DEF FlightOf, Whole, NotWhole
  <2>5. pump.pc # "writing" => s.moved["w"] = s.total["w"]
    BY <2>1, <2>4 DEF Between
  <2>6. pump.pc = "writing" => s.moved["w"] <= pump.before + pump.batch
    <3>1. CASE pump.pc = "writing" /\ s.all.mode = "none"
      BY <2>1, <2>4, <3>1 DEF Writing
    <3>2. CASE pump.pc = "writing" /\ s.all.mode # "none"
      <4>1. s.total["w"] = pump.before /\ s.all.sent + s.all.left = pump.batch
        BY <2>1, <3>2 DEF Writing
      <4>2. CASE s.op["w"] = "none"
        <5>1. FlightOf(s, "w") = s.all.sent + s.all.got /\ s.all.got <= s.all.left
          BY <2>2, <3>2, <4>2 DEF FlightOf, Whole
        <5>2. QED
          BY <2>1, <2>2, <2>3, <4>1, <5>1
      <4>3. CASE s.op["w"] # "none"
        <5>1. /\ s.op["w"] = "plain" /\ s.all.got = 0 /\ s.buf["w"].len = s.all.left
              /\ s.buf["w"].progress <= s.buf["w"].len
          BY <2>2, <3>2, <4>3 DEF Whole, Both
        <5>2. FlightOf(s, "w") = s.buf["w"].progress + s.all.sent
          BY <2>2, <5>1 DEF FlightOf
        <5>3. QED
          BY <2>1, <2>2, <2>3, <4>1, <5>1, <5>2
      <4>4. QED
        BY <4>2, <4>3
    <3>3. QED
      BY <3>1, <3>2
  <2>7. Custody
    <3>1. CASE pump.pc = "writing"
      BY <2>1, <2>2, <2>6, <3>1 DEF Writing, Custody
    <3>2. CASE pump.pc # "writing"
      BY <2>1, <2>2, <2>5, <3>2 DEF Between, Custody
    <3>3. QED
      BY <3>1, <3>2
  <2>8. CleanEnd
    <3>1. SUFFICES ASSUME pump.pc = "done", ~pump.reported, ~pump.lost
                   PROVE  pump.ended /\ pump.offered = s.moved["w"]
      BY DEF CleanEnd
    <3>2. ~pump.failed /\ pump.ended
      BY <2>1, <3>1 DEF Course
    <3>3. pump.offered = s.total["w"] + 0
      BY <2>1, <3>1, <3>2 DEF Between
    <3>4. QED
      BY <2>1, <2>5, <3>1, <3>2, <3>3
  <2>9. ProducerClosed
    BY <2>1 DEF ProducerClosed, Course
  <2>10. QED
    BY <2>7, <2>8, <2>9 DEF PumpSound
<1>4. QED
  BY <1>1, <1>2, <1>3 DEF PumpInv

LEMMA PumpInductive == PumpSpec => []PumpInv
BY PumpStarts, PumpGoesOn, PTL DEF PumpSpec

(* The store holds its verdict on deadlocks back exactly while the host    *)
(* can still act on a live stream that a guest knows of, through every     *)
(* transfer, drop, trap and cancellation, of any stream (HostActivity,     *)
(* bindOnLower).                                                           *)
THEOREM ArmsTrackRetention == PumpSpec => []ArmTracksRetention
<1>1. PumpInv => ArmTracksRetention
  BY ArmsKnown DEF PumpInv
<1>2. QED
  BY <1>1, PumpInductive, PTL

(* The host withdraws only its own operations, and its promises report     *)
(* exactly what crossed the stream: batches of writeAll, direct sessions   *)
(* and plain copies, ended or in flight (mkStreamEnds, DirectSession).     *)
THEOREM HostIsTold == PumpSpec => []HostOpsTold
<1>1. PumpInv => HostOpsTold
  BY OpsTold DEF PumpInv
<1>2. QED
  BY <1>1, PumpInductive, PTL

(* A pump loses no resource that it has lowered, ends cleanly only after   *)
(* a whole stream or after its reader left, and cleans its producer up     *)
(* with no pull outstanding, for any number and length of batches (pump,   *)
(* packChunk, releaseUntaken, reportProducerFailure, batches).             *)
THEOREM PumpsAreSound == PumpSpec => []PumpSound
BY PumpInductive, PumpTells, PTL

=============================================================================
