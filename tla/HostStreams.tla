---------------------------- MODULE HostStreams ----------------------------
(***************************************************************************)
(* One component-model stream with ends in the hands of the embedder:      *)
(* HostActivity and bindOnLower, which tell the store whether the host can *)
(* still act on the stream; the host's write, writeAll, writeDirect, read, *)
(* readDirect, cancel and drop (mkStreamEnds); the direct sessions, whose  *)
(* callback runs inside the rendezvous; and the transfers of the readable  *)
(* end between the host and the guest.  The peer is either a guest end, as *)
(* in StreamRendezvous (asynchronous built-ins only), or the host's own    *)
(* other end.                                                              *)
(*                                                                         *)
(* The rendezvous runs callbacks of both sides before it returns, so one   *)
(* call is one step, and the synchronous part of it is a chain of          *)
(* operators on the record s.  What an await defers is a step of its own:  *)
(* the loop of a direct session and the loop of writeAll.                  *)
(*                                                                         *)
(* An operator named X_Y is X with the slip Y.                             *)
(***************************************************************************)
EXTENDS Naturals, HostActivities

CONSTANTS MaxLen,    \* longest offer, and the capacity a direct session shows
          MaxMoved,  \* bound: elements copied in a run
          MaxHops    \* bound: transfers of the readable end in a run

ASSUME HostStreamsAssumption == MaxLen \in Nat /\ MaxMoved \in Nat /\ MaxHops \in Nat

Ends == {"r", "w"}
Peer(e) == IF e = "r" THEN "w" ELSE "r"
NoEnd == "noEnd"
NotWhole == [mode |-> "none", left |-> 0, sent |-> 0, got |-> 0, paused |-> FALSE]

VARIABLES
  kind,   \* "created" by hostStream, or "lifted": wrapped by hostStreamFor
  at,     \* who holds the readable end: "host" or "guest"
  hops,   \* history: transfers of the readable end
  alive,  \* the guest instance has not trapped
  s       \* the shared object, the ends' operations and the host's wrapper

(* The fields of s:                                                        *)
(*   slot, dropped  SharedStreamImpl: whose operation is pending; dropped  *)
(*   op      per end: "plain" or "direct" (the host's parked flag), or a   *)
(*           "guest" copy (CopyEnd.state = COPYING), or "none"             *)
(*   buf     per end: length and progress of its latest operation          *)
(*   sess    per end: the DirectSession, and the step its promise takes    *)
(*   all     writeAll: mode, elements left and sent, what the last write   *)
(*           got, and whether the helper is between two writes             *)
(*   event, done    per guest end: pendingEvent, CopyEnd.state = DONE      *)
(*   left    per guest end: removed from the guest's table by its drop     *)
(*   poisoned       poisonFailures has an entry for the shared object      *)
(*   act     HostActivity: bound to a store, closed, disarmed, and armed:  *)
(*           its promise is in the store's pendingHostCalls                *)
(*   hollow  history: an operation with room completed with nothing        *)
(*   moved, total   history: elements copied by the host's operations of   *)
(*           the end, and the sum of what those that ended had copied      *)
vars == <<kind, at, hops, alive, s>>

Side(e) == CASE e = "r" -> at
             [] e = "w" /\ kind = "created" -> "host"
             [] OTHER -> "guest"

Remain(t, e) == IF t.op[e] = "direct"
                  THEN IF t.sess[e].ended THEN 0 ELSE MaxLen
                  ELSE t.buf[e].len - t.buf[e].progress

Min2(a, b) == IF a <= b THEN a ELSE b

-----------------------------------------------------------------------------
(* bindOnLower's hooks. *)
OnLowered_Binds(a) == Bound(a)
OnLowered(a) == IF kind = "lifted" THEN Disarmed(a) ELSE Bound(a)
OnLifted(a) == Rearmed(a)

Settle(t, res) ==
  [t EXCEPT !.act = IF res = "DROPPED" THEN Closed(@) ELSE Notified(@)]

-----------------------------------------------------------------------------
(* The callbacks of an operation.                                          *)

NoBuffer == [len |-> 0, progress |-> 0]

Recorded(t, e, res) ==
  [t EXCEPT !.op[e] = "none", !.buf[e] = NoBuffer,
            !.hollow = @ \/ (res = "COMPLETED" /\ t.buf[e].progress = 0 /\ t.buf[e].len > 0)]

(* `done` of a host write, or the read's result: the promise resolves with *)
(* the progress.  A write of writeAll resumes the helper instead.          *)
PlainDone(t, e, res) ==
  LET u == Settle(Recorded(t, e, res), res) IN
  IF e = "w" /\ t.all.mode # "none"
    THEN [u EXCEPT !.all.got = t.buf[e].progress, !.all.paused = TRUE]
    ELSE [u EXCEPT !.total[e] = @ + t.buf[e].progress]

(* DirectSession.finish and reissue: the hooks are taken by the first of   *)
(* the calls that settle this issuance.                                    *)
Stepped(t, e, step) ==
  [t EXCEPT !.sess[e].pending = FALSE,
            !.sess[e].ended = @ \/ step # "reissue",
            !.sess[e].step = IF @ = "none" THEN step ELSE @]

SessionDone(t, e, res) ==
  Stepped(Settle(t, res), e,
          IF res = "COMPLETED" /\ ~t.sess[e].ended THEN "reissue" ELSE "done")

(* onCopyDone of the operation that arrived at the rendezvous.  A guest's  *)
(* built-in takes the event it set before it returns.                      *)
ArrivalDone(t, e, res) ==
  CASE t.op[e] = "plain"  -> PlainDone(t, e, res)
    [] t.op[e] = "direct" -> SessionDone(t, e, res)
    [] OTHER -> [Recorded(t, e, res) EXCEPT !.event[e] = "none",
                                            !.done[e] = res = "DROPPED"]

(* onCopyDone of the operation in the slot. *)
PendingDone(t, res) ==
  LET e == t.slot
      u == [t EXCEPT !.slot = NoEnd]
  IN  CASE t.op[e] = "plain"  -> PlainDone(u, e, res)
        [] t.op[e] = "direct" -> SessionDone(u, e, res)
        [] OTHER -> [u EXCEPT !.event[e] = res]

(* onCopy of the operation in the slot.  A host write stays parked while   *)
(* it has more to give, a direct session while its callback says "more".   *)
PendingCopied(t) ==
  LET e == t.slot
      u == [t EXCEPT !.slot = NoEnd]
  IN  CASE t.op[e] = "guest" -> [t EXCEPT !.event[e] = "onCopy"]
        [] t.op[e] = "plain" -> IF e = "w" /\ Remain(t, e) > 0
                                  THEN t ELSE PlainDone(u, e, "COMPLETED")
        [] OTHER -> IF ~t.sess[e].ended
                      THEN t ELSE Stepped(Settle(u, "COMPLETED"), e, "done")

-----------------------------------------------------------------------------
(* SharedStreamImpl.read and write, for the operation that end e has just  *)
(* put in op[e] and buf[e].  d is what a direct callback does, if one      *)
(* runs: how many bytes it marks, and whether it says "more", says "done"  *)
(* or throws.                                                              *)
Verdicts == [k : 0..MaxLen, says : {"more", "done", "throws"}]

Advanced(t, e, n) ==
  [t EXCEPT !.buf[e].progress = @ + n,
            !.moved[e] = IF Side(e) = "host" THEN @ + n ELSE @]

Copied(t, e, n) == ArrivalDone(PendingCopied(Advanced(Advanced(t, e, n), t.slot, n)),
                               e, "COMPLETED")

Parked(t, e) == [t EXCEPT !.slot = e, !.sess[e].pending = t.op[e] = "direct"]

(* runDirect, and #routeDirectNoCopy for what it refused.  x is the direct *)
(* side.  Marks count only if the callback returns, and a callback that    *)
(* marked nothing must say "done".                                         *)
DirectFailed(t, x) == Stepped(t, x, "failed")

NoCopy(t, e, x, retracts) ==
  IF x = e THEN (IF retracts THEN ArrivalDone(t, e, "COMPLETED") ELSE t)
  ELSE IF retracts THEN Parked(PendingDone(t, "COMPLETED"), e)
       ELSE Parked([t EXCEPT !.slot = NoEnd], e)

DirectCopy(t, e, x, d) ==
  CASE d.says = "throws" \/ (d.k = 0 /\ d.says = "more")
         -> NoCopy(DirectFailed(t, x), e, x, FALSE)
    [] d.k = 0 /\ d.says = "done"
         -> NoCopy([t EXCEPT !.sess[x].ended = TRUE], e, x, TRUE)
    [] OTHER -> Copied([t EXCEPT !.sess[x].ended = d.says = "done"], e, d.k)

(* Two empty buffers complete an arriving write's handshake. *)
EmptyHandshake(t, e) ==
  /\ e = "w" /\ t.op[e] # "direct" /\ t.op[t.slot] # "direct"
  /\ t.buf[e].len = 0 /\ t.buf[t.slot].len = 0

(* rendezvousCopy with room on both sides. *)
Exchanged(t, e, d) ==
  LET n == Min2(Remain(t, e), Remain(t, t.slot))
      direct == {x \in {e, t.slot} : t.op[x] = "direct"}
  IN  CASE direct = {} -> Copied(t, e, n)
        [] direct = Ends -> DirectFailed(t, e)
        [] OTHER -> DirectCopy(t, e, CHOOSE x \in direct : TRUE,
                               [d EXCEPT !.k = Min2(@, n)])

Arrives(t, e, d) ==
  CASE t.dropped -> ArrivalDone(t, e, "DROPPED")
    [] ~t.dropped /\ t.slot = NoEnd -> Parked(t, e)
    [] OTHER -> IF Remain(t, t.slot) > 0
                  THEN IF Remain(t, e) > 0
                         THEN Exchanged(t, e, d)
                         ELSE ArrivalDone(t, e, "COMPLETED")
                ELSE IF EmptyHandshake(t, e)
                  THEN ArrivalDone(t, e, "COMPLETED")
                  ELSE Parked(PendingDone(t, "COMPLETED"), e)

(* SharedStreamImpl.drop, with the drop observers that close the activity. *)
DroppedBy(t, notified) ==
  IF t.dropped THEN t
  ELSE LET u == IF t.slot = NoEnd THEN t ELSE PendingDone(t, "DROPPED")
           idle == {e \in notified : ~u.done[e] /\ u.event[e] = "none"}
       IN  [u EXCEPT !.dropped = TRUE,
                     !.act = Closed(@),
                     !.event = [e \in Ends |-> IF e \in idle THEN "idleDrop" ELSE @[e]]]

-----------------------------------------------------------------------------
(* A stream made by hostStream, not yet lowered; or a guest's stream whose *)
(* readable end was lifted and wrapped, perhaps after its writer dropped.  *)
FreshSession == [pending |-> FALSE, ended |-> FALSE, cancelled |-> FALSE, step |-> "none"]

Init ==
  /\ kind \in {"created", "lifted"}
  /\ at = "host" /\ hops = 0 /\ alive = TRUE
  /\ \E gone \in {FALSE, kind = "lifted"} :
       s = [slot |-> NoEnd, dropped |-> gone,
            op |-> [e \in Ends |-> "none"],
            buf |-> [e \in Ends |-> NoBuffer],
            sess |-> [e \in Ends |-> FreshSession],
            all |-> NotWhole,
            event |-> [e \in Ends |-> "none"],
            done |-> [e \in Ends |-> gone /\ e = "w"],
            left |-> [e \in Ends |-> gone /\ e = "w"],
            poisoned |-> FALSE,
            act |-> [bound |-> kind = "lifted" /\ ~gone, closed |-> gone,
                     disarmed |-> FALSE, armed |-> kind = "lifted" /\ ~gone],
            hollow |-> FALSE,
            moved |-> [e \in Ends |-> 0],
            total |-> [e \in Ends |-> 0]]

(* The host issues an operation: the shared read or write, then notify.    *)
Issued(t, e, d) == LET u == Arrives(t, e, d) IN [u EXCEPT !.act = Notified(@)]

Offered(t, e, how, len) ==
  [t EXCEPT !.op[e] = how, !.buf[e] = [len |-> len, progress |-> 0]]

Step(t) == /\ t.moved["r"] <= MaxMoved /\ t.moved["w"] <= MaxMoved
           /\ s' = t
           /\ UNCHANGED <<kind, at, hops, alive>>

(* The one-operation-per-end rule: parked[side], and writeAll for a write. *)
Idle(e) == /\ Side(e) = "host" /\ s.op[e] = "none"
           /\ e = "w" => s.all.mode = "none"

HostCopy(e, len) ==
  /\ Idle(e)
  /\ \E d \in Verdicts : Step(Issued(Offered(s, e, "plain", len), e, d))

(* writeAll up to its first await; an offer to a dropped stream returns 0. *)
HostWriteAll(len) ==
  /\ Idle("w") /\ len > 0 /\ ~s.dropped
  /\ \E d \in Verdicts :
       Step(Issued(Offered([s EXCEPT !.all = [NotWhole EXCEPT !.mode = "active", !.left = len]],
                           "w", "plain", len), "w", d))

(* writeAll after the await of a write.  A write that took nothing means   *)
(* that the reader is gone.                                                *)
Sent_Last(a) == a.got
Sent(a) == a.sent + a.got

Exhausted(a) == a.got = 0 \/ a.got = a.left \/ s.dropped \/ a.mode = "cancelled"

WriteAllResumes ==
  LET a == s.all
      sent == Sent(a)
  IN  /\ a.paused
      /\ \/ /\ Exhausted(a)
            /\ Step([s EXCEPT !.all = NotWhole, !.total["w"] = @ + sent])
         \/ /\ ~Exhausted(a)
            /\ \E d \in Verdicts :
                 Step(Issued(Offered([s EXCEPT !.all = [a EXCEPT !.left = @ - a.got, !.sent = sent,
                                                                 !.got = 0, !.paused = FALSE]],
                                     "w", "plain", a.left - a.got), "w", d))

HostDirect(e) ==
  /\ Idle(e)
  /\ \E d \in Verdicts :
       Step(Issued(Offered([s EXCEPT !.sess[e] = FreshSession], e, "direct", MaxLen), e, d))

(* runDirectSession after its await: leave the loop, or issue again.       *)
Reissues(c) == c.step = "reissue" /\ ~c.cancelled

SessionResumes(e) ==
  LET c == s.sess[e] IN
  /\ s.op[e] = "direct" /\ c.step # "none"
  /\ \/ /\ ~Reissues(c)
        /\ Step([s EXCEPT !.op[e] = "none", !.buf[e] = NoBuffer, !.sess[e] = FreshSession,
                          !.total[e] = @ + s.buf[e].progress])
     \/ /\ Reissues(c)
        /\ \E d \in Verdicts : Step(Issued([s EXCEPT !.sess[e].step = "none"], e, d))

(* cancelWrite, cancelRead.  retractDirect withdraws the session if it is  *)
(* in the slot, and ends it where it stands between two issuances.         *)
CancelSession(t, e) ==
  LET u == [t EXCEPT !.sess[e].cancelled = TRUE] IN
  IF t.sess[e].pending /\ t.slot = e THEN PendingDone(u, "CANCELLED") ELSE Stepped(u, e, "done")

HostCancel(e) ==
  LET t == [s EXCEPT !.all.mode = IF e = "w" /\ @ # "none" THEN "cancelled" ELSE @]
      u == CASE t.op[e] = "none" -> t
             [] t.op[e] = "plain" -> PendingDone(t, "CANCELLED")
             [] OTHER -> CancelSession(t, e)
  IN  /\ Side(e) = "host" /\ (s.op[e] # "none" \/ (e = "w" /\ s.all.mode = "active"))
      /\ Step([u EXCEPT !.act = Notified(@)])

(* HostWritableEnd.drop and HostReadableEnd.drop.  A handle whose end has  *)
(* been passed to a guest can still be dropped.                            *)
HostDrop(e) ==
  /\ e = "w" => Side(e) = "host"
  /\ ~s.act.closed
  /\ LET t == DroppedBy(s, Ends) IN Step([t EXCEPT !.act = Closed(@)])

-----------------------------------------------------------------------------
(* The guest's end e: stream.read or write, delivery of its event, cancel  *)
(* and drop (StreamRendezvous has the other ways a guest can wait).        *)
GuestHas(e) == alive /\ Side(e) = "guest"

GuestCopy(e, len) ==
  /\ GuestHas(e) /\ s.op[e] = "none" /\ ~s.done[e]
  /\ \E d \in Verdicts : Step(Arrives(Offered(s, e, "guest", len), e, d))

Delivered(t, e, res) ==
  LET r == IF t.dropped THEN "DROPPED" ELSE res
  IN  [Recorded(t, e, r) EXCEPT !.event[e] = "none",
                                !.slot = IF t.event[e] = "onCopy" THEN NoEnd ELSE @,
                                !.done[e] = r = "DROPPED"]

GuestTake(e) ==
  /\ GuestHas(e) /\ s.event[e] # "none"
  /\ Step(Delivered(s, e, IF s.event[e] = "onCopy" THEN "COMPLETED" ELSE s.event[e]))

GuestCancel(e) ==
  /\ GuestHas(e) /\ s.op[e] = "guest"
  /\ LET t == IF s.event[e] = "none" THEN PendingDone(s, "CANCELLED") ELSE s
     IN  Step(Delivered(t, e, "CANCELLED"))

GuestDrop(e) ==
  /\ GuestHas(e) /\ s.op[e] # "guest" /\ ~s.left[e]
  /\ LET t == DroppedBy(s, {Peer(e)})
     IN  Step([t EXCEPT !.done[e] = TRUE, !.left[e] = TRUE, !.event[e] = "none"])

(* The instance traps: retireInstanceAsyncEnds drops each end left in its  *)
(* table.  An operation parked by the dead guest is withdrawn silently.    *)
PeerTraps ==
  LET held == {e \in Ends : Side(e) = "guest" /\ ~s.left[e]}
      t == [s EXCEPT !.slot = IF @ \in held THEN NoEnd ELSE @]
  IN  /\ alive
      /\ alive' = FALSE
      /\ s' = IF held = {} THEN s ELSE [DroppedBy(t, Ends) EXCEPT !.poisoned = TRUE]
      /\ UNCHANGED <<kind, at, hops>>

(* lowerStream and liftStream move the readable end.  takeValue refuses a  *)
(* handle that is reading; liftAsyncValue refuses a busy or finished end.  *)
Busy(e) == s.op[e] # "none"

Lower ==
  /\ at = "host" /\ alive /\ hops < MaxHops /\ ~Busy("r")
  /\ at' = "guest" /\ hops' = hops + 1
  /\ s' = [s EXCEPT !.act = OnLowered(@),
                    !.event["r"] = IF s.dropped /\ ~s.done["r"] /\ @ = "none"
                                     THEN "idleDrop" ELSE @]
  /\ UNCHANGED <<kind, alive>>

Lift ==
  /\ at = "guest" /\ alive /\ hops < MaxHops
  /\ s.op["r"] = "none" /\ ~s.done["r"]
  /\ at' = "host" /\ hops' = hops + 1
  /\ s' = [s EXCEPT !.act = OnLifted(@)]
  /\ UNCHANGED <<kind, alive>>

(* The embedder's writes and drops, and every other step. *)
EmbedderActs ==
  \/ \E len \in 0..MaxLen : HostCopy("w", len)
  \/ \E len \in 1..MaxLen : HostWriteAll(len)
  \/ HostDirect("w") \/ HostCancel("w") \/ \E e \in Ends : HostDrop(e)

Others ==
  \/ \E len \in 0..MaxLen : HostCopy("r", len) \/ \E e \in Ends : GuestCopy(e, len)
  \/ HostDirect("r") \/ HostCancel("r")
  \/ WriteAllResumes
  \/ \E e \in Ends : SessionResumes(e) \/ GuestTake(e) \/ GuestCancel(e) \/ GuestDrop(e)
  \/ PeerTraps \/ Lower \/ Lift

Next == EmbedderActs \/ Others

(* Promise continuations run: the engine drains its microtasks.            *)
Fairness == WF_vars(WriteAllResumes) /\ \A e \in Ends : WF_vars(SessionResumes(e))

Spec == Init /\ [][Next]_vars /\ Fairness

-----------------------------------------------------------------------------
(* Properties *)

(* The types of the wrapper's state (mkStreamEnds, HostActivity,           *)
(* DirectSession) and of the shared object.                                *)
TypeOK ==
  /\ kind \in {"created", "lifted"} /\ at \in {"host", "guest"}
  /\ hops \in 0..MaxHops /\ alive \in BOOLEAN
  /\ s.slot \in Ends \cup {NoEnd} /\ s.dropped \in BOOLEAN
  /\ s.op \in [Ends -> {"none", "plain", "direct", "guest"}]
  /\ s.sess \in [Ends -> [pending : BOOLEAN, ended : BOOLEAN, cancelled : BOOLEAN,
                          step : {"none", "reissue", "done", "failed"}]]
  /\ s.event \in [Ends -> {"none", "onCopy", "COMPLETED", "DROPPED", "CANCELLED", "idleDrop"}]
  /\ s.act \in [bound : BOOLEAN, closed : BOOLEAN, disarmed : BOOLEAN, armed : BOOLEAN]
  /\ \A e \in Ends : /\ s.buf[e].len \in 0..MaxLen /\ s.buf[e].progress \in Nat

(* The store's verdict on deadlocks is held off exactly while the host can *)
(* still act on a live stream that a guest knows of: it holds the writer   *)
(* of a stream it made, or the reader of one it was given.  An arm left    *)
(* behind hides a deadlock; a missing one traps a guest that only waits    *)
(* for the embedder (HostActivity, bindOnLower).                           *)
HostHolds == kind = "created" \/ at = "host"

ArmTracksRetention ==
  s.act.armed <=> ~s.dropped /\ HostHolds /\ (kind = "lifted" \/ hops > 0)

(* What cancelWrite and cancelRead withdraw is the host's own operation: a *)
(* parked host operation fills the slot, a session exactly while it is     *)
(* pending, and the slot never holds an operation that has ended           *)
(* (parked, DirectSession.pending, SharedBase.cancel).                     *)
CancelsOwnOp ==
  /\ \A e \in Ends : /\ s.op[e] = "plain" => s.slot = e
                     /\ s.sess[e].pending <=> s.op[e] = "direct" /\ s.slot = e
  /\ s.slot # NoEnd => /\ s.op[s.slot] # "none"
                       /\ s.op[s.slot] = "guest" <=> Side(s.slot) = "guest"
                       /\ ~s.dropped

(* What the host's promises report is what crossed the stream: the writes  *)
(* and reads that ended, those in flight, and the offers of writeAll that  *)
(* its helper has yet to add up (HostBuffer.progress, DirectSession.total, *)
(* writeAll's sent).                                                       *)
InFlight(e) ==
  (IF s.op[e] \in {"plain", "direct"} THEN s.buf[e].progress ELSE 0)
    + (IF e = "w" THEN s.all.sent + s.all.got ELSE 0)

ProgressReported == \A e \in Ends : s.moved[e] = s.total[e] + InFlight(e)

(* What the host is told of its operations, and what it may withdraw, are  *)
(* its own.                                                                *)
HostOpsTold == CancelsOwnOp /\ ProgressReported

=============================================================================
