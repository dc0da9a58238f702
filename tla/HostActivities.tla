--------------------------- MODULE HostActivities ---------------------------
(***************************************************************************)
(* HostActivity: what the store knows of a stream or future the embedder   *)
(* can still act on.  An arm is a promise in pendingHostCalls: while it is *)
(* there the store does not report a deadlock.                             *)
(***************************************************************************)

NewActivity == [bound |-> FALSE, closed |-> FALSE, disarmed |-> FALSE, armed |-> FALSE]

Notified(a) == [a EXCEPT !.armed = a.bound /\ ~a.closed /\ ~a.disarmed]

Bound(a) == IF a.bound \/ a.closed THEN a ELSE Notified([a EXCEPT !.bound = TRUE])
Closed(a) == [a EXCEPT !.closed = TRUE, !.armed = FALSE]
Disarmed(a) == [a EXCEPT !.disarmed = TRUE, !.armed = FALSE]
Rearmed(a) == IF a.closed THEN a ELSE Notified([a EXCEPT !.disarmed = FALSE])

=============================================================================
