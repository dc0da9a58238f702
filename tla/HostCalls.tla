----------------------------- MODULE HostCalls -----------------------------
(***************************************************************************)
(* Calls of one host import, from the guest's lowered call to the delivery *)
(* of its result (createLoweredImport in exec/boundary.ts, the adapter of  *)
(* embedder/instantiate.ts and exec/host_settlement.ts).                   *)
(*                                                                         *)
(* Host code runs in three places: the function's body, the preparation of *)
(* its result and the transfer of what the result owns.  From each of them *)
(* it may enter a guest, which may call the same import again, cancel a    *)
(* call that is pending, or trap.  Calls that complete at once share one   *)
(* carrier; the others are observed as promises.  Which instance may be    *)
(* entered when is TaskAdmission's; here any may be.                       *)
(***************************************************************************)
EXTENDS Integers, Sequences

CONSTANTS Callers,     \* component instances that import the function
          MaxCalls,  \* bound: calls made
          MaxTraps   \* bound: traps for reasons of the guests' own

ASSUME HostCallsAssumption == MaxCalls \in Nat /\ MaxTraps \in Nat

VARIABLES
    calls,     \* the calls made, in order
    running,   \* calls whose host code is on the stack, innermost last
    carrier,   \* the call the reusable carrier holds, 0 if it is free
    poisoned,  \* instances that have trapped
    traps      \* how often a guest has trapped by itself

hostVars == <<calls, running, carrier, poisoned, traps>>

\* at       body, offered, finish, transfer (on the stack), pending, settled, done
\* via      "now" if the host completed at once, else "later"
\* outcome  how the host has settled: value, err (a branded error), throw
\* scope    the borrows lent to the host are valid until it ends
\* lent     the guest's lenders are held by the subtask
\* custody  who owns the resources of the result
\* signal   the AbortSignal: unused, due, aborted
NewCall(i, lower, brand) ==
    [inst |-> i, lower |-> lower, brand |-> brand, at |-> "body", via |-> "now",
     outcome |-> "none", scope |-> "open", args |-> "held", lent |-> TRUE,
     sub |-> "started", custody |-> "host", signal |-> "unused"]

HostInit == /\ calls = <<>> /\ running = <<>> /\ carrier = 0
            /\ poisoned = {} /\ traps = 0

Innermost == running[Len(running)]
Pop == SubSeq(running, 1, Len(running) - 1)
OnTop(c, at) == running # <<>> /\ Innermost = c /\ calls[c].at = at

\* Guest code runs on an empty stack or because host code entered it.
GuestRuns == running # <<>> => calls[Innermost].at \in {"body", "finish", "transfer"}

\* checkLoweredResultDelivery
Eligible(c) == calls[c].sub = "started" /\ calls[c].inst \notin poisoned

\* scope.end, once, and releaseAsyncArgs unless the failure is a branded one.
Ended(call) == [call EXCEPT !.scope = "ended"]
Settled(call, outcome) ==
    [Ended(call) EXCEPT !.outcome = outcome,
                        !.args = IF outcome = "throw" THEN "dropped" ELSE call.args]

\* Slip: discarding a call leaves its borrows alone.
Discarded_open(call) == call

\* discard: the call's host-facing lifetime ends, the operation goes on.
Discarded(call) == Ended(call)

(* -- the call ------------------------------------------------------------------ *)

\* The arguments are lifted, which lends, and converted; host code of the
\* conversion may fail, which traps the caller.  brand is how the function was
\* declared: suspending, deferCancel, abortable or none of them.
Begin(i, lower, brand) ==
    /\ GuestRuns /\ i \notin poisoned /\ Len(calls) < MaxCalls
    /\ \/ /\ calls' = Append(calls, NewCall(i, lower, brand))
          /\ running' = Append(running, Len(calls'))
          /\ UNCHANGED poisoned
       \/ /\ calls' = Append(calls, [Settled(NewCall(i, lower, brand), "throw") EXCEPT
                                        !.at = "done", !.sub = "failed"])
          /\ poisoned' = poisoned \cup {i}
          /\ UNCHANGED running
    /\ UNCHANGED <<carrier, traps>>

\* immediateHostCall: the reusable carrier if no other call is using it.
TakeCarrier(c) == carrier' = IF carrier = 0 THEN c ELSE carrier

\* invokeHostCallWith, the body has returned a plain value or thrown.
BodyCompletes(c, outcome) ==
    /\ OnTop(c, "body")
    /\ calls' = [calls EXCEPT ![c] = [Settled(@, outcome) EXCEPT !.at = "offered"]]
    /\ TakeCarrier(c)
    /\ UNCHANGED <<running, poisoned, traps>>

\* ... or it has returned a promise: an asynchronous lower gets a subtask, a
\* synchronous one parks its caller if the import is suspending and is refused
\* with NeedsJspi, without poisoning anything, if it is not.
BodyPromises(c) ==
    /\ OnTop(c, "body")
    /\ LET call == [calls[c] EXCEPT !.at = "pending", !.via = "later"]
       IN  calls' = [calls EXCEPT ![c] =
              IF call.lower = "sync" /\ call.brand # "suspending"
              THEN [Discarded(call) EXCEPT !.lent = FALSE, !.sub = "failed"]
              ELSE call]
    /\ running' = Pop
    /\ UNCHANGED <<carrier, poisoned, traps>>

Freed(c) == IF carrier = c THEN 0 ELSE carrier

\* releaseHostCall of a call whose result will not be inspected.
Release(c) == carrier' = Freed(c)

\* The result may be delivered: finishHostCall frees the carrier and then
\* calls the hook that prepares the result.
Accept(c) ==
    /\ OnTop(c, "offered") /\ Eligible(c)
    /\ calls' = [calls EXCEPT ![c].at = "finish"]
    /\ carrier' = Freed(c)
    /\ UNCHANGED <<running, poisoned, traps>>

\* It may not: the caller was poisoned meanwhile, and its frame unwinds.
Refuse(c) ==
    /\ OnTop(c, "offered") /\ ~Eligible(c)
    /\ calls' = [calls EXCEPT ![c] = [@ EXCEPT !.at = "done", !.sub = "failed"]]
    /\ Release(c)
    /\ running' = Pop
    /\ UNCHANGED <<poisoned, traps>>

(* -- delivery ------------------------------------------------------------------- *)

\* The hook has prepared a value, or an error of the function's result type.
Prepared(c) ==
    /\ OnTop(c, "finish") /\ calls[c].outcome # "throw"
    /\ calls' = [calls EXCEPT ![c].at = "transfer"]
    /\ UNCHANGED <<running, carrier, poisoned, traps>>

\* One more resource of the result is taken from the host, each after a check
\* that delivery is still due: a hook may have accepted a cancellation.
Acquire(c) ==
    /\ OnTop(c, "transfer") /\ Eligible(c)
    /\ calls' = [calls EXCEPT ![c].custody = "moving"]
    /\ UNCHANGED <<running, carrier, poisoned, traps>>

\* What a call looks like once it returned: the lenders of one that has no
\* event left to deliver are released at once.
Returned(call) ==
    [call EXCEPT !.at = "done", !.sub = "returned", !.custody = "guest",
                 !.lent = call.via = "later" /\ call.lower = "async"]

\* The last check, the lowering and RETURNED run without host code in between.
Commit(c) ==
    /\ OnTop(c, "transfer") /\ Eligible(c) /\ calls[c].custody = "moving"
    /\ calls' = [calls EXCEPT ![c] = Returned(@)]
    /\ running' = Pop
    /\ UNCHANGED <<carrier, poisoned, traps>>

\* onSettled of a parked call is the backstop for its lenders.
Backstop(call) == IF call.via = "later" /\ call.lower = "sync"
                  THEN [Discarded(call) EXCEPT !.lent = FALSE] ELSE call

\* No frame of the guest waits for an asynchronous call's result.
Unwaited(c) == calls[c].via = "later" /\ calls[c].lower = "async"

\* Preparation or transfer fails: the host's failure was unbranded, a value
\* does not fit, a hook throws or a check refuses.  Custody goes back.  A
\* caller whose frame waits traps; an asynchronous one leaves the failure to
\* the store, if it still matters, and its subtask unresolved.
Fail(c) ==
    /\ running # <<>> /\ Innermost = c /\ calls[c].at \in {"finish", "transfer"}
    /\ LET call == Backstop(calls[c])
       IN  calls' = [calls EXCEPT ![c] = [call EXCEPT
              !.at = "done", !.custody = "host",
              !.sub = IF Unwaited(c) THEN call.sub ELSE "failed"]]
    /\ running' = Pop
    /\ poisoned' = poisoned \cup IF Unwaited(c) THEN {} ELSE {calls[c].inst}
    /\ UNCHANGED <<carrier, traps>>

(* -- promises --------------------------------------------------------------------- *)

\* The one reaction to the promise.  An asynchronous call that still waits is
\* delivered from here, a parked one when it is resumed.
PromiseSettles(c, outcome) ==
    /\ running = <<>> /\ calls[c].at = "pending"
    /\ LET call == Settled(calls[c], outcome)
           go == IF ~Eligible(c) /\ (call.lower = "async" \/ call.sub # "started") THEN "done"
                 ELSE IF call.lower = "async" THEN "finish" ELSE "settled"
       IN  /\ calls' = [calls EXCEPT ![c] = [call EXCEPT !.at = go]]
           /\ running' = IF go = "finish" THEN <<c>> ELSE <<>>
    /\ UNCHANGED <<carrier, poisoned, traps>>

\* The scheduler resumes a parked call; produce prepares and commits, unless
\* the instance has been poisoned.
ResumeCall(c) ==
    /\ running = <<>> /\ calls[c].at = "settled"
    /\ IF calls[c].inst \in poisoned
       THEN /\ calls' = [calls EXCEPT ![c] = [Backstop(@) EXCEPT !.at = "done", !.sub = "failed"]]
            /\ UNCHANGED running
       ELSE calls' = [calls EXCEPT ![c].at = "finish"] /\ running' = <<c>>
    /\ UNCHANGED <<carrier, poisoned, traps>>

\* A poisoned instance's parked calls are abandoned without producing.
Abandon(c) ==
    /\ running = <<>> /\ calls[c].inst \in poisoned
    /\ calls[c].lower = "sync" /\ calls[c].at \in {"pending", "settled"}
    /\ calls[c].sub = "started"
    /\ LET call == Backstop(calls[c])
       IN  calls' = [calls EXCEPT ![c] = [call EXCEPT
              !.sub = "failed", !.at = IF call.at = "settled" THEN "done" ELSE call.at]]
    /\ UNCHANGED <<running, carrier, poisoned, traps>>

(* -- the guest ---------------------------------------------------------------------- *)

\* subtask.cancel of a call that has a handle: onCancel discards the call and
\* resolves it; a deferCancel import ignores the request.
Cancel(c) ==
    /\ GuestRuns /\ calls[c].inst \notin poisoned
    /\ calls[c].lower = "async" /\ calls[c].via = "later" /\ calls[c].brand # "deferCancel"
    /\ calls[c].sub = "started"
    /\ calls' = [calls EXCEPT ![c] = [Discarded(@) EXCEPT
            !.sub = "cancelled",
            !.signal = IF calls[c].brand = "abortable" THEN "due" ELSE calls[c].signal]]
    /\ UNCHANGED <<running, carrier, poisoned, traps>>

\* The host's listeners run in a later turn.
Abort(c) ==
    /\ running = <<>> /\ calls[c].signal = "due"
    /\ calls' = [calls EXCEPT ![c].signal = "aborted"]
    /\ UNCHANGED <<running, carrier, poisoned, traps>>

\* The event that tells of the resolution releases the lenders.
Deliver(c) ==
    /\ GuestRuns /\ calls[c].inst \notin poisoned /\ calls[c].lent
    /\ calls[c].sub \in {"returned", "cancelled"}
    /\ calls' = [calls EXCEPT ![c].lent = FALSE]
    /\ UNCHANGED <<running, carrier, poisoned, traps>>

GuestTraps(i) ==
    /\ GuestRuns /\ i \notin poisoned /\ traps < MaxTraps
    /\ traps' = traps + 1 /\ poisoned' = poisoned \cup {i}
    /\ UNCHANGED <<calls, running, carrier>>

HostNext ==
    \/ \E i \in Callers : \/ GuestTraps(i)
                        \/ \E lower \in {"sync", "async"},
                              brand \in {"suspending", "deferCancel", "abortable"} :
                              Begin(i, lower, brand)
    \/ \E c \in DOMAIN calls :
          \/ \E outcome \in {"value", "err", "throw"} :
                BodyCompletes(c, outcome) \/ PromiseSettles(c, outcome)
          \/ BodyPromises(c) \/ Accept(c) \/ Refuse(c) \/ Prepared(c) \/ Acquire(c)
          \/ Commit(c) \/ Fail(c) \/ ResumeCall(c) \/ Abandon(c)
          \/ Cancel(c) \/ Abort(c) \/ Deliver(c)

HostSpec == HostInit /\ [][HostNext]_hostVars

(* -- properties ------------------------------------------------------------------------ *)

\* The shared carrier holds a call only between its completion and the start
\* of its result's preparation, in which no host code runs: no nested call
\* finds it taken by another, and it retains no call that is over
\* (host_settlement.ts:94, 295-310).
CarrierHoldsOwn == carrier # 0 => OnTop(carrier, "offered")

\* The host can no longer use a borrow once the guest's lenders are released,
\* however the call ended: delivered, refused, abandoned or cancelled while the
\* host goes on (boundary.ts:2094, 2152, 2196).
BorrowsEnd == \A c \in DOMAIN calls : calls[c].lent \/ calls[c].scope = "ended"

\* The guest owns the result's resources exactly if the call returned: a
\* cancellation or a poisoning in the midst of preparation and transfer
\* leaves everything to the host, and the signal fires only for a call that
\* was cancelled (boundary.ts:1918-1947, 2168-2186).
CustodyFollowsResult ==
    \A c \in DOMAIN calls :
        /\ calls[c].custody = "guest" <=> calls[c].sub = "returned"
        /\ calls[c].custody = "moving" => calls[c].at = "transfer"
        /\ calls[c].signal # "unused" => calls[c].sub = "cancelled"

\* A host call that is over has given back what it borrowed, its result's
\* resources are with whoever the outcome says, and no two calls share the
\* carrier (boundary.ts:1918-1947, 2152-2196; host_settlement.ts:94).
CallsSettled == CarrierHoldsOwn /\ BorrowsEnd /\ CustodyFollowsResult

=============================================================================
