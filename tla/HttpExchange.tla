----------------------------- MODULE HttpExchange -----------------------------
(***************************************************************************)
(* wasi:http 0.3 over fetch (wasi/src/http.ts): one exchange, from the     *)
(* fields a guest fills to the last byte of the body it reads, with the    *)
(* timers and the transport that race.                                     *)
(*                                                                         *)
(* A holder is a body with its trailers and its transmission future: the   *)
(* request of the exchange, and a response a guest makes itself.  own says *)
(* whether the guest still has the handle; client.send and consume-body    *)
(* take it.  A future is "pending" until it is settled, once, with "ok" or *)
(* a code.                                                                 *)
(*                                                                         *)
(* An operator named X_slip is X with a slip of the kind the properties    *)
(* are there to catch.                                                     *)
(***************************************************************************)
EXTENDS Naturals, Sequences, SequencesExt

CONSTANTS FieldNames,    \* names of fields, as they compare
          Casings,       \* casings a name may be given in
          Timeouts,      \* what a guest may set a timeout to
          MaxEntries,    \* entries a guest puts into its fields
          MaxReads,      \* chunks of a response body
          MaxDelay,      \* MAX_TIMEOUT_MS: the longest a platform timer can be
          DefaultTimeout \* DEFAULT_TIMEOUT_MS, in the same unit

ASSUME HttpAssumption == /\ Timeouts \subseteq Nat
                         /\ MaxEntries \in Nat /\ MaxReads \in Nat
                         /\ MaxDelay \in Nat \ {0} /\ DefaultTimeout \in Nat

VARIABLES
    policy,      \* options.allowRequest: "open", "closed" or "ask"
    entries,     \* the entries of the guest's Fields
    fieldsFree,  \* its mutable flag
    options,     \* the guest's RequestOptions
    target,      \* the request's scheme and authority
    holders,     \* "request", "response" -> what consume-body and send take
    sending,     \* client.send: its await, and its outcome
    wire,        \* the headers of the request that was dispatched
    transport,   \* the fetch: "none", "flying", "resolved", "rejected"
    timer,       \* the timer of the read or the fetch in flight
    body,        \* the platform's response body: "none", "open", "ended", "failed", "cancelled"
    reply        \* the Response around it, its reader and its trailers future

httpVars == <<policy, entries, fieldsFree, options, target, holders, sending, wire, transport,
              timer, body, reply>>

Holders == {"request", "response"}

NoHolder == [own |-> FALSE, made |-> FALSE, sent |-> FALSE, consumed |-> FALSE,
             contents |-> "none", trailers |-> "pending", transmission |-> "pending",
             res |-> "none"]
NoTimer == [on |-> FALSE, left |-> 0]
NoReply == [own |-> FALSE, consumed |-> FALSE, reader |-> "none", gone |-> FALSE,
            trailers |-> "pending", reads |-> 0, delivered |-> FALSE]

HttpBegins ==
    /\ policy \in {"open", "closed", "ask"} /\ entries = <<>> /\ fieldsFree = TRUE
    /\ options = [given |-> FALSE, free |-> TRUE, first |-> DefaultTimeout,
                  between |-> DefaultTimeout]
    /\ target = [scheme |-> "none", authority |-> "none"]
    /\ holders = [h \in Holders |-> NoHolder]
    /\ sending = [at |-> "no", result |-> "none"]
    /\ wire = <<>> /\ transport = "none" /\ timer = NoTimer /\ body = "none" /\ reply = NoReply

(* Promise resolution: the first one stands. *)
Settle(future, r) == IF future = "pending" THEN r ELSE future

-----------------------------------------------------------------------------
(* Fields.  An entry is its name, a casing of it, and whether the name and *)
(* the value are well formed; names are equal whatever their casing.       *)
FieldEntry(name, cased, valid) == [name |-> name, cased |-> cased, valid |-> valid]

Without(name) == SelectSeq(entries, LAMBDA e : e.name # name)

FieldsUnchanged == UNCHANGED <<policy, options, target, holders, sending, wire, transport, timer,
                               body, reply, fieldsFree>>

(* append, and from-list entry by entry: refused if immutable or invalid. *)
FieldsAppend(e) ==
    /\ fieldsFree /\ e.valid /\ Len(entries) < MaxEntries
    /\ entries' = Append(entries, e)
    /\ FieldsUnchanged

(* set: every value is checked before the old entries go. *)
FieldsSet(name, cased, values) ==
    /\ fieldsFree
    /\ \A i \in DOMAIN values : values[i].valid
    /\ entries' = Without(name) \o [i \in DOMAIN values |-> FieldEntry(name, cased, TRUE)]
    /\ Len(entries') <= MaxEntries
    /\ FieldsUnchanged

(* delete and get-and-delete *)
FieldsDelete(name) ==
    /\ fieldsFree
    /\ entries' = Without(name)
    /\ FieldsUnchanged

(* request-options: connect-timeout is refused, the two others are stored  *)
(* until the options are given to a request.                               *)
SetTimeout(which, t) ==
    /\ options.free
    /\ options' = IF which = "first" THEN [options EXCEPT !.first = t]
                  ELSE [options EXCEPT !.between = t]
    /\ UNCHANGED <<policy, entries, fieldsFree, target, holders, sending, wire, transport, timer,
                   body, reply>>

-----------------------------------------------------------------------------
(* request.new takes the fields and the options: both are immutable now.   *)
RequestNew(contents, withOptions) ==
    /\ ~holders["request"].made
    /\ holders' = [holders EXCEPT !["request"] = [NoHolder EXCEPT !.own = TRUE, !.made = TRUE,
                                                                  !.contents = contents]]
    /\ fieldsFree' = FALSE
    /\ options' = [options EXCEPT !.given = withOptions, !.free = ~withOptions]
    /\ UNCHANGED <<policy, entries, target, sending, wire, transport, timer, body, reply>>

(* response.new, by a guest. *)
ResponseNew(contents) ==
    /\ ~holders["response"].made
    /\ holders' = [holders EXCEPT !["response"] = [NoHolder EXCEPT !.own = TRUE, !.made = TRUE,
                                                                   !.contents = contents]]
    /\ UNCHANGED <<policy, entries, fieldsFree, options, target, sending, wire, transport, timer,
                   body, reply>>

(* The setters of the request: what is invalid is refused and not stored.  *)
SetScheme(s) ==
    /\ holders["request"].own /\ target.scheme = "none"
    /\ target' = [target EXCEPT !.scheme = s]
    /\ UNCHANGED <<policy, entries, fieldsFree, options, holders, sending, wire, transport, timer,
                   body, reply>>

SetAuthority(x) ==
    /\ holders["request"].own /\ target.authority = "none"
    /\ target' = [target EXCEPT !.authority = x]
    /\ UNCHANGED <<policy, entries, fieldsFree, options, holders, sending, wire, transport, timer,
                   body, reply>>

(* The guest settles the trailers future it gave: with none, with trailers *)
(* or an error; or its end is dropped and the promise rejects.             *)
TrailersSettle(h, t) ==
    /\ holders[h].made /\ holders[h].trailers = "pending"
    /\ holders' = [holders EXCEPT ![h].trailers = t]
    /\ UNCHANGED <<policy, entries, fieldsFree, options, target, sending, wire, transport, timer,
                   body, reply>>

(* consume-body of a stored body: the consumer's res settles transmission. *)
ConsumeStored(h) ==
    /\ holders[h].own
    /\ holders' = [holders EXCEPT ![h].own = FALSE, ![h].consumed = TRUE, ![h].res = "pending"]
    /\ UNCHANGED <<policy, entries, fieldsFree, options, target, sending, wire, transport, timer,
                   body, reply>>

ResSettles(h, r) ==
    /\ holders[h].res = "pending"
    /\ holders' = [holders EXCEPT ![h].res = r, ![h].transmission = Settle(@, r)]
    /\ UNCHANGED <<policy, entries, fieldsFree, options, target, sending, wire, transport, timer,
                   body, reply>>

(* Request and Response [Symbol.dispose] of a guest's own. *)
DisposeHolder(h) ==
    /\ holders[h].own
    /\ holders' = [holders EXCEPT ![h].own = FALSE,
                                  ![h].transmission = IF holders[h].sent \/ holders[h].consumed
                                                      THEN @ ELSE Settle(@, "dropped")]
    /\ UNCHANGED <<policy, entries, fieldsFree, options, target, sending, wire, transport, timer,
                   body, reply>>

-----------------------------------------------------------------------------
(* client.send.  It leaves with a result; settles says whether the way it  *)
(* leaves by settles the transmission future.                              *)
Leaves(code, settles) ==
    /\ sending' = [at |-> "over", result |-> code]
    /\ holders' = [holders EXCEPT !["request"].own = FALSE, !["request"].sent = TRUE,
                                  !["request"].transmission =
                                      IF settles THEN Settle(@, code) ELSE @]

GoesOn(at) ==
    /\ sending' = [sending EXCEPT !.at = at]
    /\ holders' = [holders EXCEPT !["request"].own = FALSE, !["request"].sent = TRUE]

SendUnchanged == UNCHANGED <<policy, entries, fieldsFree, options, target, body, reply>>

(* Up to the first await: the URL, the headers, a policy that is a flag.   *)
(* A platform may refuse a header that is well formed.                     *)
Send(headerRefused) ==
    /\ holders["request"].own /\ sending.at = "no"
    /\ CASE target.scheme = "other" -> Leaves("internal-error", FALSE)
         [] target.scheme # "other" /\ target.authority = "none" ->
              Leaves("URI-invalid", FALSE)
         [] OTHER ->
              IF headerRefused THEN entries # <<>> /\ Leaves("internal-error", FALSE)
              ELSE IF policy = "closed" THEN Leaves("request-denied", TRUE)
              ELSE IF policy = "ask" /\ target.authority = "malformed"
              THEN Leaves("URI-invalid", FALSE)
              ELSE GoesOn(IF policy = "ask" THEN "policy" ELSE "body")
    /\ SendUnchanged /\ UNCHANGED <<wire, transport, timer>>

(* The predicate answers; one that throws denies. *)
PolicyAnswers(allowed) ==
    /\ sending.at = "policy"
    /\ IF allowed THEN GoesOn("body") ELSE Leaves("request-denied", TRUE)
    /\ SendUnchanged /\ UNCHANGED <<wire, transport, timer>>

(* collectBody drains the contents, or they fail. *)
BodyCollected ==
    /\ sending.at = "body"
    /\ IF holders["request"].contents = "fails" THEN Leaves("contents", FALSE)
       ELSE GoesOn("trailers")
    /\ SendUnchanged /\ UNCHANGED <<wire, transport, timer>>

Envelope == IF options.given THEN options.first ELSE DefaultTimeout

(* The trailers future decides whether the request is dispatched. *)
TrailersAwaited ==
    LET t == holders["request"].trailers
    IN  /\ sending.at = "trailers" /\ t # "pending"
        /\ CASE t = "error" -> Leaves("trailers", TRUE)
             [] t = "some" -> Leaves("internal-error", TRUE)
             [] t = "rejects" -> Leaves("trailers", FALSE)
             [] t = "none" -> GoesOn("fetch")
        /\ IF t = "none"
           THEN /\ wire' = entries /\ transport' = "flying"
                /\ timer' = [on |-> TRUE, left |-> Envelope]
           ELSE UNCHANGED <<wire, transport, timer>>
        /\ SendUnchanged

(* withTimeout: a timer longer than the platform's is armed again. *)
TimerRearms ==
    /\ timer.on /\ timer.left > MaxDelay
    /\ timer' = [timer EXCEPT !.left = @ - MaxDelay]
    /\ UNCHANGED <<policy, entries, fieldsFree, options, target, holders, sending, wire, transport,
                   body, reply>>

TimerFires == timer.on /\ timer.left <= MaxDelay

(* The envelope times out: the fetch is aborted, which it may not notice.  *)
EnvelopeTimesOut ==
    /\ sending.at = "fetch" /\ TimerFires
    /\ Leaves("read-timeout", TRUE)
    /\ timer' = NoTimer
    /\ SendUnchanged /\ UNCHANGED <<wire, transport>>

(* The fetch fails: with prose, with a branded code; or late, unheard. *)
FetchRejects(code) ==
    /\ transport = "flying"
    /\ transport' = "rejected"
    /\ IF sending.at = "fetch" THEN Leaves(code, TRUE) /\ timer' = NoTimer
       ELSE UNCHANGED <<sending, holders, timer>>
    /\ SendUnchanged /\ UNCHANGED wire

(* The response arrives: a late one has its body cancelled. *)
FetchResolves(hasBody) ==
    /\ transport = "flying"
    /\ transport' = "resolved"
    /\ IF sending.at = "fetch"
       THEN /\ Leaves("ok", TRUE) /\ timer' = NoTimer
            /\ body' = IF hasBody THEN "open" ELSE "none"
            /\ reply' = [reply EXCEPT !.own = TRUE, !.delivered = TRUE]
       ELSE /\ body' = IF hasBody THEN "cancelled" ELSE "none"
            /\ UNCHANGED <<sending, holders, timer, reply>>
    /\ UNCHANGED <<policy, entries, fieldsFree, options, target, wire>>

-----------------------------------------------------------------------------
(* consumeFetchBody.  reader: "none", "started" (the runtime pulls at      *)
(* once), "reading" (a read and its timer race), "yielded", "left".        *)
ReadUnchanged == UNCHANGED <<policy, entries, fieldsFree, options, target, holders, sending, wire,
                             transport>>
Between == IF options.given THEN options.between ELSE DefaultTimeout

ReaderLeaves(r, t) == [r EXCEPT !.reader = "left", !.trailers = Settle(@, t)]
(* Slip: nothing is cancelled. *)
Cancelled_Never(b) == b

Cancelled(b) == IF b = "open" THEN "cancelled" ELSE b

ConsumeFetch ==
    /\ reply.own
    /\ reply' = IF body = "none" THEN ReaderLeaves([reply EXCEPT !.own = FALSE, !.consumed = TRUE], "ok")
                ELSE [reply EXCEPT !.own = FALSE, !.consumed = TRUE, !.reader = "reading"]
    /\ timer' = IF body = "none" THEN timer ELSE [on |-> TRUE, left |-> Between]
    /\ UNCHANGED body /\ ReadUnchanged

ChunkRead ==
    /\ reply.reader = "reading" /\ body = "open" /\ reply.reads < MaxReads
    /\ reply' = [reply EXCEPT !.reader = "yielded", !.reads = @ + 1]
    /\ timer' = NoTimer
    /\ UNCHANGED body /\ ReadUnchanged

(* The pump comes back for more, or returns the source if its reader went. *)
PullsAgain ==
    /\ reply.reader = "yielded"
    /\ IF reply.gone
       THEN /\ reply' = ReaderLeaves(reply, "ok")
            /\ body' = Cancelled(body)
            /\ UNCHANGED timer
       ELSE /\ reply' = [reply EXCEPT !.reader = "reading"]
            /\ timer' = [on |-> TRUE, left |-> Between]
            /\ UNCHANGED body
    /\ ReadUnchanged

(* The platform's body ends or breaks under a read. *)
BodyEnds(how) ==
    /\ reply.reader = "reading" /\ body = "open"
    /\ body' = how
    /\ reply' = ReaderLeaves(reply, IF how = "ended" THEN "ok" ELSE "broken")
    /\ timer' = NoTimer
    /\ ReadUnchanged

ReadTimesOut ==
    /\ reply.reader = "reading" /\ TimerFires
    /\ reply' = ReaderLeaves(reply, "read-timeout")
    /\ body' = Cancelled(body)
    /\ timer' = NoTimer
    /\ ReadUnchanged

GuestDropsBody ==
    /\ reply.reader \in {"reading", "yielded"} /\ ~reply.gone
    /\ reply' = [reply EXCEPT !.gone = TRUE]
    /\ UNCHANGED <<body, timer>> /\ ReadUnchanged

(* Response[Symbol.dispose] of a fetched response. *)
DisposeReply ==
    /\ reply.own
    /\ reply' = [reply EXCEPT !.own = FALSE]
    /\ body' = Cancelled(body)
    /\ UNCHANGED timer /\ ReadUnchanged

-----------------------------------------------------------------------------
HttpNext ==
    \/ \E name \in FieldNames, cased \in Casings :
          \/ \E valid \in BOOLEAN : FieldsAppend(FieldEntry(name, cased, valid))
          \/ FieldsSet(name, cased, <<FieldEntry(name, cased, TRUE)>>)
    \/ \E name \in FieldNames : FieldsDelete(name)
    \/ \E which \in {"first", "between"}, t \in Timeouts : SetTimeout(which, t)
    \/ \E contents \in {"whole", "fails"}, given \in BOOLEAN : RequestNew(contents, given)
    \/ ResponseNew("whole")
    \/ \E s \in {"HTTP", "other"} : SetScheme(s)
    \/ \E x \in {"valid", "malformed"} : SetAuthority(x)
    \/ \E t \in {"none", "some", "error", "rejects"}, h \in Holders : TrailersSettle(h, t)
    \/ \E h \in Holders : ConsumeStored(h) \/ DisposeHolder(h)
    \/ \E h \in Holders, r \in {"ok", "consumer failed"} : ResSettles(h, r)
    \/ \E refused \in BOOLEAN : Send(refused)
    \/ \E allowed \in BOOLEAN : PolicyAnswers(allowed)
    \/ BodyCollected
    \/ TrailersAwaited
    \/ TimerRearms
    \/ EnvelopeTimesOut
    \/ \E code \in {"connection-refused", "branded"} : FetchRejects(code)
    \/ \E hasBody \in BOOLEAN : FetchResolves(hasBody)
    \/ ConsumeFetch
    \/ ChunkRead
    \/ PullsAgain
    \/ \E how \in {"ended", "failed"} : BodyEnds(how)
    \/ ReadTimesOut
    \/ GuestDropsBody
    \/ DisposeReply

HttpSpec == HttpBegins /\ [][HttpNext]_httpVars

-----------------------------------------------------------------------------
(* Properties *)

(* A response body of the platform is never left open with nobody to close *)
(* it: the send that waits for it, the response that carries it or the     *)
(* reader that reads it has it, or it was cancelled, also when it comes    *)
(* after its timeout (send, consumeFetchBody, Response dispose).           *)
BodiesReleased == body = "open" => reply.own \/ reply.reader \in {"reading", "yielded"}

(* What the futures of an exchange say is what happened: a transmission    *)
(* that send settled says what send returned, ok only of a response that   *)
(* came in time; trailers are ok only after the body's end, or for a       *)
(* reader that left, and are told once the reader is over, in whatever     *)
(* order it was read, timed out, failed and dropped; and the headers       *)
(* dispatched are the ones the guest gave away (settleTransmission,        *)
(* consumeFetchBody, requireMutableFields).                                *)
AnswersTruthful ==
    /\ sending.at = "over" /\ holders["request"].transmission # "pending" =>
         holders["request"].transmission = sending.result
    /\ sending.result = "ok" <=> reply.delivered
    /\ reply.reader = "left" /\ reply.trailers = "ok" /\ ~reply.gone => body \in {"ended", "none"}
    /\ reply.reader = "left" => reply.trailers # "pending"
    /\ transport # "none" => wire = entries

(* An exchange ends with its bodies released and its answers true (send,   *)
(* consumeFetchBody).                                                      *)
ExchangeSound == BodiesReleased /\ AnswersTruthful

=============================================================================
