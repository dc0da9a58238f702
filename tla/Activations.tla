---------------------------- MODULE Activations ----------------------------
(***************************************************************************)
(* For whom a built-in runs.  The scheduler keeps the answer by hand:      *)
(* brackets while JavaScript is on the stack (threadStack, and entryStack  *)
(* for those that enter wasm), and claims for the wasm that the engine     *)
(* resumes from its microtask queue, with nothing of the runtime on the    *)
(* stack.  A thread may run the activations of synchronous calls inside    *)
(* its own (SynchronousActivation).                                        *)
(*                                                                         *)
(* The engine's part: a promising export answers by a promise, and an      *)
(* import made Suspending returns to wasm (a chunk of it) later than the   *)
(* sentinel that its wrapper queued just before: some engines do so in the *)
(* very next microtask, others after any number of other jobs.             *)
(*                                                                         *)
(* An operator named X_Y is X with the slip Y.                             *)
(***************************************************************************)
EXTENDS Naturals, Sequences

LOCAL INSTANCE SequencesExt

CONSTANTS Threads, Homes,
          MaxImports,  \* bound: imports called in a run
          MaxNested,   \* bound: synchronous calls between instances in a run
          MaxTrips     \* bound: traps in a run

ASSUME ActivationsAssumption == MaxImports \in Nat /\ MaxNested \in Nat /\ MaxTrips \in Nat

VARIABLES
  hopping,     \* mode: jspi, or plain
  adjacent,    \* the engine runs a chunk right after its sentinel
  exclusive,   \* every task holds its instance while its wasm runs or is suspended
  homeOf,      \* the instance of each thread's task
  where,       \* new, on (the stack), hop, parking, parked, returned, tail, idle, done
  chain,       \* the activations a thread's wasm is in, innermost last
  nested,      \* logicalDescendants: the nested activations neither finished nor aborted
  frames,      \* wasm and imports on the stack, innermost last
  brackets,    \* threadStack
  claims,      \* activationClaims
  owed,        \* pendingResumptions
  microtasks,  \* of the engine and of the wrappers, in their order
  tails,       \* settled: the entries whose promise has settled
  park,        \* the suspension point of a thread that is parked
  called, born, trips,  \* imports called, nested activations made, traps
  haunts,      \* history: activations that were claimed after their abort
  misled       \* history: an unscoped lookup has found another than the caller
activationVars == <<hopping, adjacent, exclusive, homeOf, where, chain, nested, frames,
                    brackets, claims, owed, microtasks, tails, park, called, born, trips,
                    haunts, misled>>
fixedVars == <<hopping, adjacent, exclusive, homeOf>>
counters == <<fixedVars, called, born, trips, haunts, misled>>

NoActivation == [t |-> "none", n |-> 0, i |-> "none"]
Root(t) == [t |-> t, n |-> 0, i |-> homeOf[t]]
NotParked == [logical |-> NoActivation, owner |-> NoActivation, to |-> "no"]

-----------------------------------------------------------------------------
(* The ambient.                                                            *)
Newest(s) == IF s = <<>> THEN NoActivation ELSE Last(s)
TopBracket == IF brackets = <<>> THEN NoActivation ELSE Last(brackets).who
Ambient == IF brackets # <<>> THEN TopBracket ELSE Newest(claims)

ResolveFor_Unscoped(i) == Ambient
ResolveFor(i) == IF TopBracket.i = i THEN TopBracket
                 ELSE Newest(SelectSeq(claims, LAMBDA a : a.i = i))

WithoutClaims(cs, gone) == SelectSeq(cs, LAMBDA a : a \notin gone)
WithClaim(cs, a) == IF a = NoActivation THEN cs ELSE Append(WithoutClaims(cs, {a}), a)

\* activationOf: brackets that entered wasm, not those of a nested activation.
RunningFor(cs) == LET entries == SelectSeq(brackets, LAMBDA b : b.entry)
               IN  IF entries # <<>> THEN Last(entries).who ELSE Newest(cs)
Consumed(cs) == owed \ {RunningFor(cs).t}

Bracket(a) == [who |-> a, entry |-> TRUE]

-----------------------------------------------------------------------------
ActivationsInit ==
  /\ hopping \in BOOLEAN /\ adjacent \in BOOLEAN /\ exclusive \in BOOLEAN
  /\ homeOf \in [Threads -> Homes]
  /\ ~hopping => adjacent
  /\ where = [t \in Threads |-> "new"] /\ chain = [t \in Threads |-> <<>>]
  /\ park = [t \in Threads |-> NotParked]
  /\ nested = {} /\ owed = {} /\ haunts = {} /\ misled = FALSE
  /\ frames = <<>> /\ brackets = <<>> /\ claims = <<>> /\ microtasks = <<>> /\ tails = <<>>
  /\ called = 0 /\ born = 0 /\ trips = 0

Wasm(t, entry) == [kind |-> "wasm", t |-> t, entry |-> entry, depth |-> Len(brackets),
                   owner |-> NoActivation]
InWasm(t) == frames # <<>> /\ Last(frames).kind = "wasm" /\ Last(frames).t = t
InImport == frames # <<>> /\ Last(frames).kind = "import"

\* Jobs run in the order of their queue, save that a chunk may be late.
Due(k) == \A j \in 1..(k - 1) : ~adjacent /\ microtasks[j].kind = "chunk"

\* Between two jobs; an adjacent engine lets nothing between a sentinel and its chunk.
BetweenTurns ==
  /\ frames = <<>>
  /\ adjacent /\ microtasks # <<>> => Head(microtasks).kind # "chunk"

Unsettled == {t \in Threads : where[t] \in {"hop", "parking", "returned"}}
Hops(i) == {t \in Threads : where[t] \in {"hop", "parking", "returned", "tail"} /\ homeOf[t] = i}

(* ordinaryServiceAllowed, and the step of a synchronous callee that is    *)
(* parked, which serves one instance only.                                 *)
Ordinary == BetweenTurns /\ brackets = <<>> /\ owed = {} /\ Unsettled = {}
RequiredBy(u, i) == where[u] = "parked" /\ \E k \in DOMAIN chain[u] : chain[u][k].i = i
Required(i) == BetweenTurns /\ \E u \in Threads : RequiredBy(u, i)

-----------------------------------------------------------------------------
(* awaitCore: a host call (kept back while the instance has an entry in a  *)
(* hop), the callee of a start call, or the callback of a task that waits. *)
(* An exclusive task waits for its instance (exclusiveThread).             *)
Vacant(i) == \A u \in Threads : homeOf[u] = i => where[u] \in {"new", "idle", "done"}

StartsWasm(t) ==
  /\ exclusive => Vacant(homeOf[t])
  /\ \/ where[t] = "new" /\ BetweenTurns /\ (hopping => Hops(homeOf[t]) = {})
     \/ where[t] = "new" /\ InImport
     \/ where[t] = "idle" /\ Ordinary /\ tails = <<>>
  /\ where' = [where EXCEPT ![t] = "on"] /\ chain' = [chain EXCEPT ![t] = <<Root(t)>>]
  /\ frames' = Append(frames, Wasm(t, TRUE)) /\ brackets' = Append(brackets, Bracket(Root(t)))
  /\ UNCHANGED <<nested, claims, owed, microtasks, tails, park, counters>>

\* The activation of thread t that runs.
Executing(t) == Last(chain[t])

(* suspendingImport: the wrapper brackets the built-in with its caller, or *)
(* with what an unscoped lookup takes for its caller.                      *)
CallsImport(t) ==
  /\ InWasm(t) /\ called < MaxImports
  /\ frames' = Append(frames, [Wasm(t, FALSE) EXCEPT !.kind = "import", !.owner = Ambient])
  /\ brackets' = IF hopping /\ Ambient # NoActivation THEN Append(brackets, Bracket(Ambient))
                 ELSE brackets
  /\ called' = called + 1
  /\ misled' = (misled \/ Ambient # Executing(t))
  /\ UNCHANGED <<fixedVars, where, chain, nested, claims, owed, microtasks, tails, park,
                 born, trips, haunts>>

Import == Last(frames)
Caller == frames[Len(frames) - 1]

\* The import's frame ends, its wasm with it: the brackets of both unwind.
Unwinds(state) ==
  /\ frames' = SubSeq(frames, 1, Len(frames) - 2)
  /\ brackets' = SubSeq(brackets, 1, IF Caller.entry THEN Caller.depth ELSE Import.depth)
  /\ where' = [where EXCEPT ![Import.t] = state]

Job(kind, t, who, bad) == <<[kind |-> kind, t |-> t, who |-> who, bad |-> bad]>>
Sentinel(a) == IF a = NoActivation THEN <<>> ELSE Job("sentinel", a.t, a, FALSE)
Continues(t, a, bad) == Sentinel(a) \o Job("chunk", t, NoActivation, bad)

(* A built-in returns at once, enter-sync-call with a nested activation,   *)
(* which becomes the continuation.                                         *)
NestedIn(a, i) == [t |-> a.t, n |-> born + 1, i |-> i]

Returns(a, on) ==
  IF hopping
    THEN /\ Unwinds("hop") /\ claims' = WithClaim(claims, a)
         /\ microtasks' = microtasks \o Continues(Import.t, a, FALSE)
    ELSE /\ frames' = Front(frames) /\ brackets' = on
         /\ UNCHANGED <<where, claims, microtasks>>

ImportReturns ==
  /\ InImport /\ Returns(Ambient, brackets)
  /\ UNCHANGED <<chain, nested, owed, tails, park, counters>>

EntersCallee(i) ==
  LET a == NestedIn(Ambient, i)
  IN  /\ InImport /\ born < MaxNested /\ Ambient # NoActivation
      /\ chain' = [chain EXCEPT ![Import.t] = Append(@, a)]
      /\ nested' = nested \cup {a} /\ born' = born + 1
      /\ Returns(a, Append(brackets, [who |-> a, entry |-> FALSE]))
      /\ UNCHANGED <<fixedVars, misled, owed, tails, park, called, trips, haunts>>

(* blockCurrentActivation; to: the callee of an enter-sync-call that is    *)
(* kept waiting.  A microtask later the thread counts as parked.           *)
Blocks(to) ==
  /\ InImport /\ hopping /\ Ambient # NoActivation
  /\ owed' = Consumed(claims) /\ claims' = WithoutClaims(claims, {Ambient})
  /\ park' = [park EXCEPT ![Import.t] = [logical |-> Ambient, owner |-> Import.owner, to |-> to]]
  /\ microtasks' = microtasks \o Job("parks", Import.t, NoActivation, FALSE)
  /\ Unwinds("parking")
  /\ UNCHANGED <<chain, nested, tails, counters>>

-----------------------------------------------------------------------------
(* SuspensionPoint.resume, by ordinary service, by the service of a        *)
(* synchronous callee, or by a built-in of another thread.  A callee kept  *)
(* waiting is entered here, for the caller that asked.  A point's produce  *)
(* may trap (bad).                                                         *)
ClaimsIfNone(cs, a) == IF brackets = <<>> /\ cs = <<>> THEN <<a>> ELSE cs

MayResume(t) ==
  \/ Ordinary /\ tails = <<>>
  \/ InImport
  \/ LET i == park[t].logical.i
     IN  /\ Required(i) /\ Hops(i) = {}
         /\ \E u \in Threads : RequiredBy(u, i) /\ u \notin owed

ResumesPoint(t, bad) ==
  LET p == park[t]
      enters == p.to # "no" /\ ~bad
      a == NestedIn(p.logical, p.to)
      produced == IF enters THEN WithClaim(claims, a) ELSE claims
  IN  /\ where[t] \in {"parking", "parked"} /\ MayResume(t)
      /\ enters => born < MaxNested
      /\ bad => trips < MaxTrips
      /\ owed' = Consumed(produced) \cup {p.logical.t}
      /\ claims' = ClaimsIfNone(produced, p.logical)
      /\ microtasks' = microtasks \o Job("settle", t, IF enters THEN a ELSE p.owner, bad)
      /\ IF enters THEN /\ chain' = [chain EXCEPT ![t] = Append(@, a)]
                        /\ nested' = nested \cup {a} /\ born' = born + 1
                   ELSE UNCHANGED <<chain, nested, born>>
      /\ where' = [where EXCEPT ![t] = "hop"] /\ park' = [park EXCEPT ![t] = NotParked]
      /\ trips' = IF bad THEN trips + 1 ELSE trips
      /\ UNCHANGED <<fixedVars, misled, frames, brackets, tails, called, haunts>>

(* The synchronous call of a parked callee cannot go on: abandon.          *)
Abandons(t) ==
  LET i == park[t].logical.i
  IN  /\ where[t] = "parked" /\ RequiredBy(t, i) /\ BetweenTurns /\ trips < MaxTrips
      /\ Hops(i) = {} /\ t \notin owed
      /\ microtasks' = microtasks \o Job("settle", t, park[t].owner, TRUE)
      /\ where' = [where EXCEPT ![t] = "hop"] /\ park' = [park EXCEPT ![t] = NotParked]
      /\ trips' = trips + 1
      /\ UNCHANGED <<fixedVars, misled, chain, nested, frames, brackets, claims, owed, tails,
                     called, born, haunts>>

-----------------------------------------------------------------------------
(* exit-sync-call: SynchronousActivation.finish, on the scopes of the      *)
(* activation that an unscoped lookup finds.                               *)
ExitsCallee(t) ==
  /\ InWasm(t) /\ Len(chain[t]) > 1
  /\ LET a == Last(chain[t])
         parent == chain[t][Len(chain[t]) - 1]
         left == IF TopBracket = a THEN Front(brackets) ELSE brackets
         released == IF TopBracket = a THEN claims ELSE WithoutClaims(claims, {a})
     IN  /\ brackets' = left
         /\ claims' = IF left # <<>> /\ Last(left).who = parent THEN released
                      ELSE WithClaim(released, parent)
         /\ nested' = nested \ {a} /\ chain' = [chain EXCEPT ![t] = Front(@)]
         /\ misled' = (misled \/ Ambient # a)
  /\ UNCHANGED <<fixedVars, where, frames, owed, microtasks, tails, park, called, born, trips,
                 haunts>>

(* The wasm of a thread ends, by its return or a trap.  With JSPI a        *)
(* promise tells so; in plain mode the entry's bracket sees it.            *)
Of(t) == {a \in nested : a.t = t}

WasmEnds(t, bad) ==
  /\ InWasm(t) /\ (bad => trips < MaxTrips) /\ (~bad => Len(chain[t]) = 1)
  /\ trips' = IF bad THEN trips + 1 ELSE trips
  /\ chain' = [chain EXCEPT ![t] = <<>>]
  /\ frames' = Front(frames)
  /\ brackets' = IF Last(frames).entry THEN SubSeq(brackets, 1, Last(frames).depth) ELSE brackets
  /\ IF hopping
       THEN /\ where' = [where EXCEPT ![t] = "returned"]
            /\ microtasks' = microtasks \o Job("settled", t, NoActivation, bad)
            /\ UNCHANGED <<nested, claims, owed>>
       ELSE /\ \E s \in {"idle", "done"} : where' = [where EXCEPT ![t] = s] /\ (bad => s = "done")
            /\ nested' = IF bad THEN nested \ Of(t) ELSE nested
            /\ claims' = IF bad THEN WithoutClaims(claims, Of(t) \cup {Root(t)}) ELSE claims
            /\ owed' = IF bad THEN owed \ {t} ELSE owed
            /\ UNCHANGED microtasks
  /\ UNCHANGED <<fixedVars, misled, tails, park, called, born, haunts>>

(* A built-in traps at once: its bracket aborts the nested activations of  *)
(* the caller's thread, and then the wrapper claims for the caller.        *)
ImportThrows ==
  LET t == Import.t
      owner == Import.owner
  IN  /\ InImport /\ hopping /\ trips < MaxTrips /\ trips' = trips + 1
      /\ Unwinds("returned") /\ chain' = [chain EXCEPT ![t] = <<>>]
      /\ nested' = nested \ Of(owner.t)
      /\ claims' = WithClaim(WithoutClaims(claims, Of(owner.t)), owner)
      /\ haunts' = IF owner \in nested THEN haunts \cup {owner} ELSE haunts
      /\ microtasks' = microtasks \o Job("settled", t, NoActivation, TRUE)
      /\ UNCHANGED <<fixedVars, misled, owed, tails, park, called, born>>

-----------------------------------------------------------------------------
(* The microtasks: the reaction of attributeContinuation, a sentinel, the  *)
(* wasm that goes on, a park that has left the stack, noteAwaiting.        *)
Turn(k, kind) == frames = <<>> /\ Due(k) /\ microtasks[k].kind = kind
Dequeued(k) == RemoveAt(microtasks, k)

Settles(k) ==
  /\ Turn(k, "settle")
  /\ LET j == microtasks[k]
     IN  microtasks' = Dequeued(k) \o Continues(j.t, j.who, j.bad)
  /\ UNCHANGED <<where, chain, nested, frames, brackets, claims, owed, tails, park, counters>>

SentinelRuns(k) ==
  /\ Turn(k, "sentinel") /\ microtasks' = Dequeued(k)
  /\ claims' = WithClaim(claims, microtasks[k].who)
  /\ UNCHANGED <<where, chain, nested, frames, brackets, owed, tails, park, counters>>

WasmGoesOn(k) ==
  /\ Turn(k, "chunk")
  /\ LET j == microtasks[k]
     IN  IF j.bad
           THEN /\ microtasks' = Dequeued(k) \o Job("settled", j.t, NoActivation, TRUE)
                /\ where' = [where EXCEPT ![j.t] = "returned"]
                /\ chain' = [chain EXCEPT ![j.t] = <<>>] /\ UNCHANGED frames
           ELSE /\ microtasks' = Dequeued(k) /\ frames' = <<Wasm(j.t, FALSE)>>
                /\ where' = [where EXCEPT ![j.t] = "on"] /\ UNCHANGED chain
  /\ UNCHANGED <<nested, brackets, claims, owed, tails, park, counters>>

ParkLeft(k) ==
  /\ Turn(k, "parks") /\ microtasks' = Dequeued(k)
  /\ where' = [where EXCEPT ![microtasks[k].t] = IF @ = "parking" THEN "parked" ELSE @]
  /\ UNCHANGED <<chain, nested, frames, brackets, claims, owed, tails, park, counters>>

EntrySettles(k) ==
  /\ Turn(k, "settled") /\ microtasks' = Dequeued(k)
  /\ LET t == microtasks[k].t
     IN  /\ claims' = WithoutClaims(claims, {Root(t)}) /\ owed' = owed \ {t}
         /\ tails' = Append(tails, [t |-> t, bad |-> microtasks[k].bad])
         /\ where' = [where EXCEPT ![t] = "tail"]
  /\ UNCHANGED <<chain, nested, frames, brackets, park, counters>>

(* serviceSettledStepFor: the thread's body goes on, with the result or    *)
(* with the failure, which ends it and aborts what was nested in it.       *)
ServesTail(k) ==
  LET t == tails[k].t
      bad == tails[k].bad
  IN  /\ \/ k = 1 /\ Ordinary
         \/ /\ Required(homeOf[t])
            /\ \A j \in 1..(k - 1) : homeOf[tails[j].t] # homeOf[t]
      /\ tails' = RemoveAt(tails, k)
      /\ \E s \in {"idle", "done"} : where' = [where EXCEPT ![t] = s] /\ (bad => s = "done")
      /\ nested' = IF bad THEN nested \ Of(t) ELSE nested
      /\ claims' = IF bad THEN WithoutClaims(claims, Of(t) \cup {Root(t)}) ELSE claims
      /\ owed' = IF bad THEN owed \ {t} ELSE owed
      /\ UNCHANGED <<chain, frames, brackets, microtasks, park, counters>>

(* What follows a lookup that found a sibling is left out.                 *)
ActivationsNext ==
  /\ ~misled
  /\ \/ \E t \in Threads : \/ StartsWasm(t) \/ CallsImport(t) \/ ExitsCallee(t) \/ Abandons(t)
                           \/ \E bad \in BOOLEAN : WasmEnds(t, bad) \/ ResumesPoint(t, bad)
     \/ ImportReturns \/ ImportThrows
     \/ \E i \in Homes : EntersCallee(i)
     \/ \E to \in Homes \cup {"no"} : Blocks(to)
     \/ \E k \in DOMAIN microtasks : \/ Settles(k) \/ SentinelRuns(k) \/ WasmGoesOn(k)
                                    \/ ParkLeft(k) \/ EntrySettles(k)
     \/ \E k \in DOMAIN tails : ServesTail(k)

-----------------------------------------------------------------------------

(* Activations of other threads in the same instance that may be claimed:  *)
(* no lookup tells them apart.  Tasks that hold their instance have none    *)
(* but those of synchronous calls that come in from elsewhere.             *)
Rivals(a) == {b \in Range(claims) : /\ b.i = a.i /\ b.t # a.t
                                    /\ exclusive => a.n > 0 \/ b.n > 0}

(* However sentinels, chunks, entries, resumptions and traps interleave, a *)
(* built-in that is resolved by its instance runs for the activation whose *)
(* wasm called it, unless another thread's activation of that instance is  *)
(* claimed too (currentThreadForInstance); so does one that is not, under  *)
(* a synchronous bracket, and everywhere in an engine that lets nothing    *)
(* between a sentinel and its chunk.  Nothing is left of an activation     *)
(* that has ended, save one whose built-in trapped on the spot; no         *)
(* resumption is waited for that will not come, which would keep the store *)
(* from being served; what is parked is claimed for no more.  The first is *)
(* said up to the first import, or exit of a synchronous call, at which an *)
(* unscoped lookup found a sibling (misled), for what that import does     *)
(* next it does for the sibling.                                           *)
Attributed ==
  /\ frames # <<>> /\ ~misled =>
       LET a == Executing(Last(frames).t)
       IN  /\ adjacent \/ brackets # <<>> => Ambient = a
           /\ ResolveFor(a.i) \in {a} \cup Rivals(a)
           /\ ResolveFor(a.i) = a \/ a \in Range(claims)
  /\ frames = <<>> => brackets = <<>>
  /\ \A t \in owed : where[t] \in {"hop", "on", "returned"}
  /\ \A k \in DOMAIN claims :
       \/ claims[k] \in nested \cup haunts
       \/ claims[k].n = 0 /\ where[claims[k].t] \notin {"new", "idle", "done"}
  /\ \A t \in Threads : where[t] = "parked" => \A k \in DOMAIN claims : claims[k] # Executing(t)
=============================================================================
