---------------------------- MODULE StoreService ----------------------------
(***************************************************************************)
(* The store's event-driven service (runtime/src/exec/boundary.ts): the    *)
(* one coordinator that resumes guest activations between turns of the     *)
(* JavaScript event loop, the synchronous prefix an export call runs, and  *)
(* the verdicts calls get when nothing can progress.                       *)
(*                                                                         *)
(* Every thread is one exported call and the task it starts, in a store in *)
(* JSPI mode; a plain call is one whose core functions cannot suspend.     *)
(* JavaScript runs to completion: driving and pc name the code on the      *)
(* stack, and engine continuations, timers, host promises and the embedder *)
(* act only between its segments; timers fire only when no microtask is    *)
(* left.                                                                   *)
(***************************************************************************)
EXTENDS Naturals, Sequences, SequencesExt

CONSTANTS
  Threads,     \* exported calls, each with its implicit thread
  Instances,   \* component instances
  InstOf,      \* the instance each call enters
  SyncTyped,   \* calls of sync-typed exports: idle policy "trap"
  Plain,       \* calls whose core functions cannot suspend
  MayCallHost, MayStall, MayBeCancelled, MayBlockSync,
               \* calls whose guest code issues host calls, awaits promises
               \* the store does not know, is cancelled, blocks in a
               \* synchronous callee
  MayFail,     \* calls whose host results may fail to convert
  DropsFail,   \* destructors of dropped handles may fail
  Quantum,     \* WORK_QUANTUM
  Nobody,      \* no call is being driven; no failure
  Dtor,        \* the destructor of a dropped handle, as one whose failure it is
  Drain        \* the coordinator, as the owner of a handoff timer

ASSUME CallsAssumption == /\ InstOf \in [Threads -> Instances]
                          /\ SyncTyped \subseteq Threads /\ Plain \subseteq Threads
                          /\ MayCallHost \subseteq Threads /\ MayStall \subseteq Threads
                          /\ MayBeCancelled \subseteq Threads
                          /\ MayBlockSync \subseteq Threads /\ MayFail \subseteq Threads
                          /\ DropsFail \in BOOLEAN
                          /\ Nobody \notin Threads \cup {Dtor} /\ Drain \notin Threads
                          /\ Dtor \notin Threads
ASSUME QuantumAssumption == Quantum \in Nat \ {0}

(* Where a thread stands: not called, parked at the entry gate, parked      *)
(* between callback invocations, its frame being suspended but the import   *)
(* not yet returned to the engine, suspended, resumed but not yet running,  *)
(* returned from its core function, waiting for a promise the store does    *)
(* not know, its settlement queued, over.                                   *)
Places == {"out", "gate", "parked", "minted", "suspended", "claimed", "hop",
           "stalled", "tail", "over"}
InWaiting == {"gate", "parked", "minted", "suspended"}
InAwaiting == {"minted", "suspended", "claimed", "hop", "stalled", "tail"}

(* A call: not made, deferred by an entry hop, in the synchronous part of   *)
(* its invocation or handed off by it, driven again after a handoff, a      *)
(* registered waiter, a waiter told "idle", without a driver, answered.     *)
Unanswered == {"driving", "away", "open", "idle", "lost"}
Calls == Unanswered \cup {"none", "deferred", "result", "failed", "deadlock"}

VARIABLES
  place,               \* where each thread stands
  ready,               \* readiness: "no", "yes", or "cancel" (a pending cancel)
  outstanding,         \* threads a host promise is outstanding for
  doomed,              \* threads whose activation has been made to trap
  pendingResumptions,  \* Store.pendingResumptions
  settled,             \* Store.settled
  syncParks,           \* Store.requiredSyncParks
  hostFailure,         \* Store.hostFailure: whose host call failed, or Nobody
  poisoned,            \* instances that trapped
  call,                \* state of each exported call
  heard,               \* the host failure each call was failed with
  admissions,          \* DrainState.admissions
  driving,             \* the call whose drive() is on the stack
  pc,                  \* where the coordinator stands, "off" when not running
  scheduled, requested, yielding, budget,  \* DrainState
  handoffs,            \* owners of pending handoff timers
  thrown,              \* the host failure the driver of an answered call threw
  hopProbe, syncHopProbe,  \* the probes, no hops when null
  idleProbeArmed,      \* waiters whose idle probe has been armed
  idleTimers           \* idle probe timers that have not fired

threadVars == <<place, ready, outstanding, doomed>>
storeVars == <<pendingResumptions, settled, syncParks, poisoned>>
callVars == <<call, heard, admissions, driving, thrown>>
probes == <<hopProbe, syncHopProbe, idleProbeArmed, idleTimers>>
quantum == <<yielding, budget, handoffs>>
vars == <<threadVars, storeVars, hostFailure, callVars, pc, scheduled, requested,
          quantum, probes>>

(* Host failures: of a call's host call, of a destructor, none.             *)
Failures == Threads \cup {Dtor, Nobody}

NoProbe == [hops |-> {}, elapsed |-> FALSE]

Init ==
  /\ place = [t \in Threads |-> "out"]
  /\ ready = [t \in Threads |-> "no"]
  /\ outstanding = {}
  /\ doomed = {}
  /\ pendingResumptions = {}
  /\ settled = <<>> /\ syncParks = <<>>
  /\ hostFailure = Nobody /\ poisoned = {}
  /\ call = [t \in Threads |-> "none"]
  /\ heard = [t \in Threads |-> Nobody]
  /\ admissions = <<>> /\ driving = Nobody
  /\ pc = "off" /\ scheduled = FALSE /\ requested = FALSE
  /\ yielding = FALSE /\ budget = Quantum /\ handoffs = {}
  /\ thrown = [t \in Threads |-> Nobody]
  /\ hopProbe = NoProbe /\ syncHopProbe = NoProbe
  /\ idleProbeArmed = {} /\ idleTimers = {}

Probes == [hops : SUBSET Threads, elapsed : BOOLEAN]

TypeOK ==
  /\ place \in [Threads -> Places]
  /\ ready \in [Threads -> {"no", "yes", "cancel"}]
  /\ outstanding \subseteq Threads
  /\ doomed \subseteq Threads /\ pendingResumptions \subseteq Threads
  /\ settled \in Seq(Threads) /\ syncParks \in Seq(Threads)
  /\ hostFailure \in Failures /\ poisoned \subseteq Instances
  /\ call \in [Threads -> Calls] /\ heard \in [Threads -> Failures]
  /\ admissions \in Seq(Threads) /\ driving \in Threads \cup {Nobody}
  /\ pc \in {"off", "top", "work", "charge", "settle", "handoff", "micro"}
  /\ scheduled \in BOOLEAN /\ requested \in BOOLEAN /\ yielding \in BOOLEAN
  /\ budget \in 0 .. Quantum /\ handoffs \subseteq Threads \cup {Drain}
  /\ thrown \in [Threads -> Failures]
  /\ hopProbe \in Probes /\ syncHopProbe \in Probes
  /\ idleProbeArmed \subseteq Threads /\ idleTimers \subseteq Threads

-----------------------------------------------------------------------------
(* What the coordinator looks at.                                           *)

(* entryHopThreads: awaiting activations without a suspension point whose   *)
(* import has returned.                                                     *)
Hops == {t \in Threads : place[t] \in InAwaiting \ {"suspended"}}
HopsOf(i) == {t \in Hops : InstOf[t] = i}
UnsettledHops == {t \in Hops : place[t] # "tail"}

Candidates == {t \in Threads : /\ place[t] \in InWaiting /\ ready[t] # "no"
                               /\ InstOf[t] \notin poisoned}
CandidatesOf(i) == {t \in Candidates : InstOf[t] = i}

OrdinaryAllowed == pendingResumptions = {} /\ UnsettledHops = {}

(* hasRunnable; also whether serviceOrdinaryStep would make a step.         *)
HasRunnable == OrdinaryAllowed /\ (settled # <<>> \/ Candidates # {})

HostOutstanding == outstanding # {}

(* Nothing the store knows of can progress.                                 *)
Idle_IgnoresHost == ~HasRunnable /\ pendingResumptions = {} /\ Hops = {}
Idle == /\ ~HasRunnable /\ pendingResumptions = {} /\ Hops = {}
        /\ ~HostOutstanding

(* After a step queued engine work runs before the next one.                *)
AfterStep == IF settled = <<>> /\ \E t \in Threads : place[t] \in InAwaiting
             THEN "micro" ELSE "work"

Waiters == {t \in Threads : call[t] \in {"open", "idle"}}

(* The stack is empty; and no microtask is queued either.                   *)
Free == driving = Nobody /\ pc \in {"off", "handoff", "micro"}
Microtasks == \/ scheduled \/ pc = "micro"
              \/ \E t \in Threads : place[t] \in {"claimed", "hop", "minted"}
              \/ \E t \in Threads : thrown[t] # Nobody
Quiet == Free /\ ~Microtasks

(* requestStoreService: requests coalesce.                                  *)
Request_NotWhileRunning == /\ requested' = (requested \/ pc = "off")
                           /\ scheduled' = (scheduled \/ (pc = "off" /\ ~yielding))
Request == /\ requested' = TRUE
           /\ scheduled' = (scheduled \/ (pc = "off" /\ ~yielding))

-----------------------------------------------------------------------------
(* What guest code can do.                                                  *)

(* While guest code of t runs it may issue a host call and make other       *)
(* threads ready (r: by an event or by a cancellation); own is its own      *)
(* readiness afterwards.                                                    *)
Effects(t, own) ==
  /\ \E woken \in SUBSET {u \in Threads \ {t} : /\ place[u] \notin {"out", "over"}
                                                /\ ready[u] = "no"},
        r \in {"yes", "cancel"} :
       /\ r = "cancel" => woken \subseteq MayBeCancelled
       /\ ready' = [u \in Threads |-> IF u \in woken THEN r
                                      ELSE IF u = t THEN own ELSE ready[u]]
  /\ outstanding' \in {outstanding, outstanding \cup ({t} \cap MayCallHost)}

(* It runs until its frame is suspended (a yield is ready at once), its     *)
(* core function returns, or it awaits a promise of its own.                *)
RunsGuest(t) ==
  /\ t \notin Plain
  /\ \/ /\ \E own \in {"no", "yes"} : Effects(t, own)
        /\ place' = [place EXCEPT ![t] = "minted"]
     \/ /\ Effects(t, "no")
        /\ \E to \in {"hop"} \cup (IF t \in MayStall THEN {"stalled"} ELSE {}) :
             place' = [place EXCEPT ![t] = to]

(* A call takes the host failure that waits in the store as its own.        *)
FailsWithIt(t, calls) ==
  /\ hostFailure # Nobody /\ hostFailure' = Nobody
  /\ call' = [calls EXCEPT ![t] = "failed"]
  /\ heard' = [heard EXCEPT ![t] = hostFailure]

(* The call's result is published, unless a host failure is waiting.  calls *)
(* is call, or what an entry made of it.                                    *)
Publish(t, calls) ==
  \/ /\ calls[t] \in Unanswered /\ hostFailure = Nobody
     /\ call' = [calls EXCEPT ![t] = "result"]
     /\ UNCHANGED <<heard, hostFailure>>
  \/ calls[t] \in Unanswered /\ FailsWithIt(t, calls)
  \/ calls[t] \notin Unanswered /\ call' = calls /\ UNCHANGED <<heard, hostFailure>>

(* A call that fails abandons its thread's wait at the gate.                *)
Abandoned(fails) ==
  [u \in Threads |-> IF u \in fails /\ place[u] = "gate" THEN "over" ELSE place[u]]

(* A poisoned instance takes all its unanswered calls with it.              *)
UnansweredIn(is, calls) ==
  {u \in Threads : InstOf[u] \in is /\ calls[u] \in Unanswered}

(* What follows the return of a core function: the thread parks, exits, or  *)
(* traps.                                                                   *)
Parks(t, calls) ==
  /\ place' = [place EXCEPT ![t] = "parked"]
  /\ Publish(t, calls) \/ (call' = calls /\ UNCHANGED <<heard, hostFailure>>)
  /\ UNCHANGED poisoned

Exits(t, calls) ==
  /\ place' = [place EXCEPT ![t] = "over"]
  /\ Publish(t, calls)
  /\ UNCHANGED poisoned

Traps(t, calls) ==
  LET fails == UnansweredIn({InstOf[t]}, calls) IN
  /\ poisoned' = poisoned \cup {InstOf[t]}
  /\ call' = [u \in Threads |-> IF u \in fails THEN "failed" ELSE calls[u]]
  /\ place' = [Abandoned(fails) EXCEPT ![t] = "over"]
  /\ UNCHANGED <<heard, hostFailure>>

(* A plain core function runs to its end at once.  after are the calls a    *)
(* trap leaves.                                                             *)
RunsPlain(t, calls, after) ==
  /\ t \in Plain
  /\ \/ \E own \in {"no", "yes"} : Effects(t, own) /\ Parks(t, calls)
     \/ Effects(t, "no") /\ (Exits(t, calls) \/ Traps(t, after))

(* A ready thread is resumed: it enters its core function, or its suspended *)
(* frame becomes a claim for the engine to run.                             *)
Resume(t, after) ==
  \/ /\ place[t] \in {"gate", "parked"}
     /\ \/ RunsGuest(t) /\ UNCHANGED <<call, heard, hostFailure, poisoned>>
        \/ RunsPlain(t, call, after)
     /\ UNCHANGED <<pendingResumptions, syncParks>>
  \/ /\ place[t] \in {"minted", "suspended"}
     /\ place' = [place EXCEPT ![t] = "claimed"]
     /\ ready' = [ready EXCEPT ![t] = "no"]
     /\ pendingResumptions' = pendingResumptions \cup {t}
     /\ syncParks' = RemoveFirst(syncParks, t)
     /\ UNCHANGED <<outstanding, call, heard, hostFailure, poisoned>>

(* The i-th queued settlement is dispatched: the activation of a poisoned   *)
(* instance is retired, an abandoned frame traps, a cancelled task hears of *)
(* it by another invocation.                                                *)
Dispatch(i) ==
  LET t == settled[i]
      live == InstOf[t] \notin poisoned IN
  /\ settled' = RemoveAt(settled, i)
  /\ \/ /\ ~live
        /\ place' = [place EXCEPT ![t] = "over"]
        /\ UNCHANGED <<ready, outstanding, call, heard, hostFailure, poisoned>>
     \/ /\ live /\ t \notin doomed
        /\ Parks(t, call)
        /\ \E r \in IF ready[t] = "no" THEN {"no", "yes"} ELSE {ready[t]} :
             ready' = [ready EXCEPT ![t] = r]
        /\ UNCHANGED outstanding
     \/ /\ live /\ t \notin doomed
        /\ Exits(t, call)
        /\ UNCHANGED <<ready, outstanding>>
     \/ /\ live /\ t \notin doomed /\ ready[t] = "cancel"
        /\ RunsGuest(t)
        /\ UNCHANGED <<call, heard, hostFailure, poisoned>>
     \/ /\ live
        /\ Traps(t, call)
        /\ UNCHANGED <<ready, outstanding>>
  /\ UNCHANGED doomed

-----------------------------------------------------------------------------
(* Between the segments: the engine, host promises, timers, the embedder.   *)

(* The engine runs a claimed frame, one microtask later than the            *)
(* coordinator that claimed it goes on.  Parking again consumes the claim,  *)
(* a returning activation keeps it until its promise settles.               *)
EngineRuns(t) ==
  /\ Free /\ pc # "micro" /\ place[t] = "claimed"
  /\ RunsGuest(t)
  /\ IF place'[t] = "minted"
     THEN pendingResumptions' = pendingResumptions \ {t} /\ Request
     ELSE UNCHANGED <<pendingResumptions, requested, scheduled>>
  /\ UNCHANGED <<doomed, settled, syncParks, poisoned, hostFailure, callVars, pc,
                 quantum, probes>>

(* noteAwaiting: the activation's promise settles.                          *)
Settles(t) ==
  /\ Free
  /\ place[t] = "hop" \/ (place[t] = "stalled" /\ ~Microtasks)
  /\ place' = [place EXCEPT ![t] = "tail"]
  /\ settled' = Append(settled, t)
  /\ pendingResumptions' = pendingResumptions \ {t}
  /\ Request
  /\ UNCHANGED <<ready, outstanding, doomed, syncParks, poisoned, hostFailure, callVars,
                 pc, quantum, probes>>

(* The suspending import returned its Promise to the engine: the frame is   *)
(* suspended for good, its call may be published, and if it blocks a        *)
(* synchronous callee (sync) it becomes an obligation of the store.         *)
BoundaryReturned(t, sync) ==
  /\ Free /\ place[t] = "minted"
  /\ sync => t \in MayBlockSync
  /\ place' = [place EXCEPT ![t] = "suspended"]
  /\ syncParks' = IF sync /\ call[t] \in Unanswered THEN Append(syncParks, t)
                  ELSE syncParks
  /\ Publish(t, call) \/ UNCHANGED <<call, heard, hostFailure>>
  /\ Request
  /\ UNCHANGED <<ready, outstanding, doomed, pendingResumptions, settled, poisoned,
                 admissions, driving, thrown, pc, quantum, probes>>

(* A host promise settles: readiness is committed, or a conversion failure  *)
(* is left in the store, in the place of one that nobody has taken yet;     *)
(* then service is requested.                                               *)
HostSettles(t, failed) ==
  /\ Free /\ t \in outstanding
  /\ failed => t \in MayFail /\ InstOf[t] \notin poisoned
  /\ outstanding' = outstanding \ {t}
  /\ ready' = IF failed \/ ready[t] # "no" \/ place[t] = "over" THEN ready
              ELSE [ready EXCEPT ![t] = "yes"]
  /\ hostFailure' = IF failed THEN t ELSE hostFailure
  /\ Request
  /\ UNCHANGED <<place, doomed, storeVars, callVars, pc, quantum, probes>>

(* The destructor of a handle the embedder dropped fails: the failure is    *)
(* left in the store unless there is one, and no service is requested.      *)
DropFails ==
  /\ Free /\ DropsFail /\ hostFailure = Nobody
  /\ hostFailure' = Dtor
  /\ UNCHANGED <<threadVars, storeVars, callVars, pc, scheduled, requested, quantum,
                 probes>>

(* The platform task of a handoff refills the quantum.                      *)
Refill == Quantum

(* Timers.  The coordinator goes on after its handoff; a call is driven     *)
(* again.  If it has been answered meanwhile its driver only ends, but it   *)
(* may take a host failure first, which it has to give back.                *)
HandoffFires(x) ==
  /\ Quiet /\ x \in handoffs
  /\ handoffs' = handoffs \ {x}
  /\ yielding' = FALSE /\ budget' = Refill
  /\ requested' = TRUE /\ scheduled' = (pc = "off")
  /\ IF x = Drain
     THEN pc' = AfterStep /\ UNCHANGED <<call, driving, thrown, hostFailure>>
     ELSE /\ pc' = pc
          /\ IF call[x] \in {"driving", "away"}
             THEN /\ call' = [call EXCEPT ![x] = "away"]
                  /\ driving' = x
                  /\ UNCHANGED <<thrown, hostFailure>>
             ELSE /\ thrown' = [thrown EXCEPT ![x] = hostFailure]
                  /\ hostFailure' = Nobody
                  /\ UNCHANGED <<call, driving>>
  /\ UNCHANGED <<threadVars, storeVars, heard, admissions, probes>>

(* It gives it back, unless the store has another by now.                   *)
RecordsAgain(t) ==
  /\ Free /\ thrown[t] # Nobody
  /\ thrown' = [thrown EXCEPT ![t] = Nobody]
  /\ hostFailure' = IF hostFailure = Nobody THEN thrown[t] ELSE hostFailure
  /\ UNCHANGED <<threadVars, storeVars, call, heard, admissions, driving, pc, scheduled,
                 requested, quantum, probes>>

HopProbeFires ==
  /\ Quiet /\ hopProbe.hops # {} /\ ~hopProbe.elapsed
  /\ hopProbe' = [hopProbe EXCEPT !.elapsed = TRUE]
  /\ Request
  /\ UNCHANGED <<threadVars, storeVars, hostFailure, callVars, pc, quantum,
                 syncHopProbe, idleProbeArmed, idleTimers>>

SyncHopProbeFires ==
  /\ Quiet /\ syncHopProbe.hops # {} /\ ~syncHopProbe.elapsed
  /\ syncHopProbe' = [syncHopProbe EXCEPT !.elapsed = TRUE]
  /\ Request
  /\ UNCHANGED <<threadVars, storeVars, hostFailure, callVars, pc, quantum,
                 hopProbe, idleProbeArmed, idleTimers>>

IdleTimerFires(t) ==
  /\ Quiet /\ t \in idleTimers
  /\ idleTimers' = idleTimers \ {t}
  /\ Request
  /\ UNCHANGED <<threadVars, storeVars, hostFailure, callVars, pc, quantum,
                 hopProbe, syncHopProbe, idleProbeArmed>>

-----------------------------------------------------------------------------
(* Export calls.                                                            *)

(* invokeNow, up to the return of thread.resume(): the thread parks at the  *)
(* gate or enters its core function; then, unless that trapped, the call is *)
(* driven.                                                                  *)
Refused(t) ==
  /\ InstOf[t] \in poisoned
  /\ call' = [call EXCEPT ![t] = "failed"]
  /\ UNCHANGED <<place, ready, outstanding, poisoned, heard, hostFailure, driving>>

Enters(t) ==
  LET calls == [call EXCEPT ![t] = "driving"] IN
  /\ InstOf[t] \notin poisoned
  /\ \/ /\ place' = [place EXCEPT ![t] = "gate"]
        /\ call' = calls
        /\ UNCHANGED <<ready, outstanding, heard, hostFailure, poisoned>>
     \/ /\ RunsGuest(t)
        /\ call' = calls
        /\ UNCHANGED <<heard, hostFailure, poisoned>>
     \/ RunsPlain(t, calls, calls)
  /\ driving' = IF poisoned' = poisoned THEN t ELSE driving

Invokes(t) == Refused(t) \/ Enters(t)

(* The embedder calls an export.  An entry hop in its instance defers it.   *)
HostCalls(t) ==
  /\ Free /\ call[t] = "none"
  /\ IF HopsOf(InstOf[t]) # {}
     THEN /\ call' = [call EXCEPT ![t] = "deferred"]
          /\ admissions' = Append(admissions, t)
          /\ Request
          /\ UNCHANGED <<place, ready, outstanding, poisoned, heard, hostFailure, driving>>
     ELSE Invokes(t) /\ UNCHANGED <<admissions, requested, scheduled>>
  /\ UNCHANGED <<doomed, pendingResumptions, settled, syncParks, thrown, pc, quantum,
                 probes>>

(* drive: a host failure recorded before is thrown to this call, which is   *)
(* not answered yet: a JSPI entry returns a Promise first.                  *)
DriveFails(t) ==
  /\ driving = t /\ FailsWithIt(t, call)
  /\ driving' = Nobody
  /\ place' = Abandoned({t})
  /\ Request
  /\ UNCHANGED <<ready, outstanding, doomed, storeVars, admissions, thrown, pc, quantum, probes>>

Driven(t) == driving = t /\ hostFailure = Nobody /\ call[t] \in Unanswered
MayDriveStep == (\A u \in Threads : place[u] \notin InAwaiting) /\ HasRunnable

(* chargeWorkQuantum and handoffWorkQuantum: the last unit of the shared    *)
(* quantum hands the owner's next steps to a platform task.  A counter that *)
(* the code takes below zero stays at zero here.                            *)
Exhausted_Never == FALSE
Exhausted == budget <= 1
Charge(owner) ==
  /\ budget' = IF budget > 0 THEN budget - 1 ELSE 0
  /\ IF Exhausted THEN yielding' = TRUE /\ handoffs' = handoffs \cup {owner}
     ELSE UNCHANGED <<yielding, handoffs>>

DriveDone(t) ==
  /\ driving = t /\ hostFailure = Nobody /\ call[t] \notin Unanswered
  /\ driving' = Nobody
  /\ Request
  /\ UNCHANGED <<threadVars, storeVars, hostFailure, call, heard, admissions, thrown, pc,
                 quantum, probes>>

(* The synchronous prefix runs ready threads while nothing is awaited.  A   *)
(* trap ends drive; invokeNow then drives its call again, unless this is    *)
(* the part after a handoff.                                                *)
DriveSteps(t) ==
  /\ Driven(t) /\ MayDriveStep
  /\ LET after == IF call[t] = "away" THEN [call EXCEPT ![t] = "lost"] ELSE call IN
       \E u \in Candidates : Resume(u, after)
  /\ IF poisoned' # poisoned
     THEN /\ driving' = IF call[t] = "away" THEN Nobody ELSE t
          /\ Request
          /\ UNCHANGED quantum
     ELSE IF call'[t] \notin Unanswered
     THEN UNCHANGED <<driving, scheduled, requested, quantum>>
     ELSE /\ Charge(t)
          /\ driving' = IF Exhausted THEN Nobody ELSE t
          /\ UNCHANGED <<scheduled, requested>>
  /\ UNCHANGED <<doomed, settled, admissions, thrown, pc, probes>>

(* driveAsync: the call becomes a waiter of the coordinator.                *)
DriveWaits(t) ==
  /\ Driven(t) /\ ~MayDriveStep
  /\ call' = [call EXCEPT ![t] = "open"]
  /\ driving' = Nobody
  /\ Request
  /\ UNCHANGED <<threadVars, storeVars, hostFailure, heard, admissions, thrown, pc, quantum, probes>>

-----------------------------------------------------------------------------
(* runStoreDrain: "top" is the head of its loop, "work" the inner loop over *)
(* ordinary steps, "charge" the end of such a step, "settle" the verdicts.  *)

At(place_) == driving = Nobody /\ pc = place_

(* The drain returns; requests made while it ran belong to a new microtask. *)
Returns(req) == /\ pc' = "off"
                /\ requested' = req
                /\ scheduled' = (req /\ ~yielding)

DrainStarts ==
  /\ Free /\ scheduled
  /\ scheduled' = FALSE
  /\ pc' = IF yielding THEN pc ELSE "top"
  /\ requested' = (yielding /\ requested)
  /\ UNCHANGED <<threadVars, storeVars, hostFailure, callVars, quantum, probes>>

AgainAtTop == requested' = FALSE /\ pc' = "top" /\ UNCHANGED scheduled

(* rejectOneWaiter: a host failure is the first waiter's; without one it    *)
(* stays for the next driver, and the drain stops.                          *)
TopFailure_RejectsAll ==
  /\ At("top") /\ hostFailure # Nobody
  /\ IF Waiters = {}
     THEN Returns(FALSE) /\ UNCHANGED <<place, call, heard, hostFailure>>
     ELSE /\ AgainAtTop
          /\ hostFailure' = Nobody
          /\ heard' = [t \in Threads |-> IF t \in Waiters THEN hostFailure ELSE heard[t]]
          /\ call' = [t \in Threads |-> IF t \in Waiters THEN "failed" ELSE call[t]]
          /\ place' = Abandoned(Waiters)
  /\ UNCHANGED <<ready, outstanding, doomed, storeVars, admissions, driving, thrown, quantum,
                 probes>>
TopFailure ==
  /\ At("top") /\ hostFailure # Nobody
  /\ IF Waiters = {}
     THEN Returns(FALSE) /\ UNCHANGED <<place, call, heard, hostFailure>>
     ELSE /\ AgainAtTop
          /\ \E t \in Waiters : FailsWithIt(t, call) /\ place' = Abandoned({t})
  /\ UNCHANGED <<ready, outstanding, doomed, storeVars, admissions, driving, thrown, quantum,
                 probes>>

(* serviceAdmissionStep: the first deferred call whose instance has no hop. *)
Admissible == {i \in DOMAIN admissions : HopsOf(InstOf[admissions[i]]) = {}}
NextAdmission == CHOOSE i \in Admissible : \A j \in Admissible : i <= j
Admits ==
  /\ Invokes(admissions[NextAdmission])
  /\ admissions' = RemoveAt(admissions, NextAdmission)
  /\ UNCHANGED <<doomed, pendingResumptions, settled, syncParks, thrown, quantum, probes>>

TopAdmits ==
  /\ At("top") /\ hostFailure = Nobody /\ Admissible # {}
  /\ Admits /\ AgainAtTop

AtSyncPark == At("top") /\ hostFailure = Nobody /\ Admissible = {} /\ syncParks # <<>>
Point == Head(syncParks)
SyncInst == InstOf[Point]
SyncTails == {i \in DOMAIN settled : InstOf[settled[i]] = SyncInst}
SyncBlockers == HopsOf(SyncInst) \cup (pendingResumptions \cap {Point})

(* A synchronous callee's park whose call has been answered is background.  *)
SyncForgets ==
  /\ AtSyncPark /\ call[Point] \notin Unanswered
  /\ syncParks' = Tail(syncParks)
  /\ AgainAtTop
  /\ UNCHANGED <<threadVars, pendingResumptions, settled, poisoned, hostFailure,
                 callVars, quantum, probes>>

SyncServed == AtSyncPark /\ call[Point] \in Unanswered

(* serviceRequiredSyncStep: only the work of the callee's own instance      *)
(* counts: its queued tails, its ready threads when it has no hop.          *)
SyncDispatches ==
  /\ SyncServed /\ SyncTails # {}
  /\ \E i \in SyncTails : /\ \A j \in SyncTails : i <= j
                          /\ Dispatch(i)
  /\ AgainAtTop /\ syncHopProbe' = NoProbe
  /\ UNCHANGED <<pendingResumptions, syncParks, admissions, driving, thrown, quantum,
                 hopProbe, idleProbeArmed, idleTimers>>

SyncResumes ==
  /\ SyncServed /\ SyncTails = {}
  /\ SyncBlockers = {} \/ ready[Point] = "cancel"
  /\ \E u \in CandidatesOf(SyncInst) : Resume(u, call)
  /\ AgainAtTop /\ syncHopProbe' = NoProbe
  /\ UNCHANGED <<doomed, settled, admissions, driving, thrown, quantum, hopProbe,
                 idleProbeArmed, idleTimers>>

SyncStuck ==
  /\ SyncServed /\ SyncTails = {}
  /\ (SyncBlockers = {} \/ ready[Point] = "cancel") => CandidatesOf(SyncInst) = {}

(* A hop of the instance gets one platform turn.                            *)
SyncWaits ==
  /\ SyncStuck /\ SyncBlockers # {}
  /\ syncHopProbe # [hops |-> SyncBlockers, elapsed |-> TRUE]
  /\ syncHopProbe' = IF syncHopProbe.hops = SyncBlockers THEN syncHopProbe
                     ELSE [hops |-> SyncBlockers, elapsed |-> FALSE]
  /\ Returns(FALSE)
  /\ UNCHANGED <<threadVars, storeVars, hostFailure, callVars, quantum, hopProbe,
                 idleProbeArmed, idleTimers>>

(* The park is abandoned: its frame traps when the engine runs it.          *)
SyncTraps_AtOnce ==
  /\ SyncStuck
  /\ syncParks' = Tail(syncParks)
  /\ place' = [place EXCEPT ![Point] = "hop"]
  /\ doomed' = doomed \cup {Point}
  /\ AgainAtTop /\ syncHopProbe' = NoProbe
  /\ UNCHANGED <<ready, outstanding, pendingResumptions, settled, poisoned, hostFailure,
                 callVars, quantum, hopProbe, idleProbeArmed, idleTimers>>
SyncTraps ==
  /\ SyncStuck
  /\ SyncBlockers = {} \/ syncHopProbe = [hops |-> SyncBlockers, elapsed |-> TRUE]
  /\ syncParks' = Tail(syncParks)
  /\ place' = [place EXCEPT ![Point] = "hop"]
  /\ doomed' = doomed \cup {Point}
  /\ AgainAtTop /\ syncHopProbe' = NoProbe
  /\ UNCHANGED <<ready, outstanding, pendingResumptions, settled, poisoned, hostFailure,
                 callVars, quantum, hopProbe, idleProbeArmed, idleTimers>>

AtHops == /\ At("top") /\ hostFailure = Nobody /\ Admissible = {} /\ syncParks = <<>>
          /\ UnsettledHops # {}

(* An unsettled hop bars ordinary service.  With no host promise            *)
(* outstanding it too gets one platform turn.                               *)
HopsWait ==
  /\ AtHops
  /\ HostOutstanding \/ hopProbe # [hops |-> UnsettledHops, elapsed |-> TRUE]
  /\ hopProbe' = IF HostOutstanding THEN NoProbe
                 ELSE IF hopProbe.hops = UnsettledHops THEN hopProbe
                 ELSE [hops |-> UnsettledHops, elapsed |-> FALSE]
  /\ syncHopProbe' = NoProbe
  /\ Returns(FALSE)
  /\ UNCHANGED <<threadVars, storeVars, hostFailure, callVars, quantum,
                 idleProbeArmed, idleTimers>>

(* settleUnprogressableHop and settleWaiters: async waiters are told        *)
(* "idle", those in dead trap with a deadlock verdict.                      *)
Verdicts(dead) ==
  LET fails == UnansweredIn({InstOf[t] : t \in dead}, call) IN
  /\ poisoned' = poisoned \cup {InstOf[t] : t \in dead}
  /\ call' = [t \in Threads |->
       IF t \in dead THEN "deadlock"
       ELSE IF t \in fails THEN "failed"
       ELSE IF call[t] = "open" /\ t \notin SyncTyped THEN "idle"
       ELSE call[t]]
  /\ place' = Abandoned(fails)

HopsGiveUp ==
  /\ AtHops /\ ~HostOutstanding
  /\ hopProbe = [hops |-> UnsettledHops, elapsed |-> TRUE]
  /\ hopProbe' = NoProbe /\ syncHopProbe' = NoProbe
  /\ Verdicts(Waiters \cap SyncTyped)
  /\ Returns(FALSE)
  /\ UNCHANGED <<ready, outstanding, doomed, pendingResumptions, settled, syncParks,
                 hostFailure, heard, admissions, driving, thrown, quantum, idleProbeArmed,
                 idleTimers>>

TopWorks ==
  /\ At("top") /\ hostFailure = Nobody /\ Admissible = {} /\ syncParks = <<>>
  /\ UnsettledHops = {}
  /\ pc' = "work" /\ requested' = FALSE
  /\ hopProbe' = NoProbe /\ syncHopProbe' = NoProbe
  /\ UNCHANGED <<threadVars, storeVars, hostFailure, callVars, scheduled, quantum,
                 idleProbeArmed, idleTimers>>

(* serviceOrdinaryStep: a queued settlement first, a ready thread otherwise.*)
WorkDispatches ==
  /\ At("work") /\ OrdinaryAllowed /\ settled # <<>>
  /\ Dispatch(1)
  /\ pc' = IF poisoned' # poisoned THEN "top" ELSE "charge"
  /\ requested' = (requested \/ place'[settled[1]] = "parked")
  /\ UNCHANGED <<pendingResumptions, syncParks, admissions, driving, thrown, scheduled,
                 quantum, probes>>

WorkTicks ==
  /\ At("work") /\ OrdinaryAllowed /\ settled = <<>>
  /\ \E u \in Candidates : Resume(u, call)
  /\ pc' = IF poisoned' # poisoned THEN "top" ELSE "charge"
  /\ UNCHANGED <<doomed, settled, admissions, driving, thrown, scheduled, requested,
                 quantum, probes>>

WorkEnds ==
  /\ At("work") /\ ~HasRunnable
  /\ pc' = "settle"
  /\ UNCHANGED <<threadVars, storeVars, hostFailure, callVars, scheduled, requested,
                 quantum, probes>>

(* After a step: synchronous obligations and admissions come first; then    *)
(* the step is charged; queued engine work runs before the next one.        *)
StepDone ==
  /\ At("charge")
  /\ IF syncParks # <<>>
     THEN /\ pc' = "settle"
          /\ UNCHANGED <<threadVars, storeVars, hostFailure, callVars, quantum>>
     ELSE IF Admissible # {}
     THEN Admits /\ pc' = "settle"
     ELSE /\ Charge(Drain)
          /\ pc' = IF Exhausted THEN "handoff"
                   ELSE AfterStep
          /\ UNCHANGED <<threadVars, storeVars, hostFailure, callVars>>
  /\ UNCHANGED <<scheduled, requested, probes>>

DrainContinues ==
  /\ Free /\ pc = "micro"
  /\ pc' = "work"
  /\ UNCHANGED <<threadVars, storeVars, hostFailure, callVars, scheduled, requested,
                 quantum, probes>>

(* settleWaiters: a sync-typed waiter first gets one platform turn.         *)
Dead == Waiters \cap SyncTyped \cap idleProbeArmed
Settle_NoProbe ==
  /\ At("settle")
  /\ IF Idle
     THEN /\ Verdicts(Dead)
          /\ UNCHANGED <<idleProbeArmed, idleTimers>>
     ELSE UNCHANGED <<place, poisoned, call, idleProbeArmed, idleTimers>>
  /\ IF HasRunnable THEN AgainAtTop ELSE Returns(requested)
  /\ UNCHANGED <<ready, outstanding, doomed, pendingResumptions, settled, syncParks,
                 hostFailure, heard, admissions, driving, thrown, quantum, hopProbe,
                 syncHopProbe>>
Settle ==
  /\ At("settle")
  /\ IF Idle
     THEN /\ Verdicts(Dead)
          /\ idleProbeArmed' = idleProbeArmed \cup (Waiters \cap SyncTyped)
          /\ idleTimers' = idleTimers \cup ((Waiters \cap SyncTyped) \ idleProbeArmed)
     ELSE UNCHANGED <<place, poisoned, call, idleProbeArmed, idleTimers>>
  /\ IF HasRunnable THEN AgainAtTop ELSE Returns(requested)
  /\ UNCHANGED <<ready, outstanding, doomed, pendingResumptions, settled, syncParks,
                 hostFailure, heard, admissions, driving, thrown, quantum, hopProbe,
                 syncHopProbe>>

-----------------------------------------------------------------------------
DrainStep ==
  \/ TopFailure \/ TopAdmits \/ SyncForgets \/ SyncDispatches \/ SyncResumes
  \/ SyncWaits \/ SyncTraps \/ HopsWait \/ HopsGiveUp \/ TopWorks
  \/ WorkDispatches \/ WorkTicks \/ WorkEnds \/ StepDone \/ Settle

DriveStep(t) == DriveDone(t) \/ DriveFails(t) \/ DriveSteps(t) \/ DriveWaits(t)

EngineStep(t) ==
  \/ EngineRuns(t) \/ (place[t] = "hop" /\ Settles(t))
  \/ \E sync \in BOOLEAN : BoundaryReturned(t, sync)

Timer == \/ \E x \in Threads \cup {Drain} : HandoffFires(x)
         \/ HopProbeFires \/ SyncHopProbeFires
         \/ \E t \in Threads : IdleTimerFires(t)

Outside(t) ==
  \/ HostCalls(t)
  \/ \E failed \in BOOLEAN : HostSettles(t, failed)
  \/ (place[t] = "stalled" /\ Settles(t))

Next == \/ DropFails
        \/ DrainStarts \/ DrainContinues \/ DrainStep \/ Timer
        \/ \E t \in Threads : DriveStep(t) \/ EngineStep(t) \/ RecordsAgain(t)
                              \/ Outside(t)

Spec == Init /\ [][Next]_vars

-----------------------------------------------------------------------------

(* An event loop runs the code on the stack and every queued microtask, and *)
(* fires a due timer that it gets to again and again.  Host promises, the   *)
(* embedder and promises of the guest's own need never act.                 *)
JavaScript ==
  \/ DrainStarts \/ DrainContinues \/ DrainStep
  \/ \E t \in Threads : DriveStep(t) \/ EngineStep(t) \/ RecordsAgain(t)

FairSpec == Spec /\ WF_vars(JavaScript) /\ SF_vars(Timer)

-----------------------------------------------------------------------------
(* Properties.                                                              *)

Asleep == pc = "off" /\ driving = Nobody
Startable == {i \in Admissible : InstOf[admissions[i]] \notin poisoned}
Serviceable == hostFailure = Nobody /\ (Startable # {} \/ (syncParks = <<>> /\ HasRunnable))

(* No wakeup is lost: while the coordinator is not running and there is     *)
(* work for it (a deferred call that may start, a queued settlement or a    *)
(* ready thread that nothing bars), a drain is queued or a handoff timer    *)
(* will queue one.  Every transition that records a result has to request   *)
(* service after recording it (requestStoreService, Store.requestService).  *)
(* Left out are deferred calls of a poisoned instance.                      *)
NoLostWakeup == Asleep /\ Serviceable => scheduled \/ yielding

(* A call is answered once: a result, a failure or a deadlock verdict is    *)
(* final, whatever the drain, a driver, a trap of a sibling and the late    *)
(* settlement of the call's activation do (publishIfEligible, failCall,     *)
(* removeDrainWaiter).                                                      *)
AnsweredOnce ==
  [][\A t \in Threads : call[t] \in {"result", "failed", "deadlock"} => call'[t] = call[t]]_vars

(* Host failures are told to calls one for one.  The store keeps the latest *)
(* in one slot that belongs to no call.  It leaves the slot by failing one  *)
(* call, which is told this failure (rejectOneWaiter, takeHostFailure), by  *)
(* going to one driver, which gives it back (invokeNow's rejection          *)
(* handler), or pushed out by the later failure of a host call that settles *)
(* in that step (boundary.ts:2181: the one way a failure is told to nobody).*)
(* No other call is told anything and, while a failure waits, no call gets  *)
(* a result.  Whose call is told is not promised.                           *)
ToldTo(t) == /\ call[t] # "failed" /\ call'[t] = "failed"
             /\ heard' = [heard EXCEPT ![t] = hostFailure]
             /\ \A u \in Threads \ {t} : call'[u] = call[u]
             /\ hostFailure' = Nobody
TakenBy(t) == thrown' = [thrown EXCEPT ![t] = hostFailure] /\ hostFailure' = Nobody
FailureGoes ==
  /\ hostFailure \notin {Nobody, hostFailure'} =>
       \/ \E t \in Threads : ToldTo(t) \/ TakenBy(t)
       \/ hostFailure' \in outstanding \ outstanding'
  /\ heard' # heard => hostFailure # Nobody /\ \E t \in Threads : ToldTo(t)
  /\ \A t \in Threads :
       /\ call'[t] = "result" /\ call[t] # "result" => hostFailure = Nobody
       /\ thrown[t] \notin {Nobody, thrown'[t]} =>
            hostFailure' = (IF hostFailure = Nobody THEN thrown[t] ELSE hostFailure)
FailureGoesToOneCall == [][FailureGoes]_vars

(* Every call gets one answer, and a host failure is the answer of one call. *)
OwnAnswer == AnsweredOnce /\ FailureGoesToOneCall

Moving(t) == place[t] \in {"claimed", "hop", "minted"}
Movable(t) == place[t] = "tail" \/ t \in Candidates

(* A deadlock verdict is sound: no host promise is outstanding, no frame is *)
(* on its way to a park or a settlement and, unless a frame awaits a        *)
(* promise the store does not know, no settlement is queued and no thread   *)
(* is ready (settleWaiters, settleUnprogressableHop, hopProbe).  So it is   *)
(* where no synchronous callee blocks: the service of one leaves an elapsed *)
(* hopProbe behind (MayBlockSync = {}).                                     *)
VerdictSound ==
  [][\A t \in Threads : call'[t] = "deadlock" /\ call[t] # "deadlock" =>
       /\ outstanding = {}
       /\ \A u \in Threads : ~Moving(u)
       /\ (\A u \in Threads : place[u] # "stalled") => \A u \in Threads : ~Movable(u)]_vars

(* The trap of a blocked synchronous callee is sound: it is made when no    *)
(* frame of the callee's instance is on its way to a park or a settlement   *)
(* and none of its threads could be served (serviceRequiredSyncStep,        *)
(* syncHopProbe).                                                           *)
SyncTrapSound ==
  [][\A t \in doomed' \ doomed :
       LET mine == {u \in Threads : InstOf[u] = InstOf[t]} IN
         /\ \A u \in mine : ~Moving(u) /\ place[u] # "tail"
         /\ (\A u \in mine : place[u] # "stalled") => \A u \in mine : ~Movable(u)]_vars

(* Nothing the store knows of can ever make a thread progress.              *)
Stuck == /\ outstanding = {} /\ hostFailure = Nobody
         /\ \A u \in Threads : ~Moving(u) /\ ~Movable(u)

(* A sync-typed call that has a driver or waits does not remain unanswered  *)
(* in a store that is stuck: it gets its deadlock verdict (settleWaiters,   *)
(* the idle policy "trap").  Nothing is promised to it while a frame awaits *)
(* a promise the store does not know: a hop that arises inside the inner    *)
(* loop gets no probe (boundary.ts:883); nor once its driver is lost        *)
(* (boundary.ts:1455).                                                      *)
DeadlockReported ==
  \A t \in SyncTyped : []<>~(/\ call[t] \in Unanswered \ {"lost"}
                            /\ Stuck /\ \A u \in Threads : place[u] # "stalled")

(* Guest work does not starve the platform: again and again the stack and   *)
(* the microtask queue are empty, so that timers and I/O get a turn, even   *)
(* if threads keep yielding (chargeWorkQuantum, handoffWorkQuantum).  So it *)
(* is where no synchronous callee blocks: steps made for one are not        *)
(* charged to the quantum (boundary.ts:831; MayBlockSync = {}).             *)
PlatformTurns == []<>Quiet

(* A deferred call starts, however the threads of its instance keep it      *)
(* busy (serviceAdmissionStep), unless it is in vain: the instance dies, a  *)
(* frame of it awaits a promise the store does not know, or a host failure  *)
(* that nobody takes ends every drain before it comes to the deferred calls *)
(* (boundary.ts:821).                                                       *)
InVain(t) == \/ InstOf[t] \in poisoned \/ hostFailure # Nobody
             \/ \E u \in Threads : InstOf[u] = InstOf[t] /\ place[u] = "stalled"
DeferredStarts ==
  \A t \in Threads : call[t] = "deferred" ~> call[t] # "deferred" \/ InVain(t)

(* Nobody starves: neither the platform's timers and I/O nor a deferred     *)
(* call, however busy the store's threads keep the drain.                   *)
NobodyStarves == PlatformTurns /\ DeferredStarts
=============================================================================
