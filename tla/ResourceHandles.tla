--------------------------- MODULE ResourceHandles ---------------------------
(***************************************************************************)
(* The handles of one guest-implemented resource type, wherever they are:  *)
(* own and borrow handles in the tables of component instances             *)
(* (runtime/src/cabi/handles.ts), the wrapper objects of the host          *)
(* (runtime/src/embedder/resources.ts), and the calls that move or lend    *)
(* them: exports called by the host, FACT calls between instances          *)
(* (runtime/src/intrinsics/mod.ts, fact_calls.ts), and imports of the host.*)
(*                                                                         *)
(* Kinds of call:                                                          *)
(*   "export"  the host calls an instance                                  *)
(*   "sync"    an adapter's enter-sync-call ... exit-sync-call bracket     *)
(*   "async"   an adapter's prepare and async-start-call                   *)
(*   "import"  an instance calls the host                                  *)
(* A call is used once. A rep is a number the implementing instance chose  *)
(* and uses for one resource. An index of a table is any empty one: the    *)
(* order of the free list is left out.                                     *)
(***************************************************************************)
EXTENDS Naturals, FiniteSets

CONSTANTS
  Inst,        \* the component instances
  Impl,        \* the instance that implements the resource
  Index,       \* the indices of a handle table
  MaxReps,     \* bound: the resources created
  MaxCalls,    \* bound: the calls made
  MaxWrappers, \* bound: the wrapper objects the host is given
  HostLeaves   \* an import may settle while a borrow it was given is lent on

ASSUME ImplAssumption == Impl \in Inst
ASSUME FiniteAssumption == IsFiniteSet(Inst) /\ IsFiniteSet(Index)
ASSUME BoundsAssumption == MaxReps \in Nat /\ MaxCalls \in Nat /\ MaxWrappers \in Nat
ASSUME HostLeavesAssumption == HostLeaves \in BOOLEAN

Reps == 1..MaxReps
Calls == 1..MaxCalls
Wrappers == 1..MaxWrappers
Host == "host"

VARIABLES
  slot,      \* Table: entry and tenure at each index of each instance's table
  call,      \* the calls: their borrow scopes, lenders and arguments in custody
  wrapper,   \* WrapperState of each wrapper
  born,      \* reps created so far
  dtors,     \* how many times the destructor of a rep was entered
  poisoned   \* poisonedInstances

vars == <<slot, call, wrapper, born, dtors, poisoned>>

-----------------------------------------------------------------------------
(* Data *)

(* ResourceHandle. The scope of an own handle is 0. *)
None == [rep |-> 0, own |-> FALSE, lends |-> 0, scope |-> 0]
Own(r) == [rep |-> r, own |-> TRUE, lends |-> 0, scope |-> 0]
Borrow(r, c) == [rep |-> r, own |-> FALSE, lends |-> 0, scope |-> c]

(* A handle object: what is in a slot for one tenure. *)
Handle(i, x) == [inst |-> i, index |-> x, tenure |-> slot[i][x].tenure]

Idle == [phase |-> "free", kind |-> "none", stack |-> {}, caller |-> Host,
         callee |-> Host, lenders |-> {}, borrows |-> 0, lent |-> {},
         args |-> {}, result |-> 0, views |-> {}]
Unmade == [rep |-> 0, valid |-> FALSE, owns |-> FALSE, lends |-> 0, pending |-> FALSE]

(* makeWrapper *)
Wrapper(r, owns) == [rep |-> r, valid |-> TRUE, owns |-> owns, lends |-> 0, pending |-> FALSE]

Init ==
  /\ slot = [i \in Inst |-> [x \in Index |-> [tenure |-> 0, entry |-> None]]]
  /\ call = [c \in Calls |-> Idle]
  /\ wrapper = [w \in Wrappers |-> Unmade]
  /\ born = 0
  /\ dtors = [r \in Reps |-> 0]
  /\ poisoned = {}

-----------------------------------------------------------------------------
(* Helpers: each is a table, a set of calls or a set of reps after a part of *)
(* a step.                                                                   *)

Empty(i) == {x \in Index : slot[i][x].entry = None}
Entry(i, x) == slot[i][x].entry

(* Table.add and Table.remove *)
Added(sl, i, x, e) == [sl EXCEPT ![i][x] = [tenure |-> @.tenure + 1, entry |-> e]]
Removed(sl, i, x) == [sl EXCEPT ![i][x].entry = None]

(* addLender, releaseLenders of the calls in D: a handle that has left its  *)
(* slot is not found there any more.                                        *)
LentOut(sl, i, x) == [sl EXCEPT ![i][x].entry.lends = @ + 1]
Released(sl, D) ==
  [i \in Inst |-> [x \in Index |->
    [sl[i][x] EXCEPT !.entry.lends =
       IF sl[i][x].entry = None THEN 0
       ELSE @ - Cardinality({d \in D : Handle(i, x) \in call[d].lenders})]]]

(* A handle that may be lifted as an own. *)
Liftable(i, x) == /\ Entry(i, x).own
                  /\ Entry(i, x).lends = 0

(* The activation of a call runs unless a call it made blocks it. *)
Running(c) == /\ call[c].phase = "open"
              /\ call[c].kind # "import"
              /\ \A d \in Calls \ {c} : call[d].phase = "open" => c \notin call[d].stack

Fresh(d) == /\ call[d].phase = "free"
            /\ \A e \in 1..(d - 1) : call[e].phase # "free"
FreshWrapper(w) == /\ wrapper[w] = Unmade
                   /\ \A v \in 1..(w - 1) : wrapper[v] # Unmade

(* entryRefusal *)
Refuses(i, from) == i \in poisoned /\ i # from

(* Destructors entered for the reps in R. *)
Destroyed(R) == [r \in Reps |-> IF r \in R THEN dtors[r] + 1 ELSE dtors[r]]

-----------------------------------------------------------------------------
(* A trap in call c unwinds the frames below it. The instances that entered *)
(* through a lifted function are poisoned (notifyInstancePoisoned); the     *)
(* callee of a sync bracket is not. The calls of the host in a poisoned     *)
(* instance fail (activeCalls), what they had in custody is destroyed, and  *)
(* nothing of a poisoned instance runs again.                               *)

Entered(c) == {call[d].callee : d \in {e \in call[c].stack : call[e].kind # "sync"}}

(* Frames whose lenders the unwind releases: brackets (abortLogicalChildren), *)
(* and an async callee that traps while its caller's frame still waits.     *)
Unwound(c) == {d \in call[c].stack : call[d].kind = "sync" \/
                 (call[d].kind = "async" /\ call[d].stack # {d})}

FailedBy(bad) == {d \in Calls : /\ call[d].kind = "export"
                                /\ call[d].phase \in {"waiting", "open"}
                                /\ call[d].callee \in bad}

(* Calls that never go on: those of the stack, and those whose activation   *)
(* stands on an instance that is poisoned.                                  *)
LostBy(c, bad) ==
  call[c].stack \cup
  {d \in Calls : /\ call[d].phase = "open"
                 /\ \E e \in call[d].stack : call[e].kind \in {"export", "async"} /\
                                             call[e].callee \in bad}

Unwind(c, sl, bad, R) ==
  LET failed == FailedBy(bad)
      inCustody == UNION {call[d].args : d \in failed}
  IN  /\ poisoned' = poisoned \cup bad
      /\ slot' = Released(sl, Unwound(c))
      /\ call' = [d \in Calls |->
           IF d \in failed THEN [call[d] EXCEPT !.phase = "failed", !.args = {}]
           ELSE IF d \in LostBy(c, bad)
                THEN [call[d] EXCEPT !.phase = "lost",
                        !.lenders = IF d \in Unwound(c) THEN {} ELSE @]
           ELSE call[d]]
      /\ dtors' = Destroyed(R \cup IF Impl \in poisoned' THEN {} ELSE inCustody)
      /\ UNCHANGED <<wrapper, born>>

(* The guest traps: unreachable, or a built-in on an index with no handle.  *)
Traps(c) == Running(c) /\ Unwind(c, slot, Entered(c), {})

-----------------------------------------------------------------------------
(* resource.new and resource.drop *)

ResourceNew(c, x) ==
  /\ Running(c)
  /\ call[c].callee = Impl
  /\ x \in Empty(Impl)
  /\ born < MaxReps
  /\ born' = born + 1
  /\ slot' = Added(slot, Impl, x, Own(born + 1))
  /\ UNCHANGED <<call, wrapper, dtors, poisoned>>

(* Mutant: the lends are not checked. *)
Droppable_Lent(i, x) == Entry(i, x) # None

Droppable(i, x) == Entry(i, x).lends = 0

ResourceDrop(c, x) ==
  LET i == call[c].callee
      h == Entry(i, x)
  IN  /\ Running(c)
      /\ h # None
      /\ Droppable(i, x)
      /\ h.own => ~Refuses(Impl, i)
      /\ slot' = Removed(slot, i, x)
      /\ dtors' = Destroyed(IF h.own THEN {h.rep} ELSE {})
      /\ call' = IF h.own THEN call ELSE [call EXCEPT ![h.scope].borrows = @ - 1]
      /\ UNCHANGED <<wrapper, born, poisoned>>

(* The handle is removed before the check that fails; a destructor that     *)
(* traps poisons the instance it ran in.                                    *)
ResourceDropTraps(c, x) ==
  LET i == call[c].callee
      h == Entry(i, x)
  IN  /\ Running(c)
      /\ h # None
      /\ \/ /\ ~Droppable(i, x) \/ (h.own /\ Refuses(Impl, i))
            /\ Unwind(c, Removed(slot, i, x), Entered(c), {})
         \/ /\ Droppable(i, x) /\ h.own /\ ~Refuses(Impl, i)
            /\ Unwind(c, Removed(slot, i, x), Entered(c) \cup {Impl}, {h.rep})

-----------------------------------------------------------------------------
(* Calls of the host. Its arguments, wrappers passed as own and as borrow,  *)
(* are transferred before the task is admitted (PreparedValues.transfer).   *)

Transferable(w) == /\ wrapper[w].valid
                   /\ wrapper[w].owns
                   /\ wrapper[w].lends = 0

HostCalls(d, i, owns, lent) ==
  /\ Fresh(d)
  /\ i \notin poisoned
  /\ owns \cap lent = {}
  /\ \A w \in owns : Transferable(w)
  /\ \A w \in lent : wrapper[w].valid
  /\ call' = [call EXCEPT ![d] =
       [Idle EXCEPT !.phase = "waiting", !.kind = "export", !.stack = {d}, !.callee = i,
                    !.args = {wrapper[w].rep : w \in owns}, !.lent = lent]]
  /\ wrapper' = [w \in Wrappers |->
       IF w \in owns THEN [wrapper[w] EXCEPT !.valid = FALSE]
       ELSE IF w \in lent THEN [wrapper[w] EXCEPT !.lends = @ + 1]
       ELSE wrapper[w]]
  /\ UNCHANGED <<slot, born, dtors, poisoned>>

(* An argument after the first cannot be transferred: the call is refused,  *)
(* and what was acquired is destroyed, not given back.                      *)
HostCallRefused(w, v) ==
  /\ Transferable(w)
  /\ v = w \/ (wrapper[v] # Unmade /\ ~Transferable(v))
  /\ wrapper' = [wrapper EXCEPT ![w].valid = FALSE]
  /\ dtors' = Destroyed(IF Impl \in poisoned THEN {} ELSE {wrapper[w].rep})
  /\ UNCHANGED <<slot, call, born, poisoned>>

(* The task is admitted and its arguments are lowered; the implementing     *)
(* instance gets the rep of a borrow. The guest has custody from here on.   *)
Lowered(d, at) ==
  LET i == call[d].callee
      lentReps == IF i = Impl THEN {} ELSE {wrapper[w].rep : w \in call[d].lent}
      e(r) == IF r \in call[d].args THEN Own(r) ELSE Borrow(r, d)
  IN  /\ DOMAIN at = call[d].args \cup lentReps
      /\ \A r \in DOMAIN at : at[r] \in Empty(i)
      /\ \A r, s \in DOMAIN at : at[r] = at[s] => r = s
      /\ slot' = [slot EXCEPT ![i] = [x \in Index |->
           IF \E r \in DOMAIN at : at[r] = x
           THEN [tenure |-> @[x].tenure + 1, entry |-> e(CHOOSE r \in DOMAIN at : at[r] = x)]
           ELSE @[x]]]
      /\ call' = [call EXCEPT ![d].phase = "open", ![d].args = {},
                              ![d].borrows = Cardinality(lentReps)]

Enters(d) ==
  /\ call[d].phase = "waiting"
  /\ \E R \in SUBSET Reps : \E at \in [R -> Index] : Lowered(d, at)
  /\ UNCHANGED <<wrapper, born, dtors, poisoned>>

(* realloc traps before, between or after the insertions: an own that was   *)
(* inserted is removed again.                                               *)
EntersTraps(d) ==
  /\ call[d].phase = "waiting"
  /\ Unwind(d, slot, Entered(d), {})

-----------------------------------------------------------------------------
(* Ends of calls. A result is an own handle of the callee, or nothing (0):  *)
(* it is lifted out of the table first, then the borrows are checked.       *)

Results(i) == {0} \cup {x \in Index : Entry(i, x) # None}
Lifted(i, x) == IF x = 0 THEN slot ELSE Removed(slot, i, x)
RepAt(i, x) == IF x = 0 THEN 0 ELSE Entry(i, x).rep
BadResult(i, x) == x # 0 /\ ~Liftable(i, x)

(* Task.return_ *)
MayReturn(d) == call[d].borrows = 0

ReturnTraps(d, x) ==
  /\ Running(d)
  /\ x \in Results(call[d].callee)
  /\ BadResult(call[d].callee, x) \/ ~MayReturn(d)
  /\ Unwind(d, Lifted(call[d].callee, x), Entered(d), {})

ExportReturns(d, x) ==
  LET i == call[d].callee
  IN  /\ Running(d)
      /\ call[d].kind = "export"
      /\ x \in Results(i) /\ ~BadResult(i, x)
      /\ MayReturn(d)
      /\ slot' = Lifted(i, x)
      /\ call' = [call EXCEPT ![d].phase = "resolved", ![d].result = RepAt(i, x)]
      /\ UNCHANGED <<wrapper, born, dtors, poisoned>>

(* The wrapper of the export settles (#wrapExportFn): the lends are         *)
(* released, and a drop that waited for the last of them runs; a result     *)
(* becomes a wrapper.                                                       *)
LendsAfter(w, d) == wrapper[w].lends - 1
RunsDeferred(w, d) == LendsAfter(w, d) = 0 /\ wrapper[w].pending

HostTail(d) ==
  LET lent == call[d].lent
      deferred == {w \in lent : RunsDeferred(w, d)}
      r == call[d].result
      back == [w \in Wrappers |->
                IF w \in lent
                THEN [wrapper[w] EXCEPT !.lends = LendsAfter(w, d),
                                        !.pending = @ /\ w \notin deferred]
                ELSE wrapper[w]]
  IN  /\ call[d].phase \in {"resolved", "failed"}
      /\ call[d].kind = "export"
      /\ \/ r = 0 /\ wrapper' = back
         \/ r # 0 /\ \E w \in Wrappers : /\ FreshWrapper(w)
                                         /\ wrapper' = [back EXCEPT ![w] = Wrapper(r, TRUE)]
      /\ call' = [call EXCEPT ![d].phase = IF @ = "failed" THEN "lost" ELSE "done",
                              ![d].lent = {}, ![d].result = 0]
      /\ dtors' = Destroyed(IF Impl \in poisoned THEN {} ELSE {wrapper[w].rep : w \in deferred})
      /\ UNCHANGED <<slot, born, poisoned>>

-----------------------------------------------------------------------------
(* Calls between instances. One argument is passed: none, an own handle or  *)
(* a borrow of the caller's handle at index x (transferOwn, transferBorrow).*)

Forms == {"none", "own", "borrow"}

Passable(i, form, x) ==
  \/ form = "none"
  \/ form = "own" /\ Liftable(i, x)
  \/ form = "borrow" /\ Entry(i, x) # None

(* The tables after the argument has gone from x of i to y of j for call d. *)
Passed(i, j, form, x, y, d) ==
  LET r == Entry(i, x).rep
  IN  CASE form = "none" -> slot
        [] form = "own" -> Added(Removed(slot, i, x), j, y, Own(r))
        [] form = "borrow" /\ j = Impl -> LentOut(slot, i, x)
        [] form = "borrow" /\ j # Impl -> Added(LentOut(slot, i, x), j, y, Borrow(r, d))

GuestCalls(c, d, kind, j, form, x, y) ==
  LET i == call[c].callee
  IN  /\ Running(c)
      /\ Fresh(d)
      /\ j # i
      /\ ~Refuses(j, i)
      /\ Passable(i, form, x)
      /\ y \in Empty(j)
      /\ slot' = Passed(i, j, form, x, y, d)
      /\ call' = [call EXCEPT ![d] =
           [Idle EXCEPT !.phase = "open", !.kind = kind, !.stack = call[c].stack \cup {d},
                        !.caller = i, !.callee = j,
                        !.lenders = IF form = "borrow" THEN {Handle(i, x)} ELSE {},
                        !.borrows = IF form = "borrow" /\ j # Impl THEN 1 ELSE 0]]
      /\ UNCHANGED <<wrapper, born, dtors, poisoned>>

(* A poisoned callee, or an argument that cannot be passed; an own is       *)
(* removed before it is checked.                                            *)
GuestCallTraps(c, j, form, x) ==
  LET i == call[c].callee
  IN  /\ Running(c)
      /\ j # i
      /\ Refuses(j, i) \/ ~Passable(i, form, x)
      /\ Unwind(c, IF ~Refuses(j, i) /\ form = "own" THEN Removed(slot, i, x) ELSE slot,
                Entered(c), {})

(* exit-sync-call, then the result is transferred to the caller's table.    *)
SyncReturns(d, x, y) ==
  LET i == call[d].caller
      j == call[d].callee
      sl == Released(Lifted(j, x), {d})
  IN  /\ Running(d)
      /\ call[d].kind = "sync"
      /\ x \in Results(j) /\ ~BadResult(j, x)
      /\ MayReturn(d)
      /\ \/ x = 0 /\ slot' = sl
         \/ x # 0 /\ y \in Empty(i) /\ slot' = Added(sl, i, y, Own(RepAt(j, x)))
      /\ call' = [call EXCEPT ![d].phase = "done", ![d].lenders = {}]
      /\ UNCHANGED <<wrapper, born, dtors, poisoned>>

(* The callee of an async call parks: the caller goes on.                   *)
AsyncParks(d) ==
  /\ Running(d)
  /\ call[d].kind = "async"
  /\ call[d].stack # {d}
  /\ call' = [call EXCEPT ![d].stack = {d}]
  /\ UNCHANGED <<slot, wrapper, born, dtors, poisoned>>

(* task.return of an async callee: its results go to the caller's table. In *)
(* the first activation the resolution is delivered with the return of      *)
(* async-start-call, later it is an event of the caller.                    *)
AsyncReturns(d, x, y) ==
  LET i == call[d].caller
      j == call[d].callee
      first == call[d].stack # {d}
      sl == Released(Lifted(j, x), IF first THEN {d} ELSE {})
  IN  /\ Running(d)
      /\ call[d].kind = "async"
      /\ x \in Results(j) /\ ~BadResult(j, x)
      /\ MayReturn(d)
      /\ \/ x = 0 /\ slot' = sl
         \/ x # 0 /\ y \in Empty(i) /\ slot' = Added(sl, i, y, Own(RepAt(j, x)))
      /\ call' = [call EXCEPT ![d].phase = IF first THEN "done" ELSE "resolved",
                              ![d].lenders = IF first THEN {} ELSE @]
      /\ UNCHANGED <<wrapper, born, dtors, poisoned>>

(* Subtask.deliverResolve *)
Deliver(d) ==
  /\ call[d].kind \in {"async", "import"}
  /\ call[d].phase = "resolved"
  /\ call[d].caller \notin poisoned
  /\ slot' = Released(slot, {d})
  /\ call' = [call EXCEPT ![d].phase = "done", ![d].lenders = {}]
  /\ UNCHANGED <<wrapper, born, dtors, poisoned>>

-----------------------------------------------------------------------------
(* Imports. An own becomes a wrapper the host owns; a borrow becomes one    *)
(* that is valid until the import settles, and its handle is lent till the  *)
(* resolution is delivered.                                                 *)

ImportCall(c, d, form, x, w) ==
  LET i == call[c].callee
      r == Entry(i, x).rep
  IN  /\ Running(c)
      /\ Fresh(d)
      /\ form \in {"own", "borrow"} /\ Entry(i, x) # None /\ Passable(i, form, x)
      /\ FreshWrapper(w)
      /\ slot' = IF form = "own" THEN Removed(slot, i, x) ELSE LentOut(slot, i, x)
      /\ wrapper' = [wrapper EXCEPT ![w] = Wrapper(r, form = "own")]
      /\ call' = [call EXCEPT ![d] =
           [Idle EXCEPT !.phase = "open", !.kind = "import", !.stack = {d}, !.caller = i,
                        !.lenders = IF form = "borrow" THEN {Handle(i, x)} ELSE {},
                        !.views = IF form = "borrow" THEN {w} ELSE {}]]
      /\ UNCHANGED <<born, dtors, poisoned>>

(* The import settles: its borrow wrappers are invalidated (BorrowScope),   *)
(* and an own result (w, or 0) is transferred to the caller's table, unless *)
(* the caller is poisoned.                                                  *)
Invalidated(ws, V) == [w \in Wrappers |-> IF w \in V THEN [ws[w] EXCEPT !.valid = FALSE] ELSE ws[w]]

ImportReturns(d, w, y) ==
  LET i == call[d].caller
      dead == i \in poisoned
      taken == IF w = 0 \/ dead THEN {} ELSE {w}
  IN  /\ call[d].kind = "import"
      /\ call[d].phase = "open"
      /\ HostLeaves \/ \A v \in call[d].views : wrapper[v].lends = 0
      /\ w # 0 => Transferable(w)
      /\ wrapper' = Invalidated(wrapper, call[d].views \cup taken)
      /\ \/ taken = {} /\ slot' = slot
         \/ taken # {} /\ y \in Empty(i) /\ slot' = Added(slot, i, y, Own(wrapper[w].rep))
      /\ call' = [call EXCEPT ![d].phase = IF dead THEN "lost" ELSE "resolved",
                              ![d].views = {}]
      /\ UNCHANGED <<born, dtors, poisoned>>

-----------------------------------------------------------------------------
(* The host drops a wrapper, or the collector finds it unreachable          *)
(* (dropWrapper, runBackstop). While it is lent the drop waits. The         *)
(* destructor may trap, which poisons the implementing instance.            *)

(* Mutant: the backstop leaves the wrapper valid. *)
Dropped_StaysValid(w) == [wrapper EXCEPT ![w].pending = wrapper[w].owns /\ wrapper[w].lends > 0]

Dropped(w) == [wrapper EXCEPT ![w].valid = FALSE,
                              ![w].pending = wrapper[w].owns /\ wrapper[w].lends > 0]

HostDrops(w) ==
  LET now == wrapper[w].owns /\ wrapper[w].lends = 0
  IN  /\ wrapper[w].valid
      /\ wrapper' = Dropped(w)
      /\ dtors' = Destroyed(IF now /\ Impl \notin poisoned THEN {wrapper[w].rep} ELSE {})
      /\ UNCHANGED <<slot, call, born, poisoned>>

(* The destructor of a drop of the host traps. *)
HostDropTraps(w) ==
  LET failed == FailedBy({Impl})
  IN  /\ Transferable(w)
      /\ Impl \notin poisoned
      /\ wrapper' = Dropped(w)
      /\ poisoned' = poisoned \cup {Impl}
      /\ dtors' = Destroyed({wrapper[w].rep})
      /\ call' = [d \in Calls |->
           IF d \in failed THEN [call[d] EXCEPT !.phase = "failed", !.args = {}]
           ELSE IF /\ call[d].phase = "open"
                   /\ \E e \in call[d].stack : call[e].kind \in {"export", "async"} /\
                                               call[e].callee = Impl
                THEN [call[d] EXCEPT !.phase = "lost"]
           ELSE call[d]]
      /\ UNCHANGED <<slot, born>>

Next ==
  \/ \E c \in Calls :
       \/ Traps(c)
       \/ EntersTraps(c)
       \/ Enters(c)
       \/ HostTail(c)
       \/ AsyncParks(c)
       \/ Deliver(c)
  \/ \E c \in Calls, x \in Index :
       \/ ResourceNew(c, x)
       \/ ResourceDrop(c, x)
       \/ ResourceDropTraps(c, x)
  \/ \E d \in Calls, x \in {0} \cup Index :
       \/ ReturnTraps(d, x)
       \/ ExportReturns(d, x)
       \/ \E y \in Index : SyncReturns(d, x, y) \/ AsyncReturns(d, x, y)
  \/ \E d \in Calls, i \in Inst, owns, lent \in SUBSET Wrappers :
       HostCalls(d, i, owns, lent)
  \/ \E w, v \in Wrappers : HostCallRefused(w, v)
  \/ \E c, d \in Calls, j \in Inst, form \in Forms, x, y \in Index :
       \E kind \in {"sync", "async"} : GuestCalls(c, d, kind, j, form, x, y)
  \/ \E c \in Calls, j \in Inst, form \in Forms, x \in Index : GuestCallTraps(c, j, form, x)
  \/ \E c, d \in Calls, form \in Forms, x \in Index, w \in Wrappers : ImportCall(c, d, form, x, w)
  \/ \E d \in Calls, w \in {0} \cup Wrappers, y \in Index : ImportReturns(d, w, y)
  \/ \E w \in Wrappers : HostDrops(w) \/ HostDropTraps(w)

Spec == Init /\ [][Next]_vars

-----------------------------------------------------------------------------
(* Properties *)

Phases == {"free", "waiting", "open", "resolved", "failed", "lost", "done"}
HandleType == [rep : 0..MaxReps, own : BOOLEAN, lends : Nat, scope : {0} \cup Calls]

TypeOK ==
  /\ slot \in [Inst -> [Index -> [tenure : Nat, entry : HandleType]]]
  /\ call \in [Calls -> [phase : Phases, kind : {"none", "export", "sync", "async", "import"},
                         stack : SUBSET Calls, caller : Inst \cup {Host},
                         callee : Inst \cup {Host},
                         lenders : SUBSET [inst : Inst, index : Index, tenure : Nat],
                         borrows : Nat, lent : SUBSET Wrappers, args : SUBSET Reps,
                         result : 0..MaxReps, views : SUBSET Wrappers]]
  /\ wrapper \in [Wrappers -> [rep : 0..MaxReps, valid : BOOLEAN, owns : BOOLEAN,
                               lends : Nat, pending : BOOLEAN]]
  /\ born \in 0..MaxReps
  /\ dtors \in [Reps -> Nat]
  /\ poisoned \in SUBSET Inst

Slots == Inst \X Index
At(s) == Entry(s[1], s[2])

Owners(r) ==
  ({"slot"} \X {s \in Slots : At(s).own /\ At(s).rep = r})
  \cup ({"wrapper"} \X {w \in Wrappers : /\ wrapper[w].rep = r
                                         /\ wrapper[w].owns
                                         /\ wrapper[w].valid \/ wrapper[w].pending})
  \cup ({"custody"} \X {c \in Calls : r \in call[c].args})
  \cup ({"result"} \X {c \in Calls : call[c].result = r})

(* A resource has one owner or was destroyed once, and never both: it is    *)
(* not destroyed twice and not lost, wherever it is between a table, the    *)
(* arguments of a call in custody, a result and a wrapper. A trap may lose  *)
(* it, but gives it no second owner.                                        *)
SoleOwner ==
  \A r \in 1..born :
    LET n == Cardinality(Owners(r)) + dtors[r]
    IN  n <= 1 /\ (poisoned = {} => n = 1)

(* While a borrow of it can be used, as a borrow handle, as a lent wrapper   *)
(* or as a wrapper valid for the length of an import, a resource is not     *)
(* destroyed, as long as no instance was poisoned.                          *)
BorrowProtects ==
  poisoned = {} =>
    /\ \A s \in Slots : At(s) # None => dtors[At(s).rep] = 0
    /\ \A c \in Calls : \A w \in call[c].lent \cup call[c].views : dtors[wrapper[w].rep] = 0

(* The counters are the lends: numLends of a handle and lends of a wrapper  *)
(* count the calls it is lent to, numBorrows of a call the borrow handles   *)
(* with its scope; a trap may remove such a handle and keep the count.      *)
LendsExact ==
  /\ \A i \in Inst, x \in Index :
       Entry(i, x) # None =>
         Entry(i, x).lends = Cardinality({c \in Calls : Handle(i, x) \in call[c].lenders})
  /\ \A w \in Wrappers : wrapper[w].lends = Cardinality({c \in Calls : w \in call[c].lent})
  /\ \A c \in Calls :
       LET n == Cardinality({s \in Slots : At(s).scope = c})
       IN  call[c].borrows >= n /\ (poisoned = {} => call[c].borrows = n)

(* No borrow handle outlives the call it was passed to, unless that call    *)
(* failed.                                                                  *)
NoEscape ==
  \A s \in Slots : At(s).scope # 0 => call[At(s).scope].phase \in {"open", "failed", "lost"}

(* A drop that waits, waits for a lend that is still out, and the wrapper   *)
(* is dead to the host meanwhile.                                           *)
PendingLent ==
  \A w \in Wrappers : wrapper[w].pending => ~wrapper[w].valid /\ wrapper[w].lends > 0

(* Borrows are counted and end with their call, what they borrow outlives  *)
(* them, and a drop waits for the last of them.                            *)
BorrowsSound == BorrowProtects /\ LendsExact /\ NoEscape /\ PendingLent

=============================================================================
