----------------------------- MODULE ModuleCache -----------------------------
(***************************************************************************)
(* Compiling the core modules of a component (Executor.compileModules,     *)
(* exec/executor.ts), by several instantiations of one process that share  *)
(* the cache of compiled modules.  The cache has one entry per plan object *)
(* and holds a promise: an instantiation that finds it while the compiling *)
(* is under way waits for the same promise.  An instantiation is given a   *)
(* plan and the adapters' bytes, not always from the same translation, and *)
(* the engine may refuse to compile (out of memory) what it takes later.   *)
(***************************************************************************)
EXTENDS Naturals, Sequences

CONSTANTS Insts,      \* instantiations
          Plans,      \* plan objects: keys of the weak map
          Binaries,      \* buffers handed in as component bytes and adapters
          Damaged,    \* the buffers no engine compiles, a subset of Binaries
          Misfit,     \* buffers of another length than the plan's, or absent
          MaxRefused  \* bound: compilations the engine refuses at random

ASSUME ModulesAssumption ==
    Damaged \subseteq Binaries /\ Misfit \subseteq Binaries /\ MaxRefused \in Nat

None == "none"

VARIABLES given,    \* per instantiation: the plan and bytes it is given
          slot,     \* per plan: the compilation its cache entry names
          jobs,     \* the compilations started, each with its input and state
          doing,    \* per instantiation: start, wait, done, failed
          uses,     \* per instantiation: the compilation it waits for or uses
          denied

moduleVars == <<given, slot, jobs, doing, uses, denied>>

ModuleInit ==
    /\ given \in [Insts -> [plan: Plans, bytes: Binaries]]
    /\ slot = [pl \in Plans |-> 0]
    /\ jobs = <<>>
    /\ doing = [i \in Insts |-> "start"]
    /\ uses = [i \in Insts |-> 0]
    /\ denied = 0

\* The cached entry serves an instantiation of the same plan whose buffers are
\* the very ones that were compiled.
Usable(i) == LET c == slot[given[i].plan]
             IN  c # 0 /\ jobs[c].bytes = given[i].bytes

Await(i, c) == /\ doing' = [doing EXCEPT ![i] = "wait"]
               /\ uses' = [uses EXCEPT ![i] = c]

\* compileModules: the cached promise, or a compilation of its own whose
\* promise takes the plan's slot; bytes that do not fit the plan are refused
\* before there is a promise.
Compile(i) ==
    /\ doing[i] = "start"
    /\ \/ Usable(i) /\ Await(i, slot[given[i].plan]) /\ UNCHANGED <<slot, jobs>>
       \/ /\ ~Usable(i) /\ given[i].bytes \notin Misfit
          /\ jobs' = Append(jobs, [plan |-> given[i].plan, bytes |-> given[i].bytes,
                                   state |-> "running"])
          /\ slot' = [slot EXCEPT ![given[i].plan] = Len(jobs')]
          /\ Await(i, Len(jobs'))
       \/ /\ ~Usable(i) /\ given[i].bytes \in Misfit
          /\ doing' = [doing EXCEPT ![i] = "failed"]
          /\ UNCHANGED <<slot, jobs, uses>>
    /\ UNCHANGED <<given, denied>>

\* The engine settles a compilation: bytes that do not compile reject it, and
\* it may refuse others.
Settle(c) ==
    /\ jobs[c].state = "running"
    /\ \/ /\ jobs[c].bytes \notin Damaged
          /\ jobs' = [jobs EXCEPT ![c].state = "compiled"] /\ UNCHANGED denied
       \/ /\ jobs[c].bytes \in Damaged \/ denied < MaxRefused
          /\ denied' = IF jobs[c].bytes \in Damaged THEN denied ELSE denied + 1
          /\ jobs' = [jobs EXCEPT ![c].state = "rejected"]
    /\ UNCHANGED <<given, slot, doing, uses>>

\* Slip: a failed compilation keeps its slot.
Forgotten_never(c) == slot

\* The slots once the failed job c is forgotten: its own alone is given up.
Forgotten(c) == [pl \in Plans |-> IF slot[pl] = c THEN 0 ELSE slot[pl]]

\* The rejection's first reaction, registered with the job, is the cache's;
\* another instantiation may have found the job in the turn before.
Forget(c) ==
    /\ jobs[c].state = "rejected"
    /\ jobs' = [jobs EXCEPT ![c].state = "failed"]
    /\ slot' = Forgotten(c)
    /\ UNCHANGED <<given, doing, uses, denied>>

\* The reactions of the instantiations that wait follow.
Awaken(i) ==
    /\ doing[i] = "wait" /\ jobs[uses[i]].state \in {"compiled", "failed"}
    /\ doing' = [doing EXCEPT ![i] = IF jobs[uses[i]].state = "compiled"
                                     THEN "done" ELSE "failed"]
    /\ UNCHANGED <<given, slot, jobs, uses, denied>>

\* The host tries again what failed, with the same input.
Retry(i) ==
    /\ doing[i] = "failed" /\ given[i].bytes \notin Damaged \cup Misfit
    /\ doing' = [doing EXCEPT ![i] = "start"]
    /\ UNCHANGED <<given, slot, jobs, uses, denied>>

ModuleNext == \/ \E i \in Insts : Compile(i) \/ Awaken(i) \/ Retry(i)
              \/ \E c \in DOMAIN jobs : Settle(c) \/ Forget(c)

ModuleSpec == ModuleInit /\ [][ModuleNext]_moduleVars

(* -- properties ------------------------------------------------------------ *)

ModuleTypeOK ==
    /\ given \in [Insts -> [plan: Plans, bytes: Binaries]]
    /\ slot \in [Plans -> 0..Len(jobs)]
    /\ jobs \in Seq([plan: Plans, bytes: Binaries, state: {"running", "compiled", "rejected", "failed"}])
    /\ doing \in [Insts -> {"start", "wait", "done", "failed"}]
    /\ uses \in [Insts -> 0..Len(jobs)]
    /\ denied \in 0..MaxRefused

\* An instantiation runs the modules of its own plan and buffers, whoever
\* compiled them, and what it has failed with is not served again: a retry
\* compiles anew (executor.ts:424-486).
OwnModulesOnly ==
    \A i \in Insts : doing[i] # "start" /\ uses[i] # 0 =>
        LET c == uses[i]
        IN  /\ jobs[c].plan = given[i].plan /\ jobs[c].bytes = given[i].bytes
            /\ doing[i] = "failed" => slot[jobs[c].plan] # c
=============================================================================
