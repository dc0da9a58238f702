-------------------------- MODULE MCResourceHandles --------------------------
(* Small instances of ResourceHandles for TLC. Beside the empty start, they *)
(* start where calls that are over have left one resource: in a table or in *)
(* a wrapper of the host.                                                   *)
EXTENDS ResourceHandles, TLC

CONSTANTS impl, a, b

ThreeInstances == {impl, a, b}
OtherInstances == Permutations({a, b})

HeldInTable ==
  \E i \in Inst, x \in Index :
    /\ slot = [j \in Inst |-> [y \in Index |->
         IF j = i /\ y = x THEN [tenure |-> 1, entry |-> Own(1)]
         ELSE [tenure |-> 0, entry |-> None]]]
    /\ wrapper = [w \in Wrappers |-> Unmade]

HeldByHost ==
  /\ slot = [i \in Inst |-> [x \in Index |-> [tenure |-> 0, entry |-> None]]]
  /\ wrapper = [w \in Wrappers |-> IF w = 1 THEN Wrapper(1, TRUE) ELSE Unmade]

MCInit ==
  \/ Init
  \/ /\ HeldInTable \/ HeldByHost
     /\ call = [c \in Calls |-> Idle]
     /\ born = 1
     /\ dtors = [r \in Reps |-> 0]
     /\ poisoned = {}

MCSpec == MCInit /\ [][Next]_vars
==============================================================================
