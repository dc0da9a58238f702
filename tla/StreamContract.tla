--------------------------- MODULE StreamContract ---------------------------
(***************************************************************************)
(* What a component-model stream promises to the guests at its two ends,   *)
(* with no rendezvous slot, events, threads or instances in sight.         *)
(*                                                                         *)
(* The stream is a count of elements that have crossed it.  A report to an *)
(* end always accounts for every element that has crossed so far, neither  *)
(* more nor fewer.  Once the stream is closed nothing crosses any more,    *)
(* every later report says so, and an end that was told is told nothing    *)
(* else.                                                                   *)
(***************************************************************************)
EXTENDS Naturals

CONSTANT Ends

VARIABLES moved,    \* elements that have crossed the stream
          seen,     \* seen[e]: elements accounted for in reports to end e
          closed,   \* one of the ends is gone
          over      \* over[e]: end e has been told that the stream is closed

contractVars == <<moved, seen, closed, over>>

Init == /\ moved = 0
        /\ seen = [e \in Ends |-> 0]
        /\ closed = FALSE
        /\ over = [e \in Ends |-> FALSE]

(* Elements cross; the side that arrived second may be told at once. *)
Cross == /\ ~closed
         /\ moved' \in Nat /\ moved' > moved
         /\ \E told \in SUBSET Ends :
              seen' = [e \in Ends |-> IF e \in told THEN moved' ELSE seen[e]]
         /\ UNCHANGED <<closed, over>>

(* An end is brought up to date, and learns of the closing if there was one. *)
Report(e) == /\ ~over[e]
             /\ seen' = [seen EXCEPT ![e] = moved]
             /\ over' = [over EXCEPT ![e] = closed]
             /\ UNCHANGED <<moved, closed>>

Close == /\ closed' = TRUE
         /\ UNCHANGED <<moved, seen, over>>

Next == Cross \/ Close \/ \E e \in Ends : Report(e)

Spec == Init /\ [][Next]_contractVars
=============================================================================
