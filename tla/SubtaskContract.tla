-------------------------- MODULE SubtaskContract --------------------------
(***************************************************************************)
(* What an asynchronous call promises its caller: the statuses it is told  *)
(* only go forward, the last one is final, and the handles it lent to the  *)
(* callee come back exactly when it is told the last one.                  *)
(***************************************************************************)
EXTENDS Naturals

CONSTANT Calls

VARIABLES
  told,   \* the latest status the caller was told
  lent    \* the calls that hold handles of the caller

Ends == {"RETURNED", "CANCELLED_BEFORE_STARTED", "CANCELLED_BEFORE_RETURNED", "trapped"}
Statuses == {"none", "STARTING", "STARTED"} \cup Ends

Rank(s) == CASE s = "none" -> 0 [] s = "STARTING" -> 1 [] s = "STARTED" -> 2 [] OTHER -> 3

Init ==
  /\ told = [c \in Calls |-> "none"]
  /\ lent = {}

(* The arguments are lifted: the caller's handles are lent from now on.     *)
Lend(c) ==
  /\ told[c] \notin Ends /\ c \notin lent
  /\ lent' = lent \cup {c}
  /\ \E s \in {told[c], "STARTED"} : told' = [told EXCEPT ![c] = s]

Tell(c, s) ==
  /\ s \notin Ends /\ Rank(told[c]) <= Rank(s)
  /\ told' = [told EXCEPT ![c] = s]
  /\ UNCHANGED lent

Conclude(c, s) ==
  /\ told[c] \notin Ends /\ s \in Ends
  /\ told' = [told EXCEPT ![c] = s]
  /\ lent' = lent \ {c}

Next ==
  \E c \in Calls :
    \/ Lend(c)
    \/ \E s \in Statuses : Tell(c, s) \/ Conclude(c, s)

Spec == Init /\ [][Next]_<<told, lent>>
============================================================================
