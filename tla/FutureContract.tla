--------------------------- MODULE FutureContract ---------------------------
(***************************************************************************)
(* What a component-model future promises.  At most one value crosses it.  *)
(* A reader is told of the value only once it has crossed; its writer can  *)
(* be told that the value went through or that nobody wants it, never      *)
(* both, and never the one when the other is the case.  A future that      *)
(* closes without a value ends the reader with a trap, never with an empty *)
(* completion.                                                             *)
(***************************************************************************)
VARIABLES crossed,   \* the value has been copied from writer to reader
          closed,    \* one of the ends is gone
          reader,    \* "waiting", "value" or "trapped"
          writer     \* "waiting", "value" or "refused"

contractVars == <<crossed, closed, reader, writer>>

Init == ~crossed /\ ~closed /\ reader = "waiting" /\ writer = "waiting"

(* The side that arrives second learns of the value at once. *)
Cross == /\ ~crossed /\ ~closed
         /\ crossed' = TRUE
         /\ \/ reader' = "value" /\ writer' = writer
            \/ writer' = "value" /\ reader' = reader
         /\ closed' = closed

ReaderLearns == /\ reader = "waiting" /\ crossed
                /\ reader' = "value"
                /\ UNCHANGED <<crossed, closed, writer>>

WriterLearns == /\ writer = "waiting"
                /\ \/ crossed /\ writer' = "value"
                   \/ ~crossed /\ closed /\ writer' = "refused"
                /\ UNCHANGED <<crossed, closed, reader>>

(* The reader of a future that will never have a value traps. *)
ReaderTraps == /\ reader = "waiting" /\ ~crossed /\ closed
               /\ reader' = "trapped"
               /\ UNCHANGED <<crossed, closed, writer>>

Close == closed' = TRUE /\ UNCHANGED <<crossed, reader, writer>>

Next == Cross \/ ReaderLearns \/ WriterLearns \/ ReaderTraps \/ Close

Spec == Init /\ [][Next]_contractVars
=============================================================================
