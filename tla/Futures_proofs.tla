---------------------------- MODULE Futures_proofs --------------------------
(***************************************************************************)
(* Futures.  The rendezvous of two guests, for any set of instances, any   *)
(* number of retries and both payload kinds; and a future with an end in   *)
(* the embedder's hands, which settles for all its parties, for any number *)
(* of transfers of its readable end.                                       *)
(***************************************************************************)
EXTENDS FutureRendezvous, FutureHandles, SequenceTheorems, TLAPS

(* -- the rendezvous --------------------------------------------------------- *)

(* What each pending event of a live end stands for. *)
EventMeaning ==
  \A e \in Ends : Live(e) =>
    /\ event[e] = "COMPLETED" => state[e] = "COPYING" /\ copies = 1
    /\ event[e] = "DROPPED" =>
         e = "w" /\ state[e] = "COPYING" /\ dropped /\ copies = 0
    /\ event[e] = "idleDrop" =>
         e = "w" /\ state[e] = "IDLE" /\ dropped /\ copies = 0
    /\ event[e] = "abandoned" =>
         e = "r" /\ state[e] # "DONE" /\ dropped /\ copies = 0

(* What an end's state says about the last result its guest was given. *)
LastMeaning ==
  \A e \in Ends :
    /\ state[e] = "DONE" <=> last[e] \in {"COMPLETED", "DROPPED"}
    /\ last[e] = "trap" => ~Live(e)
    /\ last[e] = "DROPPED" => dropped

IInv == /\ TypeOK
        /\ SlotIsLiveOp
        /\ CompletionIsFinal
        /\ AbandonedReaderTraps
        /\ DropObservable
        /\ EventMeaning
        /\ LastMeaning

LEMMA InitInv == Init => IInv
<1> SUFFICES ASSUME Init PROVE IInv
  OBVIOUS
<1> USE FutureAssumption DEF Init, Ends, NoEnd
<1>1. TypeOK
  <2>1. owner \in [Ends -> Instances \cup {Gone}]
    OBVIOUS
  <2>2. /\ state \in [Ends -> CopyStates] /\ event \in [Ends -> Events]
        /\ last \in [Ends -> Results]
    BY DEF CopyStates, Events, CopyEvents, Results
  <2>3. ops \in [Ends -> 0..MaxOps] /\ copies \in Nat
    OBVIOUS
  <2>4. /\ syncWait \in [Ends -> BOOLEAN] /\ inSet \in [Ends -> BOOLEAN]
        /\ setWaiter \in [Ends -> BOOLEAN]
    OBVIOUS
  <2>5. slot \in Ends \cup {NoEnd} /\ dropped \in BOOLEAN /\ abandoned \in BOOLEAN
        /\ poisoned \in SUBSET Instances
    OBVIOUS
  <2> QED
    BY <2>1, <2>2, <2>3, <2>4, <2>5 DEF TypeOK
<1>2. SlotIsLiveOp /\ CompletionIsFinal /\ AbandonedReaderTraps /\ DropObservable
  BY DEF SlotIsLiveOp, CompletionIsFinal, AbandonedReaderTraps, DropObservable, Live
<1>3. EventMeaning /\ LastMeaning
  BY DEF EventMeaning, LastMeaning
<1> QED
  BY <1>1, <1>2, <1>3 DEF IInv

(* Before a value has crossed and before any drop, a live end has neither  *)
(* finished nor an event.                                                  *)
LEMMA OpenEnd ==
  ASSUME IInv, ~dropped, copies = 0, NEW e \in Ends, Live(e)
  PROVE  state[e] # "DONE" /\ event[e] = "none"
  BY DEF IInv, TypeOK, CompletionIsFinal, EventMeaning, LastMeaning, Ends,
         Events, CopyEvents, CopyStates

(* Retiring the writable end of an open future arms the live reader with   *)
(* the trap, whether it is parked or idle.                                 *)
LEMMA WriterRetired ==
  ASSUME IInv, ~dropped, copies = 0, Live("w"), Live("r"),
         NEW retired, "w" \in retired,
         NEW dead, owner["w"] \in dead, owner["r"] \notin dead,
         Teardown("w", retired, dead)
  PROVE  abandoned' /\ event'["r"] = "abandoned"
<1>1. state["w"] # "DONE" /\ state["r"] # "DONE" /\ event["r"] = "none"
  BY OpenEnd DEF Ends
<1>2. Forsakes(retired)
  BY <1>1 DEF Forsakes
<1>3. slot # NoEnd /\ owner[slot] \notin dead => slot = "r"
  BY DEF IInv, TypeOK, Ends
<1> QED
  BY <1>1, <1>2, <1>3 DEF Teardown, PeerTold, Peer, IInv, TypeOK, Ends, NoEnd

LEMMA NextInv == IInv /\ [Next]_vars => IInv'
<1> SUFFICES ASSUME IInv, [Next]_vars PROVE IInv'
  OBVIOUS
<1> USE FutureAssumption
        DEF IInv, TypeOK, SlotIsLiveOp, CompletionIsFinal, AbandonedReaderTraps,
            DropObservable, EventMeaning, LastMeaning, Live, Ends, NoEnd,
            CopyStates, CopyEvents, Events, Results
<1>1. ASSUME NEW e \in Ends, NEW sync \in BOOLEAN, CopyDropped(e, sync)
      PROVE IInv'
  BY <1>1 DEF CopyDropped, StartCopy, Told, shared
<1>2. ASSUME NEW e \in Ends, NEW sync \in BOOLEAN, CopyPark(e, sync)
      PROVE IInv'
  BY <1>2 DEF CopyPark, StartCopy
<1>3. ASSUME NEW e \in Ends, NEW sync \in BOOLEAN, CopyMeet(e, sync)
      PROVE IInv'
  BY <1>3 DEF CopyMeet, StartCopy, Told
<1>4. ASSUME NEW e \in Ends, SyncResume(e)
      PROVE IInv'
  BY <1>4 DEF SyncResume, Take, Told, Delivered, shared
<1>5. ASSUME NEW e \in Ends, WaitBlock(e)
      PROVE IInv'
  BY <1>5 DEF WaitBlock, shared, hist
<1>6. ASSUME NEW e \in Ends, WaitResume(e)
      PROVE IInv'
  BY <1>6 DEF WaitResume, Take, Told, Delivered, shared
<1>7. ASSUME NEW e \in Ends, Poll(e)
      PROVE IInv'
  BY <1>7 DEF Poll, Take, Told, Delivered, shared
<1>8. ASSUME NEW e \in Ends, NEW in \in BOOLEAN, Join(e, in)
      PROVE IInv'
  BY <1>8 DEF Join, shared, hist
<1>9. ASSUME NEW e \in Ends, CancelArmed(e)
      PROVE IInv'
  BY <1>9 DEF CancelArmed, MayCancel, Take, Told, Delivered, shared
<1>10. ASSUME NEW e \in Ends, CancelParked(e)
       PROVE IInv'
  BY <1>10 DEF CancelParked, MayCancel, Told
<1>11. ASSUME NEW e \in Ends, Drop(e)
       PROVE IInv'
  <2>1. TypeOK'
    BY <1>11 DEF Drop, MayDrop, PeerTold, Peer, hist
  <2>2. SlotIsLiveOp'
    BY <1>11 DEF Drop, MayDrop, PeerTold, Peer, hist
  <2>3. CompletionIsFinal'
    BY <1>11 DEF Drop, MayDrop, PeerTold, Peer, hist
  <2>4. AbandonedReaderTraps'
    <3>1. CASE e = "r"
      BY <1>11, <3>1 DEF Drop, MayDrop, PeerTold, Peer, hist
    <3>2. CASE e = "w"
      BY <1>11, <3>2 DEF Drop, MayDrop, PeerTold, Peer, hist
    <3> QED
      BY <3>1, <3>2
  <2>5. DropObservable'
    BY <1>11 DEF Drop, MayDrop, PeerTold, Peer, hist
  <2>6. EventMeaning'
    <3>1. CASE e = "r"
      BY <1>11, <3>1 DEF Drop, MayDrop, PeerTold, Peer, hist
    <3>2. CASE e = "w"
      BY <1>11, <3>2 DEF Drop, MayDrop, PeerTold, Peer, hist
    <3> QED
      BY <3>1, <3>2
  <2>7. LastMeaning'
    BY <1>11 DEF Drop, MayDrop, PeerTold, Peer, hist
  <2> QED
    BY <2>1, <2>2, <2>3, <2>4, <2>5, <2>6, <2>7
<1>12. ASSUME NEW e \in Ends, FailedRemoval(e)
       PROVE IInv'
  <2>1. TypeOK'
    BY <1>12 DEF FailedRemoval, MayDrop, Teardown, Forsakes, PeerTold, Peer, hist
  <2>2. SlotIsLiveOp'
    BY <1>12 DEF FailedRemoval, MayDrop, Teardown, Forsakes, PeerTold, Peer, hist
  <2>3. CompletionIsFinal'
    BY <1>12 DEF FailedRemoval, MayDrop, Teardown, Forsakes, PeerTold, Peer, hist
  <2>4. AbandonedReaderTraps'
    <3>1. CASE e = "r"
      BY <1>12, <3>1 DEF FailedRemoval, MayDrop, Teardown, Forsakes, PeerTold, Peer, hist
    <3>2. CASE e = "w"
      <4>1. CASE dropped
        BY <1>12, <3>2, <4>1 DEF FailedRemoval, Teardown, Forsakes, hist
      <4>2. CASE ~dropped
        <5>1. last' = last /\ copies' = copies /\ poisoned' = poisoned \cup {owner["w"]}
              /\ owner'["r"] = owner["r"]
          BY <1>12, <3>2 DEF FailedRemoval, hist
        <5>2. Live("r")' /\ copies' = 0 => abandoned' /\ event'["r"] = "abandoned"
          BY <1>12, <3>2, <4>2, <5>1, WriterRetired DEF FailedRemoval
        <5> QED
          BY <5>1, <5>2
      <4> QED
        BY <4>1, <4>2
    <3> QED
      BY <3>1, <3>2
  <2>5. DropObservable'
    BY <1>12 DEF FailedRemoval, MayDrop, Teardown, Forsakes, PeerTold, Peer, hist
  <2>6. EventMeaning'
    <3>1. CASE e = "r"
      BY <1>12, <3>1 DEF FailedRemoval, MayDrop, Teardown, Forsakes, PeerTold, Peer, hist
    <3>2. CASE e = "w"
      BY <1>12, <3>2 DEF FailedRemoval, MayDrop, Teardown, Forsakes, PeerTold, Peer, hist
    <3> QED
      BY <3>1, <3>2
  <2>7. LastMeaning'
    BY <1>12 DEF FailedRemoval, MayDrop, Teardown, Forsakes, PeerTold, Peer, hist
  <2> QED
    BY <2>1, <2>2, <2>3, <2>4, <2>5, <2>6, <2>7
<1>13. ASSUME NEW i \in Instances, Transfer(i)
       PROVE IInv'
  BY <1>13 DEF Transfer, shared, hist
<1>14. ASSUME NEW i \in Instances, Poison(i)
       PROVE IInv'
  <2> DEFINE mine == {e \in Ends : owner[e] = i}
  <2>1. CASE mine = {}
    <3>1. UNCHANGED <<ends, shared, hist>> /\ poisoned' = poisoned \cup {i}
      BY <1>14, <2>1 DEF Poison, Teardown, ends, shared, hist
    <3>2. \A e \in Ends : owner[e] # i /\ (Live(e)' <=> Live(e))
      BY <2>1, <3>1 DEF ends
    <3> QED
      BY <3>1, <3>2 DEF ends, shared, hist
  <2>2. ASSUME NEW e \in Ends, owner[e] = i,
               Teardown(e, mine, poisoned \cup {i})
        PROVE IInv'
    <3>1. TypeOK'
      BY <1>14, <2>2 DEF Poison, Teardown, Forsakes, PeerTold, Peer, hist
    <3>2. SlotIsLiveOp'
      BY <1>14, <2>2 DEF Poison, Teardown, Forsakes, PeerTold, Peer, hist
    <3>3. CompletionIsFinal'
      BY SMTT(40), <1>14, <2>2 DEF Poison, Teardown, Forsakes, PeerTold, Peer, hist
    <3>4. AbandonedReaderTraps'
      <4>1. CASE e = "r"
        BY <1>14, <2>2, <4>1 DEF Poison, Teardown, Forsakes, PeerTold, Peer, hist
      <4>2. CASE e = "w"
        <5>1. CASE dropped
          BY <1>14, <2>2, <4>2, <5>1 DEF Poison, Teardown, Forsakes, hist
        <5>2. CASE ~dropped
          <6>1. /\ last' = last /\ copies' = copies /\ owner' = owner
                /\ poisoned' = poisoned \cup {i} /\ i \notin poisoned
            BY <1>14 DEF Poison, hist
          <6>2. Live("r")' /\ copies' = 0 => abandoned' /\ event'["r"] = "abandoned"
            BY <2>2, <4>2, <5>2, <6>1, WriterRetired
          <6> QED
            BY <6>1, <6>2
        <5> QED
          BY <5>1, <5>2
      <4> QED
        BY <4>1, <4>2
    <3>5. DropObservable'
      BY <1>14, <2>2 DEF Poison, Teardown, Forsakes, PeerTold, Peer, hist
    <3>6. EventMeaning'
      <4>1. CASE e = "r"
        BY <1>14, <2>2, <4>1 DEF Poison, Teardown, Forsakes, PeerTold, Peer, hist
      <4>2. CASE e = "w"
        BY <1>14, <2>2, <4>2 DEF Poison, Teardown, Forsakes, PeerTold, Peer, hist
      <4> QED
        BY <4>1, <4>2
    <3>7. LastMeaning'
      BY <1>14, <2>2 DEF Poison, Teardown, Forsakes, PeerTold, Peer, hist
    <3> QED
      BY <3>1, <3>2, <3>3, <3>4, <3>5, <3>6, <3>7
  <2> QED
    BY <1>14, <2>1, <2>2 DEF Poison
<1>15. CASE UNCHANGED vars
  BY <1>15 DEF vars, ends, shared, hist
<1> QED
  BY <1>1, <1>2, <1>3, <1>4, <1>5, <1>6, <1>7, <1>8, <1>9, <1>10, <1>11,
     <1>12, <1>13, <1>14, <1>15 DEF Next, Copy

THEOREM Invariance == Spec => []IInv
  BY InitInv, NextInv, PTL DEF Spec

(* Every variable of the model keeps its type. *)
THEOREM TypeCorrect == Spec => []TypeOK
<1>1. IInv => TypeOK
  BY DEF IInv
<1> QED
  BY <1>1, Invariance, PTL

(* shared.cancel() only ever retracts the calling end's own copy. *)
THEOREM SlotSafe == Spec => []SlotIsLiveOp
<1>1. IInv => SlotIsLiveOp
  BY DEF IInv
<1> QED
  BY <1>1, Invariance, PTL

(* A future's value crosses at most once, and a copy that has happened is  *)
(* reported to both guests as COMPLETED whatever happens afterwards.       *)
THEOREM CompletionSafe == Spec => []CompletionIsFinal
<1>1. IInv => CompletionIsFinal
  BY DEF IInv
<1> QED
  BY <1>1, Invariance, PTL

(* A reader whose future is gone without a value finds the trap, and never *)
(* an empty completion.                                                    *)
THEOREM AbandonmentSafe == Spec => []AbandonedReaderTraps
<1>1. IInv => AbandonedReaderTraps
  BY DEF IInv
<1> QED
  BY <1>1, Invariance, PTL

-----------------------------------------------------------------------------
(* The rendezvous keeps the future's contract. *)
readerSees == CASE last["r"] \in {"COMPLETED", "DROPPED"} -> "value"
                [] last["r"] = "trap" -> "trapped"
                [] OTHER -> "waiting"
writerSees == CASE last["w"] = "COMPLETED" -> "value"
                [] last["w"] = "DROPPED" -> "refused"
                [] OTHER -> "waiting"

(* A live end takes the event it has. *)
LEMMA TakeStep ==
  ASSUME IInv, NEW e \in Ends, Live(e), event[e] # "none", Take(e)
  PROVE  Contract!Next
<1> USE DEF IInv, TypeOK, Ends
<1>1. UNCHANGED <<copies, dropped>>
  BY DEF Take, shared
<1>2. /\ state[e] # "DONE" /\ last[e] \in {"none", "CANCELLED"}
      /\ e = "r" => last[e] # "DROPPED"
  BY DEF EventMeaning, LastMeaning, Results, Events, CopyEvents, CopyStates
<1>3. CASE event[e] = "COMPLETED"
  <2>1. copies = 1 /\ last' = [last EXCEPT ![e] = "COMPLETED"]
    BY <1>3 DEF EventMeaning, Take, Told, Delivered
  <2>2. CASE e = "r"
    <3>1. Contract!ReaderLearns
      BY <1>1, <1>2, <2>1, <2>2 DEF Contract!ReaderLearns
    <3> QED
      BY <3>1 DEF Contract!Next
  <2>3. CASE e = "w"
    <3>1. Contract!WriterLearns
      BY <1>1, <1>2, <2>1, <2>3 DEF Contract!WriterLearns
    <3> QED
      BY <3>1 DEF Contract!Next
  <2> QED
    BY <2>2, <2>3
<1>4. CASE event[e] \in {"DROPPED", "idleDrop"}
  <2>1. e = "w" /\ copies = 0 /\ dropped /\ last' = [last EXCEPT !["w"] = "DROPPED"]
    BY <1>4 DEF EventMeaning, Take, Told, Delivered
  <2>2. Contract!WriterLearns
    BY <1>1, <1>2, <2>1 DEF Contract!WriterLearns
  <2> QED
    BY <2>2 DEF Contract!Next
<1>5. CASE event[e] = "abandoned"
  <2>1. e = "r" /\ copies = 0 /\ dropped /\ last' = [last EXCEPT !["r"] = "trap"]
    BY <1>5 DEF EventMeaning, Take
  <2>2. Contract!ReaderTraps
    BY <1>1, <1>2, <2>1 DEF Contract!ReaderTraps
  <2> QED
    BY <2>2 DEF Contract!Next
<1> QED
  BY <1>3, <1>4, <1>5 DEF Events, CopyEvents

LEMMA NextContract ==
  IInv /\ [Next]_vars => [Contract!Next]_(Contract!contractVars)
<1> SUFFICES ASSUME IInv, [Next]_vars
             PROVE  \/ Contract!Next
                    \/ UNCHANGED <<copies, dropped, last>>
                    \/ UNCHANGED <<copies, dropped, readerSees, writerSees>>
  BY DEF Contract!contractVars, readerSees, writerSees
<1> DEFINE Goal == \/ Contract!Next
                   \/ UNCHANGED <<copies, dropped, last>>
                   \/ UNCHANGED <<copies, dropped, readerSees, writerSees>>
<1> USE DEF Ends
<1>0. ASSUME Contract!Close PROVE Goal
  BY <1>0 DEF Contract!Next
<1>1. ASSUME NEW e \in Ends, NEW sync \in BOOLEAN, CopyDropped(e, sync)
      PROVE Goal
  <2>1. /\ dropped /\ dropped' /\ copies' = copies
        /\ last' = [last EXCEPT ![e] = "DROPPED"] /\ Live(e) /\ state[e] = "IDLE"
    BY <1>1 DEF CopyDropped, StartCopy, Told, shared
  <2>2. e = "w" /\ copies = 0 /\ last["w"] \in {"none", "CANCELLED"}
    BY <1>1, <2>1 DEF CopyDropped, StartCopy, IInv, TypeOK, CompletionIsFinal,
                      AbandonedReaderTraps, LastMeaning, Results
  <2>3. Contract!WriterLearns
    BY <2>1, <2>2 DEF Contract!WriterLearns, IInv, TypeOK
  <2> QED
    BY <2>3 DEF Contract!Next
<1>2. ASSUME NEW e \in Ends, NEW sync \in BOOLEAN, CopyPark(e, sync)
      PROVE Goal
  BY <1>2 DEF CopyPark
<1>3. ASSUME NEW e \in Ends, NEW sync \in BOOLEAN, CopyMeet(e, sync)
      PROVE Goal
  <2>1. /\ ~dropped /\ dropped' = dropped /\ copies' = copies + 1 /\ copies = 0
        /\ last' = [last EXCEPT ![e] = "COMPLETED"] /\ state[e] = "IDLE"
    BY <1>3 DEF CopyMeet, StartCopy, Told, IInv, TypeOK, SlotIsLiveOp
  <2>2. Contract!Cross
    <3>1. (copies > 0) = FALSE /\ (copies' > 0) = TRUE
      BY <2>1
    <3>2. CASE e = "r"
      <4>1. readerSees' = "value" /\ writerSees' = writerSees
        BY <2>1, <3>2 DEF readerSees, writerSees, IInv, TypeOK
      <4>2. ~(copies > 0) /\ copies' > 0
        BY <3>1
      <4> QED
        BY <2>1, <4>1, <4>2 DEF Contract!Cross, readerSees, writerSees
    <3>3. CASE e = "w"
      <4>1. writerSees' = "value" /\ readerSees' = readerSees
        BY <2>1, <3>3 DEF readerSees, writerSees, IInv, TypeOK
      <4>2. ~(copies > 0) /\ copies' > 0
        BY <3>1
      <4> QED
        BY <2>1, <4>1, <4>2 DEF Contract!Cross, readerSees, writerSees
    <3> QED
      BY <3>2, <3>3
  <2> QED
    BY <2>2 DEF Contract!Next
<1>4. ASSUME NEW e \in Ends,
             SyncResume(e) \/ WaitResume(e) \/ Poll(e) \/ CancelArmed(e)
      PROVE Goal
  BY <1>4, TakeStep DEF SyncResume, WaitResume, Poll, CancelArmed, MayCancel
<1>5. ASSUME NEW e \in Ends, CancelParked(e)
      PROVE Goal
  <2>1. /\ UNCHANGED <<copies, dropped>> /\ ~dropped
        /\ last' = [last EXCEPT ![e] = "CANCELLED"]
        /\ last[e] \in {"none", "CANCELLED"}
    BY <1>5 DEF CancelParked, MayCancel, Told, IInv, TypeOK, SlotIsLiveOp,
                LastMeaning, Results, NoEnd
  <2>2. readerSees' = readerSees /\ writerSees' = writerSees
    BY <2>1 DEF readerSees, writerSees, IInv, TypeOK
  <2> QED
    BY <2>1, <2>2
<1>6. ASSUME NEW e \in Ends, NEW in \in BOOLEAN, WaitBlock(e) \/ Join(e, in)
      PROVE Goal
  BY <1>6 DEF WaitBlock, Join, shared, hist
<1>7. ASSUME NEW e \in Ends, Drop(e) \/ FailedRemoval(e)
      PROVE Goal
  BY <1>0, <1>7 DEF Drop, FailedRemoval, Teardown, hist, Contract!Close
<1>8. ASSUME NEW i \in Instances, Transfer(i)
      PROVE Goal
  BY <1>8 DEF Transfer, shared, hist
<1>9. ASSUME NEW i \in Instances, Poison(i)
      PROVE Goal
  BY <1>0, <1>9 DEF Poison, Teardown, shared, hist, Contract!Close
<1>10. CASE UNCHANGED vars
  BY <1>10 DEF vars, shared, hist
<1> QED
  BY <1>1, <1>2, <1>3, <1>4, <1>5, <1>6, <1>7, <1>8, <1>9, <1>10 DEF Next, Copy

(* Every behaviour of the rendezvous is a behaviour of the contract. *)
THEOREM Refinement == Spec => KeepsContract
<1>1. Init => Contract!Init
  BY DEF Init, Contract!Init, Ends
<1>2. IInv /\ [Next]_vars => [Contract!Next]_(Contract!contractVars)
  BY NextContract
<1> QED
  BY <1>1, <1>2, Invariance, PTL DEF Spec, KeepsContract, Contract!Spec

(* -- a future of the embedder ---------------------------------------------- *)

FutureResults == {"none", "COMPLETED", "DROPPED", "CANCELLED"}
FutureEvents == FutureResults \cup {"trap", "idleDrop"}
Activities == [bound : BOOLEAN, closed : BOOLEAN, disarmed : BOOLEAN, armed : BOOLEAN]
Futures ==
  [slot : Sides \cup {"none"}, dropped : BOOLEAN, abandoned : BOOLEAN,
   op : [Sides -> {"none", "host", "guest"}], result : [Sides -> FutureResults],
   event : [Sides -> FutureEvents], done : [Sides -> BOOLEAN], left : [Sides -> BOOLEAN],
   delivered : BOOLEAN, lowered : BOOLEAN, poisoned : BOOLEAN, blamed : BOOLEAN,
   act : Activities, copied : Nat, cause : {"none", "host", "guest", "producer", "trap"},
   revoked : BOOLEAN, stale : BOOLEAN]
Handles ==
  [phase : {"deferred", "held", "passed", "failed"}, reading : BOOLEAN, dropped : BOOLEAN,
   memo : {"none", "pending", "failed", "value", "producer", "peer", "cancelled", "dropped"},
   queue : Seq({"read", "cancel", "drop"}), asked : BOOLEAN]
Producers == [pc : {"waiting", "writing", "done"}, owned : BOOLEAN, made : Nat, released : Nat]

\* The holder of an end, the origin and the reader being given.
HeldBy(o, rdr, e) == IF e = "w" THEN o ELSE rdr

\* One end, in the hands h of one that has not trapped iff alive: what is
\* parked in the slot is an operation of the end, the host's is nowhere else,
\* and a guest's is in the slot or has an event.
EndSound(t, h, alive, e) ==
  /\ t.slot = e => /\ ~t.dropped /\ t.copied = 0 /\ t.op[e] # "none"
                   /\ t.event[e] = "none" /\ t.result[e] = "none"
  /\ t.op[e] = "host" => t.slot = e /\ h = "host"
  /\ t.op[e] = "guest" => /\ h = "guest" /\ ~t.done[e] /\ ~t.left[e]
                          /\ t.slot = e \/ t.event[e] # "none" \/ ~alive
  /\ t.done[e] => t.op[e] = "none" /\ t.event[e] = "none" /\ (t.dropped \/ t.copied = 1)
  /\ t.left[e] => t.op[e] = "none" /\ t.event[e] = "none" /\ t.dropped
  /\ h # "guest" => ~t.done[e] /\ ~t.left[e]
  /\ t.event[e] = "COMPLETED" => t.copied = 1 /\ t.op[e] = "guest"
  /\ t.event[e] \in {"DROPPED", "idleDrop", "trap"} => t.dropped
  /\ t.event[e] # "CANCELLED"
  /\ t.result[e] # "none" => h = "host"
  /\ t.result[e] = "COMPLETED" => t.copied = 1
  /\ t.result[e] = "DROPPED" => t.dropped

\* Why the future ended, and who has been told.
CauseSound(t, u) ==
  /\ t.dropped <=> t.cause # "none"
  /\ t.dropped <=> t.act.closed
  /\ t.cause = "producer" => t.blamed
  /\ t.cause = "trap" => t.poisoned
  /\ t.poisoned => \E e \in Sides : ~u[e]
ToldSound(t, o, rdr, u) ==
  /\ t.event["r"] \in {"DROPPED", "idleDrop"} => ~t.abandoned
  /\ rdr = "guest" /\ u["r"] /\ t.event["r"] \in {"DROPPED", "idleDrop"} => t.stale
  /\ t.event["w"] # "none" => o = "guest"
EndedSound(t, o, rdr, u) ==
  /\ t.abandoned => t.dropped
  /\ \A e \in Sides : ~u[e] /\ HeldBy(o, rdr, e) = "guest" => t.dropped

\* The arm that holds off the deadlock verdict.
ArmSound(t, o, rdr) ==
  /\ t.act.armed <=> t.act.bound /\ ~t.act.closed /\ ~t.act.disarmed
  /\ rdr # "call" /\ ~t.dropped => t.act.bound
  /\ rdr = "host" /\ ~t.dropped => ~t.act.disarmed
  /\ rdr = "guest" => t.lowered
  /\ rdr = "call" => o = "guest" /\ ~t.act.disarmed

\* A value that was copied has gone from its writer and to its reader.
CopiedSound(t, o, rdr) ==
  /\ t.copied \in {0, 1}
  /\ t.delivered <=> t.copied = 1 /\ (rdr = "host" \/ o = "host")
  /\ t.copied = 1 => /\ rdr # "call"
                     /\ rdr = "guest" => t.done["r"] \/ t.event["r"] = "COMPLETED"
                     /\ o = "guest" => t.done["w"] \/ t.event["w"] = "COMPLETED"

FutureCore(t, o, rdr, u) ==
  /\ \A e \in Sides : EndSound(t, HeldBy(o, rdr, e), u[e], e)
  /\ CauseSound(t, u) /\ ToldSound(t, o, rdr, u) /\ ArmSound(t, o, rdr) /\ CopiedSound(t, o, rdr)
FutureSound(t, o, rdr, u) == FutureCore(t, o, rdr, u) /\ EndedSound(t, o, rdr, u)

\* A reaction of the kind x waits on the handle.
Queued(q, x) == \E i \in DOMAIN q : q[i] = x

\* The handle: an await that is under way has an operation or its result.
HandleSound(h, t, rdr) ==
  /\ h.phase = "held" <=> rdr = "host"
  /\ h.phase = "passed" <=> rdr = "guest"
  /\ h.reading <=> h.memo = "pending"
  /\ t.op["r"] = "host" \/ t.result["r"] # "none" => h.reading
  /\ h.reading /\ h.phase # "deferred"
       => rdr = "host" /\ (t.op["r"] = "host" \/ t.result["r"] # "none")
  /\ t.result["r"] = "CANCELLED" => h.asked
  /\ Queued(h.queue, "cancel") => h.asked
  /\ h.dropped /\ h.phase # "failed" => t.dropped \/ Queued(h.queue, "drop")
  /\ h.memo = "value" => t.copied = 1 /\ rdr = "host"
  /\ h.memo = "cancelled" => h.asked
  /\ h.memo = "dropped" => t.cause \in {"host", "guest"}
  /\ h.memo = "peer" => t.poisoned

\* The producer: the value it made is under way, was taken, or was released.
ProducerSound(p, t, o) ==
  /\ o = "guest" => p.pc = "done" /\ ~p.owned
  /\ o = "host" =>
       /\ p.pc = "waiting" => /\ p.made = 0 /\ p.released = 0 /\ t.copied = 0
                              /\ t.op["w"] = "none" /\ t.result["w"] = "none"
       /\ p.pc = "writing" => /\ p.made = 1 /\ p.released = 0
                              /\ t.op["w"] = "host" \/ t.result["w"] # "none"
       /\ p.pc = "done" => /\ t.op["w"] = "none" /\ t.result["w"] = "none"
                           /\ p.owned => p.made = t.copied + p.released
       /\ p.pc # "waiting" => t.copied = 1 \/ t.dropped \/ t.revoked \/ t.slot = "w"
       /\ t.result["w"] = "CANCELLED" => t.revoked
       /\ t.result["w"] \in {"DROPPED", "CANCELLED"} => t.copied = 0

FutureTypes ==
  /\ origin \in {"host", "guest"} /\ reader \in {"host", "guest", "call"} /\ hops \in Nat
  /\ up \in [Sides -> BOOLEAN] /\ fut \in Futures /\ hand \in Handles /\ prod \in Producers

FutureInv ==
  /\ FutureTypes
  /\ FutureSound(fut, origin, reader, up) /\ HandleSound(hand, fut, reader)
  /\ ProducerSound(prod, fut, origin)

\* What the store is told of an activity leaves it an activity.
LEMMA ActivityTypes ==
  ASSUME NEW a \in Activities
  PROVE  /\ Closed(a) \in Activities /\ Notified(a) \in Activities /\ Bound(a) \in Activities
         /\ Disarmed(a) \in Activities /\ Rearmed(a) \in Activities
<1>1. ASSUME NEW b \in Activities PROVE Closed(b) \in Activities /\ Notified(b) \in Activities
  BY DEF Activities, Closed, Notified
<1>2. /\ [a EXCEPT !.bound = TRUE] \in Activities /\ [a EXCEPT !.disarmed = FALSE] \in Activities
      /\ Disarmed(a) \in Activities
  BY ZenonT(30) DEF Activities, Disarmed
<1>3. QED
  BY <1>1, <1>2, Zenon DEF Bound, Rearmed

\* An activity whose arm is up to date is told nothing new.
LEMMA ActivityKept ==
  ASSUME NEW a \in Activities, a.armed <=> a.bound /\ ~a.closed /\ ~a.disarmed
  PROVE  Notified(a) = a /\ (a.closed => Closed(a) = a)
BY ZenonT(30) DEF Activities, Notified, Closed

LEMMA SideHeld == \A e \in Sides : Side(e) = HeldBy(origin, reader, e)
BY DEF Side, HeldBy

\* The fields of a future, by their types.
LEMMA FutureFields ==
  ASSUME NEW t \in Futures
  PROVE  /\ t.slot \in Sides \cup {"none"} /\ t.op \in [Sides -> {"none", "host", "guest"}]
         /\ t.result \in [Sides -> FutureResults] /\ t.event \in [Sides -> FutureEvents]
         /\ t.done \in [Sides -> BOOLEAN] /\ t.left \in [Sides -> BOOLEAN] /\ t.act \in Activities
         /\ t.copied \in Nat /\ t.cause \in {"none", "host", "guest", "producer", "trap"}
         /\ t.dropped \in BOOLEAN /\ t.abandoned \in BOOLEAN /\ t.delivered \in BOOLEAN
         /\ t.lowered \in BOOLEAN /\ t.poisoned \in BOOLEAN /\ t.blamed \in BOOLEAN
         /\ t.revoked \in BOOLEAN /\ t.stale \in BOOLEAN
BY ZenonT(60) DEF Futures

\* What the fields of v are, a future that was t when ...

\* ... the host's operation ended,
HostEnds(t, v, e, res) ==
  /\ v \in Futures
  /\ v.op = [t.op EXCEPT ![e] = "none"] /\ v.result = [t.result EXCEPT ![e] = res]
  /\ v.delivered = (t.delivered \/ res = "COMPLETED")
  /\ v.act = IF res = "DROPPED" THEN Closed(t.act) ELSE Notified(t.act)
  /\ v.slot = t.slot /\ v.dropped = t.dropped /\ v.abandoned = t.abandoned
  /\ v.event = t.event /\ v.done = t.done /\ v.left = t.left /\ v.lowered = t.lowered
  /\ v.poisoned = t.poisoned /\ v.blamed = t.blamed /\ v.copied = t.copied
  /\ v.cause = t.cause /\ v.revoked = t.revoked /\ v.stale = t.stale
\* ... a guest's copy ended, its event being set,
GuestFinishes(t, v, e, res) ==
  /\ v \in Futures
  /\ v.event = [t.event EXCEPT ![e] = IF e = "r" /\ res = "DROPPED" /\ t.abandoned
                                        THEN "trap" ELSE res]
  /\ v.op = t.op /\ v.result = t.result /\ v.delivered = t.delivered /\ v.act = t.act
  /\ v.slot = t.slot /\ v.dropped = t.dropped /\ v.abandoned = t.abandoned
  /\ v.done = t.done /\ v.left = t.left /\ v.lowered = t.lowered
  /\ v.poisoned = t.poisoned /\ v.blamed = t.blamed /\ v.copied = t.copied
  /\ v.cause = t.cause /\ v.revoked = t.revoked /\ v.stale = t.stale
\* ... a guest took its event,
Takes(t, v, e) ==
  /\ v \in Futures
  /\ v.op = [t.op EXCEPT ![e] = "none"] /\ v.event = [t.event EXCEPT ![e] = "none"]
  /\ v.done = [t.done EXCEPT ![e] = TRUE]
  /\ v.result = t.result /\ v.delivered = t.delivered /\ v.act = t.act
  /\ v.slot = t.slot /\ v.dropped = t.dropped /\ v.abandoned = t.abandoned
  /\ v.left = t.left /\ v.lowered = t.lowered
  /\ v.poisoned = t.poisoned /\ v.blamed = t.blamed /\ v.copied = t.copied
  /\ v.cause = t.cause /\ v.revoked = t.revoked /\ v.stale = t.stale
\* ... an operation of x was issued at the end e.
Issues(t, v, e, x) ==
  /\ v \in Futures
  /\ v.op = [t.op EXCEPT ![e] = x] /\ v.event = [t.event EXCEPT ![e] = "none"]
  /\ v.slot = t.slot /\ v.dropped = t.dropped /\ v.abandoned = t.abandoned
  /\ v.result = t.result /\ v.done = t.done /\ v.left = t.left /\ v.delivered = t.delivered
  /\ v.lowered = t.lowered /\ v.poisoned = t.poisoned /\ v.blamed = t.blamed /\ v.act = t.act
  /\ v.copied = t.copied /\ v.cause = t.cause /\ v.revoked = t.revoked /\ v.stale = t.stale

LEMMA HostDoneFields ==
  ASSUME NEW t \in Futures, NEW e \in Sides, NEW res \in FutureResults
  PROVE  HostEnds(t, HostDone(t, e, res), e, res)
<1> DEFINE v == HostDone(t, e, res)
<1>1. /\ Closed(t.act) \in Activities /\ Notified(t.act) \in Activities
      /\ [t.op EXCEPT ![e] = "none"] \in [Sides -> {"none", "host", "guest"}]
      /\ [t.result EXCEPT ![e] = res] \in [Sides -> FutureResults]
  BY FutureFields, ActivityTypes, Zenon
<1>2. v \in Futures
  BY <1>1, ZenonT(60) DEF Futures, HostDone
<1>3. QED
  BY <1>2, SMTT(60) DEF Futures, HostDone, HostEnds

LEMMA GuestDoneFields ==
  ASSUME NEW t \in Futures, NEW e \in Sides, NEW res \in FutureResults
  PROVE  GuestFinishes(t, GuestDone(t, e, res), e, res)
<1> DEFINE x == IF e = "r" /\ res = "DROPPED" /\ t.abandoned THEN "trap" ELSE res
<1>1. [t.event EXCEPT ![e] = x] \in [Sides -> FutureEvents]
  BY FutureFields DEF FutureEvents
<1>2. GuestDone(t, e, res) = [t EXCEPT !.event[e] = x]
  BY DEF GuestDone
<1> HIDE DEF x
<1>3. [t EXCEPT !.event[e] = x] \in Futures
  BY <1>1, ZenonT(60) DEF Futures
<1>4. GuestFinishes(t, [t EXCEPT !.event[e] = x], e, res)
  BY <1>3, SMTT(60) DEF Futures, GuestFinishes, x
<1>5. QED
  BY <1>2, <1>4

LEMMA TakenFields ==
  ASSUME NEW t \in Futures, NEW e \in Sides, t.op[e] = "guest", t.event[e] # "none"
  PROVE  Takes(t, Taken(t, e), e)
<1> DEFINE v == [t EXCEPT !.op[e] = "none", !.event[e] = "none", !.done[e] = TRUE]
<1>1. /\ [t.op EXCEPT ![e] = "none"] \in [Sides -> {"none", "host", "guest"}]
      /\ [t.event EXCEPT ![e] = "none"] \in [Sides -> FutureEvents]
      /\ [t.done EXCEPT ![e] = TRUE] \in [Sides -> BOOLEAN]
  BY FutureFields DEF FutureEvents, FutureResults
<1>2. Taken(t, e) = v
  BY DEF Taken
<1>3. v \in Futures
  BY <1>1, ZenonT(60) DEF Futures
<1>4. Takes(t, v, e)
  BY <1>3, SMTT(60) DEF Futures, Takes
<1>5. QED
  BY <1>2, <1>4

LEMMA GuestIssues ==
  ASSUME NEW t \in Futures, NEW e \in Sides, NEW x \in {"host", "guest"}
  PROVE  Issues(t, [t EXCEPT !.op[e] = x, !.event[e] = "none"], e, x)
<1> DEFINE s == [t EXCEPT !.op[e] = x, !.event[e] = "none"]
<1>1. /\ [t.op EXCEPT ![e] = x] \in [Sides -> {"none", "host", "guest"}]
      /\ [t.event EXCEPT ![e] = "none"] \in [Sides -> FutureEvents]
  BY FutureFields DEF FutureEvents, FutureResults
<1>2. s \in Futures
  BY <1>1, ZenonT(60) DEF Futures
<1>3. QED
  BY <1>2, SMTT(60) DEF Futures, Issues

LEMMA HostIssues ==
  ASSUME NEW t \in Futures, NEW e \in Sides, t.event[e] = "none"
  PROVE  Issues(t, [t EXCEPT !.op[e] = "host"], e, "host")
<1> DEFINE s == [t EXCEPT !.op[e] = "host"]
<1>1. /\ [t.op EXCEPT ![e] = "host"] \in [Sides -> {"none", "host", "guest"}]
      /\ [t.event EXCEPT ![e] = "none"] = t.event
  BY FutureFields, SMTT(60)
<1>2. s \in Futures
  BY <1>1, ZenonT(60) DEF Futures
<1>3. QED
  BY <1>1, <1>2, SMTT(60) DEF Futures, Issues

\* An end with nothing under way, whose holder x can issue an operation.
FreeFor(t, e, x) ==
  t.op[e] = "none" /\ t.result[e] = "none" /\ ~t.done[e] /\ ~t.left[e] /\ x \in {"host", "guest"}

\* What an arrival at the end e makes of the future t: the readable end is
\* gone, the operation parks, or it meets the one that is parked.
Late(t, v, e, x) ==
  /\ t.dropped /\ v.slot = t.slot /\ v.copied = t.copied
  /\ v.op[e] = "none" /\ v.result[e] = IF x = "host" THEN "DROPPED" ELSE "none"
  /\ v.op[Other(e)] = t.op[Other(e)] /\ v.result[Other(e)] = t.result[Other(e)]
Parks(t, v, e, x) ==
  /\ ~t.dropped /\ v.slot = e /\ v.copied = t.copied
  /\ t.slot = "none" /\ v.op[e] = x /\ v.result[e] = "none"
  /\ v.op[Other(e)] = t.op[Other(e)] /\ v.result[Other(e)] = t.result[Other(e)]
Meets(t, v, e, x) ==
  LET f == Other(e) IN
  /\ ~t.dropped /\ t.slot = f /\ v.slot = "none" /\ v.copied = 1
  /\ v.op[e] = "none" /\ v.result[e] = IF x = "host" THEN "COMPLETED" ELSE "none"
  /\ v.op[f] = IF t.op[f] = "host" THEN "none" ELSE t.op[f]
  /\ v.result[f] = IF t.op[f] = "host" THEN "COMPLETED" ELSE t.result[f]
Arrived(t, v, e, x) ==
  /\ v.dropped = t.dropped /\ v.cause = t.cause /\ v.poisoned = t.poisoned
  /\ v.blamed = t.blamed /\ v.revoked = t.revoked
  /\ Late(t, v, e, x) \/ Parks(t, v, e, x) \/ Meets(t, v, e, x)

\* A write to a future whose readable end is gone is told so at once.
LEMMA LateArrival ==
  ASSUME NEW t \in Futures, NEW o, NEW rdr, NEW u, FutureSound(t, o, rdr, u), t.dropped,
         NEW x, FreeFor(t, "w", x), o = x, NEW s, Issues(t, s, "w", x)
  PROVE  LET v == FutureArrives(s, "w") IN
         v \in Futures /\ FutureSound(v, o, rdr, u) /\ Arrived(t, v, "w", x)
<1> DEFINE v == FutureArrives(s, "w")
           d == OpDone(s, "w", "DROPPED")
<1>1. s \in Futures /\ s.dropped /\ s.op["w"] = x /\ "w" \in Sides /\ "DROPPED" \in FutureResults
  BY FutureFields DEF Issues, Sides, FutureResults
<1>2. v = Taken(d, "w")
  BY <1>1 DEF FutureArrives
<1>3. EndSound(t, HeldBy(o, rdr, "w"), u["w"], "w") /\ CauseSound(t, u) /\ ArmSound(t, o, rdr)
  BY <1>1 DEF FutureSound, FutureCore
<1>4. t.slot # "w"
  BY <1>3 DEF EndSound
<1>5. t.act.closed
  BY <1>3 DEF CauseSound
<1>6. Closed(t.act) = t.act
  BY <1>3, <1>5, FutureFields, ActivityKept DEF ArmSound
<1> SUFFICES
      /\ /\ v.op = t.op /\ v.event = [t.event EXCEPT !["w"] = "none"]
         /\ v.result = [t.result EXCEPT !["w"] = IF x = "host" THEN "DROPPED" ELSE "none"]
         /\ v.done = [t.done EXCEPT !["w"] = (x = "guest")]
         /\ v.delivered = t.delivered /\ v.act = t.act
      /\ /\ v.slot = t.slot /\ v.dropped = t.dropped /\ v.abandoned = t.abandoned
         /\ v.left = t.left /\ v.lowered = t.lowered
         /\ v.poisoned = t.poisoned /\ v.blamed = t.blamed /\ v.copied = t.copied
         /\ v.cause = t.cause /\ v.revoked = t.revoked /\ v.stale = t.stale /\ v \in Futures
  <2> HIDE DEF v, d
  <2>1. /\ v.event["w"] = "none" /\ v.event["r"] = t.event["r"]
        /\ v.result["w"] = (IF x = "host" THEN "DROPPED" ELSE "none") /\ v.result["r"] = t.result["r"]
        /\ v.done["w"] = (x = "guest") /\ v.done["r"] = t.done["r"]
    BY FutureFields DEF Sides
  <2>2. ASSUME NEW e \in Sides PROVE EndSound(v, HeldBy(o, rdr, e), u[e], e)
    <3>1. EndSound(t, HeldBy(o, rdr, e), u[e], e)
      BY DEF FutureSound, FutureCore
    <3>2. CASE e = "r"
      BY <2>1, <3>1, <3>2 DEF EndSound
    <3>3. CASE e = "w" /\ x = "host"
      BY <1>4, <2>1, <3>1, <3>3 DEF EndSound, HeldBy, FreeFor
    <3>4. CASE e = "w" /\ x = "guest"
      BY <1>4, <2>1, <3>1, <3>4 DEF EndSound, HeldBy, FreeFor
    <3>5. QED
      BY <3>2, <3>3, <3>4 DEF Sides, FreeFor
  <2>3. CauseSound(v, u) /\ ToldSound(v, o, rdr, u) /\ ArmSound(v, o, rdr) /\ EndedSound(v, o, rdr, u)
    BY <2>1 DEF FutureSound, FutureCore, CauseSound, ToldSound, ArmSound, EndedSound
  <2>4. CopiedSound(v, o, rdr)
    BY <2>1, ZenonT(60) DEF FutureSound, FutureCore, CopiedSound, FreeFor
  <2>5. Arrived(t, v, "w", x)
    BY <2>1 DEF Arrived, Late, Other, FreeFor
  <2>6. QED
    BY <2>2, <2>3, <2>4, <2>5 DEF FutureSound, FutureCore, v
<1>7. CASE x = "host"
  <2>1. d = HostDone(s, "w", "DROPPED")
    BY <1>1, <1>7 DEF OpDone
  <2>2. HostEnds(s, d, "w", "DROPPED")
    BY <1>1, <2>1, HostDoneFields
  <2> HIDE DEF d
  <2>3. d.op["w"] = "none"
    BY <1>1, <2>2, FutureFields DEF HostEnds
  <2>4. v = d
    BY <1>2, <2>3 DEF Taken
  <2> HIDE DEF v
  <2>5. /\ v.op = t.op /\ v.event = [t.event EXCEPT !["w"] = "none"]
        /\ v.result = [t.result EXCEPT !["w"] = "DROPPED"]
        /\ v.done = [t.done EXCEPT !["w"] = FALSE]
        /\ v.delivered = t.delivered /\ v.act = t.act
    BY <1>1, <1>6, <2>2, <2>4, FutureFields DEF HostEnds, Issues, FreeFor
  <2>6. /\ v.slot = t.slot /\ v.dropped = t.dropped /\ v.abandoned = t.abandoned
        /\ v.left = t.left /\ v.lowered = t.lowered
        /\ v.poisoned = t.poisoned /\ v.blamed = t.blamed /\ v.copied = t.copied
        /\ v.cause = t.cause /\ v.revoked = t.revoked /\ v.stale = t.stale /\ v \in Futures
    BY <2>2, <2>4 DEF HostEnds, Issues
  <2>7. QED
    BY <1>7, <2>5, <2>6
<1>8. CASE x = "guest"
  <2>1. d = GuestDone(s, "w", "DROPPED")
    BY <1>1, <1>8 DEF OpDone
  <2>2. GuestFinishes(s, d, "w", "DROPPED")
    BY <1>1, <2>1, GuestDoneFields
  <2> HIDE DEF d
  <2>3. d.op["w"] = "guest" /\ d.event["w"] = "DROPPED" /\ d \in Futures
    BY <1>1, <1>8, <2>2, FutureFields DEF GuestFinishes
  <2>4. Takes(d, v, "w")
    BY <1>1, <1>2, <2>3, TakenFields
  <2> HIDE DEF v
  <2>5. /\ v.op = t.op /\ v.event = [t.event EXCEPT !["w"] = "none"]
        /\ v.result = [t.result EXCEPT !["w"] = "none"]
        /\ v.done = [t.done EXCEPT !["w"] = TRUE]
        /\ v.delivered = t.delivered /\ v.act = t.act
    BY <1>1, <2>2, <2>4, FutureFields DEF GuestFinishes, Takes, Issues, FreeFor
  <2>6. /\ v.slot = t.slot /\ v.dropped = t.dropped /\ v.abandoned = t.abandoned
        /\ v.left = t.left /\ v.lowered = t.lowered
        /\ v.poisoned = t.poisoned /\ v.blamed = t.blamed /\ v.copied = t.copied
        /\ v.cause = t.cause /\ v.revoked = t.revoked /\ v.stale = t.stale /\ v \in Futures
    BY <2>2, <2>4 DEF GuestFinishes, Takes, Issues
  <2>7. QED
    BY <1>8, <2>5, <2>6
<1>9. QED
  BY <1>7, <1>8 DEF FreeFor

\* An operation that finds nobody parks in the slot.
LEMMA ParkingArrival ==
  ASSUME NEW t \in Futures, NEW o, NEW rdr, NEW u, FutureSound(t, o, rdr, u), ~t.dropped,
         t.slot = "none", t.copied = 0,
         NEW e \in Sides, NEW x, FreeFor(t, e, x), HeldBy(o, rdr, e) = x, NEW s, Issues(t, s, e, x)
  PROVE  LET v == FutureArrives(s, e) IN
         v \in Futures /\ FutureSound(v, o, rdr, u) /\ Arrived(t, v, e, x)
<1> DEFINE v == [s EXCEPT !.slot = e]
<1>1. FutureArrives(s, e) = v
  BY DEF FutureArrives, Issues
<1>2. v \in Futures
  BY ZenonT(60) DEF Futures, Issues
<1>3. /\ v.slot = e /\ v.op = s.op /\ v.event = s.event /\ v.dropped = s.dropped
      /\ v.abandoned = s.abandoned /\ v.result = s.result /\ v.done = s.done /\ v.left = s.left
      /\ v.delivered = s.delivered /\ v.lowered = s.lowered /\ v.poisoned = s.poisoned
      /\ v.blamed = s.blamed /\ v.act = s.act /\ v.copied = s.copied /\ v.cause = s.cause
      /\ v.revoked = s.revoked /\ v.stale = s.stale
  BY SMTT(60) DEF Futures, Issues
<1> HIDE DEF v
<1>4. /\ v.op = [t.op EXCEPT ![e] = x] /\ v.event = [t.event EXCEPT ![e] = "none"]
      /\ v.dropped = t.dropped /\ v.abandoned = t.abandoned
      /\ v.result = t.result /\ v.done = t.done /\ v.left = t.left /\ v.delivered = t.delivered
      /\ v.lowered = t.lowered /\ v.poisoned = t.poisoned /\ v.blamed = t.blamed /\ v.act = t.act
      /\ v.copied = t.copied /\ v.cause = t.cause /\ v.revoked = t.revoked /\ v.stale = t.stale
  BY <1>3 DEF Issues
<1>5. /\ v.op[e] = x /\ v.op[Other(e)] = t.op[Other(e)]
      /\ v.event[e] = "none" /\ v.event[Other(e)] = t.event[Other(e)]
  BY <1>4, FutureFields DEF Sides, Other
<1>6. ASSUME NEW f \in Sides PROVE EndSound(v, HeldBy(o, rdr, f), u[f], f)
  <2>1. EndSound(t, HeldBy(o, rdr, f), u[f], f)
    BY DEF FutureSound, FutureCore
  <2>2. QED
    BY <1>3, <1>4, <1>5, <2>1 DEF EndSound, Sides, Other, FreeFor
<1>7. CauseSound(v, u) /\ ArmSound(v, o, rdr) /\ EndedSound(v, o, rdr, u)
  BY <1>4 DEF FutureSound, FutureCore, CauseSound, ArmSound, EndedSound
<1>8. ToldSound(v, o, rdr, u)
  BY <1>4, <1>5 DEF FutureSound, FutureCore, ToldSound, Sides, Other
<1>9. CopiedSound(v, o, rdr)
  BY <1>4 DEF FutureSound, FutureCore, CopiedSound
<1>10. Arrived(t, v, e, x)
  BY <1>3, <1>4, <1>5 DEF Arrived, Parks, FreeFor
<1>11. QED
  BY <1>1, <1>2, <1>6, <1>7, <1>8, <1>9, <1>10 DEF FutureSound, FutureCore

\* One party of a copy is told: its operation ends, or its event is set.
Completes(t, v, e) ==
  /\ v.op = [t.op EXCEPT ![e] = IF t.op[e] = "host" THEN "none" ELSE t.op[e]]
  /\ v.result = [t.result EXCEPT ![e] = IF t.op[e] = "host" THEN "COMPLETED" ELSE t.result[e]]
  /\ v.event = [t.event EXCEPT ![e] = IF t.op[e] = "host" THEN t.event[e] ELSE "COMPLETED"]
  /\ v.delivered = (t.delivered \/ t.op[e] = "host")
  /\ v \in Futures /\ v.act = t.act
  /\ v.slot = t.slot /\ v.dropped = t.dropped /\ v.abandoned = t.abandoned
  /\ v.done = t.done /\ v.left = t.left /\ v.lowered = t.lowered
  /\ v.poisoned = t.poisoned /\ v.blamed = t.blamed /\ v.copied = t.copied
  /\ v.cause = t.cause /\ v.revoked = t.revoked /\ v.stale = t.stale

LEMMA CompletedFields ==
  ASSUME NEW t \in Futures, NEW e \in Sides,
         t.act.armed <=> t.act.bound /\ ~t.act.closed /\ ~t.act.disarmed
  PROVE  Completes(t, OpDone(t, e, "COMPLETED"), e)
<1> DEFINE v == OpDone(t, e, "COMPLETED")
<1>1. "COMPLETED" \in FutureResults /\ Notified(t.act) = t.act
  BY FutureFields, ActivityKept DEF FutureResults
<1>2. CASE t.op[e] = "host"
  <2>1. HostEnds(t, v, e, "COMPLETED")
    BY <1>1, <1>2, HostDoneFields DEF OpDone
  <2> HIDE DEF v
  <2>2. QED
    BY <1>1, <1>2, <2>1, FutureFields DEF HostEnds, Completes, v
<1>3. CASE t.op[e] # "host"
  <2>1. GuestFinishes(t, v, e, "COMPLETED")
    BY <1>1, <1>3, GuestDoneFields DEF OpDone
  <2> HIDE DEF v
  <2>2. QED
    BY <1>1, <1>3, <2>1, FutureFields DEF GuestFinishes, Completes, v
<1>4. QED
  BY <1>2, <1>3

\* An operation that finds its peer parked copies the value: both are told.
LEMMA MeetingArrival ==
  ASSUME NEW t \in Futures, NEW o, NEW rdr, NEW u, FutureSound(t, o, rdr, u), ~t.dropped,
         t.slot # "none",
         NEW e \in Sides, NEW x, FreeFor(t, e, x), HeldBy(o, rdr, e) = x, NEW s, Issues(t, s, e, x)
  PROVE  LET v == FutureArrives(s, e) IN
         v \in Futures /\ FutureSound(v, o, rdr, u) /\ Arrived(t, v, e, x)
<1> DEFINE f == Other(e)
           k == s.copied + 1
           a == [s EXCEPT !.slot = "none", !.copied = k]
           b == OpDone(a, f, "COMPLETED")
           c == OpDone(b, e, "COMPLETED")
           v == FutureArrives(s, e)
<1>1. /\ f \in Sides /\ f # e /\ Sides = {e, f}
  BY DEF Sides, Other
<1>2. t.slot = f /\ s.slot = f /\ ~s.dropped
  <2>1. EndSound(t, HeldBy(o, rdr, e), u[e], e)
    BY DEF FutureSound, FutureCore
  <2>2. t.slot # e
    BY <2>1 DEF EndSound, FreeFor
  <2>3. QED
    BY <1>1, <2>2, FutureFields DEF Issues
<1>3. EndSound(t, HeldBy(o, rdr, f), u[f], f)
  BY <1>1 DEF FutureSound, FutureCore
<1>4. /\ t.copied = 0 /\ t.op[f] \in {"host", "guest"} /\ t.op[f] = HeldBy(o, rdr, f)
      /\ t.event[f] = "none" /\ t.result[f] = "none" /\ ~t.done[f] /\ ~t.left[f]
  BY <1>1, <1>2, <1>3, FutureFields DEF EndSound
<1>5. v = Taken(c, e)
  BY <1>1, <1>2 DEF FutureArrives, Sides
<1>6. k \in Nat /\ k = 1 /\ s \in Futures
  BY <1>4, FutureFields, SMTT(60) DEF Issues
<1> HIDE DEF k
<1>7. a \in Futures
  BY <1>6, ZenonT(60) DEF Futures
<1>8. /\ a.slot = "none" /\ a.copied = 1
      /\ a.op = s.op /\ a.event = s.event /\ a.dropped = s.dropped
      /\ a.abandoned = s.abandoned /\ a.result = s.result /\ a.done = s.done /\ a.left = s.left
      /\ a.delivered = s.delivered /\ a.lowered = s.lowered /\ a.poisoned = s.poisoned
      /\ a.blamed = s.blamed /\ a.act = s.act /\ a.cause = s.cause
      /\ a.revoked = s.revoked /\ a.stale = s.stale
  BY <1>6, SMTT(60) DEF Futures
<1> HIDE DEF a
<1>9. a.act.armed <=> a.act.bound /\ ~a.act.closed /\ ~a.act.disarmed
  <2>1. t.act.armed <=> t.act.bound /\ ~t.act.closed /\ ~t.act.disarmed
    BY DEF FutureSound, FutureCore, ArmSound
  <2>2. a.act = t.act
    BY <1>8 DEF Issues
  <2>3. QED
    BY <2>1, <2>2
<1>10. Completes(a, b, f)
  BY <1>1, <1>7, <1>9, CompletedFields
<1> HIDE DEF b
<1>11. b.act.armed <=> b.act.bound /\ ~b.act.closed /\ ~b.act.disarmed
  BY <1>9, <1>10 DEF Completes
<1>12. Completes(b, c, e)
  <2>1. b \in Futures
    BY <1>10 DEF Completes
  <2>2. QED
    BY <1>11, <2>1, CompletedFields
<1> HIDE DEF c
<1>13. /\ a.op[e] = x /\ a.op[f] = t.op[f] /\ a.result[e] = "none" /\ a.result[f] = "none"
       /\ a.event[e] = "none" /\ a.event[f] = "none" /\ ~a.delivered
  <2>1. ~t.delivered
    BY <1>4 DEF FutureSound, FutureCore, CopiedSound
  <2>2. QED
    BY <1>1, <1>4, <1>8, <2>1, FutureFields DEF Issues, FreeFor
<1>14. /\ b.op[e] = x /\ b.op[f] = (IF t.op[f] = "host" THEN "none" ELSE "guest")
       /\ b.result[e] = "none" /\ b.result[f] = (IF t.op[f] = "host" THEN "COMPLETED" ELSE "none")
       /\ b.event[e] = "none" /\ b.event[f] = (IF t.op[f] = "host" THEN "none" ELSE "COMPLETED")
       /\ b.delivered = (t.op[f] = "host")
  BY <1>1, <1>4, <1>7, <1>10, <1>13, FutureFields DEF Completes
<1>15. /\ c.op[e] = (IF x = "host" THEN "none" ELSE "guest") /\ c.op[f] = b.op[f]
       /\ c.result[e] = (IF x = "host" THEN "COMPLETED" ELSE "none") /\ c.result[f] = b.result[f]
       /\ c.event[e] = (IF x = "host" THEN "none" ELSE "COMPLETED") /\ c.event[f] = b.event[f]
       /\ c.delivered = (t.op[f] = "host" \/ x = "host")
  BY <1>1, <1>10, <1>12, <1>14, FutureFields DEF FreeFor, Completes
<1>16. /\ c.slot = "none" /\ c.copied = 1 /\ c.dropped = t.dropped
       /\ c.abandoned = t.abandoned /\ c.done = t.done /\ c.left = t.left
       /\ c.lowered = t.lowered /\ c.poisoned = t.poisoned
       /\ c.blamed = t.blamed /\ c.act = t.act /\ c.cause = t.cause
       /\ c.revoked = t.revoked /\ c.stale = t.stale
  BY <1>8, <1>10, <1>12 DEF Issues, Completes
<1>17. /\ /\ v.op[e] = "none" /\ v.event[e] = "none" /\ v.done[e] = (x = "guest")
          /\ v.result[e] = (IF x = "host" THEN "COMPLETED" ELSE "none")
          /\ v.op[f] = c.op[f] /\ v.event[f] = c.event[f] /\ v.done[f] = t.done[f]
          /\ v.result[f] = c.result[f] /\ v.delivered = c.delivered /\ v \in Futures
       /\ /\ v.slot = "none" /\ v.copied = 1 /\ v.dropped = t.dropped
          /\ v.abandoned = t.abandoned /\ v.left = t.left
          /\ v.lowered = t.lowered /\ v.poisoned = t.poisoned
          /\ v.blamed = t.blamed /\ v.act = t.act /\ v.cause = t.cause
          /\ v.revoked = t.revoked /\ v.stale = t.stale
  <2>1. CASE x = "host"
    <3>1. v = c
      BY <1>5, <1>15, <2>1 DEF Taken
    <3> HIDE DEF v
    <3>2. t.done[e] = FALSE
      BY FutureFields DEF FreeFor
    <3>3. QED
      BY <1>12, <1>15, <1>16, <2>1, <3>1, <3>2 DEF Completes
  <2>2. CASE x = "guest"
    <3>1. c.op[e] = "guest" /\ c.event[e] # "none" /\ c \in Futures
      BY <1>12, <1>15, <2>2 DEF Completes
    <3>2. Takes(c, v, e)
      BY <1>5, <3>1, TakenFields
    <3> HIDE DEF v
    <3>3. QED
      BY <1>1, <1>12, <1>15, <1>16, <2>2, <3>2, FutureFields DEF Takes, Completes
  <2>3. QED
    BY <2>1, <2>2 DEF FreeFor
<1> HIDE DEF v
<1>18. EndSound(v, HeldBy(o, rdr, e), u[e], e)
  <2>1. CASE x = "host"
    BY <1>17, <2>1 DEF EndSound, FreeFor, Sides
  <2>2. CASE x = "guest"
    BY <1>17, <2>2 DEF EndSound, FreeFor, Sides
  <2>3. QED
    BY <2>1, <2>2 DEF FreeFor
<1> HIDE DEF f
<1>19. EndSound(v, HeldBy(o, rdr, f), u[f], f)
  <2>0. f # "none"
    BY <1>1 DEF Sides
  <2>1. CASE t.op[f] = "host"
    BY <2>0, <1>4, <1>14, <1>15, <1>17, <2>1 DEF EndSound
  <2>2. CASE t.op[f] = "guest"
    BY <2>0, <1>4, <1>14, <1>15, <1>17, <2>2 DEF EndSound
  <2>3. QED
    BY <1>4, <2>1, <2>2
<1>20. CauseSound(v, u) /\ ArmSound(v, o, rdr) /\ EndedSound(v, o, rdr, u)
  BY <1>17 DEF FutureSound, FutureCore, CauseSound, ArmSound, EndedSound
<1>21. ToldSound(v, o, rdr, u)
  BY <1>4, <1>14, <1>15, <1>17 DEF ToldSound, Sides, Other, HeldBy, f
<1>22. CopiedSound(v, o, rdr)
  <2>1. \/ e = "r" /\ f = "w" /\ rdr = x /\ o = t.op["w"]
        \/ e = "w" /\ f = "r" /\ o = x /\ rdr = t.op["r"]
    BY <1>4 DEF Sides, Other, HeldBy, f
  <2>2. v.delivered <=> rdr = "host" \/ o = "host"
    BY <1>4, <1>15, <1>17, <2>1, ZenonT(60)
  <2>3. rdr # "call"
    BY <1>4, <2>1 DEF FreeFor
  <2>4. rdr = "guest" => v.done["r"] \/ v.event["r"] = "COMPLETED"
    BY <1>14, <1>15, <1>17, <2>1, ZenonT(60)
  <2>5. o = "guest" => v.done["w"] \/ v.event["w"] = "COMPLETED"
    BY <1>14, <1>15, <1>17, <2>1, ZenonT(60)
  <2>6. QED
    BY <1>17, <2>2, <2>3, <2>4, <2>5 DEF CopiedSound
<1>23. Arrived(t, v, e, x)
  BY <1>2, <1>4, <1>14, <1>15, <1>17 DEF Arrived, Meets, f
<1>24. QED
  <2>1. \A g \in Sides : EndSound(v, HeldBy(o, rdr, g), u[g], g)
    BY <1>1, <1>18, <1>19
  <2>2. QED
    BY <1>17, <1>20, <1>21, <1>22, <1>23, <2>1 DEF FutureSound, FutureCore, v

\* SharedFutureImpl.read and write keep the invariant.
LEMMA Arrives ==
  ASSUME NEW t \in Futures, NEW o, NEW rdr, NEW u, FutureSound(t, o, rdr, u),
         NEW e \in Sides, NEW x, FreeFor(t, e, x), HeldBy(o, rdr, e) = x,
         t.dropped => e = "w", ~t.dropped => t.copied = 0,
         NEW s, Issues(t, s, e, x)
  PROVE  LET v == FutureArrives(s, e) IN
         v \in Futures /\ FutureSound(v, o, rdr, u) /\ Arrived(t, v, e, x)
<1>1. CASE t.dropped
  BY <1>1, LateArrival DEF HeldBy
<1>2. CASE ~t.dropped /\ t.slot = "none"
  BY <1>2, ParkingArrival
<1>3. CASE ~t.dropped /\ t.slot # "none"
  BY <1>3, MeetingArrival
<1>4. QED
  BY <1>1, <1>2, <1>3

\* What a drop makes of the future t: the parked operation ends, and a
\* guest that is notified has an event if it had none.
Parked(t, e, kind) == t.slot = e /\ t.op[e] = kind
Notifies(t, e, notified) ==
  e \in notified /\ Side(e) # "host" /\ ~t.done[e] /\ t.event[e] = "none"
Drops(t, v, by, notified) ==
  /\ v \in Futures /\ v.dropped /\ v.slot = "none" /\ v.cause = by /\ v.act = Closed(t.act)
  /\ v.abandoned = t.abandoned /\ v.done = t.done /\ v.left = t.left
  /\ v.delivered = t.delivered /\ v.lowered = t.lowered /\ v.poisoned = t.poisoned
  /\ v.blamed = t.blamed /\ v.copied = t.copied /\ v.revoked = t.revoked /\ v.stale = t.stale
  /\ \A e \in Sides :
       /\ v.op[e] = IF Parked(t, e, "host") THEN "none" ELSE t.op[e]
       /\ v.result[e] = IF Parked(t, e, "host") THEN "DROPPED" ELSE t.result[e]
       /\ v.event[e] =
            IF t.slot = e /\ t.op[e] # "host"
              THEN IF e = "r" /\ t.abandoned THEN "trap" ELSE "DROPPED"
            ELSE IF Notifies(t, e, notified)
                   THEN IF e = "r" /\ t.abandoned THEN "trap" ELSE "idleDrop"
                   ELSE t.event[e]

\* SharedFutureImpl.drop, field by field.
LEMMA DropFields ==
  ASSUME NEW t \in Futures, ~t.dropped, NEW notified \in SUBSET Sides,
         NEW by \in {"host", "guest", "producer", "trap"}
  PROVE  Drops(t, FutureDropped(t, by, notified), by, notified)
<1> DEFINE a == [t EXCEPT !.dropped = TRUE, !.slot = "none", !.cause = by]
           b == IF t.slot = "none" THEN a ELSE OpDone(a, t.slot, "DROPPED")
           idle == {e \in notified : Side(e) # "host" /\ ~b.done[e] /\ b.event[e] = "none"}
           n == [e \in Sides |-> IF e \notin idle THEN b.event[e]
                                 ELSE IF e = "r" /\ b.abandoned THEN "trap" ELSE "idleDrop"]
           v == [b EXCEPT !.act = Closed(@), !.event = n]
<1>1. FutureDropped(t, by, notified) = v
  BY DEF FutureDropped
<1>2. a \in Futures
  BY FutureFields, ZenonT(60) DEF Futures
<1>3. /\ a.slot = "none" /\ a.dropped = TRUE /\ a.cause = by
      /\ a.op = t.op /\ a.event = t.event
      /\ a.abandoned = t.abandoned /\ a.result = t.result /\ a.done = t.done /\ a.left = t.left
      /\ a.delivered = t.delivered /\ a.lowered = t.lowered /\ a.poisoned = t.poisoned
      /\ a.blamed = t.blamed /\ a.act = t.act /\ a.copied = t.copied
      /\ a.revoked = t.revoked /\ a.stale = t.stale
  BY SMTT(60) DEF Futures
<1> HIDE DEF a
<1>4. Closed(Closed(t.act)) = Closed(t.act)
  BY FutureFields, ZenonT(60) DEF Activities, Closed
<1>5. /\ b \in Futures /\ b.slot = "none" /\ b.dropped = TRUE /\ b.cause = by
      /\ Closed(b.act) = Closed(t.act)
      /\ b.abandoned = t.abandoned /\ b.done = t.done /\ b.left = t.left
      /\ b.delivered = t.delivered /\ b.lowered = t.lowered /\ b.poisoned = t.poisoned
      /\ b.blamed = t.blamed /\ b.copied = t.copied
      /\ b.revoked = t.revoked /\ b.stale = t.stale
      /\ \A e \in Sides :
           /\ b.op[e] = IF Parked(t, e, "host") THEN "none" ELSE t.op[e]
           /\ b.result[e] = IF Parked(t, e, "host") THEN "DROPPED" ELSE t.result[e]
           /\ b.event[e] = IF t.slot = e /\ t.op[e] # "host"
                             THEN IF e = "r" /\ t.abandoned THEN "trap" ELSE "DROPPED"
                             ELSE t.event[e]
  <2> DEFINE f == t.slot
  <2>0. "DROPPED" \in FutureResults /\ "none" \notin Sides
    BY DEF FutureResults, Sides
  <2>1. CASE f = "none"
    BY <1>2, <1>3, <2>0, <2>1 DEF Parked
  <2>2. CASE f # "none" /\ t.op[f] = "host"
    <3>1. f \in Sides /\ b = HostDone(a, f, "DROPPED")
      BY <1>3, <2>2, FutureFields DEF OpDone
    <3>2. HostEnds(a, b, f, "DROPPED")
      BY <1>2, <2>0, <3>1, HostDoneFields
    <3> HIDE DEF b
    <3>3. b.act = Closed(t.act) /\ b.delivered = t.delivered
      BY <1>3, <3>2, FutureFields DEF HostEnds
    <3>4. \A e \in Sides :
           /\ b.op[e] = IF Parked(t, e, "host") THEN "none" ELSE t.op[e]
           /\ b.result[e] = IF Parked(t, e, "host") THEN "DROPPED" ELSE t.result[e]
           /\ b.event[e] = IF t.slot = e /\ t.op[e] # "host"
                             THEN IF e = "r" /\ t.abandoned THEN "trap" ELSE "DROPPED"
                             ELSE t.event[e]
      BY <1>3, <2>2, <3>1, <3>2, FutureFields DEF HostEnds, Parked
    <3>5. QED
      BY <1>3, <1>4, <3>2, <3>3, <3>4 DEF HostEnds
  <2>3. CASE f # "none" /\ t.op[f] # "host"
    <3>1. f \in Sides /\ b = GuestDone(a, f, "DROPPED")
      BY <1>3, <2>3, FutureFields DEF OpDone
    <3>2. GuestFinishes(a, b, f, "DROPPED")
      BY <1>2, <2>0, <3>1, GuestDoneFields
    <3> HIDE DEF b
    <3>4. \A e \in Sides :
           /\ b.op[e] = IF Parked(t, e, "host") THEN "none" ELSE t.op[e]
           /\ b.result[e] = IF Parked(t, e, "host") THEN "DROPPED" ELSE t.result[e]
           /\ b.event[e] = IF t.slot = e /\ t.op[e] # "host"
                             THEN IF e = "r" /\ t.abandoned THEN "trap" ELSE "DROPPED"
                             ELSE t.event[e]
      BY <1>3, <2>3, <3>1, <3>2, FutureFields DEF GuestFinishes, Parked
    <3>5. QED
      BY <1>3, <3>2, <3>4 DEF GuestFinishes
  <2>4. QED
    BY <2>1, <2>2, <2>3
<1> HIDE DEF b
<1>6. n \in [Sides -> FutureEvents] /\ Closed(b.act) \in Activities
  BY <1>5, FutureFields, ActivityTypes DEF FutureEvents
<1>7. \A e \in Sides : n[e] = IF t.slot = e /\ t.op[e] # "host"
              THEN IF e = "r" /\ t.abandoned THEN "trap" ELSE "DROPPED"
            ELSE IF Notifies(t, e, notified)
                   THEN IF e = "r" /\ t.abandoned THEN "trap" ELSE "idleDrop"
                   ELSE t.event[e]
  BY <1>5, ZenonT(60) DEF Notifies
<1> HIDE DEF n
<1>8. v \in Futures
  BY <1>5, <1>6, ZenonT(60) DEF Futures
<1>9. /\ v.act = Closed(b.act) /\ v.event = n
      /\ v.slot = b.slot /\ v.dropped = b.dropped /\ v.cause = b.cause /\ v.op = b.op
      /\ v.abandoned = b.abandoned /\ v.result = b.result /\ v.done = b.done /\ v.left = b.left
      /\ v.delivered = b.delivered /\ v.lowered = b.lowered /\ v.poisoned = b.poisoned
      /\ v.blamed = b.blamed /\ v.copied = b.copied
      /\ v.revoked = b.revoked /\ v.stale = b.stale
  BY <1>5, SMTT(60) DEF Futures
<1> HIDE DEF v
<1>10. QED
  BY <1>1, <1>5, <1>7, <1>8, <1>9 DEF Drops

\* A drop keeps the invariant, if the guest that reads, should it be told, is
\* told by a trap, or has its value.
LEMMA DropSound ==
  ASSUME NEW t \in Futures, NEW u, NEW notified \in SUBSET Sides,
         NEW by \in {"host", "guest", "producer", "trap"},
         origin \in {"host", "guest"},
         FutureCore(t, origin, reader, u), ~t.dropped,
         by = "producer" => t.blamed, by = "trap" => t.poisoned,
         reader = "guest" /\ u["r"] => \/ t.abandoned \/ t.copied = 1
                                       \/ "r" \notin notified /\ t.slot # "r",
         NEW v, Drops(t, v, by, notified)
  PROVE  FutureSound(v, origin, reader, u)
<1>1. ASSUME NEW e \in Sides PROVE EndSound(v, HeldBy(origin, reader, e), u[e], e)
  <2>1. EndSound(t, HeldBy(origin, reader, e), u[e], e)
    BY DEF FutureCore
  <2>2. e # "none" /\ t.op[e] \in {"none", "host", "guest"} /\ Side(e) = HeldBy(origin, reader, e)
    BY FutureFields, SideHeld DEF Sides
  <2>3. /\ v.slot = "none" /\ v.dropped /\ v.copied = t.copied /\ v.done = t.done /\ v.left = t.left
        /\ v.op[e] = IF Parked(t, e, "host") THEN "none" ELSE t.op[e]
        /\ v.result[e] = IF Parked(t, e, "host") THEN "DROPPED" ELSE t.result[e]
        /\ v.event[e] =
            IF t.slot = e /\ t.op[e] # "host"
              THEN IF e = "r" /\ t.abandoned THEN "trap" ELSE "DROPPED"
            ELSE IF Notifies(t, e, notified)
                   THEN IF e = "r" /\ t.abandoned THEN "trap" ELSE "idleDrop"
                   ELSE t.event[e]
    BY DEF Drops
  <2>4. CASE t.slot = e /\ t.op[e] = "host"
    BY <2>1, <2>2, <2>3, <2>4 DEF EndSound, Parked, Notifies
  <2>5. CASE t.slot = e /\ t.op[e] # "host"
    BY <2>1, <2>2, <2>3, <2>5 DEF EndSound, Parked, Notifies
  <2>6. CASE t.slot # e /\ Notifies(t, e, notified)
    BY <2>1, <2>2, <2>3, <2>6 DEF EndSound, Parked, Notifies
  <2>7. CASE t.slot # e /\ ~Notifies(t, e, notified)
    BY <2>1, <2>2, <2>3, <2>7 DEF EndSound, Parked
  <2>8. QED
    BY <2>4, <2>5, <2>6, <2>7
<1>2. v.act.closed /\ ~v.act.armed /\ v.act.bound = t.act.bound /\ v.act.disarmed = t.act.disarmed
  <2>1. ASSUME NEW a \in Activities
        PROVE  /\ Closed(a).closed /\ ~Closed(a).armed
               /\ Closed(a).bound = a.bound /\ Closed(a).disarmed = a.disarmed
    BY SMTT(60) DEF Closed, Activities
  <2>2. t.act \in Activities /\ v.act = Closed(t.act)
    BY FutureFields DEF Drops
  <2>3. QED
    BY <2>1, <2>2
<1>3. CauseSound(v, u) /\ ArmSound(v, origin, reader) /\ EndedSound(v, origin, reader, u)
  BY <1>2 DEF FutureCore, Drops, CauseSound, ArmSound, EndedSound
<1>4. EndSound(t, reader, u["r"], "r") /\ EndSound(t, origin, u["w"], "w")
  BY DEF FutureCore, HeldBy, Sides
<1>5. ToldSound(v, origin, reader, u)
  <2>1. \A e \in Sides : v.event[e] =
            IF t.slot = e /\ t.op[e] # "host"
              THEN IF e = "r" /\ t.abandoned THEN "trap" ELSE "DROPPED"
            ELSE IF Notifies(t, e, notified)
                   THEN IF e = "r" /\ t.abandoned THEN "trap" ELSE "idleDrop"
                   ELSE t.event[e]
    BY DEF Drops
  <2>2. /\ t.event["r"] \notin {"DROPPED", "idleDrop"}
        /\ t.event["w"] # "none" => origin = "guest"
    BY <1>4 DEF FutureCore, ToldSound, EndSound
  <2>3. v.event["r"] \in {"DROPPED", "idleDrop"}
          => ~t.abandoned /\ (t.slot = "r" \/ Notifies(t, "r", notified))
    BY <2>1, <2>2 DEF Sides
  <2>4. ASSUME v.event["r"] \in {"DROPPED", "idleDrop"}, reader = "guest", u["r"] PROVE FALSE
    <3>1. t.copied = 1
      BY <2>3, <2>4 DEF Notifies
    <3>2. t.done["r"] \/ t.event["r"] = "COMPLETED"
      BY <2>4, <3>1 DEF FutureCore, CopiedSound
    <3>3. QED
      BY <1>4, <2>3, <2>4, <3>1, <3>2 DEF EndSound, Notifies
  <2>5. v.event["w"] # "none" => origin = "guest"
    <3>1. "w" \in Sides /\ t.op["w"] \in {"none", "host", "guest"}
      BY FutureFields DEF Sides
    <3>2. t.slot = "w" /\ t.op["w"] # "host" => origin = "guest"
      BY <1>4, <3>1 DEF EndSound
    <3>3. Notifies(t, "w", notified) => origin = "guest"
      BY DEF Notifies, Side
    <3>4. QED
      BY <2>1, <2>2, <3>1, <3>2, <3>3
  <2>6. v.abandoned = t.abandoned
    BY DEF Drops
  <2>7. QED
    BY <2>3, <2>4, <2>5, <2>6 DEF ToldSound
<1>6. CopiedSound(v, origin, reader)
  BY <1>4 DEF FutureCore, Drops, CopiedSound, EndSound, Notifies, Sides, Side
<1>7. QED
  BY <1>1, <1>3, <1>5, <1>6 DEF FutureSound, FutureCore

\* An activity that is as it was.
LEMMA ActivitySame ==
  ASSUME NEW t \in Futures
  PROVE  [t EXCEPT !.act = t.act] = t
BY ZenonT(60) DEF Futures

\* A drop closes the activity: closing it again is idle, and so is telling an
\* activity whose arm is up to date.
LEMMA ActivityIdle ==
  ASSUME NEW t \in Futures, t.act.armed <=> t.act.bound /\ ~t.act.closed /\ ~t.act.disarmed
  PROVE  /\ [t EXCEPT !.act = Notified(@)] = t
         /\ t.act.closed => [t EXCEPT !.act = Closed(@)] = t
<1>1. Notified(t.act) = t.act /\ (t.act.closed => Closed(t.act) = t.act)
  BY FutureFields, ActivityKept
<1>2. QED
  BY <1>1, ActivitySame

\* A future that is t but for its marks: abandoned, failed by its producer.
Marks(t, a) ==
  /\ a \in Futures /\ a.slot = t.slot /\ a.dropped = t.dropped /\ a.op = t.op
  /\ a.result = t.result /\ a.event = t.event /\ a.done = t.done /\ a.left = t.left
  /\ a.delivered = t.delivered /\ a.lowered = t.lowered /\ a.poisoned = t.poisoned
  /\ a.act = t.act /\ a.copied = t.copied /\ a.cause = t.cause
  /\ a.revoked = t.revoked /\ a.stale = t.stale
  /\ t.blamed => a.blamed

\* What an end of the future t, made by the host or already there, has left.
EndGone(t, v) ==
  /\ v \in Futures /\ v.dropped /\ v.copied = t.copied /\ v.poisoned = t.poisoned
  /\ v.revoked = t.revoked /\ v.delivered = t.delivered
  /\ t.dropped => v.cause = t.cause
  /\ \A e \in Sides : /\ v.op[e] = IF t.op[e] = "host" THEN "none" ELSE t.op[e]
                      /\ v.result[e] = IF t.op[e] = "host" THEN "DROPPED" ELSE t.result[e]

LEMMA MarksFields ==
  ASSUME NEW t \in Futures
  PROVE  /\ Marks(t, t)
         /\ Marks(t, [t EXCEPT !.abandoned = TRUE]) /\ [t EXCEPT !.abandoned = TRUE].abandoned
         /\ [t EXCEPT !.abandoned = TRUE].blamed = t.blamed
         /\ Marks(t, [t EXCEPT !.blamed = TRUE]) /\ [t EXCEPT !.blamed = TRUE].blamed
         /\ [t EXCEPT !.blamed = TRUE].abandoned = t.abandoned
<1>1. Marks(t, t)
  BY DEF Marks
<1>2. [t EXCEPT !.abandoned = TRUE] \in Futures /\ [t EXCEPT !.blamed = TRUE] \in Futures
  BY ZenonT(60) DEF Futures
<1>3. /\ Marks(t, [t EXCEPT !.abandoned = TRUE]) /\ [t EXCEPT !.abandoned = TRUE].abandoned
      /\ [t EXCEPT !.abandoned = TRUE].blamed = t.blamed
  BY <1>2, SMTT(60) DEF Futures, Marks
<1>4. /\ Marks(t, [t EXCEPT !.blamed = TRUE]) /\ [t EXCEPT !.blamed = TRUE].blamed
      /\ [t EXCEPT !.blamed = TRUE].abandoned = t.abandoned
  BY <1>2, SMTT(60) DEF Futures, Marks
<1>5. QED
  BY <1>1, <1>3, <1>4

\* A drop by the host or by the producer keeps the invariant, the future
\* being marked as abandoned if a guest is to be told.
LEMMA MarkedDrop ==
  ASSUME NEW t \in Futures, NEW u, FutureSound(t, origin, reader, u), ~t.dropped,
         origin \in {"host", "guest"}, NEW a, Marks(t, a), NEW by \in {"host", "producer"},
         by = "producer" => a.blamed,
         reader = "guest" => a.abandoned \/ t.copied = 1
  PROVE  LET v == FutureDropped(a, by, Sides) IN
         /\ FutureSound(v, origin, reader, u) /\ EndGone(t, v) /\ v.cause = by
         /\ v.act.closed /\ v.blamed = a.blamed
<1> DEFINE v == FutureDropped(a, by, Sides)
<1>1. a \in Futures /\ ~a.dropped /\ Sides \in SUBSET Sides
  BY DEF Marks
<1>2. Drops(a, v, by, Sides)
  BY <1>1, DropFields
<1> HIDE DEF v
<1>3. ASSUME NEW e \in Sides
      PROVE  /\ EndSound(a, HeldBy(origin, reader, e), u[e], e)
             /\ v.op[e] = IF t.op[e] = "host" THEN "none" ELSE t.op[e]
             /\ v.result[e] = IF t.op[e] = "host" THEN "DROPPED" ELSE t.result[e]
  <2>1. EndSound(t, HeldBy(origin, reader, e), u[e], e)
    BY DEF FutureSound, FutureCore
  <2>2. EndSound(a, HeldBy(origin, reader, e), u[e], e)
    BY <2>1 DEF EndSound, Marks
  <2>3. t.op[e] = "host" => t.slot = e
    BY <2>1 DEF EndSound
  <2>4. /\ v.op[e] = IF Parked(a, e, "host") THEN "none" ELSE a.op[e]
        /\ v.result[e] = IF Parked(a, e, "host") THEN "DROPPED" ELSE a.result[e]
    BY <1>2 DEF Drops
  <2>5. QED
    BY <2>2, <2>3, <2>4 DEF Parked, Marks
<1>4. CauseSound(a, u) /\ ArmSound(a, origin, reader) /\ CopiedSound(a, origin, reader)
  BY DEF FutureSound, FutureCore, Marks, CauseSound, ArmSound, CopiedSound
<1>5. ToldSound(a, origin, reader, u)
  <2>1. EndSound(t, HeldBy(origin, reader, "r"), u["r"], "r") /\ ToldSound(t, origin, reader, u)
    BY DEF FutureSound, FutureCore, Sides
  <2>2. t.event["r"] \notin {"DROPPED", "idleDrop"} /\ a.event = t.event
    BY <2>1 DEF EndSound, Marks
  <2>3. QED
    BY <2>1, <2>2 DEF ToldSound
<1>6. FutureCore(a, origin, reader, u)
  BY <1>3, <1>4, <1>5 DEF FutureCore
<1>7. a.copied = t.copied
  BY DEF Marks
<1>8. FutureSound(v, origin, reader, u)
  BY <1>1, <1>2, <1>6, <1>7, DropSound
<1>9. v.act.closed
  BY <1>2, <1>8 DEF FutureSound, FutureCore, CauseSound, Drops
<1>10. EndGone(t, v)
  BY <1>2, <1>3 DEF Drops, Marks, EndGone
<1>11. v.cause = by /\ v.blamed = a.blamed
  BY <1>2 DEF Drops
<1>12. QED
  BY <1>8, <1>9, <1>10, <1>11 DEF v

\* HostFuture.drop.
LEMMA ReleasedSound ==
  ASSUME NEW t \in Futures, NEW u, FutureSound(t, origin, reader, u), origin \in {"host", "guest"}
  PROVE  LET v == Released(t) IN
         /\ FutureSound(v, origin, reader, u) /\ EndGone(t, v) /\ v.blamed = t.blamed
         /\ ~t.dropped => v.cause = "host"
<1> DEFINE v == Released(t)
           a == [t EXCEPT !.abandoned = TRUE]
           m == IF ~t.delivered /\ t.lowered THEN a ELSE t
           w == FutureDropped(m, "host", Sides)
<1>1. /\ ArmSound(t, origin, reader) /\ CopiedSound(t, origin, reader) /\ CauseSound(t, u)
      /\ \A e \in Sides : EndSound(t, HeldBy(origin, reader, e), u[e], e)
  BY DEF FutureSound, FutureCore
<1>2. CASE t.dropped
  <2>1. v = [t EXCEPT !.act = Closed(@)]
    BY <1>2 DEF Released, Abandoned, FutureDropped
  <2>2. t.act.closed
    BY <1>1, <1>2 DEF CauseSound
  <2>3. v = t
    BY <1>1, <2>1, <2>2, ActivityIdle DEF ArmSound
  <2>4. \A e \in Sides : t.op[e] # "host"
    BY <1>1, <1>2 DEF EndSound
  <2>5. EndGone(t, t)
    BY <1>2, <2>4 DEF EndGone
  <2>6. QED
    BY <1>2, <2>3, <2>5
<1>3. CASE ~t.dropped
  <2>1. v = [w EXCEPT !.act = Closed(@)]
    BY <1>3 DEF Released, Abandoned
  <2>2. Marks(t, m) /\ m.blamed = t.blamed /\ (m = a => m.abandoned)
    BY MarksFields, ZenonT(60)
  <2>3. reader = "guest" => m.abandoned \/ t.copied = 1
    BY <1>1, <2>2 DEF ArmSound, CopiedSound
  <2> HIDE DEF m
  <2>4. /\ FutureSound(w, origin, reader, u) /\ EndGone(t, w) /\ w.cause = "host"
        /\ w.act.closed /\ w.blamed = m.blamed
    BY <1>3, <2>2, <2>3, MarkedDrop
  <2> HIDE DEF w
  <2>5. w \in Futures /\ ArmSound(w, origin, reader)
    BY <2>4 DEF EndGone, FutureSound, FutureCore
  <2>6. v = w
    BY <2>1, <2>4, <2>5, ActivityIdle DEF ArmSound
  <2>7. QED
    BY <2>2, <2>4, <2>6
<1>4. QED
  BY <1>2, <1>3

\* HostFuture.fail.
LEMMA FailedSound ==
  ASSUME NEW t \in Futures, NEW u, FutureSound(t, origin, reader, u), origin \in {"host", "guest"}
  PROVE  LET v == Failed(t) IN
         /\ FutureSound(v, origin, reader, u) /\ EndGone(t, v) /\ v.blamed
         /\ ~t.dropped => v.cause = "producer"
<1> DEFINE v == Failed(t)
           b == [t EXCEPT !.blamed = TRUE]
           a == [b EXCEPT !.abandoned = TRUE]
           m == IF ~t.delivered THEN a ELSE b
           w == FutureDropped(m, "producer", Sides)
<1>1. /\ ArmSound(t, origin, reader) /\ CopiedSound(t, origin, reader) /\ CauseSound(t, u)
      /\ \A e \in Sides : EndSound(t, HeldBy(origin, reader, e), u[e], e)
  BY DEF FutureSound, FutureCore
<1>2. /\ Marks(t, b) /\ b.blamed /\ b.abandoned = t.abandoned /\ b \in Futures
      /\ b.dropped = t.dropped /\ b.delivered = t.delivered
  BY MarksFields DEF Marks
<1>3. Marks(b, a) /\ a.abandoned /\ a.blamed
  BY <1>2, MarksFields
<1> HIDE DEF a, b
<1>4. CASE t.dropped
  <2>1. v = [b EXCEPT !.act = Closed(@)]
    BY <1>2, <1>4, ZenonT(60) DEF Failed, Abandoned, FutureDropped, b
  <2>2. b.act = t.act /\ t.act.closed
    BY <1>1, <1>2, <1>4 DEF CauseSound, Marks
  <2>3. v = b
    BY <1>1, <1>2, <2>1, <2>2, ActivityIdle DEF ArmSound
  <2>4. \A e \in Sides : t.op[e] # "host"
    BY <1>1, <1>4 DEF EndSound
  <2>5. EndGone(t, b)
    BY <1>2, <1>4, <2>4 DEF EndGone, Marks
  <2>6. FutureSound(b, origin, reader, u)
    <3>1. ASSUME NEW e \in Sides PROVE EndSound(b, HeldBy(origin, reader, e), u[e], e)
      BY <1>1, <1>2 DEF EndSound, Marks
    <3>2. CauseSound(b, u) /\ ArmSound(b, origin, reader) /\ CopiedSound(b, origin, reader)
      BY <1>1, <1>2 DEF Marks, CauseSound, ArmSound, CopiedSound
    <3>3. ToldSound(b, origin, reader, u) /\ EndedSound(b, origin, reader, u)
      BY <1>2 DEF Marks, FutureSound, FutureCore, ToldSound, EndedSound
    <3>4. QED
      BY <3>1, <3>2, <3>3 DEF FutureSound, FutureCore
  <2>7. QED
    BY <1>2, <1>4, <2>3, <2>5, <2>6
<1>5. CASE ~t.dropped
  <2>1. v = [w EXCEPT !.act = Closed(@)]
    BY <1>2, <1>5 DEF Failed, Abandoned, a, b
  <2>2. Marks(t, m) /\ m.blamed
    BY <1>2, <1>3 DEF Marks
  <2>3. reader = "guest" => m.abandoned \/ t.copied = 1
    BY <1>1, <1>3 DEF CopiedSound
  <2> HIDE DEF m
  <2>4. /\ FutureSound(w, origin, reader, u) /\ EndGone(t, w) /\ w.cause = "producer"
        /\ w.act.closed /\ w.blamed = m.blamed
    BY <1>5, <2>2, <2>3, MarkedDrop, ZenonT(60)
  <2> HIDE DEF w
  <2>5. w \in Futures /\ ArmSound(w, origin, reader)
    BY <2>4 DEF EndGone, FutureSound, FutureCore
  <2>6. v = w
    BY <2>1, <2>4, <2>5, ActivityIdle DEF ArmSound
  <2>7. QED
    BY <1>5, <2>2, <2>4, <2>6
<1>6. QED
  BY <1>4, <1>5

\* HostFuture.cancel: the operation of the host that is parked, if one is.
Revokes(t, v) ==
  /\ v \in Futures /\ v.dropped = t.dropped /\ v.copied = t.copied /\ v.cause = t.cause
  /\ v.poisoned = t.poisoned /\ v.blamed = t.blamed /\ v.delivered = t.delivered
  /\ \/ v = t
     \/ \E f \in Sides :
          /\ t.op[f] = "host" /\ t.slot = f /\ v.slot = "none" /\ v.op[f] = "none"
          /\ v.result[f] = "CANCELLED"
          /\ v.op[Other(f)] = t.op[Other(f)] /\ v.result[Other(f)] = t.result[Other(f)]
          /\ v.revoked = (t.revoked \/ f = "w")

\* HostFuture.cancel keeps the invariant.
LEMMA CancelledSound ==
  ASSUME NEW t \in Futures, NEW o, NEW rdr, NEW u, FutureSound(t, o, rdr, u)
  PROVE  FutureSound(Cancelled(t), o, rdr, u) /\ Revokes(t, Cancelled(t))
<1> DEFINE v == Cancelled(t)
<1>1. CASE \A e \in Sides : t.op[e] # "host"
  <2>1. v = t
    BY <1>1 DEF Cancelled
  <2>2. QED
    BY <2>1 DEF Revokes
<1>2. ASSUME NEW f \in Sides, t.op[f] = "host" PROVE FutureSound(v, o, rdr, u) /\ Revokes(t, v)
  <2> DEFINE a == [t EXCEPT !.slot = "none"]
             b == HostDone(a, f, "CANCELLED")
             w == [b EXCEPT !.revoked = @ \/ t.slot = "w"]
  <2>1. \A e \in Sides : EndSound(t, HeldBy(o, rdr, e), u[e], e)
    BY DEF FutureSound, FutureCore
  <2>2. t.slot = f /\ HeldBy(o, rdr, f) = "host" /\ ~t.dropped /\ t.copied = 0 /\ t.event[f] = "none"
    BY <1>2, <2>1 DEF EndSound
  <2>3. a \in Futures
    BY ZenonT(60) DEF Futures
  <2>4. /\ a.slot = "none" /\ a.dropped = t.dropped /\ a.cause = t.cause
        /\ a.op = t.op /\ a.event = t.event
        /\ a.abandoned = t.abandoned /\ a.result = t.result /\ a.done = t.done /\ a.left = t.left
        /\ a.delivered = t.delivered /\ a.lowered = t.lowered /\ a.poisoned = t.poisoned
        /\ a.blamed = t.blamed /\ a.act = t.act /\ a.copied = t.copied
        /\ a.revoked = t.revoked /\ a.stale = t.stale
    BY SMTT(60) DEF Futures
  <2> HIDE DEF a
  <2>5. HostEnds(a, b, f, "CANCELLED")
    BY <2>3, HostDoneFields DEF FutureResults
  <2> HIDE DEF b
  <2>6. Notified(t.act) = t.act
    BY FutureFields, ActivityKept DEF FutureSound, FutureCore, ArmSound
  <2>7. /\ b.op = [t.op EXCEPT ![f] = "none"] /\ b.result = [t.result EXCEPT ![f] = "CANCELLED"]
        /\ b.delivered = t.delivered /\ b.act = t.act /\ b.slot = "none" /\ b \in Futures
        /\ b.dropped = t.dropped /\ b.cause = t.cause /\ b.event = t.event
        /\ b.abandoned = t.abandoned /\ b.done = t.done /\ b.left = t.left
        /\ b.lowered = t.lowered /\ b.poisoned = t.poisoned /\ b.blamed = t.blamed
        /\ b.copied = t.copied /\ b.revoked = t.revoked /\ b.stale = t.stale
    BY <2>4, <2>5, <2>6, FutureFields DEF HostEnds
  <2>8. w \in Futures
    BY <2>7, ZenonT(60) DEF Futures
  <2>9. /\ w.revoked = (b.revoked \/ t.slot = "w")
        /\ w.slot = b.slot /\ w.dropped = b.dropped /\ w.cause = b.cause
        /\ w.op = b.op /\ w.event = b.event
        /\ w.abandoned = b.abandoned /\ w.result = b.result /\ w.done = b.done /\ w.left = b.left
        /\ w.delivered = b.delivered /\ w.lowered = b.lowered /\ w.poisoned = b.poisoned
        /\ w.blamed = b.blamed /\ w.act = b.act /\ w.copied = b.copied
        /\ w.stale = b.stale
    BY <2>7, SMTT(60) DEF Futures
  <2>10. v = [b EXCEPT !.act = Notified(@), !.revoked = @ \/ t.slot = "w"]
    BY <1>2, <2>2, <2>4 DEF Cancelled, OpDone, a, b
  <2>11. [b EXCEPT !.act = Notified(@)] = b
    BY <2>6, <2>7, ActivitySame
  <2>12. v = w
    BY <2>6, <2>7, <2>10, <2>11, ZenonT(60) DEF Futures
  <2> HIDE DEF v, w
  <2>13. /\ v.op[f] = "none" /\ v.op[Other(f)] = t.op[Other(f)]
         /\ v.result[f] = "CANCELLED" /\ v.result[Other(f)] = t.result[Other(f)]
         /\ v.slot = "none" /\ v.event = t.event /\ v.done = t.done /\ v.left = t.left
         /\ v.dropped = t.dropped /\ v.copied = t.copied
    BY <2>7, <2>9, <2>12, FutureFields DEF Sides, Other
  <2>14. /\ v.cause = t.cause /\ v.abandoned = t.abandoned /\ v.delivered = t.delivered
         /\ v.lowered = t.lowered /\ v.poisoned = t.poisoned /\ v.blamed = t.blamed
         /\ v.act = t.act /\ v.stale = t.stale /\ v.revoked = (t.revoked \/ f = "w")
    BY <2>2, <2>7, <2>9, <2>12
  <2>15. ASSUME NEW e \in Sides PROVE EndSound(v, HeldBy(o, rdr, e), u[e], e)
    <3>1. CASE e = f
      BY <1>2, <2>1, <2>2, <2>13, <3>1 DEF EndSound, Sides
    <3>2. CASE e = Other(f)
      BY <2>1, <2>2, <2>13, <3>2 DEF EndSound, Sides, Other
    <3>3. QED
      BY <3>1, <3>2 DEF Sides, Other
  <2>16. CauseSound(v, u) /\ ArmSound(v, o, rdr)
    BY <2>13, <2>14 DEF FutureSound, FutureCore, CauseSound, ArmSound
  <2>17. ToldSound(v, o, rdr, u) /\ EndedSound(v, o, rdr, u)
    BY <2>13, <2>14 DEF FutureSound, FutureCore, ToldSound, EndedSound
  <2>18. CopiedSound(v, o, rdr)
    BY <2>13, <2>14 DEF FutureSound, FutureCore, CopiedSound
  <2>19. Revokes(t, v)
    BY <1>2, <2>2, <2>8, <2>12, <2>13, <2>14 DEF Revokes
  <2>20. QED
    BY <2>15, <2>16, <2>17, <2>18, <2>19 DEF FutureSound, FutureCore
<1>3. QED
  BY <1>1, <1>2

\* HostFuture.readResult: the read of a future that has ended is told so.
ReadLate(t, v) ==
  /\ v \in Futures /\ t.dropped /\ v.dropped /\ v.copied = t.copied /\ v.cause = t.cause
  /\ v.poisoned = t.poisoned /\ v.blamed = t.blamed /\ v.slot = t.slot /\ v.op = t.op
  /\ v.revoked = t.revoked
  /\ v.result["r"] = "DROPPED" /\ v.result["w"] = t.result["w"]

\* HostFuture.readResult keeps the invariant.
LEMMA ReadIssuedSound ==
  ASSUME NEW t \in Futures, NEW o, NEW u, FutureSound(t, o, "host", u),
         t.op["r"] = "none", t.result["r"] = "none", ~t.delivered
  PROVE  LET v == ReadIssued(t) IN
         /\ v \in Futures /\ FutureSound(v, o, "host", u)
         /\ ReadLate(t, v) \/ (~t.dropped /\ Arrived(t, v, "r", "host"))
<1> DEFINE v == ReadIssued(t)
<1>1. "r" \in Sides /\ HeldBy(o, "host", "r") = "host"
  BY DEF Sides, HeldBy
<1>2. /\ EndSound(t, "host", u["r"], "r") /\ CopiedSound(t, o, "host")
      /\ \A e \in Sides : EndSound(t, HeldBy(o, "host", e), u[e], e)
  BY <1>1 DEF FutureSound, FutureCore
<1>3. t.copied = 0 /\ ~t.done["r"] /\ ~t.left["r"]
  BY <1>2 DEF EndSound, CopiedSound
<1>4. CASE t.dropped
  <2>1. v = [t EXCEPT !.result["r"] = "DROPPED"]
    BY <1>4 DEF ReadIssued
  <2>2. [t.result EXCEPT !["r"] = "DROPPED"] \in [Sides -> FutureResults]
    BY FutureFields DEF FutureResults
  <2>3. v \in Futures
    BY <2>1, <2>2, ZenonT(60) DEF Futures
  <2>4. /\ v.result = [t.result EXCEPT !["r"] = "DROPPED"]
        /\ v.slot = t.slot /\ v.dropped = t.dropped /\ v.cause = t.cause
        /\ v.op = t.op /\ v.event = t.event
        /\ v.abandoned = t.abandoned /\ v.done = t.done /\ v.left = t.left
        /\ v.delivered = t.delivered /\ v.lowered = t.lowered /\ v.poisoned = t.poisoned
        /\ v.blamed = t.blamed /\ v.act = t.act /\ v.copied = t.copied
        /\ v.revoked = t.revoked /\ v.stale = t.stale
    BY <2>1, <2>3, SMTT(60) DEF Futures
  <2> HIDE DEF v
  <2>5. v.result["r"] = "DROPPED" /\ v.result["w"] = t.result["w"]
    BY <2>4, FutureFields DEF Sides
  <2>6. ASSUME NEW e \in Sides PROVE EndSound(v, HeldBy(o, "host", e), u[e], e)
    BY <1>1, <1>2, <1>4, <2>4, <2>5 DEF EndSound, Sides
  <2>7. CauseSound(v, u) /\ ArmSound(v, o, "host")
    BY <2>4 DEF FutureSound, FutureCore, CauseSound, ArmSound
  <2>8. ToldSound(v, o, "host", u) /\ EndedSound(v, o, "host", u)
    BY <2>4 DEF FutureSound, FutureCore, ToldSound, EndedSound
  <2>9. CopiedSound(v, o, "host")
    BY <2>4 DEF FutureSound, FutureCore, CopiedSound
  <2>10. ReadLate(t, v)
    BY <1>4, <2>3, <2>4, <2>5 DEF ReadLate
  <2>11. QED
    BY <2>3, <2>6, <2>7, <2>8, <2>9, <2>10 DEF FutureSound, FutureCore, v
<1>5. CASE ~t.dropped
  <2> DEFINE s == [t EXCEPT !.op["r"] = "host"]
             w == FutureArrives(s, "r")
  <2>1. v = [w EXCEPT !.act = Notified(@)]
    BY <1>5 DEF ReadIssued
  <2>2. t.event["r"] = "none"
    <3>1. t.event["r"] \in FutureEvents
      BY <1>1, FutureFields
    <3>2. QED
      BY <1>2, <1>3, <1>5, <3>1 DEF EndSound, FutureEvents, FutureResults
  <2>3. Issues(t, s, "r", "host")
    BY <1>1, <2>2, HostIssues
  <2>4. FreeFor(t, "r", "host")
    BY <1>3 DEF FreeFor
  <2> HIDE DEF s
  <2>5. w \in Futures /\ FutureSound(w, o, "host", u) /\ Arrived(t, w, "r", "host")
    BY <1>1, <1>3, <1>5, <2>3, <2>4, Arrives
  <2> HIDE DEF w
  <2>6. v = w
    BY <2>1, <2>5, ActivityIdle DEF FutureSound, FutureCore, ArmSound
  <2>7. QED
    BY <1>5, <2>5, <2>6
<1>6. QED
  BY <1>4, <1>5

(* What the handle and the producer know stays true of the future. *)

\* The end of a future: an await that was under way is told, and so is the
\* producer.
LEMMA HandleGone ==
  ASSUME NEW t \in Futures, NEW o, NEW rdr, NEW u, FutureSound(t, o, rdr, u),
         NEW h, HandleSound(h, t, rdr), NEW v, EndGone(t, v)
  PROVE  HandleSound(h, v, rdr)
<1>1. "r" \in Sides /\ CauseSound(t, u)
  BY DEF Sides, FutureSound, FutureCore
<1>2. /\ v.op["r"] = IF t.op["r"] = "host" THEN "none" ELSE t.op["r"]
      /\ v.result["r"] = IF t.op["r"] = "host" THEN "DROPPED" ELSE t.result["r"]
  BY <1>1 DEF EndGone
<1>3. h.memo = "dropped" => v.cause \in {"host", "guest"}
  BY <1>1 DEF HandleSound, EndGone, CauseSound
<1>4. QED
  BY <1>2, <1>3 DEF HandleSound, EndGone

LEMMA ProducerGone ==
  ASSUME NEW t \in Futures, NEW o, NEW rdr, NEW u, FutureSound(t, o, rdr, u),
         NEW p, ProducerSound(p, t, o), NEW v, EndGone(t, v)
  PROVE  ProducerSound(p, v, o)
<1>1. "w" \in Sides /\ EndSound(t, HeldBy(o, rdr, "w"), u["w"], "w")
  BY DEF Sides, FutureSound, FutureCore
<1>2. t.op["w"] = "host" => t.copied = 0
  BY <1>1 DEF EndSound
<1>3. /\ v.op["w"] = IF t.op["w"] = "host" THEN "none" ELSE t.op["w"]
      /\ v.result["w"] = IF t.op["w"] = "host" THEN "DROPPED" ELSE t.result["w"]
  BY <1>1 DEF EndGone
<1>4. QED
  BY <1>2, <1>3 DEF ProducerSound, EndGone

\* A cancellation: the await has asked for it.
LEMMA HandleRevoked ==
  ASSUME NEW t \in Futures, NEW rdr, NEW h, HandleSound(h, t, rdr), h.asked, NEW v, Revokes(t, v)
  PROVE  HandleSound(h, v, rdr)
<1>1. CASE v = t
  BY <1>1
<1>2. ASSUME NEW f \in Sides, t.op[f] = "host", v.op[f] = "none", v.result[f] = "CANCELLED",
             v.op[Other(f)] = t.op[Other(f)], v.result[Other(f)] = t.result[Other(f)]
      PROVE  HandleSound(h, v, rdr)
  <2>1. CASE f = "r"
    BY <1>2, <2>1 DEF Revokes, HandleSound
  <2>2. CASE f = "w"
    BY <1>2, <2>2 DEF Revokes, HandleSound, Other
  <2>3. QED
    BY <2>1, <2>2 DEF Sides
<1>3. QED
  BY <1>1, <1>2 DEF Revokes

LEMMA ProducerRevoked ==
  ASSUME NEW t \in Futures, NEW o, NEW rdr, NEW u, FutureSound(t, o, rdr, u),
         NEW p, ProducerSound(p, t, o), NEW v, Revokes(t, v)
  PROVE  ProducerSound(p, v, o)
<1>1. "w" \in Sides /\ EndSound(t, HeldBy(o, rdr, "w"), u["w"], "w")
  BY DEF Sides, FutureSound, FutureCore
<1>2. t.op["w"] = "host" => t.copied = 0 /\ t.slot = "w"
  BY <1>1 DEF EndSound
<1>3. CASE v = t
  BY <1>3
<1>4. CASE /\ t.op["w"] = "host" /\ v.op["w"] = "none" /\ v.result["w"] = "CANCELLED" /\ v.revoked
  BY <1>2, <1>4 DEF Revokes, ProducerSound
<1>5. CASE /\ t.op["r"] = "host" /\ t.slot = "r" /\ v.revoked = t.revoked
           /\ v.op["w"] = t.op["w"] /\ v.result["w"] = t.result["w"]
  BY <1>5 DEF Revokes, ProducerSound
<1>6. QED
  BY <1>3, <1>4, <1>5, FutureFields DEF Revokes, Sides, Other

\* The reader arrives, and the writer.
LEMMA ProducerMet ==
  ASSUME NEW t \in Futures, NEW o, NEW rdr, NEW u, FutureSound(t, o, rdr, u), ~t.dropped,
         NEW p, ProducerSound(p, t, o), p.pc \in {"waiting", "writing", "done"},
         NEW v, NEW x, Arrived(t, v, "r", x)
  PROVE  ProducerSound(p, v, o)
<1>1. "w" \in Sides /\ EndSound(t, o, u["w"], "w")
  BY DEF Sides, FutureSound, FutureCore, HeldBy
<1>2. CASE Parks(t, v, "r", x)
  BY <1>2 DEF Arrived, Parks, ProducerSound, Other
<1>3. CASE Meets(t, v, "r", x)
  <2>1. t.slot = "w" /\ v.copied = 1
    BY <1>3 DEF Meets, Other
  <2>2. o = "host" => t.op["w"] = "host"
    BY <1>1, <2>1, FutureFields DEF EndSound
  <2>3. o = "host" => p.pc = "writing" /\ v.op["w"] = "none" /\ v.result["w"] = "COMPLETED"
    BY <1>3, <2>2 DEF Meets, Other, ProducerSound
  <2>4. QED
    BY <2>1, <2>3 DEF ProducerSound
<1>4. QED
  BY <1>2, <1>3 DEF Arrived, Late

\* The writer arrives: the await is still waiting, or has the value.
LEMMA HandleMet ==
  ASSUME NEW t \in Futures, NEW rdr, NEW h, HandleSound(h, t, rdr),
         NEW v, NEW x, Arrived(t, v, "w", x)
  PROVE  HandleSound(h, v, rdr)
<1>1. CASE Late(t, v, "w", x)
  BY <1>1 DEF Arrived, Late, HandleSound, Other
<1>2. CASE Parks(t, v, "w", x)
  BY <1>2 DEF Arrived, Parks, HandleSound, Other
<1>3. CASE Meets(t, v, "w", x)
  BY <1>3 DEF Arrived, Meets, HandleSound, Other
<1>4. QED
  BY <1>1, <1>2, <1>3 DEF Arrived

\* The reactions that wait on a handle.
LEMMA QueueHas ==
  ASSUME NEW S, NEW q \in Seq(S), NEW x \in S, NEW y
  PROVE  /\ Append(q, x) \in Seq(S) /\ (Queued(Append(q, x), y) <=> Queued(q, y) \/ y = x)
         /\ ~Queued(<<>>, y) /\ <<>> \in Seq(S)
         /\ q # <<>> => /\ Tail(q) \in Seq(S) /\ Head(q) \in S
                        /\ Queued(q, y) <=> Queued(Tail(q), y) \/ y = Head(q)
<1>1. Append(q, x) \in Seq(S) /\ <<>> \in Seq(S) /\ ~Queued(<<>>, y)
  BY DEF Queued
<1>2. Queued(Append(q, x), y) <=> Queued(q, y) \/ y = x
  <2>1. /\ DOMAIN Append(q, x) = 1..(Len(q) + 1) /\ DOMAIN q = 1..Len(q) /\ Len(q) \in Nat
        /\ \A i \in 1..Len(q) : Append(q, x)[i] = q[i]
        /\ Append(q, x)[Len(q) + 1] = x
    OBVIOUS
  <2>2. QED
    BY <2>1, SMTT(60) DEF Queued
<1>3. ASSUME q # <<>>
      PROVE  /\ Tail(q) \in Seq(S) /\ Head(q) \in S
             /\ Queued(q, y) <=> Queued(Tail(q), y) \/ y = Head(q)
  <2>1. /\ Tail(q) \in Seq(S) /\ Head(q) \in S /\ Head(q) = q[1]
        /\ DOMAIN q = 1..Len(q) /\ Len(q) \in Nat \ {0}
        /\ DOMAIN Tail(q) = 1..(Len(q) - 1)
        /\ \A i \in 1..(Len(q) - 1) : Tail(q)[i] = q[i + 1]
    BY <1>3, HeadTailProperties
  <2>2. ASSUME Queued(q, y), y # Head(q) PROVE Queued(Tail(q), y)
    <3>1. PICK i \in 1..Len(q) : q[i] = y
      BY <2>1, <2>2 DEF Queued
    <3>2. i - 1 \in 1..(Len(q) - 1) /\ Tail(q)[i - 1] = y
      BY <2>1, <2>2, <3>1, SMTT(60)
    <3>3. QED
      BY <2>1, <3>2 DEF Queued
  <2>3. ASSUME Queued(Tail(q), y) PROVE Queued(q, y)
    <3>1. PICK i \in 1..(Len(q) - 1) : Tail(q)[i] = y
      BY <2>1, <2>3 DEF Queued
    <3>2. i + 1 \in 1..Len(q) /\ q[i + 1] = y
      BY <2>1, <3>1, SMTT(60)
    <3>3. QED
      BY <2>1, <3>2 DEF Queued
  <2>4. y = Head(q) => Queued(q, y)
    BY <2>1, SMTT(60) DEF Queued
  <2>5. QED
    BY <2>1, <2>2, <2>3, <2>4
<1>4. QED
  BY <1>1, <1>2, <1>3

\* The read of the handle.
LEMMA HandleReads ==
  ASSUME NEW t, NEW v, ReadLate(t, v) \/ (~t.dropped /\ Arrived(t, v, "r", "host")),
         NEW h, h.phase = "held", h.reading, h.memo = "pending", Queued(h.queue, "cancel") => h.asked,
         h.dropped => t.dropped \/ Queued(h.queue, "drop")
  PROVE  HandleSound(h, v, "host")
<1>1. v.op["r"] = "host" \/ v.result["r"] \in {"COMPLETED", "DROPPED"}
  BY DEF ReadLate, Arrived, Late, Parks, Meets
<1>2. v.dropped = t.dropped \/ v.dropped
  BY DEF ReadLate, Arrived
<1>3. v.result["r"] # "CANCELLED"
  BY DEF ReadLate, Arrived, Late, Parks, Meets
<1>4. QED
  BY <1>1, <1>2, <1>3 DEF HandleSound

LEMMA ProducerReads ==
  ASSUME NEW t \in Futures, NEW o, NEW u, FutureSound(t, o, "host", u),
         NEW p, ProducerSound(p, t, o), p.pc \in {"waiting", "writing", "done"},
         NEW v, ReadLate(t, v) \/ (~t.dropped /\ Arrived(t, v, "r", "host"))
  PROVE  ProducerSound(p, v, o)
<1>1. CASE ReadLate(t, v)
  BY <1>1 DEF ReadLate, ProducerSound
<1>2. CASE ~t.dropped /\ Arrived(t, v, "r", "host")
  BY <1>2, ProducerMet
<1>3. QED
  BY <1>1, <1>2

LEMMA HandleFields ==
  ASSUME NEW h \in Handles
  PROVE  /\ h.phase \in {"deferred", "held", "passed", "failed"} /\ h.reading \in BOOLEAN
         /\ h.dropped \in BOOLEAN /\ h.asked \in BOOLEAN /\ h.queue \in Seq({"read", "cancel", "drop"})
         /\ h.memo \in {"none", "pending", "failed", "value", "producer", "peer", "cancelled", "dropped"}
BY ZenonT(60) DEF Handles

\* What a state of the invariant is known to be.
LEMMA FutureState ==
  ASSUME FutureInv
  PROVE  /\ origin \in {"host", "guest"} /\ reader \in {"host", "guest", "call"} /\ hops \in Nat
         /\ up \in [Sides -> BOOLEAN] /\ fut \in Futures /\ hand \in Handles /\ prod \in Producers
         /\ prod.pc \in {"waiting", "writing", "done"}
         /\ FutureSound(fut, origin, reader, up) /\ HandleSound(hand, fut, reader)
         /\ ProducerSound(prod, fut, origin)
         /\ EndSound(fut, reader, up["r"], "r") /\ EndSound(fut, origin, up["w"], "w")
         /\ CauseSound(fut, up) /\ ToldSound(fut, origin, reader, up) /\ ArmSound(fut, origin, reader)
         /\ CopiedSound(fut, origin, reader) /\ EndedSound(fut, origin, reader, up)
<1>1. /\ FutureTypes /\ FutureSound(fut, origin, reader, up) /\ HandleSound(hand, fut, reader)
      /\ ProducerSound(prod, fut, origin)
  BY DEF FutureInv
<1>2. EndSound(fut, reader, up["r"], "r") /\ EndSound(fut, origin, up["w"], "w")
  BY <1>1 DEF FutureSound, FutureCore, HeldBy, Sides
<1>3. prod.pc \in {"waiting", "writing", "done"}
  BY <1>1, ZenonT(60) DEF FutureTypes, Producers
<1>4. QED
  BY <1>1, <1>2, <1>3 DEF FutureSound, FutureCore, FutureTypes

\* A step of the embedder's or of the guests', all but the transfers and a
\* trap: what is left to show.
LEMMA FutureStep ==
  ASSUME FutureInv, UNCHANGED <<origin, reader, hops, up>>,
         fut' \in Futures, hand' \in Handles, prod' \in Producers,
         FutureSound(fut', origin, reader, up), HandleSound(hand', fut', reader),
         ProducerSound(prod', fut', origin)
  PROVE  FutureInv'
BY DEF FutureInv, FutureTypes

LEMMA AwaitValueInv ==
  ASSUME FutureInv, AwaitValue
  PROVE  FutureInv'
<1> DEFINE h == [hand EXCEPT !.memo = "pending", !.reading = TRUE]
           v == ReadIssued(fut)
<1>1. fut' = v /\ hand' = h /\ UNCHANGED <<origin, reader, hops, up>> /\ prod' = prod
  BY DEF AwaitValue
<1>2. hand.phase = "held" /\ hand.memo = "none" /\ ~fut.delivered
  BY DEF AwaitValue
<1>3. reader = "host" /\ fut.op["r"] = "none" /\ fut.result["r"] = "none"
  BY <1>2, FutureState, FutureFields DEF HandleSound, EndSound, Sides
<1>4. /\ v \in Futures /\ FutureSound(v, origin, "host", up)
      /\ ReadLate(fut, v) \/ (~fut.dropped /\ Arrived(fut, v, "r", "host"))
  BY <1>2, <1>3, FutureState, ReadIssuedSound
<1> HIDE DEF v
<1>5. h \in Handles
  BY FutureState, ZenonT(60) DEF Handles
<1>6. /\ h.phase = hand.phase /\ h.reading /\ h.memo = "pending" /\ h.queue = hand.queue
      /\ h.asked = hand.asked /\ h.dropped = hand.dropped
  BY FutureState, SMTT(60) DEF Handles
<1> HIDE DEF h
<1>7. HandleSound(h, v, "host")
  BY <1>2, <1>4, <1>6, FutureState, HandleReads DEF HandleSound
<1>8. ProducerSound(prod, v, origin)
  BY <1>3, <1>4, FutureState, ProducerReads
<1>9. QED
  BY <1>1, <1>3, <1>4, <1>5, <1>7, <1>8, FutureState, FutureStep

LEMMA AwaitDeferredInv ==
  ASSUME FutureInv, AwaitDeferred
  PROVE  FutureInv'
<1> DEFINE q == Append(hand.queue, "read")
           h == [hand EXCEPT !.memo = "pending", !.reading = TRUE, !.queue = q]
<1>1. /\ fut' = fut /\ hand' = h /\ UNCHANGED <<origin, reader, hops, up>> /\ prod' = prod
      /\ hand.phase = "deferred" /\ hand.memo = "none"
  BY DEF AwaitDeferred
<1>2. /\ q \in Seq({"read", "cancel", "drop"})
      /\ (Queued(q, "cancel") <=> Queued(hand.queue, "cancel"))
      /\ (Queued(q, "drop") <=> Queued(hand.queue, "drop"))
  BY FutureState, HandleFields, QueueHas
<1> HIDE DEF q
<1>3. h \in Handles
  BY <1>2, FutureState, ZenonT(60) DEF Handles
<1>4. /\ h.phase = hand.phase /\ h.reading /\ h.memo = "pending" /\ h.queue = q
      /\ h.asked = hand.asked /\ h.dropped = hand.dropped
  BY FutureState, SMTT(60) DEF Handles
<1> HIDE DEF h
<1>5. HandleSound(h, fut, reader)
  BY <1>1, <1>2, <1>4, FutureState DEF HandleSound
<1>6. QED
  BY <1>1, <1>3, <1>5, FutureState, FutureStep

\* The embedder has asked for a cancellation.
LEMMA HandleAsks ==
  ASSUME NEW t, NEW rdr, NEW h, HandleSound(h, t, rdr), NEW k, k.asked, k.phase = h.phase,
         k.reading = h.reading, k.dropped = h.dropped, k.memo = h.memo,
         (Queued(k.queue, "drop") <=> Queued(h.queue, "drop"))
  PROVE  HandleSound(k, t, rdr)
BY DEF HandleSound

LEMMA CancelAwaitInv ==
  ASSUME FutureInv, CancelAwait
  PROVE  FutureInv'
<1>1. CASE Materialized /\ fut' = Cancelled(fut) /\ hand' = [hand EXCEPT !.asked = TRUE]
  <2> DEFINE h == [hand EXCEPT !.asked = TRUE]
             v == Cancelled(fut)
  <2>1. fut' = v /\ hand' = h /\ UNCHANGED <<origin, reader, hops, up>> /\ prod' = prod
    BY <1>1 DEF CancelAwait
  <2>2. FutureSound(v, origin, reader, up) /\ Revokes(fut, v) /\ v \in Futures
    BY FutureState, CancelledSound DEF Revokes
  <2> HIDE DEF v
  <2>3. h \in Handles
    BY FutureState, ZenonT(60) DEF Handles
  <2>4. /\ h.asked /\ h.phase = hand.phase /\ h.reading = hand.reading /\ h.dropped = hand.dropped
        /\ h.memo = hand.memo /\ h.queue = hand.queue
    BY FutureState, SMTT(60) DEF Handles
  <2> HIDE DEF h
  <2>5. HandleSound(h, fut, reader)
    BY <2>4, FutureState, HandleAsks
  <2>6. HandleSound(h, v, reader)
    BY <2>2, <2>4, <2>5, FutureState, HandleRevoked
  <2>7. ProducerSound(prod, v, origin)
    BY <2>2, FutureState, ProducerRevoked
  <2>8. QED
    BY <2>1, <2>2, <2>3, <2>6, <2>7, FutureState, FutureStep
<1>2. CASE /\ hand' = [hand EXCEPT !.asked = TRUE, !.queue = Append(@, "cancel")]
           /\ UNCHANGED fut
  <2> DEFINE q == Append(hand.queue, "cancel")
             h == [hand EXCEPT !.asked = TRUE, !.queue = q]
  <2>1. fut' = fut /\ hand' = h /\ UNCHANGED <<origin, reader, hops, up>> /\ prod' = prod
    BY <1>2 DEF CancelAwait
  <2>2. /\ q \in Seq({"read", "cancel", "drop"})
        /\ (Queued(q, "drop") <=> Queued(hand.queue, "drop"))
    BY FutureState, HandleFields, QueueHas
  <2> HIDE DEF q
  <2>3. h \in Handles
    BY <2>2, FutureState, ZenonT(60) DEF Handles
  <2>4. /\ h.asked /\ h.phase = hand.phase /\ h.reading = hand.reading /\ h.dropped = hand.dropped
        /\ h.memo = hand.memo /\ h.queue = q
    BY FutureState, SMTT(60) DEF Handles
  <2> HIDE DEF h
  <2>5. HandleSound(h, fut, reader)
    BY <2>2, <2>4, FutureState, HandleAsks
  <2>6. QED
    BY <2>1, <2>3, <2>5, FutureState, FutureStep
<1>3. QED
  BY <1>1, <1>2 DEF CancelAwait

\* The embedder has dropped the handle of a future that has ended, or is to.
LEMMA HandleDrops ==
  ASSUME NEW t, NEW rdr, NEW h, HandleSound(h, t, rdr), NEW k, k.asked = h.asked, k.phase = h.phase,
         k.reading = h.reading, k.memo = h.memo,
         (Queued(k.queue, "cancel") <=> Queued(h.queue, "cancel")),
         t.dropped \/ Queued(k.queue, "drop")
  PROVE  HandleSound(k, t, rdr)
BY DEF HandleSound

LEMMA DropHandleInv ==
  ASSUME FutureInv, DropHandle
  PROVE  FutureInv'
<1>1. CASE fut' = Released(fut) /\ hand' = [hand EXCEPT !.dropped = TRUE]
  <2> DEFINE h == [hand EXCEPT !.dropped = TRUE]
             v == Released(fut)
  <2>1. fut' = v /\ hand' = h /\ UNCHANGED <<origin, reader, hops, up>> /\ prod' = prod
    BY <1>1 DEF DropHandle
  <2>2. FutureSound(v, origin, reader, up) /\ EndGone(fut, v) /\ v \in Futures /\ v.dropped
    BY FutureState, ReleasedSound DEF EndGone
  <2> HIDE DEF v
  <2>3. h \in Handles
    BY FutureState, ZenonT(60) DEF Handles
  <2>4. /\ h.asked = hand.asked /\ h.phase = hand.phase /\ h.reading = hand.reading
        /\ h.memo = hand.memo /\ h.queue = hand.queue
    BY FutureState, SMTT(60) DEF Handles
  <2> HIDE DEF h
  <2>5. HandleSound(hand, v, reader) /\ ProducerSound(prod, v, origin)
    BY <2>2, FutureState, HandleGone, ProducerGone
  <2>6. HandleSound(h, v, reader)
    BY <2>2, <2>4, <2>5, HandleDrops
  <2>7. QED
    BY <2>1, <2>2, <2>3, <2>5, <2>6, FutureState, FutureStep
<1>2. CASE hand' = [hand EXCEPT !.dropped = TRUE, !.queue = Append(@, "drop")] /\ UNCHANGED fut
  <2> DEFINE q == Append(hand.queue, "drop")
             h == [hand EXCEPT !.dropped = TRUE, !.queue = q]
  <2>1. fut' = fut /\ hand' = h /\ UNCHANGED <<origin, reader, hops, up>> /\ prod' = prod
    BY <1>2 DEF DropHandle
  <2>2. /\ q \in Seq({"read", "cancel", "drop"}) /\ Queued(q, "drop")
        /\ (Queued(q, "cancel") <=> Queued(hand.queue, "cancel"))
    BY FutureState, HandleFields, QueueHas
  <2> HIDE DEF q
  <2>3. h \in Handles
    BY <2>2, FutureState, ZenonT(60) DEF Handles
  <2>4. /\ h.asked = hand.asked /\ h.phase = hand.phase /\ h.reading = hand.reading
        /\ h.memo = hand.memo /\ h.queue = q
    BY FutureState, SMTT(60) DEF Handles
  <2> HIDE DEF h
  <2>5. HandleSound(h, fut, reader)
    BY <2>2, <2>4, FutureState, HandleDrops
  <2>6. QED
    BY <2>1, <2>3, <2>5, FutureState, FutureStep
<1>3. QED
  BY <1>1, <1>2 DEF DropHandle

LEMMA TearDownInv ==
  ASSUME FutureInv, TearDown
  PROVE  FutureInv'
<1> DEFINE h == [hand EXCEPT !.dropped = TRUE]
           v == FutureDropped(fut, "host", Sides)
<1>1. /\ fut' = v /\ hand' = h /\ UNCHANGED <<origin, reader, hops, up>> /\ prod' = prod
      /\ hand.phase = "held"
  BY DEF TearDown
<1>2. reader = "host"
  BY <1>1, FutureState DEF HandleSound
<1>3. FutureSound(v, origin, reader, up) /\ EndGone(fut, v)
  <2>1. CASE fut.dropped
    <3>1. v = fut
      BY <2>1 DEF FutureDropped
    <3>2. \A e \in Sides : fut.op[e] # "host"
      BY <2>1, FutureState DEF EndSound, Sides
    <3>3. QED
      BY <2>1, <3>1, <3>2, FutureState DEF EndGone
  <2>2. CASE ~fut.dropped
    BY <1>2, <2>2, FutureState, MarksFields, MarkedDrop
  <2>3. QED
    BY <2>1, <2>2
<1> HIDE DEF v
<1>4. v \in Futures /\ v.dropped
  BY <1>3 DEF EndGone
<1>5. h \in Handles
  BY FutureState, ZenonT(60) DEF Handles
<1>6. /\ h.asked = hand.asked /\ h.phase = hand.phase /\ h.reading = hand.reading
      /\ h.memo = hand.memo /\ h.queue = hand.queue
  BY FutureState, SMTT(60) DEF Handles
<1> HIDE DEF h
<1>7. HandleSound(hand, v, reader) /\ ProducerSound(prod, v, origin)
  BY <1>3, FutureState, HandleGone, ProducerGone
<1>8. HandleSound(h, v, reader)
  BY <1>4, <1>6, <1>7, HandleDrops
<1>9. QED
  BY <1>1, <1>3, <1>4, <1>5, <1>7, <1>8, FutureState, FutureStep

LEMMA CallFailsInv ==
  ASSUME FutureInv, CallFails
  PROVE  FutureInv'
<1> DEFINE m == IF hand.memo = "pending" THEN "failed" ELSE hand.memo
           h == [hand EXCEPT !.phase = "failed", !.queue = <<>>, !.reading = FALSE, !.memo = m]
<1>1. /\ fut' = fut /\ hand' = h /\ UNCHANGED <<origin, reader, hops, up>> /\ prod' = prod
      /\ hand.phase = "deferred"
  BY DEF CallFails
<1>2. /\ m \in {"none", "failed", "value", "producer", "peer", "cancelled", "dropped"}
      /\ m = hand.memo \/ m = "failed"
      /\ <<>> \in Seq({"read", "cancel", "drop"}) /\ ~Queued(<<>>, "cancel")
  BY FutureState, HandleFields, QueueHas
<1> HIDE DEF m
<1>3. h \in Handles
  BY <1>2, FutureState, ZenonT(60) DEF Handles
<1>4. /\ h.phase = "failed" /\ ~h.reading /\ h.memo = m /\ h.queue = <<>>
      /\ h.asked = hand.asked /\ h.dropped = hand.dropped
  BY FutureState, SMTT(60) DEF Handles
<1> HIDE DEF h
<1>5. reader = "call"
  BY <1>1, FutureState DEF HandleSound
<1>6. fut.op["r"] # "host" /\ fut.result["r"] = "none"
  BY <1>5, FutureState DEF EndSound
<1>7. HandleSound(h, fut, reader)
  BY <1>1, <1>2, <1>4, <1>5, <1>6, FutureState DEF HandleSound
<1>8. QED
  BY <1>1, <1>3, <1>7, FutureState, FutureStep

\* The result of an operation is taken by the one who issued it.
Settles(t, v, e) ==
  /\ v \in Futures /\ v.result = [t.result EXCEPT ![e] = "none"]
  /\ v.slot = t.slot /\ v.dropped = t.dropped /\ v.cause = t.cause
  /\ v.op = t.op /\ v.event = t.event
  /\ v.abandoned = t.abandoned /\ v.done = t.done /\ v.left = t.left
  /\ v.delivered = t.delivered /\ v.lowered = t.lowered /\ v.poisoned = t.poisoned
  /\ v.blamed = t.blamed /\ v.act = t.act /\ v.copied = t.copied
  /\ v.revoked = t.revoked /\ v.stale = t.stale

\* Taking the result of an operation keeps the invariant.
LEMMA SettledSound ==
  ASSUME NEW t \in Futures, NEW o, NEW rdr, NEW u, FutureSound(t, o, rdr, u), NEW e \in Sides
  PROVE  LET v == [t EXCEPT !.result[e] = "none"] IN Settles(t, v, e) /\ FutureSound(v, o, rdr, u)
<1> DEFINE v == [t EXCEPT !.result[e] = "none"]
<1>1. [t.result EXCEPT ![e] = "none"] \in [Sides -> FutureResults]
  BY FutureFields DEF FutureResults
<1>2. v \in Futures
  BY <1>1, ZenonT(60) DEF Futures
<1>3. Settles(t, v, e)
  BY <1>2, SMTT(60) DEF Futures, Settles
<1> HIDE DEF v
<1>4. v.result[e] = "none" /\ v.result[Other(e)] = t.result[Other(e)]
  BY <1>3, FutureFields DEF Settles, Sides, Other
<1>5. ASSUME NEW f \in Sides PROVE EndSound(v, HeldBy(o, rdr, f), u[f], f)
  <2>1. EndSound(t, HeldBy(o, rdr, f), u[f], f)
    BY DEF FutureSound, FutureCore
  <2>2. CASE f = e
    BY <1>3, <1>4, <2>1, <2>2 DEF EndSound, Settles
  <2>3. CASE f = Other(e)
    BY <1>3, <1>4, <2>1, <2>3 DEF EndSound, Settles
  <2>4. QED
    BY <2>2, <2>3 DEF Sides, Other
<1>6. CauseSound(v, u) /\ ArmSound(v, o, rdr) /\ CopiedSound(v, o, rdr)
  BY <1>3 DEF Settles, FutureSound, FutureCore, CauseSound, ArmSound, CopiedSound
<1>7. ToldSound(v, o, rdr, u) /\ EndedSound(v, o, rdr, u)
  BY <1>3 DEF Settles, FutureSound, FutureCore, ToldSound, EndedSound
<1>8. QED
  BY <1>3, <1>5, <1>6, <1>7 DEF FutureSound, FutureCore, v

LEMMA FinishReadInv ==
  ASSUME FutureInv, FinishRead
  PROVE  FutureInv'
<1> DEFINE res == fut.result["r"]
           m == Outcome(res)
           h == [hand EXCEPT !.memo = m, !.reading = FALSE]
           v == [fut EXCEPT !.result["r"] = "none"]
<1>1. /\ fut' = v /\ hand' = h /\ UNCHANGED <<origin, reader, hops, up>> /\ prod' = prod
      /\ res # "none" /\ "r" \in Sides
  BY DEF FinishRead, Sides
<1>2. Settles(fut, v, "r") /\ FutureSound(v, origin, reader, up)
  BY <1>1, FutureState, SettledSound
<1> HIDE DEF v
<1>3. v \in Futures /\ v.result["r"] = "none" /\ v.result["w"] = fut.result["w"] /\ v.op = fut.op
  BY <1>2, FutureState, FutureFields DEF Settles, Sides
<1>4. res \in FutureResults /\ fut.cause \in {"none", "host", "guest", "producer", "trap"}
  BY <1>1, FutureState, FutureFields
<1>5. /\ m \in {"value", "producer", "peer", "cancelled", "dropped"}
      /\ (m = "value" => res = "COMPLETED") /\ (m = "cancelled" => res = "CANCELLED")
      /\ m = "dropped" => res = "DROPPED" /\ ~fut.blamed /\ ~fut.poisoned
      /\ m = "peer" => fut.poisoned
  BY <1>1, <1>4 DEF Outcome, FutureResults
<1> HIDE DEF m
<1>6. h \in Handles
  BY <1>5, FutureState, ZenonT(60) DEF Handles
<1>7. /\ h.phase = hand.phase /\ ~h.reading /\ h.memo = m /\ h.queue = hand.queue
      /\ h.asked = hand.asked /\ h.dropped = hand.dropped
  BY FutureState, SMTT(60) DEF Handles
<1> HIDE DEF h
<1>8. reader = "host" /\ fut.op["r"] # "host"
  BY <1>1, FutureState DEF EndSound
<1>9. HandleSound(h, v, reader)
  <2>1. m = "value" => fut.copied = 1
    BY <1>5, FutureState DEF EndSound
  <2>2. m = "cancelled" => hand.asked
    BY <1>5, FutureState DEF HandleSound
  <2>3. m = "dropped" => fut.cause \in {"host", "guest"}
    BY <1>4, <1>5, FutureState DEF EndSound, CauseSound
  <2>4. v.copied = fut.copied /\ v.cause = fut.cause /\ v.poisoned = fut.poisoned /\ v.dropped = fut.dropped
    BY <1>2 DEF Settles
  <2>5. QED
    BY <1>3, <1>5, <1>7, <1>8, <2>1, <2>2, <2>3, <2>4, FutureState DEF HandleSound
<1>10. ProducerSound(prod, v, origin)
  BY <1>2, <1>3, FutureState DEF Settles, ProducerSound
<1>11. QED
  BY <1>1, <1>2, <1>3, <1>6, <1>9, <1>10, FutureState, FutureStep

LEMMA ReactionInv ==
  ASSUME FutureInv, Reaction
  PROVE  FutureInv'
<1> DEFINE q == Tail(hand.queue)
           x == Head(hand.queue)
           h == [hand EXCEPT !.queue = q]
<1>1. /\ hand' = h /\ UNCHANGED <<origin, reader, hops, up>> /\ prod' = prod
      /\ fut' = CASE x = "read" -> fut [] x = "cancel" -> Cancelled(fut) [] x = "drop" -> Released(fut)
      /\ hand.queue # <<>>
  BY DEF Reaction
<1>2. /\ q \in Seq({"read", "cancel", "drop"}) /\ x \in {"read", "cancel", "drop"}
      /\ (Queued(hand.queue, "cancel") <=> Queued(q, "cancel") \/ x = "cancel")
      /\ (Queued(hand.queue, "drop") <=> Queued(q, "drop") \/ x = "drop")
  BY <1>1, FutureState, HandleFields, QueueHas
<1> HIDE DEF q, x
<1>3. h \in Handles
  BY <1>2, FutureState, ZenonT(60) DEF Handles
<1>4. /\ h.asked = hand.asked /\ h.phase = hand.phase /\ h.reading = hand.reading
      /\ h.dropped = hand.dropped /\ h.memo = hand.memo /\ h.queue = q
  BY FutureState, SMTT(60) DEF Handles
<1> HIDE DEF h
<1>5. CASE x = "read"
  <2>1. fut' = fut
    BY <1>1, <1>5
  <2>2. HandleSound(h, fut, reader)
    BY <1>2, <1>4, <1>5, FutureState DEF HandleSound
  <2>3. QED
    BY <1>1, <1>3, <2>1, <2>2, FutureState, FutureStep
<1>6. CASE x = "cancel"
  <2> DEFINE v == Cancelled(fut)
  <2>1. fut' = v
    BY <1>1, <1>6
  <2>2. FutureSound(v, origin, reader, up) /\ Revokes(fut, v) /\ v \in Futures
    BY FutureState, CancelledSound DEF Revokes
  <2> HIDE DEF v
  <2>3. h.asked
    BY <1>2, <1>4, <1>6, FutureState DEF HandleSound
  <2>4. HandleSound(h, fut, reader)
    BY <1>2, <1>4, <1>6, <2>3, FutureState, HandleAsks
  <2>5. HandleSound(h, v, reader) /\ ProducerSound(prod, v, origin)
    BY <2>2, <2>3, <2>4, FutureState, HandleRevoked, ProducerRevoked
  <2>6. QED
    BY <1>1, <1>3, <2>1, <2>2, <2>5, FutureState, FutureStep
<1>7. CASE x = "drop"
  <2> DEFINE v == Released(fut)
  <2>1. fut' = v
    BY <1>1, <1>7
  <2>2. FutureSound(v, origin, reader, up) /\ EndGone(fut, v) /\ v \in Futures /\ v.dropped
    BY FutureState, ReleasedSound DEF EndGone
  <2> HIDE DEF v
  <2>3. HandleSound(hand, v, reader) /\ ProducerSound(prod, v, origin)
    BY <2>2, FutureState, HandleGone, ProducerGone
  <2>4. HandleSound(h, v, reader)
    BY <1>2, <1>4, <1>7, <2>2, <2>3, HandleDrops
  <2>5. QED
    BY <1>1, <1>3, <2>1, <2>2, <2>3, <2>4, FutureState, FutureStep
<1>8. QED
  BY <1>2, <1>5, <1>6, <1>7

(* The transfers of the readable end. *)

\* A future that is t but for its activity and what the guest that is given
\* the end finds.
Transfers(t, v) ==
  /\ v \in Futures /\ v.slot = t.slot /\ v.dropped = t.dropped /\ v.cause = t.cause
  /\ v.op = t.op /\ v.result = t.result /\ v.abandoned = t.abandoned /\ v.done = t.done
  /\ v.left = t.left /\ v.delivered = t.delivered /\ v.poisoned = t.poisoned
  /\ v.blamed = t.blamed /\ v.copied = t.copied /\ v.revoked = t.revoked
  /\ v.event["w"] = t.event["w"] /\ v.act.closed = t.act.closed
  /\ v.act.armed <=> v.act.bound /\ ~v.act.closed /\ ~v.act.disarmed

\* What the transfers make of an activity whose arm is up to date.
LEMMA ActivityMoves ==
  ASSUME NEW a \in Activities, a.armed <=> a.bound /\ ~a.closed /\ ~a.disarmed
  PROVE  /\ LET b == Bound(a) IN
              /\ b.closed = a.closed /\ b.disarmed = a.disarmed /\ (b.bound <=> a.bound \/ ~a.closed)
              /\ b.armed <=> b.bound /\ ~b.closed /\ ~b.disarmed
         /\ LET b == Disarmed(a) IN
              /\ b.closed = a.closed /\ b.bound = a.bound /\ b.disarmed
              /\ b.armed <=> b.bound /\ ~b.closed /\ ~b.disarmed
         /\ LET b == Rearmed(a) IN
              /\ b.closed = a.closed /\ b.bound = a.bound /\ (~a.closed => ~b.disarmed)
              /\ b.armed <=> b.bound /\ ~b.closed /\ ~b.disarmed
<1>1. ASSUME NEW c \in Activities
      PROVE  LET b == Notified(c) IN
             /\ b.closed = c.closed /\ b.disarmed = c.disarmed /\ b.bound = c.bound
             /\ b.armed = (c.bound /\ ~c.closed /\ ~c.disarmed)
  BY SMTT(60) DEF Notified, Activities
<1>2. ASSUME NEW c \in Activities
      PROVE  LET b == [c EXCEPT !.bound = TRUE] IN
             b \in Activities /\ b.closed = c.closed /\ b.disarmed = c.disarmed /\ b.bound
  <2>1. [c EXCEPT !.bound = TRUE] \in Activities
    BY ZenonT(60) DEF Activities
  <2>2. QED
    BY <2>1, ZenonT(60) DEF Activities
<1>3. ASSUME NEW c \in Activities
      PROVE  LET b == [c EXCEPT !.disarmed = FALSE] IN
             b \in Activities /\ b.closed = c.closed /\ ~b.disarmed /\ b.bound = c.bound
  <2>1. [c EXCEPT !.disarmed = FALSE] \in Activities
    BY ZenonT(60) DEF Activities
  <2>2. QED
    BY <2>1, ZenonT(60) DEF Activities
<1>4. LET b == Bound(a) IN
        /\ b.closed = a.closed /\ b.disarmed = a.disarmed /\ (b.bound <=> a.bound \/ ~a.closed)
        /\ b.armed <=> b.bound /\ ~b.closed /\ ~b.disarmed
  <2> DEFINE b == Bound(a)
             c == [a EXCEPT !.bound = TRUE]
  <2>1. CASE a.bound \/ a.closed
    BY <2>1 DEF Bound
  <2>2. CASE ~(a.bound \/ a.closed)
    <3>1. b = Notified(c)
      BY <2>2 DEF Bound
    <3>2. c \in Activities /\ c.closed = a.closed /\ c.disarmed = a.disarmed /\ c.bound
      BY <1>2
    <3> HIDE DEF b, c
    <3>3. b.closed = c.closed /\ b.disarmed = c.disarmed /\ b.bound = c.bound
          /\ b.armed = (c.bound /\ ~c.closed /\ ~c.disarmed)
      BY <1>1, <3>1, <3>2
    <3>4. QED
      BY <2>2, <3>2, <3>3 DEF b
  <2>3. QED
    BY <2>1, <2>2
<1>5. LET b == Disarmed(a) IN
        /\ b.closed = a.closed /\ b.bound = a.bound /\ b.disarmed
        /\ b.armed <=> b.bound /\ ~b.closed /\ ~b.disarmed
  BY SMTT(60) DEF Disarmed, Activities
<1>6. LET b == Rearmed(a) IN
        /\ b.closed = a.closed /\ b.bound = a.bound /\ (~a.closed => ~b.disarmed)
        /\ b.armed <=> b.bound /\ ~b.closed /\ ~b.disarmed
  <2> DEFINE b == Rearmed(a)
             c == [a EXCEPT !.disarmed = FALSE]
  <2>1. CASE a.closed
    BY <2>1 DEF Rearmed
  <2>2. CASE ~a.closed
    <3>1. b = Notified(c)
      BY <2>2 DEF Rearmed
    <3>2. c \in Activities /\ c.closed = a.closed /\ ~c.disarmed /\ c.bound = a.bound
      BY <1>3
    <3> HIDE DEF b, c
    <3>3. b.closed = c.closed /\ b.disarmed = c.disarmed /\ b.bound = c.bound
          /\ b.armed = (c.bound /\ ~c.closed /\ ~c.disarmed)
      BY <1>1, <3>1, <3>2
    <3>4. QED
      BY <2>2, <3>2, <3>3 DEF b
  <2>3. QED
    BY <2>1, <2>2
<1>7. QED
  BY <1>4, <1>5, <1>6

LEMMA CallReturnsInv ==
  ASSUME FutureInv, CallReturns
  PROVE  FutureInv'
<1> DEFINE a == IF fut.dropped THEN Closed(fut.act) ELSE Bound(fut.act)
           w == [fut EXCEPT !.act = a]
           v == Adopted(w)
           h == [hand EXCEPT !.phase = "held"]
           n == hops + 1
<1>1. /\ fut' = v /\ hand' = h /\ UNCHANGED <<origin, up>> /\ prod' = prod
      /\ reader' = "host" /\ hops' = n /\ hand.phase = "deferred"
  BY DEF CallReturns, Wrapped
<1>2. reader = "call"
  BY <1>1, FutureState DEF HandleSound
<1>3. /\ fut.op["r"] = "none" /\ fut.result["r"] = "none" /\ fut.copied = 0 /\ ~fut.delivered
      /\ origin = "guest" /\ "r" \in Sides
  BY <1>2, FutureState, FutureFields DEF EndSound, CopiedSound, ArmSound, Sides
<1>4. /\ a \in Activities /\ a.closed = fut.act.closed /\ ~a.disarmed /\ (~fut.dropped => a.bound)
      /\ a.armed <=> a.bound /\ ~a.closed /\ ~a.disarmed
  <2>1. /\ fut.act \in Activities /\ (fut.dropped <=> fut.act.closed) /\ ~fut.act.disarmed
        /\ fut.act.armed <=> fut.act.bound /\ ~fut.act.closed /\ ~fut.act.disarmed
    BY <1>2, FutureState, FutureFields DEF CauseSound, ArmSound
  <2>2. CASE fut.dropped
    BY <2>1, <2>2, ActivityKept
  <2>3. CASE ~fut.dropped
    BY <2>1, <2>3, ActivityMoves, ActivityTypes
  <2>4. QED
    BY <2>2, <2>3
<1> HIDE DEF a
<1>5. w \in Futures
  BY <1>4, FutureState, ZenonT(60) DEF Futures
<1>6. /\ w.act = a /\ w.slot = fut.slot /\ w.dropped = fut.dropped /\ w.cause = fut.cause
      /\ w.op = fut.op /\ w.result = fut.result /\ w.event = fut.event
      /\ w.abandoned = fut.abandoned /\ w.done = fut.done /\ w.left = fut.left
      /\ w.delivered = fut.delivered /\ w.lowered = fut.lowered /\ w.poisoned = fut.poisoned
      /\ w.blamed = fut.blamed /\ w.copied = fut.copied /\ w.revoked = fut.revoked
      /\ w.stale = fut.stale
  BY <1>5, FutureState, SMTT(60) DEF Futures
<1> HIDE DEF w
<1>7. FutureSound(w, origin, "host", up)
  <2>1. EndSound(w, "host", up["r"], "r") /\ EndSound(w, origin, up["w"], "w")
    BY <1>2, <1>3, <1>6, FutureState DEF EndSound
  <2>2. \A e \in Sides : EndSound(w, HeldBy(origin, "host", e), up[e], e)
    BY <2>1 DEF Sides, HeldBy
  <2>3. CauseSound(w, up) /\ ToldSound(w, origin, "host", up)
    BY <1>2, <1>4, <1>6, FutureState DEF CauseSound, ToldSound
  <2>4. ArmSound(w, origin, "host") /\ CopiedSound(w, origin, "host")
    BY <1>3, <1>4, <1>6 DEF ArmSound, CopiedSound
  <2>5. EndedSound(w, origin, "host", up)
    BY <1>6, FutureState DEF EndedSound, HeldBy
  <2>6. QED
    BY <2>2, <2>3, <2>4, <2>5 DEF FutureSound, FutureCore
<1>8. h \in Handles
  BY FutureState, ZenonT(60) DEF Handles
<1>9. /\ h.phase = "held" /\ h.reading = hand.reading /\ h.memo = hand.memo /\ h.queue = hand.queue
      /\ h.asked = hand.asked /\ h.dropped = hand.dropped
  BY FutureState, SMTT(60) DEF Handles
<1> HIDE DEF h
<1>10. n \in Nat
  BY FutureState
<1> HIDE DEF n
<1>11. /\ v \in Futures /\ FutureSound(v, origin, "host", up) /\ HandleSound(h, v, "host")
       /\ ProducerSound(prod, v, origin)
  <2>0. ProducerSound(prod, v, origin)
    BY <1>3, FutureState DEF ProducerSound
  <2>1. CASE ~hand.reading
    <3>1. v = w
      BY <2>1 DEF Adopted
    <3>2. HandleSound(h, w, "host")
      BY <1>1, <1>2, <1>3, <1>6, <1>9, <2>1, FutureState DEF HandleSound
    <3>3. QED
      BY <1>5, <1>7, <2>0, <3>1, <3>2
  <2>2. CASE hand.reading
    <3>1. v = ReadIssued(w)
      BY <2>2 DEF Adopted
    <3>2. w.op["r"] = "none" /\ w.result["r"] = "none" /\ ~w.delivered
      BY <1>3, <1>6
    <3> HIDE DEF v
    <3>3. /\ v \in Futures /\ FutureSound(v, origin, "host", up)
          /\ ReadLate(w, v) \/ (~w.dropped /\ Arrived(w, v, "r", "host"))
      BY <1>5, <1>7, <3>1, <3>2, ReadIssuedSound
    <3>4. /\ h.reading /\ h.memo = "pending" /\ (Queued(h.queue, "cancel") => h.asked)
          /\ h.dropped => w.dropped \/ Queued(h.queue, "drop")
      BY <1>1, <1>6, <1>9, <2>2, FutureState DEF HandleSound
    <3>5. HandleSound(h, v, "host")
      BY <1>9, <3>3, <3>4, HandleReads
    <3>6. QED
      BY <2>0, <3>3, <3>5 DEF v
  <2>3. QED
    BY <2>1, <2>2
<1> HIDE DEF v
<1>12. QED
  BY <1>1, <1>8, <1>10, <1>11, FutureState DEF FutureInv, FutureTypes

\* What a transfer keeps.
LEMMA MovedKeeps ==
  ASSUME FutureInv, NEW v, Transfers(fut, v)
  PROVE  /\ EndSound(v, origin, up["w"], "w") /\ CauseSound(v, up) /\ ProducerSound(prod, v, origin)
<1>1. EndSound(v, origin, up["w"], "w")
  BY FutureState DEF Transfers, EndSound
<1>2. CauseSound(v, up)
  BY FutureState DEF Transfers, CauseSound
<1>3. ProducerSound(prod, v, origin)
  BY FutureState DEF Transfers, ProducerSound
<1>4. QED
  BY <1>1, <1>2, <1>3

LEMMA PassInv ==
  ASSUME FutureInv, Pass
  PROVE  FutureInv'
<1> DEFINE a == IF origin = "guest" THEN Disarmed(fut.act) ELSE Bound(fut.act)
           x == IF ~fut.dropped \/ fut.event["r"] # "none" THEN fut.event["r"]
                ELSE IF fut.abandoned THEN "trap" ELSE "idleDrop"
           b == fut.dropped /\ ~fut.abandoned
           v == [fut EXCEPT !.lowered = TRUE, !.stale = b, !.act = a, !.event["r"] = x]
           h == [hand EXCEPT !.phase = "passed"]
           n == hops + 1
<1>1. /\ fut' = v /\ hand' = h /\ UNCHANGED <<origin, up>> /\ prod' = prod
      /\ reader' = "guest" /\ hops' = n /\ hand.phase = "held" /\ up["r"] /\ ~hand.reading
      /\ fut.op["r"] # "host" /\ ~fut.delivered
  BY DEF Pass, Transferable
<1>2. reader = "host"
  BY <1>1, FutureState DEF HandleSound
<1>3. /\ fut.op["r"] = "none" /\ fut.result["r"] = "none" /\ fut.copied = 0
      /\ ~fut.done["r"] /\ ~fut.left["r"] /\ "r" \in Sides /\ fut.event["r"] \in FutureEvents
      /\ fut.slot # "r"
  BY <1>1, <1>2, FutureState, FutureFields DEF EndSound, CopiedSound, HandleSound, Sides
<1>4. /\ a \in Activities /\ a.closed = fut.act.closed /\ (~fut.dropped => a.bound)
      /\ a.armed <=> a.bound /\ ~a.closed /\ ~a.disarmed
  <2>1. /\ fut.act \in Activities /\ (fut.dropped <=> fut.act.closed) /\ (~fut.dropped => fut.act.bound)
        /\ fut.act.armed <=> fut.act.bound /\ ~fut.act.closed /\ ~fut.act.disarmed
    BY <1>2, FutureState, FutureFields DEF CauseSound, ArmSound
  <2>2. QED
    BY <2>1, ActivityMoves, ActivityTypes
<1>5. /\ x \in FutureEvents /\ b \in BOOLEAN
      /\ x \notin {"COMPLETED", "CANCELLED"} /\ (x # "none" => fut.dropped)
      /\ x \in {"DROPPED", "idleDrop"} => fut.dropped /\ ~fut.abandoned
  <2>1. /\ fut.event["r"] \notin {"COMPLETED", "CANCELLED"}
        /\ fut.event["r"] # "none" => fut.dropped
        /\ fut.event["r"] \in {"DROPPED", "idleDrop"} => ~fut.abandoned
    BY <1>3, FutureState DEF EndSound, ToldSound, FutureEvents, FutureResults
  <2>2. fut.dropped \in BOOLEAN /\ fut.abandoned \in BOOLEAN
    BY FutureState, FutureFields
  <2>3. CASE ~fut.dropped \/ fut.event["r"] # "none"
    BY <1>3, <2>1, <2>2, <2>3
  <2>4. CASE fut.dropped /\ fut.event["r"] = "none"
    BY <2>2, <2>4 DEF FutureEvents
  <2>5. QED
    BY <2>3, <2>4, <2>2
<1>b. b = (fut.dropped /\ ~fut.abandoned)
  OBVIOUS
<1> HIDE DEF a, x, b
<1>6. [fut.event EXCEPT !["r"] = x] \in [Sides -> FutureEvents]
  BY <1>5, FutureState, FutureFields
<1>7. v \in Futures
  BY <1>4, <1>5, <1>6, FutureState, ZenonT(60) DEF Futures
<1>8. /\ v.act = a /\ v.slot = fut.slot /\ v.dropped = fut.dropped /\ v.cause = fut.cause
      /\ v.op = fut.op /\ v.result = fut.result /\ v.event = [fut.event EXCEPT !["r"] = x]
      /\ v.abandoned = fut.abandoned /\ v.done = fut.done /\ v.left = fut.left
      /\ v.delivered = fut.delivered /\ v.lowered = TRUE /\ v.poisoned = fut.poisoned
      /\ v.blamed = fut.blamed /\ v.copied = fut.copied /\ v.revoked = fut.revoked
      /\ v.stale = b
  BY <1>7, FutureState, SMTT(60) DEF Futures
<1> HIDE DEF v
<1>9. v.event["r"] = x /\ v.event["w"] = fut.event["w"]
  BY <1>8, FutureState, FutureFields DEF Sides
<1>10. Transfers(fut, v)
  BY <1>4, <1>7, <1>8, <1>9 DEF Transfers
<1>11. EndSound(v, origin, up["w"], "w") /\ CauseSound(v, up) /\ ProducerSound(prod, v, origin)
  BY <1>10, MovedKeeps
<1>12. EndSound(v, "guest", up["r"], "r")
  BY <1>3, <1>5, <1>8, <1>9, FutureState DEF EndSound
<1>13. FutureSound(v, origin, "guest", up)
  <2>1. \A e \in Sides : EndSound(v, HeldBy(origin, "guest", e), up[e], e)
    BY <1>11, <1>12 DEF Sides, HeldBy
  <2>2. ToldSound(v, origin, "guest", up)
    BY <1>b, <1>5, <1>8, <1>9, FutureState DEF ToldSound
  <2>3. ArmSound(v, origin, "guest") /\ CopiedSound(v, origin, "guest")
    BY <1>1, <1>3, <1>4, <1>8, FutureState DEF ArmSound, CopiedSound
  <2>4. EndedSound(v, origin, "guest", up)
    BY <1>1, <1>8, FutureState DEF EndedSound, HeldBy, Sides
  <2>5. QED
    BY <1>11, <2>1, <2>2, <2>3, <2>4 DEF FutureSound, FutureCore
<1>14. h \in Handles
  BY FutureState, ZenonT(60) DEF Handles
<1>15. /\ h.phase = "passed" /\ h.reading = hand.reading /\ h.memo = hand.memo /\ h.queue = hand.queue
       /\ h.asked = hand.asked /\ h.dropped = hand.dropped
  BY FutureState, SMTT(60) DEF Handles
<1> HIDE DEF h
<1>16. n \in Nat
  BY FutureState
<1> HIDE DEF n
<1>17. HandleSound(h, v, "guest")
  BY <1>1, <1>3, <1>8, <1>15, FutureState DEF HandleSound
<1>18. QED
  BY <1>1, <1>7, <1>11, <1>13, <1>14, <1>16, <1>17, FutureState DEF FutureInv, FutureTypes

LEMMA GiveBackInv ==
  ASSUME FutureInv, GiveBack
  PROVE  FutureInv'
<1> DEFINE a == Rearmed(fut.act)
           v == [fut EXCEPT !.act = a]
           h == Handle("held")
           n == hops + 1
<1>1. /\ fut' = v /\ hand' = h /\ UNCHANGED <<origin, up>> /\ prod' = prod
      /\ reader' = "host" /\ hops' = n /\ reader = "guest"
      /\ fut.op["r"] = "none" /\ ~fut.done["r"] /\ ~fut.left["r"]
  BY DEF GiveBack
<1>2. fut.result["r"] = "none" /\ fut.copied = 0 /\ ~fut.delivered /\ "r" \in Sides
  BY <1>1, FutureState DEF EndSound, CopiedSound, Sides
<1>3. /\ a \in Activities /\ a.closed = fut.act.closed /\ (~fut.dropped => a.bound /\ ~a.disarmed)
      /\ a.armed <=> a.bound /\ ~a.closed /\ ~a.disarmed
  <2>1. /\ fut.act \in Activities /\ (fut.dropped <=> fut.act.closed) /\ (~fut.dropped => fut.act.bound)
        /\ fut.act.armed <=> fut.act.bound /\ ~fut.act.closed /\ ~fut.act.disarmed
    BY <1>1, FutureState, FutureFields DEF CauseSound, ArmSound
  <2>2. QED
    BY <2>1, ActivityMoves, ActivityTypes
<1> HIDE DEF a
<1>4. v \in Futures
  BY <1>3, FutureState, ZenonT(60) DEF Futures
<1>5. /\ v.act = a /\ v.slot = fut.slot /\ v.dropped = fut.dropped /\ v.cause = fut.cause
      /\ v.op = fut.op /\ v.result = fut.result /\ v.event = fut.event
      /\ v.abandoned = fut.abandoned /\ v.done = fut.done /\ v.left = fut.left
      /\ v.delivered = fut.delivered /\ v.lowered = fut.lowered /\ v.poisoned = fut.poisoned
      /\ v.blamed = fut.blamed /\ v.copied = fut.copied /\ v.revoked = fut.revoked
      /\ v.stale = fut.stale
  BY <1>4, FutureState, SMTT(60) DEF Futures
<1> HIDE DEF v
<1>6. Transfers(fut, v)
  BY <1>3, <1>4, <1>5 DEF Transfers
<1>7. EndSound(v, origin, up["w"], "w") /\ CauseSound(v, up) /\ ProducerSound(prod, v, origin)
  BY <1>6, MovedKeeps
<1>8. EndSound(v, "host", up["r"], "r")
  BY <1>1, <1>2, <1>5, FutureState DEF EndSound
<1>9. FutureSound(v, origin, "host", up)
  <2>1. \A e \in Sides : EndSound(v, HeldBy(origin, "host", e), up[e], e)
    BY <1>7, <1>8 DEF Sides, HeldBy
  <2>2. ToldSound(v, origin, "host", up)
    BY <1>5, FutureState DEF ToldSound
  <2>3. ArmSound(v, origin, "host") /\ CopiedSound(v, origin, "host")
    BY <1>2, <1>3, <1>5, FutureState DEF ArmSound, CopiedSound
  <2>4. EndedSound(v, origin, "host", up)
    BY <1>5, FutureState DEF EndedSound, HeldBy
  <2>5. QED
    BY <1>7, <2>1, <2>2, <2>3, <2>4 DEF FutureSound, FutureCore
<1>10. <<>> \in Seq({"read", "cancel", "drop"}) /\ ~Queued(<<>>, "cancel")
  BY FutureState, HandleFields, QueueHas
<1>11. h \in Handles
  BY <1>10, ZenonT(60) DEF Handles, Handle
<1>12. /\ h.phase = "held" /\ ~h.reading /\ h.memo = "none" /\ h.queue = <<>>
       /\ ~h.asked /\ ~h.dropped
  BY DEF Handle
<1> HIDE DEF h
<1>13. n \in Nat
  BY FutureState
<1> HIDE DEF n
<1>14. HandleSound(h, v, "host")
  BY <1>1, <1>2, <1>5, <1>10, <1>12 DEF HandleSound
<1>15. QED
  BY <1>1, <1>4, <1>7, <1>9, <1>11, <1>13, <1>14, FutureState DEF FutureInv, FutureTypes

LEMMA ProducerFields ==
  ASSUME NEW p \in Producers
  PROVE  /\ p.pc \in {"waiting", "writing", "done"} /\ p.owned \in BOOLEAN
         /\ p.made \in Nat /\ p.released \in Nat
BY ZenonT(60) DEF Producers

LEMMA SourceResolvesInv ==
  ASSUME FutureInv, NEW drops \in BOOLEAN, SourceResolves(drops)
  PROVE  FutureInv'
<1> DEFINE t == IF drops THEN Released(fut) ELSE fut
           s == [t EXCEPT !.op["w"] = "host"]
           u == FutureArrives(s, "w")
           v == [u EXCEPT !.act = Notified(@)]
           b == hand.dropped \/ drops
           h == [hand EXCEPT !.dropped = b]
           p == [prod EXCEPT !.pc = "done"]
           q == [prod EXCEPT !.pc = "writing", !.made = 1]
<1>1. /\ hand' = h /\ UNCHANGED <<origin, reader, hops, up>> /\ prod.pc = "waiting"
      /\ \/ t.dropped /\ ~prod.owned /\ fut' = t /\ prod' = p
         \/ ~(t.dropped /\ ~prod.owned) /\ fut' = v /\ prod' = q
  BY DEF SourceResolves
<1>2. origin = "host"
  BY <1>1, FutureState DEF ProducerSound
<1>3. /\ t \in Futures /\ FutureSound(t, origin, reader, up) /\ HandleSound(hand, t, reader)
      /\ ProducerSound(prod, t, origin) /\ (drops => t.dropped)
  <2>1. CASE drops
    <3>1. t = Released(fut)
      BY <2>1
    <3> HIDE DEF t
    <3>2. FutureSound(t, origin, reader, up) /\ EndGone(fut, t)
      BY <3>1, FutureState, ReleasedSound
    <3>3. QED
      BY <3>2, FutureState, HandleGone, ProducerGone DEF EndGone
  <2>2. CASE ~drops
    BY <2>2, FutureState
  <2>3. QED
    BY <2>1, <2>2
<1> HIDE DEF t
<1>4. /\ t.op["w"] = "none" /\ t.result["w"] = "none" /\ t.copied = 0 /\ "w" \in Sides
      /\ prod.made = 0 /\ prod.released = 0
  BY <1>1, <1>2, <1>3 DEF ProducerSound, Sides
<1>5. b \in BOOLEAN /\ (b <=> hand.dropped \/ drops)
  BY FutureState, HandleFields
<1> HIDE DEF b
<1>6. h \in Handles
  BY <1>5, FutureState, ZenonT(60) DEF Handles
<1>7. /\ h.asked = hand.asked /\ h.phase = hand.phase /\ h.reading = hand.reading
      /\ h.memo = hand.memo /\ h.queue = hand.queue /\ h.dropped = b
  BY FutureState, SMTT(60) DEF Handles
<1> HIDE DEF h
<1>8. HandleSound(h, t, reader)
  <2>1. CASE drops
    BY <1>3, <1>7, <2>1, HandleDrops
  <2>2. CASE ~drops
    BY <1>3, <1>5, <1>7, <2>2 DEF HandleSound
  <2>3. QED
    BY <2>1, <2>2
<1>9. CASE t.dropped /\ ~prod.owned /\ fut' = t /\ prod' = p
  <2>1. p \in Producers
    BY FutureState, ZenonT(60) DEF Producers
  <2>2. p.pc = "done" /\ p.owned = prod.owned
    BY FutureState, SMTT(60) DEF Producers
  <2> HIDE DEF p
  <2>3. ProducerSound(p, t, origin)
    BY <1>2, <1>4, <1>9, <2>2 DEF ProducerSound
  <2>4. QED
    BY <1>1, <1>3, <1>6, <1>8, <1>9, <2>1, <2>3, FutureState, FutureStep
<1>10. CASE ~(t.dropped /\ ~prod.owned) /\ fut' = v /\ prod' = q
  <2>1. EndSound(t, origin, up["w"], "w") /\ ToldSound(t, origin, reader, up)
    BY <1>3, <1>4 DEF FutureSound, FutureCore, HeldBy
  <2>2. FreeFor(t, "w", "host") /\ t.event["w"] = "none"
    BY <1>2, <1>4, <2>1 DEF FreeFor, EndSound, ToldSound
  <2>3. Issues(t, s, "w", "host")
    BY <1>3, <1>4, <2>2, HostIssues
  <2> HIDE DEF s
  <2>4. u \in Futures /\ FutureSound(u, origin, reader, up) /\ Arrived(t, u, "w", "host")
    BY <1>2, <1>3, <1>4, <2>2, <2>3, Arrives DEF HeldBy
  <2> HIDE DEF u
  <2>5. v = u
    BY <2>4, ActivityIdle DEF FutureSound, FutureCore, ArmSound
  <2> HIDE DEF v
  <2>6. HandleSound(h, u, reader)
    BY <1>3, <1>8, <2>4, HandleMet
  <2>7. q \in Producers
    BY FutureState, ZenonT(60) DEF Producers
  <2>8. q.pc = "writing" /\ q.made = 1 /\ q.released = prod.released
    BY FutureState, SMTT(60) DEF Producers
  <2> HIDE DEF q
  <2>9. ProducerSound(q, u, origin)
    <3>1. CASE Late(t, u, "w", "host")
      BY <1>2, <1>4, <2>4, <2>8, <3>1 DEF ProducerSound, Late, Arrived
    <3>2. CASE Parks(t, u, "w", "host")
      BY <1>2, <1>4, <2>4, <2>8, <3>2 DEF ProducerSound, Parks, Arrived
    <3>3. CASE Meets(t, u, "w", "host")
      BY <1>2, <1>4, <2>4, <2>8, <3>3 DEF ProducerSound, Meets, Arrived
    <3>4. QED
      BY <2>4, <3>1, <3>2, <3>3 DEF Arrived
  <2>10. QED
    BY <1>1, <1>6, <1>10, <2>4, <2>5, <2>6, <2>7, <2>9, FutureState, FutureStep
<1>11. QED
  BY <1>1, <1>9, <1>10

LEMMA SourceFailsInv ==
  ASSUME FutureInv, SourceFails
  PROVE  FutureInv'
<1> DEFINE v == Failed(fut)
           p == [prod EXCEPT !.pc = "done"]
<1>1. /\ fut' = v /\ prod' = p /\ UNCHANGED <<origin, reader, hops, up>> /\ hand' = hand
      /\ prod.pc = "waiting"
  BY DEF SourceFails
<1>2. FutureSound(v, origin, reader, up) /\ EndGone(fut, v) /\ v \in Futures
  BY FutureState, FailedSound DEF EndGone
<1> HIDE DEF v
<1>3. HandleSound(hand, v, reader) /\ ProducerSound(prod, v, origin)
  BY <1>2, FutureState, HandleGone, ProducerGone
<1>4. p \in Producers
  BY FutureState, ZenonT(60) DEF Producers
<1>5. p.pc = "done" /\ p.made = prod.made /\ p.released = prod.released
  BY FutureState, SMTT(60) DEF Producers
<1> HIDE DEF p
<1>6. ProducerSound(p, v, origin)
  BY <1>1, <1>2, <1>3, <1>5 DEF ProducerSound, EndGone
<1>7. QED
  BY <1>1, <1>2, <1>3, <1>4, <1>6, FutureState, FutureStep

LEMMA WriteSettlesInv ==
  ASSUME FutureInv, WriteSettles
  PROVE  FutureInv'
<1> DEFINE n == IF fut.result["w"] = "COMPLETED" THEN 1 ELSE 0
           t == [fut EXCEPT !.result["w"] = "none"]
           q == Untaken(prod, n)
           p == [q EXCEPT !.pc = "done"]
           v == IF n = 0 /\ prod.owned /\ fut.poisoned THEN Failed(t) ELSE t
<1>1. /\ fut' = v /\ prod' = p /\ UNCHANGED <<origin, reader, hops, up>> /\ hand' = hand
      /\ fut.result["w"] # "none" /\ "w" \in Sides
  BY DEF WriteSettles, Sides
<1>2. Settles(fut, t, "w") /\ FutureSound(t, origin, reader, up)
  BY <1>1, FutureState, SettledSound
<1> HIDE DEF t
<1>3. /\ t.result["w"] = "none" /\ t.result["r"] = fut.result["r"] /\ t \in Futures
      /\ fut.result["w"] \in FutureResults /\ fut.op["w"] \in {"none", "host", "guest"}
  BY <1>1, <1>2, FutureState, FutureFields DEF Settles, Sides
<1>4. origin = "host" /\ fut.op["w"] = "none"
  BY <1>1, <1>3, FutureState DEF EndSound
<1>5. prod.pc = "writing" /\ prod.made = 1 /\ prod.released = 0
  BY <1>1, <1>4, FutureState DEF ProducerSound
<1>6. HandleSound(hand, t, reader)
  BY <1>2, <1>3, FutureState DEF HandleSound, Settles
<1>7. /\ p \in Producers /\ p.pc = "done" /\ p.owned = prod.owned /\ p.made = 1
      /\ p.released = (IF n = 0 /\ prod.owned THEN 1 ELSE 0)
  <2>1. /\ q \in Producers /\ q.owned = prod.owned /\ q.made = 1
        /\ q.released = (IF n = 0 /\ prod.owned THEN 1 ELSE 0)
    <3>1. CASE n = 0 /\ prod.owned
      <4>1. q = [prod EXCEPT !.released = 1]
        BY <3>1 DEF Untaken
      <4>2. [prod EXCEPT !.released = 1] \in Producers
        BY FutureState, ZenonT(60) DEF Producers
      <4>3. /\ [prod EXCEPT !.released = 1].owned = prod.owned
            /\ [prod EXCEPT !.released = 1].made = prod.made
            /\ [prod EXCEPT !.released = 1].released = 1
        BY FutureState, SMTT(60) DEF Producers
      <4>4. QED
        BY <1>5, <3>1, <4>1, <4>2, <4>3, Zenon
    <3>2. CASE ~(n = 0 /\ prod.owned)
      BY <1>5, <3>2, FutureState DEF Untaken
    <3>3. QED
      BY <3>1, <3>2
  <2> HIDE DEF q
  <2>2. [q EXCEPT !.pc = "done"] \in Producers
    BY <2>1, ZenonT(60) DEF Producers
  <2>3. p.pc = "done" /\ p.owned = q.owned /\ p.made = q.made /\ p.released = q.released
    BY <2>1, SMTT(60) DEF Producers
  <2>4. QED
    BY <2>1, <2>2, <2>3
<1> HIDE DEF p
<1>8. ProducerSound(p, t, origin)
  <2>1. /\ t.op["w"] = "none" /\ t.copied = fut.copied
        /\ t.dropped = fut.dropped /\ t.revoked = fut.revoked
    BY <1>2, <1>4 DEF Settles
  <2>2. CASE fut.result["w"] = "COMPLETED"
    <3>1. fut.copied = 1 /\ p.released = 0
      BY <1>7, <2>2, FutureState DEF EndSound
    <3>2. QED
      BY <1>3, <1>4, <1>7, <2>1, <3>1 DEF ProducerSound
  <2>3. CASE fut.result["w"] # "COMPLETED"
    <3>1. fut.copied = 0 /\ (fut.dropped \/ fut.revoked)
      BY <1>1, <1>3, <1>4, <2>3, FutureState DEF EndSound, ProducerSound, FutureResults
    <3>2. p.owned => p.released = 1
      BY <1>7, <2>3
    <3>3. QED
      BY <1>3, <1>4, <1>7, <2>1, <3>1, <3>2 DEF ProducerSound
  <2>4. QED
    BY <2>2, <2>3
<1>9. /\ v \in Futures /\ FutureSound(v, origin, reader, up) /\ HandleSound(hand, v, reader)
      /\ ProducerSound(p, v, origin)
  <2>1. CASE v = t
    BY <1>2, <1>3, <1>6, <1>8, <2>1
  <2>2. CASE v = Failed(t)
    <3>1. FutureSound(v, origin, reader, up) /\ EndGone(t, v) /\ v \in Futures
      BY <1>2, <1>3, <2>2, FutureState, FailedSound DEF EndGone
    <3> HIDE DEF v
    <3>2. QED
      BY <1>2, <1>3, <1>6, <1>8, <3>1, HandleGone, ProducerGone
  <2>3. QED
    BY <2>1, <2>2
<1> HIDE DEF v
<1>10. QED
  BY <1>1, <1>7, <1>9, FutureState, FutureStep

(* The guests. *)

\* A guest's end, that is not one the call under way is about to hand over.
LEMMA GuestHeld ==
  ASSUME FutureInv, NEW e \in Sides, GuestHas(e), ~(e = "r" /\ reader = "call")
  PROVE  /\ up[e] /\ HeldBy(origin, reader, e) = "guest" /\ fut.op[e] \in {"none", "guest"}
         /\ fut.result[e] = "none" /\ EndSound(fut, "guest", up[e], e)
         /\ (e = "w" => origin = "guest") /\ (e = "r" => reader = "guest")
<1>1. up[e] /\ Side(e) # "host"
  BY DEF GuestHas
<1>2. HeldBy(origin, reader, e) = "guest" /\ (e = "w" => origin = "guest") /\ (e = "r" => reader = "guest")
  BY <1>1, FutureState DEF Side, HeldBy, Sides
<1>3. EndSound(fut, "guest", up[e], e)
  BY <1>2, FutureState DEF HeldBy, Sides
<1>4. fut.op[e] \in {"none", "guest"} /\ fut.result[e] = "none"
  BY <1>3, FutureState, FutureFields DEF EndSound
<1>5. QED
  BY <1>1, <1>2, <1>3, <1>4

\* A drop ends the host's operation, which is parked if there is one.
LEMMA DropGone ==
  ASSUME NEW t, NEW o, NEW rdr, NEW u, FutureCore(t, o, rdr, u), ~t.dropped,
         NEW v, NEW by, NEW notified, Drops(t, v, by, notified)
  PROVE  EndGone(t, v)
<1>1. ASSUME NEW e \in Sides
      PROVE  /\ v.op[e] = IF t.op[e] = "host" THEN "none" ELSE t.op[e]
             /\ v.result[e] = IF t.op[e] = "host" THEN "DROPPED" ELSE t.result[e]
  <2>1. EndSound(t, HeldBy(o, rdr, e), u[e], e)
    BY DEF FutureCore
  <2>2. t.op[e] = "host" => t.slot = e
    BY <2>1 DEF EndSound
  <2>3. QED
    BY <2>2 DEF Drops, Parked
<1>2. QED
  BY <1>1 DEF Drops, EndGone

\* What a trap makes of the future before its end is dropped.
Spoils(t, v, e) ==
  /\ v \in Futures /\ v.slot = (IF t.slot = e THEN "none" ELSE t.slot) /\ v.poisoned
  /\ v.abandoned = (t.abandoned \/ (e = "w" /\ ~t.done["w"] /\ ~t.dropped))
  /\ v.dropped = t.dropped /\ v.cause = t.cause /\ v.op = t.op /\ v.result = t.result
  /\ v.event = t.event /\ v.done = t.done /\ v.left = t.left /\ v.delivered = t.delivered
  /\ v.lowered = t.lowered /\ v.blamed = t.blamed /\ v.act = t.act /\ v.copied = t.copied
  /\ v.revoked = t.revoked /\ v.stale = t.stale

Spoiled(t, e) == [t EXCEPT !.slot = IF @ = e THEN "none" ELSE @, !.poisoned = TRUE,
                           !.abandoned = @ \/ (e = "w" /\ ~t.done["w"] /\ ~t.dropped)]

LEMMA SpoiledFields ==
  ASSUME NEW t \in Futures, NEW e \in Sides
  PROVE  Spoils(t, Spoiled(t, e), e)
<1> DEFINE s == IF t.slot = e THEN "none" ELSE t.slot
           a == t.abandoned \/ (e = "w" /\ ~t.done["w"] /\ ~t.dropped)
           v == [t EXCEPT !.slot = s, !.poisoned = TRUE, !.abandoned = a]
<1>1. s \in Sides \cup {"none"} /\ a \in BOOLEAN
  BY FutureFields
<1> HIDE DEF s, a
<1>2. v \in Futures
  BY <1>1, ZenonT(60) DEF Futures
<1>3. /\ v.slot = s /\ v.poisoned = TRUE /\ v.abandoned = a
      /\ v.dropped = t.dropped /\ v.cause = t.cause /\ v.op = t.op /\ v.result = t.result
      /\ v.event = t.event /\ v.done = t.done /\ v.left = t.left /\ v.delivered = t.delivered
      /\ v.lowered = t.lowered /\ v.blamed = t.blamed /\ v.act = t.act /\ v.copied = t.copied
      /\ v.revoked = t.revoked /\ v.stale = t.stale
  BY <1>2, SMTT(60) DEF Futures
<1> HIDE DEF v
<1>4. Spoils(t, v, e)
  BY <1>2, <1>3 DEF Spoils, s, a
<1>5. QED
  BY <1>4 DEF v, s, a, Spoiled

\* A trap of a guest keeps the invariant: its end is dropped, and a reader that
\* is left without a value is told of it by a trap of its own.
LEMMA TrappedInv ==
  ASSUME FutureInv, NEW e \in Sides, GuestHas(e), ~(e = "r" /\ reader = "call"), Trapped(e)
  PROVE  FutureInv'
<1> DEFINE n == [up EXCEPT ![e] = FALSE]
           t == Spoiled(fut, e)
           v == FutureDropped(t, "trap", {Other(e)})
<1>1. /\ up' = n /\ UNCHANGED <<origin, reader, hops, hand, prod>>
      /\ fut' = IF fut.left[e] THEN fut ELSE v
  BY DEF Trapped, GuestHas, Spoiled
<1>2. /\ n \in [Sides -> BOOLEAN] /\ ~n[e] /\ n[Other(e)] = up[Other(e)] /\ Sides = {e, Other(e)}
      /\ \A f \in Sides : n[f] => up[f]
  BY FutureState DEF Sides, Other
<1> HIDE DEF n
<1>3. /\ HeldBy(origin, reader, e) = "guest" /\ fut.result[e] = "none" /\ fut.op[e] # "host"
      /\ EndSound(fut, "guest", up[e], e) /\ (e = "w" => origin = "guest")
  BY GuestHeld
<1>4. Spoils(fut, t, e)
  BY FutureState, SpoiledFields
<1> HIDE DEF t
<1>5. \A f \in Sides : EndSound(fut, HeldBy(origin, reader, f), up[f], f)
  BY FutureState DEF FutureSound, FutureCore
<1>6. ASSUME NEW f \in Sides PROVE EndSound(fut, HeldBy(origin, reader, f), n[f], f)
  <2>1. EndSound(fut, HeldBy(origin, reader, f), up[f], f) /\ (n[f] => up[f])
    BY <1>2, <1>5
  <2>2. QED
    BY <2>1 DEF EndSound
<1>7. ToldSound(fut, origin, reader, n)
  BY <1>2, FutureState DEF ToldSound, Sides
<1>8. CASE fut.left[e]
  <2>1. fut.dropped
    BY <1>3, <1>8 DEF EndSound
  <2>2. CauseSound(fut, n)
    BY <1>2, FutureState DEF CauseSound
  <2>3. EndedSound(fut, origin, reader, n)
    BY <2>1 DEF EndedSound
  <2>4. FutureSound(fut, origin, reader, n)
    BY <1>6, <1>7, <2>2, <2>3, FutureState DEF FutureSound, FutureCore
  <2>5. QED
    BY <1>1, <1>2, <1>8, <2>4, FutureState DEF FutureInv, FutureTypes
<1>9. CASE ~fut.left[e] /\ fut.dropped
  <2>1. v = t
    BY <1>4, <1>9 DEF FutureDropped, Spoils
  <2>2. fut.slot # e
    BY <1>3, <1>9 DEF EndSound
  <2>3. ASSUME NEW f \in Sides PROVE EndSound(t, HeldBy(origin, reader, f), n[f], f)
    BY <1>4, <1>6, <2>2 DEF EndSound, Spoils
  <2>4. CauseSound(t, n)
    BY <1>2, <1>4, FutureState DEF CauseSound, Spoils
  <2>5. ToldSound(t, origin, reader, n)
    BY <1>4, <1>7, <1>9 DEF ToldSound, Spoils
  <2>6. ArmSound(t, origin, reader) /\ CopiedSound(t, origin, reader)
    BY <1>4, FutureState DEF ArmSound, CopiedSound, Spoils
  <2>7. EndedSound(t, origin, reader, n)
    BY <1>4, <1>9 DEF EndedSound, Spoils
  <2>8. FutureSound(t, origin, reader, n)
    BY <2>3, <2>4, <2>5, <2>6, <2>7 DEF FutureSound, FutureCore
  <2>9. HandleSound(hand, t, reader) /\ ProducerSound(prod, t, origin)
    BY <1>4, <2>2, FutureState DEF HandleSound, ProducerSound, Spoils
  <2>10. QED
    BY <1>1, <1>2, <1>4, <1>9, <2>1, <2>8, <2>9, FutureState DEF FutureInv, FutureTypes, Spoils
<1>10. CASE ~fut.left[e] /\ ~fut.dropped
  <2>1. ASSUME NEW f \in Sides PROVE EndSound(t, HeldBy(origin, reader, f), n[f], f)
    <3>1. CASE f = e
      <4>1. t.slot # e /\ ~n[e]
        <5>1. e # "none"
          BY DEF Sides
        <5>2. QED
          BY <1>2, <1>4, <5>1 DEF Spoils
      <4>2. QED
        BY <1>3, <1>4, <1>6, <3>1, <4>1 DEF EndSound, Spoils
    <3>2. CASE f # e
      <4>1. t.slot = f => fut.slot = f
        BY <1>4 DEF Spoils, Sides
      <4>2. fut.slot = f => t.slot = f
        BY <1>4, <3>2 DEF Spoils
      <4>3. QED
        BY <1>4, <1>6, <4>1, <4>2 DEF EndSound, Spoils
    <3>3. QED
      BY <3>1, <3>2
  <2>2. CauseSound(t, n)
    BY <1>2, <1>4, <1>10, FutureState DEF CauseSound, Spoils
  <2>3. ToldSound(t, origin, reader, n)
    <3>1. fut.event["r"] \notin {"DROPPED", "idleDrop"}
      BY <1>10, FutureState DEF EndSound
    <3>2. QED
      BY <1>4, <3>1, FutureState DEF ToldSound, Spoils
  <2>4. ArmSound(t, origin, reader) /\ CopiedSound(t, origin, reader)
    BY <1>4, FutureState DEF ArmSound, CopiedSound, Spoils
  <2>5. FutureCore(t, origin, reader, n)
    BY <2>1, <2>2, <2>3, <2>4 DEF FutureCore
  <2>6. t \in Futures /\ ~t.dropped /\ t.poisoned /\ {Other(e)} \in SUBSET Sides
    BY <1>2, <1>4, <1>10 DEF Spoils
  <2>7. Drops(t, v, "trap", {Other(e)})
    BY <2>6, DropFields
  <2> HIDE DEF v
  <2>8. reader = "guest" /\ n["r"] => t.abandoned \/ t.copied = 1
    <3>1. ASSUME n["r"] PROVE t.abandoned \/ t.copied = 1
      <4>1. e = "w"
        BY <1>2, <3>1 DEF Sides
      <4>2. fut.done["w"] => fut.copied = 1
        BY <1>3, <1>10, <4>1 DEF EndSound
      <4>3. QED
        BY <1>4, <1>10, <4>1, <4>2 DEF Spoils
    <3>2. QED
      BY <3>1
  <2>9. FutureSound(v, origin, reader, n)
    BY <2>5, <2>6, <2>7, <2>8, FutureState, DropSound
  <2>10. EndGone(t, v)
    BY <2>5, <2>6, <2>7, DropGone
  <2>11. HandleSound(hand, v, reader)
    <3>1. /\ v.op["r"] = IF fut.op["r"] = "host" THEN "none" ELSE fut.op["r"]
          /\ v.result["r"] = IF fut.op["r"] = "host" THEN "DROPPED" ELSE fut.result["r"]
          /\ v.dropped /\ v.poisoned /\ v.copied = fut.copied
      BY <1>4, <2>10 DEF EndGone, Spoils, Sides
    <3>2. hand.memo # "dropped"
      BY <1>10, FutureState DEF HandleSound, CauseSound
    <3>3. QED
      BY <3>1, <3>2, FutureState DEF HandleSound
  <2>12. ProducerSound(prod, v, origin)
    <3>1. /\ v.op["w"] = IF fut.op["w"] = "host" THEN "none" ELSE fut.op["w"]
          /\ v.result["w"] = IF fut.op["w"] = "host" THEN "DROPPED" ELSE fut.result["w"]
          /\ v.dropped /\ v.copied = fut.copied /\ v.revoked = fut.revoked
      BY <1>4, <2>10 DEF EndGone, Spoils, Sides
    <3>2. fut.op["w"] = "host" => fut.copied = 0
      BY FutureState DEF EndSound
    <3>3. QED
      BY <3>1, <3>2, FutureState DEF ProducerSound
  <2>13. v \in Futures
    BY <2>10 DEF EndGone
  <2>14. QED
    BY <1>1, <1>2, <1>10, <2>9, <2>11, <2>12, <2>13, FutureState DEF FutureInv, FutureTypes
<1>11. QED
  BY <1>8, <1>9, <1>10

LEMMA EndTrapsInv ==
  ASSUME FutureInv, NEW e \in Sides, EndTraps(e)
  PROVE  FutureInv'
BY TrappedInv DEF EndTraps

\* A guest reads: the handle has no await, its end having been passed.
LEMMA HandlePassed ==
  ASSUME NEW t, NEW h, HandleSound(h, t, "guest"), NEW v, v.op["r"] # "host", v.result["r"] = "none",
         v.dropped = t.dropped, v.cause = t.cause, v.poisoned = t.poisoned
  PROVE  HandleSound(h, v, "guest")
BY DEF HandleSound

LEMMA GuestCopiesInv ==
  ASSUME FutureInv, NEW e \in Sides, GuestCopies(e)
  PROVE  FutureInv'
<1> DEFINE s == [fut EXCEPT !.op[e] = "guest", !.event[e] = "none"]
           v == FutureArrives(s, e)
<1>1. CASE e = "r" /\ fut.dropped
  BY <1>1, EndTrapsInv DEF GuestCopies
<1>2. CASE ~(e = "r" /\ fut.dropped)
  <2>1. /\ GuestSteps(e, v) /\ fut.op[e] = "none" /\ ~fut.done[e] /\ ~fut.left[e]
    BY <1>2 DEF GuestCopies
  <2>2. /\ fut' = v /\ UNCHANGED <<origin, reader, hops, up, hand, prod>>
        /\ GuestHas(e) /\ ~(e = "r" /\ reader = "call")
    BY <2>1 DEF GuestSteps
  <2>3. /\ HeldBy(origin, reader, e) = "guest" /\ fut.result[e] = "none"
        /\ EndSound(fut, "guest", up[e], e)
        /\ (e = "w" => origin = "guest") /\ (e = "r" => reader = "guest")
    BY <2>2, GuestHeld
  <2>4. ~fut.dropped => fut.copied = 0
    BY <2>1, <2>3, FutureState DEF EndSound, CopiedSound, Sides
  <2>5. Issues(fut, s, e, "guest") /\ FreeFor(fut, e, "guest") /\ (fut.dropped => e = "w")
    <3>1. Issues(fut, s, e, "guest")
      <4>1. fut \in Futures /\ "guest" \in {"host", "guest"}
        BY FutureState
      <4>2. QED
        BY <4>1, GuestIssues, Zenon
    <3>2. FreeFor(fut, e, "guest") /\ (fut.dropped => e = "w")
      BY <1>2, <2>1, <2>3 DEF FreeFor, Sides
    <3>3. QED
      BY <3>1, <3>2
  <2> HIDE DEF s
  <2>6. v \in Futures /\ FutureSound(v, origin, reader, up) /\ Arrived(fut, v, e, "guest")
    BY <2>3, <2>4, <2>5, FutureState, Arrives
  <2> HIDE DEF v
  <2>7. CASE e = "w"
    <3>1. HandleSound(hand, v, reader)
      BY <2>6, <2>7, FutureState, HandleMet
    <3>2. ProducerSound(prod, v, origin)
      BY <2>3, <2>7, FutureState DEF ProducerSound
    <3>3. QED
      BY <2>2, <2>6, <3>1, <3>2, FutureState, FutureStep
  <2>8. CASE e = "r"
    <3>1. ~fut.dropped /\ reader = "guest"
      BY <2>3, <2>5, <2>8
    <3>2. v.op["r"] # "host" /\ v.result["r"] = "none"
      BY <2>6, <2>8, <3>1 DEF Arrived, Late, Parks, Meets
    <3>3. HandleSound(hand, v, reader)
      BY <2>6, <3>1, <3>2, FutureState, HandlePassed DEF Arrived
    <3>4. ProducerSound(prod, v, origin)
      BY <2>6, <2>8, <3>1, FutureState, ProducerMet
    <3>5. QED
      BY <2>2, <2>6, <3>3, <3>4, FutureState, FutureStep
  <2>9. QED
    BY <2>7, <2>8 DEF Sides
<1>3. QED
  BY <1>1, <1>2

\* A guest's end in the future v that was t, all else being as it was.
Touches(t, v, e) ==
  /\ v \in Futures /\ v.dropped = t.dropped /\ v.cause = t.cause /\ v.result = t.result
  /\ v.abandoned = t.abandoned /\ v.delivered = t.delivered /\ v.lowered = t.lowered
  /\ v.poisoned = t.poisoned /\ v.blamed = t.blamed /\ v.act = t.act /\ v.copied = t.copied
  /\ v.revoked = t.revoked /\ v.stale = t.stale
  /\ v.op[e] \in {"none", "guest"} /\ v.event[e] \in {"none", t.event[e]}
  /\ v.op[Other(e)] = t.op[Other(e)] /\ v.event[Other(e)] = t.event[Other(e)]
  /\ v.done[Other(e)] = t.done[Other(e)] /\ v.left[Other(e)] = t.left[Other(e)]
  /\ v.slot = t.slot \/ (t.slot = e /\ v.slot = "none")

\* A guest's step at its own end keeps the invariant.
LEMMA TouchedInv ==
  ASSUME FutureInv, NEW e \in Sides, HeldBy(origin, reader, e) = "guest",
         NEW t \in Futures, FutureSound(t, origin, reader, up),
         HandleSound(hand, t, reader), ProducerSound(prod, t, origin),
         NEW v, Touches(t, v, e), EndSound(v, "guest", up[e], e),
         t.copied = 1 => v.done[e] \/ v.event[e] = "COMPLETED",
         fut' = v, UNCHANGED <<origin, reader, hops, up, hand, prod>>
  PROVE  FutureInv'
<1>1. ASSUME NEW f \in Sides PROVE EndSound(v, HeldBy(origin, reader, f), up[f], f)
  <2>1. CASE f = e
    BY <2>1
  <2>2. CASE f = Other(e)
    <3>1. EndSound(t, HeldBy(origin, reader, f), up[f], f) /\ f # "none" /\ f # e
      BY <2>2 DEF FutureSound, FutureCore, Sides, Other
    <3>2. v.slot = f <=> t.slot = f
      BY <3>1 DEF Touches
    <3>3. QED
      BY <2>2, <3>1, <3>2 DEF EndSound, Touches
  <2>3. QED
    BY <2>1, <2>2 DEF Sides, Other
<1>2. CauseSound(v, up) /\ ArmSound(v, origin, reader) /\ EndedSound(v, origin, reader, up)
  BY DEF Touches, FutureSound, FutureCore, CauseSound, ArmSound, EndedSound
<1>3. CASE e = "r"
  <2>1. reader = "guest"
    BY <1>3 DEF HeldBy
  <2>2. v.event["r"] = "none" \/ v.event["r"] = t.event["r"]
    BY <1>3 DEF Touches
  <2>3. /\ v.event["w"] = t.event["w"] /\ v.op["w"] = t.op["w"] /\ v.done["w"] = t.done["w"]
        /\ v.result["w"] = t.result["w"]
    BY <1>3 DEF Touches, Other
  <2>4. ToldSound(v, origin, reader, up)
    BY <2>2, <2>3 DEF Touches, FutureSound, FutureCore, ToldSound
  <2>5. CopiedSound(v, origin, reader)
    BY <1>3, <2>3 DEF Touches, FutureSound, FutureCore, CopiedSound
  <2>6. v.op["r"] # "host" /\ v.result["r"] = "none"
    <3>1. v.op["r"] \in {"none", "guest"} /\ EndSound(v, "guest", up["r"], "r")
      BY <1>3 DEF Touches
    <3>2. QED
      BY <3>1 DEF EndSound
  <2>7. HandleSound(hand, v, reader)
    BY <2>1, <2>6, HandlePassed DEF Touches
  <2>8. ProducerSound(prod, v, origin)
    BY <1>3, <2>3 DEF Touches, ProducerSound
  <2>9. FutureSound(v, origin, reader, up)
    BY <1>1, <1>2, <2>4, <2>5 DEF FutureSound, FutureCore
  <2>10. QED
    BY <2>7, <2>8, <2>9, FutureState, FutureStep DEF Touches
<1>4. CASE e = "w"
  <2>1. origin = "guest"
    BY <1>4 DEF HeldBy
  <2>2. /\ v.event["r"] = t.event["r"] /\ v.op["r"] = t.op["r"] /\ v.done["r"] = t.done["r"]
        /\ v.result["r"] = t.result["r"]
    BY <1>4 DEF Touches, Other
  <2>3. ToldSound(v, origin, reader, up)
    BY <2>1, <2>2 DEF Touches, FutureSound, FutureCore, ToldSound
  <2>4. CopiedSound(v, origin, reader)
    BY <1>4, <2>2 DEF Touches, FutureSound, FutureCore, CopiedSound
  <2>5. HandleSound(hand, v, reader)
    BY <2>2 DEF Touches, HandleSound
  <2>6. ProducerSound(prod, v, origin)
    BY <2>1 DEF ProducerSound
  <2>7. FutureSound(v, origin, reader, up)
    BY <1>1, <1>2, <2>3, <2>4 DEF FutureSound, FutureCore
  <2>8. QED
    BY <2>5, <2>6, <2>7, FutureState, FutureStep DEF Touches
<1>5. QED
  BY <1>3, <1>4 DEF Sides

LEMMA GuestTakesInv ==
  ASSUME FutureInv, NEW e \in Sides, GuestTakes(e)
  PROVE  FutureInv'
<1> DEFINE v == [fut EXCEPT !.op[e] = "none", !.event[e] = "none", !.done[e] = TRUE]
<1>1. CASE fut.event[e] = "trap"
  BY <1>1, EndTrapsInv DEF GuestTakes
<1>2. CASE fut.event[e] # "trap"
  <2>1. GuestSteps(e, v) /\ fut.event[e] # "none" /\ ~fut.left[e]
    BY <1>2 DEF GuestTakes
  <2>2. /\ fut' = v /\ UNCHANGED <<origin, reader, hops, up, hand, prod>>
        /\ GuestHas(e) /\ ~(e = "r" /\ reader = "call")
    BY <2>1 DEF GuestSteps
  <2>3. /\ HeldBy(origin, reader, e) = "guest" /\ fut.result[e] = "none"
        /\ EndSound(fut, "guest", up[e], e) /\ fut.event[e] \in FutureEvents
    BY <2>2, FutureState, FutureFields, GuestHeld
  <2>4. /\ [fut.op EXCEPT ![e] = "none"] \in [Sides -> {"none", "host", "guest"}]
        /\ [fut.event EXCEPT ![e] = "none"] \in [Sides -> FutureEvents]
        /\ [fut.done EXCEPT ![e] = TRUE] \in [Sides -> BOOLEAN]
    BY FutureState, FutureFields DEF FutureEvents, FutureResults
  <2>5. v \in Futures
    BY <2>4, FutureState, ZenonT(60) DEF Futures
  <2>6. Takes(fut, v, e)
    BY <2>5, FutureState, SMTT(60) DEF Futures, Takes
  <2> HIDE DEF v
  <2>7. /\ v.op[e] = "none" /\ v.event[e] = "none" /\ v.done[e]
        /\ v.op[Other(e)] = fut.op[Other(e)] /\ v.event[Other(e)] = fut.event[Other(e)]
        /\ v.done[Other(e)] = fut.done[Other(e)]
    <3>1. Other(e) \in Sides /\ Other(e) # e /\ fut \in Futures
      BY FutureState DEF Sides, Other
    <3>2. QED
      BY <2>6, <3>1, FutureFields DEF Takes
  <2>8. Touches(fut, v, e)
    BY <2>6, <2>7 DEF Takes, Touches
  <2>9. EndSound(v, "guest", up[e], e)
    BY <1>2, <2>1, <2>3, <2>6, <2>7 DEF EndSound, Takes, FutureEvents, FutureResults
  <2>10. QED
    BY <2>2, <2>3, <2>7, <2>8, <2>9, FutureState, TouchedInv
<1>3. QED
  BY <1>1, <1>2

LEMMA GuestCancelsInv ==
  ASSUME FutureInv, NEW e \in Sides, GuestCancels(e)
  PROVE  FutureInv'
<1> DEFINE v == [fut EXCEPT !.op[e] = "none", !.slot = "none", !.done[e] = fut.dropped]
<1>1. /\ fut' = v /\ UNCHANGED <<origin, reader, hops, up, hand, prod>>
      /\ GuestHas(e) /\ ~(e = "r" /\ reader = "call") /\ fut.op[e] = "guest" /\ fut.event[e] = "none"
  BY DEF GuestCancels, GuestSteps
<1>2. /\ HeldBy(origin, reader, e) = "guest" /\ fut.result[e] = "none" /\ up[e]
      /\ EndSound(fut, "guest", up[e], e)
  BY <1>1, GuestHeld
<1>3. fut.slot = e /\ ~fut.dropped /\ fut.copied = 0 /\ ~fut.left[e] /\ fut.dropped \in BOOLEAN
  BY <1>1, <1>2, FutureState, FutureFields DEF EndSound
<1>4. /\ [fut.op EXCEPT ![e] = "none"] \in [Sides -> {"none", "host", "guest"}]
      /\ [fut.done EXCEPT ![e] = fut.dropped] \in [Sides -> BOOLEAN]
  BY <1>3, FutureState, FutureFields
<1>5. v \in Futures
  BY <1>4, FutureState, ZenonT(60) DEF Futures
<1>6. /\ v.op = [fut.op EXCEPT ![e] = "none"] /\ v.slot = "none"
      /\ v.done = [fut.done EXCEPT ![e] = fut.dropped]
      /\ v.dropped = fut.dropped /\ v.cause = fut.cause /\ v.event = fut.event
      /\ v.abandoned = fut.abandoned /\ v.result = fut.result /\ v.left = fut.left
      /\ v.delivered = fut.delivered /\ v.lowered = fut.lowered /\ v.poisoned = fut.poisoned
      /\ v.blamed = fut.blamed /\ v.act = fut.act /\ v.copied = fut.copied
      /\ v.revoked = fut.revoked /\ v.stale = fut.stale
  BY <1>5, FutureState, SMTT(60) DEF Futures
<1> HIDE DEF v
<1>7. /\ v.op[e] = "none" /\ ~v.done[e] /\ v.op[Other(e)] = fut.op[Other(e)]
      /\ v.done[Other(e)] = fut.done[Other(e)]
  BY <1>3, <1>6, FutureState, FutureFields DEF Sides, Other
<1>8. Touches(fut, v, e)
  BY <1>3, <1>5, <1>6, <1>7 DEF Touches
<1>9. EndSound(v, "guest", up[e], e)
  <2>1. e # "none"
    BY DEF Sides
  <2>2. QED
    BY <1>1, <1>2, <1>3, <1>6, <1>7, <2>1 DEF EndSound
<1>10. fut.copied = 1 => v.done[e] \/ v.event[e] = "COMPLETED"
  BY <1>3
<1>11. QED
  BY <1>1, <1>2, <1>8, <1>9, <1>10, FutureState, TouchedInv

LEMMA GuestDropsInv ==
  ASSUME FutureInv, NEW e \in Sides, GuestDrops(e)
  PROVE  FutureInv'
<1> DEFINE w == FutureDropped(fut, "guest", {Other(e)})
           v == [w EXCEPT !.left[e] = TRUE, !.event[e] = "none"]
<1>1. /\ fut' = v /\ UNCHANGED <<origin, reader, hops, up, hand, prod>>
      /\ GuestHas(e) /\ ~(e = "r" /\ reader = "call") /\ fut.op[e] = "none" /\ ~fut.left[e]
      /\ e = "w" => fut.done["w"]
  BY DEF GuestDrops, GuestSteps
<1>2. /\ HeldBy(origin, reader, e) = "guest" /\ fut.result[e] = "none"
      /\ EndSound(fut, "guest", up[e], e)
      /\ (e = "w" => origin = "guest") /\ (e = "r" => reader = "guest")
  BY <1>1, GuestHeld
<1>3. FutureSound(w, origin, reader, up) /\ EndGone(fut, w)
  <2>1. CASE fut.dropped
    <3>1. w = fut
      BY <2>1 DEF FutureDropped
    <3>2. \A f \in Sides : fut.op[f] # "host"
      BY <2>1, FutureState DEF EndSound, Sides
    <3>3. QED
      BY <2>1, <3>1, <3>2, FutureState DEF EndGone
  <2>2. CASE ~fut.dropped
    <3>1. {Other(e)} \in SUBSET Sides /\ FutureCore(fut, origin, reader, up) /\ fut \in Futures
      BY FutureState DEF Other, Sides, FutureSound
    <3>2. Drops(fut, w, "guest", {Other(e)})
      BY <2>2, <3>1, DropFields
    <3> HIDE DEF w
    <3>3. \/ fut.copied = 1
          \/ "r" \notin {Other(e)} /\ fut.slot # "r"
      <4>1. CASE e = "w"
        BY <1>1, <1>2, <2>2, <4>1 DEF EndSound
      <4>2. CASE e = "r"
        BY <1>1, <1>2, <4>2 DEF EndSound, Other
      <4>3. QED
        BY <4>1, <4>2 DEF Sides
    <3>4. FutureSound(w, origin, reader, up)
      BY <2>2, <3>1, <3>2, <3>3, FutureState, DropSound
    <3>5. EndGone(fut, w)
      BY <2>2, <3>1, <3>2, DropGone
    <3>6. QED
      BY <3>4, <3>5
  <2>3. QED
    BY <2>1, <2>2
<1> HIDE DEF w
<1>4. HandleSound(hand, w, reader) /\ ProducerSound(prod, w, origin)
  BY <1>3, FutureState, HandleGone, ProducerGone
<1>5. w \in Futures /\ w.dropped /\ w.op[e] = "none" /\ w.result[e] = "none"
  BY <1>1, <1>2, <1>3 DEF EndGone
<1>6. EndSound(w, "guest", up[e], e) /\ CopiedSound(w, origin, reader)
  BY <1>2, <1>3 DEF FutureSound, FutureCore
<1>7. w.copied = 1 => w.done[e]
  <2>1. w.copied = 1 => w.done[e] \/ w.event[e] = "COMPLETED"
    BY <1>2, <1>6 DEF CopiedSound, Sides
  <2>2. QED
    BY <1>5, <1>6, <2>1 DEF EndSound
<1>8. /\ [w.left EXCEPT ![e] = TRUE] \in [Sides -> BOOLEAN]
      /\ [w.event EXCEPT ![e] = "none"] \in [Sides -> FutureEvents]
  BY <1>5, FutureFields DEF FutureEvents, FutureResults
<1>w. w \in Futures
  BY <1>5
<1>9. v \in Futures
  BY <1>w, <1>8, ZenonT(60) DEF Futures
<1>10. /\ v.left = [w.left EXCEPT ![e] = TRUE] /\ v.event = [w.event EXCEPT ![e] = "none"]
       /\ v.op = w.op /\ v.slot = w.slot /\ v.done = w.done
       /\ v.dropped = w.dropped /\ v.cause = w.cause
       /\ v.abandoned = w.abandoned /\ v.result = w.result
       /\ v.delivered = w.delivered /\ v.lowered = w.lowered /\ v.poisoned = w.poisoned
       /\ v.blamed = w.blamed /\ v.act = w.act /\ v.copied = w.copied
       /\ v.revoked = w.revoked /\ v.stale = w.stale
  BY <1>w, <1>9, SMTT(60) DEF Futures
<1> HIDE DEF v
<1>11. /\ v.left[e] /\ v.event[e] = "none" /\ v.left[Other(e)] = w.left[Other(e)]
       /\ v.event[Other(e)] = w.event[Other(e)]
  BY <1>5, <1>10, FutureFields, ZenonT(60) DEF Sides, Other
<1>12. Touches(w, v, e)
  BY <1>5, <1>9, <1>10, <1>11 DEF Touches
<1>13. EndSound(v, "guest", up[e], e)
  BY <1>5, <1>6, <1>10, <1>11 DEF EndSound
<1>14. w.copied = 1 => v.done[e] \/ v.event[e] = "COMPLETED"
  BY <1>7, <1>10
<1>15. QED
  BY <1>1, <1>2, <1>3, <1>4, <1>5, <1>12, <1>13, <1>14, TouchedInv

\* The invariant holds of a call under way, and of a future just given away.
LEMMA FutureInitInv == FutureInit => FutureInv
<1> SUFFICES ASSUME FutureInit PROVE FutureInv
  OBVIOUS
<1>1. /\ Fresh \in Futures /\ Fresh.act = NewActivity /\ NewActivity \in Activities
      /\ Handle("deferred") \in Handles /\ Handle("passed") \in Handles
  <2>1. NewActivity \in Activities
    BY DEF NewActivity, Activities
  <2>2. /\ [e \in Sides |-> "none"] \in [Sides -> {"none", "host", "guest"}]
        /\ [e \in Sides |-> "none"] \in [Sides -> FutureResults]
        /\ [e \in Sides |-> "none"] \in [Sides -> FutureEvents]
        /\ [e \in Sides |-> FALSE] \in [Sides -> BOOLEAN] /\ 0 \in Nat
        /\ "none" \in Sides \cup {"none"}
    BY DEF FutureResults, FutureEvents
  <2>3. Fresh \in Futures
    BY <2>1, <2>2, ZenonT(60) DEF Fresh, Futures
  <2>4. <<>> \in Seq({"read", "cancel", "drop"})
    OBVIOUS
  <2>5. Handle("deferred") \in Handles /\ Handle("passed") \in Handles
    BY <2>4, ZenonT(60) DEF Handle, Handles
  <2>6. QED
    BY <2>1, <2>3, <2>5 DEF Fresh
<1>2. /\ NewActivity.closed = FALSE /\ NewActivity.disarmed = FALSE /\ NewActivity.bound = FALSE
      /\ NewActivity.armed = FALSE
  BY DEF NewActivity
<1>3. /\ ~Queued(Handle("deferred").queue, "cancel") /\ ~Queued(Handle("passed").queue, "cancel")
      /\ ~Queued(Handle("deferred").queue, "drop") /\ ~Queued(Handle("passed").queue, "drop")
  BY DEF Handle, Queued
<1>4. up = [e \in Sides |-> TRUE] /\ up \in [Sides -> BOOLEAN] /\ \A e \in Sides : up[e]
  BY DEF FutureInit
<1>5. CASE /\ origin = "guest" /\ reader = "call" /\ hops = 0
           /\ fut = Fresh /\ hand = Handle("deferred")
           /\ prod = [pc |-> "done", owned |-> FALSE, made |-> 0, released |-> 0]
  <2>1. FutureTypes
    BY <1>1, <1>4, <1>5 DEF FutureTypes, Producers
  <2>2. ASSUME NEW e \in Sides PROVE EndSound(fut, HeldBy(origin, reader, e), up[e], e)
    BY <1>4, <1>5 DEF Fresh, EndSound, Sides
  <2>3. CauseSound(fut, up) /\ ArmSound(fut, origin, reader)
    BY <1>1, <1>2, <1>5 DEF Fresh, CauseSound, ArmSound
  <2>4. ToldSound(fut, origin, reader, up) /\ EndedSound(fut, origin, reader, up)
    BY <1>4, <1>5 DEF Fresh, ToldSound, EndedSound, Sides
  <2>5. CopiedSound(fut, origin, reader)
    BY <1>5 DEF Fresh, CopiedSound
  <2>6. HandleSound(hand, fut, reader)
    BY <1>3, <1>5 DEF Fresh, Handle, HandleSound, Sides
  <2>7. ProducerSound(prod, fut, origin)
    BY <1>5 DEF ProducerSound
  <2>8. QED
    BY <2>1, <2>2, <2>3, <2>4, <2>5, <2>6, <2>7 DEF FutureInv, FutureSound, FutureCore
<1>6. ASSUME NEW b \in BOOLEAN, origin = "host", reader = "guest", hops = 1,
             fut = [Fresh EXCEPT !.lowered = TRUE, !.act = Bound(@)], hand = Handle("passed"),
             prod = [pc |-> "waiting", owned |-> b, made |-> 0, released |-> 0]
      PROVE  FutureInv
  <2> DEFINE a == Bound(NewActivity)
             v == [Fresh EXCEPT !.lowered = TRUE, !.act = a]
  <2>1. fut = v
    BY <1>1, <1>6
  <2>2. a \in Activities /\ a.bound /\ ~a.closed /\ ~a.disarmed /\ a.armed
    <3>1. a \in Activities
      BY <1>1, ActivityTypes
    <3>2. a = Notified([NewActivity EXCEPT !.bound = TRUE])
      BY <1>2 DEF Bound
    <3>3. a = [bound |-> TRUE, closed |-> FALSE, disarmed |-> FALSE, armed |-> TRUE]
      BY <3>2 DEF Notified, NewActivity
    <3>4. QED
      BY <3>1, <3>3
  <2> HIDE DEF a
  <2>3. v \in Futures
    BY <1>1, <2>2, ZenonT(60) DEF Futures
  <2>4. /\ v.lowered /\ v.act = a /\ v.op = Fresh.op /\ v.slot = Fresh.slot /\ v.done = Fresh.done
        /\ v.dropped = Fresh.dropped /\ v.cause = Fresh.cause /\ v.event = Fresh.event
        /\ v.abandoned = Fresh.abandoned /\ v.result = Fresh.result /\ v.left = Fresh.left
        /\ v.delivered = Fresh.delivered /\ v.poisoned = Fresh.poisoned
        /\ v.blamed = Fresh.blamed /\ v.copied = Fresh.copied
        /\ v.revoked = Fresh.revoked /\ v.stale = Fresh.stale
    BY <1>1, <2>3, SMTT(60) DEF Futures
  <2> HIDE DEF v
  <2>5. FutureTypes
    BY <1>1, <1>4, <1>6, <2>1, <2>3 DEF FutureTypes, Producers
  <2>6. ASSUME NEW e \in Sides PROVE EndSound(v, HeldBy(origin, reader, e), up[e], e)
    BY <1>4, <2>4 DEF Fresh, EndSound, Sides
  <2>7. CauseSound(v, up) /\ ArmSound(v, origin, reader)
    BY <1>6, <2>2, <2>4 DEF Fresh, CauseSound, ArmSound
  <2>8. ToldSound(v, origin, reader, up) /\ EndedSound(v, origin, reader, up)
    BY <1>4, <2>4 DEF Fresh, ToldSound, EndedSound, Sides
  <2>9. CopiedSound(v, origin, reader)
    BY <1>6, <2>4 DEF Fresh, CopiedSound
  <2>10. HandleSound(hand, v, reader)
    BY <1>3, <1>6, <2>4 DEF Fresh, Handle, HandleSound, Sides
  <2>11. ProducerSound(prod, v, origin)
    BY <1>6, <2>4 DEF Fresh, ProducerSound, Sides
  <2>12. QED
    BY <2>1, <2>5, <2>6, <2>7, <2>8, <2>9, <2>10, <2>11 DEF FutureInv, FutureSound, FutureCore
<1>7. QED
  BY <1>5, <1>6 DEF FutureInit

\* Every step of the embedder's, the producer's, the store's and the guests'
\* keeps the invariant.
THEOREM FutureInvariant == FutureSpec => []FutureInv
<1>1. FutureInit => FutureInv
  BY FutureInitInv
<1>2. FutureInv /\ [FutureNext]_futureVars => FutureInv'
  <2> SUFFICES ASSUME FutureInv, [FutureNext]_futureVars PROVE FutureInv'
    OBVIOUS
  <2>1. CASE UNCHANGED futureVars
    <3>1. UNCHANGED <<origin, reader, hops, up, fut, hand, prod>>
      BY <2>1 DEF futureVars
    <3>2. QED
      BY <3>1, FutureState, FutureStep
  <2>2. CASE AwaitValue \/ AwaitDeferred \/ CancelAwait \/ DropHandle \/ TearDown
    BY <2>2, AwaitValueInv, AwaitDeferredInv, CancelAwaitInv, DropHandleInv, TearDownInv
  <2>3. CASE CallReturns \/ CallFails \/ Reaction \/ FinishRead \/ Pass \/ GiveBack
    BY <2>3, CallReturnsInv, CallFailsInv, ReactionInv, FinishReadInv, PassInv, GiveBackInv
  <2>4. CASE (\E drops \in BOOLEAN : SourceResolves(drops)) \/ SourceFails \/ WriteSettles
    BY <2>4, SourceResolvesInv, SourceFailsInv, WriteSettlesInv
  <2>5. CASE \E e \in Sides : EndTraps(e) \/ GuestCopies(e) \/ GuestTakes(e) \/ GuestCancels(e)
                              \/ GuestDrops(e)
    BY <2>5, EndTrapsInv, GuestCopiesInv, GuestTakesInv, GuestCancelsInv, GuestDropsInv
  <2>6. QED
    BY <2>1, <2>2, <2>3, <2>4, <2>5 DEF FutureNext
<1>3. QED
  BY <1>1, <1>2, PTL DEF FutureSpec

\* The invariant implies what the future promises to its parties.
LEMMA FutureInvSettles == FutureInv => FutureSettles
<1> SUFFICES ASSUME FutureInv PROVE FutureSettles
  OBVIOUS
<1>1. Truthful
  <2>1. fut.copied <= 1
    BY FutureState DEF CopiedSound
  <2>2. hand.memo = "value" => fut.copied = 1 /\ ~fut.done["r"]
    BY FutureState DEF HandleSound, EndSound
  <2>3. /\ hand.memo = "cancelled" => hand.asked
        /\ hand.memo = "dropped" => fut.cause \in {"host", "guest"}
        /\ hand.memo = "peer" => \E e \in Sides : ~up[e]
    BY FutureState DEF HandleSound, CauseSound
  <2>4. reader = "guest" /\ up["r"] /\ fut.event["r"] \in {"DROPPED", "idleDrop"} => fut.stale
    BY FutureState DEF ToldSound
  <2>5. QED
    BY <2>1, <2>2, <2>3, <2>4 DEF Truthful
<1>2. NobodyStranded
  <2>1. fut.slot = "r" => fut.copied = 0 /\ ~fut.dropped
    BY FutureState DEF EndSound
  <2>2. fut.slot = "r" /\ origin = "host" => prod.pc = "waiting" \/ fut.revoked
    BY <2>1, FutureState DEF ProducerSound
  <2>3. fut.slot = "r" /\ origin = "guest" => up["w"] /\ ~fut.left["w"] /\ ~fut.done["w"]
    BY <2>1, FutureState DEF EndSound, EndedSound, HeldBy, Sides
  <2>4. hand.memo = "pending" /\ hand.phase # "deferred"
          => reader = "host" /\ (fut.op["r"] = "host" \/ fut.result["r"] # "none")
    BY FutureState DEF HandleSound
  <2>5. fut.copied = 1 /\ reader = "guest" => fut.done["r"] \/ fut.event["r"] # "none" \/ fut.left["r"]
    BY FutureState DEF CopiedSound
  <2>6. QED
    BY <2>1, <2>2, <2>3, <2>4, <2>5, FutureState DEF NobodyStranded
<1>3. DropReleases
  <2>1. hand.dropped /\ Materialized /\ (\A i \in DOMAIN hand.queue : hand.queue[i] # "drop")
          => fut.dropped
    BY FutureState DEF HandleSound, Materialized, Queued
  <2>2. /\ fut.dropped => ~fut.act.armed
        /\ reader = "host" /\ ~fut.dropped => fut.act.armed
    BY FutureState DEF CauseSound, ArmSound
  <2>3. prod.owned => /\ prod.made >= fut.copied + prod.released
                      /\ prod.pc # "writing" => prod.made = fut.copied + prod.released
    <3>1. ASSUME prod.owned PROVE origin = "host"
      BY <3>1, FutureState DEF ProducerSound
    <3>2. CASE prod.pc = "waiting"
      BY <3>1, <3>2, FutureState DEF ProducerSound
    <3>3. CASE prod.pc = "writing"
      BY <3>1, <3>3, FutureState DEF ProducerSound, CopiedSound
    <3>4. CASE prod.pc = "done"
      <4>1. prod.made \in Nat /\ prod.released \in Nat /\ fut.copied \in Nat
        BY FutureState, FutureFields, ProducerFields
      <4>2. prod.owned => prod.made = fut.copied + prod.released
        BY <3>1, <3>4, FutureState DEF ProducerSound
      <4>3. QED
        BY <4>1, <4>2
    <3>5. QED
      BY <3>2, <3>3, <3>4, FutureState
  <2>4. QED
    BY <2>1, <2>2, <2>3 DEF DropReleases
<1>4. QED
  BY <1>1, <1>2, <1>3 DEF FutureSettles

\* What each party of a future is told is true, and nobody is left behind by
\* a wait or by a drop (Future, HostFuture, lowerFutureSource).
THEOREM FutureHandlesSettle == FutureSpec => []FutureSettles
BY FutureInvariant, FutureInvSettles, PTL
=============================================================================
