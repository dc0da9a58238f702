----------------------- MODULE StreamRendezvous_proofs -----------------------
(***************************************************************************)
(* Machine-checked proofs about StreamRendezvous, for any set of           *)
(* instances, any buffer lengths and both payload kinds.                   *)
(***************************************************************************)
EXTENDS StreamRendezvous, TLAPS

(* What a copy has left behind, beyond the invariants of the model: a      *)
(* buffer never overruns its length, notices of a drop only follow a drop, *)
(* and an end is DONE exactly when its guest was told DROPPED.             *)
Bookkeeping ==
  \A e \in Ends :
    /\ buf[e].progress <= buf[e].len
    /\ event[e] \in {"DROPPED", "idleDrop"} => dropped
    /\ state[e] = "DONE" <=> last[e] = "DROPPED"
    /\ state[e] = "DONE" => dropped

IInv == /\ TypeOK
        /\ SlotIsLiveOp
        /\ EventFitsState
        /\ Conservation
        /\ DropObservable
        /\ SyncWaiterExclusive
        /\ Bookkeeping

LEMMA InitInv == Init => IInv
<1> SUFFICES ASSUME Init PROVE IInv
  OBVIOUS
<1> USE StreamAssumption DEF Init, Ends, NoEnd
<1>1. TypeOK
  <2>1. owner \in [Ends -> Instances \cup {Gone}]
    OBVIOUS
  <2>2. /\ state \in [Ends -> CopyStates] /\ event \in [Ends -> Events]
        /\ last \in [Ends -> Results] /\ seen \in [Ends -> Nat]
    BY DEF CopyStates, Events, CopyEvents, Results
  <2>3. buf \in [Ends -> [len : 0..MaxLen, progress : 0..MaxLen]]
    <3>1. 0 \in 0..MaxLen
      OBVIOUS
    <3> QED
      BY <3>1
  <2>4. /\ syncWait \in [Ends -> BOOLEAN] /\ inSet \in [Ends -> BOOLEAN]
        /\ setWaiter \in [Ends -> BOOLEAN]
    OBVIOUS
  <2>5. slot \in Ends \cup {NoEnd} /\ dropped \in BOOLEAN
        /\ poisoned \in SUBSET Instances /\ moved \in Nat
    OBVIOUS
  <2> QED
    BY <2>1, <2>2, <2>3, <2>4, <2>5 DEF TypeOK
<1>2. SlotIsLiveOp /\ EventFitsState /\ DropObservable
  BY DEF SlotIsLiveOp, EventFitsState, DropObservable, Live, CopyEvents
<1>3. Conservation /\ SyncWaiterExclusive /\ Bookkeeping
  BY DEF Conservation, SyncWaiterExclusive, Bookkeeping
<1> QED
  BY <1>1, <1>2, <1>3 DEF IInv

(* What a rendezvous moves: a positive count that fits both buffers.        *)
LEMMA ExchangeCount ==
  ASSUME IInv, NEW e \in Ends, NEW len \in 0..MaxLen, NEW sync \in BOOLEAN,
         CopyExchange(e, len, sync)
  PROVE  LET n == Min2(len, Remain(slot)) IN
         /\ slot \in Ends /\ slot # e
         /\ n \in Nat /\ n > 0 /\ n <= len /\ buf[slot].progress + n <= buf[slot].len
         /\ seen' = [seen EXCEPT ![e] = @ + n]
         /\ moved' = moved + n /\ seen[e] = moved
<1> DEFINE n == Min2(len, Remain(slot))
<1>1. slot \in Ends /\ slot # e /\ n > 0 /\ seen[e] = moved
  BY DEF CopyExchange, MayCopy, IInv, TypeOK, SlotIsLiveOp, Conservation
<1>2. /\ len \in Nat
      /\ buf[slot].len \in Nat /\ buf[slot].progress \in Nat
  BY <1>1, StreamAssumption DEF IInv, TypeOK
<1>3. n \in Nat /\ n <= len /\ buf[slot].progress + n <= buf[slot].len
  <2>1. Remain(slot) = buf[slot].len - buf[slot].progress
    BY DEF Remain
  <2> QED
    BY <1>1, <1>2, <2>1 DEF Min2
<1>4. seen' = [seen EXCEPT ![e] = @ + n] /\ moved' = moved + n
  BY DEF CopyExchange, ReturnAtOnce
<1> QED
  BY <1>1, <1>3, <1>4

LEMMA NextInv == IInv /\ [Next]_vars => IInv'
<1> SUFFICES ASSUME IInv, [Next]_vars PROVE IInv'
  OBVIOUS
<1> USE StreamAssumption
        DEF IInv, TypeOK, SlotIsLiveOp, EventFitsState, Conservation,
            DropObservable, SyncWaiterExclusive, Bookkeeping, Live, Ends,
            NoEnd, CopyStates, CopyEvents, Events, Results
<1>1. ASSUME NEW e \in Ends, NEW len \in 0..MaxLen, NEW sync \in BOOLEAN,
             CopyDropped(e, len, sync)
      PROVE IInv'
  BY <1>1 DEF CopyDropped, MayCopy, Fresh, ReturnAtOnce, shared
<1>2. ASSUME NEW e \in Ends, NEW len \in 0..MaxLen, NEW sync \in BOOLEAN,
             CopyPark(e, len, sync)
      PROVE IInv'
  BY <1>2 DEF CopyPark, MayCopy, Fresh, Block, hist
<1>3. ASSUME NEW e \in Ends, NEW len \in 0..MaxLen, NEW sync \in BOOLEAN,
             CopyExchange(e, len, sync)
      PROVE IInv'
  <2> DEFINE n == Min2(len, Remain(slot))
  <2>0. /\ slot \in Ends /\ slot # e
        /\ n \in Nat /\ n > 0 /\ n <= len /\ buf[slot].progress + n <= buf[slot].len
        /\ seen' = [seen EXCEPT ![e] = @ + n]
        /\ moved' = moved + n /\ seen[e] = moved
    BY <1>3, ExchangeCount
  <2>1. /\ MayCopy(e, sync) /\ ~dropped
        /\ buf' = [buf EXCEPT ![e] = [len |-> len, progress |-> n],
                              ![slot].progress = @ + n]
        /\ event' = [event EXCEPT ![slot] = "onCopy"]
        /\ ReturnAtOnce(e, "COMPLETED", n)
    BY <1>3 DEF CopyExchange
  <2> HIDE DEF n
  <2> QED
    BY <2>0, <2>1 DEF MayCopy, ReturnAtOnce, shared
<1>4. ASSUME NEW e \in Ends, NEW len \in 0..MaxLen, NEW sync \in BOOLEAN,
             CopyEmpty(e, len, sync)
      PROVE IInv'
  BY <1>4 DEF CopyEmpty, MayCopy, Fresh, ReturnAtOnce, Remain, shared
<1>5. ASSUME NEW e \in Ends, NEW len \in 0..MaxLen, NEW sync \in BOOLEAN,
             CopyReplace(e, len, sync)
      PROVE IInv'
  BY <1>5 DEF CopyReplace, MayCopy, Fresh, Block, Remain, hist
<1>6. ASSUME NEW e \in Ends,
             SyncResume(e)
      PROVE IInv'
  BY <1>6 DEF SyncResume, Take, Delivered, Reclaimed, Progress, ResultOf
<1>7. ASSUME NEW e \in Ends,
             WaitBlock(e)
      PROVE IInv'
  BY <1>7 DEF WaitBlock, shared, hist
<1>8. ASSUME NEW e \in Ends,
             WaitResume(e)
      PROVE IInv'
  BY <1>8 DEF WaitResume, Take, Delivered, Reclaimed, Progress, ResultOf
<1>9. ASSUME NEW e \in Ends,
             Poll(e)
      PROVE IInv'
  BY <1>9 DEF Poll, Take, Delivered, Reclaimed, Progress, ResultOf
<1>10. ASSUME NEW e \in Ends, NEW in \in BOOLEAN,
             Join(e, in)
      PROVE IInv'
  BY <1>10 DEF Join, shared, hist
<1>11. ASSUME NEW e \in Ends,
             CancelArmed(e)
      PROVE IInv'
  BY <1>11 DEF CancelArmed, MayCancel, Superseded, Take, Delivered, Reclaimed, Progress, ResultOf
<1>12. ASSUME NEW e \in Ends,
             CancelParked(e)
      PROVE IInv'
  BY <1>12 DEF CancelParked, MayCancel
<1>13. ASSUME NEW e \in Ends,
             Drop(e)
      PROVE IInv'
  BY SMTT(40), <1>13 DEF Drop, Notified, Peer, hist
<1>14. ASSUME NEW e \in Ends,
             FailedRemoval(e)
      PROVE IInv'
  BY ZenonT(60), <1>14 DEF FailedRemoval, Teardown, Notified, Peer, hist
<1>15. ASSUME NEW i \in Instances,
             Transfer(i)
      PROVE IInv'
  BY <1>15 DEF Transfer, shared, hist
<1>16. ASSUME NEW i \in Instances,
             Poison(i)
      PROVE IInv'
  <2>1. CASE \A e \in Ends : owner[e] # i
    BY <1>16, <2>1 DEF Poison, shared, hist
  <2>2. ASSUME NEW e \in Ends, owner[e] = i, Teardown(e, poisoned \cup {i})
        PROVE IInv'
    BY ZenonT(120), <1>16, <2>2 DEF Poison, Teardown, Notified, Peer, hist
  <2> QED
    BY <1>16, <2>1, <2>2 DEF Poison
<1>17. CASE UNCHANGED vars
  BY <1>17 DEF vars, ends, shared, hist
<1> HIDE DEF IInv, TypeOK, SlotIsLiveOp, EventFitsState, Conservation,
         DropObservable, SyncWaiterExclusive, Bookkeeping, Live, Ends, NoEnd,
         CopyStates, CopyEvents, Events, Results
<1> QED
  BY <1>1, <1>2, <1>3, <1>4, <1>5, <1>6, <1>7, <1>8, <1>9, <1>10, <1>11,
     <1>12, <1>13, <1>14, <1>15, <1>16, <1>17 DEF Next, Copy

THEOREM Invariance == Spec => []IInv
  BY InitInv, NextInv, PTL DEF Spec

(* Every variable of the model keeps its type. *)
THEOREM TypeCorrect == Spec => []TypeOK
<1>1. IInv => TypeOK
  BY DEF IInv
<1> QED
  BY <1>1, Invariance, PTL

(* SharedStreamImpl.cancel and a reclaim thunk act on whatever is in the   *)
(* pending slot; the slot is always the calling end's own live operation,  *)
(* and no operation that is still waiting is missing from it.              *)
THEOREM SlotSafe == Spec => []SlotIsLiveOp
<1>1. IInv => SlotIsLiveOp
  BY DEF IInv
<1> QED
  BY <1>1, Invariance, PTL

(* Reported and unreported progress of either end add up to what crossed   *)
(* the stream, through cancellation, drop, transfer and poisoning.         *)
THEOREM NothingLost == Spec => []Conservation
<1>1. IInv => Conservation
  BY DEF IInv
<1> QED
  BY <1>1, Invariance, PTL

(* When an end is gone, the surviving end that has not been told has an    *)
(* event waiting: the drop of a stream cannot be missed.                   *)
THEOREM DropNeverMissed == Spec => []DropObservable
<1>1. IInv => DropObservable
  BY DEF IInv
<1> QED
  BY <1>1, Invariance, PTL

(* Neither elements nor the news of a drop are lost on the way to a guest. *)
THEOREM NothingIsMissed == Spec => []NothingMissed
<1>1. IInv => NothingMissed
  BY DEF IInv, NothingMissed
<1> QED
  BY <1>1, Invariance, PTL

-----------------------------------------------------------------------------
(* The rendezvous keeps the stream's contract. *)
over == [e \in Ends |-> last[e] = "DROPPED"]

LEMMA InitContract == Init => Contract!Init
  BY DEF Init, Contract!Init, Ends

(* A step that tells end e something brings e up to date with the stream   *)
(* and tells it of the closing exactly if there was one.                   *)
LEMMA ReportStep ==
  ASSUME IInv, IInv', NEW e \in Ends, state[e] # "DONE",
         state'[e] # "COPYING",
         UNCHANGED <<moved, dropped>>,
         seen' = [seen EXCEPT ![e] = seen'[e]],
         last' = [last EXCEPT ![e] = last'[e]],
         last'[e] = "DROPPED" <=> dropped
  PROVE  Contract!Report(e)
<1> USE DEF IInv, TypeOK, Ends
<1>1. ~(last[e] = "DROPPED")
  BY DEF Bookkeeping
<1>2. seen'[e] = moved
  BY DEF Conservation
<1>3. [x \in Ends |-> last'[x] = "DROPPED"]
        = [[x \in Ends |-> last[x] = "DROPPED"] EXCEPT ![e] = dropped]
  OBVIOUS
<1> QED
  BY <1>1, <1>2, <1>3 DEF Contract!Report

LEMMA NextContract ==
  IInv /\ IInv' /\ [Next]_vars => [Contract!Next]_(Contract!contractVars)
<1> SUFFICES ASSUME IInv, IInv', [Next]_vars
             PROVE  Contract!Next \/ UNCHANGED <<moved, seen, dropped, last>>
  BY DEF Contract!contractVars
<1> DEFINE Goal == Contract!Next \/ UNCHANGED <<moved, seen, dropped, last>>
<1> USE DEF Ends
<1>0. ASSUME NEW e \in Ends, Contract!Report(e) PROVE Contract!Next
  BY <1>0 DEF Contract!Next
<1>1. ASSUME NEW e \in Ends, NEW len \in 0..MaxLen, NEW sync \in BOOLEAN,
             CopyDropped(e, len, sync)
      PROVE Goal
  BY <1>0, <1>1, ReportStep
     DEF CopyDropped, MayCopy, ReturnAtOnce, shared, IInv, TypeOK
<1>2. ASSUME NEW e \in Ends, NEW len \in 0..MaxLen, NEW sync \in BOOLEAN,
             CopyPark(e, len, sync) \/ CopyReplace(e, len, sync)
      PROVE Goal
  BY <1>2 DEF CopyPark, CopyReplace, Block, hist
<1>3. ASSUME NEW e \in Ends, NEW len \in 0..MaxLen, NEW sync \in BOOLEAN,
             CopyExchange(e, len, sync)
      PROVE Goal
  <2> DEFINE n == Min2(len, Remain(slot))
  <2>0. /\ n \in Nat /\ n > 0 /\ moved' = moved + n /\ seen[e] = moved
        /\ seen' = [seen EXCEPT ![e] = @ + n]
    BY <1>3, ExchangeCount
  <2> HIDE DEF n
  <2>1. moved' \in Nat /\ moved' > moved /\ ~dropped /\ dropped' = dropped
    <3>1. ~dropped /\ dropped' = dropped
      BY <1>3 DEF CopyExchange, ReturnAtOnce, shared
    <3> QED
      BY <2>0, <3>1 DEF IInv, TypeOK
  <2>2. seen' = [x \in Ends |-> IF x \in {e} THEN moved' ELSE seen[x]]
    BY <2>0 DEF IInv, TypeOK
  <2>3. over' = over
    BY <1>3 DEF over, CopyExchange, ReturnAtOnce, MayCopy, IInv, TypeOK, Bookkeeping
  <2> QED
    BY <2>1, <2>2, <2>3 DEF Contract!Next, Contract!Cross, over
<1>4. ASSUME NEW e \in Ends, NEW len \in 0..MaxLen, NEW sync \in BOOLEAN,
             CopyEmpty(e, len, sync)
      PROVE Goal
  BY <1>0, <1>4, ReportStep
     DEF CopyEmpty, MayCopy, ReturnAtOnce, shared, IInv, TypeOK
<1>5. ASSUME NEW e \in Ends, Live(e), event[e] # "none",
             Take(e, Delivered(e)) \/ Take(e, Superseded(Delivered(e)))
      PROVE Goal
  <2>1. state[e] # "DONE" /\ (event[e] \in {"DROPPED", "idleDrop"} => dropped)
    BY <1>5 DEF IInv, TypeOK, EventFitsState, Bookkeeping, Events, CopyEvents
  <2>2. last'[e] = "DROPPED" <=> dropped
    BY <1>5, <2>1 DEF Take, Delivered, Superseded, ResultOf, IInv, TypeOK,
                      Events, CopyEvents
  <2>3. state'[e] # "COPYING" /\ UNCHANGED <<moved, dropped>>
    BY <1>5 DEF Take, IInv, TypeOK
  <2>4. /\ seen' = [seen EXCEPT ![e] = seen'[e]]
        /\ last' = [last EXCEPT ![e] = last'[e]]
    BY <1>5 DEF Take, IInv, TypeOK
  <2> QED
    BY <1>0, <2>1, <2>2, <2>3, <2>4, ReportStep
<1>6. ASSUME NEW e \in Ends,
             SyncResume(e) \/ WaitResume(e) \/ Poll(e) \/ CancelArmed(e)
      PROVE Goal
  BY <1>5, <1>6 DEF SyncResume, WaitResume, Poll, CancelArmed, MayCancel
<1>7. ASSUME NEW e \in Ends, CancelParked(e)
      PROVE Goal
  BY <1>0, <1>7, ReportStep DEF CancelParked, MayCancel, IInv, TypeOK
<1>8. ASSUME NEW e \in Ends, NEW in \in BOOLEAN, WaitBlock(e) \/ Join(e, in)
      PROVE Goal
  BY <1>8 DEF WaitBlock, Join, shared, hist
<1>9. ASSUME NEW e \in Ends, Drop(e) \/ FailedRemoval(e)
      PROVE Goal
  BY <1>9 DEF Drop, FailedRemoval, Teardown, hist, Contract!Next, Contract!Close
<1>10. ASSUME NEW i \in Instances, Transfer(i)
      PROVE Goal
  BY <1>10 DEF Transfer, shared, hist
<1>11. ASSUME NEW i \in Instances, Poison(i)
      PROVE Goal
  BY <1>11 DEF Poison, Teardown, shared, hist, Contract!Next, Contract!Close
<1>12. CASE UNCHANGED vars
  BY <1>12 DEF vars, shared, hist
<1> QED
  BY <1>1, <1>2, <1>3, <1>4, <1>6, <1>7, <1>8, <1>9, <1>10, <1>11, <1>12
     DEF Next, Copy

(* Every behaviour of the rendezvous, seen through counts and closing, is a *)
(* behaviour of the contract.                                              *)
THEOREM Refinement == Spec => KeepsContract
<1>1. Init => Contract!Init
  BY InitContract
<1>2. IInv /\ IInv' /\ [Next]_vars => [Contract!Next]_(Contract!contractVars)
  BY NextContract
<1> QED
  BY <1>1, <1>2, Invariance, PTL DEF Spec, KeepsContract, Contract!Spec
=============================================================================
