------------------------ MODULE StoreService_proofs -------------------------
(***************************************************************************)
(* Machine-checked proofs about StoreService, for any calls, instances and *)
(* quantum.  Every call gets one answer, its own; and no wakeup is lost,   *)
(* in a store whose plain calls enter its only instance: a plain call that *)
(* traps on its entry requests no service for the threads of other         *)
(* instances it has made ready.  A blocked synchronous callee is made to   *)
(* trap, and where none blocks a call gets a deadlock verdict, only when   *)
(* nothing can move: an elapsed probe has awaited frames that stay.        *)
(***************************************************************************)
EXTENDS StoreService, SequenceTheorems, WellFoundedInduction, TLAPS

(* -- sequences -------------------------------------------------------------- *)

\* The least of a set of numbers.
LEMMA LeastNat ==
  ASSUME NEW T \in SUBSET Nat, T # {}
  PROVE  \E m \in T : \A j \in Nat : j < m => j \notin T
<1> DEFINE R == OpToRel(<, Nat)
<1>1. IsWellFoundedOn(R, Nat)
  BY NatLessThanWellFounded
<1>2. \A x, y \in Nat : y < x => <<y, x>> \in R
  BY DEF OpToRel
<1> HIDE DEF R
<1>3. PICK m \in T : \A y \in T : ~(<<y, m>> \in R)
  BY <1>1, WFMin
<1>4. QED
  BY <1>2, <1>3

\* What is left of a sequence without its i-th element.
LEMMA Removed ==
  ASSUME NEW S, NEW q \in Seq(S), NEW i \in DOMAIN q
  PROVE  /\ RemoveAt(q, i) \in Seq(S)
         /\ Len(RemoveAt(q, i)) = Len(q) - 1
         /\ \A k \in DOMAIN RemoveAt(q, i) :
              /\ k \in DOMAIN q /\ k + 1 \in DOMAIN q
              /\ RemoveAt(q, i)[k] = IF k < i THEN q[k] ELSE q[k + 1]
<1> DEFINE a == SubSeq(q, 1, i - 1)
           b == SubSeq(q, i + 1, Len(q))
<1>1. i \in 1..Len(q) /\ Len(q) \in Nat
  OBVIOUS
<1>2. a \in Seq(S) /\ Len(a) = i - 1 /\ \A k \in 1..(i - 1) : a[k] = q[k]
  BY <1>1
<1>3. b \in Seq(S) /\ Len(b) = Len(q) - i /\ \A k \in 1..(Len(q) - i) : b[k] = q[i + k]
  BY <1>1
<1> HIDE DEF a, b
<1>4. RemoveAt(q, i) = a \o b
  BY DEF RemoveAt, a, b
<1>5. a \o b \in Seq(S) /\ Len(a \o b) = Len(q) - 1
  BY <1>1, <1>2, <1>3
<1>6. ASSUME NEW k \in 1..(Len(q) - 1)
      PROVE  (a \o b)[k] = IF k < i THEN q[k] ELSE q[k + 1]
  <2>1. CASE k < i
    BY <1>1, <1>2, <1>3, <2>1
  <2>2. CASE ~(k < i)
    <3>1. k - (i - 1) \in 1..(Len(q) - i) /\ i + (k - (i - 1)) = k + 1
      BY <1>1, <2>2
    <3>2. k \in 1..(Len(a) + Len(b)) /\ k > Len(a) /\ k - Len(a) = k - (i - 1)
      BY <1>1, <1>2, <1>3, <2>2
    <3>3. (a \o b)[k] = b[k - Len(a)]
      <4>1. \A j \in 1 .. Len(a) + Len(b) : (a \o b)[j] = IF j <= Len(a) THEN a[j] ELSE b[j - Len(a)]
        BY <1>2, <1>3, ConcatProperties
      <4>2. ~(k <= Len(a))
        BY <1>2, <3>2
      <4> QED
        BY <3>2, <4>1, <4>2
    <3>4. QED
      BY <1>3, <2>2, <3>1, <3>2, <3>3
  <2>3. QED
    BY <2>1, <2>2
<1>7. DOMAIN (a \o b) = 1..(Len(q) - 1)
  BY <1>5
<1>8. ASSUME NEW k \in 1..(Len(q) - 1) PROVE k \in DOMAIN q /\ k + 1 \in DOMAIN q
  BY <1>1
<1> QED
  BY <1>4, <1>5, <1>6, <1>7, <1>8

\* What is left is in the sequence, and distinct where the sequence is.
LEMMA RemovedElements ==
  ASSUME NEW S, NEW q \in Seq(S), NEW i \in DOMAIN q
  PROVE  /\ \A k \in DOMAIN RemoveAt(q, i) : \E j \in DOMAIN q : RemoveAt(q, i)[k] = q[j]
         /\ (\A j, k \in DOMAIN q : q[j] = q[k] => j = k) =>
              /\ \A k \in DOMAIN RemoveAt(q, i) : RemoveAt(q, i)[k] # q[i]
              /\ \A j, k \in DOMAIN RemoveAt(q, i) :
                   RemoveAt(q, i)[j] = RemoveAt(q, i)[k] => j = k
<1> DEFINE p == RemoveAt(q, i)
<1>1. /\ p \in Seq(S)
      /\ \A k \in DOMAIN p : /\ k \in DOMAIN q /\ k + 1 \in DOMAIN q
                             /\ p[k] = IF k < i THEN q[k] ELSE q[k + 1]
  BY Removed
<1> HIDE DEF p
<1>2. \A k \in DOMAIN p : k \in Nat
  BY <1>1
<1>3. i \in Nat
  OBVIOUS
<1>4. \A k \in DOMAIN p : \E j \in DOMAIN q : p[k] = q[j] /\ j # i /\ j \in {k, k + 1}
                             /\ (j = k => k < i) /\ (j = k + 1 => ~(k < i))
  BY <1>1, <1>2, <1>3
<1>5. ASSUME \A j, k \in DOMAIN q : q[j] = q[k] => j = k
      PROVE  /\ \A k \in DOMAIN p : p[k] # q[i]
             /\ \A j, k \in DOMAIN p : p[j] = p[k] => j = k
  BY <1>1, <1>2, <1>3, <1>4, <1>5
<1> QED
  BY <1>4, <1>5 DEF p

\* The first of its occurrences is removed from a sequence.
LEMMA FirstRemoved ==
  ASSUME NEW S, NEW q \in Seq(S), NEW e
  PROVE  /\ RemoveFirst(q, e) \in Seq(S)
         /\ q = <<>> => RemoveFirst(q, e) = <<>>
         /\ \A k \in DOMAIN RemoveFirst(q, e) : \E j \in DOMAIN q : RemoveFirst(q, e)[k] = q[j]
<1>1. CASE ~\E i \in 1..Len(q) : q[i] = e
  BY <1>1 DEF RemoveFirst
<1>2. CASE \E i \in 1..Len(q) : q[i] = e
  <2> DEFINE T == {i \in 1..Len(q) : q[i] = e}
  <2>0. T \in SUBSET Nat /\ T # {}
    BY <1>2
  <2>1. PICK m \in T : \A j \in Nat : j < m => j \notin T
    BY <2>0, LeastNat
  <2>2. \A j \in T : m <= j
    BY <2>1
  <2>3. Min(T) \in T
    BY <2>1, <2>2 DEF Min
  <2>4. SelectInSeq(q, LAMBDA v : v = e) = Min(T)
    BY <2>1 DEF SelectInSeq
  <2>5. RemoveFirst(q, e) = RemoveAt(q, Min(T))
    BY <1>2, <2>4 DEF RemoveFirst
  <2>6. Min(T) \in DOMAIN q /\ q # <<>>
    BY <2>3
  <2> HIDE DEF T
  <2>7. QED
    BY <2>5, <2>6, Removed, RemovedElements
<1> QED
  BY <1>1, <1>2

\* Of a sequence without repetitions the element itself is removed.
LEMMA FirstOfDistinct ==
  ASSUME NEW S, NEW q \in Seq(S), NEW e, \A i, j \in DOMAIN q : q[i] = q[j] => i = j
  PROVE  /\ \A k \in DOMAIN RemoveFirst(q, e) : RemoveFirst(q, e)[k] # e
         /\ \A j, k \in DOMAIN RemoveFirst(q, e) :
              RemoveFirst(q, e)[j] = RemoveFirst(q, e)[k] => j = k
<1>1. CASE ~\E i \in 1..Len(q) : q[i] = e
  BY <1>1 DEF RemoveFirst
<1>2. CASE \E i \in 1..Len(q) : q[i] = e
  <2> DEFINE T == {i \in 1..Len(q) : q[i] = e}
  <2>0. T \in SUBSET Nat /\ T # {}
    BY <1>2
  <2>1. PICK m \in T : \A j \in Nat : j < m => j \notin T
    BY <2>0, LeastNat
  <2>2. \A j \in T : m <= j
    BY <2>1
  <2>3. Min(T) \in T
    BY <2>1, <2>2 DEF Min
  <2>4. SelectInSeq(q, LAMBDA v : v = e) = Min(T)
    BY <2>1 DEF SelectInSeq
  <2>5. RemoveFirst(q, e) = RemoveAt(q, Min(T))
    BY <1>2, <2>4 DEF RemoveFirst
  <2>6. Min(T) \in DOMAIN q /\ q[Min(T)] = e
    BY <2>3
  <2> HIDE DEF T
  <2>7. QED
    BY <2>5, <2>6, RemovedElements
<1> QED
  BY <1>1, <1>2

\* The other elements of a sequence remain when one is removed.
LEMMA RemovedRest ==
  ASSUME NEW S, NEW q \in Seq(S), NEW i \in DOMAIN q, NEW j \in DOMAIN q, j # i
  PROVE  \E k \in DOMAIN RemoveAt(q, i) : RemoveAt(q, i)[k] = q[j]
<1> DEFINE p == RemoveAt(q, i)
<1>1. /\ p \in Seq(S) /\ Len(p) = Len(q) - 1
      /\ \A k \in DOMAIN p : p[k] = IF k < i THEN q[k] ELSE q[k + 1]
  BY Removed
<1>2. i \in 1..Len(q) /\ j \in 1..Len(q) /\ Len(q) \in Nat
  OBVIOUS
<1> HIDE DEF p
<1>3. DOMAIN p = 1..(Len(q) - 1)
  BY <1>1
<1>4. CASE j < i
  <2>1. j \in DOMAIN p
    BY <1>2, <1>3, <1>4
  <2> QED
    BY <1>1, <1>4, <2>1 DEF p
<1>5. CASE ~(j < i)
  <2>1. j - 1 \in DOMAIN p /\ ~(j - 1 < i) /\ (j - 1) + 1 = j
    BY <1>2, <1>3, <1>5
  <2> QED
    BY <1>1, <2>1 DEF p
<1> QED
  BY <1>4, <1>5

(* -- what guest code does --------------------------------------------------- *)

Answered == {"result", "failed", "deadlock"}
Readiness == {"no", "yes", "cancel"}

\* The call of t is answered, or nothing is; the calls were c.
Published(t, c) ==
  /\ \A u \in Threads \ {t} : call'[u] = c[u]
  /\ \/ call'[t] = c[t] /\ UNCHANGED <<heard, hostFailure>>
     \/ /\ c[t] \in Unanswered /\ hostFailure = Nobody
        /\ call'[t] = "result" /\ UNCHANGED <<heard, hostFailure>>
     \/ /\ c[t] \in Unanswered /\ hostFailure # Nobody /\ hostFailure' = Nobody
        /\ call'[t] = "failed" /\ heard' = [heard EXCEPT ![t] = hostFailure]
  /\ poisoned' = poisoned

\* The instance of t is poisoned, and its calls fail; the calls were d.
Trapped(t, d) ==
  /\ poisoned' = poisoned \cup {InstOf[t]} /\ UNCHANGED <<heard, hostFailure>>
  /\ \A u \in Threads : IF InstOf[u] = InstOf[t] /\ d[u] \in Unanswered
                        THEN call'[u] = "failed" ELSE call'[u] = d[u]

CallsUntouched == UNCHANGED <<call, heard, hostFailure, poisoned>>

\* No thread but t moves, unless it is abandoned at the gate.
OnlyMoves(t) ==
  \A u \in Threads \ {t} : place'[u] = place[u] \/ (place[u] = "gate" /\ place'[u] = "over")

CallTypes == /\ call' \in [Threads -> Calls] /\ heard' \in [Threads -> Failures]
             /\ hostFailure' \in Failures /\ poisoned' \subseteq Instances
ThreadTypes == /\ place' \in [Threads -> Places] /\ ready' \in [Threads -> Readiness]
               /\ outstanding' \subseteq Threads

LEMMA EffectsTyped ==
  ASSUME TypeOK, NEW t \in Threads, NEW own \in {"no", "yes"}, Effects(t, own)
  PROVE  ready' \in [Threads -> Readiness] /\ outstanding' \subseteq Threads
BY DEF TypeOK, Effects, Readiness

LEMMA GuestRuns ==
  ASSUME TypeOK, NEW t \in Threads, RunsGuest(t)
  PROVE  /\ ThreadTypes /\ OnlyMoves(t)
         /\ place'[t] \in {"minted", "hop", "stalled"}
<1>1. ready' \in [Threads -> Readiness] /\ outstanding' \subseteq Threads
  BY EffectsTyped DEF RunsGuest
<1>2. PICK to \in {"minted", "hop", "stalled"} : place' = [place EXCEPT ![t] = to]
  BY DEF RunsGuest
<1>3. place \in [Threads -> Places] /\ to \in Places
  BY DEF TypeOK, Places
<1> QED
  BY <1>1, <1>2, <1>3 DEF ThreadTypes, OnlyMoves

LEMMA NoFailure == Nobody \in Failures
BY DEF Failures

LEMMA PublishTells ==
  ASSUME NEW t \in Threads, NEW c \in [Threads -> Calls], hostFailure \in Failures,
         heard \in [Threads -> Failures], Publish(t, c), poisoned' = poisoned
  PROVE  /\ Published(t, c) /\ call' \in [Threads -> Calls]
         /\ heard' \in [Threads -> Failures] /\ hostFailure' \in Failures
<1>1. "result" \in Calls /\ "failed" \in Calls
  BY DEF Calls
<1>2. CASE /\ c[t] \in Unanswered /\ hostFailure = Nobody
           /\ call' = [c EXCEPT ![t] = "result"] /\ UNCHANGED <<heard, hostFailure>>
  BY <1>1, <1>2 DEF Published
<1>3. CASE c[t] \in Unanswered /\ FailsWithIt(t, c)
  BY <1>1, <1>3, NoFailure DEF FailsWithIt, Published
<1>4. CASE call' = c /\ UNCHANGED <<heard, hostFailure>>
  BY <1>4 DEF Published
<1> QED
  BY <1>2, <1>3, <1>4 DEF Publish

LEMMA CoreReturns ==
  ASSUME TypeOK, CallsAssumption, NEW t \in Threads,
         NEW c \in [Threads -> Calls], NEW d \in [Threads -> Calls],
         Parks(t, c) \/ Exits(t, c) \/ Traps(t, d)
  PROVE  /\ place' \in [Threads -> Places] /\ CallTypes /\ OnlyMoves(t)
         /\ place'[t] \in {"parked", "over"}
         /\ Published(t, c) \/ Trapped(t, d)
<1>0. /\ place \in [Threads -> Places] /\ poisoned \subseteq Instances
      /\ heard \in [Threads -> Failures] /\ hostFailure \in Failures
      /\ "parked" \in Places /\ "over" \in Places /\ InstOf[t] \in Instances /\ "failed" \in Calls
  BY DEF TypeOK, Places, CallsAssumption, Calls
<1>1. CASE Parks(t, c)
  <2>1. place' = [place EXCEPT ![t] = "parked"] /\ poisoned' = poisoned
    BY <1>1 DEF Parks
  <2>2. /\ Published(t, c) /\ call' \in [Threads -> Calls]
        /\ heard' \in [Threads -> Failures] /\ hostFailure' \in Failures
    <3>1. CASE Publish(t, c)
      BY <1>0, <2>1, <3>1, PublishTells
    <3>2. CASE call' = c /\ UNCHANGED <<heard, hostFailure>>
      BY <1>0, <2>1, <3>2 DEF Published
    <3>3. QED
      BY <1>1, <3>1, <3>2 DEF Parks
  <2> QED
    BY <1>0, <2>1, <2>2 DEF OnlyMoves, CallTypes
<1>2. CASE Exits(t, c)
  <2>1. place' = [place EXCEPT ![t] = "over"] /\ poisoned' = poisoned
    BY <1>2 DEF Exits
  <2>2. /\ Published(t, c) /\ call' \in [Threads -> Calls]
        /\ heard' \in [Threads -> Failures] /\ hostFailure' \in Failures
    BY <1>0, <1>2, <2>1, PublishTells DEF Exits
  <2> QED
    BY <1>0, <2>1, <2>2 DEF OnlyMoves, CallTypes
<1>3. CASE Traps(t, d)
  <2> DEFINE fails == UnansweredIn({InstOf[t]}, d)
  <2>1. /\ poisoned' = poisoned \cup {InstOf[t]} /\ UNCHANGED <<heard, hostFailure>>
        /\ call' = [u \in Threads |-> IF u \in fails THEN "failed" ELSE d[u]]
        /\ place' = [Abandoned(fails) EXCEPT ![t] = "over"]
    BY <1>3 DEF Traps
  <2>2. \A u \in Threads : u \in fails <=> InstOf[u] = InstOf[t] /\ d[u] \in Unanswered
    BY DEF UnansweredIn
  <2>3. Abandoned(fails) \in [Threads -> Places]
        /\ \A u \in Threads : Abandoned(fails)[u] = place[u]
                              \/ (place[u] = "gate" /\ Abandoned(fails)[u] = "over")
    BY <1>0 DEF Abandoned
  <2> HIDE DEF fails
  <2>4. Trapped(t, d) /\ call' \in [Threads -> Calls]
    BY <1>0, <2>1, <2>2 DEF Trapped
  <2> QED
    BY <1>0, <2>1, <2>3, <2>4 DEF OnlyMoves, CallTypes
<1> QED
  BY <1>1, <1>2, <1>3

\* Guest code of t that cannot suspend runs to its end.
LEMMA PlainRuns ==
  ASSUME TypeOK, CallsAssumption, NEW t \in Threads,
         NEW c \in [Threads -> Calls], NEW d \in [Threads -> Calls], RunsPlain(t, c, d)
  PROVE  /\ t \in Plain /\ ThreadTypes /\ CallTypes /\ OnlyMoves(t)
         /\ place'[t] \in {"parked", "over"}
         /\ Published(t, c) \/ Trapped(t, d)
<1>1. Parks(t, c) \/ Exits(t, c) \/ Traps(t, d)
  BY DEF RunsPlain
<1>2. ready' \in [Threads -> Readiness] /\ outstanding' \subseteq Threads
  BY EffectsTyped DEF RunsPlain
<1> QED
  BY <1>1, <1>2, CoreReturns DEF RunsPlain, ThreadTypes

LEMMA Resumes ==
  ASSUME TypeOK, CallsAssumption, NEW t \in Candidates, NEW d \in [Threads -> Calls], Resume(t, d)
  PROVE  /\ t \in Threads /\ InstOf[t] \notin poisoned /\ place[t] \in InWaiting
         /\ ThreadTypes /\ CallTypes /\ OnlyMoves(t)
         /\ place'[t] \in {"minted", "hop", "stalled", "claimed"}
              \/ (place[t] \in {"gate", "parked"} /\ place'[t] \in {"parked", "over"} /\ t \in Plain)
         /\ CallsUntouched \/ Published(t, call) \/ Trapped(t, d)
         /\ pendingResumptions' \subseteq Threads
         /\ syncParks' \in {syncParks, RemoveFirst(syncParks, t)}
<1>0. /\ t \in Threads /\ InstOf[t] \notin poisoned /\ place[t] \in InWaiting
      /\ place \in [Threads -> Places] /\ call \in [Threads -> Calls]
      /\ heard \in [Threads -> Failures] /\ hostFailure \in Failures /\ poisoned \subseteq Instances /\ ready \in [Threads -> Readiness]
      /\ outstanding \subseteq Threads /\ pendingResumptions \subseteq Threads
  BY DEF Candidates, TypeOK, Readiness
<1>1. CASE /\ place[t] \in {"gate", "parked"}
           /\ RunsGuest(t) /\ UNCHANGED <<call, heard, hostFailure, poisoned>>
           /\ UNCHANGED <<pendingResumptions, syncParks>>
  BY <1>0, <1>1, GuestRuns DEF CallTypes, CallsUntouched
<1>2. CASE /\ place[t] \in {"gate", "parked"} /\ RunsPlain(t, call, d)
           /\ UNCHANGED <<pendingResumptions, syncParks>>
  BY <1>0, <1>2, PlainRuns
<1>3. CASE /\ place[t] \in {"minted", "suspended"}
           /\ place' = [place EXCEPT ![t] = "claimed"]
           /\ ready' = [ready EXCEPT ![t] = "no"]
           /\ pendingResumptions' = pendingResumptions \cup {t}
           /\ syncParks' = RemoveFirst(syncParks, t)
           /\ UNCHANGED <<outstanding, call, heard, hostFailure, poisoned>>
  <2>1. ready' \in [Threads -> Readiness] /\ place' \in [Threads -> Places]
    BY <1>0, <1>3 DEF Readiness, Places
  <2>2. place'[t] = "claimed" /\ OnlyMoves(t)
    BY <1>0, <1>3 DEF OnlyMoves
  <2> QED
    BY <1>0, <1>3, <2>1, <2>2 DEF ThreadTypes, CallTypes, CallsUntouched
<1> QED
  BY <1>1, <1>2, <1>3 DEF Resume

LEMMA Dispatches ==
  ASSUME TypeOK, CallsAssumption, NEW i \in DOMAIN settled, Dispatch(i)
  PROVE  /\ settled[i] \in Threads /\ settled' = RemoveAt(settled, i) /\ settled' \in Seq(Threads)
         /\ ThreadTypes /\ CallTypes /\ OnlyMoves(settled[i])
         /\ place'[settled[i]] \in {"minted", "hop", "stalled", "parked", "over"}
         /\ \/ CallsUntouched
            \/ InstOf[settled[i]] \notin poisoned
               /\ (Published(settled[i], call) \/ Trapped(settled[i], call))
         /\ doomed' = doomed
<1> DEFINE t == settled[i]
<1>0. /\ t \in Threads
      /\ place \in [Threads -> Places] /\ call \in [Threads -> Calls]
      /\ heard \in [Threads -> Failures] /\ hostFailure \in Failures /\ poisoned \subseteq Instances /\ ready \in [Threads -> Readiness]
      /\ outstanding \subseteq Threads /\ "over" \in Places
  BY DEF TypeOK, Readiness, Places
<1>1. settled' = RemoveAt(settled, i) /\ settled' \in Seq(Threads) /\ doomed' = doomed
  BY Removed DEF TypeOK, Dispatch
<1>2. CASE /\ place' = [place EXCEPT ![t] = "over"]
           /\ UNCHANGED <<ready, outstanding, call, heard, hostFailure, poisoned>>
  BY <1>0, <1>1, <1>2 DEF ThreadTypes, CallTypes, OnlyMoves, CallsUntouched
<1>3. CASE /\ InstOf[t] \notin poisoned /\ Parks(t, call)
           /\ \E r \in IF ready[t] = "no" THEN {"no", "yes"} ELSE {ready[t]} :
                ready' = [ready EXCEPT ![t] = r]
           /\ UNCHANGED outstanding
  <2>1. ready' \in [Threads -> Readiness]
    BY <1>0, <1>3 DEF Readiness
  <2> QED
    BY <1>0, <1>1, <1>3, <2>1, CoreReturns DEF ThreadTypes
<1>4. CASE /\ InstOf[t] \notin poisoned
           /\ Exits(t, call) \/ Traps(t, call)
           /\ UNCHANGED <<ready, outstanding>>
  BY <1>0, <1>1, <1>4, CoreReturns DEF ThreadTypes
<1>5. CASE RunsGuest(t) /\ UNCHANGED <<call, heard, hostFailure, poisoned>>
  BY <1>0, <1>1, <1>5, GuestRuns DEF CallTypes, CallsUntouched
<1> QED
  BY <1>2, <1>3, <1>4, <1>5 DEF Dispatch

(* -- admissions and invocations -------------------------------------------- *)

HopPlaces == InAwaiting \ {"suspended"}

LEMMA AdmissibleMeaning ==
  ASSUME TypeOK
  PROVE  /\ Admissible \subseteq DOMAIN admissions
         /\ \A i \in DOMAIN admissions :
              /\ admissions[i] \in Threads
              /\ i \in Admissible <=>
                   \A u \in Threads : place[u] \in HopPlaces => InstOf[u] # InstOf[admissions[i]]
BY DEF TypeOK, Admissible, HopsOf, Hops, HopPlaces

LEMMA NextIsAdmissible ==
  ASSUME TypeOK, Admissible # {}
  PROVE  /\ NextAdmission \in Admissible /\ NextAdmission \in DOMAIN admissions
         /\ admissions[NextAdmission] \in Threads
<1>1. Admissible \in SUBSET Nat
  BY DEF Admissible, TypeOK
<1>2. PICK m \in Admissible : \A j \in Nat : j < m => j \notin Admissible
  BY <1>1, LeastNat
<1>3. \A j \in Admissible : m <= j
  BY <1>1, <1>2
<1>4. NextAdmission \in Admissible
  BY <1>3 DEF NextAdmission
<1> QED
  BY <1>4, AdmissibleMeaning

\* What becomes of a call that is invoked: it is refused, it is driven, or it traps.
RefusedNow(t) ==
  /\ InstOf[t] \in poisoned /\ UNCHANGED <<place, ready, heard, hostFailure, poisoned, driving>>
  /\ call'[t] = "failed" /\ \A u \in Threads \ {t} : call'[u] = call[u]
Entered(t) ==
  /\ place'[t] # "out" /\ driving' = t /\ poisoned' = poisoned
  /\ \A u \in Threads \ {t} : call'[u] = call[u]
  /\ \/ call'[t] = "driving" /\ UNCHANGED <<heard, hostFailure>>
     \/ call'[t] = "result" /\ hostFailure = Nobody /\ UNCHANGED <<heard, hostFailure>>
     \/ /\ call'[t] = "failed" /\ hostFailure # Nobody /\ hostFailure' = Nobody
        /\ heard' = [heard EXCEPT ![t] = hostFailure]
Crashed(t) ==
  /\ t \in Plain /\ place'[t] # "out" /\ driving' = driving /\ UNCHANGED <<heard, hostFailure>>
  /\ call'[t] = "failed" /\ poisoned' = poisoned \cup {InstOf[t]}
  /\ \A u \in Threads \ {t} : IF InstOf[u] = InstOf[t] /\ call[u] \in Unanswered
                              THEN call'[u] = "failed" ELSE call'[u] = call[u]

LEMMA Invoked ==
  ASSUME TypeOK, CallsAssumption, NEW t \in Threads, Invokes(t)
  PROVE  /\ ThreadTypes /\ CallTypes /\ driving' \in Threads \cup {Nobody} /\ OnlyMoves(t)
         /\ RefusedNow(t) \/ (InstOf[t] \notin poisoned /\ (Entered(t) \/ Crashed(t)))
<1> DEFINE calls == [call EXCEPT ![t] = "driving"]
<1>0. /\ place \in [Threads -> Places] /\ call \in [Threads -> Calls]
      /\ heard \in [Threads -> Failures] /\ hostFailure \in Failures /\ poisoned \subseteq Instances /\ ready \in [Threads -> Readiness]
      /\ outstanding \subseteq Threads /\ driving \in Threads \cup {Nobody}
      /\ "failed" \in Calls /\ "driving" \in Calls /\ "gate" \in Places
      /\ "driving" \in Unanswered
  BY DEF TypeOK, Readiness, Places, Calls, Unanswered
<1>c. /\ calls \in [Threads -> Calls] /\ calls[t] = "driving"
      /\ \A u \in Threads \ {t} : calls[u] = call[u]
  BY <1>0
<1> HIDE DEF calls
<1>1. CASE Refused(t)
  BY <1>0, <1>1 DEF Refused, ThreadTypes, CallTypes, RefusedNow, OnlyMoves
<1>2. CASE /\ InstOf[t] \notin poisoned
           /\ driving' = IF poisoned' = poisoned THEN t ELSE driving
           /\ place' = [place EXCEPT ![t] = "gate"] /\ call' = calls
           /\ UNCHANGED <<ready, outstanding, heard, hostFailure, poisoned>>
  <2>1. ThreadTypes /\ CallTypes
    BY <1>0, <1>c, <1>2 DEF ThreadTypes, CallTypes
  <2>2. Entered(t) /\ OnlyMoves(t)
    BY <1>0, <1>c, <1>2 DEF Entered, OnlyMoves
  <2> QED
    BY <1>2, <2>1, <2>2
<1>3. CASE /\ InstOf[t] \notin poisoned
           /\ driving' = IF poisoned' = poisoned THEN t ELSE driving
           /\ RunsGuest(t) /\ call' = calls /\ UNCHANGED <<heard, hostFailure, poisoned>>
  <2>1. ThreadTypes /\ OnlyMoves(t) /\ place'[t] \in {"minted", "hop", "stalled"}
    BY <1>3, GuestRuns
  <2>2. CallTypes /\ Entered(t)
    BY <1>0, <1>c, <1>3, <2>1 DEF CallTypes, Entered
  <2> QED
    BY <1>3, <2>1, <2>2
<1>4. CASE /\ InstOf[t] \notin poisoned
           /\ driving' = IF poisoned' = poisoned THEN t ELSE driving
           /\ RunsPlain(t, calls, calls)
  <2>1. /\ t \in Plain
        /\ ThreadTypes /\ CallTypes /\ OnlyMoves(t) /\ place'[t] \in {"parked", "over"}
        /\ Published(t, calls) \/ Trapped(t, calls)
    BY <1>4, <1>c, PlainRuns
  <2>2. CASE Published(t, calls)
    <3>1. Entered(t)
      BY <1>0, <1>c, <1>4, <2>1, <2>2 DEF Published, Entered
    <3> QED
      BY <1>4, <2>1, <3>1 DEF Entered
  <2>3. CASE Trapped(t, calls)
    <3>1. poisoned' # poisoned
      BY <1>4, <2>3 DEF Trapped
    <3>2. Crashed(t)
      BY <1>0, <1>c, <1>4, <2>1, <2>3, <3>1 DEF Trapped, Crashed
    <3> QED
      BY <1>0, <1>4, <2>1, <3>1, <3>2
  <2> QED
    BY <2>1, <2>2, <2>3
<1>5. Refused(t) \/ Enters(t)
  BY DEF Invokes
<1> QED
  BY <1>1, <1>2, <1>3, <1>4, <1>5 DEF Enters, calls

(* -- types ------------------------------------------------------------------ *)

QueueTypes == /\ settled' \in Seq(Threads) /\ syncParks' \in Seq(Threads)
              /\ admissions' \in Seq(Threads)
SetTypes == /\ doomed' \subseteq Threads /\ pendingResumptions' \subseteq Threads
            /\ thrown' \in [Threads -> Failures] /\ driving' \in Threads \cup {Nobody}
ClockTypes == /\ pc' \in {"off", "top", "work", "charge", "settle", "handoff", "micro"}
              /\ scheduled' \in BOOLEAN /\ requested' \in BOOLEAN /\ yielding' \in BOOLEAN
              /\ budget' \in 0 .. Quantum /\ handoffs' \subseteq Threads \cup {Drain}
ProbeTypes == /\ hopProbe' \in Probes /\ syncHopProbe' \in Probes
              /\ idleProbeArmed' \subseteq Threads /\ idleTimers' \subseteq Threads

LEMMA TypesPut ==
  ASSUME ThreadTypes, CallTypes, QueueTypes, SetTypes, ClockTypes, ProbeTypes
  PROVE  TypeOK'
BY DEF TypeOK, ThreadTypes, CallTypes, QueueTypes, SetTypes, ClockTypes, ProbeTypes, Readiness

\* Parts of the state a step leaves alone keep their types.
LEMMA TypesKept ==
  ASSUME TypeOK
  PROVE  /\ UNCHANGED <<place, ready, outstanding>> => ThreadTypes
         /\ UNCHANGED <<call, heard, hostFailure, poisoned>> => CallTypes
         /\ UNCHANGED <<settled, syncParks, admissions>> => QueueTypes
         /\ UNCHANGED <<doomed, pendingResumptions, thrown, driving>> => SetTypes
         /\ UNCHANGED <<pc, scheduled, requested, yielding, budget, handoffs>> => ClockTypes
         /\ UNCHANGED probes => ProbeTypes
BY DEF TypeOK, ThreadTypes, CallTypes, QueueTypes, SetTypes, ClockTypes, ProbeTypes, Readiness,
       probes

\* Requests, charges and the ends of a drain keep the types of the clock.
LEMMA ClockKept ==
  ASSUME TypeOK, QuantumAssumption,
         \/ Request /\ UNCHANGED <<pc, yielding, budget, handoffs>>
         \/ AgainAtTop /\ UNCHANGED <<yielding, budget, handoffs>>
         \/ (\E r \in BOOLEAN : Returns(r)) /\ UNCHANGED <<yielding, budget, handoffs>>
         \/ (\E x \in Threads \cup {Drain} : Charge(x)) /\ UNCHANGED <<scheduled, requested>>
            /\ (pc' \in {"handoff", "micro", "work"} \/ pc' = pc)
         \/ pc' \in {"off", "top", "work", "charge", "settle", "handoff", "micro"}
            /\ scheduled' \in BOOLEAN /\ requested' \in BOOLEAN
            /\ UNCHANGED <<yielding, budget, handoffs>>
  PROVE  ClockTypes
<1>1. CASE \/ Request /\ UNCHANGED <<pc, yielding, budget, handoffs>>
           \/ AgainAtTop /\ UNCHANGED <<yielding, budget, handoffs>>
           \/ (\E r \in BOOLEAN : Returns(r)) /\ UNCHANGED <<yielding, budget, handoffs>>
  BY <1>1 DEF TypeOK, Request, AgainAtTop, Returns, ClockTypes
<1>2. CASE /\ \E x \in Threads \cup {Drain} : Charge(x)
           /\ UNCHANGED <<scheduled, requested>>
           /\ (pc' \in {"handoff", "micro", "work"} \/ pc' = pc)
  <2>1. PICK x \in Threads \cup {Drain} : Charge(x)
    BY <1>2
  <2>2. budget' \in 0 .. Quantum
    BY <2>1, QuantumAssumption DEF TypeOK, Charge
  <2>3. yielding' \in BOOLEAN /\ handoffs' \subseteq Threads \cup {Drain}
    BY <2>1 DEF TypeOK, Charge
  <2> QED
    BY <1>2, <2>2, <2>3 DEF TypeOK, ClockTypes
<1>3. CASE /\ pc' \in {"off", "top", "work", "charge", "settle", "handoff", "micro"}
           /\ scheduled' \in BOOLEAN /\ requested' \in BOOLEAN
           /\ UNCHANGED <<yielding, budget, handoffs>>
  BY <1>3 DEF TypeOK, ClockTypes
<1> QED
  BY <1>1, <1>2, <1>3
\* The parts of a type that a step of the thread t leaves to others.
LEMMA ResumeTypes ==
  ASSUME TypeOK, CallsAssumption, NEW t \in Candidates, NEW d \in [Threads -> Calls],
         Resume(t, d), UNCHANGED <<doomed, settled, admissions, thrown>>,
         driving' \in Threads \cup {Nobody}
  PROVE  ThreadTypes /\ CallTypes /\ QueueTypes /\ SetTypes
<1>1. RemoveFirst(syncParks, t) \in Seq(Threads)
  BY FirstRemoved DEF TypeOK
<1> QED
  BY <1>1, Resumes DEF TypeOK, QueueTypes, SetTypes

LEMMA DispatchTypes ==
  ASSUME TypeOK, CallsAssumption, NEW i \in DOMAIN settled, Dispatch(i),
         UNCHANGED <<pendingResumptions, syncParks, admissions, thrown, driving>>
  PROVE  ThreadTypes /\ CallTypes /\ QueueTypes /\ SetTypes
BY Dispatches DEF TypeOK, QueueTypes, SetTypes

LEMMA AdmitTypes ==
  ASSUME TypeOK, CallsAssumption, Admissible # {}, Admits
  PROVE  ThreadTypes /\ CallTypes /\ QueueTypes /\ SetTypes
<1>1. /\ NextAdmission \in DOMAIN admissions /\ admissions[NextAdmission] \in Threads
      /\ Invokes(admissions[NextAdmission]) /\ admissions' = RemoveAt(admissions, NextAdmission)
      /\ UNCHANGED <<doomed, pendingResumptions, settled, syncParks, thrown>>
  BY NextIsAdmissible DEF Admits
<1>2. admissions' \in Seq(Threads)
  BY <1>1, Removed DEF TypeOK
<1>3. ThreadTypes /\ CallTypes /\ driving' \in Threads \cup {Nobody}
  BY <1>1, Invoked
<1> QED
  BY <1>1, <1>2, <1>3 DEF TypeOK, QueueTypes, SetTypes

LEMMA AbandonedTyped ==
  ASSUME TypeOK, NEW fails
  PROVE  /\ Abandoned(fails) \in [Threads -> Places]
         /\ \A u \in Threads : Abandoned(fails)[u] = place[u]
                               \/ (place[u] = "gate" /\ Abandoned(fails)[u] = "over")
BY DEF TypeOK, Abandoned, Places

LEMMA VerdictsTell ==
  ASSUME TypeOK, CallsAssumption, NEW dead \in SUBSET Waiters, Verdicts(dead),
         UNCHANGED <<ready, outstanding, heard, hostFailure>>
  PROVE  /\ ThreadTypes /\ CallTypes
         /\ \A u \in Threads : place'[u] = place[u] \/ (place[u] = "gate" /\ place'[u] = "over")
         /\ \A u \in Threads : \/ call'[u] = call[u]
                               \/ call[u] \in Unanswered /\ call'[u] \in Answered
                               \/ call[u] = "open" /\ call'[u] = "idle"
         /\ poisoned \subseteq poisoned'
<1>0. /\ call \in [Threads -> Calls] /\ poisoned \subseteq Instances
      /\ heard \in [Threads -> Failures] /\ hostFailure \in Failures
      /\ {"deadlock", "failed", "idle"} \subseteq Calls
      /\ \A u \in dead : u \in Threads /\ InstOf[u] \in Instances /\ call[u] \in Unanswered
  BY DEF TypeOK, CallsAssumption, Waiters, Calls, Unanswered
<1> DEFINE fails == UnansweredIn({InstOf[t] : t \in dead}, call)
<1>1. /\ poisoned' = poisoned \cup {InstOf[t] : t \in dead}
      /\ call' = [t \in Threads |->
           IF t \in dead THEN "deadlock" ELSE IF t \in fails THEN "failed"
           ELSE IF call[t] = "open" /\ t \notin SyncTyped THEN "idle" ELSE call[t]]
      /\ place' = Abandoned(fails)
  BY DEF Verdicts
<1>2. \A u \in fails : call[u] \in Unanswered
  BY DEF UnansweredIn
<1> HIDE DEF fails
<1>3. ThreadTypes
  BY <1>1, AbandonedTyped DEF ThreadTypes, TypeOK, Readiness
<1>4. call' \in [Threads -> Calls]
  BY <1>0, <1>1
<1>5. poisoned' \subseteq Instances /\ poisoned \subseteq poisoned'
  BY <1>0, <1>1
<1>6. \A u \in Threads : \/ call'[u] = call[u]
                         \/ call[u] \in Unanswered /\ call'[u] \in Answered
                         \/ call[u] = "open" /\ call'[u] = "idle"
  BY <1>0, <1>1, <1>2 DEF Answered
<1> QED
  BY <1>0, <1>1, <1>3, <1>4, <1>5, <1>6, AbandonedTyped DEF CallTypes
\* The actions, in groups.
Promises(t) == \/ EngineRuns(t) \/ Settles(t) \/ RecordsAgain(t)
               \/ (\E sync \in BOOLEAN : BoundaryReturned(t, sync))
               \/ (\E failed \in BOOLEAN : HostSettles(t, failed))
TimerFires == \/ HopProbeFires \/ SyncHopProbeFires
              \/ (\E x \in Threads \cup {Drain} : HandoffFires(x))
              \/ (\E t \in Threads : IdleTimerFires(t))
HeadStep == TopFailure \/ TopAdmits \/ SyncForgets \/ SyncDispatches \/ SyncResumes \/ SyncWaits
            \/ SyncTraps
BodyStep == HopsWait \/ HopsGiveUp \/ TopWorks \/ WorkDispatches \/ WorkTicks \/ WorkEnds
            \/ StepDone \/ Settle

LEMMA NextGroups ==
  ASSUME Next
  PROVE  \/ DropFails \/ DrainStarts \/ DrainContinues \/ HeadStep \/ BodyStep \/ TimerFires
         \/ (\E t \in Threads : DriveStep(t) \/ Promises(t) \/ HostCalls(t))
BY Zenon DEF Next, DrainStep, HeadStep, BodyStep, Timer, TimerFires, EngineStep, Promises, Outside

LEMMA DriveTypes ==
  ASSUME TypeOK, CallsAssumption, QuantumAssumption, NEW t \in Threads, DriveStep(t)
  PROVE  TypeOK'
<1>0. /\ call \in [Threads -> Calls] /\ place \in [Threads -> Places]
      /\ {"failed", "open", "lost"} \subseteq Calls
  BY DEF TypeOK, Calls, Unanswered
<1>1. CASE DriveDone(t)
  BY <1>1 DEF DriveDone, Request, TypeOK, quantum, probes, threadVars, storeVars
<1>2. CASE DriveFails(t)
  <2>1. UNCHANGED <<ready, outstanding, doomed, storeVars, admissions, thrown, pc, quantum, probes>>
        /\ driving' = Nobody /\ FailsWithIt(t, call)
        /\ place' = Abandoned({t}) /\ Request
    BY <1>2 DEF DriveFails
  <2>2. ClockTypes
    BY <2>1, ClockKept DEF quantum
  <2>3. ThreadTypes
    BY <2>1, AbandonedTyped DEF TypeOK, ThreadTypes, Readiness
  <2>4. CallTypes
    BY <1>0, <2>1, NoFailure DEF TypeOK, CallTypes, storeVars, FailsWithIt
  <2>5. QueueTypes /\ SetTypes
    BY <2>1 DEF TypeOK, QueueTypes, SetTypes, storeVars
  <2> QED
    BY <2>1, <2>2, <2>3, <2>4, <2>5, TypesKept, TypesPut
<1>3. CASE DriveSteps(t)
  <2> DEFINE after == IF call[t] = "away" THEN [call EXCEPT ![t] = "lost"] ELSE call
  <2>1. PICK u \in Candidates : Resume(u, after)
    BY <1>3 DEF DriveSteps
  <2>2. after \in [Threads -> Calls]
    BY <1>0
  <2> HIDE DEF after
  <2>3. /\ driving' \in Threads \cup {Nobody}
        /\ UNCHANGED <<doomed, settled, admissions, thrown, pc, probes>>
    BY <1>3 DEF DriveSteps, TypeOK
  <2>4. ThreadTypes /\ CallTypes /\ QueueTypes /\ SetTypes
    BY <2>1, <2>2, <2>3, ResumeTypes
  <2>5. ClockTypes
    <3>1. CASE Request /\ UNCHANGED quantum
      BY <2>3, <3>1, ClockKept DEF quantum
    <3>2. CASE UNCHANGED <<scheduled, requested, quantum>>
      BY <2>3, <3>2, TypesKept DEF quantum
    <3>3. CASE Charge(t) /\ UNCHANGED <<scheduled, requested>>
      BY <2>3, <3>3, ClockKept
    <3>4. QED
      BY <1>3, <3>1, <3>2, <3>3 DEF DriveSteps
  <2> QED
    BY <2>3, <2>4, <2>5, TypesKept, TypesPut
<1>4. CASE DriveWaits(t)
  BY <1>0, <1>4 DEF DriveWaits, Request, TypeOK, quantum, probes, threadVars, storeVars
<1> QED
  BY <1>1, <1>2, <1>3, <1>4 DEF DriveStep

LEMMA PromiseTypes ==
  ASSUME TypeOK, CallsAssumption, QuantumAssumption, NEW t \in Threads, Promises(t)
  PROVE  TypeOK'
<1>0. /\ place \in [Threads -> Places] /\ ready \in [Threads -> Readiness]
      /\ call \in [Threads -> Calls] /\ hostFailure \in Failures /\ heard \in [Threads -> Failures]
      /\ {"tail", "suspended"} \subseteq Places /\ "yes" \in Readiness
  BY DEF TypeOK, Readiness, Places
<1>1. CASE EngineRuns(t)
  <2>1. ThreadTypes
    BY <1>1, GuestRuns DEF EngineRuns
  <2>2. ClockTypes
    BY <1>1, ClockKept, TypesKept DEF EngineRuns, quantum
  <2>3. QueueTypes /\ SetTypes /\ CallTypes
    BY <1>1 DEF EngineRuns, TypeOK, QueueTypes, SetTypes, CallTypes, callVars
  <2> QED
    BY <1>1, <2>1, <2>2, <2>3, TypesKept, TypesPut DEF EngineRuns
<1>2. CASE Settles(t)
  <2>1. ThreadTypes
    BY <1>0, <1>2 DEF Settles, ThreadTypes, TypeOK
  <2>2. ClockTypes
    BY <1>2, ClockKept DEF Settles, quantum
  <2>3. QueueTypes /\ SetTypes /\ CallTypes
    BY <1>2 DEF Settles, TypeOK, QueueTypes, SetTypes, CallTypes, callVars
  <2> QED
    BY <1>2, <2>1, <2>2, <2>3, TypesKept, TypesPut DEF Settles
<1>3. CASE RecordsAgain(t)
  BY <1>3, NoFailure DEF RecordsAgain, TypeOK, quantum, probes, threadVars, storeVars
<1>4. CASE \E sync \in BOOLEAN : BoundaryReturned(t, sync)
  <2>1. PICK sync \in BOOLEAN : BoundaryReturned(t, sync)
    BY <1>4
  <2>2. ThreadTypes
    BY <1>0, <2>1 DEF BoundaryReturned, ThreadTypes, TypeOK
  <2>3. ClockTypes
    BY <2>1, ClockKept DEF BoundaryReturned, quantum
  <2>4. CallTypes
    <3>1. poisoned' = poisoned /\ (Publish(t, call) \/ UNCHANGED <<call, heard, hostFailure>>)
      BY <2>1 DEF BoundaryReturned
    <3>2. /\ call' \in [Threads -> Calls] /\ hostFailure' \in Failures
          /\ heard' \in [Threads -> Failures]
      BY <1>0, <3>1, PublishTells
    <3>3. QED
      BY <3>1, <3>2 DEF CallTypes, TypeOK
  <2>5. QueueTypes /\ SetTypes
    BY <2>1 DEF BoundaryReturned, TypeOK, QueueTypes, SetTypes
  <2> QED
    BY <2>1, <2>2, <2>3, <2>4, <2>5, TypesKept, TypesPut DEF BoundaryReturned
<1>5. CASE \E failed \in BOOLEAN : HostSettles(t, failed)
  <2>1. PICK failed \in BOOLEAN : HostSettles(t, failed)
    BY <1>5
  <2>2. ThreadTypes
    BY <1>0, <2>1 DEF HostSettles, ThreadTypes, TypeOK
  <2>3. ClockTypes
    BY <2>1, ClockKept DEF HostSettles, quantum
  <2>4. QueueTypes /\ SetTypes /\ CallTypes
    BY <2>1 DEF HostSettles, TypeOK, QueueTypes, SetTypes, CallTypes, callVars, storeVars, Failures
  <2> QED
    BY <2>1, <2>2, <2>3, <2>4, TypesKept, TypesPut DEF HostSettles
<1> QED
  BY <1>1, <1>2, <1>3, <1>4, <1>5 DEF Promises
LEMMA HostCallTypes ==
  ASSUME TypeOK, CallsAssumption, QuantumAssumption, NEW t \in Threads, HostCalls(t)
  PROVE  TypeOK'
<1>0. /\ call \in [Threads -> Calls] /\ "deferred" \in Calls
      /\ UNCHANGED <<doomed, pendingResumptions, settled, syncParks, thrown, pc, quantum, probes>>
  BY DEF HostCalls, TypeOK, Calls
<1>1. CASE /\ call' = [call EXCEPT ![t] = "deferred"] /\ admissions' = Append(admissions, t)
           /\ Request
           /\ UNCHANGED <<place, ready, outstanding, poisoned, heard, hostFailure, driving>>
  <2>1. ThreadTypes /\ SetTypes
    BY <1>0, <1>1, TypesKept
  <2>2. ClockTypes
    BY <1>0, <1>1, ClockKept DEF quantum
  <2>3. QueueTypes /\ CallTypes
    BY <1>0, <1>1 DEF TypeOK, QueueTypes, CallTypes
  <2> QED
    BY <1>0, <2>1, <2>2, <2>3, TypesKept, TypesPut
<1>2. CASE Invokes(t) /\ UNCHANGED <<admissions, requested, scheduled>>
  <2>1. ThreadTypes /\ CallTypes /\ driving' \in Threads \cup {Nobody}
    BY <1>2, Invoked
  <2>2. ClockTypes /\ QueueTypes
    BY <1>0, <1>2, TypesKept DEF quantum
  <2>3. SetTypes
    BY <1>0, <2>1 DEF TypeOK, SetTypes
  <2> QED
    BY <1>0, <2>1, <2>2, <2>3, TypesKept, TypesPut
<1> QED
  BY <1>1, <1>2 DEF HostCalls

LEMMA TimerTypes ==
  ASSUME TypeOK, CallsAssumption, QuantumAssumption, TimerFires
  PROVE  TypeOK'
<1>1. CASE HopProbeFires
  <2>1. hopProbe' \in Probes
    BY <1>1 DEF HopProbeFires, TypeOK, Probes
  <2>2. ClockTypes
    BY <1>1, ClockKept DEF HopProbeFires, quantum
  <2> QED
    BY <1>1, <2>1, <2>2 DEF HopProbeFires, TypeOK, ClockTypes, threadVars, storeVars, callVars
<1>2. CASE SyncHopProbeFires
  <2>1. syncHopProbe' \in Probes
    BY <1>2 DEF SyncHopProbeFires, TypeOK, Probes
  <2>2. ClockTypes
    BY <1>2, ClockKept DEF SyncHopProbeFires, quantum
  <2> QED
    BY <1>2, <2>1, <2>2 DEF SyncHopProbeFires, TypeOK, ClockTypes, threadVars, storeVars, callVars
<1>3. ASSUME NEW x \in Threads \cup {Drain}, HandoffFires(x)
      PROVE  TypeOK'
  <2>0. /\ call \in [Threads -> Calls] /\ "away" \in Calls /\ hostFailure \in Failures
        /\ budget' = Quantum /\ Quantum \in 0 .. Quantum
    BY <1>3, QuantumAssumption DEF TypeOK, Calls, Unanswered, HandoffFires, Refill
  <2>1. ThreadTypes /\ ProbeTypes
    BY <1>3, TypesKept DEF HandoffFires, threadVars
  <2>2. ClockTypes
    BY <1>3, <2>0 DEF HandoffFires, TypeOK, ClockTypes, AfterStep
  <2>3. QueueTypes
    BY <1>3 DEF HandoffFires, TypeOK, QueueTypes, storeVars
  <2>4. CallTypes /\ SetTypes
    <3>1. CASE x = Drain
      BY <1>3, <3>1 DEF HandoffFires, TypeOK, CallTypes, SetTypes, storeVars, threadVars
    <3>2. CASE x # Drain
      <4>1. /\ x \in Threads /\ UNCHANGED <<poisoned, doomed, pendingResumptions>>
            /\ \/ /\ call' = [call EXCEPT ![x] = "away"] /\ driving' = x
                  /\ UNCHANGED <<thrown, hostFailure>>
               \/ /\ thrown' = [thrown EXCEPT ![x] = hostFailure]
                  /\ hostFailure' = Nobody /\ UNCHANGED <<call, driving>>
            /\ heard' = heard
        BY <1>3, <3>2 DEF HandoffFires, storeVars, threadVars
      <4>2. CallTypes
        <5>1. poisoned' \subseteq Instances
          BY <4>1 DEF TypeOK
        <5>2. call' \in [Threads -> Calls]
          BY <2>0, <4>1
        <5>3. hostFailure' \in Failures /\ heard' \in [Threads -> Failures]
          BY <2>0, <4>1, NoFailure DEF TypeOK
        <5> QED
          BY <5>1, <5>2, <5>3 DEF CallTypes
      <4>3. SetTypes
        BY <4>1 DEF TypeOK, SetTypes
      <4> QED
        BY <4>2, <4>3
    <3>3. QED
      BY <3>1, <3>2
  <2> QED
    BY <2>1, <2>2, <2>3, <2>4, TypesPut
<1>4. ASSUME NEW t \in Threads, IdleTimerFires(t)
      PROVE  TypeOK'
  BY <1>4 DEF IdleTimerFires, Request, TypeOK, threadVars, storeVars, callVars, quantum
<1> QED
  BY <1>1, <1>2, <1>3, <1>4 DEF TimerFires

LEMMA NoProbeTyped == NoProbe \in Probes /\ \A h \in SUBSET Threads : [hops |-> h, elapsed |-> FALSE] \in Probes
BY DEF NoProbe, Probes

LEMMA HeadTypes ==
  ASSUME TypeOK, CallsAssumption, QuantumAssumption, HeadStep
  PROVE  TypeOK'
<1>1. CASE TopFailure
  <2>1. /\ call \in [Threads -> Calls] /\ "failed" \in Calls
        /\ UNCHANGED <<ready, outstanding, doomed, storeVars, admissions, driving, thrown, quantum,
                       probes>>
    BY <1>1 DEF TopFailure, TypeOK, Calls
  <2>2. ClockTypes
    BY <1>1, <2>1, ClockKept DEF TopFailure, quantum
  <2>3. ThreadTypes /\ CallTypes
    <3>1. CASE Waiters = {}
      BY <1>1, <2>1, <3>1, TypesKept DEF TopFailure, storeVars
    <3>2. CASE Waiters # {}
      <4>1. PICK t \in Waiters : FailsWithIt(t, call) /\ place' = Abandoned({t})
        BY <1>1, <3>2 DEF TopFailure
      <4>2. t \in Threads
        BY DEF Waiters
      <4>3. ThreadTypes
        BY <2>1, <4>1, AbandonedTyped DEF TypeOK, ThreadTypes, Readiness
      <4>4. CallTypes
        BY <2>1, <4>1, <4>2, NoFailure DEF TypeOK, CallTypes, storeVars, FailsWithIt
      <4>5. QED
        BY <4>3, <4>4
    <3>4. QED
      BY <3>1, <3>2
  <2> QED
    BY <2>1, <2>2, <2>3, TypesKept, TypesPut DEF storeVars
<1>2. CASE TopAdmits
  <2>1. ThreadTypes /\ CallTypes /\ QueueTypes /\ SetTypes
    BY <1>2, AdmitTypes DEF TopAdmits
  <2>2. ClockTypes
    BY <1>2, ClockKept DEF TopAdmits, Admits, quantum
  <2> QED
    BY <1>2, <2>1, <2>2, TypesKept, TypesPut DEF TopAdmits, Admits
<1>t. AtSyncPark => Tail(syncParks) \in Seq(Threads) /\ Point \in Threads
  BY DEF AtSyncPark, Point, TypeOK
<1>3. CASE SyncForgets
  <2>1. ClockTypes
    BY <1>3, ClockKept DEF SyncForgets, quantum
  <2>2. QueueTypes
    BY <1>3, <1>t DEF SyncForgets, QueueTypes, TypeOK, callVars
  <2> QED
    BY <1>3, <2>1, <2>2, TypesKept, TypesPut DEF SyncForgets, threadVars, callVars
<1>4. CASE SyncDispatches
  <2>1. PICK i \in DOMAIN settled : Dispatch(i)
    BY <1>4 DEF SyncDispatches, SyncTails
  <2>2. ThreadTypes /\ CallTypes /\ QueueTypes /\ SetTypes
    BY <1>4, <2>1, DispatchTypes DEF SyncDispatches
  <2>3. ClockTypes
    BY <1>4, ClockKept DEF SyncDispatches, quantum
  <2>4. ProbeTypes
    BY <1>4, NoProbeTyped DEF SyncDispatches, ProbeTypes, TypeOK
  <2> QED
    BY <2>2, <2>3, <2>4, TypesPut
<1>5. CASE SyncResumes
  <2>1. PICK u \in Candidates : Resume(u, call)
    BY <1>5 DEF SyncResumes, CandidatesOf
  <2>2. ThreadTypes /\ CallTypes /\ QueueTypes /\ SetTypes
    BY <1>5, <2>1, ResumeTypes DEF SyncResumes, TypeOK
  <2>3. ClockTypes
    BY <1>5, ClockKept DEF SyncResumes, quantum
  <2>4. ProbeTypes
    BY <1>5, NoProbeTyped DEF SyncResumes, ProbeTypes, TypeOK
  <2> QED
    BY <2>2, <2>3, <2>4, TypesPut
<1>6. CASE SyncWaits
  <2>1. ClockTypes
    BY <1>6, ClockKept DEF SyncWaits, quantum
  <2>2. SyncBlockers \in SUBSET Threads
    BY DEF SyncBlockers, HopsOf, Hops, TypeOK
  <2>3. ProbeTypes
    BY <1>6, <2>2, NoProbeTyped DEF SyncWaits, ProbeTypes, TypeOK
  <2> QED
    BY <1>6, <2>1, <2>3, TypesKept, TypesPut DEF SyncWaits, threadVars, callVars, storeVars
<1>7. CASE SyncTraps
  <2>0. Point \in Threads /\ Tail(syncParks) \in Seq(Threads) /\ "hop" \in Places
    BY <1>7, <1>t DEF SyncTraps, SyncStuck, SyncServed, Places
  <2>1. ClockTypes
    BY <1>7, ClockKept DEF SyncTraps, quantum
  <2>2. ThreadTypes
    BY <1>7, <2>0 DEF SyncTraps, TypeOK, ThreadTypes, Readiness
  <2>3. CallTypes
    BY <1>7, TypesKept DEF SyncTraps, callVars
  <2>4. QueueTypes /\ SetTypes
    BY <1>7, <2>0 DEF SyncTraps, QueueTypes, SetTypes, TypeOK, callVars
  <2>5. ProbeTypes
    BY <1>7, NoProbeTyped DEF SyncTraps, ProbeTypes, TypeOK
  <2> QED
    BY <2>1, <2>2, <2>3, <2>4, <2>5, TypesPut
<1> QED
  BY <1>1, <1>2, <1>3, <1>4, <1>5, <1>6, <1>7 DEF HeadStep

LEMMA BodyTypes ==
  ASSUME TypeOK, CallsAssumption, QuantumAssumption, BodyStep
  PROVE  TypeOK'
<1>w. Waiters \cap SyncTyped \in SUBSET Waiters /\ Dead \in SUBSET Waiters
      /\ Waiters \in SUBSET Threads
  BY DEF Dead, Waiters
<1>1. CASE HopsWait
  <2>1. ClockTypes
    BY <1>1, ClockKept DEF HopsWait, quantum
  <2>2. UnsettledHops \in SUBSET Threads
    BY DEF UnsettledHops, Hops
  <2>3. ProbeTypes
    BY <1>1, <2>2, NoProbeTyped DEF HopsWait, ProbeTypes, TypeOK
  <2> QED
    BY <1>1, <2>1, <2>3, TypesKept, TypesPut DEF HopsWait, threadVars, callVars, storeVars
<1>2. CASE HopsGiveUp
  <2>1. ClockTypes
    BY <1>2, ClockKept DEF HopsGiveUp, quantum
  <2>2. ThreadTypes /\ CallTypes
    BY <1>2, <1>w, VerdictsTell DEF HopsGiveUp
  <2>3. ProbeTypes
    BY <1>2, NoProbeTyped DEF HopsGiveUp, ProbeTypes, TypeOK
  <2> QED
    BY <1>2, <2>1, <2>2, <2>3, TypesKept, TypesPut DEF HopsGiveUp
<1>3. CASE TopWorks
  <2>1. ClockTypes
    BY <1>3 DEF TopWorks, TypeOK, ClockTypes, quantum
  <2>3. ProbeTypes
    BY <1>3, NoProbeTyped DEF TopWorks, ProbeTypes, TypeOK
  <2> QED
    BY <1>3, <2>1, <2>3, TypesKept, TypesPut DEF TopWorks, threadVars, callVars, storeVars
<1>4. CASE WorkDispatches
  <2>1. Dispatch(1) /\ 1 \in DOMAIN settled
    BY <1>4 DEF WorkDispatches, TypeOK
  <2>2. ThreadTypes /\ CallTypes /\ QueueTypes /\ SetTypes
    BY <1>4, <2>1, DispatchTypes DEF WorkDispatches
  <2>3. ClockTypes
    BY <1>4 DEF WorkDispatches, TypeOK, ClockTypes, quantum
  <2> QED
    BY <1>4, <2>2, <2>3, TypesKept, TypesPut DEF WorkDispatches
<1>5. CASE WorkTicks
  <2>1. PICK u \in Candidates : Resume(u, call)
    BY <1>5 DEF WorkTicks
  <2>2. ThreadTypes /\ CallTypes /\ QueueTypes /\ SetTypes
    BY <1>5, <2>1, ResumeTypes DEF WorkTicks, TypeOK
  <2>3. ClockTypes
    BY <1>5 DEF WorkTicks, TypeOK, ClockTypes, quantum
  <2> QED
    BY <1>5, <2>2, <2>3, TypesKept, TypesPut DEF WorkTicks
<1>6. CASE WorkEnds
  BY <1>6 DEF WorkEnds, TypeOK, threadVars, storeVars, callVars, quantum, probes
<1>7. CASE StepDone
  <2>1. CASE /\ pc' = "settle"
             /\ UNCHANGED <<threadVars, storeVars, hostFailure, callVars, quantum>>
    BY <1>7, <2>1 DEF StepDone, TypeOK, threadVars, storeVars, callVars, quantum, probes
  <2>2. CASE Admissible # {} /\ Admits /\ pc' = "settle"
    <3>1. ThreadTypes /\ CallTypes /\ QueueTypes /\ SetTypes
      BY <2>2, AdmitTypes
    <3>2. ClockTypes
      BY <1>7, <2>2 DEF StepDone, Admits, TypeOK, ClockTypes, quantum
    <3>3. QED
      BY <1>7, <3>1, <3>2, TypesKept, TypesPut DEF StepDone
  <2>3. CASE /\ Charge(Drain) /\ pc' = IF Exhausted THEN "handoff" ELSE AfterStep
             /\ UNCHANGED <<threadVars, storeVars, hostFailure, callVars>>
    <3>1. pc' \in {"handoff", "micro", "work"}
      BY <2>3 DEF AfterStep
    <3>2. ClockTypes
      BY <1>7, <2>3, <3>1, ClockKept DEF StepDone
    <3>3. ThreadTypes /\ CallTypes /\ QueueTypes /\ SetTypes /\ ProbeTypes
      BY <1>7, <2>3, TypesKept DEF StepDone, threadVars, storeVars, callVars
    <3> QED
      BY <3>2, <3>3, TypesPut
  <2> QED
    BY <1>7, <2>1, <2>2, <2>3 DEF StepDone
<1>8. CASE Settle
  <2>1. ClockTypes
    BY <1>8, ClockKept DEF Settle, quantum, TypeOK
  <2>2. ThreadTypes /\ CallTypes
    <3>1. UNCHANGED <<ready, outstanding, heard, hostFailure>>
      BY <1>8 DEF Settle
    <3>2. CASE Verdicts(Dead)
      BY <1>w, <3>1, <3>2, VerdictsTell
    <3>3. CASE UNCHANGED <<place, poisoned, call>>
      BY <3>1, <3>3, TypesKept
    <3>4. QED
      BY <1>8, <3>2, <3>3 DEF Settle
  <2>3. ProbeTypes
    BY <1>8, <1>w DEF Settle, ProbeTypes, TypeOK
  <2>4. QueueTypes /\ SetTypes
    BY <1>8, TypesKept DEF Settle
  <2> QED
    BY <2>1, <2>2, <2>3, <2>4, TypesPut
<1> QED
  BY <1>1, <1>2, <1>3, <1>4, <1>5, <1>6, <1>7, <1>8 DEF BodyStep

LEMMA TypeStep ==
  ASSUME TypeOK, CallsAssumption, QuantumAssumption, [Next]_vars
  PROVE  TypeOK'
<1>1. CASE DropFails
  BY <1>1 DEF DropFails, TypeOK, threadVars, storeVars, callVars, quantum, probes, Failures
<1>2. CASE DrainStarts
  BY <1>2 DEF DrainStarts, TypeOK, threadVars, storeVars, callVars, quantum, probes
<1>3. CASE DrainContinues
  BY <1>3 DEF DrainContinues, TypeOK, threadVars, storeVars, callVars, quantum, probes
<1>4. CASE UNCHANGED vars
  BY <1>4 DEF vars, TypeOK, threadVars, storeVars, callVars, quantum, probes
<1> QED
  BY <1>1, <1>2, <1>3, <1>4, NextGroups, HeadTypes, BodyTypes, TimerTypes, DriveTypes,
     PromiseTypes, HostCallTypes

LEMMA TypeInit ==
  ASSUME CallsAssumption, QuantumAssumption, Init
  PROVE  TypeOK
<1>1. /\ place \in [Threads -> Places] /\ ready \in [Threads -> {"no", "yes", "cancel"}]
      /\ call \in [Threads -> Calls]
  BY DEF Init, Places, Calls
<1>2. /\ outstanding \subseteq Threads /\ doomed \subseteq Threads
      /\ pendingResumptions \subseteq Threads /\ hostFailure \in Failures
      /\ poisoned \subseteq Instances /\ driving \in Threads \cup {Nobody}
      /\ handoffs \subseteq Threads \cup {Drain} /\ thrown \in [Threads -> Failures]
      /\ heard \in [Threads -> Failures]
      /\ idleProbeArmed \subseteq Threads /\ idleTimers \subseteq Threads
  BY NoFailure DEF Init
<1>3. settled \in Seq(Threads) /\ syncParks \in Seq(Threads) /\ admissions \in Seq(Threads)
  BY DEF Init
<1>4. hopProbe \in Probes /\ syncHopProbe \in Probes
  BY NoProbeTyped DEF Init
<1>5. budget \in 0 .. Quantum
  BY QuantumAssumption DEF Init
<1>6. /\ pc \in {"off", "top", "work", "charge", "settle", "handoff", "micro"}
      /\ scheduled \in BOOLEAN /\ requested \in BOOLEAN /\ yielding \in BOOLEAN
  BY DEF Init
<1> QED
  BY <1>1, <1>2, <1>3, <1>4, <1>5, <1>6 DEF TypeOK

\* Every variable keeps its type.
THEOREM StoreTypes == Spec => []TypeOK
<1>1. Init => TypeOK
  BY TypeInit, CallsAssumption, QuantumAssumption
<1>2. TypeOK /\ [Next]_vars => TypeOK'
  BY TypeStep, CallsAssumption, QuantumAssumption
<1> QED
  BY <1>1, <1>2, PTL DEF Spec

(* -- every call gets its own answer ----------------------------------------- *)

\* The deferred calls are those of the queue of admissions, each once; a driven
\* call, and one that will be driven again, has had no host failure of another;
\* a driver that threw one had nothing left to drive.
Queued == /\ \A i \in DOMAIN admissions : call[admissions[i]] = "deferred"
          /\ \A i, j \in DOMAIN admissions : admissions[i] = admissions[j] => i = j
DriverSound(t) ==
  /\ driving = t => /\ call[t] \in {"driving", "away"} \cup Answered
                    /\ t \notin handoffs /\ thrown[t] = Nobody
                    /\ hostFailure # Nobody => call[t] \in Unanswered
  /\ t \in handoffs => call[t] \in {"driving", "away"} \cup Answered /\ thrown[t] = Nobody
  /\ thrown[t] # Nobody => call[t] \in Answered
Book == Queued /\ \A t \in Threads : DriverSound(t)

\* What a step may do to calls.
Finals == \A t \in Threads : call[t] \in Answered => call'[t] = call[t]
CallMoves == \A u \in Threads : \/ call'[u] = call[u]
                                \/ call[u] \in Unanswered /\ call'[u] \in Answered
                                \/ call[u] = "open" /\ call'[u] = "idle"

LEMMA Disjoint == /\ \A x \in Unanswered : x \notin Answered /\ x # "deferred" /\ x # "none"
                  /\ "open" \in Unanswered /\ "deferred" \notin Answered /\ "none" \notin Answered
                  /\ {"driving", "away"} \subseteq Unanswered /\ "open" \notin Answered
BY DEF Unanswered, Answered

LEMMA BookKept ==
  ASSUME TypeOK, CallsAssumption, Book, CallMoves, UNCHANGED admissions,
         driving' = Nobody \/ (driving' = driving /\ hostFailure' = Nobody),
         handoffs' \subseteq handoffs \cup {Drain},
         \A u \in Threads : thrown'[u] \in {thrown[u], Nobody}
  PROVE  Book' /\ Finals
<1>1. Queued'
  <2>1. \A i \in DOMAIN admissions : admissions[i] \in Threads
    BY DEF TypeOK
  <2>2. \A i \in DOMAIN admissions : call'[admissions[i]] = "deferred"
    BY <2>1, Disjoint DEF Book, Queued, CallMoves
  <2> QED
    BY <2>2 DEF Book, Queued
<1>2. ASSUME NEW t \in Threads PROVE DriverSound(t)'
  <2>0. t # Nobody /\ t # Drain
    BY DEF CallsAssumption
  <2>1. call[t] \in {"driving", "away"} \cup Answered => call'[t] \in {"driving", "away"} \cup Answered
    BY Disjoint DEF CallMoves
  <2>2. call[t] \in Answered => call'[t] \in Answered
    BY Disjoint DEF CallMoves
  <2> QED
    BY <2>0, <2>1, <2>2 DEF Book, DriverSound
<1>3. Finals
  BY Disjoint DEF CallMoves, Finals
<1> QED
  BY <1>1, <1>2, <1>3 DEF Book

\* A failure that fails the one call that hears of it goes to one call.
LEMMA Told ==
  ASSUME TypeOK, NEW t \in Threads, call[t] # "failed", call'[t] = "failed",
         \A u \in Threads \ {t} : call'[u] = call[u], UNCHANGED thrown,
         hostFailure # Nobody, hostFailure' = Nobody, heard' = [heard EXCEPT ![t] = hostFailure]
  PROVE  FailureGoes
<1>1. ToldTo(t)
  BY DEF ToldTo
<1>2. \A u \in Threads : call'[u] = "result" => call[u] = "result"
  OBVIOUS
<1> QED
  BY <1>1, <1>2 DEF FailureGoes

\* No failure moves, and no call gets a result over one.
LEMMA NoneGoes ==
  ASSUME UNCHANGED <<heard, hostFailure, thrown>>,
         \A u \in Threads : call'[u] = "result" /\ call[u] # "result" => hostFailure = Nobody
  PROVE  FailureGoes
BY DEF FailureGoes

LEMMA CallsMove ==
  ASSUME NEW t \in Threads, CallsUntouched \/ Published(t, call) \/ Trapped(t, call)
  PROVE  CallMoves
BY DEF CallsUntouched, Published, Trapped, CallMoves, Answered

LEMMA AnswersMove ==
  ASSUME TypeOK, NEW t \in Threads, CallsUntouched \/ Published(t, call) \/ Trapped(t, call),
         UNCHANGED thrown
  PROVE  CallMoves /\ FailureGoes /\ (hostFailure = Nobody => hostFailure' = Nobody)
<1>1. CASE CallsUntouched
  BY <1>1, CallsMove, NoneGoes DEF CallsUntouched
<1>2. CASE Published(t, call)
  <2>1. CallMoves /\ (hostFailure = Nobody => hostFailure' = Nobody)
    BY <1>2, CallsMove DEF Published
  <2>2. CASE UNCHANGED <<heard, hostFailure>>
    <3>1. \A u \in Threads : call'[u] = "result" /\ call[u] # "result" => hostFailure = Nobody
      BY <1>2, <2>2 DEF Published
    <3> QED
      BY <2>1, <2>2, <3>1, NoneGoes
  <2>3. CASE /\ call[t] \in Unanswered /\ hostFailure # Nobody /\ hostFailure' = Nobody
             /\ call'[t] = "failed" /\ heard' = [heard EXCEPT ![t] = hostFailure]
    <3>1. call[t] # "failed"
      BY <2>3 DEF Unanswered
    <3>2. \A u \in Threads \ {t} : call'[u] = call[u]
      BY <1>2 DEF Published
    <3> QED
      BY <2>1, <2>3, <3>1, <3>2, Told
  <2> QED
    BY <1>2, <2>2, <2>3 DEF Published
<1>3. CASE Trapped(t, call)
  <2>1. CallMoves
    BY <1>3, CallsMove
  <2>2. \A u \in Threads : call'[u] \in {call[u], "failed"}
    BY <1>3 DEF Trapped
  <2> QED
    BY <1>3, <2>1, <2>2, NoneGoes DEF Trapped
<1> QED
  BY <1>1, <1>2, <1>3

\* A call that is invoked was not made before, or it was deferred.
LEMMA InvokedAnswers ==
  ASSUME TypeOK, CallsAssumption, Book, NEW t \in Threads, Invokes(t), driving = Nobody,
         call[t] \in {"none", "deferred"}, UNCHANGED <<handoffs, thrown>>
  PROVE  /\ Finals /\ FailureGoes /\ \A u \in Threads : DriverSound(u)'
         /\ \A u \in Threads : call[u] \in {"none", "deferred"} /\ u # t => call'[u] = call[u]
<1>0. t # Nobody /\ t # Drain /\ t \notin handoffs /\ thrown[t] = Nobody
  BY Disjoint DEF CallsAssumption, Book, DriverSound, TypeOK
<1>1. /\ \A u \in Threads \ {t} : \/ call'[u] = call[u]
                                  \/ call[u] \in Unanswered /\ call'[u] \in Answered
      /\ call'[t] \in {"driving"} \cup Answered
      /\ driving' = Nobody \/ (driving' = t /\ (hostFailure' # Nobody => call'[t] = "driving"))
      /\ FailureGoes
  <2>1. CASE RefusedNow(t)
    BY <2>1, NoneGoes DEF RefusedNow, Answered
  <2>2. CASE Entered(t)
    <3>1. \A u \in Threads \ {t} : call'[u] = call[u]
      BY <2>2 DEF Entered
    <3>2. CASE /\ call'[t] \in {"driving", "result"} /\ UNCHANGED <<heard, hostFailure>>
               /\ call'[t] = "result" => hostFailure = Nobody
      BY <1>0, <2>2, <3>1, <3>2, NoneGoes DEF Entered, Answered
    <3>3. CASE /\ call'[t] = "failed" /\ hostFailure # Nobody /\ hostFailure' = Nobody
               /\ heard' = [heard EXCEPT ![t] = hostFailure]
      <4>1. FailureGoes
        BY <3>1, <3>3, Told
      <4> QED
        BY <1>0, <2>2, <3>1, <3>3, <4>1 DEF Entered, Answered
    <3> QED
      BY <2>2, <3>2, <3>3 DEF Entered
  <2>3. CASE Crashed(t)
    <3>1. \A u \in Threads : call'[u] \in {call[u], "failed"}
      BY <2>3 DEF Crashed
    <3> QED
      BY <2>3, <3>1, NoneGoes DEF Crashed, Answered
  <2> QED
    BY <2>1, <2>2, <2>3, Invoked
<1>2. ASSUME NEW u \in Threads PROVE DriverSound(u)'
  <2>1. CASE u = t
    BY <1>0, <1>1, <2>1, Disjoint DEF DriverSound
  <2>2. CASE u # t
    BY <1>1, <2>2, Disjoint DEF Book, DriverSound, CallsAssumption
  <2> QED
    BY <2>1, <2>2
<1>3. Finals /\ \A u \in Threads : call[u] \in {"none", "deferred"} /\ u # t => call'[u] = call[u]
  BY <1>1, Disjoint DEF Finals
<1> QED
  BY <1>1, <1>2, <1>3
LEMMA BookAdmits ==
  ASSUME TypeOK, CallsAssumption, Book, Admissible # {}, Admits, driving = Nobody,
         UNCHANGED handoffs
  PROVE  Book' /\ Finals /\ FailureGoes
<1> DEFINE n == NextAdmission
           t == admissions[n]
<1>1. n \in DOMAIN admissions /\ t \in Threads /\ call[t] = "deferred"
  BY NextIsAdmissible DEF Book, Queued
<1>2. Invokes(t) /\ admissions' = RemoveAt(admissions, n) /\ UNCHANGED thrown
  BY DEF Admits
<1> HIDE DEF n
<1>3. /\ Finals /\ FailureGoes /\ \A u \in Threads : DriverSound(u)'
      /\ \A u \in Threads : call[u] \in {"none", "deferred"} /\ u # t => call'[u] = call[u]
  BY <1>1, <1>2, InvokedAnswers
<1>4. /\ \A k \in DOMAIN admissions' : \E j \in DOMAIN admissions : admissions'[k] = admissions[j]
      /\ \A k \in DOMAIN admissions' : admissions'[k] # t
      /\ \A j, k \in DOMAIN admissions' : admissions'[j] = admissions'[k] => j = k
  BY <1>1, <1>2, RemovedElements DEF Book, Queued, TypeOK
<1>5. \A k \in DOMAIN admissions' : call'[admissions'[k]] = "deferred"
  <2>1. \A j \in DOMAIN admissions : admissions[j] \in Threads /\ call[admissions[j]] = "deferred"
    BY DEF Book, Queued, TypeOK
  <2> QED
    BY <1>3, <1>4, <2>1
<1>6. Queued'
  BY <1>4, <1>5 DEF Queued
<1> QED
  BY <1>3, <1>6 DEF Book

LEMMA BookHostCalls ==
  ASSUME TypeOK, CallsAssumption, Book, NEW t \in Threads, HostCalls(t)
  PROVE  Book' /\ Finals /\ FailureGoes
<1>0. driving = Nobody /\ call[t] = "none" /\ UNCHANGED <<thrown, handoffs>>
      /\ call \in [Threads -> Calls]
  BY DEF HostCalls, Free, quantum, TypeOK
<1>1. CASE /\ call' = [call EXCEPT ![t] = "deferred"] /\ admissions' = Append(admissions, t)
           /\ UNCHANGED <<place, ready, outstanding, poisoned, heard, hostFailure, driving>>
  <2>1. call'[t] = "deferred" /\ \A u \in Threads \ {t} : call'[u] = call[u]
    BY <1>0, <1>1
  <2>2. \A i \in DOMAIN admissions : /\ admissions[i] \in Threads
                                     /\ call[admissions[i]] = "deferred" /\ admissions[i] # t
    BY <1>0 DEF Book, Queued, TypeOK
  <2>3. /\ DOMAIN admissions' = DOMAIN admissions \cup {Len(admissions) + 1}
        /\ \A i \in DOMAIN admissions : i # Len(admissions) + 1 /\ admissions'[i] = admissions[i]
        /\ admissions'[Len(admissions) + 1] = t
    BY <1>1 DEF TypeOK
  <2>4. Queued'
    BY <2>1, <2>2, <2>3 DEF Book, Queued
  <2>5. ASSUME NEW u \in Threads PROVE DriverSound(u)'
    BY <1>0, <1>1, <2>1, Disjoint DEF Book, DriverSound, CallsAssumption
  <2>6. Finals /\ FailureGoes
    BY <1>0, <1>1, <2>1, Disjoint, NoneGoes DEF Finals
  <2> QED
    BY <2>4, <2>5, <2>6 DEF Book
<1>2. CASE Invokes(t) /\ UNCHANGED admissions
  <2>1. /\ Finals /\ FailureGoes /\ \A u \in Threads : DriverSound(u)'
        /\ \A u \in Threads : call[u] \in {"none", "deferred"} /\ u # t => call'[u] = call[u]
    BY <1>0, <1>2, InvokedAnswers
  <2>2. \A i \in DOMAIN admissions : /\ admissions[i] \in Threads
                                     /\ call[admissions[i]] = "deferred" /\ admissions[i] # t
    BY <1>0 DEF Book, Queued, TypeOK
  <2>3. Queued'
    BY <1>2, <2>1, <2>2 DEF Book, Queued
  <2> QED
    BY <2>1, <2>3 DEF Book
<1> QED
  BY <1>1, <1>2 DEF HostCalls

LEMMA BookHandoff ==
  ASSUME TypeOK, CallsAssumption, Book, NEW x \in Threads \cup {Drain}, HandoffFires(x)
  PROVE  Book' /\ Finals /\ FailureGoes
<1>0. /\ driving = Nobody /\ x \in handoffs /\ handoffs' = handoffs \ {x} /\ UNCHANGED <<admissions, heard>>
      /\ call \in [Threads -> Calls] /\ thrown \in [Threads -> Failures]
  BY DEF HandoffFires, Quiet, Free, TypeOK
<1>1. CASE UNCHANGED <<call, driving, thrown, hostFailure>>
  BY <1>0, <1>1, BookKept, NoneGoes DEF CallMoves
<1>2. CASE x \in Threads /\ call[x] \in {"driving", "away"}
           /\ call' = [call EXCEPT ![x] = "away"] /\ driving' = x
           /\ UNCHANGED <<thrown, hostFailure>>
  <2>1. call'[x] = "away" /\ \A u \in Threads \ {x} : call'[u] = call[u]
    BY <1>0, <1>2
  <2>2. \A i \in DOMAIN admissions : /\ admissions[i] \in Threads
                                     /\ call[admissions[i]] = "deferred" /\ admissions[i] # x
    BY <1>2 DEF Book, Queued, TypeOK
  <2>3. Queued'
    BY <1>0, <2>1, <2>2 DEF Book, Queued
  <2>4. ASSUME NEW u \in Threads PROVE DriverSound(u)'
    BY <1>0, <1>2, <2>1, Disjoint DEF Book, DriverSound
  <2>5. Finals /\ FailureGoes
    BY <1>0, <1>2, <2>1, Disjoint, NoneGoes DEF Finals
  <2> QED
    BY <2>3, <2>4, <2>5 DEF Book
<1>3. CASE x \in Threads /\ call[x] \notin {"driving", "away"}
           /\ thrown' = [thrown EXCEPT ![x] = hostFailure]
           /\ hostFailure' = Nobody /\ UNCHANGED <<call, driving>>
  <2>1. call[x] \in Answered /\ thrown[x] = Nobody
    BY <1>0, <1>3 DEF Book, DriverSound
  <2>2. \A u \in Threads : thrown'[u] = IF u = x THEN hostFailure ELSE thrown[u]
    BY <1>0, <1>3
  <2>3. ASSUME NEW u \in Threads PROVE DriverSound(u)'
    BY <1>0, <1>3, <2>1, <2>2 DEF Book, DriverSound, CallsAssumption
  <2>4. FailureGoes
    <3>1. TakenBy(x)
      BY <1>3 DEF TakenBy
    <3> QED
      BY <1>0, <1>3, <2>1, <2>2, <3>1 DEF FailureGoes
  <2>5. Queued' /\ Finals
    BY <1>0, <1>3 DEF Book, Queued, Finals
  <2> QED
    BY <2>3, <2>4, <2>5 DEF Book
<1> QED
  BY <1>1, <1>2, <1>3 DEF HandoffFires, CallsAssumption

LEMMA BookDrives ==
  ASSUME TypeOK, CallsAssumption, Book, NEW t \in Threads, DriveStep(t)
  PROVE  Book' /\ Finals /\ FailureGoes
<1>0. /\ call \in [Threads -> Calls]
      /\ driving = t /\ UNCHANGED <<admissions, thrown>>
  BY DEF TypeOK, DriveStep, DriveDone, DriveFails, DriveSteps, DriveWaits, Driven
<1>b. /\ t # Nobody /\ t # Drain /\ t \notin handoffs /\ thrown[t] = Nobody
      /\ (hostFailure # Nobody => call[t] \in Unanswered)
  BY <1>0 DEF Book, DriverSound, CallsAssumption
<1>1. CASE DriveDone(t)
  BY <1>0, <1>1, BookKept, NoneGoes DEF DriveDone, quantum, CallMoves
<1>2. CASE DriveFails(t)
  <2>1. /\ call' = [call EXCEPT ![t] = "failed"] /\ driving' = Nobody /\ handoffs' = handoffs
        /\ hostFailure # Nobody /\ hostFailure' = Nobody
        /\ heard' = [heard EXCEPT ![t] = hostFailure]
    BY <1>2 DEF DriveFails, FailsWithIt, quantum
  <2>2. CallMoves
    BY <1>0, <1>b, <2>1 DEF CallMoves, Answered
  <2>3. FailureGoes
    BY <1>0, <1>b, <2>1, Told DEF Unanswered
  <2> QED
    BY <1>0, <2>1, <2>2, <2>3, BookKept
<1>3. CASE DriveWaits(t)
  <2>1. /\ call' = [call EXCEPT ![t] = "open"] /\ driving' = Nobody /\ handoffs' = handoffs
        /\ UNCHANGED <<heard, hostFailure>> /\ call[t] \in Unanswered
    BY <1>3 DEF DriveWaits, quantum, Driven
  <2>2. /\ call'[t] = "open" /\ \A u \in Threads \ {t} : call'[u] = call[u]
    BY <1>0, <2>1
  <2>3. \A i \in DOMAIN admissions : /\ admissions[i] \in Threads
                                     /\ call[admissions[i]] = "deferred" /\ admissions[i] # t
    BY <2>1, Disjoint DEF Book, Queued, TypeOK
  <2>4. Queued'
    BY <1>0, <2>2, <2>3 DEF Book, Queued
  <2>5. ASSUME NEW u \in Threads PROVE DriverSound(u)'
    BY <1>0, <1>b, <2>1, <2>2, Disjoint DEF Book, DriverSound, CallsAssumption
  <2>6. Finals /\ FailureGoes
    BY <1>0, <2>1, <2>2, Disjoint, NoneGoes DEF Finals
  <2> QED
    BY <2>4, <2>5, <2>6 DEF Book
<1>4. CASE DriveSteps(t)
  <2> DEFINE after == IF call[t] = "away" THEN [call EXCEPT ![t] = "lost"] ELSE call
  <2>1. PICK u \in Candidates : Resume(u, after)
    BY <1>4 DEF DriveSteps
  <2>2. /\ after \in [Threads -> Calls] /\ \A v \in Threads \ {t} : after[v] = call[v]
        /\ after[t] = IF call[t] = "away" THEN "lost" ELSE call[t]
    BY <1>0 DEF Calls, Unanswered
  <2>3. hostFailure = Nobody /\ call[t] \in Unanswered
    BY <1>4 DEF DriveSteps, Driven
  <2> HIDE DEF after
  <2>4. u \in Threads /\ CallTypes /\ (CallsUntouched \/ Published(u, call) \/ Trapped(u, after))
    BY <2>1, <2>2, Resumes
  <2>f. FailureGoes
    <3>1. UNCHANGED <<heard, hostFailure>>
      BY <2>3, <2>4 DEF CallsUntouched, Published, Trapped
    <3> QED
      BY <1>0, <2>3, <3>1, NoneGoes
  <2>5. CASE CallsUntouched \/ Published(u, call)
    <3>1. CallMoves /\ hostFailure' = Nobody
      BY <1>0, <2>3, <2>4, <2>5, AnswersMove
    <3>2. poisoned' = poisoned
      BY <2>5 DEF CallsUntouched, Published
    <3>3. CASE handoffs' = handoffs /\ driving' \in {driving, Nobody}
      BY <1>0, <2>3, <2>f, <3>1, <3>3, BookKept DEF TypeOK, CallTypes
    <3>4. CASE call'[t] \in Unanswered /\ driving' = Nobody /\ handoffs' = handoffs \cup {t}
      <4>1. Queued' /\ Finals
        <5>1. \A i \in DOMAIN admissions : admissions[i] \in Threads
          BY DEF TypeOK
        <5>2. \A i \in DOMAIN admissions : call'[admissions[i]] = "deferred"
          BY <3>1, <5>1, Disjoint DEF Book, Queued, CallMoves
        <5> QED
          BY <1>0, <3>1, <5>2, Disjoint DEF Book, Queued, CallMoves, Finals
      <4>2. ASSUME NEW v \in Threads PROVE DriverSound(v)'
        <5>1. call[v] \in {"driving", "away"} \cup Answered
                => call'[v] \in {"driving", "away"} \cup Answered
          BY <3>1, Disjoint DEF CallMoves
        <5>2. call[v] \in Answered => call'[v] \in Answered
          BY <3>1, Disjoint DEF CallMoves
        <5>3. call[t] \in {"driving", "away"} \cup Answered
          BY <1>0 DEF Book, DriverSound
        <5> QED
          BY <1>0, <1>b, <3>4, <5>1, <5>2, <5>3 DEF Book, DriverSound, CallsAssumption
      <4> QED
        BY <2>f, <4>1, <4>2 DEF Book
    <3>5. QED
      BY <1>0, <1>4, <3>2, <3>3, <3>4 DEF DriveSteps, Charge, quantum
  <2>6. CASE Trapped(u, after)
    <3>0. call[t] \in {"driving", "away"}
      BY <1>0, <2>3, Disjoint DEF Book, DriverSound
    <3>1. /\ \A v \in Threads \ {t} : \/ call'[v] = call[v]
                                      \/ call[v] \in Unanswered /\ call'[v] \in Answered
          /\ call'[t] \in {"lost", call[t]} \cup Answered
          /\ call'[t] = "lost" => call[t] = "away"
          /\ hostFailure' = hostFailure /\ InstOf[u] \notin poisoned /\ InstOf[u] \in poisoned'
      <4>1. hostFailure' = hostFailure /\ InstOf[u] \notin poisoned /\ InstOf[u] \in poisoned'
        BY <2>6 DEF Trapped, Candidates
      <4>2. \A v \in Threads : call'[v] = after[v] \/ (after[v] \in Unanswered /\ call'[v] = "failed")
        BY <2>6 DEF Trapped
      <4>3. QED
        BY <2>2, <3>0, <4>1, <4>2 DEF Answered, Unanswered
    <3>2. driving' = (IF call[t] = "away" THEN Nobody ELSE t) /\ handoffs' = handoffs
      BY <1>0, <1>4, <3>1 DEF DriveSteps, quantum
    <3>3. \A i \in DOMAIN admissions : /\ admissions[i] \in Threads
                                       /\ call[admissions[i]] = "deferred" /\ admissions[i] # t
      BY <2>3, Disjoint DEF Book, Queued, TypeOK
    <3>4. Queued' /\ Finals
      BY <1>0, <2>3, <3>1, <3>3, Disjoint DEF Book, Queued, Finals
    <3>5. ASSUME NEW v \in Threads PROVE DriverSound(v)'
      <4>1. CASE v = t
        BY <1>0, <1>b, <2>3, <3>1, <3>2, <4>1, Disjoint DEF Book, DriverSound
      <4>2. CASE v # t
        BY <1>0, <1>b, <3>1, <3>2, <4>2, Disjoint DEF Book, DriverSound, CallsAssumption
      <4> QED
        BY <4>1, <4>2
    <3> QED
      BY <2>f, <3>4, <3>5 DEF Book
  <2> QED
    BY <2>4, <2>5, <2>6
<1> QED
  BY <1>1, <1>2, <1>3, <1>4 DEF DriveStep
\* Steps that answer no call and leave host failures where they are.
LEMMA BookQuiet ==
  ASSUME TypeOK, CallsAssumption, Book, driving' = Nobody,
         UNCHANGED <<call, heard, admissions, thrown, hostFailure>>,
         handoffs' \subseteq handoffs \cup {Drain}
  PROVE  Book' /\ Finals /\ FailureGoes
BY BookKept, NoneGoes DEF CallMoves

LEMMA BookPromises ==
  ASSUME TypeOK, CallsAssumption, Book, NEW t \in Threads, Promises(t)
  PROVE  Book' /\ Finals /\ FailureGoes
<1>1. CASE \E sync \in BOOLEAN : BoundaryReturned(t, sync)
  <2>1. /\ driving = Nobody /\ driving' = driving /\ UNCHANGED <<admissions, handoffs, thrown>>
        /\ poisoned' = poisoned /\ (Publish(t, call) \/ UNCHANGED <<call, heard, hostFailure>>)
    BY <1>1 DEF BoundaryReturned, Free, quantum
  <2>2. Published(t, call) \/ CallsUntouched
    BY <2>1, PublishTells DEF TypeOK, CallsUntouched
  <2> QED
    BY <2>1, <2>2, AnswersMove, BookKept
<1>2. CASE EngineRuns(t)
  BY <1>2, BookQuiet DEF EngineRuns, Free, callVars, quantum
<1>3. CASE Settles(t)
  BY <1>3, BookQuiet DEF Settles, Free, callVars, quantum
<1>4. CASE RecordsAgain(t)
  <2>1. /\ driving = Nobody /\ thrown[t] # Nobody /\ thrown' = [thrown EXCEPT ![t] = Nobody]
        /\ hostFailure' = (IF hostFailure = Nobody THEN thrown[t] ELSE hostFailure)
        /\ UNCHANGED <<call, heard, admissions, driving, handoffs>>
        /\ thrown \in [Threads -> Failures]
    BY <1>4 DEF RecordsAgain, Free, quantum, TypeOK
  <2>2. \A u \in Threads : thrown'[u] = IF u = t THEN Nobody ELSE thrown[u]
    BY <2>1
  <2>3. FailureGoes
    BY <2>1, <2>2 DEF FailureGoes
  <2> QED
    BY <2>1, <2>2, <2>3, BookKept DEF CallMoves
<1>5. CASE \E failed \in BOOLEAN : HostSettles(t, failed)
  <2>1. /\ driving = Nobody /\ t \in outstanding \ outstanding'
        /\ hostFailure' \in {t, hostFailure}
        /\ UNCHANGED <<call, heard, admissions, driving, thrown, handoffs>>
    BY <1>5 DEF HostSettles, Free, callVars, quantum
  <2>2. FailureGoes
    BY <2>1 DEF FailureGoes
  <2> QED
    BY <2>1, <2>2, BookKept DEF CallMoves
<1> QED
  BY <1>1, <1>2, <1>3, <1>4, <1>5 DEF Promises

LEMMA BookTimers ==
  ASSUME TypeOK, CallsAssumption, Book, TimerFires
  PROVE  Book' /\ Finals /\ FailureGoes
<1>1. CASE HopProbeFires
  BY <1>1, BookQuiet DEF HopProbeFires, Quiet, Free, callVars, quantum
<1>2. CASE SyncHopProbeFires
  BY <1>2, BookQuiet DEF SyncHopProbeFires, Quiet, Free, callVars, quantum
<1>3. CASE \E t \in Threads : IdleTimerFires(t)
  BY <1>3, BookQuiet DEF IdleTimerFires, Quiet, Free, callVars, quantum
<1> QED
  BY <1>1, <1>2, <1>3, BookHandoff DEF TimerFires

LEMMA BookHead ==
  ASSUME TypeOK, CallsAssumption, Book, HeadStep
  PROVE  Book' /\ Finals /\ FailureGoes
<1>0. driving = Nobody
  BY Zenon DEF HeadStep, TopFailure, TopAdmits, SyncForgets, SyncDispatches, SyncResumes, SyncWaits,
               SyncTraps, SyncStuck, SyncServed, AtSyncPark, At
<1>1. CASE TopFailure
  <2>1. /\ UNCHANGED <<admissions, driving, thrown, handoffs>>
        /\ call \in [Threads -> Calls]
    BY <1>1 DEF TopFailure, quantum, TypeOK
  <2>2. CASE UNCHANGED <<call, heard, hostFailure>>
    BY <1>0, <2>1, <2>2, BookQuiet
  <2>3. CASE \E t \in Waiters : FailsWithIt(t, call)
    <3>1. PICK t \in Waiters : FailsWithIt(t, call)
      BY <2>3
    <3>2. t \in Threads /\ call[t] \in Unanswered /\ call[t] # "failed"
      BY DEF Waiters, Unanswered
    <3>3. /\ call' = [call EXCEPT ![t] = "failed"] /\ hostFailure # Nobody
          /\ hostFailure' = Nobody /\ heard' = [heard EXCEPT ![t] = hostFailure]
      BY <3>1 DEF FailsWithIt
    <3>4. CallMoves
      BY <2>1, <3>2, <3>3 DEF CallMoves, Answered
    <3>5. FailureGoes
      BY <2>1, <3>2, <3>3, Told
    <3> QED
      BY <1>0, <2>1, <3>4, <3>5, BookKept
  <2> QED
    BY <1>1, <2>2, <2>3 DEF TopFailure
<1>2. CASE TopAdmits
  BY <1>0, <1>2, BookAdmits DEF TopAdmits, Admits, quantum
<1>3. CASE SyncForgets \/ SyncWaits \/ SyncTraps
  <2>1. UNCHANGED <<hostFailure, callVars, quantum>>
    BY <1>3 DEF SyncForgets, SyncWaits, SyncTraps
  <2> QED
    BY <1>0, <2>1, BookQuiet DEF callVars, quantum
<1>4. CASE SyncDispatches
  <2>1. PICK i \in DOMAIN settled : Dispatch(i)
    BY <1>4 DEF SyncDispatches, SyncTails
  <2>2. settled[i] \in Threads
        /\ (CallsUntouched \/ Published(settled[i], call) \/ Trapped(settled[i], call))
    BY <2>1, Dispatches
  <2>3. CallMoves /\ FailureGoes
    BY <1>4, <2>2, AnswersMove DEF SyncDispatches
  <2> QED
    BY <1>0, <1>4, <2>3, BookKept DEF SyncDispatches, quantum
<1>5. CASE SyncResumes
  <2>1. PICK u \in Candidates : Resume(u, call)
    BY <1>5 DEF SyncResumes, CandidatesOf
  <2>2. CallMoves /\ FailureGoes
    BY <1>5, <2>1, Resumes, AnswersMove DEF TypeOK, SyncResumes
  <2> QED
    BY <1>0, <1>5, <2>2, BookKept DEF SyncResumes, quantum
<1> QED
  BY <1>1, <1>2, <1>3, <1>4, <1>5 DEF HeadStep

LEMMA VerdictsNoResult ==
  ASSUME NEW dead, Verdicts(dead)
  PROVE  \A u \in Threads : call'[u] = "result" => call[u] = "result"
BY DEF Verdicts

LEMMA BookBody ==
  ASSUME TypeOK, CallsAssumption, Book, BodyStep
  PROVE  Book' /\ Finals /\ FailureGoes
<1>0. driving = Nobody
  BY DEF BodyStep, HopsWait, HopsGiveUp, AtHops, TopWorks, WorkDispatches, WorkTicks, WorkEnds,
         StepDone, Settle, At
<1>w. Waiters \cap SyncTyped \in SUBSET Waiters /\ Dead \in SUBSET Waiters
  BY DEF Dead
<1>1. CASE HopsWait \/ TopWorks \/ WorkEnds
  <2>1. UNCHANGED <<hostFailure, callVars, quantum>>
    BY <1>1 DEF HopsWait, TopWorks, WorkEnds
  <2> QED
    BY <1>0, <2>1, BookQuiet DEF callVars, quantum
<1>2. CASE HopsGiveUp
  <2>1. CallMoves
    BY <1>2, <1>w, VerdictsTell DEF HopsGiveUp, CallMoves
  <2>2. FailureGoes
    BY <1>2, VerdictsNoResult, NoneGoes DEF HopsGiveUp
  <2> QED
    BY <1>0, <1>2, <2>1, <2>2, BookKept DEF HopsGiveUp, quantum
<1>4. CASE WorkDispatches
  <2>1. Dispatch(1) /\ 1 \in DOMAIN settled
    BY <1>4 DEF WorkDispatches, TypeOK
  <2>2. settled[1] \in Threads
        /\ (CallsUntouched \/ Published(settled[1], call) \/ Trapped(settled[1], call))
    BY <2>1, Dispatches
  <2>3. CallMoves /\ FailureGoes
    BY <1>4, <2>2, AnswersMove DEF WorkDispatches
  <2> QED
    BY <1>0, <1>4, <2>3, BookKept DEF WorkDispatches, quantum
<1>5. CASE WorkTicks
  <2>1. PICK u \in Candidates : Resume(u, call)
    BY <1>5 DEF WorkTicks
  <2>2. CallMoves /\ FailureGoes
    BY <1>5, <2>1, Resumes, AnswersMove DEF TypeOK, WorkTicks
  <2> QED
    BY <1>0, <1>5, <2>2, BookKept DEF WorkTicks, quantum
<1>7. CASE StepDone
  <2>1. CASE UNCHANGED <<threadVars, storeVars, hostFailure, callVars, quantum>>
    BY <1>0, <2>1, BookQuiet DEF callVars, quantum
  <2>2. CASE Admissible # {} /\ Admits
    BY <1>0, <2>2, BookAdmits DEF Admits, quantum
  <2>3. CASE Charge(Drain) /\ UNCHANGED <<threadVars, storeVars, hostFailure, callVars>>
    BY <1>0, <2>3, BookQuiet DEF Charge, callVars
  <2> QED
    BY <1>7, <2>1, <2>2, <2>3 DEF StepDone
<1>8. CASE Settle
  <2>0. UNCHANGED <<ready, outstanding, heard, hostFailure, admissions, driving, thrown, quantum>>
    BY <1>8 DEF Settle
  <2>1. CASE Verdicts(Dead)
    <3>1. CallMoves
      BY <1>w, <2>0, <2>1, VerdictsTell DEF CallMoves
    <3>2. FailureGoes
      BY <2>0, <2>1, VerdictsNoResult, NoneGoes
    <3> QED
      BY <1>0, <2>0, <3>1, <3>2, BookKept DEF quantum
  <2>2. CASE UNCHANGED call
    BY <1>0, <2>0, <2>2, BookQuiet DEF quantum
  <2> QED
    BY <1>8, <2>1, <2>2 DEF Settle
<1> QED
  BY <1>1, <1>2, <1>4, <1>5, <1>7, <1>8 DEF BodyStep

LEMMA BookStep ==
  ASSUME TypeOK, CallsAssumption, Book, [Next]_vars
  PROVE  Book' /\ Finals /\ FailureGoes
<1>1. CASE DropFails
  <2>1. /\ driving = Nobody /\ hostFailure = Nobody
        /\ UNCHANGED <<call, heard, admissions, driving, handoffs, thrown>>
    BY <1>1 DEF DropFails, Free, callVars, quantum
  <2>2. FailureGoes
    BY <2>1 DEF FailureGoes
  <2> QED
    BY <2>1, <2>2, BookKept DEF CallMoves
<1>2. CASE DrainStarts
  BY <1>2, BookQuiet DEF DrainStarts, Free, callVars, quantum
<1>3. CASE DrainContinues
  BY <1>3, BookQuiet DEF DrainContinues, Free, callVars, quantum
<1>4. CASE UNCHANGED vars
  <2>1. UNCHANGED <<call, heard, admissions, driving, handoffs, thrown, hostFailure>>
    BY <1>4 DEF vars, callVars, quantum
  <2>2. FailureGoes
    BY <2>1, NoneGoes
  <2> QED
    BY <2>1, <2>2 DEF Book, Queued, DriverSound, Finals
<1> QED
  BY <1>1, <1>2, <1>3, <1>4, NextGroups, BookHead, BookBody, BookTimers, BookDrives,
     BookPromises, BookHostCalls

\* A call is answered once, and gets its own answer: a host failure is told to
\* the one call that it fails, or goes to one driver, which gives it back, or is
\* pushed out by the later failure of a settling host call; and while one waits
\* no call gets a result.
THEOREM EveryCallGetsItsOwnAnswer == Spec => OwnAnswer
<1>1. Init => Book
  BY Disjoint, CallsAssumption DEF Init, Book, Queued, DriverSound
<1>2. TypeOK /\ Book /\ [Next]_vars => Book'
  BY BookStep, CallsAssumption
<1>3. TypeOK /\ Book /\ [Next]_vars =>
        [\A t \in Threads : call[t] \in {"result", "failed", "deadlock"} => call'[t] = call[t]]_vars
  BY BookStep, CallsAssumption DEF Finals, Answered
<1>4. TypeOK /\ Book /\ [Next]_vars => [FailureGoes]_vars
  BY BookStep, CallsAssumption
<1> QED
  BY <1>1, <1>2, <1>3, <1>4, StoreTypes, PTL DEF Spec, OwnAnswer, AnsweredOnce, FailureGoesToOneCall

(* -- no wakeup is lost ------------------------------------------------------ *)

\* Calls that have not started have no thread; queued settlements and parks have one.
Placed == /\ \A t \in Threads : call[t] \in {"none", "deferred"} => place[t] = "out"
          /\ \A i \in DOMAIN settled : place[settled[i]] # "out"
          /\ \A i \in DOMAIN syncParks : place[syncParks[i]] # "out"

\* While the drain runs, what it has passed by has been requested anew.
Passed == /\ pc \in {"work", "handoff", "micro"} /\ Admissible # {} => requested
          /\ pc \in {"work", "charge", "handoff", "micro"} /\ syncParks # <<>> => requested
          /\ (pc = "charge" /\ ~requested) =>
               \A i, j \in Admissible : InstOf[admissions[i]] = InstOf[admissions[j]]
          /\ pc = "settle" /\ driving = Nobody /\ Startable # {} => requested \/ yielding
Wakes == NoLostWakeup /\ Passed

\* A thread that has started is not out again; hops last.
Stays == \A u \in Threads : place[u] = "out" <=> place'[u] = "out"
HopsLast == \A u \in Threads : place[u] \in HopPlaces => place'[u] \in HopPlaces

LEMMA AdmissiblePrimed ==
  ASSUME TypeOK'
  PROVE  \A i \in DOMAIN admissions' :
           /\ admissions'[i] \in Threads
           /\ i \in Admissible' <=>
                \A u \in Threads : place'[u] \in HopPlaces => InstOf[u] # InstOf[admissions'[i]]
BY DEF TypeOK, Admissible, HopsOf, Hops, HopPlaces

LEMMA AdmissibleShrinks ==
  ASSUME TypeOK, TypeOK', HopsLast, UNCHANGED admissions
  PROVE  /\ Admissible' \subseteq Admissible
         /\ poisoned \subseteq poisoned' => Startable' \subseteq Startable
<1>1. \A i \in DOMAIN admissions : i \in Admissible' => i \in Admissible
  BY AdmissibleMeaning, AdmissiblePrimed DEF HopsLast
<1>2. Admissible' \subseteq DOMAIN admissions
  BY DEF Admissible
<1> QED
  BY <1>1, <1>2 DEF Startable

\* Requests.
LEMMA RequestWakes ==
  ASSUME TypeOK, Request, UNCHANGED <<pc, yielding>>
  PROVE  Wakes'
BY DEF Request, Wakes, Passed, NoLostWakeup, Asleep, TypeOK

LEMMA TopWakes ==
  ASSUME pc' = "top"
  PROVE  Wakes'
BY DEF Wakes, Passed, NoLostWakeup, Asleep

\* The drain returns with nothing left that it could serve.
LEMMA ReturnWakes ==
  ASSUME TypeOK, NEW r \in BOOLEAN, Returns(r), UNCHANGED yielding,
         Serviceable' => r \/ yielding
  PROVE  Wakes'
BY DEF Returns, Wakes, Passed, NoLostWakeup, Asleep, TypeOK

\* Steps of a call that add no work.
LEMMA KeptWakes ==
  ASSUME TypeOK, TypeOK', Wakes, HopsLast, poisoned \subseteq poisoned',
         UNCHANGED <<admissions, pc, requested, scheduled>>,
         syncParks = <<>> => syncParks' = <<>>,
         yielding' = yielding \/ yielding' = TRUE,
         yielding' = TRUE \/ driving' # Nobody \/
           (/\ driving = Nobody /\ (hostFailure # Nobody => hostFailure' # Nobody) /\ UNCHANGED syncParks
            /\ HasRunnable' => HasRunnable)
  PROVE  Wakes'
<1>1. Admissible' \subseteq Admissible /\ Startable' \subseteq Startable
  BY AdmissibleShrinks
<1>2. NoLostWakeup'
  BY <1>1 DEF Wakes, NoLostWakeup, Asleep, Serviceable, TypeOK
<1>3. Passed'
  BY <1>1 DEF Wakes, Passed, TypeOK
<1> QED
  BY <1>2, <1>3 DEF Wakes

\* No call is unmade.
Made == \A u \in Threads : call'[u] \in {"none", "deferred"} => call[u] \in {"none", "deferred"}

LEMMA MovesMade == CallMoves => Made
BY DEF CallMoves, Made, Answered

LEMMA PlacedKept ==
  ASSUME TypeOK, Placed, Stays, Made,
         \A i \in DOMAIN settled' : \/ \E j \in DOMAIN settled : settled'[i] = settled[j]
                                    \/ settled'[i] \in Threads /\ place'[settled'[i]] # "out",
         \A i \in DOMAIN syncParks' : \/ \E j \in DOMAIN syncParks : syncParks'[i] = syncParks[j]
                                      \/ syncParks'[i] \in Threads /\ place'[syncParks'[i]] # "out"
  PROVE  Placed'
<1>1. \A t \in Threads : call'[t] \in {"none", "deferred"} => place'[t] = "out"
  BY DEF Placed, Stays, Made
<1>2. \A j \in DOMAIN settled : settled[j] \in Threads /\ place'[settled[j]] # "out"
  BY DEF Placed, Stays, TypeOK
<1>3. \A j \in DOMAIN syncParks : syncParks[j] \in Threads /\ place'[syncParks[j]] # "out"
  BY DEF Placed, Stays, TypeOK
<1> QED
  BY <1>1, <1>2, <1>3 DEF Placed

LEMMA PlacedQuiet ==
  ASSUME TypeOK, Placed, Stays, Made, UNCHANGED <<settled, syncParks>>
  PROVE  Placed'
BY PlacedKept

\* What the steps of threads leave of places.
LEMMA ResumeStays ==
  ASSUME TypeOK, CallsAssumption, NEW t \in Candidates, NEW d \in [Threads -> Calls], Resume(t, d)
  PROVE  Stays /\ HopsLast /\ poisoned \subseteq poisoned'
         /\ (syncParks = <<>> => syncParks' = <<>>)
         /\ \A k \in DOMAIN syncParks' : \E j \in DOMAIN syncParks : syncParks'[k] = syncParks[j]
<1>1. /\ t \in Threads /\ place[t] \in InWaiting /\ OnlyMoves(t)
      /\ place'[t] \in {"minted", "hop", "stalled", "claimed"}
           \/ (place[t] \in {"gate", "parked"} /\ place'[t] \in {"parked", "over"})
      /\ CallsUntouched \/ Published(t, call) \/ Trapped(t, d)
      /\ syncParks' \in {syncParks, RemoveFirst(syncParks, t)}
  BY Resumes
<1>2. Stays
  BY <1>1 DEF OnlyMoves, Stays, InWaiting
<1>3. HopsLast
  BY <1>1 DEF OnlyMoves, HopsLast, HopPlaces, InAwaiting
<1>4. poisoned \subseteq poisoned'
  BY <1>1 DEF CallsUntouched, Published, Trapped
<1> QED
  BY <1>1, <1>2, <1>3, <1>4, FirstRemoved DEF TypeOK

LEMMA DispatchStays ==
  ASSUME TypeOK, CallsAssumption, Placed, NEW i \in DOMAIN settled, Dispatch(i)
  PROVE  /\ Stays /\ poisoned \subseteq poisoned'
         /\ \A u \in Threads : u # settled[i] /\ place[u] \in HopPlaces => place'[u] \in HopPlaces
         /\ \A k \in DOMAIN settled' : \E j \in DOMAIN settled : settled'[k] = settled[j]
<1>1. /\ settled[i] \in Threads /\ settled' = RemoveAt(settled, i) /\ OnlyMoves(settled[i])
      /\ place'[settled[i]] \in {"minted", "hop", "stalled", "parked", "over"}
      /\ CallsUntouched \/ Published(settled[i], call) \/ Trapped(settled[i], call)
  BY Dispatches
<1>2. Stays
  BY <1>1 DEF OnlyMoves, Stays, Placed
<1>3. \A u \in Threads : u # settled[i] /\ place[u] \in HopPlaces => place'[u] \in HopPlaces
  BY <1>1 DEF OnlyMoves, HopPlaces, InAwaiting
<1>4. poisoned \subseteq poisoned'
  BY <1>1 DEF CallsUntouched, Published, Trapped
<1>5. \A k \in DOMAIN settled' : \E j \in DOMAIN settled : settled'[k] = settled[j]
  BY <1>1, RemovedElements DEF TypeOK
<1> QED
  BY <1>2, <1>3, <1>4, <1>5
LEMMA RunnableSame ==
  ASSUME UNCHANGED <<place, ready, pendingResumptions, settled, poisoned>>
  PROVE  HasRunnable' <=> HasRunnable
BY DEF HasRunnable, OrdinaryAllowed, UnsettledHops, Hops, Candidates

LEMMA SameStays ==
  ASSUME UNCHANGED place
  PROVE  Stays /\ HopsLast
BY DEF Stays, HopsLast

LEMMA AbandonedStays ==
  ASSUME \A u \in Threads : place'[u] = place[u] \/ (place[u] = "gate" /\ place'[u] = "over")
  PROVE  Stays /\ HopsLast
BY DEF Stays, HopsLast, HopPlaces, InAwaiting

LEMMA ServiceDrives ==
  ASSUME TypeOK, TypeOK', CallsAssumption, Placed, Wakes, NEW t \in Threads, DriveStep(t)
  PROVE  Placed' /\ Wakes'
<1>0. /\ call \in [Threads -> Calls] /\ driving = t /\ t # Nobody
  BY DEF TypeOK, DriveStep, DriveDone, DriveFails, DriveSteps, DriveWaits, Driven, CallsAssumption
<1>1. CASE DriveDone(t)
  <2>1. UNCHANGED <<place, settled, syncParks, call, pc, yielding>> /\ Request
    BY <1>1 DEF DriveDone, threadVars, storeVars, quantum
  <2> QED
    BY <2>1, SameStays, PlacedQuiet, RequestWakes DEF Made
<1>2. CASE DriveFails(t)
  <2>1. /\ UNCHANGED <<settled, syncParks, pc, yielding>> /\ Request
        /\ call' = [call EXCEPT ![t] = "failed"] /\ place' = Abandoned({t})
    BY <1>2 DEF DriveFails, FailsWithIt, storeVars, quantum
  <2>2. Made
    BY <1>0, <2>1 DEF Made
  <2>3. Stays
    BY <2>1, AbandonedTyped, AbandonedStays
  <2> QED
    BY <2>1, <2>2, <2>3, PlacedQuiet, RequestWakes
<1>3. CASE DriveWaits(t)
  <2>1. /\ UNCHANGED <<place, settled, syncParks, pc, yielding>> /\ Request
        /\ call' = [call EXCEPT ![t] = "open"]
    BY <1>3 DEF DriveWaits, threadVars, storeVars, quantum
  <2>2. Made
    BY <1>0, <2>1 DEF Made
  <2> QED
    BY <2>1, <2>2, SameStays, PlacedQuiet, RequestWakes
<1>4. CASE DriveSteps(t)
  <2> DEFINE after == IF call[t] = "away" THEN [call EXCEPT ![t] = "lost"] ELSE call
  <2>1. PICK u \in Candidates : Resume(u, after)
    BY <1>4 DEF DriveSteps
  <2>2. /\ after \in [Threads -> Calls]
        /\ \A v \in Threads : after[v] = call[v] \/ after[v] = "lost"
    BY <1>0 DEF Calls, Unanswered
  <2> HIDE DEF after
  <2>3. u \in Threads /\ (CallsUntouched \/ Published(u, call) \/ Trapped(u, after))
    BY <2>1, <2>2, Resumes
  <2>4. /\ Stays /\ HopsLast /\ poisoned \subseteq poisoned' /\ (syncParks = <<>> => syncParks' = <<>>)
        /\ \A k \in DOMAIN syncParks' : \E j \in DOMAIN syncParks : syncParks'[k] = syncParks[j]
    BY <2>1, <2>2, ResumeStays
  <2>5. Made
    BY <2>2, <2>3 DEF Made, CallsUntouched, Published, Trapped
  <2>6. UNCHANGED <<settled, admissions, pc>>
    BY <1>4 DEF DriveSteps
  <2>7. Placed'
    BY <2>4, <2>5, <2>6, PlacedKept
  <2>8. CASE Request /\ UNCHANGED quantum
    BY <2>6, <2>7, <2>8, RequestWakes DEF quantum
  <2>9. CASE /\ UNCHANGED <<scheduled, requested>>
             /\ yielding' = yielding \/ yielding' = TRUE
             /\ driving' = t \/ yielding' = TRUE
    BY <1>0, <2>4, <2>6, <2>7, <2>9, KeptWakes
  <2> QED
    BY <1>0, <1>4, <2>8, <2>9 DEF DriveSteps, Charge, quantum
<1> QED
  BY <1>1, <1>2, <1>3, <1>4 DEF DriveStep

LEMMA ServicePromises ==
  ASSUME TypeOK, TypeOK', CallsAssumption, Placed, Wakes, NEW t \in Threads, Promises(t)
  PROVE  Placed' /\ Wakes'
<1>0. place \in [Threads -> Places] /\ call \in [Threads -> Calls]
  BY DEF TypeOK
<1>1. CASE EngineRuns(t)
  <2>1. /\ UNCHANGED <<settled, syncParks, poisoned, hostFailure, call, admissions, driving, pc,
                       yielding>>
        /\ driving = Nobody /\ place[t] = "claimed" /\ RunsGuest(t)
    BY <1>1 DEF EngineRuns, callVars, quantum, Free
  <2>2. OnlyMoves(t) /\ place'[t] \in {"minted", "hop", "stalled"}
    BY <2>1, GuestRuns
  <2>3. Stays /\ HopsLast
    BY <2>1, <2>2 DEF Stays, HopsLast, OnlyMoves, HopPlaces, InAwaiting
  <2>4. Placed'
    BY <2>1, <2>3, PlacedQuiet DEF Made
  <2>5. CASE Request
    BY <2>1, <2>4, <2>5, RequestWakes
  <2>6. CASE place'[t] # "minted" /\ UNCHANGED <<requested, scheduled>>
    <3>1. ~HasRunnable'
      BY <2>2, <2>6 DEF HasRunnable, OrdinaryAllowed, UnsettledHops, Hops, InAwaiting
    <3> QED
      BY <2>1, <2>3, <2>4, <2>6, <3>1, KeptWakes
  <2> QED
    BY <1>1, <2>5, <2>6 DEF EngineRuns
<1>2. CASE Settles(t)
  <2>1. /\ UNCHANGED <<syncParks, call, pc, yielding>> /\ Request
        /\ place[t] \in {"hop", "stalled"} /\ place' = [place EXCEPT ![t] = "tail"]
        /\ settled' = Append(settled, t)
    BY <1>2 DEF Settles, callVars, quantum
  <2>2. Stays
    BY <1>0, <2>1 DEF Stays
  <2>3. \A i \in DOMAIN settled' : \/ \E j \in DOMAIN settled : settled'[i] = settled[j]
                                   \/ settled'[i] \in Threads /\ place'[settled'[i]] # "out"
    <3>1. place'[t] # "out"
      BY <1>0, <2>1
    <3>2. \A i \in DOMAIN settled' : (i \in DOMAIN settled /\ settled'[i] = settled[i])
                                     \/ settled'[i] = t
      BY <2>1 DEF TypeOK
    <3> QED
      BY <3>1, <3>2
  <2> QED
    BY <2>1, <2>2, <2>3, PlacedKept, RequestWakes DEF Made
<1>3. CASE RecordsAgain(t)
  <2>1. /\ UNCHANGED <<place, ready, pendingResumptions, settled, syncParks, poisoned, call,
                       admissions, driving, pc, scheduled, requested, yielding>>
        /\ driving = Nobody /\ hostFailure' # Nobody
    BY <1>3 DEF RecordsAgain, threadVars, storeVars, quantum, Free
  <2> QED
    BY <2>1, SameStays, PlacedQuiet, RunnableSame, KeptWakes DEF Made
<1>4. CASE \E sync \in BOOLEAN : BoundaryReturned(t, sync)
  <2>1. PICK sync \in BOOLEAN : BoundaryReturned(t, sync)
    BY <1>4
  <2>2. /\ UNCHANGED <<settled, poisoned, pc, yielding>> /\ Request
        /\ place[t] = "minted" /\ place' = [place EXCEPT ![t] = "suspended"]
        /\ syncParks' = syncParks \/ syncParks' = Append(syncParks, t)
        /\ Publish(t, call) \/ UNCHANGED <<call, heard, hostFailure>>
    BY <2>1 DEF BoundaryReturned, quantum
  <2>3. Stays
    BY <1>0, <2>2 DEF Stays
  <2>4. Made
    <3>1. UNCHANGED call \/ Published(t, call)
      BY <1>0, <2>2, PublishTells DEF TypeOK
    <3> QED
      BY <3>1 DEF Made, Published
  <2>5. \A i \in DOMAIN syncParks' : \/ \E j \in DOMAIN syncParks : syncParks'[i] = syncParks[j]
                                     \/ syncParks'[i] \in Threads /\ place'[syncParks'[i]] # "out"
    <3>1. place'[t] # "out"
      BY <1>0, <2>2
    <3>2. \A i \in DOMAIN syncParks' : (i \in DOMAIN syncParks /\ syncParks'[i] = syncParks[i])
                                       \/ syncParks'[i] = t
      <4>1. CASE syncParks' = syncParks
        BY <4>1
      <4>2. CASE syncParks' = Append(syncParks, t)
        BY <4>2 DEF TypeOK
      <4> QED
        BY <2>2, <4>1, <4>2
    <3> QED
      BY <3>1, <3>2
  <2> QED
    BY <2>2, <2>3, <2>4, <2>5, PlacedKept, RequestWakes
<1>5. CASE \E failed \in BOOLEAN : HostSettles(t, failed)
  <2>1. UNCHANGED <<place, settled, syncParks, call, pc, yielding>> /\ Request
    BY <1>5 DEF HostSettles, storeVars, callVars, quantum
  <2> QED
    BY <2>1, SameStays, PlacedQuiet, RequestWakes DEF Made
<1> QED
  BY <1>1, <1>2, <1>3, <1>4, <1>5 DEF Promises
\* Whether the calls of plain functions enter the only instance of their store.
PlainAlone == \A t \in Plain, u \in Threads : InstOf[u] = InstOf[t]

\* What an invocation leaves: the thread of the call is the only one that starts.
LEMMA InvokeStays ==
  ASSUME TypeOK, CallsAssumption, Placed, NEW t \in Threads, Invokes(t), place[t] = "out"
  PROVE  /\ HopsLast /\ poisoned \subseteq poisoned' /\ Made
         /\ \A u \in Threads : call'[u] \in {"none", "deferred"} => place'[u] = "out"
         /\ \A u \in Threads : place[u] # "out" => place'[u] # "out"
<1>1. /\ OnlyMoves(t)
      /\ RefusedNow(t) \/ Entered(t) \/ Crashed(t)
  BY Invoked
<1>2. HopsLast
  BY <1>1 DEF OnlyMoves, HopsLast, HopPlaces, InAwaiting
<1>3. \A u \in Threads : place[u] # "out" => place'[u] # "out"
  BY <1>1 DEF OnlyMoves
<1>4. poisoned \subseteq poisoned'
  BY <1>1 DEF RefusedNow, Entered, Crashed
<1>5. call'[t] \notin {"none", "deferred"}
  BY <1>1 DEF RefusedNow, Entered, Crashed
<1>6. \A u \in Threads \ {t} : call'[u] = call[u] \/ call'[u] = "failed"
  BY <1>1 DEF RefusedNow, Entered, Crashed
<1>7. \A u \in Threads \ {t} : place[u] = "out" => place'[u] = "out"
  BY <1>1 DEF OnlyMoves
<1> QED
  BY <1>2, <1>3, <1>4, <1>5, <1>6, <1>7 DEF Made, Placed

LEMMA PlacedStarts ==
  ASSUME TypeOK, Placed, UNCHANGED <<settled, syncParks>>,
         \A u \in Threads : call'[u] \in {"none", "deferred"} => place'[u] = "out",
         \A u \in Threads : place[u] # "out" => place'[u] # "out"
  PROVE  Placed'
BY DEF Placed, TypeOK

LEMMA ServiceCalls ==
  ASSUME TypeOK, TypeOK', CallsAssumption, PlainAlone, Placed, Wakes,
         NEW t \in Threads, HostCalls(t)
  PROVE  Placed' /\ Wakes'
<1>0. /\ driving = Nobody /\ call[t] = "none" /\ place[t] = "out" /\ t # Nobody
      /\ call \in [Threads -> Calls]
      /\ UNCHANGED <<pendingResumptions, settled, syncParks, pc, yielding>>
  BY DEF HostCalls, Free, quantum, Placed, CallsAssumption, TypeOK
<1>1. CASE /\ call' = [call EXCEPT ![t] = "deferred"] /\ Request /\ UNCHANGED place
  <2>1. Made
    BY <1>0, <1>1 DEF Made
  <2> QED
    BY <1>0, <1>1, <2>1, SameStays, PlacedQuiet, RequestWakes
<1>2. CASE Invokes(t) /\ UNCHANGED <<admissions, requested, scheduled>>
  <2>1. HopsLast /\ poisoned \subseteq poisoned' /\ Placed'
    BY <1>0, <1>2, InvokeStays, PlacedStarts
  <2>2. /\ OnlyMoves(t) /\ TypeOK'
        /\ RefusedNow(t) \/ (InstOf[t] \notin poisoned /\ (Entered(t) \/ Crashed(t)))
    BY <1>2, Invoked
  <2>3. CASE RefusedNow(t)
    <3>1. /\ UNCHANGED <<place, ready, pendingResumptions, settled, poisoned>>
          /\ driving = Nobody /\ hostFailure' = hostFailure /\ UNCHANGED syncParks
      BY <1>0, <2>3 DEF RefusedNow
    <3>2. HasRunnable' => HasRunnable
      BY <3>1, RunnableSame
    <3> QED
      BY <1>0, <1>2, <2>1, <3>1, <3>2, KeptWakes
  <2>4. CASE Entered(t)
    BY <1>0, <1>2, <2>1, <2>4, KeptWakes DEF Entered
  <2>5. CASE Crashed(t)
    <3>1. driving = Nobody /\ hostFailure' = hostFailure /\ InstOf[t] \in poisoned' /\ t \in Plain
      BY <1>0, <2>5 DEF Crashed
    <3>2. Candidates' = {}
      BY <3>1 DEF PlainAlone, Candidates
    <3>3. \A u \in Threads : place[u] \in HopPlaces => place'[u] = place[u]
      BY <1>0, <2>2 DEF OnlyMoves, HopPlaces, InAwaiting
    <3>4. UnsettledHops \subseteq UnsettledHops'
      BY <3>3 DEF UnsettledHops, Hops, HopPlaces
    <3>5. HasRunnable' => HasRunnable
      BY <1>0, <3>2, <3>4 DEF HasRunnable, OrdinaryAllowed
    <3> QED
      BY <1>0, <1>2, <2>1, <3>1, <3>5, KeptWakes
  <2> QED
    BY <2>2, <2>3, <2>4, <2>5
<1> QED
  BY <1>1, <1>2 DEF HostCalls

LEMMA ServiceTimers ==
  ASSUME TypeOK, TypeOK', CallsAssumption, Placed, Wakes, TimerFires
  PROVE  Placed' /\ Wakes'
<1>1. CASE HopProbeFires
  <2>1. UNCHANGED <<place, settled, syncParks, call, pc, yielding>> /\ Request
    BY <1>1 DEF HopProbeFires, threadVars, storeVars, callVars, quantum
  <2> QED
    BY <2>1, SameStays, PlacedQuiet, RequestWakes DEF Made
<1>2. CASE SyncHopProbeFires
  <2>1. UNCHANGED <<place, settled, syncParks, call, pc, yielding>> /\ Request
    BY <1>2 DEF SyncHopProbeFires, threadVars, storeVars, callVars, quantum
  <2> QED
    BY <2>1, SameStays, PlacedQuiet, RequestWakes DEF Made
<1>3. CASE \E t \in Threads : IdleTimerFires(t)
  <2>1. UNCHANGED <<place, settled, syncParks, call, pc, yielding>> /\ Request
    BY <1>3 DEF IdleTimerFires, threadVars, storeVars, callVars, quantum
  <2> QED
    BY <2>1, SameStays, PlacedQuiet, RequestWakes DEF Made
<1>4. CASE \E x \in Threads \cup {Drain} : HandoffFires(x)
  <2>1. PICK x \in Threads \cup {Drain} : HandoffFires(x)
    BY <1>4
  <2>2. /\ UNCHANGED <<place, settled, syncParks>>
        /\ requested' = TRUE /\ scheduled' = (pc = "off")
        /\ pc' = pc \/ pc' = AfterStep
        /\ call' = call \/ call' = [call EXCEPT ![x] = "away"]
    BY <2>1 DEF HandoffFires, threadVars, storeVars
  <2>3. pc' \in {"work", "micro"} \/ (pc' = pc /\ (pc \in {"work", "charge", "settle"} => requested'))
    BY <2>2 DEF AfterStep
  <2>4. Wakes'
    BY <2>2, <2>3 DEF Wakes, Passed, NoLostWakeup, Asleep
  <2>5. Made
    BY <2>2 DEF Made, TypeOK
  <2> QED
    BY <2>2, <2>4, <2>5, SameStays, PlacedQuiet
<1> QED
  BY <1>1, <1>2, <1>3, <1>4 DEF TimerFires
\* After an admission at the end of a step no call is left that the drain would
\* have to admit, unless it has been asked for or a call is driven now.
LEMMA ServiceAdmits ==
  ASSUME TypeOK, TypeOK', CallsAssumption, Book, Placed, Admissible # {}, Admits,
         driving = Nobody
  PROVE  /\ Placed'
         /\ (\A i, j \in Admissible : InstOf[admissions[i]] = InstOf[admissions[j]])
              => (driving' = Nobody => Startable' = {})
<1> DEFINE n == NextAdmission
           t == admissions[n]
<1>1. n \in DOMAIN admissions /\ t \in Threads /\ call[t] = "deferred" /\ n \in Admissible
  BY NextIsAdmissible DEF Book, Queued
<1>2. /\ Invokes(t) /\ admissions' = RemoveAt(admissions, n)
      /\ UNCHANGED <<settled, syncParks>> /\ place[t] = "out" /\ t # Nobody
  BY <1>1 DEF Admits, Placed, CallsAssumption
<1> HIDE DEF n
<1>3. HopsLast /\ poisoned \subseteq poisoned' /\ Placed'
  BY <1>1, <1>2, InvokeStays, PlacedStarts
<1>4. \A k \in DOMAIN admissions' : \E j \in DOMAIN admissions : admissions'[k] = admissions[j]
  BY <1>1, <1>2, RemovedElements DEF TypeOK
<1>5. driving' = Nobody => InstOf[t] \in poisoned'
  <2>1. RefusedNow(t) \/ Entered(t) \/ Crashed(t)
    BY <1>1, <1>2, Invoked
  <2> HIDE DEF t
  <2> QED
    BY <1>1, <1>2, <2>1 DEF RefusedNow, Entered, Crashed
<1>6. ASSUME \A i, j \in Admissible : InstOf[admissions[i]] = InstOf[admissions[j]],
             driving' = Nobody, NEW k \in Startable'
      PROVE  FALSE
  <2>1. k \in Admissible' /\ k \in DOMAIN admissions' /\ InstOf[admissions'[k]] \notin poisoned'
    BY DEF Startable, Admissible
  <2>2. PICK j \in DOMAIN admissions : admissions'[k] = admissions[j]
    BY <1>4, <2>1
  <2>3. \A u \in Threads : place'[u] \in HopPlaces => InstOf[u] # InstOf[admissions'[k]]
    BY <2>1, AdmissiblePrimed
  <2>4. j \in Admissible
    BY <1>3, <2>2, <2>3, AdmissibleMeaning DEF HopsLast
  <2> QED
    BY <1>1, <1>5, <1>6, <2>1, <2>2, <2>4
<1> QED
  BY <1>3, <1>6

LEMMA ServiceHead ==
  ASSUME TypeOK, TypeOK', CallsAssumption, Book, Placed, Wakes, HeadStep
  PROVE  Placed' /\ Wakes'
<1>0. call \in [Threads -> Calls] /\ place \in [Threads -> Places]
  BY DEF TypeOK
<1>t. AtSyncPark => /\ Point \in Threads /\ place[Point] # "out"
                    /\ \A k \in DOMAIN Tail(syncParks) :
                         \E j \in DOMAIN syncParks : Tail(syncParks)[k] = syncParks[j]
  <2>1. ASSUME AtSyncPark
        PROVE  /\ Point \in Threads /\ place[Point] # "out"
               /\ \A k \in DOMAIN Tail(syncParks) : /\ k + 1 \in DOMAIN syncParks
                                                    /\ Tail(syncParks)[k] = syncParks[k + 1]
    BY <2>1 DEF AtSyncPark, Point, TypeOK, Placed
  <2> QED
    BY <2>1
<1>1. CASE TopFailure
  <2>1. UNCHANGED <<settled, syncParks, yielding>> /\ hostFailure # Nobody
    BY <1>1 DEF TopFailure, storeVars, quantum
  <2>2. CASE Returns(FALSE) /\ UNCHANGED <<place, call, heard, hostFailure>>
    <3>1. ~Serviceable'
      BY <2>1, <2>2 DEF Serviceable
    <3> QED
      BY <2>1, <2>2, <3>1, SameStays, PlacedQuiet, ReturnWakes DEF Made
  <2>3. CASE AgainAtTop /\ \E t \in Waiters : /\ call' = [call EXCEPT ![t] = "failed"]
                                              /\ place' = Abandoned({t})
    <3>1. PICK t \in Waiters : call' = [call EXCEPT ![t] = "failed"] /\ place' = Abandoned({t})
      BY <2>3
    <3>2. Made /\ Stays
      BY <1>0, <3>1, AbandonedTyped, AbandonedStays DEF Made
    <3> QED
      BY <2>1, <2>3, <3>2, PlacedQuiet, TopWakes DEF AgainAtTop
  <2> QED
    BY <1>1, <2>2, <2>3 DEF TopFailure, FailsWithIt
<1>2. CASE TopAdmits
  <2>1. Admissible # {} /\ Admits /\ driving = Nobody /\ pc' = "top"
    BY <1>2 DEF TopAdmits, At, AgainAtTop
  <2> QED
    BY <2>1, ServiceAdmits, TopWakes
<1>3. CASE SyncForgets
  <2>1. /\ AtSyncPark /\ UNCHANGED <<place, settled, call>> /\ syncParks' = Tail(syncParks)
        /\ pc' = "top"
    BY <1>3 DEF SyncForgets, threadVars, callVars, AgainAtTop
  <2> QED
    BY <1>t, <2>1, SameStays, PlacedKept, TopWakes DEF Made
<1>4. CASE SyncDispatches
  <2>1. PICK i \in DOMAIN settled : Dispatch(i)
    BY <1>4 DEF SyncDispatches, SyncTails
  <2>2. settled[i] \in Threads
        /\ (CallsUntouched \/ Published(settled[i], call) \/ Trapped(settled[i], call))
    BY <2>1, Dispatches
  <2>3. Made
    BY <2>2, CallsMove, MovesMade
  <2>4. UNCHANGED syncParks /\ pc' = "top"
    BY <1>4 DEF SyncDispatches, AgainAtTop
  <2> QED
    BY <2>1, <2>3, <2>4, DispatchStays, PlacedKept, TopWakes
<1>5. CASE SyncResumes
  <2>1. PICK u \in Candidates : Resume(u, call)
    BY <1>5 DEF SyncResumes, CandidatesOf
  <2>2. Made
    BY <1>0, <2>1, Resumes, CallsMove, MovesMade
  <2>3. UNCHANGED settled /\ pc' = "top"
    BY <1>5 DEF SyncResumes, AgainAtTop
  <2> QED
    BY <1>0, <2>1, <2>2, <2>3, ResumeStays, PlacedKept, TopWakes
<1>6. CASE SyncWaits
  <2>1. /\ UNCHANGED <<place, settled, syncParks, call, admissions, poisoned, yielding>>
        /\ Returns(FALSE) /\ AtSyncPark
    BY <1>6 DEF SyncWaits, SyncStuck, SyncServed, threadVars, storeVars, callVars, quantum
  <2>2. Admissible' = Admissible
    BY <2>1 DEF Admissible, HopsOf, Hops
  <2>3. ~Serviceable'
    BY <2>1, <2>2 DEF AtSyncPark, Serviceable, Startable
  <2> QED
    BY <2>1, <2>3, SameStays, PlacedQuiet, ReturnWakes DEF Made
<1>7. CASE SyncTraps
  <2>1. /\ AtSyncPark /\ UNCHANGED <<settled, call>> /\ syncParks' = Tail(syncParks)
        /\ pc' = "top" /\ place' = [place EXCEPT ![Point] = "hop"]
    BY <1>7 DEF SyncTraps, SyncStuck, SyncServed, callVars, AgainAtTop
  <2>2. Stays
    BY <1>0, <1>t, <2>1 DEF Stays
  <2> QED
    BY <1>t, <2>1, <2>2, PlacedKept, TopWakes DEF Made
<1> QED
  BY <1>1, <1>2, <1>3, <1>4, <1>5, <1>6, <1>7 DEF HeadStep
LEMMA ServiceBody ==
  ASSUME TypeOK, TypeOK', CallsAssumption, Book, Placed, Wakes, BodyStep
  PROVE  Placed' /\ Wakes'
<1>0. call \in [Threads -> Calls] /\ place \in [Threads -> Places]
  BY DEF TypeOK
<1>w. Waiters \cap SyncTyped \in SUBSET Waiters /\ Dead \in SUBSET Waiters
  BY DEF Dead
<1>1. CASE HopsWait
  <2>1. /\ UNCHANGED <<place, settled, syncParks, call, admissions, poisoned, yielding>>
        /\ Returns(FALSE) /\ Admissible = {} /\ UnsettledHops # {}
    BY <1>1 DEF HopsWait, AtHops, threadVars, storeVars, callVars, quantum
  <2>2. Admissible' = Admissible /\ UnsettledHops' = UnsettledHops
    BY <2>1 DEF Admissible, HopsOf, UnsettledHops, Hops
  <2>3. ~Serviceable'
    BY <2>1, <2>2 DEF Serviceable, Startable, HasRunnable, OrdinaryAllowed
  <2> QED
    BY <2>1, <2>3, SameStays, PlacedQuiet, ReturnWakes DEF Made
<1>2. CASE HopsGiveUp
  <2>1. /\ UNCHANGED <<ready, outstanding, heard, hostFailure, settled, syncParks, admissions, yielding>>
        /\ Returns(FALSE) /\ Admissible = {} /\ UnsettledHops # {}
        /\ Verdicts(Waiters \cap SyncTyped)
    BY <1>2 DEF HopsGiveUp, AtHops, quantum
  <2>2. /\ \A u \in Threads : place'[u] = place[u] \/ (place[u] = "gate" /\ place'[u] = "over")
        /\ CallMoves
    BY <1>w, <2>1, VerdictsTell DEF CallMoves
  <2>3. Stays /\ HopsLast /\ Made
    BY <2>2, AbandonedStays, MovesMade
  <2>4. Admissible' = {}
    BY <2>1, <2>3, AdmissibleShrinks
  <2>5. PICK u \in Threads : place[u] \in HopPlaces /\ place[u] # "tail"
    BY <2>1 DEF UnsettledHops, Hops, HopPlaces
  <2>6. place'[u] = place[u]
    BY <2>2, <2>5 DEF HopPlaces, InAwaiting
  <2>7. UnsettledHops' # {}
    BY <2>5, <2>6 DEF UnsettledHops, Hops, HopPlaces
  <2>8. ~Serviceable'
    BY <2>4, <2>7 DEF Serviceable, Startable, HasRunnable, OrdinaryAllowed
  <2> QED
    BY <2>1, <2>3, <2>8, PlacedQuiet, ReturnWakes
<1>3. CASE TopWorks
  <2>1. /\ UNCHANGED <<place, settled, syncParks, call, admissions>>
        /\ Admissible = {} /\ syncParks = <<>> /\ pc' = "work"
    BY <1>3 DEF TopWorks, threadVars, storeVars, callVars
  <2>2. Admissible' = Admissible
    BY <2>1 DEF Admissible, HopsOf, Hops
  <2>3. Wakes'
    BY <2>1, <2>2 DEF Wakes, Passed, NoLostWakeup, Asleep
  <2> QED
    BY <2>1, <2>3, SameStays, PlacedQuiet DEF Made
<1>4. CASE WorkDispatches
  <2>1. /\ Dispatch(1) /\ 1 \in DOMAIN settled /\ UNCHANGED <<syncParks, admissions>>
        /\ pc = "work" /\ pc' \in {"top", "charge"} /\ (requested => requested')
    BY <1>4 DEF WorkDispatches, TypeOK, At
  <2>2. settled[1] \in Threads
        /\ (CallsUntouched \/ Published(settled[1], call) \/ Trapped(settled[1], call))
    BY <2>1, Dispatches
  <2>3. Made
    BY <2>2, CallsMove, MovesMade
  <2>4. /\ Stays
        /\ \A u \in Threads : u # settled[1] /\ place[u] \in HopPlaces => place'[u] \in HopPlaces
        /\ \A k \in DOMAIN settled' : \E j \in DOMAIN settled : settled'[k] = settled[j]
    BY <2>1, DispatchStays
  <2>5. Placed'
    BY <2>1, <2>3, <2>4, PlacedKept
  <2>6. CASE pc' = "charge"
    <3>1. ASSUME ~requested' PROVE Admissible = {} /\ syncParks' = <<>>
      BY <2>1, <3>1 DEF Wakes, Passed
    <3>2. ASSUME Admissible = {}, NEW i \in Admissible'
          PROVE  InstOf[admissions'[i]] = InstOf[settled[1]]
      <4>1. i \in DOMAIN admissions /\ i \notin Admissible
        BY <2>1, <3>2 DEF Admissible
      <4>2. PICK u \in Threads : place[u] \in HopPlaces /\ InstOf[u] = InstOf[admissions[i]]
        BY <4>1, AdmissibleMeaning
      <4>3. ~(place'[u] \in HopPlaces)
        BY <2>1, <4>1, <4>2, AdmissiblePrimed
      <4> QED
        BY <2>1, <2>4, <4>2, <4>3
    <3>3. ~requested' => \A i, j \in Admissible' : InstOf[admissions'[i]] = InstOf[admissions'[j]]
      BY <3>1, <3>2
    <3> QED
      BY <2>5, <2>6, <3>1, <3>3 DEF Wakes, Passed, NoLostWakeup, Asleep
  <2> QED
    BY <2>1, <2>5, <2>6, TopWakes
<1>5. CASE WorkTicks
  <2>1. PICK u \in Candidates : Resume(u, call)
    BY <1>5 DEF WorkTicks
  <2>2. Made
    BY <1>0, <2>1, Resumes, CallsMove, MovesMade
  <2>3. /\ UNCHANGED <<settled, admissions, requested>> /\ pc = "work" /\ pc' \in {"top", "charge"}
    BY <1>5 DEF WorkTicks, At
  <2>4. /\ Stays /\ HopsLast /\ (syncParks = <<>> => syncParks' = <<>>)
        /\ \A k \in DOMAIN syncParks' : \E j \in DOMAIN syncParks : syncParks'[k] = syncParks[j]
    BY <1>0, <2>1, ResumeStays
  <2>5. Placed'
    BY <2>2, <2>3, <2>4, PlacedKept
  <2>6. Admissible' \subseteq Admissible
    BY <2>3, <2>4, AdmissibleShrinks
  <2>7. CASE pc' = "charge"
    <3>1. ~requested => Admissible' = {} /\ syncParks' = <<>>
      BY <2>3, <2>4, <2>6 DEF Wakes, Passed
    <3> QED
      BY <2>3, <2>5, <2>7, <3>1 DEF Wakes, Passed, NoLostWakeup, Asleep
  <2> QED
    BY <2>3, <2>5, <2>7, TopWakes
<1>6. CASE WorkEnds
  <2>1. /\ UNCHANGED <<place, settled, syncParks, call, admissions, requested, poisoned>>
        /\ pc = "work" /\ pc' = "settle"
    BY <1>6 DEF WorkEnds, At, threadVars, storeVars, callVars
  <2>2. Startable' \subseteq Admissible
    BY <2>1, SameStays, AdmissibleShrinks DEF Startable
  <2>3. Wakes'
    BY <2>1, <2>2 DEF Wakes, Passed, NoLostWakeup, Asleep
  <2> QED
    BY <2>1, <2>3, SameStays, PlacedQuiet DEF Made
<1>7. CASE StepDone
  <2>0. pc = "charge" /\ driving = Nobody /\ UNCHANGED <<scheduled, requested>>
    BY <1>7 DEF StepDone, At
  <2>1. CASE /\ syncParks # <<>> /\ pc' = "settle"
             /\ UNCHANGED <<threadVars, storeVars, hostFailure, callVars, quantum>>
    <3>1. requested'
      BY <2>0, <2>1 DEF Wakes, Passed
    <3>2. Wakes'
      BY <2>1, <3>1 DEF Wakes, Passed, NoLostWakeup, Asleep
    <3> QED
      BY <2>1, <3>2, SameStays, PlacedQuiet DEF Made, threadVars, storeVars, callVars
  <2>2. CASE Admissible # {} /\ Admits /\ pc' = "settle"
    <3>1. /\ Placed'
          /\ (\A i, j \in Admissible : InstOf[admissions[i]] = InstOf[admissions[j]])
               => (driving' = Nobody => Startable' = {})
      BY <2>0, <2>2, ServiceAdmits
    <3>2. ~requested => \A i, j \in Admissible : InstOf[admissions[i]] = InstOf[admissions[j]]
      BY <2>0 DEF Wakes, Passed
    <3> QED
      BY <2>0, <2>2, <3>1, <3>2 DEF Wakes, Passed, NoLostWakeup, Asleep
  <2>3. CASE /\ syncParks = <<>> /\ Admissible = {} /\ pc' = IF Exhausted THEN "handoff" ELSE AfterStep
             /\ UNCHANGED <<threadVars, storeVars, hostFailure, callVars>>
    <3>1. pc' \in {"handoff", "micro", "work"}
      BY <2>3 DEF AfterStep
    <3>2. UNCHANGED <<place, settled, syncParks, call, admissions>>
      BY <2>3 DEF threadVars, storeVars, callVars
    <3>3. Admissible' = Admissible
      BY <3>2 DEF Admissible, HopsOf, Hops
    <3>4. Wakes'
      BY <2>3, <3>1, <3>2, <3>3 DEF Wakes, Passed, NoLostWakeup, Asleep
    <3> QED
      BY <3>2, <3>4, SameStays, PlacedQuiet DEF Made
  <2> QED
    BY <1>7, <2>1, <2>2, <2>3 DEF StepDone
<1>8. CASE Settle
  <2>1. /\ UNCHANGED <<ready, outstanding, pendingResumptions, settled, syncParks, heard, hostFailure,
                       admissions, driving, yielding>>
        /\ pc = "settle" /\ driving = Nobody
        /\ IF HasRunnable THEN AgainAtTop ELSE Returns(requested)
    BY <1>8 DEF Settle, At, quantum
  <2>2. /\ \A u \in Threads : place'[u] = place[u] \/ (place[u] = "gate" /\ place'[u] = "over")
        /\ CallMoves /\ poisoned \subseteq poisoned'
    <3>1. CASE Verdicts(Dead)
      BY <1>w, <2>1, <3>1, VerdictsTell DEF CallMoves
    <3>2. CASE UNCHANGED <<place, poisoned, call>>
      BY <3>2 DEF CallMoves
    <3> QED
      BY <1>8, <3>1, <3>2 DEF Settle
  <2>3. Stays /\ HopsLast /\ Made
    BY <2>2, AbandonedStays, MovesMade
  <2>4. Placed'
    BY <2>1, <2>3, PlacedQuiet
  <2>5. Startable' \subseteq Startable
    BY <2>1, <2>2, <2>3, AdmissibleShrinks
  <2>6. Candidates' \subseteq Candidates
    BY <2>1, <2>2 DEF Candidates, InWaiting
  <2>7. UnsettledHops \subseteq UnsettledHops'
    BY <2>2 DEF UnsettledHops, Hops, InAwaiting
  <2>8. HasRunnable' => HasRunnable
    BY <2>1, <2>6, <2>7 DEF HasRunnable, OrdinaryAllowed
  <2>9. CASE ~HasRunnable
    <3>1. Serviceable' => requested \/ yielding
      BY <2>1, <2>5, <2>8, <2>9 DEF Wakes, Passed, Serviceable
    <3> QED
      BY <2>1, <2>4, <2>9, <3>1, ReturnWakes DEF TypeOK
  <2> QED
    BY <2>1, <2>4, <2>9, TopWakes DEF AgainAtTop
<1> QED
  BY <1>1, <1>2, <1>3, <1>4, <1>5, <1>6, <1>7, <1>8 DEF BodyStep

LEMMA ServiceStep ==
  ASSUME TypeOK, TypeOK', CallsAssumption, PlainAlone, Book, Placed, Wakes, [Next]_vars
  PROVE  Placed' /\ Wakes'
<1>1. CASE DropFails
  <2>1. /\ UNCHANGED <<place, settled, syncParks, call, admissions, driving, poisoned, pc, scheduled,
                       requested, yielding>>
        /\ hostFailure' # Nobody
    BY <1>1, CallsAssumption DEF DropFails, threadVars, storeVars, callVars, quantum
  <2>2. Admissible' = Admissible /\ Startable' = Startable
    BY <2>1 DEF Admissible, HopsOf, Hops, Startable
  <2>3. Wakes'
    BY <2>1, <2>2 DEF Wakes, Passed, NoLostWakeup, Asleep, Serviceable
  <2> QED
    BY <2>1, <2>3, SameStays, PlacedQuiet DEF Made
<1>2. CASE DrainStarts
  <2>1. /\ UNCHANGED <<place, settled, syncParks, call, admissions, driving, poisoned, yielding>>
        /\ pc' = (IF yielding THEN pc ELSE "top") /\ requested' = (yielding /\ requested)
    BY <1>2 DEF DrainStarts, threadVars, storeVars, callVars, quantum
  <2>2. Admissible' = Admissible /\ Startable' = Startable
    BY <2>1 DEF Admissible, HopsOf, Hops, Startable
  <2>3. CASE yielding
    BY <2>1, <2>2, <2>3, SameStays, PlacedQuiet DEF Wakes, Passed, NoLostWakeup, Made, TypeOK
  <2>4. CASE ~yielding
    BY <2>1, <2>4, TopWakes, SameStays, PlacedQuiet DEF Made
  <2> QED
    BY <2>3, <2>4
<1>3. CASE DrainContinues
  <2>1. /\ UNCHANGED <<place, settled, syncParks, call, admissions, requested>>
        /\ pc = "micro" /\ pc' = "work"
    BY <1>3 DEF DrainContinues, threadVars, storeVars, callVars
  <2>2. Admissible' = Admissible
    BY <2>1 DEF Admissible, HopsOf, Hops
  <2>3. Wakes'
    BY <2>1, <2>2 DEF Wakes, Passed, NoLostWakeup, Asleep
  <2> QED
    BY <2>1, <2>3, SameStays, PlacedQuiet DEF Made
<1>4. CASE UNCHANGED vars
  <2>1. UNCHANGED <<place, ready, pendingResumptions, settled, syncParks, call, admissions, driving,
                    poisoned, pc, scheduled, requested, yielding, hostFailure>>
    BY <1>4 DEF vars, threadVars, storeVars, callVars, quantum
  <2>2. Admissible' = Admissible /\ Startable' = Startable /\ (HasRunnable' <=> HasRunnable)
    BY <2>1, RunnableSame DEF Admissible, HopsOf, Hops, Startable
  <2>3. Wakes'
    BY <2>1, <2>2 DEF Wakes, Passed, NoLostWakeup, Asleep, Serviceable
  <2> QED
    BY <2>1, <2>3, SameStays, PlacedQuiet DEF Made
<1> QED
  BY <1>1, <1>2, <1>3, <1>4, NextGroups, ServiceHead, ServiceBody, ServiceTimers, ServiceDrives,
     ServicePromises, ServiceCalls

\* No wakeup is lost, in a store whose plain calls enter its only instance.
THEOREM NoWakeupIsLost ==
  ASSUME PlainAlone
  PROVE  Spec => []NoLostWakeup
<1>1. Init => Placed /\ Wakes
  BY DEF Init, Placed, Wakes, Passed, NoLostWakeup, Asleep, Serviceable, Startable, Admissible,
         HasRunnable, Candidates, InWaiting
<1>2. TypeOK /\ TypeOK' /\ Book /\ Placed /\ Wakes /\ [Next]_vars => Placed' /\ Wakes'
  BY ServiceStep, CallsAssumption, PlainAlone
<1>3. Init => Book
  BY Disjoint, CallsAssumption DEF Init, Book, Queued, DriverSound
<1>4. TypeOK /\ Book /\ [Next]_vars => Book'
  BY BookStep, CallsAssumption
<1>5. Wakes => NoLostWakeup
  BY DEF Wakes
<1> QED
  BY <1>1, <1>2, <1>3, <1>4, <1>5, StoreTypes, PTL DEF Spec

(* -- probes and verdicts ---------------------------------------------------- *)

\* A call that has not started has no thread.
Unstarted == \A u \in Threads : call[u] \in {"none", "deferred"} => place[u] = "out"

\* Every settlement that is queued is of a thread at its tail, once.
Tailed == /\ \A i \in DOMAIN settled : place[settled[i]] = "tail"
          /\ \A i, j \in DOMAIN settled : settled[i] = settled[j] => i = j
          /\ \A u \in Threads : place[u] = "tail" => \E i \in DOMAIN settled : settled[i] = u

\* The callees that block are suspended, each once in the queue.
Blocked == /\ \A i \in DOMAIN syncParks : place[syncParks[i]] = "suspended"
           /\ \A i, j \in DOMAIN syncParks : syncParks[i] = syncParks[j] => i = j
           /\ MayBlockSync = {} => syncParks = <<>>

\* What was resumed has not parked again.
Owed == \A u \in pendingResumptions : place[u] \in {"claimed", "hop", "stalled"}

\* A drain is queued only when none runs, and there is no probe past its top.
Clocked == /\ scheduled => pc = "off"
           /\ Drain \in handoffs => pc = "handoff"
           /\ pc \notin {"off", "top"} => hopProbe.hops = {} /\ syncHopProbe.hops = {}

\* The places in which a frame stays until the coordinator acts, or a promise
\* that the store does not know.
Still == {"suspended", "stalled", "tail"}

\* A hop that is probed is awaited as long as the probe lasts; and once the
\* platform has had its turn it is not on its way any more.
ProbeSound(p) == \A u \in p.hops : /\ place[u] \in InAwaiting
                                   /\ p.elapsed => place[u] \in Still
Probing == ProbeSound(syncHopProbe) /\ (MayBlockSync = {} => ProbeSound(hopProbe))

ProbeInv == Unstarted /\ Tailed /\ Blocked /\ Owed /\ Clocked /\ Probing

\* Steps that neither trap a blocked callee nor give a verdict.
Harmless == /\ doomed' = doomed
            /\ \A u \in Threads : call'[u] = "deadlock" => call[u] = "deadlock"

\* The awaited frames stay awaited, and those that are still stay so.
Lasts == \A u \in Threads : /\ place[u] \in InAwaiting => place'[u] \in InAwaiting
                            /\ place[u] \in Still => place'[u] \in Still
Lists == Tailed' /\ Blocked' /\ Owed'

\* A thread that is not awaited moves, but not to its tail; or none does.
LEMMA ListsRest ==
  ASSUME TypeOK, ProbeInv, NEW t, OnlyMoves(t),
         t \in Threads => \/ place'[t] = place[t]
                          \/ place[t] \notin InAwaiting /\ place'[t] # "tail",
         UNCHANGED <<settled, syncParks, pendingResumptions>>
  PROVE  Lists /\ Lasts
<1>0. /\ settled \in Seq(Threads) /\ syncParks \in Seq(Threads)
      /\ pendingResumptions \subseteq Threads
  BY DEF TypeOK
<1>1. \A u \in Threads : place[u] \in InAwaiting => place'[u] = place[u]
  BY DEF OnlyMoves, InAwaiting
<1>2. \A u \in Threads : place'[u] = "tail" => place[u] = "tail"
  BY DEF OnlyMoves
<1>3. Lasts
  BY <1>1 DEF Lasts, Still, InAwaiting
<1>4. Tailed'
  BY <1>0, <1>1, <1>2 DEF ProbeInv, Tailed, InAwaiting
<1>5. Blocked'
  BY <1>0, <1>1 DEF ProbeInv, Blocked, InAwaiting
<1>6. Owed'
  BY <1>0, <1>1 DEF ProbeInv, Owed, InAwaiting
<1> QED
  BY <1>3, <1>4, <1>5, <1>6 DEF Lists

\* The places of threads and the lists are left alone.
LEMMA ListsSame ==
  ASSUME TypeOK, ProbeInv, UNCHANGED <<place, settled, syncParks, pendingResumptions>>
  PROVE  Lists /\ Lasts
<1>1. OnlyMoves(Nobody)
  BY DEF OnlyMoves
<1> HIDE DEF ProbeInv
<1> QED
  BY <1>1, ListsRest

\* A call is not unmade and a thread does not go out again.
LEMMA UnstartedKept ==
  ASSUME ProbeInv, Made, Stays
  PROVE  Unstarted'
BY DEF ProbeInv, Unstarted, Made, Stays

\* A probe lasts, is renounced, or is not there.
LEMMA ProbesLast ==
  ASSUME TypeOK, ProbeInv, Lasts,
         hopProbe' = hopProbe \/ hopProbe'.hops = {},
         syncHopProbe' = syncHopProbe \/ syncHopProbe'.hops = {}
  PROVE  Probing'
<1>1. hopProbe.hops \subseteq Threads /\ syncHopProbe.hops \subseteq Threads
  BY DEF TypeOK, Probes
<1>2. ProbeSound(syncHopProbe)'
  <2>1. CASE syncHopProbe' = syncHopProbe
    BY <1>1, <2>1 DEF ProbeInv, Probing, ProbeSound, Lasts
  <2>2. CASE syncHopProbe'.hops = {}
    BY <2>2 DEF ProbeSound
  <2> QED
    BY <2>1, <2>2
<1>3. MayBlockSync = {} => ProbeSound(hopProbe)'
  <2>1. CASE hopProbe' = hopProbe
    BY <1>1, <2>1 DEF ProbeInv, Probing, ProbeSound, Lasts
  <2>2. CASE hopProbe'.hops = {}
    BY <2>2 DEF ProbeSound
  <2> QED
    BY <2>1, <2>2
<1> QED
  BY <1>2, <1>3 DEF Probing

\* The clock where the coordinator stands still.
LEMMA ClockLasts ==
  ASSUME ProbeInv, UNCHANGED <<pc, hopProbe, syncHopProbe>>, handoffs' \subseteq handoffs \cup Threads,
         Drain \notin Threads, Request \/ UNCHANGED scheduled
  PROVE  Clocked'
<1>0. Clocked
  BY DEF ProbeInv
<1>1. scheduled' => pc' = "off"
  BY <1>0 DEF Clocked, Request
<1>2. Drain \in handoffs' => pc' = "handoff"
  BY <1>0 DEF Clocked
<1> QED
  BY <1>0, <1>1, <1>2 DEF Clocked

\* The clock where the coordinator is at work, or returns.
LEMMA ClockMoves ==
  ASSUME ProbeInv, pc \notin {"off", "handoff"}, scheduled' => scheduled \/ pc' = "off",
         Drain \in handoffs' => Drain \in handoffs \/ pc' = "handoff",
         \/ pc' \in {"off", "top"}
         \/ hopProbe'.hops = {} /\ syncHopProbe'.hops = {}
         \/ pc \notin {"off", "top"} /\ UNCHANGED <<hopProbe, syncHopProbe>>
  PROVE  Clocked'
<1>0. Clocked
  BY DEF ProbeInv
<1>1. scheduled' => pc' = "off"
  BY <1>0 DEF Clocked
<1>2. Drain \in handoffs' => pc' = "handoff"
  BY <1>0 DEF Clocked
<1>3. pc' \notin {"off", "top"} => hopProbe'.hops = {} /\ syncHopProbe'.hops = {}
  BY <1>0 DEF Clocked
<1> QED
  BY <1>1, <1>2, <1>3 DEF Clocked

\* The invariant from its parts.
LEMMA ProbeParts ==
  ASSUME Unstarted', Lists, Clocked', Probing'
  PROVE  ProbeInv'
BY DEF ProbeInv, Lists

\* A thread is resumed: it enters its core function, or is claimed.
LEMMA ResumeLists ==
  ASSUME TypeOK, CallsAssumption, ProbeInv, NEW t \in Candidates, NEW d \in [Threads -> Calls],
         Resume(t, d), UNCHANGED settled
  PROVE  /\ Lists
         /\ place[t] \notin InAwaiting => Lasts
<1>0. /\ t \in Threads /\ place[t] \in InWaiting /\ OnlyMoves(t)
      /\ place \in [Threads -> Places] /\ syncParks \in Seq(Threads) /\ settled \in Seq(Threads)
      /\ pendingResumptions \subseteq Threads
  BY Resumes DEF TypeOK
<1>1. CASE /\ place[t] \in {"gate", "parked"}
           /\ RunsGuest(t) \/ RunsPlain(t, call, d)
           /\ UNCHANGED <<pendingResumptions, syncParks>>
  <2>1. place'[t] # "tail" /\ place[t] \notin InAwaiting
    BY <1>0, <1>1, GuestRuns, PlainRuns DEF TypeOK, InAwaiting
  <2> HIDE DEF ProbeInv
  <2> QED
    BY <1>0, <1>1, <2>1, ListsRest
<1>2. CASE /\ place[t] \in {"minted", "suspended"}
           /\ place' = [place EXCEPT ![t] = "claimed"]
           /\ pendingResumptions' = pendingResumptions \cup {t}
           /\ syncParks' = RemoveFirst(syncParks, t)
  <2>1. place[t] \in InAwaiting
    BY <1>2 DEF InAwaiting
  <2>2. /\ place'[t] = "claimed" /\ \A u \in Threads \ {t} : place'[u] = place[u]
    BY <1>0, <1>2
  <2>3. Tailed'
    BY <1>0, <1>2, <2>2 DEF ProbeInv, Tailed
  <2>4. Owed'
    BY <1>0, <1>2, <2>2 DEF ProbeInv, Owed
  <2>5. /\ \A i, j \in DOMAIN syncParks : syncParks[i] = syncParks[j] => i = j
        /\ \A i \in DOMAIN syncParks : place[syncParks[i]] = "suspended" /\ syncParks[i] \in Threads
        /\ MayBlockSync = {} => syncParks = <<>>
    BY <1>0 DEF ProbeInv, Blocked
  <2>6. /\ syncParks' \in Seq(Threads) /\ (syncParks = <<>> => syncParks' = <<>>)
        /\ \A k \in DOMAIN syncParks' : /\ syncParks'[k] # t
                                        /\ \E j \in DOMAIN syncParks : syncParks'[k] = syncParks[j]
        /\ \A i, j \in DOMAIN syncParks' : syncParks'[i] = syncParks'[j] => i = j
    BY <1>0, <1>2, <2>5, FirstRemoved, FirstOfDistinct
  <2>7. Blocked'
    BY <2>2, <2>5, <2>6 DEF Blocked
  <2> QED
    BY <2>1, <2>3, <2>4, <2>7 DEF Lists
<1> QED
  BY <1>1, <1>2 DEF Resume

\* The threads that are queued or block have started.
LEMMA ProbePlaced ==
  ASSUME TypeOK, ProbeInv
  PROVE  Placed
BY DEF ProbeInv, Unstarted, Tailed, Blocked, Placed, TypeOK

\* No new verdict is among the calls that steps of threads leave.
Unverdicted == \A u \in Threads : call'[u] = "deadlock" => call[u] = "deadlock"
\* Steps of threads give no verdict.
LEMMA NoVerdicts ==
  ASSUME TypeOK, NEW t \in Threads, NEW d,
         \A u \in Threads : d[u] = call[u] \/ d[u] = "lost",
         CallsUntouched \/ Published(t, call) \/ Trapped(t, d)
  PROVE  Unverdicted
<1>1. CASE CallsUntouched
  BY <1>1 DEF CallsUntouched, Unverdicted
<1>2. CASE Published(t, call)
  BY <1>2 DEF Published, Unverdicted
<1>3. CASE Trapped(t, d)
  BY <1>3 DEF Trapped, Unverdicted
<1> QED
  BY <1>1, <1>2, <1>3

\* A settlement that is dispatched is no longer queued, and its thread has left its tail.
LEMMA DispatchLists ==
  ASSUME TypeOK, CallsAssumption, ProbeInv, NEW i \in DOMAIN settled, Dispatch(i),
         UNCHANGED <<syncParks, pendingResumptions>>
  PROVE  Lists
<1> DEFINE t == settled[i]
<1>1. /\ t \in Threads /\ settled' = RemoveAt(settled, i) /\ OnlyMoves(t)
      /\ place'[t] \in {"minted", "hop", "stalled", "parked", "over"}
  BY Dispatches
<1>2. /\ place[t] = "tail" /\ settled \in Seq(Threads) /\ syncParks \in Seq(Threads)
      /\ pendingResumptions \subseteq Threads
      /\ \A j \in DOMAIN settled : place[settled[j]] = "tail" /\ settled[j] \in Threads
      /\ \A j, k \in DOMAIN settled : settled[j] = settled[k] => j = k
      /\ \A u \in Threads : place[u] = "tail" => \E j \in DOMAIN settled : settled[j] = u
  BY DEF ProbeInv, Tailed, TypeOK
<1> HIDE DEF t
<1>3. \A u \in Threads \ {t} : place[u] \in InAwaiting => place'[u] = place[u]
  BY <1>1 DEF OnlyMoves, InAwaiting
<1>4. /\ \A k \in DOMAIN settled' : settled'[k] # t /\ \E j \in DOMAIN settled : settled'[k] = settled[j]
      /\ \A j, k \in DOMAIN settled' : settled'[j] = settled'[k] => j = k
  BY <1>1, <1>2, RemovedElements DEF t
<1>5. Tailed'
  <2>1. \A k \in DOMAIN settled' : place'[settled'[k]] = "tail"
    BY <1>2, <1>3, <1>4 DEF InAwaiting
  <2>2. ASSUME NEW u \in Threads, place'[u] = "tail"
        PROVE  \E k \in DOMAIN settled' : settled'[k] = u
    <3>1. u # t
      BY <1>1, <2>2
    <3>2. place[u] = "tail"
      BY <1>1, <2>2, <3>1 DEF OnlyMoves
    <3>3. PICK j \in DOMAIN settled : settled[j] = u
      BY <1>2, <3>2
    <3>4. j # i
      BY <3>1, <3>3 DEF t
    <3> QED
      BY <1>1, <1>2, <3>3, <3>4, RemovedRest
  <2> QED
    BY <1>4, <2>1, <2>2 DEF Tailed
<1>6. Blocked'
  <2>1. \A k \in DOMAIN syncParks : syncParks[k] \in Threads /\ place[syncParks[k]] = "suspended"
    BY <1>2 DEF ProbeInv, Blocked
  <2>2. \A k \in DOMAIN syncParks : place'[syncParks[k]] = "suspended"
    BY <1>2, <1>3, <2>1 DEF InAwaiting
  <2> QED
    BY <2>2 DEF ProbeInv, Blocked
<1>7. Owed'
  <2>1. \A u \in pendingResumptions : u # t
    BY <1>2 DEF ProbeInv, Owed
  <2> QED
    BY <1>2, <1>3, <2>1 DEF ProbeInv, Owed, InAwaiting
<1> QED
  BY <1>5, <1>6, <1>7 DEF Lists

\* The groups of actions; a synchronous prefix runs nothing while a frame is awaited.
LEMMA DriveProbes ==
  ASSUME TypeOK, CallsAssumption, ProbeInv, NEW t \in Threads, DriveStep(t)
  PROVE  ProbeInv' /\ Harmless
<1>0. /\ call \in [Threads -> Calls] /\ Nobody \notin Threads /\ Drain \notin Threads
      /\ UNCHANGED <<doomed, pc, hopProbe, syncHopProbe>>
      /\ handoffs' \subseteq handoffs \cup Threads /\ (Request \/ UNCHANGED scheduled)
  BY DEF TypeOK, CallsAssumption, DriveStep, DriveDone, DriveFails, DriveSteps, DriveWaits,
         Driven, Charge, threadVars, quantum, probes
<1>1. Clocked'
  BY <1>0, ClockLasts
<1>2. Lasts => Probing'
  BY <1>0, ProbesLast
<1>3. SUFFICES Unstarted' /\ Lists /\ Lasts /\ Unverdicted
  BY <1>0, <1>1, <1>2, ProbeParts DEF Harmless, Unverdicted
<1>4. CASE DriveDone(t)
  <2>1. UNCHANGED <<place, settled, syncParks, pendingResumptions, call>>
    BY <1>4 DEF DriveDone, threadVars, storeVars
  <2> QED
    BY <2>1, ListsSame, UnstartedKept, SameStays DEF Made, Unverdicted
<1>5. CASE DriveFails(t)
  <2>1. /\ UNCHANGED <<settled, syncParks, pendingResumptions>>
        /\ call' = [call EXCEPT ![t] = "failed"] /\ place' = Abandoned({t})
    BY <1>5 DEF DriveFails, FailsWithIt, storeVars
  <2>2. \A u \in Threads : place'[u] = place[u] \/ (place[u] = "gate" /\ place'[u] = "over")
    BY <2>1, AbandonedTyped
  <2>3. OnlyMoves(Nobody) /\ Stays
    BY <2>2, AbandonedStays DEF OnlyMoves
  <2>4. Made /\ Unverdicted
    BY <1>0, <2>1 DEF Made, Unverdicted
  <2> QED
    BY <1>0, <2>1, <2>3, <2>4, ListsRest, UnstartedKept
<1>6. CASE DriveWaits(t)
  <2>1. /\ UNCHANGED <<place, settled, syncParks, pendingResumptions>>
        /\ call' = [call EXCEPT ![t] = "open"]
    BY <1>6 DEF DriveWaits, threadVars, storeVars
  <2>2. Made /\ Unverdicted
    BY <1>0, <2>1 DEF Made, Unverdicted
  <2> QED
    BY <2>1, <2>2, ListsSame, UnstartedKept, SameStays
<1>7. CASE DriveSteps(t)
  <2> DEFINE after == IF call[t] = "away" THEN [call EXCEPT ![t] = "lost"] ELSE call
  <2>1. PICK u \in Candidates : Resume(u, after)
    BY <1>7 DEF DriveSteps
  <2>2. /\ after \in [Threads -> Calls]
        /\ \A v \in Threads : after[v] = call[v] \/ after[v] = "lost"
    BY <1>0 DEF Calls, Unanswered
  <2> HIDE DEF after
  <2>3. u \in Threads /\ (CallsUntouched \/ Published(u, call) \/ Trapped(u, after))
    BY <2>1, <2>2, Resumes
  <2>4. place[u] \notin InAwaiting /\ UNCHANGED settled
    BY <1>7, <2>3 DEF DriveSteps, MayDriveStep
  <2>5. Lists /\ Lasts
    BY <2>1, <2>2, <2>4, ResumeLists
  <2>6. Stays
    BY <2>1, <2>2, ResumeStays
  <2>7. Made
    BY <2>2, <2>3 DEF Made, CallsUntouched, Published, Trapped
  <2>8. Unverdicted
    BY <2>2, <2>3, NoVerdicts
  <2> QED
    BY <2>5, <2>6, <2>7, <2>8, UnstartedKept
<1> QED
  BY <1>4, <1>5, <1>6, <1>7 DEF DriveStep

LEMMA PromiseProbes ==
  ASSUME TypeOK, CallsAssumption, ProbeInv, NEW t \in Threads, Promises(t)
  PROVE  ProbeInv' /\ Harmless
<1>0. /\ place \in [Threads -> Places] /\ call \in [Threads -> Calls] /\ Drain \notin Threads
      /\ UNCHANGED <<doomed, pc, hopProbe, syncHopProbe, handoffs>> /\ (Request \/ UNCHANGED scheduled)
  BY DEF TypeOK, CallsAssumption, Promises, EngineRuns, Settles, RecordsAgain, BoundaryReturned,
         HostSettles, threadVars, quantum, probes
<1>i. /\ settled \in Seq(Threads) /\ syncParks \in Seq(Threads) /\ pendingResumptions \subseteq Threads
      /\ Tailed /\ Blocked /\ Owed
  BY DEF TypeOK, ProbeInv
<1>1. Clocked'
  BY <1>0, ClockLasts
<1>2. Lasts => Probing'
  BY <1>0, ProbesLast
<1>3. SUFFICES Unstarted' /\ Lists /\ Lasts /\ Unverdicted
  BY <1>0, <1>1, <1>2, ProbeParts DEF Harmless, Unverdicted
<1>4. CASE EngineRuns(t)
  <2>1. /\ UNCHANGED <<settled, syncParks, call>> /\ place[t] = "claimed" /\ RunsGuest(t)
        /\ pendingResumptions' = IF place'[t] = "minted" THEN pendingResumptions \ {t}
                                 ELSE pendingResumptions
    BY <1>4 DEF EngineRuns, callVars
  <2>2. OnlyMoves(t) /\ place'[t] \in {"minted", "hop", "stalled"}
    BY <2>1, GuestRuns
  <2>3. \A u \in Threads \ {t} : \/ place'[u] = place[u]
                                 \/ place[u] = "gate" /\ place'[u] = "over"
    BY <2>2 DEF OnlyMoves
  <2>4. Lasts /\ Stays
    BY <2>1, <2>2, <2>3 DEF Lasts, Stays, Still, InAwaiting
  <2>5. Tailed'
    BY <1>i, <2>1, <2>2, <2>3 DEF Tailed
  <2>6. Blocked'
    BY <1>i, <2>1, <2>2, <2>3 DEF Blocked
  <2>7. Owed'
    BY <1>i, <2>1, <2>2, <2>3 DEF Owed
  <2> QED
    BY <2>1, <2>4, <2>5, <2>6, <2>7, UnstartedKept DEF Made, Unverdicted, Lists
<1>5. CASE Settles(t)
  <2>1. /\ UNCHANGED <<syncParks, call>> /\ place[t] \in {"hop", "stalled"}
        /\ place' = [place EXCEPT ![t] = "tail"] /\ settled' = Append(settled, t)
        /\ pendingResumptions' = pendingResumptions \ {t}
    BY <1>5 DEF Settles, callVars
  <2>2. place'[t] = "tail" /\ \A u \in Threads \ {t} : place'[u] = place[u]
    BY <1>0, <2>1
  <2>3. Lasts /\ Stays
    BY <2>1, <2>2 DEF Lasts, Stays, Still, InAwaiting
  <2>4. Tailed'
    <3>1. /\ DOMAIN settled' = 1..(Len(settled) + 1) /\ Len(settled) \in Nat
          /\ settled'[Len(settled) + 1] = t /\ DOMAIN settled = 1..Len(settled)
          /\ \A i \in DOMAIN settled : settled'[i] = settled[i] /\ settled[i] \in Threads
      BY <1>i, <2>1
    <3>2. \A i \in DOMAIN settled : settled[i] # t
      BY <1>i, <2>1 DEF Tailed
    <3>3. \A i \in DOMAIN settled' : (i \in DOMAIN settled) \/ i = Len(settled) + 1
      BY <3>1
    <3>4. \A i \in DOMAIN settled' : place'[settled'[i]] = "tail"
      BY <1>i, <2>2, <3>1, <3>2, <3>3 DEF Tailed
    <3>5. \A i, j \in DOMAIN settled' : settled'[i] = settled'[j] => i = j
      BY <1>i, <3>1, <3>2, <3>3 DEF Tailed
    <3>6. \A u \in Threads : place'[u] = "tail" => \E i \in DOMAIN settled' : settled'[i] = u
      <4>1. Len(settled) + 1 \in DOMAIN settled' /\ \A i \in DOMAIN settled : i \in DOMAIN settled'
        BY <3>1
      <4> QED
        BY <1>i, <2>2, <3>1, <4>1 DEF Tailed
    <3> QED
      BY <3>4, <3>5, <3>6 DEF Tailed
  <2>5. Blocked'
    BY <1>i, <2>1, <2>2 DEF Blocked
  <2>6. Owed'
    BY <1>i, <2>1, <2>2 DEF Owed
  <2> QED
    BY <2>1, <2>3, <2>4, <2>5, <2>6, UnstartedKept DEF Made, Unverdicted, Lists
<1>6. CASE RecordsAgain(t) \/ \E failed \in BOOLEAN : HostSettles(t, failed)
  <2>1. UNCHANGED <<place, settled, syncParks, pendingResumptions, call>>
    BY <1>6 DEF RecordsAgain, HostSettles, threadVars, storeVars, callVars
  <2> QED
    BY <2>1, ListsSame, UnstartedKept, SameStays DEF Made, Unverdicted
<1>7. CASE \E sync \in BOOLEAN : BoundaryReturned(t, sync)
  <2>1. PICK sync \in BOOLEAN : BoundaryReturned(t, sync)
    BY <1>7
  <2>2. /\ UNCHANGED <<settled, pendingResumptions, poisoned>>
        /\ place[t] = "minted" /\ place' = [place EXCEPT ![t] = "suspended"]
        /\ syncParks' = syncParks \/ (t \in MayBlockSync /\ syncParks' = Append(syncParks, t))
        /\ Publish(t, call) \/ UNCHANGED <<call, heard, hostFailure>>
    BY <2>1 DEF BoundaryReturned
  <2>3. place'[t] = "suspended" /\ \A u \in Threads \ {t} : place'[u] = place[u]
    BY <1>0, <2>2
  <2>4. Lasts /\ Stays
    BY <2>2, <2>3 DEF Lasts, Stays, Still, InAwaiting
  <2>5. CallsUntouched \/ Published(t, call)
    BY <1>0, <2>2, PublishTells DEF CallsUntouched, TypeOK
  <2>6. Made /\ Unverdicted
    BY <2>5 DEF Made, Published, CallsUntouched, Unverdicted
  <2>7. Tailed'
    BY <1>i, <2>2, <2>3 DEF Tailed
  <2>8. Blocked'
    <3>1. CASE syncParks' = syncParks
      BY <1>i, <2>2, <2>3, <3>1 DEF Blocked
    <3>2. CASE t \in MayBlockSync /\ syncParks' = Append(syncParks, t)
      <4>1. /\ DOMAIN syncParks' = 1..(Len(syncParks) + 1) /\ Len(syncParks) \in Nat
            /\ syncParks'[Len(syncParks) + 1] = t /\ DOMAIN syncParks = 1..Len(syncParks)
            /\ \A i \in DOMAIN syncParks : syncParks'[i] = syncParks[i] /\ syncParks[i] \in Threads
        BY <1>i, <3>2
      <4>2. \A i \in DOMAIN syncParks : syncParks[i] # t
        BY <1>i, <2>2 DEF Blocked
      <4>3. \A i \in DOMAIN syncParks' : (i \in DOMAIN syncParks) \/ i = Len(syncParks) + 1
        BY <4>1
      <4>4. \A i \in DOMAIN syncParks' : place'[syncParks'[i]] = "suspended"
        BY <1>i, <2>3, <4>1, <4>2, <4>3 DEF Blocked
      <4>5. \A i, j \in DOMAIN syncParks' : syncParks'[i] = syncParks'[j] => i = j
        BY <1>i, <4>1, <4>2, <4>3 DEF Blocked
      <4> QED
        BY <3>2, <4>4, <4>5 DEF Blocked
    <3> QED
      BY <2>2, <3>1, <3>2
  <2>9. Owed'
    BY <1>i, <2>2, <2>3 DEF Owed
  <2> QED
    BY <2>4, <2>6, <2>7, <2>8, <2>9, UnstartedKept DEF Lists
<1> QED
  BY <1>4, <1>5, <1>6, <1>7 DEF Promises

\* A call that is invoked starts its thread, and nothing else is on its way to its tail.
LEMMA InvokeProbes ==
  ASSUME TypeOK, CallsAssumption, ProbeInv, NEW t \in Threads, Invokes(t),
         call[t] \in {"none", "deferred"}, UNCHANGED <<settled, syncParks, pendingResumptions>>
  PROVE  Unstarted' /\ Lists /\ Lasts /\ Unverdicted
<1>0. place[t] = "out" /\ Placed
  BY ProbePlaced DEF Placed
<1>1. /\ OnlyMoves(t)
      /\ RefusedNow(t) \/ Entered(t) \/ Crashed(t)
  BY Invoked
<1>2. place'[t] # "tail"
  <2> DEFINE calls == [call EXCEPT ![t] = "driving"]
  <2>0. place \in [Threads -> Places] /\ calls \in [Threads -> Calls]
    BY DEF TypeOK, Calls, Unanswered
  <2> HIDE DEF calls
  <2>1. CASE Refused(t)
    BY <1>0, <2>1 DEF Refused
  <2>2. CASE place' = [place EXCEPT ![t] = "gate"]
    BY <2>0, <2>2
  <2>3. CASE RunsGuest(t)
    BY <2>3, GuestRuns
  <2>4. CASE RunsPlain(t, calls, calls)
    BY <2>0, <2>4, PlainRuns
  <2> QED
    BY <2>1, <2>2, <2>3, <2>4 DEF Invokes, Enters, calls
<1>3. Lists /\ Lasts
  BY <1>0, <1>1, <1>2, ListsRest DEF InAwaiting
<1>4. Unstarted'
  BY <1>0, InvokeStays DEF Unstarted
<1>5. Unverdicted
  BY <1>1 DEF RefusedNow, Entered, Crashed, Unverdicted
<1> QED
  BY <1>3, <1>4, <1>5

LEMMA CallProbes ==
  ASSUME TypeOK, CallsAssumption, ProbeInv, NEW t \in Threads, HostCalls(t)
  PROVE  ProbeInv' /\ Harmless
<1>0. /\ call[t] = "none" /\ call \in [Threads -> Calls] /\ Drain \notin Threads
      /\ UNCHANGED <<doomed, pendingResumptions, settled, syncParks, pc, hopProbe, syncHopProbe, handoffs>>
      /\ (Request \/ UNCHANGED scheduled)
  BY DEF TypeOK, CallsAssumption, HostCalls, quantum, probes
<1>1. Clocked'
  BY <1>0, ClockLasts
<1>2. Lasts => Probing'
  BY <1>0, ProbesLast
<1>3. SUFFICES Unstarted' /\ Lists /\ Lasts /\ Unverdicted
  BY <1>0, <1>1, <1>2, ProbeParts DEF Harmless, Unverdicted
<1>4. CASE call' = [call EXCEPT ![t] = "deferred"] /\ UNCHANGED place
  <2>1. Made /\ Unverdicted
    BY <1>0, <1>4 DEF Made, Unverdicted
  <2> QED
    BY <1>0, <1>4, <2>1, ListsSame, UnstartedKept, SameStays
<1>5. CASE Invokes(t)
  BY <1>0, <1>5, InvokeProbes
<1> QED
  BY <1>4, <1>5 DEF HostCalls

LEMMA TimerProbes ==
  ASSUME TypeOK, CallsAssumption, ProbeInv, TimerFires
  PROVE  ProbeInv' /\ Harmless
<1>0. /\ UNCHANGED <<place, settled, syncParks, pendingResumptions, doomed>> /\ Drain \notin Threads
      /\ hopProbe \in Probes /\ syncHopProbe \in Probes /\ call \in [Threads -> Calls]
      /\ place \in [Threads -> Places] /\ Quiet
  BY DEF TypeOK, CallsAssumption, TimerFires, HopProbeFires, SyncHopProbeFires, HandoffFires,
         IdleTimerFires, threadVars, storeVars
<1>1. Lists /\ Lasts
  BY <1>0, ListsSame
<1>2. Made => Unstarted'
  BY <1>0, UnstartedKept, SameStays
<1>3. \A u \in Threads : place[u] \in InAwaiting => place[u] \in Still
  BY <1>0 DEF Quiet, Microtasks, InAwaiting, Still
<1>4. ASSUME NEW p \in Probes, ProbeSound(p) PROVE ProbeSound([p EXCEPT !.elapsed = TRUE])
  <2>1. p.hops \subseteq Threads /\ [p EXCEPT !.elapsed = TRUE].hops = p.hops
    BY <1>4 DEF Probes
  <2> QED
    BY <1>3, <1>4, <2>1 DEF ProbeSound
<1>5. ASSUME UNCHANGED <<call, pc, handoffs>>, Request,
             hopProbe' \in {hopProbe, [hopProbe EXCEPT !.elapsed = TRUE]},
             syncHopProbe' \in {syncHopProbe, [syncHopProbe EXCEPT !.elapsed = TRUE]}
      PROVE  ProbeInv' /\ Harmless
  <2>1. hopProbe'.hops = hopProbe.hops /\ syncHopProbe'.hops = syncHopProbe.hops
    BY <1>0, <1>5 DEF Probes
  <2>2. Clocked'
    <3>1. Clocked
      BY DEF ProbeInv
    <3>2. scheduled' => pc = "off"
      BY <1>5, <3>1 DEF Request, Clocked
    <3> QED
      BY <1>5, <2>1, <3>1, <3>2 DEF Clocked
  <2>3. /\ ProbeSound(syncHopProbe) => ProbeSound(syncHopProbe')
        /\ ProbeSound(hopProbe) => ProbeSound(hopProbe')
    BY <1>0, <1>4, <1>5
  <2>4. Probing'
    BY <1>0, <2>3 DEF ProbeInv, Probing, ProbeSound
  <2>5. Unstarted'
    BY <1>2, <1>5 DEF Made
  <2> QED
    BY <1>0, <1>1, <1>5, <2>2, <2>4, <2>5, ProbeParts DEF Harmless
<1>6. CASE HopProbeFires \/ SyncHopProbeFires \/ \E t \in Threads : IdleTimerFires(t)
  <2>1. /\ UNCHANGED <<call, pc, handoffs>> /\ Request
        /\ hopProbe' \in {hopProbe, [hopProbe EXCEPT !.elapsed = TRUE]}
        /\ syncHopProbe' \in {syncHopProbe, [syncHopProbe EXCEPT !.elapsed = TRUE]}
    BY <1>6 DEF HopProbeFires, SyncHopProbeFires, IdleTimerFires, callVars, quantum
  <2> QED
    BY <1>5, <2>1
<1>7. CASE \E x \in Threads \cup {Drain} : HandoffFires(x)
  <2>1. PICK x \in Threads \cup {Drain} : HandoffFires(x)
    BY <1>7
  <2>2. /\ x \in handoffs /\ handoffs' = handoffs \ {x} /\ scheduled' = (pc = "off")
        /\ IF x = Drain THEN pc' = AfterStep ELSE pc' = pc
        /\ call' = call \/ call' = [call EXCEPT ![x] = "away"]
        /\ UNCHANGED <<hopProbe, syncHopProbe>>
    BY <2>1 DEF HandoffFires, probes
  <2>3. Made /\ Unverdicted
    BY <1>0, <2>2 DEF Made, Unverdicted
  <2>4. Clocked
    BY DEF ProbeInv
  <2>5. Clocked'
    <3>1. CASE x = Drain
      BY <2>2, <2>4, <3>1 DEF Clocked
    <3>2. CASE x # Drain
      BY <2>2, <2>4, <3>2 DEF Clocked
    <3> QED
      BY <3>1, <3>2
  <2>6. Probing'
    BY <1>1, <2>2, ProbesLast
  <2> QED
    BY <1>0, <1>1, <1>2, <2>3, <2>5, <2>6, ProbeParts DEF Harmless, Unverdicted
<1> QED
  BY <1>6, <1>7 DEF TimerFires

\* The head of the queue of parks leaves it.
LEMMA PointLeaves ==
  ASSUME TypeOK, ProbeInv, AtSyncPark
  PROVE  /\ Point \in Threads /\ place[Point] = "suspended" /\ MayBlockSync # {}
         /\ Tail(syncParks) \in Seq(Threads)
         /\ \A k \in DOMAIN Tail(syncParks) : /\ Tail(syncParks)[k] # Point
                                              /\ place[Tail(syncParks)[k]] = "suspended"
                                              /\ Tail(syncParks)[k] \in Threads
         /\ \A j, k \in DOMAIN Tail(syncParks) : Tail(syncParks)[j] = Tail(syncParks)[k] => j = k
<1>1. /\ syncParks \in Seq(Threads) /\ syncParks # <<>>
      /\ \A i \in DOMAIN syncParks : place[syncParks[i]] = "suspended"
      /\ \A i, j \in DOMAIN syncParks : syncParks[i] = syncParks[j] => i = j
      /\ MayBlockSync # {}
  BY DEF TypeOK, ProbeInv, Blocked, AtSyncPark
<1>2. /\ Point = syncParks[1] /\ 1 \in DOMAIN syncParks /\ Len(syncParks) \in Nat
      /\ Tail(syncParks) \in Seq(Threads) /\ DOMAIN syncParks = 1..Len(syncParks)
      /\ \A k \in DOMAIN Tail(syncParks) : /\ k \in Nat /\ k >= 1 /\ k + 1 \in DOMAIN syncParks
                                           /\ Tail(syncParks)[k] = syncParks[k + 1]
  BY <1>1 DEF Point
<1>3. ASSUME NEW k \in DOMAIN Tail(syncParks) PROVE Tail(syncParks)[k] # Point
  BY <1>1, <1>2
<1>4. ASSUME NEW j \in DOMAIN Tail(syncParks), NEW k \in DOMAIN Tail(syncParks),
             Tail(syncParks)[j] = Tail(syncParks)[k]
      PROVE  j = k
  <2>1. j + 1 = k + 1
    BY <1>1, <1>2, <1>4
  <2> QED
    BY <1>2, <2>1
<1> QED
  BY <1>1, <1>2, <1>3, <1>4

\* The steps at the top of the loop leave no probe of a blocked callee, or last.
LEMMA HeadParts ==
  ASSUME TypeOK, ProbeInv, pc = "top", UNCHANGED handoffs,
         AgainAtTop \/ Returns(FALSE), Unstarted', Lists, Probing'
  PROVE  ProbeInv'
<1>1. Clocked'
  BY ClockMoves DEF AgainAtTop, Returns
<1> QED
  BY <1>1, ProbeParts

LEMMA HeadProbes ==
  ASSUME TypeOK, CallsAssumption, Book, ProbeInv, HeadStep
  PROVE  /\ ProbeInv' /\ Unverdicted
         /\ doomed' = doomed \/ (SyncTraps /\ doomed' = doomed \cup {Point})
<1>0. /\ call \in [Threads -> Calls] /\ place \in [Threads -> Places] /\ Nobody \notin Threads
      /\ settled \in Seq(Threads) /\ pendingResumptions \subseteq Threads
  BY DEF TypeOK, CallsAssumption
<1>n. ProbeSound(NoProbe)'
  BY DEF ProbeSound, NoProbe
<1>b. ASSUME AtSyncPark, UNCHANGED hopProbe, syncHopProbe' = NoProbe PROVE Probing'
  BY <1>b, <1>n, PointLeaves DEF Probing, ProbeSound
<1>1. CASE TopFailure
  <2>1. /\ UNCHANGED <<settled, syncParks, pendingResumptions, doomed, handoffs, hopProbe, syncHopProbe>>
        /\ pc = "top"
    BY <1>1 DEF TopFailure, At, storeVars, quantum, probes
  <2>2. CASE Returns(FALSE) /\ UNCHANGED <<place, call>>
    <3>1. Lists /\ Lasts /\ Unstarted'
      BY <2>1, <2>2, ListsSame, UnstartedKept, SameStays DEF Made
    <3>2. Probing'
      BY <2>1, <3>1, ProbesLast
    <3> QED
      BY <2>1, <2>2, <3>1, <3>2, HeadParts DEF Unverdicted
  <2>3. CASE AgainAtTop /\ \E t \in Waiters : /\ call' = [call EXCEPT ![t] = "failed"]
                                              /\ place' = Abandoned({t})
    <3>1. PICK t \in Waiters : call' = [call EXCEPT ![t] = "failed"] /\ place' = Abandoned({t})
      BY <2>3
    <3>2. Made /\ Unverdicted
      BY <1>0, <3>1 DEF Made, Unverdicted
    <3>3. \A u \in Threads : place'[u] = place[u] \/ (place[u] = "gate" /\ place'[u] = "over")
      BY <3>1, AbandonedTyped
    <3>4. OnlyMoves(Nobody) /\ Stays
      BY <3>3, AbandonedStays DEF OnlyMoves
    <3>5. Lists /\ Lasts /\ Unstarted'
      BY <1>0, <2>1, <3>2, <3>4, ListsRest, UnstartedKept
    <3>6. Probing'
      BY <2>1, <3>5, ProbesLast
    <3> QED
      BY <2>1, <2>3, <3>2, <3>5, <3>6, HeadParts
  <2> QED
    BY <1>1, <2>1, <2>2, <2>3 DEF TopFailure, FailsWithIt
<1>2. CASE TopAdmits
  <2>1. /\ Admissible # {} /\ Admits /\ pc = "top" /\ AgainAtTop
        /\ UNCHANGED <<doomed, pendingResumptions, settled, syncParks, handoffs, hopProbe, syncHopProbe>>
    BY <1>2 DEF TopAdmits, At, Admits, quantum, probes
  <2>2. /\ NextAdmission \in DOMAIN admissions /\ admissions[NextAdmission] \in Threads
        /\ call[admissions[NextAdmission]] = "deferred" /\ Invokes(admissions[NextAdmission])
    BY <2>1, NextIsAdmissible DEF Admits, Book, Queued
  <2>3. Unstarted' /\ Lists /\ Lasts /\ Unverdicted
    BY <2>1, <2>2, InvokeProbes
  <2>4. Probing'
    BY <2>1, <2>3, ProbesLast
  <2> QED
    BY <2>1, <2>3, <2>4, HeadParts
<1>3. CASE SyncForgets
  <2>1. /\ AtSyncPark /\ UNCHANGED <<place, settled, pendingResumptions, call, doomed, handoffs,
                                     hopProbe, syncHopProbe>>
        /\ syncParks' = Tail(syncParks) /\ pc = "top" /\ AgainAtTop
    BY <1>3 DEF SyncForgets, AtSyncPark, At, threadVars, callVars, quantum, probes
  <2>2. Blocked'
    BY <2>1, PointLeaves DEF Blocked
  <2>3. Tailed' /\ Owed' /\ Unstarted' /\ Lasts
    BY <2>1 DEF ProbeInv, Tailed, Owed, Unstarted, Lasts
  <2>4. Probing'
    BY <2>1, <2>3, ProbesLast
  <2> QED
    BY <2>1, <2>2, <2>3, <2>4, HeadParts DEF Lists, Unverdicted
<1>4. CASE SyncDispatches
  <2>1. PICK i \in DOMAIN settled : Dispatch(i)
    BY <1>4 DEF SyncDispatches, SyncTails
  <2>2. /\ AtSyncPark /\ UNCHANGED <<syncParks, pendingResumptions, handoffs, hopProbe>>
        /\ syncHopProbe' = NoProbe /\ pc = "top" /\ AgainAtTop
    BY <1>4 DEF SyncDispatches, SyncServed, AtSyncPark, At, quantum
  <2>3. /\ settled[i] \in Threads /\ doomed' = doomed
        /\ (CallsUntouched \/ Published(settled[i], call) \/ Trapped(settled[i], call))
    BY <2>1, Dispatches
  <2>4. Lists
    BY <2>1, <2>2, DispatchLists
  <2>5. Unverdicted
    BY <2>3, NoVerdicts
  <2>6. Stays /\ Made
    BY <2>1, <2>3, ProbePlaced, DispatchStays, CallsMove, MovesMade
  <2>7. Unstarted' /\ Probing'
    BY <1>b, <2>2, <2>6, UnstartedKept
  <2> QED
    BY <2>2, <2>3, <2>4, <2>5, <2>7, HeadParts
<1>5. CASE SyncResumes
  <2>1. PICK u \in Candidates : Resume(u, call)
    BY <1>5 DEF SyncResumes, CandidatesOf
  <2>2. /\ AtSyncPark /\ UNCHANGED <<settled, doomed, handoffs, hopProbe>>
        /\ syncHopProbe' = NoProbe /\ pc = "top" /\ AgainAtTop
    BY <1>5 DEF SyncResumes, SyncServed, AtSyncPark, At, quantum
  <2>3. u \in Threads /\ (CallsUntouched \/ Published(u, call) \/ Trapped(u, call))
    BY <1>0, <2>1, Resumes
  <2>4. Lists
    BY <1>0, <2>1, <2>2, ResumeLists
  <2>5. Unverdicted
    BY <2>3, NoVerdicts
  <2>6. Stays /\ Made
    BY <1>0, <2>1, <2>3, ResumeStays, CallsMove, MovesMade
  <2>7. Unstarted' /\ Probing'
    BY <1>b, <2>2, <2>6, UnstartedKept
  <2> QED
    BY <2>2, <2>4, <2>5, <2>7, HeadParts
<1>6. CASE SyncWaits
  <2>1. /\ AtSyncPark /\ pc = "top" /\ Returns(FALSE)
        /\ UNCHANGED <<place, settled, syncParks, pendingResumptions, call, doomed, handoffs, hopProbe>>
        /\ \/ syncHopProbe' = syncHopProbe
           \/ syncHopProbe' = [hops |-> SyncBlockers, elapsed |-> FALSE]
    BY <1>6 DEF SyncWaits, SyncStuck, SyncServed, AtSyncPark, At, threadVars, storeVars, callVars,
                quantum
  <2>2. Lists /\ Lasts /\ Unstarted'
    BY <2>1, ListsSame, UnstartedKept, SameStays DEF Made
  <2>3. \A u \in SyncBlockers : place[u] \in InAwaiting
    BY DEF SyncBlockers, HopsOf, Hops, ProbeInv, Owed, InAwaiting
  <2>4. ProbeSound(syncHopProbe)'
    <3>1. CASE syncHopProbe' = syncHopProbe
      BY <2>1, <3>1 DEF ProbeInv, Probing, ProbeSound
    <3>2. CASE syncHopProbe' = [hops |-> SyncBlockers, elapsed |-> FALSE]
      <4>1. \A u \in SyncBlockers : place'[u] \in InAwaiting
        BY <2>1, <2>3
      <4> QED
        BY <3>2, <4>1 DEF ProbeSound
    <3> QED
      BY <2>1, <3>1, <3>2
  <2>5. MayBlockSync # {}
    BY <2>1, PointLeaves
  <2>6. Probing'
    BY <2>4, <2>5 DEF Probing
  <2> QED
    BY <2>1, <2>2, <2>6, HeadParts DEF Unverdicted
<1>7. CASE SyncTraps
  <2>1. /\ AtSyncPark /\ UNCHANGED <<settled, pendingResumptions, call, handoffs, hopProbe>>
        /\ syncParks' = Tail(syncParks) /\ place' = [place EXCEPT ![Point] = "hop"]
        /\ doomed' = doomed \cup {Point} /\ syncHopProbe' = NoProbe /\ pc = "top" /\ AgainAtTop
    BY <1>7 DEF SyncTraps, SyncStuck, SyncServed, AtSyncPark, At, callVars, quantum
  <2>2. Point \in Threads /\ place[Point] = "suspended"
    BY <2>1, PointLeaves
  <2>3. place'[Point] = "hop" /\ \A u \in Threads \ {Point} : place'[u] = place[u]
    BY <1>0, <2>1, <2>2
  <2>4. Blocked'
    BY <2>1, <2>3, PointLeaves DEF Blocked
  <2>5. Tailed'
    BY <1>0, <2>1, <2>2, <2>3 DEF ProbeInv, Tailed
  <2>6. Owed'
    BY <1>0, <2>1, <2>2, <2>3 DEF ProbeInv, Owed
  <2>7. Unstarted'
    BY <2>1, <2>2, <2>3 DEF ProbeInv, Unstarted
  <2>8. Probing'
    BY <1>b, <2>1
  <2> QED
    BY <1>7, <2>1, <2>4, <2>5, <2>6, <2>7, <2>8, HeadParts DEF Lists, Unverdicted
<1> QED
  BY <1>1, <1>2, <1>3, <1>4, <1>5, <1>6, <1>7 DEF HeadStep

\* What holds of the calls and threads when a verdict is given.
SoundHere == /\ outstanding = {}
             /\ \A u \in Threads : ~Moving(u)
             /\ (\A u \in Threads : place[u] # "stalled") => \A u \in Threads : ~Movable(u)

\* The probe that gives up has seen only frames whose promises the store does not know.
LEMMA HopsGivenUp ==
  ASSUME TypeOK, ProbeInv, MayBlockSync = {}, HopsGiveUp
  PROVE  SoundHere
<1>1. /\ outstanding = {} /\ UnsettledHops # {} /\ UnsettledHops \subseteq Threads
      /\ \A u \in UnsettledHops : place[u] \in Still /\ place[u] \notin {"tail", "suspended"}
  BY DEF HopsGiveUp, AtHops, HostOutstanding, UnsettledHops, Hops, ProbeInv, Probing, ProbeSound
<1>2. \A u \in Threads : Moving(u) => u \in UnsettledHops
  BY DEF Moving, UnsettledHops, Hops, InAwaiting
<1>3. \A u \in Threads : ~Moving(u)
  BY <1>1, <1>2 DEF Moving, Still
<1>4. \E u \in Threads : place[u] = "stalled"
  BY <1>1 DEF Still
<1> QED
  BY <1>1, <1>3, <1>4 DEF SoundHere

\* An idle store has nothing to do, and nobody on the way.
LEMMA IdleIsSound ==
  ASSUME Idle
  PROVE  SoundHere
<1>1. outstanding = {} /\ Hops = {} /\ Candidates = {}
  BY DEF Idle, HostOutstanding, HasRunnable, OrdinaryAllowed, UnsettledHops
<1> QED
  BY <1>1 DEF SoundHere, Moving, Movable, Hops, InAwaiting

\* The trap of a blocked callee, too, comes when nothing of its instance can move.
LEMMA TrapIsSound ==
  ASSUME TypeOK, ProbeInv, SyncTraps
  PROVE  \A u \in Threads : InstOf[u] = InstOf[Point] =>
           /\ ~Moving(u) /\ place[u] # "tail"
           /\ (\A v \in Threads : InstOf[v] = InstOf[Point] => place[v] # "stalled") => ~Movable(u)
<1>1. /\ AtSyncPark /\ SyncTails = {}
      /\ SyncBlockers = {} => CandidatesOf(SyncInst) = {}
      /\ SyncBlockers = {} \/ syncHopProbe = [hops |-> SyncBlockers, elapsed |-> TRUE]
  BY DEF SyncTraps, SyncStuck, SyncServed
<1>2. Point \in Threads /\ place[Point] = "suspended" /\ SyncInst = InstOf[Point]
  BY <1>1, PointLeaves DEF SyncInst
<1>3. \A u \in SyncBlockers : place[u] \in Still
  BY <1>1 DEF ProbeInv, Probing, ProbeSound
<1>4. \A u \in Threads : InstOf[u] = SyncInst /\ place[u] \in HopPlaces => u \in SyncBlockers
  BY DEF SyncBlockers, HopsOf, Hops, HopPlaces
<1>5. \A u \in Threads : InstOf[u] = SyncInst => ~Moving(u)
  BY <1>3, <1>4 DEF Moving, Still, HopPlaces, InAwaiting
<1>6. \A u \in Threads : InstOf[u] = SyncInst => place[u] # "tail"
  BY <1>1 DEF SyncTails, ProbeInv, Tailed
<1>7. ASSUME \A v \in Threads : InstOf[v] = InstOf[Point] => place[v] # "stalled"
      PROVE  SyncBlockers = {}
  <2>1. Point \notin pendingResumptions
    BY <1>2 DEF ProbeInv, Owed
  <2>2. SyncBlockers = HopsOf(SyncInst)
    BY <2>1 DEF SyncBlockers
  <2>3. \A u \in HopsOf(SyncInst) : u \in Threads /\ InstOf[u] = SyncInst /\ place[u] # "suspended"
    BY DEF HopsOf, Hops
  <2> QED
    BY <1>2, <1>3, <1>6, <1>7, <2>2, <2>3 DEF Still
<1>8. ASSUME \A v \in Threads : InstOf[v] = InstOf[Point] => place[v] # "stalled",
             NEW u \in Threads, InstOf[u] = InstOf[Point]
      PROVE  ~Movable(u)
  BY <1>1, <1>2, <1>6, <1>7, <1>8 DEF Movable, CandidatesOf
<1> QED
  BY <1>2, <1>5, <1>6, <1>8

LEMMA BodyProbes ==
  ASSUME TypeOK, CallsAssumption, Book, ProbeInv, BodyStep
  PROVE  /\ ProbeInv' /\ doomed' = doomed
         /\ Unverdicted \/ HopsGiveUp \/ (Settle /\ Idle)
<1>0. /\ call \in [Threads -> Calls] /\ Nobody \notin Threads /\ Clocked
  BY DEF TypeOK, CallsAssumption, ProbeInv
<1>w. Waiters \cap SyncTyped \in SUBSET Waiters /\ Dead \in SUBSET Waiters
  BY DEF Dead
<1>n. ProbeSound(NoProbe)' /\ NoProbe.hops = {}
  BY DEF ProbeSound, NoProbe
<1>1. CASE HopsWait
  <2>1. /\ pc = "top" /\ Returns(FALSE)
        /\ UNCHANGED <<place, settled, syncParks, pendingResumptions, call, doomed, handoffs>>
        /\ syncHopProbe' = NoProbe
        /\ hopProbe' \in {NoProbe, hopProbe, [hops |-> UnsettledHops, elapsed |-> FALSE]}
    BY <1>1 DEF HopsWait, AtHops, At, threadVars, storeVars, callVars, quantum
  <2>2. Lists /\ Lasts /\ Unstarted'
    BY <2>1, ListsSame, UnstartedKept, SameStays DEF Made
  <2>3. \A u \in UnsettledHops : place[u] \in InAwaiting
    BY DEF UnsettledHops, Hops
  <2>4. MayBlockSync = {} => ProbeSound(hopProbe)'
    <3>1. CASE hopProbe' = NoProbe
      BY <1>n, <3>1 DEF ProbeSound
    <3>2. CASE hopProbe' = hopProbe
      BY <2>1, <3>2 DEF ProbeInv, Probing, ProbeSound
    <3>3. CASE hopProbe' = [hops |-> UnsettledHops, elapsed |-> FALSE]
      <4>1. \A u \in UnsettledHops : place'[u] \in InAwaiting
        BY <2>1, <2>3
      <4> QED
        BY <3>3, <4>1 DEF ProbeSound
    <3> QED
      BY <2>1, <3>1, <3>2, <3>3
  <2>5. Probing'
    BY <1>n, <2>1, <2>4 DEF Probing, ProbeSound
  <2> QED
    BY <2>1, <2>2, <2>5, HeadParts DEF Unverdicted
<1>2. CASE HopsGiveUp
  <2>1. /\ pc = "top" /\ Returns(FALSE) /\ Verdicts(Waiters \cap SyncTyped)
        /\ UNCHANGED <<ready, outstanding, heard, hostFailure, settled, syncParks,
                       pendingResumptions, doomed, handoffs>>
        /\ hopProbe' = NoProbe /\ syncHopProbe' = NoProbe
    BY <1>2 DEF HopsGiveUp, AtHops, At, quantum
  <2>2. /\ \A u \in Threads : place'[u] = place[u] \/ (place[u] = "gate" /\ place'[u] = "over")
        /\ CallMoves
    BY <1>w, <2>1, VerdictsTell DEF CallMoves
  <2>3. OnlyMoves(Nobody) /\ Stays /\ Made
    BY <2>2, AbandonedStays, MovesMade DEF OnlyMoves
  <2>4. Lists /\ Unstarted'
    BY <1>0, <2>1, <2>3, ListsRest, UnstartedKept
  <2>5. Probing'
    BY <1>n, <2>1 DEF Probing, ProbeSound
  <2> QED
    BY <1>2, <2>1, <2>4, <2>5, HeadParts
<1>3. CASE TopWorks
  <2>1. /\ pc = "top" /\ pc' = "work" /\ hopProbe' = NoProbe /\ syncHopProbe' = NoProbe
        /\ UNCHANGED <<place, settled, syncParks, pendingResumptions, call, doomed, handoffs, scheduled>>
    BY <1>3 DEF TopWorks, At, threadVars, storeVars, callVars, quantum
  <2>2. Lists /\ Unstarted'
    BY <2>1, ListsSame, UnstartedKept, SameStays DEF Made
  <2>3. Probing'
    BY <1>n, <2>1 DEF Probing, ProbeSound
  <2>4. Clocked'
    BY <1>n, <2>1, ClockMoves
  <2> QED
    BY <2>1, <2>2, <2>3, <2>4, ProbeParts DEF Unverdicted
\* Past the top there is no probe.
<1>c. ASSUME pc \in {"work", "charge", "settle"}, UNCHANGED <<hopProbe, syncHopProbe>>,
             scheduled' = scheduled \/ Returns(requested),
             Drain \in handoffs' => Drain \in handoffs \/ pc' = "handoff"
      PROVE  Clocked' /\ Probing'
  <2>1. hopProbe'.hops = {} /\ syncHopProbe'.hops = {}
    BY <1>0, <1>c DEF Clocked
  <2>2. Probing'
    BY <2>1 DEF Probing, ProbeSound
  <2> QED
    BY <1>c, <2>1, <2>2, ClockMoves DEF Returns
<1>4. CASE WorkDispatches
  <2>1. /\ Dispatch(1) /\ 1 \in DOMAIN settled /\ pc = "work"
        /\ UNCHANGED <<syncParks, pendingResumptions, handoffs, scheduled, hopProbe, syncHopProbe>>
    BY <1>4 DEF WorkDispatches, TypeOK, At, quantum, probes
  <2>2. /\ settled[1] \in Threads /\ doomed' = doomed
        /\ (CallsUntouched \/ Published(settled[1], call) \/ Trapped(settled[1], call))
    BY <2>1, Dispatches
  <2>3. Stays /\ Made /\ Unverdicted
    BY <2>1, <2>2, ProbePlaced, DispatchStays, CallsMove, MovesMade, NoVerdicts
  <2> QED
    BY <1>c, <2>1, <2>2, <2>3, DispatchLists, UnstartedKept, ProbeParts
<1>5. CASE WorkTicks
  <2>1. PICK u \in Candidates : Resume(u, call)
    BY <1>5 DEF WorkTicks
  <2>2. pc = "work" /\ UNCHANGED <<settled, doomed, handoffs, scheduled, hopProbe, syncHopProbe>>
    BY <1>5 DEF WorkTicks, At, quantum, probes
  <2>3. u \in Threads /\ (CallsUntouched \/ Published(u, call) \/ Trapped(u, call))
    BY <1>0, <2>1, Resumes
  <2>4. Stays /\ Made /\ Unverdicted
    BY <1>0, <2>1, <2>3, ResumeStays, CallsMove, MovesMade, NoVerdicts
  <2>5. Lists
    BY <1>0, <2>1, <2>2, ResumeLists
  <2> QED
    BY <1>c, <2>2, <2>4, <2>5, UnstartedKept, ProbeParts
<1>6. CASE WorkEnds
  <2>1. /\ pc = "work"
        /\ UNCHANGED <<place, settled, syncParks, pendingResumptions, call, doomed, handoffs, scheduled,
                       hopProbe, syncHopProbe>>
    BY <1>6 DEF WorkEnds, At, threadVars, storeVars, callVars, quantum, probes
  <2>2. Lists /\ Unstarted'
    BY <2>1, ListsSame, UnstartedKept, SameStays DEF Made
  <2> QED
    BY <1>c, <2>1, <2>2, ProbeParts DEF Unverdicted
<1>7. CASE StepDone
  <2>0. pc = "charge" /\ UNCHANGED <<scheduled, hopProbe, syncHopProbe>>
    BY <1>7 DEF StepDone, At, probes
  <2>1. CASE /\ UNCHANGED <<threadVars, storeVars, hostFailure, callVars>>
             /\ Drain \in handoffs' => Drain \in handoffs \/ pc' = "handoff"
    <3>1. UNCHANGED <<place, settled, syncParks, pendingResumptions, call, doomed>>
      BY <2>1 DEF threadVars, storeVars, callVars
    <3>2. Lists /\ Unstarted'
      BY <3>1, ListsSame, UnstartedKept, SameStays DEF Made
    <3> QED
      BY <1>c, <2>0, <2>1, <3>1, <3>2, ProbeParts DEF Unverdicted
  <2>2. CASE Admissible # {} /\ Admits
    <3>1. /\ NextAdmission \in DOMAIN admissions /\ admissions[NextAdmission] \in Threads
          /\ call[admissions[NextAdmission]] = "deferred" /\ Invokes(admissions[NextAdmission])
          /\ UNCHANGED <<doomed, pendingResumptions, settled, syncParks, handoffs>>
      BY <2>2, NextIsAdmissible DEF Admits, Book, Queued, quantum
    <3>2. Unstarted' /\ Lists /\ Unverdicted
      BY <3>1, InvokeProbes
    <3> QED
      BY <1>c, <2>0, <3>1, <3>2, ProbeParts
  <2> QED
    BY <1>7, <2>1, <2>2 DEF StepDone, Charge, quantum
<1>8. CASE Settle
  <2>1. /\ UNCHANGED <<ready, outstanding, heard, hostFailure, settled, syncParks,
                       pendingResumptions, doomed, handoffs, hopProbe, syncHopProbe>>
        /\ pc = "settle" /\ (scheduled' = scheduled \/ Returns(requested))
    BY <1>8 DEF Settle, At, quantum, AgainAtTop
  <2>2. /\ \A u \in Threads : place'[u] = place[u] \/ (place[u] = "gate" /\ place'[u] = "over")
        /\ CallMoves
    <3>1. CASE Verdicts(Dead)
      BY <1>w, <2>1, <3>1, VerdictsTell DEF CallMoves
    <3>2. CASE UNCHANGED <<place, call>>
      BY <3>2 DEF CallMoves
    <3> QED
      BY <1>8, <3>1, <3>2 DEF Settle
  <2>3. OnlyMoves(Nobody) /\ Stays /\ Made
    BY <2>2, AbandonedStays, MovesMade DEF OnlyMoves
  <2>4. Lists /\ Unstarted'
    BY <1>0, <2>1, <2>3, ListsRest, UnstartedKept
  <2>5. Unverdicted \/ (Settle /\ Idle)
    BY <1>8 DEF Settle, Unverdicted
  <2> QED
    BY <1>c, <2>1, <2>4, <2>5, ProbeParts
<1> QED
  BY <1>1, <1>2, <1>3, <1>4, <1>5, <1>6, <1>7, <1>8 DEF BodyStep

\* What every step does.
VerdictStep ==
  \A t \in Threads : call'[t] = "deadlock" /\ call[t] # "deadlock" => SoundHere
TrapStep ==
  \A t \in doomed' \ doomed :
     LET mine == {u \in Threads : InstOf[u] = InstOf[t]} IN
       /\ \A u \in mine : ~Moving(u) /\ place[u] # "tail"
       /\ (\A u \in mine : place[u] # "stalled") => \A u \in mine : ~Movable(u)

LEMMA ProbeStep ==
  ASSUME TypeOK, CallsAssumption, Book, ProbeInv, [Next]_vars
  PROVE  ProbeInv' /\ TrapStep /\ (MayBlockSync = {} => VerdictStep)
<1>h. Harmless => TrapStep /\ VerdictStep
  BY DEF Harmless, TrapStep, VerdictStep
<1>1. CASE DropFails \/ DrainContinues \/ DrainStarts \/ UNCHANGED vars
  <2>1. /\ UNCHANGED <<place, settled, syncParks, pendingResumptions, call, doomed, handoffs, hopProbe,
                       syncHopProbe>>
        /\ \/ UNCHANGED <<pc, scheduled>>
           \/ pc = "micro" /\ pc' = "work" /\ scheduled' = scheduled
           \/ scheduled /\ scheduled' = FALSE /\ pc' \in {pc, "top"}
    BY <1>1 DEF DropFails, DrainContinues, DrainStarts, vars, threadVars, storeVars, callVars, quantum,
                probes
  <2>2. Lists /\ Lasts /\ Unstarted'
    BY <2>1, ListsSame, UnstartedKept, SameStays DEF Made
  <2>3. Probing'
    BY <2>1, <2>2, ProbesLast
  <2>4. Clocked'
    BY <2>1 DEF ProbeInv, Clocked
  <2> QED
    BY <1>h, <2>1, <2>2, <2>3, <2>4, ProbeParts DEF Harmless
<1>2. CASE HeadStep
  <2>1. /\ ProbeInv' /\ Unverdicted
        /\ doomed' = doomed \/ (SyncTraps /\ doomed' = doomed \cup {Point})
    BY <1>2, HeadProbes
  <2>2. VerdictStep
    BY <2>1 DEF VerdictStep, Unverdicted
  <2>3. TrapStep
    <3>1. CASE doomed' = doomed
      BY <3>1 DEF TrapStep
    <3>2. CASE SyncTraps /\ doomed' = doomed \cup {Point}
      <4>1. \A t \in doomed' \ doomed : t = Point
        BY <3>2
      <4> QED
        BY <3>2, <4>1, TrapIsSound DEF TrapStep
    <3> QED
      BY <2>1, <3>1, <3>2
  <2> QED
    BY <2>1, <2>2, <2>3
<1>3. CASE BodyStep
  <2>1. /\ ProbeInv' /\ doomed' = doomed
        /\ Unverdicted \/ HopsGiveUp \/ (Settle /\ Idle)
    BY <1>3, BodyProbes
  <2>2. TrapStep
    BY <2>1 DEF TrapStep
  <2>3. MayBlockSync = {} => VerdictStep
    BY <2>1, HopsGivenUp, IdleIsSound DEF VerdictStep, Unverdicted
  <2> QED
    BY <2>1, <2>2, <2>3
<1> QED
  BY <1>h, <1>1, <1>2, <1>3, NextGroups, TimerProbes, DriveProbes, PromiseProbes, CallProbes

LEMMA ProbeInit ==
  ASSUME Init
  PROVE  Book /\ ProbeInv
<1>1. Book
  BY Disjoint, CallsAssumption DEF Init, Book, Queued, DriverSound
<1>2. ProbeInv
  BY DEF Init, ProbeInv, Unstarted, Tailed, Blocked, Owed, Clocked, Probing, ProbeSound, NoProbe
<1> QED
  BY <1>1, <1>2

\* A blocked synchronous callee is made to trap only when nothing of its instance can move.
THEOREM SyncTrapsAreSound == Spec => SyncTrapSound
<1>1. Init => Book /\ ProbeInv
  BY ProbeInit
<1>2. TypeOK /\ Book /\ [Next]_vars => Book'
  BY BookStep, CallsAssumption
<1>3. TypeOK /\ Book /\ ProbeInv /\ [Next]_vars => ProbeInv'
  BY ProbeStep, CallsAssumption
<1>4. TypeOK /\ Book /\ ProbeInv /\ [Next]_vars =>
        [\A t \in doomed' \ doomed :
           LET mine == {u \in Threads : InstOf[u] = InstOf[t]} IN
             /\ \A u \in mine : ~Moving(u) /\ place[u] # "tail"
             /\ (\A u \in mine : place[u] # "stalled") => \A u \in mine : ~Movable(u)]_vars
  BY ProbeStep, CallsAssumption DEF TrapStep
<1> QED
  BY <1>1, <1>2, <1>3, <1>4, StoreTypes, PTL DEF Spec, SyncTrapSound

\* Where no synchronous callee blocks, a deadlock verdict is given only when nothing the
\* store knows of can make a thread progress.
THEOREM VerdictsAreSound ==
  ASSUME MayBlockSync = {}
  PROVE  Spec => VerdictSound
<1>1. Init => Book /\ ProbeInv
  BY ProbeInit
<1>2. TypeOK /\ Book /\ [Next]_vars => Book'
  BY BookStep, CallsAssumption
<1>3. TypeOK /\ Book /\ ProbeInv /\ [Next]_vars => ProbeInv'
  BY ProbeStep, CallsAssumption
<1>4. TypeOK /\ Book /\ ProbeInv /\ [Next]_vars =>
        [\A t \in Threads : call'[t] = "deadlock" /\ call[t] # "deadlock" =>
           /\ outstanding = {}
           /\ \A u \in Threads : ~Moving(u)
           /\ (\A u \in Threads : place[u] # "stalled") => \A u \in Threads : ~Movable(u)]_vars
  BY ProbeStep, CallsAssumption, MayBlockSync = {} DEF VerdictStep, SoundHere
<1> QED
  BY <1>1, <1>2, <1>3, <1>4, StoreTypes, PTL DEF Spec, VerdictSound
=============================================================================
