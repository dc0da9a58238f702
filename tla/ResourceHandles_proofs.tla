------------------------ MODULE ResourceHandles_proofs ------------------------
(***************************************************************************)
(* A resource has one owner, and its borrows are sound, for any number of  *)
(* instances, indices, resources, calls and wrappers.                      *)
(*                                                                         *)
(* What is needed beside the properties is in two parts. HandleInv holds   *)
(* whatever happens: what handles, wrappers and calls look like, that the  *)
(* counters count the lends, and that a resource has at most one owner.    *)
(* Linked holds until an instance is poisoned, if no import settles       *)
(* while what it was given is lent on: each borrow leads, by a lender or a *)
(* lent wrapper, to one that is older, and at last to the owner, which is  *)
(* lent and therefore stays where it is.                                   *)
(***************************************************************************)
EXTENDS ResourceHandles, FiniteSetTheorems, FunctionTheorems, WellFoundedInduction,
        TLAPS

SlotType == [tenure : Nat, entry : HandleType]
TableType == [Inst -> [Index -> SlotType]]
WrapperType == [rep : 0..MaxReps, valid : BOOLEAN, owns : BOOLEAN, lends : Nat, pending : BOOLEAN]
LenderType == [inst : Inst, index : Index, tenure : Nat]
Kinds == {"none", "export", "sync", "async", "import"}
CallType == [phase : Phases, kind : Kinds, stack : SUBSET Calls, caller : Inst \cup {Host},
             callee : Inst \cup {Host}, lenders : SUBSET LenderType, borrows : Nat,
             lent : SUBSET Wrappers, args : SUBSET Reps, result : 0..MaxReps,
             views : SUBSET Wrappers]

\* An index has nothing, an own handle, or a borrow handle of a call.
EntrySound(e) == e = None \/ (e.rep # 0 /\ (e.own <=> e.scope = 0))
TableSound(sl) == sl \in TableType /\ \A i \in Inst, x \in Index : EntrySound(sl[i][x].entry)

LEMMA EntryTyped ==
  /\ None \in HandleType
  /\ \A r \in Reps : Own(r) \in HandleType /\ EntrySound(Own(r))
  /\ \A r \in Reps, c \in Calls : Borrow(r, c) \in HandleType /\ EntrySound(Borrow(r, c))
  /\ \A r, c : Own(r).rep = r /\ Own(r).own /\ Own(r).lends = 0 /\ Own(r).scope = 0
            /\ Borrow(r, c).rep = r /\ ~Borrow(r, c).own /\ Borrow(r, c).lends = 0
            /\ Borrow(r, c).scope = c
  /\ None.rep = 0 /\ ~None.own /\ None.lends = 0 /\ None.scope = 0
  /\ \A r \in Reps : Own(r) # None /\ \A c \in Calls : Borrow(r, c) # None
BY BoundsAssumption DEF None, Own, Borrow, HandleType, EntrySound, Reps, Calls

\* What the operators on tables do at each index.
LEMMA AddedAt ==
  ASSUME NEW sl \in TableType, NEW i \in Inst, NEW x \in Index, NEW e \in HandleType
  PROVE  /\ Added(sl, i, x, e) \in TableType
         /\ Added(sl, i, x, e)[i][x] = [tenure |-> sl[i][x].tenure + 1, entry |-> e]
         /\ \A j \in Inst, y \in Index :
              ~(j = i /\ y = x) => Added(sl, i, x, e)[j][y] = sl[j][y]
<1>1. sl[i][x] \in SlotType /\ sl[i] \in [Index -> SlotType]
  BY DEF TableType
<1>2. sl[i][x].tenure + 1 \in Nat
  BY <1>1 DEF SlotType
<1> DEFINE u == [tenure |-> sl[i][x].tenure + 1, entry |-> e]
           row == [sl[i] EXCEPT ![x] = u]
<1>3. u \in SlotType
  BY <1>2 DEF SlotType
<1>4. Added(sl, i, x, e) = [sl EXCEPT ![i] = row]
  BY DEF Added
<1> HIDE DEF u
<1>5. row \in [Index -> SlotType] /\ row[x] = u /\ \A y \in Index : y # x => row[y] = sl[i][y]
  BY <1>1, <1>3
<1> HIDE DEF row
<1>6. /\ Added(sl, i, x, e) \in TableType
      /\ Added(sl, i, x, e)[i] = row
      /\ \A j \in Inst : j # i => Added(sl, i, x, e)[j] = sl[j]
  BY <1>4, <1>5 DEF TableType
<1>7. QED
  BY <1>5, <1>6 DEF u

LEMMA RemovedAt ==
  ASSUME NEW sl \in TableType, NEW i \in Inst, NEW x \in Index
  PROVE  /\ Removed(sl, i, x) \in TableType
         /\ Removed(sl, i, x)[i][x].tenure = sl[i][x].tenure
         /\ Removed(sl, i, x)[i][x].entry = None
         /\ \A j \in Inst, y \in Index : ~(j = i /\ y = x) => Removed(sl, i, x)[j][y] = sl[j][y]
<1>1. sl[i][x] \in SlotType /\ sl[i] \in [Index -> SlotType]
  BY DEF TableType
<1> DEFINE u == [sl[i][x] EXCEPT !.entry = None]
           row == [sl[i] EXCEPT ![x] = u]
<1>2. u \in SlotType /\ u.tenure = sl[i][x].tenure /\ u.entry = None
  BY <1>1, EntryTyped DEF SlotType
<1>3. Removed(sl, i, x) = [sl EXCEPT ![i] = row]
  BY DEF Removed
<1> HIDE DEF u
<1>4. row \in [Index -> SlotType] /\ row[x] = u /\ \A y \in Index : y # x => row[y] = sl[i][y]
  BY <1>1, <1>2
<1> HIDE DEF row
<1>5. /\ Removed(sl, i, x) \in TableType
      /\ Removed(sl, i, x)[i] = row
      /\ \A j \in Inst : j # i => Removed(sl, i, x)[j] = sl[j]
  BY <1>3, <1>4 DEF TableType
<1>6. QED
  BY <1>2, <1>4, <1>5

LEMMA LentOutAt ==
  ASSUME NEW sl \in TableType, NEW i \in Inst, NEW x \in Index
  PROVE  /\ LentOut(sl, i, x) \in TableType
         /\ LentOut(sl, i, x)[i][x] =
              [sl[i][x] EXCEPT !.entry = [sl[i][x].entry EXCEPT !.lends = sl[i][x].entry.lends + 1]]
         /\ \A j \in Inst, y \in Index : ~(j = i /\ y = x) => LentOut(sl, i, x)[j][y] = sl[j][y]
<1>1. sl[i][x] \in SlotType /\ sl[i] \in [Index -> SlotType] /\ sl[i][x].entry \in HandleType
  BY DEF TableType, SlotType
<1> DEFINE e == [sl[i][x].entry EXCEPT !.lends = sl[i][x].entry.lends + 1]
           u == [sl[i][x] EXCEPT !.entry = e]
           row == [sl[i] EXCEPT ![x] = u]
<1>2. e \in HandleType
  BY <1>1 DEF HandleType
<1>3. LentOut(sl, i, x) = [sl EXCEPT ![i] = row]
  BY DEF LentOut
<1> HIDE DEF e
<1>4. u \in SlotType
  BY <1>1, <1>2 DEF SlotType
<1> HIDE DEF u
<1>5. row \in [Index -> SlotType] /\ row[x] = u /\ \A y \in Index : y # x => row[y] = sl[i][y]
  BY <1>1, <1>4
<1> HIDE DEF row
<1>6. /\ LentOut(sl, i, x) \in TableType
      /\ LentOut(sl, i, x)[i] = row
      /\ \A j \in Inst : j # i => LentOut(sl, i, x)[j] = sl[j]
  BY <1>3, <1>5 DEF TableType
<1>7. QED
  BY <1>5, <1>6 DEF u, e

\* The calls among D a handle is lent to.
LentTo(i, x, D) == {d \in D : Handle(i, x) \in call[d].lenders}

LEMMA CallsFinite ==
  /\ IsFiniteSet(Calls)
  /\ \A D \in SUBSET Calls : IsFiniteSet(D) /\ Cardinality(D) \in Nat
<1>1. IsFiniteSet(Calls)
  BY BoundsAssumption, FS_Interval DEF Calls
<1>2. QED
  BY <1>1, FS_Subset, FS_CardinalityType

LEMMA ReleasedAt ==
  ASSUME NEW sl, TableSound(sl), NEW D \in SUBSET Calls,
         \A i \in Inst, x \in Index :
           sl[i][x].entry # None => sl[i][x].entry.lends >= Cardinality(LentTo(i, x, D))
  PROVE  /\ TableSound(Released(sl, D))
         /\ \A i \in Inst, x \in Index :
              LET e == sl[i][x].entry
                  f == Released(sl, D)[i][x].entry
              IN  /\ Released(sl, D)[i][x].tenure = sl[i][x].tenure
                  /\ f.rep = e.rep /\ f.own = e.own /\ f.scope = e.scope
                  /\ e = None <=> f = None
                  /\ e # None => f.lends = e.lends - Cardinality(LentTo(i, x, D))
<1> DEFINE n(i, x) == IF sl[i][x].entry = None THEN 0
                      ELSE sl[i][x].entry.lends - Cardinality(LentTo(i, x, D))
           f(i, x) == [sl[i][x].entry EXCEPT !.lends = n(i, x)]
           u(i, x) == [sl[i][x] EXCEPT !.entry = f(i, x)]
<1>0. sl \in TableType
  BY DEF TableSound
<1>1. Released(sl, D) = [i \in Inst |-> [x \in Index |-> u(i, x)]]
  BY DEF Released, LentTo
<1>2. \A i \in Inst, x \in Index : n(i, x) \in Nat
  <2>1. ASSUME NEW i \in Inst, NEW x \in Index PROVE n(i, x) \in Nat
    <3>1. LentTo(i, x, D) \in SUBSET Calls /\ sl[i][x].entry.lends \in Nat
      BY <1>0 DEF LentTo, TableType, SlotType, HandleType
    <3>2. QED
      BY <3>1, CallsFinite
  <2>2. QED
    BY <2>1
<1>3. \A i \in Inst, x \in Index :
         /\ f(i, x) \in HandleType /\ f(i, x).lends = n(i, x) /\ f(i, x).rep = sl[i][x].entry.rep
         /\ f(i, x).own = sl[i][x].entry.own /\ f(i, x).scope = sl[i][x].entry.scope
         /\ sl[i][x].entry = None => f(i, x) = None
  <2>1. ASSUME NEW i \in Inst, NEW x \in Index, NEW m \in Nat, NEW e \in HandleType
        PROVE  /\ [e EXCEPT !.lends = m] \in HandleType /\ [e EXCEPT !.lends = m].lends = m
               /\ [e EXCEPT !.lends = m].rep = e.rep /\ [e EXCEPT !.lends = m].own = e.own
               /\ [e EXCEPT !.lends = m].scope = e.scope
               /\ e = None /\ m = 0 => [e EXCEPT !.lends = m] = None
    <3>1. e = None /\ m = 0 => [e EXCEPT !.lends = m] = None
      BY DEF None
    <3>2. QED
      BY <3>1 DEF HandleType
  <2>2. \A i \in Inst, x \in Index : sl[i][x].entry \in HandleType
    BY <1>0 DEF TableType, SlotType
  <2>3. \A i \in Inst, x \in Index : sl[i][x].entry = None => n(i, x) = 0
    OBVIOUS
  <2> HIDE DEF n
  <2>4. QED
    BY <1>2, <2>1, <2>2, <2>3
<1>4. \A i \in Inst, x \in Index : f(i, x) = None => sl[i][x].entry.rep = 0
  BY <1>3 DEF None
<1> HIDE DEF f
<1>5. \A i \in Inst, x \in Index :
         u(i, x) \in SlotType /\ u(i, x).tenure = sl[i][x].tenure /\ u(i, x).entry = f(i, x)
  <2>1. ASSUME NEW i \in Inst, NEW x \in Index
        PROVE  u(i, x) \in SlotType /\ u(i, x).tenure = sl[i][x].tenure /\ u(i, x).entry = f(i, x)
    <3>1. sl[i][x] \in SlotType
      BY <1>0 DEF TableType
    <3>2. QED
      BY <1>3, <3>1 DEF SlotType
  <2>2. QED
    BY <2>1
<1> HIDE DEF u
<1>6. Released(sl, D) \in TableType
  BY <1>1, <1>5 DEF TableType
<1>7. \A i \in Inst, x \in Index : Released(sl, D)[i][x] = u(i, x)
  BY <1>1
<1>8. \A i \in Inst, x \in Index :
         LET e == sl[i][x].entry
             o == Released(sl, D)[i][x].entry
         IN  /\ Released(sl, D)[i][x].tenure = sl[i][x].tenure
             /\ o.rep = e.rep /\ o.own = e.own /\ o.scope = e.scope
             /\ e = None <=> o = None
             /\ e # None => o.lends = e.lends - Cardinality(LentTo(i, x, D))
  BY <1>3, <1>4, <1>5, <1>7 DEF TableSound, EntrySound
<1>9. \A i \in Inst, x \in Index : EntrySound(Released(sl, D)[i][x].entry)
  BY <1>8 DEF TableSound, EntrySound
<1>10. QED
  BY <1>6, <1>8, <1>9 DEF TableSound

-----------------------------------------------------------------------------
(* What a table says of owners, of the borrows of a call, and of lends.     *)

TableOwners(sl, r) ==
  {s \in Slots : sl[s[1]][s[2]].entry.own /\ sl[s[1]][s[2]].entry.rep = r}
ScopeSlots(sl, c) == {s \in Slots : sl[s[1]][s[2]].entry.scope = c}

\* numLends counts the calls a handle is lent to, and no call has a lender from
\* a tenure to come.
Key(sl, i, x) == [inst |-> i, index |-> x, tenure |-> sl[i][x].tenure]
Lenders(sl, cl, i, x) == {c \in Calls : Key(sl, i, x) \in cl[c].lenders}
LendsCounted(sl, cl) ==
  /\ \A i \in Inst, x \in Index :
       sl[i][x].entry # None => sl[i][x].entry.lends = Cardinality(Lenders(sl, cl, i, x))
  /\ \A c \in Calls : \A h \in cl[c].lenders : h.tenure <= sl[h.inst][h.index].tenure

LEMMA SlotsAre ==
  /\ \A s \in Slots : s[1] \in Inst /\ s[2] \in Index /\ s = <<s[1], s[2]>>
  /\ \A i \in Inst, x \in Index :
       <<i, x>> \in Slots /\ <<i, x>>[1] = i /\ <<i, x>>[2] = x
  /\ IsFiniteSet(Slots)
BY FiniteAssumption, FS_Product DEF Slots

LEMMA ScopesFinite ==
  ASSUME NEW sl, NEW c
  PROVE  IsFiniteSet(ScopeSlots(sl, c)) /\ Cardinality(ScopeSlots(sl, c)) \in Nat
BY SlotsAre, FS_Subset, FS_CardinalityType DEF ScopeSlots

\* A handle is added to an empty slot.
LEMMA AddedSays ==
  ASSUME NEW sl, TableSound(sl), NEW i \in Inst, NEW x \in Index, sl[i][x].entry = None,
         NEW e \in HandleType, EntrySound(e), e # None, e.lends = 0,
         NEW cl \in [Calls -> CallType], LendsCounted(sl, cl)
  PROVE  /\ TableSound(Added(sl, i, x, e))
         /\ LendsCounted(Added(sl, i, x, e), cl)
         /\ \A r \in Reps : TableOwners(Added(sl, i, x, e), r) =
              IF e.own /\ e.rep = r THEN TableOwners(sl, r) \cup {<<i, x>>} ELSE TableOwners(sl, r)
         /\ \A c \in Calls : ScopeSlots(Added(sl, i, x, e), c) =
              IF e.scope = c THEN ScopeSlots(sl, c) \cup {<<i, x>>} ELSE ScopeSlots(sl, c)
<1> DEFINE t == Added(sl, i, x, e)
<1>1. sl \in TableType /\ \A j \in Inst, y \in Index : sl[j][y].tenure \in Nat
  BY DEF TableSound, TableType, SlotType
<1>2. /\ t \in TableType /\ t[i][x].entry = e /\ t[i][x].tenure = sl[i][x].tenure + 1
      /\ \A j \in Inst, y \in Index : ~(j = i /\ y = x) => t[j][y] = sl[j][y]
  <2>1. /\ t \in TableType /\ t[i][x] = [tenure |-> sl[i][x].tenure + 1, entry |-> e]
        /\ \A j \in Inst, y \in Index : ~(j = i /\ y = x) => t[j][y] = sl[j][y]
    BY <1>1, AddedAt
  <2> HIDE DEF t
  <2>2. QED
    BY <2>1
<1> HIDE DEF t
<1>3. TableSound(t)
  BY <1>2 DEF TableSound
<1>4. \A c \in Calls : \A h \in cl[c].lenders :
         h \in LenderType /\ h.inst \in Inst /\ h.index \in Index /\ h.tenure \in Nat
         /\ h.tenure <= sl[h.inst][h.index].tenure
  BY DEF CallType, LenderType, LendsCounted
<1>5. LendsCounted(t, cl)
  <2>1. ASSUME NEW j \in Inst, NEW y \in Index, t[j][y].entry # None
        PROVE  t[j][y].entry.lends = Cardinality(Lenders(t, cl, j, y))
    <3>1. CASE j = i /\ y = x
      <4>1. Lenders(t, cl, j, y) = {}
        <5>1. ASSUME NEW c \in Calls, Key(t, i, x) \in cl[c].lenders PROVE FALSE
          <6>1. Key(t, i, x).tenure <= sl[i][x].tenure /\ Key(t, i, x).tenure = sl[i][x].tenure + 1
            BY <1>2, <1>4, <5>1 DEF Key
          <6>2. QED
            BY <1>1, <6>1
        <5>2. QED
          BY <3>1, <5>1 DEF Lenders
      <4>2. QED
        BY <1>2, <3>1, <4>1, FS_EmptySet
    <3>2. CASE ~(j = i /\ y = x)
      <4>1. t[j][y] = sl[j][y]
        BY <1>2, <3>2
      <4>2. Lenders(t, cl, j, y) = Lenders(sl, cl, j, y)
        BY <4>1 DEF Lenders, Key
      <4>3. QED
        BY <2>1, <4>1, <4>2 DEF LendsCounted
    <3>3. QED
      BY <3>1, <3>2
  <2>2. ASSUME NEW c \in Calls, NEW h \in cl[c].lenders
        PROVE  h.tenure <= t[h.inst][h.index].tenure
    <3>1. CASE h.inst = i /\ h.index = x
      BY <1>1, <1>2, <1>4, <3>1
    <3>2. CASE ~(h.inst = i /\ h.index = x)
      BY <1>2, <1>4, <3>2
    <3>3. QED
      BY <3>1, <3>2
  <2>3. QED
    BY <2>1, <2>2 DEF LendsCounted
<1>6. \A r \in Reps : TableOwners(t, r) =
         IF e.own /\ e.rep = r THEN TableOwners(sl, r) \cup {<<i, x>>} ELSE TableOwners(sl, r)
  <2>1. \A s \in Slots : s # <<i, x>> => t[s[1]][s[2]] = sl[s[1]][s[2]]
    BY <1>2, SlotsAre
  <2>2. ~sl[i][x].entry.own /\ <<i, x>> \in Slots
    BY SlotsAre, EntryTyped
  <2>3. t[<<i, x>>[1]][<<i, x>>[2]].entry = e
    BY <1>2
  <2>4. QED
    BY <2>1, <2>2, <2>3 DEF TableOwners
<1>7. \A c \in Calls : ScopeSlots(t, c) =
         IF e.scope = c THEN ScopeSlots(sl, c) \cup {<<i, x>>} ELSE ScopeSlots(sl, c)
  <2>1. \A s \in Slots : s # <<i, x>> => t[s[1]][s[2]] = sl[s[1]][s[2]]
    BY <1>2, SlotsAre
  <2>2. <<i, x>> \in Slots /\ sl[i][x].entry.scope = 0 /\ \A c \in Calls : c # 0
    BY SlotsAre, EntryTyped, BoundsAssumption DEF Calls
  <2>3. t[<<i, x>>[1]][<<i, x>>[2]].entry = e
    BY <1>2
  <2>4. QED
    BY <2>1, <2>2, <2>3 DEF ScopeSlots
<1>8. QED
  BY <1>3, <1>5, <1>6, <1>7 DEF t

\* A handle is removed.
LEMMA RemovedSays ==
  ASSUME NEW sl, TableSound(sl), NEW i \in Inst, NEW x \in Index,
         NEW cl \in [Calls -> CallType], LendsCounted(sl, cl)
  PROVE  /\ TableSound(Removed(sl, i, x))
         /\ LendsCounted(Removed(sl, i, x), cl)
         /\ \A r \in Reps : TableOwners(Removed(sl, i, x), r) = TableOwners(sl, r) \ {<<i, x>>}
         /\ \A c \in Calls : ScopeSlots(Removed(sl, i, x), c) = ScopeSlots(sl, c) \ {<<i, x>>}
<1> DEFINE t == Removed(sl, i, x)
<1>1. sl \in TableType /\ \A j \in Inst, y \in Index : sl[j][y].tenure \in Nat
  BY DEF TableSound, TableType, SlotType
<1>2. /\ t \in TableType /\ t[i][x].entry = None /\ t[i][x].tenure = sl[i][x].tenure
      /\ \A j \in Inst, y \in Index : ~(j = i /\ y = x) => t[j][y] = sl[j][y]
  BY <1>1, RemovedAt
<1> HIDE DEF t
<1>3. TableSound(t)
  BY <1>2 DEF TableSound, EntrySound
<1>4. \A j \in Inst, y \in Index : t[j][y].tenure = sl[j][y].tenure
  BY <1>2
<1>5. LendsCounted(t, cl)
  <2>1. \A j \in Inst, y \in Index : Lenders(t, cl, j, y) = Lenders(sl, cl, j, y)
    BY <1>4 DEF Lenders, Key
  <2>2. \A j \in Inst, y \in Index : t[j][y].entry # None => t[j][y] = sl[j][y]
    BY <1>2
  <2>3. \A c \in Calls : \A h \in cl[c].lenders : h.inst \in Inst /\ h.index \in Index
    BY DEF CallType, LenderType
  <2>4. \A j \in Inst, y \in Index :
           t[j][y].entry # None => t[j][y].entry.lends = Cardinality(Lenders(t, cl, j, y))
    BY <2>1, <2>2 DEF LendsCounted
  <2>5. \A c \in Calls : \A h \in cl[c].lenders : h.tenure <= t[h.inst][h.index].tenure
    BY <1>4, <2>3 DEF LendsCounted
  <2>6. QED
    BY <2>4, <2>5 DEF LendsCounted
<1>6. /\ \A s \in Slots : s # <<i, x>> => t[s[1]][s[2]] = sl[s[1]][s[2]]
      /\ t[<<i, x>>[1]][<<i, x>>[2]].entry = None
  BY <1>2, SlotsAre
<1>7. ~None.own /\ None.scope = 0 /\ \A c \in Calls : c # 0
  BY EntryTyped, BoundsAssumption DEF Calls
<1>8. \A r \in Reps : TableOwners(t, r) = TableOwners(sl, r) \ {<<i, x>>}
  BY <1>6, <1>7 DEF TableOwners
<1>9. \A c \in Calls : ScopeSlots(t, c) = ScopeSlots(sl, c) \ {<<i, x>>}
  BY <1>6, <1>7 DEF ScopeSlots
<1>10. QED
  BY <1>3, <1>5, <1>8, <1>9 DEF t

\* Two tables alike in all but the lends.
Alike(sl, t) ==
  \A i \in Inst, x \in Index :
    /\ t[i][x].tenure = sl[i][x].tenure
    /\ t[i][x].entry.rep = sl[i][x].entry.rep
    /\ t[i][x].entry.own = sl[i][x].entry.own
    /\ t[i][x].entry.scope = sl[i][x].entry.scope

LEMMA AlikeSays ==
  ASSUME NEW sl, NEW t, Alike(sl, t)
  PROVE  /\ \A r \in Reps : TableOwners(t, r) = TableOwners(sl, r)
         /\ \A c \in Calls : ScopeSlots(t, c) = ScopeSlots(sl, c)
         /\ \A cl : \A i \in Inst, x \in Index : Lenders(t, cl, i, x) = Lenders(sl, cl, i, x)
<1>1. \A s \in Slots : /\ t[s[1]][s[2]].entry.own = sl[s[1]][s[2]].entry.own
                       /\ t[s[1]][s[2]].entry.rep = sl[s[1]][s[2]].entry.rep
                       /\ t[s[1]][s[2]].entry.scope = sl[s[1]][s[2]].entry.scope
  BY SlotsAre DEF Alike
<1>2. \A cl : \A i \in Inst, x \in Index : Lenders(t, cl, i, x) = Lenders(sl, cl, i, x)
  BY DEF Lenders, Key, Alike
<1>3. QED
  BY <1>1, <1>2 DEF TableOwners, ScopeSlots

\* A handle is lent to a call that had nothing lent to it.
LEMMA LentOutSays ==
  ASSUME NEW sl, TableSound(sl), NEW i \in Inst, NEW x \in Index, sl[i][x].entry # None,
         NEW cl \in [Calls -> CallType], LendsCounted(sl, cl),
         NEW dl \in [Calls -> CallType], NEW d \in Calls,
         cl[d].lenders = {}, dl[d].lenders = {Key(sl, i, x)},
         \A c \in Calls : c # d => dl[c].lenders = cl[c].lenders
  PROVE  /\ TableSound(LentOut(sl, i, x))
         /\ Alike(sl, LentOut(sl, i, x))
         /\ \A j \in Inst, y \in Index :
              LentOut(sl, i, x)[j][y].entry = None <=> sl[j][y].entry = None
         /\ LendsCounted(LentOut(sl, i, x), dl)
<1> DEFINE t == LentOut(sl, i, x)
<1>1. /\ sl \in TableType /\ sl[i][x].entry \in HandleType /\ sl[i][x].entry.rep # 0
      /\ sl[i][x].entry.lends \in Nat /\ sl[i][x].tenure \in Nat /\ sl[i][x] \in SlotType
  <2>1. sl \in TableType /\ EntrySound(sl[i][x].entry)
    BY DEF TableSound
  <2>2. sl[i][x] \in SlotType
    BY <2>1 DEF TableType
  <2>3. QED
    BY <2>1, <2>2 DEF SlotType, HandleType, EntrySound
<1>2. /\ t \in TableType /\ t[i][x].tenure = sl[i][x].tenure
      /\ t[i][x].entry.rep = sl[i][x].entry.rep /\ t[i][x].entry.own = sl[i][x].entry.own
      /\ t[i][x].entry.scope = sl[i][x].entry.scope
      /\ t[i][x].entry.lends = sl[i][x].entry.lends + 1
      /\ \A j \in Inst, y \in Index : ~(j = i /\ y = x) => t[j][y] = sl[j][y]
  <2> DEFINE e == [sl[i][x].entry EXCEPT !.lends = sl[i][x].entry.lends + 1]
  <2>1. /\ t \in TableType /\ t[i][x] = [sl[i][x] EXCEPT !.entry = e]
        /\ \A j \in Inst, y \in Index : ~(j = i /\ y = x) => t[j][y] = sl[j][y]
    BY <1>1, LentOutAt
  <2>2. /\ e.rep = sl[i][x].entry.rep /\ e.own = sl[i][x].entry.own
        /\ e.scope = sl[i][x].entry.scope /\ e.lends = sl[i][x].entry.lends + 1
    BY <1>1 DEF HandleType
  <2> HIDE DEF e, t
  <2>3. t[i][x].tenure = sl[i][x].tenure /\ t[i][x].entry = e
    BY <1>1, <2>1 DEF SlotType
  <2>4. QED
    BY <2>1, <2>2, <2>3
<1> HIDE DEF t
<1>3. Alike(sl, t)
  BY <1>2 DEF Alike
<1>4. \A j \in Inst, y \in Index : t[j][y].entry = None <=> sl[j][y].entry = None
  BY <1>1, <1>2 DEF None
<1>5. TableSound(t)
  BY <1>1, <1>2, <1>4 DEF TableSound, EntrySound
<1>6. Lenders(t, dl, i, x) = Lenders(sl, cl, i, x) \cup {d} /\ d \notin Lenders(sl, cl, i, x)
  BY <1>2 DEF Lenders, Key
<1>7. t[i][x].entry.lends = Cardinality(Lenders(t, dl, i, x))
  <2>1. IsFiniteSet(Lenders(sl, cl, i, x))
    BY CallsFinite DEF Lenders
  <2>2. Cardinality(Lenders(t, dl, i, x)) = Cardinality(Lenders(sl, cl, i, x)) + 1
    BY <1>6, <2>1, FS_AddElement
  <2>3. QED
    BY <1>2, <2>2 DEF LendsCounted
<1>8. ASSUME NEW j \in Inst, NEW y \in Index, ~(j = i /\ y = x), t[j][y].entry # None
      PROVE  t[j][y].entry.lends = Cardinality(Lenders(t, dl, j, y))
  <2>1. t[j][y] = sl[j][y] /\ Key(sl, j, y) # Key(sl, i, x)
    BY <1>2, <1>8 DEF Key
  <2>2. Lenders(t, dl, j, y) = Lenders(sl, cl, j, y)
    BY <2>1 DEF Lenders, Key
  <2>3. QED
    BY <1>8, <2>1, <2>2 DEF LendsCounted
<1>9. ASSUME NEW c \in Calls, NEW h \in dl[c].lenders
      PROVE  h.tenure <= t[h.inst][h.index].tenure
  <2>1. h.inst \in Inst /\ h.index \in Index /\ h.tenure \in Nat
    BY <1>9 DEF CallType, LenderType
  <2>2. CASE c = d
    BY <1>1, <1>2, <2>2 DEF Key
  <2>3. CASE c # d
    BY <1>3, <2>1, <2>3 DEF LendsCounted, Alike
  <2>4. QED
    BY <2>2, <2>3
<1>10. LendsCounted(t, dl)
  BY <1>7, <1>8, <1>9 DEF LendsCounted
<1>11. QED
  BY <1>3, <1>4, <1>5, <1>10 DEF t

\* The lends to the calls of D are released, and the calls have no lenders left.
LEMMA ReleasedSays ==
  ASSUME NEW sl, TableSound(sl), NEW D \in SUBSET Calls,
         call \in [Calls -> CallType], LendsCounted(sl, call),
         \A i \in Inst, x \in Index : sl[i][x].tenure = slot[i][x].tenure,
         NEW cl \in [Calls -> CallType],
         \A c \in Calls : cl[c].lenders = IF c \in D THEN {} ELSE call[c].lenders
  PROVE  /\ TableSound(Released(sl, D))
         /\ Alike(sl, Released(sl, D))
         /\ \A i \in Inst, x \in Index :
              Released(sl, D)[i][x].entry = None <=> sl[i][x].entry = None
         /\ LendsCounted(Released(sl, D), cl)
<1> DEFINE t == Released(sl, D)
<1>1. \A i \in Inst, x \in Index :
         /\ LentTo(i, x, D) = Lenders(sl, call, i, x) \cap D
         /\ Lenders(sl, cl, i, x) = Lenders(sl, call, i, x) \ D
         /\ Lenders(sl, call, i, x) \in SUBSET Calls
  BY DEF LentTo, Lenders, Handle, Key
<1>2. \A i \in Inst, x \in Index :
         /\ Cardinality(Lenders(sl, cl, i, x)) =
              Cardinality(Lenders(sl, call, i, x)) - Cardinality(LentTo(i, x, D))
         /\ Cardinality(LentTo(i, x, D)) <= Cardinality(Lenders(sl, call, i, x))
  <2>1. ASSUME NEW i \in Inst, NEW x \in Index
        PROVE  /\ Cardinality(Lenders(sl, cl, i, x)) =
                    Cardinality(Lenders(sl, call, i, x)) - Cardinality(LentTo(i, x, D))
               /\ Cardinality(LentTo(i, x, D)) <= Cardinality(Lenders(sl, call, i, x))
    <3> DEFINE S == Lenders(sl, call, i, x)
    <3>1. IsFiniteSet(S) /\ S \cap D \in SUBSET S
      BY <1>1, CallsFinite
    <3> HIDE DEF S
    <3>2. Cardinality(S \ D) = Cardinality(S) - Cardinality(S \cap D)
      BY <3>1, FS_Difference
    <3>3. Cardinality(S \cap D) <= Cardinality(S)
      BY <3>1, FS_Subset
    <3>4. QED
      BY <1>1, <3>2, <3>3 DEF S
  <2>2. QED
    BY <2>1
<1>3. \A i \in Inst, x \in Index :
         sl[i][x].entry # None => sl[i][x].entry.lends >= Cardinality(LentTo(i, x, D))
  BY <1>1, <1>2, CallsFinite DEF LendsCounted
<1>4. /\ TableSound(t)
      /\ \A i \in Inst, x \in Index :
           LET e == sl[i][x].entry
               f == t[i][x].entry
           IN  /\ t[i][x].tenure = sl[i][x].tenure
               /\ f.rep = e.rep /\ f.own = e.own /\ f.scope = e.scope
               /\ e = None <=> f = None
               /\ e # None => f.lends = e.lends - Cardinality(LentTo(i, x, D))
  BY <1>3, ReleasedAt
<1> HIDE DEF t
<1>5. Alike(sl, t)
  BY <1>4 DEF Alike
<1>6. \A i \in Inst, x \in Index :
         t[i][x].entry # None => t[i][x].entry.lends = Cardinality(Lenders(t, cl, i, x))
  <2>1. \A i \in Inst, x \in Index : Lenders(t, cl, i, x) = Lenders(sl, cl, i, x)
    BY <1>5, AlikeSays
  <2>2. QED
    BY <1>2, <1>4, <2>1 DEF LendsCounted
<1>7. \A c \in Calls : \A h \in cl[c].lenders : h.tenure <= t[h.inst][h.index].tenure
  <2>1. \A c \in Calls : \A h \in cl[c].lenders :
           h.inst \in Inst /\ h.index \in Index /\ h \in call[c].lenders
    BY DEF CallType, LenderType
  <2>2. QED
    BY <1>4, <2>1 DEF LendsCounted
<1>8. QED
  BY <1>4, <1>5, <1>6, <1>7 DEF LendsCounted, t

\* Only the lenders of the calls matter to the counters of handles.
LEMMA SameLenders ==
  ASSUME NEW sl, NEW cl, NEW dl, LendsCounted(sl, cl),
         \A c \in Calls : dl[c].lenders = cl[c].lenders
  PROVE  LendsCounted(sl, dl)
<1>1. \A i \in Inst, x \in Index : Lenders(sl, dl, i, x) = Lenders(sl, cl, i, x)
  BY DEF Lenders
<1>2. QED
  BY <1>1 DEF LendsCounted

-----------------------------------------------------------------------------
(* The invariant that holds whatever happens.                               *)

\* What holds of each call by itself.
KindSound(r) ==
  /\ r.phase = "free" => r = Idle
  /\ r.phase # "free" => r.kind # "none"
  /\ r.kind \in {"export", "sync", "async"} => r.callee \in Inst
  /\ r.kind \in {"sync", "async", "import"} =>
       r.caller \in Inst /\ r.lent = {} /\ r.args = {} /\ r.result = 0
  /\ r.kind = "import" => r.borrows = 0
  /\ r.kind = "export" => r.lenders = {}
  /\ r.args # {} => r.phase = "waiting"
  /\ r.phase = "waiting" => r.kind = "export" /\ r.borrows = 0
  /\ r.result # 0 => r.phase \in {"resolved", "lost"}
  /\ r.views # {} => r.kind = "import"

\* A stack holds its own call and calls of guests, one of which entered through
\* a lifted function.
StackSound(cl, c) ==
  /\ c \in cl[c].stack
  /\ \A d \in cl[c].stack : cl[d].kind \in {"export", "sync", "async"}
  /\ \E d \in cl[c].stack : cl[d].kind # "sync"

CallsSound(cl) ==
  /\ \A c \in Calls : KindSound(cl[c])
  /\ \A c \in Calls : cl[c].phase # "free" /\ cl[c].kind # "import" => StackSound(cl, c)
  /\ \A c, d \in Calls : c < d /\ cl[d].phase # "free" => cl[c].phase # "free"

WrappersSound(ws) ==
  \A w \in Wrappers :
    /\ ws[w].rep = 0 => ws[w] = Unmade
    /\ ws[w].pending => ws[w].owns /\ ~ws[w].valid /\ ws[w].lends > 0

\* A call refers to wrappers that were made; what an import is lent, the host
\* does not own.
RefsSound(cl, ws) ==
  \A c \in Calls :
    /\ \A w \in cl[c].lent : ws[w].rep # 0
    /\ \A w \in cl[c].views : ws[w].rep # 0 /\ ~ws[w].owns

WrapperLends(cl, ws) ==
  \A w \in Wrappers : ws[w].lends = Cardinality({c \in Calls : w \in cl[c].lent})

\* A call counts the borrow handles of its scope, and while there is one it has
\* not resolved.
ScopesSound(sl, cl) ==
  \A c \in Calls :
    /\ cl[c].borrows >= Cardinality(ScopeSlots(sl, c))
    /\ ScopeSlots(sl, c) # {} =>
         cl[c].phase \in {"open", "failed", "lost"} /\ cl[c].kind # "import"

\* A resource has at most one owner, none once it was destroyed, and one until
\* then unless an instance was poisoned.
Sole(r) ==
  /\ \A o, p \in Owners(r) : o = p
  /\ dtors[r] \in {0, 1}
  /\ dtors[r] = 1 => Owners(r) = {}
  /\ r > born => Owners(r) = {} /\ dtors[r] = 0
  /\ poisoned = {} /\ r <= born => Owners(r) # {} \/ dtors[r] = 1

CountersTyped == born \in 0..MaxReps /\ dtors \in [Reps -> Nat] /\ poisoned \in SUBSET Inst

HandleInv ==
  /\ CountersTyped
  /\ TableSound(slot) /\ LendsCounted(slot, call)
  /\ call \in [Calls -> CallType] /\ CallsSound(call)
  /\ wrapper \in [Wrappers -> WrapperType] /\ WrappersSound(wrapper)
  /\ RefsSound(call, wrapper) /\ WrapperLends(call, wrapper)
  /\ ScopesSound(slot, call)
  /\ \A r \in Reps : Sole(r)

\* Four kinds of owners, told apart.
WrapperOwners(ws, r) ==
  {w \in Wrappers : ws[w].rep = r /\ ws[w].owns /\ (ws[w].valid \/ ws[w].pending)}
Custodians(cl, r) == {c \in Calls : r \in cl[c].args}
Resulting(cl, r) == {c \in Calls : cl[c].result = r}
Told(A, B, C, D) ==
  ({"slot"} \X A) \cup ({"wrapper"} \X B) \cup ({"custody"} \X C) \cup ({"result"} \X D)

LEMMA OwnersAre ==
  ASSUME NEW r
  PROVE  Owners(r) = Told(TableOwners(slot, r), WrapperOwners(wrapper, r),
                          Custodians(call, r), Resulting(call, r))
BY DEF Owners, Told, TableOwners, WrapperOwners, Custodians, Resulting, At, Entry

LEMMA OwnersNext ==
  \A r : Owners(r)' = Told(TableOwners(slot', r), WrapperOwners(wrapper', r),
                           Custodians(call', r), Resulting(call', r))
BY DEF Owners, Told, TableOwners, WrapperOwners, Custodians, Resulting, At, Entry

LEMMA DestroyedSays ==
  ASSUME dtors \in [Reps -> Nat], NEW R
  PROVE  /\ Destroyed(R) \in [Reps -> Nat]
         /\ \A r \in Reps : Destroyed(R)[r] = IF r \in R THEN dtors[r] + 1 ELSE dtors[r]
BY DEF Destroyed

LEMMA DestroyedOne ==
  ASSUME dtors \in [Reps -> Nat], NEW r \in Reps
  PROVE  Destroyed({r})[r] = dtors[r] + 1
BY DestroyedSays

\* What gives one back out of enough is still enough for one less.
LEMMA CountLess ==
  ASSUME NEW b \in Nat, NEW s \in Nat, NEW t \in Nat, t = s - 1, b >= s
  PROVE  b - 1 \in Nat /\ b - 1 >= t
OBVIOUS

LEMMA ToldOne ==
  /\ \A s : Told({s}, {}, {}, {}) = {<<"slot", s>>}
  /\ \A s : Told({}, {s}, {}, {}) = {<<"wrapper", s>>}
  /\ \A s : Told({}, {}, {s}, {}) = {<<"custody", s>>}
  /\ \A s : Told({}, {}, {}, {s}) = {<<"result", s>>}
  /\ Told({}, {}, {}, {}) = {}
BY DEF Told

LEMMA ToldHas ==
  ASSUME NEW A, NEW B, NEW C, NEW D
  PROVE  /\ \A s \in A : <<"slot", s>> \in Told(A, B, C, D)
         /\ \A s \in B : <<"wrapper", s>> \in Told(A, B, C, D)
         /\ \A s \in C : <<"custody", s>> \in Told(A, B, C, D)
         /\ \A s \in D : <<"result", s>> \in Told(A, B, C, D)
BY DEF Told

LEMMA ToldAlone ==
  ASSUME NEW A, NEW B, NEW C, NEW D, \A o, p \in Told(A, B, C, D) : o = p
  PROVE  /\ \A s \in A : A = {s} /\ B = {} /\ C = {} /\ D = {}
         /\ \A s \in B : A = {} /\ B = {s} /\ C = {} /\ D = {}
         /\ \A s \in C : A = {} /\ B = {} /\ C = {s} /\ D = {}
         /\ \A s \in D : A = {} /\ B = {} /\ C = {} /\ D = {s}
<1>0. /\ \A s \in A : <<"slot", s>> \in Told(A, B, C, D)
      /\ \A s \in B : <<"wrapper", s>> \in Told(A, B, C, D)
      /\ \A s \in C : <<"custody", s>> \in Told(A, B, C, D)
      /\ \A s \in D : <<"result", s>> \in Told(A, B, C, D)
  BY ToldHas
<1>1. \A s, t : /\ <<"slot", s>> # <<"wrapper", t>> /\ <<"slot", s>> # <<"custody", t>>
                /\ <<"slot", s>> # <<"result", t>> /\ <<"wrapper", s>> # <<"custody", t>>
                /\ <<"wrapper", s>> # <<"result", t>> /\ <<"custody", s>> # <<"result", t>>
  OBVIOUS
<1>2. \A k, s, t : <<k, s>> = <<k, t>> => s = t
  OBVIOUS
<1>3. \A s \in A : A = {s} /\ B = {} /\ C = {} /\ D = {}
  BY <1>0, <1>1, <1>2
<1>4. \A s \in B : A = {} /\ B = {s} /\ C = {} /\ D = {}
  BY <1>0, <1>1, <1>2
<1>5. \A s \in C : A = {} /\ B = {} /\ C = {s} /\ D = {}
  BY <1>0, <1>1, <1>2
<1>6. \A s \in D : A = {} /\ B = {} /\ C = {} /\ D = {s}
  BY <1>0, <1>1, <1>2
<1>7. QED
  BY <1>3, <1>4, <1>5, <1>6

\* The owner of a resource, where it is known to be.
LEMMA OwnerAlone ==
  ASSUME NEW r \in Reps, CountersTyped, Sole(r)
  PROVE  LET A == TableOwners(slot, r)
             B == WrapperOwners(wrapper, r)
             C == Custodians(call, r)
             D == Resulting(call, r)
         IN  /\ \A s \in A : A = {s} /\ B = {} /\ C = {} /\ D = {}
             /\ \A s \in B : A = {} /\ B = {s} /\ C = {} /\ D = {}
             /\ \A s \in C : A = {} /\ B = {} /\ C = {s} /\ D = {}
             /\ \A s \in D : A = {} /\ B = {} /\ C = {} /\ D = {s}
             /\ \A s : s \in A \/ s \in B \/ s \in C \/ s \in D =>
                  Owners(r) # {} /\ dtors[r] = 0 /\ r <= born
<1> DEFINE A == TableOwners(slot, r)
           B == WrapperOwners(wrapper, r)
           C == Custodians(call, r)
           D == Resulting(call, r)
<1>1. Owners(r) = Told(A, B, C, D)
  BY OwnersAre
<1> HIDE DEF A, B, C, D
<1>2. \A o, p \in Told(A, B, C, D) : o = p
  BY <1>1 DEF Sole
<1>3. /\ \A s \in A : A = {s} /\ B = {} /\ C = {} /\ D = {}
      /\ \A s \in B : A = {} /\ B = {s} /\ C = {} /\ D = {}
      /\ \A s \in C : A = {} /\ B = {} /\ C = {s} /\ D = {}
      /\ \A s \in D : A = {} /\ B = {} /\ C = {} /\ D = {s}
  BY <1>2, ToldAlone
<1>4. \A s : s \in A \/ s \in B \/ s \in C \/ s \in D => Owners(r) # {}
  BY <1>1, ToldHas
<1>5. Owners(r) # {} => dtors[r] = 0 /\ r <= born
  <2>1. r \in Nat
    BY DEF Reps
  <2>2. QED
    BY <2>1 DEF Sole, CountersTyped
<1>6. QED
  BY <1>3, <1>4, <1>5 DEF A, B, C, D

\* A step leaves the owner of a resource, moves it, loses it where an instance is
\* poisoned, or destroys the resource.
LEMMA SoleKept ==
  ASSUME NEW r \in Reps, Sole(r), born' = born, poisoned \subseteq poisoned',
         \/ /\ dtors'[r] = dtors[r]
            /\ \/ Owners(r)' = Owners(r)
               \/ Owners(r)' \subseteq Owners(r) /\ poisoned' # {}
               \/ Owners(r) # {} /\ \E o : Owners(r)' = {o}
         \/ dtors'[r] = dtors[r] + 1 /\ Owners(r) # {} /\ Owners(r)' = {}
  PROVE  Sole(r)'
BY DEF Sole

\* What the invariant says of the properties.
LEMMA HandleTyped == ASSUME HandleInv PROVE TypeOK
BY DEF HandleInv, CountersTyped, TypeOK, TableSound, TableType, SlotType, WrapperType,
       CallType, LenderType, Kinds

LEMMA HandleSole == ASSUME HandleInv PROVE SoleOwner
<1>1. ASSUME NEW r \in 1..born
      PROVE  LET n == Cardinality(Owners(r)) + dtors[r] IN n <= 1 /\ (poisoned = {} => n = 1)
  <2>1. r \in Reps /\ r <= born
    BY BoundsAssumption DEF HandleInv, CountersTyped, Reps
  <2>2. Sole(r)
    BY <2>1 DEF HandleInv
  <2>3. CASE Owners(r) = {}
    <3>1. Cardinality(Owners(r)) = 0
      BY <2>3, FS_EmptySet
    <3>2. QED
      BY <2>1, <2>2, <2>3, <3>1 DEF Sole
  <2>4. CASE Owners(r) # {}
    <3>1. PICK o : Owners(r) = {o}
      BY <2>2, <2>4 DEF Sole
    <3>2. Cardinality(Owners(r)) = 1
      BY <3>1, FS_Singleton
    <3>3. dtors[r] = 0
      BY <2>2, <2>4 DEF Sole
    <3>4. QED
      BY <3>2, <3>3
  <2>5. QED
    BY <2>3, <2>4
<1>2. QED
  BY <1>1 DEF SoleOwner

LEMMA HandleInit == ASSUME Init PROVE HandleInv
<1>1. /\ slot = [i \in Inst |-> [x \in Index |-> [tenure |-> 0, entry |-> None]]]
      /\ call = [c \in Calls |-> Idle] /\ wrapper = [w \in Wrappers |-> Unmade]
      /\ born = 0 /\ dtors = [r \in Reps |-> 0] /\ poisoned = {}
  BY DEF Init
<1>2. CountersTyped
  BY <1>1, BoundsAssumption DEF CountersTyped
<1>3. TableSound(slot)
  <2>1. [tenure |-> 0, entry |-> None] \in SlotType
    BY EntryTyped DEF SlotType
  <2>2. QED
    BY <1>1, <2>1 DEF TableSound, TableType, EntrySound
<1>4. /\ Idle \in CallType /\ KindSound(Idle) /\ Idle.phase = "free"
      /\ Idle.lenders = {} /\ Idle.lent = {} /\ Idle.views = {} /\ Idle.args = {}
      /\ Idle.result = 0 /\ Idle.borrows = 0
  BY BoundsAssumption DEF Idle, CallType, Phases, Kinds, KindSound
<1>5. call \in [Calls -> CallType] /\ CallsSound(call)
  BY <1>1, <1>4 DEF CallsSound
<1>6. /\ Unmade \in WrapperType /\ Unmade.rep = 0 /\ ~Unmade.owns /\ Unmade.lends = 0
      /\ ~Unmade.pending
  BY BoundsAssumption DEF Unmade, WrapperType
<1>7. wrapper \in [Wrappers -> WrapperType] /\ WrappersSound(wrapper)
  BY <1>1, <1>6 DEF WrappersSound
<1>8. RefsSound(call, wrapper)
  BY <1>1, <1>4 DEF RefsSound
<1>9. LendsCounted(slot, call)
  BY <1>1, <1>4 DEF LendsCounted
<1>10. WrapperLends(call, wrapper)
  <2>1. \A w \in Wrappers : {c \in Calls : w \in call[c].lent} = {}
    BY <1>1, <1>4
  <2>2. QED
    BY <1>1, <1>6, <2>1, FS_EmptySet DEF WrapperLends
<1>11. \A s \in Slots : slot[s[1]][s[2]].entry = None
  BY <1>1, SlotsAre
<1>12. ScopesSound(slot, call)
  <2>1. \A c \in Calls : ScopeSlots(slot, c) = {} /\ call[c].borrows = 0
    <3>1. \A c \in Calls : c # 0
      BY BoundsAssumption DEF Calls
    <3>2. \A s \in Slots : slot[s[1]][s[2]].entry.scope = 0
      BY <1>11, EntryTyped
    <3>3. \A c \in Calls : ScopeSlots(slot, c) = {}
      BY <3>1, <3>2 DEF ScopeSlots
    <3>4. \A c \in Calls : call[c].borrows = 0
      BY <1>1, <1>4
    <3>5. QED
      BY <3>3, <3>4
  <2>2. QED
    BY <2>1, FS_EmptySet DEF ScopesSound
<1>13. ASSUME NEW r \in Reps PROVE Sole(r)
  <2>1. TableOwners(slot, r) = {}
    BY <1>11, EntryTyped DEF TableOwners
  <2>2. WrapperOwners(wrapper, r) = {} /\ Custodians(call, r) = {} /\ Resulting(call, r) = {}
    BY <1>1, <1>4, <1>6, BoundsAssumption DEF WrapperOwners, Custodians, Resulting, Reps
  <2>3. Owners(r) = {}
    BY <2>1, <2>2, OwnersAre, ToldOne
  <2>4. QED
    BY <1>1, <2>3, BoundsAssumption DEF Sole, Reps
<1>14. QED
  BY <1>2, <1>3, <1>5, <1>7, <1>8, <1>9, <1>10, <1>12, <1>13 DEF HandleInv

\* A step that starts no call, and leaves a stack or takes one to itself.
LEMMA CallsKept ==
  ASSUME NEW cl \in [Calls -> CallType], CallsSound(cl), NEW dl,
         \A c \in Calls :
           /\ KindSound(dl[c])
           /\ dl[c].kind = cl[c].kind
           /\ dl[c].phase = "free" <=> cl[c].phase = "free"
           /\ dl[c].stack = cl[c].stack \/ (dl[c].stack = {c} /\ cl[c].kind = "async")
  PROVE  CallsSound(dl)
<1>1. ASSUME NEW c \in Calls, dl[c].phase # "free", dl[c].kind # "import"
      PROVE  StackSound(dl, c)
  <2>1. cl[c].phase # "free" /\ cl[c].kind # "import" /\ StackSound(cl, c)
    BY <1>1 DEF CallsSound
  <2>2. CASE dl[c].stack = cl[c].stack
    <3>1. \A d \in cl[c].stack : d \in Calls
      BY DEF CallType
    <3>2. QED
      BY <2>1, <2>2, <3>1 DEF StackSound
  <2>3. QED
    BY <1>1, <2>1, <2>2 DEF StackSound
<1>2. QED
  BY <1>1 DEF CallsSound

\* A step that starts a call.
LEMMA CallStarts ==
  ASSUME NEW cl \in [Calls -> CallType], CallsSound(cl), NEW d \in Calls, NEW r \in CallType,
         cl[d].phase = "free", \A e \in 1..(d - 1) : cl[e].phase # "free",
         KindSound(r), r.phase # "free",
         r.kind # "import" =>
           /\ d \in r.stack
           /\ r.kind # "none"
           /\ \A e \in r.stack : e = d \/ cl[e].kind \in {"export", "sync", "async"}
           /\ r.kind # "sync" \/ \E e \in r.stack : e # d /\ cl[e].kind # "sync"
  PROVE  CallsSound([cl EXCEPT ![d] = r])
<1> DEFINE dl == [cl EXCEPT ![d] = r]
<1>1. dl \in [Calls -> CallType] /\ dl[d] = r /\ \A c \in Calls : c # d => dl[c] = cl[c]
  OBVIOUS
<1> HIDE DEF dl
<1>2. cl[d].kind = "none"
  BY DEF CallsSound, KindSound, Idle
<1>3. ASSUME NEW c \in Calls, dl[c].phase # "free", dl[c].kind # "import"
      PROVE  StackSound(dl, c)
  <2>1. \A e \in dl[c].stack : e \in Calls
    BY <1>1 DEF CallType
  <2>2. CASE c # d
    <3>1. StackSound(cl, c) /\ dl[c] = cl[c]
      BY <1>1, <1>3, <2>2 DEF CallsSound
    <3>2. d \notin cl[c].stack
      BY <1>2, <3>1 DEF StackSound
    <3>3. QED
      BY <1>1, <2>1, <3>1, <3>2 DEF StackSound
  <2>3. CASE c = d
    <3>1. dl[d] = r /\ r.kind \in {"export", "sync", "async"}
      BY <1>1, <1>3, <2>3 DEF CallType, Kinds
    <3>2. \A e \in r.stack : e # d => dl[e] = cl[e]
      BY <1>1, <2>1, <2>3
    <3>3. QED
      BY <2>3, <3>1, <3>2 DEF StackSound
  <2>4. QED
    BY <2>2, <2>3
<1>4. ASSUME NEW c \in Calls, NEW e \in Calls, c < e, dl[e].phase # "free"
      PROVE  dl[c].phase # "free"
  <2>1. CASE e = d
    <3>1. c \in 1..(d - 1)
      BY <1>4, <2>1, BoundsAssumption DEF Calls
    <3>2. c # d
      BY <1>4, <2>1, BoundsAssumption DEF Calls
    <3>3. QED
      BY <1>1, <3>1, <3>2
  <2>2. CASE e # d
    BY <1>1, <1>4, <2>2 DEF CallsSound
  <2>3. QED
    BY <2>1, <2>2
<1>5. QED
  BY <1>1, <1>3, <1>4 DEF CallsSound, dl

-----------------------------------------------------------------------------
(* Traps.                                                                   *)

\* The parts of the invariant, under one name.
LEMMA HandleParts ==
  ASSUME HandleInv
  PROVE  /\ CountersTyped /\ born \in 0..MaxReps /\ dtors \in [Reps -> Nat]
         /\ poisoned \in SUBSET Inst
         /\ TableSound(slot) /\ slot \in TableType /\ LendsCounted(slot, call)
         /\ call \in [Calls -> CallType] /\ CallsSound(call)
         /\ \A c \in Calls : KindSound(call[c])
         /\ wrapper \in [Wrappers -> WrapperType] /\ WrappersSound(wrapper)
         /\ RefsSound(call, wrapper) /\ WrapperLends(call, wrapper)
         /\ ScopesSound(slot, call) /\ \A r \in Reps : Sole(r)
BY DEF HandleInv, CountersTyped, TableSound, CallsSound

LEMMA RunningSays ==
  ASSUME HandleInv, NEW c \in Calls, Running(c)
  PROVE  /\ call[c].phase = "open" /\ call[c].kind \in {"export", "sync", "async"}
         /\ call[c].callee \in Inst /\ call[c].args = {} /\ call[c].result = 0
         /\ call[c].views = {} /\ StackSound(call, c)
<1>1. call[c] \in CallType /\ KindSound(call[c]) /\ call[c].phase = "open" /\ call[c].kind # "import"
  BY HandleParts DEF Running
<1>2. call[c].kind \in {"export", "sync", "async"}
  BY <1>1 DEF CallType, Kinds, KindSound
<1>3. StackSound(call, c)
  BY <1>1, HandleParts DEF CallsSound
<1>4. QED
  BY <1>1, <1>2, <1>3 DEF KindSound

LEMMA EnteredSays ==
  ASSUME HandleInv, NEW c \in Calls, StackSound(call, c)
  PROVE  Entered(c) \in SUBSET Inst /\ Entered(c) # {}
<1>1. \A d \in call[c].stack : d \in Calls
  BY HandleParts DEF CallType
<1>2. \A d \in call[c].stack : call[d].callee \in Inst
  BY <1>1, HandleParts DEF StackSound, KindSound
<1>3. QED
  BY <1>2 DEF Entered, StackSound

\* The unwind of a trap, with what the trapping step removed and destroyed first.
LEMMA UnwindInv ==
  ASSUME HandleInv, NEW c \in Calls, StackSound(call, c),
         NEW sl, TableSound(sl), LendsCounted(sl, call),
         \A i \in Inst, x \in Index : sl[i][x].tenure = slot[i][x].tenure,
         \A r \in Reps : TableOwners(sl, r) \subseteq TableOwners(slot, r),
         \A d \in Calls : ScopeSlots(sl, d) \subseteq ScopeSlots(slot, d),
         NEW bad \in SUBSET Inst, Entered(c) \subseteq bad,
         NEW R \in SUBSET Reps,
         \A r \in R : TableOwners(slot, r) # {} /\ TableOwners(sl, r) = {},
         Unwind(c, sl, bad, R)
  PROVE  HandleInv'
<1> DEFINE failed == FailedBy(bad)
           lost == LostBy(c, bad)
           inCustody == UNION {call[d].args : d \in failed}
<1>1. /\ poisoned' = poisoned \cup bad /\ slot' = Released(sl, Unwound(c))
      /\ call' = [d \in Calls |->
           IF d \in failed THEN [call[d] EXCEPT !.phase = "failed", !.args = {}]
           ELSE IF d \in lost
                THEN [call[d] EXCEPT !.phase = "lost",
                        !.lenders = IF d \in Unwound(c) THEN {} ELSE @]
           ELSE call[d]]
      /\ dtors' = Destroyed(R \cup IF Impl \in poisoned' THEN {} ELSE inCustody)
      /\ wrapper' = wrapper /\ born' = born
  BY DEF Unwind
<1>2. /\ failed \in SUBSET Calls /\ lost \in SUBSET Calls /\ Unwound(c) \in SUBSET Calls
      /\ Unwound(c) \subseteq lost /\ call[c].stack \in SUBSET Calls
      /\ \A d \in failed : call[d].kind = "export" /\ call[d].phase \in {"waiting", "open"}
      /\ \A d \in Unwound(c) : call[d].kind \in {"sync", "async"}
  BY HandleParts DEF FailedBy, LostBy, Unwound, CallType
<1>3. \A d \in lost : d \notin failed => call[d].phase \notin {"free", "waiting"}
  <2>1. ASSUME NEW d \in call[c].stack, d \notin failed
        PROVE  call[d].phase \notin {"free", "waiting"}
    <3>1. d \in Calls /\ KindSound(call[d]) /\ call[d].kind \in {"export", "sync", "async"}
      BY <1>2, HandleParts DEF StackSound
    <3>2. call[d].phase # "free"
      BY <3>1 DEF KindSound, Idle
    <3>3. call[d].phase = "waiting" => call[d].kind = "export" /\ call[d].callee \in Entered(c)
      BY <3>1 DEF KindSound, Entered
    <3>4. QED
      BY <2>1, <3>1, <3>2, <3>3 DEF FailedBy
  <2>2. QED
    BY <2>1 DEF LostBy
<1>4. poisoned' \in SUBSET Inst /\ poisoned' # {} /\ poisoned \subseteq poisoned'
  BY <1>1, EnteredSays, HandleParts
<1>5. /\ inCustody \in SUBSET Reps
      /\ \A r \in inCustody : \E d \in failed : d \in Custodians(call, r)
  BY <1>2, HandleParts DEF CallType, Custodians
<1> HIDE DEF failed, lost, inCustody
<1>6. ASSUME NEW d \in Calls
      PROVE  /\ call'[d] \in CallType /\ KindSound(call'[d])
             /\ call'[d].kind = call[d].kind /\ call'[d].stack = call[d].stack
             /\ call'[d].phase = "free" <=> call[d].phase = "free"
             /\ call'[d].phase = call[d].phase \/ call'[d].phase \in {"failed", "lost"}
             /\ call'[d].lent = call[d].lent /\ call'[d].views = call[d].views
             /\ call'[d].borrows = call[d].borrows /\ call'[d].result = call[d].result
             /\ call'[d].args = IF d \in failed THEN {} ELSE call[d].args
             /\ call'[d].lenders = IF d \in Unwound(c) THEN {} ELSE call[d].lenders
  <2>1. call[d] \in CallType /\ KindSound(call[d])
    BY HandleParts
  <2>2. CASE d \in failed
    <3>1. call'[d] = [call[d] EXCEPT !.phase = "failed", !.args = {}] /\ d \notin Unwound(c)
      BY <1>1, <1>2, <2>2
    <3>2. QED
      BY <1>2, <2>1, <2>2, <3>1 DEF CallType, Phases, KindSound
  <2>3. CASE d \notin failed /\ d \in lost
    <3> DEFINE ls == IF d \in Unwound(c) THEN {} ELSE call[d].lenders
    <3>1. call'[d] = [call[d] EXCEPT !.phase = "lost", !.lenders = ls]
      BY <1>1, <2>3
    <3>2. ls \in SUBSET LenderType /\ (call[d].kind = "export" => ls = {})
      BY <2>1 DEF CallType, KindSound
    <3>3. call[d].phase \notin {"free", "waiting"}
      BY <1>3, <2>3
    <3> HIDE DEF ls
    <3>4. call'[d] \in CallType /\ KindSound(call'[d])
      BY <2>1, <3>1, <3>2, <3>3 DEF CallType, Phases, KindSound
    <3>5. QED
      BY <2>1, <2>3, <3>1, <3>3, <3>4 DEF CallType, ls
  <2>4. CASE d \notin failed /\ d \notin lost
    <3>1. call'[d] = call[d] /\ d \notin Unwound(c)
      BY <1>1, <1>2, <2>4
    <3>2. QED
      BY <2>1, <2>4, <3>1
  <2>5. QED
    BY <2>2, <2>3, <2>4
<1>7. call' \in [Calls -> CallType]
  BY <1>1, <1>6
<1>8. CallsSound(call')
  BY <1>6, CallsKept, HandleParts
<1>9. /\ TableSound(slot') /\ LendsCounted(slot', call')
      /\ \A r \in Reps : TableOwners(slot', r) = TableOwners(sl, r)
      /\ \A d \in Calls : ScopeSlots(slot', d) = ScopeSlots(sl, d)
  <2>1. \A d \in Calls : call'[d].lenders = IF d \in Unwound(c) THEN {} ELSE call[d].lenders
    BY <1>6
  <2>2. TableSound(slot') /\ LendsCounted(slot', call') /\ Alike(sl, slot')
    BY <1>1, <1>2, <1>7, <2>1, ReleasedSays, HandleParts
  <2>3. QED
    BY <2>2, AlikeSays
<1>10. RefsSound(call', wrapper') /\ WrapperLends(call', wrapper')
  <2>1. \A w \in Wrappers : {d \in Calls : w \in call'[d].lent} = {d \in Calls : w \in call[d].lent}
    BY <1>6
  <2>2. \A d \in Calls : call'[d].lent = call[d].lent /\ call'[d].views = call[d].views
    BY <1>6
  <2>3. RefsSound(call', wrapper')
    BY <1>1, <2>2, HandleParts DEF RefsSound
  <2>4. WrapperLends(call', wrapper')
    BY <1>1, <2>1, HandleParts DEF WrapperLends
  <2>5. QED
    BY <2>3, <2>4
<1>11. ScopesSound(slot', call')
  <2>1. ASSUME NEW d \in Calls
        PROVE  /\ call'[d].borrows >= Cardinality(ScopeSlots(slot', d))
               /\ ScopeSlots(slot', d) # {} =>
                    call'[d].phase \in {"open", "failed", "lost"} /\ call'[d].kind # "import"
    <3>1. ScopeSlots(slot', d) \subseteq ScopeSlots(slot, d)
      BY <1>9
    <3>2. Cardinality(ScopeSlots(slot', d)) <= Cardinality(ScopeSlots(slot, d))
      BY <3>1, ScopesFinite, FS_Subset
    <3>3. /\ call[d].borrows >= Cardinality(ScopeSlots(slot, d)) /\ call[d].borrows \in Nat
          /\ ScopeSlots(slot, d) # {} =>
               call[d].phase \in {"open", "failed", "lost"} /\ call[d].kind # "import"
      BY HandleParts DEF ScopesSound, CallType
    <3>4. call'[d].borrows >= Cardinality(ScopeSlots(slot', d))
      BY <1>6, <3>2, <3>3, ScopesFinite
    <3>5. QED
      BY <1>6, <3>1, <3>3, <3>4
  <2>2. QED
    BY <2>1 DEF ScopesSound
<1>12. ASSUME NEW r \in Reps PROVE Sole(r)'
  <2> DEFINE A == TableOwners(slot, r)
             B == WrapperOwners(wrapper, r)
             C == Custodians(call, r)
             D == Resulting(call, r)
             Ap == TableOwners(sl, r)
             Cp == Custodians(call, r) \ failed
  <2>1. Custodians(call', r) = Cp /\ Resulting(call', r) = D /\ WrapperOwners(wrapper', r) = B
    <3>1. \A d \in Calls : /\ call'[d].result = call[d].result
                           /\ call'[d].args = IF d \in failed THEN {} ELSE call[d].args
      BY <1>6
    <3>2. QED
      <4>1. Custodians(call', r) = Cp
        BY <3>1 DEF Custodians
      <4>2. Resulting(call', r) = D
        BY <3>1 DEF Resulting
      <4>3. QED
        BY <1>1, <4>1, <4>2
  <2>2. Owners(r) = Told(A, B, C, D)
    BY OwnersAre
  <2>3. Owners(r)' = Told(Ap, B, Cp, D)
    BY <1>9, <2>1, OwnersNext
  <2>4. Ap \subseteq A /\ Cp \subseteq C
    OBVIOUS
  <2>5. Sole(r) /\ dtors \in [Reps -> Nat]
    BY HandleParts
  <2>6. /\ \A s \in A : A = {s} /\ B = {} /\ C = {} /\ D = {}
        /\ \A s \in C : A = {} /\ B = {} /\ C = {s} /\ D = {}
        /\ \A s : s \in A \/ s \in C => Owners(r) # {}
    BY <2>5, OwnerAlone, HandleParts
  <2>7. /\ r \in R => A # {} /\ Ap = {}
        /\ r \in inCustody => \E d \in failed : d \in C
    BY <1>5
  <2>8. /\ dtors'[r] = dtors[r] \/ (dtors'[r] = dtors[r] + 1 /\ (r \in R \/ r \in inCustody))
    <3>1. PICK Q : /\ Q \subseteq R \cup inCustody
                   /\ dtors' = Destroyed(Q)
      BY <1>1
    <3>2. dtors'[r] = IF r \in Q THEN dtors[r] + 1 ELSE dtors[r]
      BY <2>5, <3>1, DestroyedSays
    <3>3. QED
      BY <3>1, <3>2
  <2>9. Owners(r)' \subseteq Owners(r)
    BY <2>2, <2>3, <2>4 DEF Told
  <2> HIDE DEF A, B, C, D
  <2>10. r \in R \/ r \in inCustody => Owners(r)' = {} /\ Owners(r) # {}
    <3>1. CASE r \in R
      <4>1. Ap = {} /\ B = {} /\ C = {} /\ D = {} /\ Owners(r) # {}
        BY <2>6, <2>7, <3>1
      <4>2. Cp = {}
        BY <2>4, <4>1
      <4>3. QED
        BY <2>3, <4>1, <4>2, ToldOne
    <3>2. CASE r \in inCustody
      <4>1. PICK d \in failed : d \in C
        BY <2>7, <3>2
      <4>2. A = {} /\ B = {} /\ C = {d} /\ D = {} /\ Owners(r) # {}
        BY <2>6, <4>1
      <4>3. Ap = {} /\ Cp = {}
        BY <2>4, <4>1, <4>2 DEF C
      <4>4. QED
        BY <2>3, <4>2, <4>3, ToldOne
    <3>3. QED
      BY <3>1, <3>2
  <2>11. QED
    BY <1>1, <1>4, <2>5, <2>8, <2>9, <2>10, SoleKept
<1>13. CountersTyped'
  <2>1. dtors' \in [Reps -> Nat]
    BY <1>1, DestroyedSays, HandleParts
  <2>2. QED
    BY <1>1, <1>4, <2>1, HandleParts DEF CountersTyped
<1>14. WrappersSound(wrapper') /\ wrapper' \in [Wrappers -> WrapperType]
  BY <1>1, HandleParts
<1>15. QED
  BY <1>7, <1>8, <1>9, <1>10, <1>11, <1>12, <1>13, <1>14 DEF HandleInv

\* A trap that destroys nothing, with a handle removed or none.
LEMMA PlainUnwindInv ==
  ASSUME HandleInv, NEW c \in Calls, StackSound(call, c), Unwind(c, slot, Entered(c), {})
  PROVE  HandleInv'
<1>1. Entered(c) \in SUBSET Inst /\ Entered(c) \subseteq Entered(c)
  BY EnteredSays
<1>2. TableSound(slot) /\ LendsCounted(slot, call)
  BY HandleParts
<1>3. /\ \A i \in Inst, x \in Index : slot[i][x].tenure = slot[i][x].tenure
      /\ \A r \in Reps : TableOwners(slot, r) \subseteq TableOwners(slot, r)
      /\ \A d \in Calls : ScopeSlots(slot, d) \subseteq ScopeSlots(slot, d)
      /\ {} \in SUBSET Reps
      /\ \A r \in {} : TableOwners(slot, r) # {} /\ TableOwners(slot, r) = {}
  OBVIOUS
<1>4. QED
  BY <1>1, <1>2, <1>3, UnwindInv

LEMMA TenuresKept ==
  ASSUME HandleInv, NEW i \in Inst, NEW x \in Index
  PROVE  \A j \in Inst, y \in Index : Removed(slot, i, x)[j][y].tenure = slot[j][y].tenure
<1>1. slot \in TableType
  BY HandleParts
<1>2. QED
  BY <1>1, RemovedAt

LEMMA RemovingUnwindInv ==
  ASSUME HandleInv, NEW c \in Calls, StackSound(call, c), NEW i \in Inst, NEW x \in Index,
         Unwind(c, Removed(slot, i, x), Entered(c), {})
  PROVE  HandleInv'
<1> DEFINE sl == Removed(slot, i, x)
<1>1. /\ TableSound(sl) /\ LendsCounted(sl, call)
      /\ \A r \in Reps : TableOwners(sl, r) \subseteq TableOwners(slot, r)
      /\ \A d \in Calls : ScopeSlots(sl, d) \subseteq ScopeSlots(slot, d)
  BY RemovedSays, HandleParts
<1>2. \A j \in Inst, y \in Index : sl[j][y].tenure = slot[j][y].tenure
  BY TenuresKept
<1>3. Entered(c) \in SUBSET Inst /\ Entered(c) \subseteq Entered(c)
  BY EnteredSays
<1>4. {} \in SUBSET Reps /\ \A r \in {} : TableOwners(slot, r) # {} /\ TableOwners(sl, r) = {}
  OBVIOUS
<1>5. Unwind(c, sl, Entered(c), {})
  OBVIOUS
<1> HIDE DEF sl
<1>6. QED
  BY <1>1, <1>2, <1>3, <1>4, <1>5, UnwindInv

LEMMA TrapsInv == ASSUME HandleInv, NEW c \in Calls, Traps(c) PROVE HandleInv'
BY RunningSays, PlainUnwindInv DEF Traps

LEMMA EntersTrapsInv == ASSUME HandleInv, NEW c \in Calls, EntersTraps(c) PROVE HandleInv'
<1>1. StackSound(call, c)
  BY HandleParts DEF EntersTraps, CallsSound, KindSound
<1>2. QED
  BY <1>1, PlainUnwindInv DEF EntersTraps

LEMMA ReturnTrapsInv ==
  ASSUME HandleInv, NEW d \in Calls, NEW x \in {0} \cup Index, ReturnTraps(d, x)
  PROVE  HandleInv'
<1>1. call[d].callee \in Inst /\ StackSound(call, d)
  BY RunningSays DEF ReturnTraps
<1>2. CASE x = 0
  BY <1>1, <1>2, PlainUnwindInv DEF ReturnTraps, Lifted
<1>3. CASE x # 0
  BY <1>1, <1>3, RemovingUnwindInv DEF ReturnTraps, Lifted
<1>4. QED
  BY <1>2, <1>3

LEMMA GuestCallTrapsInv ==
  ASSUME HandleInv, NEW c \in Calls, NEW j \in Inst, NEW form \in Forms, NEW x \in Index,
         GuestCallTraps(c, j, form, x)
  PROVE  HandleInv'
<1>1. call[c].callee \in Inst /\ StackSound(call, c)
  BY RunningSays DEF GuestCallTraps
<1>2. CASE ~Refuses(j, call[c].callee) /\ form = "own"
  BY <1>1, <1>2, RemovingUnwindInv DEF GuestCallTraps
<1>3. CASE ~(~Refuses(j, call[c].callee) /\ form = "own")
  BY <1>1, <1>3, PlainUnwindInv DEF GuestCallTraps
<1>4. QED
  BY <1>2, <1>3

LEMMA ResourceDropTrapsInv ==
  ASSUME HandleInv, NEW c \in Calls, NEW x \in Index, ResourceDropTraps(c, x)
  PROVE  HandleInv'
<1> DEFINE i == call[c].callee
           h == Entry(i, x)
           sl == Removed(slot, i, x)
           bad == Entered(c) \cup {Impl}
<1>1. i \in Inst /\ StackSound(call, c) /\ h # None
  BY RunningSays DEF ResourceDropTraps
<1>2. CASE Unwind(c, sl, Entered(c), {})
  BY <1>1, <1>2, RemovingUnwindInv
<1>3. CASE h.own /\ Unwind(c, sl, bad, {h.rep})
  <2>1. h.rep \in Reps /\ h \in HandleType
    <3>1. h \in HandleType /\ EntrySound(h)
      BY <1>1, HandleParts DEF TableSound, TableType, SlotType, Entry
    <3>2. h.rep # 0
      BY <1>1, <3>1 DEF EntrySound
    <3>3. QED
      BY <3>1, <3>2, BoundsAssumption DEF HandleType, Reps
  <2>2. <<i, x>> \in TableOwners(slot, h.rep)
    BY <1>1, <1>3, SlotsAre DEF TableOwners, Entry
  <2>3. TableOwners(slot, h.rep) = {<<i, x>>}
    BY <2>1, <2>2, OwnerAlone, HandleParts
  <2>4. /\ TableSound(sl) /\ LendsCounted(sl, call)
        /\ \A r \in Reps : TableOwners(sl, r) = TableOwners(slot, r) \ {<<i, x>>}
        /\ \A d \in Calls : ScopeSlots(sl, d) = ScopeSlots(slot, d) \ {<<i, x>>}
    BY <1>1, RemovedSays, HandleParts
  <2>5. \A j \in Inst, y \in Index : sl[j][y].tenure = slot[j][y].tenure
    BY <1>1, TenuresKept
  <2>6. bad \in SUBSET Inst /\ Entered(c) \subseteq bad
    BY <1>1, EnteredSays, ImplAssumption
  <2> HIDE DEF sl, bad, h
  <2>7. /\ \A r \in Reps : TableOwners(sl, r) \subseteq TableOwners(slot, r)
        /\ \A d \in Calls : ScopeSlots(sl, d) \subseteq ScopeSlots(slot, d)
        /\ \A r \in {h.rep} : TableOwners(slot, r) # {} /\ TableOwners(sl, r) = {}
    BY <2>1, <2>3, <2>4
  <2>8. {h.rep} \in SUBSET Reps
    BY <2>1
  <2>9. Unwind(c, sl, bad, {h.rep})
    BY <1>3
  <2>10. TableSound(sl) /\ LendsCounted(sl, call)
    BY <2>4
  <2>11. QED
    BY <1>1, <2>5, <2>6, <2>7, <2>8, <2>9, <2>10, UnwindInv
<1>4. QED
  BY <1>2, <1>3 DEF ResourceDropTraps

-----------------------------------------------------------------------------
(* What the other steps have in common.                                     *)

LEMMA StaySole ==
  ASSUME HandleInv, NEW r \in Reps, born' = born, poisoned' = poisoned, dtors'[r] = dtors[r],
         TableOwners(slot', r) = TableOwners(slot, r),
         WrapperOwners(wrapper', r) = WrapperOwners(wrapper, r),
         Custodians(call', r) = Custodians(call, r), Resulting(call', r) = Resulting(call, r)
  PROVE  Sole(r)'
<1>1. Owners(r)' = Owners(r)
  BY OwnersAre, OwnersNext
<1>2. QED
  BY <1>1, SoleKept, HandleParts

\* The owner moves, or the resource is destroyed.
LEMMA MoveSole ==
  ASSUME HandleInv, NEW r \in Reps, born' = born, poisoned' = poisoned, Owners(r) # {},
         LET T == Told(TableOwners(slot', r), WrapperOwners(wrapper', r),
                       Custodians(call', r), Resulting(call', r))
         IN  \/ dtors'[r] = dtors[r] /\ \E o : T = {o}
             \/ dtors'[r] = dtors[r] + 1 /\ T = {}
             \/ dtors'[r] = dtors[r] /\ T = {} /\ poisoned # {}
  PROVE  Sole(r)'
<1>1. Owners(r)' = Told(TableOwners(slot', r), WrapperOwners(wrapper', r),
                        Custodians(call', r), Resulting(call', r))
  BY OwnersNext
<1>2. \/ dtors'[r] = dtors[r] /\ \E o : Owners(r)' = {o}
      \/ dtors'[r] = dtors[r] + 1 /\ Owners(r)' = {}
      \/ dtors'[r] = dtors[r] /\ Owners(r)' = {} /\ poisoned # {}
  BY <1>1
<1>3. QED
  BY <1>2, SoleKept, HandleParts

\* A call that may have no borrows has none.
LEMMA NoScopes ==
  ASSUME HandleInv, NEW c \in Calls,
         call[c].borrows = 0 \/ call[c].phase \notin {"open", "failed", "lost"}
           \/ call[c].kind = "import"
  PROVE  ScopeSlots(slot, c) = {}
<1>1. CASE call[c].borrows = 0
  <2>1. Cardinality(ScopeSlots(slot, c)) = 0
    BY <1>1, ScopesFinite, HandleParts DEF ScopesSound
  <2>2. QED
    BY <2>1, ScopesFinite, FS_EmptySet
<1>2. QED
  BY <1>1, HandleParts DEF ScopesSound

\* Borrow handles go, and a call resolves that has none.
LEMMA ScopesKept ==
  ASSUME HandleInv, NEW sl, NEW cl,
         \A c \in Calls :
           /\ ScopeSlots(sl, c) \subseteq ScopeSlots(slot, c)
           /\ cl[c].borrows = call[c].borrows
           /\ \/ cl[c].phase = call[c].phase /\ cl[c].kind = call[c].kind
              \/ ScopeSlots(slot, c) = {}
  PROVE  ScopesSound(sl, cl)
<1>1. ASSUME NEW c \in Calls
      PROVE  /\ cl[c].borrows >= Cardinality(ScopeSlots(sl, c))
             /\ ScopeSlots(sl, c) # {} =>
                  cl[c].phase \in {"open", "failed", "lost"} /\ cl[c].kind # "import"
  <2>1. Cardinality(ScopeSlots(sl, c)) <= Cardinality(ScopeSlots(slot, c))
    BY ScopesFinite, FS_Subset
  <2>2. call[c].borrows >= Cardinality(ScopeSlots(slot, c)) /\ call[c].borrows \in Nat
    BY HandleParts DEF ScopesSound, CallType
  <2>3. cl[c].borrows >= Cardinality(ScopeSlots(sl, c))
    BY <2>1, <2>2, ScopesFinite
  <2>4. QED
    BY <2>3, HandleParts DEF ScopesSound
<1>2. QED
  BY <1>1 DEF ScopesSound

\* One call changes, and refers to no wrapper it did not refer to.
LEMMA OneCall ==
  ASSUME HandleInv, NEW d \in Calls, NEW r \in CallType, KindSound(r),
         r.kind = call[d].kind, r.phase = "free" <=> call[d].phase = "free",
         r.stack = call[d].stack \/ (r.stack = {d} /\ call[d].kind = "async"),
         r.lent \subseteq call[d].lent, r.views \subseteq call[d].views
  PROVE  LET cl == [call EXCEPT ![d] = r]
         IN  /\ cl \in [Calls -> CallType] /\ CallsSound(cl) /\ RefsSound(cl, wrapper)
             /\ cl[d] = r /\ \A c \in Calls : c # d => cl[c] = call[c]
<1> DEFINE cl == [call EXCEPT ![d] = r]
<1>1. cl \in [Calls -> CallType] /\ cl[d] = r /\ \A c \in Calls : c # d => cl[c] = call[c]
  BY HandleParts
<1> HIDE DEF cl
<1>2. CallsSound(cl)
  <2>1. \A c \in Calls :
          /\ KindSound(cl[c])
          /\ cl[c].kind = call[c].kind
          /\ cl[c].phase = "free" <=> call[c].phase = "free"
          /\ cl[c].stack = call[c].stack \/ (cl[c].stack = {c} /\ call[c].kind = "async")
    BY <1>1, HandleParts
  <2>2. QED
    BY <2>1, CallsKept, HandleParts
<1>3. RefsSound(cl, wrapper)
  <2>1. \A c \in Calls : cl[c].lent \subseteq call[c].lent /\ cl[c].views \subseteq call[c].views
    BY <1>1
  <2>2. QED
    BY <2>1, HandleParts DEF RefsSound
<1>4. QED
  BY <1>1, <1>2, <1>3 DEF cl

\* The counters of wrappers depend on what is lent only.
LEMMA SameLent ==
  ASSUME HandleInv, NEW cl, \A c \in Calls : cl[c].lent = call[c].lent
  PROVE  WrapperLends(cl, wrapper)
<1>1. \A w \in Wrappers : {c \in Calls : w \in cl[c].lent} = {c \in Calls : w \in call[c].lent}
  OBVIOUS
<1>2. QED
  BY <1>1, HandleParts DEF WrapperLends

\* An own handle, its resource and the resources it is not of.
LEMMA OwnHandle ==
  ASSUME HandleInv, NEW i \in Inst, NEW x \in Index, slot[i][x].entry.own
  PROVE  /\ slot[i][x].entry.rep \in Reps
         /\ slot[i][x].entry # None
         /\ TableOwners(slot, slot[i][x].entry.rep) = {<<i, x>>}
         /\ WrapperOwners(wrapper, slot[i][x].entry.rep) = {}
         /\ Custodians(call, slot[i][x].entry.rep) = {}
         /\ Resulting(call, slot[i][x].entry.rep) = {}
         /\ Owners(slot[i][x].entry.rep) # {}
         /\ \A r \in Reps : r # slot[i][x].entry.rep => <<i, x>> \notin TableOwners(slot, r)
         /\ \A c \in Calls : <<i, x>> \notin ScopeSlots(slot, c)
<1> DEFINE e == slot[i][x].entry
<1>1. e \in HandleType /\ EntrySound(e) /\ e # None
  BY HandleParts, EntryTyped DEF TableSound, TableType, SlotType
<1>2. e.rep \in Reps /\ e.scope = 0
  BY <1>1, BoundsAssumption DEF EntrySound, HandleType, Reps
<1>3. <<i, x>> \in TableOwners(slot, e.rep)
  BY SlotsAre DEF TableOwners
<1>4. \A r \in Reps : r # e.rep => <<i, x>> \notin TableOwners(slot, r)
  BY SlotsAre DEF TableOwners
<1>5. \A c \in Calls : <<i, x>> \notin ScopeSlots(slot, c)
  BY <1>2, SlotsAre, BoundsAssumption DEF ScopeSlots, Calls
<1> HIDE DEF e
<1>6. QED
  BY <1>1, <1>2, <1>3, <1>4, <1>5, OwnerAlone, HandleParts DEF e

-----------------------------------------------------------------------------
(* The built-ins, and the ends of calls.                                    *)

LEMMA ResourceNewInv ==
  ASSUME HandleInv, NEW c \in Calls, NEW x \in Index, ResourceNew(c, x)
  PROVE  HandleInv'
<1>1. /\ x \in Empty(Impl) /\ born < MaxReps /\ born' = born + 1
      /\ slot' = Added(slot, Impl, x, Own(born + 1))
      /\ call' = call /\ wrapper' = wrapper /\ dtors' = dtors /\ poisoned' = poisoned
  BY DEF ResourceNew
<1>2. born + 1 \in Reps /\ born \in Nat /\ slot[Impl][x].entry = None
  BY <1>1, BoundsAssumption, HandleParts DEF Reps, Empty
<1>3. /\ TableSound(slot') /\ LendsCounted(slot', call)
      /\ \A r \in Reps : TableOwners(slot', r) =
           IF r = born + 1 THEN TableOwners(slot, r) \cup {<<Impl, x>>} ELSE TableOwners(slot, r)
      /\ \A d \in Calls : ScopeSlots(slot', d) = ScopeSlots(slot, d)
  <2> DEFINE e == Own(born + 1)
  <2>1. /\ e \in HandleType /\ EntrySound(e) /\ e # None /\ e.lends = 0
        /\ e.own /\ e.rep = born + 1 /\ e.scope = 0
    BY <1>2, EntryTyped
  <2>2. \A d \in Calls : e.scope # d
    BY <2>1, BoundsAssumption DEF Calls
  <2> HIDE DEF e
  <2>3. slot' = Added(slot, Impl, x, e)
    BY <1>1 DEF e
  <2>4. QED
    BY <1>2, <2>1, <2>2, <2>3, AddedSays, ImplAssumption, HandleParts
<1>4. ScopesSound(slot', call)
  BY <1>3, HandleParts DEF ScopesSound
<1>5. ASSUME NEW r \in Reps PROVE Sole(r)'
  <2>1. Sole(r) /\ r \in Nat
    BY HandleParts DEF Reps
  <2>2. Owners(r)' = Told(TableOwners(slot', r), WrapperOwners(wrapper, r),
                          Custodians(call, r), Resulting(call, r))
    BY <1>1, OwnersNext
  <2>3. CASE r = born + 1
    <3>1. Owners(r) = {} /\ dtors[r] = 0
      BY <1>2, <2>1, <2>3 DEF Sole
    <3>2. /\ TableOwners(slot, r) = {} /\ WrapperOwners(wrapper, r) = {}
          /\ Custodians(call, r) = {} /\ Resulting(call, r) = {}
      BY <2>1, <3>1, OwnerAlone, HandleParts
    <3>3. Owners(r)' = {<<"slot", <<Impl, x>>>>}
      BY <1>3, <2>2, <2>3, <3>2, ToldOne
    <3>4. \A o, p \in Owners(r)' : o = p
      BY <3>3
    <3>5. Owners(r)' # {}
      BY <3>3
    <3>6. dtors'[r] = 0
      BY <1>1, <3>1
    <3>7. ~(r > born')
      BY <1>1, <1>2, <2>3
    <3>8. QED
      BY <3>4, <3>5, <3>6, <3>7 DEF Sole
  <2>4. CASE r # born + 1
    <3>1. Owners(r)' = Owners(r)
      BY <1>3, <2>2, <2>4, OwnersAre
    <3>2. (r > born + 1 => r > born) /\ (r <= born + 1 => r <= born)
      BY <1>2, <2>1, <2>4
    <3>3. QED
      BY <1>1, <2>1, <3>1, <3>2 DEF Sole
  <2>5. QED
    BY <2>3, <2>4
<1>6. CountersTyped'
  BY <1>1, <1>2, BoundsAssumption, HandleParts DEF CountersTyped, Reps
<1>7. QED
  BY <1>1, <1>3, <1>4, <1>5, <1>6, HandleParts DEF HandleInv

LEMMA ResourceDropInv ==
  ASSUME HandleInv, NEW c \in Calls, NEW x \in Index, ResourceDrop(c, x)
  PROVE  HandleInv'
<1> DEFINE i == call[c].callee
           h == slot[i][x].entry
<1>1. /\ h # None /\ slot' = Removed(slot, i, x)
      /\ dtors' = Destroyed(IF h.own THEN {h.rep} ELSE {})
      /\ call' = IF h.own THEN call ELSE [call EXCEPT ![h.scope].borrows = call[h.scope].borrows - 1]
      /\ wrapper' = wrapper /\ born' = born /\ poisoned' = poisoned
  BY DEF ResourceDrop, Entry
<1>2. i \in Inst /\ h \in HandleType /\ EntrySound(h)
  BY RunningSays, HandleParts DEF ResourceDrop, TableSound, TableType, SlotType
<1>3. /\ TableSound(slot') /\ LendsCounted(slot', call)
      /\ \A r \in Reps : TableOwners(slot', r) = TableOwners(slot, r) \ {<<i, x>>}
      /\ \A d \in Calls : ScopeSlots(slot', d) = ScopeSlots(slot, d) \ {<<i, x>>}
  <2>1. \A j \in Inst, y \in Index :
           /\ TableSound(Removed(slot, j, y)) /\ LendsCounted(Removed(slot, j, y), call)
           /\ \A r \in Reps :
                TableOwners(Removed(slot, j, y), r) = TableOwners(slot, r) \ {<<j, y>>}
           /\ \A d \in Calls :
                ScopeSlots(Removed(slot, j, y), d) = ScopeSlots(slot, d) \ {<<j, y>>}
    BY RemovedSays, HandleParts
  <2>2. QED
    BY <1>1, <1>2, <2>1
<1>4. CountersTyped'
  BY <1>1, DestroyedSays, HandleParts DEF CountersTyped
<1>5. CASE h.own
  <2>1. call' = call /\ dtors' = Destroyed({h.rep})
    BY <1>1, <1>5
  <2>2. ScopesSound(slot', call')
    BY <1>3, <2>1, ScopesKept
  <2>3. ASSUME NEW r \in Reps PROVE Sole(r)'
    <3>1. CASE r = h.rep
      <4>1. /\ TableOwners(slot, r) = {<<i, x>>} /\ WrapperOwners(wrapper, r) = {}
            /\ Custodians(call, r) = {} /\ Resulting(call, r) = {} /\ Owners(r) # {}
        BY <1>2, <1>5, <3>1, OwnHandle
      <4>2. TableOwners(slot', r) = {}
        BY <1>3, <4>1
      <4>3. dtors'[r] = dtors[r] + 1
        <5>1. dtors \in [Reps -> Nat]
          BY HandleParts
        <5>2. QED
          <6>1. dtors' = Destroyed({r})
            BY <2>1, <3>1
          <6>2. Destroyed({r})[r] = dtors[r] + 1
            BY <5>1, DestroyedOne
          <6>3. QED
            BY <6>1, <6>2
      <4>4. Told(TableOwners(slot', r), WrapperOwners(wrapper', r),
                 Custodians(call', r), Resulting(call', r)) = {}
        BY <1>1, <2>1, <4>1, <4>2, ToldOne
      <4>5. QED
        BY <1>1, <4>1, <4>3, <4>4, MoveSole
    <3>2. CASE r # h.rep
      <4>1. TableOwners(slot', r) = TableOwners(slot, r)
        <5>1. <<i, x>> \notin TableOwners(slot, r)
          BY <1>2, <1>5, <3>2, OwnHandle
        <5>2. QED
          BY <1>3, <5>1
      <4>2. dtors'[r] = dtors[r]
        BY <2>1, <3>2, DestroyedSays, HandleParts
      <4>3. QED
        BY <1>1, <2>1, <4>1, <4>2, StaySole
    <3>3. QED
      BY <3>1, <3>2
  <2>4. QED
    BY <1>1, <1>3, <1>4, <2>1, <2>2, <2>3, HandleParts DEF HandleInv
<1>6. CASE ~h.own
  <2> DEFINE d == h.scope
             f == [call[d] EXCEPT !.borrows = call[d].borrows - 1]
  <2>1. d \in Calls /\ <<i, x>> \in ScopeSlots(slot, d)
    BY <1>1, <1>2, <1>6, SlotsAre DEF EntrySound, HandleType, ScopeSlots
  <2>2. /\ Cardinality(ScopeSlots(slot', d)) = Cardinality(ScopeSlots(slot, d)) - 1
        /\ Cardinality(ScopeSlots(slot, d)) \in Nat /\ Cardinality(ScopeSlots(slot', d)) \in Nat
    BY SMTT(40), <1>3, <2>1, ScopesFinite, FS_RemoveElement
  <2>3. call[d].borrows - 1 \in Nat /\ call[d].borrows - 1 >= Cardinality(ScopeSlots(slot', d))
    <3>1. ScopesSound(slot, call) /\ call[d] \in CallType
      BY <2>1, HandleParts
    <3>2. call[d].borrows >= Cardinality(ScopeSlots(slot, d)) /\ call[d].borrows \in Nat
      BY <2>1, <3>1 DEF ScopesSound, CallType
    <3>3. QED
      BY ZenonT(60), <2>2, <3>2, CountLess
  <2>4. /\ call[d].phase \in {"open", "failed", "lost"} /\ call[d].kind # "import"
        /\ call[d] \in CallType /\ KindSound(call[d])
    BY <2>1, HandleParts DEF ScopesSound
  <2>5. /\ f \in CallType /\ KindSound(f) /\ f.kind = call[d].kind /\ f.phase = call[d].phase
        /\ f.stack = call[d].stack /\ f.lent = call[d].lent /\ f.views = call[d].views
        /\ f.args = call[d].args /\ f.result = call[d].result /\ f.lenders = call[d].lenders
        /\ f.borrows = call[d].borrows - 1
    BY <2>3, <2>4 DEF CallType, KindSound
  <2>6. call' = [call EXCEPT ![d] = f]
    BY <1>1, <1>6
  <2> HIDE DEF f, d
  <2>7. /\ call' \in [Calls -> CallType] /\ CallsSound(call') /\ RefsSound(call', wrapper)
        /\ call'[d] = f /\ \A e \in Calls : e # d => call'[e] = call[e]
    BY <2>1, <2>5, <2>6, OneCall
  <2>8. ScopesSound(slot', call')
    <3>1. ASSUME NEW e \in Calls
          PROVE  /\ call'[e].borrows >= Cardinality(ScopeSlots(slot', e))
                 /\ ScopeSlots(slot', e) # {} =>
                      call'[e].phase \in {"open", "failed", "lost"} /\ call'[e].kind # "import"
      <4>1. CASE e = d
        BY <2>3, <2>4, <2>5, <2>7, <4>1
      <4>2. CASE e # d
        <5>1. <<i, x>> \notin ScopeSlots(slot, e)
          BY <2>1, <4>2 DEF ScopeSlots, d
        <5>2. ScopeSlots(slot', e) = ScopeSlots(slot, e)
          BY <1>3, <5>1
        <5>3. QED
          BY <2>7, <4>2, <5>2, HandleParts DEF ScopesSound
      <4>3. QED
        BY <4>1, <4>2
    <3>2. QED
      BY <3>1 DEF ScopesSound
  <2>9. /\ \A e \in Calls : call'[e].lent = call[e].lent /\ call'[e].lenders = call[e].lenders
        /\ \A e \in Calls : call'[e].args = call[e].args /\ call'[e].result = call[e].result
    BY <2>5, <2>7
  <2>10. WrapperLends(call', wrapper) /\ LendsCounted(slot', call')
    BY <1>3, <2>9, SameLent, SameLenders
  <2>11. ASSUME NEW r \in Reps PROVE Sole(r)'
    <3>1. TableOwners(slot', r) = TableOwners(slot, r)
      <4>1. <<i, x>> \notin TableOwners(slot, r)
        BY <1>6 DEF TableOwners
      <4>2. QED
        BY <1>3, <4>1
    <3>2. Custodians(call', r) = Custodians(call, r) /\ Resulting(call', r) = Resulting(call, r)
      BY <2>9 DEF Custodians, Resulting
    <3>3. dtors'[r] = dtors[r]
      BY <1>1, <1>6, DestroyedSays, HandleParts
    <3>4. QED
      BY <1>1, <3>1, <3>2, <3>3, StaySole
  <2>12. QED
    BY <1>1, <1>3, <1>4, <2>7, <2>8, <2>10, <2>11, HandleParts DEF HandleInv
<1>7. QED
  BY <1>5, <1>6

LEMMA AsyncParksInv == ASSUME HandleInv, NEW d \in Calls, AsyncParks(d) PROVE HandleInv'
<1> DEFINE f == [call[d] EXCEPT !.stack = {d}]
<1>1. /\ call' = [call EXCEPT ![d] = f] /\ call[d].kind = "async" /\ call[d].phase = "open"
      /\ slot' = slot /\ wrapper' = wrapper /\ born' = born /\ dtors' = dtors
      /\ poisoned' = poisoned
  BY DEF AsyncParks, Running
<1>2. call[d] \in CallType /\ KindSound(call[d])
  BY HandleParts
<1>3. /\ f \in CallType /\ KindSound(f) /\ f.kind = call[d].kind /\ f.phase = call[d].phase
      /\ f.stack = {d} /\ f.lent = call[d].lent /\ f.views = call[d].views
      /\ f.args = call[d].args /\ f.result = call[d].result /\ f.lenders = call[d].lenders
      /\ f.borrows = call[d].borrows
  BY <1>1, <1>2 DEF CallType, KindSound
<1> HIDE DEF f
<1>4. /\ call' \in [Calls -> CallType] /\ CallsSound(call') /\ RefsSound(call', wrapper)
      /\ call'[d] = f /\ \A e \in Calls : e # d => call'[e] = call[e]
  BY <1>1, <1>3, OneCall
<1>5. /\ \A e \in Calls : call'[e].lent = call[e].lent /\ call'[e].lenders = call[e].lenders
      /\ \A e \in Calls : call'[e].args = call[e].args /\ call'[e].result = call[e].result
      /\ \A e \in Calls : call'[e].phase = call[e].phase /\ call'[e].kind = call[e].kind
      /\ \A e \in Calls : call'[e].borrows = call[e].borrows
  BY <1>3, <1>4
<1>6. WrapperLends(call', wrapper) /\ LendsCounted(slot, call')
  BY <1>5, SameLent, SameLenders, HandleParts
<1>7. ScopesSound(slot, call')
  BY <1>5, ScopesKept
<1>8. ASSUME NEW r \in Reps PROVE Sole(r)'
  <2>1. Custodians(call', r) = Custodians(call, r) /\ Resulting(call', r) = Resulting(call, r)
    BY <1>5 DEF Custodians, Resulting
  <2>2. QED
    BY <1>1, <2>1, StaySole
<1>9. CountersTyped'
  BY <1>1, HandleParts DEF CountersTyped
<1>10. QED
  BY <1>1, <1>4, <1>6, <1>7, <1>8, <1>9, HandleParts DEF HandleInv

\* What lifting a result takes out of a table.
LEMMA LiftedSays ==
  ASSUME HandleInv, NEW i \in Inst, NEW x \in {0} \cup Index,
         x \in Results(i), ~BadResult(i, x)
  PROVE  /\ TableSound(Lifted(i, x)) /\ LendsCounted(Lifted(i, x), call)
         /\ \A j \in Inst, y \in Index :
              /\ Lifted(i, x)[j][y].tenure = slot[j][y].tenure
              /\ slot[j][y].entry = None => Lifted(i, x)[j][y].entry = None
         /\ \A c \in Calls : ScopeSlots(Lifted(i, x), c) = ScopeSlots(slot, c)
         /\ x = 0 => Lifted(i, x) = slot /\ RepAt(i, x) = 0
         /\ x # 0 => /\ x \in Index /\ slot[i][x].entry.own /\ RepAt(i, x) = slot[i][x].entry.rep
                     /\ RepAt(i, x) \in Reps
                     /\ \A r \in Reps : TableOwners(Lifted(i, x), r) =
                          IF r = RepAt(i, x) THEN {} ELSE TableOwners(slot, r)
<1>1. CASE x = 0
  BY <1>1, HandleParts DEF Lifted, RepAt
<1>2. CASE x # 0
  <2>1. /\ x \in Index /\ slot[i][x].entry.own /\ Lifted(i, x) = Removed(slot, i, x)
        /\ RepAt(i, x) = slot[i][x].entry.rep
    BY <1>2 DEF BadResult, Liftable, Lifted, RepAt, Entry
  <2> DEFINE sl == Removed(slot, i, x)
             q == slot[i][x].entry.rep
  <2>2. /\ TableSound(sl) /\ LendsCounted(sl, call)
        /\ \A r \in Reps : TableOwners(sl, r) = TableOwners(slot, r) \ {<<i, x>>}
        /\ \A c \in Calls : ScopeSlots(sl, c) = ScopeSlots(slot, c) \ {<<i, x>>}
    BY <2>1, RemovedSays, HandleParts
  <2>3. \A j \in Inst, y \in Index :
          /\ sl[j][y].tenure = slot[j][y].tenure
          /\ slot[j][y].entry = None => sl[j][y].entry = None
    BY <2>1, RemovedAt, HandleParts
  <2> HIDE DEF sl
  <2>4. /\ q \in Reps /\ TableOwners(slot, q) = {<<i, x>>}
        /\ \A r \in Reps : r # q => <<i, x>> \notin TableOwners(slot, r)
        /\ \A c \in Calls : <<i, x>> \notin ScopeSlots(slot, c)
    BY <2>1, OwnHandle
  <2>5. \A r \in Reps : TableOwners(sl, r) = IF r = q THEN {} ELSE TableOwners(slot, r)
    BY <2>2, <2>4
  <2>6. \A c \in Calls : ScopeSlots(sl, c) = ScopeSlots(slot, c)
    BY <2>2, <2>4
  <2>7. Lifted(i, x) = sl
    BY <2>1 DEF sl
  <2> HIDE DEF q
  <2>8. RepAt(i, x) = q
    BY <2>1 DEF q
  <2>9. QED
    BY <1>2, <2>1, <2>2, <2>3, <2>4, <2>5, <2>6, <2>7, <2>8
<1>3. QED
  BY <1>1, <1>2

LEMMA ExportReturnsInv ==
  ASSUME HandleInv, NEW d \in Calls, NEW x \in {0} \cup Index, ExportReturns(d, x)
  PROVE  HandleInv'
<1> DEFINE i == call[d].callee
           q == RepAt(i, x)
           f == [call[d] EXCEPT !.phase = "resolved", !.result = q]
<1>1. /\ call[d].kind = "export" /\ x \in Results(i) /\ ~BadResult(i, x) /\ call[d].borrows = 0
      /\ slot' = Lifted(i, x) /\ call' = [call EXCEPT ![d] = f]
      /\ wrapper' = wrapper /\ born' = born /\ dtors' = dtors /\ poisoned' = poisoned
  BY DEF ExportReturns, MayReturn
<1>2. /\ i \in Inst /\ call[d].phase = "open" /\ call[d].args = {} /\ call[d].result = 0
      /\ call[d] \in CallType /\ KindSound(call[d])
  BY RunningSays, HandleParts DEF ExportReturns
<1>3. /\ TableSound(slot') /\ LendsCounted(slot', call)
      /\ \A c \in Calls : ScopeSlots(slot', c) = ScopeSlots(slot, c)
      /\ x = 0 => slot' = slot /\ q = 0
      /\ x # 0 => /\ x \in Index /\ slot[i][x].entry.own /\ q = slot[i][x].entry.rep
                  /\ q \in Reps
                  /\ \A r \in Reps : TableOwners(slot', r) = IF r = q THEN {} ELSE TableOwners(slot, r)
  BY ZenonT(60), <1>1, <1>2, LiftedSays
<1>4. q \in 0..MaxReps
  BY <1>3, BoundsAssumption DEF Reps
<1> HIDE DEF q
<1>5. /\ f \in CallType /\ KindSound(f) /\ f.kind = call[d].kind /\ f.phase = "resolved"
      /\ f.stack = call[d].stack /\ f.lent = call[d].lent /\ f.views = call[d].views
      /\ f.args = call[d].args /\ f.result = q /\ f.lenders = call[d].lenders
      /\ f.borrows = call[d].borrows
  BY <1>1, <1>2, <1>4 DEF CallType, KindSound, Phases
<1> HIDE DEF f
<1>6. /\ call' \in [Calls -> CallType] /\ CallsSound(call') /\ RefsSound(call', wrapper)
      /\ call'[d] = f /\ \A e \in Calls : e # d => call'[e] = call[e]
  BY <1>1, <1>2, <1>5, OneCall
<1>7. /\ \A e \in Calls : call'[e].lent = call[e].lent /\ call'[e].lenders = call[e].lenders
      /\ \A e \in Calls : call'[e].args = call[e].args
      /\ \A e \in Calls : call'[e].result = IF e = d THEN q ELSE call[e].result
      /\ \A e \in Calls : e # d => call'[e].phase = call[e].phase
      /\ \A e \in Calls : call'[e].kind = call[e].kind /\ call'[e].borrows = call[e].borrows
  BY <1>5, <1>6
<1>8. WrapperLends(call', wrapper) /\ LendsCounted(slot', call')
  BY <1>3, <1>7, SameLent, SameLenders
<1>9. ScopesSound(slot', call')
  <2>1. ScopeSlots(slot, d) = {}
    BY <1>1, NoScopes
  <2>2. QED
    BY <1>3, <1>7, <2>1, ScopesKept
<1>10. ASSUME NEW r \in Reps PROVE Sole(r)'
  <2>1. Custodians(call', r) = Custodians(call, r) /\ r # 0
    BY <1>7, BoundsAssumption DEF Custodians, Reps
  <2>2. Resulting(call', r) = IF r = q THEN Resulting(call, r) \cup {d} ELSE Resulting(call, r)
    BY <1>2, <1>7, <2>1 DEF Resulting
  <2>3. CASE x # 0 /\ r = q
    <3>1. /\ TableOwners(slot', r) = {} /\ WrapperOwners(wrapper, r) = {}
          /\ Custodians(call, r) = {} /\ Resulting(call, r) = {} /\ Owners(r) # {}
      <4>1. TableOwners(slot', r) = {} /\ x \in Index /\ slot[i][x].entry.own /\ r = slot[i][x].entry.rep
        BY <1>3, <2>3
      <4>2. /\ WrapperOwners(wrapper, r) = {} /\ Custodians(call, r) = {}
            /\ Resulting(call, r) = {} /\ Owners(r) # {}
        BY <1>2, <4>1, OwnHandle
      <4>3. QED
        BY <4>1, <4>2
    <3>2. Told(TableOwners(slot', r), WrapperOwners(wrapper', r),
               Custodians(call', r), Resulting(call', r)) = {<<"result", d>>}
      BY ZenonT(60), <1>1, <2>1, <2>2, <2>3, <3>1, ToldOne
    <3>3. QED
      BY <1>1, <3>1, <3>2, MoveSole
  <2>4. CASE ~(x # 0 /\ r = q)
    <3>1. TableOwners(slot', r) = TableOwners(slot, r) /\ r # q
      BY <1>3, <2>1, <2>4
    <3>2. QED
      BY <1>1, <2>1, <2>2, <3>1, StaySole
  <2>5. QED
    BY <2>3, <2>4
<1>11. CountersTyped'
  BY <1>1, HandleParts DEF CountersTyped
<1>12. QED
  BY <1>1, <1>3, <1>6, <1>8, <1>9, <1>10, <1>11, HandleParts DEF HandleInv

\* A guest returns to a guest: the lends of the calls in D are released, and a
\* result goes to the table of the caller.
GuestReturns(d, x, y, D, p) ==
  LET sl == Released(Lifted(call[d].callee, x), D)
  IN  /\ Running(d) /\ call[d].kind \in {"sync", "async"}
      /\ x \in Results(call[d].callee) /\ ~BadResult(call[d].callee, x) /\ MayReturn(d)
      /\ \/ x = 0 /\ slot' = sl
         \/ /\ x # 0 /\ y \in Empty(call[d].caller)
            /\ slot' = Added(sl, call[d].caller, y, Own(RepAt(call[d].callee, x)))
      /\ call' = [call EXCEPT ![d].phase = p,
                              ![d].lenders = IF d \in D THEN {} ELSE call[d].lenders]
      /\ UNCHANGED <<wrapper, born, dtors, poisoned>>

LEMMA GuestReturnsInv ==
  ASSUME HandleInv, NEW d \in Calls, NEW x \in {0} \cup Index, NEW y \in Index,
         NEW D \in SUBSET {d}, NEW p \in {"done", "resolved"}, GuestReturns(d, x, y, D, p)
  PROVE  HandleInv'
<1> DEFINE i == call[d].caller
           j == call[d].callee
           q == RepAt(j, x)
           l == Lifted(j, x)
           sl == Released(l, D)
           ls == IF d \in D THEN {} ELSE call[d].lenders
           f == [call[d] EXCEPT !.phase = p, !.lenders = ls]
<1>0. /\ Running(d) /\ call[d].kind \in {"sync", "async"} /\ call[d].borrows = 0
      /\ x \in Results(j) /\ ~BadResult(j, x)
      /\ x = 0 => slot' = sl
      /\ x # 0 => y \in Empty(i) /\ slot' = Added(sl, i, y, Own(q))
      /\ call' = [call EXCEPT ![d] = f]
      /\ wrapper' = wrapper /\ born' = born /\ dtors' = dtors /\ poisoned' = poisoned
  BY DEF GuestReturns, MayReturn
<1>1. /\ i \in Inst /\ j \in Inst /\ call[d].args = {} /\ call[d].phase = "open"
      /\ call[d] \in CallType /\ KindSound(call[d])
  BY <1>0, RunningSays, HandleParts DEF KindSound
<1>2. /\ TableSound(l) /\ LendsCounted(l, call)
      /\ \A k \in Inst, z \in Index : /\ l[k][z].tenure = slot[k][z].tenure
                                      /\ slot[k][z].entry = None => l[k][z].entry = None
      /\ \A c \in Calls : ScopeSlots(l, c) = ScopeSlots(slot, c)
      /\ x = 0 => l = slot
      /\ x # 0 => /\ x \in Index /\ slot[j][x].entry.own /\ q = slot[j][x].entry.rep /\ q \in Reps
                  /\ \A r \in Reps : TableOwners(l, r) = IF r = q THEN {} ELSE TableOwners(slot, r)
  <2>1. x \in Results(j) /\ ~BadResult(j, x) /\ j \in Inst
    BY <1>0, <1>1
  <2> HIDE DEF j
  <2>2. /\ TableSound(Lifted(j, x)) /\ LendsCounted(Lifted(j, x), call)
        /\ \A k \in Inst, z \in Index :
             /\ Lifted(j, x)[k][z].tenure = slot[k][z].tenure
             /\ slot[k][z].entry = None => Lifted(j, x)[k][z].entry = None
        /\ \A c \in Calls : ScopeSlots(Lifted(j, x), c) = ScopeSlots(slot, c)
        /\ x = 0 => Lifted(j, x) = slot /\ RepAt(j, x) = 0
        /\ x # 0 => /\ x \in Index /\ slot[j][x].entry.own /\ RepAt(j, x) = slot[j][x].entry.rep
                    /\ RepAt(j, x) \in Reps
                    /\ \A r \in Reps : TableOwners(Lifted(j, x), r) =
                         IF r = RepAt(j, x) THEN {} ELSE TableOwners(slot, r)
    BY <2>1, LiftedSays
  <2>3. QED
    BY <2>2
<1>3. call' = [call EXCEPT ![d] = f] /\ D \in SUBSET Calls
  BY <1>0
<1>4. ls \in SUBSET LenderType /\ (d \in D => ls = {}) /\ (d \notin D => ls = call[d].lenders)
  BY <1>1 DEF CallType
<1> HIDE DEF ls
<1>5. /\ f \in CallType /\ KindSound(f) /\ f.kind = call[d].kind /\ f.phase = p
      /\ f.stack = call[d].stack /\ f.lent = call[d].lent /\ f.views = call[d].views
      /\ f.args = call[d].args /\ f.result = call[d].result /\ f.lenders = ls
      /\ f.borrows = call[d].borrows
  BY <1>0, <1>1, <1>4 DEF CallType, KindSound, Phases
<1> HIDE DEF f
<1>6. /\ call' \in [Calls -> CallType] /\ CallsSound(call') /\ RefsSound(call', wrapper)
      /\ call'[d] = f /\ \A e \in Calls : e # d => call'[e] = call[e]
  BY <1>1, <1>3, <1>5, OneCall
<1>7. /\ \A e \in Calls : call'[e].lent = call[e].lent
      /\ \A e \in Calls : call'[e].lenders = IF e \in D THEN {} ELSE call[e].lenders
      /\ \A e \in Calls : call'[e].args = call[e].args /\ call'[e].result = call[e].result
      /\ \A e \in Calls : e # d => call'[e].phase = call[e].phase
      /\ \A e \in Calls : call'[e].kind = call[e].kind /\ call'[e].borrows = call[e].borrows
  BY <1>4, <1>5, <1>6
<1> HIDE DEF l
<1>8. /\ TableSound(sl) /\ Alike(l, sl) /\ LendsCounted(sl, call')
      /\ \A k \in Inst, z \in Index : sl[k][z].entry = None <=> l[k][z].entry = None
  <2>1. TableSound(l) /\ LendsCounted(l, call) /\ call \in [Calls -> CallType]
    BY <1>2, HandleParts
  <2>2. \A k \in Inst, z \in Index : l[k][z].tenure = slot[k][z].tenure
    BY <1>2
  <2>3. \A c \in Calls : call'[c].lenders = IF c \in D THEN {} ELSE call[c].lenders
    BY <1>7
  <2>4. D \in SUBSET Calls /\ call' \in [Calls -> CallType]
    BY <1>3, <1>6
  <2>5. /\ TableSound(Released(l, D)) /\ Alike(l, Released(l, D))
        /\ \A k \in Inst, z \in Index :
             Released(l, D)[k][z].entry = None <=> l[k][z].entry = None
        /\ LendsCounted(Released(l, D), call')
    BY <2>1, <2>2, <2>3, <2>4, ReleasedSays
  <2>6. QED
    BY <2>5
<1>9. /\ \A r \in Reps : TableOwners(sl, r) = TableOwners(l, r)
      /\ \A c \in Calls : ScopeSlots(sl, c) = ScopeSlots(slot, c)
  BY <1>2, <1>8, AlikeSays
<1>10. x # 0 => y \in Empty(i) /\ slot' = Added(sl, i, y, Own(q))
  BY <1>0 DEF l
<1>11. x = 0 => slot' = sl
  BY <1>0 DEF l
<1> HIDE DEF sl, q, i, j
<1>12. /\ TableSound(slot') /\ LendsCounted(slot', call')
       /\ \A c \in Calls : ScopeSlots(slot', c) = ScopeSlots(slot, c)
       /\ \A r \in Reps : TableOwners(slot', r) =
            IF x # 0 /\ r = q THEN {<<i, y>>} ELSE TableOwners(slot, r)
  <2>1. CASE x = 0
    BY <1>2, <1>8, <1>9, <1>11, <2>1
  <2>2. CASE x # 0
    <3> DEFINE e == Own(q)
    <3>1. /\ e \in HandleType /\ EntrySound(e) /\ e # None /\ e.lends = 0
          /\ e.own /\ e.rep = q /\ e.scope = 0
      BY <1>2, <2>2, EntryTyped
    <3>2. \A c \in Calls : e.scope # c
      BY <3>1, BoundsAssumption DEF Calls
    <3>3. slot' = Added(sl, i, y, e) /\ sl[i][y].entry = None
      BY <1>1, <1>2, <1>8, <1>10, <2>2 DEF Empty
    <3> HIDE DEF e
    <3>4. /\ TableSound(slot') /\ LendsCounted(slot', call')
          /\ \A r \in Reps : TableOwners(slot', r) =
               IF r = q THEN TableOwners(sl, r) \cup {<<i, y>>} ELSE TableOwners(sl, r)
          /\ \A c \in Calls : ScopeSlots(slot', c) = ScopeSlots(sl, c)
      BY <1>1, <1>6, <1>8, <3>1, <3>2, <3>3, AddedSays
    <3>5. QED
      BY <1>2, <1>9, <2>2, <3>4
  <2>3. QED
    BY <2>1, <2>2
<1>13. ScopesSound(slot', call')
  <2>1. ScopeSlots(slot, d) = {}
    BY <1>0, NoScopes
  <2>2. QED
    BY <1>7, <1>12, <2>1, ScopesKept
<1>14. ASSUME NEW r \in Reps PROVE Sole(r)'
  <2>1. Custodians(call', r) = Custodians(call, r) /\ Resulting(call', r) = Resulting(call, r)
    BY <1>7 DEF Custodians, Resulting
  <2>2. CASE x # 0 /\ r = q
    <3>1. /\ WrapperOwners(wrapper, r) = {} /\ Custodians(call, r) = {}
          /\ Resulting(call, r) = {} /\ Owners(r) # {}
      <4>1. j \in Inst /\ x \in Index /\ slot[j][x].entry.own /\ r = slot[j][x].entry.rep
        BY <1>1, <1>2, <2>2
      <4>2. QED
        BY <4>1, OwnHandle
    <3>2. TableOwners(slot', r) = {<<i, y>>}
      BY <1>12, <2>2
    <3>3. Told(TableOwners(slot', r), WrapperOwners(wrapper', r),
               Custodians(call', r), Resulting(call', r)) = {<<"slot", <<i, y>>>>}
      BY <1>0, <2>1, <3>1, <3>2, ToldOne
    <3>4. QED
      BY <1>0, <3>1, <3>3, MoveSole
  <2>3. CASE ~(x # 0 /\ r = q)
    <3>1. TableOwners(slot', r) = TableOwners(slot, r)
      BY <1>12, <2>3
    <3>2. QED
      BY <1>0, <2>1, <3>1, StaySole
  <2>4. QED
    BY <2>2, <2>3
<1>15. CountersTyped'
  BY <1>0, HandleParts DEF CountersTyped
<1>16. WrapperLends(call', wrapper)
  BY <1>7, SameLent
<1>17. QED
  BY <1>0, <1>6, <1>12, <1>13, <1>14, <1>15, <1>16, HandleParts DEF HandleInv

LEMMA SyncReturnsInv ==
  ASSUME HandleInv, NEW d \in Calls, NEW x \in {0} \cup Index, NEW y \in Index,
         SyncReturns(d, x, y)
  PROVE  HandleInv'
<1>1. GuestReturns(d, x, y, {d}, "done")
  BY DEF SyncReturns, GuestReturns
<1>2. QED
  BY <1>1, GuestReturnsInv

LEMMA AsyncReturnsInv ==
  ASSUME HandleInv, NEW d \in Calls, NEW x \in {0} \cup Index, NEW y \in Index,
         AsyncReturns(d, x, y)
  PROVE  HandleInv'
<1>1. CASE call[d].stack # {d}
  <2>1. GuestReturns(d, x, y, {d}, "done")
    BY <1>1 DEF AsyncReturns, GuestReturns
  <2>2. QED
    BY <2>1, GuestReturnsInv
<1>2. CASE call[d].stack = {d}
  <2>1. GuestReturns(d, x, y, {}, "resolved")
    BY <1>2 DEF AsyncReturns, GuestReturns
  <2>2. QED
    BY <2>1, GuestReturnsInv
<1>3. QED
  BY <1>1, <1>2

LEMMA DeliverInv == ASSUME HandleInv, NEW d \in Calls, Deliver(d) PROVE HandleInv'
<1> DEFINE f == [call[d] EXCEPT !.phase = "done", !.lenders = {}]
<1>1. /\ call[d].kind \in {"async", "import"} /\ call[d].phase = "resolved"
      /\ slot' = Released(slot, {d}) /\ call' = [call EXCEPT ![d] = f]
      /\ wrapper' = wrapper /\ born' = born /\ dtors' = dtors /\ poisoned' = poisoned
  BY DEF Deliver
<1>2. call[d] \in CallType /\ KindSound(call[d])
  BY HandleParts
<1>3. /\ f \in CallType /\ KindSound(f) /\ f.kind = call[d].kind /\ f.phase = "done"
      /\ f.stack = call[d].stack /\ f.lent = call[d].lent /\ f.views = call[d].views
      /\ f.args = call[d].args /\ f.result = call[d].result /\ f.lenders = {}
      /\ f.borrows = call[d].borrows
  BY <1>1, <1>2 DEF CallType, KindSound, Phases
<1> HIDE DEF f
<1>4. /\ call' \in [Calls -> CallType] /\ CallsSound(call') /\ RefsSound(call', wrapper)
      /\ call'[d] = f /\ \A e \in Calls : e # d => call'[e] = call[e]
  BY <1>1, <1>2, <1>3, OneCall
<1>5. /\ \A e \in Calls : call'[e].lent = call[e].lent
      /\ \A e \in Calls : call'[e].lenders = IF e \in {d} THEN {} ELSE call[e].lenders
      /\ \A e \in Calls : call'[e].args = call[e].args /\ call'[e].result = call[e].result
      /\ \A e \in Calls : e # d => call'[e].phase = call[e].phase
      /\ \A e \in Calls : call'[e].kind = call[e].kind /\ call'[e].borrows = call[e].borrows
  BY <1>3, <1>4
<1>6. /\ TableSound(slot') /\ LendsCounted(slot', call')
      /\ \A r \in Reps : TableOwners(slot', r) = TableOwners(slot, r)
      /\ \A c \in Calls : ScopeSlots(slot', c) = ScopeSlots(slot, c)
  <2>1. TableSound(slot) /\ LendsCounted(slot, call) /\ call \in [Calls -> CallType]
    BY HandleParts
  <2>2. \A k \in Inst, z \in Index : slot[k][z].tenure = slot[k][z].tenure
    OBVIOUS
  <2>3. \A c \in Calls : call'[c].lenders = IF c \in {d} THEN {} ELSE call[c].lenders
    BY <1>5
  <2>4. {d} \in SUBSET Calls /\ call' \in [Calls -> CallType]
    BY <1>4
  <2>5. /\ TableSound(Released(slot, {d})) /\ Alike(slot, Released(slot, {d}))
        /\ LendsCounted(Released(slot, {d}), call')
    BY <2>1, <2>2, <2>3, <2>4, ReleasedSays
  <2>6. QED
    BY <1>1, <2>5, AlikeSays
<1>7. ScopesSound(slot', call')
  <2>1. ScopeSlots(slot, d) = {}
    BY <1>1, NoScopes
  <2>2. QED
    BY <1>5, <1>6, <2>1, ScopesKept
<1>8. ASSUME NEW r \in Reps PROVE Sole(r)'
  <2>1. Custodians(call', r) = Custodians(call, r) /\ Resulting(call', r) = Resulting(call, r)
    BY <1>5 DEF Custodians, Resulting
  <2>2. QED
    BY <1>1, <1>6, <2>1, StaySole
<1>9. CountersTyped'
  BY <1>1, HandleParts DEF CountersTyped
<1>10. WrapperLends(call', wrapper)
  BY <1>5, SameLent
<1>11. QED
  BY <1>1, <1>4, <1>6, <1>7, <1>8, <1>9, <1>10, HandleParts DEF HandleInv

-----------------------------------------------------------------------------
(* The host's wrappers.                                                     *)

LEMMA WrapperMade ==
  ASSUME HandleInv, NEW w \in Wrappers, wrapper[w].valid \/ wrapper[w].pending
  PROVE  /\ wrapper[w].rep \in Reps /\ wrapper[w] \in WrapperType
         /\ wrapper[w].valid => ~wrapper[w].pending
<1>1. wrapper[w] \in WrapperType
  BY HandleParts
<1>2. wrapper[w].rep # 0
  BY HandleParts DEF WrappersSound, Unmade
<1>3. wrapper[w].rep \in Reps
  BY <1>1, <1>2, BoundsAssumption DEF WrapperType, Reps
<1>4. wrapper[w].valid => ~wrapper[w].pending
  BY HandleParts DEF WrappersSound
<1>5. QED
  BY <1>1, <1>3, <1>4

\* A wrapper that owns, its resource and the resources it is not of.
LEMMA OwnWrapper ==
  ASSUME HandleInv, NEW w \in Wrappers, wrapper[w].owns, wrapper[w].valid \/ wrapper[w].pending
  PROVE  /\ wrapper[w].rep \in Reps
         /\ TableOwners(slot, wrapper[w].rep) = {}
         /\ WrapperOwners(wrapper, wrapper[w].rep) = {w}
         /\ Custodians(call, wrapper[w].rep) = {}
         /\ Resulting(call, wrapper[w].rep) = {}
         /\ Owners(wrapper[w].rep) # {}
         /\ \A r \in Reps : r # wrapper[w].rep => w \notin WrapperOwners(wrapper, r)
<1> DEFINE q == wrapper[w].rep
<1>1. q \in Reps
  BY WrapperMade
<1>2. w \in WrapperOwners(wrapper, q)
  BY DEF WrapperOwners
<1>3. \A r \in Reps : r # q => w \notin WrapperOwners(wrapper, r)
  BY DEF WrapperOwners
<1> HIDE DEF q
<1>4. QED
  BY <1>1, <1>2, <1>3, OwnerAlone, HandleParts DEF q

\* One wrapper loses its validity or starts to wait for its lends.
LEMMA WrapperEnds ==
  ASSUME HandleInv, NEW w \in Wrappers, NEW p \in BOOLEAN, wrapper[w].rep # 0,
         p => wrapper[w].owns /\ wrapper[w].lends > 0
  PROVE  LET ws == [wrapper EXCEPT ![w].valid = FALSE, ![w].pending = p]
         IN  /\ ws \in [Wrappers -> WrapperType] /\ WrappersSound(ws)
             /\ RefsSound(call, ws) /\ WrapperLends(call, ws)
             /\ \A r \in Reps : WrapperOwners(ws, r) =
                  IF p /\ wrapper[w].rep = r THEN WrapperOwners(wrapper, r) \cup {w}
                  ELSE WrapperOwners(wrapper, r) \ {w}
<1> DEFINE f == [wrapper[w] EXCEPT !.valid = FALSE, !.pending = p]
           ws == [wrapper EXCEPT ![w].valid = FALSE, ![w].pending = p]
<1>1. wrapper[w] \in WrapperType
  BY HandleParts
<1>2. /\ f \in WrapperType /\ f.rep = wrapper[w].rep /\ f.owns = wrapper[w].owns
      /\ f.lends = wrapper[w].lends /\ f.valid = FALSE /\ f.pending = p
  BY <1>1 DEF WrapperType
<1>3. ws = [wrapper EXCEPT ![w] = f]
  OBVIOUS
<1> HIDE DEF f
<1>4. /\ ws \in [Wrappers -> WrapperType] /\ ws[w] = f
      /\ \A v \in Wrappers : v # w => ws[v] = wrapper[v]
  BY <1>2, <1>3, HandleParts
<1> HIDE DEF ws
<1>5. WrappersSound(ws)
  BY <1>2, <1>4, HandleParts DEF WrappersSound
<1>6. /\ \A v \in Wrappers : ws[v].rep = wrapper[v].rep /\ ws[v].owns = wrapper[v].owns
      /\ \A v \in Wrappers : ws[v].lends = wrapper[v].lends
  BY <1>2, <1>4
<1>7. RefsSound(call, ws)
  <2>1. \A c \in Calls : call[c].lent \subseteq Wrappers /\ call[c].views \subseteq Wrappers
    BY HandleParts DEF CallType
  <2>2. QED
    BY <1>6, <2>1, HandleParts DEF RefsSound
<1>8. WrapperLends(call, ws)
  BY <1>6, HandleParts DEF WrapperLends
<1>9. \A r \in Reps : WrapperOwners(ws, r) =
         IF p /\ wrapper[w].rep = r THEN WrapperOwners(wrapper, r) \cup {w}
         ELSE WrapperOwners(wrapper, r) \ {w}
  BY <1>2, <1>4 DEF WrapperOwners
<1>10. QED
  BY <1>4, <1>5, <1>7, <1>8, <1>9 DEF ws

LEMMA HostCallRefusedInv ==
  ASSUME HandleInv, NEW w \in Wrappers, NEW v \in Wrappers, HostCallRefused(w, v)
  PROVE  HandleInv'
<1> DEFINE q == wrapper[w].rep
<1>1. /\ wrapper[w].valid /\ wrapper[w].owns
      /\ wrapper' = [wrapper EXCEPT ![w].valid = FALSE]
      /\ dtors' = Destroyed(IF Impl \in poisoned THEN {} ELSE {q})
      /\ slot' = slot /\ call' = call /\ born' = born /\ poisoned' = poisoned
  BY DEF HostCallRefused, Transferable
<1>2. q \in Reps /\ wrapper[w].pending = FALSE /\ q # 0
  BY <1>1, WrapperMade, BoundsAssumption DEF WrapperType, Reps
<1>3. wrapper' = [wrapper EXCEPT ![w].valid = FALSE, ![w].pending = FALSE]
  <2>1. \A r \in WrapperType : r.pending = FALSE =>
           [r EXCEPT !.valid = FALSE] = [r EXCEPT !.valid = FALSE, !.pending = FALSE]
    BY DEF WrapperType
  <2>2. [wrapper[w] EXCEPT !.valid = FALSE] = [wrapper[w] EXCEPT !.valid = FALSE, !.pending = FALSE]
    BY <1>2, <2>1, HandleParts
  <2>3. QED
    BY <1>1, <2>2
<1>4. /\ wrapper' \in [Wrappers -> WrapperType] /\ WrappersSound(wrapper')
      /\ RefsSound(call, wrapper') /\ WrapperLends(call, wrapper')
      /\ \A r \in Reps : WrapperOwners(wrapper', r) = WrapperOwners(wrapper, r) \ {w}
  BY <1>2, <1>3, WrapperEnds
<1>5. ASSUME NEW r \in Reps PROVE Sole(r)'
  <2>1. /\ dtors'[r] = dtors[r] \/ (r = q /\ dtors'[r] = dtors[r] + 1)
        /\ r = q => dtors'[r] = dtors[r] + 1 \/ poisoned # {}
    BY <1>1, DestroyedSays, HandleParts
  <2>2. CASE r = q
    <3>1. /\ TableOwners(slot, r) = {} /\ WrapperOwners(wrapper, r) = {w}
          /\ Custodians(call, r) = {} /\ Resulting(call, r) = {} /\ Owners(r) # {}
      BY <1>1, <2>2, OwnWrapper
    <3>2. Told(TableOwners(slot', r), WrapperOwners(wrapper', r),
               Custodians(call', r), Resulting(call', r)) = {}
      BY <1>1, <1>4, <3>1, ToldOne
    <3>3. QED
      BY <1>1, <2>1, <2>2, <3>1, <3>2, MoveSole
  <2>3. CASE r # q
    <3>1. w \notin WrapperOwners(wrapper, r)
      BY <1>1, <2>3, OwnWrapper
    <3>2. WrapperOwners(wrapper', r) = WrapperOwners(wrapper, r)
      BY <1>4, <3>1
    <3>3. QED
      BY <1>1, <2>1, <2>3, <3>2, StaySole
  <2>4. QED
    BY <2>2, <2>3
<1>6. CountersTyped'
  BY <1>1, DestroyedSays, HandleParts DEF CountersTyped
<1>7. ScopesSound(slot', call')
  BY <1>1, HandleParts
<1>8. QED
  BY <1>1, <1>4, <1>5, <1>6, <1>7, HandleParts DEF HandleInv

LEMMA HostDropsInv ==
  ASSUME HandleInv, NEW w \in Wrappers, HostDrops(w)
  PROVE  HandleInv'
<1> DEFINE q == wrapper[w].rep
           now == wrapper[w].owns /\ wrapper[w].lends = 0
           p == wrapper[w].owns /\ wrapper[w].lends > 0
<1>1. /\ wrapper[w].valid
      /\ wrapper' = [wrapper EXCEPT ![w].valid = FALSE, ![w].pending = p]
      /\ dtors' = Destroyed(IF now /\ Impl \notin poisoned THEN {q} ELSE {})
      /\ slot' = slot /\ call' = call /\ born' = born /\ poisoned' = poisoned
  BY DEF HostDrops, Dropped
<1>2. q \in Reps /\ q # 0 /\ p \in BOOLEAN /\ wrapper[w].lends \in Nat /\ wrapper[w].owns \in BOOLEAN
  BY <1>1, WrapperMade, BoundsAssumption DEF WrapperType, Reps
<1>3. /\ wrapper' \in [Wrappers -> WrapperType] /\ WrappersSound(wrapper')
      /\ RefsSound(call, wrapper') /\ WrapperLends(call, wrapper')
      /\ \A r \in Reps : WrapperOwners(wrapper', r) =
                  IF p /\ q = r THEN WrapperOwners(wrapper, r) \cup {w}
                  ELSE WrapperOwners(wrapper, r) \ {w}
  BY <1>1, <1>2, WrapperEnds
<1>4. ASSUME NEW r \in Reps PROVE Sole(r)'
  <2>1. dtors'[r] = IF now /\ Impl \notin poisoned /\ r = q THEN dtors[r] + 1 ELSE dtors[r]
    BY <1>1, DestroyedSays, HandleParts
  <2>2. CASE now /\ r = q
    <3>1. /\ TableOwners(slot, r) = {} /\ WrapperOwners(wrapper, r) = {w}
          /\ Custodians(call, r) = {} /\ Resulting(call, r) = {} /\ Owners(r) # {}
      BY <1>1, <2>2, OwnWrapper
    <3>2. WrapperOwners(wrapper', r) = {}
      BY <1>2, <1>3, <2>2, <3>1
    <3>3. Told(TableOwners(slot', r), WrapperOwners(wrapper', r),
               Custodians(call', r), Resulting(call', r)) = {}
      BY <1>1, <3>1, <3>2, ToldOne
    <3>4. dtors'[r] = dtors[r] + 1 \/ (dtors'[r] = dtors[r] /\ poisoned # {})
      BY <2>1, <2>2
    <3>5. QED
      BY <1>1, <3>1, <3>3, <3>4, MoveSole
  <2>3. CASE ~(now /\ r = q)
    <3>1. w \in WrapperOwners(wrapper, r) <=> p /\ q = r
      BY <1>1, <1>2, <2>3 DEF WrapperOwners
    <3>2. WrapperOwners(wrapper', r) = WrapperOwners(wrapper, r)
      BY <1>3, <3>1
    <3>3. dtors'[r] = dtors[r]
      BY <2>1, <2>3
    <3>4. QED
      BY <1>1, <3>2, <3>3, StaySole
  <2>4. QED
    BY <2>2, <2>3
<1>5. CountersTyped'
  BY <1>1, DestroyedSays, HandleParts DEF CountersTyped
<1>6. ScopesSound(slot', call')
  BY <1>1, HandleParts
<1>7. QED
  BY <1>1, <1>3, <1>4, <1>5, <1>6, HandleParts DEF HandleInv

\* The destructor of a drop of the host traps: nothing is unwound, but the calls
\* that stand on the implementing instance do not go on.
LEMMA HostDropTrapsInv ==
  ASSUME HandleInv, NEW w \in Wrappers, HostDropTraps(w)
  PROVE  HandleInv'
<1> DEFINE failed == FailedBy({Impl})
           lost == {d \in Calls : /\ call[d].phase = "open"
                                  /\ \E e \in call[d].stack :
                                       call[e].kind \in {"export", "async"} /\ call[e].callee = Impl}
           q == wrapper[w].rep
<1>1. /\ wrapper[w].valid /\ wrapper[w].owns /\ wrapper[w].lends = 0
      /\ wrapper' = Dropped(w) /\ poisoned' = poisoned \cup {Impl} /\ dtors' = Destroyed({q})
      /\ call' = [d \in Calls |->
           IF d \in failed THEN [call[d] EXCEPT !.phase = "failed", !.args = {}]
           ELSE IF d \in lost THEN [call[d] EXCEPT !.phase = "lost"]
           ELSE call[d]]
      /\ slot' = slot /\ born' = born
  BY DEF HostDropTraps, Transferable
<1>2. \A d \in Calls : /\ d \in failed => /\ call[d].kind = "export"
                                         /\ call[d].phase \in {"waiting", "open"}
                       /\ d \in lost => call[d].phase = "open"
  BY DEF FailedBy
<1> HIDE DEF failed, lost
<1>3. ASSUME NEW d \in Calls
      PROVE  /\ call'[d] \in CallType /\ KindSound(call'[d])
             /\ call'[d].kind = call[d].kind /\ call'[d].stack = call[d].stack
             /\ call'[d].phase = "free" <=> call[d].phase = "free"
             /\ call'[d].phase = call[d].phase \/ call'[d].phase \in {"failed", "lost"}
             /\ call'[d].lent = call[d].lent /\ call'[d].views = call[d].views
             /\ call'[d].borrows = call[d].borrows /\ call'[d].result = call[d].result
             /\ call'[d].args \subseteq call[d].args
             /\ call'[d].lenders = call[d].lenders
  <2>1. call[d] \in CallType /\ KindSound(call[d])
    BY HandleParts
  <2>2. CASE d \in failed
    <3>1. call'[d] = [call[d] EXCEPT !.phase = "failed", !.args = {}]
      BY <1>1, <2>2
    <3>2. QED
      BY <1>2, <2>1, <2>2, <3>1 DEF CallType, Phases, KindSound
  <2>3. CASE d \notin failed /\ d \in lost
    <3>1. call'[d] = [call[d] EXCEPT !.phase = "lost"] /\ call[d].phase = "open"
      BY <1>1, <1>2, <2>3
    <3>2. QED
      BY <2>1, <2>3, <3>1 DEF CallType, Phases, KindSound
  <2>4. CASE d \notin failed /\ d \notin lost
    BY <1>1, <2>1, <2>4
  <2>5. QED
    BY <2>2, <2>3, <2>4
<1>4. call' \in [Calls -> CallType] /\ CallsSound(call')
  <2>1. call' \in [Calls -> CallType]
    BY <1>1, <1>3
  <2>2. \A c \in Calls :
          /\ KindSound(call'[c])
          /\ call'[c].kind = call[c].kind
          /\ call'[c].phase = "free" <=> call[c].phase = "free"
          /\ call'[c].stack = call[c].stack \/ (call'[c].stack = {c} /\ call[c].kind = "async")
    BY <1>3
  <2>3. QED
    BY <2>1, <2>2, CallsKept, HandleParts
<1>5. /\ q \in Reps /\ q # 0 /\ wrapper' = [wrapper EXCEPT ![w].valid = FALSE, ![w].pending = FALSE]
  <2>1. q \in Reps /\ ~(wrapper[w].owns /\ wrapper[w].lends > 0)
    <3>1. q \in Reps
      BY <1>1, WrapperMade
    <3>2. wrapper[w].lends = 0
      BY <1>1
    <3>3. QED
      BY <3>1, <3>2
  <2>2. q # 0
    BY <2>1, BoundsAssumption DEF Reps
  <2>3. (wrapper[w].owns /\ wrapper[w].lends > 0) = FALSE
    BY <2>1
  <2>4. QED
    BY <1>1, <2>1, <2>2, <2>3 DEF Dropped
<1>6. /\ wrapper' \in [Wrappers -> WrapperType] /\ WrappersSound(wrapper')
      /\ RefsSound(call, wrapper') /\ WrapperLends(call, wrapper')
      /\ \A r \in Reps : WrapperOwners(wrapper', r) = WrapperOwners(wrapper, r) \ {w}
  BY <1>5, WrapperEnds
<1>7. /\ \A d \in Calls : call'[d].lent = call[d].lent /\ call'[d].views = call[d].views
      /\ \A d \in Calls : call'[d].lenders = call[d].lenders /\ call'[d].borrows = call[d].borrows
      /\ \A d \in Calls : call'[d].kind = call[d].kind /\ call'[d].result = call[d].result
      /\ \A d \in Calls : call'[d].args \subseteq call[d].args
      /\ \A d \in Calls : call'[d].phase = call[d].phase \/ call'[d].phase \in {"failed", "lost"}
  BY <1>3
<1>8. RefsSound(call', wrapper')
  BY <1>6, <1>7 DEF RefsSound
<1>9. WrapperLends(call', wrapper')
  <2>1. \A v \in Wrappers : {c \in Calls : v \in call'[c].lent} = {c \in Calls : v \in call[c].lent}
    BY <1>7
  <2>2. QED
    BY <1>6, <2>1 DEF WrapperLends
<1>10. LendsCounted(slot', call')
  <2>1. LendsCounted(slot, call) /\ \A c \in Calls : call'[c].lenders = call[c].lenders
    BY <1>7, HandleParts
  <2>2. LendsCounted(slot, call')
    BY <2>1, SameLenders
  <2>3. QED
    BY <1>1, <2>2
<1>11. ScopesSound(slot', call')
  BY ZenonT(60), <1>1, <1>7, HandleParts DEF ScopesSound
<1>12. poisoned' \in SUBSET Inst /\ poisoned' # {} /\ poisoned \subseteq poisoned'
  BY <1>1, ImplAssumption, HandleParts
<1>13. ASSUME NEW r \in Reps PROVE Sole(r)'
  <2> DEFINE A == TableOwners(slot, r)
             B == WrapperOwners(wrapper, r)
             C == Custodians(call, r)
             D == Resulting(call, r)
             Bp == B \ {w}
             Cp == Custodians(call', r)
  <2>1. Cp \subseteq C /\ Resulting(call', r) = D
    BY <1>7 DEF Custodians, Resulting
  <2>2. Owners(r) = Told(A, B, C, D)
    BY OwnersAre
  <2>3. Owners(r)' = Told(A, Bp, Cp, D)
    BY <1>1, <1>6, <2>1, OwnersNext
  <2>4. dtors'[r] = IF r = q THEN dtors[r] + 1 ELSE dtors[r]
    <3>1. dtors' = Destroyed({q})
      BY <1>1
    <3>2. Destroyed({q})[r] = IF r \in {q} THEN dtors[r] + 1 ELSE dtors[r]
      BY DestroyedSays, HandleParts
    <3>3. QED
      BY <3>1, <3>2
  <2>5. r = q => A = {} /\ B = {w} /\ C = {} /\ D = {} /\ Owners(r) # {}
    BY <1>1, OwnWrapper
  <2> HIDE DEF A, B, C, D, Cp
  <2>6. Owners(r)' \subseteq Owners(r)
    BY <2>1, <2>2, <2>3 DEF Told
  <2>7. r = q => Owners(r)' = {}
    <3>1. r = q => Bp = {} /\ Cp = {}
      BY <2>1, <2>5
    <3>2. QED
      BY <2>3, <2>5, <3>1, ToldOne
  <2>8. QED
    BY <1>1, <1>12, <2>4, <2>5, <2>6, <2>7, SoleKept, HandleParts
<1>14. CountersTyped'
  BY <1>1, <1>12, DestroyedSays, HandleParts DEF CountersTyped
<1>15. QED
  BY <1>1, <1>4, <1>6, <1>8, <1>9, <1>10, <1>11, <1>13, <1>14, HandleParts DEF HandleInv

-----------------------------------------------------------------------------
(* Calls start.                                                             *)

LEMMA StartCall ==
  ASSUME HandleInv, NEW d \in Calls, Fresh(d), NEW f \in CallType, KindSound(f),
         f.phase # "free", f.kind # "none",
         f.kind # "import" =>
           /\ d \in f.stack
           /\ \A e \in f.stack : e = d \/ call[e].kind \in {"export", "sync", "async"}
           /\ f.kind # "sync" \/ \E e \in f.stack : e # d /\ call[e].kind # "sync"
  PROVE  /\ LET cl == [call EXCEPT ![d] = f]
            IN  /\ cl \in [Calls -> CallType] /\ CallsSound(cl)
                /\ cl[d] = f /\ \A c \in Calls : c # d => cl[c] = call[c]
         /\ call[d].kind = "none" /\ call[d].lenders = {} /\ call[d].lent = {}
         /\ call[d].args = {} /\ call[d].result = 0 /\ call[d].views = {}
         /\ ScopeSlots(slot, d) = {}
<1>1. call[d].phase = "free" /\ \A e \in 1..(d - 1) : call[e].phase # "free"
  BY DEF Fresh
<1>2. /\ call[d].kind = "none" /\ call[d].lenders = {} /\ call[d].lent = {}
      /\ call[d].args = {} /\ call[d].result = 0 /\ call[d].views = {}
  BY <1>1, HandleParts DEF KindSound, Idle
<1>3. ScopeSlots(slot, d) = {}
  BY <1>1, NoScopes
<1>4. CallsSound([call EXCEPT ![d] = f])
  BY <1>1, CallStarts, HandleParts
<1>5. QED
  BY <1>2, <1>3, <1>4, HandleParts

\* The record of a new call: Idle with some of its fields set.
LEMMA IdleTyped == Idle \in CallType
<1>1. 0 \in 0..MaxReps
  BY BoundsAssumption
<1>2. QED
  BY <1>1 DEF Idle, CallType, Phases, Kinds

LEMMA HostCallsInv ==
  ASSUME HandleInv, NEW d \in Calls, NEW i \in Inst, NEW owns \in SUBSET Wrappers,
         NEW lent \in SUBSET Wrappers, HostCalls(d, i, owns, lent)
  PROVE  HandleInv'
<1> DEFINE reps == {wrapper[w].rep : w \in owns}
           f == [Idle EXCEPT !.phase = "waiting", !.kind = "export", !.stack = {d}, !.callee = i,
                             !.args = reps, !.lent = lent]
<1>1. /\ Fresh(d) /\ owns \cap lent = {} /\ \A w \in lent : wrapper[w].valid
      /\ \A w \in owns : wrapper[w].valid /\ wrapper[w].owns
      /\ call' = [call EXCEPT ![d] = f]
      /\ wrapper' = [w \in Wrappers |->
           IF w \in owns THEN [wrapper[w] EXCEPT !.valid = FALSE]
           ELSE IF w \in lent THEN [wrapper[w] EXCEPT !.lends = wrapper[w].lends + 1]
           ELSE wrapper[w]]
      /\ slot' = slot /\ born' = born /\ dtors' = dtors /\ poisoned' = poisoned
  BY DEF HostCalls, Transferable
<1>2. reps \in SUBSET Reps
  BY <1>1, WrapperMade
<1>3. /\ f.phase = "waiting" /\ f.kind = "export" /\ f.stack = {d} /\ f.callee = i
      /\ f.args = reps /\ f.lent = lent /\ f.lenders = {} /\ f.borrows = 0 /\ f.result = 0
      /\ f.views = {}
  BY DEF Idle
<1> HIDE DEF reps
<1>4. f \in CallType
  <2>1. "waiting" \in Phases /\ "export" \in Kinds /\ {d} \in SUBSET Calls
    BY DEF Phases, Kinds
  <2>2. QED
    BY <1>2, <2>1, IdleTyped DEF CallType
<1> HIDE DEF f
<1>5. KindSound(f)
  BY <1>3 DEF KindSound
<1>6. /\ call' \in [Calls -> CallType] /\ CallsSound(call')
      /\ call'[d] = f /\ \A c \in Calls : c # d => call'[c] = call[c]
      /\ call[d].kind = "none" /\ call[d].lenders = {} /\ call[d].lent = {}
      /\ call[d].args = {} /\ call[d].result = 0 /\ call[d].views = {}
      /\ ScopeSlots(slot, d) = {}
  <2>1. /\ d \in f.stack /\ f.kind # "sync"
        /\ \A e \in f.stack : e = d \/ call[e].kind \in {"export", "sync", "async"}
        /\ f.phase # "free" /\ f.kind # "none"
    BY <1>3
  <2>2. f.kind # "import" =>
           /\ d \in f.stack
           /\ \A e \in f.stack : e = d \/ call[e].kind \in {"export", "sync", "async"}
           /\ f.kind # "sync" \/ \E e \in f.stack : e # d /\ call[e].kind # "sync"
    BY <2>1
  <2>3. Fresh(d) /\ f.phase # "free" /\ f.kind # "none"
    BY <1>1, <2>1
  <2> DEFINE cl == [call EXCEPT ![d] = f]
  <2>4. /\ cl \in [Calls -> CallType] /\ CallsSound(cl)
        /\ cl[d] = f /\ \A c \in Calls : c # d => cl[c] = call[c]
        /\ call[d].kind = "none" /\ call[d].lenders = {} /\ call[d].lent = {}
        /\ call[d].args = {} /\ call[d].result = 0 /\ call[d].views = {}
        /\ ScopeSlots(slot, d) = {}
    BY <1>4, <1>5, <2>2, <2>3, StartCall
  <2>5. call' = cl
    BY <1>1
  <2> HIDE DEF cl
  <2>6. QED
    BY <2>4, <2>5
<1>7. ASSUME NEW w \in Wrappers
      PROVE  /\ wrapper'[w] \in WrapperType /\ wrapper'[w].rep = wrapper[w].rep
             /\ wrapper'[w].owns = wrapper[w].owns /\ wrapper'[w].pending = wrapper[w].pending
             /\ wrapper'[w].lends = IF w \in lent THEN wrapper[w].lends + 1 ELSE wrapper[w].lends
             /\ wrapper'[w].valid = IF w \in owns THEN FALSE ELSE wrapper[w].valid
             /\ w \in owns \cup lent => wrapper[w].rep # 0 /\ wrapper[w].pending = FALSE
             /\ w \notin owns \cup lent => wrapper'[w] = wrapper[w]
  <2>1. wrapper[w] \in WrapperType
    BY HandleParts
  <2>2. w \in owns \cup lent => wrapper[w].rep # 0 /\ wrapper[w].pending = FALSE
    BY <1>1, <2>1, WrapperMade, BoundsAssumption DEF Reps, WrapperType
  <2>3. CASE w \in owns
    <3>1. wrapper'[w] = [wrapper[w] EXCEPT !.valid = FALSE] /\ w \notin lent
      BY <1>1, <2>3
    <3>2. QED
      BY <2>1, <2>2, <2>3, <3>1 DEF WrapperType
  <2>4. CASE w \in lent
    <3>1. wrapper'[w] = [wrapper[w] EXCEPT !.lends = wrapper[w].lends + 1] /\ w \notin owns
      BY <1>1, <2>4
    <3>2. QED
      BY <2>1, <2>2, <2>4, <3>1 DEF WrapperType
  <2>5. CASE w \notin owns /\ w \notin lent
    BY <1>1, <2>1, <2>5
  <2>6. QED
    BY <2>3, <2>4, <2>5
<1>8. wrapper' \in [Wrappers -> WrapperType]
  BY <1>1, <1>7
<1>9. WrappersSound(wrapper')
  <2>1. ASSUME NEW w \in Wrappers
        PROVE  /\ wrapper'[w].rep = 0 => wrapper'[w] = Unmade
               /\ wrapper'[w].pending =>
                    wrapper'[w].owns /\ ~wrapper'[w].valid /\ wrapper'[w].lends > 0
    <3>1. CASE w \in owns \cup lent
      BY <1>7, <3>1
    <3>2. CASE w \notin owns \cup lent
      BY <1>7, <3>2, HandleParts DEF WrappersSound
    <3>3. QED
      BY <3>1, <3>2
  <2>2. QED
    BY <2>1 DEF WrappersSound
<1>10. RefsSound(call', wrapper')
  <2>1. ASSUME NEW c \in Calls
        PROVE  /\ \A w \in call'[c].lent : wrapper'[w].rep # 0
               /\ \A w \in call'[c].views : wrapper'[w].rep # 0 /\ ~wrapper'[w].owns
    <3>1. CASE c = d
      BY ZenonT(60), <1>3, <1>6, <1>7, <3>1
    <3>2. CASE c # d
      <4>1. call[c].lent \in SUBSET Wrappers /\ call[c].views \in SUBSET Wrappers
        BY HandleParts DEF CallType
      <4>2. QED
        BY ZenonT(60), <1>6, <1>7, <3>2, <4>1, HandleParts DEF RefsSound
    <3>3. QED
      BY <3>1, <3>2
  <2>2. QED
    BY <2>1 DEF RefsSound
<1>11. WrapperLends(call', wrapper')
  <2>1. ASSUME NEW w \in Wrappers
        PROVE  wrapper'[w].lends = Cardinality({c \in Calls : w \in call'[c].lent})
    <3> DEFINE S == {c \in Calls : w \in call[c].lent}
               T == {c \in Calls : w \in call'[c].lent}
    <3>1. wrapper[w].lends = Cardinality(S) /\ IsFiniteSet(S) /\ d \notin S
      BY <1>6, CallsFinite, HandleParts DEF WrapperLends
    <3>2. CASE w \in lent
      <4>1. T = S \cup {d}
        BY <1>3, <1>6, <3>2
      <4>2. Cardinality(S \cup {d}) = Cardinality(S) + 1
        BY <3>1, FS_AddElement
      <4>3. QED
        BY <1>7, <3>1, <3>2, <4>1, <4>2
    <3>3. CASE w \notin lent
      <4>1. T = S
        BY <1>3, <1>6, <3>3
      <4>2. QED
        BY <1>7, <3>1, <3>3, <4>1
    <3>4. QED
      BY <3>2, <3>3
  <2>2. QED
    BY <2>1 DEF WrapperLends
<1>12. LendsCounted(slot', call')
  <2>1. \A c \in Calls : call'[c].lenders = call[c].lenders
    BY <1>3, <1>6
  <2>2. QED
    BY <1>1, <2>1, SameLenders, HandleParts
<1>13. ScopesSound(slot', call')
  <2>1. ASSUME NEW c \in Calls
        PROVE  /\ call'[c].borrows >= Cardinality(ScopeSlots(slot, c))
               /\ ScopeSlots(slot, c) # {} =>
                    call'[c].phase \in {"open", "failed", "lost"} /\ call'[c].kind # "import"
    <3>1. CASE c = d
      BY <1>3, <1>6, <3>1, FS_EmptySet
    <3>2. CASE c # d
      BY <1>6, <3>2, HandleParts DEF ScopesSound
    <3>3. QED
      BY <3>1, <3>2
  <2>2. QED
    BY <1>1, <2>1 DEF ScopesSound
<1>14. ASSUME NEW r \in Reps PROVE Sole(r)'
  <2>1. Resulting(call', r) = Resulting(call, r)
    BY <1>3, <1>6 DEF Resulting
  <2>2. Custodians(call', r) = IF r \in reps THEN Custodians(call, r) \cup {d} ELSE Custodians(call, r)
    BY <1>3, <1>6 DEF Custodians
  <2>3. WrapperOwners(wrapper', r) = WrapperOwners(wrapper, r) \ owns
    <3>1. ASSUME NEW w \in Wrappers
          PROVE  w \in WrapperOwners(wrapper', r) <=> w \in WrapperOwners(wrapper, r) /\ w \notin owns
      BY <1>7 DEF WrapperOwners
    <3>2. QED
      BY <3>1 DEF WrapperOwners
  <2>4. CASE r \in reps
    <3>1. PICK w \in owns : r = wrapper[w].rep
      BY <2>4 DEF reps
    <3>2. /\ TableOwners(slot, r) = {} /\ WrapperOwners(wrapper, r) = {w}
          /\ Custodians(call, r) = {} /\ Resulting(call, r) = {} /\ Owners(r) # {}
      BY <1>1, <3>1, OwnWrapper
    <3>3. WrapperOwners(wrapper', r) = {} /\ Custodians(call', r) = {d}
      BY <2>2, <2>3, <2>4, <3>1, <3>2
    <3>4. Told(TableOwners(slot', r), WrapperOwners(wrapper', r),
               Custodians(call', r), Resulting(call', r)) = {<<"custody", d>>}
      BY <1>1, <2>1, <3>2, <3>3, ToldOne
    <3>5. QED
      BY <1>1, <3>2, <3>4, MoveSole
  <2>5. CASE r \notin reps
    <3>1. \A w \in owns : w \notin WrapperOwners(wrapper, r)
      BY <2>5 DEF WrapperOwners, reps
    <3>2. WrapperOwners(wrapper', r) = WrapperOwners(wrapper, r)
      BY <2>3, <3>1
    <3>3. QED
      BY <1>1, <2>1, <2>2, <2>5, <3>2, StaySole
  <2>6. QED
    BY <2>4, <2>5
<1>15. CountersTyped'
  BY <1>1, HandleParts DEF CountersTyped
<1>16. QED
  BY <1>1, <1>6, <1>8, <1>9, <1>10, <1>11, <1>12, <1>13, <1>14, <1>15, HandleParts DEF HandleInv

-----------------------------------------------------------------------------
(* The wrapper of an export settles: the lends of its arguments are given     *)
(* back, the drops that waited for the last of them run, and a result becomes *)
(* a wrapper.                                                                 *)

\* A call among those a wrapper is lent to has given it back.
LEMMA OneLess ==
  ASSUME HandleInv, NEW d \in Calls, NEW v \in Wrappers, v \in call[d].lent
  PROVE  /\ LendsAfter(v, d) \in Nat
         /\ LendsAfter(v, d) = Cardinality({c \in Calls : v \in call[c].lent} \ {d})
<1> DEFINE S == {c \in Calls : v \in call[c].lent}
<1>1. IsFiniteSet(S) /\ d \in S /\ wrapper[v].lends = Cardinality(S)
  BY CallsFinite, HandleParts DEF WrapperLends
<1>2. Cardinality(S \ {d}) = Cardinality(S) - 1
  BY <1>1, FS_RemoveElement
<1>3. Cardinality(S \ {d}) \in Nat
  BY CallsFinite
<1> HIDE DEF S
<1>4. QED
  BY <1>1, <1>2, <1>3 DEF LendsAfter, S

TailOf(d, made) ==
  [v \in Wrappers |->
    IF v \in made THEN Wrapper(call[d].result, TRUE)
    ELSE IF v \in call[d].lent
         THEN [wrapper[v] EXCEPT !.lends = LendsAfter(v, d),
                                 !.pending = wrapper[v].pending /\ ~RunsDeferred(v, d)]
    ELSE wrapper[v]]

\* The wrapper made for a result, if there is one.
LEMMA HostTailMakes ==
  ASSUME HandleInv, NEW d \in Calls, HostTail(d)
  PROVE  \E made \in SUBSET Wrappers :
           /\ \A v \in made : made = {v} /\ wrapper[v] = Unmade
           /\ made = {} <=> call[d].result = 0
           /\ wrapper' = TailOf(d, made)
<1> DEFINE lent == call[d].lent
           deferred == {v \in lent : RunsDeferred(v, d)}
           r == call[d].result
           back == [v \in Wrappers |->
                     IF v \in lent
                     THEN [wrapper[v] EXCEPT !.lends = LendsAfter(v, d),
                                             !.pending = wrapper[v].pending /\ v \notin deferred]
                     ELSE wrapper[v]]
           was(v) == IF v \in lent
                     THEN [wrapper[v] EXCEPT !.lends = LendsAfter(v, d),
                                             !.pending = wrapper[v].pending /\ ~RunsDeferred(v, d)]
                     ELSE wrapper[v]
<1>1. \/ r = 0 /\ wrapper' = back
      \/ r # 0 /\ \E w \in Wrappers : /\ FreshWrapper(w)
                                      /\ wrapper' = [back EXCEPT ![w] = Wrapper(r, TRUE)]
  BY DEF HostTail
<1>2. back = [v \in Wrappers |-> was(v)]
  OBVIOUS
<1> HIDE DEF back, was
<1>3. CASE r = 0 /\ wrapper' = back
  <2>1. wrapper' = [v \in Wrappers |-> IF v \in {} THEN Wrapper(r, TRUE) ELSE was(v)]
    BY <1>2, <1>3
  <2>2. WITNESS {} \in SUBSET Wrappers
  <2>3. QED
    BY <1>3, <2>1 DEF was, TailOf
<1>4. CASE r # 0 /\ \E w \in Wrappers : /\ FreshWrapper(w)
                                        /\ wrapper' = [back EXCEPT ![w] = Wrapper(r, TRUE)]
  <2>1. PICK w \in Wrappers : FreshWrapper(w) /\ wrapper' = [back EXCEPT ![w] = Wrapper(r, TRUE)]
    BY <1>4
  <2>2. wrapper' = [v \in Wrappers |-> IF v \in {w} THEN Wrapper(r, TRUE) ELSE was(v)]
    BY <1>2, <2>1
  <2>3. wrapper[w] = Unmade
    BY <2>1 DEF FreshWrapper
  <2>4. WITNESS {w} \in SUBSET Wrappers
  <2>5. QED
    BY <1>4, <2>2, <2>3 DEF was, TailOf
<1>5. QED
  BY <1>1, <1>3, <1>4

LEMMA UnmadeIs ==
  /\ Unmade.rep = 0 /\ ~Unmade.owns /\ ~Unmade.valid /\ Unmade.lends = 0 /\ ~Unmade.pending
  /\ Unmade \in WrapperType
  /\ \A r, o : /\ Wrapper(r, o).rep = r /\ Wrapper(r, o).lends = 0
              /\ Wrapper(r, o).valid /\ ~Wrapper(r, o).pending
              /\ Wrapper(r, o).owns = o
  /\ \A r \in 0..MaxReps, o \in BOOLEAN : Wrapper(r, o) \in WrapperType
<1>1. /\ Unmade.rep = 0 /\ ~Unmade.owns /\ ~Unmade.valid /\ Unmade.lends = 0 /\ ~Unmade.pending
      /\ Unmade \in WrapperType
  BY BoundsAssumption DEF Unmade, WrapperType
<1>2. \A r, o : /\ Wrapper(r, o).rep = r /\ Wrapper(r, o).lends = 0
                /\ Wrapper(r, o).valid /\ ~Wrapper(r, o).pending
                /\ Wrapper(r, o).owns = o
  BY DEF Wrapper
<1>3. \A r \in 0..MaxReps, o \in BOOLEAN : Wrapper(r, o) \in WrapperType
  BY DEF Wrapper, WrapperType
<1>4. QED
  BY <1>1, <1>2, <1>3

\* What the tail does to the wrappers.
LEMMA HostTailWrappers ==
  ASSUME HandleInv, NEW d \in Calls, NEW r, r = call[d].result, call[d].views = {}, call[d].args = {},
         NEW made \in SUBSET Wrappers,
         \A v \in made : made = {v} /\ wrapper[v] = Unmade,
         made = {} <=> r = 0, NEW ws,
         ws = TailOf(d, made)
  PROVE  /\ ws \in [Wrappers -> WrapperType] /\ WrappersSound(ws)
         /\ \A v \in made : \A c \in Calls : v \notin call[c].lent /\ v \notin call[c].views
         /\ \A v \in Wrappers :
              /\ v \notin made => ws[v].rep = wrapper[v].rep /\ ws[v].owns = wrapper[v].owns
              /\ v \in made => ws[v].lends = 0
              /\ v \in call[d].lent => ws[v].lends = LendsAfter(v, d)
              /\ v \notin made /\ v \notin call[d].lent => ws[v].lends = wrapper[v].lends
         /\ \A s \in Reps : WrapperOwners(ws, s) =
              (WrapperOwners(wrapper, s) \ {v \in call[d].lent : RunsDeferred(v, d)})
                \cup (IF s = r THEN made ELSE {})
<1> DEFINE lent == call[d].lent
<1>1. lent \in SUBSET Wrappers /\ r \in 0..MaxReps
  BY HandleParts DEF CallType
<1>2. \A v \in made : \A c \in Calls : v \notin call[c].lent /\ v \notin call[c].views
  <2>1. \A v \in made : wrapper[v].rep = 0
    BY UnmadeIs
  <2>2. \A c \in Calls : call[c].lent \subseteq Wrappers /\ call[c].views \subseteq Wrappers
    BY HandleParts DEF CallType
  <2>3. RefsSound(call, wrapper)
    BY HandleParts
  <2>4. QED
    BY <2>1, <2>3 DEF RefsSound
<1>3. \A v \in made : ws[v] = Wrapper(r, TRUE) /\ r # 0
  BY <1>1 DEF TailOf
<1>4. \A v \in Wrappers : v \notin made /\ v \in lent =>
        ws[v] = [wrapper[v] EXCEPT !.lends = LendsAfter(v, d),
                                   !.pending = wrapper[v].pending /\ ~RunsDeferred(v, d)]
  BY DEF TailOf
<1>5. \A v \in Wrappers : v \notin made /\ v \notin lent => ws[v] = wrapper[v]
  BY DEF TailOf
<1>6. DOMAIN ws = Wrappers /\ ws = [v \in Wrappers |-> ws[v]]
  BY DEF TailOf
<1>7. ASSUME NEW v \in Wrappers
      PROVE  /\ ws[v] \in WrapperType
             /\ ws[v].rep = 0 => ws[v] = Unmade
             /\ ws[v].pending => ws[v].owns /\ ~ws[v].valid /\ ws[v].lends > 0
             /\ v \notin made => ws[v].rep = wrapper[v].rep /\ ws[v].owns = wrapper[v].owns
             /\ v \in made => ws[v].lends = 0
             /\ v \in lent => ws[v].lends = LendsAfter(v, d)
             /\ v \notin made /\ v \notin lent => ws[v].lends = wrapper[v].lends
             /\ \A s \in Reps :
                  v \in WrapperOwners(ws, s) <=>
                    \/ v \in WrapperOwners(wrapper, s) /\ ~(v \in lent /\ RunsDeferred(v, d))
                    \/ s = r /\ v \in made
  <2>1. /\ wrapper[v] \in WrapperType
        /\ wrapper[v].rep = 0 => wrapper[v] = Unmade
        /\ wrapper[v].pending => wrapper[v].owns /\ ~wrapper[v].valid /\ wrapper[v].lends > 0
    BY HandleParts DEF WrappersSound
  <2>2. CASE v \in made
    <3>1. ws[v] = Wrapper(r, TRUE) /\ r # 0 /\ v \notin lent
      BY <1>2, <1>3, <2>2
    <3>2. \A s \in Reps : v \notin WrapperOwners(wrapper, s)
      <4>1. ~wrapper[v].owns
        BY <2>2, UnmadeIs
      <4>2. QED
        BY <4>1 DEF WrapperOwners
    <3>4. /\ ws[v] \in WrapperType /\ ws[v].rep # 0 /\ ~ws[v].pending /\ ws[v].lends = 0
          /\ ws[v].rep = r /\ ws[v].owns /\ ws[v].valid
      <4>1. Wrapper(r, TRUE).owns = TRUE /\ Wrapper(r, TRUE) \in WrapperType
        BY <1>1, UnmadeIs
      <4>4. /\ Wrapper(r, TRUE).rep = r /\ Wrapper(r, TRUE).lends = 0
            /\ Wrapper(r, TRUE).valid /\ ~Wrapper(r, TRUE).pending
        BY ZenonT(60), UnmadeIs
      <4>2. ws[v].owns
        BY <3>1, <4>1
      <4>3. QED
        BY <3>1, <4>1, <4>2, <4>4
    <3>3. \A s \in Reps : v \in WrapperOwners(ws, s) <=> s = r
      BY <3>4 DEF WrapperOwners
    <3>5. QED
      BY <2>2, <3>1, <3>2, <3>3, <3>4
  <2>3. CASE v \notin made /\ v \in lent
    <3> DEFINE n == LendsAfter(v, d)
               p == wrapper[v].pending /\ ~RunsDeferred(v, d)
    <3>1. ws[v] = [wrapper[v] EXCEPT !.lends = n, !.pending = p] /\ n \in Nat /\ p \in BOOLEAN
      BY <1>4, <2>3, OneLess
    <3>2. p => wrapper[v].pending /\ n # 0
      BY DEF RunsDeferred
    <3>3. RunsDeferred(v, d) => wrapper[v].pending /\ ~p
      BY DEF RunsDeferred
    <3>4. ~RunsDeferred(v, d) => p = wrapper[v].pending
      BY <2>1 DEF WrapperType
    <3> HIDE DEF n, p
    <3>5. /\ ws[v] \in WrapperType /\ ws[v].rep = wrapper[v].rep /\ ws[v].owns = wrapper[v].owns
          /\ ws[v].valid = wrapper[v].valid /\ ws[v].lends = n /\ ws[v].pending = p
      BY <2>1, <3>1 DEF WrapperType
    <3>6. ws[v].rep # 0
      BY <2>3, <3>5, HandleParts DEF RefsSound
    <3>7. ws[v].pending => ws[v].owns /\ ~ws[v].valid /\ ws[v].lends > 0
      <4>1. SUFFICES ASSUME ws[v].pending PROVE ws[v].owns /\ ~ws[v].valid /\ ws[v].lends > 0
        OBVIOUS
      <4>2. wrapper[v].pending /\ n # 0
        BY <3>2, <3>5, <4>1
      <4>3. n > 0
        <5>1. n \in Nat
          BY <2>3, OneLess DEF n
        <5>2. QED
          BY <4>2, <5>1
      <4>4. QED
        BY <2>1, <3>5, <4>2, <4>3
    <3>8. \A s \in Reps :
            v \in WrapperOwners(ws, s) <=>
              v \in WrapperOwners(wrapper, s) /\ ~RunsDeferred(v, d)
      BY <2>1, <3>3, <3>4, <3>5 DEF WrapperOwners
    <3>9. QED
      BY <2>3, <3>5, <3>6, <3>7, <3>8 DEF n
  <2>4. CASE v \notin made /\ v \notin lent
    <3>1. ws[v] = wrapper[v]
      BY <1>5, <2>4
    <3>2. QED
      BY <2>1, <2>4, <3>1 DEF WrapperOwners
  <2>5. QED
    BY <2>2, <2>3, <2>4
<1>8. ws \in [Wrappers -> WrapperType] /\ WrappersSound(ws)
  BY <1>6, <1>7 DEF WrappersSound
<1>9. \A s \in Reps : WrapperOwners(ws, s) =
              (WrapperOwners(wrapper, s) \ {v \in call[d].lent : RunsDeferred(v, d)})
                \cup (IF s = r THEN made ELSE {})
  <2>1. ASSUME NEW s \in Reps
        PROVE  \A v \in Wrappers : v \in WrapperOwners(ws, s) <=>
                 v \in (WrapperOwners(wrapper, s) \ {u \in call[d].lent : RunsDeferred(u, d)})
                         \cup (IF s = r THEN made ELSE {})
    BY <1>7
  <2>2. \A s \in Reps : WrapperOwners(ws, s) \subseteq Wrappers /\ WrapperOwners(wrapper, s) \subseteq Wrappers
    BY DEF WrapperOwners
  <2>3. QED
    BY <2>1, <2>2
<1>10. QED
  BY <1>2, <1>7, <1>8, <1>9

LEMMA HostTailInv == ASSUME HandleInv, NEW d \in Calls, HostTail(d) PROVE HandleInv'
<1> DEFINE lent == call[d].lent
           r == call[d].result
           deferred == {w \in lent : RunsDeferred(w, d)}
           gone == IF Impl \in poisoned THEN {} ELSE {wrapper[w].rep : w \in deferred}
           p == IF call[d].phase = "failed" THEN "lost" ELSE "done"
           f == [call[d] EXCEPT !.phase = p, !.lent = {}, !.result = 0]
<1>1. /\ call[d].phase \in {"resolved", "failed"} /\ call[d].kind = "export"
      /\ call' = [call EXCEPT ![d] = f] /\ dtors' = Destroyed(gone)
      /\ slot' = slot /\ born' = born /\ poisoned' = poisoned
  BY DEF HostTail
<1>2. /\ call[d] \in CallType /\ KindSound(call[d]) /\ r \in 0..MaxReps
      /\ call[d].args = {} /\ call[d].views = {} /\ lent \in SUBSET Wrappers
  BY <1>1, HandleParts DEF KindSound, CallType
<1>3. /\ f \in CallType /\ KindSound(f) /\ f.phase = p /\ f.kind = "export" /\ f.lent = {}
      /\ f.result = 0 /\ f.args = {} /\ f.views = {} /\ f.stack = call[d].stack
      /\ f.lenders = call[d].lenders /\ f.borrows = call[d].borrows
  <2>1. p \in {"lost", "done"} /\ p \in Phases /\ 0 \in 0..MaxReps
    BY BoundsAssumption DEF Phases
  <2> HIDE DEF p
  <2>2. /\ f \in CallType /\ f.phase = p /\ f.kind = "export" /\ f.lent = {}
        /\ f.result = 0 /\ f.args = {} /\ f.views = {} /\ f.stack = call[d].stack
        /\ f.lenders = call[d].lenders /\ f.borrows = call[d].borrows
        /\ f.callee = call[d].callee
    BY <1>1, <1>2, <2>1 DEF CallType
  <2> HIDE DEF f
  <2>3. KindSound(f)
    BY <1>1, <1>2, <2>1, <2>2 DEF KindSound
  <2>4. QED
    BY <2>2, <2>3
<1>4. p \in {"lost", "done"} /\ (call[d].phase = "failed" => p = "lost")
  OBVIOUS
<1> HIDE DEF f, p
<1>5. /\ call' \in [Calls -> CallType] /\ CallsSound(call') /\ RefsSound(call', wrapper)
      /\ call'[d] = f /\ \A c \in Calls : c # d => call'[c] = call[c]
  <2>1. f.lent \subseteq call[d].lent /\ f.views \subseteq call[d].views
    BY <1>2, <1>3
  <2>2. f.phase = "free" <=> call[d].phase = "free"
    BY <1>1, <1>3, <1>4
  <2>3. f.kind = call[d].kind /\ (f.stack = call[d].stack \/ (f.stack = {d} /\ call[d].kind = "async"))
    BY <1>1, <1>3
  <2> DEFINE cl == [call EXCEPT ![d] = f]
  <2>4. /\ cl \in [Calls -> CallType] /\ CallsSound(cl) /\ RefsSound(cl, wrapper)
        /\ cl[d] = f /\ \A c \in Calls : c # d => cl[c] = call[c]
    BY <1>3, <2>1, <2>2, <2>3, OneCall
  <2>5. call' = cl
    BY <1>1
  <2> HIDE DEF cl
  <2>6. QED
    BY <2>4, <2>5
<1>6. PICK made \in SUBSET Wrappers :
        /\ \A v \in made : made = {v} /\ wrapper[v] = Unmade
        /\ made = {} <=> call[d].result = 0
        /\ wrapper' = TailOf(d, made)
  BY HostTailMakes
<1>7. /\ wrapper' \in [Wrappers -> WrapperType] /\ WrappersSound(wrapper')
      /\ \A v \in made : \A c \in Calls : v \notin call[c].lent /\ v \notin call[c].views
      /\ \A v \in Wrappers :
           /\ v \notin made => wrapper'[v].rep = wrapper[v].rep /\ wrapper'[v].owns = wrapper[v].owns
           /\ v \in made => wrapper'[v].lends = 0
           /\ v \in lent => wrapper'[v].lends = LendsAfter(v, d)
           /\ v \notin made /\ v \notin lent => wrapper'[v].lends = wrapper[v].lends
      /\ \A s \in Reps : WrapperOwners(wrapper', s) =
              (WrapperOwners(wrapper, s) \ deferred) \cup (IF s = r THEN made ELSE {})
  BY <1>2, <1>6, HostTailWrappers
<1>8. RefsSound(call', wrapper')
  <2>1. \A c \in Calls : /\ call'[c].lent \subseteq call[c].lent
                         /\ call'[c].views = call[c].views
                         /\ call[c].lent \subseteq Wrappers /\ call[c].views \subseteq Wrappers
    BY <1>2, <1>3, <1>5, HandleParts DEF CallType
  <2>2. QED
    BY <1>7, <2>1, HandleParts DEF RefsSound
<1>9. WrapperLends(call', wrapper')
  <2>1. ASSUME NEW v \in Wrappers
        PROVE  wrapper'[v].lends = Cardinality({c \in Calls : v \in call'[c].lent})
    <3> DEFINE S == {c \in Calls : v \in call[c].lent}
               T == {c \in Calls : v \in call'[c].lent}
    <3>1. T = S \ {d}
      BY <1>3, <1>5
    <3>2. v \in lent => wrapper'[v].lends = Cardinality(S \ {d})
      BY <1>7, OneLess
    <3>3. v \notin lent => S \ {d} = S
      OBVIOUS
    <3>4. v \in made => S = {} /\ wrapper'[v].lends = 0
      BY <1>7
    <3>5. v \notin made /\ v \notin lent => wrapper'[v].lends = Cardinality(S)
      BY <1>7, HandleParts DEF WrapperLends
    <3>6. S = {} => Cardinality(S) = 0
      BY FS_EmptySet
    <3> HIDE DEF S, T
    <3>7. wrapper'[v].lends = Cardinality(T)
      BY <1>7, <3>1, <3>2, <3>3, <3>4, <3>5, <3>6
    <3>8. QED
      BY <3>7 DEF T
  <2>2. QED
    BY <2>1 DEF WrapperLends
<1>10. LendsCounted(slot', call')
  <2>1. \A c \in Calls : call'[c].lenders = call[c].lenders
    BY <1>3, <1>5
  <2>2. QED
    BY <1>1, <2>1, SameLenders, HandleParts
<1>11. ScopesSound(slot', call')
  <2>1. ASSUME NEW c \in Calls
        PROVE  /\ call'[c].borrows >= Cardinality(ScopeSlots(slot, c))
               /\ ScopeSlots(slot, c) # {} =>
                    call'[c].phase \in {"open", "failed", "lost"} /\ call'[c].kind # "import"
    BY <1>1, <1>3, <1>4, <1>5, HandleParts DEF ScopesSound
  <2>2. QED
    BY <1>1, <2>1 DEF ScopesSound
<1>12. ASSUME NEW s \in Reps PROVE Sole(s)'
  <2>1. s # 0
    BY BoundsAssumption DEF Reps
  <2>2. Custodians(call', s) = Custodians(call, s)
    BY <1>2, <1>3, <1>5 DEF Custodians
  <2>3. Resulting(call', s) = Resulting(call, s) \ {d}
    BY <1>3, <1>5, <2>1 DEF Resulting
  <2>4. TableOwners(slot', s) = TableOwners(slot, s)
    BY <1>1
  <2>5. WrapperOwners(wrapper', s) = (WrapperOwners(wrapper, s) \ deferred) \cup (IF s = r THEN made ELSE {})
    BY <1>7
  <2>6. \A v \in deferred : wrapper[v].owns /\ wrapper[v].pending /\ v \in Wrappers
    BY <1>2, HandleParts DEF RunsDeferred, WrappersSound
  <2>7. dtors'[s] = IF s \in gone THEN dtors[s] + 1 ELSE dtors[s]
    BY <1>1, DestroyedSays, HandleParts
  <2>8. CASE s = r
    <3>1. d \in Resulting(call, s)
      BY <2>8 DEF Resulting
    <3>2. /\ TableOwners(slot, s) = {} /\ WrapperOwners(wrapper, s) = {} /\ Custodians(call, s) = {}
          /\ Resulting(call, s) = {d} /\ Owners(s) # {}
      BY <3>1, OwnerAlone, HandleParts
    <3>3. s \notin gone
      <4>1. \A v \in deferred : wrapper[v].rep # s
        BY <2>6, <3>2 DEF WrapperOwners
      <4>2. QED
        BY <4>1
    <3>4. PICK w : made = {w}
      BY <1>6, <2>1, <2>8
    <3>5. WrapperOwners(wrapper', s) = {w} /\ Resulting(call', s) = {}
      BY <2>3, <2>5, <2>8, <3>2, <3>4
    <3>6. Told(TableOwners(slot', s), WrapperOwners(wrapper', s),
               Custodians(call', s), Resulting(call', s)) = {<<"wrapper", w>>}
      BY <2>2, <2>4, <3>2, <3>5, ToldOne
    <3>7. dtors'[s] = dtors[s]
      BY <2>7, <3>3
    <3>8. QED
      BY <1>1, <3>2, <3>6, <3>7, MoveSole
  <2>9. CASE s # r /\ \E v \in deferred : wrapper[v].rep = s
    <3>1. PICK v \in deferred : wrapper[v].rep = s
      BY <2>9
    <3>2. /\ TableOwners(slot, s) = {} /\ WrapperOwners(wrapper, s) = {v} /\ Custodians(call, s) = {}
          /\ Resulting(call, s) = {} /\ Owners(s) # {}
      BY <2>6, <3>1, OwnWrapper
    <3>3. WrapperOwners(wrapper', s) = {} /\ Resulting(call', s) = {}
      BY <2>3, <2>5, <2>9, <3>1, <3>2
    <3>4. Told(TableOwners(slot', s), WrapperOwners(wrapper', s),
               Custodians(call', s), Resulting(call', s)) = {}
      BY <2>2, <2>4, <3>2, <3>3, ToldOne
    <3>5. \/ s \in gone /\ dtors'[s] = dtors[s] + 1
          \/ dtors'[s] = dtors[s] /\ poisoned # {}
      BY <2>7, <3>1
    <3>6. QED
      BY <1>1, <3>2, <3>4, <3>5, MoveSole
  <2>10. CASE s # r /\ \A v \in deferred : wrapper[v].rep # s
    <3>1. s \notin gone
      BY <2>10
    <3>2. WrapperOwners(wrapper', s) = WrapperOwners(wrapper, s)
      BY <2>5, <2>10 DEF WrapperOwners
    <3>3. Resulting(call', s) = Resulting(call, s)
      BY <2>3, <2>10 DEF Resulting
    <3>4. QED
      BY <1>1, <2>2, <2>4, <2>7, <3>1, <3>2, <3>3, StaySole
  <2>11. QED
    BY <2>8, <2>9, <2>10
<1>13. CountersTyped'
  BY <1>1, DestroyedSays, HandleParts DEF CountersTyped
<1>14. QED
  BY <1>1, <1>5, <1>7, <1>8, <1>9, <1>10, <1>11, <1>12, <1>13, HandleParts DEF HandleInv

-----------------------------------------------------------------------------
(* Imports.                                                                 *)

LEMMA EntryHas ==
  ASSUME HandleInv, NEW i \in Inst, NEW x \in Index, slot[i][x].entry # None
  PROVE  slot[i][x].entry.rep \in Reps
<1>1. slot[i][x].entry \in HandleType /\ EntrySound(slot[i][x].entry)
  BY HandleParts DEF TableSound, TableType, SlotType
<1>2. QED
  BY <1>1, BoundsAssumption DEF HandleType, EntrySound, Reps

\* A wrapper is made.
Makes(w, r, u, ws) ==
  /\ FreshWrapper(w) /\ r \in Reps
  /\ u \in WrapperType /\ u.rep = r /\ u.valid /\ ~u.pending /\ u.lends = 0
  /\ ws = [wrapper EXCEPT ![w] = u]

LEMMA WrapperStarts ==
  ASSUME HandleInv, NEW w \in Wrappers, NEW r, NEW u, NEW ws, Makes(w, r, u, ws)
  PROVE  /\ ws \in [Wrappers -> WrapperType] /\ WrappersSound(ws)
         /\ RefsSound(call, ws) /\ WrapperLends(call, ws)
         /\ ws[w] = u /\ r # 0
         /\ \A s \in Reps :
              /\ u.owns /\ s = r => WrapperOwners(ws, s) = WrapperOwners(wrapper, s) \cup {w}
              /\ ~(u.owns /\ s = r) => WrapperOwners(ws, s) = WrapperOwners(wrapper, s)
<1>0. r \in Reps /\ ws = [wrapper EXCEPT ![w] = u]
  BY DEF Makes
<1>1. wrapper[w] = Unmade
  BY DEF Makes, FreshWrapper
<1>2. /\ wrapper[w].rep = 0 /\ ~wrapper[w].owns /\ wrapper[w].lends = 0
  BY <1>1, UnmadeIs
<1>3. r # 0 /\ r \in 0..MaxReps
  BY <1>0, BoundsAssumption DEF Reps
<1>4. wrapper \in [Wrappers -> WrapperType]
  BY HandleParts
<1>5. u \in WrapperType /\ u.rep = r /\ u.lends = 0 /\ u.valid /\ ~u.pending
  BY DEF Makes
<1>6. /\ ws \in [Wrappers -> WrapperType]
      /\ ws[w] = u /\ \A v \in Wrappers : v # w => ws[v] = wrapper[v]
  BY <1>0, <1>4, <1>5
<1>7. WrappersSound(ws)
  <2>1. ASSUME NEW v \in Wrappers
        PROVE  /\ ws[v].rep = 0 => ws[v] = Unmade
               /\ ws[v].pending => ws[v].owns /\ ~ws[v].valid /\ ws[v].lends > 0
    <3>1. CASE v = w
      BY <1>3, <1>5, <1>6, <3>1
    <3>2. CASE v # w
      BY <1>6, <3>2, HandleParts DEF WrappersSound
    <3>3. QED
      BY <3>1, <3>2
  <2>2. QED
    BY <2>1 DEF WrappersSound
<1>8. \A c \in Calls : w \notin call[c].lent /\ w \notin call[c].views
  BY <1>2, HandleParts DEF RefsSound
<1>9. RefsSound(call, ws)
  <2>1. \A c \in Calls : call[c].lent \subseteq Wrappers /\ call[c].views \subseteq Wrappers
    BY HandleParts DEF CallType
  <2>2. QED
    BY <1>6, <1>8, <2>1, HandleParts DEF RefsSound
<1>10. WrapperLends(call, ws)
  <2>1. \A v \in Wrappers : ws[v].lends = wrapper[v].lends
    BY <1>2, <1>5, <1>6
  <2>2. QED
    BY <2>1, HandleParts DEF WrapperLends
<1>11. ASSUME NEW s \in Reps
       PROVE  /\ u.owns /\ s = r => WrapperOwners(ws, s) = WrapperOwners(wrapper, s) \cup {w}
              /\ ~(u.owns /\ s = r) => WrapperOwners(ws, s) = WrapperOwners(wrapper, s)
  <2>1. w \notin WrapperOwners(wrapper, s)
    BY <1>2 DEF WrapperOwners
  <2>2. w \in WrapperOwners(ws, s) <=> u.owns /\ s = r
    BY <1>5, <1>6 DEF WrapperOwners
  <2>3. \A v \in Wrappers : v # w => (v \in WrapperOwners(ws, s) <=> v \in WrapperOwners(wrapper, s))
    BY <1>6 DEF WrapperOwners
  <2>4. WrapperOwners(ws, s) \subseteq Wrappers /\ WrapperOwners(wrapper, s) \subseteq Wrappers
    BY DEF WrapperOwners
  <2>5. CASE u.owns /\ s = r
    BY <2>1, <2>2, <2>3, <2>4, <2>5
  <2>6. CASE ~(u.owns /\ s = r)
    <3>1. \A v \in Wrappers : v \in WrapperOwners(ws, s) <=> v \in WrapperOwners(wrapper, s)
      BY <2>1, <2>2, <2>3, <2>6
    <3>2. WrapperOwners(ws, s) = WrapperOwners(wrapper, s)
      BY <2>4, <3>1
    <3>3. QED
      BY <2>6, <3>2
  <2>7. QED
    BY <2>5, <2>6
<1>12. QED
  BY <1>3, <1>6, <1>7, <1>9, <1>10, <1>11

LEMMA ImportCallInv ==
  ASSUME HandleInv, NEW c \in Calls, NEW d \in Calls, NEW form \in Forms, NEW x \in Index,
         NEW w \in Wrappers, ImportCall(c, d, form, x, w)
  PROVE  HandleInv'
<1> DEFINE i == call[c].callee
           r == slot[i][x].entry.rep
           h == Handle(i, x)
           ls == IF form = "borrow" THEN {h} ELSE {}
           vs == IF form = "borrow" THEN {w} ELSE {}
           o == form = "own"
           f == [Idle EXCEPT !.phase = "open", !.kind = "import", !.stack = {d}, !.caller = i,
                             !.lenders = ls, !.views = vs]
<1>1. /\ Running(c) /\ Fresh(d) /\ FreshWrapper(w) /\ form \in {"own", "borrow"}
      /\ slot[i][x].entry # None /\ (o => slot[i][x].entry.own)
      /\ slot' = IF o THEN Removed(slot, i, x) ELSE LentOut(slot, i, x)
      /\ wrapper' = [wrapper EXCEPT ![w] = Wrapper(r, o)]
      /\ call' = [call EXCEPT ![d] = f]
      /\ born' = born /\ dtors' = dtors /\ poisoned' = poisoned
  BY DEF ImportCall, Passable, Liftable, Entry
<1>2. i \in Inst /\ r \in Reps
  BY <1>1, RunningSays, EntryHas
<1>3. h \in LenderType /\ h = Key(slot, i, x)
  <2>1. slot[i][x].tenure \in Nat
    BY <1>2, HandleParts DEF TableType, SlotType
  <2>2. QED
    BY <1>2, <2>1 DEF Handle, LenderType, Key
<1>4. o \in BOOLEAN /\ (o <=> form # "borrow") /\ (form = "borrow" <=> ~o)
  BY <1>1
<1>5. /\ ls \in SUBSET LenderType /\ vs \in SUBSET Wrappers
      /\ ~o => ls = {h} /\ vs = {w}
      /\ o => ls = {} /\ vs = {}
  BY <1>3, <1>4
<1> HIDE DEF h, ls, vs, o
<1>6. /\ f.phase = "open" /\ f.kind = "import" /\ f.stack = {d} /\ f.caller = i
      /\ f.args = {} /\ f.lent = {} /\ f.lenders = ls /\ f.borrows = 0 /\ f.result = 0
      /\ f.views = vs
  BY DEF Idle
<1>7. f \in CallType
  <2>1. "open" \in Phases /\ "import" \in Kinds /\ {d} \in SUBSET Calls
    BY DEF Phases, Kinds
  <2>2. QED
    BY <1>2, <1>5, <2>1, IdleTyped DEF CallType
<1> HIDE DEF f
<1>8. KindSound(f)
  BY <1>2, <1>6 DEF KindSound
<1>9. /\ call' \in [Calls -> CallType] /\ CallsSound(call')
      /\ call'[d] = f /\ \A e \in Calls : e # d => call'[e] = call[e]
      /\ call[d].kind = "none" /\ call[d].lenders = {} /\ call[d].lent = {}
      /\ call[d].args = {} /\ call[d].result = 0 /\ call[d].views = {}
      /\ ScopeSlots(slot, d) = {}
  <2>1. f.kind # "import" =>
           /\ d \in f.stack
           /\ \A e \in f.stack : e = d \/ call[e].kind \in {"export", "sync", "async"}
           /\ f.kind # "sync" \/ \E e \in f.stack : e # d /\ call[e].kind # "sync"
    BY <1>6
  <2>2. Fresh(d) /\ f.phase # "free" /\ f.kind # "none"
    BY <1>1, <1>6
  <2> DEFINE cl == [call EXCEPT ![d] = f]
  <2>3. /\ cl \in [Calls -> CallType] /\ CallsSound(cl)
        /\ cl[d] = f /\ \A e \in Calls : e # d => cl[e] = call[e]
        /\ call[d].kind = "none" /\ call[d].lenders = {} /\ call[d].lent = {}
        /\ call[d].args = {} /\ call[d].result = 0 /\ call[d].views = {}
        /\ ScopeSlots(slot, d) = {}
    BY <1>7, <1>8, <2>1, <2>2, StartCall
  <2>4. call' = cl
    BY <1>1
  <2> HIDE DEF cl
  <2>5. QED
    BY <2>3, <2>4
<1>10. /\ wrapper' \in [Wrappers -> WrapperType] /\ WrappersSound(wrapper')
       /\ RefsSound(call, wrapper') /\ WrapperLends(call, wrapper')
       /\ wrapper'[w].rep = r /\ r # 0 /\ (wrapper'[w].owns <=> o)
       /\ \A s \in Reps :
            /\ o /\ s = r => WrapperOwners(wrapper', s) = WrapperOwners(wrapper, s) \cup {w}
            /\ ~(o /\ s = r) => WrapperOwners(wrapper', s) = WrapperOwners(wrapper, s)
  <2>1. FreshWrapper(w) /\ wrapper' = [wrapper EXCEPT ![w] = Wrapper(r, o)]
    BY <1>1
  <2> DEFINE u == Wrapper(r, o)
  <2>2. u \in WrapperType /\ u.rep = r /\ u.valid /\ ~u.pending /\ u.lends = 0 /\ u.owns = o
    <3>1. r \in 0..MaxReps
      BY <1>2, BoundsAssumption DEF Reps
    <3>2. u \in WrapperType
      BY <1>4, <3>1, UnmadeIs
    <3>3. u.rep = r /\ u.valid /\ ~u.pending /\ u.lends = 0 /\ u.owns = o
      BY UnmadeIs
    <3>4. QED
      BY <3>2, <3>3
  <2>3. wrapper' = [wrapper EXCEPT ![w] = u]
    BY <2>1
  <2> HIDE DEF u, r
  <2>4. /\ wrapper' \in [Wrappers -> WrapperType] /\ WrappersSound(wrapper')
        /\ RefsSound(call, wrapper') /\ WrapperLends(call, wrapper')
        /\ wrapper'[w] = u /\ r # 0
        /\ \A s \in Reps :
             /\ u.owns /\ s = r => WrapperOwners(wrapper', s) = WrapperOwners(wrapper, s) \cup {w}
             /\ ~(u.owns /\ s = r) => WrapperOwners(wrapper', s) = WrapperOwners(wrapper, s)
    <3>1. Makes(w, r, u, wrapper')
      BY <1>2, <2>1, <2>2, <2>3 DEF Makes
    <3>2. QED
      BY <3>1, WrapperStarts
  <2>5. u.owns <=> o
    BY <2>2
  <2>6. QED
    BY <2>2, <2>4, <2>5
<1>11. RefsSound(call', wrapper')
  <2>1. \A v \in vs : v = w /\ ~o
    BY <1>4, <1>5
  <2>2. \A v \in call'[d].views : wrapper'[v].rep # 0 /\ ~wrapper'[v].owns
    BY <1>6, <1>9, <1>10, <2>1
  <2>3. call'[d].lent = {}
    BY <1>6, <1>9
  <2>4. QED
    BY <1>9, <1>10, <2>2, <2>3 DEF RefsSound
<1>12. WrapperLends(call', wrapper')
  <2>1. \A e \in Calls : call'[e].lent = call[e].lent
    BY <1>6, <1>9
  <2>2. \A v \in Wrappers : {e \in Calls : v \in call'[e].lent} = {e \in Calls : v \in call[e].lent}
    BY <2>1
  <2>3. QED
    BY <1>10, <2>2 DEF WrapperLends
<1>13. /\ TableSound(slot') /\ LendsCounted(slot', call')
       /\ \A s \in Reps : TableOwners(slot', s) =
            IF o THEN TableOwners(slot, s) \ {<<i, x>>} ELSE TableOwners(slot, s)
       /\ \A e \in Calls : ScopeSlots(slot', e) \subseteq ScopeSlots(slot, e)
  <2>1. CASE o
    <3>1. slot' = Removed(slot, i, x)
      BY <1>1, <2>1
    <3>2. /\ TableSound(slot') /\ LendsCounted(slot', call)
          /\ \A s \in Reps : TableOwners(slot', s) = TableOwners(slot, s) \ {<<i, x>>}
          /\ \A e \in Calls : ScopeSlots(slot', e) = ScopeSlots(slot, e) \ {<<i, x>>}
      BY <1>2, <3>1, RemovedSays, HandleParts
    <3>3. \A e \in Calls : call'[e].lenders = call[e].lenders
      BY <1>5, <1>6, <1>9, <2>1
    <3>4. LendsCounted(slot', call')
      BY <3>2, <3>3, SameLenders
    <3>5. QED
      BY <2>1, <3>2, <3>4
  <2>2. CASE ~o
    <3>1. slot' = LentOut(slot, i, x)
      BY <1>1, <2>2
    <3>2. /\ call[d].lenders = {} /\ call'[d].lenders = {Key(slot, i, x)}
          /\ \A e \in Calls : e # d => call'[e].lenders = call[e].lenders
      BY <1>3, <1>5, <1>6, <1>9, <2>2
    <3>3. TableSound(slot) /\ LendsCounted(slot, call) /\ call \in [Calls -> CallType]
      BY HandleParts
    <3>4. slot[i][x].entry # None /\ call' \in [Calls -> CallType]
      BY <1>1, <1>9
    <3> HIDE DEF i, r
    <3>5. /\ TableSound(LentOut(slot, i, x)) /\ Alike(slot, LentOut(slot, i, x))
          /\ LendsCounted(LentOut(slot, i, x), call')
      BY <1>2, <3>2, <3>3, <3>4, LentOutSays
    <3>6. QED
      BY <2>2, <3>1, <3>5, AlikeSays
  <2>3. QED
    BY <2>1, <2>2
<1>14. ScopesSound(slot', call')
  <2>1. ASSUME NEW e \in Calls
        PROVE  /\ call'[e].borrows >= Cardinality(ScopeSlots(slot', e))
               /\ ScopeSlots(slot', e) # {} =>
                    call'[e].phase \in {"open", "failed", "lost"} /\ call'[e].kind # "import"
    <3>1. CASE e = d
      <4>1. ScopeSlots(slot', e) = {}
        BY <1>9, <1>13, <3>1
      <4>2. QED
        BY <1>6, <1>9, <3>1, <4>1, FS_EmptySet
    <3>2. CASE e # d
      <4>1. Cardinality(ScopeSlots(slot', e)) <= Cardinality(ScopeSlots(slot, e))
        BY <1>13, ScopesFinite, FS_Subset
      <4>2. call[e].borrows >= Cardinality(ScopeSlots(slot, e)) /\ call[e].borrows \in Nat
        BY HandleParts DEF ScopesSound, CallType
      <4>3. call'[e].borrows >= Cardinality(ScopeSlots(slot', e))
        BY <1>9, <3>2, <4>1, <4>2, ScopesFinite
      <4>4. ScopeSlots(slot', e) # {} => ScopeSlots(slot, e) # {}
        BY <1>13
      <4>5. QED
        BY <1>9, <3>2, <4>3, <4>4, HandleParts DEF ScopesSound
    <3>3. QED
      BY <3>1, <3>2
  <2>2. QED
    BY <2>1 DEF ScopesSound
<1>15. ASSUME NEW s \in Reps PROVE Sole(s)'
  <2>1. Resulting(call', s) = Resulting(call, s) /\ Custodians(call', s) = Custodians(call, s)
    BY <1>6, <1>9 DEF Resulting, Custodians
  <2>2. CASE o /\ s = r
    <3>1. slot[i][x].entry.own
      BY <1>1, <2>2
    <3>2. /\ TableOwners(slot, s) = {<<i, x>>} /\ WrapperOwners(wrapper, s) = {}
          /\ Custodians(call, s) = {} /\ Resulting(call, s) = {} /\ Owners(s) # {}
      BY <1>2, <2>2, <3>1, OwnHandle
    <3>3. TableOwners(slot', s) = {} /\ WrapperOwners(wrapper', s) = {w}
      BY <1>10, <1>13, <2>2, <3>2
    <3>4. Told(TableOwners(slot', s), WrapperOwners(wrapper', s),
               Custodians(call', s), Resulting(call', s)) = {<<"wrapper", w>>}
      BY <2>1, <3>2, <3>3, ToldOne
    <3>5. QED
      BY <1>1, <3>2, <3>4, MoveSole
  <2>3. CASE ~(o /\ s = r)
    <3>1. WrapperOwners(wrapper', s) = WrapperOwners(wrapper, s)
      BY <1>10, <2>3
    <3>2. TableOwners(slot', s) = TableOwners(slot, s)
      <4>1. CASE o
        <5>1. slot[i][x].entry.own /\ s # r
          BY <1>1, <2>3, <4>1
        <5>2. <<i, x>> \notin TableOwners(slot, s)
          BY <1>2, <5>1, OwnHandle
        <5>3. QED
          BY <1>13, <4>1, <5>2
      <4>2. CASE ~o
        BY <1>13, <4>2
      <4>3. QED
        BY <4>1, <4>2
    <3>3. QED
      BY <1>1, <2>1, <3>1, <3>2, StaySole
  <2>4. QED
    BY <2>2, <2>3
<1>16. CountersTyped'
  BY <1>1, HandleParts DEF CountersTyped
<1>17. QED
  BY <1>1, <1>9, <1>10, <1>11, <1>12, <1>13, <1>14, <1>15, <1>16, HandleParts DEF HandleInv

\* Wrappers are invalidated: none of them waits for a drop.
Ending(ws, V) ==
  /\ V \in SUBSET Wrappers
  /\ \A v \in V : wrapper[v].rep # 0 /\ ~wrapper[v].pending
  /\ ws = Invalidated(wrapper, V)

LEMMA InvalidatedSays ==
  ASSUME HandleInv, NEW V, NEW ws, Ending(ws, V)
  PROVE  /\ ws \in [Wrappers -> WrapperType] /\ WrappersSound(ws)
         /\ RefsSound(call, ws) /\ WrapperLends(call, ws)
         /\ \A s \in Reps : WrapperOwners(ws, s) = WrapperOwners(wrapper, s) \ V
<1>1. /\ V \in SUBSET Wrappers /\ \A v \in V : wrapper[v].rep # 0 /\ ~wrapper[v].pending
      /\ ws = [w \in Wrappers |-> IF w \in V THEN [wrapper[w] EXCEPT !.valid = FALSE]
                                  ELSE wrapper[w]]
  BY DEF Ending, Invalidated
<1>2. ASSUME NEW v \in Wrappers
      PROVE  /\ ws[v] \in WrapperType
             /\ ws[v].rep = wrapper[v].rep /\ ws[v].lends = wrapper[v].lends
             /\ (ws[v].owns <=> wrapper[v].owns)
             /\ ws[v].rep = 0 => ws[v] = Unmade
             /\ ws[v].pending => ws[v].owns /\ ~ws[v].valid /\ ws[v].lends > 0
             /\ \A s \in Reps : v \in WrapperOwners(ws, s) <=> v \in WrapperOwners(wrapper, s) /\ v \notin V
  <2>1. /\ wrapper[v] \in WrapperType
        /\ wrapper[v].rep = 0 => wrapper[v] = Unmade
        /\ wrapper[v].pending => wrapper[v].owns /\ ~wrapper[v].valid /\ wrapper[v].lends > 0
    BY HandleParts DEF WrappersSound
  <2>2. CASE v \in V
    <3>1. ws[v] = [wrapper[v] EXCEPT !.valid = FALSE] /\ wrapper[v].rep # 0 /\ ~wrapper[v].pending
      BY <1>1, <2>2
    <3>2. /\ ws[v] \in WrapperType /\ ws[v].rep = wrapper[v].rep /\ ws[v].lends = wrapper[v].lends
          /\ (ws[v].owns <=> wrapper[v].owns) /\ ~ws[v].valid /\ ~ws[v].pending
      BY <2>1, <3>1 DEF WrapperType
    <3>3. QED
      BY <2>2, <3>1, <3>2 DEF WrapperOwners
  <2>3. CASE v \notin V
    <3>1. ws[v] = wrapper[v]
      BY <1>1, <2>3
    <3>2. QED
      BY <2>1, <2>3, <3>1 DEF WrapperOwners
  <2>4. QED
    BY <2>2, <2>3
<1>3. ws \in [Wrappers -> WrapperType]
  BY <1>1, <1>2
<1>4. WrappersSound(ws)
  BY <1>2 DEF WrappersSound
<1>5. RefsSound(call, ws)
  <2>1. \A c \in Calls : call[c].lent \subseteq Wrappers /\ call[c].views \subseteq Wrappers
    BY HandleParts DEF CallType
  <2>2. QED
    BY <1>2, <2>1, HandleParts DEF RefsSound
<1>6. WrapperLends(call, ws)
  BY <1>2, HandleParts DEF WrapperLends
<1>7. ASSUME NEW s \in Reps PROVE WrapperOwners(ws, s) = WrapperOwners(wrapper, s) \ V
  <2>1. \A v \in Wrappers : v \in WrapperOwners(ws, s) <=> v \in WrapperOwners(wrapper, s) \ V
    BY <1>2
  <2>2. WrapperOwners(ws, s) \subseteq Wrappers /\ WrapperOwners(wrapper, s) \subseteq Wrappers
    BY DEF WrapperOwners
  <2>3. QED
    BY <2>1, <2>2
<1>8. QED
  BY <1>3, <1>4, <1>5, <1>6, <1>7

LEMMA ImportReturnsInv ==
  ASSUME HandleInv, NEW d \in Calls, NEW w \in {0} \cup Wrappers, NEW y \in Index,
         ImportReturns(d, w, y)
  PROVE  HandleInv'
<1> DEFINE i == call[d].caller
           dead == i \in poisoned
           taken == IF w = 0 \/ dead THEN {} ELSE {w}
           views == call[d].views
           V == views \cup taken
           r == wrapper[w].rep
           p == IF dead THEN "lost" ELSE "resolved"
           f == [call[d] EXCEPT !.phase = p, !.views = {}]
<1>1. /\ call[d].kind = "import" /\ call[d].phase = "open" /\ (w # 0 => Transferable(w))
      /\ wrapper' = Invalidated(wrapper, V)
      /\ \/ taken = {} /\ slot' = slot
         \/ taken # {} /\ y \in Empty(i) /\ slot' = Added(slot, i, y, Own(r))
      /\ call' = [call EXCEPT ![d] = f]
      /\ born' = born /\ dtors' = dtors /\ poisoned' = poisoned
  BY DEF ImportReturns
<1>2. /\ call[d] \in CallType /\ KindSound(call[d]) /\ i \in Inst /\ views \in SUBSET Wrappers
      /\ call[d].lent = {} /\ call[d].args = {} /\ call[d].result = 0 /\ call[d].borrows = 0
  BY <1>1, HandleParts DEF KindSound, CallType
<1>3. taken # {} => /\ taken = {w} /\ w \in Wrappers
                    /\ wrapper[w].valid /\ wrapper[w].owns /\ r \in Reps /\ ~wrapper[w].pending
  <2>1. taken # {} => /\ taken = {w} /\ w \in Wrappers /\ wrapper[w].valid /\ wrapper[w].owns
    BY <1>1 DEF Transferable
  <2>2. QED
    BY <2>1, WrapperMade
<1>4. p \in {"lost", "resolved"}
  OBVIOUS
<1> HIDE DEF p, taken
<1>5. /\ f \in CallType /\ KindSound(f) /\ f.phase = p /\ f.kind = "import" /\ f.lent = {}
      /\ f.result = 0 /\ f.args = {} /\ f.views = {} /\ f.stack = call[d].stack
      /\ f.lenders = call[d].lenders /\ f.borrows = 0
  <2>1. p \in Phases
    BY <1>4 DEF Phases
  <2>2. /\ f \in CallType /\ f.phase = p /\ f.kind = "import" /\ f.lent = {}
        /\ f.result = 0 /\ f.args = {} /\ f.views = {} /\ f.stack = call[d].stack
        /\ f.lenders = call[d].lenders /\ f.borrows = 0 /\ f.caller = i
    BY <1>1, <1>2, <2>1 DEF CallType
  <2> HIDE DEF f
  <2>3. KindSound(f)
    BY <1>1, <1>2, <1>4, <2>2 DEF KindSound
  <2>4. QED
    BY <2>2, <2>3
<1> HIDE DEF f
<1>6. /\ call' \in [Calls -> CallType] /\ CallsSound(call')
      /\ call'[d] = f /\ \A c \in Calls : c # d => call'[c] = call[c]
  <2>1. f.lent \subseteq call[d].lent /\ f.views \subseteq call[d].views
    BY <1>2, <1>5
  <2>2. f.phase = "free" <=> call[d].phase = "free"
    BY <1>1, <1>4, <1>5
  <2>3. f.kind = call[d].kind /\ (f.stack = call[d].stack \/ (f.stack = {d} /\ call[d].kind = "async"))
    BY <1>1, <1>5
  <2> DEFINE cl == [call EXCEPT ![d] = f]
  <2>4. /\ cl \in [Calls -> CallType] /\ CallsSound(cl)
        /\ cl[d] = f /\ \A c \in Calls : c # d => cl[c] = call[c]
    BY <1>5, <2>1, <2>2, <2>3, OneCall
  <2>5. call' = cl
    BY <1>1
  <2> HIDE DEF cl
  <2>6. QED
    BY <2>4, <2>5
<1>7. \A v \in views : wrapper[v].rep # 0 /\ ~wrapper[v].owns /\ ~wrapper[v].pending
  <2>1. \A v \in views : wrapper[v].rep # 0 /\ ~wrapper[v].owns
    BY HandleParts DEF RefsSound
  <2>2. QED
    BY <1>2, <2>1, HandleParts DEF WrappersSound
<1>8. /\ wrapper' \in [Wrappers -> WrapperType] /\ WrappersSound(wrapper')
      /\ RefsSound(call, wrapper') /\ WrapperLends(call, wrapper')
      /\ \A s \in Reps : WrapperOwners(wrapper', s) = WrapperOwners(wrapper, s) \ V
  <2>1. V \in SUBSET Wrappers
    BY <1>2, <1>3
  <2>2. \A v \in taken : wrapper[v].rep # 0 /\ ~wrapper[v].pending
    BY <1>3, BoundsAssumption DEF Reps
  <2>3. Ending(wrapper', V)
    BY <1>1, <1>7, <2>1, <2>2 DEF Ending
  <2> HIDE DEF V
  <2>4. QED
    BY <2>3, InvalidatedSays
<1>9. \A s \in Reps : WrapperOwners(wrapper', s) = WrapperOwners(wrapper, s) \ taken
  <2>1. \A s \in Reps : \A v \in views : v \notin WrapperOwners(wrapper, s)
    BY <1>7 DEF WrapperOwners
  <2>2. QED
    BY <1>8, <2>1
<1>10. RefsSound(call', wrapper')
  BY <1>5, <1>6, <1>8 DEF RefsSound
<1>11. WrapperLends(call', wrapper')
  <2>1. \A c \in Calls : call'[c].lent = call[c].lent
    BY <1>2, <1>5, <1>6
  <2>2. \A v \in Wrappers : {c \in Calls : v \in call'[c].lent} = {c \in Calls : v \in call[c].lent}
    BY <2>1
  <2>3. QED
    BY <1>8, <2>2 DEF WrapperLends
<1>12. /\ TableSound(slot') /\ LendsCounted(slot', call)
       /\ \A c \in Calls : ScopeSlots(slot', c) = ScopeSlots(slot, c)
       /\ \A s \in Reps : TableOwners(slot', s) =
            IF taken # {} /\ s = r THEN TableOwners(slot, s) \cup {<<i, y>>} ELSE TableOwners(slot, s)
  <2>1. CASE taken = {}
    BY <1>1, <2>1, HandleParts
  <2>2. CASE taken # {}
    <3> DEFINE e == Own(r)
    <3>1. /\ e \in HandleType /\ EntrySound(e) /\ e # None /\ e.lends = 0
          /\ e.rep = r /\ e.own /\ e.scope = 0
      BY <1>3, <2>2, EntryTyped
    <3>2. slot' = Added(slot, i, y, e) /\ slot[i][y].entry = None
      BY <1>1, <2>2 DEF Empty
    <3> HIDE DEF e, i, r
    <3>3. TableSound(slot) /\ LendsCounted(slot, call) /\ call \in [Calls -> CallType]
      BY HandleParts
    <3>4. /\ TableSound(slot') /\ LendsCounted(slot', call)
          /\ \A s \in Reps : TableOwners(slot', s) =
               IF e.own /\ e.rep = s THEN TableOwners(slot, s) \cup {<<i, y>>} ELSE TableOwners(slot, s)
          /\ \A c \in Calls : ScopeSlots(slot', c) =
               IF e.scope = c THEN ScopeSlots(slot, c) \cup {<<i, y>>} ELSE ScopeSlots(slot, c)
      BY <1>2, <3>1, <3>2, <3>3, AddedSays
    <3>5. \A c \in Calls : c # 0
      BY BoundsAssumption DEF Calls
    <3>6. \A c \in Calls : ScopeSlots(slot', c) = ScopeSlots(slot, c)
      BY <3>1, <3>4, <3>5
    <3>7. QED
      BY <2>2, <3>1, <3>4, <3>6
  <2>3. QED
    BY <2>1, <2>2
<1>13. LendsCounted(slot', call')
  <2>1. \A c \in Calls : call'[c].lenders = call[c].lenders
    BY <1>5, <1>6
  <2>2. QED
    BY <1>12, <2>1, SameLenders
<1>14. ScopesSound(slot', call')
  <2>1. ScopeSlots(slot, d) = {}
    BY <1>1, NoScopes
  <2>2. \A c \in Calls :
          /\ ScopeSlots(slot', c) \subseteq ScopeSlots(slot, c)
          /\ call'[c].borrows = call[c].borrows
          /\ \/ call'[c].phase = call[c].phase /\ call'[c].kind = call[c].kind
             \/ ScopeSlots(slot, c) = {}
    BY <1>2, <1>5, <1>6, <1>12, <2>1
  <2>3. QED
    BY <2>2, ScopesKept
<1>15. ASSUME NEW s \in Reps PROVE Sole(s)'
  <2>1. Resulting(call', s) = Resulting(call, s) /\ Custodians(call', s) = Custodians(call, s)
    BY <1>2, <1>5, <1>6 DEF Resulting, Custodians
  <2>2. CASE taken # {} /\ s = r
    <3>1. /\ TableOwners(slot, s) = {} /\ WrapperOwners(wrapper, s) = {w}
          /\ Custodians(call, s) = {} /\ Resulting(call, s) = {} /\ Owners(s) # {}
      BY <1>3, <2>2, OwnWrapper
    <3>2. TableOwners(slot', s) = {<<i, y>>} /\ WrapperOwners(wrapper', s) = {}
      BY <1>3, <1>9, <1>12, <2>2, <3>1
    <3>3. Told(TableOwners(slot', s), WrapperOwners(wrapper', s),
               Custodians(call', s), Resulting(call', s)) = {<<"slot", <<i, y>>>>}
      BY <2>1, <3>1, <3>2, ToldOne
    <3>4. QED
      BY <1>1, <3>1, <3>3, MoveSole
  <2>3. CASE ~(taken # {} /\ s = r)
    <3>1. TableOwners(slot', s) = TableOwners(slot, s)
      BY <1>12, <2>3
    <3>2. WrapperOwners(wrapper', s) = WrapperOwners(wrapper, s)
      <4>1. \A v \in taken : v \notin WrapperOwners(wrapper, s)
        BY <1>3, <2>3 DEF WrapperOwners
      <4>2. QED
        BY <1>9, <4>1
    <3>3. QED
      BY <1>1, <2>1, <3>1, <3>2, StaySole
  <2>4. QED
    BY <2>2, <2>3
<1>16. CountersTyped'
  BY <1>1, HandleParts DEF CountersTyped
<1>17. QED
  BY <1>1, <1>6, <1>8, <1>10, <1>11, <1>12, <1>13, <1>14, <1>15, <1>16, HandleParts DEF HandleInv

-----------------------------------------------------------------------------
(* Calls between instances.                                                 *)

\* What a call between instances does to the tables: a call d is added to those
\* the handle is lent to, and a borrow handle of its scope is made.
Passing(c, d, j, form, x, y, cl) ==
  LET i == call[c].callee
  IN  /\ i \in Inst /\ Passable(i, form, x) /\ y \in Empty(j) /\ i # j
      /\ form \in Forms
      /\ cl \in [Calls -> CallType]
      /\ cl[d].lenders = (IF form = "borrow" THEN {Key(slot, i, x)} ELSE {})
      /\ \A e \in Calls : e # d => cl[e].lenders = call[e].lenders
      /\ call[d].lenders = {} /\ ScopeSlots(slot, d) = {}

HasPassed(c, d, j, form, x, y, cl, t) ==
  /\ TableSound(t) /\ LendsCounted(t, cl)
  /\ \A s \in Reps : TableOwners(t, s) =
       IF form = "own" /\ s = slot[call[c].callee][x].entry.rep THEN {<<j, y>>}
       ELSE TableOwners(slot, s)
  /\ \A e \in Calls : e # d => ScopeSlots(t, e) = ScopeSlots(slot, e)
  /\ ScopeSlots(t, d) = IF form = "borrow" /\ j # Impl THEN {<<j, y>>} ELSE {}

LEMMA PassedSays ==
  ASSUME HandleInv, NEW c \in Calls, NEW d \in Calls, NEW j \in Inst, NEW form, NEW x \in Index,
         NEW y \in Index, NEW cl, Passing(c, d, j, form, x, y, cl),
         NEW t, t = Passed(call[c].callee, j, form, x, y, d)
  PROVE  HasPassed(c, d, j, form, x, y, cl, t)
<1> DEFINE i == call[c].callee
           r == slot[i][x].entry.rep
<1>1. /\ i \in Inst /\ Passable(i, form, x) /\ slot[j][y].entry = None /\ i # j /\ form \in Forms
      /\ cl \in [Calls -> CallType]
      /\ cl[d].lenders = (IF form = "borrow" THEN {Key(slot, i, x)} ELSE {})
      /\ \A e \in Calls : e # d => cl[e].lenders = call[e].lenders
      /\ call[d].lenders = {} /\ ScopeSlots(slot, d) = {}
  BY DEF Passing, Empty
<1>2. TableSound(slot) /\ LendsCounted(slot, call) /\ call \in [Calls -> CallType] /\ slot \in TableType
  BY HandleParts
<1>3. form # "borrow" => LendsCounted(slot, cl)
  <2>1. form # "borrow" => \A e \in Calls : cl[e].lenders = call[e].lenders
    BY <1>1
  <2>2. QED
    BY <1>2, <2>1, SameLenders
<1>4. 0 \notin Calls
  BY BoundsAssumption DEF Calls
<1> SUFFICES /\ TableSound(t) /\ LendsCounted(t, cl)
             /\ \A s \in Reps : TableOwners(t, s) =
                  IF form = "own" /\ s = r THEN {<<j, y>>} ELSE TableOwners(slot, s)
             /\ \A e \in Calls : e # d => ScopeSlots(t, e) = ScopeSlots(slot, e)
             /\ ScopeSlots(t, d) = IF form = "borrow" /\ j # Impl THEN {<<j, y>>} ELSE {}
  BY DEF HasPassed
<1> HIDE DEF i
<1>5. CASE form = "none"
  <2>1. t = slot
    BY <1>5 DEF Passed
  <2>2. form # "own" /\ form # "borrow"
    BY <1>5
  <2>3. QED
    BY <1>1, <1>2, <1>3, <2>1, <2>2
<1>6. CASE form = "own"
  <2> DEFINE sl == Removed(slot, i, x)
             e == Own(r)
  <2>1. slot[i][x].entry.own
    BY <1>1, <1>6 DEF Passable, Liftable, Entry
  <2>2. /\ r \in Reps /\ TableOwners(slot, r) = {<<i, x>>}
        /\ \A s \in Reps : s # r => <<i, x>> \notin TableOwners(slot, s)
        /\ \A b \in Calls : <<i, x>> \notin ScopeSlots(slot, b)
    BY <1>1, <2>1, OwnHandle
  <2>3. t = Added(sl, j, y, e)
    BY <1>6 DEF Passed, Entry, i
  <2>4. /\ TableSound(sl) /\ LendsCounted(sl, cl)
        /\ \A s \in Reps : TableOwners(sl, s) = TableOwners(slot, s) \ {<<i, x>>}
        /\ \A b \in Calls : ScopeSlots(sl, b) = ScopeSlots(slot, b) \ {<<i, x>>}
    <3>1. LendsCounted(slot, cl) /\ cl \in [Calls -> CallType]
      BY <1>1, <1>3, <1>6
    <3>2. QED
      BY <1>1, <1>2, <3>1, RemovedSays
  <2>5. sl[j][y].entry = None
    <3>1. sl[j][y] = slot[j][y]
      BY <1>1, <1>2, RemovedAt
    <3>2. QED
      BY <1>1, <3>1
  <2>6. /\ e \in HandleType /\ EntrySound(e) /\ e # None /\ e.lends = 0
        /\ e.rep = r /\ e.own /\ e.scope = 0
    BY <2>2, EntryTyped
  <2>7. cl \in [Calls -> CallType]
    BY <1>1
  <2> HIDE DEF sl, e, r
  <2>8. /\ TableSound(t) /\ LendsCounted(t, cl)
        /\ \A s \in Reps : TableOwners(t, s) =
             IF e.own /\ e.rep = s THEN TableOwners(sl, s) \cup {<<j, y>>} ELSE TableOwners(sl, s)
        /\ \A b \in Calls : ScopeSlots(t, b) =
             IF e.scope = b THEN ScopeSlots(sl, b) \cup {<<j, y>>} ELSE ScopeSlots(sl, b)
    BY <2>3, <2>4, <2>5, <2>6, <2>7, AddedSays
  <2>9. \A b \in Calls : ScopeSlots(t, b) = ScopeSlots(slot, b)
    <3>1. \A b \in Calls : ScopeSlots(sl, b) = ScopeSlots(slot, b)
      BY <2>2, <2>4
    <3>2. \A b \in Calls : e.scope # b
      BY <1>4, <2>6
    <3>3. \A b \in Calls : ScopeSlots(t, b) = ScopeSlots(sl, b)
      BY <2>8, <3>2
    <3>4. QED
      BY <3>1, <3>3
  <2>10. \A s \in Reps : TableOwners(t, s) = IF s = r THEN {<<j, y>>} ELSE TableOwners(slot, s)
    <3>1. TableOwners(sl, r) = {} /\ \A s \in Reps : s # r => TableOwners(sl, s) = TableOwners(slot, s)
      <4>1. TableOwners(sl, r) = {}
        BY <2>2, <2>4
      <4>2. ASSUME NEW s \in Reps, s # r PROVE TableOwners(sl, s) = TableOwners(slot, s)
        <5>1. <<i, x>> \notin TableOwners(slot, s)
          BY <2>2, <4>2
        <5>2. QED
          BY <2>4, <5>1
      <4>3. QED
        BY <4>1, <4>2
    <3>2. ASSUME NEW s \in Reps, s = r PROVE TableOwners(t, s) = {<<j, y>>}
      <4>1. TableOwners(t, s) = TableOwners(sl, s) \cup {<<j, y>>}
        BY <2>6, <2>8, <3>2
      <4>2. QED
        BY <3>1, <3>2, <4>1
    <3>3. ASSUME NEW s \in Reps, s # r PROVE TableOwners(t, s) = TableOwners(slot, s)
      <4>1. TableOwners(t, s) = TableOwners(sl, s)
        BY <2>6, <2>8, <3>3
      <4>2. QED
        BY <3>1, <3>3, <4>1
    <3>4. QED
      BY <3>2, <3>3
  <2>11. QED
    BY <1>1, <1>6, <2>8, <2>9, <2>10 DEF r
<1>7. CASE form = "borrow"
  <2> DEFINE sl == LentOut(slot, i, x)
             e == Borrow(r, d)
  <2>1. slot[i][x].entry # None
    BY <1>1, <1>7 DEF Passable, Entry
  <2>2. r \in Reps
    BY <1>1, <2>1, EntryHas
  <2>3. /\ call[d].lenders = {} /\ cl[d].lenders = {Key(slot, i, x)}
        /\ \A b \in Calls : b # d => cl[b].lenders = call[b].lenders
        /\ cl \in [Calls -> CallType]
    BY <1>1, <1>7
  <2>4. /\ TableSound(sl) /\ Alike(slot, sl) /\ LendsCounted(sl, cl)
        /\ \A k \in Inst, z \in Index : sl[k][z].entry = None <=> slot[k][z].entry = None
    BY <1>1, <1>2, <2>1, <2>3, LentOutSays
  <2>5. /\ \A s \in Reps : TableOwners(sl, s) = TableOwners(slot, s)
        /\ \A b \in Calls : ScopeSlots(sl, b) = ScopeSlots(slot, b)
    BY <2>4, AlikeSays
  <2>6. CASE j = Impl
    <3>1. t = sl
      BY <1>7, <2>6 DEF Passed, i
    <3>2. QED
      BY <1>1, <1>7, <2>4, <2>5, <2>6, <3>1
  <2>7. CASE j # Impl
    <3>1. t = Added(sl, j, y, e)
      BY <1>7, <2>7 DEF Passed, Entry, i
    <3>2. /\ e \in HandleType /\ EntrySound(e) /\ e # None /\ e.lends = 0
          /\ e.rep = r /\ ~e.own /\ e.scope = d
      BY <2>2, EntryTyped
    <3>3. sl[j][y].entry = None
      BY <1>1, <2>4
    <3> HIDE DEF sl, e, r
    <3>4. /\ TableSound(t) /\ LendsCounted(t, cl)
          /\ \A s \in Reps : TableOwners(t, s) =
               IF e.own /\ e.rep = s THEN TableOwners(sl, s) \cup {<<j, y>>} ELSE TableOwners(sl, s)
          /\ \A b \in Calls : ScopeSlots(t, b) =
               IF e.scope = b THEN ScopeSlots(sl, b) \cup {<<j, y>>} ELSE ScopeSlots(sl, b)
      BY <2>3, <2>4, <3>1, <3>2, <3>3, AddedSays
    <3>5. /\ \A s \in Reps : TableOwners(t, s) = TableOwners(slot, s)
          /\ \A b \in Calls : b # d => ScopeSlots(t, b) = ScopeSlots(slot, b)
          /\ ScopeSlots(t, d) = {<<j, y>>}
      BY <1>1, <2>5, <3>2, <3>4
    <3>6. QED
      BY <1>7, <2>7, <3>4, <3>5
  <2>8. QED
    BY <2>6, <2>7
<1>8. QED
  BY <1>1, <1>5, <1>6, <1>7 DEF Forms

LEMMA GuestCallsInv ==
  ASSUME HandleInv, NEW c \in Calls, NEW d \in Calls, NEW kind \in {"sync", "async"},
         NEW j \in Inst, NEW form \in Forms, NEW x \in Index, NEW y \in Index,
         GuestCalls(c, d, kind, j, form, x, y)
  PROVE  HandleInv'
<1> DEFINE i == call[c].callee
           ls == IF form = "borrow" THEN {Handle(i, x)} ELSE {}
           b == IF form = "borrow" /\ j # Impl THEN 1 ELSE 0
           st == call[c].stack \cup {d}
           f == [Idle EXCEPT !.phase = "open", !.kind = kind, !.stack = st, !.caller = i,
                             !.callee = j, !.lenders = ls, !.borrows = b]
           r == slot[i][x].entry.rep
<1>1. /\ Running(c) /\ Fresh(d) /\ j # i /\ Passable(i, form, x) /\ y \in Empty(j)
      /\ slot' = Passed(i, j, form, x, y, d)
      /\ call' = [call EXCEPT ![d] = f]
      /\ wrapper' = wrapper /\ born' = born /\ dtors' = dtors /\ poisoned' = poisoned
  BY DEF GuestCalls
<1>2. i \in Inst /\ StackSound(call, c)
  BY <1>1, RunningSays
<1>3. st \in SUBSET Calls /\ b \in {0, 1} /\ b \in Nat
  BY HandleParts DEF CallType
<1>4. Handle(i, x) = Key(slot, i, x) /\ ls \in SUBSET LenderType
  <2>1. slot[i][x].tenure \in Nat
    BY <1>2, HandleParts DEF TableType, SlotType
  <2>2. QED
    BY <1>2, <2>1 DEF Handle, LenderType, Key
<1>5. ls = IF form = "borrow" THEN {Key(slot, i, x)} ELSE {}
  BY <1>4
<1>6. d \in st /\ \A e \in st : e = d \/ e \in call[c].stack
  OBVIOUS
<1>7. b = IF form = "borrow" /\ j # Impl THEN 1 ELSE 0
  OBVIOUS
<1>8. call[c].stack \subseteq st
  OBVIOUS
<1> HIDE DEF ls, b, st
<1>9. /\ f.phase = "open" /\ f.kind = kind /\ f.stack = st /\ f.caller = i /\ f.callee = j
      /\ f.args = {} /\ f.lent = {} /\ f.lenders = ls /\ f.borrows = b /\ f.result = 0
      /\ f.views = {}
  BY DEF Idle
<1>10. f \in CallType
  <2>1. "open" \in Phases /\ kind \in Kinds
    BY DEF Phases, Kinds
  <2>2. QED
    BY <1>2, <1>3, <1>4, <2>1, IdleTyped DEF CallType
<1> HIDE DEF f
<1>11. KindSound(f)
  BY <1>2, <1>9 DEF KindSound
<1>12. /\ call' \in [Calls -> CallType] /\ CallsSound(call')
       /\ call'[d] = f /\ \A e \in Calls : e # d => call'[e] = call[e]
       /\ call[d].kind = "none" /\ call[d].lenders = {} /\ call[d].lent = {}
       /\ call[d].args = {} /\ call[d].result = 0 /\ call[d].views = {}
       /\ ScopeSlots(slot, d) = {}
  <2>1. call[d].phase = "free" /\ call[d].kind = "none"
    BY <1>1, HandleParts DEF Fresh, KindSound, Idle
  <2>2. /\ d \in f.stack
        /\ \A e \in f.stack : e = d \/ call[e].kind \in {"export", "sync", "async"}
    BY <1>2, <1>6, <1>9 DEF StackSound
  <2>3. PICK e \in call[c].stack : call[e].kind # "sync"
    BY <1>2 DEF StackSound
  <2>4. e # d
    BY <1>2, <2>1, <2>3 DEF StackSound
  <2>5. e \in f.stack
    BY <1>8, <1>9, <2>3
  <2>6. f.kind # "import" =>
           /\ d \in f.stack
           /\ \A q \in f.stack : q = d \/ call[q].kind \in {"export", "sync", "async"}
           /\ f.kind # "sync" \/ \E q \in f.stack : q # d /\ call[q].kind # "sync"
    BY <2>2, <2>3, <2>4, <2>5
  <2>7. Fresh(d) /\ f.phase # "free" /\ f.kind # "none"
    BY <1>1, <1>9
  <2> DEFINE cl == [call EXCEPT ![d] = f]
  <2>8. /\ cl \in [Calls -> CallType] /\ CallsSound(cl)
        /\ cl[d] = f /\ \A q \in Calls : q # d => cl[q] = call[q]
        /\ call[d].kind = "none" /\ call[d].lenders = {} /\ call[d].lent = {}
        /\ call[d].args = {} /\ call[d].result = 0 /\ call[d].views = {}
        /\ ScopeSlots(slot, d) = {}
    BY <1>10, <1>11, <2>6, <2>7, StartCall
  <2>9. call' = cl
    BY <1>1
  <2> HIDE DEF cl
  <2>10. QED
    BY <2>8, <2>9
<1>13. RefsSound(call', wrapper')
  BY <1>1, <1>9, <1>12, HandleParts DEF RefsSound
<1>14. WrapperLends(call', wrapper')
  <2>1. \A e \in Calls : call'[e].lent = call[e].lent
    BY <1>9, <1>12
  <2>2. QED
    BY <1>1, <2>1, SameLent
<1>15. /\ TableSound(slot') /\ LendsCounted(slot', call')
       /\ \A s \in Reps : TableOwners(slot', s) =
            IF form = "own" /\ s = r THEN {<<j, y>>} ELSE TableOwners(slot, s)
       /\ \A e \in Calls : e # d => ScopeSlots(slot', e) = ScopeSlots(slot, e)
       /\ ScopeSlots(slot', d) = IF form = "borrow" /\ j # Impl THEN {<<j, y>>} ELSE {}
  <2>1. /\ \A e \in Calls : e # d => call'[e].lenders = call[e].lenders
        /\ call'[d].lenders = (IF form = "borrow" THEN {Key(slot, i, x)} ELSE {})
    BY <1>5, <1>9, <1>12
  <2>2. Passing(c, d, j, form, x, y, call')
    BY <1>1, <1>2, <1>12, <2>1 DEF Passing
  <2>3. slot' = Passed(call[c].callee, j, form, x, y, d)
    BY <1>1
  <2>4. HasPassed(c, d, j, form, x, y, call', slot')
    BY <2>2, <2>3, PassedSays
  <2>5. QED
    BY <2>4 DEF HasPassed
<1>16. ScopesSound(slot', call')
  <2>1. ASSUME NEW e \in Calls
        PROVE  /\ call'[e].borrows >= Cardinality(ScopeSlots(slot', e))
               /\ ScopeSlots(slot', e) # {} =>
                    call'[e].phase \in {"open", "failed", "lost"} /\ call'[e].kind # "import"
    <3>1. CASE e = d
      <4>1. Cardinality(ScopeSlots(slot', d)) = b
        BY <1>7, <1>15, FS_EmptySet, FS_Singleton
      <4>2. QED
        BY <1>3, <1>9, <1>12, <3>1, <4>1
    <3>2. CASE e # d
      BY <1>12, <1>15, <3>2, HandleParts DEF ScopesSound
    <3>3. QED
      BY <3>1, <3>2
  <2>2. QED
    BY <2>1 DEF ScopesSound
<1>17. ASSUME NEW s \in Reps PROVE Sole(s)'
  <2>1. Resulting(call', s) = Resulting(call, s) /\ Custodians(call', s) = Custodians(call, s)
    BY <1>9, <1>12 DEF Resulting, Custodians
  <2>2. CASE form = "own" /\ s = r
    <3>1. slot[i][x].entry.own
      BY <1>1, <2>2 DEF Passable, Liftable, Entry
    <3>2. /\ TableOwners(slot, s) = {<<i, x>>} /\ WrapperOwners(wrapper, s) = {}
          /\ Custodians(call, s) = {} /\ Resulting(call, s) = {} /\ Owners(s) # {}
      BY <1>2, <2>2, <3>1, OwnHandle
    <3>3. TableOwners(slot', s) = {<<j, y>>}
      BY <1>15, <2>2
    <3>4. Told(TableOwners(slot', s), WrapperOwners(wrapper', s),
               Custodians(call', s), Resulting(call', s)) = {<<"slot", <<j, y>>>>}
      BY <1>1, <2>1, <3>2, <3>3, ToldOne
    <3>5. QED
      BY <1>1, <3>2, <3>4, MoveSole
  <2>3. CASE ~(form = "own" /\ s = r)
    <3>1. TableOwners(slot', s) = TableOwners(slot, s)
      BY <1>15, <2>3
    <3>2. QED
      BY <1>1, <2>1, <3>1, StaySole
  <2>4. QED
    BY <2>2, <2>3
<1>18. CountersTyped'
  BY <1>1, HandleParts DEF CountersTyped
<1>19. QED
  BY <1>1, <1>12, <1>13, <1>14, <1>15, <1>16, <1>17, <1>18, HandleParts DEF HandleInv

-----------------------------------------------------------------------------
(* The arguments of a call of the host are lowered.                         *)

\* Owns for the reps in A and borrows for those in L, at indices of i.
LowerTo(d, i, A, L, at, t) ==
  /\ A \in SUBSET Reps /\ L \in SUBSET Reps
  /\ \A r \in A \cup L : at[r] \in Index /\ slot[i][at[r]].entry = None
  /\ \A r, s \in A \cup L : at[r] = at[s] => r = s
  /\ t = [slot EXCEPT ![i] = [x \in Index |->
           IF \E r \in A \cup L : at[r] = x
           THEN [tenure |-> slot[i][x].tenure + 1,
                 entry |-> LET r == CHOOSE r \in A \cup L : at[r] = x
                           IN  IF r \in A THEN Own(r) ELSE Borrow(r, d)]
           ELSE slot[i][x]]]

LEMMA LowerAt ==
  ASSUME HandleInv, NEW d \in Calls, NEW i \in Inst, NEW A, NEW L, NEW at, NEW t,
         LowerTo(d, i, A, L, at, t)
  PROVE  /\ t \in TableType
         /\ \A r \in A \cup L :
              /\ t[i][at[r]].tenure = slot[i][at[r]].tenure + 1
              /\ t[i][at[r]].entry = IF r \in A THEN Own(r) ELSE Borrow(r, d)
         /\ \A k \in Inst, z \in Index :
              k # i \/ (\A r \in A \cup L : at[r] # z) => t[k][z] = slot[k][z]
<1> DEFINE e(r) == IF r \in A THEN Own(r) ELSE Borrow(r, d)
           Taken(x) == \E r \in A \cup L : at[r] = x
           pick(x) == CHOOSE r \in A \cup L : at[r] = x
           u(x) == IF Taken(x) THEN [tenure |-> slot[i][x].tenure + 1, entry |-> e(pick(x))]
                   ELSE slot[i][x]
<1>1. /\ A \in SUBSET Reps /\ L \in SUBSET Reps
      /\ \A r \in A \cup L : at[r] \in Index /\ slot[i][at[r]].entry = None
      /\ \A r, s \in A \cup L : at[r] = at[s] => r = s
      /\ t = [slot EXCEPT ![i] = [x \in Index |-> u(x)]]
  BY DEF LowerTo
<1>2. \A r \in A \cup L : Taken(at[r]) /\ pick(at[r]) = r
  BY <1>1
<1>3. \A x \in Index : Taken(x) => pick(x) \in A \cup L
  OBVIOUS
<1>4. slot \in TableType /\ slot[i] \in [Index -> SlotType]
  BY HandleParts DEF TableType
<1>5. \A r \in A \cup L : e(r) \in HandleType
  BY <1>1, EntryTyped
<1> HIDE DEF e, pick
<1>6. \A x \in Index : u(x) \in SlotType
  <2>1. ASSUME NEW x \in Index PROVE u(x) \in SlotType
    <3>1. CASE Taken(x)
      <4>1. e(pick(x)) \in HandleType /\ slot[i][x].tenure \in Nat
        BY <1>3, <1>4, <1>5, <3>1 DEF SlotType
      <4>2. slot[i][x].tenure + 1 \in Nat
        BY <4>1
      <4>3. u(x) = [tenure |-> slot[i][x].tenure + 1, entry |-> e(pick(x))]
        BY <3>1
      <4>4. QED
        BY <4>1, <4>2, <4>3 DEF SlotType
    <3>2. CASE ~Taken(x)
      BY <1>4, <3>2
    <3>3. QED
      BY <3>1, <3>2
  <2>2. QED
    BY <2>1
<1>7. \A r \in A \cup L : u(at[r]) = [tenure |-> slot[i][at[r]].tenure + 1, entry |-> e(r)]
  BY <1>2
<1>8. \A x \in Index : (\A r \in A \cup L : at[r] # x) => u(x) = slot[i][x]
  OBVIOUS
<1> HIDE DEF u
<1> DEFINE row == [x \in Index |-> u(x)]
<1>9. row \in [Index -> SlotType] /\ \A x \in Index : row[x] = u(x)
  BY <1>6
<1>10. t = [slot EXCEPT ![i] = row]
  BY <1>1
<1> HIDE DEF row
<1>11. t \in TableType /\ t[i] = row /\ \A k \in Inst : k # i => t[k] = slot[k]
  BY <1>4, <1>9, <1>10 DEF TableType
<1>12. \A r \in A \cup L : /\ t[i][at[r]].tenure = slot[i][at[r]].tenure + 1
                          /\ t[i][at[r]].entry = e(r)
  <2>1. \A r \in A \cup L : at[r] \in Index
    BY <1>1
  <2>2. \A r \in A \cup L : t[i][at[r]] = u(at[r])
    BY <1>9, <1>11, <2>1
  <2>3. \A r \in A \cup L : t[i][at[r]] = [tenure |-> slot[i][at[r]].tenure + 1, entry |-> e(r)]
    BY <1>7, <2>2
  <2>4. ASSUME NEW r \in A \cup L
        PROVE  t[i][at[r]].tenure = slot[i][at[r]].tenure + 1 /\ t[i][at[r]].entry = e(r)
    <3> DEFINE m == slot[i][at[r]].tenure + 1
               q == t[i][at[r]]
    <3>1. q = [tenure |-> m, entry |-> e(r)]
      BY <2>3
    <3> HIDE DEF m, q
    <3>2. q.tenure = m /\ q.entry = e(r)
      BY <3>1
    <3>3. QED
      BY <3>2 DEF m, q
  <2>5. QED
    BY <2>4
<1>13. \A k \in Inst, z \in Index :
         k # i \/ (\A r \in A \cup L : at[r] # z) => t[k][z] = slot[k][z]
  BY <1>8, <1>9, <1>11
<1>14. QED
  BY <1>11, <1>12, <1>13 DEF e

HasLowered(d, i, A, L, at, t) ==
  /\ TableSound(t) /\ LendsCounted(t, call)
  /\ \A s \in Reps : TableOwners(t, s) =
       IF s \in A THEN TableOwners(slot, s) \cup {<<i, at[s]>>} ELSE TableOwners(slot, s)
  /\ \A c \in Calls : c # d => ScopeSlots(t, c) = ScopeSlots(slot, c)
  /\ ScopeSlots(slot, d) = {} => Cardinality(ScopeSlots(t, d)) <= Cardinality(L)

LEMMA LowerSays ==
  ASSUME HandleInv, NEW d \in Calls, NEW i \in Inst, NEW A, NEW L, NEW at, NEW t,
         LowerTo(d, i, A, L, at, t)
  PROVE  HasLowered(d, i, A, L, at, t)
<1> DEFINE New(k, z) == k = i /\ \E r \in A \cup L : at[r] = z
<1>1. /\ A \in SUBSET Reps /\ L \in SUBSET Reps
      /\ \A r \in A \cup L : at[r] \in Index /\ slot[i][at[r]].entry = None
      /\ \A r, s \in A \cup L : at[r] = at[s] => r = s
  BY DEF LowerTo
<1>2. /\ t \in TableType
      /\ \A r \in A \cup L :
           /\ t[i][at[r]].tenure = slot[i][at[r]].tenure + 1
           /\ t[i][at[r]].entry = IF r \in A THEN Own(r) ELSE Borrow(r, d)
  BY LowerAt
<1>3. \A k \in Inst, z \in Index : ~New(k, z) => t[k][z] = slot[k][z]
  BY LowerAt
<1>4. \A k \in Inst, z \in Index : New(k, z) => k = i /\ \E r \in A \cup L : at[r] = z
  OBVIOUS
<1>5. \A r \in A \cup L : New(i, at[r])
  OBVIOUS
<1> HIDE DEF New
<1>6. \A k \in Inst, z \in Index : New(k, z) =>
        /\ k = i /\ slot[k][z].entry = None
        /\ t[k][z].tenure = slot[k][z].tenure + 1
        /\ \E r \in A \cup L : at[r] = z /\ t[k][z].entry = IF r \in A THEN Own(r) ELSE Borrow(r, d)
  BY <1>1, <1>2, <1>4
<1>7. \A r \in Reps : /\ Own(r).rep = r /\ Own(r).own /\ Own(r).lends = 0 /\ Own(r).scope = 0
                      /\ Borrow(r, d).rep = r /\ ~Borrow(r, d).own /\ Borrow(r, d).lends = 0
                      /\ Borrow(r, d).scope = d /\ EntrySound(Own(r)) /\ EntrySound(Borrow(r, d))
  BY EntryTyped
<1>8. /\ slot \in TableType /\ LendsCounted(slot, call) /\ TableSound(slot)
      /\ \A k \in Inst, z \in Index : slot[k][z].tenure \in Nat
  BY HandleParts DEF TableType, SlotType
<1>9. TableSound(t)
  <2>1. ASSUME NEW k \in Inst, NEW z \in Index PROVE EntrySound(t[k][z].entry)
    <3>1. CASE New(k, z)
      BY <1>1, <1>6, <1>7, <3>1
    <3>2. CASE ~New(k, z)
      BY <1>3, <1>8, <3>2 DEF TableSound
    <3>3. QED
      BY <3>1, <3>2
  <2>2. QED
    BY <1>2, <2>1 DEF TableSound
<1>10. \A c \in Calls : \A h \in call[c].lenders :
         h \in LenderType /\ h.inst \in Inst /\ h.index \in Index /\ h.tenure \in Nat
         /\ h.tenure <= slot[h.inst][h.index].tenure
  <2>1. \A c \in Calls : \A h \in call[c].lenders : h \in LenderType
    BY HandleParts DEF CallType
  <2>2. QED
    BY <1>8, <2>1 DEF LenderType, LendsCounted
<1>11. LendsCounted(t, call)
  <2>1. ASSUME NEW k \in Inst, NEW z \in Index, t[k][z].entry # None
        PROVE  t[k][z].entry.lends = Cardinality(Lenders(t, call, k, z))
    <3>1. CASE New(k, z)
      <4>1. Lenders(t, call, k, z) = {}
        <5>1. ASSUME NEW c \in Calls, Key(t, k, z) \in call[c].lenders PROVE FALSE
          <6>1. Key(t, k, z).tenure <= slot[k][z].tenure /\ Key(t, k, z).tenure = slot[k][z].tenure + 1
            BY <1>6, <1>10, <3>1, <5>1 DEF Key
          <6>2. QED
            BY <1>8, <6>1
        <5>2. QED
          BY <5>1 DEF Lenders
      <4>2. t[k][z].entry.lends = 0
        BY <1>1, <1>6, <1>7, <3>1
      <4>3. QED
        BY <4>1, <4>2, FS_EmptySet
    <3>2. CASE ~New(k, z)
      <4>1. t[k][z] = slot[k][z]
        BY <1>3, <3>2
      <4>2. Lenders(t, call, k, z) = Lenders(slot, call, k, z)
        BY <4>1 DEF Lenders, Key
      <4>3. QED
        BY <1>8, <2>1, <4>1, <4>2 DEF LendsCounted
    <3>3. QED
      BY <3>1, <3>2
  <2>2. ASSUME NEW c \in Calls, NEW h \in call[c].lenders
        PROVE  h.tenure <= t[h.inst][h.index].tenure
    <3>1. h.inst \in Inst /\ h.index \in Index /\ h.tenure \in Nat /\ h.tenure <= slot[h.inst][h.index].tenure
      BY <1>10
    <3>2. t[h.inst][h.index].tenure \in {slot[h.inst][h.index].tenure, slot[h.inst][h.index].tenure + 1}
      BY <1>3, <1>6, <3>1
    <3>3. QED
      BY <1>8, <3>1, <3>2
  <2>3. QED
    BY <2>1, <2>2 DEF LendsCounted
<1>12. ~None.own /\ None.scope = 0 /\ \A c \in Calls : c # 0
  BY EntryTyped, BoundsAssumption DEF Calls
<1>13. ASSUME NEW s \in Reps
       PROVE  TableOwners(t, s) =
                IF s \in A THEN TableOwners(slot, s) \cup {<<i, at[s]>>} ELSE TableOwners(slot, s)
  <2>1. ASSUME NEW k \in Inst, NEW z \in Index
        PROVE  t[k][z].entry.own /\ t[k][z].entry.rep = s <=>
                 \/ slot[k][z].entry.own /\ slot[k][z].entry.rep = s
                 \/ s \in A /\ k = i /\ z = at[s]
    <3>1. CASE New(k, z)
      <4>1. PICK r \in A \cup L :
              at[r] = z /\ t[k][z].entry = IF r \in A THEN Own(r) ELSE Borrow(r, d)
        BY <1>6, <3>1
      <4>2. k = i /\ ~slot[k][z].entry.own /\ r \in Reps
        BY <1>1, <1>6, <1>12, <3>1
      <4>3. t[k][z].entry.rep = r /\ (t[k][z].entry.own <=> r \in A)
        BY <1>7, <4>1, <4>2
      <4>4. s \in A /\ z = at[s] => r = s
        BY <1>1, <4>1
      <4>5. QED
        BY <4>1, <4>2, <4>3, <4>4
    <3>2. CASE ~New(k, z)
      <4>1. t[k][z] = slot[k][z]
        BY <1>3, <3>2
      <4>2. ~(s \in A /\ k = i /\ z = at[s])
        BY <1>5, <3>2
      <4>3. QED
        BY <4>1, <4>2
    <3>3. QED
      BY <3>1, <3>2
  <2>2. \A o \in Slots : o \in TableOwners(t, s) <=>
          o \in TableOwners(slot, s) \/ (s \in A /\ o = <<i, at[s]>>)
    BY <2>1, SlotsAre DEF TableOwners
  <2>3. s \in A => <<i, at[s]>> \in Slots
    BY <1>1, SlotsAre
  <2>4. TableOwners(t, s) \subseteq Slots /\ TableOwners(slot, s) \subseteq Slots
    BY DEF TableOwners
  <2>5. QED
    BY <2>2, <2>3, <2>4
<1>14. ASSUME NEW c \in Calls, NEW k \in Inst, NEW z \in Index
       PROVE  /\ c # d => (t[k][z].entry.scope = c <=> slot[k][z].entry.scope = c)
              /\ t[k][z].entry.scope = d =>
                   \/ slot[k][z].entry.scope = d
                   \/ k = i /\ t[k][z].entry.rep \in L /\ z = at[t[k][z].entry.rep]
  <2>1. CASE New(k, z)
    <3>1. PICK r \in A \cup L :
            at[r] = z /\ t[k][z].entry = IF r \in A THEN Own(r) ELSE Borrow(r, d)
      BY <1>6, <2>1
    <3>2. k = i /\ slot[k][z].entry.scope = 0 /\ r \in Reps
      BY <1>1, <1>6, <1>12, <2>1
    <3>3. t[k][z].entry.rep = r /\ t[k][z].entry.scope = (IF r \in A THEN 0 ELSE d)
      BY <1>7, <3>1, <3>2
    <3>4. QED
      BY <1>12, <3>1, <3>2, <3>3
  <2>2. CASE ~New(k, z)
    BY <1>3, <2>2
  <2>3. QED
    BY <2>1, <2>2
<1>15. \A c \in Calls : c # d => ScopeSlots(t, c) = ScopeSlots(slot, c)
  BY <1>14, SlotsAre DEF ScopeSlots
<1>16. ASSUME ScopeSlots(slot, d) = {} PROVE Cardinality(ScopeSlots(t, d)) <= Cardinality(L)
  <2> DEFINE S == ScopeSlots(t, d)
             g == [o \in S |-> t[o[1]][o[2]].entry.rep]
  <2>1. \A o \in S : /\ o = <<i, at[t[o[1]][o[2]].entry.rep]>>
                     /\ t[o[1]][o[2]].entry.rep \in L
    <3>1. ASSUME NEW o \in S
          PROVE  o = <<i, at[t[o[1]][o[2]].entry.rep]>> /\ t[o[1]][o[2]].entry.rep \in L
      <4>1. /\ o \in Slots /\ t[o[1]][o[2]].entry.scope = d
            /\ o[1] \in Inst /\ o[2] \in Index /\ o = <<o[1], o[2]>>
        BY SlotsAre DEF ScopeSlots
      <4>2. slot[o[1]][o[2]].entry.scope # d
        BY <1>16, <4>1 DEF ScopeSlots
      <4>3. QED
        BY <1>14, <4>1, <4>2
    <3>2. QED
      BY <3>1
  <2>2. g \in [S -> L]
    BY <2>1
  <2>3. \A o, p \in S : g[o] = g[p] => o = p
    BY <2>1
  <2> HIDE DEF g, S
  <2>4. g \in Injection(S, L)
    BY <2>2, <2>3, Fun_IsInj
  <2>5. IsFiniteSet(L)
    <3>1. IsFiniteSet(Reps)
      BY BoundsAssumption, FS_Interval DEF Reps
    <3>2. QED
      BY <1>1, <3>1, FS_Subset
  <2>6. QED
    BY <2>4, <2>5, FS_Injection DEF S
<1>17. QED
  BY <1>9, <1>11, <1>13, <1>15, <1>16 DEF HasLowered

\* What the arguments of a call that enters are, and where they go.
Entering(d, A, L, at) ==
  /\ call[d].phase = "waiting" /\ call[d] \in CallType /\ call[d].kind = "export"
  /\ call[d].callee \in Inst /\ call[d].borrows = 0 /\ call[d].result = 0
  /\ call[d].views = {} /\ call[d].lenders = {}
  /\ A = call[d].args /\ A \in SUBSET Reps /\ call[d].lent \in SUBSET Wrappers
  /\ L \in SUBSET {wrapper[w].rep : w \in call[d].lent} /\ L \in SUBSET Reps
  /\ Cardinality(L) \in Nat
  /\ LowerTo(d, call[d].callee, A, L, at, slot')
  /\ call' = [call EXCEPT ![d] = [call[d] EXCEPT !.phase = "open", !.args = {},
                                                !.borrows = Cardinality(L)]]
  /\ wrapper' = wrapper /\ born' = born /\ dtors' = dtors /\ poisoned' = poisoned

LEMMA EntersSays ==
  ASSUME HandleInv, NEW d \in Calls, Enters(d)
  PROVE  \E A, L, at : Entering(d, A, L, at)
<1> DEFINE i == call[d].callee
           A == call[d].args
           L == IF i = Impl THEN {} ELSE {wrapper[w].rep : w \in call[d].lent}
           n == Cardinality(L)
           f == [call[d] EXCEPT !.phase = "open", !.args = {}, !.borrows = n]
<1>1. call[d].phase = "waiting"
  BY DEF Enters
<1>2. /\ call[d] \in CallType /\ call[d].kind = "export" /\ i \in Inst /\ call[d].borrows = 0
      /\ call[d].result = 0 /\ A \in SUBSET Reps /\ call[d].lent \in SUBSET Wrappers
      /\ call[d].views = {} /\ call[d].lenders = {}
  BY <1>1, HandleParts DEF KindSound, CallType
<1>3. L \in SUBSET Reps
  <2>1. \A w \in call[d].lent : wrapper[w].rep \in Reps
    BY <1>2, HandleParts, BoundsAssumption DEF RefsSound, WrapperType, Reps
  <2>2. QED
    BY <2>1
<1>4. n \in Nat
  <2>1. IsFiniteSet(Reps)
    BY BoundsAssumption, FS_Interval DEF Reps
  <2>2. IsFiniteSet(L)
    BY <1>3, <2>1, FS_Subset
  <2>3. QED
    BY <2>2, FS_CardinalityType
<1>5. PICK R \in SUBSET Reps : \E at \in [R -> Index] : Lowered(d, at)
  BY DEF Enters
<1>6. PICK at \in [R -> Index] : Lowered(d, at)
  BY <1>5
<1>7. /\ wrapper' = wrapper /\ born' = born /\ dtors' = dtors /\ poisoned' = poisoned
      /\ call' = [call EXCEPT ![d] = f]
      /\ LowerTo(d, i, A, L, at, slot')
  <2>1. /\ R = A \cup L
        /\ \A r \in A \cup L : at[r] \in Empty(i)
        /\ \A r, s \in A \cup L : at[r] = at[s] => r = s
        /\ slot' = [slot EXCEPT ![i] = [x \in Index |->
             IF \E r \in A \cup L : at[r] = x
             THEN [tenure |-> slot[i][x].tenure + 1,
                   entry |-> LET r == CHOOSE r \in A \cup L : at[r] = x
                             IN  IF r \in A THEN Own(r) ELSE Borrow(r, d)]
             ELSE slot[i][x]]]
        /\ call' = [call EXCEPT ![d].phase = "open", ![d].args = {}, ![d].borrows = n]
    <3>1. DOMAIN at = R
      OBVIOUS
    <3>2. DOMAIN at = A \cup L
      BY <1>6 DEF Lowered
    <3>3. /\ \A r \in DOMAIN at : at[r] \in Empty(i)
          /\ \A r, s \in DOMAIN at : at[r] = at[s] => r = s
      BY <1>6 DEF Lowered
    <3>4. slot' = [slot EXCEPT ![i] = [x \in Index |->
             IF \E r \in A \cup L : at[r] = x
             THEN [tenure |-> slot[i][x].tenure + 1,
                   entry |-> LET r == CHOOSE r \in A \cup L : at[r] = x
                             IN  IF r \in A THEN Own(r) ELSE Borrow(r, d)]
             ELSE slot[i][x]]]
      BY SMTT(40), <1>6, <3>2 DEF Lowered
    <3>5. call' = [call EXCEPT ![d].phase = "open", ![d].args = {}, ![d].borrows = n]
      BY <1>6 DEF Lowered
    <3>6. QED
      BY <3>1, <3>2, <3>3, <3>4, <3>5
  <2>2. wrapper' = wrapper /\ born' = born /\ dtors' = dtors /\ poisoned' = poisoned
    BY DEF Enters
  <2>3. call' = [call EXCEPT ![d] = f]
    BY <1>2, <2>1, HandleParts
  <2>4. LowerTo(d, i, A, L, at, slot')
    <3>1. \A r \in A \cup L : at[r] \in Index /\ slot[i][at[r]].entry = None
      BY <2>1 DEF Empty
    <3>2. QED
      BY <1>2, <1>3, <2>1, <3>1 DEF LowerTo
  <2>5. QED
    BY <2>2, <2>3, <2>4
<1>8. L \in SUBSET {wrapper[w].rep : w \in call[d].lent}
  OBVIOUS
<1> HIDE DEF i, A, L
<1>9. Entering(d, A, L, at)
  <2>1. call' = [call EXCEPT ![d] = [call[d] EXCEPT !.phase = "open", !.args = {},
                                                    !.borrows = Cardinality(L)]]
    BY <1>7
  <2>2. A = call[d].args /\ i = call[d].callee
    BY DEF A, i
  <2>3. /\ wrapper' = wrapper /\ born' = born /\ dtors' = dtors /\ poisoned' = poisoned
        /\ LowerTo(d, i, A, L, at, slot') /\ Cardinality(L) \in Nat
    BY <1>4, <1>7
  <2>4. QED
    BY <1>1, <1>2, <1>3, <1>8, <2>1, <2>2, <2>3 DEF Entering
<1>11. QED
  BY <1>9

LEMMA EnteringInv ==
  ASSUME HandleInv, NEW d \in Calls, NEW A, NEW L, NEW at, Entering(d, A, L, at)
  PROVE  HandleInv'
<1> DEFINE i == call[d].callee
           n == Cardinality(L)
           f == [call[d] EXCEPT !.phase = "open", !.args = {}, !.borrows = n]
<1>2. /\ call[d] \in CallType /\ call[d].kind = "export" /\ i \in Inst /\ call[d].borrows = 0
      /\ call[d].result = 0 /\ A \in SUBSET Reps /\ call[d].lent \in SUBSET Wrappers
      /\ call[d].views = {} /\ call[d].lenders = {} /\ A = call[d].args
      /\ call[d].phase = "waiting"
  BY DEF Entering
<1>3. L \in SUBSET Reps
  BY DEF Entering
<1>4. n \in Nat
  BY DEF Entering
<1>5. /\ wrapper' = wrapper /\ born' = born /\ dtors' = dtors /\ poisoned' = poisoned
      /\ call' = [call EXCEPT ![d] = f]
      /\ LowerTo(d, i, A, L, at, slot')
  BY DEF Entering
<1> HIDE DEF n
<1>6. /\ f \in CallType /\ KindSound(f) /\ f.phase = "open" /\ f.kind = "export" /\ f.args = {}
      /\ f.borrows = n /\ f.result = 0 /\ f.stack = call[d].stack /\ f.lent = call[d].lent
      /\ f.views = {} /\ f.lenders = {}
  <2>1. /\ f \in CallType /\ f.phase = "open" /\ f.kind = "export" /\ f.args = {}
        /\ f.borrows = n /\ f.result = 0 /\ f.stack = call[d].stack /\ f.lent = call[d].lent
        /\ f.views = {} /\ f.lenders = {} /\ f.callee = i
    <3>1. "open" \in Phases
      BY DEF Phases
    <3>2. QED
      BY <1>2, <1>4, <3>1 DEF CallType
  <2> HIDE DEF f
  <2>2. KindSound(f)
    BY <1>2, <2>1 DEF KindSound
  <2>3. QED
    BY <2>1, <2>2
<1> HIDE DEF f
<1>7. /\ call' \in [Calls -> CallType] /\ CallsSound(call') /\ RefsSound(call', wrapper)
      /\ call'[d] = f /\ \A c \in Calls : c # d => call'[c] = call[c]
  <2>1. f.lent \subseteq call[d].lent /\ f.views \subseteq call[d].views
    BY <1>2, <1>6
  <2>2. f.phase = "free" <=> call[d].phase = "free"
    BY <1>2, <1>6
  <2>3. f.kind = call[d].kind /\ (f.stack = call[d].stack \/ (f.stack = {d} /\ call[d].kind = "async"))
    BY <1>2, <1>6
  <2> DEFINE cl == [call EXCEPT ![d] = f]
  <2>4. /\ cl \in [Calls -> CallType] /\ CallsSound(cl) /\ RefsSound(cl, wrapper)
        /\ cl[d] = f /\ \A c \in Calls : c # d => cl[c] = call[c]
    BY <1>6, <2>1, <2>2, <2>3, OneCall
  <2>5. call' = cl
    BY <1>5
  <2> HIDE DEF cl
  <2>6. QED
    BY <2>4, <2>5
<1>8. ScopeSlots(slot, d) = {}
  BY <1>2, NoScopes
<1>9. /\ TableSound(slot') /\ LendsCounted(slot', call)
      /\ \A c \in Calls : c # d => ScopeSlots(slot', c) = ScopeSlots(slot, c)
      /\ Cardinality(ScopeSlots(slot', d)) <= Cardinality(L)
      /\ \A s \in Reps : s \notin A => TableOwners(slot', s) = TableOwners(slot, s)
  <2>1. LowerTo(d, i, A, L, at, slot')
    BY <1>5
  <2> HIDE DEF i
  <2>2. HasLowered(d, i, A, L, at, slot')
    BY <1>2, <2>1, LowerSays
  <2>3. /\ TableSound(slot') /\ LendsCounted(slot', call)
        /\ \A c \in Calls : c # d => ScopeSlots(slot', c) = ScopeSlots(slot, c)
        /\ ScopeSlots(slot, d) = {} => Cardinality(ScopeSlots(slot', d)) <= Cardinality(L)
    BY <2>2, Zenon DEF HasLowered
  <2>4. \A s \in Reps : TableOwners(slot', s) =
          IF s \in A THEN TableOwners(slot, s) \cup {<<i, at[s]>>} ELSE TableOwners(slot, s)
    BY <2>2, Zenon DEF HasLowered
  <2>5. \A s \in Reps : s \notin A => TableOwners(slot', s) = TableOwners(slot, s)
    BY <2>4, Zenon
  <2>6. QED
    BY <1>8, <2>3, <2>5
<1>10. ASSUME NEW s \in A PROVE TableOwners(slot', s) = TableOwners(slot, s) \cup {<<i, at[s]>>}
  <2>1. LowerTo(d, i, A, L, at, slot') /\ s \in Reps
    BY <1>2, <1>5
  <2> HIDE DEF i
  <2>2. HasLowered(d, i, A, L, at, slot')
    BY <1>2, <2>1, LowerSays
  <2>3. TableOwners(slot', s) =
          IF s \in A THEN TableOwners(slot, s) \cup {<<i, at[s]>>} ELSE TableOwners(slot, s)
    BY <2>1, <2>2, Zenon DEF HasLowered
  <2>4. QED
    BY <2>3, Zenon
<1>11. WrapperLends(call', wrapper')
  <2>1. \A c \in Calls : call'[c].lent = call[c].lent
    BY <1>6, <1>7
  <2>2. QED
    BY <1>5, <2>1, SameLent
<1>12. LendsCounted(slot', call')
  <2>1. \A c \in Calls : call'[c].lenders = call[c].lenders
    BY <1>2, <1>6, <1>7
  <2>2. QED
    BY <1>9, <2>1, SameLenders
<1>13. ScopesSound(slot', call')
  <2>1. ASSUME NEW c \in Calls
        PROVE  /\ call'[c].borrows >= Cardinality(ScopeSlots(slot', c))
               /\ ScopeSlots(slot', c) # {} =>
                    call'[c].phase \in {"open", "failed", "lost"} /\ call'[c].kind # "import"
    <3>1. CASE c = d
      <4>1. Cardinality(ScopeSlots(slot', d)) \in Nat
        BY ScopesFinite
      <4>2. n >= Cardinality(ScopeSlots(slot', d))
        <5>1. Cardinality(ScopeSlots(slot', d)) <= n
          BY <1>9 DEF n
        <5>2. QED
          BY <1>4, <4>1, <5>1
      <4>3. QED
        BY <1>6, <1>7, <3>1, <4>2
    <3>2. CASE c # d
      BY <1>7, <1>9, <3>2, HandleParts DEF ScopesSound
    <3>3. QED
      BY <3>1, <3>2
  <2>2. QED
    BY <2>1 DEF ScopesSound
<1>14. ASSUME NEW s \in Reps PROVE Sole(s)'
  <2>1. Resulting(call', s) = Resulting(call, s)
    BY <1>2, <1>6, <1>7 DEF Resulting
  <2>2. Custodians(call', s) = Custodians(call, s) \ {d}
    BY <1>6, <1>7 DEF Custodians
  <2>3. CASE s \in A
    <3>1. d \in Custodians(call, s)
      BY <1>2, <2>3 DEF Custodians
    <3>2. /\ TableOwners(slot, s) = {} /\ WrapperOwners(wrapper, s) = {}
          /\ Custodians(call, s) = {d} /\ Resulting(call, s) = {} /\ Owners(s) # {}
      BY <3>1, OwnerAlone, HandleParts
    <3> DEFINE p == <<i, at[s]>>
    <3>3. TableOwners(slot', s) = {<<i, at[s]>>} /\ Custodians(call', s) = {}
      <4>1. TableOwners(slot', s) = TableOwners(slot, s) \cup {p}
        BY <1>10, <2>3, Zenon
      <4> HIDE DEF p
      <4>2. TableOwners(slot', s) = {p} /\ Custodians(call', s) = {}
        BY <2>2, <3>2, <4>1
      <4>3. QED
        BY <4>2 DEF p
    <3>4. Told(TableOwners(slot', s), WrapperOwners(wrapper', s),
               Custodians(call', s), Resulting(call', s)) = {<<"slot", <<i, at[s]>>>>}
      BY <1>5, <2>1, <3>2, <3>3, ToldOne
    <3>5. QED
      BY <1>5, <3>2, <3>4, MoveSole
  <2>4. CASE s \notin A
    <3>1. Custodians(call', s) = Custodians(call, s)
      BY <1>2, <2>2, <2>4 DEF Custodians
    <3>2. TableOwners(slot', s) = TableOwners(slot, s)
      BY <1>9, <2>4
    <3>3. QED
      BY <1>5, <2>1, <3>1, <3>2, StaySole
  <2>5. QED
    BY <2>3, <2>4
<1>15. CountersTyped'
  BY <1>5, HandleParts DEF CountersTyped
<1>16. RefsSound(call', wrapper')
  BY <1>5, <1>7
<1>17. QED
  BY <1>5, <1>7, <1>9, <1>11, <1>12, <1>13, <1>14, <1>15, <1>16, HandleParts DEF HandleInv

LEMMA EntersInv == ASSUME HandleInv, NEW d \in Calls, Enters(d) PROVE HandleInv'
<1>1. PICK A, L, at : Entering(d, A, L, at)
  BY EntersSays
<1>2. QED
  BY <1>1, EnteringInv

-----------------------------------------------------------------------------
(* Every step, and what follows for every behaviour.                        *)

LEMMA HandleStep == ASSUME HandleInv, [Next]_vars PROVE HandleInv'
<1>1. CASE \E c \in Calls : \/ Traps(c) \/ EntersTraps(c) \/ Enters(c)
                            \/ HostTail(c) \/ AsyncParks(c) \/ Deliver(c)
  BY <1>1, TrapsInv, EntersTrapsInv, EntersInv, HostTailInv, AsyncParksInv, DeliverInv
<1>2. CASE \E c \in Calls, x \in Index :
             ResourceNew(c, x) \/ ResourceDrop(c, x) \/ ResourceDropTraps(c, x)
  BY <1>2, ResourceNewInv, ResourceDropInv, ResourceDropTrapsInv
<1>3. CASE \E d \in Calls, x \in {0} \cup Index :
             \/ ReturnTraps(d, x) \/ ExportReturns(d, x)
             \/ \E y \in Index : SyncReturns(d, x, y) \/ AsyncReturns(d, x, y)
  BY <1>3, ReturnTrapsInv, ExportReturnsInv, SyncReturnsInv, AsyncReturnsInv
<1>4. CASE \E d \in Calls, i \in Inst, owns, lent \in SUBSET Wrappers : HostCalls(d, i, owns, lent)
  BY <1>4, HostCallsInv
<1>5. CASE \E w, v \in Wrappers : HostCallRefused(w, v)
  BY <1>5, HostCallRefusedInv
<1>6. CASE \E c, d \in Calls, j \in Inst, form \in Forms, x, y \in Index :
             \E kind \in {"sync", "async"} : GuestCalls(c, d, kind, j, form, x, y)
  BY <1>6, GuestCallsInv
<1>7. CASE \E c \in Calls, j \in Inst, form \in Forms, x \in Index : GuestCallTraps(c, j, form, x)
  BY <1>7, GuestCallTrapsInv
<1>8. CASE \E c, d \in Calls, form \in Forms, x \in Index, w \in Wrappers :
             ImportCall(c, d, form, x, w)
  BY <1>8, ImportCallInv
<1>9. CASE \E d \in Calls, w \in {0} \cup Wrappers, y \in Index : ImportReturns(d, w, y)
  BY <1>9, ImportReturnsInv
<1>10. CASE \E w \in Wrappers : HostDrops(w) \/ HostDropTraps(w)
  BY <1>10, HostDropsInv, HostDropTrapsInv
<1>11. CASE UNCHANGED vars
  <2>1. /\ slot' = slot /\ call' = call /\ wrapper' = wrapper /\ born' = born
        /\ dtors' = dtors /\ poisoned' = poisoned
    BY <1>11 DEF vars
  <2>2. \A r \in Reps : Sole(r)'
    <3>1. ASSUME NEW r \in Reps PROVE Sole(r)'
      <4>1. /\ TableOwners(slot', r) = TableOwners(slot, r)
            /\ WrapperOwners(wrapper', r) = WrapperOwners(wrapper, r)
            /\ Custodians(call', r) = Custodians(call, r) /\ Resulting(call', r) = Resulting(call, r)
        BY <2>1
      <4>2. QED
        BY <2>1, <4>1, StaySole
    <3>2. QED
      BY <3>1
  <2>3. QED
    BY <2>1, <2>2, HandleParts DEF HandleInv, CountersTyped
<1>12. QED
  BY <1>1, <1>2, <1>3, <1>4, <1>5, <1>6, <1>7, <1>8, <1>9, <1>10, <1>11 DEF Next

LEMMA HandlesSafe == Spec => []HandleInv
<1>1. Init => HandleInv
  BY HandleInit
<1>2. HandleInv /\ [Next]_vars => HandleInv'
  BY HandleStep
<1>3. QED
  BY <1>1, <1>2, PTL DEF Spec

\* Every table entry, call and wrapper is of its type.
THEOREM HandlesTyped == Spec => []TypeOK
<1>1. HandleInv => TypeOK
  BY HandleTyped
<1>2. QED
  BY <1>1, HandlesSafe, PTL

\* A resource has one owner or was destroyed once: drops, transfers, traps and
\* failed calls neither destroy it twice nor give it a second owner, and nothing
\* but a trap loses it.
THEOREM OneOwner == Spec => []SoleOwner
<1>1. HandleInv => SoleOwner
  BY HandleSole
<1>2. QED
  BY <1>1, HandlesSafe, PTL

-----------------------------------------------------------------------------
(* Borrows. Until an instance is poisoned, each borrow leads, by a call that *)
(* has a handle or a wrapper lent to it, to something older, and at last to  *)
(* the owner.                                                               *)

SlotOf(sl, h) == sl[h.inst][h.index]
LinkedTo(sl, cl, ws, c, r) ==
  \/ \E h \in cl[c].lenders : SlotOf(sl, h).entry.rep = r
  \/ \E w \in cl[c].lent : ws[w].rep = r
LentLinked(cl, ws, c, w) ==
  \/ ws[w].owns /\ (ws[w].valid \/ ws[w].pending)
  \/ \E m \in Calls : m < c /\ w \in cl[m].views

\* What is lent to a call is still where it was, and older than the call; what
\* the call was given stands for something that is lent to it.
CallLinked(sl, cl, ws, c) ==
  /\ cl[c].phase \notin {"failed", "lost"}
  /\ cl[c].views # {} => cl[c].phase = "open"
  /\ \A h \in cl[c].lenders : /\ SlotOf(sl, h).tenure = h.tenure
                              /\ SlotOf(sl, h).entry # None
                              /\ SlotOf(sl, h).entry.scope < c
  /\ \A s \in ScopeSlots(sl, c) : LinkedTo(sl, cl, ws, c, sl[s[1]][s[2]].entry.rep)
  /\ \A w \in cl[c].views : \E h \in cl[c].lenders : SlotOf(sl, h).entry.rep = ws[w].rep
  /\ \A w \in cl[c].lent : LentLinked(cl, ws, c, w)

\* The host uses what it does not own only while an import it was given to runs.
Viewed(cl, ws) ==
  \A w \in Wrappers : ws[w].valid /\ ~ws[w].owns => \E m \in Calls : w \in cl[m].views
BorrowsExact(sl, cl) == \A c \in Calls : cl[c].borrows = Cardinality(ScopeSlots(sl, c))

Linked ==
  /\ \A c \in Calls : CallLinked(slot, call, wrapper, c)
  /\ Viewed(call, wrapper)
  /\ BorrowsExact(slot, call)

\* Where lent handles are, a table is as another one, and so it is where borrows
\* are, but for those of call d.
Same(sl, t, i, x) ==
  /\ t[i][x].tenure = sl[i][x].tenure
  /\ t[i][x].entry.rep = sl[i][x].entry.rep
  /\ t[i][x].entry.scope = sl[i][x].entry.scope
  /\ t[i][x].entry = None <=> sl[i][x].entry = None
Holds(sl, t, d) ==
  /\ \A c \in Calls : \A h \in call[c].lenders : Same(sl, t, h.inst, h.index)
  /\ \A i \in Inst, x \in Index :
       t[i][x].entry.scope \in Calls \ {d} => Same(sl, t, i, x)

LEMMA LenderTyped ==
  ASSUME HandleInv, NEW c \in Calls, NEW h \in call[c].lenders
  PROVE  h \in LenderType /\ h.inst \in Inst /\ h.index \in Index /\ h = [inst |-> h.inst, index |-> h.index, tenure |-> h.tenure]
<1>1. h \in LenderType
  BY HandleParts DEF CallType
<1>2. QED
  BY <1>1 DEF LenderType

LEMMA HoldsSelf == \A d : Holds(slot, slot, d)
BY DEF Holds, Same

LEMMA HoldsOn ==
  ASSUME NEW sl, NEW t, NEW u, NEW d, Holds(sl, t, 0) \/ Holds(sl, t, d), Holds(t, u, d)
  PROVE  Holds(sl, u, d)
<1>1. /\ \A c \in Calls : \A h \in call[c].lenders : Same(sl, t, h.inst, h.index)
      /\ \A i \in Inst, x \in Index : t[i][x].entry.scope \in Calls \ {d} => Same(sl, t, i, x)
  BY BoundsAssumption DEF Holds, Calls
<1>2. /\ \A c \in Calls : \A h \in call[c].lenders : Same(t, u, h.inst, h.index)
      /\ \A i \in Inst, x \in Index : u[i][x].entry.scope \in Calls \ {d} => Same(t, u, i, x)
  BY DEF Holds
<1>3. \A i, x : Same(sl, t, i, x) /\ Same(t, u, i, x) => Same(sl, u, i, x)
  BY DEF Same
<1>4. \A i, x : Same(t, u, i, x) => t[i][x].entry.scope = u[i][x].entry.scope
  BY DEF Same
<1>5. \A c \in Calls : \A h \in call[c].lenders : Same(sl, u, h.inst, h.index)
  BY <1>1, <1>2, <1>3
<1>6. \A i \in Inst, x \in Index : u[i][x].entry.scope \in Calls \ {d} => Same(sl, u, i, x)
  BY <1>1, <1>2, <1>3, <1>4
<1>7. QED
  BY <1>5, <1>6 DEF Holds

LEMMA HoldsAlike ==
  ASSUME HandleInv, NEW sl, NEW t, Alike(sl, t), NEW d,
         \A i \in Inst, x \in Index : t[i][x].entry = None <=> sl[i][x].entry = None
  PROVE  Holds(sl, t, d)
<1>1. \A i \in Inst, x \in Index : Same(sl, t, i, x)
  BY DEF Alike, Same
<1>2. \A c \in Calls : \A h \in call[c].lenders : h.inst \in Inst /\ h.index \in Index
  BY LenderTyped
<1>3. QED
  BY <1>1, <1>2 DEF Holds

\* A handle that is not lent goes.
LEMMA HoldsRemoved ==
  ASSUME HandleInv, Linked, NEW i \in Inst, NEW x \in Index,
         slot[i][x].entry # None, slot[i][x].entry.lends = 0, NEW d
  PROVE  Holds(slot, Removed(slot, i, x), d)
<1> DEFINE t == Removed(slot, i, x)
<1>1. /\ t[i][x].entry = None
      /\ \A j \in Inst, y \in Index : ~(j = i /\ y = x) => t[j][y] = slot[j][y]
  <2>1. slot \in TableType
    BY HandleParts
  <2>2. QED
    BY <2>1, RemovedAt
<1> HIDE DEF t
<1>2. ASSUME NEW c \in Calls, NEW h \in call[c].lenders PROVE ~(h.inst = i /\ h.index = x)
  <2>1. SUFFICES ASSUME h.inst = i, h.index = x PROVE FALSE
    OBVIOUS
  <2>2. slot[i][x].tenure = h.tenure
    BY <2>1 DEF Linked, CallLinked, SlotOf
  <2>3. h = Key(slot, i, x)
    BY <2>1, <2>2, LenderTyped DEF Key
  <2>4. c \in Lenders(slot, call, i, x)
    BY <2>3 DEF Lenders
  <2>5. Cardinality(Lenders(slot, call, i, x)) = 0
    BY HandleParts DEF LendsCounted
  <2>6. IsFiniteSet(Lenders(slot, call, i, x))
    BY CallsFinite DEF Lenders
  <2>7. QED
    BY <2>4, <2>5, <2>6, FS_EmptySet
<1>3. \A c \in Calls : \A h \in call[c].lenders : Same(slot, t, h.inst, h.index)
  BY <1>1, <1>2, LenderTyped DEF Same
<1>4. \A j \in Inst, y \in Index : t[j][y].entry.scope \in Calls \ {d} => Same(slot, t, j, y)
  <2>1. t[i][x].entry.scope \notin Calls
    BY <1>1, EntryTyped, BoundsAssumption DEF Calls
  <2>2. QED
    BY <1>1, <2>1 DEF Same
<1>5. QED
  BY <1>3, <1>4 DEF Holds, t

\* A handle is made, an own one or a borrow of call d.
LEMMA HoldsAdded ==
  ASSUME HandleInv, Linked, NEW sl \in TableType, NEW d, Holds(slot, sl, d),
         NEW i \in Inst, NEW x \in Index, sl[i][x].entry = None,
         NEW e \in HandleType, e.scope \notin Calls \ {d}
  PROVE  Holds(slot, Added(sl, i, x, e), d)
<1> DEFINE t == Added(sl, i, x, e)
<1>1. /\ t[i][x].entry = e
      /\ \A j \in Inst, y \in Index : ~(j = i /\ y = x) => t[j][y] = sl[j][y]
  <2>1. /\ t[i][x] = [tenure |-> sl[i][x].tenure + 1, entry |-> e]
        /\ \A j \in Inst, y \in Index : ~(j = i /\ y = x) => t[j][y] = sl[j][y]
    BY AddedAt
  <2> HIDE DEF t
  <2>2. QED
    BY <2>1
<1> HIDE DEF t
<1>2. ASSUME NEW c \in Calls, NEW h \in call[c].lenders PROVE ~(h.inst = i /\ h.index = x)
  <2>1. Same(slot, sl, h.inst, h.index)
    BY DEF Holds
  <2>2. slot[h.inst][h.index].entry # None
    BY DEF Linked, CallLinked, SlotOf
  <2>3. QED
    BY <2>1, <2>2 DEF Same
<1>3. \A c \in Calls : \A h \in call[c].lenders : Same(slot, t, h.inst, h.index)
  <2>1. \A c \in Calls : \A h \in call[c].lenders :
          h.inst \in Inst /\ h.index \in Index /\ Same(slot, sl, h.inst, h.index)
    BY LenderTyped DEF Holds
  <2>2. QED
    BY <1>1, <1>2, <2>1 DEF Same
<1>4. \A j \in Inst, y \in Index : t[j][y].entry.scope \in Calls \ {d} => Same(slot, t, j, y)
  <2>1. t[i][x].entry.scope \notin Calls \ {d}
    BY <1>1
  <2>2. \A j \in Inst, y \in Index : sl[j][y].entry.scope \in Calls \ {d} => Same(slot, sl, j, y)
    BY DEF Holds
  <2>3. QED
    BY <1>1, <2>1, <2>2 DEF Same
<1>5. QED
  BY <1>3, <1>4 DEF Holds, t

\* Every call but d keeps what is lent to it, or gives it back, and what its
\* borrows stand for stays lent.
Carried(d, t, cl, ws) ==
  /\ Holds(slot, t, d)
  /\ \A c \in Calls \ {d} :
       /\ cl[c].phase \notin {"failed", "lost"}
       /\ cl[c].views # {} => cl[c].phase = "open"
       /\ cl[c].lenders \subseteq call[c].lenders
       /\ cl[c].lent \subseteq call[c].lent
       /\ cl[c].views \subseteq call[c].views
       /\ ScopeSlots(t, c) # {} \/ cl[c].views # {} =>
            cl[c].lenders = call[c].lenders /\ cl[c].lent = call[c].lent
       /\ \A w \in cl[c].lent :
            /\ wrapper[w].owns /\ (wrapper[w].valid \/ wrapper[w].pending) =>
                 ws[w].valid \/ ws[w].pending
            /\ \A m \in Calls : w \in call[m].views => w \in cl[m].views
  /\ \A w \in Wrappers :
       wrapper[w].rep # 0 => ws[w].rep = wrapper[w].rep /\ (ws[w].owns <=> wrapper[w].owns)

\* A borrow handle of a call is at the same place for the same resource.
LEMMA ScopesHeld ==
  ASSUME NEW d, NEW t, Holds(slot, t, d), NEW c \in Calls, c # d, NEW s \in ScopeSlots(t, c)
  PROVE  s \in ScopeSlots(slot, c) /\ t[s[1]][s[2]].entry.rep = slot[s[1]][s[2]].entry.rep
<1>1. s \in Slots /\ s[1] \in Inst /\ s[2] \in Index /\ t[s[1]][s[2]].entry.scope = c
  BY SlotsAre DEF ScopeSlots
<1>2. Same(slot, t, s[1], s[2])
  BY <1>1 DEF Holds
<1>3. QED
  BY <1>1, <1>2 DEF Same, ScopeSlots

LEMMA LentMade ==
  ASSUME HandleInv, NEW c \in Calls
  PROVE  /\ \A w \in call[c].lent : w \in Wrappers /\ wrapper[w].rep # 0
         /\ \A w \in call[c].views : w \in Wrappers /\ wrapper[w].rep # 0 /\ ~wrapper[w].owns
<1>1. call[c] \in CallType
  BY HandleParts
<1>2. call[c].lent \subseteq Wrappers /\ call[c].views \subseteq Wrappers
  BY <1>1 DEF CallType
<1>3. QED
  BY <1>2, HandleParts DEF RefsSound

LEMMA LinksCarried ==
  ASSUME HandleInv, Linked, NEW d, NEW t, NEW cl, NEW ws, Carried(d, t, cl, ws),
         NEW c \in Calls, c # d
  PROVE  CallLinked(t, cl, ws, c)
<1>1. CallLinked(slot, call, wrapper, c)
  BY DEF Linked
<1>2. Holds(slot, t, d)
  BY DEF Carried
<1>3. /\ cl[c].phase \notin {"failed", "lost"}
      /\ cl[c].views # {} => cl[c].phase = "open"
      /\ cl[c].lenders \subseteq call[c].lenders
      /\ cl[c].lent \subseteq call[c].lent
      /\ cl[c].views \subseteq call[c].views
      /\ ScopeSlots(t, c) # {} \/ cl[c].views # {} =>
           cl[c].lenders = call[c].lenders /\ cl[c].lent = call[c].lent
  BY DEF Carried
<1>4. \A w \in cl[c].lent :
        /\ wrapper[w].owns /\ (wrapper[w].valid \/ wrapper[w].pending) => ws[w].valid \/ ws[w].pending
        /\ \A m \in Calls : w \in call[m].views => w \in cl[m].views
  BY DEF Carried
<1>5. \A w \in Wrappers :
        wrapper[w].rep # 0 => ws[w].rep = wrapper[w].rep /\ (ws[w].owns <=> wrapper[w].owns)
  BY DEF Carried
<1>6. \A h \in call[c].lenders :
        /\ SlotOf(t, h).tenure = SlotOf(slot, h).tenure
        /\ SlotOf(t, h).entry.rep = SlotOf(slot, h).entry.rep
        /\ SlotOf(t, h).entry.scope = SlotOf(slot, h).entry.scope
        /\ SlotOf(t, h).entry = None <=> SlotOf(slot, h).entry = None
  BY <1>2 DEF Holds, Same, SlotOf
<1>7. \A w \in call[c].lent : ws[w].rep = wrapper[w].rep /\ (ws[w].owns <=> wrapper[w].owns)
  BY <1>5, LentMade
<1>8. \A w \in call[c].views : ws[w].rep = wrapper[w].rep
  BY <1>5, LentMade
<1>9. \A h \in cl[c].lenders : /\ SlotOf(t, h).tenure = h.tenure
                               /\ SlotOf(t, h).entry # None
                               /\ SlotOf(t, h).entry.scope < c
  BY <1>1, <1>3, <1>6 DEF CallLinked
<1>10. \A s \in ScopeSlots(t, c) : LinkedTo(t, cl, ws, c, t[s[1]][s[2]].entry.rep)
  <2>1. SUFFICES ASSUME NEW s \in ScopeSlots(t, c)
                 PROVE  LinkedTo(t, cl, ws, c, t[s[1]][s[2]].entry.rep)
    OBVIOUS
  <2>2. s \in ScopeSlots(slot, c) /\ t[s[1]][s[2]].entry.rep = slot[s[1]][s[2]].entry.rep
    BY <1>2, ScopesHeld
  <2>3. LinkedTo(slot, call, wrapper, c, slot[s[1]][s[2]].entry.rep)
    BY <1>1, <2>2 DEF CallLinked
  <2>4. cl[c].lenders = call[c].lenders /\ cl[c].lent = call[c].lent
    BY <1>3
  <2>5. QED
    BY <1>6, <1>7, <2>2, <2>3, <2>4 DEF LinkedTo
<1>11. \A w \in cl[c].views : \E h \in cl[c].lenders : SlotOf(t, h).entry.rep = ws[w].rep
  <2>1. SUFFICES ASSUME NEW w \in cl[c].views
                 PROVE  \E h \in cl[c].lenders : SlotOf(t, h).entry.rep = ws[w].rep
    OBVIOUS
  <2>2. w \in call[c].views /\ cl[c].lenders = call[c].lenders
    BY <1>3
  <2>3. \E h \in call[c].lenders : SlotOf(slot, h).entry.rep = wrapper[w].rep
    BY <1>1, <2>2 DEF CallLinked
  <2>4. QED
    BY <1>6, <1>8, <2>2, <2>3
<1>12. \A w \in cl[c].lent : LentLinked(cl, ws, c, w)
  <2>1. SUFFICES ASSUME NEW w \in cl[c].lent PROVE LentLinked(cl, ws, c, w)
    OBVIOUS
  <2>2. w \in call[c].lent /\ LentLinked(call, wrapper, c, w)
    BY <1>1, <1>3 DEF CallLinked
  <2>3. QED
    BY <1>4, <1>7, <2>2 DEF LentLinked
<1>13. QED
  BY <1>3, <1>9, <1>10, <1>11, <1>12 DEF CallLinked

\* No wrapper that the host does not own appears.
LEMMA ViewedKept ==
  ASSUME Linked, \A c \in Calls : call'[c].views = call[c].views,
         \A w \in Wrappers : wrapper'[w].valid /\ ~wrapper'[w].owns => wrapper[w].valid /\ ~wrapper[w].owns
  PROVE  Viewed(call', wrapper')
BY DEF Linked, Viewed

\* The counts of borrows stay.
LEMMA BorrowsKept ==
  ASSUME Linked,
         \A c \in Calls : call'[c].borrows = call[c].borrows,
         \A c \in Calls : ScopeSlots(slot', c) = ScopeSlots(slot, c)
  PROVE  BorrowsExact(slot', call')
BY DEF Linked, BorrowsExact

\* The calls made are those before a fresh one.
LEMMA MadeBefore ==
  ASSUME HandleInv, NEW d \in Calls, Fresh(d), NEW e \in Calls, call[e].phase # "free"
  PROVE  e < d
<1>1. call[d].phase = "free"
  BY DEF Fresh
<1>2. ~(d < e) /\ e # d
  BY <1>1, HandleParts DEF CallsSound
<1>3. QED
  BY <1>2, BoundsAssumption DEF Calls

\* A handle is of a scope that was opened before a fresh call.
LEMMA ScopeBefore ==
  ASSUME HandleInv, NEW d \in Calls, Fresh(d), NEW i \in Inst, NEW x \in Index
  PROVE  slot[i][x].entry.scope < d
<1>1. slot[i][x].entry.scope \in {0} \cup Calls
  BY HandleParts DEF TableType, SlotType, HandleType
<1>2. CASE slot[i][x].entry.scope = 0
  BY <1>2, BoundsAssumption DEF Calls
<1>3. CASE slot[i][x].entry.scope \in Calls
  <2> DEFINE e == slot[i][x].entry.scope
  <2>1. <<i, x>> \in ScopeSlots(slot, e)
    BY SlotsAre DEF ScopeSlots
  <2>2. call[e].phase \in {"open", "failed", "lost"}
    BY <1>3, <2>1, HandleParts DEF ScopesSound
  <2>3. QED
    BY <1>3, <2>2, MadeBefore
<1>4. QED
  BY <1>1, <1>2, <1>3

LEMMA LinkedNext ==
  ASSUME HandleInv, Linked, Carried(0, slot', call', wrapper'),
         Viewed(call', wrapper'), BorrowsExact(slot', call')
  PROVE  Linked'
<1>1. ASSUME NEW c \in Calls PROVE CallLinked(slot', call', wrapper', c)
  <2>1. c # 0
    BY BoundsAssumption DEF Calls
  <2>2. QED
    BY <2>1, LinksCarried
<1>2. QED
  BY <1>1 DEF Linked

LEMMA LentCounted ==
  ASSUME HandleInv, NEW c \in Calls, NEW w \in call[c].lent
  PROVE  w \in Wrappers /\ wrapper[w].lends # 0
<1>1. w \in Wrappers
  BY LentMade
<1>2. wrapper[w].lends = Cardinality({e \in Calls : w \in call[e].lent})
  BY <1>1, HandleParts DEF WrapperLends
<1>3. {e \in Calls : w \in call[e].lent} # {} /\ IsFiniteSet({e \in Calls : w \in call[e].lent})
  BY CallsFinite
<1>4. QED
  BY <1>1, <1>2, <1>3, FS_EmptySet

\* Nothing that was lent is given back.
Keeps(cl, ws) ==
  /\ \A c \in Calls :
       /\ cl[c].lenders = call[c].lenders /\ cl[c].lent = call[c].lent
       /\ cl[c].views = call[c].views
       /\ \/ cl[c].phase = call[c].phase
          \/ cl[c].phase \in {"resolved", "done"} /\ call[c].views = {}
  /\ \A w \in Wrappers :
       /\ ws[w].rep = wrapper[w].rep /\ (ws[w].owns <=> wrapper[w].owns)
       /\ wrapper[w].lends # 0 /\ wrapper[w].owns /\ (wrapper[w].valid \/ wrapper[w].pending) =>
            ws[w].valid \/ ws[w].pending

LEMMA KeepsCarried ==
  ASSUME HandleInv, Linked, NEW t, Holds(slot, t, 0), NEW cl, NEW ws, Keeps(cl, ws)
  PROVE  Carried(0, t, cl, ws)
<1>1. ASSUME NEW c \in Calls
      PROVE  /\ cl[c].phase \notin {"failed", "lost"}
             /\ cl[c].views # {} => cl[c].phase = "open"
             /\ cl[c].lenders = call[c].lenders
             /\ cl[c].lent = call[c].lent
             /\ cl[c].views = call[c].views
             /\ \A w \in cl[c].lent :
                  /\ wrapper[w].owns /\ (wrapper[w].valid \/ wrapper[w].pending) =>
                       ws[w].valid \/ ws[w].pending
                  /\ \A m \in Calls : w \in call[m].views => w \in cl[m].views
  <2>1. /\ cl[c].lenders = call[c].lenders /\ cl[c].lent = call[c].lent
        /\ cl[c].views = call[c].views
        /\ \/ cl[c].phase = call[c].phase
           \/ cl[c].phase \in {"resolved", "done"} /\ call[c].views = {}
    BY DEF Keeps
  <2>2. call[c].phase \notin {"failed", "lost"} /\ (call[c].views # {} => call[c].phase = "open")
    BY DEF Linked, CallLinked
  <2>3. \A w \in cl[c].lent :
          /\ wrapper[w].owns /\ (wrapper[w].valid \/ wrapper[w].pending) =>
               ws[w].valid \/ ws[w].pending
    BY <2>1, LentCounted DEF Keeps
  <2>4. \A m \in Calls : cl[m].views = call[m].views
    BY DEF Keeps
  <2>5. QED
    BY <2>1, <2>2, <2>3, <2>4
<1>2. \A w \in Wrappers :
       wrapper[w].rep # 0 => ws[w].rep = wrapper[w].rep /\ (ws[w].owns <=> wrapper[w].owns)
  BY DEF Keeps
<1>3. QED
  BY <1>1, <1>2 DEF Carried

LEMMA AsyncParksLinked ==
  ASSUME HandleInv, Linked, NEW d \in Calls, AsyncParks(d)
  PROVE  Linked'
<1>1. slot' = slot /\ wrapper' = wrapper /\ call' = [call EXCEPT ![d].stack = {d}]
  BY DEF AsyncParks
<1>2. \A c \in Calls :
        /\ call'[c].lenders = call[c].lenders /\ call'[c].lent = call[c].lent
        /\ call'[c].views = call[c].views /\ call'[c].phase = call[c].phase
        /\ call'[c].borrows = call[c].borrows
  <2>1. call \in [Calls -> CallType]
    BY HandleParts
  <2>2. QED
    BY <1>1, <2>1 DEF CallType
<1>3. Keeps(call', wrapper')
  BY <1>1, <1>2 DEF Keeps
<1>4. Carried(0, slot', call', wrapper')
  BY <1>1, <1>3, HoldsSelf, KeepsCarried
<1>5. Viewed(call', wrapper')
  BY <1>1, <1>2, ViewedKept
<1>6. BorrowsExact(slot', call')
  <2>1. \A c \in Calls : ScopeSlots(slot', c) = ScopeSlots(slot, c)
    BY <1>1
  <2>2. QED
    BY <1>2, <2>1, BorrowsKept
<1>7. QED
  BY <1>4, <1>5, <1>6, LinkedNext

LEMMA ResourceNewLinked ==
  ASSUME HandleInv, Linked, NEW c \in Calls, NEW x \in Index, ResourceNew(c, x)
  PROVE  Linked'
<1> DEFINE e == Own(born + 1)
<1>1. /\ slot' = Added(slot, Impl, x, e) /\ wrapper' = wrapper /\ call' = call
      /\ slot[Impl][x].entry = None /\ born + 1 \in Reps
  BY HandleParts, BoundsAssumption DEF ResourceNew, Empty, Reps
<1>2. e \in HandleType /\ EntrySound(e) /\ e # None /\ e.lends = 0 /\ e.scope = 0
  BY <1>1, EntryTyped
<1> HIDE DEF e
<1>3. 0 \notin Calls
  BY BoundsAssumption DEF Calls
<1>4. Holds(slot, slot', 0)
  BY <1>1, <1>2, <1>3, HoldsSelf, HoldsAdded, HandleParts, ImplAssumption
<1>5. \A d \in Calls : ScopeSlots(slot', d) = ScopeSlots(slot, d)
  BY <1>1, <1>2, <1>3, AddedSays, HandleParts, ImplAssumption
<1>6. Keeps(call', wrapper')
  BY <1>1 DEF Keeps
<1>7. Carried(0, slot', call', wrapper')
  BY <1>4, <1>6, KeepsCarried
<1>8. Viewed(call', wrapper')
  BY <1>1, ViewedKept
<1>9. BorrowsExact(slot', call')
  BY <1>1, <1>5, BorrowsKept
<1>10. QED
  BY <1>7, <1>8, <1>9, LinkedNext

LEMMA ResourceDropLinked ==
  ASSUME HandleInv, Linked, NEW c \in Calls, NEW x \in Index, ResourceDrop(c, x)
  PROVE  Linked'
<1> DEFINE i == call[c].callee
           h == slot[i][x].entry
<1>1. /\ h # None /\ h.lends = 0 /\ slot' = Removed(slot, i, x) /\ wrapper' = wrapper
      /\ call' = IF h.own THEN call ELSE [call EXCEPT ![h.scope].borrows = call[h.scope].borrows - 1]
  BY DEF ResourceDrop, Entry, Droppable
<1>2. i \in Inst /\ h \in HandleType /\ EntrySound(h)
  BY RunningSays, HandleParts DEF ResourceDrop, TableSound, TableType, SlotType
<1>3. Holds(slot, slot', 0)
  BY <1>1, <1>2, HoldsRemoved
<1>4. \A d \in Calls : ScopeSlots(slot', d) = ScopeSlots(slot, d) \ {<<i, x>>}
  <2>1. TableSound(slot) /\ call \in [Calls -> CallType] /\ LendsCounted(slot, call)
    BY HandleParts
  <2>2. \A d \in Calls : ScopeSlots(Removed(slot, i, x), d) = ScopeSlots(slot, d) \ {<<i, x>>}
    BY <1>2, <2>1, RemovedSays
  <2>3. QED
    BY <1>1, <2>2
<1>5. \A d \in Calls :
        /\ call'[d].lenders = call[d].lenders /\ call'[d].lent = call[d].lent
        /\ call'[d].views = call[d].views /\ call'[d].phase = call[d].phase
        /\ call'[d].borrows = IF ~h.own /\ d = h.scope THEN call[d].borrows - 1 ELSE call[d].borrows
  <2>1. call \in [Calls -> CallType]
    BY HandleParts
  <2> HIDE DEF h
  <2>2. QED
    BY <1>1, <2>1 DEF CallType
<1>6. Carried(0, slot', call', wrapper')
  <2>1. Keeps(call', wrapper')
    BY <1>1, <1>5 DEF Keeps
  <2>2. QED
    BY <1>3, <2>1, KeepsCarried
<1>7. Viewed(call', wrapper')
  BY <1>1, <1>5, ViewedKept
<1>8. BorrowsExact(slot', call')
  <2>1. SUFFICES ASSUME NEW d \in Calls
                 PROVE  call'[d].borrows = Cardinality(ScopeSlots(slot', d))
    BY DEF BorrowsExact
  <2>2. call[d].borrows = Cardinality(ScopeSlots(slot, d))
    BY DEF Linked, BorrowsExact
  <2>3. <<i, x>> \in ScopeSlots(slot, d) <=> h.scope = d
    BY <1>2, SlotsAre DEF ScopeSlots
  <2>4. CASE h.scope = d
    <3>1. ~h.own
      BY <1>1, <1>2, <2>4, BoundsAssumption DEF EntrySound, Calls
    <3>2. Cardinality(ScopeSlots(slot', d)) = Cardinality(ScopeSlots(slot, d)) - 1
      BY <1>4, <2>3, <2>4, ScopesFinite, FS_RemoveElement
    <3>3. QED
      BY <1>5, <2>2, <2>4, <3>1, <3>2
  <2>5. CASE h.scope # d
    <3>1. ScopeSlots(slot', d) = ScopeSlots(slot, d)
      BY <1>4, <2>3, <2>5
    <3>2. QED
      BY <1>5, <2>2, <2>5, <3>1
  <2>6. QED
    BY <2>4, <2>5
<1>9. QED
  BY <1>6, <1>7, <1>8, LinkedNext

\* A result is not lent: it leaves its table without a borrow.
LEMMA LiftedHolds ==
  ASSUME HandleInv, Linked, NEW i \in Inst, NEW x \in {0} \cup Index,
         x \in Results(i), ~BadResult(i, x)
  PROVE  Holds(slot, Lifted(i, x), 0)
<1>1. CASE x = 0
  BY <1>1, HoldsSelf DEF Lifted
<1>2. CASE x # 0
  <2>1. x \in Index /\ slot[i][x].entry # None /\ slot[i][x].entry.lends = 0
    BY <1>2 DEF Results, BadResult, Liftable, Entry
  <2>2. Lifted(i, x) = Removed(slot, i, x)
    BY <1>2 DEF Lifted
  <2>3. QED
    BY <2>1, <2>2, HoldsRemoved
<1>3. QED
  BY <1>1, <1>2

LEMMA ExportReturnsLinked ==
  ASSUME HandleInv, Linked, NEW d \in Calls, NEW x \in {0} \cup Index, ExportReturns(d, x)
  PROVE  Linked'
<1> DEFINE i == call[d].callee
<1>1. /\ x \in Results(i) /\ ~BadResult(i, x) /\ slot' = Lifted(i, x) /\ wrapper' = wrapper
      /\ call' = [call EXCEPT ![d].phase = "resolved", ![d].result = RepAt(i, x)]
      /\ Running(d)
  BY DEF ExportReturns
<1>2. i \in Inst /\ call[d].views = {}
  BY <1>1, RunningSays
<1>3. \A c \in Calls :
        /\ call'[c].lenders = call[c].lenders /\ call'[c].lent = call[c].lent
        /\ call'[c].views = call[c].views /\ call'[c].borrows = call[c].borrows
        /\ call'[c].phase = IF c = d THEN "resolved" ELSE call[c].phase
  <2>1. call \in [Calls -> CallType]
    BY HandleParts
  <2>2. QED
    BY <1>1, <2>1 DEF CallType
<1>4. Holds(slot, slot', 0) /\ \A c \in Calls : ScopeSlots(slot', c) = ScopeSlots(slot, c)
  BY <1>1, <1>2, LiftedHolds, LiftedSays
<1>5. Keeps(call', wrapper')
  BY <1>1, <1>2, <1>3 DEF Keeps
<1>6. Carried(0, slot', call', wrapper')
  BY <1>4, <1>5, KeepsCarried
<1>7. Viewed(call', wrapper')
  BY <1>1, <1>3, ViewedKept
<1>8. BorrowsExact(slot', call')
  BY <1>3, <1>4, BorrowsKept
<1>9. QED
  BY <1>6, <1>7, <1>8, LinkedNext

\* One wrapper loses its validity; if it is lent and owns, its drop waits.
LEMMA WrapperEndsLinked ==
  ASSUME HandleInv, Linked, NEW w \in Wrappers, NEW ws,
         slot' = slot, call' = call, wrapper' = ws,
         ws = [wrapper EXCEPT ![w].valid = FALSE] \/ ws = Dropped(w),
         wrapper[w].lends # 0 => ws = Dropped(w)
  PROVE  Linked'
<1>1. wrapper \in [Wrappers -> WrapperType]
  BY HandleParts
<1>2. \A v \in Wrappers :
        /\ ws[v].rep = wrapper[v].rep /\ (ws[v].owns <=> wrapper[v].owns)
        /\ ws[v].valid => wrapper[v].valid
        /\ v # w => ws[v] = wrapper[v]
  BY <1>1 DEF WrapperType, Dropped
<1>3. wrapper[w].lends # 0 /\ wrapper[w].owns => ws[w].pending
  <2>1. wrapper[w].lends \in Nat
    BY <1>1 DEF WrapperType
  <2>2. ASSUME ws = Dropped(w) PROVE ws[w].pending <=> wrapper[w].owns /\ wrapper[w].lends > 0
    BY <1>1, <2>2 DEF WrapperType, Dropped
  <2>3. QED
    BY <2>1, <2>2
<1>4. Keeps(call', wrapper')
  BY <1>2, <1>3 DEF Keeps
<1>5. Carried(0, slot', call', wrapper')
  BY <1>4, HoldsSelf, KeepsCarried
<1>6. Viewed(call', wrapper') /\ BorrowsExact(slot', call')
  BY <1>2, ViewedKept, BorrowsKept
<1>7. QED
  BY <1>5, <1>6, LinkedNext

LEMMA HostCallRefusedLinked ==
  ASSUME HandleInv, Linked, NEW w \in Wrappers, NEW v \in Wrappers, HostCallRefused(w, v)
  PROVE  Linked'
BY WrapperEndsLinked DEF HostCallRefused, Transferable

LEMMA HostDropsLinked ==
  ASSUME HandleInv, Linked, NEW w \in Wrappers, HostDrops(w)
  PROVE  Linked'
BY WrapperEndsLinked DEF HostDrops

\* The lends to a call that has no borrow left are given back.
GivesBack(d, D, p, t, cl) ==
  /\ d \in Calls /\ D \subseteq {d} /\ p \in {"resolved", "done"}
  /\ call[d].kind \in {"sync", "async", "import"} /\ call[d].views = {}
  /\ ScopeSlots(slot, d) = {}
  /\ cl = [call EXCEPT ![d].phase = p, ![d].lenders = IF d \in D THEN {} ELSE call[d].lenders]
  /\ Holds(slot, t, 0)
  /\ \A c \in Calls : ScopeSlots(t, c) = ScopeSlots(slot, c)

LEMMA GivesBackLinked ==
  ASSUME HandleInv, Linked, NEW d, NEW D, NEW p, GivesBack(d, D, p, slot', call'),
         wrapper' = wrapper
  PROVE  Linked'
<1>1. /\ d \in Calls /\ D \subseteq {d} /\ p \in {"resolved", "done"}
      /\ call[d].kind \in {"sync", "async", "import"} /\ call[d].views = {}
      /\ ScopeSlots(slot, d) = {}
      /\ call' = [call EXCEPT ![d].phase = p, ![d].lenders = IF d \in D THEN {} ELSE call[d].lenders]
      /\ Holds(slot, slot', 0)
      /\ \A c \in Calls : ScopeSlots(slot', c) = ScopeSlots(slot, c)
  BY DEF GivesBack
<1>2. \A c \in Calls :
        /\ call'[c].lenders \subseteq call[c].lenders /\ call'[c].lent = call[c].lent
        /\ c # d => call'[c].lenders = call[c].lenders
        /\ call'[c].views = call[c].views /\ call'[c].borrows = call[c].borrows
        /\ call'[c].phase = IF c = d THEN p ELSE call[c].phase
  <2>1. call \in [Calls -> CallType]
    BY HandleParts
  <2>2. QED
    BY <1>1, <2>1 DEF CallType
<1>3. ASSUME NEW c \in Calls
      PROVE  /\ call'[c].phase \notin {"failed", "lost"}
             /\ call'[c].views # {} => call'[c].phase = "open"
             /\ call'[c].lenders \subseteq call[c].lenders
             /\ call'[c].lent = call[c].lent
             /\ call'[c].views = call[c].views
             /\ ScopeSlots(slot', c) # {} \/ call'[c].views # {} =>
                  call'[c].lenders = call[c].lenders
  <2>1. call[c].phase \notin {"failed", "lost"} /\ (call[c].views # {} => call[c].phase = "open")
    BY DEF Linked, CallLinked
  <2>2. CASE c = d
    BY <1>1, <1>2, <2>2
  <2>3. CASE c # d
    BY <1>2, <2>1, <2>3
  <2>4. QED
    BY <2>2, <2>3
<1>4. Carried(0, slot', call', wrapper')
  <2>1. \A m \in Calls : call'[m].views = call[m].views
    BY <1>3
  <2>2. QED
    BY <1>1, <1>3, <2>1 DEF Carried
<1>5. Viewed(call', wrapper')
  BY <1>3, ViewedKept
<1>6. BorrowsExact(slot', call')
  <2>1. \A c \in Calls : call'[c].borrows = call[c].borrows
    BY <1>2
  <2>2. \A c \in Calls : ScopeSlots(slot', c) = ScopeSlots(slot, c)
    BY <1>1
  <2>3. QED
    BY <2>1, <2>2, BorrowsKept
<1>7. QED
  BY <1>4, <1>5, <1>6, LinkedNext

\* A call that is over or has no borrow counted has no borrow handle.
LEMMA NoScope ==
  ASSUME HandleInv, NEW d \in Calls,
         call[d].borrows = 0 \/ call[d].phase \notin {"open", "failed", "lost"}
  PROVE  ScopeSlots(slot, d) = {}
<1>1. /\ call[d].borrows >= Cardinality(ScopeSlots(slot, d))
      /\ ScopeSlots(slot, d) # {} => call[d].phase \in {"open", "failed", "lost"}
  BY HandleParts DEF ScopesSound
<1>2. CASE call[d].borrows = 0
  <2>1. Cardinality(ScopeSlots(slot, d)) = 0 /\ IsFiniteSet(ScopeSlots(slot, d))
    BY <1>1, <1>2, ScopesFinite
  <2>2. QED
    BY <2>1, FS_EmptySet
<1>3. QED
  BY <1>1, <1>2

\* A release changes the counts of lends and nothing else.
LEMMA ReleasedHolds ==
  ASSUME HandleInv, NEW sl, TableSound(sl), LendsCounted(sl, call), NEW D \in SUBSET Calls,
         \A i \in Inst, x \in Index : sl[i][x].tenure = slot[i][x].tenure, NEW d
  PROVE  /\ TableSound(Released(sl, D)) /\ Holds(sl, Released(sl, D), d)
         /\ \A c \in Calls : ScopeSlots(Released(sl, D), c) = ScopeSlots(sl, c)
         /\ \A i \in Inst, x \in Index :
              Released(sl, D)[i][x].entry = None <=> sl[i][x].entry = None
<1> DEFINE cl == [c \in Calls |-> IF c \in D THEN [call[c] EXCEPT !.lenders = {}] ELSE call[c]]
<1>1. cl \in [Calls -> CallType] /\ \A c \in Calls : cl[c].lenders = IF c \in D THEN {} ELSE call[c].lenders
  <2>1. \A c \in Calls : call[c] \in CallType
    BY HandleParts
  <2>2. QED
    BY <2>1 DEF CallType
<1> HIDE DEF cl
<1>2. /\ TableSound(Released(sl, D)) /\ Alike(sl, Released(sl, D))
      /\ \A i \in Inst, x \in Index :
           Released(sl, D)[i][x].entry = None <=> sl[i][x].entry = None
  BY <1>1, ReleasedSays, HandleParts
<1>3. QED
  BY <1>2, AlikeSays, HoldsAlike

\* A handle made is a borrow of its scope and of no other.
LEMMA AddedElsewhere ==
  ASSUME NEW t \in TableType, NEW i \in Inst, NEW x \in Index, t[i][x].entry = None,
         NEW e \in HandleType
  PROVE  /\ \A c \in Calls : e.scope # c => ScopeSlots(Added(t, i, x, e), c) = ScopeSlots(t, c)
         /\ e.scope \in Calls =>
              ScopeSlots(Added(t, i, x, e), e.scope) = ScopeSlots(t, e.scope) \cup {<<i, x>>}
<1> DEFINE u == Added(t, i, x, e)
<1>1. /\ u[i][x].entry = e
      /\ \A j \in Inst, y \in Index : ~(j = i /\ y = x) => u[j][y] = t[j][y]
  <2>1. /\ u[i][x] = [tenure |-> t[i][x].tenure + 1, entry |-> e]
        /\ \A j \in Inst, y \in Index : ~(j = i /\ y = x) => u[j][y] = t[j][y]
    BY AddedAt
  <2> HIDE DEF u
  <2>2. QED
    BY <2>1
<1> HIDE DEF u
<1>2. \A c \in Calls : t[i][x].entry.scope # c
  BY EntryTyped, BoundsAssumption DEF Calls
<1>3. \A s \in Slots : s = <<i, x>> \/ u[s[1]][s[2]] = t[s[1]][s[2]]
  BY <1>1, SlotsAre
<1>4. /\ <<i, x>> \in Slots
      /\ u[<<i, x>>[1]][<<i, x>>[2]].entry = e
      /\ \A c \in Calls : t[<<i, x>>[1]][<<i, x>>[2]].entry.scope # c
  BY <1>1, <1>2, SlotsAre
<1>5. \A c \in Calls : e.scope # c => ScopeSlots(u, c) = ScopeSlots(t, c)
  BY <1>3, <1>4 DEF ScopeSlots
<1>6. e.scope \in Calls => ScopeSlots(u, e.scope) = ScopeSlots(t, e.scope) \cup {<<i, x>>}
  BY <1>3, <1>4 DEF ScopeSlots
<1>7. QED
  BY <1>5, <1>6 DEF u

LEMMA DeliverLinked ==
  ASSUME HandleInv, Linked, NEW d \in Calls, Deliver(d)
  PROVE  Linked'
<1>1. /\ call[d].kind \in {"async", "import"} /\ call[d].phase = "resolved" /\ wrapper' = wrapper
      /\ slot' = Released(slot, {d})
      /\ call' = [call EXCEPT ![d].phase = "done",
                              ![d].lenders = IF d \in {d} THEN {} ELSE call[d].lenders]
  BY DEF Deliver
<1>2. call[d].views = {}
  BY <1>1 DEF Linked, CallLinked
<1>3. ScopeSlots(slot, d) = {}
  BY <1>1, NoScope
<1>4. Holds(slot, slot', 0) /\ \A c \in Calls : ScopeSlots(slot', c) = ScopeSlots(slot, c)
  <2>1. TableSound(slot) /\ LendsCounted(slot, call) /\ {d} \in SUBSET Calls
    BY HandleParts
  <2>2. QED
    BY <1>1, <2>1, ReleasedHolds
<1>5. GivesBack(d, {d}, "done", slot', call')
  BY <1>1, <1>2, <1>3, <1>4 DEF GivesBack
<1>6. QED
  BY <1>1, <1>5, GivesBackLinked

LEMMA GuestReturnsLinked ==
  ASSUME HandleInv, Linked, NEW d \in Calls, NEW x \in {0} \cup Index, NEW y \in Index,
         NEW D \in SUBSET {d}, NEW p \in {"done", "resolved"}, GuestReturns(d, x, y, D, p)
  PROVE  Linked'
<1> DEFINE i == call[d].callee
           j == call[d].caller
           sl == Lifted(i, x)
           t == Released(sl, D)
           e == Own(RepAt(i, x))
<1>1. /\ Running(d) /\ call[d].kind \in {"sync", "async"}
      /\ x \in Results(i) /\ ~BadResult(i, x) /\ call[d].borrows = 0
      /\ \/ x = 0 /\ slot' = t
         \/ x # 0 /\ slot[j][y].entry = None /\ slot' = Added(t, j, y, e)
      /\ call' = [call EXCEPT ![d].phase = p, ![d].lenders = IF d \in D THEN {} ELSE call[d].lenders]
      /\ wrapper' = wrapper
  BY DEF GuestReturns, MayReturn, Empty
<1>2. i \in Inst /\ j \in Inst /\ call[d].views = {}
  BY <1>1, RunningSays, HandleParts DEF KindSound
<1>3. ScopeSlots(slot, d) = {}
  BY <1>1, NoScope
<1>4. /\ TableSound(sl) /\ LendsCounted(sl, call) /\ Holds(slot, sl, 0)
      /\ \A k \in Inst, z \in Index : /\ sl[k][z].tenure = slot[k][z].tenure
                                      /\ slot[k][z].entry = None => sl[k][z].entry = None
      /\ \A c \in Calls : ScopeSlots(sl, c) = ScopeSlots(slot, c)
      /\ x # 0 => RepAt(i, x) \in Reps
  BY <1>1, <1>2, LiftedHolds, LiftedSays
<1> HIDE DEF i, j, sl, t, e
<1>5. /\ TableSound(t) /\ Holds(slot, t, 0)
      /\ \A c \in Calls : ScopeSlots(t, c) = ScopeSlots(slot, c)
      /\ slot[j][y].entry = None => t[j][y].entry = None
  <2>1. D \in SUBSET Calls
    OBVIOUS
  <2>2. /\ TableSound(t) /\ Holds(sl, t, 0)
        /\ \A c \in Calls : ScopeSlots(t, c) = ScopeSlots(sl, c)
        /\ \A k \in Inst, z \in Index : t[k][z].entry = None <=> sl[k][z].entry = None
    BY ZenonT(60), <1>4, <2>1, ReleasedHolds DEF t
  <2>3. QED
    BY <1>2, <1>4, <2>2, HoldsOn
<1>6. Holds(slot, slot', 0) /\ \A c \in Calls : ScopeSlots(slot', c) = ScopeSlots(slot, c)
  <2>1. CASE x = 0
    BY <1>1, <1>5, <2>1
  <2>2. CASE x # 0
    <3>1. e \in HandleType /\ EntrySound(e) /\ e # None /\ e.lends = 0 /\ e.scope = 0
      BY <1>4, <2>2, EntryTyped DEF e
    <3>2. 0 \notin Calls
      BY BoundsAssumption DEF Calls
    <3>3. slot' = Added(t, j, y, e) /\ t[j][y].entry = None /\ t \in TableType
      BY <1>1, <1>5, <2>2 DEF TableSound
    <3>4. Holds(slot, Added(t, j, y, e), 0)
      BY <1>2, <1>5, <3>1, <3>2, <3>3, HoldsAdded
    <3>5. \A c \in Calls : ScopeSlots(Added(t, j, y, e), c) = ScopeSlots(t, c)
      BY <1>2, <3>1, <3>2, <3>3, AddedElsewhere
    <3>6. QED
      BY <1>5, <3>1, <3>2, <3>3, <3>4, <3>5
  <2>3. QED
    BY <2>1, <2>2
<1>7. GivesBack(d, D, p, slot', call')
  BY <1>1, <1>2, <1>3, <1>6 DEF GivesBack
<1>8. QED
  BY <1>1, <1>7, GivesBackLinked

\* Wrappers keep what they stand for when an export settles.
LEMMA TailAt ==
  ASSUME HandleInv, NEW d, NEW made, \A v \in made : wrapper[v] = Unmade, NEW v \in Wrappers
  PROVE  /\ v \notin made =>
              /\ TailOf(d, made)[v].rep = wrapper[v].rep
              /\ TailOf(d, made)[v].owns <=> wrapper[v].owns
              /\ TailOf(d, made)[v].valid <=> wrapper[v].valid
              /\ wrapper[v].pending /\ ~(v \in call[d].lent /\ RunsDeferred(v, d)) =>
                   TailOf(d, made)[v].pending
         /\ v \in made => wrapper[v].rep = 0 /\ TailOf(d, made)[v].owns
<1>1. wrapper[v] \in WrapperType
  BY HandleParts
<1>2. CASE v \in made
  <2>1. TailOf(d, made)[v] = Wrapper(call[d].result, TRUE)
    BY <1>2 DEF TailOf
  <2>2. wrapper[v].rep = 0 /\ TailOf(d, made)[v].owns
    BY ZenonT(60), <1>2, <2>1, UnmadeIs
  <2>3. QED
    BY <1>2, <2>2
<1>3. CASE v \notin made /\ v \notin call[d].lent
  <2>1. TailOf(d, made)[v] = wrapper[v]
    BY <1>3 DEF TailOf
  <2>2. QED
    BY <1>3, <2>1
<1>4. CASE v \notin made /\ v \in call[d].lent
  <2>1. TailOf(d, made)[v] = [wrapper[v] EXCEPT !.lends = LendsAfter(v, d),
                                !.pending = wrapper[v].pending /\ ~RunsDeferred(v, d)]
    BY <1>4 DEF TailOf
  <2>2. /\ TailOf(d, made)[v].rep = wrapper[v].rep
        /\ TailOf(d, made)[v].owns <=> wrapper[v].owns
        /\ TailOf(d, made)[v].valid <=> wrapper[v].valid
        /\ TailOf(d, made)[v].pending <=> wrapper[v].pending /\ ~RunsDeferred(v, d)
    BY <1>1, <2>1 DEF WrapperType
  <2>3. QED
    BY <1>4, <2>2
<1>5. QED
  BY <1>2, <1>3, <1>4

LEMMA HostTailLinked ==
  ASSUME HandleInv, Linked, NEW d \in Calls, HostTail(d)
  PROVE  Linked'
<1>1. /\ call[d].phase \in {"resolved", "failed"} /\ call[d].kind = "export" /\ slot' = slot
      /\ call' = [call EXCEPT ![d].phase = IF call[d].phase = "failed" THEN "lost" ELSE "done",
                              ![d].lent = {}, ![d].result = 0]
  BY DEF HostTail
<1>2. call[d].phase = "resolved" /\ call[d].views = {} /\ ScopeSlots(slot, d) = {}
  BY <1>1, NoScope DEF Linked, CallLinked
<1>3. PICK made \in SUBSET Wrappers : /\ \A v \in made : wrapper[v] = Unmade
                                      /\ wrapper' = TailOf(d, made)
  BY HostTailMakes
<1>4. \A c \in Calls :
        /\ call'[c].lenders = call[c].lenders /\ call'[c].views = call[c].views
        /\ call'[c].borrows = call[c].borrows
        /\ call'[c].lent = IF c = d THEN {} ELSE call[c].lent
        /\ call'[c].phase = IF c = d THEN "done" ELSE call[c].phase
  <2>1. call \in [Calls -> CallType]
    BY HandleParts
  <2>2. QED
    BY <1>1, <1>2, <2>1 DEF CallType
<1>5. ASSUME NEW c \in Calls, c # d, NEW w \in call[c].lent
      PROVE  wrapper[w].owns /\ (wrapper[w].valid \/ wrapper[w].pending) =>
               wrapper'[w].valid \/ wrapper'[w].pending
  <2>1. w \in Wrappers /\ w \notin made
    BY <1>3, LentMade, UnmadeIs
  <2>2. ~(w \in call[d].lent /\ RunsDeferred(w, d))
    <3>1. SUFFICES ASSUME w \in call[d].lent PROVE LendsAfter(w, d) # 0
      BY DEF RunsDeferred
    <3>2. LendsAfter(w, d) = Cardinality({e \in Calls : w \in call[e].lent} \ {d})
      BY <2>1, <3>1, OneLess
    <3>3. c \in {e \in Calls : w \in call[e].lent} \ {d}
      BY <1>5
    <3>4. IsFiniteSet({e \in Calls : w \in call[e].lent} \ {d})
      BY CallsFinite
    <3>5. QED
      BY <3>2, <3>3, <3>4, FS_EmptySet
  <2>3. /\ TailOf(d, made)[w].valid <=> wrapper[w].valid
        /\ wrapper[w].pending /\ ~(w \in call[d].lent /\ RunsDeferred(w, d)) =>
             TailOf(d, made)[w].pending
    BY <1>3, <2>1, TailAt
  <2>4. QED
    BY <1>3, <2>2, <2>3
<1>6. ASSUME NEW c \in Calls
      PROVE  /\ call'[c].phase \notin {"failed", "lost"}
             /\ call'[c].views # {} => call'[c].phase = "open"
             /\ call'[c].lenders \subseteq call[c].lenders
             /\ call'[c].lent \subseteq call[c].lent
             /\ call'[c].views \subseteq call[c].views
             /\ ScopeSlots(slot', c) # {} \/ call'[c].views # {} =>
                  call'[c].lenders = call[c].lenders /\ call'[c].lent = call[c].lent
             /\ \A w \in call'[c].lent :
                  /\ wrapper[w].owns /\ (wrapper[w].valid \/ wrapper[w].pending) =>
                       wrapper'[w].valid \/ wrapper'[w].pending
                  /\ \A m \in Calls : w \in call[m].views => w \in call'[m].views
  <2>1. call[c].phase \notin {"failed", "lost"} /\ (call[c].views # {} => call[c].phase = "open")
    BY DEF Linked, CallLinked
  <2>2. CASE c = d
    <3>1. /\ call'[c].lenders = call[c].lenders /\ call'[c].views = {}
          /\ call'[c].lent = {} /\ call'[c].phase = "done"
      BY <1>2, <1>4, <2>2
    <3>2. ScopeSlots(slot', c) = {}
      BY <1>1, <1>2, <2>2
    <3>3. QED
      BY <3>1, <3>2
  <2>3. CASE c # d
    BY <1>4, <1>5, <2>1, <2>3
  <2>4. QED
    BY <2>2, <2>3
<1>7. \A w \in Wrappers : wrapper[w].rep # 0 =>
        wrapper'[w].rep = wrapper[w].rep /\ (wrapper'[w].owns <=> wrapper[w].owns)
  BY <1>3, TailAt
<1>8. Carried(0, slot', call', wrapper')
  BY <1>1, <1>6, <1>7, HoldsSelf DEF Carried
<1>9. Viewed(call', wrapper')
  <2>1. \A w \in Wrappers : wrapper'[w].valid /\ ~wrapper'[w].owns => wrapper[w].valid /\ ~wrapper[w].owns
    BY <1>3, TailAt
  <2>2. QED
    BY <1>4, <2>1, ViewedKept
<1>10. BorrowsExact(slot', call')
  <2>1. \A c \in Calls : call'[c].borrows = call[c].borrows
    BY <1>4
  <2>2. \A c \in Calls : ScopeSlots(slot', c) = ScopeSlots(slot, c)
    BY <1>1
  <2>3. QED
    BY <2>1, <2>2, BorrowsKept
<1>11. QED
  BY <1>8, <1>9, <1>10, LinkedNext

\* An import that settles takes back from the host what it was given, which no
\* call of the host has lent on.
LEMMA ImportReturnsLinked ==
  ASSUME HandleInv, Linked, ~HostLeaves, poisoned = {},
         NEW d \in Calls, NEW w \in {0} \cup Wrappers, NEW y \in Index, ImportReturns(d, w, y)
  PROVE  Linked'
<1> DEFINE taken == IF w = 0 THEN {} ELSE {w}
           V == call[d].views \cup taken
<1>1. /\ call[d].kind = "import" /\ call[d].phase = "open"
      /\ \A v \in V : wrapper[v].lends = 0
      /\ w # 0 => w \in Wrappers /\ wrapper[w].valid
      /\ wrapper' = Invalidated(wrapper, V)
      /\ \/ slot' = slot
         \/ /\ w # 0 /\ slot[call[d].caller][y].entry = None
            /\ slot' = Added(slot, call[d].caller, y, Own(wrapper[w].rep))
      /\ call' = [call EXCEPT ![d].phase = "resolved", ![d].views = {}]
  BY DEF ImportReturns, Transferable, Empty
<1>2. /\ call[d].lent = {} /\ call[d].caller \in Inst /\ ScopeSlots(slot, d) = {}
      /\ call[d].lent = {}
  BY <1>1, HandleParts DEF KindSound, ScopesSound
<1>3. Holds(slot, slot', 0) /\ \A c \in Calls : ScopeSlots(slot', c) = ScopeSlots(slot, c)
  <2>1. CASE slot' = slot
    BY <2>1, HoldsSelf
  <2>2. CASE slot' # slot
    <3> DEFINE e == Own(wrapper[w].rep)
    <3>1. /\ slot[call[d].caller][y].entry = None /\ w \in Wrappers /\ wrapper[w].valid
          /\ slot' = Added(slot, call[d].caller, y, e)
      BY <1>1, <2>2
    <3>2. e \in HandleType /\ e.scope = 0
      BY <3>1, WrapperMade, EntryTyped
    <3> HIDE DEF e
    <3>3. 0 \notin Calls
      BY BoundsAssumption DEF Calls
    <3>4. Holds(slot, Added(slot, call[d].caller, y, e), 0)
      BY <1>2, <3>1, <3>2, <3>3, HoldsSelf, HoldsAdded, HandleParts
    <3>5. \A c \in Calls : ScopeSlots(Added(slot, call[d].caller, y, e), c) = ScopeSlots(slot, c)
      BY <1>2, <3>1, <3>2, <3>3, AddedElsewhere, HandleParts
    <3>6. QED
      BY <3>1, <3>4, <3>5
  <2>3. QED
    BY <2>1, <2>2
<1>4. \A c \in Calls :
        /\ call'[c].lenders = call[c].lenders /\ call'[c].lent = call[c].lent
        /\ call'[c].borrows = call[c].borrows
        /\ call'[c].views = IF c = d THEN {} ELSE call[c].views
        /\ call'[c].phase = IF c = d THEN "resolved" ELSE call[c].phase
  <2>1. call \in [Calls -> CallType]
    BY HandleParts
  <2>2. call' = [call EXCEPT ![d].phase = "resolved", ![d].views = {}]
    BY <1>1
  <2>3. QED
    BY <2>1, <2>2 DEF CallType
<1>5. \A v \in Wrappers :
        /\ v \notin V => wrapper'[v] = wrapper[v]
        /\ v \in V => ~wrapper'[v].valid
        /\ wrapper'[v].rep = wrapper[v].rep /\ (wrapper'[v].owns <=> wrapper[v].owns)
  <2>1. wrapper \in [Wrappers -> WrapperType]
    BY HandleParts
  <2>2. wrapper' = Invalidated(wrapper, V)
    BY <1>1
  <2> HIDE DEF V
  <2>3. QED
    BY <2>1, <2>2 DEF Invalidated, WrapperType
<1>6. \A c \in Calls : \A v \in call[c].lent : v \in Wrappers /\ v \notin V /\ v \notin call[d].views
  <2>1. \A c \in Calls : \A v \in call[c].lent : v \in Wrappers /\ wrapper[v].lends # 0
    BY LentCounted
  <2>2. QED
    BY <1>1, <2>1
<1> HIDE DEF V
<1>7. ASSUME NEW c \in Calls
      PROVE  /\ call'[c].phase \notin {"failed", "lost"}
             /\ call'[c].views # {} => call'[c].phase = "open"
             /\ call'[c].lenders = call[c].lenders
             /\ call'[c].lent = call[c].lent
             /\ call'[c].views \subseteq call[c].views
             /\ \A v \in call'[c].lent :
                  /\ wrapper[v].owns /\ (wrapper[v].valid \/ wrapper[v].pending) =>
                       wrapper'[v].valid \/ wrapper'[v].pending
                  /\ \A m \in Calls : v \in call[m].views => v \in call'[m].views
  <2>1. call[c].phase \notin {"failed", "lost"} /\ (call[c].views # {} => call[c].phase = "open")
    BY DEF Linked, CallLinked
  <2>2. \A v \in call'[c].lent : wrapper'[v] = wrapper[v] /\ v \notin call[d].views
    BY <1>4, <1>5, <1>6
  <2>3. \A v \in call'[c].lent : \A m \in Calls : v \in call[m].views => v \in call'[m].views
    BY <1>4, <2>2
  <2>4. QED
    BY <1>4, <2>1, <2>2, <2>3
<1>8. Carried(0, slot', call', wrapper')
  BY <1>3, <1>5, <1>7 DEF Carried
<1>9. Viewed(call', wrapper')
  <2>1. SUFFICES ASSUME NEW v \in Wrappers, wrapper'[v].valid, ~wrapper'[v].owns
                 PROVE  \E m \in Calls : v \in call'[m].views
    BY DEF Viewed
  <2>2. v \notin V /\ wrapper[v].valid /\ ~wrapper[v].owns
    BY <1>5, <2>1
  <2>3. PICK m \in Calls : v \in call[m].views
    BY <2>2 DEF Linked, Viewed
  <2>4. m # d
    BY <2>2, <2>3 DEF V
  <2>5. QED
    BY <1>4, <2>3, <2>4
<1>10. BorrowsExact(slot', call')
  BY <1>3, <1>4, BorrowsKept
<1>11. QED
  BY <1>8, <1>9, <1>10, LinkedNext

LEMMA StartLinked ==
  ASSUME HandleInv, Linked, NEW d \in Calls, Carried(d, slot', call', wrapper'),
         CallLinked(slot', call', wrapper', d), Viewed(call', wrapper'),
         BorrowsExact(slot', call')
  PROVE  Linked'
<1>1. ASSUME NEW c \in Calls PROVE CallLinked(slot', call', wrapper', c)
  <2>1. CASE c = d
    BY <2>1
  <2>2. CASE c # d
    BY <2>2, LinksCarried
  <2>3. QED
    BY <2>1, <2>2
<1>2. QED
  BY <1>1 DEF Linked

\* A fresh call has nothing lent to it.
LEMMA FreshSays ==
  ASSUME HandleInv, NEW d \in Calls, Fresh(d)
  PROVE  /\ call[d].lenders = {} /\ call[d].lent = {} /\ call[d].views = {}
         /\ ScopeSlots(slot, d) = {}
<1>1. call[d] = Idle /\ call[d].phase = "free"
  BY HandleParts DEF Fresh, KindSound
<1>2. ScopeSlots(slot, d) = {}
  BY <1>1, NoScope
<1>3. QED
  BY <1>1, <1>2 DEF Idle

\* A fresh call starts, and the others are as they were.
LEMMA StartCarried ==
  ASSUME HandleInv, Linked, NEW d \in Calls, Fresh(d), NEW t, Holds(slot, t, d), NEW cl,
         \A c \in Calls : c # d => cl[c] = call[c], NEW ws,
         \A w \in Wrappers : wrapper[w].rep # 0 =>
           /\ ws[w].rep = wrapper[w].rep /\ (ws[w].owns <=> wrapper[w].owns)
           /\ wrapper[w].lends # 0 /\ (wrapper[w].valid \/ wrapper[w].pending) =>
                ws[w].valid \/ ws[w].pending
  PROVE  Carried(d, t, cl, ws)
<1>1. call[d].views = {}
  BY FreshSays
<1>2. ASSUME NEW c \in Calls \ {d}
      PROVE  /\ cl[c].phase \notin {"failed", "lost"}
             /\ cl[c].views # {} => cl[c].phase = "open"
             /\ cl[c] = call[c]
             /\ \A w \in cl[c].lent :
                  /\ wrapper[w].owns /\ (wrapper[w].valid \/ wrapper[w].pending) =>
                       ws[w].valid \/ ws[w].pending
                  /\ \A m \in Calls : w \in call[m].views => w \in cl[m].views
  <2>1. call[c].phase \notin {"failed", "lost"} /\ (call[c].views # {} => call[c].phase = "open")
    BY DEF Linked, CallLinked
  <2>2. \A w \in call[c].lent : w \in Wrappers /\ wrapper[w].lends # 0 /\ wrapper[w].rep # 0
    BY LentCounted, LentMade
  <2>3. \A w \in cl[c].lent :
          wrapper[w].owns /\ (wrapper[w].valid \/ wrapper[w].pending) =>
            ws[w].valid \/ ws[w].pending
    BY <2>2
  <2>4. \A w, m : m \in Calls /\ w \in call[m].views => w \in cl[m].views
    BY <1>1
  <2>5. QED
    BY <2>1, <2>3, <2>4
<1>3. QED
  BY <1>2 DEF Carried

LEMMA HostCallsLinked ==
  ASSUME HandleInv, Linked, NEW d \in Calls, NEW i \in Inst, NEW owns \in SUBSET Wrappers,
         NEW lent \in SUBSET Wrappers, HostCalls(d, i, owns, lent)
  PROVE  Linked'
<1> DEFINE f == [Idle EXCEPT !.phase = "waiting", !.kind = "export", !.stack = {d}, !.callee = i,
                             !.args = {wrapper[w].rep : w \in owns}, !.lent = lent]
<1>1. /\ Fresh(d) /\ owns \cap lent = {} /\ \A w \in owns : Transferable(w)
      /\ \A w \in lent : wrapper[w].valid
      /\ call' = [call EXCEPT ![d] = f] /\ slot' = slot
      /\ wrapper' = [w \in Wrappers |->
           IF w \in owns THEN [wrapper[w] EXCEPT !.valid = FALSE]
           ELSE IF w \in lent THEN [wrapper[w] EXCEPT !.lends = wrapper[w].lends + 1]
           ELSE wrapper[w]]
  BY DEF HostCalls
<1>2. /\ f.phase = "waiting" /\ f.lenders = {} /\ f.lent = lent /\ f.views = {} /\ f.borrows = 0
  BY DEF Idle
<1> HIDE DEF f
<1>3. call'[d] = f /\ \A c \in Calls : c # d => call'[c] = call[c]
  BY <1>1, HandleParts
<1>4. call[d].views = {} /\ ScopeSlots(slot, d) = {}
  BY <1>1, FreshSays
<1>5. ASSUME NEW w \in Wrappers
      PROVE  /\ wrapper'[w].rep = wrapper[w].rep /\ (wrapper'[w].owns <=> wrapper[w].owns)
             /\ (wrapper'[w].pending <=> wrapper[w].pending)
             /\ w \notin owns => (wrapper'[w].valid <=> wrapper[w].valid)
             /\ w \in owns => wrapper[w].lends = 0 /\ ~wrapper'[w].valid
  <2>1. wrapper[w] \in WrapperType
    BY HandleParts
  <2>2. CASE w \in owns
    <3>1. wrapper'[w] = [wrapper[w] EXCEPT !.valid = FALSE] /\ wrapper[w].lends = 0
      BY <1>1, <2>2 DEF Transferable
    <3>2. QED
      BY <2>1, <2>2, <3>1 DEF WrapperType
  <2>3. CASE w \notin owns /\ w \in lent
    <3>1. wrapper'[w] = [wrapper[w] EXCEPT !.lends = wrapper[w].lends + 1]
      BY <1>1, <2>3
    <3>2. QED
      BY <2>1, <2>3, <3>1 DEF WrapperType
  <2>4. CASE w \notin owns /\ w \notin lent
    <3>1. wrapper'[w] = wrapper[w]
      BY <1>1, <2>4
    <3>2. QED
      BY <2>4, <3>1
  <2>5. QED
    BY <2>2, <2>3, <2>4
<1>6. Carried(d, slot', call', wrapper')
  <2>1. \A w \in Wrappers : wrapper[w].rep # 0 =>
           /\ wrapper'[w].rep = wrapper[w].rep /\ (wrapper'[w].owns <=> wrapper[w].owns)
           /\ wrapper[w].lends # 0 /\ (wrapper[w].valid \/ wrapper[w].pending) =>
                wrapper'[w].valid \/ wrapper'[w].pending
    BY <1>5
  <2>2. Holds(slot, slot', d)
    BY <1>1, HoldsSelf
  <2>3. QED
    BY <1>1, <1>3, <2>1, <2>2, StartCarried
<1>7. \A c \in Calls : call'[c].views = call[c].views
  BY <1>2, <1>3, <1>4
<1>8. CallLinked(slot', call', wrapper', d)
  <2>1. ScopeSlots(slot', d) = {}
    BY <1>1, <1>4
  <2>2. ASSUME NEW w \in lent PROVE LentLinked(call', wrapper', d, w)
    <3>1. w \in Wrappers /\ w \notin owns /\ wrapper[w].valid
      BY <1>1
    <3>2. CASE wrapper[w].owns
      BY <1>5, <3>1, <3>2 DEF LentLinked
    <3>3. CASE ~wrapper[w].owns
      <4>1. PICK m \in Calls : w \in call[m].views
        BY <3>1, <3>3 DEF Linked, Viewed
      <4>2. call[m].phase = "open"
        BY <4>1 DEF Linked, CallLinked
      <4>3. m < d
        BY <1>1, <4>2, MadeBefore
      <4>4. QED
        BY <1>7, <4>1, <4>3 DEF LentLinked
    <3>4. QED
      BY <3>2, <3>3
  <2>3. QED
    BY <1>2, <1>3, <2>1, <2>2 DEF CallLinked
<1>9. Viewed(call', wrapper')
  <2>1. \A w \in Wrappers : wrapper'[w].valid /\ ~wrapper'[w].owns => wrapper[w].valid /\ ~wrapper[w].owns
    BY <1>5
  <2>2. QED
    BY <1>7, <2>1, ViewedKept
<1>10. BorrowsExact(slot', call')
  <2>1. \A c \in Calls : ScopeSlots(slot', c) = ScopeSlots(slot, c)
    BY <1>1
  <2>2. \A c \in Calls : call[c].borrows = Cardinality(ScopeSlots(slot, c))
    BY DEF Linked, BorrowsExact
  <2>3. \A c \in Calls : call'[c].borrows = Cardinality(ScopeSlots(slot, c))
    BY <1>2, <1>3, <1>4, <2>2, FS_EmptySet
  <2>4. QED
    BY <2>1, <2>3 DEF BorrowsExact
<1>11. QED
  BY <1>6, <1>8, <1>9, <1>10, StartLinked

\* A call starts with a handle lent to it, and what it is given stands for that
\* one's resource.
LEMMA NewLinked ==
  ASSUME HandleInv, NEW d \in Calls, Fresh(d), NEW i \in Inst, NEW x \in Index, NEW t, NEW cl, NEW ws,
         cl[d].phase = "open", cl[d].lent = {},
         cl[d].lenders # {} => /\ cl[d].lenders = {Key(slot, i, x)}
                               /\ slot[i][x].entry # None /\ Same(slot, t, i, x),
         ScopeSlots(t, d) # {} \/ cl[d].views # {} => cl[d].lenders # {},
         \A s \in ScopeSlots(t, d) : t[s[1]][s[2]].entry.rep = slot[i][x].entry.rep,
         \A w \in cl[d].views : ws[w].rep = slot[i][x].entry.rep
  PROVE  CallLinked(t, cl, ws, d)
<1>1. ASSUME NEW h \in cl[d].lenders
      PROVE  /\ SlotOf(t, h).tenure = h.tenure
             /\ SlotOf(t, h).entry # None
             /\ SlotOf(t, h).entry.scope < d
             /\ SlotOf(t, h).entry.rep = slot[i][x].entry.rep
  <2>1. h = Key(slot, i, x) /\ slot[i][x].entry # None /\ Same(slot, t, i, x)
    OBVIOUS
  <2>2. h.inst = i /\ h.index = x /\ h.tenure = slot[i][x].tenure
    BY <2>1 DEF Key
  <2>3. slot[i][x].entry.scope < d
    BY ScopeBefore
  <2>4. QED
    BY <2>1, <2>2, <2>3 DEF Same, SlotOf
<1>2. \A s \in ScopeSlots(t, d) : LinkedTo(t, cl, ws, d, t[s[1]][s[2]].entry.rep)
  BY <1>1 DEF LinkedTo
<1>3. \A w \in cl[d].views : \E h \in cl[d].lenders : SlotOf(t, h).entry.rep = ws[w].rep
  BY <1>1
<1>4. QED
  BY <1>1, <1>2, <1>3 DEF CallLinked

\* A lend changes a count of lends and nothing else.
LEMMA LentOutHolds ==
  ASSUME HandleInv, NEW i \in Inst, NEW x \in Index, slot[i][x].entry # None, NEW d
  PROVE  LET t == LentOut(slot, i, x)
         IN  /\ t \in TableType /\ Holds(slot, t, d) /\ Same(slot, t, i, x)
             /\ \A c \in Calls : ScopeSlots(t, c) = ScopeSlots(slot, c)
             /\ \A j \in Inst, y \in Index : slot[j][y].entry = None => t[j][y].entry = None
<1> DEFINE t == LentOut(slot, i, x)
<1>1. /\ t \in TableType
      /\ t[i][x] = [slot[i][x] EXCEPT !.entry = [slot[i][x].entry EXCEPT !.lends = slot[i][x].entry.lends + 1]]
      /\ \A j \in Inst, y \in Index : ~(j = i /\ y = x) => t[j][y] = slot[j][y]
  BY LentOutAt, HandleParts
<1> HIDE DEF t
<1>2. slot[i][x] \in SlotType /\ slot[i][x].entry.rep # 0
  BY HandleParts DEF TableType, TableSound, EntrySound
<1>3. /\ t[i][x].tenure = slot[i][x].tenure
      /\ t[i][x].entry.rep = slot[i][x].entry.rep
      /\ t[i][x].entry.own = slot[i][x].entry.own
      /\ t[i][x].entry.scope = slot[i][x].entry.scope
  BY <1>1, <1>2 DEF SlotType, HandleType
<1>4. t[i][x].entry # None
  BY <1>2, <1>3, EntryTyped
<1>5. Alike(slot, t) /\ \A j \in Inst, y \in Index : t[j][y].entry = None <=> slot[j][y].entry = None
  <2>1. Alike(slot, t)
    BY <1>1, <1>3 DEF Alike
  <2>2. QED
    BY <1>1, <1>4, <2>1
<1>6. Holds(slot, t, d) /\ Same(slot, t, i, x)
  BY <1>5, HoldsAlike DEF Alike, Same
<1>7. QED
  BY <1>1, <1>5, <1>6, AlikeSays DEF t

LEMMA ImportCallLinked ==
  ASSUME HandleInv, Linked, NEW c \in Calls, NEW d \in Calls, NEW form \in Forms, NEW x \in Index,
         NEW w \in Wrappers, ImportCall(c, d, form, x, w)
  PROVE  Linked'
<1> DEFINE i == call[c].callee
           r == slot[i][x].entry.rep
           ls == IF form = "borrow" THEN {Handle(i, x)} ELSE {}
           vs == IF form = "borrow" THEN {w} ELSE {}
           o == (form = "own")
           f == [Idle EXCEPT !.phase = "open", !.kind = "import", !.stack = {d}, !.caller = i,
                             !.lenders = ls, !.views = vs]
<1>1. /\ Running(c) /\ Fresh(d) /\ form \in {"own", "borrow"} /\ slot[i][x].entry # None
      /\ Passable(i, form, x) /\ FreshWrapper(w)
      /\ slot' = IF form = "own" THEN Removed(slot, i, x) ELSE LentOut(slot, i, x)
      /\ wrapper' = [wrapper EXCEPT ![w] = Wrapper(r, o)]
      /\ call' = [call EXCEPT ![d] = f]
  BY DEF ImportCall, Entry
<1>2. i \in Inst
  BY <1>1, RunningSays
<1>3. /\ form = "borrow" => ls = {Key(slot, i, x)} /\ vs = {w}
      /\ form = "own" => ls = {} /\ vs = {}
  BY DEF Handle, Key
<1> HIDE DEF ls, vs, i
<1>4. f.phase = "open" /\ f.lenders = ls /\ f.lent = {} /\ f.views = vs /\ f.borrows = 0
  BY DEF Idle
<1> HIDE DEF f
<1>5. call'[d] = f /\ \A e \in Calls : e # d => call'[e] = call[e]
  <2>1. call' = [call EXCEPT ![d] = f]
    BY <1>1
  <2>2. QED
    BY <2>1, HandleParts
<1>6. /\ wrapper[w] = Unmade /\ wrapper[w].rep = 0 /\ wrapper'[w].rep = r
      /\ wrapper'[w].owns <=> form = "own"
      /\ \A v \in Wrappers : v # w => wrapper'[v] = wrapper[v]
  <2>1. wrapper' = [wrapper EXCEPT ![w] = Wrapper(r, o)] /\ wrapper[w] = Unmade
    BY <1>1 DEF FreshWrapper
  <2>2. Wrapper(r, o).rep = r /\ Wrapper(r, o).owns = o
    BY UnmadeIs
  <2>3. wrapper'[w] = Wrapper(r, o) /\ \A v \in Wrappers : v # w => wrapper'[v] = wrapper[v]
    BY <2>1, HandleParts
  <2>4. wrapper'[w].owns <=> o
    BY <2>2, <2>3
  <2>5. QED
    BY <2>1, <2>2, <2>3, <2>4, UnmadeIs
<1>7. call[d].views = {} /\ ScopeSlots(slot, d) = {}
  BY <1>1, FreshSays
<1> HIDE DEF r, o
<1>8. /\ Holds(slot, slot', d) /\ \A e \in Calls : ScopeSlots(slot', e) = ScopeSlots(slot, e)
      /\ form = "borrow" => Same(slot, slot', i, x)
  <2>1. CASE form = "own"
    <3>1. slot' = Removed(slot, i, x) /\ slot[i][x].entry.lends = 0 /\ slot[i][x].entry.own
      BY <1>1, <2>1 DEF Passable, Liftable, Entry
    <3>2. Holds(slot, Removed(slot, i, x), d)
      BY <1>1, <1>2, <3>1, HoldsRemoved
    <3>3. \A e \in Calls : ScopeSlots(slot, e) \ {<<i, x>>} = ScopeSlots(slot, e)
      BY <1>2, <3>1, OwnHandle
    <3>4. \A e \in Calls : ScopeSlots(Removed(slot, i, x), e) = ScopeSlots(slot, e) \ {<<i, x>>}
      BY <1>2, RemovedSays, HandleParts
    <3>5. QED
      BY <2>1, <3>1, <3>2, <3>3, <3>4
  <2>2. CASE form = "borrow"
    BY <1>1, <1>2, <2>2, LentOutHolds
  <2>3. QED
    BY <1>1, <2>1, <2>2
<1>9. Carried(d, slot', call', wrapper')
  <2>1. \A v \in Wrappers : wrapper[v].rep # 0 =>
           /\ wrapper'[v].rep = wrapper[v].rep /\ (wrapper'[v].owns <=> wrapper[v].owns)
           /\ wrapper[v].lends # 0 /\ (wrapper[v].valid \/ wrapper[v].pending) =>
                wrapper'[v].valid \/ wrapper'[v].pending
    BY <1>6
  <2>2. QED
    BY <1>1, <1>5, <1>8, <2>1, StartCarried
<1>10. CallLinked(slot', call', wrapper', d)
  <2>1. call'[d].phase = "open" /\ call'[d].lent = {} /\ call'[d].lenders = ls /\ call'[d].views = vs
    BY <1>4, <1>5
  <2>2. ls # {} => ls = {Key(slot, i, x)} /\ slot[i][x].entry # None /\ Same(slot, slot', i, x)
    BY <1>1, <1>3, <1>8
  <2>3. ScopeSlots(slot', d) = {} /\ (vs # {} => ls # {})
    BY <1>1, <1>3, <1>7, <1>8
  <2>4. \A v \in vs : wrapper'[v].rep = slot[i][x].entry.rep
    BY <1>1, <1>3, <1>6 DEF r
  <2>5. QED
    BY ZenonT(60), <1>1, <1>2, <2>1, <2>2, <2>3, <2>4, NewLinked
<1>11. Viewed(call', wrapper')
  <2>1. SUFFICES ASSUME NEW v \in Wrappers, wrapper'[v].valid, ~wrapper'[v].owns
                 PROVE  \E m \in Calls : v \in call'[m].views
    BY DEF Viewed
  <2>2. CASE v = w
    <3>1. v \in vs
      BY <1>1, <1>3, <1>6, <2>1, <2>2
    <3>2. QED
      BY <1>4, <1>5, <3>1
  <2>3. CASE v # w
    <3>1. wrapper[v].valid /\ ~wrapper[v].owns
      BY <1>6, <2>1, <2>3
    <3>2. PICK m \in Calls : v \in call[m].views
      BY <3>1 DEF Linked, Viewed
    <3>3. QED
      BY <1>5, <1>7, <3>2
  <2>4. QED
    BY <2>2, <2>3
<1>12. BorrowsExact(slot', call')
  <2>1. \A e \in Calls : call[e].borrows = Cardinality(ScopeSlots(slot, e))
    BY DEF Linked, BorrowsExact
  <2>2. \A e \in Calls : call'[e].borrows = Cardinality(ScopeSlots(slot, e))
    BY <1>4, <1>5, <1>7, <2>1, FS_EmptySet
  <2>3. \A e \in Calls : ScopeSlots(slot', e) = ScopeSlots(slot, e)
    BY <1>8
  <2>4. QED
    BY <2>2, <2>3 DEF BorrowsExact
<1>13. QED
  BY <1>9, <1>10, <1>11, <1>12, StartLinked

\* The tables after an argument has been passed, as far as borrows go.
HasLinks(i, j, form, x, y, d, t) ==
  /\ Holds(slot, t, d)
  /\ \A e \in Calls : e # d => ScopeSlots(t, e) = ScopeSlots(slot, e)
  /\ ScopeSlots(t, d) = IF form = "borrow" /\ j # Impl THEN {<<j, y>>} ELSE {}
  /\ form = "borrow" => slot[i][x].entry # None /\ Same(slot, t, i, x)
  /\ form = "borrow" /\ j # Impl => t[j][y].entry.rep = slot[i][x].entry.rep

LEMMA PassedLinks ==
  ASSUME HandleInv, Linked, NEW d \in Calls, Fresh(d), NEW i \in Inst, NEW j \in Inst, i # j,
         NEW form \in Forms, NEW x \in Index, NEW y \in Index, Passable(i, form, x),
         slot[j][y].entry = None, NEW t, t = Passed(i, j, form, x, y, d)
  PROVE  HasLinks(i, j, form, x, y, d, t)
<1> DEFINE r == slot[i][x].entry.rep
<1>1. ScopeSlots(slot, d) = {} /\ 0 \notin Calls /\ slot \in TableType
  BY FreshSays, HandleParts, BoundsAssumption DEF Calls
<1>2. CASE form = "none"
  <2>1. t = slot
    BY <1>2 DEF Passed
  <2>2. QED
    BY <1>1, <1>2, <2>1, HoldsSelf DEF HasLinks
<1>3. CASE form = "own"
  <2> DEFINE sl == Removed(slot, i, x)
             e == Own(r)
  <2>1. slot[i][x].entry.own /\ slot[i][x].entry.lends = 0
    BY <1>3 DEF Passable, Liftable, Entry
  <2>2. /\ r \in Reps /\ slot[i][x].entry # None
        /\ \A b \in Calls : <<i, x>> \notin ScopeSlots(slot, b)
    BY <2>1, OwnHandle
  <2>3. t = Added(sl, j, y, e)
    BY <1>3 DEF Passed, Entry
  <2>4. e \in HandleType /\ e.scope = 0
    BY <2>2, EntryTyped
  <2>5. /\ sl \in TableType /\ sl[j][y].entry = None
        /\ \A b \in Calls : ScopeSlots(sl, b) = ScopeSlots(slot, b)
    <3>1. /\ sl \in TableType
          /\ \A k \in Inst, z \in Index : ~(k = i /\ z = x) => sl[k][z] = slot[k][z]
      BY <1>1, RemovedAt
    <3>2. \A b \in Calls : ScopeSlots(sl, b) = ScopeSlots(slot, b) \ {<<i, x>>}
      BY RemovedSays, HandleParts
    <3> HIDE DEF sl
    <3>3. QED
      BY <2>2, <3>1, <3>2
  <2>6. Holds(slot, sl, d)
    BY <2>1, <2>2, HoldsRemoved
  <2> HIDE DEF sl, e
  <2>7. Holds(slot, Added(sl, j, y, e), d)
    BY <1>1, <2>4, <2>5, <2>6, HoldsAdded
  <2>8. \A b \in Calls : ScopeSlots(Added(sl, j, y, e), b) = ScopeSlots(sl, b)
    BY <1>1, <2>4, <2>5, AddedElsewhere
  <2>9. QED
    BY <1>1, <1>3, <2>3, <2>5, <2>7, <2>8 DEF HasLinks
<1>4. CASE form = "borrow"
  <2> DEFINE sl == LentOut(slot, i, x)
             e == Borrow(r, d)
  <2>1. slot[i][x].entry # None
    BY <1>4 DEF Passable, Entry
  <2>2. /\ sl \in TableType /\ Holds(slot, sl, d) /\ Same(slot, sl, i, x)
        /\ \A c \in Calls : ScopeSlots(sl, c) = ScopeSlots(slot, c)
        /\ sl[j][y].entry = None
    BY <2>1, LentOutHolds
  <2>3. CASE j = Impl
    <3>1. t = sl
      BY <1>4, <2>3 DEF Passed
    <3>2. QED
      BY <1>1, <1>4, <2>1, <2>2, <2>3, <3>1 DEF HasLinks
  <2>4. CASE j # Impl
    <3>1. t = Added(sl, j, y, e)
      BY <1>4, <2>4 DEF Passed, Entry
    <3>2. r \in Reps
      BY <2>1, EntryHas
    <3>3. e \in HandleType /\ e.scope = d /\ e.rep = r
      BY <3>2, EntryTyped
    <3> HIDE DEF sl, e
    <3>4. Holds(slot, Added(sl, j, y, e), d)
      BY <2>2, <3>3, HoldsAdded
    <3>5. /\ \A c \in Calls : d # c => ScopeSlots(Added(sl, j, y, e), c) = ScopeSlots(sl, c)
          /\ ScopeSlots(Added(sl, j, y, e), d) = ScopeSlots(sl, d) \cup {<<j, y>>}
      BY <2>2, <3>3, AddedElsewhere
    <3>6. /\ t[j][y] = [tenure |-> sl[j][y].tenure + 1, entry |-> e]
          /\ \A k \in Inst, z \in Index : ~(k = j /\ z = y) => t[k][z] = sl[k][z]
      BY <2>2, <3>1, <3>3, AddedAt
    <3>7. t[j][y].entry.rep = r
      BY <3>3, <3>6
    <3>8. Same(slot, t, i, x)
      BY <2>2, <3>6 DEF Same
    <3>9. ScopeSlots(t, d) = {<<j, y>>}
      BY <1>1, <2>2, <3>1, <3>5
    <3>10. \A c \in Calls : c # d => ScopeSlots(t, c) = ScopeSlots(slot, c)
      BY <2>2, <3>1, <3>5
    <3>11. QED
      BY <1>4, <2>1, <2>4, <3>1, <3>4, <3>7, <3>8, <3>9, <3>10 DEF HasLinks
  <2>5. QED
    BY <2>3, <2>4
<1>5. QED
  BY <1>2, <1>3, <1>4 DEF Forms

LEMMA GuestCallsLinked ==
  ASSUME HandleInv, Linked, NEW c \in Calls, NEW d \in Calls, NEW kind \in {"sync", "async"},
         NEW j \in Inst, NEW form \in Forms, NEW x \in Index, NEW y \in Index,
         GuestCalls(c, d, kind, j, form, x, y)
  PROVE  Linked'
<1> DEFINE i == call[c].callee
           ls == IF form = "borrow" THEN {Handle(i, x)} ELSE {}
           b == IF form = "borrow" /\ j # Impl THEN 1 ELSE 0
           f == [Idle EXCEPT !.phase = "open", !.kind = kind, !.stack = call[c].stack \cup {d},
                             !.caller = i, !.callee = j, !.lenders = ls, !.borrows = b]
<1>1. /\ Running(c) /\ Fresh(d) /\ i # j /\ Passable(i, form, x) /\ slot[j][y].entry = None
      /\ slot' = Passed(i, j, form, x, y, d)
      /\ call' = [call EXCEPT ![d] = f] /\ wrapper' = wrapper
  BY DEF GuestCalls, Empty
<1>2. i \in Inst
  BY <1>1, RunningSays
<1>3. /\ form = "borrow" => ls = {Key(slot, i, x)}
      /\ form # "borrow" => ls = {}
      /\ b = IF form = "borrow" /\ j # Impl THEN 1 ELSE 0
  BY DEF Handle, Key
<1> HIDE DEF ls, b, i
<1>4. f.phase = "open" /\ f.lenders = ls /\ f.lent = {} /\ f.views = {} /\ f.borrows = b
  BY DEF Idle
<1> HIDE DEF f
<1>5. call'[d] = f /\ \A e \in Calls : e # d => call'[e] = call[e]
  <2>1. call' = [call EXCEPT ![d] = f]
    BY <1>1
  <2>2. QED
    BY <2>1, HandleParts
<1>6. call[d].views = {}
  BY <1>1, FreshSays
<1>7. HasLinks(i, j, form, x, y, d, slot')
  BY <1>1, <1>2, PassedLinks
<1>8. /\ Holds(slot, slot', d)
      /\ \A e \in Calls : e # d => ScopeSlots(slot', e) = ScopeSlots(slot, e)
      /\ ScopeSlots(slot', d) = IF form = "borrow" /\ j # Impl THEN {<<j, y>>} ELSE {}
      /\ form = "borrow" => slot[i][x].entry # None /\ Same(slot, slot', i, x)
      /\ form = "borrow" /\ j # Impl => slot'[j][y].entry.rep = slot[i][x].entry.rep
  BY <1>7 DEF HasLinks
<1>9. Carried(d, slot', call', wrapper')
  BY <1>1, <1>5, <1>8, StartCarried
<1>10. CallLinked(slot', call', wrapper', d)
  <2>1. /\ call'[d].phase = "open" /\ call'[d].lent = {} /\ call'[d].lenders = ls
        /\ call'[d].views = {}
    BY <1>4, <1>5
  <2>2. ls # {} => ls = {Key(slot, i, x)} /\ slot[i][x].entry # None /\ Same(slot, slot', i, x)
    BY <1>3, <1>8
  <2>3. ScopeSlots(slot', d) # {} => ls # {}
    BY <1>3, <1>8
  <2>4. \A s \in ScopeSlots(slot', d) : slot'[s[1]][s[2]].entry.rep = slot[i][x].entry.rep
    BY <1>8
  <2>5. \A w \in call'[d].views : wrapper'[w].rep = slot[i][x].entry.rep
    BY <2>1
  <2>6. call'[d].lenders # {} => /\ call'[d].lenders = {Key(slot, i, x)}
                                 /\ slot[i][x].entry # None /\ Same(slot, slot', i, x)
    BY <2>1, <2>2
  <2>7. ScopeSlots(slot', d) # {} \/ call'[d].views # {} => call'[d].lenders # {}
    BY <2>1, <2>3
  <2>8. call'[d].phase = "open" /\ call'[d].lent = {} /\ Fresh(d)
    BY <1>1, <2>1
  <2>9. QED
    BY <1>2, <2>4, <2>5, <2>6, <2>7, <2>8, NewLinked
<1>11. Viewed(call', wrapper')
  <2>1. \A e \in Calls : call'[e].views = call[e].views
    BY <1>4, <1>5, <1>6
  <2>2. QED
    BY <1>1, <2>1, ViewedKept
<1>12. BorrowsExact(slot', call')
  <2>1. SUFFICES ASSUME NEW e \in Calls PROVE call'[e].borrows = Cardinality(ScopeSlots(slot', e))
    BY DEF BorrowsExact
  <2>2. CASE e = d
    <3>1. call'[e].borrows = b
      BY <1>4, <1>5, <2>2
    <3>2. Cardinality({}) = 0 /\ Cardinality({<<j, y>>}) = 1
      BY FS_EmptySet, FS_Singleton
    <3>3. QED
      BY <1>3, <1>8, <2>2, <3>1, <3>2
  <2>3. CASE e # d
    <3>1. call[e].borrows = Cardinality(ScopeSlots(slot, e))
      BY DEF Linked, BorrowsExact
    <3>2. QED
      BY <1>5, <1>8, <2>3, <3>1
  <2>4. QED
    BY <2>2, <2>3
<1>13. QED
  BY <1>9, <1>10, <1>11, <1>12, StartLinked

-----------------------------------------------------------------------------
(* What is lent has an owner that is lent.                                   *)

\* The least of a set of calls.
LEMMA LeastCall ==
  ASSUME NEW T \in SUBSET Calls, T # {}
  PROVE  \E m \in T : \A j \in Calls : j < m => j \notin T
<1> DEFINE R == OpToRel(<, Nat)
<1>1. IsWellFoundedOn(R, Nat)
  BY NatLessThanWellFounded
<1>2. \A x, y \in Nat : y < x => <<y, x>> \in R
  BY DEF OpToRel
<1> HIDE DEF R
<1>3. T \in SUBSET Nat /\ \A c \in Calls : c \in Nat
  BY BoundsAssumption DEF Calls
<1>4. PICK m \in T : \A y \in T : ~(<<y, m>> \in R)
  BY <1>1, <1>3, WFMin
<1>5. QED
  BY <1>2, <1>3, <1>4

Backed(r) ==
  \/ \E i \in Inst, x \in Index :
       slot[i][x].entry.own /\ slot[i][x].entry.rep = r /\ slot[i][x].entry.lends # 0
  \/ \E w \in WrapperOwners(wrapper, r) : wrapper[w].lends # 0

LentBacked(c) ==
  /\ \A h \in call[c].lenders : Backed(SlotOf(slot, h).entry.rep)
  /\ \A w \in call[c].lent : Backed(wrapper[w].rep)

LEMMA LenderCounted ==
  ASSUME HandleInv, Linked, NEW c \in Calls, NEW h \in call[c].lenders
  PROVE  /\ h.inst \in Inst /\ h.index \in Index
         /\ slot[h.inst][h.index].entry # None /\ slot[h.inst][h.index].entry.lends # 0
<1>1. /\ h.inst \in Inst /\ h.index \in Index
      /\ h = [inst |-> h.inst, index |-> h.index, tenure |-> h.tenure]
  BY LenderTyped
<1>2. slot[h.inst][h.index].tenure = h.tenure /\ slot[h.inst][h.index].entry # None
  BY DEF Linked, CallLinked, SlotOf
<1>3. c \in Lenders(slot, call, h.inst, h.index)
  BY <1>1, <1>2 DEF Lenders, Key
<1>4. IsFiniteSet(Lenders(slot, call, h.inst, h.index))
  BY CallsFinite DEF Lenders
<1>5. slot[h.inst][h.index].entry.lends = Cardinality(Lenders(slot, call, h.inst, h.index))
  BY <1>1, <1>2, HandleParts DEF LendsCounted
<1>6. QED
  BY <1>1, <1>2, <1>3, <1>4, <1>5, FS_EmptySet

\* Each lend leads to one of an older call, and in the end to the owner.
LEMMA BackedStep ==
  ASSUME HandleInv, Linked, NEW c \in Calls, \A m \in Calls : m < c => LentBacked(m)
  PROVE  LentBacked(c)
<1>1. ASSUME NEW h \in call[c].lenders PROVE Backed(SlotOf(slot, h).entry.rep)
  <2> DEFINE e == slot[h.inst][h.index].entry
  <2>1. h.inst \in Inst /\ h.index \in Index /\ e # None /\ e.lends # 0
    BY LenderCounted
  <2>2. e \in HandleType /\ EntrySound(e) /\ SlotOf(slot, h).entry = e
    BY <2>1, HandleParts DEF TableSound, TableType, SlotType, SlotOf
  <2>3. e.scope < c
    BY <2>2 DEF Linked, CallLinked
  <2>4. CASE e.own
    BY <2>1, <2>2, <2>4 DEF Backed
  <2>5. CASE ~e.own
    <3>1. e.scope \in Calls
      BY <2>1, <2>2, <2>5 DEF EntrySound, HandleType
    <3>2. <<h.inst, h.index>> \in ScopeSlots(slot, e.scope)
      BY <2>1, SlotsAre DEF ScopeSlots
    <3>3. LinkedTo(slot, call, wrapper, e.scope, slot[<<h.inst, h.index>>[1]][<<h.inst, h.index>>[2]].entry.rep)
      BY <3>1, <3>2 DEF Linked, CallLinked
    <3>4. LinkedTo(slot, call, wrapper, e.scope, e.rep)
      BY <2>1, <3>3, SlotsAre
    <3>5. LentBacked(e.scope)
      BY <2>3, <3>1
    <3>6. Backed(e.rep)
      BY <3>4, <3>5 DEF LinkedTo, LentBacked
    <3>7. QED
      BY <2>2, <3>6
  <2>6. QED
    BY <2>4, <2>5
<1>2. ASSUME NEW w \in call[c].lent PROVE Backed(wrapper[w].rep)
  <2>1. w \in Wrappers /\ wrapper[w].lends # 0
    BY LentCounted
  <2>2. LentLinked(call, wrapper, c, w)
    BY DEF Linked, CallLinked
  <2>3. CASE wrapper[w].owns /\ (wrapper[w].valid \/ wrapper[w].pending)
    BY <2>1, <2>3 DEF Backed, WrapperOwners
  <2>4. CASE \E m \in Calls : m < c /\ w \in call[m].views
    <3>1. PICK m \in Calls : m < c /\ w \in call[m].views
      BY <2>4
    <3>2. PICK h \in call[m].lenders : SlotOf(slot, h).entry.rep = wrapper[w].rep
      BY <3>1 DEF Linked, CallLinked
    <3>3. LentBacked(m)
      BY <3>1
    <3>4. QED
      BY <3>2, <3>3 DEF LentBacked
  <2>5. QED
    BY <2>2, <2>3, <2>4 DEF LentLinked
<1>3. QED
  BY <1>1, <1>2 DEF LentBacked

LEMMA AllBacked ==
  ASSUME HandleInv, Linked
  PROVE  \A c \in Calls : LentBacked(c)
<1> DEFINE T == {c \in Calls : ~LentBacked(c)}
<1>1. SUFFICES ASSUME T # {} PROVE FALSE
  OBVIOUS
<1>2. PICK m \in T : \A j \in Calls : j < m => j \notin T
  BY <1>1, LeastCall
<1>3. m \in Calls /\ ~LentBacked(m) /\ \A j \in Calls : j < m => LentBacked(j)
  BY <1>2
<1>4. QED
  BY <1>3, BackedStep

\* A resource whose owner is lent has its owner in a table or in a wrapper, and
\* was not destroyed.
LEMMA BackedSays ==
  ASSUME HandleInv, NEW r, Backed(r)
  PROVE  r \in Reps /\ dtors[r] = 0 /\ Custodians(call, r) = {}
<1>1. CASE \E i \in Inst, x \in Index : slot[i][x].entry.own /\ slot[i][x].entry.rep = r
  <2>1. PICK i \in Inst, x \in Index : slot[i][x].entry.own /\ slot[i][x].entry.rep = r
    BY <1>1
  <2>2. /\ slot[i][x].entry.rep \in Reps /\ Custodians(call, slot[i][x].entry.rep) = {}
        /\ Owners(slot[i][x].entry.rep) # {}
    BY <2>1, OwnHandle
  <2>3. r \in Reps /\ Owners(r) # {} /\ Custodians(call, r) = {}
    BY <2>1, <2>2
  <2>4. dtors[r] = 0
    BY <2>3, HandleParts DEF Sole
  <2>5. QED
    BY <2>3, <2>4
<1>2. CASE \E w \in WrapperOwners(wrapper, r) : wrapper[w].lends # 0
  <2>1. PICK w \in Wrappers : /\ wrapper[w].rep = r /\ wrapper[w].owns
                              /\ wrapper[w].valid \/ wrapper[w].pending
    BY <1>2 DEF WrapperOwners
  <2>2. /\ wrapper[w].rep \in Reps /\ Custodians(call, wrapper[w].rep) = {}
        /\ Owners(wrapper[w].rep) # {}
    BY <2>1, OwnWrapper
  <2>3. r \in Reps /\ Owners(r) # {} /\ Custodians(call, r) = {}
    BY <2>1, <2>2
  <2>4. dtors[r] = 0
    BY <2>3, HandleParts DEF Sole
  <2>5. QED
    BY <2>3, <2>4
<1>3. QED
  BY <1>1, <1>2 DEF Backed

-----------------------------------------------------------------------------
(* A call of the host enters: what it borrows is lent to it already.         *)

LEMMA LowerLinks ==
  ASSUME HandleInv, Linked, NEW d \in Calls, NEW i \in Inst, NEW A, NEW L, NEW at, NEW t,
         LowerTo(d, i, A, L, at, t), A \cap L = {}, ScopeSlots(slot, d) = {}
  PROVE  /\ Holds(slot, t, d)
         /\ \A s \in ScopeSlots(t, d) : t[s[1]][s[2]].entry.rep \in L
         /\ Cardinality(ScopeSlots(t, d)) = Cardinality(L)
<1> DEFINE New(k, z) == k = i /\ \E r \in A \cup L : at[r] = z
           S == ScopeSlots(t, d)
<1>1. /\ A \in SUBSET Reps /\ L \in SUBSET Reps
      /\ \A r \in A \cup L : at[r] \in Index /\ slot[i][at[r]].entry = None
      /\ \A r, s \in A \cup L : at[r] = at[s] => r = s
  BY DEF LowerTo
<1>2. \A r \in A \cup L : t[i][at[r]].entry = IF r \in A THEN Own(r) ELSE Borrow(r, d)
  BY LowerAt
<1>3. \A k \in Inst, z \in Index : ~New(k, z) => t[k][z] = slot[k][z]
  BY LowerAt
<1>4. \A k \in Inst, z \in Index : New(k, z) => k = i /\ \E r \in A \cup L : at[r] = z
  OBVIOUS
<1> HIDE DEF New
<1>5. \A r : /\ Own(r).scope = 0 /\ Own(r).rep = r
             /\ Borrow(r, d).scope = d /\ Borrow(r, d).rep = r
  BY EntryTyped
<1>6. None.scope = 0 /\ 0 \notin Calls
  BY EntryTyped, BoundsAssumption DEF Calls
<1>7. \A r \in L : /\ t[i][at[r]].entry.scope = d /\ t[i][at[r]].entry.rep = r
                   /\ at[r] \in Index
  BY <1>1, <1>2, <1>5
<1>8. \A r \in A : t[i][at[r]].entry.scope = 0
  BY <1>2, <1>5
<1>9. ASSUME NEW k \in Inst, NEW z \in Index
      PROVE  /\ slot[k][z].entry # None => t[k][z] = slot[k][z]
             /\ t[k][z].entry.scope \in Calls \ {d} => t[k][z] = slot[k][z]
             /\ t[k][z].entry.scope = d =>
                  k = i /\ \E r \in L : z = at[r] /\ t[k][z].entry.rep = r
  <2>1. CASE New(k, z)
    <3>1. k = i
      BY <1>4, <2>1
    <3>2. PICK r \in A \cup L : at[r] = z
      BY <1>4, <2>1
    <3>3. CASE r \in L
      <4>1. t[k][z].entry.scope = d /\ t[k][z].entry.rep = r /\ slot[k][z].entry = None
        BY <1>1, <1>7, <3>1, <3>2, <3>3
      <4>2. QED
        BY <3>1, <3>2, <3>3, <4>1
    <3>4. CASE r \in A
      <4>1. t[k][z].entry.scope = 0 /\ slot[k][z].entry = None
        BY <1>1, <1>8, <3>1, <3>2, <3>4
      <4>2. QED
        BY <1>6, <4>1
    <3>5. QED
      BY <3>2, <3>3, <3>4
  <2>2. CASE ~New(k, z)
    <3>1. t[k][z] = slot[k][z]
      BY <1>3, <2>2
    <3>2. slot[k][z].entry.scope # d
      <4>1. <<k, z>> \in Slots /\ <<k, z>>[1] = k /\ <<k, z>>[2] = z
        BY SlotsAre
      <4>2. QED
        BY <4>1 DEF ScopeSlots
    <3>3. QED
      BY <3>1, <3>2
  <2>3. QED
    BY <2>1, <2>2
<1>10. Holds(slot, t, d)
  <2>1. \A c \in Calls : \A h \in call[c].lenders : Same(slot, t, h.inst, h.index)
    <3>1. ASSUME NEW c \in Calls, NEW h \in call[c].lenders
          PROVE  Same(slot, t, h.inst, h.index)
      <4>1. h.inst \in Inst /\ h.index \in Index
        BY LenderTyped
      <4>2. slot[h.inst][h.index].entry # None
        BY DEF Linked, CallLinked, SlotOf
      <4>3. t[h.inst][h.index] = slot[h.inst][h.index]
        BY <1>9, <4>1, <4>2
      <4>4. QED
        BY <4>3 DEF Same
    <3>2. QED
      BY <3>1
  <2>2. \A k \in Inst, z \in Index : t[k][z].entry.scope \in Calls \ {d} => Same(slot, t, k, z)
    <3>1. ASSUME NEW k \in Inst, NEW z \in Index, t[k][z].entry.scope \in Calls \ {d}
          PROVE  Same(slot, t, k, z)
      <4>1. t[k][z] = slot[k][z]
        BY <1>9, <3>1
      <4>2. QED
        BY <4>1 DEF Same
    <3>2. QED
      BY <3>1
  <2>3. QED
    BY <2>1, <2>2 DEF Holds
<1>11. \A s \in S : s = <<i, at[t[s[1]][s[2]].entry.rep]>> /\ t[s[1]][s[2]].entry.rep \in L
  <2>1. ASSUME NEW s \in S
        PROVE  s = <<i, at[t[s[1]][s[2]].entry.rep]>> /\ t[s[1]][s[2]].entry.rep \in L
    <3>1. s[1] \in Inst /\ s[2] \in Index /\ s = <<s[1], s[2]>> /\ t[s[1]][s[2]].entry.scope = d
      BY SlotsAre DEF ScopeSlots
    <3>2. QED
      BY <1>9, <3>1
  <2>2. QED
    BY <2>1
<1>12. \A r \in L : <<i, at[r]>> \in S
  <2>1. ASSUME NEW r \in L PROVE <<i, at[r]>> \in S
    <3>1. at[r] \in Index /\ t[i][at[r]].entry.scope = d
      BY <1>7
    <3>2. <<i, at[r]>> \in Slots /\ <<i, at[r]>>[1] = i /\ <<i, at[r]>>[2] = at[r]
      BY <3>1, SlotsAre
    <3>3. QED
      BY <3>1, <3>2 DEF ScopeSlots
  <2>2. QED
    BY <2>1
<1>13. Cardinality(S) = Cardinality(L)
  <2> DEFINE g == [r \in L |-> <<i, at[r]>>]
  <2>1. \A r, s \in L : <<i, at[r]>> = <<i, at[s]>> => r = s
    BY <1>1
  <2> HIDE DEF S
  <2>2. g \in [L -> S] /\ \A r, s \in L : g[r] = g[s] => r = s
    BY <1>12, <2>1
  <2>3. \A s \in S : \E r \in L : g[r] = s
    BY <1>11
  <2> HIDE DEF g
  <2>4. g \in Bijection(L, S)
    BY <2>2, <2>3, Fun_IsBij
  <2>5. IsFiniteSet(L)
    <3>1. IsFiniteSet(Reps)
      BY BoundsAssumption, FS_Interval DEF Reps
    <3>2. QED
      BY <1>1, <3>1, FS_Subset
  <2>6. ExistsBijection(L, S)
    BY <2>4 DEF ExistsBijection
  <2>7. QED
    BY <2>5, <2>6, FS_Bijection
<1>14. QED
  BY <1>10, <1>11, <1>13 DEF S

LEMMA EnteringLinked ==
  ASSUME HandleInv, Linked, NEW d \in Calls, NEW A, NEW L, NEW at, Entering(d, A, L, at)
  PROVE  Linked'
<1> DEFINE i == call[d].callee
           n == Cardinality(L)
           f == [call[d] EXCEPT !.phase = "open", !.args = {}, !.borrows = n]
<1>1. /\ call[d] \in CallType /\ i \in Inst /\ call[d].borrows = 0 /\ call[d].views = {}
      /\ call[d].lenders = {} /\ A = call[d].args /\ wrapper' = wrapper
      /\ L \in SUBSET {wrapper[w].rep : w \in call[d].lent}
      /\ LowerTo(d, i, A, L, at, slot') /\ call' = [call EXCEPT ![d] = f]
  BY DEF Entering
<1>2. /\ f.phase = "open" /\ f.borrows = n /\ f.lent = call[d].lent
      /\ f.views = {} /\ f.lenders = {}
  BY <1>1 DEF CallType
<1> HIDE DEF f
<1>3. call'[d] = f /\ \A c \in Calls : c # d => call'[c] = call[c]
  BY <1>1, HandleParts
<1>4. ScopeSlots(slot, d) = {}
  BY <1>1, NoScopes
<1>5. A \cap L = {}
  <2>1. SUFFICES ASSUME NEW r \in A, r \in L PROVE FALSE
    OBVIOUS
  <2>2. PICK w \in call[d].lent : r = wrapper[w].rep
    BY <1>1, <2>1
  <2>3. Backed(r)
    BY <2>2, AllBacked DEF LentBacked
  <2>4. Custodians(call, r) = {}
    BY <2>3, BackedSays
  <2>5. d \in Custodians(call, r)
    BY <1>1 DEF Custodians
  <2>6. QED
    BY <2>4, <2>5
<1>6. /\ Holds(slot, slot', d)
      /\ \A s \in ScopeSlots(slot', d) : slot'[s[1]][s[2]].entry.rep \in L
      /\ Cardinality(ScopeSlots(slot', d)) = Cardinality(L)
  <2>1. LowerTo(d, i, A, L, at, slot')
    BY <1>1
  <2> HIDE DEF i
  <2>2. i \in Inst
    BY <1>1 DEF i
  <2>3. QED
    BY <1>4, <1>5, <2>1, <2>2, LowerLinks
<1>7. \A c \in Calls : c # d => ScopeSlots(slot', c) = ScopeSlots(slot, c)
  <2>1. LowerTo(d, i, A, L, at, slot') /\ i \in Inst
    BY <1>1
  <2> HIDE DEF i
  <2>2. HasLowered(d, i, A, L, at, slot')
    BY <2>1, LowerSays
  <2>3. QED
    BY <2>2, Zenon DEF HasLowered
<1>8. \A c \in Calls : call'[c].views = call[c].views /\ call'[c].lent = call[c].lent
  BY <1>1, <1>2, <1>3
<1>9. Carried(d, slot', call', wrapper')
  <2>1. ASSUME NEW c \in Calls \ {d}
        PROVE  /\ call'[c] = call[c]
               /\ call'[c].phase \notin {"failed", "lost"}
               /\ call'[c].views # {} => call'[c].phase = "open"
    <3>1. call'[c] = call[c]
      BY <1>3
    <3>2. call[c].phase \notin {"failed", "lost"} /\ (call[c].views # {} => call[c].phase = "open")
      BY DEF Linked, CallLinked
    <3>3. QED
      BY <3>1, <3>2
  <2>2. QED
    BY <1>1, <1>6, <1>8, <2>1 DEF Carried
<1>10. CallLinked(slot', call', wrapper', d)
  <2>1. \A s \in ScopeSlots(slot', d) :
          LinkedTo(slot', call', wrapper', d, slot'[s[1]][s[2]].entry.rep)
    <3>1. ASSUME NEW s \in ScopeSlots(slot', d)
          PROVE  LinkedTo(slot', call', wrapper', d, slot'[s[1]][s[2]].entry.rep)
      <4>1. PICK w \in call[d].lent : wrapper[w].rep = slot'[s[1]][s[2]].entry.rep
        BY <1>1, <1>6
      <4>2. w \in call'[d].lent /\ wrapper'[w].rep = slot'[s[1]][s[2]].entry.rep
        BY <1>1, <1>8, <4>1
      <4>3. QED
        BY <4>2 DEF LinkedTo
    <3>2. QED
      BY <3>1
  <2>2. \A w \in call'[d].lent : LentLinked(call', wrapper', d, w)
    <3>1. \A w \in call[d].lent : LentLinked(call, wrapper, d, w)
      BY DEF Linked, CallLinked
    <3>2. QED
      BY <1>1, <1>8, <3>1 DEF LentLinked
  <2>3. /\ call'[d].phase = "open" /\ call'[d].lenders = {} /\ call'[d].views = {}
    BY <1>2, <1>3
  <2>4. QED
    BY <2>1, <2>2, <2>3 DEF CallLinked
<1>11. Viewed(call', wrapper')
  <2>1. \A c \in Calls : call'[c].views = call[c].views
    BY <1>8
  <2>2. \A w \in Wrappers : wrapper'[w].valid /\ ~wrapper'[w].owns => wrapper[w].valid /\ ~wrapper[w].owns
    BY <1>1
  <2>3. QED
    BY <2>1, <2>2, ViewedKept
<1>12. BorrowsExact(slot', call')
  <2>1. \A c \in Calls : call[c].borrows = Cardinality(ScopeSlots(slot, c))
    BY DEF Linked, BorrowsExact
  <2>2. ASSUME NEW c \in Calls PROVE call'[c].borrows = Cardinality(ScopeSlots(slot', c))
    <3>1. CASE c = d
      BY <1>2, <1>3, <1>6, <3>1
    <3>2. CASE c # d
      BY <1>3, <1>7, <2>1, <3>2
    <3>3. QED
      BY <3>1, <3>2
  <2>3. QED
    BY <2>2 DEF BorrowsExact
<1>13. QED
  BY <1>9, <1>10, <1>11, <1>12, StartLinked

LEMMA EntersLinked ==
  ASSUME HandleInv, Linked, NEW d \in Calls, Enters(d)
  PROVE  Linked'
<1>1. PICK A, L, at : Entering(d, A, L, at)
  BY EntersSays
<1>2. QED
  BY <1>1, EnteringLinked

-----------------------------------------------------------------------------
(* Every step, until an instance is poisoned.                               *)

LEMMA TrapPoisons ==
  ASSUME HandleInv, NEW c \in Calls, StackSound(call, c), NEW sl, NEW bad, Entered(c) \subseteq bad,
         NEW R, Unwind(c, sl, bad, R)
  PROVE  poisoned' # {}
BY EnteredSays DEF Unwind

\* A trap poisons an instance.
Trap ==
  \/ \E c \in Calls : Traps(c) \/ EntersTraps(c)
  \/ \E c \in Calls, x \in Index : ResourceDropTraps(c, x)
  \/ \E d \in Calls, x \in {0} \cup Index : ReturnTraps(d, x)
  \/ \E c \in Calls, j \in Inst, form \in Forms, x \in Index : GuestCallTraps(c, j, form, x)
  \/ \E w \in Wrappers : HostDropTraps(w)

LEMMA TrapSays == ASSUME HandleInv, Trap PROVE poisoned' # {}
<1>1. CASE \E c \in Calls : Traps(c)
  <2>1. PICK c \in Calls : Traps(c)
    BY <1>1
  <2>2. StackSound(call, c)
    BY <2>1, RunningSays DEF Traps
  <2>3. QED
    BY <2>1, <2>2, TrapPoisons DEF Traps
<1>2. CASE \E c \in Calls : EntersTraps(c)
  <2>1. PICK c \in Calls : EntersTraps(c)
    BY <1>2
  <2>2. StackSound(call, c)
    BY <2>1, HandleParts DEF EntersTraps, CallsSound, KindSound
  <2>3. QED
    BY <2>1, <2>2, TrapPoisons DEF EntersTraps
<1>3. CASE \E c \in Calls, x \in Index : ResourceDropTraps(c, x)
  <2>1. PICK c \in Calls, x \in Index : ResourceDropTraps(c, x)
    BY <1>3
  <2>2. StackSound(call, c)
    BY <2>1, RunningSays DEF ResourceDropTraps
  <2>3. \E sl, bad, R : Entered(c) \subseteq bad /\ Unwind(c, sl, bad, R)
    BY <2>1, Zenon DEF ResourceDropTraps
  <2>4. QED
    BY <2>2, <2>3, TrapPoisons
<1>4. CASE \E d \in Calls, x \in {0} \cup Index : ReturnTraps(d, x)
  <2>1. PICK d \in Calls, x \in {0} \cup Index : ReturnTraps(d, x)
    BY <1>4
  <2>2. StackSound(call, d)
    BY <2>1, RunningSays DEF ReturnTraps
  <2>3. QED
    BY <2>1, <2>2, TrapPoisons DEF ReturnTraps
<1>5. CASE \E c \in Calls, j \in Inst, form \in Forms, x \in Index : GuestCallTraps(c, j, form, x)
  <2>1. PICK c \in Calls, j \in Inst, form \in Forms, x \in Index : GuestCallTraps(c, j, form, x)
    BY <1>5
  <2>2. StackSound(call, c)
    BY <2>1, RunningSays DEF GuestCallTraps
  <2>3. QED
    BY <2>1, <2>2, TrapPoisons DEF GuestCallTraps
<1>6. CASE \E w \in Wrappers : HostDropTraps(w)
  BY <1>6 DEF HostDropTraps
<1>7. QED
  BY <1>1, <1>2, <1>3, <1>4, <1>5, <1>6 DEF Trap

LEMMA SyncReturnsLinked ==
  ASSUME HandleInv, Linked, NEW d \in Calls, NEW x \in {0} \cup Index, NEW y \in Index,
         SyncReturns(d, x, y)
  PROVE  Linked'
<1>1. GuestReturns(d, x, y, {d}, "done")
  BY DEF SyncReturns, GuestReturns
<1>2. QED
  BY <1>1, GuestReturnsLinked

LEMMA AsyncReturnsLinked ==
  ASSUME HandleInv, Linked, NEW d \in Calls, NEW x \in {0} \cup Index, NEW y \in Index,
         AsyncReturns(d, x, y)
  PROVE  Linked'
<1>1. CASE call[d].stack # {d}
  <2>1. GuestReturns(d, x, y, {d}, "done")
    BY <1>1 DEF AsyncReturns, GuestReturns
  <2>2. QED
    BY <2>1, GuestReturnsLinked
<1>2. CASE call[d].stack = {d}
  <2>1. GuestReturns(d, x, y, {}, "resolved")
    BY <1>2 DEF AsyncReturns, GuestReturns
  <2>2. QED
    BY <2>1, GuestReturnsLinked
<1>3. QED
  BY <1>1, <1>2

LEMMA LinkedInit == ASSUME Init PROVE Linked
<1>1. /\ slot = [i \in Inst |-> [x \in Index |-> [tenure |-> 0, entry |-> None]]]
      /\ call = [c \in Calls |-> Idle] /\ wrapper = [w \in Wrappers |-> Unmade]
  BY DEF Init
<1>2. /\ Idle.phase = "free" /\ Idle.lenders = {} /\ Idle.lent = {} /\ Idle.views = {}
      /\ Idle.borrows = 0 /\ ~Unmade.valid
  BY DEF Idle, Unmade
<1>3. \A i \in Inst, x \in Index : slot[i][x].entry.scope = 0
  BY <1>1, EntryTyped
<1>4. ASSUME NEW c \in Calls PROVE ScopeSlots(slot, c) = {}
  BY <1>3, SlotsAre, BoundsAssumption DEF ScopeSlots, Calls
<1>5. \A c \in Calls : CallLinked(slot, call, wrapper, c)
  BY <1>1, <1>2, <1>4 DEF CallLinked
<1>6. Viewed(call, wrapper)
  BY <1>1, <1>2 DEF Viewed
<1>7. BorrowsExact(slot, call)
  BY <1>1, <1>2, <1>4, FS_EmptySet DEF BorrowsExact
<1>8. QED
  BY <1>5, <1>6, <1>7 DEF Linked

BorrowInv == poisoned = {} => Linked

\* What is poisoned stays poisoned.
LEMMA PoisonStays == ASSUME [Next]_vars PROVE poisoned \subseteq poisoned'
<1>1. CASE \E c \in Calls : \/ Traps(c) \/ EntersTraps(c) \/ Enters(c)
                            \/ HostTail(c) \/ AsyncParks(c) \/ Deliver(c)
  BY <1>1 DEF Traps, EntersTraps, Enters, HostTail, AsyncParks, Deliver, Unwind
<1>2. CASE \E c \in Calls, x \in Index :
             ResourceNew(c, x) \/ ResourceDrop(c, x) \/ ResourceDropTraps(c, x)
  BY ZenonT(60), <1>2 DEF ResourceNew, ResourceDrop, ResourceDropTraps, Unwind
<1>3. CASE \E d \in Calls, x \in {0} \cup Index :
             \/ ReturnTraps(d, x) \/ ExportReturns(d, x)
             \/ \E y \in Index : SyncReturns(d, x, y) \/ AsyncReturns(d, x, y)
  <2>1. PICK d \in Calls, x \in {0} \cup Index :
          \/ ReturnTraps(d, x) \/ ExportReturns(d, x)
          \/ \E y \in Index : SyncReturns(d, x, y) \/ AsyncReturns(d, x, y)
    BY <1>3
  <2>2. ReturnTraps(d, x) \/ ExportReturns(d, x) => poisoned \subseteq poisoned'
    BY DEF ReturnTraps, ExportReturns, Unwind
  <2>3. \A y \in Index : SyncReturns(d, x, y) => poisoned' = poisoned
    BY Zenon DEF SyncReturns
  <2>4. \A y \in Index : AsyncReturns(d, x, y) => poisoned' = poisoned
    BY Zenon DEF AsyncReturns
  <2>5. QED
    BY <2>1, <2>2, <2>3, <2>4
<1>4. CASE \E d \in Calls, i \in Inst, owns, lent \in SUBSET Wrappers : HostCalls(d, i, owns, lent)
  BY <1>4 DEF HostCalls
<1>5. CASE \E w, v \in Wrappers : HostCallRefused(w, v)
  BY <1>5 DEF HostCallRefused
<1>6. CASE \E c, d \in Calls, j \in Inst, form \in Forms, x, y \in Index :
             \E kind \in {"sync", "async"} : GuestCalls(c, d, kind, j, form, x, y)
  BY <1>6 DEF GuestCalls
<1>7. CASE \E c \in Calls, j \in Inst, form \in Forms, x \in Index : GuestCallTraps(c, j, form, x)
  BY <1>7 DEF GuestCallTraps, Unwind
<1>8. CASE \E c, d \in Calls, form \in Forms, x \in Index, w \in Wrappers :
             ImportCall(c, d, form, x, w)
  BY <1>8 DEF ImportCall
<1>9. CASE \E d \in Calls, w \in {0} \cup Wrappers, y \in Index : ImportReturns(d, w, y)
  BY <1>9 DEF ImportReturns
<1>10. CASE \E w \in Wrappers : HostDrops(w) \/ HostDropTraps(w)
  BY <1>10 DEF HostDrops, HostDropTraps
<1>11. CASE UNCHANGED vars
  BY <1>11 DEF vars
<1>12. QED
  BY <1>1, <1>2, <1>3, <1>4, <1>5, <1>6, <1>7, <1>8, <1>9, <1>10, <1>11 DEF Next

LEMMA BorrowStep ==
  ASSUME HandleInv, ~HostLeaves, BorrowInv, [Next]_vars
  PROVE  BorrowInv'
<1> SUFFICES ASSUME ~Trap, poisoned = {}, Linked PROVE Linked'
  <2>1. CASE Trap
    BY <2>1, TrapSays DEF BorrowInv
  <2>2. poisoned \subseteq poisoned'
    BY PoisonStays
  <2>3. QED
    BY <2>1, <2>2 DEF BorrowInv
<1>1. CASE \E c \in Calls : \/ Traps(c) \/ EntersTraps(c) \/ Enters(c)
                            \/ HostTail(c) \/ AsyncParks(c) \/ Deliver(c)
  BY <1>1, EntersLinked, HostTailLinked, AsyncParksLinked, DeliverLinked DEF Trap
<1>2. CASE \E c \in Calls, x \in Index :
             ResourceNew(c, x) \/ ResourceDrop(c, x) \/ ResourceDropTraps(c, x)
  BY <1>2, ResourceNewLinked, ResourceDropLinked DEF Trap
<1>3. CASE \E d \in Calls, x \in {0} \cup Index :
             \/ ReturnTraps(d, x) \/ ExportReturns(d, x)
             \/ \E y \in Index : SyncReturns(d, x, y) \/ AsyncReturns(d, x, y)
  BY <1>3, ExportReturnsLinked, SyncReturnsLinked, AsyncReturnsLinked DEF Trap
<1>4. CASE \E d \in Calls, i \in Inst, owns, lent \in SUBSET Wrappers : HostCalls(d, i, owns, lent)
  BY <1>4, HostCallsLinked
<1>5. CASE \E w, v \in Wrappers : HostCallRefused(w, v)
  BY <1>5, HostCallRefusedLinked
<1>6. CASE \E c, d \in Calls, j \in Inst, form \in Forms, x, y \in Index :
             \E kind \in {"sync", "async"} : GuestCalls(c, d, kind, j, form, x, y)
  BY <1>6, GuestCallsLinked
<1>7. CASE \E c \in Calls, j \in Inst, form \in Forms, x \in Index : GuestCallTraps(c, j, form, x)
  BY <1>7 DEF Trap
<1>8. CASE \E c, d \in Calls, form \in Forms, x \in Index, w \in Wrappers :
             ImportCall(c, d, form, x, w)
  BY <1>8, ImportCallLinked
<1>9. CASE \E d \in Calls, w \in {0} \cup Wrappers, y \in Index : ImportReturns(d, w, y)
  BY <1>9, ImportReturnsLinked
<1>10. CASE \E w \in Wrappers : HostDrops(w) \/ HostDropTraps(w)
  BY <1>10, HostDropsLinked DEF Trap
<1>11. CASE UNCHANGED vars
  <2>1. slot' = slot /\ call' = call /\ wrapper' = wrapper
    BY <1>11 DEF vars
  <2>2. \A c \in Calls : CallLinked(slot, call, wrapper, c)
    BY DEF Linked
  <2>3. Viewed(call, wrapper)
    BY DEF Linked
  <2>4. BorrowsExact(slot, call)
    BY DEF Linked
  <2>5. QED
    BY <2>1, <2>2, <2>3, <2>4 DEF Linked
<1>12. QED
  BY <1>1, <1>2, <1>3, <1>4, <1>5, <1>6, <1>7, <1>8, <1>9, <1>10, <1>11 DEF Next

LEMMA BorrowsSafe == ASSUME ~HostLeaves PROVE Spec => [](HandleInv /\ BorrowInv)
<1>1. Init => HandleInv /\ BorrowInv
  BY HandleInit, LinkedInit DEF BorrowInv
<1>2. HandleInv /\ BorrowInv /\ [Next]_vars => (HandleInv /\ BorrowInv)'
  <2>1. SUFFICES ASSUME HandleInv, BorrowInv, [Next]_vars PROVE HandleInv' /\ BorrowInv'
    OBVIOUS
  <2>2. HandleInv'
    BY <2>1, HandleStep
  <2>3. BorrowInv'
    BY <2>1, BorrowStep
  <2>4. QED
    BY <2>2, <2>3
<1>3. QED
  BY <1>1, <1>2, PTL DEF Spec

\* What a handle in a table is of, is not destroyed.
LEMMA HandleProtects ==
  ASSUME HandleInv, Linked, NEW i \in Inst, NEW x \in Index, slot[i][x].entry # None
  PROVE  dtors[slot[i][x].entry.rep] = 0
<1> DEFINE e == slot[i][x].entry
<1>1. e \in HandleType /\ EntrySound(e) /\ e # None
  BY HandleParts DEF TableSound, TableType, SlotType
<1>2. CASE e.own
  <2>1. e.rep \in Reps /\ Owners(e.rep) # {}
    BY <1>2, OwnHandle
  <2>2. QED
    BY <2>1, HandleParts DEF Sole
<1>3. CASE ~e.own
  <2>1. e.scope \in Calls
    BY <1>1, <1>3 DEF EntrySound, HandleType
  <2>2. <<i, x>> \in ScopeSlots(slot, e.scope)
    BY SlotsAre DEF ScopeSlots
  <2>3. LinkedTo(slot, call, wrapper, e.scope, slot[<<i, x>>[1]][<<i, x>>[2]].entry.rep)
    BY <2>1, <2>2 DEF Linked, CallLinked
  <2>4. LinkedTo(slot, call, wrapper, e.scope, e.rep)
    BY <2>3, SlotsAre
  <2>5. LentBacked(e.scope)
    BY <2>1, AllBacked
  <2>6. Backed(e.rep)
    BY <2>4, <2>5 DEF LinkedTo, LentBacked
  <2>7. QED
    BY <2>6, BackedSays
<1>4. QED
  BY <1>2, <1>3

LEMMA ProtectsSays == ASSUME HandleInv, BorrowInv PROVE BorrowProtects
<1>1. SUFFICES ASSUME poisoned = {}
               PROVE  /\ \A s \in Slots : At(s) # None => dtors[At(s).rep] = 0
                      /\ \A c \in Calls : \A w \in call[c].lent \cup call[c].views :
                           dtors[wrapper[w].rep] = 0
  BY DEF BorrowProtects
<1>2. Linked
  BY <1>1 DEF BorrowInv
<1>3. \A s \in Slots : At(s) # None => dtors[At(s).rep] = 0
  <2>1. \A s \in Slots : s[1] \in Inst /\ s[2] \in Index /\ At(s) = slot[s[1]][s[2]].entry
    BY SlotsAre DEF At, Entry
  <2>2. QED
    BY <1>2, <2>1, HandleProtects
<1>4. ASSUME NEW c \in Calls, NEW w \in call[c].lent PROVE dtors[wrapper[w].rep] = 0
  BY <1>2, AllBacked, BackedSays DEF LentBacked
<1>5. ASSUME NEW c \in Calls, NEW w \in call[c].views PROVE dtors[wrapper[w].rep] = 0
  <2>1. PICK h \in call[c].lenders : SlotOf(slot, h).entry.rep = wrapper[w].rep
    BY <1>2 DEF Linked, CallLinked
  <2>2. Backed(wrapper[w].rep)
    BY <1>2, <2>1, AllBacked DEF LentBacked
  <2>3. QED
    BY <2>2, BackedSays
<1>6. QED
  BY <1>3, <1>4, <1>5

LEMMA LendsSay == ASSUME HandleInv, BorrowInv PROVE LendsExact
<1>1. ASSUME NEW i \in Inst, NEW x \in Index, Entry(i, x) # None
      PROVE  Entry(i, x).lends = Cardinality({c \in Calls : Handle(i, x) \in call[c].lenders})
  <2>1. slot[i][x].entry.lends = Cardinality(Lenders(slot, call, i, x))
    BY <1>1, HandleParts DEF LendsCounted, Entry
  <2>2. Lenders(slot, call, i, x) = {c \in Calls : Handle(i, x) \in call[c].lenders}
    BY DEF Lenders, Key, Handle
  <2>3. QED
    BY <2>1, <2>2 DEF Entry
<1>2. \A w \in Wrappers : wrapper[w].lends = Cardinality({c \in Calls : w \in call[c].lent})
  BY HandleParts DEF WrapperLends
<1>3. ASSUME NEW c \in Calls
      PROVE  LET n == Cardinality({s \in Slots : At(s).scope = c})
             IN  call[c].borrows >= n /\ (poisoned = {} => call[c].borrows = n)
  <2>1. {s \in Slots : At(s).scope = c} = ScopeSlots(slot, c)
    BY DEF ScopeSlots, At, Entry
  <2>2. call[c].borrows >= Cardinality(ScopeSlots(slot, c))
    BY HandleParts DEF ScopesSound
  <2>3. poisoned = {} => call[c].borrows = Cardinality(ScopeSlots(slot, c))
    BY DEF BorrowInv, Linked, BorrowsExact
  <2>4. QED
    BY <2>1, <2>2, <2>3
<1>4. QED
  BY <1>1, <1>2, <1>3 DEF LendsExact

LEMMA EscapeSays == ASSUME HandleInv PROVE NoEscape /\ PendingLent
<1>1. NoEscape
  <2>1. ASSUME NEW s \in Slots, At(s).scope # 0
        PROVE  call[At(s).scope].phase \in {"open", "failed", "lost"}
    <3>1. s[1] \in Inst /\ s[2] \in Index /\ At(s) = slot[s[1]][s[2]].entry
      BY SlotsAre DEF At, Entry
    <3>2. At(s).scope \in Calls
      BY <2>1, <3>1, HandleParts DEF TableType, SlotType, HandleType
    <3>3. s \in ScopeSlots(slot, At(s).scope)
      BY <3>1 DEF ScopeSlots
    <3>4. QED
      BY <3>2, <3>3, HandleParts DEF ScopesSound
  <2>2. QED
    BY <2>1 DEF NoEscape
<1>2. PendingLent
  BY HandleParts DEF PendingLent, WrappersSound
<1>3. QED
  BY <1>1, <1>2

\* No borrow outlives its call, the counters of lends and borrows are exact, a
\* drop waits for the last lend, and until an instance is poisoned no resource is
\* destroyed while a borrow of it can be used: where a host lets no import settle
\* while it lends on what the import was given.
THEOREM BorrowsAreSound == ~HostLeaves => (Spec => []BorrowsSound)
<1>1. HandleInv /\ BorrowInv => BorrowsSound
  BY ProtectsSays, LendsSay, EscapeSays DEF BorrowsSound
<1>2. ASSUME ~HostLeaves PROVE Spec => []BorrowsSound
  <2>1. Spec => [](HandleInv /\ BorrowInv)
    BY <1>2, BorrowsSafe
  <2>2. QED
    BY <1>1, <2>1, PTL
<1>3. QED
  BY <1>2
===============================================================================
