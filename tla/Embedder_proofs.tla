---------------------------- MODULE Embedder_proofs ---------------------------
(***************************************************************************)
(* What the embedder relies on.                                            *)
(*                                                                         *)
(* The two caches on the way from a component's bytes to its instances.    *)
(* The artifact cache: a hit is whole, for any number of processes, of     *)
(* failing calls and of crashes, and whatever entry was there before.  The *)
(* module cache: an instantiation runs its own modules, for any number of  *)
(* instantiations, plans, buffers and refused compilations.                *)
(*                                                                         *)
(* The stream handles: no operation of a writer is forgotten, and what the *)
(* handles answer is what was copied, for any chunks, operations and       *)
(* transfers.                                                              *)
(*                                                                         *)
(* The resolver of import versions: the order of the embedder's record is  *)
(* immaterial, for any keys.                                               *)
(*                                                                         *)
(* The asynchronous calls of a guest, for any set of calls and both        *)
(* suspension modes: what resolves is reported, and the contract is kept.  *)
(***************************************************************************)
EXTENDS ArtifactCaches, ModuleCache, StreamHandles, ImportVersions, SubtaskCalls,
        SequenceTheorems, TLAPS

(* -- the artifact cache ---------------------------------------------------- *)

\* No step needs the kinds of a file in full, only that "part" is one apart.
FileStates == {"none", "part", "whole", "oldLayout", "otherKey", "otherSha", "invalid"}

\* The entry never holds part of a file: a put fills its own directory, and
\* that is whole when it takes the entry's place.
EntryWhole == \A f \in Files : entry[f] # "part"

\* How far a put has filled its directory, by where it stands.
Filled(p) == CASE at[p] = "write plan" -> {"meta"}
               [] at[p] = "write adapter" -> {"meta", "plan"}
               [] at[p] \in {"clear", "rename"} -> Files
               [] OTHER -> {}
TmpFilled == \A p \in Procs : \A f \in Filled(p) : tmp[p][f] = "whole"

\* How much of an entry a get has read and accepted, by where it stands.
ReadOf(p) == CASE at[p] = "plan" -> {"meta"}
               [] at[p] = "adapter" -> {"meta", "plan"}
               [] at[p] = "hit" -> Files
               [] OTHER -> {}
SeenWhole == \A p \in Procs : \A f \in ReadOf(p) : seen[p][f] = "whole"

\* The inductive invariant, of which a hit is the last step.
CacheInv ==
  /\ entry \in [Files -> FileStates]
  /\ tmp \in [Procs -> [Files -> FileStates]] /\ seen \in [Procs -> [Files -> FileStates]]
  /\ at = [q \in Procs |-> at[q]]
  /\ EntryWhole /\ TmpFilled /\ SeenWhole

\* What a process has at its place is untouched by the moves of another, and
\* a move to a place where nothing is claimed needs no proof.
Resting == {"start", "stat", "match", "evict", "translate", "mkdir", "clean", "store", "fresh",
            "meta", "write meta"}

LEMMA CacheInitInv == CacheInit => CacheInv
BY DEF CacheInit, CacheInv, EntryWhole, TmpFilled, SeenWhole, Filled, ReadOf, Leftover, Files, FileStates,
       Empty

\* A step of p that goes to a resting place, and writes neither the entry's
\* files nor more than its own tmp and seen.
LEMMA Rests ==
  ASSUME CacheInv, NEW p \in Procs, NEW to \in Resting, Go(p, to),
         NEW d \in [Files -> FileStates], NEW g \in [Files -> FileStates],
         tmp' = [tmp EXCEPT ![p] = d], seen' = [seen EXCEPT ![p] = g],
         entry' \in [Files -> FileStates], EntryWhole'
  PROVE  CacheInv'
<1>1. /\ tmp' \in [Procs -> [Files -> FileStates]] /\ seen' \in [Procs -> [Files -> FileStates]]
      /\ at' = [q \in Procs |-> at'[q]]
  BY DEF CacheInv, Go
<1>2. \A q \in Procs : q # p => at'[q] = at[q] /\ tmp'[q] = tmp[q] /\ seen'[q] = seen[q]
  BY DEF CacheInv, Go
<1>3. at'[p] = to
  BY DEF CacheInv, Go
<1>4. Filled(p)' = {} /\ ReadOf(p)' = {}
  BY <1>3 DEF Filled, ReadOf, Resting
<1>5. \A q \in Procs : q # p => Filled(q)' = Filled(q) /\ ReadOf(q)' = ReadOf(q)
  BY <1>2 DEF Filled, ReadOf
<1>6. TmpFilled' /\ SeenWhole'
  BY <1>2, <1>4, <1>5 DEF CacheInv, TmpFilled, SeenWhole
<1>7. QED
  BY <1>1, <1>6 DEF CacheInv

\* A step of p to any place, with what the place claims of its own.
LEMMA Moves ==
  ASSUME CacheInv, NEW p \in Procs, NEW to, Go(p, to),
         NEW d \in [Files -> FileStates], NEW g \in [Files -> FileStates],
         tmp' = [tmp EXCEPT ![p] = d], seen' = [seen EXCEPT ![p] = g],
         entry' \in [Files -> FileStates], EntryWhole',
         \A f \in Filled(p)' : d[f] = "whole",
         \A f \in ReadOf(p)' : g[f] = "whole"
  PROVE  CacheInv'
<1>1. /\ tmp' \in [Procs -> [Files -> FileStates]] /\ seen' \in [Procs -> [Files -> FileStates]]
      /\ at' = [q \in Procs |-> at'[q]]
  BY DEF CacheInv, Go
<1>2. \A q \in Procs : q # p => at'[q] = at[q] /\ tmp'[q] = tmp[q] /\ seen'[q] = seen[q]
  BY DEF CacheInv, Go
<1>3. tmp'[p] = d /\ seen'[p] = g
  BY DEF CacheInv
<1>5. \A q \in Procs : q # p => Filled(q)' = Filled(q) /\ ReadOf(q)' = ReadOf(q)
  BY <1>2 DEF Filled, ReadOf
<1>6. TmpFilled' /\ SeenWhole'
  BY <1>2, <1>3, <1>5 DEF CacheInv, TmpFilled, SeenWhole
<1>7. QED
  BY <1>1, <1>6 DEF CacheInv

\* What a process holds, as the lemmas above want it.
LEMMA Own ==
  ASSUME CacheInv, NEW p \in Procs
  PROVE  /\ tmp[p] \in [Files -> FileStates] /\ seen[p] \in [Files -> FileStates]
         /\ tmp = [tmp EXCEPT ![p] = tmp[p]] /\ seen = [seen EXCEPT ![p] = seen[p]]
         /\ Empty \in [Files -> FileStates]
BY DEF CacheInv, Empty, FileStates

LEMMA FaultInv ==
  ASSUME CacheInv, NEW p \in Procs, NEW to \in Resting, Fault(p, to)
  PROVE  CacheInv'
<1>1. Go(p, to) /\ entry' = entry /\ tmp' = tmp /\ seen' = seen
  BY DEF Fault
<1>2. entry' \in [Files -> FileStates] /\ EntryWhole'
  BY <1>1 DEF CacheInv, EntryWhole
<1>3. QED
  BY <1>1, <1>2, Own, Rests

\* Steps that stay, or go to rest, without a file of the entry gained.
LEMMA RemoveInv ==
  ASSUME CacheInv, NEW p \in Procs, NEW to, RemoveStep(p, to),
         to \in Resting \/ (to = "rename" /\ at[p] = "clear")
  PROVE  CacheInv'
<1>1. tmp' = tmp /\ seen' = seen /\ entry' \in [Files -> FileStates] /\ EntryWhole'
  BY DEF RemoveStep, CacheInv, EntryWhole, FileStates
<1>2. CASE at' = at
  BY ZenonT(60), <1>1, <1>2 DEF CacheInv, TmpFilled, SeenWhole, Filled, ReadOf
<1>3. CASE Go(p, to)
  <2>1. CASE to \in Resting
    BY <1>1, <1>3, <2>1, Own, Rests
  <2>2. CASE to = "rename" /\ at[p] = "clear"
    <3>1. at'[p] = "rename"
      BY <1>3, <2>2 DEF Go, CacheInv
    <3>2. Filled(p) = Files /\ Filled(p)' = Files /\ ReadOf(p)' = {}
      BY <2>2, <3>1 DEF Filled, ReadOf
    <3>3. \A f \in Filled(p)' : tmp[p][f] = "whole"
      BY <3>2 DEF CacheInv, TmpFilled
    <3>4. QED
      BY <1>1, <1>3, <3>2, <3>3, Own, Moves
  <2>3. QED
    BY <2>1, <2>2
<1>4. QED
  BY <1>2, <1>3 DEF RemoveStep

\* Where a get and a put stand, file by file.
LEMMA Places ==
  /\ After("meta") = "plan" /\ After("plan") = "adapter" /\ After("adapter") = "hit"
  /\ Writing["meta"] = "write meta" /\ NextWrite["meta"] = "write plan"
  /\ Writing["plan"] = "write plan" /\ NextWrite["plan"] = "write adapter"
  /\ Writing["adapter"] = "write adapter" /\ NextWrite["adapter"] = "clear"
  /\ Files = {"meta", "plan", "adapter"}
BY DEF After, Writing, NextWrite, Files

LEMMA ReadInv ==
  ASSUME CacheInv, NEW p \in Procs, NEW f \in Files, ReadFile(p, f)
  PROVE  CacheInv'
<1>1. CASE Fault(p, "evict")
  BY <1>1, FaultInv DEF Resting
<1>2. CASE /\ Go(p, IF Accepts(f, entry[f]) THEN After(f) ELSE "evict")
           /\ seen' = [seen EXCEPT ![p][f] = entry[f]]
           /\ NoFault /\ UNCHANGED <<present, entry, tmp>>
  <2> DEFINE g == [seen[p] EXCEPT ![f] = entry[f]]
             to == IF Accepts(f, entry[f]) THEN After(f) ELSE "evict"
  <2>1. /\ g \in [Files -> FileStates] /\ seen' = [seen EXCEPT ![p] = g]
        /\ g[f] = entry[f] /\ \A h \in Files : h # f => g[h] = seen[p][h]
    BY <1>2 DEF CacheInv
  <2> HIDE DEF g
  <2>2. entry' \in [Files -> FileStates] /\ EntryWhole' /\ tmp' = tmp
    BY <1>2 DEF CacheInv, EntryWhole
  <2>3. CASE ~Accepts(f, entry[f])
    <3>1. Go(p, "evict") /\ "evict" \in Resting
      BY <1>2, <2>3 DEF Resting
    <3>2. tmp' = [tmp EXCEPT ![p] = tmp[p]] /\ tmp[p] \in [Files -> FileStates]
      BY <2>2, Own
    <3>3. QED
      BY <2>1, <2>2, <3>1, <3>2, Rests
  <2>4. CASE Accepts(f, entry[f])
    <3>1. entry[f] = "whole"
      BY <2>4 DEF Accepts, CacheInv, EntryWhole
    <3>2. at'[p] = After(f)
      BY <1>2, <2>4 DEF Go, CacheInv
    <3>3. Filled(p)' = {}
      BY <3>2, Places DEF Filled
    <3>4. \A h \in ReadOf(p)' : h = f \/ h \in ReadOf(p)
      BY ZenonT(60), <3>2, Places DEF ReadFile, ReadOf
    <3>5. ReadOf(p)' \subseteq Files
      BY <3>2, Places DEF ReadOf
    <3>6. \A h \in ReadOf(p)' : g[h] = "whole"
      BY <2>1, <3>1, <3>4, <3>5 DEF CacheInv, SeenWhole
    <3>7. tmp' = [tmp EXCEPT ![p] = tmp[p]] /\ tmp[p] \in [Files -> FileStates] /\ Go(p, After(f))
      BY <1>2, <2>2, <2>4, Own
    <3>8. \A h \in Filled(p)' : tmp[p][h] = "whole"
      BY <3>3
    <3>9. QED
      BY ZenonT(60), <2>1, <2>2, <3>6, <3>7, <3>8, Moves
  <2>5. QED
    BY <2>3, <2>4
<1>3. QED
  BY <1>1, <1>2 DEF ReadFile

LEMMA WriteInv ==
  ASSUME CacheInv, NEW p \in Procs, NEW f \in Files, WriteFile(p, f)
  PROVE  CacheInv'
<1>0. at[p] = Writing[f]
  BY DEF WriteFile
<1>1. CASE Fault(p, "clean")
  BY <1>1, FaultInv DEF Resting
<1>2. ASSUME NEW what \in {"part", "whole"}, PutFile(p, f, what), seen' = seen,
             \/ what = "part" /\ at' = at
             \/ what = "whole" /\ Go(p, NextWrite[f])
      PROVE  CacheInv'
  <2> DEFINE d == [tmp[p] EXCEPT ![f] = what]
             to == IF what = "part" THEN at[p] ELSE NextWrite[f]
  <2>1. /\ d \in [Files -> FileStates] /\ tmp' = [tmp EXCEPT ![p] = d]
        /\ d[f] = what /\ \A h \in Files : h # f => d[h] = tmp[p][h]
    BY <1>2 DEF CacheInv, PutFile, FileStates
  <2>2. entry' \in [Files -> FileStates] /\ EntryWhole'
    BY <1>2 DEF CacheInv, EntryWhole, PutFile
  <2>3. Go(p, to) /\ at'[p] = to
    <3>1. CASE what = "part" /\ at' = at
      <4>1. at = [at EXCEPT ![p] = at[p]]
        BY DEF CacheInv
      <4>2. QED
        BY <3>1, <4>1 DEF Go
    <3>2. CASE what = "whole" /\ Go(p, NextWrite[f])
      BY <3>2 DEF Go, CacheInv
    <3>3. QED
      BY <1>2, <3>1, <3>2
  <2>4. ReadOf(p)' = {}
    BY <1>0, <2>3, Places DEF ReadOf
  <2>5. /\ f \notin Filled(p) /\ Filled(p)' \subseteq Files
        /\ \A h \in Filled(p)' : h \in Filled(p) \/ (h = f /\ what = "whole")
    <3>1. CASE f = "meta"
      BY <1>0, <2>3, <3>1, Places DEF Filled
    <3>2. CASE f = "plan"
      BY ZenonT(60), <1>0, <2>3, <3>2, Places DEF Filled
    <3>3. CASE f = "adapter"
      BY <1>0, <2>3, <3>3, Places DEF Filled
    <3>4. QED
      BY <3>1, <3>2, <3>3, Places
  <2>6. \A h \in Filled(p)' : d[h] = "whole"
    BY <2>1, <2>5 DEF CacheInv, TmpFilled
  <2>7. QED
    BY <1>2, <2>1, <2>2, <2>3, <2>4, <2>6, Own, Moves
<1>3. QED
  BY <1>1, <1>2 DEF WriteFile

LEMMA RenameInv == ASSUME CacheInv, NEW p \in Procs, Rename(p) PROVE CacheInv'
<1>1. CASE Fault(p, "clean")
  BY <1>1, FaultInv DEF Resting
<1>2. CASE /\ entry' = tmp[p] /\ tmp' = [tmp EXCEPT ![p] = Empty]
           /\ Go(p, "fresh") /\ UNCHANGED seen
  <2>1. Filled(p) = Files
    BY DEF Rename, Filled
  <2>2. entry' \in [Files -> FileStates] /\ EntryWhole'
    BY <1>2, <2>1 DEF CacheInv, TmpFilled, EntryWhole
  <2>3. QED
    BY <1>2, <2>2, Own, Rests DEF Resting
<1>3. CASE Go(p, "clean") /\ UNCHANGED <<present, entry, tmp, seen>>
  <2>1. entry' \in [Files -> FileStates] /\ EntryWhole'
    BY <1>3 DEF CacheInv, EntryWhole
  <2>2. QED
    BY <1>3, <2>1, Own, Rests DEF Resting
<1>4. QED
  BY <1>1, <1>2, <1>3 DEF Rename

LEMMA MatchInv == ASSUME CacheInv, NEW p \in Procs, Match(p) PROVE CacheInv'
<1>1. CASE Fault(p, "evict")
  BY <1>1, FaultInv DEF Resting
<1>2. CASE UNCHANGED <<present, entry, tmp>>
  <2>1. entry' \in [Files -> FileStates] /\ EntryWhole'
    BY <1>2 DEF CacheInv, EntryWhole
  <2>2. CASE Go(p, "hit") /\ seen' = [seen EXCEPT ![p] = entry]
                          /\ \A f \in Files : Accepts(f, entry[f])
    <3>1. \A f \in Files : entry[f] = "whole"
      BY <2>2 DEF Accepts, CacheInv, EntryWhole
    <3>2. at'[p] = "hit"
      BY <2>2 DEF Go, CacheInv
    <3>3. Filled(p)' = {} /\ ReadOf(p)' = Files
      BY <3>2 DEF Filled, ReadOf
    <3>4. tmp' = [tmp EXCEPT ![p] = tmp[p]] /\ tmp[p] \in [Files -> FileStates]
      BY <1>2, Own
    <3>5. \A f \in Filled(p)' : tmp[p][f] = "whole"
      BY <3>3
    <3>6. \A f \in ReadOf(p)' : entry[f] = "whole"
      BY <3>1, <3>3
    <3>7. entry \in [Files -> FileStates]
      BY DEF CacheInv
    <3>8. QED
      BY <2>1, <2>2, <3>4, <3>5, <3>6, <3>7, Moves
  <2>3. CASE seen' = seen /\ (Go(p, "translate") \/ Go(p, "evict"))
    BY <1>2, <2>1, <2>3, Own, Rests DEF Resting
  <2>4. CASE Fault(p, "evict")
    BY <2>4, FaultInv DEF Resting
  <2>5. QED
    BY <2>2, <2>3, <2>4 DEF Match
<1>3. QED
  BY <1>1, <1>2 DEF Match

\* The steps that write nothing but the place, and at most empty what the
\* process holds.
LEMMA PlainInv ==
  ASSUME CacheInv, NEW p \in Procs,
         \/ BeginLoad(p) \/ Stat(p) \/ Translate(p) \/ MakeTmp(p) \/ Clean(p) \/ Die(p)
  PROVE  CacheInv'
<1>1. ASSUME NEW to \in Resting, Fault(p, to) PROVE CacheInv'
  BY <1>1, FaultInv
<1>2. ASSUME NEW to \in Resting, Go(p, to), entry' = entry,
             tmp' = tmp \/ tmp' = [tmp EXCEPT ![p] = Empty],
             seen' = seen \/ seen' = [seen EXCEPT ![p] = Empty]
      PROVE  CacheInv'
  <2>1. entry' \in [Files -> FileStates] /\ EntryWhole'
    BY <1>2 DEF CacheInv, EntryWhole
  <2>2. QED
    BY <1>2, <2>1, Own, Rests
<1>3. /\ BeginLoad(p) => CacheInv'
  BY <1>2 DEF BeginLoad, Resting
<1>4. Stat(p) => CacheInv'
  BY <1>1, <1>2 DEF Stat, Resting
<1>5. Translate(p) => CacheInv'
  BY <1>2 DEF Translate, Resting
<1>6. MakeTmp(p) => CacheInv'
  BY <1>1, <1>2 DEF MakeTmp, Resting
<1>7. Clean(p) => CacheInv'
  BY <1>1, <1>2 DEF Clean, Resting
<1>8. Die(p) => CacheInv'
  BY <1>2 DEF Die, Resting
<1>9. QED
  BY <1>3, <1>4, <1>5, <1>6, <1>7, <1>8

LEMMA EvictInv == ASSUME CacheInv, NEW p \in Procs, Evict(p) PROVE CacheInv'
<1>1. CASE Fault(p, "translate")
  BY <1>1, FaultInv DEF Resting
<1>2. CASE RemoveStep(p, "translate")
  BY <1>2, RemoveInv DEF Resting
<1>3. CASE entry' = Empty /\ Go(p, "translate") /\ UNCHANGED <<tmp, seen>>
  <2>1. entry' \in [Files -> FileStates] /\ EntryWhole'
    BY <1>3 DEF EntryWhole, Empty, FileStates
  <2>2. QED
    BY <1>3, <2>1, Own, Rests DEF Resting
<1>4. QED
  BY <1>1, <1>2, <1>3 DEF Evict

LEMMA ClearInv == ASSUME CacheInv, NEW p \in Procs, Clear(p) PROVE CacheInv'
<1>1. CASE Fault(p, "clean")
  BY <1>1, FaultInv DEF Resting
<1>2. CASE RemoveStep(p, "rename")
  BY <1>2, RemoveInv DEF Clear
<1>3. QED
  BY <1>1, <1>2 DEF Clear

LEMMA StoreInv == ASSUME CacheInv, NEW p \in Procs, StoreEntry(p) PROVE CacheInv'
<1>1. CASE Fault(p, "fresh")
  BY <1>1, FaultInv DEF Resting
<1>2. CASE entry' = [f \in Files |-> "whole"] /\ Go(p, "fresh") /\ UNCHANGED <<tmp, seen>>
  <2>1. entry' \in [Files -> FileStates] /\ EntryWhole'
    BY <1>2 DEF EntryWhole, FileStates
  <2>2. QED
    BY <1>2, <2>1, Own, Rests DEF Resting
<1>3. QED
  BY <1>1, <1>2 DEF StoreEntry

\* The invariant holds in every state of every run.
THEOREM CacheSafe == CacheSpec => []CacheInv
<1>1. CacheInv /\ UNCHANGED cacheVars => CacheInv'
  <2>1. ASSUME CacheInv, UNCHANGED cacheVars
        PROVE  /\ entry' = entry /\ tmp' = tmp /\ seen' = seen /\ at' = at
               /\ \A p \in Procs : Filled(p)' = Filled(p) /\ ReadOf(p)' = ReadOf(p)
    BY <2>1 DEF cacheVars, Filled, ReadOf
  <2>2. QED
    BY <2>1 DEF CacheInv, EntryWhole, TmpFilled, SeenWhole
<1>2. ASSUME CacheInv, CacheNext PROVE CacheInv'
  <2>1. PICK p \in Procs : LoadStep(p) \/ Die(p)
    BY <1>2 DEF CacheNext
  <2>2. QED
    BY <1>2, <2>1, PlainInv, MatchInv, EvictInv, ClearInv, RenameInv, StoreInv, ReadInv, WriteInv
    DEF LoadStep
<1>3. QED
  BY CacheInitInv, <1>1, <1>2, PTL DEF CacheSpec

\* The artifacts a get returns are of one entry that a put completed, none of
\* them cut short (DirCache.get, DirCache.put, WebCache).
THEOREM HitsAreWhole == CacheSpec => []HitIsWhole
<1>1. CacheInv => HitIsWhole
  BY DEF CacheInv, SeenWhole, ReadOf, HitIsWhole
<1>2. QED
  BY <1>1, CacheSafe, PTL

(* -- the module cache ------------------------------------------------------ *)

Job == [plan: Plans, bytes: Binaries, state: {"running", "compiled", "rejected", "failed"}]

\* The inductive invariant.  A slot names a job of its own plan that has not
\* been forgotten; what an instantiation uses is its own, whatever it does.
Slots == \A pl \in Plans : slot[pl] # 0 =>
            jobs[slot[pl]].plan = pl /\ jobs[slot[pl]].state # "failed"
Uses == \A i \in Insts :
          /\ doing[i] = "wait" => uses[i] # 0
          /\ uses[i] # 0 => /\ jobs[uses[i]].plan = given[i].plan
                            /\ jobs[uses[i]].bytes = given[i].bytes
                            /\ doing[i] = "failed" => jobs[uses[i]].state = "failed"
Fits == \A c \in DOMAIN jobs : jobs[c].bytes \notin Misfit
ModuleInv == ModuleTypeOK /\ Slots /\ Uses /\ Fits

\* The jobs so far keep their plan and buffers when one is added.
LEMMA JobAdded ==
  ASSUME NEW s \in Seq(Job), NEW e \in Job
  PROVE  /\ Append(s, e) \in Seq(Job) /\ Len(Append(s, e)) = Len(s) + 1
         /\ \A c \in 1..Len(s) : Append(s, e)[c] = s[c]
         /\ Append(s, e)[Len(s) + 1] = e
         /\ DOMAIN s = 1..Len(s) /\ DOMAIN Append(s, e) = 1..(Len(s) + 1)
BY AppendProperties

JobStates == {"running", "compiled", "rejected", "failed"}
Changed(s, c, st) == [s EXCEPT ![c].state = st]

LEMMA JobChanged ==
  ASSUME NEW s \in Seq(Job), NEW c \in DOMAIN s, NEW st \in JobStates
  PROVE  /\ Changed(s, c, st) \in Seq(Job) /\ Len(Changed(s, c, st)) = Len(s)
         /\ DOMAIN Changed(s, c, st) = DOMAIN s /\ DOMAIN s = 1..Len(s)
         /\ Changed(s, c, st)[c].state = st
         /\ \A d \in DOMAIN s : /\ Changed(s, c, st)[d].plan = s[d].plan
                                /\ Changed(s, c, st)[d].bytes = s[d].bytes
                                /\ d # c => Changed(s, c, st)[d] = s[d]
<1> DEFINE u == Changed(s, c, st)
<1>1. DOMAIN s = 1..Len(s) /\ Len(s) \in Nat /\ \A d \in 1..Len(s) : s[d] \in Job
  BY ElementOfSeq, LenProperties
<1>2. u = [d \in 1..Len(s) |-> IF d = c THEN [s[c] EXCEPT !.state = st] ELSE s[d]]
  BY <1>1 DEF Changed
<1>3. [s[c] EXCEPT !.state = st] \in Job
  BY <1>1 DEF Job, JobStates
<1>4. u \in Seq(Job) /\ Len(u) = Len(s)
  BY <1>1, <1>2, <1>3, IsASeq, LenProperties
<1>5. QED
  BY SMTT(40), <1>1, <1>2, <1>4 DEF Job

\* The type of the jobs, as the lemmas above have it.
LEMMA JobsTyped == ModuleTypeOK => jobs \in Seq(Job)
BY DEF ModuleTypeOK, Job

\* Init establishes the invariant.
LEMMA ModuleInitInv == ModuleInit => ModuleInv
BY ModulesAssumption, EmptySeq DEF ModuleInit, ModuleInv, ModuleTypeOK, Slots, Uses, Fits, None

LEMMA CompileInv == ASSUME ModuleInv, NEW i \in Insts, Compile(i) PROVE ModuleInv'
<1> USE DEF ModuleInv
<1>0. given[i] \in [plan: Plans, bytes: Binaries] /\ given' = given /\ denied' = denied
      /\ doing[i] = "start" /\ Len(jobs) \in Nat /\ DOMAIN jobs = 1..Len(jobs)
  BY LenProperties DEF ModuleTypeOK, Compile
<1>1. CASE Usable(i) /\ Await(i, slot[given[i].plan]) /\ UNCHANGED <<slot, jobs>>
  BY SMTT(40), <1>0, <1>1 DEF ModuleTypeOK, Slots, Uses, Fits, Usable, Await
<1>2. CASE /\ ~Usable(i) /\ given[i].bytes \notin Misfit
           /\ jobs' = Append(jobs, [plan |-> given[i].plan, bytes |-> given[i].bytes,
                                    state |-> "running"])
           /\ slot' = [slot EXCEPT ![given[i].plan] = Len(jobs')]
           /\ Await(i, Len(jobs'))
  <2> DEFINE e == [plan |-> given[i].plan, bytes |-> given[i].bytes, state |-> "running"]
             n == Len(jobs) + 1
  <2>0. e \in Job
    BY <1>0 DEF Job
  <2>1. /\ jobs' \in Seq(Job) /\ Len(jobs') = n /\ DOMAIN jobs' = 1..n
        /\ \A c \in 1..Len(jobs) : jobs'[c] = jobs[c]
        /\ jobs'[n] = e
    BY <1>0, <1>2, <2>0, JobsTyped, JobAdded
  <2>2. /\ slot' = [slot EXCEPT ![given[i].plan] = n]
        /\ doing' = [doing EXCEPT ![i] = "wait"] /\ uses' = [uses EXCEPT ![i] = n]
    BY <1>2, <2>1 DEF Await
  <2>3. ModuleTypeOK'
    BY SMTT(40), <1>0, <2>1, <2>2 DEF ModuleTypeOK, Job
  <2>4. Slots'
    BY SMTT(40), <1>0, <2>1, <2>2 DEF ModuleTypeOK, Slots
  <2>5. Uses'
    BY <1>0, <2>1, <2>2 DEF ModuleTypeOK, Uses
  <2>6. Fits'
    BY <1>0, <1>2, <2>1 DEF Fits
  <2>7. QED
    BY <2>3, <2>4, <2>5, <2>6
<1>3. CASE /\ ~Usable(i) /\ given[i].bytes \in Misfit
           /\ doing' = [doing EXCEPT ![i] = "failed"]
           /\ UNCHANGED <<slot, jobs, uses>>
  <2>1. uses[i] \in 0..Len(jobs)
    BY DEF ModuleTypeOK
  <2>2. uses[i] # 0 => jobs[uses[i]].bytes \notin Misfit
    BY <1>0, <2>1 DEF Fits
  <2>3. uses[i] = 0
    BY <1>3, <2>2 DEF Uses
  <2>4. QED
    BY <1>0, <1>3, <2>3 DEF ModuleTypeOK, Slots, Uses, Fits
<1>4. QED
  BY <1>1, <1>2, <1>3 DEF Compile

LEMMA SettleInv == ASSUME ModuleInv, NEW c \in DOMAIN jobs, Settle(c) PROVE ModuleInv'
<1> USE DEF ModuleInv
<1>0. PICK st \in {"compiled", "rejected"} : jobs' = Changed(jobs, c, st)
  BY DEF Settle, Changed
<1>1. /\ given' = given /\ slot' = slot /\ doing' = doing /\ uses' = uses
      /\ jobs[c].state = "running"
  BY DEF Settle
<1>d. denied' \in 0..MaxRefused
  <2>1. denied \in 0..MaxRefused /\ MaxRefused \in Nat
    BY ModulesAssumption DEF ModuleTypeOK
  <2>2. denied' = denied \/ (denied < MaxRefused /\ denied' = denied + 1)
    BY DEF Settle
  <2>3. QED
    BY <2>1, <2>2
<1>2. /\ jobs' \in Seq(Job) /\ Len(jobs') = Len(jobs) /\ DOMAIN jobs' = DOMAIN jobs
      /\ DOMAIN jobs = 1..Len(jobs) /\ jobs'[c].state = st
      /\ \A d \in DOMAIN jobs : /\ jobs'[d].plan = jobs[d].plan /\ jobs'[d].bytes = jobs[d].bytes
                                /\ d # c => jobs'[d] = jobs[d]
  <2>1. st \in JobStates
    BY DEF JobStates
  <2>2. QED
    BY <1>0, <2>1, JobsTyped, JobChanged
<1>3. ModuleTypeOK'
  <2>1. /\ given \in [Insts -> [plan: Plans, bytes: Binaries]] /\ slot \in [Plans -> 0..Len(jobs)]
        /\ doing \in [Insts -> {"start", "wait", "done", "failed"}]
        /\ uses \in [Insts -> 0..Len(jobs)]
    BY DEF ModuleTypeOK
  <2>2. jobs' \in Seq([plan: Plans, bytes: Binaries, state: JobStates])
    BY <1>2 DEF Job, JobStates
  <2>3. QED
    BY <1>1, <1>2, <1>d, <2>1, <2>2 DEF ModuleTypeOK, JobStates
<1>4. Slots'
  BY SMTT(40), <1>1, <1>2 DEF ModuleTypeOK, Slots
<1>5. Uses'
  <2> SUFFICES ASSUME NEW i \in Insts
               PROVE  /\ doing[i] = "wait" => uses[i] # 0
                      /\ uses[i] # 0 => /\ jobs'[uses[i]].plan = given[i].plan
                                        /\ jobs'[uses[i]].bytes = given[i].bytes
                                        /\ doing[i] = "failed" => jobs'[uses[i]].state = "failed"
    BY <1>1 DEF Uses
  <2>1. uses[i] # 0 => uses[i] \in DOMAIN jobs
    BY <1>2 DEF ModuleTypeOK
  <2>2. uses[i] # 0 /\ jobs[uses[i]].state = "failed" => jobs'[uses[i]].state = "failed"
    BY <1>1, <1>2, <2>1
  <2>3. QED
    BY <1>2, <2>1, <2>2 DEF Uses
<1>6. Fits'
  BY <1>2 DEF Fits
<1>7. QED
  BY <1>3, <1>4, <1>5, <1>6

LEMMA ForgetInv == ASSUME ModuleInv, NEW c \in DOMAIN jobs, Forget(c) PROVE ModuleInv'
<1> USE DEF ModuleInv
<1>1. /\ given' = given /\ doing' = doing /\ uses' = uses /\ denied' = denied
      /\ slot' = [pl \in Plans |-> IF slot[pl] = c THEN 0 ELSE slot[pl]]
      /\ jobs' = Changed(jobs, c, "failed")
  BY DEF Forget, Forgotten, Changed
<1>2. /\ jobs' \in Seq(Job) /\ Len(jobs') = Len(jobs) /\ DOMAIN jobs' = DOMAIN jobs
      /\ DOMAIN jobs = 1..Len(jobs) /\ jobs'[c].state = "failed"
      /\ \A d \in DOMAIN jobs : /\ jobs'[d].plan = jobs[d].plan /\ jobs'[d].bytes = jobs[d].bytes
                                /\ d # c => jobs'[d] = jobs[d]
  <2>1. "failed" \in JobStates
    BY DEF JobStates
  <2>2. QED
    BY <1>1, <2>1, JobsTyped, JobChanged
<1>3. ModuleTypeOK'
  <2>1. /\ given \in [Insts -> [plan: Plans, bytes: Binaries]] /\ slot \in [Plans -> 0..Len(jobs)]
        /\ doing \in [Insts -> {"start", "wait", "done", "failed"}]
        /\ uses \in [Insts -> 0..Len(jobs)] /\ denied \in 0..MaxRefused
    BY DEF ModuleTypeOK
  <2>2. jobs' \in Seq([plan: Plans, bytes: Binaries, state: JobStates])
    BY <1>2 DEF Job, JobStates
  <2>3. slot' \in [Plans -> 0..Len(jobs')]
    <3>1. \A pl \in Plans : slot[pl] \in 0..Len(jobs) /\ 0 \in 0..Len(jobs)
      BY <2>1, <1>2, LenProperties
    <3>2. QED
      BY <1>1, <1>2, <3>1
  <2>4. QED
    BY <1>1, <1>2, <2>1, <2>2, <2>3 DEF ModuleTypeOK, JobStates
<1>4. Slots'
  BY SMTT(40), <1>1, <1>2 DEF ModuleTypeOK, Slots
<1>5. Uses'
  <2> SUFFICES ASSUME NEW i \in Insts
               PROVE  /\ doing[i] = "wait" => uses[i] # 0
                      /\ uses[i] # 0 => /\ jobs'[uses[i]].plan = given[i].plan
                                        /\ jobs'[uses[i]].bytes = given[i].bytes
                                        /\ doing[i] = "failed" => jobs'[uses[i]].state = "failed"
    BY <1>1 DEF Uses
  <2>1. uses[i] # 0 => uses[i] \in DOMAIN jobs
    BY <1>2 DEF ModuleTypeOK
  <2>2. uses[i] # 0 /\ jobs[uses[i]].state = "failed" => jobs'[uses[i]].state = "failed"
    BY <1>1, <1>2, <2>1
  <2>3. QED
    BY <1>2, <2>1, <2>2 DEF Uses
<1>6. Fits'
  BY <1>2 DEF Fits
<1>7. QED
  BY <1>3, <1>4, <1>5, <1>6

LEMMA AwakenInv == ASSUME ModuleInv, NEW i \in Insts, Awaken(i) PROVE ModuleInv'
BY DEF ModuleInv, ModuleTypeOK, Slots, Uses, Fits, Awaken

LEMMA RetryInv == ASSUME ModuleInv, NEW i \in Insts, Retry(i) PROVE ModuleInv'
BY DEF ModuleInv, ModuleTypeOK, Slots, Uses, Fits, Retry

\* The invariant holds in every state of every run.
THEOREM ModulesSafe == ModuleSpec => []ModuleInv
<1>1. ModuleInv /\ UNCHANGED moduleVars => ModuleInv'
  BY DEF ModuleInv, ModuleTypeOK, Slots, Uses, Fits, moduleVars
<1>2. ModuleInv /\ [ModuleNext]_moduleVars => ModuleInv'
  BY <1>1, CompileInv, AwakenInv, RetryInv, SettleInv, ForgetInv DEF ModuleNext
<1>3. QED
  BY ModuleInitInv, <1>2, PTL DEF ModuleSpec

\* What an instantiation runs is compiled from its own plan and buffers, and
\* no cache slot keeps serving what it has failed with
\* (Executor.compileModules).
THEOREM RunsItsOwn == ModuleSpec => []OwnModulesOnly
<1>1. ModuleInv => OwnModulesOnly
  <2> SUFFICES ASSUME ModuleInv, NEW i \in Insts, doing[i] # "start", uses[i] # 0
               PROVE  /\ jobs[uses[i]].plan = given[i].plan
                      /\ jobs[uses[i]].bytes = given[i].bytes
                      /\ doing[i] = "failed" => slot[jobs[uses[i]].plan] # uses[i]
    BY DEF OwnModulesOnly
  <2>1. given[i].plan \in Plans
    BY DEF ModuleInv, ModuleTypeOK
  <2>2. QED
    BY <2>1 DEF ModuleInv, Slots, Uses
<1>2. QED
  BY <1>1, ModulesSafe, PTL

(* -- the embedder's stream handles ------------------------------------------ *)

Writers ==
  [pc : {"none", "queued", "preparing", "low"}, cancelled : BOOLEAN, closed : BOOLEAN,
   closing : BOOLEAN, kind : {"write", "all", "direct"}, len : Nat, owned : BOOLEAN,
   starts : Nat, made : Nat, released : Nat, kept : Nat, told : Nat]
LowStreams ==
  [dropped : BOOLEAN, poisoned : BOOLEAN, w : {"none", "parked", "settled"},
   r : {"none", "parked", "settled"}, len : Nat, got : Nat, room : Nat, put : Nat,
   taken : Nat, cause : {"none", "closed", "dropped", "trap"}]

StreamHandleTypes ==
  /\ source \in {"pair", "guest"} /\ holder \in {"host", "guest"} /\ turns \in Nat
  /\ sound \in BOOLEAN /\ pair \in [bound : BOOLEAN, dropped : BOOLEAN]
  /\ wr \in Writers /\ lo \in LowStreams
  /\ rd \in [there : BOOLEAN, dropped : BOOLEAN, eos : BOOLEAN, asked : BOOLEAN]

\* The shared stream: what is parked has something left to do, and nothing is
\* parked on an ended stream.
LowSound(t) ==
  /\ t.w = "parked" => ~t.dropped /\ t.got < t.len
  /\ t.w # "none" => t.got <= t.len
  /\ t.r = "parked" => ~t.dropped /\ t.room > 0
  /\ t.dropped <=> t.cause # "none"

\* The pair's writer w and the stream t: a low-level write is the writer's own.
WriteLinked(w, t) ==
  /\ w.pc # "none" => source = "pair" /\ w.len > 0
  /\ source = "pair" => (w.pc = "low" <=> t.w # "none")
  /\ w.pc = "low" => t.len = w.len /\ (w.cancelled => t.w = "settled")
  /\ source = "pair" => t.taken = w.told + (IF w.pc = "low" THEN t.got ELSE 0)

\* The elements of an owned chunk, also of one that is being written.
ChunksOf(w) ==
  w.made = w.released + w.kept + (IF w.pc = "low" /\ Accounts(w) THEN w.len ELSE 0)

\* The writer w and the binding p: what is in waiting is launched by it.
BindingSound(w, p, t) ==
  /\ w.pc = "queued" => ~p.bound /\ ~p.dropped /\ ~w.closed
  /\ p.bound /\ (w.closed \/ p.dropped) => t.dropped \/ w.closing

\* The handle d that reads, with the readable end at h: a read that settled
\* with nothing was cancelled or found the end.
ReadSound(t, d, h) ==
  /\ t.r = "settled" /\ t.put = 0 => d.asked \/ t.dropped
  /\ d.eos => d.asked \/ t.cause \in {"closed", "dropped"}
  /\ t.r = "parked" => h = "host"
  /\ ~d.there => t.r = "none"
TrapSound(t) == t.cause = "trap" => t.poisoned

StreamHandleInv ==
  /\ StreamHandleTypes
  /\ LowSound(lo) /\ TrapSound(lo) /\ WriteLinked(wr, lo) /\ ChunksOf(wr)
  /\ BindingSound(wr, pair, lo) /\ ReadSound(lo, rd, holder)
  /\ source = "pair" /\ ~pair.bound => ~rd.there /\ holder = "host"

\* What a step on the shared stream leaves of the write, and of the read.
SameWrite(t, u) ==
  /\ u.len = t.len /\ u.got = t.got /\ u.taken = t.taken
  /\ (u.w = "none" <=> t.w = "none") /\ (t.w = "settled" => u.w = "settled")
SameRead(t, u) == u.put = t.put /\ (u.r = "none" <=> t.r = "none")
SameEnd(t, u) == u.dropped = t.dropped /\ u.cause = t.cause /\ u.poisoned = t.poisoned

\* Ending the stream settles what is parked on it.
LEMMA EndsLow ==
  ASSUME NEW t, t \in LowStreams, LowSound(t), NEW why \in {"closed", "dropped", "trap"}
  PROVE  /\ EndedBy(t, why) \in LowStreams /\ LowSound(EndedBy(t, why))
         /\ SameWrite(t, EndedBy(t, why)) /\ SameRead(t, EndedBy(t, why))
         /\ EndedBy(t, why).poisoned = t.poisoned
         /\ EndedBy(t, why).dropped /\ EndedBy(t, why).w # "parked" /\ EndedBy(t, why).r # "parked"
         /\ EndedBy(t, why).cause = IF t.dropped THEN t.cause ELSE why
<1>1. CASE t.dropped
  <2>1. EndedBy(t, why) = t
    BY <1>1 DEF EndedBy
  <2> QED
    BY <1>1, <2>1 DEF SameWrite, SameRead, LowSound, LowStreams
<1>2. CASE ~t.dropped
  <2> DEFINE u == [t EXCEPT !.dropped = TRUE, !.cause = why,
                            !.w = IF @ = "parked" THEN "settled" ELSE @,
                            !.r = IF @ = "parked" THEN "settled" ELSE @]
  <2>1. EndedBy(t, why) = u
    BY <1>2 DEF EndedBy
  <2>2. u \in LowStreams
    BY DEF LowStreams
  <2>3. /\ u.dropped = TRUE /\ u.cause = why /\ u.len = t.len /\ u.got = t.got
        /\ u.taken = t.taken /\ u.put = t.put /\ u.room = t.room /\ u.poisoned = t.poisoned
        /\ u.w = (IF t.w = "parked" THEN "settled" ELSE t.w)
        /\ u.r = (IF t.r = "parked" THEN "settled" ELSE t.r)
    BY SMTT(40) DEF LowStreams
  <2>4. t.w \in {"none", "parked", "settled"} /\ t.r \in {"none", "parked", "settled"}
    BY DEF LowStreams
  <2> HIDE DEF u
  <2> QED
    BY <1>2, <2>1, <2>2, <2>3, <2>4 DEF SameWrite, SameRead, LowSound
<1> QED
  BY <1>1, <1>2

\* Copying n elements of the write.
LEMMA MovesLow ==
  ASSUME NEW t, t \in LowStreams, NEW n \in Nat
  PROVE  /\ Moved(t, n) \in LowStreams /\ SameEnd(t, Moved(t, n))
         /\ Moved(t, n).len = t.len /\ Moved(t, n).got = t.got + n
         /\ Moved(t, n).taken = IF source = "pair" THEN t.taken + n ELSE t.taken
         /\ Moved(t, n).w = IF t.got + n = t.len THEN "settled" ELSE t.w
         /\ Moved(t, n).r = t.r /\ Moved(t, n).room = t.room /\ Moved(t, n).put = t.put
<1> DEFINE u == Moved(t, n)
<1>1. t.got \in Nat /\ t.taken \in Nat /\ t.len \in Nat /\ t.w \in {"none", "parked", "settled"}
  BY DEF LowStreams
<1>2. t.got + n \in Nat /\ t.taken + n \in Nat
  BY <1>1
<1>3. u \in LowStreams
  BY <1>1, <1>2 DEF Moved, LowStreams
<1> QED
  BY <1>3, SMTT(40) DEF Moved, LowStreams, SameEnd

\* A write that arrives: it starts at nothing, takes what a parked read has
\* room for, and settles there unless it is a writeAll.
LEMMA WritesLow ==
  ASSUME NEW t, t \in LowStreams, LowSound(t), NEW len \in Nat, len > 0, NEW all \in BOOLEAN
  PROVE  LET u == LowWrite(t, len, all)
         IN  /\ u \in LowStreams /\ LowSound(u) /\ SameEnd(t, u)
             /\ u.w # "none" /\ u.len = len
             /\ u.taken = IF source = "pair" THEN t.taken + u.got ELSE t.taken
             /\ u.r = (IF t.r = "parked" THEN "settled" ELSE t.r)
             /\ u.put = 0 => t.put = 0 /\ t.r # "parked"
<1> DEFINE s == [t EXCEPT !.len = len, !.got = 0, !.w = "parked"]
           n == Least(len, t.room)
           v == [s EXCEPT !.r = "settled", !.put = n]
<1>1. s \in LowStreams /\ s.len = len /\ s.got = 0 /\ s.w = "parked" /\ SameEnd(t, s)
      /\ s.taken = t.taken /\ s.r = t.r /\ s.put = t.put /\ s.room = t.room
  <2>1. s \in LowStreams
    BY DEF LowStreams
  <2> QED
    BY <2>1, SMTT(40) DEF LowStreams, SameEnd
<1>2. n \in Nat /\ n <= len /\ (t.room > 0 => n > 0)
  BY DEF Least, LowStreams
<1>3. t.w \in {"none", "parked", "settled"} /\ t.r \in {"none", "parked", "settled"}
      /\ t.taken \in Nat /\ t.put \in Nat /\ t.room \in Nat /\ t.dropped \in BOOLEAN
  BY DEF LowStreams
<1>4. CASE t.dropped \/ (t.r # "parked" /\ len = 0)
  <2> DEFINE x == [s EXCEPT !.w = "settled"]
  <2>1. LowWrite(t, len, all) = x
    BY <1>4 DEF LowWrite
  <2>2. x \in LowStreams
    BY <1>1 DEF LowStreams
  <2>3. x.w = "settled" /\ x.len = len /\ x.got = 0 /\ SameEnd(t, x) /\ x.taken = t.taken
        /\ x.r = t.r /\ x.put = t.put /\ x.room = t.room
    BY <1>1, SMTT(40) DEF LowStreams, SameEnd
  <2> HIDE DEF x, s, v, n
  <2>4. t.r # "parked"
    BY <1>4 DEF LowSound
  <2> QED
    BY <1>3, <2>1, <2>2, <2>3, <2>4 DEF LowSound, SameEnd
<1>5. CASE ~t.dropped /\ t.r # "parked" /\ len # 0
  <2>1. LowWrite(t, len, all) = s
    BY <1>5 DEF LowWrite
  <2> HIDE DEF s, v, n
  <2> QED
    BY <1>1, <1>3, <1>5, <2>1 DEF LowSound, SameEnd
<1>6. CASE ~t.dropped /\ t.r = "parked"
  <2>1. v \in LowStreams /\ v.len = len /\ v.got = 0 /\ v.w = "parked" /\ SameEnd(t, v)
        /\ v.taken = t.taken /\ v.r = "settled" /\ v.put = n /\ v.room = t.room
    <3>1. v \in LowStreams
      BY <1>1, <1>2 DEF LowStreams
    <3> QED
      BY <3>1, <1>1, SMTT(40) DEF LowStreams, SameEnd
  <2> DEFINE m == Moved(v, n)
             x == IF all THEN m ELSE [m EXCEPT !.w = "settled"]
  <2>2. LowWrite(t, len, all) = x
    BY <1>6 DEF LowWrite
  <2> HIDE DEF s, v, n
  <2>3. /\ m \in LowStreams /\ SameEnd(v, m) /\ m.len = len /\ m.got = n
        /\ m.taken = (IF source = "pair" THEN t.taken + n ELSE t.taken)
        /\ m.w = (IF n = len THEN "settled" ELSE "parked")
        /\ m.r = "settled" /\ m.put = n
    <3>1. /\ m \in LowStreams /\ SameEnd(v, m) /\ m.len = v.len /\ m.got = v.got + n
          /\ m.taken = (IF source = "pair" THEN v.taken + n ELSE v.taken)
          /\ m.w = (IF v.got + n = v.len THEN "settled" ELSE v.w)
          /\ m.r = v.r /\ m.put = v.put
      BY <1>2, <2>1, MovesLow
    <3> QED
      BY <3>1, <1>2, <2>1
  <2> HIDE DEF m
  <2>4. x \in LowStreams
    BY <2>3 DEF LowStreams
  <2>5. /\ SameEnd(m, x) /\ x.len = len /\ x.got = n /\ x.taken = m.taken
        /\ x.r = "settled" /\ x.put = n /\ x.w \in {"settled", m.w}
    BY <2>3, SMTT(40) DEF LowStreams, SameEnd
  <2> HIDE DEF x
  <2> QED
    BY <1>2, <1>3, <1>6, <2>1, <2>2, <2>3, <2>4, <2>5 DEF LowSound, SameEnd
<1> QED
  BY <1>3, <1>4, <1>5, <1>6

\* A read that arrives at a parked write takes something of it.
LEMMA ReadsLow ==
  ASSUME NEW t, t \in LowStreams, LowSound(t), NEW max \in Nat, max > 0
  PROVE  LET u == LowRead(t, max)
         IN  /\ u \in LowStreams /\ LowSound(u) /\ SameEnd(t, u)
             /\ u.len = t.len /\ (u.w = "none" <=> t.w = "none")
             /\ (t.w = "settled" => u.w = "settled")
             /\ u.taken + t.got = t.taken + (IF source = "pair" THEN u.got ELSE t.got)
             /\ u.r # "none" /\ (u.r = "settled" /\ u.put = 0 => t.dropped)
<1> DEFINE s == [t EXCEPT !.room = max, !.put = 0, !.r = "parked"]
           n == Least(max, t.len - t.got)
           v == [s EXCEPT !.r = "settled", !.put = n]
<1>1. s \in LowStreams /\ s.len = t.len /\ s.got = t.got /\ s.w = t.w /\ SameEnd(t, s)
      /\ s.taken = t.taken /\ s.r = "parked" /\ s.put = 0 /\ s.room = max
  <2>1. s \in LowStreams
    BY DEF LowStreams
  <2> QED
    BY <2>1, SMTT(40) DEF LowStreams, SameEnd
<1>2. /\ t.w \in {"none", "parked", "settled"} /\ t.dropped \in BOOLEAN
      /\ t.taken \in Nat /\ t.got \in Nat /\ t.len \in Nat
  BY DEF LowStreams
<1>3. CASE t.dropped
  <2> DEFINE x == [s EXCEPT !.r = "settled"]
  <2>1. LowRead(t, max) = x
    BY <1>3 DEF LowRead
  <2>2. x \in LowStreams
    BY <1>1 DEF LowStreams
  <2>3. x.r = "settled" /\ x.len = t.len /\ x.got = t.got /\ SameEnd(t, x) /\ x.taken = t.taken
        /\ x.w = t.w
    BY <1>1, SMTT(40) DEF LowStreams, SameEnd
  <2> HIDE DEF x, s, v, n
  <2> QED
    BY <1>2, <1>3, <2>1, <2>2, <2>3 DEF LowSound, SameEnd
<1>4. CASE ~t.dropped /\ t.w # "parked"
  <2>1. LowRead(t, max) = s
    BY <1>4 DEF LowRead
  <2> HIDE DEF s, v, n
  <2> QED
    BY <1>1, <1>2, <1>4, <2>1 DEF LowSound, SameEnd
<1>5. CASE ~t.dropped /\ t.w = "parked"
  <2>0. n \in Nat /\ n > 0 /\ t.got + n <= t.len
    BY <1>2, <1>5 DEF LowSound, Least
  <2>1. v \in LowStreams /\ v.len = t.len /\ v.got = t.got /\ v.w = "parked" /\ SameEnd(t, v)
        /\ v.taken = t.taken /\ v.r = "settled" /\ v.put = n /\ v.room = max
    <3>1. v \in LowStreams
      BY <1>1, <2>0 DEF LowStreams
    <3> QED
      BY <3>1, <1>1, <1>5, SMTT(40) DEF LowStreams, SameEnd
  <2> DEFINE m == Moved(v, n)
  <2>2. LowRead(t, max) = m
    BY <1>5 DEF LowRead
  <2> HIDE DEF s, v, n
  <2>3. /\ m \in LowStreams /\ SameEnd(v, m) /\ m.len = t.len /\ m.got = t.got + n
        /\ m.taken = (IF source = "pair" THEN t.taken + n ELSE t.taken)
        /\ m.w = (IF t.got + n = t.len THEN "settled" ELSE "parked")
        /\ m.r = "settled" /\ m.put = n
    BY <2>0, <2>1, MovesLow
  <2> HIDE DEF m
  <2> QED
    BY <1>2, <1>5, <2>0, <2>1, <2>2, <2>3 DEF LowSound, SameEnd
<1> QED
  BY <1>2, <1>3, <1>4, <1>5

\* A read that finds no write takes nothing.
LEMMA NoWriteToRead ==
  ASSUME NEW t, t \in LowStreams, t.w = "none", NEW max \in Nat
  PROVE  LowRead(t, max).taken = t.taken
<1> DEFINE s == [t EXCEPT !.room = max, !.put = 0, !.r = "parked"]
<1>1. s \in LowStreams
  BY DEF LowStreams
<1>2. s.taken = t.taken /\ [s EXCEPT !.r = "settled"].taken = t.taken
  BY <1>1, SMTT(40) DEF LowStreams
<1>3. LowRead(t, max) \in {s, [s EXCEPT !.r = "settled"]}
  <2>1. CASE t.dropped
    BY <2>1 DEF LowRead
  <2>2. CASE ~t.dropped
    BY <2>2 DEF LowRead
  <2> QED
    BY <2>1, <2>2
<1> QED
  BY <1>2, <1>3

LEMMA CancelsLow ==
  ASSUME NEW t, t \in LowStreams, LowSound(t), NEW e \in {"w", "r"}
  PROVE  LET u == CancelLow(t, e)
         IN  /\ u \in LowStreams /\ LowSound(u) /\ SameEnd(t, u)
             /\ SameWrite(t, u) /\ SameRead(t, u)
             /\ e = "w" => u.w # "parked" /\ u.r = t.r
             /\ e = "r" => u.r # "parked" /\ u.w = t.w
<1> DEFINE w == IF e = "w" /\ t.w = "parked" THEN "settled" ELSE t.w
           r == IF e = "r" /\ t.r = "parked" THEN "settled" ELSE t.r
           u == CancelLow(t, e)
<1>2. u \in LowStreams
  BY DEF LowStreams, CancelLow
<1>3. /\ u.w = w /\ u.r = r /\ u.len = t.len /\ u.got = t.got /\ u.taken = t.taken
      /\ u.put = t.put /\ u.room = t.room /\ SameEnd(t, u)
  <2>1. CASE e = "w"
    BY <2>1, SMTT(40) DEF LowStreams, SameEnd, CancelLow
  <2>2. CASE e = "r"
    BY <2>2, SMTT(40) DEF LowStreams, SameEnd, CancelLow
  <2> QED
    BY <2>1, <2>2
<1>5. t.w \in {"none", "parked", "settled"} /\ t.r \in {"none", "parked", "settled"}
  BY DEF LowStreams
<1> QED
  BY <1>2, <1>3, <1>5 DEF LowSound, SameEnd, SameWrite, SameRead

\* What a step of the writer leaves.
SameWriter(w, v) ==
  /\ v.closed = w.closed /\ v.closing = w.closing /\ v.kind = w.kind /\ v.len = w.len
  /\ v.owned = w.owned
SameChunks(w, v) == v.made = w.made /\ v.released = w.released /\ v.kept = w.kept

LEMMA AnswersWriter ==
  ASSUME NEW w, w \in Writers, NEW n \in Nat
  PROVE  /\ Answered(w, n) \in Writers /\ SameWriter(w, Answered(w, n))
         /\ SameChunks(w, Answered(w, n))
         /\ Answered(w, n).pc = "none" /\ Answered(w, n).cancelled = FALSE
         /\ Answered(w, n).told = w.told + n
<1>1. w.told \in Nat /\ w.told + n \in Nat
  BY DEF Writers
<1>2. Answered(w, n) \in Writers
  BY <1>1 DEF Answered, Writers
<1> QED
  BY <1>2, SMTT(40) DEF Answered, Writers, SameWriter, SameChunks

\* Lowering, releasing and answering elements of an owned chunk.
LEMMA CountsWriter ==
  ASSUME NEW w, w \in Writers, NEW n \in Nat
  PROVE  /\ \A v \in {WithMade(w, n), Untouched(w, n), Touched(w, n)} :
               /\ v \in Writers /\ SameWriter(w, v) /\ v.pc = w.pc /\ v.cancelled = w.cancelled
               /\ v.told = w.told /\ (Accounts(v) <=> Accounts(w))
         /\ SameChunks([w EXCEPT !.made = @ + (IF Accounts(w) THEN n ELSE 0)], WithMade(w, n))
         /\ SameChunks([w EXCEPT !.released = @ + (IF Accounts(w) THEN n ELSE 0)], Untouched(w, n))
         /\ SameChunks([w EXCEPT !.kept = @ + (IF Accounts(w) THEN n ELSE 0)], Touched(w, n))
<1>0. w.made \in Nat /\ w.released \in Nat /\ w.kept \in Nat
  BY DEF Writers
<1>1. CASE Accounts(w)
  <2>0. w.made + n \in Nat /\ w.released + n \in Nat /\ w.kept + n \in Nat
    BY <1>0
  <2> DEFINE a == [w EXCEPT !.made = @ + n]
             b == [w EXCEPT !.released = @ + n]
             c == [w EXCEPT !.kept = @ + n]
  <2>1. a \in Writers /\ b \in Writers /\ c \in Writers
    BY <2>0 DEF Writers
  <2>2. \A v \in {a, b, c} : /\ SameWriter(w, v) /\ v.pc = w.pc /\ v.cancelled = w.cancelled
                             /\ v.told = w.told
    BY SMTT(40) DEF Writers, SameWriter
  <2>3. WithMade(w, n) = a /\ Untouched(w, n) = b /\ Touched(w, n) = c
    BY <1>1 DEF WithMade, Untouched, Touched
  <2>4. \A v \in {a, b, c} : Accounts(v) <=> Accounts(w)
    BY <2>2 DEF Accounts, SameWriter
  <2> HIDE DEF a, b, c
  <2>5. \A v \in {a, b, c} : /\ v \in Writers /\ SameWriter(w, v) /\ v.pc = w.pc
                             /\ v.cancelled = w.cancelled /\ v.told = w.told
                             /\ (Accounts(v) <=> Accounts(w))
    BY <2>1, <2>2, <2>4
  <2>6. /\ SameChunks([w EXCEPT !.made = @ + (IF Accounts(w) THEN n ELSE 0)], a)
        /\ SameChunks([w EXCEPT !.released = @ + (IF Accounts(w) THEN n ELSE 0)], b)
        /\ SameChunks([w EXCEPT !.kept = @ + (IF Accounts(w) THEN n ELSE 0)], c)
    BY <1>1, <2>0 DEF SameChunks, a, b, c
  <2> QED
    BY <2>3, <2>5, <2>6
<1>2. CASE ~Accounts(w)
  <2>1. WithMade(w, n) = w /\ Untouched(w, n) = w /\ Touched(w, n) = w
    BY <1>2 DEF WithMade, Untouched, Touched
  <2>2. SameWriter(w, w)
    BY DEF SameWriter
  <2>3. /\ SameChunks([w EXCEPT !.made = @ + (IF Accounts(w) THEN n ELSE 0)], w)
        /\ SameChunks([w EXCEPT !.released = @ + (IF Accounts(w) THEN n ELSE 0)], w)
        /\ SameChunks([w EXCEPT !.kept = @ + (IF Accounts(w) THEN n ELSE 0)], w)
    BY <1>0, <1>2, SMTT(40) DEF SameChunks, Writers
  <2> QED
    BY <2>1, <2>2, <2>3
<1> QED
  BY <1>1, <1>2

LEMMA HandlesStep ==
  ASSUME source' = source, source \in {"pair", "guest"}, holder' \in {"host", "guest"},
         turns' \in Nat, sound' \in BOOLEAN, pair' \in [bound : BOOLEAN, dropped : BOOLEAN],
         rd' \in [there : BOOLEAN, dropped : BOOLEAN, eos : BOOLEAN, asked : BOOLEAN],
         wr' \in Writers, lo' \in LowStreams,
         LowSound(lo'), TrapSound(lo'), WriteLinked(wr', lo'), ChunksOf(wr'),
         BindingSound(wr', pair', lo'), ReadSound(lo', rd', holder'),
         source = "pair" /\ ~pair'.bound => ~rd'.there /\ holder' = "host"
  PROVE  StreamHandleInv'
<1>1. StreamHandleTypes'
  BY DEF StreamHandleTypes
<1>2. LowSound(lo)' /\ TrapSound(lo)' /\ ChunksOf(wr)' /\ BindingSound(wr, pair, lo)'
      /\ ReadSound(lo, rd, holder)'
  BY DEF LowSound, TrapSound, ChunksOf, BindingSound, ReadSound, Accounts
<1>3. WriteLinked(wr, lo)'
  BY DEF WriteLinked
<1> QED
  BY <1>1, <1>2, <1>3 DEF StreamHandleInv

\* The parts of the invariant, for the steps that keep most of them.
LEMMA HandlesNow ==
  ASSUME StreamHandleInv
  PROVE  /\ source \in {"pair", "guest"} /\ holder \in {"host", "guest"} /\ turns \in Nat
         /\ sound \in BOOLEAN /\ pair \in [bound : BOOLEAN, dropped : BOOLEAN]
         /\ rd \in [there : BOOLEAN, dropped : BOOLEAN, eos : BOOLEAN, asked : BOOLEAN]
         /\ wr \in Writers /\ lo \in LowStreams
         /\ LowSound(lo) /\ TrapSound(lo) /\ WriteLinked(wr, lo) /\ ChunksOf(wr)
         /\ BindingSound(wr, pair, lo) /\ ReadSound(lo, rd, holder)
         /\ source = "pair" /\ ~pair.bound => ~rd.there /\ holder = "host"
BY DEF StreamHandleInv, StreamHandleTypes

\* A step of the writer that leaves the stream and its readers alone.
LEMMA WriterSteps ==
  ASSUME StreamHandleInv, UNCHANGED <<source, holder, turns, sound, pair, rd, lo>>,
         wr' \in Writers, WriteLinked(wr', lo), ChunksOf(wr'), BindingSound(wr', pair, lo)
  PROVE  StreamHandleInv'
BY HandlesNow, HandlesStep

LEMMA StartKeeps == ASSUME StreamHandleInv, Start PROVE StreamHandleInv'
<1>1. PICK k \in {"write", "all", "direct"}, len \in 1..MaxChunk :
        wr' = [wr EXCEPT !.kind = k, !.len = len, !.starts = @ + 1,
                         !.pc = IF ~pair.bound THEN "queued"
                                ELSE IF lo.poisoned THEN "none" ELSE "preparing"]
  BY DEF Start
<1>2. len \in Nat /\ len > 0
  BY StreamHandlesAssumption
<1>3. wr \in Writers
  BY HandlesNow
<1>4. wr.starts \in Nat /\ wr.starts + 1 \in Nat
  BY <1>3 DEF Writers
<1>5. wr' \in Writers
  BY <1>1, <1>2, <1>3, <1>4 DEF Writers
<1>6. /\ wr'.len = len /\ wr'.cancelled = wr.cancelled /\ wr'.closed = wr.closed
      /\ wr'.closing = wr.closing /\ SameChunks(wr, wr') /\ wr'.told = wr.told
      /\ wr'.pc \in {"queued", "none", "preparing"} /\ (wr'.pc = "queued" => ~pair.bound)
  BY <1>1, <1>3, SMTT(40) DEF Writers, SameChunks
<1>7. source = "pair" /\ wr.pc = "none" /\ ~wr.closed /\ ~pair.dropped
      /\ UNCHANGED <<source, holder, turns, sound, pair, rd, lo>>
  BY DEF Start
<1>8. WriteLinked(wr', lo)
  BY <1>2, <1>6, <1>7, HandlesNow DEF WriteLinked
<1>9. ChunksOf(wr')
  BY <1>3, <1>6, <1>7, HandlesNow DEF ChunksOf, SameChunks
<1>10. BindingSound(wr', pair, lo)
  BY <1>6, <1>7, HandlesNow DEF BindingSound
<1> QED
  BY <1>5, <1>7, <1>8, <1>9, <1>10, WriterSteps

LEMMA PrepareFailsKeeps == ASSUME StreamHandleInv, PrepareFails PROVE StreamHandleInv'
<1>1. PICK n \in 0..(wr.len - 1) : wr' = PrefixFailed(wr, n)
  BY DEF PrepareFails
<1>2. wr.pc = "preparing" /\ UNCHANGED <<source, holder, turns, sound, pair, rd, lo>>
  BY DEF PrepareFails
<1>3. wr \in Writers /\ n \in Nat /\ 0 \in Nat
  <2>1. wr \in Writers
    BY HandlesNow
  <2>2. wr.len \in Nat
    BY <2>1 DEF Writers
  <2> QED
    BY <2>1, <2>2
<1> DEFINE a == WithMade(wr, n)
           b == Untouched(a, n)
<1>4. /\ a \in Writers /\ SameWriter(wr, a) /\ a.told = wr.told /\ (Accounts(a) <=> Accounts(wr))
      /\ SameChunks([wr EXCEPT !.made = @ + (IF Accounts(wr) THEN n ELSE 0)], a)
  BY <1>3, CountsWriter
<1>5. /\ b \in Writers /\ SameWriter(a, b) /\ b.told = a.told
      /\ SameChunks([a EXCEPT !.released = @ + (IF Accounts(a) THEN n ELSE 0)], b)
  BY <1>3, <1>4, CountsWriter
<1> HIDE DEF a, b
<1>6. /\ wr' \in Writers /\ SameWriter(b, wr') /\ SameChunks(b, wr')
      /\ wr'.pc = "none" /\ wr'.cancelled = FALSE /\ wr'.told = b.told + 0
  BY <1>1, <1>3, <1>5, AnswersWriter DEF PrefixFailed, a, b
<1>7. wr'.told = wr.told
  BY <1>3, <1>4, <1>5, <1>6 DEF Writers
<1>8. WriteLinked(wr', lo)
  BY <1>2, <1>6, <1>7, HandlesNow DEF WriteLinked
<1>9. ChunksOf(wr')
  <2>1. a.made = wr.made + (IF Accounts(wr) THEN n ELSE 0) /\ a.released = wr.released
        /\ a.kept = wr.kept
    BY <1>3, <1>4 DEF SameChunks, Writers
  <2>2. b.released = a.released + (IF Accounts(wr) THEN n ELSE 0) /\ b.made = a.made
        /\ b.kept = a.kept
    BY <1>4, <1>5 DEF SameChunks, Writers
  <2>3. wr.made = wr.released + wr.kept
    BY <1>2, <1>3, HandlesNow DEF ChunksOf, Writers
  <2>4. wr.made \in Nat /\ wr.released \in Nat /\ wr.kept \in Nat
    BY <1>3 DEF Writers
  <2> QED
    BY <1>3, <1>6, <2>1, <2>2, <2>3, <2>4 DEF ChunksOf, SameChunks
<1>10. BindingSound(wr', pair, lo)
  BY <1>4, <1>5, <1>6, HandlesNow DEF BindingSound, SameWriter
<1> QED
  BY <1>2, <1>6, <1>8, <1>9, <1>10, WriterSteps

LEMMA ChunkPreparedKeeps == ASSUME StreamHandleInv, ChunkPrepared PROVE StreamHandleInv'
<1>0. wr \in Writers /\ lo \in LowStreams /\ LowSound(lo) /\ wr.len \in Nat
      /\ wr.kind \in {"write", "all", "direct"} /\ wr.told \in Nat
      /\ wr.made \in Nat /\ wr.released \in Nat /\ wr.kept \in Nat
  BY HandlesNow DEF Writers
<1>1. wr.pc = "preparing" /\ UNCHANGED <<source, holder, turns, sound, pair, rd>>
  BY DEF ChunkPrepared
<1>2. source = "pair" /\ wr.len > 0 /\ lo.w = "none" /\ lo.taken = wr.told
  BY <1>0, <1>1, HandlesNow DEF WriteLinked
<1> DEFINE a == WithMade(wr, wr.len)
<1>3. /\ a \in Writers /\ SameWriter(wr, a) /\ a.told = wr.told /\ (Accounts(a) <=> Accounts(wr))
      /\ a.cancelled = wr.cancelled
      /\ SameChunks([wr EXCEPT !.made = @ + (IF Accounts(wr) THEN wr.len ELSE 0)], a)
  BY <1>0, CountsWriter
<1>4. a.made = wr.made + (IF Accounts(wr) THEN wr.len ELSE 0) /\ a.released = wr.released
      /\ a.kept = wr.kept
  BY <1>0, <1>3 DEF SameChunks, Writers
<1>5. wr.made = wr.released + wr.kept
  BY <1>0, <1>1, HandlesNow DEF ChunksOf
<1>6. CASE Goes
  <2> DEFINE all == wr.kind # "write"
             u == LowWrite(lo, wr.len, all)
  <2>1. wr' = [a EXCEPT !.pc = "low"] /\ lo' = u
    BY <1>6 DEF ChunkPrepared
  <2>2. ~wr.cancelled
    BY <1>6 DEF Goes
  <2>3. /\ wr' \in Writers /\ SameWriter(a, wr') /\ SameChunks(a, wr') /\ wr'.pc = "low"
        /\ wr'.told = a.told /\ wr'.cancelled = a.cancelled
    <3>1. wr' \in Writers
      BY <1>3, <2>1 DEF Writers
    <3> QED
      BY <1>3, <2>1, <3>1, SMTT(40) DEF Writers, SameWriter, SameChunks
  <2>4. all \in BOOLEAN
    OBVIOUS
  <2> HIDE DEF a, all
  <2>5. /\ u \in LowStreams /\ LowSound(u) /\ SameEnd(lo, u) /\ u.w # "none" /\ u.len = wr.len
        /\ u.taken = lo.taken + u.got
        /\ u.r = (IF lo.r = "parked" THEN "settled" ELSE lo.r)
        /\ u.put = 0 => lo.put = 0 /\ lo.r # "parked"
    BY <1>0, <1>2, <2>4, WritesLow
  <2> HIDE DEF u
  <2>6. WriteLinked(wr', lo')
    BY <1>2, <1>3, <2>1, <2>2, <2>3, <2>5 DEF WriteLinked, SameWriter
  <2>7. ChunksOf(wr')
    <3>1. Accounts(wr') <=> Accounts(wr)
      BY <1>3, <2>3 DEF Accounts, SameWriter
    <3> QED
      BY <1>0, <1>3, <1>4, <1>5, <2>3, <3>1 DEF ChunksOf, SameChunks, SameWriter
  <2>8. TrapSound(lo') /\ BindingSound(wr', pair, lo') /\ ReadSound(lo', rd, holder)
    BY <1>3, <2>1, <2>3, <2>5, HandlesNow DEF TrapSound, BindingSound, ReadSound, SameEnd, SameWriter
  <2> QED
    BY <1>1, <2>1, <2>3, <2>5, <2>6, <2>7, <2>8, HandlesNow, HandlesStep
<1>7. CASE ~Goes
  <2> DEFINE b == Untouched(a, wr.len)
  <2>1. wr' = Answered(b, 0) /\ lo' = lo
    BY <1>7 DEF ChunkPrepared
  <2>2. /\ b \in Writers /\ SameWriter(a, b) /\ b.told = a.told
        /\ SameChunks([a EXCEPT !.released = @ + (IF Accounts(a) THEN wr.len ELSE 0)], b)
    BY <1>0, <1>3, CountsWriter
  <2> HIDE DEF a, b
  <2>3. 0 \in Nat
    OBVIOUS
  <2>4. /\ wr' \in Writers /\ SameWriter(b, wr') /\ SameChunks(b, wr')
        /\ wr'.pc = "none" /\ wr'.told = b.told + 0
    BY <2>1, <2>2, <2>3, AnswersWriter
  <2>5. wr'.told = wr.told
    BY <1>0, <1>3, <2>2, <2>4
  <2>6. WriteLinked(wr', lo)
    BY <1>2, <2>4, <2>5, HandlesNow DEF WriteLinked
  <2>7. ChunksOf(wr')
    <3>1. b.released = a.released + (IF Accounts(wr) THEN wr.len ELSE 0) /\ b.made = a.made
          /\ b.kept = a.kept
      BY <1>3, <2>2 DEF SameChunks, Writers
    <3> QED
      BY <1>0, <1>4, <1>5, <2>4, <3>1 DEF ChunksOf, SameChunks
  <2>8. BindingSound(wr', pair, lo)
    BY <1>3, <2>2, <2>4, HandlesNow DEF BindingSound, SameWriter
  <2> QED
    BY <1>1, <2>1, <2>4, <2>6, <2>7, <2>8, WriterSteps
<1> QED
  BY <1>6, <1>7

LEMMA WriteReturnsKeeps == ASSUME StreamHandleInv, WriteReturns PROVE StreamHandleInv'
<1>0. wr \in Writers /\ lo \in LowStreams /\ LowSound(lo) /\ wr.len \in Nat
      /\ wr.made \in Nat /\ wr.released \in Nat /\ wr.kept \in Nat /\ wr.told \in Nat
      /\ lo.len \in Nat /\ lo.got \in Nat
  BY HandlesNow DEF Writers, LowStreams
<1>1. source = "pair" /\ lo.w = "settled" /\ UNCHANGED <<source, holder, turns, sound, pair, rd>>
  BY DEF WriteReturns
<1>2. wr.pc = "low" /\ wr.len = lo.len /\ lo.taken = wr.told + lo.got /\ lo.got <= lo.len
  BY <1>0, <1>1, HandlesNow DEF WriteLinked, LowSound
<1>3. lo.len - lo.got \in Nat
  BY <1>0, <1>2
<1> DEFINE n == lo.len - lo.got
           a == Untouched(wr, n)
           b == Touched(a, lo.got)
<1>4. /\ a \in Writers /\ SameWriter(wr, a) /\ a.told = wr.told /\ (Accounts(a) <=> Accounts(wr))
      /\ SameChunks([wr EXCEPT !.released = @ + (IF Accounts(wr) THEN n ELSE 0)], a)
  BY <1>0, <1>3, CountsWriter
<1>5. /\ b \in Writers /\ SameWriter(a, b) /\ b.told = a.told
      /\ SameChunks([a EXCEPT !.kept = @ + (IF Accounts(a) THEN lo.got ELSE 0)], b)
  BY <1>0, <1>4, CountsWriter
<1>6. wr' = Answered(b, lo.got) /\ lo' = [lo EXCEPT !.w = "none", !.len = 0, !.got = 0]
  BY DEF WriteReturns
<1>7. a.made = wr.made /\ a.released = wr.released + (IF Accounts(wr) THEN n ELSE 0)
      /\ a.kept = wr.kept
  BY <1>0, <1>3, <1>4 DEF SameChunks, Writers
<1>8. b.made = a.made /\ b.released = a.released
      /\ b.kept = a.kept + (IF Accounts(wr) THEN lo.got ELSE 0)
  BY <1>0, <1>4, <1>5 DEF SameChunks, Writers
<1>9. n + lo.got = wr.len /\ n \in Nat
  BY <1>0, <1>2, <1>3
<1> HIDE DEF a, b, n
<1>10. /\ wr' \in Writers /\ SameWriter(b, wr') /\ SameChunks(b, wr')
       /\ wr'.pc = "none" /\ wr'.told = b.told + lo.got
  BY <1>0, <1>5, <1>6, AnswersWriter
<1>11. lo' \in LowStreams /\ lo'.w = "none" /\ SameEnd(lo, lo') /\ SameRead(lo, lo')
       /\ lo'.taken = lo.taken /\ lo'.r = lo.r /\ lo'.room = lo.room
  <2>1. lo' \in LowStreams
    BY <1>0, <1>6 DEF LowStreams
  <2> QED
    BY <1>0, <1>6, <2>1, SMTT(40) DEF LowStreams, SameEnd, SameRead
<1>12. LowSound(lo')
  BY <1>0, <1>11 DEF LowSound, SameEnd
<1>13. WriteLinked(wr', lo')
  BY <1>0, <1>2, <1>4, <1>5, <1>10, <1>11 DEF WriteLinked
<1>14. ChunksOf(wr')
  <2>1. wr.made = wr.released + wr.kept + (IF Accounts(wr) THEN wr.len ELSE 0)
    BY <1>0, <1>2, HandlesNow DEF ChunksOf
  <2> QED
    BY <1>0, <1>7, <1>8, <1>9, <1>10, <2>1 DEF ChunksOf, SameChunks
<1>15. BindingSound(wr', pair, lo') /\ ReadSound(lo', rd, holder) /\ TrapSound(lo')
  BY <1>4, <1>5, <1>10, <1>11, HandlesNow
     DEF BindingSound, ReadSound, TrapSound, SameWriter, SameEnd, SameRead
<1> QED
  BY <1>1, <1>10, <1>11, <1>12, <1>13, <1>14, <1>15, HandlesNow, HandlesStep

\* A step of a writer that has no low-level write, before and after.
LEMMA WriterAside ==
  ASSUME StreamHandleInv, NEW v \in Writers, SameChunks(wr, v), v.told = wr.told, v.len = wr.len,
         wr.pc # "low", v.pc # "low", v.pc # "none" => wr.pc # "none"
  PROVE  WriteLinked(v, lo) /\ ChunksOf(v)
<1>1. WriteLinked(v, lo)
  BY HandlesNow DEF WriteLinked
<1>2. ChunksOf(v)
  BY HandlesNow DEF ChunksOf, SameChunks
<1> QED
  BY <1>1, <1>2

\* An operation in waiting is answered 0.
LEMMA QueuedAnswered ==
  ASSUME StreamHandleInv, wr.pc = "queued"
  PROVE  /\ Answered(wr, 0) \in Writers /\ SameWriter(wr, Answered(wr, 0))
         /\ SameChunks(wr, Answered(wr, 0)) /\ Answered(wr, 0).pc = "none"
         /\ Answered(wr, 0).told = wr.told /\ Answered(wr, 0).len = wr.len
<1>1. wr \in Writers /\ wr.told \in Nat /\ 0 \in Nat
  BY HandlesNow DEF Writers
<1>2. /\ Answered(wr, 0) \in Writers /\ SameWriter(wr, Answered(wr, 0))
      /\ SameChunks(wr, Answered(wr, 0)) /\ Answered(wr, 0).pc = "none"
      /\ Answered(wr, 0).told = wr.told + 0
  BY <1>1, AnswersWriter
<1> QED
  BY <1>1, <1>2 DEF SameWriter

LEMMA CancelWriteKeeps == ASSUME StreamHandleInv, CancelWrite PROVE StreamHandleInv'
<1>0. wr \in Writers /\ lo \in LowStreams /\ LowSound(lo)
  BY HandlesNow
<1>1. wr.pc # "none" /\ ~wr.cancelled /\ UNCHANGED <<source, holder, turns, sound, pair, rd>>
  BY DEF CancelWrite
<1>2. CASE wr.pc = "queued"
  <2>1. wr' = Answered(wr, 0) /\ lo' = lo
    BY <1>2 DEF CancelWrite
  <2>2. /\ wr' \in Writers /\ SameWriter(wr, wr') /\ SameChunks(wr, wr') /\ wr'.pc = "none"
        /\ wr'.told = wr.told /\ wr'.len = wr.len
    BY <1>2, <2>1, QueuedAnswered
  <2>3. WriteLinked(wr', lo) /\ ChunksOf(wr')
    BY <1>2, <2>2, WriterAside
  <2>4. BindingSound(wr', pair, lo)
    BY <2>2, HandlesNow DEF BindingSound, SameWriter
  <2> QED
    BY <1>1, <2>1, <2>2, <2>3, <2>4, WriterSteps
<1>3. CASE wr.pc # "queued"
  <2>1. wr' = [wr EXCEPT !.cancelled = TRUE]
    BY <1>3 DEF CancelWrite
  <2>2. wr' \in Writers
    BY <1>0, <2>1 DEF Writers
  <2>3. /\ SameWriter(wr, wr') /\ SameChunks(wr, wr') /\ wr'.pc = wr.pc /\ wr'.told = wr.told
        /\ wr'.len = wr.len
    BY <1>0, <2>1, <2>2, SMTT(40) DEF Writers, SameWriter, SameChunks
  <2>4. BindingSound(wr', pair, lo)
    BY <2>3, HandlesNow DEF BindingSound, SameWriter
  <2>5. CASE wr.pc = "low"
    <3>1. lo' = CancelLow(lo, "w")
      BY <2>5 DEF CancelWrite
    <3>2. "w" \in {"w", "r"}
      OBVIOUS
    <3>3. /\ lo' \in LowStreams /\ LowSound(lo') /\ SameEnd(lo, lo') /\ SameWrite(lo, lo')
          /\ SameRead(lo, lo') /\ lo'.w # "parked" /\ lo'.r = lo.r
      BY <1>0, <3>1, <3>2, CancelsLow
    <3>4. WriteLinked(wr', lo')
      <4>1. source = "pair" /\ lo.w # "none"
        BY <2>5, HandlesNow DEF WriteLinked
      <4>2. lo'.w \in {"none", "parked", "settled"}
        BY <3>3 DEF LowStreams
      <4> QED
        BY <2>3, <2>5, <3>3, <4>1, <4>2, HandlesNow DEF WriteLinked, SameWrite
    <3>5. ChunksOf(wr')
      BY <2>3, HandlesNow DEF ChunksOf, SameChunks, SameWriter, Accounts
    <3>6. BindingSound(wr', pair, lo') /\ ReadSound(lo', rd, holder) /\ TrapSound(lo')
      BY <2>4, <3>3, HandlesNow DEF BindingSound, ReadSound, TrapSound, SameEnd, SameRead
    <3> QED
      BY <1>1, <2>2, <3>3, <3>4, <3>5, <3>6, HandlesNow, HandlesStep
  <2>6. CASE wr.pc # "low"
    <3>1. lo' = lo
      BY <2>6 DEF CancelWrite
    <3>2. WriteLinked(wr', lo) /\ ChunksOf(wr')
      BY <2>2, <2>3, <2>6, WriterAside
    <3> QED
      BY <1>1, <2>2, <2>4, <3>1, <3>2, WriterSteps
  <2> QED
    BY <2>5, <2>6
<1> QED
  BY <1>2, <1>3

\* Ending the stream keeps every part of the invariant but the trap's.
LEMMA EndKeeps ==
  ASSUME StreamHandleInv, NEW why \in {"closed", "dropped", "trap"}, NEW v \in Writers,
         WriteLinked(v, lo)
  PROVE  LET u == EndedBy(lo, why)
         IN  /\ u \in LowStreams /\ LowSound(u) /\ WriteLinked(v, u)
             /\ ReadSound(u, rd, holder) /\ ReadSound(u, rd, "guest")
             /\ (why # "trap" => TrapSound(u)) /\ u.dropped
<1> DEFINE u == EndedBy(lo, why)
<1>1. lo \in LowStreams /\ LowSound(lo)
  BY HandlesNow
<1>2. /\ u \in LowStreams /\ LowSound(u)
      /\ SameWrite(lo, u) /\ SameRead(lo, u) /\ u.poisoned = lo.poisoned
      /\ u.dropped /\ u.w # "parked" /\ u.r # "parked"
      /\ u.cause = IF lo.dropped THEN lo.cause ELSE why
  BY <1>1, EndsLow
<1> HIDE DEF u
<1>3. WriteLinked(v, u)
  <2>1. u.w \in {"none", "parked", "settled"}
    BY <1>2 DEF LowStreams
  <2> QED
    BY <1>2, <2>1 DEF WriteLinked, SameWrite
<1>4. ReadSound(u, rd, holder) /\ ReadSound(u, rd, "guest")
  <2>1. lo.dropped \/ lo.cause = "none"
    BY <1>1 DEF LowSound
  <2> QED
    BY <1>2, <2>1, HandlesNow DEF ReadSound, SameRead
<1>5. why # "trap" => TrapSound(u)
  BY <1>2, HandlesNow DEF TrapSound
<1> QED
  BY <1>2, <1>3, <1>4, <1>5 DEF u

LEMMA CloseKeeps == ASSUME StreamHandleInv, Close PROVE StreamHandleInv'
<1> DEFINE a == IF wr.pc = "queued" THEN Answered(wr, 0) ELSE wr
<1>0. wr \in Writers
  BY HandlesNow
<1>1. /\ source = "pair" /\ ~wr.closed /\ wr' = [a EXCEPT !.closed = TRUE, !.closing = pair.bound]
      /\ UNCHANGED <<source, holder, turns, sound, pair, rd, lo>>
  BY DEF Close, CloseAnswers
<1>2. /\ a \in Writers /\ SameWriter(wr, a) /\ SameChunks(wr, a) /\ a.told = wr.told
      /\ a.pc # "queued" /\ (a.pc = "low" <=> wr.pc = "low") /\ (a.pc # "none" => a = wr)
      /\ a.cancelled \in BOOLEAN
  <2>1. CASE wr.pc = "queued"
    BY <2>1, QueuedAnswered DEF Writers
  <2>2. CASE wr.pc # "queued"
    BY <1>0, <2>2 DEF SameWriter, SameChunks, Writers
  <2> QED
    BY <2>1, <2>2
<1> HIDE DEF a
<1>3. pair.bound \in BOOLEAN
  BY HandlesNow
<1>4. wr' \in Writers
  BY <1>1, <1>2, <1>3 DEF Writers
<1>5. /\ SameChunks(a, wr') /\ wr'.pc = a.pc /\ wr'.told = a.told /\ wr'.cancelled = a.cancelled
      /\ wr'.len = a.len /\ wr'.kind = a.kind /\ wr'.owned = a.owned
      /\ wr'.closing = pair.bound
  BY <1>1, <1>2, <1>4, SMTT(40) DEF Writers, SameChunks
<1>6. WriteLinked(wr', lo)
  BY <1>2, <1>5, HandlesNow DEF WriteLinked, SameWriter
<1>7. ChunksOf(wr')
  <2>1. (wr'.pc = "low" /\ Accounts(wr')) <=> (wr.pc = "low" /\ Accounts(wr))
    BY <1>2, <1>5 DEF Accounts, SameWriter
  <2> QED
    BY <1>2, <1>5, <2>1, HandlesNow DEF ChunksOf, SameChunks, SameWriter
<1>8. BindingSound(wr', pair, lo)
  BY <1>2, <1>5 DEF BindingSound
<1> QED
  BY <1>1, <1>4, <1>6, <1>7, <1>8, WriterSteps

LEMMA CloseDropsKeeps == ASSUME StreamHandleInv, CloseDrops PROVE StreamHandleInv'
<1>0. wr \in Writers
  BY HandlesNow
<1>1. /\ wr' = [wr EXCEPT !.closing = FALSE] /\ lo' = EndedBy(lo, "closed")
      /\ UNCHANGED <<source, holder, turns, sound, pair, rd>>
  BY DEF CloseDrops
<1>2. wr' \in Writers
  BY <1>0, <1>1 DEF Writers
<1>3. /\ SameChunks(wr, wr') /\ wr'.pc = wr.pc /\ wr'.told = wr.told /\ wr'.len = wr.len
      /\ wr'.cancelled = wr.cancelled /\ wr'.closed = wr.closed
      /\ wr'.kind = wr.kind /\ wr'.owned = wr.owned
  BY <1>0, <1>1, <1>2, SMTT(40) DEF Writers, SameChunks
<1>4. WriteLinked(wr', lo)
  BY <1>3, HandlesNow DEF WriteLinked
<1>5. ChunksOf(wr')
  BY <1>3, HandlesNow DEF ChunksOf, SameChunks, Accounts
<1>6. "closed" \in {"closed", "dropped", "trap"} /\ "closed" # "trap"
  OBVIOUS
<1>7. /\ lo' \in LowStreams /\ LowSound(lo') /\ WriteLinked(wr', lo')
      /\ ReadSound(lo', rd, holder) /\ TrapSound(lo') /\ lo'.dropped
  BY <1>1, <1>2, <1>4, <1>6, EndKeeps
<1>8. BindingSound(wr', pair, lo')
  BY <1>3, <1>7, HandlesNow DEF BindingSound
<1> QED
  BY <1>1, <1>2, <1>5, <1>7, <1>8, HandlesNow, HandlesStep

LEMMA BindKeeps == ASSUME StreamHandleInv, Bind PROVE StreamHandleInv'
<1>0. wr \in Writers /\ pair \in [bound : BOOLEAN, dropped : BOOLEAN] /\ turns \in Nat
  BY HandlesNow
<1>1. /\ source = "pair" /\ ~pair.bound /\ ~pair.dropped
      /\ pair' = [pair EXCEPT !.bound = TRUE] /\ wr' = Launched(wr) /\ lo' = BoundLow(lo)
      /\ holder' = "guest" /\ turns' = turns + 1 /\ UNCHANGED <<source, sound, rd>>
  BY DEF Bind
<1>2. /\ wr' \in Writers /\ SameWriter(wr, wr') /\ SameChunks(wr, wr') /\ wr'.told = wr.told
      /\ wr'.len = wr.len /\ wr'.pc = (IF wr.pc = "queued" THEN "preparing" ELSE wr.pc)
      /\ wr'.cancelled = wr.cancelled
  <2>1. CASE wr.pc = "queued"
    <3>1. wr' = [wr EXCEPT !.pc = "preparing"]
      BY <1>1, <2>1 DEF Launched
    <3>2. wr' \in Writers
      BY <1>0, <3>1 DEF Writers
    <3> QED
      BY <1>0, <2>1, <3>1, <3>2, SMTT(40) DEF Writers, SameWriter, SameChunks
  <2>2. CASE wr.pc # "queued"
    BY <1>0, <1>1, <2>2 DEF Launched, SameWriter, SameChunks
  <2> QED
    BY <2>1, <2>2
<1>3. WriteLinked(wr', lo)
  BY <1>2, HandlesNow DEF WriteLinked
<1>4. ChunksOf(wr')
  BY <1>2, HandlesNow DEF ChunksOf, SameChunks, SameWriter, Accounts
<1>5. pair' \in [bound : BOOLEAN, dropped : BOOLEAN] /\ pair'.bound /\ pair'.dropped = pair.dropped
  BY <1>0, <1>1
<1>6. lo.r = "none"
  BY <1>1, HandlesNow DEF ReadSound
<1>7. /\ lo' \in LowStreams /\ LowSound(lo') /\ WriteLinked(wr', lo')
      /\ ReadSound(lo', rd, "guest") /\ TrapSound(lo') /\ (wr.closed => lo'.dropped)
  <2>1. CASE wr.closed
    <3>1. lo' = EndedBy(lo, "closed")
      BY <1>1, <2>1 DEF BoundLow
    <3>2. "closed" \in {"closed", "dropped", "trap"} /\ "closed" # "trap"
      OBVIOUS
    <3> QED
      BY <1>2, <1>3, <3>1, <3>2, EndKeeps
  <2>2. CASE ~wr.closed
    <3>1. lo' = lo
      BY <1>1, <2>2 DEF BoundLow
    <3>2. ReadSound(lo, rd, "guest")
      BY <1>6, HandlesNow DEF ReadSound
    <3> QED
      BY <1>3, <2>2, <3>1, <3>2, HandlesNow
  <2> QED
    BY <2>1, <2>2
<1>8. BindingSound(wr', pair', lo')
  BY <1>1, <1>2, <1>5, <1>7 DEF BindingSound, SameWriter
<1>9. turns + 1 \in Nat
  BY <1>0
<1> QED
  BY <1>1, <1>2, <1>4, <1>5, <1>7, <1>8, <1>9, HandlesNow, HandlesStep

LEMMA DropPairKeeps == ASSUME StreamHandleInv, DropPair PROVE StreamHandleInv'
<1>0. wr \in Writers /\ pair \in [bound : BOOLEAN, dropped : BOOLEAN]
  BY HandlesNow
<1>1. /\ source = "pair" /\ ~pair.dropped
      /\ pair' = [pair EXCEPT !.dropped = TRUE]
      /\ wr' = (IF wr.pc = "queued" THEN Answered(wr, 0) ELSE wr)
      /\ lo' = (IF pair.bound THEN EndedBy(lo, "dropped") ELSE lo)
      /\ UNCHANGED <<source, holder, turns, sound, rd>>
  BY DEF DropPair
<1>2. /\ wr' \in Writers /\ SameWriter(wr, wr') /\ WriteLinked(wr', lo) /\ ChunksOf(wr')
      /\ wr'.pc # "queued"
  <2>1. CASE wr.pc = "queued"
    <3>1. /\ wr' \in Writers /\ SameWriter(wr, wr') /\ SameChunks(wr, wr') /\ wr'.pc = "none"
          /\ wr'.told = wr.told /\ wr'.len = wr.len
      BY <1>1, <2>1, QueuedAnswered
    <3> QED
      BY <2>1, <3>1, WriterAside
  <2>2. CASE wr.pc # "queued"
    BY <1>0, <1>1, <2>2, HandlesNow DEF SameWriter
  <2> QED
    BY <2>1, <2>2
<1>3. pair' \in [bound : BOOLEAN, dropped : BOOLEAN] /\ (pair'.bound <=> pair.bound)
  BY <1>0, <1>1
<1>4. /\ lo' \in LowStreams /\ LowSound(lo') /\ WriteLinked(wr', lo')
      /\ ReadSound(lo', rd, holder) /\ TrapSound(lo') /\ (pair.bound => lo'.dropped)
  <2>1. CASE pair.bound
    <3>1. lo' = EndedBy(lo, "dropped")
      BY <1>1, <2>1
    <3>2. "dropped" \in {"closed", "dropped", "trap"} /\ "dropped" # "trap"
      OBVIOUS
    <3> QED
      BY <1>2, <3>1, <3>2, EndKeeps
  <2>2. CASE ~pair.bound
    BY <1>1, <1>2, <2>2, HandlesNow
  <2> QED
    BY <2>1, <2>2
<1>5. BindingSound(wr', pair', lo')
  BY <1>2, <1>3, <1>4 DEF BindingSound
<1> QED
  BY <1>1, <1>2, <1>3, <1>4, <1>5, HandlesNow, HandlesStep

\* A step of the readable end, or of a guest, that leaves the pair alone.
LEMMA StreamSteps ==
  ASSUME StreamHandleInv, UNCHANGED <<source, pair, wr>>,
         holder' \in {"host", "guest"}, turns' \in Nat, sound' \in BOOLEAN,
         rd' \in [there : BOOLEAN, dropped : BOOLEAN, eos : BOOLEAN, asked : BOOLEAN],
         lo' \in LowStreams, LowSound(lo'), TrapSound(lo'), WriteLinked(wr, lo'),
         lo.dropped => lo'.dropped, ReadSound(lo', rd', holder'),
         source = "pair" /\ ~pair.bound => ~rd'.there /\ holder' = "host"
  PROVE  StreamHandleInv'
<1>1. BindingSound(wr, pair, lo')
  BY HandlesNow DEF BindingSound
<1> QED
  BY <1>1, HandlesNow, HandlesStep

LEMMA ReadKeeps == ASSUME StreamHandleInv, Read PROVE StreamHandleInv'
<1>0. lo \in LowStreams /\ LowSound(lo) /\ wr \in Writers
  BY HandlesNow
<1>1. PICK max \in 1..MaxChunk : lo' = LowRead(lo, max)
  BY DEF Read
<1>2. /\ rd.there /\ holder = "host" /\ UNCHANGED <<source, holder, turns, sound, pair, wr, rd>>
  BY DEF Read, Reads
<1>3. max \in Nat /\ max > 0
  BY StreamHandlesAssumption
<1>4. /\ lo' \in LowStreams /\ LowSound(lo') /\ SameEnd(lo, lo')
      /\ lo'.len = lo.len /\ (lo'.w = "none" <=> lo.w = "none")
      /\ (lo.w = "settled" => lo'.w = "settled")
      /\ lo'.taken + lo.got = lo.taken + (IF source = "pair" THEN lo'.got ELSE lo.got)
      /\ lo'.r # "none" /\ (lo'.r = "settled" /\ lo'.put = 0 => lo.dropped)
  BY <1>0, <1>1, <1>3, ReadsLow
<1>5. WriteLinked(wr, lo')
  <2>1. source = "pair" => lo'.taken = wr.told + (IF wr.pc = "low" THEN lo'.got ELSE 0)
    <3>1. CASE source = "pair" /\ wr.pc = "low"
      <4>1. lo.taken = wr.told + lo.got
        BY <3>1, HandlesNow DEF WriteLinked
      <4>2. wr.told \in Nat /\ lo.got \in Nat /\ lo.taken \in Nat /\ lo'.got \in Nat /\ lo'.taken \in Nat
        BY <1>0, <1>4 DEF Writers, LowStreams
      <4>3. lo'.taken + lo.got = lo.taken + lo'.got
        BY <1>4, <3>1
      <4> QED
        BY <3>1, <4>1, <4>2, <4>3
    <3>2. CASE source = "pair" /\ wr.pc # "low"
      <4>1. lo.w = "none"
        BY <3>2, HandlesNow DEF WriteLinked
      <4>2. lo'.taken = lo.taken
        BY <1>0, <1>1, <1>3, <4>1, NoWriteToRead
      <4> QED
        BY <3>2, <4>2, HandlesNow DEF WriteLinked
    <3> QED
      BY <3>1, <3>2
  <2> QED
    BY <1>4, <2>1, HandlesNow DEF WriteLinked
<1>6. ReadSound(lo', rd, holder)
  BY <1>2, <1>4, HandlesNow DEF ReadSound, SameEnd
<1>7. TrapSound(lo') /\ (lo.dropped => lo'.dropped)
  BY <1>4, HandlesNow DEF TrapSound, SameEnd
<1> QED
  BY <1>2, <1>4, <1>5, <1>6, <1>7, HandlesNow, StreamSteps

LEMMA ReadReturnsKeeps == ASSUME StreamHandleInv, ReadReturns PROVE StreamHandleInv'
<1>0. lo \in LowStreams /\ LowSound(lo)
      /\ rd \in [there : BOOLEAN, dropped : BOOLEAN, eos : BOOLEAN, asked : BOOLEAN]
  BY HandlesNow
<1>1. /\ lo.r = "settled" /\ rd' = [rd EXCEPT !.eos = @ \/ CleanEnd]
      /\ lo' = [lo EXCEPT !.r = "none", !.room = 0, !.put = 0]
      /\ UNCHANGED <<source, holder, turns, sound, pair, wr>>
  BY DEF ReadReturns
<1>2. CleanEnd \in BOOLEAN
  BY DEF CleanEnd
<1>3. /\ rd' \in [there : BOOLEAN, dropped : BOOLEAN, eos : BOOLEAN, asked : BOOLEAN]
      /\ rd'.there = rd.there /\ rd'.asked = rd.asked /\ (rd'.eos <=> rd.eos \/ CleanEnd)
  BY <1>0, <1>1, <1>2
<1>4. lo' \in LowStreams /\ lo'.r = "none" /\ lo'.put = 0 /\ lo'.room = 0 /\ SameEnd(lo, lo')
      /\ lo'.w = lo.w /\ lo'.len = lo.len /\ lo'.got = lo.got /\ lo'.taken = lo.taken
  <2>1. lo' \in LowStreams
    BY <1>0, <1>1 DEF LowStreams
  <2> QED
    BY <1>0, <1>1, <2>1, SMTT(40) DEF LowStreams, SameEnd
<1>5. LowSound(lo')
  BY <1>0, <1>4 DEF LowSound, SameEnd
<1>6. WriteLinked(wr, lo')
  BY <1>4, HandlesNow DEF WriteLinked
<1>7. CleanEnd => rd.asked \/ lo.cause \in {"closed", "dropped"}
  <2>1. CleanEnd => rd.asked \/ lo.dropped
    BY <1>1, HandlesNow DEF ReadSound, CleanEnd
  <2>2. CleanEnd => lo.cause # "trap"
    BY HandlesNow DEF TrapSound, CleanEnd
  <2>3. lo.dropped => lo.cause \in {"closed", "dropped", "trap"}
    BY <1>0 DEF LowSound, LowStreams
  <2> QED
    BY <2>1, <2>2, <2>3
<1>8. ReadSound(lo', rd', holder)
  BY <1>3, <1>4, <1>7, HandlesNow DEF ReadSound, SameEnd
<1>9. TrapSound(lo') /\ (lo.dropped => lo'.dropped)
  BY <1>4, HandlesNow DEF TrapSound, SameEnd
<1> QED
  BY <1>1, <1>3, <1>4, <1>5, <1>6, <1>8, <1>9, HandlesNow, StreamSteps

LEMMA CancelReadKeeps == ASSUME StreamHandleInv, CancelRead PROVE StreamHandleInv'
<1>0. lo \in LowStreams /\ LowSound(lo) /\ "r" \in {"w", "r"}
      /\ rd \in [there : BOOLEAN, dropped : BOOLEAN, eos : BOOLEAN, asked : BOOLEAN]
  BY HandlesNow
<1>1. /\ rd.there /\ lo.r = "parked" /\ lo' = CancelLow(lo, "r") /\ rd' = [rd EXCEPT !.asked = TRUE]
      /\ UNCHANGED <<source, holder, turns, sound, pair, wr>>
  BY DEF CancelRead
<1>2. /\ rd' \in [there : BOOLEAN, dropped : BOOLEAN, eos : BOOLEAN, asked : BOOLEAN]
      /\ rd'.there = rd.there /\ rd'.asked /\ rd'.eos = rd.eos
  BY <1>0, <1>1
<1>3. /\ lo' \in LowStreams /\ LowSound(lo') /\ SameEnd(lo, lo')
      /\ SameWrite(lo, lo') /\ lo'.r # "parked" /\ lo'.w = lo.w
  BY <1>0, <1>1, CancelsLow
<1>4. WriteLinked(wr, lo')
  BY <1>3, HandlesNow DEF WriteLinked, SameWrite
<1>5. ReadSound(lo', rd', holder) /\ TrapSound(lo') /\ (lo.dropped => lo'.dropped)
  BY <1>1, <1>2, <1>3, HandlesNow DEF ReadSound, TrapSound, SameEnd
<1> QED
  BY <1>1, <1>2, <1>3, <1>4, <1>5, HandlesNow, StreamSteps

LEMMA DropReaderKeeps == ASSUME StreamHandleInv, DropReader PROVE StreamHandleInv'
<1>0. rd \in [there : BOOLEAN, dropped : BOOLEAN, eos : BOOLEAN, asked : BOOLEAN]
      /\ wr \in Writers /\ WriteLinked(wr, lo)
      /\ "dropped" \in {"closed", "dropped", "trap"} /\ "dropped" # "trap"
  BY HandlesNow
<1>1. /\ rd' = [rd EXCEPT !.dropped = TRUE] /\ lo' = EndedBy(lo, "dropped")
      /\ UNCHANGED <<source, holder, turns, sound, pair, wr>>
  BY DEF DropReader
<1>2. /\ rd' \in [there : BOOLEAN, dropped : BOOLEAN, eos : BOOLEAN, asked : BOOLEAN]
      /\ rd'.there = rd.there /\ rd'.asked = rd.asked /\ rd'.eos = rd.eos
  BY <1>0, <1>1
<1>3. /\ lo' \in LowStreams /\ LowSound(lo') /\ WriteLinked(wr, lo')
      /\ ReadSound(lo', rd, holder) /\ TrapSound(lo') /\ lo'.dropped
  BY <1>0, <1>1, EndKeeps
<1>4. ReadSound(lo', rd', holder)
  BY <1>2, <1>3 DEF ReadSound
<1> QED
  BY <1>1, <1>2, <1>3, <1>4, HandlesNow, StreamSteps

LEMMA PassOnKeeps == ASSUME StreamHandleInv, PassOn PROVE StreamHandleInv'
<1>1. /\ rd.there /\ lo.r # "parked" /\ holder' = "guest" /\ turns' = turns + 1
      /\ UNCHANGED <<source, sound, pair, wr, rd, lo>>
  BY DEF PassOn, Reads, Idle
<1>2. ReadSound(lo, rd, "guest")
  BY <1>1, HandlesNow DEF ReadSound
<1>3. turns + 1 \in Nat
  BY HandlesNow
<1> QED
  BY <1>1, <1>2, <1>3, HandlesNow, StreamSteps

LEMMA LiftBackKeeps == ASSUME StreamHandleInv, LiftBack PROVE StreamHandleInv'
<1>0. rd \in [there : BOOLEAN, dropped : BOOLEAN, eos : BOOLEAN, asked : BOOLEAN]
  BY HandlesNow
<1>1. /\ holder = "guest" /\ holder' = "host" /\ turns' = turns + 1
      /\ rd' = [rd EXCEPT !.there = TRUE, !.dropped = FALSE]
      /\ UNCHANGED <<source, sound, pair, wr, lo>>
  BY DEF LiftBack
<1>2. /\ rd' \in [there : BOOLEAN, dropped : BOOLEAN, eos : BOOLEAN, asked : BOOLEAN]
      /\ rd'.there /\ rd'.asked = rd.asked /\ rd'.eos = rd.eos
  BY <1>0, <1>1
<1>3. ReadSound(lo, rd', "host")
  BY <1>2, HandlesNow DEF ReadSound
<1>4. turns + 1 \in Nat
  BY HandlesNow
<1> QED
  BY <1>1, <1>2, <1>3, <1>4, HandlesNow, StreamSteps

LEMMA GuestReadsKeeps == ASSUME StreamHandleInv, GuestReads PROVE StreamHandleInv'
<1>0. lo \in LowStreams /\ LowSound(lo) /\ wr \in Writers
  BY HandlesNow
<1>1. PICK n \in 1..(lo.len - lo.got) : lo' = Moved(lo, n)
  BY DEF GuestReads
<1>2. /\ lo.w = "parked" /\ UNCHANGED <<source, holder, turns, sound, pair, wr, rd>>
  BY DEF GuestReads
<1>3. lo.len \in Nat /\ lo.got \in Nat /\ lo.taken \in Nat /\ wr.told \in Nat
      /\ lo.got < lo.len /\ ~lo.dropped
  BY <1>0, <1>2 DEF LowStreams, LowSound, Writers
<1>4. n \in Nat /\ n > 0 /\ lo.got + n <= lo.len
  BY <1>3
<1>5. /\ lo' \in LowStreams /\ SameEnd(lo, lo') /\ lo'.len = lo.len /\ lo'.got = lo.got + n
      /\ lo'.taken = (IF source = "pair" THEN lo.taken + n ELSE lo.taken)
      /\ lo'.w = (IF lo.got + n = lo.len THEN "settled" ELSE lo.w)
      /\ lo'.r = lo.r /\ lo'.room = lo.room /\ lo'.put = lo.put
  BY <1>0, <1>1, <1>4, MovesLow
<1>6. LowSound(lo')
  BY <1>0, <1>2, <1>3, <1>4, <1>5 DEF LowSound, SameEnd
<1>7. WriteLinked(wr, lo')
  BY <1>2, <1>3, <1>4, <1>5, HandlesNow DEF WriteLinked
<1>8. ReadSound(lo', rd, holder) /\ TrapSound(lo') /\ (lo.dropped => lo'.dropped)
  BY <1>5, HandlesNow DEF ReadSound, TrapSound, SameEnd
<1> QED
  BY <1>2, <1>5, <1>6, <1>7, <1>8, HandlesNow, StreamSteps

LEMMA GuestWritesKeeps == ASSUME StreamHandleInv, GuestWrites PROVE StreamHandleInv'
<1>0. lo \in LowStreams /\ LowSound(lo) /\ FALSE \in BOOLEAN
  BY HandlesNow
<1>1. PICK len \in 1..MaxChunk :
        lo' = [LowWrite(lo, len, FALSE) EXCEPT !.w = IF @ = "settled" THEN "none" ELSE @]
  BY DEF GuestWrites
<1>2. source = "guest" /\ UNCHANGED <<source, holder, turns, sound, pair, wr, rd>>
  BY DEF GuestWrites
<1>3. len \in Nat /\ len > 0
  BY StreamHandlesAssumption
<1> DEFINE u == LowWrite(lo, len, FALSE)
<1>4. /\ u \in LowStreams /\ LowSound(u) /\ SameEnd(lo, u)
      /\ u.r = (IF lo.r = "parked" THEN "settled" ELSE lo.r)
      /\ u.put = 0 => lo.put = 0 /\ lo.r # "parked"
  BY <1>0, <1>3, WritesLow
<1>5. lo' = [u EXCEPT !.w = IF @ = "settled" THEN "none" ELSE @]
  BY <1>1
<1> HIDE DEF u
<1>6. /\ lo' \in LowStreams /\ SameEnd(u, lo') /\ lo'.r = u.r /\ lo'.put = u.put
      /\ lo'.w \in {"none", u.w} /\ lo'.got = u.got /\ lo'.len = u.len /\ lo'.room = u.room
  <2>1. lo' \in LowStreams
    BY <1>4, <1>5 DEF LowStreams
  <2> QED
    BY <1>4, <1>5, <2>1, SMTT(40) DEF LowStreams, SameEnd
<1>7. LowSound(lo')
  BY <1>4, <1>6 DEF LowSound, SameEnd
<1>8. WriteLinked(wr, lo')
  BY <1>2, HandlesNow DEF WriteLinked
<1>9. ReadSound(lo', rd, holder) /\ TrapSound(lo') /\ (lo.dropped => lo'.dropped)
  BY <1>4, <1>6, HandlesNow DEF ReadSound, TrapSound, SameEnd
<1> QED
  BY <1>2, <1>6, <1>7, <1>8, <1>9, HandlesNow, StreamSteps

LEMMA GuestHearsKeeps == ASSUME StreamHandleInv, GuestHears PROVE StreamHandleInv'
<1>0. lo \in LowStreams /\ LowSound(lo)
  BY HandlesNow
<1>1. /\ source = "guest" /\ lo' = [lo EXCEPT !.w = "none", !.len = 0, !.got = 0]
      /\ UNCHANGED <<source, holder, turns, sound, pair, wr, rd>>
  BY DEF GuestHears
<1>2. /\ lo' \in LowStreams /\ SameEnd(lo, lo') /\ lo'.r = lo.r /\ lo'.put = lo.put
      /\ lo'.w = "none" /\ lo'.room = lo.room
  <2>1. lo' \in LowStreams
    BY <1>0, <1>1 DEF LowStreams
  <2> QED
    BY <1>0, <1>1, <2>1, SMTT(40) DEF LowStreams, SameEnd
<1>3. LowSound(lo')
  BY <1>0, <1>2 DEF LowSound, SameEnd
<1>4. WriteLinked(wr, lo')
  BY <1>1, HandlesNow DEF WriteLinked
<1>5. ReadSound(lo', rd, holder) /\ TrapSound(lo') /\ (lo.dropped => lo'.dropped)
  BY <1>2, HandlesNow DEF ReadSound, TrapSound, SameEnd
<1> QED
  BY <1>1, <1>2, <1>3, <1>4, <1>5, HandlesNow, StreamSteps

LEMMA GuestEndsKeeps == ASSUME StreamHandleInv, GuestEnds PROVE StreamHandleInv'
<1>0. wr \in Writers /\ WriteLinked(wr, lo)
      /\ "closed" \in {"closed", "dropped", "trap"} /\ "closed" # "trap"
  BY HandlesNow
<1>1. lo' = EndedBy(lo, "closed") /\ UNCHANGED <<source, holder, turns, sound, pair, wr, rd>>
  BY DEF GuestEnds
<1>2. /\ lo' \in LowStreams /\ LowSound(lo') /\ WriteLinked(wr, lo')
      /\ ReadSound(lo', rd, holder) /\ TrapSound(lo') /\ lo'.dropped
  BY <1>0, <1>1, EndKeeps
<1> QED
  BY <1>1, <1>2, HandlesNow, StreamSteps

\* A trap settles what the guest had parked, ends the stream and marks it.
LEMMA GuestDiesKeeps == ASSUME StreamHandleInv, GuestDies PROVE StreamHandleInv'
<1> DEFINE t == IF source = "guest" THEN CancelLow(lo, "w") ELSE lo
           u == EndedBy(t, "trap")
<1>0. lo \in LowStreams /\ LowSound(lo) /\ "w" \in {"w", "r"} /\ "trap" \in {"closed", "dropped", "trap"}
  BY HandlesNow
<1>1. /\ sound' = FALSE /\ lo' = [u EXCEPT !.poisoned = TRUE]
      /\ UNCHANGED <<source, holder, turns, pair, wr, rd>>
  BY DEF GuestDies
<1>2. /\ t \in LowStreams /\ LowSound(t) /\ SameEnd(lo, t) /\ SameWrite(lo, t) /\ t.r = lo.r
      /\ t.put = lo.put
  <2>1. CASE source = "guest"
    BY <1>0, <2>1, CancelsLow DEF SameRead
  <2>2. CASE source # "guest"
    BY <1>0, <2>2 DEF SameEnd, SameWrite
  <2> QED
    BY <2>1, <2>2
<1> HIDE DEF t
<1>3. /\ u \in LowStreams /\ LowSound(u) /\ SameWrite(t, u) /\ SameRead(t, u)
      /\ u.dropped /\ u.w # "parked" /\ u.r # "parked"
      /\ u.cause = IF t.dropped THEN t.cause ELSE "trap"
  BY <1>0, <1>2, EndsLow
<1> HIDE DEF u
<1>4. /\ lo' \in LowStreams /\ lo'.poisoned = TRUE /\ lo'.dropped = u.dropped
      /\ lo'.cause = u.cause /\ lo'.w = u.w /\ lo'.r = u.r /\ lo'.len = u.len
      /\ lo'.got = u.got /\ lo'.taken = u.taken /\ lo'.put = u.put /\ lo'.room = u.room
  <2>1. lo' \in LowStreams
    BY <1>1, <1>3 DEF LowStreams
  <2>2. u \in LowStreams
    BY <1>3
  <2>3. lo' = [u EXCEPT !.poisoned = TRUE]
    BY <1>1
  <2>4. lo'.poisoned = TRUE /\ lo'.dropped = u.dropped /\ lo'.cause = u.cause
        /\ lo'.w = u.w /\ lo'.r = u.r
    BY <2>1, <2>2, <2>3, SMTT(40) DEF LowStreams
  <2>5. lo'.len = u.len /\ lo'.got = u.got /\ lo'.taken = u.taken /\ lo'.put = u.put
        /\ lo'.room = u.room
    BY <2>1, <2>2, <2>3, SMTT(40) DEF LowStreams
  <2> QED
    BY <2>1, <2>4, <2>5
<1>5. LowSound(lo')
  BY <1>3, <1>4 DEF LowSound
<1>6. WriteLinked(wr, lo')
  <2>1. u.w \in {"none", "parked", "settled"}
    BY <1>3 DEF LowStreams
  <2> QED
    BY <1>2, <1>3, <1>4, <2>1, HandlesNow DEF WriteLinked, SameWrite
<1>7. ReadSound(lo', rd, holder)
  <2>1. lo.dropped \/ lo.cause = "none"
    BY <1>0 DEF LowSound
  <2> QED
    BY <1>2, <1>3, <1>4, <2>1, HandlesNow DEF ReadSound, SameRead, SameEnd
<1>8. TrapSound(lo') /\ lo'.dropped
  BY <1>3, <1>4 DEF TrapSound
<1> QED
  BY <1>1, <1>4, <1>5, <1>6, <1>7, <1>8, HandlesNow, StreamSteps

LEMMA HandlesInitially == ASSUME HandlesInit PROVE StreamHandleInv
<1>1. PICK owned \in {FALSE, source = "pair"} : wr = [NoWriter EXCEPT !.owned = owned]
  BY DEF HandlesInit
<1>2. owned \in BOOLEAN
  OBVIOUS
<1>3. wr \in Writers /\ wr.pc = "none" /\ wr.made = 0 /\ wr.released = 0 /\ wr.kept = 0
      /\ wr.told = 0 /\ ~wr.closed
  BY <1>1, <1>2 DEF NoWriter, Writers
<1>4. lo \in LowStreams /\ LowSound(lo) /\ TrapSound(lo)
  BY DEF HandlesInit, LowStreams, LowSound, TrapSound
<1>5. StreamHandleTypes
  BY <1>3, <1>4 DEF HandlesInit, StreamHandleTypes
<1>6. WriteLinked(wr, lo) /\ ChunksOf(wr)
  BY <1>3 DEF HandlesInit, WriteLinked, ChunksOf
<1>7. BindingSound(wr, pair, lo)
  BY <1>3 DEF HandlesInit, BindingSound
<1>8. ReadSound(lo, rd, holder)
  BY DEF HandlesInit, ReadSound
<1>9. source = "pair" /\ ~pair.bound => ~rd.there /\ holder = "host"
  BY DEF HandlesInit
<1> QED
  BY <1>4, <1>5, <1>6, <1>7, <1>8, <1>9 DEF StreamHandleInv

LEMMA HandlesStutter ==
  ASSUME StreamHandleInv, UNCHANGED handleVars
  PROVE  StreamHandleInv'
BY HandlesNow, HandlesStep DEF handleVars

\* The inductive invariant of the embedder's stream handles (Stream,
\* StreamWriter): how the writer's operation, the binding, the shared stream
\* and the reader go together.
THEOREM StreamHandlesInvariant == HandlesSpec => []StreamHandleInv
<1>1. HandlesInit => StreamHandleInv
  BY HandlesInitially
<1>2. StreamHandleInv /\ [HandlesNext]_handleVars => StreamHandleInv'
  <2>1. ASSUME StreamHandleInv, HandlesNext PROVE StreamHandleInv'
    BY <2>1, StartKeeps, PrepareFailsKeeps, ChunkPreparedKeeps, WriteReturnsKeeps,
       CancelWriteKeeps, CloseKeeps, CloseDropsKeeps, BindKeeps, DropPairKeeps, ReadKeeps,
       ReadReturnsKeeps, CancelReadKeeps, DropReaderKeeps, PassOnKeeps, LiftBackKeeps,
       GuestReadsKeeps, GuestWritesKeeps, GuestHearsKeeps, GuestEndsKeeps, GuestDiesKeeps
       DEF HandlesNext
  <2> QED
    BY <2>1, HandlesStutter
<1> QED
  BY <1>1, <1>2, PTL DEF HandlesSpec

\* No operation of the writer is forgotten between the writer, the stream and
\* the binding (onBound, #launch, #write, cancelWrite, close, drop).
THEOREM WriterIsAnswered == HandlesSpec => []WriterAnswered
<1>1. StreamHandleInv => WriterAnswered
  <2> SUFFICES ASSUME StreamHandleInv PROVE WriterAnswered
    OBVIOUS
  <2>1. wr.pc = "queued" => ~pair.bound /\ ~pair.dropped /\ ~wr.closed
    BY HandlesNow DEF BindingSound
  <2>2. source = "pair" => (wr.pc = "low" <=> lo.w # "none")
    BY HandlesNow DEF WriteLinked
  <2>3. pair.bound /\ (wr.closed \/ pair.dropped) => lo.dropped \/ wr.closing
    BY HandlesNow DEF BindingSound
  <2>4. lo.dropped => lo.w # "parked" /\ lo.r # "parked"
    BY HandlesNow DEF LowSound
  <2>5. wr.pc = "low" /\ wr.cancelled => lo.w = "settled"
    BY HandlesNow DEF WriteLinked
  <2> QED
    BY <2>1, <2>2, <2>3, <2>4, <2>5 DEF WriterAnswered
<1> QED
  BY <1>1, StreamHandlesInvariant, PTL

\* What the handles answer is what was copied: the counts, the elements of an
\* owned chunk, the end of the stream (#write, releaseUntaken, #finishRead).
THEOREM HandlesAreTold == HandlesSpec => []HandlesTold
<1>1. StreamHandleInv => HandlesTold
  <2> SUFFICES ASSUME StreamHandleInv PROVE HandlesTold
    OBVIOUS
  <2>1. wr \in Writers
    BY HandlesNow
  <2>2. wr.released \in Nat /\ wr.kept \in Nat
    BY <2>1 DEF Writers
  <2>3. ChunksSettled
    <3> SUFFICES ASSUME source = "pair"
                 PROVE  /\ lo.taken = wr.told + (IF wr.pc = "low" THEN lo.got ELSE 0)
                        /\ wr.pc # "low" => wr.made = wr.released + wr.kept
      BY DEF ChunksSettled
    <3>1. lo.taken = wr.told + (IF wr.pc = "low" THEN lo.got ELSE 0)
      BY HandlesNow DEF WriteLinked
    <3>2. wr.pc # "low" => wr.made = wr.released + wr.kept
      BY <2>2, HandlesNow DEF ChunksOf
    <3> QED
      BY <3>1, <3>2
  <2>4. ReadsTold
    BY HandlesNow DEF ReadsTold, ReadSound
  <2> QED
    BY <2>3, <2>4 DEF HandlesTold
<1> QED
  BY <1>1, StreamHandlesInvariant, PTL

(* -- the versions of an import ----------------------------------------------- *)

\* Each key is registered once.
OnceEach == \A i, j \in 1..Len(record) : record[i] = record[j] => i = j

\* A track is claimed by a registered key that is on it.
ClaimedByOwn ==
  \A t \in DOMAIN tracks : \E i \in 1..registered :
    tracks[t] = record[i] /\ ClaimsOne(record[i]) /\ Claims(record[i]) = t

\* The key's track is claimed by a key of its form, and by none below it.
Served(key) ==
  /\ Claims(key) \in DOMAIN tracks
  /\ key.ver.form = "track" <=> tracks[Claims(key)].ver.form = "track"
  /\ key.ver.form = "track" \/ ~Above(key.ver, tracks[Claims(key)].ver)
AllServed == \A i \in 1..registered : /\ record[i].ver.form # "zero"
                                      /\ ClaimsOne(record[i]) => Served(record[i])

VersionInv ==
  /\ record \in Seq(Keys) /\ registered \in 0..Len(record)
  /\ outcome \in {"registering", "refused", "ready"}
  /\ OnceEach /\ ClaimedByOwn /\ AllServed
  /\ outcome = "refused" => Ambiguous
  /\ outcome = "ready" => registered = Len(record)

LEMMA VersionsNow ==
  ASSUME VersionInv
  PROVE  /\ record \in Seq(Keys) /\ registered \in 0..Len(record) /\ Len(record) \in Nat
         /\ Exact = {record[i] : i \in 1..Len(record)}
         /\ \A i \in 1..Len(record) : record[i] \in Keys
BY DEF VersionInv, Exact

\* Precedence of releases is an order.
LEMMA AboveTransitive ==
  ASSUME NEW u, NEW v, NEW w, u.num \in [1..3 -> Nat], v.num \in [1..3 -> Nat],
         w.num \in [1..3 -> Nat], Above(u, v), Above(v, w)
  PROVE  Above(u, w)
<1>1. PICK i \in 1..3 : u.num[i] > v.num[i] /\ \A k \in 1..(i - 1) : u.num[k] = v.num[k]
  BY DEF Above
<1>2. PICK j \in 1..3 : v.num[j] > w.num[j] /\ \A k \in 1..(j - 1) : v.num[k] = w.num[k]
  BY DEF Above
<1> DEFINE m == IF i <= j THEN i ELSE j
<1>3. m \in 1..3 /\ m <= i /\ m <= j
  OBVIOUS
<1>4. \A k \in 1..3 : u.num[k] \in Nat /\ v.num[k] \in Nat /\ w.num[k] \in Nat
  OBVIOUS
<1>5. u.num[m] > w.num[m]
  <2>1. CASE i < j
    BY <1>1, <1>2, <1>4, <2>1
  <2>2. CASE i = j
    BY <1>1, <1>2, <1>4, <2>2
  <2>3. CASE i > j
    BY <1>1, <1>2, <1>4, <2>3
  <2> QED
    BY <2>1, <2>2, <2>3
<1>6. \A k \in 1..(m - 1) : u.num[k] = w.num[k]
  BY <1>1, <1>2, <1>3
<1> QED
  BY <1>3, <1>5, <1>6 DEF Above

LEMMA NotAboveItself ==
  ASSUME NEW v, v.num \in [1..3 -> Nat]
  PROVE  ~Above(v, v)
BY DEF Above

LEMMA VersionsInitially == ASSUME VersionInit PROVE VersionInv
<1>1. PICK n \in 0..MaxKeys :
        /\ record \in [1..n -> Keys] /\ \A i, j \in 1..n : record[i] = record[j] => i = j
  BY DEF VersionInit, Records
<1>2. n \in Nat
  BY VersionsAssumption
<1>3. record \in Seq(Keys) /\ Len(record) = n
  BY <1>1, <1>2, SeqDef, LenProperties
<1>4. registered = 0 /\ outcome = "registering" /\ DOMAIN tracks = {}
  BY DEF VersionInit
<1>5. OnceEach
  BY <1>1, <1>3 DEF OnceEach
<1>6. ClaimedByOwn /\ AllServed
  BY <1>4 DEF ClaimedByOwn, AllServed
<1> QED
  BY <1>2, <1>3, <1>4, <1>5, <1>6 DEF VersionInv

\* A key that is refused collides with one registered before it.
LEMMA RefusalHasCause ==
  ASSUME VersionInv, NEW k \in 1..Len(record), Refused(record[k])
  PROVE  Ambiguous
<1> DEFINE key == record[k]
<1>1. key \in Exact
  BY VersionsNow
<1>2. CASE key.ver.form = "zero"
  BY <1>1, <1>2 DEF Ambiguous
<1>3. CASE key.ver.form # "zero"
  <2>1. /\ ClaimsOne(key) /\ Claims(key) \in DOMAIN tracks
        /\ (key.ver.form = "track") # (tracks[Claims(key)].ver.form = "track")
    BY <1>3 DEF Refused
  <2>2. PICK i \in 1..registered : /\ tracks[Claims(key)] = record[i] /\ ClaimsOne(record[i])
                                   /\ Claims(record[i]) = Claims(key)
    BY <2>1 DEF VersionInv, ClaimedByOwn
  <2>3. record[i] \in Exact
    BY VersionsNow
  <2>4. CASE key.ver.form = "track"
    <3>1. record[i].ver.form # "track"
      BY <2>1, <2>2, <2>4
    <3> QED
      BY <1>1, <2>1, <2>2, <2>3, <2>4, <3>1 DEF Ambiguous
  <2>5. CASE key.ver.form # "track"
    <3>1. record[i].ver.form = "track"
      BY <2>1, <2>2, <2>5
    <3> QED
      BY <1>1, <2>1, <2>2, <2>3, <2>5, <3>1 DEF Ambiguous
  <2> QED
    BY <2>4, <2>5
<1> QED
  BY <1>2, <1>3

\* Who is on a track and not spelled as it has a full version.
LEMMA FullVersions ==
  ASSUME NEW key \in Keys, ClaimsOne(key), key.ver.form # "track"
  PROVE  key.ver.num \in [1..3 -> Nat]
BY KeysAssumption DEF ClaimsOne, Full

\* The claims once a key has been registered that is not refused.
LEMMA ClaimedServes ==
  ASSUME VersionInv, NEW k \in 1..Len(record), k = registered + 1, ~Refused(record[k]),
         ClaimsOne(record[k]), tracks' = Claimed(record[k])
  PROVE  /\ \A t \in DOMAIN tracks' : \E i \in 1..k :
              tracks'[t] = record[i] /\ ClaimsOne(record[i]) /\ Claims(record[i]) = t
         /\ \A i \in 1..k : ClaimsOne(record[i]) =>
              LET t == Claims(record[i])
              IN  /\ t \in DOMAIN tracks'
                  /\ record[i].ver.form = "track" <=> tracks'[t].ver.form = "track"
                  /\ record[i].ver.form = "track" \/ ~Above(record[i].ver, tracks'[t].ver)
<1> DEFINE key == record[k]
           t == Claims(key)
<1>1. key \in Keys /\ registered \in Nat /\ Len(record) \in Nat
      /\ (\A i \in 1..registered : i \in 1..Len(record) /\ record[i] \in Keys /\ i # k)
      /\ \A i \in 1..k : i \in 1..registered \/ i = k
  BY VersionsNow
<1>2. /\ \A s \in DOMAIN tracks : \E i \in 1..registered :
           tracks[s] = record[i] /\ ClaimsOne(record[i]) /\ Claims(record[i]) = s
      /\ \A i \in 1..registered : ClaimsOne(record[i]) => Served(record[i])
      /\ OnceEach
  BY DEF VersionInv, ClaimedByOwn, AllServed
<1>3. CASE t \notin DOMAIN tracks
  <2>1. tracks' = With(tracks, t, key)
    BY <1>3 DEF Claimed
  <2>2. /\ DOMAIN tracks' = DOMAIN tracks \cup {t} /\ tracks'[t] = key
        /\ \A s \in DOMAIN tracks : s # t => tracks'[s] = tracks[s]
    BY <2>1 DEF With
  <2>3. ASSUME NEW s \in DOMAIN tracks'
        PROVE  \E i \in 1..k : tracks'[s] = record[i] /\ ClaimsOne(record[i]) /\ Claims(record[i]) = s
    <3>1. CASE s = t
      BY <2>2, <3>1
    <3>2. CASE s # t
      BY <1>1, <1>2, <2>2, <3>2
    <3> QED
      BY <3>1, <3>2
  <2>4. ASSUME NEW i \in 1..k, ClaimsOne(record[i])
        PROVE  /\ Claims(record[i]) \in DOMAIN tracks'
               /\ record[i].ver.form = "track" <=> tracks'[Claims(record[i])].ver.form = "track"
               /\ record[i].ver.form = "track" \/ ~Above(record[i].ver, tracks'[Claims(record[i])].ver)
    <3>1. CASE i = k
      BY <1>1, <2>2, <2>4, <3>1, FullVersions, NotAboveItself
    <3>2. CASE i # k
      <4>1. Served(record[i])
        BY <1>1, <1>2, <2>4, <3>2
      <4>2. Claims(record[i]) # t
        BY <1>3, <4>1 DEF Served
      <4> QED
        BY <2>2, <4>1, <4>2 DEF Served
    <3> QED
      BY <3>1, <3>2
  <2> QED
    BY <2>3, <2>4
<1>4. CASE t \in DOMAIN tracks
  <2>1. PICK h \in 1..registered : tracks[t] = record[h] /\ ClaimsOne(record[h])
                                   /\ Claims(record[h]) = t
    BY <1>2, <1>4
  <2>2. record[h] \in Keys /\ h \in 1..Len(record) /\ h # k
    BY <1>1
  <2>3. key.ver.form = "track" <=> record[h].ver.form = "track"
    BY <1>4, <2>1 DEF Refused
  <2>4. key.ver.form # "track"
    <3> SUFFICES ASSUME key.ver.form = "track" PROVE FALSE
      OBVIOUS
    <3>1. key.base = record[h].base /\ key.ver.track = record[h].ver.track
      BY <2>1, <2>3 DEF Claims
    <3>2. record[h] = key
      BY <1>1, <2>2, <2>3, <3>1, KeysAssumption
    <3> QED
      BY <1>2, <2>2, <3>2 DEF OnceEach
  <2>5. key.ver.num \in [1..3 -> Nat] /\ record[h].ver.num \in [1..3 -> Nat]
    BY <1>1, <2>1, <2>2, <2>3, <2>4, FullVersions
  <2>6. CASE Above(key.ver, record[h].ver)
    <3>1. tracks' = With(tracks, t, key)
      BY <2>1, <2>6 DEF Claimed
    <3>2. /\ DOMAIN tracks' = DOMAIN tracks \cup {t} /\ tracks'[t] = key
          /\ \A s \in DOMAIN tracks : s # t => tracks'[s] = tracks[s]
      BY <3>1 DEF With
    <3>3. ASSUME NEW s \in DOMAIN tracks'
          PROVE  \E i \in 1..k : tracks'[s] = record[i] /\ ClaimsOne(record[i])
                                 /\ Claims(record[i]) = s
      <4>1. CASE s = t
        BY <3>2, <4>1
      <4>2. CASE s # t
        BY <1>1, <1>2, <3>2, <4>2
      <4> QED
        BY <4>1, <4>2
    <3>4. ASSUME NEW i \in 1..k, ClaimsOne(record[i])
          PROVE  /\ Claims(record[i]) \in DOMAIN tracks'
                 /\ record[i].ver.form = "track" <=> tracks'[Claims(record[i])].ver.form = "track"
                 /\ record[i].ver.form = "track" \/ ~Above(record[i].ver, tracks'[Claims(record[i])].ver)
      <4>1. CASE i = k
        BY <2>5, <3>2, <4>1, NotAboveItself
      <4>2. CASE i # k /\ Claims(record[i]) # t
        <5>1. Served(record[i])
          BY <1>1, <1>2, <3>4, <4>2
        <5> QED
          BY <3>2, <4>2, <5>1 DEF Served
      <4>3. CASE i # k /\ Claims(record[i]) = t
        <5>1. Served(record[i]) /\ record[i] \in Keys
          BY <1>1, <1>2, <3>4, <4>3
        <5>2. record[i].ver.form # "track" /\ ~Above(record[i].ver, record[h].ver)
          BY <2>1, <2>3, <2>4, <4>3, <5>1 DEF Served
        <5>3. record[i].ver.num \in [1..3 -> Nat]
          BY <3>4, <5>1, <5>2, FullVersions
        <5>4. ~Above(record[i].ver, key.ver)
          BY <2>5, <2>6, <5>2, <5>3, AboveTransitive
        <5> QED
          BY <2>4, <3>2, <4>3, <5>2, <5>4
      <4> QED
        BY <4>1, <4>2, <4>3
    <3> QED
      BY <3>3, <3>4
  <2>7. CASE ~Above(key.ver, record[h].ver)
    <3>1. tracks' = tracks
      BY <1>4, <2>1, <2>7 DEF Claimed
    <3>2. \A s \in DOMAIN tracks : \E i \in 1..k :
            tracks[s] = record[i] /\ ClaimsOne(record[i]) /\ Claims(record[i]) = s
      BY <1>1, <1>2
    <3>3. Served(key)
      BY <1>4, <2>1, <2>3, <2>7 DEF Served
    <3>4. \A i \in 1..k : ClaimsOne(record[i]) => Served(record[i])
      BY <1>1, <1>2, <3>3
    <3> QED
      BY <3>1, <3>2, <3>4 DEF Served
  <2> QED
    BY <2>6, <2>7
<1> QED
  BY <1>3, <1>4

LEMMA RegisterKeeps == ASSUME VersionInv, Register PROVE VersionInv'
<1> DEFINE k == registered + 1
<1>1. k \in 1..Len(record) /\ outcome = "registering" /\ record' = record
  BY VersionsNow DEF Register
<1>2. CASE Refused(record[k])
  <2>1. outcome' = "refused" /\ UNCHANGED <<record, registered, tracks, unversioned>>
    BY <1>2 DEF Register
  <2>2. Ambiguous
    BY <1>1, <1>2, RefusalHasCause
  <2>3. Ambiguous'
    BY <2>1, <2>2 DEF Ambiguous, Exact
  <2> QED
    BY <2>1, <2>3 DEF VersionInv, OnceEach, ClaimedByOwn, AllServed, Served
<1>3. CASE ~Refused(record[k])
  <2>1. /\ registered' = k /\ outcome' = outcome
        /\ tracks' = IF ClaimsOne(record[k]) THEN Claimed(record[k]) ELSE tracks
    BY <1>3 DEF Register
  <2>2. record[k].ver.form # "zero"
    BY <1>3 DEF Refused
  <2>3. registered \in Nat /\ \A i \in 1..k : i \in 1..registered \/ i = k
    BY <1>1, VersionsNow
  <2>4. /\ \A t \in DOMAIN tracks' : \E i \in 1..k :
             tracks'[t] = record[i] /\ ClaimsOne(record[i]) /\ Claims(record[i]) = t
        /\ \A i \in 1..k : ClaimsOne(record[i]) =>
             LET t == Claims(record[i])
             IN  /\ t \in DOMAIN tracks'
                 /\ record[i].ver.form = "track" <=> tracks'[t].ver.form = "track"
                 /\ record[i].ver.form = "track" \/ ~Above(record[i].ver, tracks'[t].ver)
    <3>1. CASE ClaimsOne(record[k])
      <4>1. tracks' = Claimed(record[k])
        BY <2>1, <3>1
      <4> QED
        BY <1>1, <1>3, <3>1, <4>1, ClaimedServes
    <3>2. CASE ~ClaimsOne(record[k])
      <4>1. tracks' = tracks
        BY <2>1, <3>2
      <4>2. \A i \in 1..registered : i \in 1..k
        BY <2>3
      <4>3. \A t \in DOMAIN tracks : \E i \in 1..k :
              tracks[t] = record[i] /\ ClaimsOne(record[i]) /\ Claims(record[i]) = t
        BY <4>2 DEF VersionInv, ClaimedByOwn
      <4>4. \A i \in 1..k : ClaimsOne(record[i]) => Served(record[i])
        BY <2>3, <3>2 DEF VersionInv, AllServed
      <4> QED
        BY <4>1, <4>3, <4>4 DEF Served
    <3> QED
      BY <3>1, <3>2
  <2>5. ClaimedByOwn'
    BY <1>1, <2>1, <2>4 DEF ClaimedByOwn, ClaimsOne, Claims, Full
  <2>6. AllServed'
    <3>1. \A i \in 1..k : record[i].ver.form # "zero"
      BY <2>2, <2>3 DEF VersionInv, AllServed
    <3> QED
      BY <1>1, <2>1, <2>4, <3>1 DEF AllServed, Served
  <2>7. OnceEach'
    BY <1>1 DEF VersionInv, OnceEach
  <2>8. record' \in Seq(Keys) /\ registered' \in 0..Len(record')
    BY <1>1, <2>1, VersionsNow
  <2> QED
    BY <1>1, <2>1, <2>5, <2>6, <2>7, <2>8 DEF VersionInv
<1> QED
  BY <1>2, <1>3

\* The inductive invariant of the import resolver: a track is claimed by a
\* registered key of its own, of which no registered key is above.
THEOREM ImportVersionsInvariant == VersionSpec => []VersionInv
<1>1. VersionInit => VersionInv
  BY VersionsInitially
<1>2. VersionInv /\ [VersionNext]_versionVars => VersionInv'
  <2> SUFFICES ASSUME VersionInv, [VersionNext]_versionVars PROVE VersionInv'
    OBVIOUS
  <2>1. CASE Register
    BY <2>1, RegisterKeeps
  <2>2. CASE Registered
    BY <2>2 DEF Registered, VersionInv, OnceEach, ClaimedByOwn, AllServed, Served
  <2>3. CASE UNCHANGED versionVars
    <3>1. Ambiguous => Ambiguous'
      BY <2>3 DEF versionVars, Ambiguous, Exact
    <3> QED
      BY <2>3, <3>1 DEF versionVars, VersionInv, OnceEach, ClaimedByOwn, AllServed, Served
  <2> QED
    BY <2>1, <2>2, <2>3 DEF VersionNext
<1> QED
  BY <1>1, <1>2, PTL DEF VersionSpec

\* Whatever the order of the embedder's record, it is refused exactly if it is
\* ambiguous, and an import is served by the very key or by a highest version
\* of its track, never by an unversioned key or a prerelease (ImportResolver).
THEOREM ResolutionIgnoresOrder == VersionSpec => []OrderIsImmaterial
<1>1. VersionInv => OrderIsImmaterial
  <2> SUFFICES ASSUME VersionInv PROVE OrderIsImmaterial
    OBVIOUS
  <2>1. outcome = "refused" => Ambiguous
    BY DEF VersionInv
  <2>2. ASSUME outcome = "ready" PROVE Ambiguous => FALSE
    <3>1. registered = Len(record)
      BY <2>2 DEF VersionInv
    <3>2. \A key \in Exact : key.ver.form # "zero" /\ (ClaimsOne(key) => Served(key))
      BY <3>1, VersionsNow DEF VersionInv, AllServed
    <3> QED
      BY <3>2 DEF Ambiguous, Served
  <2>3. ASSUME outcome = "ready", NEW id \in Keys
        PROVE  LET found == Resolve(id)
                   serving == IF Full(id) /\ Track(id) # <<>> THEN OnTrack(id.base, Track(id))
                              ELSE {}
               IN  IF id \in Exact THEN found = id
                   ELSE IF serving = {} THEN found.base \in {"error", NoKey}
                   ELSE found \in serving /\ \A key \in serving :
                           key.ver.form = "track" \/ ~Above(key.ver, found.ver)
    <3> DEFINE found == Resolve(id)
               t == <<id.base, Track(id)>>
    <3>1. registered = Len(record)
      BY <2>3 DEF VersionInv
    <3>2. \A key \in Exact : ClaimsOne(key) => Served(key)
      BY <3>1, VersionsNow DEF VersionInv, AllServed
    <3>3. \A s \in DOMAIN tracks : /\ tracks[s] \in Exact /\ ClaimsOne(tracks[s])
                                   /\ Claims(tracks[s]) = s
      BY <3>1, VersionsNow DEF VersionInv, ClaimedByOwn
    <3>4. CASE id \in Exact
      BY <3>4 DEF Resolve
    <3>5. CASE id \notin Exact /\ ~(Full(id) /\ Track(id) # <<>>)
      <4>1. found.base \in {"error", NoKey}
        BY <3>5 DEF Resolve
      <4> QED
        BY <3>5, <4>1
    <3>6. CASE id \notin Exact /\ Full(id) /\ Track(id) # <<>> /\ t \notin DOMAIN tracks
      <4>1. OnTrack(id.base, Track(id)) = {}
        BY <3>2, <3>6 DEF OnTrack, Served
      <4>2. found.base \in {"error", NoKey}
        BY <3>6 DEF Resolve
      <4> QED
        BY <3>6, <4>1, <4>2
    <3>7. CASE id \notin Exact /\ Full(id) /\ Track(id) # <<>> /\ t \in DOMAIN tracks
      <4>1. found = tracks[t]
        BY <3>7 DEF Resolve
      <4>2. found \in OnTrack(id.base, Track(id))
        BY <3>3, <3>7, <4>1 DEF OnTrack
      <4>3. \A key \in OnTrack(id.base, Track(id)) :
              key.ver.form = "track" \/ ~Above(key.ver, found.ver)
        BY <3>2, <4>1 DEF OnTrack, Served
      <4> QED
        BY <3>7, <4>2, <4>3
    <3> QED
      BY <3>4, <3>5, <3>6, <3>7
  <2> QED
    BY <2>1, <2>2, <2>3 DEF OrderIsImmaterial
<1> QED
  BY <1>1, ImportVersionsInvariant, PTL

(* -- the asynchronous calls of a guest ------------------------------------- *)

(* A call not made yet has no state anywhere.                              *)
Fresh(c) ==
  kind[c] = "none" =>
    /\ state[c] = "unborn" /\ handle[c] = "none" /\ told[c] = "none"
    /\ ~event[c] /\ ~inSet[c] /\ ~hasSyncWaiter[c] /\ ~cancelRequested[c]
    /\ ~delivered[c] /\ numLends[c] = 0 /\ park[c] = "none"
    /\ ~hostPending[c] /\ callee[c] = "none" /\ calleeCancel[c] = "none"

(* What the sides of a call know of each other: host calls have no callee, *)
(* a callee at the gate has been lent nothing, a claim is asked for once,  *)
(* a deferred report comes before the handle.                              *)
Agree(c) ==
  /\ hostPending[c] => callee[c] = "none" /\ handle[c] = "live"
  /\ kind[c] \in {"host", "deferred"} => callee[c] = "none"
  /\ callee[c] = "gate" <=> state[c] = "STARTING"
  /\ callee[c] = "gate" => numLends[c] = 0
  /\ hasSyncWaiter[c] => cancelRequested[c]
  /\ park[c] = "report" => handle[c] = "none" /\ ~delivered[c]
  /\ handle[c] = "none" => ~inSet[c] /\ ~event[c]

(* What the guest was told is what it knows: a final status with the       *)
(* delivery, an earlier one that is not ahead of the call's own.           *)
Told(c) ==
  /\ delivered[c] <=> told[c] \in Final \cup {"trapped"}
  /\ delivered[c] => Resolved(c) /\ numLends[c] = 0
  /\ told[c] = "STARTED" => state[c] # "STARTING"
  /\ handle[c] = "live" => told[c] # "none"
  /\ handle[c] = "dropped" => delivered[c]
  /\ event[c] => ~delivered[c]
  /\ told[c] # "unborn"
  /\ kind[c] # "none" => state[c] # "unborn"
  /\ park[c] = "report" => told[c] = "none"
  /\ told[c] = "none" /\ kind[c] # "none" => park[c] = "report"

(* The safety properties, for one call.                                    *)
Safe(c) ==
  /\ handle[c] = "live" /\ Resolved(c) /\ ~delivered[c] => event[c]
  /\ hasSyncWaiter[c] <=> park[c] \in {"cancelAsync", "cancelSync"}
  /\ hasSyncWaiter[c] => ~inSet[c] /\ ~delivered[c] /\ handle[c] = "live"
  /\ state[c] = "CANCELLED_BEFORE_STARTED" => callee[c] = "over" /\ numLends[c] = 0
  /\ hostPending[c] => ~Resolved(c)

CallInv(c) == Fresh(c) /\ Agree(c) /\ Told(c) /\ Safe(c)

IInv == TypeOK /\ \A c \in Calls : CallInv(c)

(* A step leaves the other calls alone.                                    *)
Same(d) ==
  /\ kind'[d] = kind[d] /\ state'[d] = state[d] /\ told'[d] = told[d]
  /\ handle'[d] = handle[d] /\ event'[d] = event[d] /\ inSet'[d] = inSet[d]
  /\ hasSyncWaiter'[d] = hasSyncWaiter[d]
  /\ cancelRequested'[d] = cancelRequested[d]
  /\ delivered'[d] = delivered[d] /\ numLends'[d] = numLends[d]
  /\ park'[d] = park[d] /\ hostPending'[d] = hostPending[d]
  /\ callee'[d] = callee[d] /\ calleeCancel'[d] = calleeCancel[d]

Framed(c) == TypeOK' /\ \A d \in Calls \ {c} : Same(d)

LEMMA SameInv == ASSUME NEW d \in Calls, CallInv(d), Same(d) PROVE CallInv(d)'
  BY DEF CallInv, Same, Fresh, Agree, Told, Safe, Resolved

LEMMA InitInv == Init => IInv
<1> SUFFICES ASSUME Init PROVE IInv
  OBVIOUS
<1>1. TypeOK
  <2>1. numLends \in [Calls -> 0..1]
    BY DEF Init
  <2> QED
    BY <2>1 DEF Init, TypeOK, States, Final, Kinds, CalleePlaces
<1>2. ASSUME NEW c \in Calls PROVE CallInv(c)
  BY DEF Init, CallInv, Fresh, Agree, Told, Safe, Resolved, Final
<1> QED
  BY <1>1, <1>2 DEF IInv

LEMMA NextInv == IInv /\ [Next]_vars => IInv'
<1> SUFFICES ASSUME IInv, [Next]_vars PROVE IInv'
  OBVIOUS
<1> USE JspiAssumption DEF IInv
<1> DEFINE Kept(c) == Framed(c) /\ CallInv(c)'
<1>0. ASSUME NEW c \in Calls, Kept(c) PROVE IInv'
  BY <1>0, SameInv DEF Framed
<1> HIDE DEF Kept
<1>1. ASSUME NEW c \in Calls, NEW k \in {"host", "deferred"}, HostAtOnce(c, k)
      PROVE Kept(c)
  <2>1. Framed(c)
    BY <1>1 DEF HostAtOnce, Delivers, Framed, TypeOK, Same, States, Final, Kinds,
          CalleePlaces, claim, calleeSide
  <2>2. CallInv(c)'
    BY <1>1 DEF HostAtOnce, Delivers, TypeOK, CallInv, Fresh, Agree, Told, Safe,
          Resolved, States, Final, Kinds, CalleePlaces, claim, calleeSide
  <2> QED
    BY <2>1, <2>2 DEF Kept
<1>2. ASSUME NEW c \in Calls, NEW k \in {"host", "deferred"}, HostPromises(c, k)
      PROVE Kept(c)
  <2>1. Framed(c)
    BY <1>2 DEF HostPromises, Framed, TypeOK, Same, States, Final, Kinds,
          CalleePlaces, claim, calleeSide
  <2>2. CallInv(c)'
    BY <1>2 DEF HostPromises, TypeOK, CallInv, Fresh, Agree, Told, Safe,
          Resolved, States, Final, Kinds, CalleePlaces, claim, calleeSide
  <2> QED
    BY <2>1, <2>2 DEF Kept
<1>3. ASSUME NEW c \in Calls, HostSettles(c)
      PROVE Kept(c)
  <2>0. /\ hostPending[c] /\ hostPending' = [hostPending EXCEPT ![c] = FALSE]
        /\ UNCHANGED <<kind, told, handle, claim, delivered, numLends, park,
                       calleeSide, callerDead>>
    BY <1>3 DEF HostSettles
  <2> USE <2>0
     DEF Framed, TypeOK, Same, CallInv, Fresh, Agree, Told, Safe, Resolved,
          States, Final, Kinds, CalleePlaces, claim, calleeSide, Kept
  <2>1. CASE UNCHANGED <<state, event>>
    BY <2>1
  <2>2. CASE ~Resolved(c) /\ ResolvesTo(c, "RETURNED")
    BY <2>2 DEF ResolvesTo
  <2>3. CASE UNCHANGED state /\ event' = [event EXCEPT ![c] = TRUE] /\ ~Resolved(c)
    <3>1. handle[c] # "none"
      OBVIOUS
    <3> QED
      BY <2>3, <3>1
  <2> QED
    BY <1>3, <2>1, <2>2, <2>3 DEF HostSettles
<1>4. ASSUME NEW c \in Calls, NEW place \in CalleePlaces \ {"none"},
             NEW s \in {"STARTING", "STARTED", "RETURNED"}, AsyncStartCall(c, place, s)
      PROVE Kept(c)
  <2>1. numLends' \in [Calls -> 0..1]
    BY <1>4 DEF AsyncStartCall, Reports, LentAt, Delivers, TypeOK
  <2>2. told' \in [Calls -> States \cup {"none", "trapped"}]
    BY <1>4
       DEF AsyncStartCall, Reports, LentAt, Delivers, TypeOK, States, Final,
           claim, calleeSide
  <2>a. /\ handle' \in [Calls -> {"none", "live", "dropped"}]
        /\ delivered' \in [Calls -> BOOLEAN]
    BY <1>4 DEF AsyncStartCall, Reports, Delivers, TypeOK
  <2>b. /\ kind' \in [Calls -> Kinds \cup {"none"}]
        /\ state' \in [Calls -> States]
        /\ park' \in [Calls -> {"none", "report", "cancelAsync", "cancelSync"}]
        /\ callee' \in [Calls -> CalleePlaces]
    BY <1>4 DEF AsyncStartCall, TypeOK, Kinds, States, Final, CalleePlaces
  <2>3. TypeOK'
    <3>1. UNCHANGED <<event, inSet, hasSyncWaiter, cancelRequested, hostPending,
                      calleeCancel, callerDead, calleeDead>>
      BY <1>4 DEF AsyncStartCall, claim
    <3> QED
      BY <2>1, <2>2, <2>a, <2>b, <3>1 DEF TypeOK
  <2>4. \A d \in Calls \ {c} : Same(d)
    BY <1>4
       DEF AsyncStartCall, Reports, LentAt, Delivers, TypeOK, Same, claim,
           calleeSide
  <2>5. CallInv(c)'
    BY <1>4
       DEF AsyncStartCall, Reports, LentAt, Delivers, TypeOK, CallInv, Fresh,
           Agree, Told, Safe,
          Resolved, States, Final, Kinds, CalleePlaces, claim, calleeSide
  <2> QED
    BY <2>3, <2>4, <2>5 DEF Kept, Framed
<1>5. ASSUME NEW c \in Calls, NEW s \in Final \ {"RETURNED"}, StartTraps(c, s)
      PROVE Kept(c)
  <2>1. Framed(c)
    BY <1>5 DEF StartTraps, Delivers, Framed, TypeOK, Same, States, Final, Kinds,
          CalleePlaces, claim, calleeSide
  <2>2. CallInv(c)'
    BY <1>5 DEF StartTraps, Delivers, TypeOK, CallInv, Fresh, Agree, Told, Safe,
          Resolved, States, Final, Kinds, CalleePlaces, claim, calleeSide
  <2> QED
    BY <2>1, <2>2 DEF Kept
<1>6. ASSUME NEW c \in Calls, ReportResumes(c)
      PROVE Kept(c)
  <2>1. numLends' \in [Calls -> 0..1]
    BY <1>6 DEF ReportResumes, Reports, Delivers, TypeOK
  <2>2. told' \in [Calls -> States \cup {"none", "trapped"}]
    BY <1>6
       DEF ReportResumes, Reports, Delivers, TypeOK, States, Final, claim,
           calleeSide
  <2>3. TypeOK'
    <3>1. CASE state[c] \in Final
      BY <1>6, <2>1, <2>2, <3>1 DEF ReportResumes, Reports, Delivers, TypeOK, claim,
            calleeSide
    <3>2. CASE state[c] \notin Final
      BY <1>6, <2>1, <2>2, <3>2
         DEF ReportResumes, Reports, TypeOK, claim, calleeSide
    <3> QED
      BY <3>1, <3>2
  <2>4. \A d \in Calls \ {c} : Same(d)
    BY <1>6 DEF ReportResumes, Reports, Delivers, TypeOK, Same, claim, calleeSide
  <2>5. CallInv(c)'
    BY <1>6
       DEF ReportResumes, Reports, Delivers, TypeOK, CallInv, Fresh, Agree,
           Told, Safe,
          Resolved, States, Final, Kinds, CalleePlaces, claim, calleeSide
  <2> QED
    BY <2>3, <2>4, <2>5 DEF Kept, Framed
<1>7. ASSUME NEW c \in Calls, CalleeEnters(c)
      PROVE Kept(c)
  <2>1. numLends' \in [Calls -> 0..1]
    BY <1>7 DEF CalleeEnters, ResolvesTo, TypeOK, CallInv, Agree
  <2>2. told' \in [Calls -> States \cup {"none", "trapped"}]
    BY <1>7 DEF CalleeEnters, ResolvesTo, TypeOK, States, Final, claim, calleeSide
  <2>3. TypeOK'
    BY <1>7, <2>1, <2>2 DEF CalleeEnters, ResolvesTo, TypeOK, States, Final,
          Kinds, CalleePlaces, claim, calleeSide
  <2>4. \A d \in Calls \ {c} : Same(d)
    BY <1>7 DEF CalleeEnters, ResolvesTo, TypeOK, Same, claim, calleeSide
  <2>5. CallInv(c)'
    BY <1>7 DEF CalleeEnters, ResolvesTo, TypeOK, CallInv, Fresh, Agree, Told, Safe,
          Resolved, States, Final, Kinds, CalleePlaces, claim, calleeSide
  <2> QED
    BY <2>3, <2>4, <2>5 DEF Kept, Framed
<1>8. ASSUME NEW c \in Calls, CalleeParks(c)
      PROVE Kept(c)
  <2>1. Framed(c)
    BY <1>8 DEF CalleeParks, CalleeRuns, Framed, TypeOK, Same, States, Final, Kinds,
          CalleePlaces, claim, calleeSide
  <2>2. CallInv(c)'
    BY <1>8 DEF CalleeParks, CalleeRuns, TypeOK, CallInv, Fresh, Agree, Told, Safe,
          Resolved, States, Final, Kinds, CalleePlaces, claim, calleeSide
  <2> QED
    BY <2>1, <2>2 DEF Kept
<1>9. ASSUME NEW c \in Calls, CalleeResumes(c)
      PROVE Kept(c)
  <2>1. Framed(c)
    BY <1>9 DEF CalleeResumes, Framed, TypeOK, Same, States, Final, Kinds,
          CalleePlaces, claim, calleeSide
  <2>2. CallInv(c)'
    BY <1>9 DEF CalleeResumes, TypeOK, CallInv, Fresh, Agree, Told, Safe,
          Resolved, States, Final, Kinds, CalleePlaces, claim, calleeSide
  <2> QED
    BY <2>1, <2>2 DEF Kept
<1>10. ASSUME NEW c \in Calls, CalleeExits(c)
      PROVE Kept(c)
  <2>1. Framed(c)
    BY <1>10
       DEF CalleeExits, CalleeRuns, Framed, TypeOK, Same, States, Final, Kinds,
          CalleePlaces, claim, calleeSide
  <2>2. CallInv(c)'
    BY <1>10 DEF CalleeExits, CalleeRuns, TypeOK, CallInv, Fresh, Agree, Told, Safe,
          Resolved, States, Final, Kinds, CalleePlaces, claim, calleeSide
  <2> QED
    BY <2>1, <2>2 DEF Kept
<1>11. ASSUME NEW c \in Calls, CalleeTraps(c)
      PROVE Kept(c)
  <2>1. Framed(c)
    BY <1>11
       DEF CalleeTraps, CalleeRuns, Framed, TypeOK, Same, States, Final, Kinds,
          CalleePlaces, claim, calleeSide
  <2>2. CallInv(c)'
    BY <1>11 DEF CalleeTraps, CalleeRuns, TypeOK, CallInv, Fresh, Agree, Told, Safe,
          Resolved, States, Final, Kinds, CalleePlaces, claim, calleeSide
  <2> QED
    BY <2>1, <2>2 DEF Kept
<1>12. ASSUME NEW c \in Calls, NEW s \in Final, CalleeResolves(c, s)
      PROVE Kept(c)
  <2>1. Framed(c)
    BY <1>12
       DEF CalleeResolves, CalleeRuns, ResolvesTo, Framed, TypeOK, Same,
           States, Final, Kinds,
          CalleePlaces, claim, calleeSide
  <2>2. CallInv(c)'
    BY <1>12
       DEF CalleeResolves, CalleeRuns, ResolvesTo, TypeOK, CallInv, Fresh,
           Agree, Told, Safe,
          Resolved, States, Final, Kinds, CalleePlaces, claim, calleeSide
  <2> QED
    BY <2>1, <2>2 DEF Kept
<1>13. ASSUME NEW c \in Calls, NEW b \in BOOLEAN, Join(c, b)
      PROVE Kept(c)
  <2>1. Framed(c)
    BY <1>13 DEF Join, Framed, TypeOK, Same, States, Final, Kinds,
          CalleePlaces, claim, calleeSide
  <2>2. CallInv(c)'
    BY <1>13 DEF Join, TypeOK, CallInv, Fresh, Agree, Told, Safe,
          Resolved, States, Final, Kinds, CalleePlaces, claim, calleeSide
  <2> QED
    BY <2>1, <2>2 DEF Kept
<1>14. ASSUME NEW c \in Calls, TakeEvent(c)
      PROVE Kept(c)
  <2>1. numLends' \in [Calls -> 0..1]
    BY <1>14 DEF TakeEvent, Delivers, TypeOK
  <2>2. told' \in [Calls -> States \cup {"none", "trapped"}]
    BY <1>14 DEF TakeEvent, Delivers, TypeOK, States, Final, claim, calleeSide
  <2>3. TypeOK'
    BY ZenonT(60), <1>14, <2>1, <2>2 DEF TakeEvent, Delivers, TypeOK, States, Final,
          Kinds, CalleePlaces, claim, calleeSide
  <2>4. \A d \in Calls \ {c} : Same(d)
    BY <1>14 DEF TakeEvent, Delivers, TypeOK, Same, claim, calleeSide
  <2>5. CallInv(c)'
    BY <1>14 DEF TakeEvent, Delivers, TypeOK, CallInv, Fresh, Agree, Told, Safe,
          Resolved, States, Final, Kinds, CalleePlaces, claim, calleeSide
  <2> QED
    BY <2>3, <2>4, <2>5 DEF Kept, Framed
<1>15. ASSUME NEW c \in Calls, NEW f \in {"cancelAsync", "cancelSync"}, SubtaskCancel(c, f)
      PROVE Kept(c)
  <2>1. numLends' \in [Calls -> 0..1]
    BY <1>15 DEF SubtaskCancel, MayCancel, Asked, Finishes, Delivers, TypeOK
  <2>2. told' \in [Calls -> States \cup {"none", "trapped"}]
    BY <1>15
       DEF SubtaskCancel, MayCancel, Asked, Finishes, Delivers, TypeOK, States,
           Final, claim, calleeSide
  <2>3. TypeOK'
    <3>1. CASE Resolved(c)
      BY ZenonT(60), <1>15, <2>1, <2>2, <3>1
         DEF SubtaskCancel, Finishes, Delivers, TypeOK, claim,
            calleeSide
    <3>2. CASE ~Resolved(c)
      <4>1. PICK s \in States, place \in CalleePlaces :
              /\ Asked(c, s, place)
              /\ state' = [state EXCEPT ![c] = s]
              /\ callee' = [callee EXCEPT ![c] = place]
              /\ IF s \in Final
                 THEN /\ Finishes(c, s)
                      /\ UNCHANGED <<hasSyncWaiter, park>>
                 ELSE /\ hasSyncWaiter' = [hasSyncWaiter EXCEPT ![c] = Jspi]
                      /\ park' = [park EXCEPT ![c] = IF Jspi THEN f ELSE @]
                      /\ UNCHANGED <<event, told, delivered, numLends>>
        BY <1>15, <3>2 DEF SubtaskCancel
      <4>2. /\ hostPending' \in [Calls -> BOOLEAN]
            /\ calleeCancel' \in [Calls -> {"none", "pending", "delivered"}]
        BY <4>1 DEF Asked, TypeOK
      <4>3. /\ cancelRequested' = [cancelRequested EXCEPT ![c] = TRUE]
            /\ UNCHANGED <<inSet, kind, handle, calleeDead, callerDead>>
        BY <1>15, <3>2 DEF SubtaskCancel
      <4>4. CASE s \in Final
        BY ZenonT(60), <2>1, <2>2, <4>1, <4>2, <4>3, <4>4 DEF Finishes, Delivers, TypeOK
      <4>5. CASE s \notin Final
        BY <2>1, <2>2, <4>1, <4>2, <4>3, <4>5 DEF TypeOK
      <4> QED
        BY <4>4, <4>5
    <3> QED
      BY <3>1, <3>2
  <2>4. \A d \in Calls \ {c} : Same(d)
    BY <1>15
       DEF SubtaskCancel, MayCancel, Asked, Finishes, Delivers, TypeOK, Same,
           claim, calleeSide
  <2>5. CallInv(c)'
    BY <1>15
       DEF SubtaskCancel, MayCancel, Asked, Finishes, Delivers, TypeOK,
           CallInv, Fresh, Agree, Told, Safe,
          Resolved, States, Final, Kinds, CalleePlaces, claim, calleeSide
  <2> QED
    BY <2>3, <2>4, <2>5 DEF Kept, Framed
<1>16. ASSUME NEW c \in Calls, CancelResumes(c)
      PROVE Kept(c)
  <2>1. numLends' \in [Calls -> 0..1]
    BY <1>16 DEF CancelResumes, Finishes, Delivers, TypeOK
  <2>2. told' \in [Calls -> States \cup {"none", "trapped"}]
    BY <1>16
       DEF CancelResumes, Finishes, Delivers, TypeOK, States, Final, claim,
           calleeSide
  <2>3. TypeOK'
    BY ZenonT(60), <1>16, <2>1, <2>2
       DEF CancelResumes, Finishes, Delivers, TypeOK, States, Final,
          Kinds, CalleePlaces, claim, calleeSide
  <2>4. \A d \in Calls \ {c} : Same(d)
    BY <1>16 DEF CancelResumes, Finishes, Delivers, TypeOK, Same, claim, calleeSide
  <2>5. CallInv(c)'
    BY <1>16
       DEF CancelResumes, Finishes, Delivers, TypeOK, CallInv, Fresh, Agree,
           Told, Safe,
          Resolved, States, Final, Kinds, CalleePlaces, claim, calleeSide
  <2> QED
    BY <2>3, <2>4, <2>5 DEF Kept, Framed
<1>17. ASSUME NEW c \in Calls, CancelAbandoned(c)
      PROVE Kept(c)
  <2>1. Framed(c)
    BY <1>17 DEF CancelAbandoned, Framed, TypeOK, Same, States, Final, Kinds,
          CalleePlaces, claim, calleeSide
  <2>2. CallInv(c)'
    BY <1>17 DEF CancelAbandoned, TypeOK, CallInv, Fresh, Agree, Told, Safe,
          Resolved, States, Final, Kinds, CalleePlaces, claim, calleeSide
  <2> QED
    BY <2>1, <2>2 DEF Kept
<1>18. ASSUME NEW c \in Calls, SubtaskDrop(c)
      PROVE Kept(c)
  <2>1. Framed(c)
    BY <1>18 DEF SubtaskDrop, Framed, TypeOK, Same, States, Final, Kinds,
          CalleePlaces, claim, calleeSide
  <2>2. CallInv(c)'
    BY <1>18 DEF SubtaskDrop, TypeOK, CallInv, Fresh, Agree, Told, Safe,
          Resolved, States, Final, Kinds, CalleePlaces, claim, calleeSide
  <2> QED
    BY <2>1, <2>2 DEF Kept
<1>19. CASE CallerTraps \/ UNCHANGED vars
  <2>1. TypeOK' /\ \A c \in Calls : Same(c)
    BY ZenonT(60), <1>19 DEF CallerTraps, vars, TypeOK, Same, claim, calleeSide
  <2> QED
    BY <2>1, SameInv
<1> QED
  BY <1>0, <1>1, <1>2, <1>3, <1>4, <1>5, <1>6, <1>7, <1>8, <1>9, <1>10,
     <1>11, <1>12, <1>13, <1>14, <1>15, <1>16, <1>17, <1>18, <1>19
     DEF Next, CallerStep, CalleeStep

(* The strengthened invariant of the calls, from which the rest follows.   *)
THEOREM Invariance == Spec => []IInv
<1>1. Init => IInv
  BY InitInv
<1>2. IInv /\ [Next]_vars => IInv'
  BY NextInv
<1> QED
  BY <1>1, <1>2, PTL DEF Spec

(* Every variable of the calls keeps its type (Subtask): a call holds at   *)
(* most one set of lends, whatever resumes its callee.                     *)
THEOREM TypeCorrect == Spec => []TypeOK
<1>1. IInv => TypeOK
  BY DEF IInv
<1> QED
  BY <1>1, Invariance, PTL

(* No resolution is lost (setSubtaskPendingEvent, report).                 *)
THEOREM ResolutionReaches == Spec => []ResolutionObservable
<1>1. IInv => ResolutionObservable
  BY DEF IInv, CallInv, Safe, ResolutionObservable
<1> QED
  BY <1>1, Invariance, PTL

(* The claim of subtask.cancel is exclusive and ends with its park.        *)
THEOREM ClaimHolds == Spec => []ClaimExclusive
<1>1. IInv => ClaimExclusive
  BY DEF IInv, CallInv, Safe, ClaimExclusive
<1> QED
  BY <1>1, Invariance, PTL

(* The news of a resolution takes one way to the guest, and arrives         *)
(* (setSubtaskPendingEvent, finishSubtaskCancel).                           *)
THEOREM ResolutionArrives == Spec => []ResolutionReported
<1> QED
  BY ResolutionReaches, ClaimHolds, PTL DEF ResolutionReported

(* A call cancelled at the gate never starts (resumeStartupCancellation).  *)
THEOREM CancelledUnstarted == Spec => []NeverStarted
<1>1. IInv => NeverStarted
  BY DEF IInv, CallInv, Safe, NeverStarted
<1> QED
  BY <1>1, Invariance, PTL

(* A resolved host call is no outstanding work of the store                *)
(* (pendingHostCalls).                                                     *)
THEOREM DiscardComplete == Spec => []DiscardedNotPending
<1>1. IInv => DiscardedNotPending
  BY DEF IInv, CallInv, Safe, DiscardedNotPending
<1> QED
  BY <1>1, Invariance, PTL

(* The four things a step can be to the contract.                          *)
lent == {c \in Calls : numLends[c] = 1}

LEMMA Stutters ==
  ASSUME UNCHANGED <<told, numLends>>
  PROVE  [Contract!Next]_<<told, lent>>
  BY DEF lent

LEMMA Concludes ==
  ASSUME TypeOK, NEW c \in Calls, NEW s \in Contract!Ends, told[c] \notin Contract!Ends,
         told' = [told EXCEPT ![c] = s], numLends' = [numLends EXCEPT ![c] = 0]
  PROVE  [Contract!Next]_<<told, lent>>
<1>1. lent' = lent \ {c}
  BY DEF lent, TypeOK
<1>2. Contract!Conclude(c, s)
  BY <1>1 DEF Contract!Conclude, lent
<1> QED
  BY <1>2 DEF Contract!Next, Contract!Statuses

LEMMA Lends ==
  ASSUME TypeOK, NEW c \in Calls, NEW s \in {told[c], "STARTED"},
         told[c] \notin Contract!Ends, numLends[c] = 0,
         told' = [told EXCEPT ![c] = s], numLends' = [numLends EXCEPT ![c] = 1]
  PROVE  [Contract!Next]_<<told, lent>>
<1>1. lent' = lent \cup {c} /\ c \notin lent
  BY DEF lent, TypeOK
<1>2. Contract!Lend(c)
  BY <1>1 DEF Contract!Lend, lent
<1> QED
  BY <1>2 DEF Contract!Next

LEMMA Tells ==
  ASSUME TypeOK, NEW c \in Calls, NEW s \in {"STARTING", "STARTED"},
         told[c] \in {"none", "STARTING", s},
         told' = [told EXCEPT ![c] = s], numLends' = numLends
  PROVE  [Contract!Next]_<<told, lent>>
<1>1. Contract!Rank(told[c]) <= Contract!Rank(s)
  BY DEF Contract!Rank
<1>2. Contract!Tell(c, s)
  BY <1>1 DEF Contract!Tell, Contract!Ends, lent
<1> QED
  BY <1>2 DEF Contract!Next, Contract!Statuses

LEMMA ContractStep == IInv /\ [Next]_vars => [Contract!Next]_<<told, lent>>
<1> SUFFICES ASSUME IInv, [Next]_vars PROVE [Contract!Next]_<<told, lent>>
  OBVIOUS
<1> DEFINE Step == [Contract!Next]_<<told, lent>>
<1> USE DEF Contract!Ends
<1>0. TypeOK
  BY DEF IInv
<1>i. ASSUME NEW c \in Calls PROVE CallInv(c)
  BY DEF IInv
<1> HIDE DEF Step
<1>1. ASSUME NEW c \in Calls, NEW s \in Contract!Ends, ~delivered[c], Delivers(c, s)
      PROVE Step
  <2>1. told[c] \notin Contract!Ends
    BY <1>1, <1>i DEF CallInv, Told, Final
  <2> QED
    BY <1>0, <1>1, <2>1, Concludes DEF Step, Delivers
<1>2. ASSUME NEW c \in Calls, NEW k \in {"host", "deferred"},
             HostAtOnce(c, k) \/ HostPromises(c, k)
      PROVE Step
  <2>1. told[c] = "none" /\ ~delivered[c] /\ numLends[c] = 0
    BY <1>2, <1>i DEF CallInv, Fresh, HostAtOnce, HostPromises
  <2>2. CASE HostAtOnce(c, k)
    BY <1>1, <2>1, <2>2 DEF HostAtOnce
  <2>3. CASE HostPromises(c, k)
    BY <1>0, <2>1, <2>3, Lends DEF HostPromises, Step
  <2> QED
    BY <1>2, <2>2, <2>3
<1>3. ASSUME NEW c \in Calls, NEW place \in CalleePlaces \ {"none"},
             NEW s \in {"STARTING", "STARTED", "RETURNED"}, AsyncStartCall(c, place, s)
      PROVE Step
  <2>1. told[c] = "none" /\ ~delivered[c] /\ numLends[c] = 0
    BY <1>3, <1>i DEF CallInv, Fresh, AsyncStartCall
  <2>2. CASE s = "RETURNED"
    BY <1>1, <1>3, <2>1, <2>2 DEF AsyncStartCall, Reports, Final
  <2>3. CASE s = "STARTED"
    <3>1. /\ numLends' = [numLends EXCEPT ![c] = 1]
          /\ told' = [told EXCEPT ![c] = "STARTED"] \/ UNCHANGED told
      BY <1>3, <2>3 DEF AsyncStartCall, Reports, LentAt, Final
    <3>2. UNCHANGED told => told' = [told EXCEPT ![c] = told[c]]
      BY <1>0 DEF TypeOK
    <3> QED
      BY <1>0, <2>1, <3>1, <3>2, Lends DEF Step
  <2>4. CASE s = "STARTING"
    <3>1. /\ numLends' = [numLends EXCEPT ![c] = 0]
          /\ told' = [told EXCEPT ![c] = "STARTING"] \/ UNCHANGED told
      BY <1>3, <2>4 DEF AsyncStartCall, Reports, LentAt, Final
    <3>2. UNCHANGED numLends
      BY <1>0, <2>1, <3>1 DEF TypeOK
    <3> QED
      BY <1>0, <2>1, <3>1, <3>2, Tells, Stutters DEF Step
  <2> QED
    BY <2>2, <2>3, <2>4
<1>4. ASSUME NEW c \in Calls, NEW s \in Final \ {"RETURNED"}, StartTraps(c, s)
      PROVE Step
  <2>1. ~delivered[c]
    BY <1>4, <1>i DEF CallInv, Fresh, StartTraps
  <2> QED
    BY <1>1, <1>4, <2>1 DEF StartTraps
<1>5. ASSUME NEW c \in Calls, ReportResumes(c) PROVE Step
  <2>1. told[c] = "none" /\ ~delivered[c] /\ kind[c] # "none" /\ state[c] # "unborn"
    BY <1>5, <1>i DEF CallInv, Fresh, Told, Agree, ReportResumes
  <2>2. CASE state[c] \in Final
    BY <1>1, <1>5, <2>1, <2>2 DEF ReportResumes, Reports, Final
  <2>3. CASE state[c] \notin Final
    <3>1. state[c] \in {"STARTING", "STARTED"}
      BY <1>0, <2>1, <2>3 DEF TypeOK, States
    <3>2. told' = [told EXCEPT ![c] = state[c]] /\ UNCHANGED numLends
      BY <1>0, <1>5, <2>3 DEF ReportResumes, Reports, TypeOK
    <3> QED
      BY <1>0, <2>1, <3>1, <3>2, Tells DEF Step
  <2> QED
    BY <2>2, <2>3
<1>6. ASSUME NEW c \in Calls, CalleeEnters(c) PROVE Step
  <2>1. ~delivered[c] /\ numLends[c] = 0 /\ told[c] \notin Contract!Ends
    BY <1>6, <1>i DEF CallInv, Told, Agree, CalleeEnters, Final, Resolved
  <2>2. told' = [told EXCEPT ![c] = told[c]] /\ numLends' = [numLends EXCEPT ![c] = 1]
    BY <1>0, <1>6, <2>1 DEF CalleeEnters, TypeOK
  <2> QED
    BY <1>0, <2>1, <2>2, Lends DEF Step
<1>7. ASSUME NEW c \in Calls, TakeEvent(c) PROVE Step
  <2>1. ~delivered[c] /\ event[c] /\ handle[c] # "none"
    BY <1>7, <1>i DEF TakeEvent, CallInv, Told, Agree
  <2>2. CASE Resolved(c)
    BY <1>1, <1>7, <2>1, <2>2 DEF TakeEvent, Resolved, Final
  <2>3. CASE ~Resolved(c)
    <3>1. state[c] \in {"STARTING", "STARTED"}
      BY <1>0, <1>i, <2>1, <2>3 DEF TypeOK, States, Resolved, CallInv, Told, Fresh
    <3>2. told[c] \in {"none", "STARTING", state[c]}
      <4>1. told[c] \notin Final \cup {"trapped"} /\ (told[c] = "STARTED" => state[c] # "STARTING")
        BY <1>i, <2>1 DEF CallInv, Told
      <4>2. told[c] # "unborn"
        BY <1>i DEF CallInv, Told
      <4> QED
        BY <1>0, <3>1, <4>1, <4>2 DEF TypeOK, States
    <3> QED
      BY <1>0, <1>7, <2>3, <3>1, <3>2, Tells DEF Step, TakeEvent
  <2> QED
    BY <2>2, <2>3
<1>8. ASSUME NEW c \in Calls, NEW f \in {"cancelAsync", "cancelSync"},
             SubtaskCancel(c, f)
      PROVE Step
  <2>1. ~delivered[c]
    BY <1>8 DEF SubtaskCancel, MayCancel
  <2>2. (\E s \in Final : Delivers(c, s)) \/ UNCHANGED <<told, numLends>>
    BY <1>8 DEF SubtaskCancel, Finishes, Resolved
  <2> QED
    BY <1>1, <2>1, <2>2, Stutters DEF Step, Final
<1>9. ASSUME NEW c \in Calls, CancelResumes(c) PROVE Step
  <2>1. ~delivered[c]
    BY <1>9, <1>i DEF CancelResumes, CallInv, Safe
  <2>2. (\E s \in Final : Delivers(c, s)) \/ UNCHANGED <<told, numLends>>
    BY <1>9 DEF CancelResumes, Finishes, Resolved
  <2> QED
    BY <1>1, <2>1, <2>2, Stutters DEF Step, Final
<1>10. ASSUME NEW c \in Calls,
              \/ HostSettles(c) \/ CalleeParks(c) \/ CalleeResumes(c)
              \/ CalleeExits(c) \/ CalleeTraps(c) \/ CancelAbandoned(c)
              \/ SubtaskDrop(c)
              \/ (\E s \in Final : CalleeResolves(c, s))
              \/ (\E b \in BOOLEAN : Join(c, b))
       PROVE Step
  <2>1. UNCHANGED <<told, numLends>>
    BY <1>10 DEF HostSettles, CalleeParks, CalleeResumes, CalleeExits, CalleeTraps,
          CancelAbandoned, SubtaskDrop, CalleeResolves, Join
  <2> QED
    BY <2>1, Stutters DEF Step
<1>11. ASSUME CallerTraps \/ UNCHANGED vars PROVE Step
  <2>1. UNCHANGED <<told, numLends>>
    BY <1>11 DEF CallerTraps, vars
  <2> QED
    BY <2>1, Stutters DEF Step
<1>12. ASSUME NEW c \in Calls, CallerStep(c) PROVE Step
  BY <1>2, <1>3, <1>4, <1>7, <1>8, <1>10, <1>12 DEF CallerStep
<1>13. ASSUME NEW c \in Calls, CalleeStep(c) PROVE Step
  BY <1>6, <1>10, <1>13 DEF CalleeStep
<1>14. ASSUME NEW c \in Calls,
              HostSettles(c) \/ ReportResumes(c) \/ CancelResumes(c) \/ CancelAbandoned(c)
       PROVE Step
  BY <1>5, <1>9, <1>10, <1>14
<1>15. Step
  <2>1. CASE Next
    BY <1>11, <1>12, <1>13, <1>14, <2>1 DEF Next
  <2> QED
    BY <1>11, <2>1 DEF Step
<1> QED
  BY <1>15 DEF Step

(* The calls implement SubtaskContract: no status after the last, none     *)
(* backwards, and the lends end exactly when the last one is told.         *)
THEOREM ContractKept == Spec => KeepsContract
<1>1. Init => Contract!Init
  BY DEF Init, Contract!Init
<1>2. IInv /\ [Next]_vars => [Contract!Next]_<<told, lent>>
  BY ContractStep
<1> QED
  BY <1>1, <1>2, Invariance, PTL DEF Spec, KeepsContract, Contract!Spec, lent
==============================================================================
