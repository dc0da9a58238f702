--------------------------- MODULE ArtifactCaches ---------------------------
(***************************************************************************)
(* The artifact cache in front of the translator (runtime/src/cache): the  *)
(* translateCached of several processes that share one cache, over either  *)
(* backend.  One component, so one key.  DirCache keeps an entry as a      *)
(* directory of files that a put builds beside the entry and renames into  *)
(* place; every file-system call is a step of its own and may fail, and a  *)
(* process may crash between two of them.  WebCache keeps an entry as one  *)
(* response that the platform stores and deletes in one step.              *)
(*                                                                         *)
(* What a file holds is all a reader can tell of it: nothing, the part     *)
(* that has been written, the whole, or one of the faults a leftover entry *)
(* may have (an older layout, another key, a plan that does not validate). *)
(***************************************************************************)
EXTENDS Naturals, FiniteSets

CONSTANTS Procs,       \* processes that translate the component
          Backends,    \* subset of {"dir", "web", "none"}: none has no Cache API
          MaxFaults,   \* bound: I/O calls that fail
          MaxCrashes   \* bound: processes that die and start again

ASSUME CachesAssumption ==
    /\ Backends \subseteq {"dir", "web", "none"}
    /\ MaxFaults \in Nat /\ MaxCrashes \in Nat

Files == {"meta", "plan", "adapter"}

\* What a file may hold when the processes start.
Leftover == [meta: {"none", "whole", "oldLayout", "otherKey"},
             plan: {"none", "whole", "otherSha", "invalid"},
             adapter: {"none", "whole"}]
Empty == [f \in Files |-> "none"]

VARIABLES backend,   \* which backend the processes were given
          present,   \* the entry's directory (or response) exists
          entry,     \* what the entry's files hold
          tmp,       \* per process: what its temporary directory holds
          at,        \* per process: where translateCached stands
          seen,      \* per process: what its get has read, file by file
          faults, crashes

cacheVars == <<backend, present, entry, tmp, at, seen, faults, crashes>>

CacheInit ==
    /\ backend \in Backends
    /\ \/ present = FALSE /\ entry = Empty
       \/ /\ present = TRUE /\ entry \in Leftover
          /\ backend = "web" => \A f \in Files : entry[f] # "none"
    /\ tmp = [p \in Procs |-> Empty]
    /\ at = [p \in Procs |-> "start"]
    /\ seen = [p \in Procs |-> Empty]
    /\ faults = 0 /\ crashes = 0

Go(p, to) == at' = [at EXCEPT ![p] = to]

\* An I/O call of p fails, and translateCached goes on at "to".
Fault(p, to) ==
    /\ faults < MaxFaults /\ faults' = faults + 1
    /\ Go(p, to)
    /\ UNCHANGED <<present, entry, tmp, seen>>

NoFault == faults' = faults

(* -- reading (DirCache.get, WebCache.get) ------------------------------- *)

\* translateCached computes the key and asks the cache; without a Cache API
\* the get rejects, which translateCached takes for a miss.
BeginLoad(p) ==
    /\ at[p] = "start" /\ NoFault
    /\ seen' = [seen EXCEPT ![p] = Empty]
    /\ Go(p, CASE backend = "dir" -> "stat"
               [] backend = "web" -> "match"
               [] OTHER -> "translate")
    /\ UNCHANGED <<present, entry, tmp>>

\* exists(dir): an absent entry is a miss, any other failure evicts.
Stat(p) ==
    /\ at[p] = "stat"
    /\ \/ Go(p, IF present THEN "meta" ELSE "translate")
          /\ NoFault /\ UNCHANGED <<present, entry, tmp, seen>>
       \/ Fault(p, "evict")

\* What get accepts of a file: an adapter's bytes are taken as they are.
Accepts(f, what) == what \in IF f = "adapter" THEN {"part", "whole"} ELSE {"whole"}

After(f) == [meta |-> "plan", plan |-> "adapter", adapter |-> "hit"][f]

\* One file of the entry is read and checked: a missing file, one that does
\* not parse, another layout, another key or a plan that does not validate
\* evict the entry.
ReadFile(p, f) ==
    /\ at[p] = f
    /\ \/ /\ Go(p, IF Accepts(f, entry[f]) THEN After(f) ELSE "evict")
          /\ seen' = [seen EXCEPT ![p][f] = entry[f]]
          /\ NoFault /\ UNCHANGED <<present, entry, tmp>>
       \/ Fault(p, "evict")

\* WebCache: the stored response is read whole, and then checked.
Match(p) ==
    /\ at[p] = "match"
    /\ \/ /\ IF ~present THEN Go(p, "translate") /\ UNCHANGED seen
             ELSE IF \A f \in Files : Accepts(f, entry[f])
             THEN Go(p, "hit") /\ seen' = [seen EXCEPT ![p] = entry]
             ELSE Go(p, "evict") /\ UNCHANGED seen
          /\ NoFault /\ UNCHANGED <<present, entry, tmp>>
       \/ Fault(p, "evict")

(* -- removing ------------------------------------------------------------ *)

\* rmIfExists(dir), one file at a time and then the directory; a directory
\* that is gone already is no failure.
RemoveStep(p, next) ==
    /\ \/ \E f \in Files : /\ present /\ entry[f] # "none"
                           /\ entry' = [entry EXCEPT ![f] = "none"]
                           /\ UNCHANGED <<present, at>>
       \/ /\ present => entry = Empty
          /\ present' = FALSE /\ entry' = entry
          /\ Go(p, next)
    /\ NoFault /\ UNCHANGED <<tmp, seen>>

\* tryEvict: whatever comes of it, get answers with a miss.
Evict(p) ==
    /\ at[p] = "evict"
    /\ \/ backend = "dir" /\ RemoveStep(p, "translate")
       \/ /\ backend = "web" /\ NoFault
          /\ present' = FALSE /\ entry' = Empty
          /\ Go(p, "translate") /\ UNCHANGED <<tmp, seen>>
       \/ Fault(p, "translate")

(* -- writing (DirCache.put, WebCache.put) -------------------------------- *)

\* A miss: the component is translated and its envelope validated, and the
\* artifacts are put.  Only the cache's failures are of interest here: a
\* component the translator refuses never reaches the cache.
Translate(p) ==
    /\ at[p] = "translate" /\ NoFault
    /\ Go(p, CASE backend = "dir" -> "mkdir"
               [] backend = "web" -> "store"
               [] OTHER -> "fresh")
    /\ UNCHANGED <<present, entry, tmp, seen>>

\* The temporary directory has a fresh name, so that it is this put's alone.
MakeTmp(p) ==
    /\ at[p] = "mkdir"
    /\ \/ /\ tmp' = [tmp EXCEPT ![p] = Empty]
          /\ Go(p, "write meta") /\ NoFault /\ UNCHANGED <<present, entry, seen>>
       \/ Fault(p, "clean")

Writing == [meta |-> "write meta", plan |-> "write plan", adapter |-> "write adapter"]
NextWrite == [meta |-> "write plan", plan |-> "write adapter", adapter |-> "clear"]

\* Slip: the files are written where the entry is.
PutFile_inPlace(p, f, what) ==
    tmp' = [tmp EXCEPT ![p][f] = what] /\ present' = TRUE /\ entry' = [entry EXCEPT ![f] = what]

\* Where the files of a put are written: beside the entry.
PutFile(p, f, what) ==
    tmp' = [tmp EXCEPT ![p][f] = what] /\ UNCHANGED <<present, entry>>

\* A file is created and then filled: a reader could come in between.
WriteFile(p, f) ==
    /\ at[p] = Writing[f]
    /\ \/ /\ NoFault /\ UNCHANGED seen
          /\ \/ tmp[p][f] = "none" /\ PutFile(p, f, "part") /\ UNCHANGED at
             \/ tmp[p][f] = "part" /\ PutFile(p, f, "whole") /\ Go(p, NextWrite[f])
       \/ Fault(p, "clean")

\* The entry that is there is removed before the rename.
Clear(p) ==
    /\ at[p] = "clear"
    /\ RemoveStep(p, "rename") \/ Fault(p, "clean")

\* rename(tmp, dir) replaces an absent or empty directory and fails on any
\* other, which another put may have made since.
Rename(p) ==
    /\ at[p] = "rename"
    /\ \/ /\ entry = Empty /\ NoFault
          /\ present' = TRUE /\ entry' = tmp[p]
          /\ tmp' = [tmp EXCEPT ![p] = Empty]
          /\ Go(p, "fresh") /\ UNCHANGED seen
       \/ /\ entry # Empty /\ NoFault
          /\ Go(p, "clean") /\ UNCHANGED <<present, entry, tmp, seen>>
       \/ Fault(p, "clean")

\* The put has failed: what it wrote is removed if that succeeds, and
\* translateCached returns the fresh artifacts all the same.
Clean(p) ==
    /\ at[p] = "clean"
    /\ \/ /\ tmp' = [tmp EXCEPT ![p] = Empty]
          /\ Go(p, "fresh") /\ NoFault /\ UNCHANGED <<present, entry, seen>>
       \/ Fault(p, "fresh")

StoreEntry(p) ==
    /\ at[p] = "store"
    /\ \/ /\ present' = TRUE /\ entry' = [f \in Files |-> "whole"]
          /\ Go(p, "fresh") /\ NoFault /\ UNCHANGED <<tmp, seen>>
       \/ Fault(p, "fresh")

(* -- processes ------------------------------------------------------------ *)

\* A process dies wherever it stands and starts again; its temporary
\* directory stays behind under a name nobody uses again.
Die(p) ==
    /\ at[p] # "start" /\ crashes < MaxCrashes /\ crashes' = crashes + 1
    /\ Go(p, "start") /\ tmp' = [tmp EXCEPT ![p] = Empty]
    /\ UNCHANGED <<present, entry, seen, faults>>

LoadStep(p) ==
    /\ \/ BeginLoad(p) \/ Stat(p) \/ Match(p) \/ Evict(p) \/ Translate(p)
       \/ MakeTmp(p) \/ Clear(p) \/ Rename(p) \/ Clean(p) \/ StoreEntry(p)
       \/ \E f \in Files : ReadFile(p, f) \/ WriteFile(p, f)
    /\ UNCHANGED crashes

CacheNext == /\ \E p \in Procs : LoadStep(p) \/ Die(p)
             /\ UNCHANGED backend

CacheSpec == CacheInit /\ [][CacheNext]_cacheVars

(* -- properties ------------------------------------------------------------ *)

\* A hit is whole: whatever other processes evict, replace or leave behind
\* while it is read, the artifacts a get returns are those of this key, and
\* none of them is cut short (dir.ts:69-115; the adapters' bytes are checked
\* by nobody, so this rests on put's rename).
HitIsWhole == \A p \in Procs : at[p] = "hit" => \A f \in Files : seen[p][f] = "whole"
=============================================================================
