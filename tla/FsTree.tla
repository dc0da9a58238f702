-------------------------------- MODULE FsTree --------------------------------
(***************************************************************************)
(* The files a host keeps, as the two backends of wasi:filesystem use      *)
(* them: names that lead to objects, symbolic links that are followed on   *)
(* the way, and the calls of node:fs that change names.  All of it is      *)
(* outside the repository.                                                 *)
(*                                                                         *)
(* A disk is [at, node]: at maps a path from "/" to an object (0: nothing) *)
(* and node maps an object to what it is.                                  *)
(***************************************************************************)
EXTENDS Naturals, Sequences, SequencesExt

CONSTANTS Names,       \* the names a directory may hold
          Objects,     \* a finite set of positive numbers
          MaxDepth     \* components of the longest path (PATH_MAX)

ASSUME FsTreeAssumption == /\ Objects \subseteq Nat \ {0}
                           /\ MaxDepth \in Nat

(* "/" holds r, where the preopen is, and o, which is outside it. *)
Paths == {p \in SeqOf({"r", "o"} \cup Names, MaxDepth) :
            \A i \in 1 .. Len(p) : IF i = 1 THEN p[i] \in {"r", "o"} ELSE p[i] \in Names}

NoNode == [kind |-> "none", data |-> <<>>, absolute |-> FALSE, to |-> <<>>]
Dir == [NoNode EXCEPT !.kind = "dir"]
File(data) == [NoNode EXCEPT !.kind = "file", !.data = data]
Link(absolute, to) == [NoNode EXCEPT !.kind = "link", !.absolute = absolute, !.to = to]

ObjectAt(d, p) == IF p \in Paths THEN d.at[p] ELSE 0
NodeAt(d, p) == IF ObjectAt(d, p) = 0 THEN NoNode ELSE d.node[ObjectAt(d, p)]

Under(p, q) == IsStrictPrefix(p, q)
Holds(d, p) == \E q \in Paths : Under(p, q) /\ d.at[q] # 0

-----------------------------------------------------------------------------
(* Resolution: a result is a path, or a code.  MaxLinks is the number of   *)
(* links the kernel, and chaseFinal, follow before they give up.           *)
MaxLinks == 3

FoundAt(p) == [code |-> "ok", path |-> p]
Fails(code) == [code |-> code, path |-> <<>>]
Parent(p) == IF p = <<>> THEN <<>> ELSE Front(p)

(* Every component of rest, from the directory cur, links followed. *)
RECURSIVE Walk(_, _, _, _)
Walk(d, cur, rest, fuel) ==
    IF rest = <<>> THEN FoundAt(cur)
    ELSE LET q == Append(cur, Head(rest))
             n == NodeAt(d, q)
         IN  CASE Head(rest) = ".." -> Walk(d, Parent(cur), Tail(rest), fuel)
               [] Head(rest) # ".." /\ n.kind = "link" ->
                      IF fuel = 0 THEN Fails("loop")
                      ELSE Walk(d, IF n.absolute THEN <<>> ELSE cur, n.to \o Tail(rest),
                                fuel - 1)
               [] Head(rest) # ".." /\ n.kind = "none" -> Fails("no-entry")
               [] Head(rest) # ".." /\ n.kind = "file" /\ Len(rest) > 1 -> Fails("not-directory")
               [] OTHER -> Walk(d, q, Tail(rest), fuel)

RealPath(d, p) == Walk(d, <<>>, p, MaxLinks)

(* Where the name p stands: its directory resolved, its last link not. *)
In(d, up, name) ==
    IF up.code # "ok" THEN up
    ELSE IF NodeAt(d, up.path).kind = "file" THEN Fails("not-directory")
    ELSE FoundAt(Append(up.path, name))
Place(d, p) == IF p = <<>> THEN FoundAt(p) ELSE In(d, RealPath(d, Front(p)), Last(p))

(* Where a call that follows p's last link acts, whether or not something  *)
(* is there.                                                               *)
RECURSIVE Land(_, _, _)
LandFrom(d, at, n, fuel) ==
    IF at.code # "ok" \/ n.kind # "link" THEN at
    ELSE IF fuel = 0 THEN Fails("loop")
    ELSE Land(d, (IF n.absolute THEN <<>> ELSE Front(at.path)) \o n.to, fuel - 1)
LandAt(d, at, fuel) == LandFrom(d, at, NodeAt(d, at.path), fuel)
Land(d, p, fuel) ==
    LandAt(d, IF p # <<>> /\ Last(p) = ".." THEN RealPath(d, p) ELSE Place(d, p), fuel)

-----------------------------------------------------------------------------
(* A call gives a code and a disk. *)
Refused(d, code) == [code |-> code, disk |-> d]
Done(d) == [code |-> "ok", disk |-> d]

Fresh(d) == {i \in Objects : d.node[i].kind = "none"}

(* A new object under the name p.  Objects run out as space does. *)
Added(d, p, n) ==
    IF p \notin Paths THEN Refused(d, "name-too-long")
    ELSE IF Fresh(d) = {} THEN Refused(d, "insufficient-space")
    ELSE LET i == CHOOSE x \in Fresh(d) : \A y \in Fresh(d) : x <= y
         IN  Done([at |-> [d.at EXCEPT ![p] = i], node |-> [d.node EXCEPT ![i] = n]])

Cut(d, p) == [d EXCEPT !.at[p] = 0]

(* Everything under old goes under new, in place of what new named. *)
Moved(d, old, new) ==
    LET source(q) == IF q = new \/ Under(new, q)
                     THEN old \o SubSeq(q, Len(new) + 1, Len(q)) ELSE q
        at == [q \in Paths |-> IF q = new \/ Under(new, q) THEN ObjectAt(d, source(q))
                               ELSE IF q = old \/ Under(old, q) THEN 0 ELSE d.at[q]]
    IN  [d EXCEPT !.at = at]

(* Each call, at the places l its names stand for, which hold a. *)
Made(d, l, a, n) ==
    IF l.code # "ok" THEN Refused(d, l.code)
    ELSE IF a.kind # "none" THEN Refused(d, "exist")
    ELSE Added(d, l.path, n)
MadeAt(d, l, n) == Made(d, l, NodeAt(d, l.path), n)
Mkdir(d, p) == MadeAt(d, Place(d, p), Dir)
Symlink(d, absolute, to, p) == MadeAt(d, Place(d, p), Link(absolute, to))

Emptied(d, l, a, dir) ==
    CASE l.code # "ok" -> Refused(d, l.code)
      [] l.code = "ok" /\ a.kind = "none" -> Refused(d, "no-entry")
      [] l.code = "ok" /\ a.kind = "dir" /\ ~dir -> Refused(d, "is-directory")
      [] l.code = "ok" /\ a.kind \in {"file", "link"} /\ dir -> Refused(d, "not-directory")
      [] OTHER -> IF dir /\ Holds(d, l.path) THEN Refused(d, "not-empty") ELSE Done(Cut(d, l.path))
EmptiedAt(d, l, dir) == Emptied(d, l, NodeAt(d, l.path), dir)
Rmdir(d, p) == EmptiedAt(d, Place(d, p), TRUE)
Unlink(d, p) == EmptiedAt(d, Place(d, p), FALSE)

Renamed(d, old, new, a, b) ==
    CASE old.code # "ok" -> Refused(d, old.code)
      [] old.code = "ok" /\ new.code # "ok" -> Refused(d, new.code)
      [] old.code = "ok" /\ new.code = "ok" ->
           CASE a.kind = "none" -> Refused(d, "no-entry")
             [] a.kind # "none" /\ ObjectAt(d, old.path) = ObjectAt(d, new.path) -> Done(d)
             [] OTHER ->
                  IF Under(old.path, new.path) THEN Refused(d, "invalid")
                  ELSE IF new.path \notin Paths THEN Refused(d, "name-too-long")
                  ELSE IF a.kind = "dir" /\ b.kind \in {"file", "link"}
                  THEN Refused(d, "not-directory")
                  ELSE IF b.kind = "dir" /\ a.kind # "dir" THEN Refused(d, "is-directory")
                  ELSE IF b.kind = "dir" /\ Holds(d, new.path) THEN Refused(d, "not-empty")
                  ELSE Done(Moved(d, old.path, new.path))
RenamedAt(d, old, new) == Renamed(d, old, new, NodeAt(d, old.path), NodeAt(d, new.path))
Rename(d, p, q) == RenamedAt(d, Place(d, p), Place(d, q))

(* link(2) does not follow the old name. *)
HardLinked(d, old, new, a, b) ==
    CASE old.code # "ok" -> Refused(d, old.code)
      [] old.code = "ok" /\ new.code # "ok" -> Refused(d, new.code)
      [] OTHER ->
           IF a.kind = "none" THEN Refused(d, "no-entry")
           ELSE IF b.kind # "none" THEN Refused(d, "exist")
           ELSE IF a.kind = "dir" THEN Refused(d, "not-permitted")
           ELSE IF new.path \notin Paths THEN Refused(d, "name-too-long")
           ELSE Done([d EXCEPT !.at[new.path] = d.at[old.path]])
HardLinkedAt(d, old, new) == HardLinked(d, old, new, NodeAt(d, old.path), NodeAt(d, new.path))
HardLink(d, p, q) == HardLinkedAt(d, Place(d, p), Place(d, q))

(* open(2) of what is not a directory: the object opened, and where it is. *)
OpenedNode(d, at, n, o) ==
    CASE at.code # "ok" -> Refused(d, at.code)
      [] at.code = "ok" /\ n.kind = "none" ->
           IF ~o.create THEN Refused(d, "no-entry")
           ELSE IF o.directory THEN Refused(d, "invalid")
           ELSE Added(d, at.path, File(<<>>))
      [] OTHER ->
           IF o.create /\ o.exclusive THEN Refused(d, "exist")
           ELSE IF n.kind = "link" THEN Refused(d, "loop")
           ELSE IF o.directory THEN Refused(d, "not-directory")
           ELSE IF o.truncate THEN Done([d EXCEPT !.node[d.at[at.path]].data = <<>>])
           ELSE Done(d)
OpenedAt(d, at, o) == OpenedNode(d, at, NodeAt(d, at.path), o)
Open(d, p, o) ==
    OpenedAt(d, IF o.follow /\ ~(o.create /\ o.exclusive) THEN Land(d, p, MaxLinks)
                ELSE Place(d, p), o)

-----------------------------------------------------------------------------
(* Bytes.  A write past the end leaves zeros between. *)
Overlay(data, bytes, offset) ==
    LET end == offset + Len(bytes)
        size == IF end > Len(data) THEN end ELSE Len(data)
    IN  [i \in 1 .. size |-> IF i > offset /\ i <= end THEN bytes[i - offset]
                             ELSE IF i <= Len(data) THEN data[i] ELSE 0] \o <<>>

Sized(data, size) == [i \in 1 .. size |-> IF i <= Len(data) THEN data[i] ELSE 0] \o <<>>

Slice(data, offset, length) ==
    SubSeq(data, offset + 1, IF offset + length < Len(data) THEN offset + length ELSE Len(data))
=============================================================================
