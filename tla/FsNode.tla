-------------------------------- MODULE FsNode --------------------------------
(***************************************************************************)
(* wasi:filesystem over node:fs (wasi/src/filesystem_node.ts): every       *)
(* operation is synchronous, so a call is one step.  Before each call of   *)
(* the platform the backend resolves the path itself and refuses one that  *)
(* leaves the preopen.                                                     *)
(***************************************************************************)
EXTENDS FsProvider

CONSTANT Fds   \* numbers the platform gives open files

ASSUME FsNodeAssumption == Fds \subseteq Nat \ {0}

(* requireInside *)
Inside(p) == IsPrefix(Root, p)

Contained(at) == IF at.code = "ok" /\ ~Inside(at.path) THEN Fails("not-permitted") ELSE at

(* walkReal: from the real directory cur, every directory on the way is    *)
(* inside, or the walk ends there.                                         *)
RECURSIVE WalkReal(_, _, _)
WalkOn(d, next, rel) == IF next.code # "ok" THEN next ELSE WalkReal(d, next.path, rel)
WalkReal(d, cur, rel) ==
    IF rel = <<>> THEN FoundAt(cur)
    ELSE WalkOn(d, Contained(IF Head(rel) = ".." THEN FoundAt(Parent(cur))
                             ELSE RealPath(d, Append(cur, Head(rel)))), Tail(rel))

(* chaseFinal: the chain of links from dir/name ends inside, also where it *)
(* ends at nothing.  A name that ends in ".." is folded into dir.          *)
RECURSIVE ChaseFinal(_, _, _, _)
ChaseIn(d, up, to, tries) ==
    CASE up.code # "ok" -> up.code
      [] up.code = "ok" /\ to = <<>> -> Contained(up).code
      [] OTHER -> IF Last(to) = ".." THEN Contained(FoundAt(Parent(up.path))).code
                  ELSE ChaseFinal(d, up.path, Last(to), tries)
ChaseLink(d, dir, n, tries) ==
    IF n.kind # "link" THEN "ok"
    ELSE IF tries = 0 THEN "loop"
    ELSE ChaseIn(d, WalkReal(d, IF n.absolute THEN <<>> ELSE dir, Parent(n.to)), n.to, tries - 1)
ChaseReal(d, real, dir, name, tries) ==
    CASE real.code = "ok" -> Contained(real).code
      [] real.code \notin {"ok", "no-entry"} -> real.code
      [] OTHER -> ChaseLink(d, dir, NodeAt(d, Append(dir, name)), tries)
ChaseFinal(d, dir, name, tries) ==
    ChaseReal(d, RealPath(d, Append(dir, name)), dir, name, tries)

(* guard *)
Answers(full, code) == IF code = "ok" THEN FoundAt(full) ELSE Fails(code)
GuardLast(d, parent, full, follow) ==
    Answers(full, IF parent.code = "ok" /\ follow
                  THEN ChaseFinal(d, parent.path, Last(full), MaxLinks) ELSE parent.code)
GuardPath(d, full, segs, follow) ==
    IF segs = <<>> THEN Answers(full, Contained(RealPath(d, full)).code)
    ELSE GuardLast(d, Contained(RealPath(d, Parent(full))), full, follow)
Guard(d, base, segs, follow) == GuardPath(d, base.path \o segs, segs, follow)

-----------------------------------------------------------------------------
(* What stat(follow) and lstat find under a path. *)
StatAt(d, at) == IF at.code = "ok" THEN NodeAt(d, at.path) ELSE NoNode
Stat(d, p, follow) == StatAt(d, IF follow THEN RealPath(d, p) ELSE Place(d, p))

FreeFd == CHOOSE n \in Fds : fds[n] = Closed /\ \A m \in Fds : fds[m] = Closed => n <= m

(* openAt of what is not a directory: O_RDONLY, O_WRONLY or O_RDWR. *)
OpenedObject(d, full, o) ==
    ObjectAt(d, (IF o.follow THEN Land(d, full, MaxLinks) ELSE Place(d, full)).path)
Access(o) == IF ~o.write THEN {"read"} ELSE IF o.read THEN {"read", "write"} ELSE {"write"}
OpensAs(c, r, full, o, got) ==
    IF got.code # "ok"
    THEN Steps(c, Answered(r, got.code), disk) /\ UNCHANGED <<fds, descs>>
    ELSE /\ \E n \in Fds : fds[n] = Closed
         /\ Steps(c, Answered(r, "ok"), got.disk)
         /\ fds' = [fds EXCEPT ![FreeFd] = [object |-> OpenedObject(got.disk, full, o),
                                            access |-> Access(o)]]
         /\ descs' = Minted(r, full, "regular-file", FreeFd)
OpenFile(c, r, full, o) == OpensAs(c, r, full, o, Open(disk, full, o))

(* openAt: a directory that exists is answered with a path. *)
OpenCode(full, there, o) ==
    CASE full.code # "ok" -> full.code
      [] full.code = "ok" /\ ~o.follow /\ there.kind = "link" -> "loop"
      [] full.code = "ok" /\ there.kind = "dir" /\ o.exclusive /\ o.create -> "exist"
      [] full.code = "ok" /\ o.directory /\ there.kind = "file" -> "not-directory"
      [] OTHER -> "ok"
OpenThere(c, r, o, full, there) ==
    LET code == OpenCode(full, there, o)
    IN  CASE code # "ok" -> Steps(c, Answered(r, code), disk) /\ UNCHANGED <<fds, descs>>
          [] code = "ok" /\ there.kind = "dir" ->
               /\ Steps(c, Answered(r, "ok"), disk)
               /\ descs' = Minted(r, full.path, "directory", 0)
               /\ UNCHANGED fds
          [] OTHER -> OpenFile(c, r, full.path, o)
OpenGuarded(c, r, o, full) == OpenThere(c, r, o, full, Stat(disk, full.path, o.follow))
OpenAt(c, r) ==
    /\ r.op = "openAt" /\ Len(descs) < MaxDescriptors
    /\ OpenGuarded(c, r, DecodeOpen(r), Guard(disk, descs[r.d], ParsePath(r.path).path, r.follow))

-----------------------------------------------------------------------------
(* requireFd, and what the platform asks of the number. *)
FdCode(r, access) ==
    CASE descs[r.d].fd = 0 -> "is-directory"
      [] descs[r.d].fd # 0 /\ fds[descs[r.d].fd] = Closed -> "bad-descriptor"
      [] OTHER -> When(access \notin fds[descs[r.d].fd].access, "bad-descriptor")

FdObject(r) == fds[descs[r.d].fd].object
FdData(r) == disk.node[FdObject(r)].data

(* A write may be short: the platform says how much it took. *)
Writes(r, bytes, offset) ==
    [disk EXCEPT !.node[FdObject(r)].data = Overlay(@, bytes, offset)]

(* write *)
WriteBytes(c, r) ==
    /\ r.op = "write"
    /\ IF FdCode(r, "write") # "ok" THEN Steps(c, Answered(r, FdCode(r, "write")), disk)
       ELSE \E n \in 1 .. Len(r.data) :
              Steps(c, Answered(r, "ok"), Writes(r, SubSeq(r.data, 1, n), r.offset))
    /\ UNCHANGED <<fds, descs>>

(* setSize: of a directory opened for writing the platform refuses it. *)
SetSize(c, r) ==
    /\ r.op = "setSize"
    /\ IF FdCode(r, "write") # "ok" THEN Steps(c, Answered(r, FdCode(r, "write")), disk)
       ELSE Steps(c, Answered(r, "ok"),
                  [disk EXCEPT !.node[FdObject(r)].data = Sized(@, r.offset)])
    /\ UNCHANGED <<fds, descs>>

(* The directory operations: both paths are guarded, then one call. *)
Changed(r, old, new) ==
    CASE r.op = "createDirectoryAt" -> Mkdir(disk, old)
      [] r.op = "removeDirectoryAt" -> Rmdir(disk, old)
      [] r.op = "unlinkFileAt" -> Unlink(disk, old)
      [] r.op = "renameAt" -> Rename(disk, old, new)
      [] r.op = "linkAt" -> HardLink(disk, old, new)
      [] r.op = "symlinkAt" -> Symlink(disk, r.absolute, r.target, new)
ChangedOrNot(r, old, new) ==
    CASE r.op # "symlinkAt" /\ old.code # "ok" -> Refused(disk, old.code)
      [] r.op \in {"renameAt", "linkAt", "symlinkAt"} /\ old.code = "ok" /\ new.code # "ok" ->
           Refused(disk, new.code)
      [] OTHER -> Changed(r, old.path, new.path)
Returns(c, r, got) == Steps(c, Answered(r, got.code), got.disk)
ChangeNames(c, r) ==
    /\ r.op \in {"createDirectoryAt", "removeDirectoryAt", "unlinkFileAt", "renameAt",
                 "linkAt", "symlinkAt"}
    /\ Returns(c, r, ChangedOrNot(r,
           IF r.op = "symlinkAt" THEN FoundAt(<<>>)
           ELSE Guard(disk, descs[r.d], ParsePath(r.path).path, r.op = "linkAt" /\ r.follow),
           Guard(disk, descs[r.d2], ParsePath(r.path2).path, FALSE)))
    /\ UNCHANGED <<fds, descs>>

(* The operations that look and change nothing a model keeps: times and    *)
(* sync too.                                                               *)
Look(c, r) ==
    LET follow == r.follow /\ r.op # "readlinkAt"
        listed(own) == IF own.code # "ok" THEN own.code
                       ELSE When(NodeAt(disk, own.path).kind # "dir", "not-directory")
        found(there) == CASE r.op # "readlinkAt" -> When(there.kind = "none", "no-entry")
                          [] r.op = "readlinkAt" /\ there.kind = "none" -> "no-entry"
                          [] OTHER -> When(there.kind # "link", "invalid")
        stated(at) == IF at.code # "ok" THEN at.code ELSE found(Stat(disk, at.path, follow))
        code == CASE r.op \in {"advise", "sync", "syncData"} -> "ok"
                  [] r.op = "read" -> FdCode(r, "read")
                  [] r.op \in {"stat", "metadataHash", "isSameObject", "setTimes"} ->
                       When(descs[r.d].fd = 0 /\ Stat(disk, descs[r.d].path, TRUE).kind = "none",
                            "no-entry")
                  [] r.op = "readDirectory" ->
                       listed(Contained(RealPath(disk, descs[r.d].path)))
                  [] OTHER -> stated(Guard(disk, descs[r.d], ParsePath(r.path).path, follow))
    IN  /\ r.op \in {"advise", "read", "sync", "syncData", "stat", "metadataHash",
                     "isSameObject", "setTimes", "readDirectory", "readlinkAt", "statAt",
                     "metadataHashAt", "setTimesAt"}
        /\ Steps(c, Answered(r, code), disk)
        /\ UNCHANGED <<fds, descs>>

-----------------------------------------------------------------------------
(* Streams.  Each chunk is one call of the platform; between two the guest *)
(* runs.  r.data is what the writer still has, or what the reader has got. *)
BeginStream(c, r) ==
    /\ r.op \in StreamOps
    /\ Steps(c, [r EXCEPT !.pc = "pull", !.cursor = r.offset, !.before = FdData(r)], disk)
    /\ UNCHANGED <<fds, descs>>

(* readFrom, and SyncFileInputStream.read. *)
ReadPull(c) ==
    LET r == calls[c]
        bytes == Slice(FdData(r), r.cursor, ReadChunk)
        code == FdCode(r, "read")
    IN  /\ r.pc = "pull" /\ r.op = "readViaStream"
        /\ Steps(c, CASE code # "ok" -> Answered(r, code)
                      [] code = "ok" /\ (r.gone \/ bytes = <<>>) -> Answered(r, "ok")
                      [] OTHER -> [r EXCEPT !.cursor = @ + Len(bytes), !.moved = @ \o bytes],
                 disk)
        /\ UNCHANGED <<settings, fds, descs>>

(* A write stream fails: the rest of the guest's bytes have no taker. *)
WriteFails(r, code) == [Answered(r, code) EXCEPT !.dropped = (r.track = 3)]

(* One chunk of a write or append stream, or the guest's end of it. *)
WritePull(c) ==
    LET r == calls[c]
        code == FdCode(r, "write")
        at == IF r.op = "appendViaStream" THEN Len(FdData(r)) ELSE r.cursor
    IN  /\ r.pc = "pull" /\ r.op \in WriteStreams
        /\ CASE r.data = <<>> -> Steps(c, Answered(r, "ok"), disk)
             [] r.data # <<>> /\ code # "ok" -> Steps(c, WriteFails(r, code), disk)
             [] OTHER -> Steps(c, [r EXCEPT !.cursor = @ + 1, !.data = Tail(@),
                                            !.moved = Append(@, Head(r.data))],
                               Writes(r, <<Head(r.data)>>, at))
        /\ UNCHANGED <<settings, fds, descs>>

(* A guest makes the call r and its checks pass. *)
NodeCall(c, r) ==
    /\ host = "node" /\ calls[c].pc = "idle" /\ Verdict(r) = "ok"
    /\ \/ OpenAt(c, r)
       \/ WriteBytes(c, r)
       \/ SetSize(c, r)
       \/ ChangeNames(c, r)
       \/ Look(c, r)
       \/ BeginStream(c, r)
    /\ UNCHANGED settings

NodeStream(c) == /\ host = "node"
                 /\ \/ ReadPull(c)
                    \/ WritePull(c)
=============================================================================
