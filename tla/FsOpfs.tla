-------------------------------- MODULE FsOpfs --------------------------------
(***************************************************************************)
(* wasi:filesystem over the Origin Private File System                     *)
(* (wasi/src/filesystem_web.ts): every operation awaits the platform       *)
(* between its steps, and other calls run there.  Handles are paths.       *)
(*                                                                         *)
(* c.pc is the await a call is at: walk (the directories on the way to     *)
(* r.rest), probe and probeDir (does the name exist, and as what), make    *)
(* (create it), remove, size, open (a writable), fill, commit (its close), *)
(* move, copy; pull is a stream's next chunk.                              *)
(***************************************************************************)
EXTENDS FsProvider

DirOps == {"createDirectoryAt", "removeDirectoryAt", "unlinkFileAt"}
LookOps == {"statAt", "metadataHashAt"}

KindOf(p) == NodeAt(disk, p).kind
DataOf(p) == NodeAt(disk, p).data

(* The step leaves the disk, the numbers and the descriptors alone. *)
Turns(c, r) == Steps(c, r, disk) /\ UNCHANGED <<settings, fds, descs>>
Changes(c, r, d) == Steps(c, r, d) /\ UNCHANGED <<settings, fds, descs>>
Throws(c, code) == Turns(c, [Answered(calls[c], code) EXCEPT
                             !.dropped = calls[c].op \in WriteStreams /\ calls[c].track = 3])

(* getDirectoryHandle and getFileHandle of a name that they do not create. *)
DirCode(p) == CASE KindOf(p) = "dir" -> "ok"
                [] KindOf(p) = "none" -> "no-entry"
                [] OTHER -> "not-directory"
FileCode(p) == CASE KindOf(p) = "file" -> "ok"
                 [] KindOf(p) = "none" -> "no-entry"
                 [] OTHER -> "not-directory"

Target(r) == Append(r.cur, Head(r.rest))

-----------------------------------------------------------------------------
(* A call begins: which await it reaches first.  The checks have passed.   *)
AtPath(r) == LET segs == ParsePath(r.path).path
             IN  [r EXCEPT !.cur = descs[r.d].path, !.rest = segs, !.pc = "walk"]

BeginAt(c, r) ==
    LET o == DecodeOpen(r)
        base == descs[r.d]
        segs == ParsePath(r.path).path
    IN  /\ r.op \in DirOps \cup LookOps \cup {"openAt", "renameAt"}
        /\ r.op = "openAt" => Len(descs) < MaxDescriptors
        /\ CASE segs = <<>> /\ r.op = "openAt" ->
                  IF o.exclusive /\ o.create
                  THEN Steps(c, Answered(r, "exist"), disk) /\ UNCHANGED descs
                  ELSE /\ Steps(c, Answered(r, "ok"), disk)
                       /\ descs' = Minted(r, base.path, base.type, 0)
             [] segs = <<>> /\ r.op # "openAt" ->
                  Steps(c, Answered(r, When(KindOf(base.path) = "none", "no-entry")), disk)
                  /\ UNCHANGED descs
             [] OTHER -> /\ Steps(c, IF base.type = "directory" THEN AtPath(r)
                                     ELSE Answered(r, "not-directory"), disk)
                         /\ UNCHANGED descs
        /\ UNCHANGED fds

(* Operations on the handle itself.  OPFS has no times and nothing to sync. *)
BeginOn(c, r) ==
    LET p == descs[r.d].path
        file == When(descs[r.d].type = "directory", "is-directory")
        pc == CASE r.op = "write" -> "open"
                [] r.op = "setSize" -> "open"
                [] OTHER -> "pull"
    IN  /\ r.op \in StreamOps \cup {"write", "setSize"}
        /\ Steps(c, IF file # "ok" THEN Answered(r, file)
                    ELSE [r EXCEPT !.cur = p, !.pc = pc, !.cursor = r.offset, !.before = DataOf(p)],
                 disk)
        /\ UNCHANGED <<fds, descs>>

LookOn(c, r) ==
    LET p == descs[r.d].path
        code == CASE r.op \in {"setTimes", "setTimesAt"} -> "unsupported"
                  [] r.op \in {"sync", "syncData", "advise", "metadataHash", "isSameObject"} -> "ok"
                  [] r.op = "read" -> FileCode(p)
                  [] r.op = "readDirectory" -> DirCode(p)
                  [] r.op = "stat" ->
                       IF descs[r.d].type = "directory" THEN "ok" ELSE FileCode(p)
    IN  /\ r.op \in {"setTimes", "setTimesAt", "sync", "syncData", "advise", "metadataHash",
                     "isSameObject", "read", "readDirectory", "stat"}
        /\ Steps(c, Answered(r, code), disk)
        /\ UNCHANGED <<fds, descs>>

-----------------------------------------------------------------------------
(* walk: one getDirectoryHandle for each component but the last.  What the *)
(* call does with the last is its own.                                     *)
AfterWalk(r) ==
    CASE r.kind = "destination" -> IF hasMove THEN "move" ELSE "copy"
      [] r.kind = "source" -> "remove"
      [] r.kind = "none" /\ r.op = "openAt" /\ "directory" \in r.of -> "make"
      [] r.kind = "none" /\ r.op = "removeDirectoryAt" -> "probeDir"
      [] OTHER -> "probe"

WalkStep(c) ==
    LET r == calls[c]
    IN  /\ r.pc = "walk"
        /\ IF Len(r.rest) = 1 THEN Turns(c, [r EXCEPT !.pc = AfterWalk(r)])
           ELSE IF DirCode(Target(r)) # "ok" THEN Throws(c, DirCode(Target(r)))
           ELSE Turns(c, [r EXCEPT !.cur = Target(r), !.rest = Tail(@)])

(* The name was found as a file or a directory, or (openAt and             *)
(* createDirectoryAt go on) as nothing.                                    *)
Probed(c, r, found) ==
    LET exclusive == {"create", "exclusive"} \subseteq r.of
    IN  CASE r.op = "createDirectoryAt" ->
               IF found = "none" THEN Turns(c, [r EXCEPT !.pc = "make"]) ELSE Throws(c, "exist")
          [] r.op \in LookOps ->
               Turns(c, Answered(r, When(found = "none", "no-entry")))
          [] r.op = "unlinkFileAt" ->
               IF found = "file" THEN Turns(c, [r EXCEPT !.pc = "remove"])
               ELSE Throws(c, "no-entry")
          [] r.op = "renameAt" ->
               IF found = "none" THEN Throws(c, "no-entry")
               ELSE Turns(c, [r EXCEPT !.pc = "walk", !.kind = "destination", !.before = Target(r),
                                       !.swap = <<found>>, !.cur = descs[r.d2].path,
                                       !.rest = ParsePath(r.path2).path])
          [] r.op = "openAt" ->
               IF found # "none" /\ exclusive THEN Throws(c, "exist")
               ELSE IF found = "dir"
               THEN /\ Steps(c, Answered(r, "ok"), disk)
                    /\ descs' = Minted(r, Target(r), "directory", 0)
                    /\ UNCHANGED <<settings, fds>>
               ELSE IF found = "file" /\ "truncate" \in r.of
               THEN Turns(c, [r EXCEPT !.cur = Target(r), !.pc = "open"])
               ELSE IF found = "file"
               THEN /\ Steps(c, Answered(r, "ok"), disk)
                    /\ descs' = Minted(r, Target(r), "regular-file", 0)
                    /\ UNCHANGED <<settings, fds>>
               ELSE Turns(c, [r EXCEPT !.pc = "make"])

(* getFileHandle(name); a directory there is asked for again, as one. *)
Probe(c) ==
    LET r == calls[c]
    IN  /\ r.pc = "probe"
        /\ IF KindOf(Target(r)) = "dir"
           THEN IF r.op = "unlinkFileAt" THEN Throws(c, "is-directory")
                ELSE Turns(c, [r EXCEPT !.pc = "probeDir"])
           ELSE Probed(c, r, KindOf(Target(r)))

(* getDirectoryHandle(name): what changed since then is an error, which    *)
(* createDirectoryAt takes for an absence if it is NotFoundError.          *)
ProbeDir(c) ==
    LET r == calls[c]
        code == DirCode(Target(r))
    IN  /\ r.pc = "probeDir"
        /\ CASE r.op = "removeDirectoryAt" ->
                  IF code = "ok" THEN Turns(c, [r EXCEPT !.pc = "remove"]) ELSE Throws(c, code)
             [] r.op # "removeDirectoryAt" /\ code = "ok" -> Probed(c, r, "dir")
             [] r.op = "createDirectoryAt" /\ code = "no-entry" -> Probed(c, r, "none")
             [] OTHER -> Throws(c, code)

(* get...Handle(name, { create }): what is there by now is taken as it is. *)
Make(c) ==
    LET r == calls[c]
        asDir == r.op = "createDirectoryAt" \/ "directory" \in r.of
        create == r.op = "createDirectoryAt" \/ "create" \in r.of
        kind == KindOf(Target(r))
        got == IF kind = "none" THEN Added(disk, Target(r), IF asDir THEN Dir ELSE File(<<>>))
               ELSE Done(disk)
        mints == r.op = "openAt" /\ ("truncate" \notin r.of \/ asDir)
    IN  /\ r.pc = "make"
        /\ CASE kind = "none" /\ ~create -> Throws(c, "no-entry")
             [] kind # "none" /\ asDir # (kind = "dir") -> Throws(c, "not-directory")
             [] (kind = "none" => create) /\ (kind # "none" => asDir = (kind = "dir")) ->
                  IF got.code # "ok" THEN Throws(c, got.code)
                  ELSE /\ Steps(c, IF r.op = "createDirectoryAt" \/ mints THEN Answered(r, "ok")
                                   ELSE [r EXCEPT !.cur = Target(r), !.pc = "open"], got.disk)
                       /\ descs' = IF mints THEN Minted(r, Target(r), IF asDir THEN "directory"
                                                                  ELSE "regular-file", 0)
                                   ELSE descs
                       /\ UNCHANGED <<settings, fds>>

(* removeEntry(name): not recursive, and it asks for no kind. *)
RemoveEntry(c) ==
    LET r == calls[c]
        p == Target(r)
    IN  /\ r.pc = "remove"
        /\ CASE KindOf(p) = "none" -> Throws(c, "no-entry")
             [] KindOf(p) = "dir" /\ Holds(disk, p) -> Throws(c, "not-empty")
             [] OTHER -> Changes(c, Answered(r, "ok"), Cut(disk, p))

-----------------------------------------------------------------------------
(* Slip: a writable starts empty for a stream too. *)
KeepsData_Never(r) == FALSE

(* A writable is a copy of the file: createWritable takes it, write and    *)
(* truncate change it, close puts it in the file's place.                  *)
KeepsData(r) == r.op \notin {"openAt", "renameAt"}

OpenWritable(c) ==
    LET r == calls[c]
    IN  /\ r.pc = "open"
        /\ IF FileCode(r.cur) # "ok" THEN Throws(c, FileCode(r.cur))
           ELSE Turns(c, [r EXCEPT !.pc = "fill",
                                   !.swap = IF KeepsData(r) THEN DataOf(r.cur) ELSE <<>>])

(* The platform may refuse the bytes; the writable is closed either way. *)
Fill(c) ==
    LET r == calls[c]
        filled == CASE r.op = "setSize" -> Sized(r.swap, r.offset)
                    [] r.op = "openAt" -> r.swap
                    [] r.op = "renameAt" -> r.moved
                    [] r.op = "write" -> Overlay(r.swap, r.data, r.offset)
                    [] r.op \in WriteStreams -> Overlay(r.swap, <<Head(r.data)>>, r.cursor)
    IN  /\ r.pc = "fill"
        /\ \/ Turns(c, [r EXCEPT !.pc = "commit", !.swap = filled])
           \/ /\ r.op # "openAt"
              /\ Turns(c, [r EXCEPT !.pc = "commit", !.code = "quota"])

AfterCommit(r) ==
    CASE r.code # "ok" -> [Answered(r, r.code) EXCEPT
                           !.dropped = r.op \in WriteStreams /\ r.track = 3]
      [] r.code = "ok" /\ r.op \in WriteStreams ->
           [r EXCEPT !.pc = "pull", !.cursor = @ + 1, !.data = Tail(@),
                     !.moved = Append(@, Head(r.data))]
      [] r.code = "ok" /\ r.op = "renameAt" ->
           [r EXCEPT !.pc = "walk", !.kind = "source", !.cur = descs[r.d].path,
                     !.rest = ParsePath(r.path).path]
      [] OTHER -> Answered(r, "ok")

Commit(c) ==
    LET r == calls[c]
        mints == r.op = "openAt"
    IN  /\ r.pc = "commit"
        /\ IF FileCode(r.cur) # "ok" THEN Throws(c, FileCode(r.cur))
           ELSE /\ Steps(c, AfterCommit(r), [disk EXCEPT !.node[disk.at[r.cur]].data = r.swap])
                /\ descs' = IF mints THEN Minted(r, r.cur, "regular-file", 0) ELSE descs
                /\ UNCHANGED <<settings, fds>>

-----------------------------------------------------------------------------
(* renameAt, after both walks: FileSystemHandle.move where there is one.   *)
Move(c) ==
    LET r == calls[c]
        moves(got) == IF got.code # "ok" THEN Throws(c, got.code)
                      ELSE Changes(c, Answered(r, "ok"), got.disk)
    IN  r.pc = "move" /\ moves(Rename(disk, r.before, Target(r)))

(* The fallback reads the whole file, then makes and fills the new one. *)
Copy(c) ==
    LET r == calls[c]
    IN  /\ r.pc = "copy"
        /\ IF r.swap = <<"dir">> THEN Throws(c, "unsupported")
           ELSE IF FileCode(r.before) # "ok" THEN Throws(c, FileCode(r.before))
           ELSE Turns(c, [r EXCEPT !.pc = "into", !.moved = DataOf(r.before)])

Into(c) ==
    LET r == calls[c]
        got == IF KindOf(Target(r)) = "none" THEN Added(disk, Target(r), File(<<>>)) ELSE Done(disk)
    IN  /\ r.pc = "into"
        /\ CASE KindOf(Target(r)) = "dir" -> Throws(c, "not-directory")
             [] OTHER -> IF got.code # "ok" THEN Throws(c, got.code)
                         ELSE Changes(c, [r EXCEPT !.pc = "open", !.cur = Target(r)], got.disk)

-----------------------------------------------------------------------------
(* Streams.  readFrom: getFile is a snapshot, a chunk is a slice of it.    *)
OpfsRead(c) ==
    LET r == calls[c]
        bytes == Slice(DataOf(r.cur), r.cursor, ReadChunk)
    IN  /\ r.pc = "pull" /\ r.op = "readViaStream"
        /\ IF FileCode(r.cur) # "ok" THEN Throws(c, FileCode(r.cur))
           ELSE Turns(c, IF r.gone \/ bytes = <<>> THEN Answered(r, "ok")
                         ELSE [r EXCEPT !.cursor = @ + Len(bytes), !.moved = @ \o bytes])

(* The next chunk of a write stream, or its end.  append asks the size     *)
(* first, and writes there.                                                *)
OpfsWrite(c) ==
    LET r == calls[c]
    IN  /\ r.pc = "pull" /\ r.op \in WriteStreams
        /\ IF r.data = <<>> THEN Turns(c, Answered(r, "ok"))
           ELSE Turns(c, [r EXCEPT !.pc = IF r.op = "appendViaStream" THEN "size" ELSE "open"])

OpfsSize(c) ==
    LET r == calls[c]
    IN  /\ r.pc = "size"
        /\ IF FileCode(r.cur) # "ok" THEN Throws(c, FileCode(r.cur))
           ELSE Turns(c, [r EXCEPT !.pc = "open", !.cursor = Len(DataOf(r.cur))])

OpfsCall(c, r) ==
    /\ host = "opfs" /\ calls[c].pc = "idle" /\ Verdict(r) = "ok"
    /\ \/ BeginAt(c, r)
       \/ BeginOn(c, r)
       \/ LookOn(c, r)
    /\ UNCHANGED settings

OpfsStep(c) == /\ host = "opfs"
               /\ \/ WalkStep(c)
                  \/ Probe(c)
                  \/ ProbeDir(c)
                  \/ Make(c)
                  \/ RemoveEntry(c)
                  \/ OpenWritable(c)
                  \/ Fill(c)
                  \/ Commit(c)
                  \/ Move(c)
                  \/ Copy(c)
                  \/ Into(c)
                  \/ OpfsRead(c)
                  \/ OpfsWrite(c)
                  \/ OpfsSize(c)
=============================================================================
