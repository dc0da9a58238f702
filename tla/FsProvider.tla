------------------------------ MODULE FsProvider ------------------------------
(***************************************************************************)
(* wasi:filesystem over any backend (wasi/src/internal/fs_provider.ts):    *)
(* the descriptors of both tracks, what each of their operations checks    *)
(* and in which order, the handles it mints, and the streams between a     *)
(* file and a guest.                                                       *)
(*                                                                         *)
(* A call is one record from its first check to its answer.  A backend     *)
(* that answers at once takes one step over it, one that returns promises  *)
(* a step per await; FsNode and FsOpfs are the two.  An answer is its      *)
(* code: 0.2 throws it bare and 0.3 in a record, which no property sees.   *)
(*                                                                         *)
(* An operator named X_slip is X with a slip of the kind the properties    *)
(* are there to catch.                                                     *)
(***************************************************************************)
EXTENDS FsTree, FiniteSets, TLC

CONSTANTS Calls,           \* calls the guests may make
          MaxDescriptors,
          ReadChunk        \* READ_CHUNK

ASSUME FsProviderAssumption == /\ MaxDescriptors \in Nat
                               /\ ReadChunk \in Nat \ {0}

VARIABLES
    host,        \* "node" or "opfs": the backend
    writable,    \* the package's write grant
    hasMove,     \* the platform's file handles can move (OPFS)
    disk,
    fds,         \* node: open file descriptions by number, Closed if free
    descs,       \* descriptors in the order they were minted
    calls        \* Calls -> the call, or Idle

fsVars == <<host, writable, hasMove, disk, fds, descs, calls>>
settings == <<host, writable, hasMove>>

Flags == {"read", "write", "mutateDirectory"}

(* Descriptor02/03.core and the handle in it.  A directory of node, and    *)
(* every handle of OPFS, is a path; a file of node is an fd (0: none).     *)
(* via is the descriptor it was opened through (0: a preopen).             *)
Descriptor(via, path, type, flags, fd) ==
    [via |-> via, path |-> path, type |-> type, flags |-> flags, fd |-> fd, open |-> TRUE]

Closed == [object |-> 0, access |-> {}]

Root == <<"r">>

(* flagsValue: what a descriptor advertises, masked by the grant. *)
FlagsValue(df) == IF writable THEN df ELSE df \ {"write", "mutateDirectory"}

Preopen == Descriptor(0, Root, "directory", FlagsValue(Flags), 0)

-----------------------------------------------------------------------------
(* Paths.  A guest path is its segments; absolute and nul are the two      *)
(* kinds that are refused before they are split.                           *)
GuestPath(segs) == [segs |-> segs, absolute |-> FALSE, nul |-> FALSE]

(* parsePath *)
ParsePath(p) ==
    LET step(out, seg) ==
            IF out.code # "ok" \/ seg = "." THEN out
            ELSE IF seg # ".." THEN FoundAt(Append(out.path, seg))
            ELSE IF out.path = <<>> THEN Fails("not-permitted")
            ELSE FoundAt(Front(out.path))
    IN  IF p.nul THEN Fails("invalid")
        ELSE IF p.absolute THEN Fails("not-permitted")
        ELSE FoldLeft(step, FoundAt(<<>>), p.segs)

(* requireFinal *)
RequireFinal(p) ==
    LET parsed == ParsePath(p)
    IN  IF parsed.code = "ok" /\ parsed.path = <<>> THEN Fails("invalid") ELSE parsed

-----------------------------------------------------------------------------
(* What each operation requires, in the order of the code. *)
HandleChecks02 ==
    [op \in {"advise"} |-> <<"file">>] @@
    [op \in {"readViaStream", "read"} |-> <<"file", "read">>] @@
    [op \in {"writeViaStream", "appendViaStream", "write"} |->
        <<"writable", "file", "fileWrite">>] @@
    [op \in {"setSize"} |-> <<"writable", "fileWrite">>] @@
    [op \in {"setTimes"} |-> <<"writable", "ownTimes">>] @@
    [op \in {"readDirectory"} |-> <<"dir">>] @@
    [op \in {"sync", "syncData", "stat", "metadataHash", "isSameObject"} |-> <<>>]

PathChecks02 ==
    [op \in {"createDirectoryAt", "removeDirectoryAt", "unlinkFileAt"} |->
        <<"writable", "dir", "dirMutate", "final">>] @@
    [op \in {"setTimesAt"} |-> <<"writable", "dir", "dirMutate", "path">>] @@
    [op \in {"statAt", "metadataHashAt"} |-> <<"path">>] @@
    [op \in {"openAt"} |-> <<"openAllowed", "dir", "escalation", "path">>] @@
    [op \in {"readlinkAt"} |-> <<"links", "final">>] @@
    [op \in {"symlinkAt"} |-> <<"writable", "links", "dir", "dirMutate", "newFinal">>] @@
    [op \in {"renameAt"} |->
        <<"writable", "dir", "dirMutate", "newDir", "newDirMutate", "final", "newFinal">>] @@
    [op \in {"linkAt"} |->
        <<"writable", "links", "dir", "dirMutate", "newDir", "newDirMutate", "final", "newFinal">>]

(* The 0.3 class writes the same checks out again.  Its streams check when *)
(* they are made to read, and when the call runs to write.                 *)
HandleChecks03 ==
    [op \in {"readViaStream"} |-> <<"file", "read">>] @@
    [op \in {"writeViaStream", "appendViaStream"} |-> <<"writable", "file", "fileWrite">>] @@
    [op \in {"setSize"} |-> <<"writable", "fileWrite">>] @@
    [op \in {"setTimes"} |-> <<"writable", "ownTimes">>] @@
    [op \in {"advise"} |-> <<"file">>] @@
    [op \in {"readDirectory"} |-> <<"dir">>] @@
    [op \in {"sync", "syncData", "stat", "metadataHash", "isSameObject"} |-> <<>>]

PathChecks03 ==
    [op \in {"statAt", "metadataHashAt"} |-> <<"path">>] @@
    [op \in {"readlinkAt"} |-> <<"links", "final">>] @@
    [op \in {"openAt"} |-> <<"openAllowed", "dir", "escalation", "path">>] @@
    [op \in {"createDirectoryAt", "removeDirectoryAt", "unlinkFileAt"} |->
        <<"writable", "dir", "dirMutate", "final">>] @@
    [op \in {"setTimesAt"} |-> <<"writable", "dir", "dirMutate", "path">>] @@
    [op \in {"linkAt"} |->
        <<"writable", "links", "dir", "dirMutate", "newDir", "newDirMutate", "final", "newFinal">>] @@
    [op \in {"renameAt"} |->
        <<"writable", "dir", "dirMutate", "newDir", "newDirMutate", "final", "newFinal">>] @@
    [op \in {"symlinkAt"} |-> <<"writable", "links", "dir", "dirMutate", "newFinal">>]

Checks02 == HandleChecks02 @@ PathChecks02
Checks03 == HandleChecks03 @@ PathChecks03

(* Slip: a rename asks only the directory that it takes the name from. *)
Checks_OneEnd(c) ==
    IF c.op = "renameAt" THEN <<"writable", "dir", "dirMutate", "newDir", "final", "newFinal">>
    ELSE IF c.track = 2 THEN Checks02[c.op]
    ELSE Checks03[c.op]

Checks(c) == IF c.track = 2 THEN Checks02[c.op]
             ELSE Checks03[c.op]

(* Asks for write access, or to bring a file into existence or empty it. *)
AsksToChange(c) == \/ c.df \cap {"write", "mutateDirectory"} # {}
                   \/ c.of \cap {"create", "truncate", "exclusive"} # {}

When(bad, code) == IF bad THEN code ELSE "ok"

(* One check of the call c: the code it throws, or ok. *)
CheckCode(check, c) ==
    LET d == descs[c.d]
        new == descs[c.d2]
    IN  CASE check = "writable" -> When(~writable, "read-only")
          [] check = "openAllowed" -> When(~writable /\ AsksToChange(c), "read-only")
          [] check = "file" -> When(d.type = "directory", "is-directory")
          [] check = "dir" -> When(d.type # "directory", "not-directory")
          [] check = "newDir" -> When(new.type # "directory", "not-directory")
          [] check = "read" -> When("read" \notin d.flags, "bad-descriptor")
          [] check = "fileWrite" -> When("write" \notin d.flags, "bad-descriptor")
          [] check = "dirMutate" -> When("mutateDirectory" \notin d.flags, "read-only")
          [] check = "newDirMutate" -> When("mutateDirectory" \notin new.flags, "read-only")
          [] check = "escalation" ->
                 When(AsksToChange(c) /\ "mutateDirectory" \notin d.flags, "read-only")
          [] check = "ownTimes" ->
                 IF d.type = "directory"
                 THEN When("mutateDirectory" \notin d.flags, "read-only")
                 ELSE When("write" \notin d.flags, "bad-descriptor")
          [] check = "links" -> When(host = "opfs", "unsupported")
          [] check = "path" -> ParsePath(c.path).code
          [] check = "final" -> RequireFinal(c.path).code
          [] check = "newFinal" -> RequireFinal(c.path2).code

(* The first check that fails, if one does. *)
Verdict(c) ==
    FoldLeft(LAMBDA code, check : IF code = "ok" THEN CheckCode(check, c) ELSE code,
             "ok", Checks(c))

(* decodeOpen *)
DecodeOpen(c) ==
    [follow |-> c.follow, create |-> "create" \in c.of, directory |-> "directory" \in c.of,
     exclusive |-> "exclusive" \in c.of, truncate |-> "truncate" \in c.of,
     read |-> "read" \in c.df, write |-> c.df \cap {"write", "mutateDirectory"} # {}]

-----------------------------------------------------------------------------
(* Calls.  quiet: nothing but this call changed the disk since it began,   *)
(* and the descriptor of a stream is still there.                          *)
Idle == [op |-> "none", pc |-> "idle"]

NewCall(op, track, d) ==
    [op |-> op, track |-> track, d |-> d, d2 |-> d, path |-> GuestPath(<<>>),
     path2 |-> GuestPath(<<>>), follow |-> FALSE, of |-> {}, df |-> {}, offset |-> 0,
     data |-> <<>>, target |-> <<>>, absolute |-> FALSE, pc |-> "checked", code |-> "ok",
     cur |-> <<>>, rest |-> <<>>, kind |-> "none", swap |-> <<>>, cursor |-> 0, moved |-> <<>>,
     gone |-> FALSE, dropped |-> FALSE, before |-> <<>>, quiet |-> TRUE]

StreamOps == {"readViaStream", "writeViaStream", "appendViaStream"}
WriteStreams == {"writeViaStream", "appendViaStream"}

Started(c) == calls[c].pc \notin {"idle", "done"}

Answered(r, code) == [r EXCEPT !.pc = "done", !.code = code]

(* Of a call that is over only what it changed, and how, is kept. *)
Over(r, d) ==
    IF r.pc # "done" \/ r.op \in StreamOps THEN r
    ELSE [op |-> IF d = disk THEN "none" ELSE r.op, pc |-> "done", d |-> r.d, d2 |-> r.d2,
          quiet |-> FALSE]

(* The step of c leaves it as r, and the disk as d. *)
Steps(c, r, d) ==
    /\ disk' = d
    /\ calls' = [x \in Calls |-> IF x = c THEN Over(r, d)
                                 ELSE IF calls[x].pc = "idle" THEN calls[x]
                                 ELSE [calls[x] EXCEPT !.quiet = @ /\ d = disk]]

(* new Descriptor(handle, type, flagsValue(flags)) *)
Minted(r, path, type, fd) ==
    Append(descs, Descriptor(r.d, path, type, FlagsValue(r.df), fd))

(* A refused 0.3 write stream drops the guest's stream (its writer must    *)
(* not hang) and answers in its result; every other refusal is thrown.     *)
Refuse(r, code) ==
    [Answered(r, code) EXCEPT !.dropped = @ \/ (r.op \in WriteStreams /\ r.track = 3)]

(* A guest makes the call r, with c for its name, and a check refuses it.  *)
CallRefused(c, r) ==
    /\ calls[c].pc = "idle" /\ Verdict(r) # "ok"
    /\ Steps(c, Refuse(r, Verdict(r)), disk)
    /\ UNCHANGED <<settings, fds, descs>>

(* The reader of a read stream drops its end: the stream of either track   *)
(* is not pulled again.                                                    *)
ReaderDrops(c) ==
    /\ Started(c) /\ calls[c].op = "readViaStream" /\ ~calls[c].gone
    /\ calls' = [calls EXCEPT ![c].gone = TRUE]
    /\ UNCHANGED <<settings, disk, fds, descs>>

(* Descriptor[Symbol.dispose].  A call borrows its descriptors; a stream   *)
(* keeps the handle and not the descriptor, so it may outlive it: on node  *)
(* it then holds the number of a file that is closed, or of another.       *)
DropDescriptor(i) ==
    /\ descs[i].open
    /\ \A c \in Calls : Started(c) => calls[c].op \in StreamOps \/ i \notin {calls[c].d, calls[c].d2}
    /\ descs' = [descs EXCEPT ![i].open = FALSE]
    /\ fds' = IF descs[i].fd = 0 THEN fds ELSE [fds EXCEPT ![descs[i].fd] = Closed]
    /\ calls' = [x \in Calls |-> IF calls[x].op \in StreamOps /\ calls[x].d = i
                                 THEN [calls[x] EXCEPT !.quiet = FALSE] ELSE calls[x]]
    /\ UNCHANGED <<settings, disk>>
=============================================================================
