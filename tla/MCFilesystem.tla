----------------------------- MODULE MCFilesystem -----------------------------
(***************************************************************************)
(* wasi:filesystem for TLC, on node and on OPFS: a preopen r with a file   *)
(* a, a directory b and, on node, a symbolic link in b; a file outside.    *)
(* The guest holds the preopen, a descriptor of a to read and write, and   *)
(* one of b that may not change it.                                        *)
(***************************************************************************)
EXTENDS FsNode, FsOpfs

a == "a"
b == "b"

MCLinks == {Link(FALSE, <<"..", a>>), Link(FALSE, <<"..", "..", "o", b>>), Link(TRUE, <<"r", b, b>>)}

DiskOf(last) ==
    [at |-> [p \in Paths |-> CASE p = <<>> -> 1
                               [] p = <<"r">> -> 2
                               [] p = <<"o">> -> 3
                               [] p = <<"r", a>> -> 4
                               [] p = <<"r", b>> -> 5
                               [] p = <<"o", a>> -> 6
                               [] p = <<"r", b, a>> -> IF last = NoNode THEN 0 ELSE 7
                               [] OTHER -> 0],
     node |-> [i \in Objects |-> CASE i \in {1, 2, 3, 5} -> Dir
                                   [] i = 4 -> File(<<1, 2>>)
                                   [] i = 6 -> File(<<9>>)
                                   [] i = 7 -> last
                                   [] OTHER -> NoNode]]

FsInit ==
    /\ host \in {"node", "opfs"}
    /\ writable \in BOOLEAN
    /\ hasMove \in IF host = "opfs" THEN BOOLEAN ELSE {FALSE}
    /\ disk \in IF host = "node" THEN {DiskOf(l) : l \in MCLinks} ELSE {DiskOf(NoNode)}
    /\ fds = [n \in Fds |-> IF host = "node" /\ n = 1
                            THEN [object |-> 4, access |-> IF writable THEN {"read", "write"}
                                                           ELSE {"read"}]
                            ELSE Closed]
    /\ descs = <<Preopen,
                 Descriptor(1, <<"r", a>>, "regular-file", FlagsValue({"read", "write"}),
                            IF host = "node" THEN 1 ELSE 0),
                 Descriptor(1, <<"r", b>>, "directory", {"read"}, 0)>>
    /\ calls = [c \in Calls |-> Idle]

-----------------------------------------------------------------------------
(* What guests ask.  The call that comes second disturbs the first: it     *)
(* changes names, through the preopen or what the first call opened, or    *)
(* bytes, or opens to change them.                                         *)
Deep == GuestPath(<<b, a>>)
MCPaths == {GuestPath(<<a>>), GuestPath(<<b>>), Deep} \cup
           IF host = "node" THEN {GuestPath(<<b, b>>)} ELSE {}
OddPaths == {GuestPath(<<>>), GuestPath(<<"..">>), GuestPath(<<b, ".", "..", a>>),
             [GuestPath(<<a>>) EXCEPT !.absolute = TRUE], [GuestPath(<<a>>) EXCEPT !.nul = TRUE]}

Live == {i \in DOMAIN descs : descs[i].open}

OpenFlags == {{}, {"create"}, {"create", "exclusive"}, {"create", "directory"}, {"truncate"}}
OpenAsks == {{"read"}, Flags}

Opens(k, ds, flags, asks) ==
    {[NewCall("openAt", k, d) EXCEPT !.path = p, !.follow = f, !.of = of, !.df = df] :
        d \in ds, p \in MCPaths, f \in IF host = "node" THEN BOOLEAN ELSE {FALSE},
        of \in flags, df \in asks}

Named(k, ds) ==
    {[NewCall(op, k, d) EXCEPT !.path = p] :
        op \in {"createDirectoryAt", "removeDirectoryAt", "unlinkFileAt"}, d \in ds, p \in MCPaths}

Ends(k, ds, ends) ==
    {[NewCall(op, k, d) EXCEPT !.d2 = d2, !.path = e[1], !.path2 = e[2], !.follow = op = "linkAt"] :
        op \in {"renameAt", "linkAt"}, d \in ds, d2 \in ds, e \in ends}
    \cup {[NewCall("symlinkAt", k, d) EXCEPT !.path2 = p, !.target = t, !.absolute = abs] :
            d \in ds, p \in MCPaths, <<t, abs>> \in {<<<<"..", "o", b>>, FALSE>>, <<<<"o">>, TRUE>>}}

Looks(k, ops, ds) == {NewCall(op, k, d) : op \in ops, d \in ds}
LooksAt(k) ==
    {[NewCall(op, k, d) EXCEPT !.path = p, !.follow = TRUE] :
            op \in {"readlinkAt", "statAt", "metadataHashAt", "setTimesAt"}, d \in Live,
            p \in IF host = "node" THEN MCPaths ELSE {Deep}}

ByteCalls(k, ops, ds) ==
    {[NewCall(op, k, d) EXCEPT
        !.data = CASE op = "write" -> <<5, 6>> [] op \in WriteStreams -> <<7, 8>> [] OTHER -> <<>>,
        !.offset = IF op = "appendViaStream" THEN 0 ELSE 1] : op \in ops, d \in ds}

OddCalls(k) ==
    {[NewCall(op, k, 1) EXCEPT !.path = p, !.of = {"create", "exclusive"}, !.df = {"read"}] :
        op \in {"openAt", "unlinkFileAt"}, p \in OddPaths}

(* Calls are named in the order they are made. *)
NextName(c) == calls[c].pc = "idle" /\ \A x \in Calls : x < c => calls[x].pc # "idle"

(* 0.3 reads and writes by stream only; only a rename looks for move(). *)
First(k) ==
    LET bases == IF host = "node" THEN Live ELSE Live \cap {1}
        moves == Ends(k, Live \cap {1, 3}, MCPaths \X MCPaths)
    IN  IF hasMove THEN {r \in moves : r.op = "renameAt"}
        ELSE Opens(k, bases, OpenFlags, OpenAsks) \cup Named(k, bases) \cup moves \cup OddCalls(k)
             \cup Looks(k, {"advise", "read", "sync", "syncData", "stat", "metadataHash",
                            "isSameObject", "setTimes", "readDirectory"}, Live) \cup LooksAt(k)
             \cup ByteCalls(k, StreamOps \cup {"write", "setSize"}, Live)

Second(k) ==
    LET bases == Live \cap {1, 4}
    IN  Opens(k, bases, {{"create"}, {"truncate"}}, {Flags}) \cup Named(k, bases)
        \cup Ends(k, bases, (MCPaths \X {GuestPath(<<a>>)}) \cup ({GuestPath(<<a>>)} \X MCPaths))
        \cup Looks(k, {"setTimes", "readDirectory"}, Live \cap {1})
        \cup ByteCalls(k, StreamOps \cup {"setSize"}, Live \cap {2, 4})

Asks(c) == IF c = 1 THEN First(2) ELSE Second(3)

FsNext ==
    \/ \E c \in Calls : /\ NextName(c)
                        /\ \E r \in Asks(c) : CallRefused(c, r) \/ NodeCall(c, r) \/ OpfsCall(c, r)
    \/ \E c \in Calls : NodeStream(c) \/ OpfsStep(c) \/ ReaderDrops(c)
    \/ \E i \in DOMAIN descs : DropDescriptor(i)

-----------------------------------------------------------------------------
(* The rule of the provider's header, over every path that reaches a       *)
(* change: the package is writable, and what the step changed it changed   *)
(* through descriptors that permit it - both, where the call has two.  On  *)
(* OPFS, where other calls run between the checks, the walk and the        *)
(* change, it is moreover at or below what the call named when it began    *)
(* that something changes, whatever was renamed or removed meanwhile.      *)
ChangesNames == {"createDirectoryAt", "removeDirectoryAt", "unlinkFileAt", "symlinkAt"}
ChangesTwo == {"renameAt", "linkAt"}

May(r) == /\ writable
          /\ CASE r.op \in ChangesNames \cup {"openAt"} -> "mutateDirectory" \in descs[r.d].flags
               [] r.op \in ChangesTwo -> /\ "mutateDirectory" \in descs[r.d].flags
                                         /\ "mutateDirectory" \in descs[r.d2].flags
               [] OTHER -> "write" \in descs[r.d].flags

Stepped(c) == /\ calls'[c] # calls[c]
              /\ calls[c].pc # "idle" =>
                   calls'[c].pc # calls[c].pc \/ calls'[c].cursor # calls[c].cursor

NamedBy(r) ==
    {descs[r.d].path \o ParsePath(r.path).path}
    \cup (IF r.op \in ChangesTwo THEN {descs[r.d2].path \o ParsePath(r.path2).path} ELSE {})
Touched == {p \in Paths : disk'.at[p] # disk.at[p] \/ NodeAt(disk', p) # NodeAt(disk, p)}
Within(r) == \A p \in Touched : \E e \in NamedBy(r) : IsPrefix(e, p)

Granted(c) == /\ May(IF Started(c) THEN calls[c] ELSE calls'[c])
              /\ host = "opfs" => Within(calls[c])
GrantHolds == [][disk' # disk => \E c \in Calls : Stepped(c) /\ Granted(c)]_fsVars

(* A descriptor that permits a change was opened, link by link, through    *)
(* descriptors that permit changes: openAt mints nothing that its base     *)
(* lacks, whatever combination of flags it is asked for.                   *)
NoEscalation ==
    \A i \in DOMAIN descs : descs[i].flags \cap {"write", "mutateDirectory"} # {} =>
        /\ writable
        /\ descs[i].via # 0 => "mutateDirectory" \in descs[descs[i].via].flags

(* What is outside the preopen stays as it was, whatever links lead there  *)
(* and whether or not they lead to something.                              *)
OutsideUntouched ==
    /\ \A p \in Paths : ~IsPrefix(Root, p) => disk.at[p] = DiskOf(NoNode).at[p]
    /\ disk.node[6] = File(<<9>>)

-----------------------------------------------------------------------------
(* What a stream's answer says is what happened to the bytes: a reader     *)
(* that is told of the end has the file from its offset on, a writer that  *)
(* is told ok left the file with all it sent, and a 0.3 writer that is     *)
(* refused was dropped, or it would hang.  Said of streams that nothing    *)
(* disturbed.                                                              *)
StreamFile(r) == IF host = "opfs" THEN DataOf(descs[r.d].path)
                 ELSE disk.node[fds[descs[r.d].fd].object].data

StreamsAccount ==
    \A c \in Calls :
        LET r == calls[c]
        IN  r.pc = "done" /\ r.op \in StreamOps =>
              /\ r.code # "ok" /\ r.op \in WriteStreams /\ r.track = 3 => r.dropped
              /\ r.code = "ok" /\ r.quiet =>
                   CASE r.op = "readViaStream" ->
                          r.gone \/ r.moved = Slice(r.before, r.offset, Len(r.before))
                     [] r.op = "writeViaStream" ->
                          r.data = <<>> /\ StreamFile(r) = Overlay(r.before, r.moved, r.offset)
                     [] r.op = "appendViaStream" ->
                          r.data = <<>> /\ StreamFile(r) = r.before \o r.moved

(* A rename on OPFS has no moment at which the file is under neither name  *)
(* (a page that is closed in the middle of it loses nothing), if nothing   *)
(* disturbs it and the names differ.                                       *)
RenameKeepsFile ==
    \A c \in Calls :
        LET r == calls[c]
            new == descs[r.d2].path \o ParsePath(r.path2).path
        IN  Started(c) /\ r.op = "renameAt" /\ r.moved # <<>> /\ r.quiet /\ r.before # new =>
              r.moved \in {DataOf(r.before), DataOf(new)}

(* Files hold what the streams say they moved, whatever else happens, and  *)
(* nothing outside the preopen, nor by a descriptor without the right, is  *)
(* touched (the *ViaStream calls, openAt, resolve).                        *)
FilesAccount == StreamsAccount /\ OutsideUntouched /\ RenameKeepsFile /\ NoEscalation

=============================================================================
