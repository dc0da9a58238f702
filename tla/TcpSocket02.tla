----------------------------- MODULE TcpSocket02 -----------------------------
(***************************************************************************)
(* One tcp-socket of wasi:sockets 0.2 (TcpSocket02 in sockets_02.ts) with  *)
(* its connection or its listener (NodeTcpConn, nodeTcpListen), its two    *)
(* byte streams (WasiStreams), and guest tasks, of which one at a time is  *)
(* parked on pollables (Pollable.block, poll, the blocking operations).    *)
(*                                                                         *)
(* A socket that was accepted starts connected.  Calls of the guest run to *)
(* their end; Turn is the microtasks that follow them.  The network is the *)
(* dial's and the bind's outcome, bytes and a FIN or a reset of the peer,  *)
(* the answers to writes, and connections that arrive.                     *)
(*                                                                         *)
(* An operator named X_Y is X with the slip Y.                             *)
(***************************************************************************)
EXTENDS WasiStreams

CONSTANTS MaxAccepts,  \* MAX_QUEUED_CONNECTIONS
          MaxWrites,   \* bound: writes the guest makes
          MaxChunks,   \* bound: chunks the peer sends
          MaxArrivals  \* bound: connections that arrive

ASSUME TcpSocket02Assumption ==
  {MaxAccepts, MaxWrites, MaxChunks, MaxArrivals} \subseteq Nat

VARIABLES
  state,  \* #state
  dial,   \* #dial: "none", "pending", "made" or "failed"
  conn,   \* the connection: "none", "open", "broken" (destroyed by an error)
          \* or "closed" (destroyed by close)
  held,   \* #conn is set
  lis,    \* the listener: its bind, its queue, its failure, whether closed
  inp,    \* #input
  out,    \* #output
  fin,    \* shutdown(send): how far its FIN is, and a write after it
  parked, \* the pollables the parked task waits on, and whether one fired
  used    \* history: writes, chunks, arrivals

vars == <<state, dial, conn, held, lis, inp, out, fin, parked, used>>

Streams == <<inp, out, fin>>
Sources == {"dial", "bind", "accept", "input", "output", "flush"}
Nothing == [on |-> {}, woken |-> FALSE]

NoListener == [bind |-> "none", queue |-> 0, failed |-> FALSE, closed |-> FALSE]

SocketInit ==
  /\ state \in {"unbound", "connected"}
  /\ dial = "none" /\ lis = NoListener
  /\ conn = (IF state = "connected" THEN "open" ELSE "none")
  /\ held = (state = "connected")
  /\ inp = FreshInput /\ out = FreshOutput
  /\ fin = [phase |-> "none", late |-> FALSE]
  /\ parked = Nothing
  /\ used = [writes |-> 0, chunks |-> 0, arrivals |-> 0]

HasStreams == held \/ inp.closed

-----------------------------------------------------------------------------
(* Wake-ups.  A source signals by swapping its promise: a task that took   *)
(* the old one wakes, looks at its pollables again, and may wait again.    *)
Signal(S) == parked' = [parked EXCEPT !.woken = @ \/ parked.on \cap S # {}]

Ready(x) ==
  CASE x = "dial"   -> dial \in {"made", "failed"}
    [] x = "bind"   -> lis.bind # "pending"
    [] x = "accept" -> lis.queue > 0 \/ lis.failed \/ lis.closed
    [] x = "input"  -> InputReady(inp)
    [] x = "output" -> OutputReady(out)
    [] x = "flush"  -> Flushed(out)

(* What the guest can hold a pollable of, or block in. *)
Exists(x) ==
  CASE x = "dial" -> dial # "none"
    [] x = "bind" -> lis.bind # "none"
    [] x = "accept" -> lis.bind = "up" /\ state # "listen-in-progress"
    [] x = "flush" -> HasStreams /\ Writable(out)
    [] OTHER -> HasStreams

Park(S) ==
  /\ parked = Nothing /\ S # {}
  /\ \A x \in S : Exists(x) /\ ~Ready(x)
  /\ parked' = [on |-> S, woken |-> FALSE]
  /\ UNCHANGED <<state, dial, conn, held, lis, Streams, used>>

Wake ==
  /\ parked.woken
  /\ parked' = IF \E x \in parked.on : Ready(x) THEN Nothing
               ELSE [parked EXCEPT !.woken = FALSE]
  /\ UNCHANGED <<state, dial, conn, held, lis, Streams, used>>

-----------------------------------------------------------------------------
(* Binding, connecting, listening.                                         *)
Becomes(q) == state' = q /\ UNCHANGED <<conn, held, Streams, used>>

StartBind ==
  state = "unbound" /\ Becomes("bind-in-progress") /\ UNCHANGED <<dial, lis, parked>>

FinishBind ==
  state = "bind-in-progress" /\ Becomes("bound") /\ UNCHANGED <<dial, lis, parked>>

StartConnect ==
  /\ state \in {"unbound", "bound"}
  /\ Becomes("connect-in-progress") /\ dial' = "pending"
  /\ UNCHANGED <<lis, parked>>

(* The dial settles.  A connection that comes too late is closed. *)
DialMade == IF state = "connect-in-progress" THEN "open" ELSE "closed"

DialSettles(ok) ==
  /\ dial = "pending"
  /\ dial' = (IF ok THEN "made" ELSE "failed")
  /\ conn' = (IF ok THEN DialMade ELSE "none")
  /\ Signal({"dial"})
  /\ UNCHANGED <<state, held, lis, Streams, used>>

FinishConnect ==
  /\ state = "connect-in-progress" /\ dial # "pending"
  /\ state' = (IF dial = "made" THEN "connected" ELSE "closed")
  /\ held' = (dial = "made")
  /\ UNCHANGED <<dial, conn, lis, Streams, parked, used>>

StartListen ==
  /\ state \in {"unbound", "bound"}
  /\ Becomes("listen-in-progress")
  /\ lis' = [NoListener EXCEPT !.bind = "pending"]
  /\ UNCHANGED <<dial, parked>>

BindSettles(ok) ==
  /\ lis.bind = "pending"
  /\ lis' = [lis EXCEPT !.bind = IF ok THEN "up" ELSE "failed", !.failed = ~ok]
  /\ Signal({"bind", "accept"})
  /\ UNCHANGED <<state, dial, conn, held, Streams, used>>

ListenerClosed_Silent(S) == Signal(S)
ListenerClosed(S) == Signal(S \cup {"accept"})

FinishListen ==
  /\ state = "listen-in-progress" /\ lis.bind # "pending"
  /\ \/ /\ lis.bind = "up" /\ Becomes("listening") /\ UNCHANGED <<lis, parked>>
     \/ /\ lis.bind = "failed" /\ Becomes("closed")
        /\ lis' = [lis EXCEPT !.closed = TRUE] /\ ListenerClosed({})
  /\ UNCHANGED dial

(* A connection arrives: queued, or refused at the limit. *)
Arrives ==
  /\ lis.bind = "up" /\ ~lis.closed /\ used.arrivals < MaxArrivals
  /\ used' = [used EXCEPT !.arrivals = @ + 1]
  /\ IF lis.queue < MaxAccepts
       THEN lis' = [lis EXCEPT !.queue = @ + 1] /\ Signal({"accept"})
       ELSE UNCHANGED <<lis, parked>>
  /\ UNCHANGED <<state, dial, conn, held, Streams>>

ListenerFails ==
  /\ lis.bind = "up" /\ ~lis.failed /\ ~lis.closed
  /\ lis' = [lis EXCEPT !.failed = TRUE] /\ Signal({"accept"})
  /\ UNCHANGED <<state, dial, conn, held, Streams, used>>

(* The connection becomes the socket of another activation of this module. *)
Accept ==
  /\ state = "listening" /\ ~lis.failed /\ lis.queue > 0
  /\ lis' = [lis EXCEPT !.queue = @ - 1]
  /\ UNCHANGED <<state, dial, conn, held, Streams, parked, used>>

-----------------------------------------------------------------------------
(* The streams.  The feed reads the connection until it ends or fails; a   *)
(* connection closed under a read fails it.                                *)
Input(i) == inp' = i /\ UNCHANGED <<state, dial, held, lis, out, fin>>

(* #feed signals, except where it returns because the reader has gone. *)
PeerSends(n) ==
  /\ HasStreams /\ conn = "open" /\ inp.feed = "pulling" /\ used.chunks < MaxChunks
  /\ Input(GotChunk(inp, n))
  /\ IF inp.closed THEN UNCHANGED parked ELSE Signal({"input"})
  /\ used' = [used EXCEPT !.chunks = @ + 1]
  /\ UNCHANGED conn

FeedEnds_Silent == UNCHANGED parked
FeedEnds == Signal({"input"})

PeerFins ==
  /\ HasStreams /\ conn = "open" /\ inp.feed = "pulling"
  /\ Input(SourceEnded(inp, FALSE)) /\ FeedEnds
  /\ UNCHANGED <<conn, used>>

ReadFails ==
  /\ HasStreams /\ conn \in {"broken", "closed"} /\ inp.feed = "pulling"
  /\ Input(SourceEnded(inp, TRUE)) /\ FeedEnds
  /\ UNCHANGED <<conn, used>>

PeerResets ==
  /\ conn = "open" /\ conn' = "broken"
  /\ UNCHANGED <<state, dial, held, lis, Streams, parked, used>>

Read(n) ==
  /\ HasStreams /\ ~inp.closed /\ inp.buffered >= n /\ n > 0
  /\ Input(Taken(inp, n))
  /\ UNCHANGED <<conn, parked, used>>

(* write, and blocking-write-and-flush up to its park. *)
Write(n) ==
  /\ HasStreams /\ Writable(out) /\ n <= Permit(out) /\ used.writes < MaxWrites
  /\ out' = Accepted(out, n)
  /\ used' = [used EXCEPT !.writes = @ + 1]
  /\ UNCHANGED <<state, dial, conn, held, lis, inp, fin, parked>>

(* The chain goes on: the next write is called, or none is after a failure. *)
Chained(o) == IF o.queue = <<>> THEN o ELSE IF o.failed THEN Skipped(o) ELSE Called(o)

(* A write called after the FIN is late. *)
Handed(f, o) ==
  [f EXCEPT !.late = @ \/ (f.phase = "sent" /\ o.queue # <<>> /\ ~o.failed)]

Sent(f) == [f EXCEPT !.phase = "sent"]

(* The microtasks after a guest's calls: a FIN that had nothing to wait    *)
(* for, or the first link of an idle chain and then the FIN asked for      *)
(* while that link was due.                                                *)
Turn ==
  /\ \/ /\ fin.phase = "now"
        /\ fin' = Sent(fin)
        /\ UNCHANGED <<out, parked>>
     \/ /\ fin.phase # "now" /\ out.flying = 0 /\ out.queue # <<>>
        /\ out' = Chained(out)
        /\ fin' = LET f == Handed(fin, out)
                  IN  IF f.phase = "afterNext" THEN Sent(f) ELSE f
        /\ IF out.failed THEN Signal({"output", "flush"}) ELSE UNCHANGED parked
  /\ UNCHANGED <<state, dial, conn, held, lis, inp, used>>

(* The answer to a write, and the microtasks after it: the FIN that waited *)
(* for this write goes out before the next is called.  A late write fails  *)
(* and destroys the connection.                                            *)
WriteAnswered ==
  LET fails == fin.late \/ conn # "open"
      o == Settled(out, fails)
      f == IF fin.phase = "afterFlying" THEN Sent(fin) ELSE fin
  IN  /\ out.flying > 0
      /\ out' = Chained(o)
      /\ fin' = Handed([f EXCEPT !.late = FALSE], o)
      /\ conn' = (IF fin.late /\ conn = "open" THEN "broken" ELSE conn)
      /\ Signal({"output", "flush"})
      /\ UNCHANGED <<state, dial, held, lis, inp, used>>

(* shutdown(send) chains the FIN on #lastWrite, which a write sets when it *)
(* is called, not when it is accepted.                                     *)
ShutdownSend ==
  /\ state = "connected" /\ fin.phase = "none"
  /\ fin' = [fin EXCEPT !.phase = CASE out.flying > 0 -> "afterFlying"
                                  [] out.flying = 0 /\ out.queue # <<>> -> "afterNext"
                                  [] OTHER -> "now"]
  /\ UNCHANGED <<state, dial, conn, held, lis, inp, out, parked, used>>

(* shutdown(receive), or the input stream is dropped. *)
CloseInput ==
  /\ HasStreams /\ ~inp.closed
  /\ Input(InputClosed(inp)) /\ Signal({"input"})
  /\ UNCHANGED <<conn, used>>

CloseOutput ==
  /\ HasStreams /\ ~out.closed
  /\ out' = OutputClosed(out) /\ Signal({"output", "flush"})
  /\ UNCHANGED <<state, dial, conn, held, lis, inp, fin, used>>

(* The handle is dropped. *)
Dispose ==
  LET listens == lis.bind # "none" /\ ~lis.closed
  IN  /\ state' = "closed"
      /\ inp' = IF held THEN InputClosed(inp) ELSE inp
      /\ out' = IF held THEN OutputClosed(out) ELSE out
      /\ conn' = IF held THEN "closed" ELSE conn
      /\ held' = FALSE
      /\ lis' = IF listens THEN [lis EXCEPT !.closed = TRUE, !.queue = 0] ELSE lis
      /\ LET S == IF held THEN {"input", "output", "flush"} ELSE {}
         IN  IF listens THEN ListenerClosed(S) ELSE Signal(S)
      /\ UNCHANGED <<dial, fin, used>>

-----------------------------------------------------------------------------
Guest ==
  \/ StartBind \/ FinishBind \/ StartConnect \/ FinishConnect
  \/ StartListen \/ FinishListen \/ Accept
  \/ \E n \in 1..HighWater : Read(n) \/ Write(n)
  \/ ShutdownSend \/ CloseInput \/ CloseOutput
  \/ state # "closed" /\ Dispose
  \/ \E S \in SUBSET Sources : Park(S)

Network ==
  \/ \E ok \in BOOLEAN : DialSettles(ok) \/ BindSettles(ok)
  \/ Arrives \/ ListenerFails
  \/ \E n \in 1..HighWater : PeerSends(n)
  \/ PeerFins \/ PeerResets \/ ReadFails

SocketNext == Guest \/ Network \/ Turn \/ Wake \/ WriteAnswered

Spec == SocketInit /\ [][SocketNext]_vars

(* Microtasks run; a dial and a bind settle; a write on a connection that  *)
(* has been destroyed is answered.  An open connection may never drain.    *)
Fairness ==
  /\ WF_vars(Turn) /\ WF_vars(Wake)
  /\ WF_vars(\E ok \in BOOLEAN : DialSettles(ok))
  /\ WF_vars(\E ok \in BOOLEAN : BindSettles(ok))
  /\ WF_vars(conn # "open" /\ WriteAnswered)

FairSpec == Spec /\ Fairness

-----------------------------------------------------------------------------
(* Properties *)

(* The types of the socket's fields, its streams' and its listener's.      *)
TypeOK ==
  /\ state \in {"unbound", "bind-in-progress", "bound", "connect-in-progress", "connected",
                "listen-in-progress", "listening", "closed"}
  /\ dial \in {"none", "pending", "made", "failed"}
  /\ conn \in {"none", "open", "broken", "closed"} /\ held \in BOOLEAN
  /\ lis.queue \in 0..MaxAccepts /\ lis.bind \in {"none", "pending", "up", "failed"}
  /\ inp.feed \in {"pulling", "paused", "returned"} /\ inp.buffered \in Nat
  /\ out.flying \in 0..HighWater /\ out.queued \in 0..HighWater
  /\ fin.phase \in {"none", "now", "afterNext", "afterFlying", "sent"}
  /\ parked.on \subseteq Sources /\ parked.woken \in BOOLEAN

(* A parked task is never left behind: while none of its promises has      *)
(* fired, none of its pollables is ready, whatever other tasks, the        *)
(* network and the streams did since (Pollable.block, poll, the promise    *)
(* swaps of io.ts and sockets_platform.ts).                                *)
NoLostWake == parked.on # {} /\ ~parked.woken => \A x \in parked.on : ~Ready(x)

(* Once the socket has been dropped, no task stays parked on it or on its  *)
(* streams, a flush of writes in flight included (dispose, blockingFlush). *)
DropWakes == state = "closed" /\ parked # Nothing ~> parked = Nothing

=============================================================================
