---------------------------- MODULE TcpSocket03 ----------------------------
(***************************************************************************)
(* One TCP socket of the promise-shaped wasi:sockets 0.3 track             *)
(* (sockets_03.ts, TcpSocket): its state, the connection and the listeners *)
(* it owns, the send pump, the receive stream and the accept streams.      *)
(*                                                                         *)
(* The handle, each pump and each accept stream own the system's socket    *)
(* together; it closes when the last of them lets go (#refs).              *)
(*                                                                         *)
(* The streams that the provider returns are async generators.  The        *)
(* runtime pulls one as soon as it is lowered; when the reader is gone it  *)
(* calls the cancel hook if there is one, waits for the pull and then      *)
(* returns the generator (embedder/streams.ts, batches).                   *)
(*                                                                         *)
(* Calls that are refused change nothing and are left out, and so are the  *)
(* options, which no other operation looks at.                             *)
(*                                                                         *)
(* An operator named X_Y is X with the slip Y.                             *)
(***************************************************************************)
EXTENDS Naturals, Sequences, FiniteSets

CONSTANTS
  MaxListens,  \* bound: listen calls
  MaxOffered,  \* bound: connections that come in
  MaxBacklog,  \* MAX_QUEUED_CONNECTIONS
  MaxParts     \* bound: chunks in each direction

ASSUME TcpSocket03Assumption ==
  MaxListens \in Nat /\ MaxOffered \in Nat /\ MaxBacklog \in Nat \ {0} /\ MaxParts \in Nat

VARIABLES
  tcp,      \* the TcpSocket with its connection and listeners
  sender,   \* the send pump, its input and its future
  receiver  \* the receive generator, its reader and its future

tcpVars == <<tcp, sender, receiver>>

(* The fields of tcp:                                                      *)
(*   st, held   the state, and whether the guest has the handle            *)
(*   refs       #refs                                                      *)
(*   conn       the connection: none, dialing, open or closed              *)
(*   broken, fin, ready    the network: an error, the peer's FIN, chunks   *)
(*   servers    the listeners, each with the connections queued, its       *)
(*              accept stream and that stream's reader                     *)
(*   current    the listener the socket knows                              *)
(*   offered, carried      bounded: connections and chunks that came       *)
TcpBegins ==
  /\ \E accepted \in BOOLEAN :
       tcp = [st |-> IF accepted THEN "connected" ELSE "unbound", held |-> TRUE, refs |-> 1,
              conn |-> IF accepted THEN "open" ELSE "none", broken |-> FALSE, fin |-> FALSE,
              ready |-> 0, servers |-> <<>>, current |-> 0, offered |-> 0, carried |-> 0]
  /\ sender = [at |-> "none", input |-> "open", chunk |-> 0, chunks |-> 0, told |-> "none"]
  /\ receiver = [at |-> "none", reader |-> TRUE, told |-> "none"]

-----------------------------------------------------------------------------
(* The platform's listener: close rejects the accept that waits and        *)
(* refuses what is queued.                                                 *)
Down(s, how) == [s EXCEPT !.st = how, !.queue = 0,
                          !.stream = IF @ = "accepting" THEN "rejected" ELSE @]

CloseServer(t, i) == [t EXCEPT !.servers[i] = IF @.st = "closed" THEN @ ELSE Down(@, "closed")]

(* #release: the last owner closes what the socket has. *)

Release(t) ==
  IF t.refs > 1 THEN [t EXCEPT !.refs = @ - 1]
  ELSE LET u == IF t.current = 0 THEN t ELSE CloseServer(t, t.current)
       IN [u EXCEPT !.refs = 0, !.current = 0, !.conn = IF @ = "open" THEN "closed" ELSE @]

(* dispose: a dial in flight will find the state changed. *)
TcpDispose ==
  /\ tcp.held
  /\ tcp' = Release([tcp EXCEPT !.held = FALSE,
                       !.st = IF @ \in {"unbound", "bound", "connecting"} THEN "closed" ELSE @])
  /\ UNCHANGED <<sender, receiver>>

OnlyTcp(t) == tcp' = t /\ UNCHANGED <<sender, receiver>>

TcpBind == tcp.held /\ tcp.st = "unbound" /\ OnlyTcp([tcp EXCEPT !.st = "bound"])

-----------------------------------------------------------------------------
(* connect, and the settlement of the dial.  A connection that is no       *)
(* longer expected is closed.                                              *)
TcpConnect ==
  /\ tcp.held /\ tcp.st \in {"unbound", "bound"}
  /\ OnlyTcp([tcp EXCEPT !.st = "connecting", !.conn = "dialing"])

DialFails == tcp.conn = "dialing" /\ OnlyTcp([tcp EXCEPT !.st = "closed", !.conn = "none"])

DialSucceeds_Unchecked ==
  tcp.conn = "dialing" /\ OnlyTcp([tcp EXCEPT !.st = "connected", !.conn = "open"])

DialSucceeds ==
  /\ tcp.conn = "dialing"
  /\ OnlyTcp(IF tcp.st = "connecting" THEN [tcp EXCEPT !.st = "connected", !.conn = "open"]
             ELSE [tcp EXCEPT !.conn = "closed"])

-----------------------------------------------------------------------------
(* listen opens a listener and waits a turn for it to settle.  The state   *)
(* is checked before the wait, not after it.                               *)
Listen ==
  /\ tcp.held /\ tcp.st \in {"unbound", "bound"} /\ Len(tcp.servers) < MaxListens
  /\ OnlyTcp([tcp EXCEPT !.servers =
                Append(@, [st |-> "settling", queue |-> 0, stream |-> "none", reader |-> TRUE])])

ListenFails(i) ==
  /\ tcp.servers[i].st = "settling"
  /\ OnlyTcp([CloseServer(tcp, i) EXCEPT !.st = "closed"])

ListenSettles(i) ==
  /\ tcp.servers[i].st = "settling"
  /\ OnlyTcp([tcp EXCEPT !.servers[i].st = "live", !.servers[i].stream = "pulled",
                         !.st = "listening", !.current = i, !.refs = @ + 1])

(* A connection goes to the accept that waits, or to the queue while it    *)
(* has room; others are refused.                                           *)
Offer(s) ==
  IF s.stream = "accepting" THEN [s EXCEPT !.stream = "yielded"]
  ELSE IF s.queue < MaxBacklog THEN [s EXCEPT !.queue = @ + 1] ELSE s

ConnectionComes(i) ==
  /\ tcp.servers[i].st = "live" /\ tcp.offered < MaxOffered
  /\ OnlyTcp([tcp EXCEPT !.offered = @ + 1, !.servers[i] = Offer(@)])

(* 'error'.  A failure of one connection rejects the accept that waits and *)
(* is skipped; any other is the listener's end.                            *)
ServerFails(i) == tcp.servers[i].st = "live" /\ OnlyTcp([tcp EXCEPT !.servers[i] = Down(@, "failed")])

(* accept, and what the generator does with its outcome. *)
Accepting(s) ==
  IF s.st # "live" THEN [s EXCEPT !.stream = "rejected"]
  ELSE IF s.queue > 0 THEN [s EXCEPT !.stream = "yielded", !.queue = @ - 1]
  ELSE [s EXCEPT !.stream = "accepting"]

AcceptNext(i) == tcp.servers[i].stream = "pulled" /\ OnlyTcp([tcp EXCEPT !.servers[i] = Accepting(@)])

AcceptSkips(i) ==
  /\ tcp.servers[i].stream = "accepting" /\ tcp.offered < MaxOffered
  /\ OnlyTcp([tcp EXCEPT !.offered = @ + 1, !.servers[i].stream = "pulled"])

(* The generator is over: its finally lets go of the socket. *)
AcceptOver(t, i) == Release([t EXCEPT !.servers[i].stream = "over"])

AcceptEnds(i) == tcp.servers[i].stream = "rejected" /\ OnlyTcp(AcceptOver(tcp, i))

(* The reader takes the connection and the runtime pulls again. *)
AcceptTaken(i) ==
  /\ tcp.servers[i].stream = "yielded" /\ tcp.servers[i].reader
  /\ OnlyTcp([tcp EXCEPT !.servers[i].stream = "pulled"])

(* The reader leaves.  Under a pending pull the cancel hook closes the     *)
(* listener; a connection that it did not take is destroyed, and the       *)
(* generator returns.                                                      *)
Left(t, i) == [t EXCEPT !.servers[i].reader = FALSE]

AcceptLeft_NoHook(i) ==
  /\ tcp.servers[i].reader /\ tcp.servers[i].stream \notin {"none", "over"}
  /\ OnlyTcp(IF tcp.servers[i].stream = "yielded" THEN AcceptOver(Left(tcp, i), i)
             ELSE Left(tcp, i))

AcceptLeft(i) ==
  /\ tcp.servers[i].reader /\ tcp.servers[i].stream \notin {"none", "over"}
  /\ OnlyTcp(IF tcp.servers[i].stream = "yielded" THEN AcceptOver(Left(tcp, i), i)
             ELSE CloseServer(Left(tcp, i), i))

(* A connection that had been handed to the pull when the reader left. *)
StragglerDestroyed(i) ==
  /\ tcp.servers[i].stream = "yielded" /\ ~tcp.servers[i].reader
  /\ OnlyTcp(AcceptOver(tcp, i))

-----------------------------------------------------------------------------
(* send: once, on a connection.  The pump writes chunk by chunk and ends   *)
(* with the FIN.                                                           *)
Connected == tcp.held /\ tcp.st = "connected" /\ tcp.conn = "open"

SendStarts ==
  /\ Connected /\ sender.at = "none"
  /\ sender' = [sender EXCEPT !.at = "reading"]
  /\ tcp' = [tcp EXCEPT !.refs = @ + 1]
  /\ UNCHANGED receiver

SendOver(told) ==
  /\ sender' = [sender EXCEPT !.at = "over", !.told = told,
                              !.input = IF told = "err" THEN "dropped" ELSE @]
  /\ tcp' = Release(tcp)
  /\ UNCHANGED receiver

GuestWrites(n) ==
  /\ sender.at = "reading" /\ sender.chunks < MaxParts
  /\ sender' = [sender EXCEPT !.at = "writing", !.chunk = n, !.chunks = @ + 1]
  /\ UNCHANGED <<tcp, receiver>>

(* The network may take a part only; the pump writes the rest. *)
WriteSettles(n) ==
  /\ sender.at = "writing" /\ n <= sender.chunk
  /\ sender' = [sender EXCEPT !.chunk = @ - n, !.at = IF n = sender.chunk THEN "reading" ELSE @]
  /\ UNCHANGED <<tcp, receiver>>

SendFails == sender.at = "writing" /\ tcp.broken /\ SendOver("err")

GuestEnds ==
  /\ sender.at = "reading"
  /\ sender' = [sender EXCEPT !.at = "closing", !.input = "ended"]
  /\ UNCHANGED <<tcp, receiver>>

(* closeWrite resolves whatever becomes of the FIN. *)
FinSettles == sender.at = "closing" /\ SendOver("ok")

(* The guest's end of the input traps: the pump's promise is rejected. *)
InputFails == sender.at = "reading" /\ SendOver("rejected")

-----------------------------------------------------------------------------
(* receive: once, on a connection. *)
TcpReceive ==
  /\ Connected /\ receiver.at = "none"
  /\ receiver' = [receiver EXCEPT !.at = "reading"]
  /\ tcp' = [tcp EXCEPT !.refs = @ + 1]
  /\ UNCHANGED sender

ReceiveOver(told) ==
  /\ receiver' = [receiver EXCEPT !.at = "over", !.told = told]
  /\ tcp' = Release(tcp)
  /\ UNCHANGED sender

(* conn.read settles: an error first, then data, then the peer's FIN.  A   *)
(* chunk read for a reader that has left ends the generator.               *)
ReceiveFails == receiver.at = "reading" /\ tcp.broken /\ ReceiveOver("err")

ReceiveChunk ==
  /\ receiver.at = "reading" /\ ~tcp.broken /\ tcp.ready > 0
  /\ IF receiver.reader
       THEN /\ receiver' = [receiver EXCEPT !.at = "yielded"]
            /\ tcp' = [tcp EXCEPT !.ready = @ - 1] /\ UNCHANGED sender
       ELSE ReceiveOver("ok")

ReceiveEnds == /\ receiver.at = "reading" /\ ~tcp.broken /\ tcp.ready = 0 /\ tcp.fin
            /\ ReceiveOver("ok")

ReceiveTaken ==
  /\ receiver.at = "yielded"
  /\ receiver' = [receiver EXCEPT !.at = "reading"]
  /\ UNCHANGED <<tcp, sender>>

(* The reader leaves.  There is no cancel hook: a pending read goes on.    *)
ReceiveLeft ==
  /\ receiver.reader /\ receiver.at \in {"reading", "yielded"}
  /\ IF receiver.at = "yielded"
       THEN /\ receiver' = [at |-> "over", reader |-> FALSE, told |-> "ok"]
            /\ tcp' = Release(tcp)
       ELSE receiver' = [receiver EXCEPT !.reader = FALSE] /\ UNCHANGED tcp
  /\ UNCHANGED sender

(* The network. *)
Peer ==
  /\ tcp.conn = "open" /\ ~tcp.broken
  /\ \/ ~tcp.fin /\ tcp.carried < MaxParts
        /\ OnlyTcp([tcp EXCEPT !.ready = @ + 1, !.carried = @ + 1])
     \/ ~tcp.fin /\ OnlyTcp([tcp EXCEPT !.fin = TRUE])
     \/ OnlyTcp([tcp EXCEPT !.broken = TRUE])

-----------------------------------------------------------------------------
Listening == DOMAIN tcp.servers

GeneratorSteps(i) == AcceptNext(i) \/ AcceptEnds(i) \/ StragglerDestroyed(i)

ReceiverSteps == ReceiveFails \/ ReceiveChunk \/ ReceiveEnds

TcpNext ==
  \/ TcpDispose \/ TcpBind \/ TcpConnect \/ DialFails \/ DialSucceeds \/ Listen
  \/ \E i \in Listening : ListenFails(i) \/ ListenSettles(i) \/ ConnectionComes(i)
  \/ \E i \in Listening : ServerFails(i) \/ AcceptSkips(i) \/ AcceptTaken(i) \/ AcceptLeft(i)
  \/ \E i \in Listening : GeneratorSteps(i)
  \/ SendStarts
  \/ \E n \in 1..2 : GuestWrites(n) \/ WriteSettles(n)
  \/ SendFails \/ GuestEnds \/ FinSettles \/ InputFails
  \/ TcpReceive \/ ReceiverSteps \/ ReceiveTaken \/ ReceiveLeft
  \/ Peer

(* Promise continuations run. *)
TcpFairness ==
  /\ \A i \in 1..MaxListens : WF_tcpVars(i \in Listening /\ GeneratorSteps(i))
  /\ WF_tcpVars(ReceiverSteps)

TcpSpec == TcpBegins /\ [][TcpNext]_tcpVars /\ TcpFairness

-----------------------------------------------------------------------------
(* Properties *)

Retired == {"none", "over"}

(* The system's socket is closed exactly when the last owner is gone (the  *)
(* WIT rule quoted at #refs): the handle, the pumps and the accept streams *)
(* are counted, whatever order dispose, the dial, listen and the streams'  *)
(* ends come in; a dial or a listen that outlives the handle leaves        *)
(* nothing open.  A listener that a second, overlapping listen replaced is *)
(* left out.                                                               *)
SharedOwnership ==
  /\ tcp.refs = Cardinality({i \in Listening : tcp.servers[i].stream \notin Retired})
                + (IF tcp.held THEN 1 ELSE 0) + (IF sender.at \in Retired THEN 0 ELSE 1)
                + (IF receiver.at \in Retired THEN 0 ELSE 1)
  /\ tcp.refs = 0 => /\ tcp.conn # "open"
                     /\ Len(tcp.servers) = 1 => tcp.servers[1].st # "live"
  /\ tcp.st = "connected" /\ tcp.refs > 0 => tcp.conn = "open"

(* The futures of send and receive tell what happened, once the pumps are  *)
(* over and not before: ok of a whole input written out to its last byte,  *)
(* ok of a stream that the peer or the reader ended, err of an error.      *)
FuturesTold ==
  /\ sender.at = "over" <=> sender.told # "none"
  /\ sender.told = "ok" => sender.chunk = 0 /\ sender.input = "ended"
  /\ receiver.at = "over" <=> receiver.told # "none"
  /\ receiver.told = "ok" => tcp.fin \/ ~receiver.reader
  /\ "err" \in {receiver.told, sender.told} => tcp.broken

(* The two accounts of a socket: of its owners, and of its futures (#refs, *)
(* settle).                                                                *)
SocketAccounts == SharedOwnership /\ FuturesTold

(* A guest that drops its accept stream gets rid of the generator, and of  *)
(* its share of the socket, even if no connection ever comes: the cancel   *)
(* hook closes the listener under the accept (listen).                     *)
AcceptRetires ==
  \A i \in 1..MaxListens :
    (i \in Listening /\ ~tcp.servers[i].reader) ~> (i \in Listening /\ tcp.servers[i].stream = "over")

(* sockets_03.ts, receive: dropping the stream's reader stops the pump and *)
(* settles the future ok.                                                  *)
ReceiveStops ==
  receiver.at # "none" /\ ~receiver.reader ~> receiver.told # "none"
=============================================================================
