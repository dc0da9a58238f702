------------------------------ MODULE MCProviders ------------------------------
(***************************************************************************)
(* The WASI providers for TLC, one scene at a time: a TCP socket of 0.2    *)
(* and its streams, one of 0.3, a UDP socket, an address lookup, the       *)
(* filesystem on its two backends, and an HTTP exchange.  The variables of *)
(* the other scenes rest in one state.  The fairness is the TCP sockets':  *)
(* their own actions', which rest elsewhere.                               *)
(***************************************************************************)
EXTENDS TcpSocket02, TcpSocket03, UdpSockets, MCFilesystem, HttpExchange

VARIABLE scene

providerVars == <<scene, vars, tcpVars, udpVars, fsVars, httpVars>>

SocketRests == /\ state = "unbound" /\ dial = "none" /\ lis = NoListener /\ conn = "none"
               /\ held = FALSE /\ inp = FreshInput /\ out = FreshOutput
               /\ fin = [phase |-> "none", late |-> FALSE]
               /\ parked = Nothing /\ used = [writes |-> 0, chunks |-> 0, arrivals |-> 0]
FsRests == /\ host = "node" /\ writable = FALSE /\ hasMove = FALSE
           /\ disk = DiskOf(NoNode) /\ fds = [n \in Fds |-> Closed] /\ descs = <<>>
           /\ calls = [c \in Calls |-> Idle]

-----------------------------------------------------------------------------
(* A guest sends a request or hands out a response of its own, not both. *)
OneExchange == ~(holders["request"].made /\ holders["response"].made)

TcpRests == TcpBegins /\ tcp.conn = "none"
UdpRests == UdpBegins /\ udp.track = "0.3" /\ udp.filters
HttpRests == HttpBegins /\ policy = "open"

Init ==
    /\ scene \in {"socket", "tcp", "udp", "lookup", "files", "http"}
    /\ IF scene = "socket" THEN SocketInit ELSE SocketRests
    /\ IF scene = "tcp" THEN TcpBegins ELSE TcpRests
    /\ IF scene \in {"udp", "lookup"} THEN UdpBegins ELSE UdpRests
    /\ IF scene = "files" THEN FsInit ELSE FsRests
    /\ IF scene = "http" THEN HttpBegins ELSE HttpRests

Next ==
    \/ scene = "socket" /\ SocketNext /\ UNCHANGED <<scene, tcpVars, udpVars, fsVars, httpVars>>
    \/ scene = "tcp" /\ TcpNext /\ UNCHANGED <<scene, vars, udpVars, fsVars, httpVars>>
    \/ scene = "udp" /\ UdpNext /\ UNCHANGED <<scene, vars, tcpVars, fsVars, httpVars>>
    \/ scene = "lookup" /\ LookupNext /\ UNCHANGED <<scene, vars, tcpVars, fsVars, httpVars>>
    \/ scene = "files" /\ FsNext /\ UNCHANGED <<scene, vars, tcpVars, udpVars, httpVars>>
    \/ /\ scene = "http" /\ HttpNext /\ OneExchange'
       /\ UNCHANGED <<scene, vars, tcpVars, udpVars, fsVars>>

ProvidersSpec == Init /\ [][Next]_providerVars /\ Fairness /\ TcpFairness

=============================================================================
