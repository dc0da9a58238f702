----------------------------- MODULE UdpSockets -----------------------------
(***************************************************************************)
(* One UDP socket of the WASI socket providers, on the promise-shaped 0.3  *)
(* track (sockets_03.ts, UdpSocket) or the poll-shaped 0.2 track           *)
(* (sockets_02.ts, UdpSocket02 and its pairs of datagram streams), over    *)
(* the node:dgram socket that both use (NodeDatagramConn), and the         *)
(* address lookups of both tracks.                                         *)
(*                                                                         *)
(* A datagram is its source address.  Calls that are refused change        *)
(* nothing and are left out.  Node connects a numeric address at once and  *)
(* calls back a turn later; a second connect is refused while a first one  *)
(* lasts.                                                                  *)
(*                                                                         *)
(* An operator named X_Y is X with the slip Y.                             *)
(***************************************************************************)
EXTENDS Naturals, Sequences, FiniteSets

CONSTANTS
  Peers,         \* remote addresses
  UdpCalls,      \* calls of connect and receive in flight
  MaxQueued,     \* MAX_QUEUED_DATAGRAMS
  MaxDatagrams,  \* bound: datagrams that arrive
  MaxPairs       \* bound: stream pairs made

NoPeer == "no peer"

ASSUME UdpAssumption == /\ UdpCalls # {} /\ NoPeer \notin Peers /\ MaxQueued \in Nat \ {0}
                        /\ MaxDatagrams \in Nat /\ MaxPairs \in Nat

VARIABLES
  udp,    \* the socket: its track, state, remote and cached options
  dgram,  \* NodeDatagramConn, and the kernel's socket under it
  waits,  \* the calls of 0.3 in flight
  pairs,  \* the stream pairs of 0.2, by generation
  heard,  \* history: the sources handed out last, and the remote then
  dns     \* an address lookup

udpVars == <<udp, dgram, waits, pairs, heard, dns>>

AnyPeer == Peers \cup {NoPeer}

NoSocket == [st |-> "none", queue |-> <<>>, waiters |-> <<>>, peer |-> NoPeer]
OffCall == [at |-> "idle", peer |-> NoPeer]
Unasked == [st |-> "none", answers |-> 0, error |-> FALSE]

UdpBegins ==
  /\ udp \in [track : {"0.2", "0.3"}, st : {"unbound"}, remote : {NoPeer},
              options : {"none"}, filters : BOOLEAN, stray : {FALSE}, arrived : {0}]
  /\ dgram = NoSocket /\ waits = [c \in UdpCalls |-> OffCall] /\ pairs = <<>>
  /\ heard = [from |-> {}, remote |-> NoPeer] /\ dns = Unasked

On(track) == udp.track = track
-----------------------------------------------------------------------------
(* NodeDatagramConn *)

Opened == [NoSocket EXCEPT !.st = "open"]

(* failWaiters: every parked receive is rejected. *)
Rejected(w) == [c \in UdpCalls |-> IF w[c].at = "parked" THEN [w[c] EXCEPT !.at = "failed"] ELSE w[c]]

(* 'message': to the first waiter, or to the queue while it has room.  A   *)
(* kernel that filters passes on only what its peer sent.                  *)
Message(p) ==
  IF dgram.waiters # <<>>
    THEN /\ dgram' = [dgram EXCEPT !.waiters = Tail(@)]
         /\ waits' = [waits EXCEPT ![Head(dgram.waiters)] = [at |-> "got", peer |-> p]]
    ELSE /\ dgram' = IF Len(dgram.queue) < MaxQueued
                       THEN [dgram EXCEPT !.queue = Append(@, p)] ELSE dgram
         /\ UNCHANGED waits

DatagramArrives(p) ==
  /\ dgram.st = "open" /\ udp.arrived < MaxDatagrams
  /\ udp.filters => dgram.peer \in {NoPeer, p}
  /\ Message(p)
  /\ udp' = [udp EXCEPT !.arrived = @ + 1]
  /\ UNCHANGED <<pairs, heard, dns>>

DgramFails ==
  /\ dgram.st = "open"
  /\ dgram' = [dgram EXCEPT !.st = "failed", !.waiters = <<>>]
  /\ waits' = Rejected(waits)
  /\ UNCHANGED <<udp, pairs, heard, dns>>

(* close: a parked receive settles as an error. *)
DgramCloses == /\ dgram' = [dgram EXCEPT !.st = "closed", !.waiters = <<>>]
               /\ waits' = Rejected(waits)

(* receive: the failure, the queue, or a place among the waiters. *)
NextDatagram(c) ==
  IF dgram.st # "open" \/ udp.st = "closed"
    THEN waits' = [waits EXCEPT ![c] = [at |-> "failed", peer |-> NoPeer]] /\ UNCHANGED dgram
  ELSE IF dgram.queue # <<>>
    THEN /\ waits' = [waits EXCEPT ![c] = [at |-> "got", peer |-> Head(dgram.queue)]]
         /\ dgram' = [dgram EXCEPT !.queue = Tail(@)]
    ELSE /\ waits' = [waits EXCEPT ![c] = [at |-> "parked", peer |-> NoPeer]]
         /\ dgram' = [dgram EXCEPT !.waiters = Append(@, c)]

-----------------------------------------------------------------------------
(* Both tracks: options are cached before the bind and applied at it, and  *)
(* the system may reject them.  On a bound socket they are applied at      *)
(* once, which changes nothing that is kept here.                          *)
SetOption(o) ==
  /\ udp.st = "unbound" /\ udp.options = "none"
  /\ udp' = [udp EXCEPT !.options = o]
  /\ UNCHANGED <<dgram, waits, pairs, heard, dns>>

Applied == udp.options # "rejected"

UdpDispose ==
  /\ udp.st # "closed"
  /\ IF dgram.st # "none" THEN DgramCloses ELSE UNCHANGED <<dgram, waits>>
  /\ udp' = [udp EXCEPT !.st = "closed", !.remote = IF On("0.2") THEN NoPeer ELSE @]
  /\ UNCHANGED <<pairs, heard, dns>>

-----------------------------------------------------------------------------
(* 0.3 *)

(* bind: rejected options fail the call, and the socket stays bound. *)
Bind ==
  /\ On("0.3") /\ udp.st = "unbound"
  /\ dgram' = Opened /\ udp' = [udp EXCEPT !.st = "bound"]
  /\ UNCHANGED <<waits, pairs, heard, dns>>

(* send binds an unbound socket, before it looks at the address given: to  *)
(* that one it sends or, on a connected socket and only there, to the      *)
(* kernel's default.                                                       *)
SendBinds == udp.remote = NoPeer /\ Bind

(* connect binds an unbound socket, which rejected options end, and parks  *)
(* until node has called back.                                             *)
Links(d) == d.st = "open" /\ d.peer = NoPeer

Connect(c, p, works) ==
  LET bound == IF udp.st = "unbound" THEN Opened ELSE dgram
      linked == Links(bound) /\ works
  IN /\ On("0.3") /\ udp.st \in {"unbound", "bound"}
     /\ udp.remote = NoPeer /\ waits[c].at = "idle"
     /\ udp.st = "unbound" => Applied
     /\ udp' = [udp EXCEPT !.st = "bound"]
     /\ dgram' = IF linked THEN [bound EXCEPT !.peer = p] ELSE bound
     /\ waits' = [waits EXCEPT ![c] = [at |-> IF linked THEN "linked" ELSE "refused",
                                       peer |-> p]]
     /\ UNCHANGED <<pairs, heard, dns>>

ConnectReturns(c) ==
  /\ waits[c].at \in {"linked", "refused"}
  /\ udp' = IF waits[c].at = "linked" THEN [udp EXCEPT !.remote = waits[c].peer] ELSE udp
  /\ waits' = [waits EXCEPT ![c] = OffCall]
  /\ UNCHANGED <<dgram, pairs, heard, dns>>

Disconnect ==
  /\ On("0.3") /\ udp.st = "bound" /\ udp.remote # NoPeer
  /\ dgram' = [dgram EXCEPT !.peer = NoPeer]
  /\ udp' = [udp EXCEPT !.remote = NoPeer]
  /\ UNCHANGED <<waits, pairs, heard, dns>>

Receive(c) ==
  /\ On("0.3") /\ udp.st = "bound" /\ waits[c].at = "idle"
  /\ NextDatagram(c)
  /\ UNCHANGED <<udp, pairs, heard, dns>>

(* The filter looks at the remote after the wait, and takes the next       *)
(* datagram if this one came from elsewhere.                               *)
ReceiveReturns_Unfiltered(c) ==
  /\ waits[c].at = "got"
  /\ heard' = [from |-> {waits[c].peer}, remote |-> udp.remote]
  /\ waits' = [waits EXCEPT ![c] = OffCall]
  /\ UNCHANGED <<udp, dgram, pairs, dns>>

ReceiveReturns(c) ==
  /\ waits[c].at = "got"
  /\ IF udp.remote \in {NoPeer, waits[c].peer}
       THEN /\ heard' = [from |-> {waits[c].peer}, remote |-> udp.remote]
            /\ waits' = [waits EXCEPT ![c] = OffCall] /\ UNCHANGED dgram
       ELSE NextDatagram(c) /\ UNCHANGED heard
  /\ UNCHANGED <<udp, pairs, dns>>

CallFails(c) ==
  /\ waits[c].at = "failed"
  /\ waits' = [waits EXCEPT ![c] = OffCall]
  /\ UNCHANGED <<udp, dgram, pairs, heard, dns>>

-----------------------------------------------------------------------------
(* 0.2 *)

(* start-bind binds.  Rejected options fail it with the socket made and    *)
(* the state as it was: the next start-bind replaces that socket, which    *)
(* nobody closes (stray).                                                  *)
UdpStartBind ==
  /\ On("0.2") /\ udp.st = "unbound"
  /\ dgram' = Opened
  /\ udp' = [udp EXCEPT !.st = IF Applied THEN "bind-in-progress" ELSE @,
                        !.stray = @ \/ dgram.st # "none"]
  /\ UNCHANGED <<waits, pairs, heard, dns>>

UdpFinishBind ==
  /\ On("0.2") /\ udp.st = "bind-in-progress"
  /\ udp' = [udp EXCEPT !.st = "bound"]
  /\ UNCHANGED <<dgram, waits, pairs, heard, dns>>

(* stream: a new pair, which makes the one before stale, and a connect or  *)
(* disconnect of the system's socket whose outcome nobody awaits.          *)
Stream(p, works) ==
  /\ On("0.2") /\ udp.st = "bound" /\ Len(pairs) < MaxPairs
  /\ pairs' = Append(pairs, [remote |-> p, flying |-> 0, failed |-> FALSE])
  /\ udp' = [udp EXCEPT !.remote = p]
  /\ dgram' = IF p # NoPeer THEN (IF Links(dgram) /\ works THEN [dgram EXCEPT !.peer = p] ELSE dgram)
              ELSE IF udp.remote # NoPeer THEN [dgram EXCEPT !.peer = NoPeer] ELSE dgram
  /\ UNCHANGED <<waits, heard, dns>>

LivePair(g) == g \in DOMAIN pairs /\ g = Len(pairs) /\ udp.st = "bound"

(* receive: what is queued, past what came from elsewhere, up to max. *)
From(p) == {i \in DOMAIN dgram.queue : p \in {NoPeer, dgram.queue[i]}}

Looked(p, max) ==
  CHOOSE k \in 0..Len(dgram.queue) :
    /\ Cardinality(From(p) \cap 1..k) <= max
    /\ k = Len(dgram.queue) \/ (Cardinality(From(p) \cap 1..k) = max
                                /\ \A j \in 0..(k - 1) : Cardinality(From(p) \cap 1..j) < max)

ReceiveBatch(g, max) ==
  /\ On("0.2") /\ LivePair(g) /\ dgram.st = "open"
  /\ LET k == Looked(pairs[g].remote, max) IN
       /\ dgram' = [dgram EXCEPT !.queue = SubSeq(@, k + 1, Len(@))]
       /\ heard' = [from |-> {dgram.queue[i] : i \in From(pairs[g].remote) \cap 1..k},
                    remote |-> udp.remote]
  /\ UNCHANGED <<udp, waits, pairs, dns>>

(* checkLive: an earlier failure is told once, by the next call. *)
TellsFailure(g) ==
  /\ On("0.2") /\ LivePair(g) /\ pairs[g].failed
  /\ pairs' = [pairs EXCEPT ![g].failed = FALSE]
  /\ UNCHANGED <<udp, dgram, waits, heard, dns>>

SendBatch(g) ==
  /\ On("0.2") /\ LivePair(g) /\ ~pairs[g].failed /\ pairs[g].flying = 0
  /\ pairs' = [pairs EXCEPT ![g].flying = 1]
  /\ UNCHANGED <<udp, dgram, waits, heard, dns>>

(* A closed socket refuses; a connected one whose connect failed has no    *)
(* default destination.                                                    *)
SendSettles(g, fails) ==
  /\ g \in DOMAIN pairs /\ pairs[g].flying > 0
  /\ (dgram.st = "open" /\ (pairs[g].remote = NoPeer <=> dgram.peer = NoPeer)) \/ fails
  /\ pairs' = [pairs EXCEPT ![g].flying = 0, ![g].failed = @ \/ fails]
  /\ UNCHANGED <<udp, dgram, waits, heard, dns>>

-----------------------------------------------------------------------------
(* resolve-addresses: a literal is answered at once, a name by the         *)
(* system's resolver.  The 0.3 call answers with the list, the 0.2 stream  *)
(* is polled for one address at a time.                                    *)
Resolve(literal) ==
  /\ dns.st = "none"
  /\ dns' = IF literal THEN [st |-> "settled", answers |-> 1, error |-> FALSE]
            ELSE [Unasked EXCEPT !.st = "asked"]
  /\ UNCHANGED <<udp, dgram, waits, pairs, heard>>

ResolverAnswers(n) ==
  /\ dns.st = "asked"
  /\ dns' = [st |-> "settled", answers |-> n, error |-> n = 0]
  /\ UNCHANGED <<udp, dgram, waits, pairs, heard>>

ResolveNext ==
  /\ dns.st = "settled" /\ ~dns.error
  /\ dns' = IF On("0.3") \/ dns.answers = 0 THEN [dns EXCEPT !.st = "over"]
            ELSE [dns EXCEPT !.answers = @ - 1]
  /\ UNCHANGED <<udp, dgram, waits, pairs, heard>>

-----------------------------------------------------------------------------
UdpNext ==
  \/ \E p \in Peers : DatagramArrives(p)
  \/ DgramFails
  \/ \E o \in {"fit", "rejected"} : SetOption(o)
  \/ UdpDispose
  \/ Bind
  \/ SendBinds
  \/ \E c \in UdpCalls, p \in Peers, works \in BOOLEAN : Connect(c, p, works)
  \/ \E c \in UdpCalls : ConnectReturns(c) \/ Receive(c) \/ ReceiveReturns(c) \/ CallFails(c)
  \/ Disconnect
  \/ UdpStartBind
  \/ UdpFinishBind
  \/ \E p \in AnyPeer, works \in BOOLEAN : Stream(p, works)
  \/ \E g \in 1..MaxPairs : \E max \in 1..2 : ReceiveBatch(g, max)
  \/ \E g \in 1..MaxPairs : TellsFailure(g) \/ SendBatch(g)
  \/ \E g \in 1..MaxPairs, fails \in BOOLEAN : SendSettles(g, fails)

LookupNext ==
  \/ \E literal \in BOOLEAN : Resolve(literal)
  \/ \E n \in 0..2 : ResolverAnswers(n)
  \/ ResolveNext

UdpSpec == UdpBegins /\ [][UdpNext \/ LookupNext]_udpVars

-----------------------------------------------------------------------------
(* Properties *)

(* A guest of a connected socket hears only from the remote it connected   *)
(* to, whatever was queued or on its way before the connect and whichever  *)
(* stream pair asks (receive's filter, IncomingDatagramStream02.receive);  *)
(* and what the 0.3 socket calls its remote is what the system's socket is *)
(* connected to, however connect, disconnect and their callbacks meet.     *)
HearsItsRemote ==
  /\ heard.remote # NoPeer => heard.from \subseteq {heard.remote}
  /\ On("0.3") /\ udp.remote # NoPeer /\ dgram.st = "open" => dgram.peer = udp.remote

(* No receive waits in vain: one that is parked has nothing queued before  *)
(* it and an open socket under it, and it is among those that the next     *)
(* datagram, failure or close will settle.                                 *)
NoVainReceive ==
  /\ dgram.waiters # <<>> => dgram.queue = <<>> /\ dgram.st = "open"
  /\ {c \in UdpCalls : waits[c].at = "parked"}
       = {dgram.waiters[i] : i \in DOMAIN dgram.waiters}
  /\ udp.st = "closed" => dgram.st # "open"

(* Every datagram that a guest may hear reaches the receive that waits for *)
(* it, and no other does.                                                  *)
DatagramsHeard == HearsItsRemote /\ NoVainReceive
=============================================================================
