--------------------------- MODULE Providers_proofs ---------------------------
(***************************************************************************)
(* The sockets of both tracks, for any limits, any number of writes,       *)
(* chunks, connections and datagrams, and any peers and calls: no task of  *)
(* a 0.2 socket is left parked on what is ready, a 0.3 socket is closed    *)
(* exactly when its last owner lets go, and a datagram reaches the receive *)
(* that waits for it.  And an http exchange, for any fields, timeouts and  *)
(* length of the body: no body is left open and every answer is true.      *)
(***************************************************************************)
EXTENDS TcpSocket02, TcpSocket03, UdpSockets, HttpExchange, SequenceTheorems,
        FiniteSetTheorems, WellFoundedInduction, TLAPS

(* -- a TCP socket of 0.2 and its byte streams ------------------------------ *)

Feeds == {"pulling", "paused", "returned"}
InputType == [feed : Feeds, buffered : Nat, eof : BOOLEAN, failed : BOOLEAN, closed : BOOLEAN]
OutputType == [queue : Seq(Nat \ {0}), flying : Nat, queued : Nat,
               failed : BOOLEAN, closed : BOOLEAN]

\* s gives the sums of the weights w, up to each of L places.
Sums(L, w, s) ==
  /\ s \in [0..L -> Nat] /\ s[0] = 0
  /\ \A i \in 1..L : w[i] \in Nat /\ s[i] = s[i - 1] + w[i]
  /\ \A i, j \in 0..L : i <= j => s[i] <= s[j]

\* One more weight at the end.
LEMMA SumsExtend ==
  ASSUME NEW L \in Nat, NEW w, NEW s, Sums(L, w, s), NEW n \in Nat, NEW v,
         \A i \in 1..L : v[i] = w[i], v[L + 1] = n
  PROVE  \E t : Sums(L + 1, v, t) /\ t[L + 1] = s[L] + n
<1> DEFINE t == [i \in 0..(L + 1) |-> IF i = L + 1 THEN s[L] + n ELSE s[i]]
<1>0. /\ s \in [0..L -> Nat] /\ s[0] = 0
      /\ \A i \in 1..L : w[i] \in Nat /\ s[i] = s[i - 1] + w[i]
      /\ \A i, j \in 0..L : i <= j => s[i] <= s[j]
  BY DEF Sums
<1>1. \A i \in 0..L : t[i] = s[i] /\ s[i] \in Nat /\ s[i] <= s[L]
  BY <1>0
<1>2. t[L + 1] = s[L] + n /\ t[L + 1] \in Nat
  BY <1>0
<1>3. t = [i \in 0..(L + 1) |-> t[i]]
  OBVIOUS
<1> HIDE DEF t
<1>4. \A i \in 0..(L + 1) : i = L + 1 \/ i \in 0..L
  OBVIOUS
<1>5. \A i \in 0..(L + 1) : t[i] \in Nat
  BY <1>1, <1>2, <1>4
<1>6. t \in [0..(L + 1) -> Nat] /\ t[0] = 0
  <2>1. 0 \in 0..L
    OBVIOUS
  <2>2. t[0] = 0
    BY <1>0, <1>1, <2>1
  <2>3. QED
    BY <1>3, <1>5, <2>2
<1>7. ASSUME NEW i \in 1..(L + 1) PROVE v[i] \in Nat /\ t[i] = t[i - 1] + v[i]
  <2>1. CASE i = L + 1
    <3>1. i - 1 = L /\ L \in 0..L
      BY <2>1
    <3>2. QED
      BY <1>1, <1>2, <2>1, <3>1
  <2>2. CASE i \in 1..L
    <3>1. i \in 0..L /\ i - 1 \in 0..L
      BY <2>2
    <3>2. QED
      BY <1>0, <1>1, <2>2, <3>1
  <2>3. QED
    BY <2>1, <2>2
<1>8. ASSUME NEW i \in 0..(L + 1), NEW j \in 0..(L + 1), i <= j PROVE t[i] <= t[j]
  <2>1. CASE i = L + 1
    BY <1>2, <1>8, <2>1
  <2>2. CASE i \in 0..L /\ j = L + 1
    BY <1>0, <1>1, <1>2, <2>2
  <2>3. CASE i \in 0..L /\ j \in 0..L
    BY <1>0, <1>1, <1>8, <2>3
  <2>4. QED
    BY <1>4, <2>1, <2>2, <2>3
<1>9. Sums(L + 1, v, t)
  BY <1>6, <1>7, <1>8 DEF Sums
<1>10. QED
  BY <1>2, <1>9

\* The first weight taken away.
Shifted(L, v, w) == \A i \in 1..L : v[i] = w[i + 1]

LEMMA SumsTail ==
  ASSUME NEW L \in Nat, NEW M, M = L + 1, NEW w, NEW s, Sums(M, w, s), NEW v,
         Shifted(L, v, w)
  PROVE  \E t : Sums(L, v, t) /\ s[M] = w[1] + t[L]
<1>0. /\ s \in [0..(L + 1) -> Nat] /\ s[0] = 0
      /\ \A i \in 1..(L + 1) : w[i] \in Nat /\ s[i] = s[i - 1] + w[i]
      /\ \A i, j \in 0..(L + 1) : i <= j => s[i] <= s[j]
  BY DEF Sums
<1> DEFINE t == [i \in 0..L |-> s[i + 1] - s[1]]
<1>1. s[1] \in Nat /\ s[1] = 0 + w[1] /\ 1 \in 1..(L + 1) /\ w[1] \in Nat
  BY <1>0
<1>2. \A i \in 0..L : s[i + 1] \in Nat /\ s[1] <= s[i + 1]
  BY <1>0, <1>1
<1>3. t = [i \in 0..L |-> t[i]] /\ \A i \in 0..L : t[i] = s[i + 1] - s[1]
  OBVIOUS
<1> HIDE DEF t
<1>4. \A i \in 0..L : t[i] \in Nat
  BY <1>1, <1>2, <1>3
<1>5. t \in [0..L -> Nat] /\ t[0] = 0
  BY <1>1, <1>3, <1>4
<1>6. ASSUME NEW i \in 1..L PROVE v[i] \in Nat /\ t[i] = t[i - 1] + v[i]
  <2>1. i \in 0..L /\ i - 1 \in 0..L /\ i + 1 \in 1..(L + 1) /\ (i + 1) - 1 = i /\ (i - 1) + 1 = i
    OBVIOUS
  <2>2. s[i + 1] = s[i] + v[i] /\ t[i] = s[i + 1] - s[1] /\ t[i - 1] = s[i] - s[1]
    BY <1>0, <1>3, <2>1 DEF Shifted
  <2>3. s[i] \in Nat /\ s[i + 1] \in Nat /\ v[i] \in Nat
    <3>1. i \in 0..(L + 1) /\ i + 1 \in 0..(L + 1) /\ v[i] = w[i + 1]
      BY DEF Shifted
    <3>2. QED
      BY <1>0, <2>1, <3>1
  <2>4. QED
    BY <1>1, <2>2, <2>3
<1>7. ASSUME NEW i \in 0..L, NEW j \in 0..L, i <= j PROVE t[i] <= t[j]
  <2>1. i + 1 \in 0..(L + 1) /\ j + 1 \in 0..(L + 1) /\ i + 1 <= j + 1
    BY <1>7
  <2>2. s[i + 1] <= s[j + 1]
    BY <1>0, <2>1
  <2>3. QED
    BY <1>1, <1>2, <1>3, <2>2
<1>8. Sums(L, v, t)
  BY <1>5, <1>6, <1>7 DEF Sums
<1>9. s[L + 1] = w[1] + t[L]
  <2>1. L \in 0..L
    OBVIOUS
  <2>2. QED
    BY <1>1, <1>2, <1>3, <2>1
<1>10. QED
  BY <1>8, <1>9
\* The permit's account: what is queued is what the sink has not answered, the
\* write in flight and the chain of those whose call is still to come.
Account(o) ==
  \E s : Sums(Len(o.queue), o.queue, s) /\ o.queued = o.flying + s[Len(o.queue)]

OutputSound(o) == o \in OutputType /\ Account(o)

LEMMA FreshSound == OutputSound(FreshOutput)
<1>1. FreshOutput \in OutputType /\ FreshOutput.queue = <<>> /\ Len(FreshOutput.queue) = 0
  BY DEF FreshOutput, OutputType
<1>2. Sums(0, <<>>, [i \in 0..0 |-> 0])
  BY DEF Sums
<1>3. FreshOutput.queued = FreshOutput.flying + [i \in 0..0 |-> 0][0]
  BY DEF FreshOutput
<1>4. QED
  BY <1>1, <1>2, <1>3 DEF Account, OutputSound

\* A write adds a link to the end of the chain.
LEMMA AcceptedSound ==
  ASSUME NEW o, OutputSound(o), NEW n \in Nat \ {0}
  PROVE  /\ OutputSound(Accepted(o, n))
         /\ Accepted(o, n) = [o EXCEPT !.queue = Append(o.queue, n), !.queued = o.queued + n]
<1> DEFINE q == Append(o.queue, n)
           L == Len(o.queue)
           p == Accepted(o, n)
<1>1. /\ o.queue \in Seq(Nat \ {0}) /\ o.queued \in Nat /\ o.flying \in Nat /\ L \in Nat
  BY LenProperties DEF OutputSound, OutputType
<1>2. /\ q \in Seq(Nat \ {0}) /\ Len(q) = L + 1 /\ q[L + 1] = n
      /\ \A i \in 1..L : q[i] = o.queue[i]
  BY <1>1, AppendProperties
<1>3. p = [o EXCEPT !.queue = q, !.queued = o.queued + n]
  BY DEF Accepted, OutputSound, OutputType
<1>4. /\ p \in OutputType /\ p.queue = q /\ p.queued = o.queued + n /\ p.flying = o.flying
  <2>1. q \in Seq(Nat \ {0}) /\ o.queued + n \in Nat /\ o \in OutputType
    BY <1>1, <1>2 DEF OutputSound
  <2> HIDE DEF q, p
  <2>2. QED
    BY <1>3, <2>1 DEF OutputType
<1>5. PICK s : Sums(L, o.queue, s) /\ o.queued = o.flying + s[L]
  BY DEF OutputSound, Account
<1> HIDE DEF q, p, L
<1>6. PICK t : Sums(L + 1, q, t) /\ t[L + 1] = s[L] + n
  BY <1>1, <1>2, <1>5, SumsExtend
<1>7. s[L] \in Nat
  BY <1>1, <1>5 DEF Sums
<1>8. p.queued = p.flying + t[L + 1]
  BY <1>1, <1>4, <1>5, <1>6, <1>7
<1>9. OutputSound(p)
  BY <1>2, <1>4, <1>6, <1>8 DEF OutputSound, Account
<1>10. QED
  BY <1>3, <1>9 DEF p, q

\* The sink is called with the first link of an idle chain.
LEMMA CalledSound ==
  ASSUME NEW o, OutputSound(o), o.flying = 0, o.queue # <<>>
  PROVE  /\ OutputSound(Called(o))
         /\ Called(o) = [o EXCEPT !.queue = Tail(o.queue), !.flying = Head(o.queue)]
<1> DEFINE q == Tail(o.queue)
           h == Head(o.queue)
           L == Len(q)
           p == Called(o)
<1>1. o.queue \in Seq(Nat \ {0}) /\ o.queued \in Nat
  BY DEF OutputSound, OutputType
<1>2. /\ q \in Seq(Nat \ {0}) /\ L \in Nat /\ Len(o.queue) = L + 1 /\ h = o.queue[1]
      /\ h \in Nat \ {0} /\ \A i \in 1..L : q[i] = o.queue[i + 1]
  BY <1>1, HeadTailProperties, LenProperties
<1>3. p = [o EXCEPT !.queue = q, !.flying = h]
  BY DEF Called, OutputSound, OutputType
<1>4. p \in OutputType /\ p.queue = q /\ p.queued = o.queued /\ p.flying = h
  <2>1. o \in OutputType
    BY DEF OutputSound
  <2> HIDE DEF q, p, h
  <2>2. QED
    BY <1>2, <1>3, <2>1 DEF OutputType
<1>5. PICK s : Sums(L + 1, o.queue, s) /\ o.queued = o.flying + s[L + 1]
  BY <1>2 DEF OutputSound, Account
<1> HIDE DEF q, p, h, L
<1>7. PICK t : Sums(L, q, t) /\ s[L + 1] = o.queue[1] + t[L]
  <2>1. Shifted(L, q, o.queue)
    BY <1>2 DEF Shifted
  <2>2. QED
    BY <1>2, <1>5, <2>1, SumsTail
<1>8. t[L] \in Nat
  BY <1>2, <1>7 DEF Sums
<1>9. p.queued = p.flying + t[L]
  BY <1>2, <1>4, <1>5, <1>7, <1>8
<1>10. OutputSound(p)
  BY <1>4, <1>7, <1>9 DEF OutputSound, Account, L
<1>11. QED
  BY <1>3, <1>10 DEF p, q, h

\* The rest of a failed chain is skipped once nothing is in flight.
LEMMA SkippedSound ==
  ASSUME NEW o, OutputSound(o), o.flying = 0
  PROVE  OutputSound(Skipped(o))
<1>1. /\ Skipped(o) \in OutputType /\ Skipped(o).queue = <<>> /\ Skipped(o).queued = 0
      /\ Skipped(o).flying = 0
  <2>1. o \in OutputType /\ <<>> \in Seq(Nat \ {0})
    BY EmptySeq DEF OutputSound
  <2>2. QED
    BY <2>1 DEF OutputType, Skipped
<1>2. Sums(0, <<>>, [i \in 0..0 |-> 0]) /\ Len(<<>>) = 0
  BY DEF Sums
<1>3. QED
  BY <1>1, <1>2 DEF OutputSound, Account

\* An answer takes the write in flight out of the account.
LEMMA SettledSound ==
  ASSUME NEW o, OutputSound(o), NEW fails \in BOOLEAN
  PROVE  /\ OutputSound(Settled(o, fails)) /\ Settled(o, fails).flying = 0
         /\ Settled(o, fails).queue = o.queue
<1> DEFINE p == Settled(o, fails)
           L == Len(o.queue)
<1>1. PICK s : Sums(L, o.queue, s) /\ o.queued = o.flying + s[L]
  BY DEF OutputSound, Account
<1>2. o.flying \in Nat /\ o.queued \in Nat /\ L \in Nat
  BY LenProperties DEF OutputSound, OutputType
<1>3. s[L] \in Nat
  BY <1>1, <1>2 DEF Sums
<1>4. o.queued - o.flying = s[L] /\ o.queued - o.flying \in Nat
  BY <1>1, <1>2, <1>3
<1>5. /\ p \in OutputType /\ p.queue = o.queue /\ p.queued = o.queued - o.flying /\ p.flying = 0
  <2>1. p = [o EXCEPT !.flying = 0, !.failed = o.failed \/ fails, !.queued = o.queued - o.flying]
    BY DEF Settled, OutputSound, OutputType
  <2>2. o \in OutputType /\ (o.failed \/ fails) \in BOOLEAN
    BY DEF OutputSound, OutputType
  <2> HIDE DEF p
  <2>3. QED
    BY <1>4, <2>1, <2>2 DEF OutputType
<1>6. QED
  BY <1>1, <1>3, <1>4, <1>5 DEF OutputSound, Account

\* Closing touches no account.
LEMMA ClosedSound == ASSUME NEW o, OutputSound(o) PROVE OutputSound(OutputClosed(o))
<1>1. /\ OutputClosed(o) \in OutputType /\ OutputClosed(o).queue = o.queue
      /\ OutputClosed(o).queued = o.queued /\ OutputClosed(o).flying = o.flying
  BY DEF OutputSound, OutputType, OutputClosed
<1>2. QED
  BY <1>1 DEF OutputSound, Account

\* The types of the streams: the permit covers what is queued.
Sized(o) == OutputSound(o) /\ o.queued <= HighWater /\ o.flying <= HighWater
Listener == [bind : {"none", "pending", "up", "failed"}, queue : 0..MaxAccepts,
             failed : BOOLEAN, closed : BOOLEAN]

SocketTypes ==
  /\ TypeOK
  /\ inp \in InputType /\ Sized(out) /\ lis \in Listener
  /\ fin \in [phase : {"none", "now", "afterNext", "afterFlying", "sent"}, late : BOOLEAN]
  /\ parked \in [on : SUBSET Sources, woken : BOOLEAN]

\* The inductive invariant.
SocketInv == SocketTypes /\ NoLostWake

LEMMA InputSteps ==
  ASSUME NEW i \in InputType, NEW n \in 1..HighWater, NEW fails \in BOOLEAN
  PROVE  /\ GotChunk(i, n) \in InputType /\ SourceEnded(i, fails) \in InputType
         /\ InputClosed(i) \in InputType
         /\ i.buffered >= n => Taken(i, n) \in InputType /\ (InputReady(Taken(i, n)) => InputReady(i))
         /\ i.closed => GotChunk(i, n).closed
<1> USE WasiStreamsAssumption DEF InputType, Feeds
<1>1. GotChunk(i, n) \in InputType /\ (i.closed => GotChunk(i, n).closed)
  <2>1. i.buffered + n \in Nat
    OBVIOUS
  <2>2. CASE i.closed
    <3>1. GotChunk(i, n) = [i EXCEPT !.feed = "returned"]
      BY <2>2 DEF GotChunk
    <3>2. QED
      BY <2>2, <3>1
  <2>3. CASE ~i.closed
    <3> DEFINE t == [i EXCEPT !.buffered = i.buffered + n]
    <3>1. GotChunk(i, n) = Fed(t)
      BY <2>3 DEF GotChunk
    <3>2. t \in InputType
      BY <2>1
    <3> HIDE DEF t
    <3>3. QED
      BY <2>3, <3>1, <3>2 DEF Fed
  <2>4. QED
    BY <2>2, <2>3
<1>2. SourceEnded(i, fails) \in InputType
  BY DEF SourceEnded
<1>3. ASSUME NEW k \in InputType
      PROVE  Resumed(k) \in InputType /\ Resumed(k).buffered = k.buffered
             /\ Resumed(k).eof = k.eof /\ Resumed(k).closed = k.closed
  BY DEF Resumed, Fed
<1>4. InputClosed(i) \in InputType
  <2>1. [i EXCEPT !.closed = TRUE] \in InputType
    OBVIOUS
  <2>2. QED
    BY <1>3, <2>1 DEF InputClosed
<1>5. ASSUME i.buffered >= n
      PROVE  Taken(i, n) \in InputType /\ (InputReady(Taken(i, n)) => InputReady(i))
  <2> DEFINE t == [i EXCEPT !.buffered = i.buffered - n]
  <2>1. /\ t \in InputType /\ t.buffered = i.buffered - n /\ i.buffered > 0
        /\ t.eof = i.eof /\ t.closed = i.closed
    BY <1>5
  <2>2. Taken(i, n) = IF t.buffered < HighWater THEN Resumed(t) ELSE t
    BY DEF Taken
  <2> HIDE DEF t
  <2>3. /\ Taken(i, n) \in InputType /\ Taken(i, n).eof = i.eof
        /\ Taken(i, n).closed = i.closed
    BY <1>3, <2>1, <2>2
  <2>4. QED
    BY <2>1, <2>3 DEF InputReady
<1>6. QED
  BY <1>1, <1>2, <1>4, <1>5

LEMMA OutputSteps ==
  ASSUME NEW o, Sized(o), NEW n \in 1..HighWater, NEW fails \in BOOLEAN
  PROVE  /\ n <= Permit(o) => /\ Sized(Accepted(o, n))
                              /\ OutputReady(Accepted(o, n)) => OutputReady(o)
                              /\ Flushed(Accepted(o, n)) => Flushed(o)
         /\ Sized(OutputClosed(o))
         /\ o.flying = 0 /\ o.queue # <<>> => Sized(Chained(o))
         /\ o.flying = 0 /\ o.queue # <<>> /\ ~o.failed =>
              /\ OutputReady(Chained(o)) => OutputReady(o)
              /\ Flushed(Chained(o)) => Flushed(o)
         /\ Sized(Chained(Settled(o, fails)))
<1>0. o \in OutputType /\ o.queued \in Nat /\ o.flying \in Nat /\ HighWater \in Nat
  BY WasiStreamsAssumption DEF Sized, OutputSound, OutputType
<1>1. ASSUME n <= Permit(o)
      PROVE  /\ Sized(Accepted(o, n))
             /\ OutputReady(Accepted(o, n)) => OutputReady(o)
             /\ Flushed(Accepted(o, n)) => Flushed(o)
  <2>1. o.queued + n <= HighWater /\ n \in Nat \ {0}
    BY <1>0, <1>1 DEF Permit
  <2>2. /\ OutputSound(Accepted(o, n))
        /\ Accepted(o, n) = [o EXCEPT !.queue = Append(o.queue, n), !.queued = o.queued + n]
    BY <2>1, AcceptedSound DEF Sized
  <2>3. /\ Accepted(o, n).queued = o.queued + n /\ Accepted(o, n).flying = o.flying
        /\ Accepted(o, n).failed = o.failed /\ Accepted(o, n).closed = o.closed
    BY <1>0, <2>2 DEF OutputType
  <2>4. QED
    BY <1>0, <2>1, <2>2, <2>3 DEF Sized, OutputReady, Flushed
<1>2. Sized(OutputClosed(o))
  BY <1>0, ClosedSound DEF Sized, OutputClosed, OutputType
<1>3. ASSUME NEW p, Sized(p), p.flying = 0, p.queue # <<>>, ~p.failed
      PROVE  Sized(Called(p)) /\ Called(p).queued = p.queued /\ Called(p).closed = p.closed
             /\ Called(p).failed = p.failed
  <2>1. OutputSound(p) /\ p \in OutputType
    BY <1>3 DEF Sized, OutputSound
  <2>2. /\ OutputSound(Called(p))
        /\ Called(p) = [p EXCEPT !.queue = Tail(p.queue), !.flying = Head(p.queue)]
    BY <1>3, <2>1, CalledSound
  <2>3. /\ Called(p).queued = p.queued /\ Called(p).closed = p.closed
        /\ Called(p).failed = p.failed
    BY <2>1, <2>2 DEF OutputType
  <2>4. Called(p).flying <= Called(p).queued
    <3>1. PICK s : Sums(Len(Called(p).queue), Called(p).queue, s) /\
                   Called(p).queued = Called(p).flying + s[Len(Called(p).queue)]
      BY <2>2 DEF OutputSound, Account
    <3>2. Called(p).flying \in Nat /\ Len(Called(p).queue) \in Nat
      BY <2>2, LenProperties DEF OutputSound, OutputType
    <3>3. s[Len(Called(p).queue)] \in Nat
      BY <3>1, <3>2 DEF Sums
    <3>4. QED
      BY <3>1, <3>2, <3>3
  <2>5. Called(p).flying \in Nat /\ p.queued \in Nat /\ p.queued <= HighWater
    BY <1>3, <2>1, <2>2 DEF OutputSound, OutputType, Sized
  <2>6. QED
    BY <1>0, <2>2, <2>3, <2>4, <2>5 DEF Sized
<1>4. ASSUME NEW p, Sized(p), p.flying = 0, p.queue # <<>>
      PROVE  Sized(Chained(p))
  <2>1. CASE p.failed
    <3>1. OutputSound(Skipped(p)) /\ Skipped(p).queued = 0 /\ Skipped(p).flying = 0
      BY <1>4, SkippedSound DEF Sized, OutputSound, OutputType, Skipped
    <3>2. QED
      BY <1>0, <1>4, <2>1, <3>1 DEF Chained, Sized
  <2>2. CASE ~p.failed
    BY <1>3, <1>4, <2>2 DEF Chained
  <2>3. QED
    BY <2>1, <2>2
<1>5. ASSUME o.flying = 0, o.queue # <<>>, ~o.failed
      PROVE  /\ OutputReady(Chained(o)) => OutputReady(o)
             /\ Flushed(Chained(o)) => Flushed(o)
  BY <1>3, <1>5 DEF Chained, OutputReady, Flushed
<1>6. Sized(Chained(Settled(o, fails)))
  <2> DEFINE p == Settled(o, fails)
  <2>1. OutputSound(p) /\ p.flying = 0 /\ p.queue = o.queue
    BY SettledSound DEF Sized
  <2>2. p.queued = o.queued - o.flying
    BY <1>0 DEF Settled, OutputType
  <2> HIDE DEF p
  <2>3. p.queued \in Nat
    BY <2>1 DEF OutputType, OutputSound
  <2>4. Sized(p)
    BY <1>0, <2>1, <2>2, <2>3 DEF Sized
  <2>5. ASSUME p.queue = <<>> PROVE Sized(Chained(p))
    BY <2>4, <2>5 DEF Chained
  <2>6. ASSUME p.queue # <<>> PROVE Sized(Chained(p))
    BY <1>4, <2>1, <2>4, <2>6
  <2>7. Sized(Chained(p))
    BY <2>5, <2>6
  <2>8. QED
    BY <2>7 DEF p
<1>7. QED
  BY <1>1, <1>2, <1>4, <1>5, <1>6

\* A step makes no source ready but those of S.
Covers(S) ==
  /\ "dial" \in S \/ dial' = dial \/ dial' \notin {"made", "failed"}
  /\ "bind" \in S \/ lis'.bind = lis.bind \/ lis'.bind = "pending"
  /\ "accept" \in S \/ (lis'.queue > 0 \/ lis'.failed \/ lis'.closed =>
                          lis.queue > 0 \/ lis.failed \/ lis.closed)
  /\ "input" \in S \/ (InputReady(inp') => InputReady(inp))
  /\ "output" \in S \/ (OutputReady(out') => OutputReady(out))
  /\ "flush" \in S \/ (Flushed(out') => Flushed(out))

\* A step that signals what it makes ready wakes whom it should.
LEMMA Wakes ==
  ASSUME SocketInv, NEW S, Signal(S) \/ (S = {} /\ parked' = parked), Covers(S)
  PROVE  parked' \in [on : SUBSET Sources, woken : BOOLEAN] /\ NoLostWake'
<1>1. parked \in [on : SUBSET Sources, woken : BOOLEAN]
  BY DEF SocketInv, SocketTypes
<1>2. /\ parked' \in [on : SUBSET Sources, woken : BOOLEAN] /\ parked'.on = parked.on
      /\ parked'.woken = (parked.woken \/ parked.on \cap S # {})
  BY <1>1 DEF Signal
<1>3. \A x \in Sources \ S : Ready(x)' => Ready(x)
  BY DEF Covers, Ready, Sources
<1>4. ASSUME parked'.on # {}, ~parked'.woken, NEW x \in parked'.on PROVE ~Ready(x)'
  <2>1. x \in Sources \ S /\ ~parked.woken /\ x \in parked.on
    BY <1>1, <1>2, <1>4
  <2>2. ~Ready(x)
    BY <2>1 DEF SocketInv, NoLostWake
  <2>3. QED
    BY <1>3, <2>1, <2>2
<1>5. NoLostWake'
  BY <1>4 DEF NoLostWake
<1>6. QED
  BY <1>2, <1>5

\* What the types give a step.
LEMMA Typed ==
  ASSUME SocketInv
  PROVE  /\ TypeOK /\ inp \in InputType /\ Sized(out) /\ out \in OutputType /\ lis \in Listener
         /\ fin \in [phase : {"none", "now", "afterNext", "afterFlying", "sent"}, late : BOOLEAN]
         /\ parked \in [on : SUBSET Sources, woken : BOOLEAN]
         /\ MaxAccepts \in Nat /\ HighWater \in Nat \ {0}
BY TcpSocket02Assumption, WasiStreamsAssumption
   DEF SocketInv, SocketTypes, Sized, OutputSound, OutputType

\* The type of the whole state from those of its parts.
LEMMA TypesFrom ==
  ASSUME state' \in {"unbound", "bind-in-progress", "bound", "connect-in-progress", "connected",
                     "listen-in-progress", "listening", "closed"},
         dial' \in {"none", "pending", "made", "failed"},
         conn' \in {"none", "open", "broken", "closed"}, held' \in BOOLEAN,
         inp' \in InputType, Sized(out'), lis' \in Listener,
         fin' \in [phase : {"none", "now", "afterNext", "afterFlying", "sent"}, late : BOOLEAN],
         parked' \in [on : SUBSET Sources, woken : BOOLEAN]
  PROVE  SocketTypes'
<1>1. /\ inp'.feed \in {"pulling", "paused", "returned"} /\ inp'.buffered \in Nat
      /\ lis'.queue \in 0..MaxAccepts /\ lis'.bind \in {"none", "pending", "up", "failed"}
      /\ fin'.phase \in {"none", "now", "afterNext", "afterFlying", "sent"}
      /\ parked'.on \subseteq Sources /\ parked'.woken \in BOOLEAN
  BY DEF InputType, Feeds, Listener
<1>2. out'.flying \in 0..HighWater /\ out'.queued \in 0..HighWater
  BY WasiStreamsAssumption DEF Sized, OutputSound, OutputType
<1>3. TypeOK'
  BY <1>1, <1>2 DEF TypeOK
<1>4. QED
  BY <1>3 DEF SocketTypes

LEMMA SocketInitInv == SocketInit => SocketInv
<1> SUFFICES ASSUME SocketInit PROVE SocketInv
  OBVIOUS
<1>1. HighWater \in Nat \ {0} /\ MaxAccepts \in Nat
  BY WasiStreamsAssumption, TcpSocket02Assumption
<1>2. Sized(out) /\ out.queued = 0 /\ out.flying = 0
  BY <1>1, FreshSound DEF SocketInit, Sized, FreshOutput
<1>3. inp \in InputType
  BY DEF SocketInit, FreshInput, InputType, Feeds
<1>4. lis \in Listener
  BY <1>1 DEF SocketInit, NoListener, Listener
<1>5. parked \in [on : SUBSET Sources, woken : BOOLEAN] /\ NoLostWake
  BY DEF SocketInit, Nothing, NoLostWake
<1>6. TypeOK
  BY <1>1, <1>2, <1>3, <1>4, <1>5 DEF SocketInit, TypeOK, InputType, Feeds, Listener
<1>7. QED
  BY <1>2, <1>3, <1>4, <1>5, <1>6 DEF SocketInit, SocketInv, SocketTypes

LEMMA ParkInv == ASSUME SocketInv, NEW S \in SUBSET Sources, Park(S) PROVE SocketInv'
<1>1. parked' \in [on : SUBSET Sources, woken : BOOLEAN] /\ parked'.on = S
  BY DEF Park
<1>2. SocketTypes'
  BY <1>1, Typed, TypesFrom DEF Park, Streams, TypeOK
<1>3. \A x \in S : Ready(x)' <=> Ready(x)
  BY DEF Park, Streams, Ready
<1>4. NoLostWake'
  BY <1>1, <1>3 DEF Park, NoLostWake
<1>5. QED
  BY <1>2, <1>4 DEF SocketInv

LEMMA WakeInv == ASSUME SocketInv, Wake PROVE SocketInv'
<1>1. /\ parked' \in [on : SUBSET Sources, woken : BOOLEAN]
      /\ parked' = Nothing \/ (parked'.on = parked.on /\ \A x \in parked.on : ~Ready(x))
  BY Typed DEF Wake, Nothing
<1>2. SocketTypes'
  BY <1>1, Typed, TypesFrom DEF Wake, Streams, TypeOK
<1>3. \A x \in parked.on : Ready(x)' <=> Ready(x)
  BY DEF Wake, Streams, Ready
<1>4. NoLostWake'
  BY <1>1, <1>3 DEF NoLostWake, Nothing
<1>5. QED
  BY <1>2, <1>4 DEF SocketInv

\* Calls that bind, connect and listen, and accept.
LEMMA CallsInv ==
  ASSUME SocketInv,
         \/ StartBind \/ FinishBind \/ StartConnect \/ FinishConnect
         \/ StartListen \/ FinishListen \/ Accept
  PROVE  SocketInv'
<1>1. CASE StartBind \/ FinishBind \/ StartConnect \/ FinishConnect
  <2>1. /\ lis' = lis /\ inp' = inp /\ out' = out /\ fin' = fin /\ parked' = parked
        /\ dial' = dial \/ dial' = "pending"
    BY <1>1 DEF StartBind, FinishBind, StartConnect, FinishConnect, Becomes, Streams
  <2>2. parked' \in [on : SUBSET Sources, woken : BOOLEAN] /\ NoLostWake'
    <3>1. Covers({})
      BY <2>1 DEF Covers
    <3>2. QED
      BY <2>1, <3>1, Wakes
  <2>3. SocketTypes'
    <3>1. /\ state' \in {"unbound", "bind-in-progress", "bound", "connect-in-progress",
                        "connected", "listen-in-progress", "listening", "closed"}
          /\ dial' \in {"none", "pending", "made", "failed"} /\ held' \in BOOLEAN
          /\ conn' = conn
      BY <1>1, <2>1, Typed
         DEF StartBind, FinishBind, StartConnect, FinishConnect, Becomes, TypeOK
    <3>2. QED
      BY <2>1, <2>2, <3>1, Typed, TypesFrom DEF TypeOK
  <2>4. QED
    BY <2>2, <2>3 DEF SocketInv
<1>2. CASE StartListen
  <2>1. /\ lis' \in Listener /\ lis'.bind = "pending" /\ lis'.queue = 0
        /\ ~lis'.failed /\ ~lis'.closed
    <3>1. lis' = [bind |-> "pending", queue |-> 0, failed |-> FALSE, closed |-> FALSE]
      BY <1>2 DEF StartListen, NoListener
    <3>2. 0 \in 0..MaxAccepts
      BY Typed
    <3>3. QED
      BY <3>1, <3>2 DEF Listener
  <2>2. /\ inp' = inp /\ out' = out /\ fin' = fin /\ parked' = parked /\ dial' = dial
        /\ conn' = conn /\ held' = held /\ state' = "listen-in-progress"
    BY <1>2 DEF StartListen, Becomes, Streams
  <2>3. Covers({})
    BY <2>1, <2>2, Typed DEF Covers, Listener
  <2>4. parked' \in [on : SUBSET Sources, woken : BOOLEAN] /\ NoLostWake'
    BY <2>2, <2>3, Wakes
  <2>5. SocketTypes'
    BY <2>1, <2>2, <2>4, Typed, TypesFrom DEF TypeOK
  <2>6. QED
    BY <2>4, <2>5 DEF SocketInv
<1>3. CASE FinishListen
  <2>1. /\ inp' = inp /\ out' = out /\ fin' = fin /\ dial' = dial
        /\ conn' = conn /\ held' = held /\ state' \in {"listening", "closed"}
    BY <1>3 DEF FinishListen, Becomes, Streams
  <2>2. PICK S \in {{}, {"accept"}} :
          /\ Signal(S) \/ (S = {} /\ parked' = parked)
          /\ lis' \in Listener /\ lis'.bind = lis.bind /\ (lis' = lis \/ "accept" \in S)
    <3>1. CASE lis' = lis /\ parked' = parked
      BY <3>1, Typed
    <3>2. CASE lis' = [lis EXCEPT !.closed = TRUE] /\ Signal({} \cup {"accept"})
      <4>1. lis' \in Listener /\ lis'.bind = lis.bind
        BY <3>2, Typed DEF Listener
      <4>2. {} \cup {"accept"} = {"accept"}
        OBVIOUS
      <4>3. QED
        BY <3>2, <4>1, <4>2
    <3>3. QED
      BY <1>3, <3>1, <3>2 DEF FinishListen, ListenerClosed
  <2>3. Covers(S)
    BY <2>1, <2>2 DEF Covers
  <2>4. parked' \in [on : SUBSET Sources, woken : BOOLEAN] /\ NoLostWake'
    BY <2>2, <2>3, Wakes
  <2>5. SocketTypes'
    BY <2>1, <2>2, <2>4, Typed, TypesFrom DEF TypeOK
  <2>6. QED
    BY <2>4, <2>5 DEF SocketInv
<1>4. CASE Accept
  <2>1. /\ lis' \in Listener /\ lis'.bind = lis.bind /\ lis'.failed = lis.failed
        /\ lis'.closed = lis.closed /\ lis.queue > 0
    BY <1>4, Typed DEF Accept, Listener
  <2>2. /\ inp' = inp /\ out' = out /\ fin' = fin /\ parked' = parked /\ dial' = dial
        /\ conn' = conn /\ held' = held /\ state' = state
    BY <1>4 DEF Accept, Streams
  <2>3. Covers({})
    BY <2>1, <2>2, Typed DEF Covers, Listener
  <2>4. parked' \in [on : SUBSET Sources, woken : BOOLEAN] /\ NoLostWake'
    BY <2>2, <2>3, Wakes
  <2>5. SocketTypes'
    BY <2>1, <2>2, <2>4, Typed, TypesFrom DEF TypeOK
  <2>6. QED
    BY <2>4, <2>5 DEF SocketInv
<1>5. QED
  BY <1>1, <1>2, <1>3, <1>4

\* The dial, the bind and the connections that arrive.
LEMMA ListenerInv ==
  ASSUME SocketInv, NEW ok \in BOOLEAN,
         DialSettles(ok) \/ BindSettles(ok) \/ Arrives \/ ListenerFails
  PROVE  SocketInv'
<1>1. CASE DialSettles(ok)
  <2>1. /\ lis' = lis /\ inp' = inp /\ out' = out /\ fin' = fin /\ held' = held /\ state' = state
        /\ conn' \in {"none", "open", "closed"} /\ dial' \in {"made", "failed"}
        /\ Signal({"dial"})
    BY <1>1 DEF DialSettles, DialMade, Streams
  <2>2. Covers({"dial"})
    BY <2>1 DEF Covers
  <2>3. parked' \in [on : SUBSET Sources, woken : BOOLEAN] /\ NoLostWake'
    BY <2>1, <2>2, Wakes
  <2>4. SocketTypes'
    BY <2>1, <2>3, Typed, TypesFrom DEF TypeOK
  <2>5. QED
    BY <2>3, <2>4 DEF SocketInv
<1>2. ASSUME inp' = inp, out' = out, fin' = fin, dial' = dial, conn' = conn, held' = held,
             state' = state, lis' \in Listener,
             NEW S, Signal(S) \/ (S = {} /\ parked' = parked), Covers(S)
      PROVE  SocketInv'
  <2>1. parked' \in [on : SUBSET Sources, woken : BOOLEAN] /\ NoLostWake'
    BY <1>2, Wakes
  <2>2. SocketTypes'
    BY <1>2, <2>1, Typed, TypesFrom DEF TypeOK
  <2>3. QED
    BY <2>1, <2>2 DEF SocketInv
<1>3. CASE BindSettles(ok)
  <2>1. /\ inp' = inp /\ out' = out /\ fin' = fin /\ dial' = dial /\ conn' = conn
        /\ held' = held /\ state' = state
    BY <1>3 DEF BindSettles, Streams
  <2>2. lis' \in Listener /\ Signal({"bind", "accept"})
    BY <1>3, Typed DEF BindSettles, Listener
  <2>3. Covers({"bind", "accept"})
    BY <2>1 DEF Covers
  <2>4. QED
    BY <1>2, <2>1, <2>2, <2>3
<1>4. CASE Arrives
  <2>1. /\ inp' = inp /\ out' = out /\ fin' = fin /\ dial' = dial /\ conn' = conn
        /\ held' = held /\ state' = state
    BY <1>4 DEF Arrives, Streams
  <2>2. CASE lis.queue < MaxAccepts
    <3>1. lis' \in Listener /\ lis'.bind = lis.bind /\ Signal({"accept"})
      BY <1>4, <2>2, Typed DEF Arrives, Listener
    <3>2. Covers({"accept"})
      BY <2>1, <3>1 DEF Covers
    <3>3. QED
      BY <1>2, <2>1, <3>1, <3>2
  <2>3. CASE ~(lis.queue < MaxAccepts)
    <3>1. lis' = lis /\ parked' = parked
      BY <1>4, <2>3 DEF Arrives
    <3>2. Covers({})
      BY <2>1, <3>1 DEF Covers
    <3>3. QED
      BY <1>2, <2>1, <3>1, <3>2, Typed
  <2>4. QED
    BY <2>2, <2>3
<1>5. CASE ListenerFails
  <2>1. /\ inp' = inp /\ out' = out /\ fin' = fin /\ dial' = dial /\ conn' = conn
        /\ held' = held /\ state' = state
    BY <1>5 DEF ListenerFails, Streams
  <2>2. lis' \in Listener /\ lis'.bind = lis.bind /\ Signal({"accept"})
    BY <1>5, Typed DEF ListenerFails, Listener
  <2>3. Covers({"accept"})
    BY <2>1, <2>2 DEF Covers
  <2>4. QED
    BY <1>2, <2>1, <2>2, <2>3
<1>6. QED
  BY <1>1, <1>3, <1>4, <1>5

\* The input stream: its feed, its reader and its end.
LEMMA InputInv ==
  ASSUME SocketInv, NEW n \in 1..HighWater,
         PeerSends(n) \/ PeerFins \/ ReadFails \/ Read(n) \/ CloseInput
  PROVE  SocketInv'
<1>1. /\ out' = out /\ fin' = fin /\ dial' = dial /\ conn' = conn /\ held' = held
      /\ state' = state /\ lis' = lis
  BY DEF PeerSends, PeerFins, ReadFails, Read, CloseInput, Input
<1>2. PICK S : /\ Signal(S) \/ (S = {} /\ parked' = parked)
               /\ inp' \in InputType
               /\ "input" \in S \/ (InputReady(inp') => InputReady(inp))
  <2>1. CASE PeerSends(n)
    <3>1. inp' \in InputType /\ (inp.closed => InputReady(inp))
      BY <2>1, Typed, InputSteps DEF PeerSends, Input, InputReady
    <3>2. CASE inp.closed
      BY <2>1, <3>1, <3>2 DEF PeerSends
    <3>3. CASE ~inp.closed
      BY <2>1, <3>1, <3>3 DEF PeerSends
    <3>4. QED
      BY <3>2, <3>3
  <2>2. CASE PeerFins \/ ReadFails \/ CloseInput
    <3>1. inp' \in InputType /\ Signal({"input"})
      BY <2>2, Typed, InputSteps DEF PeerFins, ReadFails, CloseInput, Input, FeedEnds
    <3>2. QED
      BY <3>1
  <2>3. CASE Read(n)
    <3>1. inp' \in InputType /\ parked' = parked /\ (InputReady(inp') => InputReady(inp))
      BY <2>3, Typed, InputSteps DEF Read, Input
    <3>2. QED
      BY <3>1
  <2>4. QED
    BY <2>1, <2>2, <2>3
<1>3. Covers(S)
  BY <1>1, <1>2 DEF Covers
<1>4. parked' \in [on : SUBSET Sources, woken : BOOLEAN] /\ NoLostWake'
  BY <1>2, <1>3, Wakes
<1>5. SocketTypes'
  BY <1>1, <1>2, <1>4, Typed, TypesFrom DEF TypeOK
<1>6. QED
  BY <1>4, <1>5 DEF SocketInv
\* The output stream: its writes, its chain, its answers and its end.
FinType == [phase : {"none", "now", "afterNext", "afterFlying", "sent"}, late : BOOLEAN]

LEMMA FinSteps ==
  ASSUME NEW f \in FinType, NEW o \in OutputType
  PROVE  Handed(f, o) \in FinType /\ Sent(f) \in FinType /\ [f EXCEPT !.late = FALSE] \in FinType
<1>1. (f.late \/ (f.phase = "sent" /\ o.queue # <<>> /\ ~o.failed)) \in BOOLEAN
  BY DEF FinType, OutputType
<1>2. QED
  BY <1>1 DEF Handed, Sent, FinType

LEMMA OutputInv ==
  ASSUME SocketInv, NEW n \in 1..HighWater,
         Write(n) \/ Turn \/ WriteAnswered \/ ShutdownSend \/ CloseOutput \/ PeerResets
  PROVE  SocketInv'
<1>1. /\ inp' = inp /\ dial' = dial /\ held' = held /\ state' = state /\ lis' = lis
  BY DEF Write, Turn, WriteAnswered, ShutdownSend, CloseOutput, PeerResets, Streams
<1>2. fin \in FinType /\ out \in OutputType /\ Sized(out)
  BY Typed DEF FinType
<1>3. PICK S : /\ Signal(S) \/ (S = {} /\ parked' = parked)
               /\ Sized(out')
               /\ "output" \in S \/ (OutputReady(out') => OutputReady(out))
               /\ "flush" \in S \/ (Flushed(out') => Flushed(out))
  <2>1. CASE Write(n)
    BY <1>2, <2>1, OutputSteps DEF Write
  <2>2. CASE Turn
    <3>1. CASE out' = out /\ parked' = parked
      BY <1>2, <3>1
    <3>2. CASE /\ out.flying = 0 /\ out.queue # <<>> /\ out' = Chained(out)
               /\ IF out.failed THEN Signal({"output", "flush"}) ELSE UNCHANGED parked
      <4>0. HighWater \in 1..HighWater
        BY Typed
      <4>1. /\ Sized(out')
            /\ ~out.failed => /\ OutputReady(out') => OutputReady(out)
                              /\ Flushed(out') => Flushed(out)
        BY <1>2, <3>2, <4>0, OutputSteps
      <4>2. out.failed \in BOOLEAN
        BY <1>2 DEF OutputType
      <4>3. CASE out.failed
        <5>1. Signal({"output", "flush"})
          BY <3>2, <4>3
        <5>2. QED
          BY <4>1, <5>1
      <4>4. CASE ~out.failed
        BY <3>2, <4>1, <4>4
      <4>5. QED
        BY <4>2, <4>3, <4>4
    <3>3. QED
      BY <2>2, <3>1, <3>2 DEF Turn
  <2>3. CASE WriteAnswered
    <3>1. (fin.late \/ conn # "open") \in BOOLEAN
      BY <1>2 DEF FinType
    <3>2. out' = Chained(Settled(out, fin.late \/ conn # "open")) /\ Signal({"output", "flush"})
      BY <2>3 DEF WriteAnswered
    <3>3. Sized(out')
      BY <1>2, <3>1, <3>2, OutputSteps
    <3>4. QED
      BY <3>2, <3>3
  <2>4. CASE ShutdownSend \/ PeerResets
    BY <1>2, <2>4 DEF ShutdownSend, PeerResets, Streams
  <2>5. CASE CloseOutput
    <3>1. Sized(out') /\ Signal({"output", "flush"})
      BY <1>2, <2>5, OutputSteps DEF CloseOutput
    <3>2. QED
      BY <3>1
  <2>6. QED
    BY <2>1, <2>2, <2>3, <2>4, <2>5
<1>4. fin' \in FinType
  <2>1. CASE Write(n) \/ CloseOutput \/ PeerResets
    BY <1>2, <2>1 DEF Write, CloseOutput, PeerResets, Streams
  <2>2. CASE Turn
    BY <1>2, <2>2, FinSteps DEF Turn
  <2>3. CASE WriteAnswered
    <3>1. Settled(out, fin.late \/ conn # "open") \in OutputType
      <4>1. (fin.late \/ conn # "open") \in BOOLEAN
        BY <1>2 DEF FinType
      <4>2. QED
        BY <1>2, <4>1, SettledSound DEF Sized, OutputSound
    <3>2. QED
      BY <1>2, <2>3, <3>1, FinSteps DEF WriteAnswered
  <2>4. CASE ShutdownSend
    BY <1>2, <2>4 DEF ShutdownSend, FinType
  <2>5. QED
    BY <2>1, <2>2, <2>3, <2>4
<1>5. conn' \in {"none", "open", "broken", "closed"}
  BY Typed DEF Write, Turn, WriteAnswered, ShutdownSend, CloseOutput, PeerResets, TypeOK
<1>6. Covers(S)
  BY <1>1, <1>3 DEF Covers
<1>7. parked' \in [on : SUBSET Sources, woken : BOOLEAN] /\ NoLostWake'
  BY <1>3, <1>6, Wakes
<1>8. SocketTypes'
  BY <1>1, <1>3, <1>4, <1>5, <1>7, Typed, TypesFrom DEF TypeOK, FinType
<1>9. QED
  BY <1>7, <1>8 DEF SocketInv

\* The handle is dropped: both streams and the listener close.
LEMMA DisposeInv == ASSUME SocketInv, Dispose PROVE SocketInv'
<1> DEFINE listens == lis.bind # "none" /\ ~lis.closed
           T == IF held THEN {"input", "output", "flush"} ELSE {}
           S == IF listens THEN T \cup {"accept"} ELSE T
<1>1. /\ dial' = dial /\ fin' = fin /\ state' = "closed" /\ held' = FALSE
      /\ conn' = conn \/ conn' = "closed"
  BY DEF Dispose
<1>2. Signal(S)
  BY DEF Dispose, ListenerClosed
<1>3. inp' \in InputType /\ (held \/ inp' = inp)
  <2>1. HighWater \in 1..HighWater
    BY Typed
  <2>2. QED
    BY <2>1, Typed, InputSteps DEF Dispose
<1>4. Sized(out') /\ (held \/ out' = out)
  <2>1. HighWater \in 1..HighWater
    BY Typed
  <2>2. QED
    BY <2>1, Typed, OutputSteps DEF Dispose
<1>5. lis' \in Listener /\ lis'.bind = lis.bind /\ (listens \/ lis' = lis)
  <2>1. lis' = IF listens THEN [lis EXCEPT !.closed = TRUE, !.queue = 0] ELSE lis
    BY DEF Dispose
  <2>2. 0 \in 0..MaxAccepts
    BY Typed
  <2>3. QED
    BY <2>1, <2>2, Typed DEF Listener
<1>6. Covers(S)
  <2>1. held => "input" \in S /\ "output" \in S /\ "flush" \in S
    OBVIOUS
  <2>2. listens => "accept" \in S
    OBVIOUS
  <2> HIDE DEF S, listens
  <2>3. QED
    BY <1>1, <1>3, <1>4, <1>5, <2>1, <2>2 DEF Covers
<1>7. parked' \in [on : SUBSET Sources, woken : BOOLEAN] /\ NoLostWake'
  BY <1>2, <1>6, Wakes
<1>8. SocketTypes'
  BY <1>1, <1>3, <1>4, <1>5, <1>7, Typed, TypesFrom DEF TypeOK
<1>9. QED
  BY <1>7, <1>8 DEF SocketInv

LEMMA SocketStepInv == ASSUME SocketInv, [SocketNext]_vars PROVE SocketInv'
<1>0. HighWater \in 1..HighWater
  BY Typed
<1>1. CASE Guest
  BY <1>0, <1>1, CallsInv, InputInv, OutputInv, DisposeInv, ParkInv DEF Guest
<1>2. CASE Network
  BY <1>0, <1>2, ListenerInv, InputInv, OutputInv DEF Network
<1>3. CASE Turn \/ Wake \/ WriteAnswered
  BY <1>0, <1>3, OutputInv, WakeInv
<1>4. CASE UNCHANGED vars
  <2>1. /\ state' = state /\ dial' = dial /\ conn' = conn /\ held' = held /\ lis' = lis
        /\ inp' = inp /\ out' = out /\ fin' = fin /\ parked' = parked
    BY <1>4 DEF vars
  <2>2. Covers({})
    BY <2>1 DEF Covers
  <2>3. parked' \in [on : SUBSET Sources, woken : BOOLEAN] /\ NoLostWake'
    BY <2>1, <2>2, Wakes
  <2>4. SocketTypes'
    BY <2>1, <2>3, Typed, TypesFrom DEF TypeOK
  <2>5. QED
    BY <2>3, <2>4 DEF SocketInv
<1>5. QED
  BY <1>1, <1>2, <1>3, <1>4 DEF SocketNext

\* The types of a 0.2 socket, with the permit's account: what its output stream
\* has let the guest queue is what the sink has not answered, and never exceeds
\* the high-water mark (WasiOutputStream).
THEOREM SocketSafe == Spec => []SocketInv
<1>1. Spec => []SocketInv
  BY SocketInitInv, SocketStepInv, PTL DEF Spec
<1>2. QED
  BY <1>1

\* No task parked on pollables of a socket is left behind: while none of the
\* promises it took has fired, none of its pollables is ready.
THEOREM NoTaskLeftParked == Spec => []NoLostWake
<1>1. SocketInv => NoLostWake
  BY DEF SocketInv
<1>2. QED
  BY <1>1, SocketSafe, PTL

\* The type invariant of the socket.
THEOREM SocketTyped == Spec => []TypeOK
<1>1. SocketInv => TypeOK
  BY DEF SocketInv, SocketTypes
<1>2. QED
  BY <1>1, SocketSafe, PTL

(* -- a TCP socket of 0.3 and its owners ------------------------------------ *)

TcpStates == {"unbound", "bound", "connecting", "connected", "listening", "closed"}
Conns == {"none", "dialing", "open", "closed"}
ServerStates == {"settling", "live", "failed", "closed"}
Accepts == {"none", "pulled", "accepting", "yielded", "rejected", "over"}
Tellings == {"none", "ok", "err", "rejected"}
ServerType == [st : ServerStates, queue : Nat, stream : Accepts, reader : BOOLEAN]
TcpType == [st : TcpStates, held : BOOLEAN, refs : Nat, conn : Conns, broken : BOOLEAN,
            fin : BOOLEAN, ready : Nat, servers : Seq(ServerType), current : Nat,
            offered : Nat, carried : Nat]
SenderType == [at : {"none", "reading", "writing", "closing", "over"},
               input : {"open", "ended", "dropped"}, chunk : Nat, chunks : Nat, told : Tellings]
ReceiverType == [at : {"none", "reading", "yielded", "over"}, reader : BOOLEAN, told : Tellings]

\* The accept streams that own the socket, and with the handle how many shares
\* they are.
SocketOwners(s) == {i \in DOMAIN s : s[i].stream \notin Retired}
Shares(t) == Cardinality(SocketOwners(t.servers)) + (IF t.held THEN 1 ELSE 0)
Pumps == (IF sender.at \in Retired THEN 0 ELSE 1) + (IF receiver.at \in Retired THEN 0 ELSE 1)

\* What holds of a socket whatever its count.
TcpParts(t) ==
  /\ t \in TcpType /\ t.current \in 0..Len(t.servers)
  /\ \A i \in DOMAIN t.servers : t.servers[i].st = "settling" => t.servers[i].stream = "none"
  /\ ~t.held => t.st \notin {"unbound", "bound", "connecting"}
  /\ Len(t.servers) = 1 /\ t.servers[1].st = "live" => t.current = 1
  /\ t.refs = 0 => t.conn # "open" /\ (Len(t.servers) = 1 => t.servers[1].st # "live")
  /\ t.st = "connected" /\ t.refs > 0 => t.conn = "open"
  /\ t.conn = "dialing" => t.st # "connected"

TcpSound(t, n) == TcpParts(t) /\ t.refs = Shares(t) + n

PumpsSound ==
  /\ sender \in SenderType /\ receiver \in ReceiverType
  /\ sender.at \in {"none", "reading"} => sender.chunk = 0
  /\ sender.at = "closing" => sender.chunk = 0 /\ sender.input = "ended"
  /\ FuturesTold

\* The inductive invariant.
TcpInv == TcpSound(tcp, Pumps) /\ PumpsSound

LEMMA ServerPut ==
  ASSUME NEW s \in Seq(ServerType), NEW i \in DOMAIN s, NEW e \in ServerType,
         NEW z, z = [s EXCEPT ![i] = e]
  PROVE  /\ z \in Seq(ServerType) /\ Len(z) = Len(s) /\ DOMAIN z = DOMAIN s /\ z[i] = e
         /\ \A j \in DOMAIN s : j # i => z[j] = s[j]
<1>1. Len(s) \in Nat /\ DOMAIN s = 1..Len(s) /\ s \in [1..Len(s) -> ServerType]
  BY LenProperties
<1>2. z \in [1..Len(s) -> ServerType] /\ DOMAIN z = 1..Len(s)
  BY <1>1
<1>3. z \in Seq(ServerType) /\ Len(z) = Len(s)
  BY <1>1, <1>2, SeqDef, LenProperties
<1>4. QED
  BY <1>1, <1>2, <1>3

LEMMA HoldersFinite ==
  ASSUME NEW s \in Seq(ServerType)
  PROVE  IsFiniteSet(SocketOwners(s)) /\ Cardinality(SocketOwners(s)) \in Nat
<1>1. Len(s) \in Nat /\ DOMAIN s = 1..Len(s)
  BY LenProperties
<1>2. IsFiniteSet(1..Len(s))
  BY <1>1, FS_Interval
<1>3. SocketOwners(s) \subseteq 1..Len(s)
  BY <1>1 DEF SocketOwners
<1>4. QED
  BY <1>2, <1>3, FS_Subset, FS_CardinalityType

\* What a change of one accept stream does to the number of holders.
LEMMA HoldersPut ==
  ASSUME NEW s \in Seq(ServerType), NEW i \in DOMAIN s, NEW e \in ServerType,
         NEW z, z = [s EXCEPT ![i] = e]
  PROVE  /\ (e.stream \in Retired <=> s[i].stream \in Retired) =>
              Cardinality(SocketOwners(z)) = Cardinality(SocketOwners(s))
         /\ e.stream \notin Retired /\ s[i].stream \in Retired =>
              Cardinality(SocketOwners(z)) = Cardinality(SocketOwners(s)) + 1
         /\ e.stream \in Retired /\ s[i].stream \notin Retired =>
              Cardinality(SocketOwners(z)) = Cardinality(SocketOwners(s)) - 1
<1>1. /\ DOMAIN z = DOMAIN s /\ z[i] = e /\ \A j \in DOMAIN s : j # i => z[j] = s[j]
  BY ServerPut
<1>2. IsFiniteSet(SocketOwners(s)) /\ Cardinality(SocketOwners(s)) \in Nat
  BY HoldersFinite
<1>3. ASSUME e.stream \in Retired <=> s[i].stream \in Retired
      PROVE  SocketOwners(z) = SocketOwners(s)
  BY <1>1, <1>3 DEF SocketOwners
<1>4. ASSUME e.stream \notin Retired, s[i].stream \in Retired
      PROVE  Cardinality(SocketOwners(z)) = Cardinality(SocketOwners(s)) + 1
  <2>1. SocketOwners(z) = SocketOwners(s) \cup {i} /\ i \notin SocketOwners(s)
    BY <1>1, <1>4 DEF SocketOwners
  <2>2. QED
    BY <1>2, <2>1, FS_AddElement
<1>5. ASSUME e.stream \in Retired, s[i].stream \notin Retired
      PROVE  Cardinality(SocketOwners(z)) = Cardinality(SocketOwners(s)) - 1
  <2>1. SocketOwners(z) = SocketOwners(s) \ {i} /\ i \in SocketOwners(s)
    BY <1>1, <1>5 DEF SocketOwners
  <2>2. QED
    BY <1>2, <2>1, FS_RemoveElement
<1>6. QED
  BY <1>3, <1>4, <1>5

\* A socket after a change of one of its listeners.
Put(t, i, e) == [t EXCEPT !.servers = [t.servers EXCEPT ![i] = e]]

LEMMA PutParts ==
  ASSUME NEW t, TcpParts(t), NEW i \in DOMAIN t.servers, NEW e \in ServerType,
         e.st = "settling" => e.stream = "none",
         e.st = "live" => t.servers[i].st = "live"
  PROVE  /\ TcpParts(Put(t, i, e)) /\ Put(t, i, e).servers[i] = e
         /\ Put(t, i, e).servers \in Seq(ServerType)
         /\ DOMAIN Put(t, i, e).servers = DOMAIN t.servers
<1> DEFINE z == [t.servers EXCEPT ![i] = e]
           u == Put(t, i, e)
<1>1. t \in TcpType /\ t.servers \in Seq(ServerType)
  BY DEF TcpParts, TcpType
<1>2. /\ z \in Seq(ServerType) /\ Len(z) = Len(t.servers) /\ DOMAIN z = DOMAIN t.servers
      /\ z[i] = e /\ \A j \in DOMAIN t.servers : j # i => z[j] = t.servers[j]
  BY <1>1, ServerPut
<1>3. u = [t EXCEPT !.servers = z]
  BY DEF Put
<1> HIDE DEF z, u
<1>4. /\ u \in TcpType /\ u.servers = z /\ u.current = t.current /\ u.held = t.held /\ u.st = t.st
      /\ u.refs = t.refs /\ u.conn = t.conn
  BY <1>1, <1>2, <1>3 DEF TcpType
<1>5. \A j \in DOMAIN z : z[j].st = "settling" => z[j].stream = "none"
  BY <1>2 DEF TcpParts
<1>6. Len(z) = 1 => 1 \in DOMAIN z
  BY <1>2, LenProperties
<1>7. Len(z) = 1 /\ z[1].st = "live" => t.servers[1].st = "live"
  BY <1>2, <1>6
<1>8. TcpParts(u)
  BY <1>2, <1>4, <1>5, <1>7 DEF TcpParts
<1>9. QED
  BY <1>2, <1>4, <1>8 DEF u

\* What the change does to the shares.
LEMMA PutShares ==
  ASSUME NEW t, TcpParts(t), NEW i \in DOMAIN t.servers, NEW e \in ServerType
  PROVE  /\ Shares(t) \in Nat
         /\ (e.stream \in Retired <=> t.servers[i].stream \in Retired) =>
              Shares(Put(t, i, e)) = Shares(t)
         /\ e.stream \notin Retired /\ t.servers[i].stream \in Retired =>
              Shares(Put(t, i, e)) = Shares(t) + 1
         /\ e.stream \in Retired /\ t.servers[i].stream \notin Retired =>
              Shares(Put(t, i, e)) = Shares(t) - 1
<1> DEFINE z == [t.servers EXCEPT ![i] = e]
<1>1. t \in TcpType /\ t.servers \in Seq(ServerType) /\ t.held \in BOOLEAN
  BY DEF TcpParts, TcpType
<1>2. Put(t, i, e).servers = z /\ Put(t, i, e).held = t.held
  BY <1>1 DEF Put, TcpType
<1>3. Cardinality(SocketOwners(t.servers)) \in Nat
  BY <1>1, HoldersFinite
<1>4. /\ (e.stream \in Retired <=> t.servers[i].stream \in Retired) =>
           Cardinality(SocketOwners(z)) = Cardinality(SocketOwners(t.servers))
      /\ e.stream \notin Retired /\ t.servers[i].stream \in Retired =>
           Cardinality(SocketOwners(z)) = Cardinality(SocketOwners(t.servers)) + 1
      /\ e.stream \in Retired /\ t.servers[i].stream \notin Retired =>
           Cardinality(SocketOwners(z)) = Cardinality(SocketOwners(t.servers)) - 1
  BY <1>1, HoldersPut
<1> HIDE DEF z
<1>5. QED
  BY <1>2, <1>3, <1>4 DEF Shares

LEMMA SharesNat == ASSUME NEW t, TcpParts(t) PROVE Shares(t) \in Nat
BY HoldersFinite DEF TcpParts, TcpType, Shares

\* A change that keeps the count, which is not settling and not newly live.
LEMMA PutSound ==
  ASSUME NEW t, NEW n, TcpSound(t, n), NEW i \in DOMAIN t.servers, NEW e \in ServerType,
         e.st = "settling" => e.stream = "none",
         e.st = "live" => t.servers[i].st = "live",
         e.stream \in Retired <=> t.servers[i].stream \in Retired
  PROVE  TcpSound(Put(t, i, e), n)
<1>1. TcpParts(t) /\ t.refs = Shares(t) + n
  BY DEF TcpSound
<1>2. TcpParts(Put(t, i, e))
  BY <1>1, PutParts
<1>3. Shares(Put(t, i, e)) = Shares(t)
  BY <1>1, PutShares
<1>4. Put(t, i, e).refs = t.refs
  BY <1>1 DEF Put, TcpParts, TcpType
<1>5. QED
  BY <1>1, <1>2, <1>3, <1>4 DEF TcpSound

\* A listener closes; whoever accepts from it keeps his share.
Closing(s) == IF s.st = "closed" THEN s ELSE Down(s, "closed")

LEMMA ClosingType ==
  ASSUME NEW s \in ServerType
  PROVE  /\ Closing(s) \in ServerType /\ Closing(s).st = "closed"
         /\ Closing(s).stream \in Retired <=> s.stream \in Retired
<1>1. CASE s.st = "closed"
  BY <1>1 DEF Closing, ServerType
<1>2. CASE s.st # "closed"
  BY <1>2 DEF Closing, Down, ServerType, ServerStates, Accepts, Retired
<1>3. QED
  BY <1>1, <1>2

LEMMA CloseSound ==
  ASSUME NEW t, TcpParts(t), NEW i \in DOMAIN t.servers
  PROVE  /\ CloseServer(t, i) = Put(t, i, Closing(t.servers[i]))
         /\ TcpParts(CloseServer(t, i)) /\ Shares(CloseServer(t, i)) = Shares(t)
         /\ CloseServer(t, i).servers[i].st = "closed"
         /\ DOMAIN CloseServer(t, i).servers = DOMAIN t.servers
<1>1. t \in TcpType /\ t.servers \in Seq(ServerType) /\ t.servers[i] \in ServerType
  BY LenProperties DEF TcpParts, TcpType
<1>2. CloseServer(t, i) = Put(t, i, Closing(t.servers[i]))
  BY <1>1 DEF CloseServer, Put, Closing
<1>3. /\ Closing(t.servers[i]) \in ServerType /\ Closing(t.servers[i]).st = "closed"
      /\ Closing(t.servers[i]).stream \in Retired <=> t.servers[i].stream \in Retired
  BY <1>1, ClosingType
<1>4. QED
  BY <1>2, <1>3, PutParts, PutShares

\* What letting go of a share leaves alone.
SameNetwork(t, u) == u.broken = t.broken /\ u.fin = t.fin /\ u.held = t.held

\* An owner lets go: the last one closes the connection and the listener.
LEMMA ReleaseSound ==
  ASSUME NEW t, TcpParts(t), NEW n \in Nat, t.refs = Shares(t) + n + 1
  PROVE  TcpSound(Release(t), n) /\ SameNetwork(t, Release(t))
<1> USE DEF SameNetwork
<1>1. t \in TcpType /\ t.refs \in Nat /\ Shares(t) \in Nat /\ t.refs > 0
  BY SharesNat DEF TcpParts, TcpType
<1>2. CASE t.refs > 1
  <2> DEFINE u == [t EXCEPT !.refs = t.refs - 1]
  <2>1. Release(t) = u
    BY <1>2 DEF Release
  <2>2. /\ u \in TcpType /\ u.refs = t.refs - 1 /\ u.servers = t.servers /\ u.held = t.held
        /\ u.st = t.st /\ u.conn = t.conn /\ u.current = t.current
        /\ u.broken = t.broken /\ u.fin = t.fin
    <3>1. ASSUME NEW m \in Nat PROVE [t EXCEPT !.refs = m] \in TcpType
      BY <1>1 DEF TcpType
    <3>2. t.refs - 1 \in Nat
      BY <1>1, <1>2
    <3>3. u \in TcpType
      BY <3>1, <3>2
    <3>4. QED
      BY <1>1, <3>3 DEF TcpType
  <2> HIDE DEF u
  <2>3. TcpParts(u)
    BY <1>1, <1>2, <2>2 DEF TcpParts
  <2>4. Shares(u) = Shares(t)
    BY <2>2 DEF Shares
  <2>5. QED
    BY <1>1, <2>1, <2>2, <2>3, <2>4 DEF TcpSound
<1>3. CASE ~(t.refs > 1)
  <2>1. t.refs = 1 /\ Shares(t) = 0 /\ n = 0
    BY <1>1, <1>3
  <2> DEFINE v == IF t.current = 0 THEN t ELSE CloseServer(t, t.current)
             u == [v EXCEPT !.refs = 0, !.current = 0,
                            !.conn = IF v.conn = "open" THEN "closed" ELSE v.conn]
  <2>2. Release(t) = u
    BY <1>3 DEF Release
  <2>3. /\ TcpParts(v) /\ Shares(v) = 0 /\ v.held = t.held /\ v.broken = t.broken /\ v.fin = t.fin
        /\ v.current = t.current /\ v.st = t.st /\ v.conn = t.conn
        /\ Len(v.servers) = 1 => v.servers[1].st # "live"
    <3>1. CASE t.current = 0
      BY <2>1, <3>1 DEF TcpParts
    <3>2. CASE t.current # 0
      <4>1. t.servers \in Seq(ServerType) /\ t.current \in DOMAIN t.servers
        BY <3>2, LenProperties DEF TcpParts, TcpType
      <4>2. /\ v = Put(t, t.current, Closing(t.servers[t.current]))
            /\ TcpParts(v) /\ Shares(v) = Shares(t) /\ v.servers[t.current].st = "closed"
        BY <3>2, <4>1, CloseSound
      <4>3. /\ v.held = t.held /\ v.broken = t.broken /\ v.fin = t.fin
            /\ v.current = t.current /\ v.st = t.st /\ v.conn = t.conn
        BY <1>1, <4>2 DEF Put, TcpType
      <4> HIDE DEF v
      <4>4. Len(v.servers) = 1 /\ v.servers[1].st = "live" => v.current = 1
        BY <4>2 DEF TcpParts
      <4>5. QED
        BY <2>1, <4>2, <4>3, <4>4
    <3>3. QED
      BY <3>1, <3>2
  <2>4. v \in TcpType
    BY <2>3 DEF TcpParts
  <2> HIDE DEF v
  <2>5. /\ u \in TcpType /\ u.refs = 0 /\ u.current = 0 /\ u.servers = v.servers
        /\ u.held = v.held /\ u.st = v.st /\ u.broken = v.broken /\ u.fin = v.fin
        /\ u.conn = IF v.conn = "open" THEN "closed" ELSE v.conn
    BY <2>4 DEF TcpType, Conns
  <2> HIDE DEF u
  <2>6. Len(v.servers) \in Nat
    BY <2>4, LenProperties DEF TcpType
  <2>7. TcpParts(u)
    BY <2>3, <2>5, <2>6 DEF TcpParts
  <2>8. Shares(u) = 0
    BY <2>3, <2>5 DEF Shares
  <2>9. QED
    BY <2>1, <2>2, <2>3, <2>5, <2>7, <2>8 DEF TcpSound
<1>4. QED
  BY <1>2, <1>3

\* An accept stream is over: its share goes with it.
LEMMA AcceptOverSound ==
  ASSUME NEW t, NEW n \in Nat, TcpSound(t, n), NEW i \in DOMAIN t.servers,
         t.servers[i].stream \notin Retired
  PROVE  TcpSound(AcceptOver(t, i), n) /\ SameNetwork(t, AcceptOver(t, i))
<1> DEFINE e == [t.servers[i] EXCEPT !.stream = "over"]
           u == Put(t, i, e)
<1>1. /\ TcpParts(t) /\ t.refs = Shares(t) + n /\ t \in TcpType
      /\ t.servers \in Seq(ServerType) /\ t.servers[i] \in ServerType
  BY LenProperties DEF TcpSound, TcpParts, TcpType
<1>2. e \in ServerType /\ e.stream = "over" /\ e.st = t.servers[i].st /\ e.st # "settling"
  <2>1. t.servers[i].st # "settling"
    BY <1>1 DEF TcpParts, Retired
  <2>2. QED
    BY <1>1, <2>1 DEF ServerType, Accepts
<1>3. AcceptOver(t, i) = Release(u)
  BY <1>1 DEF AcceptOver, Put
<1> HIDE DEF e
<1>4. TcpParts(u)
  BY <1>1, <1>2, PutParts
<1>5. Shares(u) = Shares(t) - 1 /\ Shares(t) \in Nat
  BY <1>1, <1>2, PutShares DEF Retired
<1>6. u.refs = t.refs /\ SameNetwork(t, u)
  BY <1>1 DEF Put, TcpType, SameNetwork
<1> HIDE DEF u
<1>7. u.refs = Shares(u) + n + 1
  BY <1>1, <1>5, <1>6
<1>8. QED
  BY <1>3, <1>4, <1>6, <1>7, ReleaseSound DEF SameNetwork

LEMMA PumpsNat == PumpsSound => Pumps \in Nat
BY DEF Pumps

LEMMA TcpInitInv == TcpBegins => TcpInv
<1> SUFFICES ASSUME TcpBegins PROVE TcpInv
  OBVIOUS
<1>1. PICK accepted \in BOOLEAN :
        tcp = [st |-> IF accepted THEN "connected" ELSE "unbound", held |-> TRUE, refs |-> 1,
               conn |-> IF accepted THEN "open" ELSE "none", broken |-> FALSE, fin |-> FALSE,
               ready |-> 0, servers |-> <<>>, current |-> 0, offered |-> 0, carried |-> 0]
  BY DEF TcpBegins
<1>2. tcp \in TcpType
  BY <1>1 DEF TcpType, TcpStates, Conns
<1>3. SocketOwners(tcp.servers) = {} /\ Shares(tcp) = 1
  BY <1>1, FS_EmptySet DEF SocketOwners, Shares
<1>4. TcpParts(tcp)
  BY <1>1, <1>2 DEF TcpParts
<1>5. PumpsSound /\ Pumps = 0
  BY DEF TcpBegins, PumpsSound, SenderType, ReceiverType, Tellings, FuturesTold, Pumps, Retired
<1>6. QED
  BY <1>1, <1>3, <1>4, <1>5 DEF TcpInv, TcpSound

\* What the invariant gives a step.
LEMMA TcpTyped ==
  ASSUME TcpInv
  PROVE  /\ TcpSound(tcp, Pumps) /\ TcpParts(tcp) /\ tcp \in TcpType /\ PumpsSound
         /\ tcp.refs = Shares(tcp) + Pumps /\ Pumps \in Nat /\ Shares(tcp) \in Nat
         /\ tcp.servers \in Seq(ServerType)
         /\ \A i \in DOMAIN tcp.servers : tcp.servers[i] \in ServerType
BY SharesNat, PumpsNat, LenProperties DEF TcpInv, TcpSound, TcpParts, TcpType

\* A step of the socket and its listeners touches no pump.
LEMMA OnlyTcpInv ==
  ASSUME TcpInv, OnlyTcp(tcp'), TcpSound(tcp', Pumps),
         tcp.broken => tcp'.broken, tcp.fin => tcp'.fin
  PROVE  TcpInv'
<1>1. sender' = sender /\ receiver' = receiver /\ Pumps' = Pumps
  BY DEF OnlyTcp, Pumps
<1>2. PumpsSound'
  BY <1>1, TcpTyped DEF PumpsSound, FuturesTold
<1>3. QED
  BY <1>1, <1>2 DEF TcpInv

\* The handle, and the dial.
LEMMA HandleInv ==
  ASSUME TcpInv, TcpDispose \/ TcpBind \/ TcpConnect \/ DialFails \/ DialSucceeds
  PROVE  TcpInv'
<1>1. /\ TcpParts(tcp) /\ tcp \in TcpType /\ tcp.refs = Shares(tcp) + Pumps
      /\ Pumps \in Nat /\ Shares(tcp) \in Nat
  BY TcpTyped
<1>2. ASSUME NEW t, t \in TcpType, t.servers = tcp.servers, t.current = tcp.current,
             t.refs = tcp.refs, SameNetwork(tcp, t),
             ~t.held => t.st \notin {"unbound", "bound", "connecting"},
             t.refs = 0 => t.conn # "open",
             t.st = "connected" /\ t.refs > 0 => t.conn = "open",
             t.conn = "dialing" => t.st # "connected",
             OnlyTcp(t)
      PROVE  TcpInv'
  <2>1. TcpParts(t)
    BY <1>1, <1>2 DEF TcpParts
  <2>2. Shares(t) = Shares(tcp)
    BY <1>2 DEF Shares, SameNetwork
  <2>3. TcpSound(t, Pumps) /\ tcp' = t
    BY <1>1, <1>2, <2>1, <2>2 DEF TcpSound, OnlyTcp
  <2>4. QED
    BY <1>2, <2>3, OnlyTcpInv DEF OnlyTcp, SameNetwork
<1>3. CASE TcpBind
  <2> DEFINE t == [tcp EXCEPT !.st = "bound"]
  <2>1. OnlyTcp(t) /\ tcp.st = "unbound" /\ tcp.held
    BY <1>3 DEF TcpBind
  <2>2. /\ t \in TcpType /\ t.servers = tcp.servers /\ t.current = tcp.current
        /\ t.refs = tcp.refs /\ SameNetwork(tcp, t) /\ t.st = "bound" /\ t.conn = tcp.conn
    BY <1>1 DEF TcpType, TcpStates, SameNetwork
  <2> HIDE DEF t
  <2>3. QED
    BY <1>1, <1>2, <2>1, <2>2 DEF TcpParts, SameNetwork
<1>4. CASE TcpConnect
  <2> DEFINE t == [tcp EXCEPT !.st = "connecting", !.conn = "dialing"]
  <2>1. OnlyTcp(t) /\ tcp.held
    BY <1>4 DEF TcpConnect
  <2>2. /\ t \in TcpType /\ t.servers = tcp.servers /\ t.current = tcp.current
        /\ t.refs = tcp.refs /\ SameNetwork(tcp, t) /\ t.st = "connecting" /\ t.conn = "dialing"
    BY <1>1 DEF TcpType, TcpStates, Conns, SameNetwork
  <2> HIDE DEF t
  <2>3. QED
    BY <1>1, <1>2, <2>1, <2>2 DEF SameNetwork
<1>5. CASE DialFails
  <2> DEFINE t == [tcp EXCEPT !.st = "closed", !.conn = "none"]
  <2>1. OnlyTcp(t)
    BY <1>5 DEF DialFails
  <2>2. /\ t \in TcpType /\ t.servers = tcp.servers /\ t.current = tcp.current
        /\ t.refs = tcp.refs /\ SameNetwork(tcp, t) /\ t.st = "closed" /\ t.conn = "none"
    BY <1>1 DEF TcpType, TcpStates, Conns, SameNetwork
  <2> HIDE DEF t
  <2>3. QED
    BY <1>1, <1>2, <2>1, <2>2
<1>6. CASE DialSucceeds
  <2>1. CASE tcp.st = "connecting"
    <3> DEFINE t == [tcp EXCEPT !.st = "connected", !.conn = "open"]
    <3>1. OnlyTcp(t)
      BY <1>6, <2>1 DEF DialSucceeds
    <3>2. /\ t \in TcpType /\ t.servers = tcp.servers /\ t.current = tcp.current
          /\ t.refs = tcp.refs /\ SameNetwork(tcp, t) /\ t.st = "connected" /\ t.conn = "open"
      BY <1>1 DEF TcpType, TcpStates, Conns, SameNetwork
    <3> HIDE DEF t
    \* The guest has the handle while the socket connects, and it is a share.
    <3>3. tcp.held /\ tcp.refs > 0
      <4>1. tcp.held
        BY <1>1, <2>1 DEF TcpParts
      <4>2. Cardinality(SocketOwners(tcp.servers)) \in Nat
        BY <1>1, HoldersFinite DEF TcpType
      <4>3. QED
        BY <1>1, <4>1, <4>2 DEF Shares
    <3>4. QED
      BY <1>2, <3>1, <3>2, <3>3
  <2>2. CASE tcp.st # "connecting"
    <3> DEFINE t == [tcp EXCEPT !.conn = "closed"]
    <3>1. OnlyTcp(t) /\ tcp.conn = "dialing"
      BY <1>6, <2>2 DEF DialSucceeds
    <3>2. /\ t \in TcpType /\ t.servers = tcp.servers /\ t.current = tcp.current
          /\ t.refs = tcp.refs /\ SameNetwork(tcp, t) /\ t.st = tcp.st /\ t.conn = "closed"
          /\ t.held = tcp.held
      BY <1>1 DEF TcpType, TcpStates, Conns, SameNetwork
    <3> HIDE DEF t
    <3>3. QED
      BY <1>1, <1>2, <3>1, <3>2 DEF TcpParts
  <2>3. QED
    BY <2>1, <2>2
<1>7. CASE TcpDispose
  <2> DEFINE s == IF tcp.st \in {"unbound", "bound", "connecting"} THEN "closed" ELSE tcp.st
             t == [tcp EXCEPT !.held = FALSE, !.st = s]
  <2>1. tcp' = Release(t) /\ tcp.held /\ OnlyTcp(tcp')
    BY <1>7 DEF TcpDispose, OnlyTcp
  <2>2. s \in TcpStates /\ s \notin {"unbound", "bound", "connecting"} /\ (s = tcp.st \/ s = "closed")
    BY <1>1 DEF TcpType, TcpStates
  <2> HIDE DEF s
  <2>3. /\ t \in TcpType /\ t.servers = tcp.servers /\ t.current = tcp.current /\ ~t.held
        /\ t.refs = tcp.refs /\ t.st = s /\ t.conn = tcp.conn
        /\ t.broken = tcp.broken /\ t.fin = tcp.fin
    BY <1>1, <2>2 DEF TcpType
  <2> HIDE DEF t
  <2>4. TcpParts(t)
    BY <1>1, <2>2, <2>3 DEF TcpParts
  <2>5. t.refs = Shares(t) + Pumps + 1
    <3>1. Cardinality(SocketOwners(tcp.servers)) \in Nat
      BY <1>1, HoldersFinite DEF TcpType
    <3>2. QED
      BY <1>1, <2>1, <2>3, <3>1 DEF Shares
  <2>6. TcpSound(tcp', Pumps) /\ SameNetwork(t, tcp')
    BY <1>1, <2>1, <2>4, <2>5, ReleaseSound
  <2>7. QED
    BY <2>1, <2>3, <2>6, OnlyTcpInv DEF SameNetwork
<1>8. QED
  BY <1>3, <1>4, <1>5, <1>6, <1>7

\* A count of what the network did.
LEMMA Counted ==
  ASSUME NEW t, NEW n, TcpSound(t, n), NEW m \in Nat, NEW u, u = [t EXCEPT !.offered = m]
  PROVE  TcpSound(u, n) /\ SameNetwork(t, u) /\ u.servers = t.servers
<1>1. /\ u \in TcpType /\ u.servers = t.servers /\ u.current = t.current /\ u.held = t.held
      /\ u.st = t.st /\ u.refs = t.refs /\ u.conn = t.conn /\ SameNetwork(t, u)
  BY DEF TcpSound, TcpParts, TcpType, SameNetwork
<1>2. TcpParts(u) /\ Shares(u) = Shares(t)
  BY <1>1 DEF TcpSound, TcpParts, Shares
<1>3. QED
  BY <1>1, <1>2 DEF TcpSound

LEMMA PutNetwork ==
  ASSUME NEW t \in TcpType, NEW i, NEW e
  PROVE  SameNetwork(t, Put(t, i, e)) /\ Put(t, i, e).refs = t.refs
BY DEF TcpType, Put, SameNetwork

LEMMA ListenOpensInv == ASSUME TcpInv, Listen PROVE TcpInv'
<1> DEFINE e == [st |-> "settling", queue |-> 0, stream |-> "none", reader |-> TRUE]
           z == Append(tcp.servers, e)
           t == [tcp EXCEPT !.servers = z]
<1>1. /\ TcpParts(tcp) /\ tcp \in TcpType /\ tcp.refs = Shares(tcp) + Pumps
      /\ tcp.servers \in Seq(ServerType) /\ Len(tcp.servers) \in Nat
  BY TcpTyped, LenProperties
<1>2. e \in ServerType /\ e.st = "settling" /\ e.stream = "none"
  BY DEF ServerType, ServerStates, Accepts
<1>3. OnlyTcp(t)
  BY DEF Listen
<1> HIDE DEF e
<1>4. /\ z \in Seq(ServerType) /\ Len(z) = Len(tcp.servers) + 1 /\ z[Len(tcp.servers) + 1] = e
      /\ \A j \in 1..Len(tcp.servers) : z[j] = tcp.servers[j]
  BY <1>1, <1>2, AppendProperties
<1>5. /\ DOMAIN tcp.servers = 1..Len(tcp.servers) /\ DOMAIN z = 1..(Len(tcp.servers) + 1)
  BY <1>1, <1>4, LenProperties
<1> HIDE DEF z
<1>6. \A j \in DOMAIN z : (j \in DOMAIN tcp.servers /\ z[j] = tcp.servers[j]) \/ z[j] = e
  BY <1>1, <1>4, <1>5
<1>7. SocketOwners(z) = SocketOwners(tcp.servers)
  <2>1. DOMAIN tcp.servers \subseteq DOMAIN z
    BY <1>1, <1>5
  <2>2. \A j \in DOMAIN tcp.servers : z[j] = tcp.servers[j]
    BY <1>4, <1>5
  <2>3. QED
    BY <1>2, <1>6, <2>1, <2>2 DEF SocketOwners, Retired
<1>8. /\ t \in TcpType /\ t.servers = z /\ t.current = tcp.current /\ t.held = tcp.held
      /\ t.refs = tcp.refs /\ t.conn = tcp.conn /\ t.st = tcp.st /\ SameNetwork(tcp, t)
  BY <1>1, <1>4 DEF TcpType, SameNetwork
<1> HIDE DEF t
<1>9. TcpParts(t)
  <2>1. \A j \in DOMAIN z : z[j].st = "settling" => z[j].stream = "none"
    BY <1>1, <1>2, <1>6 DEF TcpParts
  <2>2. tcp.current \in 0..Len(z)
    BY <1>1, <1>4 DEF TcpParts
  <2>3. Len(z) = 1 => z[1].st = "settling"
    BY <1>1, <1>2, <1>4
  <2>4. QED
    BY <1>1, <1>8, <2>1, <2>2, <2>3 DEF TcpParts
<1>10. Shares(t) = Shares(tcp)
  BY <1>7, <1>8 DEF Shares
<1>11. QED
  BY <1>1, <1>3, <1>8, <1>9, <1>10, OnlyTcpInv DEF OnlyTcp, SameNetwork, TcpSound

\* How the listener that listen opened settles.
LEMMA ListenInv ==
  ASSUME TcpInv, NEW i \in Listening, ListenFails(i) \/ ListenSettles(i)
  PROVE  TcpInv'
<1>1. /\ TcpSound(tcp, Pumps) /\ TcpParts(tcp) /\ tcp \in TcpType
      /\ tcp.refs = Shares(tcp) + Pumps /\ Pumps \in Nat /\ Shares(tcp) \in Nat
      /\ tcp.servers \in Seq(ServerType) /\ i \in DOMAIN tcp.servers
      /\ tcp.servers[i] \in ServerType
  BY TcpTyped DEF Listening
<1>3. CASE ListenFails(i)
  <2> DEFINE u == CloseServer(tcp, i)
             t == [u EXCEPT !.st = "closed"]
  <2>1. /\ TcpParts(u) /\ Shares(u) = Shares(tcp) /\ u \in TcpType
        /\ u = Put(tcp, i, Closing(tcp.servers[i]))
    BY <1>1, CloseSound DEF TcpParts
  <2>2. u.refs = tcp.refs /\ SameNetwork(tcp, u)
    BY <1>1, <2>1, PutNetwork
  <2> HIDE DEF u
  <2>3. /\ t \in TcpType /\ t.servers = u.servers /\ t.current = u.current /\ t.held = u.held
        /\ t.refs = u.refs /\ t.conn = u.conn /\ t.st = "closed" /\ SameNetwork(u, t)
    BY <2>1 DEF TcpType, TcpStates, SameNetwork
  <2>4. OnlyTcp(t)
    BY <1>3 DEF ListenFails, u
  <2> HIDE DEF t
  <2>5. TcpParts(t) /\ Shares(t) = Shares(u)
    BY <2>1, <2>3 DEF TcpParts, Shares
  <2>6. TcpSound(t, Pumps) /\ SameNetwork(tcp, t)
    BY <1>1, <2>1, <2>2, <2>3, <2>5 DEF TcpSound, SameNetwork
  <2>7. QED
    BY <2>4, <2>6, OnlyTcpInv DEF OnlyTcp, SameNetwork
<1>4. CASE ListenSettles(i)
  <2> DEFINE e == [tcp.servers[i] EXCEPT !.st = "live", !.stream = "pulled"]
             z == [tcp.servers EXCEPT ![i] = e]
             t == [tcp EXCEPT !.servers = z, !.st = "listening", !.current = i,
                              !.refs = tcp.refs + 1]
  <2>1. tcp.servers[i].st = "settling" /\ tcp.servers[i].stream = "none"
    BY <1>1, <1>4 DEF ListenSettles, TcpParts
  <2>2. e \in ServerType /\ e.st = "live" /\ e.stream = "pulled"
    BY <1>1 DEF ServerType, ServerStates, Accepts
  <2>3. OnlyTcp(t)
    BY <1>1, <1>4 DEF ListenSettles
  <2> HIDE DEF e
  <2>4. /\ z \in Seq(ServerType) /\ Len(z) = Len(tcp.servers) /\ DOMAIN z = DOMAIN tcp.servers
        /\ z[i] = e /\ \A j \in DOMAIN tcp.servers : j # i => z[j] = tcp.servers[j]
    BY <1>1, <2>2, ServerPut
  <2>5. Cardinality(SocketOwners(z)) = Cardinality(SocketOwners(tcp.servers)) + 1
    BY <1>1, <2>1, <2>2, HoldersPut DEF Retired
  <2>6. /\ Len(tcp.servers) \in Nat /\ DOMAIN tcp.servers = 1..Len(tcp.servers)
        /\ i \in Nat /\ i \in 0..Len(tcp.servers) /\ (Len(tcp.servers) = 1 => i = 1)
    BY <1>1, LenProperties
  <2> HIDE DEF z
  <2>7. /\ t \in TcpType /\ t.servers = z /\ t.current = i /\ t.held = tcp.held
        /\ t.refs = tcp.refs + 1 /\ t.conn = tcp.conn /\ t.st = "listening" /\ SameNetwork(tcp, t)
    <3>1. ASSUME NEW m \in Nat
          PROVE  [tcp EXCEPT !.servers = z, !.st = "listening", !.current = i, !.refs = m]
                   \in TcpType
      BY <1>1, <2>4, <2>6 DEF TcpType, TcpStates
    <3>2. tcp.refs + 1 \in Nat
      BY <1>1
    <3>3. t \in TcpType
      BY <3>1, <3>2
    <3>4. QED
      BY <1>1, <3>3 DEF TcpType, SameNetwork
  <2> HIDE DEF t
  <2>8. TcpParts(t)
    <3>1. t.refs > 0 /\ t.refs # 0
      BY <1>1, <2>7
    <3>2. \A j \in DOMAIN z : z[j].st = "settling" => z[j].stream = "none"
      BY <1>1, <2>2, <2>4 DEF TcpParts
    <3>3. t \in TcpType /\ t.current \in 0..Len(t.servers)
      BY <2>4, <2>6, <2>7
    <3>4. \A j \in DOMAIN t.servers : t.servers[j].st = "settling" => t.servers[j].stream = "none"
      BY <2>7, <3>2
    <3>5. /\ t.st = "listening" /\ t.refs # 0
          /\ Len(t.servers) = 1 /\ t.servers[1].st = "live" => t.current = 1
      BY <2>4, <2>6, <2>7, <3>1
    <3>6. QED
      BY <3>3, <3>4, <3>5 DEF TcpParts
  <2>9. t.refs = Shares(t) + Pumps
    <3>1. Cardinality(SocketOwners(tcp.servers)) \in Nat
      BY <1>1, HoldersFinite
    <3>2. QED
      BY <1>1, <2>5, <2>7, <3>1 DEF Shares
  <2>10. QED
    BY <2>3, <2>7, <2>8, <2>9, OnlyTcpInv DEF OnlyTcp, SameNetwork, TcpSound
<1>5. QED
  BY <1>3, <1>4

\* The accept streams and their listeners.
LEMMA AcceptInv ==
  ASSUME TcpInv, NEW i \in Listening,
         \/ ConnectionComes(i) \/ ServerFails(i) \/ AcceptSkips(i) \/ AcceptTaken(i)
         \/ AcceptLeft(i) \/ GeneratorSteps(i)
  PROVE  TcpInv'
<1> DEFINE s == tcp.servers[i]
<1>1. /\ TcpSound(tcp, Pumps) /\ TcpParts(tcp) /\ tcp \in TcpType
      /\ Pumps \in Nat /\ tcp.servers \in Seq(ServerType) /\ i \in DOMAIN tcp.servers
      /\ s \in ServerType /\ (s.st = "settling" => s.stream = "none")
  BY TcpTyped DEF Listening, TcpParts
<1>2. ASSUME NEW e \in ServerType, e.st = "settling" => e.stream = "none",
             e.st = "live" => s.st = "live", e.stream \in Retired <=> s.stream \in Retired,
             NEW t, TcpSound(t, Pumps), SameNetwork(tcp, t), t.servers = tcp.servers,
             OnlyTcp(Put(t, i, e))
      PROVE  TcpInv'
  <2>1. TcpSound(Put(t, i, e), Pumps)
    BY <1>1, <1>2, PutSound
  <2>2. SameNetwork(t, Put(t, i, e))
    BY <1>2, PutNetwork DEF TcpSound, TcpParts
  <2>3. QED
    BY <1>2, <2>1, <2>2, OnlyTcpInv DEF OnlyTcp, SameNetwork
<1>3. tcp.offered + 1 \in Nat /\ SameNetwork(tcp, tcp)
  BY <1>1 DEF TcpType, SameNetwork
<1> DEFINE c == [tcp EXCEPT !.offered = tcp.offered + 1]
<1>4. TcpSound(c, Pumps) /\ SameNetwork(tcp, c) /\ c.servers = tcp.servers
  BY <1>1, <1>3, Counted
<1>5. CASE ConnectionComes(i)
  <2>1. s.st = "live" /\ OnlyTcp(Put(c, i, Offer(s)))
    BY <1>1, <1>5 DEF ConnectionComes, Put
  <2>2. /\ Offer(s) \in ServerType /\ Offer(s).st = s.st
        /\ Offer(s).stream \in Retired <=> s.stream \in Retired
    <3>1. s.queue + 1 \in Nat
      BY <1>1 DEF ServerType
    <3> HIDE DEF s
    <3>2. QED
      BY <1>1, <3>1 DEF Offer, ServerType, Accepts, Retired
  <2>3. QED
    BY <1>2, <1>4, <2>1, <2>2
<1>6. CASE ServerFails(i)
  <2>1. s.st = "live" /\ OnlyTcp(Put(tcp, i, Down(s, "failed")))
    BY <1>1, <1>6 DEF ServerFails, Put
  <2> HIDE DEF s
  <2>2. /\ Down(s, "failed") \in ServerType /\ Down(s, "failed").st = "failed"
        /\ Down(s, "failed").stream \in Retired <=> s.stream \in Retired
    BY <1>1 DEF Down, ServerType, ServerStates, Accepts, Retired
  <2>3. QED
    BY <1>1, <1>2, <1>3, <2>1, <2>2
<1>7. CASE AcceptSkips(i)
  <2> DEFINE e == [s EXCEPT !.stream = "pulled"]
  <2>1. s.stream = "accepting" /\ OnlyTcp(Put(c, i, e))
    BY <1>1, <1>7 DEF AcceptSkips, Put
  <2>2. /\ e \in ServerType /\ e.st = s.st /\ e.stream = "pulled"
    BY <1>1 DEF ServerType, Accepts
  <2> HIDE DEF e, c
  <2>3. QED
    BY <1>1, <1>2, <1>4, <2>1, <2>2 DEF Retired
<1>8. CASE AcceptTaken(i)
  <2> DEFINE e == [s EXCEPT !.stream = "pulled"]
  <2>1. s.stream = "yielded" /\ OnlyTcp(Put(tcp, i, e))
    BY <1>1, <1>8 DEF AcceptTaken, Put
  <2>2. /\ e \in ServerType /\ e.st = s.st /\ e.stream = "pulled"
    BY <1>1 DEF ServerType, Accepts
  <2> HIDE DEF e
  <2>3. QED
    BY <1>1, <1>2, <1>3, <2>1, <2>2 DEF Retired
<1>9. CASE AcceptNext(i)
  <2>1. s.stream = "pulled" /\ OnlyTcp(Put(tcp, i, Accepting(s)))
    BY <1>1, <1>9 DEF AcceptNext, Put
  <2>2. /\ Accepting(s) \in ServerType /\ Accepting(s).st = s.st
        /\ Accepting(s).stream \notin Retired
    <3>1. CASE s.st = "live" /\ s.queue > 0
      <4>1. s.queue - 1 \in Nat
        BY <1>1, <3>1 DEF ServerType
      <4> HIDE DEF s
      <4>2. QED
        BY <1>1, <3>1, <4>1 DEF Accepting, ServerType, Accepts, Retired
    <3>2. CASE ~(s.st = "live" /\ s.queue > 0)
      <4> HIDE DEF s
      <4>1. QED
        BY <1>1, <3>2 DEF Accepting, ServerType, Accepts, Retired
    <3>3. QED
      BY <3>1, <3>2
  <2> HIDE DEF s
  <2>3. QED
    BY <1>1, <1>2, <1>3, <2>1, <2>2 DEF Retired, s
<1>10. ASSUME NEW t, TcpSound(t, Pumps), SameNetwork(tcp, t), i \in DOMAIN t.servers,
              t.servers[i].stream \notin Retired, OnlyTcp(AcceptOver(t, i))
       PROVE  TcpInv'
  <2>1. TcpSound(AcceptOver(t, i), Pumps) /\ SameNetwork(t, AcceptOver(t, i))
    BY <1>1, <1>10, AcceptOverSound
  <2>2. QED
    BY <1>10, <2>1, OnlyTcpInv DEF OnlyTcp, SameNetwork
<1>11. CASE AcceptEnds(i) \/ StragglerDestroyed(i)
  <2>1. s.stream \in {"rejected", "yielded"} /\ OnlyTcp(AcceptOver(tcp, i))
    BY <1>11 DEF AcceptEnds, StragglerDestroyed
  <2>2. QED
    BY <1>1, <1>3, <1>10, <2>1 DEF Retired
<1>12. CASE AcceptLeft(i)
  <2> DEFINE e == [s EXCEPT !.reader = FALSE]
             t == Put(tcp, i, e)
  <2>1. Left(tcp, i) = t
    BY <1>1 DEF Left, Put
  <2>2. /\ e \in ServerType /\ e.st = s.st /\ e.stream = s.stream
    BY <1>1 DEF ServerType
  <2>3. s.stream \notin Retired
    BY <1>12 DEF AcceptLeft, Retired
  <2>4. OnlyTcp(IF s.stream = "yielded" THEN AcceptOver(Left(tcp, i), i)
                ELSE CloseServer(Left(tcp, i), i))
    BY <1>12 DEF AcceptLeft
  <2> HIDE DEF e
  <2>5. TcpSound(t, Pumps) /\ SameNetwork(tcp, t)
    <3>1. TcpSound(Put(tcp, i, e), Pumps)
      BY <1>1, <2>2, PutSound
    <3>2. QED
      BY <1>1, <3>1, PutNetwork
  <2>6. i \in DOMAIN t.servers /\ t.servers[i] = e
    BY <1>1, <2>2, PutParts
  <2> HIDE DEF t
  <2>7. CASE s.stream = "yielded"
    BY <1>10, <2>1, <2>2, <2>3, <2>4, <2>5, <2>6, <2>7
  <2>8. CASE s.stream # "yielded"
    <3>1. OnlyTcp(CloseServer(t, i)) /\ TcpParts(t)
      BY <2>1, <2>4, <2>5, <2>8 DEF TcpSound
    <3>2. /\ CloseServer(t, i) = Put(t, i, Closing(t.servers[i]))
          /\ TcpParts(CloseServer(t, i)) /\ Shares(CloseServer(t, i)) = Shares(t)
      BY <2>6, <3>1, CloseSound
    <3>3. CloseServer(t, i).refs = t.refs /\ SameNetwork(t, CloseServer(t, i))
      BY <3>1, <3>2, PutNetwork DEF TcpParts
    <3>4. TcpSound(CloseServer(t, i), Pumps)
      BY <2>5, <3>2, <3>3 DEF TcpSound
    <3>5. QED
      BY <2>5, <3>1, <3>3, <3>4, OnlyTcpInv DEF OnlyTcp, SameNetwork
  <2>9. QED
    BY <2>7, <2>8
<1>13. QED
  BY <1>5, <1>6, <1>7, <1>8, <1>9, <1>11, <1>12 DEF GeneratorSteps

\* The peer.
LEMMA PeerInv == ASSUME TcpInv, Peer PROVE TcpInv'
<1>1. /\ TcpSound(tcp, Pumps) /\ tcp \in TcpType /\ tcp.ready + 1 \in Nat
      /\ tcp.carried + 1 \in Nat
  BY TcpTyped DEF TcpType
<1>2. ASSUME NEW t \in TcpType, OnlyTcp(t), t.servers = tcp.servers, t.current = tcp.current,
             t.held = tcp.held, t.st = tcp.st, t.refs = tcp.refs, t.conn = tcp.conn,
             tcp.broken => t.broken, tcp.fin => t.fin
      PROVE  TcpInv'
  <2>1. TcpParts(t) /\ Shares(t) = Shares(tcp)
    BY <1>1, <1>2 DEF TcpSound, TcpParts, Shares
  <2>2. TcpSound(t, Pumps) /\ tcp' = t
    BY <1>1, <1>2, <2>1 DEF TcpSound, OnlyTcp
  <2>3. QED
    BY <1>2, <2>2, OnlyTcpInv DEF OnlyTcp
<1>3. CASE OnlyTcp([tcp EXCEPT !.ready = tcp.ready + 1, !.carried = tcp.carried + 1])
  <2> DEFINE t == [tcp EXCEPT !.ready = tcp.ready + 1, !.carried = tcp.carried + 1]
  <2>1. /\ t \in TcpType /\ t.servers = tcp.servers /\ t.current = tcp.current
        /\ t.held = tcp.held /\ t.st = tcp.st /\ t.refs = tcp.refs /\ t.conn = tcp.conn
        /\ t.broken = tcp.broken /\ t.fin = tcp.fin
    BY <1>1 DEF TcpType
  <2>2. OnlyTcp(t)
    BY <1>3
  <2> HIDE DEF t
  <2>3. QED
    BY <1>2, <2>1, <2>2
<1>4. CASE OnlyTcp([tcp EXCEPT !.fin = TRUE])
  <2> DEFINE t == [tcp EXCEPT !.fin = TRUE]
  <2>1. /\ t \in TcpType /\ t.servers = tcp.servers /\ t.current = tcp.current
        /\ t.held = tcp.held /\ t.st = tcp.st /\ t.refs = tcp.refs /\ t.conn = tcp.conn
        /\ t.broken = tcp.broken /\ t.fin
    BY <1>1 DEF TcpType
  <2>2. OnlyTcp(t)
    BY <1>4
  <2> HIDE DEF t
  <2>3. QED
    BY <1>2, <2>1, <2>2
<1>5. CASE OnlyTcp([tcp EXCEPT !.broken = TRUE])
  <2> DEFINE t == [tcp EXCEPT !.broken = TRUE]
  <2>1. /\ t \in TcpType /\ t.servers = tcp.servers /\ t.current = tcp.current
        /\ t.held = tcp.held /\ t.st = tcp.st /\ t.refs = tcp.refs /\ t.conn = tcp.conn
        /\ t.broken /\ t.fin = tcp.fin
    BY <1>1 DEF TcpType
  <2>2. OnlyTcp(t)
    BY <1>5
  <2> HIDE DEF t
  <2>3. QED
    BY <1>2, <2>1, <2>2
<1>6. QED
  BY <1>3, <1>4, <1>5 DEF Peer

\* A pump starts: its share of the socket, on an open connection.
LEMMA Retained ==
  ASSUME TcpInv, Connected, NEW u, u = [tcp EXCEPT !.refs = tcp.refs + 1]
  PROVE  TcpSound(u, Pumps + 1) /\ SameNetwork(tcp, u)
<1>1. /\ TcpParts(tcp) /\ tcp \in TcpType /\ tcp.refs = Shares(tcp) + Pumps
      /\ Pumps \in Nat /\ Shares(tcp) \in Nat
  BY TcpTyped
<1>2. /\ u \in TcpType /\ u.servers = tcp.servers /\ u.current = tcp.current
      /\ u.held = tcp.held /\ u.st = tcp.st /\ u.refs = tcp.refs + 1 /\ u.conn = tcp.conn
      /\ SameNetwork(tcp, u)
  <2>1. ASSUME NEW m \in Nat PROVE [tcp EXCEPT !.refs = m] \in TcpType
    BY <1>1 DEF TcpType
  <2>2. tcp.refs + 1 \in Nat
    BY <1>1
  <2>3. u \in TcpType
    BY <2>1, <2>2
  <2>4. QED
    BY <1>1, <2>3 DEF TcpType, SameNetwork
<1>3. u.refs > 0 /\ u.refs # 0
  BY <1>1, <1>2
<1>4. TcpParts(u) /\ Shares(u) = Shares(tcp)
  BY <1>1, <1>2, <1>3 DEF TcpParts, Shares, Connected
<1>5. u.refs = Shares(u) + (Pumps + 1)
  BY <1>1, <1>2, <1>4
<1>6. QED
  BY <1>2, <1>4, <1>5 DEF TcpSound

\* A pump is over: its share goes with it.
LEMMA PumpOver ==
  ASSUME TcpInv, NEW n \in Nat, Pumps = n + 1
  PROVE  TcpSound(Release(tcp), n) /\ SameNetwork(tcp, Release(tcp))
<1>1. TcpParts(tcp) /\ tcp.refs = Shares(tcp) + Pumps /\ Shares(tcp) \in Nat
  BY TcpTyped
<1>2. tcp.refs = Shares(tcp) + n + 1
  BY <1>1
<1>3. QED
  BY <1>1, <1>2, ReleaseSound

\* The send pump.
LEMMA SenderInv ==
  ASSUME TcpInv, NEW n \in 1..2,
         \/ SendStarts \/ GuestWrites(n) \/ WriteSettles(n) \/ SendFails \/ GuestEnds
         \/ FinSettles \/ InputFails
  PROVE  TcpInv'
<1>1. /\ TcpSound(tcp, Pumps) /\ PumpsSound /\ receiver' = receiver
      /\ sender \in SenderType /\ receiver \in ReceiverType /\ FuturesTold
      /\ sender.chunk \in Nat /\ sender.chunks + 1 \in Nat /\ n \in Nat
  BY TcpTyped DEF PumpsSound, SendStarts, GuestWrites, WriteSettles, SendFails, GuestEnds,
     FinSettles, InputFails, SendOver, SenderType
<1>2. CASE SendStarts
  <2>1. /\ sender' = [sender EXCEPT !.at = "reading"] /\ sender.at = "none"
        /\ tcp' = [tcp EXCEPT !.refs = tcp.refs + 1] /\ Connected
    BY <1>2 DEF SendStarts
  <2>2. TcpSound(tcp', Pumps + 1) /\ SameNetwork(tcp, tcp')
    BY <2>1, Retained
  <2>3. /\ sender' \in SenderType /\ sender'.at = "reading" /\ sender'.told = sender.told
        /\ sender'.chunk = sender.chunk /\ sender'.input = sender.input
    BY <1>1, <2>1 DEF SenderType
  <2>4. Pumps' = Pumps + 1
    BY <1>1, <2>1, <2>3 DEF Pumps, Retired
  <2>5. sender.chunk = 0
    BY <1>1, <2>1 DEF PumpsSound
  <2>6. PumpsSound'
    BY <1>1, <2>1, <2>2, <2>3, <2>5 DEF PumpsSound, FuturesTold, SameNetwork
  <2>7. QED
    BY <2>2, <2>4, <2>6 DEF TcpInv
<1>3. ASSUME tcp' = tcp, sender' \in SenderType, sender'.told = sender.told,
             sender.at \notin Retired, sender'.at \notin Retired,
             sender'.at = "reading" => sender'.chunk = 0,
             sender'.at = "closing" => sender'.chunk = 0 /\ sender'.input = "ended"
      PROVE  TcpInv'
  <2>1. Pumps' = Pumps
    BY <1>1, <1>3 DEF Pumps
  <2>2. PumpsSound'
    BY <1>1, <1>3 DEF PumpsSound, FuturesTold, Retired
  <2>3. QED
    BY <1>1, <1>3, <2>1, <2>2 DEF TcpInv
<1>4. CASE GuestWrites(n)
  <2>1. /\ sender' \in SenderType /\ sender'.at = "writing" /\ sender'.told = sender.told
    BY <1>1, <1>4 DEF GuestWrites, SenderType
  <2>2. QED
    BY <1>3, <1>4, <2>1 DEF GuestWrites, Retired
<1>5. CASE WriteSettles(n)
  <2>1. sender.chunk - n \in Nat /\ (n = sender.chunk => sender.chunk - n = 0)
    BY <1>1, <1>5 DEF WriteSettles
  <2>2. /\ sender' \in SenderType /\ sender'.told = sender.told
        /\ sender'.chunk = sender.chunk - n
        /\ sender'.at = IF n = sender.chunk THEN "reading" ELSE "writing"
    <3>1. ASSUME NEW m \in Nat, NEW a \in {"reading", "writing"}
          PROVE  [sender EXCEPT !.chunk = m, !.at = a] \in SenderType
      BY <1>1 DEF SenderType
    <3> DEFINE a == IF n = sender.chunk THEN "reading" ELSE "writing"
               m == sender.chunk - n
    <3>2. sender' = [sender EXCEPT !.chunk = m, !.at = a] /\ a \in {"reading", "writing"}
      BY <1>5 DEF WriteSettles
    <3>3. m \in Nat
      BY <2>1
    <3> HIDE DEF a, m
    <3>4. sender' \in SenderType /\ sender'.told = sender.told /\ sender'.chunk = m /\ sender'.at = a
      BY <1>1, <3>1, <3>2, <3>3 DEF SenderType
    <3>5. QED
      BY <3>4 DEF a, m
  <2>3. QED
    BY <1>3, <1>5, <2>1, <2>2 DEF WriteSettles, Retired
<1>6. CASE GuestEnds
  <2>1. /\ sender' \in SenderType /\ sender'.at = "closing" /\ sender'.told = sender.told
        /\ sender'.chunk = sender.chunk /\ sender'.input = "ended" /\ sender.chunk = 0
    BY <1>1, <1>6 DEF GuestEnds, SenderType, PumpsSound
  <2>2. QED
    BY <1>3, <1>6, <2>1 DEF GuestEnds, Retired
<1>7. ASSUME NEW told \in {"ok", "err", "rejected"}, SendOver(told), sender.at \notin Retired,
             told = "ok" => sender.at = "closing", told = "err" => tcp.broken
      PROVE  TcpInv'
  <2> DEFINE m == IF receiver.at \in Retired THEN 0 ELSE 1
  <2>1. m \in Nat /\ Pumps = m + 1
    BY <1>7 DEF Pumps
  <2>2. TcpSound(Release(tcp), m) /\ SameNetwork(tcp, Release(tcp)) /\ tcp' = Release(tcp)
    BY <1>7, <2>1, PumpOver DEF SendOver
  <2>3. /\ sender' \in SenderType /\ sender'.at = "over" /\ sender'.told = told
        /\ sender'.chunk = sender.chunk
        /\ told # "err" => sender'.input = sender.input
    BY <1>1, <1>7 DEF SendOver, SenderType, Tellings
  <2>4. Pumps' = m
    BY <1>1, <2>3 DEF Pumps, Retired
  <2>5. PumpsSound'
    BY <1>1, <1>7, <2>2, <2>3 DEF PumpsSound, FuturesTold, SameNetwork
  <2>6. QED
    BY <2>2, <2>4, <2>5 DEF TcpInv
<1>8. CASE SendFails \/ FinSettles \/ InputFails
  <2>1. sender.at \in {"writing", "closing", "reading"}
    BY <1>8 DEF SendFails, FinSettles, InputFails
  <2>2. QED
    BY <1>7, <1>8, <2>1 DEF SendFails, FinSettles, InputFails, Retired
<1>9. QED
  BY <1>2, <1>4, <1>5, <1>6, <1>8

\* The receive generator.
LEMMA ReceiverInv ==
  ASSUME TcpInv, TcpReceive \/ ReceiverSteps \/ ReceiveTaken \/ ReceiveLeft
  PROVE  TcpInv'
<1>1. /\ TcpSound(tcp, Pumps) /\ PumpsSound /\ sender' = sender
      /\ sender \in SenderType /\ receiver \in ReceiverType /\ FuturesTold
  BY TcpTyped DEF PumpsSound, TcpReceive, ReceiverSteps, ReceiveFails, ReceiveChunk,
     ReceiveEnds, ReceiveOver, ReceiveTaken, ReceiveLeft
<1>2. CASE TcpReceive
  <2>1. /\ receiver' = [receiver EXCEPT !.at = "reading"] /\ receiver.at = "none"
        /\ tcp' = [tcp EXCEPT !.refs = tcp.refs + 1] /\ Connected
    BY <1>2 DEF TcpReceive
  <2>2. TcpSound(tcp', Pumps + 1) /\ SameNetwork(tcp, tcp')
    BY <2>1, Retained
  <2>3. /\ receiver' \in ReceiverType /\ receiver'.at = "reading" /\ receiver'.told = receiver.told
        /\ receiver'.reader = receiver.reader
    BY <1>1, <2>1 DEF ReceiverType
  <2>4. Pumps' = Pumps + 1
    BY <1>1, <2>1, <2>3 DEF Pumps, Retired
  <2>5. PumpsSound'
    BY <1>1, <2>1, <2>2, <2>3 DEF PumpsSound, FuturesTold, SameNetwork
  <2>6. QED
    BY <2>2, <2>4, <2>5 DEF TcpInv
<1>3. ASSUME TcpSound(tcp', Pumps), tcp.broken => tcp'.broken, tcp.fin => tcp'.fin,
             receiver' \in ReceiverType, receiver'.told = receiver.told,
             receiver.at \notin Retired, receiver'.at \notin Retired
      PROVE  TcpInv'
  <2>1. Pumps' = Pumps
    BY <1>1, <1>3 DEF Pumps
  <2>2. receiver'.told = "none"
    BY <1>1, <1>3 DEF FuturesTold, Retired
  <2>3. PumpsSound'
    BY <1>1, <1>3, <2>2 DEF PumpsSound, FuturesTold, Retired
  <2>4. QED
    BY <1>3, <2>1, <2>3 DEF TcpInv
<1>4. ASSUME receiver.at \notin Retired, receiver' \in ReceiverType, receiver'.at = "over",
             receiver'.told \in {"ok", "err"}, tcp' = Release(tcp),
             receiver'.told = "ok" => tcp.fin \/ ~receiver'.reader,
             receiver'.told = "err" => tcp.broken
      PROVE  TcpInv'
  <2> DEFINE m == IF sender.at \in Retired THEN 0 ELSE 1
  <2>1. m \in Nat /\ Pumps = m + 1
    BY <1>4 DEF Pumps
  <2>2. TcpSound(tcp', m) /\ SameNetwork(tcp, tcp')
    BY <1>4, <2>1, PumpOver
  <2>3. Pumps' = m
    BY <1>1, <1>4 DEF Pumps, Retired
  <2>4. PumpsSound'
    BY <1>1, <1>4, <2>2 DEF PumpsSound, FuturesTold, SameNetwork
  <2>5. QED
    BY <2>2, <2>3, <2>4 DEF TcpInv
<1>5. ASSUME NEW told \in {"ok", "err"}, ReceiveOver(told), receiver.at = "reading",
             told = "ok" => tcp.fin \/ ~receiver.reader, told = "err" => tcp.broken
      PROVE  TcpInv'
  <2>1. /\ receiver' \in ReceiverType /\ receiver'.at = "over" /\ receiver'.told = told
        /\ receiver'.reader = receiver.reader /\ tcp' = Release(tcp)
    BY <1>1, <1>5 DEF ReceiveOver, ReceiverType, Tellings
  <2>2. QED
    BY <1>4, <1>5, <2>1 DEF Retired
<1>6. CASE ReceiveFails
  BY <1>5, <1>6 DEF ReceiveFails
<1>7. CASE ReceiveEnds
  BY <1>5, <1>7 DEF ReceiveEnds
<1>8. CASE ReceiveChunk
  <2>1. CASE receiver.reader
    <3>1. /\ receiver' \in ReceiverType /\ receiver'.at = "yielded"
          /\ receiver'.told = receiver.told /\ receiver.at = "reading"
          /\ tcp' = [tcp EXCEPT !.ready = tcp.ready - 1] /\ tcp.ready > 0
      BY <1>1, <1>8, <2>1 DEF ReceiveChunk, ReceiverType
    <3>2. tcp \in TcpType /\ tcp.ready - 1 \in Nat
      BY <3>1, TcpTyped DEF TcpType
    <3>3. /\ tcp' \in TcpType /\ tcp'.servers = tcp.servers /\ tcp'.current = tcp.current
          /\ tcp'.held = tcp.held /\ tcp'.st = tcp.st /\ tcp'.refs = tcp.refs
          /\ tcp'.conn = tcp.conn /\ tcp'.broken = tcp.broken /\ tcp'.fin = tcp.fin
      <4>1. ASSUME NEW m \in Nat PROVE [tcp EXCEPT !.ready = m] \in TcpType
        BY <3>2 DEF TcpType
      <4>2. tcp' \in TcpType
        BY <3>1, <3>2, <4>1
      <4>3. QED
        BY <3>1, <3>2, <4>2 DEF TcpType
    <3>4. TcpSound(tcp', Pumps)
      BY <1>1, <3>3 DEF TcpSound, TcpParts, Shares
    <3>5. QED
      BY <1>3, <3>1, <3>3, <3>4 DEF Retired
  <2>2. CASE ~receiver.reader
    BY <1>5, <1>8, <2>2 DEF ReceiveChunk
  <2>3. QED
    BY <2>1, <2>2
<1>9. CASE ReceiveTaken
  <2>1. /\ receiver' \in ReceiverType /\ receiver'.at = "reading"
        /\ receiver'.told = receiver.told /\ receiver.at = "yielded" /\ tcp' = tcp
    BY <1>1, <1>9 DEF ReceiveTaken, ReceiverType
  <2>2. QED
    BY <1>1, <1>3, <2>1 DEF Retired
<1>10. CASE ReceiveLeft
  <2>1. CASE receiver.at = "yielded"
    <3>1. /\ receiver' \in ReceiverType /\ receiver'.at = "over" /\ receiver'.told = "ok"
          /\ ~receiver'.reader /\ tcp' = Release(tcp)
      <4>1. receiver' = [at |-> "over", reader |-> FALSE, told |-> "ok"] /\ tcp' = Release(tcp)
        BY <1>10, <2>1 DEF ReceiveLeft
      <4>2. QED
        BY <4>1 DEF ReceiverType, Tellings
    <3>2. QED
      BY <1>4, <2>1, <3>1 DEF Retired
  <2>2. CASE receiver.at # "yielded"
    <3>1. /\ receiver' \in ReceiverType /\ receiver'.at = receiver.at
          /\ receiver'.told = receiver.told /\ receiver.at = "reading" /\ tcp' = tcp
      BY <1>1, <1>10, <2>2 DEF ReceiveLeft, ReceiverType
    <3>2. QED
      BY <1>1, <1>3, <3>1 DEF Retired
  <2>3. QED
    BY <2>1, <2>2
<1>11. QED
  BY <1>2, <1>6, <1>7, <1>8, <1>9, <1>10 DEF ReceiverSteps

LEMMA TcpStepInv == ASSUME TcpInv, [TcpNext]_tcpVars PROVE TcpInv'
<1>1. CASE TcpNext
  BY <1>1, HandleInv, ListenOpensInv, ListenInv, AcceptInv, SenderInv, ReceiverInv, PeerInv
     DEF TcpNext
<1>2. CASE UNCHANGED tcpVars
  <2>1. tcp' = tcp /\ sender' = sender /\ receiver' = receiver
    BY <1>2 DEF tcpVars
  <2>2. Pumps' = Pumps /\ PumpsSound'
    BY <2>1, TcpTyped DEF Pumps, PumpsSound, FuturesTold
  <2>3. QED
    BY <2>1, <2>2, TcpTyped DEF TcpInv
<1>3. QED
  BY <1>1, <1>2

\* The owners of a 0.3 socket are counted, and the last one closes it; the
\* futures of its pumps tell what happened.
THEOREM SocketAccounted == TcpSpec => []SocketAccounts
<1>1. TcpInv => SocketAccounts
  <2> SUFFICES ASSUME TcpInv PROVE SocketAccounts
    OBVIOUS
  <2>1. TcpParts(tcp) /\ tcp.refs = Shares(tcp) + Pumps /\ PumpsSound
    BY TcpTyped
  <2>2. SocketOwners(tcp.servers) = {i \in Listening : tcp.servers[i].stream \notin Retired}
    BY DEF SocketOwners, Listening
  <2>3. Cardinality(SocketOwners(tcp.servers)) \in Nat
    BY TcpTyped, HoldersFinite
  <2>4. tcp.refs = Cardinality({i \in Listening : tcp.servers[i].stream \notin Retired})
                   + (IF tcp.held THEN 1 ELSE 0) + (IF sender.at \in Retired THEN 0 ELSE 1)
                   + (IF receiver.at \in Retired THEN 0 ELSE 1)
    BY <2>1, <2>2, <2>3 DEF Shares, Pumps
  <2>5. SharedOwnership
    BY <2>1, <2>4 DEF SharedOwnership, TcpParts
  <2>6. QED
    BY <2>1, <2>5 DEF SocketAccounts, PumpsSound
<1>2. TcpSpec => []TcpInv
  BY TcpInitInv, TcpStepInv, PTL DEF TcpSpec
<1>3. QED
  BY <1>1, <1>2, PTL

(* -- a UDP socket of either track ------------------------------------------ *)

Tracks == {"0.2", "0.3"}
UdpStates == {"unbound", "bind-in-progress", "bound", "closed"}
Waitings == {"idle", "linked", "refused", "parked", "got", "failed"}
UdpType == [track : Tracks, st : UdpStates, remote : AnyPeer, options : {"none", "fit", "rejected"},
            filters : BOOLEAN, stray : BOOLEAN, arrived : Nat]
DgramType == [st : {"none", "open", "failed", "closed"}, queue : Seq(Peers),
              waiters : Seq(UdpCalls), peer : AnyPeer]
CallType == [at : Waitings, peer : AnyPeer]
PairType == [remote : AnyPeer, flying : Nat, failed : BOOLEAN]

UdpTyped == /\ udp \in UdpType /\ dgram \in DgramType /\ waits \in [UdpCalls -> CallType]
            /\ pairs \in Seq(PairType)

\* The receives that wait, once each, are the parked calls, and nothing is
\* queued before them.
Parked(w) == {c \in UdpCalls : w[c].at = "parked"}
Waiters(q) == {q[i] : i \in DOMAIN q}
Once(q) == \A i, j \in DOMAIN q : q[i] = q[j] => i = j

WaitersSound(d, w) ==
  /\ Once(d.waiters) /\ Parked(w) = Waiters(d.waiters)
  /\ d.waiters # <<>> => d.queue = <<>> /\ d.st = "open"

\* A connect that has linked and not returned yet is the only one, and the
\* system's socket is connected to its peer.
Linked(w) == {c \in UdpCalls : w[c].at = "linked"}

RemoteSound ==
  /\ \A c \in Linked(waits) : /\ udp.remote = NoPeer /\ waits[c].peer # NoPeer
                              /\ dgram.st = "open" => dgram.peer = waits[c].peer
  /\ \A c, d \in Linked(waits) : c = d
  /\ On("0.3") /\ udp.remote # NoPeer /\ dgram.st = "open" => dgram.peer = udp.remote

\* What no call has reached yet, and what only one track does.
TrackSound ==
  /\ \A c \in UdpCalls : waits[c].at # "idle" => On("0.3") /\ udp.st # "unbound"
  /\ udp.st = "unbound" => udp.remote = NoPeer
  /\ udp.st = "closed" => dgram.st # "open"

PairsSound ==
  /\ pairs # <<>> => On("0.2") /\ udp.st \in {"bound", "closed"}
  /\ pairs # <<>> /\ udp.st = "bound" => pairs[Len(pairs)].remote = udp.remote

HeardSound == heard.remote # NoPeer => heard.from \subseteq {heard.remote}

\* The inductive invariant.
UdpInv == /\ UdpTyped /\ WaitersSound(dgram, waits) /\ RemoteSound /\ TrackSound
          /\ PairsSound /\ HeardSound

LEMMA WaitersAppend ==
  ASSUME NEW q \in Seq(UdpCalls), Once(q), NEW c \in UdpCalls, c \notin Waiters(q)
  PROVE  Once(Append(q, c)) /\ Waiters(Append(q, c)) = Waiters(q) \cup {c}
<1> DEFINE r == Append(q, c)
<1>1. /\ r \in Seq(UdpCalls) /\ Len(r) = Len(q) + 1 /\ r[Len(q) + 1] = c /\ Len(q) \in Nat
      /\ \A i \in 1..Len(q) : r[i] = q[i]
  BY AppendProperties, LenProperties
<1>2. DOMAIN q = 1..Len(q) /\ DOMAIN r = 1..(Len(q) + 1)
  BY <1>1, LenProperties
<1> HIDE DEF r
<1>3. \A i \in DOMAIN r : (i \in DOMAIN q /\ r[i] = q[i]) \/ (i = Len(q) + 1 /\ r[i] = c)
  BY <1>1, <1>2
<1>4. \A i \in DOMAIN q : i \in DOMAIN r /\ r[i] = q[i] /\ q[i] # c
  BY <1>1, <1>2 DEF Waiters
<1>5. Len(q) + 1 \in DOMAIN r
  BY <1>1, <1>2
<1>6. Waiters(r) = Waiters(q) \cup {c}
  BY <1>1, <1>3, <1>4, <1>5 DEF Waiters
<1>7. Once(r)
  BY <1>3, <1>4 DEF Once
<1>8. QED
  BY <1>6, <1>7 DEF r

LEMMA WaitersTail ==
  ASSUME NEW q \in Seq(UdpCalls), Once(q), q # <<>>
  PROVE  /\ Once(Tail(q)) /\ Waiters(Tail(q)) = Waiters(q) \ {Head(q)} /\ Head(q) \in Waiters(q)
         /\ Tail(q) \in Seq(UdpCalls) /\ Head(q) \in UdpCalls
<1> DEFINE r == Tail(q)
<1>1. /\ r \in Seq(UdpCalls) /\ Len(r) = Len(q) - 1 /\ Head(q) = q[1] /\ Head(q) \in UdpCalls
      /\ \A i \in 1..Len(r) : r[i] = q[i + 1] /\ Len(q) \in Nat /\ Len(q) > 0
  BY HeadTailProperties, LenProperties, EmptySeq
<1>2. DOMAIN q = 1..Len(q) /\ DOMAIN r = 1..(Len(q) - 1) /\ Len(q) \in Nat /\ Len(q) > 0
  BY <1>1, LenProperties, EmptySeq
<1> HIDE DEF r
<1>3. \A i \in DOMAIN r : i + 1 \in DOMAIN q /\ r[i] = q[i + 1] /\ i + 1 # 1
  BY <1>1, <1>2
<1>4. \A i \in DOMAIN q : i = 1 \/ (i - 1 \in DOMAIN r /\ r[i - 1] = q[i])
  <2>1. ASSUME NEW i \in DOMAIN q, i # 1 PROVE i - 1 \in DOMAIN r /\ (i - 1) + 1 = i
    BY <1>2, <2>1
  <2>2. QED
    BY <1>3, <2>1
<1>5. 1 \in DOMAIN q
  BY <1>2
<1>6. Waiters(r) = Waiters(q) \ {Head(q)}
  <2>1. ASSUME NEW i \in DOMAIN r PROVE r[i] \in Waiters(q) /\ r[i] # Head(q)
    BY <1>1, <1>3, <1>5 DEF Once, Waiters
  <2>2. ASSUME NEW i \in DOMAIN q, q[i] # Head(q) PROVE q[i] \in Waiters(r)
    BY <1>1, <1>4, <2>2 DEF Waiters
  <2>3. QED
    BY <2>1, <2>2 DEF Waiters
<1>7. Once(r)
  <2>1. ASSUME NEW i \in DOMAIN r, NEW j \in DOMAIN r, r[i] = r[j] PROVE i = j
    <3>1. i + 1 = j + 1
      BY <1>3, <2>1 DEF Once
    <3>2. QED
      BY <1>2, <3>1
  <2>2. QED
    BY <2>1 DEF Once
<1>8. QED
  BY <1>1, <1>5, <1>6, <1>7 DEF r, Waiters

\* A call that settles or goes on, other than to wait.
LEMMA CallType_At ==
  ASSUME UdpTyped, NEW c \in UdpCalls, NEW a \in Waitings, NEW p \in AnyPeer
  PROVE  [waits EXCEPT ![c] = [at |-> a, peer |-> p]] \in [UdpCalls -> CallType]
BY DEF UdpTyped, CallType

LEMMA UdpInitInv == UdpBegins => UdpInv
<1> SUFFICES ASSUME UdpBegins PROVE UdpInv
  OBVIOUS
<1>1. NoPeer \in AnyPeer /\ UdpCalls # {}
  BY UdpAssumption DEF AnyPeer
<1>2. /\ dgram.waiters = <<>> /\ dgram.queue = <<>> /\ dgram.st = "none" /\ dgram \in DgramType
  BY <1>1, EmptySeq DEF UdpBegins, NoSocket, DgramType
<1>3. waits \in [UdpCalls -> CallType] /\ \A c \in UdpCalls : waits[c].at = "idle"
  BY <1>1 DEF UdpBegins, OffCall, CallType, Waitings
<1>4. udp \in UdpType /\ udp.st = "unbound" /\ udp.remote = NoPeer
  <2> DEFINE st == {"unbound"}
             none == {NoPeer}
             unset == {"none"}
             no == {FALSE}
             zero == {0}
  <2>1. udp \in [track : Tracks, st : st, remote : none, options : unset, filters : BOOLEAN,
                stray : no, arrived : zero]
    BY DEF UdpBegins, Tracks
  <2>2. /\ st \subseteq UdpStates /\ none \subseteq AnyPeer /\ no \subseteq BOOLEAN
        /\ unset \subseteq {"none", "fit", "rejected"} /\ zero \subseteq Nat
    BY <1>1 DEF UdpStates
  <2>3. \A x \in st : x = "unbound"
    OBVIOUS
  <2>4. \A x \in none : x = NoPeer
    OBVIOUS
  <2> HIDE DEF st, none, unset, no, zero
  <2>5. udp \in UdpType /\ udp.st \in st /\ udp.remote \in none
    BY <2>1, <2>2 DEF UdpType
  <2>6. QED
    BY <2>3, <2>4, <2>5
<1>5. pairs = <<>> /\ pairs \in Seq(PairType) /\ heard.remote = NoPeer
  BY EmptySeq DEF UdpBegins
<1>6. WaitersSound(dgram, waits)
  <2>1. DOMAIN dgram.waiters = {}
    BY <1>2
  <2>2. QED
    BY <1>2, <1>3, <2>1 DEF WaitersSound, Once, Parked, Waiters
<1>7. QED
  BY <1>2, <1>3, <1>4, <1>5, <1>6
     DEF UdpInv, UdpTyped, RemoteSound, TrackSound, PairsSound, HeardSound, Linked

\* What the invariant gives a step.
LEMMA UdpParts ==
  ASSUME UdpInv
  PROVE  /\ udp \in UdpType /\ dgram \in DgramType /\ waits \in [UdpCalls -> CallType]
         /\ pairs \in Seq(PairType) /\ dgram.waiters \in Seq(UdpCalls)
         /\ dgram.queue \in Seq(Peers)
         /\ UdpTyped /\ WaitersSound(dgram, waits) /\ RemoteSound /\ TrackSound
         /\ PairsSound /\ HeardSound
         /\ NoPeer \in AnyPeer /\ NoPeer \notin Peers /\ Peers \subseteq AnyPeer
BY UdpAssumption DEF UdpInv, UdpTyped, DgramType, AnyPeer

\* A datagram goes to the first waiter, or to the queue.
LEMMA ArrivesInv == ASSUME UdpInv, NEW p \in Peers, DatagramArrives(p) PROVE UdpInv'
<1>1. /\ dgram.st = "open" /\ Message(p) /\ pairs' = pairs /\ heard' = heard
      /\ udp' = [udp EXCEPT !.arrived = udp.arrived + 1]
  BY DEF DatagramArrives
<1>2. /\ udp' \in UdpType /\ udp'.st = udp.st /\ udp'.remote = udp.remote
      /\ udp'.track = udp.track
  BY <1>1, UdpParts DEF UdpType
<1>3. /\ dgram' \in DgramType /\ dgram'.st = dgram.st /\ dgram'.peer = dgram.peer
      /\ waits' \in [UdpCalls -> CallType] /\ WaitersSound(dgram', waits')
      /\ \A c \in UdpCalls : waits'[c] = waits[c] \/ (waits[c].at = "parked" /\ waits'[c].at = "got")
  <2>1. CASE dgram.waiters # <<>>
    <3> DEFINE h == Head(dgram.waiters)
               q == Tail(dgram.waiters)
    <3>1. /\ Once(q) /\ Waiters(q) = Waiters(dgram.waiters) \ {h} /\ h \in Waiters(dgram.waiters)
          /\ q \in Seq(UdpCalls) /\ h \in UdpCalls
      BY <2>1, UdpParts, WaitersTail DEF WaitersSound
    <3>2. /\ dgram' = [dgram EXCEPT !.waiters = q]
          /\ waits' = [waits EXCEPT ![h] = [at |-> "got", peer |-> p]]
      BY <1>1, <2>1 DEF Message
    <3> HIDE DEF h, q
    <3>3. /\ dgram' \in DgramType /\ dgram'.st = dgram.st /\ dgram'.peer = dgram.peer
          /\ dgram'.waiters = q /\ dgram'.queue = dgram.queue
      BY <3>1, <3>2, UdpParts DEF DgramType
    <3>4. /\ waits' \in [UdpCalls -> CallType] /\ waits'[h].at = "got" /\ waits[h].at = "parked"
          /\ \A c \in UdpCalls : c # h => waits'[c] = waits[c]
      <4>1. [at |-> "got", peer |-> p] \in CallType
        BY UdpParts DEF CallType, Waitings
      <4>2. h \in Parked(waits)
        BY <3>1, UdpParts DEF WaitersSound
      <4>3. QED
        BY <3>1, <3>2, <4>1, <4>2, UdpParts DEF Parked
    <3>5. Parked(waits') = Parked(waits) \ {h}
      BY <3>1, <3>4 DEF Parked
    <3>6. WaitersSound(dgram', waits')
      BY <2>1, <3>1, <3>3, <3>5, UdpParts DEF WaitersSound
    <3>7. QED
      BY <3>3, <3>4, <3>6
  <2>2. CASE dgram.waiters = <<>>
    <3>1. /\ waits' = waits
          /\ dgram' = dgram \/ dgram' = [dgram EXCEPT !.queue = Append(dgram.queue, p)]
      BY <1>1, <2>2 DEF Message
    <3>2. Append(dgram.queue, p) \in Seq(Peers)
      BY UdpParts, AppendProperties
    <3>3. /\ dgram' \in DgramType /\ dgram'.st = dgram.st /\ dgram'.peer = dgram.peer
          /\ dgram'.waiters = dgram.waiters
      BY <3>1, <3>2, UdpParts DEF DgramType
    <3>4. QED
      BY <2>2, <3>1, <3>3, UdpParts DEF WaitersSound
  <2>3. QED
    BY <2>1, <2>2
<1>4. Linked(waits') = Linked(waits) /\ \A c \in Linked(waits) : waits'[c] = waits[c]
  BY <1>3 DEF Linked
<1>5. RemoteSound' /\ TrackSound'
  BY <1>2, <1>3, <1>4, UdpParts DEF RemoteSound, TrackSound, On
<1>6. PairsSound' /\ HeardSound'
  BY <1>1, <1>2, UdpParts DEF PairsSound, HeardSound, On
<1>7. QED
  BY <1>1, <1>2, <1>3, <1>5, <1>6, UdpParts DEF UdpInv, UdpTyped

\* The socket fails or closes: every receive that waits is rejected.
LEMMA RejectedSound ==
  ASSUME UdpInv, NEW st \in {"failed", "closed"}, NEW d, NEW w, w = Rejected(waits),
         d = [dgram EXCEPT !.st = st, !.waiters = <<>>]
  PROVE  /\ d \in DgramType /\ d.st = st /\ w \in [UdpCalls -> CallType]
         /\ WaitersSound(d, w) /\ Linked(w) = Linked(waits)
         /\ \A c \in UdpCalls : /\ w[c].at = "idle" <=> waits[c].at = "idle"
                                /\ w[c].peer = waits[c].peer
<1>1. d \in DgramType /\ d.st = st /\ d.waiters = <<>>
  BY UdpParts, EmptySeq DEF DgramType
<1>2. ASSUME NEW c \in UdpCalls
      PROVE  /\ w[c] \in CallType /\ w[c].at # "parked" /\ w[c].peer = waits[c].peer
             /\ w[c].at = "idle" <=> waits[c].at = "idle"
             /\ w[c].at = "linked" <=> waits[c].at = "linked"
  BY UdpParts DEF Rejected, CallType, Waitings
<1>3. w \in [UdpCalls -> CallType]
  BY <1>2 DEF Rejected
<1>4. DOMAIN d.waiters = {}
  BY <1>1
<1>5. WaitersSound(d, w)
  BY <1>1, <1>2, <1>4 DEF WaitersSound, Once, Parked, Waiters
<1>6. QED
  BY <1>1, <1>2, <1>3, <1>5 DEF Linked

LEMMA EndsInv == ASSUME UdpInv, DgramFails \/ UdpDispose PROVE UdpInv'
<1>1. CASE DgramFails
  <2>1. /\ udp' = udp /\ pairs' = pairs /\ heard' = heard /\ waits' = Rejected(waits)
        /\ dgram' = [dgram EXCEPT !.st = "failed", !.waiters = <<>>]
    BY <1>1 DEF DgramFails
  <2>2. /\ dgram' \in DgramType /\ dgram'.st = "failed" /\ waits' \in [UdpCalls -> CallType]
        /\ WaitersSound(dgram', waits') /\ Linked(waits') = Linked(waits)
        /\ \A c \in UdpCalls : /\ waits'[c].at = "idle" <=> waits[c].at = "idle"
                               /\ waits'[c].peer = waits[c].peer
    BY <2>1, RejectedSound
  <2>3. RemoteSound' /\ TrackSound' /\ PairsSound' /\ HeardSound'
    BY <2>1, <2>2, UdpParts
       DEF RemoteSound, TrackSound, PairsSound, HeardSound, On, Linked
  <2>4. QED
    BY <2>1, <2>2, <2>3, UdpParts DEF UdpInv, UdpTyped
<1>2. CASE UdpDispose
  <2>1. /\ pairs' = pairs /\ heard' = heard
        /\ udp' = [udp EXCEPT !.st = "closed", !.remote = IF On("0.2") THEN NoPeer ELSE udp.remote]
    BY <1>2 DEF UdpDispose
  <2>2. /\ udp' \in UdpType /\ udp'.st = "closed" /\ udp'.track = udp.track
        /\ udp'.remote \in {NoPeer, udp.remote}
        /\ On("0.3") => udp'.remote = udp.remote
    <3> DEFINE r == IF On("0.2") THEN NoPeer ELSE udp.remote
    <3>1. r \in AnyPeer /\ r \in {NoPeer, udp.remote} /\ (On("0.3") => r = udp.remote)
      BY UdpParts DEF UdpType, On
    <3> HIDE DEF r
    <3>2. udp' = [udp EXCEPT !.st = "closed", !.remote = r]
      BY <2>1 DEF r
    <3>3. QED
      BY <3>1, <3>2, UdpParts DEF UdpType, UdpStates
  <2>3. /\ dgram' \in DgramType /\ dgram'.st # "open" /\ waits' \in [UdpCalls -> CallType]
        /\ WaitersSound(dgram', waits') /\ Linked(waits') = Linked(waits)
        /\ \A c \in UdpCalls : /\ waits'[c].at = "idle" <=> waits[c].at = "idle"
                               /\ waits'[c].peer = waits[c].peer
    <3>1. CASE dgram.st # "none"
      <4>1. /\ dgram' = [dgram EXCEPT !.st = "closed", !.waiters = <<>>]
            /\ waits' = Rejected(waits)
        BY <1>2, <3>1 DEF UdpDispose, DgramCloses
      <4>2. QED
        BY <4>1, RejectedSound
    <3>2. CASE dgram.st = "none"
      <4>1. dgram' = dgram /\ waits' = waits
        BY <1>2, <3>2 DEF UdpDispose
      <4>2. QED
        BY <3>2, <4>1, UdpParts
    <3>3. QED
      BY <3>1, <3>2
  <2>4. RemoteSound' /\ TrackSound' /\ PairsSound' /\ HeardSound'
    BY <2>1, <2>2, <2>3, UdpParts
       DEF RemoteSound, TrackSound, PairsSound, HeardSound, On, Linked
  <2>5. QED
    BY <2>1, <2>2, <2>3, <2>4, UdpParts DEF UdpInv, UdpTyped
<1>3. QED
  BY <1>1, <1>2

\* A fresh socket of the system, under a socket that no call has reached.
LEMMA FreshDgram ==
  ASSUME UdpInv, udp.st = "unbound"
  PROVE  /\ Opened \in DgramType /\ Opened.st = "open" /\ Opened.peer = NoPeer
         /\ Opened.waiters = <<>> /\ WaitersSound(Opened, waits)
         /\ Linked(waits) = {} /\ pairs = <<>> /\ udp.remote = NoPeer
         /\ \A c \in UdpCalls : waits[c].at = "idle"
<1>1. /\ Opened \in DgramType /\ Opened.st = "open" /\ Opened.peer = NoPeer
      /\ Opened.waiters = <<>>
  <2>1. NoPeer \in AnyPeer /\ <<>> \in Seq(Peers) /\ <<>> \in Seq(UdpCalls)
    BY UdpParts, EmptySeq
  <2>2. QED
    BY <2>1 DEF Opened, NoSocket, DgramType
<1>2. \A c \in UdpCalls : waits[c].at = "idle"
  BY UdpParts DEF TrackSound
<1>3. Parked(waits) = {} /\ Linked(waits) = {}
  BY <1>2 DEF Parked, Linked
<1>4. DOMAIN Opened.waiters = {}
  BY <1>1
<1>5. WaitersSound(Opened, waits)
  BY <1>1, <1>3, <1>4 DEF WaitersSound, Once, Waiters
<1>6. pairs = <<>> /\ udp.remote = NoPeer
  BY UdpParts DEF PairsSound, TrackSound
<1>7. QED
  BY <1>1, <1>2, <1>3, <1>5, <1>6

\* Options, binds and the lookups.
LEMMA BindsInv ==
  ASSUME UdpInv, NEW o \in {"fit", "rejected"},
         SetOption(o) \/ Bind \/ SendBinds \/ UdpStartBind \/ UdpFinishBind
  PROVE  UdpInv'
<1>1. waits' = waits /\ pairs' = pairs /\ heard' = heard
  BY DEF SetOption, Bind, SendBinds, UdpStartBind, UdpFinishBind
<1>2. CASE SetOption(o) \/ UdpFinishBind
  <2>1. /\ udp' \in UdpType /\ udp'.track = udp.track /\ udp'.remote = udp.remote
        /\ dgram' = dgram
        /\ udp'.st = udp.st \/ (udp.st = "bind-in-progress" /\ udp'.st = "bound")
    BY <1>2, UdpParts DEF SetOption, UdpFinishBind, UdpType, UdpStates
  <2>2. RemoteSound' /\ TrackSound' /\ PairsSound' /\ HeardSound'
    BY <1>1, <2>1, UdpParts DEF RemoteSound, TrackSound, PairsSound, HeardSound, On, Linked
  <2>3. QED
    BY <1>1, <2>1, <2>2, UdpParts DEF UdpInv, UdpTyped
<1>3. CASE Bind \/ SendBinds \/ UdpStartBind
  <2>1. udp.st = "unbound" /\ dgram' = Opened
    BY <1>3 DEF Bind, SendBinds, UdpStartBind
  <2>2. /\ udp' \in UdpType /\ udp'.track = udp.track /\ udp'.remote = udp.remote
        /\ udp'.st \in {"unbound", "bound", "bind-in-progress"}
    <3>1. CASE udp' = [udp EXCEPT !.st = "bound"]
      BY <3>1, UdpParts DEF UdpType, UdpStates
    <3>2. CASE UdpStartBind
      <4> DEFINE s == IF Applied THEN "bind-in-progress" ELSE udp.st
                 b == udp.stray \/ dgram.st # "none"
      <4>1. udp' = [udp EXCEPT !.st = s, !.stray = b]
        BY <3>2 DEF UdpStartBind
      <4>2. s \in {"unbound", "bind-in-progress"} /\ b \in BOOLEAN
        BY <2>1, UdpParts DEF UdpType
      <4> HIDE DEF s, b
      <4>3. QED
        BY <4>1, <4>2, UdpParts DEF UdpType, UdpStates
    <3>3. QED
      BY <1>3, <3>1, <3>2 DEF Bind, SendBinds
  <2>3. RemoteSound' /\ TrackSound' /\ PairsSound' /\ HeardSound'
    BY <1>1, <2>1, <2>2, FreshDgram, UdpParts
       DEF RemoteSound, TrackSound, PairsSound, HeardSound, On
  <2>4. QED
    BY <1>1, <2>1, <2>2, <2>3, FreshDgram, UdpParts DEF UdpInv, UdpTyped
<1>4. QED
  BY <1>2, <1>3

\* A call takes the next datagram, or waits for it.
LEMMA NextSound ==
  ASSUME UdpInv, NEW c \in UdpCalls, waits[c].at \in {"idle", "got"}, NextDatagram(c)
  PROVE  /\ dgram' \in DgramType /\ dgram'.st = dgram.st /\ dgram'.peer = dgram.peer
         /\ waits' \in [UdpCalls -> CallType] /\ WaitersSound(dgram', waits')
         /\ Linked(waits') = Linked(waits)
         /\ \A d \in UdpCalls : d # c => waits'[d] = waits[d]
<1>0. c \notin Parked(waits) /\ c \notin Linked(waits)
  BY DEF Parked, Linked
<1>1. ASSUME NEW a \in {"failed", "got", "parked"}, NEW p \in AnyPeer,
             waits' = [waits EXCEPT ![c] = [at |-> a, peer |-> p]]
      PROVE  /\ waits' \in [UdpCalls -> CallType] /\ Linked(waits') = Linked(waits)
             /\ Parked(waits') = IF a = "parked" THEN Parked(waits) \cup {c} ELSE Parked(waits)
             /\ \A d \in UdpCalls : d # c => waits'[d] = waits[d]
  <2>1. [at |-> a, peer |-> p] \in CallType
    BY <1>1 DEF CallType, Waitings
  <2>2. /\ waits' \in [UdpCalls -> CallType] /\ waits'[c].at = a
        /\ \A d \in UdpCalls : d # c => waits'[d] = waits[d]
    BY <1>1, <2>1, UdpParts
  <2>3. Linked(waits') = Linked(waits)
    BY <1>0, <2>2 DEF Linked
  <2>4. a = "parked" => Parked(waits') = Parked(waits) \cup {c}
    BY <2>2 DEF Parked
  <2>5. a # "parked" => Parked(waits') = Parked(waits)
    BY <1>0, <2>2 DEF Parked
  <2>6. QED
    BY <2>2, <2>3, <2>4, <2>5
<1>2. CASE dgram.st # "open" \/ udp.st = "closed"
  <2>1. dgram' = dgram /\ waits' = [waits EXCEPT ![c] = [at |-> "failed", peer |-> NoPeer]]
    BY <1>2 DEF NextDatagram
  <2>2. /\ waits' \in [UdpCalls -> CallType] /\ Linked(waits') = Linked(waits)
        /\ Parked(waits') = Parked(waits) /\ \A d \in UdpCalls : d # c => waits'[d] = waits[d]
    BY <1>1, <2>1, UdpParts
  <2>3. QED
    BY <2>1, <2>2, UdpParts DEF WaitersSound
<1>3. CASE ~(dgram.st # "open" \/ udp.st = "closed") /\ dgram.queue # <<>>
  <2>1. /\ waits' = [waits EXCEPT ![c] = [at |-> "got", peer |-> Head(dgram.queue)]]
        /\ dgram' = [dgram EXCEPT !.queue = Tail(dgram.queue)]
    BY <1>3 DEF NextDatagram
  <2>2. Head(dgram.queue) \in AnyPeer /\ Tail(dgram.queue) \in Seq(Peers)
    BY <1>3, UdpParts, HeadTailProperties
  <2>3. /\ waits' \in [UdpCalls -> CallType] /\ Linked(waits') = Linked(waits)
        /\ Parked(waits') = Parked(waits) /\ \A d \in UdpCalls : d # c => waits'[d] = waits[d]
    BY <1>1, <2>1, <2>2
  <2>4. /\ dgram' \in DgramType /\ dgram'.st = dgram.st /\ dgram'.peer = dgram.peer
        /\ dgram'.waiters = dgram.waiters
    BY <2>1, <2>2, UdpParts DEF DgramType
  <2>5. dgram.waiters = <<>>
    BY <1>3, UdpParts DEF WaitersSound
  <2>6. QED
    BY <2>3, <2>4, <2>5, UdpParts DEF WaitersSound
<1>4. CASE ~(dgram.st # "open" \/ udp.st = "closed") /\ dgram.queue = <<>>
  <2> DEFINE q == Append(dgram.waiters, c)
  <2>1. /\ waits' = [waits EXCEPT ![c] = [at |-> "parked", peer |-> NoPeer]]
        /\ dgram' = [dgram EXCEPT !.waiters = q]
    BY <1>4 DEF NextDatagram
  <2>2. /\ waits' \in [UdpCalls -> CallType] /\ Linked(waits') = Linked(waits)
        /\ Parked(waits') = Parked(waits) \cup {c}
        /\ \A d \in UdpCalls : d # c => waits'[d] = waits[d]
    BY <1>1, <2>1, UdpParts
  <2>3. Once(q) /\ Waiters(q) = Waiters(dgram.waiters) \cup {c} /\ q \in Seq(UdpCalls)
    BY <1>0, UdpParts, WaitersAppend, AppendProperties DEF WaitersSound
  <2> HIDE DEF q
  <2>4. /\ dgram' \in DgramType /\ dgram'.st = dgram.st /\ dgram'.peer = dgram.peer
        /\ dgram'.waiters = q /\ dgram'.queue = dgram.queue
    BY <2>1, <2>3, UdpParts DEF DgramType
  <2>5. WaitersSound(dgram', waits')
    BY <1>4, <2>2, <2>3, <2>4, UdpParts DEF WaitersSound
  <2>6. QED
    BY <2>2, <2>4, <2>5
<1>5. QED
  BY <1>2, <1>3, <1>4

\* Receives: one that starts, one that returns or goes on, one that failed.
LEMMA ReceivesInv ==
  ASSUME UdpInv, NEW c \in UdpCalls, Receive(c) \/ ReceiveReturns(c) \/ CallFails(c)
  PROVE  UdpInv'
<1>1. udp' = udp /\ pairs' = pairs /\ waits[c].at \in {"idle", "got", "failed"}
  BY DEF Receive, ReceiveReturns, CallFails
<1>2. ASSUME NextDatagram(c), waits[c].at \in {"idle", "got"}, On("0.3"), udp.st # "unbound",
             heard' = heard
      PROVE  UdpInv'
  <2>1. /\ dgram' \in DgramType /\ dgram'.st = dgram.st /\ dgram'.peer = dgram.peer
        /\ waits' \in [UdpCalls -> CallType] /\ WaitersSound(dgram', waits')
        /\ Linked(waits') = Linked(waits)
        /\ \A d \in UdpCalls : d # c => waits'[d] = waits[d]
    BY <1>2, NextSound
  <2>2. \A d \in Linked(waits) : waits'[d] = waits[d]
    BY <1>2, <2>1 DEF Linked
  <2>3. RemoteSound' /\ TrackSound' /\ PairsSound' /\ HeardSound'
    BY <1>1, <1>2, <2>1, <2>2, UdpParts DEF RemoteSound, TrackSound, PairsSound, HeardSound, On
  <2>4. QED
    BY <1>1, <2>1, <2>3, UdpParts DEF UdpInv, UdpTyped
<1>3. ASSUME waits' = [waits EXCEPT ![c] = OffCall], dgram' = dgram, HeardSound',
             waits[c].at \in {"got", "failed"}
      PROVE  UdpInv'
  <2>1. /\ waits' \in [UdpCalls -> CallType] /\ waits'[c].at = "idle"
        /\ \A d \in UdpCalls : d # c => waits'[d] = waits[d]
    <3>1. OffCall \in CallType /\ OffCall.at = "idle"
      BY UdpParts DEF OffCall, CallType, Waitings
    <3>2. QED
      BY <1>3, <3>1, UdpParts
  <2>2. Parked(waits') = Parked(waits) /\ Linked(waits') = Linked(waits)
    BY <1>3, <2>1 DEF Parked, Linked
  <2>3. \A d \in Linked(waits) : waits'[d] = waits[d]
    BY <1>3, <2>1 DEF Linked
  <2>4. RemoteSound' /\ TrackSound' /\ PairsSound'
    <3>1. RemoteSound'
      BY <1>1, <1>3, <2>2, <2>3, UdpParts DEF RemoteSound, On
    <3>2. ASSUME NEW d \in UdpCalls, waits'[d].at # "idle" PROVE On("0.3") /\ udp.st # "unbound"
      BY <2>1, <3>2, UdpParts DEF TrackSound
    <3>3. TrackSound' /\ PairsSound'
      BY <1>1, <1>3, <3>2, UdpParts DEF TrackSound, PairsSound, On
    <3>4. QED
      BY <3>1, <3>3
  <2>5. QED
    BY <1>1, <1>3, <2>1, <2>2, <2>4, UdpParts DEF UdpInv, UdpTyped, WaitersSound
<1>4. CASE Receive(c)
  BY <1>2, <1>4 DEF Receive
<1>5. CASE CallFails(c)
  <2>1. HeardSound'
    BY <1>5, UdpParts DEF CallFails, HeardSound
  <2>2. QED
    BY <1>3, <1>5, <2>1 DEF CallFails
<1>6. CASE ReceiveReturns(c)
  <2>1. On("0.3") /\ udp.st # "unbound" /\ waits[c].at = "got"
    BY <1>6, UdpParts DEF ReceiveReturns, TrackSound
  <2>2. CASE udp.remote \in {NoPeer, waits[c].peer}
    <3>1. /\ heard' = [from |-> {waits[c].peer}, remote |-> udp.remote]
          /\ waits' = [waits EXCEPT ![c] = OffCall] /\ dgram' = dgram
      BY <1>6, <2>2 DEF ReceiveReturns
    <3>2. HeardSound'
      BY <2>2, <3>1 DEF HeardSound
    <3>3. QED
      BY <1>3, <2>1, <3>1, <3>2
  <2>3. CASE udp.remote \notin {NoPeer, waits[c].peer}
    BY <1>2, <1>6, <2>1, <2>3 DEF ReceiveReturns
  <2>4. QED
    BY <2>2, <2>3
<1>7. QED
  BY <1>4, <1>5, <1>6

\* connect parks until node has called back.
LEMMA ConnectInv ==
  ASSUME UdpInv, NEW c \in UdpCalls, NEW p \in Peers, NEW works \in BOOLEAN, Connect(c, p, works)
  PROVE  UdpInv'
<1> DEFINE bound == IF udp.st = "unbound" THEN Opened ELSE dgram
           linked == Links(bound) /\ works
           a == IF linked THEN "linked" ELSE "refused"
<1>1. /\ On("0.3") /\ udp.st \in {"unbound", "bound"} /\ udp.remote = NoPeer
      /\ waits[c].at = "idle" /\ udp' = [udp EXCEPT !.st = "bound"]
      /\ dgram' = IF linked THEN [bound EXCEPT !.peer = p] ELSE bound
      /\ waits' = [waits EXCEPT ![c] = [at |-> a, peer |-> p]]
      /\ pairs' = pairs /\ heard' = heard
  BY DEF Connect
<1>2. /\ bound \in DgramType /\ WaitersSound(bound, waits)
      /\ linked => bound.st = "open" /\ bound.peer = NoPeer
      /\ bound.st = "open" => \A d \in Linked(waits) : bound.peer = waits[d].peer
  <2>1. CASE udp.st = "unbound"
    BY <2>1, FreshDgram DEF Links
  <2>2. CASE udp.st # "unbound"
    BY <2>2, UdpParts DEF Links, RemoteSound
  <2>3. QED
    BY <2>1, <2>2
<1>3. /\ udp' \in UdpType /\ udp'.st = "bound" /\ udp'.remote = udp.remote
      /\ udp'.track = udp.track
  BY <1>1, UdpParts DEF UdpType, UdpStates
<1>4. a \in {"linked", "refused"} /\ (a = "linked" <=> linked) /\ p \in AnyPeer /\ p # NoPeer
  BY UdpParts
<1> HIDE DEF bound, linked, a
<1>5. /\ dgram' \in DgramType /\ dgram'.st = bound.st /\ dgram'.waiters = bound.waiters
      /\ dgram'.queue = bound.queue
      /\ dgram'.peer = IF linked THEN p ELSE bound.peer
  BY <1>1, <1>2, <1>4 DEF DgramType
<1>6. /\ waits' \in [UdpCalls -> CallType] /\ waits'[c].at = a /\ waits'[c].peer = p
      /\ \A d \in UdpCalls : d # c => waits'[d] = waits[d]
  <2>1. [at |-> a, peer |-> p] \in CallType
    BY <1>4 DEF CallType, Waitings
  <2>2. QED
    BY <1>1, <2>1, UdpParts
<1>7. Parked(waits') = Parked(waits)
  BY <1>1, <1>4, <1>6 DEF Parked
<1>8. WaitersSound(dgram', waits')
  BY <1>2, <1>5, <1>7 DEF WaitersSound
\* Where this call links, no other was linked.
<1>9. linked => Linked(waits) = {}
  <2>1. ASSUME linked, NEW d \in Linked(waits) PROVE FALSE
    <3>1. bound.peer = waits[d].peer /\ bound.peer = NoPeer
      BY <1>2, <2>1
    <3>2. waits[d].peer # NoPeer
      BY <2>1, UdpParts DEF RemoteSound
    <3>3. QED
      BY <3>1, <3>2
  <2>2. QED
    BY <2>1
<1>10. Linked(waits') = IF linked THEN {c} ELSE Linked(waits)
  <2>1. CASE linked
    BY <1>4, <1>6, <1>9, <2>1 DEF Linked
  <2>2. CASE ~linked
    BY <1>1, <1>4, <1>6, <2>2 DEF Linked
  <2>3. QED
    BY <2>1, <2>2
<1>11. RemoteSound'
  <2>1. CASE linked
    <3>1. Linked(waits') = {c} /\ dgram'.peer = p
      BY <1>5, <1>10, <2>1
    <3>2. QED
      BY <1>1, <1>3, <1>4, <1>6, <3>1 DEF RemoteSound
  <2>2. CASE ~linked
    <3>1. Linked(waits') = Linked(waits) /\ dgram'.peer = bound.peer /\ c \notin Linked(waits)
      BY <1>1, <1>5, <1>10, <2>2 DEF Linked
    <3>2. \A d \in Linked(waits) : waits'[d] = waits[d]
      BY <1>6, <3>1 DEF Linked
    <3>3. \A d, e \in Linked(waits) : d = e
      BY UdpParts DEF RemoteSound
    <3>4. \A d \in Linked(waits) : waits[d].peer # NoPeer
      BY UdpParts DEF RemoteSound
    <3>5. udp'.remote = NoPeer
      BY <1>1, <1>3
    <3>6. \A d \in Linked(waits) : dgram'.st = "open" => dgram'.peer = waits[d].peer
      BY <1>2, <1>5, <3>1
    <3>7. QED
      BY <3>1, <3>2, <3>3, <3>4, <3>5, <3>6 DEF RemoteSound
  <2>3. QED
    BY <2>1, <2>2
<1>12. TrackSound' /\ PairsSound' /\ HeardSound'
  BY <1>1, <1>3, <1>6, UdpParts DEF TrackSound, PairsSound, HeardSound, On
<1>13. QED
  BY <1>1, <1>3, <1>5, <1>6, <1>8, <1>11, <1>12, UdpParts DEF UdpInv, UdpTyped

\* node has called back: the connect returns, and the socket has its remote.
LEMMA ConnectReturnsInv == ASSUME UdpInv, NEW c \in UdpCalls, ConnectReturns(c) PROVE UdpInv'
<1>1. /\ waits[c].at \in {"linked", "refused"} /\ waits' = [waits EXCEPT ![c] = OffCall]
      /\ udp' = IF waits[c].at = "linked" THEN [udp EXCEPT !.remote = waits[c].peer] ELSE udp
      /\ dgram' = dgram /\ pairs' = pairs /\ heard' = heard
  BY DEF ConnectReturns
<1>2. On("0.3") /\ udp.st # "unbound" /\ waits[c].peer \in AnyPeer /\ pairs = <<>>
  BY <1>1, UdpParts DEF TrackSound, CallType, PairsSound, On
<1>3. /\ waits' \in [UdpCalls -> CallType] /\ waits'[c].at = "idle"
      /\ \A d \in UdpCalls : d # c => waits'[d] = waits[d]
  <2>1. OffCall \in CallType /\ OffCall.at = "idle"
    BY UdpParts DEF OffCall, CallType, Waitings
  <2>2. QED
    BY <1>1, <2>1, UdpParts
<1>4. Parked(waits') = Parked(waits) /\ Linked(waits') = Linked(waits) \ {c}
  BY <1>1, <1>3 DEF Parked, Linked
<1>5. /\ udp' \in UdpType /\ udp'.st = udp.st /\ udp'.track = udp.track
      /\ udp'.remote = IF waits[c].at = "linked" THEN waits[c].peer ELSE udp.remote
  BY <1>1, <1>2, UdpParts DEF UdpType
<1>6. RemoteSound'
  <2>1. CASE waits[c].at = "linked"
    <3>1. c \in Linked(waits)
      BY <2>1 DEF Linked
    <3>2. Linked(waits') = {}
      BY <1>4, <3>1, UdpParts DEF RemoteSound
    <3>3. dgram.st = "open" => dgram.peer = waits[c].peer
      BY <3>1, UdpParts DEF RemoteSound
    <3>4. QED
      BY <1>1, <1>5, <2>1, <3>2, <3>3 DEF RemoteSound
  <2>2. CASE waits[c].at # "linked"
    <3>1. Linked(waits') = Linked(waits) /\ udp'.remote = udp.remote
      BY <1>4, <1>5, <2>2 DEF Linked
    <3>2. \A d \in Linked(waits) : waits'[d] = waits[d]
      BY <1>3, <2>2 DEF Linked
    <3>3. QED
      BY <1>1, <1>5, <3>1, <3>2, UdpParts DEF RemoteSound, On
  <2>3. QED
    BY <2>1, <2>2
<1>7. TrackSound'
  BY <1>1, <1>2, <1>3, <1>5, UdpParts DEF TrackSound, On
<1>8. PairsSound' /\ HeardSound'
  BY <1>1, <1>2, UdpParts DEF PairsSound, HeardSound
<1>9. WaitersSound(dgram', waits')
  BY <1>1, <1>4, UdpParts DEF WaitersSound
<1>10. QED
  BY <1>1, <1>3, <1>5, <1>6, <1>7, <1>8, <1>9, UdpParts DEF UdpInv, UdpTyped

LEMMA DisconnectInv == ASSUME UdpInv, Disconnect PROVE UdpInv'
<1>1. /\ On("0.3") /\ udp.st = "bound" /\ udp.remote # NoPeer
      /\ dgram' = [dgram EXCEPT !.peer = NoPeer] /\ udp' = [udp EXCEPT !.remote = NoPeer]
      /\ waits' = waits /\ pairs' = pairs /\ heard' = heard
  BY DEF Disconnect
<1>2. /\ dgram' \in DgramType /\ dgram'.st = dgram.st /\ dgram'.waiters = dgram.waiters
      /\ dgram'.queue = dgram.queue
  BY <1>1, UdpParts DEF DgramType
<1>3. /\ udp' \in UdpType /\ udp'.st = "bound" /\ udp'.track = udp.track /\ udp'.remote = NoPeer
  BY <1>1, UdpParts DEF UdpType
<1>4. Linked(waits) = {} /\ pairs = <<>>
  BY <1>1, UdpParts DEF RemoteSound, PairsSound, On
<1>5. RemoteSound' /\ TrackSound' /\ PairsSound' /\ HeardSound' /\ WaitersSound(dgram', waits')
  BY <1>1, <1>2, <1>3, <1>4, UdpParts
     DEF RemoteSound, TrackSound, PairsSound, HeardSound, WaitersSound, On
<1>6. QED
  BY <1>1, <1>2, <1>3, <1>5, UdpParts DEF UdpInv, UdpTyped

\* stream: a new pair, for the peer that the socket now has.
LEMMA StreamInv ==
  ASSUME UdpInv, NEW p \in AnyPeer, NEW works \in BOOLEAN, Stream(p, works) PROVE UdpInv'
<1> DEFINE e == [remote |-> p, flying |-> 0, failed |-> FALSE]
<1>1. /\ On("0.2") /\ udp.st = "bound" /\ pairs' = Append(pairs, e)
      /\ udp' = [udp EXCEPT !.remote = p] /\ waits' = waits /\ heard' = heard
      /\ dgram' = dgram \/ \E r \in AnyPeer : dgram' = [dgram EXCEPT !.peer = r]
  BY UdpParts DEF Stream
<1>2. /\ udp' \in UdpType /\ udp'.st = "bound" /\ udp'.track = udp.track /\ udp'.remote = p
  BY <1>1, UdpParts DEF UdpType
<1>3. /\ dgram' \in DgramType /\ dgram'.st = dgram.st /\ dgram'.waiters = dgram.waiters
      /\ dgram'.queue = dgram.queue
  BY <1>1, UdpParts DEF DgramType
<1>4. e \in PairType /\ e.remote = p
  BY DEF PairType
<1> HIDE DEF e
<1>5. /\ pairs' \in Seq(PairType) /\ Len(pairs') = Len(pairs) + 1
      /\ pairs'[Len(pairs')] = e
  BY <1>1, <1>4, UdpParts, AppendProperties
<1>6. Linked(waits) = {} /\ ~On("0.3")
  BY <1>1, UdpParts DEF Linked, TrackSound, On
<1>7. RemoteSound' /\ TrackSound' /\ HeardSound' /\ WaitersSound(dgram', waits')
  BY <1>1, <1>2, <1>3, <1>6, UdpParts
     DEF RemoteSound, TrackSound, HeardSound, WaitersSound, On
<1>8. PairsSound'
  BY <1>1, <1>2, <1>4, <1>5 DEF PairsSound, On
<1>9. QED
  BY <1>1, <1>2, <1>3, <1>5, <1>7, <1>8, UdpParts DEF UdpInv, UdpTyped

\* The least of a set of numbers.
LEMMA LeastNat ==
  ASSUME NEW T \in SUBSET Nat, T # {}
  PROVE  \E m \in T : \A j \in Nat : j < m => j \notin T
<1> DEFINE R == OpToRel(<, Nat)
<1>1. IsWellFoundedOn(R, Nat)
  BY NatLessThanWellFounded
<1>2. \A x, y \in Nat : y < x => <<y, x>> \in R
  BY DEF OpToRel
<1> HIDE DEF R
<1>3. PICK m \in T : \A y \in T : ~(<<y, m>> \in R)
  BY <1>1, WFMin
<1>4. QED
  BY <1>2, <1>3

\* A batch has a place to stop: with max of what it looks for, or at the end.
LEMMA CutExists ==
  ASSUME NEW L \in Nat, NEW F, NEW max \in Nat
  PROVE  \E k \in 0..L :
           /\ Cardinality(F \cap 1..k) <= max
           /\ k = L \/ (Cardinality(F \cap 1..k) = max
                         /\ \A j \in 0..(k - 1) : Cardinality(F \cap 1..j) < max)
<1> DEFINE C(k) == Cardinality(F \cap 1..k)
           T == {k \in 0..L : C(k) >= max}
<1>1. ASSUME NEW k \in Nat
      PROVE  IsFiniteSet(F \cap 1..k) /\ C(k) \in Nat
  <2>1. IsFiniteSet(1..k) /\ F \cap 1..k \subseteq 1..k
    BY FS_Interval
  <2>2. QED
    BY <2>1, FS_Subset, FS_CardinalityType
<1>2. C(0) = 0
  <2>1. F \cap 1..0 = {}
    OBVIOUS
  <2>2. QED
    BY <2>1, FS_EmptySet
<1>3. ASSUME NEW k \in Nat PROVE C(k + 1) <= C(k) + 1
  <2>1. F \cap 1..(k + 1) \subseteq (F \cap 1..k) \cup {k + 1}
    OBVIOUS
  <2>2. /\ IsFiniteSet((F \cap 1..k) \cup {k + 1})
        /\ Cardinality((F \cap 1..k) \cup {k + 1}) <= C(k) + 1
    <3> DEFINE S == F \cap 1..k
    <3>1. IsFiniteSet(S) /\ Cardinality(S) \in Nat
      BY <1>1
    <3> HIDE DEF S
    <3>2. IsFiniteSet(S \cup {k + 1}) /\ Cardinality(S \cup {k + 1}) <= Cardinality(S) + 1
      BY <3>1, FS_AddElement
    <3>3. QED
      BY <3>2 DEF S
  <2>3. /\ Cardinality(F \cap 1..(k + 1)) <= Cardinality((F \cap 1..k) \cup {k + 1})
        /\ C(k + 1) \in Nat
    BY <1>1, <2>1, <2>2, FS_Subset
  <2>4. Cardinality((F \cap 1..k) \cup {k + 1}) \in Nat
    BY <2>2, FS_CardinalityType
  <2>5. QED
    BY <1>1, <2>2, <2>3, <2>4
<1>4. CASE T = {}
  <2>1. L \in 0..L /\ C(L) \in Nat
    BY <1>1
  <2>2. C(L) < max
    BY <1>4, <2>1
  <2>3. QED
    BY <2>1, <2>2
<1>5. CASE T # {}
  <2>1. PICK m \in T : \A j \in Nat : j < m => j \notin T
    <3>1. T \in SUBSET Nat
      OBVIOUS
    <3> HIDE DEF T
    <3>2. QED
      BY <1>5, <3>1, LeastNat
  <2>2. m \in 0..L /\ m \in Nat /\ C(m) \in Nat /\ C(m) >= max
    BY <1>1, <2>1
  <2>3. \A j \in 0..(m - 1) : C(j) < max
    <3>1. ASSUME NEW j \in 0..(m - 1) PROVE C(j) < max
      <4>1. j \in Nat /\ j < m /\ j \in 0..L /\ j \notin T /\ C(j) \in Nat
        BY <1>1, <2>1, <2>2
      <4>2. QED
        BY <4>1
    <3>2. QED
      BY <3>1
  <2>4. C(m) = max
    <3>1. CASE m = 0
      BY <1>2, <2>2, <3>1
    <3>2. CASE m # 0
      <4>1. m - 1 \in Nat /\ m - 1 \in 0..(m - 1) /\ (m - 1) + 1 = m
        BY <2>2, <3>2
      <4>2. C(m) <= C(m - 1) + 1 /\ C(m - 1) < max /\ C(m - 1) \in Nat
        BY <1>1, <1>3, <2>3, <4>1
      <4>3. QED
        BY <2>2, <4>2
    <3>3. QED
      BY <3>1, <3>2
  <2>5. QED
    BY <2>2, <2>3, <2>4
<1>6. QED
  BY <1>4, <1>5

LEMMA LookedBounded ==
  ASSUME UdpInv, NEW p, NEW max \in Nat
  PROVE  /\ Looked(p, max) \in 0..Len(dgram.queue)
         /\ Cardinality(From(p) \cap 1..Looked(p, max)) <= max
<1>1. Len(dgram.queue) \in Nat
  BY UdpParts, LenProperties
<1>2. \E k \in 0..Len(dgram.queue) :
        /\ Cardinality(From(p) \cap 1..k) <= max
        /\ k = Len(dgram.queue) \/ (Cardinality(From(p) \cap 1..k) = max
                  /\ \A j \in 0..(k - 1) : Cardinality(From(p) \cap 1..j) < max)
  BY <1>1, CutExists
<1>3. QED
  BY <1>2 DEF Looked

\* A batch read by the pair in use: what came from its remote.
LEMMA BatchInv ==
  ASSUME UdpInv, NEW g \in Nat, NEW max \in 1..2, ReceiveBatch(g, max) PROVE UdpInv'
<1> DEFINE k == Looked(pairs[g].remote, max)
           F == From(pairs[g].remote) \cap 1..k
<1>1. /\ On("0.2") /\ g = Len(pairs) /\ g \in DOMAIN pairs /\ udp.st = "bound"
      /\ dgram' = [dgram EXCEPT !.queue = SubSeq(dgram.queue, k + 1, Len(dgram.queue))]
      /\ heard' = [from |-> {dgram.queue[i] : i \in F}, remote |-> udp.remote]
      /\ udp' = udp /\ waits' = waits /\ pairs' = pairs
  BY DEF ReceiveBatch, LivePair
<1>2. pairs # <<>> /\ pairs[g].remote = udp.remote /\ Parked(waits) = {} /\ Linked(waits) = {}
  <2>1. pairs # <<>>
    BY <1>1
  <2>2. QED
    BY <1>1, <2>1, UdpParts DEF PairsSound, TrackSound, On, Parked, Linked
<1>3. HeardSound'
  <2>1. \A i \in F : udp.remote # NoPeer => dgram.queue[i] = udp.remote
    BY <1>2 DEF From
  <2> HIDE DEF F
  <2>2. QED
    BY <1>1, <2>1 DEF HeardSound
<1>4. k \in Nat
  <2>1. Len(dgram.queue) \in Nat
    BY UdpParts, LenProperties
  <2>2. k \in 0..Len(dgram.queue)
    <3>1. max \in Nat
      OBVIOUS
    <3>2. QED
      BY <3>1, LookedBounded
  <2>3. QED
    BY <2>1, <2>2
<1> HIDE DEF k, F
<1>5. SubSeq(dgram.queue, k + 1, Len(dgram.queue)) \in Seq(Peers)
  <2>1. dgram.queue \in Seq(Peers) /\ Len(dgram.queue) \in Nat /\ k + 1 \in Int
    BY <1>4, UdpParts, LenProperties
  <2>2. \A i \in (k + 1)..Len(dgram.queue) : dgram.queue[i] \in Peers
    <3>1. ASSUME NEW i \in (k + 1)..Len(dgram.queue) PROVE dgram.queue[i] \in Peers
      <4>1. i \in 1..Len(dgram.queue)
        BY <1>4, <2>1
      <4>2. QED
        BY <2>1, <4>1, LenProperties
    <3>2. QED
      BY <3>1
  <2>3. QED
    BY <2>1, <2>2, SubSeqProperties
<1>6. /\ dgram' \in DgramType /\ dgram'.st = dgram.st /\ dgram'.waiters = dgram.waiters
      /\ dgram'.peer = dgram.peer
  BY <1>1, <1>5, UdpParts DEF DgramType
<1>7. dgram.waiters = <<>>
  <2>1. CASE dgram.waiters # <<>>
    <3>1. Head(dgram.waiters) \in Waiters(dgram.waiters)
      BY <2>1, UdpParts, WaitersTail DEF WaitersSound
    <3>2. QED
      BY <1>2, <3>1, UdpParts DEF WaitersSound
  <2>2. QED
    BY <2>1
<1>8. WaitersSound(dgram', waits') /\ RemoteSound' /\ TrackSound' /\ PairsSound'
  BY <1>1, <1>2, <1>6, <1>7, UdpParts DEF WaitersSound, RemoteSound, TrackSound, PairsSound, On
<1>9. QED
  BY <1>1, <1>3, <1>6, <1>8, UdpParts DEF UdpInv, UdpTyped

\* The pairs' failures and sends.
LEMMA PairsInv ==
  ASSUME UdpInv, NEW g \in Nat, NEW fails \in BOOLEAN,
         TellsFailure(g) \/ SendBatch(g) \/ SendSettles(g, fails)
  PROVE  UdpInv'
<1>1. /\ g \in DOMAIN pairs /\ udp' = udp /\ dgram' = dgram /\ waits' = waits /\ heard' = heard
  BY DEF TellsFailure, SendBatch, SendSettles, LivePair
<1>2. /\ Len(pairs) \in Nat /\ DOMAIN pairs = 1..Len(pairs) /\ pairs[g] \in PairType
      /\ pairs \in Seq(PairType) /\ Len(pairs) # 0
  BY <1>1, UdpParts, LenProperties
<1>3. ASSUME NEW e \in PairType, e.remote = pairs[g].remote, pairs' = [pairs EXCEPT ![g] = e]
      PROVE  /\ pairs' \in Seq(PairType) /\ Len(pairs') = Len(pairs) /\ pairs # <<>>
             /\ pairs'[Len(pairs')].remote = pairs[Len(pairs)].remote
  <2>1. pairs' \in [1..Len(pairs) -> PairType]
    BY <1>1, <1>2, <1>3, LenProperties
  <2>2. pairs' \in Seq(PairType) /\ Len(pairs') = Len(pairs)
    BY <1>2, <2>1, SeqDef, LenProperties
  <2>3. Len(pairs) \in DOMAIN pairs
    BY <1>2
  <2>4. QED
    BY <1>1, <1>2, <1>3, <2>2, <2>3
<1>4. PICK e \in PairType : e.remote = pairs[g].remote /\ pairs' = [pairs EXCEPT ![g] = e]
  <2>1. CASE TellsFailure(g)
    <3> DEFINE e == [pairs[g] EXCEPT !.failed = FALSE]
    <3>1. e \in PairType /\ e.remote = pairs[g].remote
      BY <1>2 DEF PairType
    <3>2. pairs' = [pairs EXCEPT ![g] = e]
      BY <2>1 DEF TellsFailure
    <3>3. QED
      BY <3>1, <3>2
  <2>2. CASE SendBatch(g)
    <3> DEFINE e == [pairs[g] EXCEPT !.flying = 1]
    <3>1. e \in PairType /\ e.remote = pairs[g].remote
      BY <1>2 DEF PairType
    <3>2. pairs' = [pairs EXCEPT ![g] = e]
      BY <2>2 DEF SendBatch
    <3>3. QED
      BY <3>1, <3>2
  <2>3. CASE SendSettles(g, fails)
    <3> DEFINE e == [pairs[g] EXCEPT !.flying = 0, !.failed = pairs[g].failed \/ fails]
    <3>1. e \in PairType /\ e.remote = pairs[g].remote
      <4>1. (pairs[g].failed \/ fails) \in BOOLEAN
        BY <1>2 DEF PairType
      <4>2. QED
        BY <1>2, <4>1 DEF PairType
    <3>2. pairs' = [pairs EXCEPT ![g] = e]
      BY <1>1, <2>3 DEF SendSettles
    <3>3. QED
      BY <3>1, <3>2
  <2>4. QED
    BY <2>1, <2>2, <2>3
<1>5. /\ pairs' \in Seq(PairType) /\ pairs # <<>>
      /\ pairs'[Len(pairs')].remote = pairs[Len(pairs)].remote
  BY <1>3, <1>4
<1>6. PairsSound'
  BY <1>1, <1>5, UdpParts DEF PairsSound, On
<1>7. RemoteSound' /\ TrackSound' /\ HeardSound' /\ WaitersSound(dgram', waits')
  BY <1>1, UdpParts DEF RemoteSound, TrackSound, HeardSound, WaitersSound, On, Linked
<1>8. QED
  BY <1>1, <1>5, <1>6, <1>7, UdpParts DEF UdpInv, UdpTyped

LEMMA UdpStepInv == ASSUME UdpInv, [UdpNext \/ LookupNext]_udpVars PROVE UdpInv'
<1>1. CASE UdpNext
  <2>1. \A g \in 1..MaxPairs : g \in Nat
    BY UdpAssumption
  <2>2. QED
    BY <1>1, <2>1, ArrivesInv, EndsInv, BindsInv, ReceivesInv, ConnectInv, ConnectReturnsInv,
       DisconnectInv, StreamInv, BatchInv, PairsInv DEF UdpNext
<1>2. CASE LookupNext \/ UNCHANGED udpVars
  <2>1. udp' = udp /\ dgram' = dgram /\ waits' = waits /\ pairs' = pairs /\ heard' = heard
    BY <1>2 DEF LookupNext, Resolve, ResolverAnswers, ResolveNext, udpVars
  <2>2. RemoteSound' /\ TrackSound' /\ PairsSound' /\ HeardSound' /\ WaitersSound(dgram', waits')
    BY <2>1, UdpParts
       DEF RemoteSound, TrackSound, PairsSound, HeardSound, WaitersSound, On, Linked
  <2>3. QED
    BY <2>1, <2>2, UdpParts DEF UdpInv, UdpTyped
<1>3. QED
  BY <1>1, <1>2

\* A guest of a connected socket hears its remote only, and no receive waits in
\* vain: each is among those the next datagram, failure or close settles.
THEOREM DatagramsReachTheirReceive == UdpSpec => []DatagramsHeard
<1>1. UdpInv => DatagramsHeard
  <2> SUFFICES ASSUME UdpInv PROVE DatagramsHeard
    OBVIOUS
  <2>1. HearsItsRemote
    BY UdpParts DEF HearsItsRemote, HeardSound, RemoteSound
  <2>2. NoVainReceive
    BY UdpParts DEF NoVainReceive, WaitersSound, TrackSound, Parked, Waiters
  <2>3. QED
    BY <2>1, <2>2 DEF DatagramsHeard
<1>2. UdpSpec => []UdpInv
  BY UdpInitInv, UdpStepInv, PTL DEF UdpSpec
<1>3. QED
  BY <1>1, <1>2, PTL

(* -- an http exchange ------------------------------------------------------ *)

TrailersOf == {"pending", "none", "some", "error", "rejects"}
Codes == {"internal-error", "URI-invalid", "request-denied", "contents", "trailers",
          "read-timeout", "connection-refused", "branded"}
Told == Codes \cup {"pending", "ok", "consumer failed", "dropped"}
HolderType == [own : BOOLEAN, made : BOOLEAN, sent : BOOLEAN, consumed : BOOLEAN,
               contents : {"none", "whole", "fails"}, trailers : TrailersOf,
               transmission : Told, res : {"none", "pending", "ok", "consumer failed"}]
ReplyType == [own : BOOLEAN, consumed : BOOLEAN, reader : {"none", "reading", "yielded", "left"},
              gone : BOOLEAN, trailers : {"pending", "ok", "broken", "read-timeout"},
              reads : Nat, delivered : BOOLEAN]
SendingType == [at : {"no", "policy", "body", "trailers", "fetch", "over"},
                result : Codes \cup {"none", "ok"}]

HttpTypes ==
  /\ fieldsFree \in BOOLEAN
  /\ holders \in [Holders -> HolderType]
  /\ sending \in SendingType
  /\ transport \in {"none", "flying", "resolved", "rejected"}
  /\ body \in {"none", "open", "ended", "failed", "cancelled"}
  /\ reply \in ReplyType

\* The request r beside the send s that takes it.
RequestSound(r, s) ==
  /\ r.own = TRUE => r.made = TRUE /\ s.at = "no" /\ r.res = "none" /\ r.transmission = "pending"
  /\ s.at # "no" => r.made = TRUE /\ r.own = FALSE /\ r.res = "none"
  /\ s.at # "over" => s.result = "none"
  /\ s.at \notin {"no", "over"} => r.transmission = "pending"
  /\ s.at = "over" => s.result # "none" /\ r.transmission \in {"pending", s.result}

\* How far the send s has brought the transport t, and with it a response p
\* and the body b.
Dispatched(s, t, b, p) ==
  /\ s.at \in {"no", "policy", "body", "trailers"} => t = "none"
  /\ s.at = "fetch" => t = "flying"
  /\ t # "resolved" => b = "none" /\ p.delivered = FALSE
  /\ s.result = "ok" <=> p.delivered = TRUE

\* The response p, its reader and the body b.
ReplySound(b, p) ==
  /\ p.own = TRUE => p.delivered = TRUE /\ p.reader = "none" /\ b \in {"open", "none"}
  /\ p.reader # "none" => p.delivered = TRUE /\ p.own = FALSE
  /\ p.reader \in {"reading", "yielded"} => b = "open"
  /\ p.reader # "left" <=> p.trailers = "pending"
  /\ b = "open" => p.own = TRUE \/ p.reader \in {"reading", "yielded"}
  /\ p.reader = "left" /\ p.trailers = "ok" /\ p.gone = FALSE => b \in {"ended", "none"}

\* What was dispatched are the fields as they are, which nobody changes once
\* the request has them.
FieldsTaken ==
  /\ holders["request"].made = TRUE => fieldsFree = FALSE
  /\ transport # "none" => wire = entries /\ holders["request"].made = TRUE

HttpInv ==
  /\ HttpTypes
  /\ RequestSound(holders["request"], sending)
  /\ Dispatched(sending, transport, body, reply)
  /\ ReplySound(body, reply)
  /\ FieldsTaken

LEMMA HttpBegin == HttpBegins => HttpInv
<1> SUFFICES ASSUME HttpBegins PROVE HttpInv
  OBVIOUS
<1> USE DEF HttpBegins
<1>1. NoHolder \in HolderType
  BY DEF NoHolder, HolderType, TrailersOf, Told
<1>2. HttpTypes
  BY <1>1 DEF HttpTypes, NoReply, ReplyType, SendingType
<1>3. RequestSound(holders["request"], sending) /\ FieldsTaken
  BY DEF RequestSound, FieldsTaken, NoHolder, Holders
<1>4. Dispatched(sending, transport, body, reply) /\ ReplySound(body, reply)
  BY DEF Dispatched, ReplySound, NoReply
<1> QED
  BY <1>2, <1>3, <1>4 DEF HttpInv

\* The exchange but for its fields, options, target and timers.
LEMMA HttpSame ==
  ASSUME HttpInv, UNCHANGED <<holders, sending, transport, body, reply>>,
         fieldsFree' \in BOOLEAN, fieldsFree' = TRUE => fieldsFree = TRUE,
         transport # "none" => UNCHANGED <<wire, entries>>
  PROVE  HttpInv'
BY DEF HttpInv, HttpTypes, FieldsTaken

\* A holder is changed in one place.
LEMMA HolderChanges ==
  ASSUME HttpInv, NEW h \in Holders, NEW r \in HolderType, holders' = [holders EXCEPT ![h] = r],
         h = "request" =>
           /\ RequestSound(r, sending)
           /\ (r.made = holders[h].made) \/ (r.made = TRUE /\ fieldsFree' = FALSE),
         fieldsFree' \in {fieldsFree, FALSE},
         UNCHANGED <<entries, sending, wire, transport, body, reply>>
  PROVE  HttpInv'
<1>1. HttpTypes'
  BY DEF HttpInv, HttpTypes
<1>2. /\ holders'["request"] = IF h = "request" THEN r ELSE holders["request"]
      /\ "request" \in Holders
  BY DEF HttpInv, HttpTypes, Holders
<1>3. RequestSound(holders["request"], sending)'
  BY <1>2 DEF HttpInv
<1>4. FieldsTaken'
  BY <1>2 DEF HttpInv, HttpTypes, FieldsTaken
<1> QED
  BY <1>1, <1>3, <1>4 DEF HttpInv

LEMMA HoldersSound ==
  ASSUME HttpInv, NEW h \in Holders
  PROVE  /\ \A contents \in {"whole", "fails"}, given \in BOOLEAN :
              RequestNew(contents, given) => HttpInv'
         /\ ResponseNew("whole") => HttpInv'
         /\ \A t \in {"none", "some", "error", "rejects"} : TrailersSettle(h, t) => HttpInv'
         /\ ConsumeStored(h) => HttpInv'
         /\ DisposeHolder(h) => HttpInv'
         /\ \A r \in {"ok", "consumer failed"} : ResSettles(h, r) => HttpInv'
<1> DEFINE q == holders[h]
<1>0. /\ q \in HolderType /\ holders \in [Holders -> HolderType] /\ fieldsFree \in BOOLEAN
      /\ "request" \in Holders /\ "response" \in Holders
      /\ h = "request" => RequestSound(q, sending)
      /\ sending.at \in {"no", "policy", "body", "trailers", "fetch", "over"}
  BY DEF HttpInv, HttpTypes, Holders, SendingType
<1>1. ASSUME NEW k \in {"whole", "fails"}, NEW given \in BOOLEAN, RequestNew(k, given)
      PROVE  HttpInv'
  <2> DEFINE r == [NoHolder EXCEPT !.own = TRUE, !.made = TRUE, !.contents = k]
  <2>1. r \in HolderType /\ r.made = TRUE
    BY DEF NoHolder, HolderType, TrailersOf, Told
  <2>2. sending.at = "no" /\ sending.result = "none"
    BY <1>1, <1>0 DEF RequestNew, HttpInv, RequestSound, HolderType
  <2>3. RequestSound(r, sending)
    BY <2>2 DEF NoHolder, RequestSound
  <2> HIDE DEF r
  <2>4. QED
    BY <1>0, <1>1, <2>1, <2>3, HolderChanges DEF RequestNew, r
<1>2. ASSUME ResponseNew("whole") PROVE HttpInv'
  <2> DEFINE r == [NoHolder EXCEPT !.own = TRUE, !.made = TRUE, !.contents = "whole"]
  <2>1. r \in HolderType /\ r.made = TRUE
    BY DEF NoHolder, HolderType, TrailersOf, Told
  <2> HIDE DEF r
  <2>2. QED
    BY <1>0, <1>2, <2>1, HolderChanges DEF ResponseNew, r
<1>3. ASSUME NEW t \in {"none", "some", "error", "rejects"}, TrailersSettle(h, t) PROVE HttpInv'
  <2> DEFINE r == [q EXCEPT !.trailers = t]
  <2>1. r \in HolderType /\ r.own = q.own /\ r.made = q.made /\ r.res = q.res
        /\ r.transmission = q.transmission
    BY <1>0 DEF HolderType, TrailersOf
  <2>2. h = "request" => RequestSound(r, sending)
    BY <1>0, <2>1 DEF RequestSound
  <2>3. q.made = TRUE /\ holders' = [holders EXCEPT ![h] = r]
    BY <1>0, <1>3 DEF TrailersSettle, HolderType
  <2> HIDE DEF r
  <2>4. QED
    BY <1>0, <1>3, <2>1, <2>2, <2>3, HolderChanges DEF TrailersSettle
<1>4. ASSUME ConsumeStored(h) PROVE HttpInv'
  <2> DEFINE r == [q EXCEPT !.own = FALSE, !.consumed = TRUE, !.res = "pending"]
  <2>1. r \in HolderType /\ r.own = FALSE /\ r.made = q.made /\ r.transmission = q.transmission
    BY <1>0 DEF HolderType
  <2>2. holders' = [holders EXCEPT ![h] = r]
    BY <1>0, <1>4 DEF ConsumeStored
  <2>3. q.own = TRUE
    BY <1>0, <1>4 DEF ConsumeStored, HolderType
  <2>4. h = "request" => RequestSound(r, sending) /\ q.made = TRUE
    BY <1>0, <2>1, <2>3 DEF RequestSound
  <2> HIDE DEF r
  <2>5. QED
    BY <1>0, <1>4, <2>1, <2>2, <2>4, HolderChanges DEF ConsumeStored
<1>5. ASSUME DisposeHolder(h) PROVE HttpInv'
  <2> DEFINE told == IF q.sent \/ q.consumed THEN q.transmission
                     ELSE Settle(q.transmission, "dropped")
             r == [q EXCEPT !.own = FALSE, !.transmission = told]
  <2>1. told \in Told
    BY <1>0 DEF HolderType, Told, Settle
  <2> HIDE DEF told
  <2>2. r \in HolderType /\ r.own = FALSE /\ r.made = q.made
    BY <1>0, <2>1 DEF HolderType
  <2>3. holders' = [holders EXCEPT ![h] = r]
    BY <1>0, <1>5 DEF DisposeHolder, told
  <2>4. q.own = TRUE
    BY <1>0, <1>5 DEF DisposeHolder, HolderType
  <2>5. h = "request" => RequestSound(r, sending) /\ q.made = TRUE
    BY <1>0, <2>2, <2>4 DEF RequestSound
  <2> HIDE DEF r
  <2>6. QED
    BY <1>0, <1>5, <2>2, <2>3, <2>5, HolderChanges DEF DisposeHolder
<1>6. ASSUME NEW c \in {"ok", "consumer failed"}, ResSettles(h, c) PROVE HttpInv'
  <2> DEFINE told == Settle(q.transmission, c)
             r == [q EXCEPT !.res = c, !.transmission = told]
  <2>1. told \in Told
    BY <1>0 DEF HolderType, Told, Settle
  <2> HIDE DEF told
  <2>2. r \in HolderType /\ r.own = q.own /\ r.made = q.made
    BY <1>0, <2>1 DEF HolderType
  <2>3. holders' = [holders EXCEPT ![h] = r] /\ q.res = "pending"
    BY <1>0, <1>6 DEF ResSettles, told
  <2>4. QED
    <3>1. h = "request" => RequestSound(r, sending)
      BY <1>0, <2>2, <2>3 DEF RequestSound, HolderType
    <3> HIDE DEF r
    <3>2. QED
      BY <1>0, <1>6, <2>2, <2>3, <3>1, HolderChanges DEF ResSettles
<1> QED
  BY <1>1, <1>2, <1>3, <1>4, <1>5, <1>6

\* client.send leaves with a code: the request is the guest's no more.
LEMMA SendLeaves ==
  ASSUME HttpInv, holders["request"].own = TRUE \/ sending.at # "no", sending.at # "over",
         NEW code \in Codes \cup {"ok"}, NEW settles \in BOOLEAN, Leaves(code, settles),
         UNCHANGED <<entries, fieldsFree>>
  PROVE  /\ holders' \in [Holders -> HolderType] /\ sending' \in SendingType
         /\ RequestSound(holders["request"], sending)'
         /\ holders'["request"].made = holders["request"].made
         /\ sending'.at = "over" /\ sending'.result = code
<1> DEFINE q == holders["request"]
           told == IF settles THEN Settle(q.transmission, code) ELSE q.transmission
           r == [q EXCEPT !.own = FALSE, !.sent = TRUE, !.transmission = told]
<1>1. q \in HolderType /\ q.transmission = "pending" /\ q.made = TRUE /\ q.res = "none"
      /\ holders \in [Holders -> HolderType] /\ "request" \in Holders
  BY DEF HttpInv, HttpTypes, Holders, RequestSound
<1>2. told \in {"pending", code} /\ code \in Told /\ "pending" \in Told /\ code # "none"
  BY <1>1 DEF Settle, Told, Codes
<1>3. holders' = [holders EXCEPT !["request"] = r]
  BY <1>1 DEF Leaves
<1> HIDE DEF told
<1>4. r \in HolderType /\ r.own = FALSE /\ r.made = TRUE /\ r.res = "none" /\ r.transmission = told
  BY <1>1, <1>2 DEF HolderType
<1> HIDE DEF r
<1>5. holders' \in [Holders -> HolderType] /\ holders'["request"] = r
  BY <1>1, <1>3, <1>4
<1>6. sending' = [at |-> "over", result |-> code]
  BY DEF Leaves
<1>7. RequestSound(r, sending')
  BY <1>2, <1>4, <1>6 DEF RequestSound
<1> QED
  BY <1>1, <1>4, <1>5, <1>6, <1>7 DEF SendingType

\* It goes on to its next await.
LEMMA SendGoesOn ==
  ASSUME HttpInv, holders["request"].own = TRUE \/ sending.at # "no", sending.at # "over",
         NEW at \in {"policy", "body", "trailers", "fetch"}, GoesOn(at),
         UNCHANGED <<entries, fieldsFree>>
  PROVE  /\ holders' \in [Holders -> HolderType] /\ sending' \in SendingType
         /\ RequestSound(holders["request"], sending)'
         /\ holders'["request"].made = holders["request"].made
         /\ sending'.at = at /\ sending'.result = "none"
<1> DEFINE q == holders["request"]
           r == [q EXCEPT !.own = FALSE, !.sent = TRUE]
<1>1. q \in HolderType /\ q.transmission = "pending" /\ q.made = TRUE /\ q.res = "none"
      /\ holders \in [Holders -> HolderType] /\ "request" \in Holders
      /\ sending \in SendingType /\ sending.result = "none"
  BY DEF HttpInv, HttpTypes, Holders, RequestSound
<1>2. holders' = [holders EXCEPT !["request"] = r]
  BY <1>1 DEF GoesOn
<1>3. r \in HolderType /\ r.own = FALSE /\ r.made = TRUE /\ r.res = "none"
      /\ r.transmission = "pending"
  BY <1>1 DEF HolderType
<1> HIDE DEF r
<1>4. holders' \in [Holders -> HolderType] /\ holders'["request"] = r
  BY <1>1, <1>2, <1>3
<1>5. sending' \in SendingType /\ sending'.at = at /\ sending'.result = "none"
  BY <1>1 DEF GoesOn, SendingType
<1>6. RequestSound(r, sending')
  BY <1>3, <1>5 DEF RequestSound
<1> QED
  BY <1>1, <1>3, <1>4, <1>5, <1>6

\* A step of send before the fetch.
LEMMA SendSteps ==
  ASSUME HttpInv
  PROVE  /\ \A refused \in BOOLEAN : Send(refused) => HttpInv'
         /\ \A allowed \in BOOLEAN : PolicyAnswers(allowed) => HttpInv'
         /\ BodyCollected => HttpInv'
         /\ TrailersAwaited => HttpInv'
<1> DEFINE Stops == \E code \in Codes, settles \in BOOLEAN : Leaves(code, settles)
           Goes == \E at \in {"policy", "body", "trailers"} : GoesOn(at)
<1>1. ASSUME Stops \/ Goes, SendUnchanged, UNCHANGED <<wire, transport, timer>>,
             (holders["request"].own = TRUE /\ sending.at = "no")
             \/ sending.at \in {"policy", "body", "trailers"}
      PROVE  HttpInv'
  <2>1. /\ holders' \in [Holders -> HolderType] /\ sending' \in SendingType
        /\ RequestSound(holders["request"], sending)'
        /\ holders'["request"].made = holders["request"].made
        /\ sending'.at \in {"over", "policy", "body", "trailers"}
        /\ sending'.result \in Codes \cup {"none"}
    <3>1. CASE Stops
      BY <1>1, <3>1, SendLeaves DEF SendUnchanged, HttpInv
    <3>2. CASE Goes
      BY <1>1, <3>2, SendGoesOn DEF SendUnchanged, HttpInv
    <3>3. QED
      BY <1>1, <3>1, <3>2
  <2>2. transport = "none" /\ reply.delivered = FALSE
    BY <1>1 DEF HttpInv, Dispatched
  <2>3. Dispatched(sending, transport, body, reply)'
    BY <1>1, <2>1, <2>2 DEF Dispatched, HttpInv, SendUnchanged, Codes
  <2>4. HttpTypes' /\ FieldsTaken' /\ ReplySound(body, reply)'
    BY <1>1, <2>1, <2>2 DEF HttpInv, HttpTypes, FieldsTaken, SendUnchanged
  <2> QED
    BY <2>1, <2>3, <2>4 DEF HttpInv
<1>2. ASSUME NEW refused \in BOOLEAN, Send(refused) PROVE HttpInv'
  <2>1. holders["request"].own = TRUE
    BY <1>2 DEF Send, HttpInv, HttpTypes, Holders, HolderType
  <2>2. Stops \/ Goes
    BY <1>2 DEF Send, Codes
  <2>3. SendUnchanged /\ UNCHANGED <<wire, transport, timer>> /\ sending.at = "no"
    BY <1>2 DEF Send
  <2>4. QED
    BY <1>1, <2>1, <2>2, <2>3
<1>3. ASSUME NEW allowed \in BOOLEAN, PolicyAnswers(allowed) PROVE HttpInv'
  BY <1>1, <1>3 DEF PolicyAnswers, Codes
<1>4. ASSUME BodyCollected PROVE HttpInv'
  BY <1>1, <1>4 DEF BodyCollected, Codes
<1>5. ASSUME TrailersAwaited PROVE HttpInv'
  <2> DEFINE t == holders["request"].trailers
  <2>1. sending.at = "trailers" /\ t \in {"error", "some", "rejects", "none"}
    BY <1>5 DEF TrailersAwaited, HttpInv, HttpTypes, HolderType, TrailersOf, Holders
  <2>2. CASE t # "none"
    <3>1. Stops /\ SendUnchanged /\ UNCHANGED <<wire, transport, timer>>
      BY <1>5, <2>1, <2>2 DEF TrailersAwaited, Codes
    <3>2. QED
      BY <1>1, <2>1, <3>1
  <2>3. CASE t = "none"
    <3>1. GoesOn("fetch") /\ wire' = entries /\ transport' = "flying" /\ SendUnchanged
      BY <1>5, <2>3 DEF TrailersAwaited
    <3>2. /\ holders' \in [Holders -> HolderType] /\ sending' \in SendingType
          /\ RequestSound(holders["request"], sending)'
          /\ holders'["request"].made = holders["request"].made
          /\ sending'.at = "fetch" /\ sending'.result = "none"
      BY <2>1, <3>1, SendGoesOn DEF SendUnchanged
    <3>3. /\ transport = "none" /\ body = "none" /\ reply.delivered = FALSE
          /\ holders["request"].made = TRUE
      BY <2>1 DEF HttpInv, Dispatched, RequestSound
    <3>4. Dispatched(sending, transport, body, reply)'
      BY <3>1, <3>2, <3>3 DEF Dispatched, SendUnchanged
    <3>5. HttpTypes' /\ FieldsTaken' /\ ReplySound(body, reply)'
      BY <3>1, <3>2, <3>3 DEF HttpInv, HttpTypes, FieldsTaken, SendUnchanged
    <3>6. QED
      BY <3>2, <3>4, <3>5 DEF HttpInv
  <2>4. QED
    BY <2>1, <2>2, <2>3
<1> QED
  BY <1>2, <1>3, <1>4, <1>5

\* What the transport answers, in time or late.
LEMMA TransportSound ==
  ASSUME HttpInv
  PROVE  /\ EnvelopeTimesOut => HttpInv'
         /\ \A code \in {"connection-refused", "branded"} : FetchRejects(code) => HttpInv'
         /\ \A hasBody \in BOOLEAN : FetchResolves(hasBody) => HttpInv'
<1>0. /\ fieldsFree \in BOOLEAN /\ sending \in SendingType /\ reply \in ReplyType
      /\ holders \in [Holders -> HolderType]
      /\ RequestSound(holders["request"], sending) /\ FieldsTaken
      /\ Dispatched(sending, transport, body, reply) /\ ReplySound(body, reply)
      /\ transport \in {"none", "flying", "resolved", "rejected"}
      /\ body \in {"none", "open", "ended", "failed", "cancelled"}
  BY DEF HttpInv, HttpTypes
<1>1. ASSUME EnvelopeTimesOut PROVE HttpInv'
  <2>1. Leaves("read-timeout", TRUE) /\ sending.at = "fetch"
        /\ UNCHANGED <<entries, fieldsFree, wire, transport, body, reply>>
    BY <1>1 DEF EnvelopeTimesOut, SendUnchanged
  <2>2. /\ holders' \in [Holders -> HolderType] /\ sending' \in SendingType
        /\ RequestSound(holders["request"], sending)'
        /\ holders'["request"].made = holders["request"].made
        /\ sending'.at = "over" /\ sending'.result = "read-timeout"
    BY <2>1, SendLeaves DEF Codes
  <2>3. Dispatched(sending, transport, body, reply)'
    BY <1>0, <2>1, <2>2 DEF Dispatched, RequestSound
  <2>4. HttpTypes' /\ FieldsTaken' /\ ReplySound(body, reply)'
    BY <1>0, <2>1, <2>2 DEF HttpTypes, FieldsTaken
  <2>5. QED
    BY <2>2, <2>3, <2>4 DEF HttpInv
<1>2. ASSUME NEW code \in {"connection-refused", "branded"}, FetchRejects(code) PROVE HttpInv'
  <2>1. transport = "flying" /\ transport' = "rejected"
        /\ UNCHANGED <<entries, fieldsFree, wire, body, reply>>
    BY <1>2 DEF FetchRejects, SendUnchanged
  <2>2. /\ holders' \in [Holders -> HolderType] /\ sending' \in SendingType
        /\ RequestSound(holders["request"], sending)'
        /\ holders'["request"].made = holders["request"].made
        /\ sending'.at = "over" /\ (sending'.result = "ok" <=> sending.result = "ok")
    <3>1. CASE sending.at = "fetch"
      <4>1. Leaves(code, TRUE) /\ code \in Codes /\ code # "ok" /\ sending.result # "ok"
        BY <1>0, <1>2, <3>1 DEF FetchRejects, Codes, RequestSound
      <4>2. QED
        BY <2>1, <3>1, <4>1, SendLeaves
    <3>2. CASE sending.at # "fetch"
      <4>1. UNCHANGED <<sending, holders>>
        BY <1>2, <3>2 DEF FetchRejects
      <4>2. sending.at = "over"
        BY <1>0, <2>1, <3>2 DEF Dispatched, SendingType
      <4>3. QED
        BY <1>0, <4>1, <4>2
    <3>3. QED
      BY <3>1, <3>2
  <2>3. Dispatched(sending, transport, body, reply)'
    BY <1>0, <2>1, <2>2 DEF Dispatched
  <2>4. HttpTypes' /\ FieldsTaken' /\ ReplySound(body, reply)'
    BY <1>0, <2>1, <2>2 DEF HttpTypes, FieldsTaken
  <2>5. QED
    BY <2>2, <2>3, <2>4 DEF HttpInv
<1>3. ASSUME NEW hasBody \in BOOLEAN, FetchResolves(hasBody) PROVE HttpInv'
  <2>1. transport = "flying" /\ transport' = "resolved" /\ UNCHANGED <<entries, fieldsFree, wire>>
    BY <1>3 DEF FetchResolves
  <2>2. reply.own = FALSE /\ reply.reader = "none" /\ reply.trailers = "pending"
        /\ reply.delivered = FALSE
    BY <1>0, <2>1 DEF Dispatched, ReplySound, ReplyType
  <2>3. CASE sending.at = "fetch"
    <3>1. Leaves("ok", TRUE) /\ body' = IF hasBody THEN "open" ELSE "none"
      BY <1>3, <2>3 DEF FetchResolves
    <3>2. /\ reply' \in ReplyType /\ reply'.own = TRUE /\ reply'.delivered = TRUE
          /\ reply'.reader = "none" /\ reply'.trailers = "pending"
      BY <1>0, <1>3, <2>2, <2>3 DEF FetchResolves, ReplyType
    <3>3. /\ holders' \in [Holders -> HolderType] /\ sending' \in SendingType
          /\ RequestSound(holders["request"], sending)'
          /\ holders'["request"].made = holders["request"].made
          /\ sending'.at = "over" /\ sending'.result = "ok"
      BY <2>1, <2>3, <3>1, SendLeaves
    <3>4. Dispatched(sending, transport, body, reply)' /\ ReplySound(body, reply)'
      BY <2>1, <3>1, <3>2, <3>3 DEF Dispatched, ReplySound
    <3>5. HttpTypes' /\ FieldsTaken'
      BY <1>0, <2>1, <3>1, <3>2, <3>3 DEF HttpTypes, FieldsTaken
    <3>6. QED
      BY <3>3, <3>4, <3>5 DEF HttpInv
  <2>4. CASE sending.at # "fetch"
    <3>1. UNCHANGED <<sending, holders, reply>> /\ body' \in {"cancelled", "none"}
      BY <1>3, <2>4 DEF FetchResolves
    <3>2. sending.at = "over"
      BY <1>0, <2>1, <2>4 DEF Dispatched, SendingType
    <3>3. Dispatched(sending, transport, body, reply)' /\ ReplySound(body, reply)'
      BY <1>0, <2>1, <2>2, <3>1, <3>2 DEF Dispatched, ReplySound
    <3>4. HttpTypes' /\ FieldsTaken'
      BY <1>0, <2>1, <3>1 DEF HttpTypes, FieldsTaken
    <3>5. QED
      BY <1>0, <3>1, <3>3, <3>4 DEF HttpInv
  <2>5. QED
    BY <2>3, <2>4
<1> QED
  BY <1>1, <1>2, <1>3

\* A delivered response is taken on, with its body.
LEMMA ReplyTaken ==
  ASSUME HttpInv, NEW p \in ReplyType, reply' = p, p.delivered = reply.delivered,
         body' \in {"none", "open", "ended", "failed", "cancelled"}, ReplySound(body', p),
         reply.delivered = TRUE,
         ReadUnchanged
  PROVE  HttpInv'
<1>1. Dispatched(sending, transport, body, reply)'
  BY DEF HttpInv, Dispatched, ReadUnchanged
<1> QED
  BY <1>1 DEF HttpInv, HttpTypes, FieldsTaken, ReadUnchanged

LEMMA ReadingSound ==
  ASSUME HttpInv
  PROVE  /\ ConsumeFetch => HttpInv'
         /\ ChunkRead => HttpInv'
         /\ PullsAgain => HttpInv'
         /\ \A how \in {"ended", "failed"} : BodyEnds(how) => HttpInv'
         /\ ReadTimesOut => HttpInv'
         /\ GuestDropsBody => HttpInv'
         /\ DisposeReply => HttpInv'
<1>0. /\ reply \in ReplyType /\ ReplySound(body, reply)
      /\ body \in {"none", "open", "ended", "failed", "cancelled"}
  BY DEF HttpInv, HttpTypes
<1> USE DEF Settle, ReaderLeaves, Cancelled, ReplySound
<1>1. ASSUME ConsumeFetch PROVE HttpInv'
  <2>1. reply.own = TRUE /\ reply.trailers = "pending" /\ UNCHANGED body /\ ReadUnchanged
    BY <1>0, <1>1 DEF ConsumeFetch, ReplyType
  <2>2. /\ reply' \in ReplyType /\ reply'.own = FALSE /\ reply'.delivered = reply.delivered
        /\ body = "none" => reply'.reader = "left" /\ reply'.trailers = "ok"
        /\ body # "none" => reply'.reader = "reading" /\ reply'.trailers = "pending"
    BY <1>0, <1>1, <2>1 DEF ConsumeFetch, ReplyType
  <2>3. QED
    BY <1>0, <2>1, <2>2, ReplyTaken
<1>2. ASSUME ChunkRead PROVE HttpInv'
  <2>1. reply.reader = "reading" /\ UNCHANGED body /\ ReadUnchanged
    BY <1>2 DEF ChunkRead
  <2> DEFINE n == reply.reads + 1
  <2>2. n \in Nat /\ reply' = [reply EXCEPT !.reader = "yielded", !.reads = n]
    BY <1>0, <1>2 DEF ChunkRead, ReplyType
  <2> HIDE DEF n
  <2>3. /\ reply' \in ReplyType /\ reply'.own = reply.own /\ reply'.delivered = reply.delivered
        /\ reply'.reader = "yielded" /\ reply'.trailers = reply.trailers
    BY <1>0, <2>2 DEF ReplyType
  <2>4. QED
    BY <1>0, <2>1, <2>3, ReplyTaken
<1>3. ASSUME PullsAgain PROVE HttpInv'
  <2>1. reply.reader = "yielded" /\ ReadUnchanged
    BY <1>3 DEF PullsAgain
  <2>2. /\ reply' \in ReplyType /\ reply'.own = reply.own /\ reply'.delivered = reply.delivered
        /\ \/ /\ reply'.reader = "left" /\ reply'.gone = TRUE /\ body' = Cancelled(body)
              /\ reply'.trailers # "pending"
           \/ /\ reply'.reader = "reading" /\ reply'.trailers = reply.trailers /\ UNCHANGED body
    BY <1>0, <1>3 DEF PullsAgain, ReplyType
  <2>3. QED
    BY <1>0, <2>1, <2>2, ReplyTaken
<1>4. ASSUME NEW how \in {"ended", "failed"}, BodyEnds(how) PROVE HttpInv'
  <2>1. reply.reader = "reading" /\ body' = how /\ ReadUnchanged
    BY <1>4 DEF BodyEnds
  <2>2. /\ reply' \in ReplyType /\ reply'.own = reply.own /\ reply'.delivered = reply.delivered
        /\ reply'.reader = "left"
        /\ reply'.trailers = IF how = "ended" THEN "ok" ELSE "broken"
    BY <1>0, <1>4 DEF BodyEnds, ReplyType
  <2>3. QED
    BY <1>0, <2>1, <2>2, ReplyTaken
<1>5. ASSUME ReadTimesOut PROVE HttpInv'
  <2>1. reply.reader = "reading" /\ body' = Cancelled(body) /\ ReadUnchanged
    BY <1>5 DEF ReadTimesOut
  <2>2. /\ reply' \in ReplyType /\ reply'.own = reply.own /\ reply'.delivered = reply.delivered
        /\ reply'.reader = "left" /\ reply'.trailers = "read-timeout"
    BY <1>0, <1>5 DEF ReadTimesOut, ReplyType
  <2>3. QED
    BY <1>0, <2>1, <2>2, ReplyTaken
<1>6. ASSUME GuestDropsBody PROVE HttpInv'
  <2>1. reply.reader \in {"reading", "yielded"} /\ UNCHANGED body /\ ReadUnchanged
    BY <1>6 DEF GuestDropsBody
  <2>2. /\ reply' \in ReplyType /\ reply'.own = reply.own /\ reply'.delivered = reply.delivered
        /\ reply'.reader = reply.reader /\ reply'.trailers = reply.trailers
    BY <1>0, <1>6 DEF GuestDropsBody, ReplyType
  <2>3. QED
    BY <1>0, <2>1, <2>2, ReplyTaken
<1>7. ASSUME DisposeReply PROVE HttpInv'
  <2>1. reply.own = TRUE /\ body' = Cancelled(body) /\ ReadUnchanged
    BY <1>0, <1>7 DEF DisposeReply, ReplyType
  <2>2. /\ reply' \in ReplyType /\ reply'.own = FALSE /\ reply'.delivered = reply.delivered
        /\ reply'.reader = reply.reader /\ reply'.trailers = reply.trailers
    BY <1>0, <1>7 DEF DisposeReply, ReplyType
  <2>3. QED
    BY <1>0, <2>1, <2>2, ReplyTaken
<1> QED
  BY <1>1, <1>2, <1>3, <1>4, <1>5, <1>6, <1>7

\* The setters, of fields, options and target, and the timer that is armed again.
LEMMA SettersSound ==
  ASSUME HttpInv
  PROVE  /\ \A e : FieldsAppend(e) => HttpInv'
         /\ \A name, cased, values : FieldsSet(name, cased, values) => HttpInv'
         /\ \A name : FieldsDelete(name) => HttpInv'
         /\ \A which, t : SetTimeout(which, t) => HttpInv'
         /\ \A s : SetScheme(s) => HttpInv'
         /\ \A x : SetAuthority(x) => HttpInv'
         /\ TimerRearms => HttpInv'
<1>1. fieldsFree \in BOOLEAN /\ (fieldsFree = TRUE => transport = "none")
  BY DEF HttpInv, HttpTypes, FieldsTaken
<1>2. ASSUME NEW e, FieldsAppend(e) PROVE HttpInv'
  BY <1>1, <1>2, HttpSame DEF FieldsAppend, FieldsUnchanged
<1>3. ASSUME NEW name, NEW cased, NEW values, FieldsSet(name, cased, values) PROVE HttpInv'
  <2>1. fieldsFree = TRUE /\ FieldsUnchanged
    BY <1>1, <1>3 DEF FieldsSet
  <2>2. QED
    BY <1>1, <2>1, HttpSame DEF FieldsUnchanged
<1>4. ASSUME NEW name, FieldsDelete(name) PROVE HttpInv'
  BY <1>1, <1>4, HttpSame DEF FieldsDelete, FieldsUnchanged
<1>5. ASSUME NEW which, NEW t, SetTimeout(which, t) PROVE HttpInv'
  BY <1>1, <1>5, HttpSame DEF SetTimeout
<1>6. ASSUME NEW s, SetScheme(s) PROVE HttpInv'
  BY <1>1, <1>6, HttpSame DEF SetScheme
<1>7. ASSUME NEW x, SetAuthority(x) PROVE HttpInv'
  BY <1>1, <1>7, HttpSame DEF SetAuthority
<1>8. ASSUME TimerRearms PROVE HttpInv'
  BY <1>1, <1>8, HttpSame DEF TimerRearms
<1> QED
  BY <1>2, <1>3, <1>4, <1>5, <1>6, <1>7, <1>8

LEMMA HttpStep == HttpInv /\ [HttpNext]_httpVars => HttpInv'
<1> SUFFICES ASSUME HttpInv, [HttpNext]_httpVars PROVE HttpInv'
  OBVIOUS
<1>1. CASE UNCHANGED httpVars
  BY <1>1, HttpSame DEF httpVars, HttpInv, HttpTypes
<1>2. CASE HttpNext
  <2> DEFINE ByFields == \/ \E name \in FieldNames, cased \in Casings :
                             \/ \E valid \in BOOLEAN : FieldsAppend(FieldEntry(name, cased, valid))
                             \/ FieldsSet(name, cased, <<FieldEntry(name, cased, TRUE)>>)
                         \/ \E name \in FieldNames : FieldsDelete(name)
             BySetters == \/ \E which \in {"first", "between"}, t \in Timeouts : SetTimeout(which, t)
                          \/ \E s \in {"HTTP", "other"} : SetScheme(s)
                          \/ \E x \in {"valid", "malformed"} : SetAuthority(x)
                          \/ TimerRearms
             ByHolders == \/ \E contents \in {"whole", "fails"}, given \in BOOLEAN :
                               RequestNew(contents, given)
                          \/ ResponseNew("whole")
                          \/ \E t \in {"none", "some", "error", "rejects"}, h \in Holders :
                               TrailersSettle(h, t)
                          \/ \E h \in Holders : ConsumeStored(h) \/ DisposeHolder(h)
                          \/ \E h \in Holders, r \in {"ok", "consumer failed"} : ResSettles(h, r)
             BySend == \/ \E refused \in BOOLEAN : Send(refused)
                       \/ \E allowed \in BOOLEAN : PolicyAnswers(allowed)
                       \/ BodyCollected \/ TrailersAwaited
             ByTransport == \/ EnvelopeTimesOut
                            \/ \E code \in {"connection-refused", "branded"} : FetchRejects(code)
                            \/ \E hasBody \in BOOLEAN : FetchResolves(hasBody)
             ByReading == \/ ConsumeFetch \/ ChunkRead \/ PullsAgain
                          \/ \E how \in {"ended", "failed"} : BodyEnds(how)
                          \/ ReadTimesOut \/ GuestDropsBody \/ DisposeReply
  <2>1. ByFields \/ BySetters \/ ByHolders \/ BySend \/ ByTransport \/ ByReading
    BY <1>2, Zenon DEF HttpNext
  <2>2. CASE ByFields
    BY <2>2, SettersSound
  <2>3. CASE BySetters
    BY <2>3, SettersSound
  <2>4. CASE ByHolders
    <3>1. "request" \in Holders /\ "response" \in Holders
      BY DEF Holders
    <3>2. QED
      BY <2>4, <3>1, HoldersSound
  <2>5. CASE BySend
    BY <2>5, SendSteps
  <2>6. CASE ByTransport
    BY <2>6, TransportSound
  <2>7. CASE ByReading
    BY <2>7, ReadingSound
  <2> HIDE DEF ByFields, BySetters, ByHolders, BySend, ByTransport, ByReading
  <2> QED
    BY <2>1, <2>2, <2>3, <2>4, <2>5, <2>6, <2>7
<1> QED
  BY <1>1, <1>2

(* The inductive invariant of an exchange: what the send has reached says  *)
(* which futures are settled and what has been dispatched, and a body that *)
(* is open has a response or a reader that will close it (send,            *)
(* consumeFetchBody).                                                      *)
THEOREM HttpInvariant == HttpSpec => []HttpInv
<1> QED
  BY HttpBegin, HttpStep, PTL DEF HttpSpec

(* Of every exchange, whatever the order of timeouts, answers and drops: a *)
(* response body that is left open has an owner that will close it, and    *)
(* the futures and the result of send tell what happened to the headers    *)
(* that the guest gave away (send, settleTransmission, consumeFetchBody).  *)
THEOREM ExchangesSound == HttpSpec => []ExchangeSound
<1>1. HttpInv => ExchangeSound
  <2> SUFFICES ASSUME HttpInv PROVE ExchangeSound
    OBVIOUS
  <2>1. holders["request"] \in HolderType /\ reply \in ReplyType
    BY DEF HttpInv, HttpTypes, Holders
  <2>2. BodiesReleased
    BY <2>1 DEF HttpInv, ReplySound, BodiesReleased, ReplyType
  <2>3. AnswersTruthful
    BY <2>1 DEF HttpInv, ReplySound, RequestSound, Dispatched, FieldsTaken, AnswersTruthful, ReplyType
  <2> QED
    BY <2>2, <2>3 DEF ExchangeSound
<1> QED
  BY <1>1, HttpInvariant, PTL
=============================================================================
