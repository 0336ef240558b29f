----------------------------- MODULE Ipc_proof -----------------------------
(***************************************************************************)
(* Proofs about the IPC socket, for any number of clients, requests and    *)
(* sizes of socket:                                                        *)
(*  - between two handlers a connection has output left exactly when the   *)
(*    event loop watches for room to write it;                             *)
(*  - the state has its shape, and no socket holds more than it can;       *)
(*  - the buffers, short writes and event loop implement IpcService.       *)
(* The last needs an invariant of its own: what is under way from a client *)
(* that is connected, in its socket and the in buffer together, is whole   *)
(* requests, of two halves each, and the half line it is typing (Stream).  *)
(***************************************************************************)
EXTENDS Ipc, TLAPS, SequenceTheorems

Maps(s) ==
    DOMAIN s.out = Client /\ DOMAIN s.down = Client /\ DOMAIN s.watching = Client

WatchedIn(s, c) == s.watching[c] <=> s.out[c] # <<>>

WireInv ==
    /\ Maps(Wire)
    /\ \A c \in Client : current # c => WatchedIn(Wire, c)

Handling == current \in Client \cup {NoClient}

(* What TryFlush leaves of the connection it flushes, and of the others.     *)
LEMMA FlushWatches ==
    ASSUME NEW s, Maps(s), NEW c \in Client
    PROVE  /\ Maps(TryFlush(s, c))
           /\ WatchedIn(TryFlush(s, c), c)
           /\ \A x \in Client \ {c} :
                 /\ TryFlush(s, c).out[x] = s.out[x]
                 /\ TryFlush(s, c).watching[x] = s.watching[x]
<1> DEFINE fits == IF Len(s.out[c]) <= SockCap - Len(s.down[c])
                   THEN Len(s.out[c]) ELSE SockCap - Len(s.down[c])
           rest == IF peer[c] = "gone" THEN <<>>
                   ELSE SubSeq(s.out[c], fits + 1, Len(s.out[c]))
           taken == IF peer[c] = "gone" THEN <<>> ELSE SubSeq(s.out[c], 1, fits)
           busy == rest # <<>>
           out == [s.out EXCEPT ![c] = rest]
           down_ == [s.down EXCEPT ![c] = s.down[c] \o taken]
           watching_ == [s.watching EXCEPT ![c] = busy]
           runs == s.running /\ ~ (peer[c] = "gone" /\ s.out[c] # <<>>)
<1>1. TryFlush(s, c) = [out |-> out, down |-> down_, watching |-> watching_, running |-> runs]
  BY DEF TryFlush
<1>2. busy <=> rest # <<>>
  OBVIOUS
<1> HIDE DEF busy, rest, taken, runs
<1>3. out[c] = rest /\ watching_[c] = busy
  BY DEF Maps
<1>4. \A x \in Client \ {c} : out[x] = s.out[x] /\ watching_[x] = s.watching[x]
  BY DEF Maps
<1>5. DOMAIN out = Client /\ DOMAIN down_ = Client /\ DOMAIN watching_ = Client
  BY DEF Maps
<1> HIDE DEF out, down_, watching_
<1>6. /\ TryFlush(s, c).out = out /\ TryFlush(s, c).down = down_
      /\ TryFlush(s, c).watching = watching_
  BY <1>1
<1> QED BY <1>2, <1>3, <1>4, <1>5, <1>6 DEF Maps, WatchedIn

(* Queueing a line touches one connection.                                   *)
LEMMA QueueKeeps ==
    ASSUME NEW s, Maps(s), NEW c \in Client, NEW line
    PROVE  /\ Maps(Queue(s, c, line))
           /\ \A x \in Client \ {c} :
                 /\ Queue(s, c, line).out[x] = s.out[x]
                 /\ Queue(s, c, line).watching[x] = s.watching[x]
BY DEF Maps, Queue

(* A broadcast flushes whom it tells and leaves the others alone.            *)
LEMMA BroadcastWatches ==
    ASSUME NEW s, Maps(s), NEW cat, NEW line, NEW D,
           s = [out |-> s.out, down |-> s.down, watching |-> s.watching, running |-> s.running],
           \A c \in Client : c # D => WatchedIn(s, c)
    PROVE  /\ Maps(Broadcast(s, cat, line))
           /\ \A c \in Client : c # D => WatchedIn(Broadcast(s, cat, line), c)
           /\ Broadcast(s, cat, line) =
                  [out |-> Broadcast(s, cat, line).out,
                   down |-> Broadcast(s, cat, line).down,
                   watching |-> Broadcast(s, cat, line).watching,
                   running |-> Broadcast(s, cat, line).running]
<1> DEFINE told == [c \in Client |-> IF c \in Subscribers(cat)
                                     THEN TryFlush(Queue(s, c, line), c) ELSE s]
           b == Broadcast(s, cat, line)
<1>1. b = [out |-> [c \in Client |-> told[c].out[c]],
           down |-> [c \in Client |-> told[c].down[c]],
           watching |-> [c \in Client |-> told[c].watching[c]],
           running |-> \A c \in Client : told[c].running]
  BY DEF Broadcast
<1>2. ASSUME NEW c \in Client, c # D PROVE WatchedIn(told[c], c)
  <2>1. CASE c \in Subscribers(cat)
    BY <2>1, QueueKeeps, FlushWatches
  <2>2. CASE c \notin Subscribers(cat)
    BY <1>2, <2>2
  <2> QED BY <2>1, <2>2
<1> HIDE DEF told
<1>3. Maps(b)
  BY <1>1 DEF Maps
<1>4. ASSUME NEW c \in Client PROVE b.out[c] = told[c].out[c] /\ b.watching[c] = told[c].watching[c]
  BY <1>1
<1> QED BY <1>1, <1>2, <1>3, <1>4 DEF WatchedIn

(* Nothing is queued or watched at first.                                    *)
LEMMA InitWire == Init => WireInv
BY DEF Init, WireInv, Wire, Maps, WatchedIn

(* A step that becomes s keeps the invariant if s is in order.               *)
LEMMA BecomesInOrder ==
    ASSUME NEW s, Becomes(s), Maps(s),
           \A c \in Client : current' # c => WatchedIn(s, c)
    PROVE  WireInv'
BY DEF Becomes, WireInv, Wire, Maps, WatchedIn

(* So does a step that drops a connection.                                   *)
LEMMA DropInOrder ==
    ASSUME NEW s, NEW d \in Client, Drop(d, s), Maps(s),
           \A c \in Client \ {d} : current' # c => WatchedIn(s, c)
    PROVE  WireInv'
BY DEF Drop, WireInv, Wire, Maps, WatchedIn

(* The handled connection is a client's, or there is none.                   *)
LEMMA StepHandling == Handling /\ [Next]_vars => Handling'
BY DEF Handling, Next, vars, Connect, SendFirstHalf, SendSecondHalf, Receive,
       HalfClose, Close, HangupReady, ReadReady, WriteReady, Accept,
       HandleRequestLine, FinishReading, DesktopEvent, serverVars

(* Every step keeps what is queued and what is watched together.             *)
LEMMA StepWire == Handling /\ WireInv /\ [Next]_vars => WireInv'
<1> SUFFICES ASSUME Handling, WireInv, [Next]_vars PROVE WireInv'
  OBVIOUS
<1>w. /\ Maps(Wire)
      /\ Wire = [out |-> Wire.out, down |-> Wire.down, watching |-> Wire.watching,
                 running |-> Wire.running]
      /\ \A c \in Client : c # current => WatchedIn(Wire, c)
  BY DEF WireInv, Wire
<1>0. CASE UNCHANGED <<outbuf, watching, current>> /\ DOMAIN down' = Client
  BY <1>0 DEF WireInv, Wire, Maps, WatchedIn
<1>1. CASE \E c \in Client : \/ Connect(c) \/ SendSecondHalf(c) \/ Receive(c)
                             \/ HalfClose(c) \/ Close(c)
                             \/ \E r \in Request : SendFirstHalf(c, r)
  BY <1>0, <1>1 DEF Connect, SendSecondHalf, Receive, HalfClose, Close, SendFirstHalf,
                    serverVars, WireInv, Wire, Maps
<1>2. ASSUME NEW c \in Client, HangupReady(c) PROVE WireInv'
  BY <1>2, <1>w, DropInOrder DEF HangupReady
<1>3. ASSUME NEW c \in Client, ReadReady(c) PROVE WireInv'
  BY <1>3, IpcAssumption DEF ReadReady, Idle, Busy, WireInv, Wire, Maps, WatchedIn
<1>4. ASSUME NEW c \in Client, WriteReady(c) PROVE WireInv'
  <2>1. Becomes(TryFlush(Wire, c)) /\ current' = current
    BY <1>4 DEF WriteReady
  <2>2. \A x \in Client : current' # x => WatchedIn(TryFlush(Wire, c), x)
    BY <1>w, <2>1, FlushWatches DEF WatchedIn
  <2> QED BY <1>w, <2>1, <2>2, FlushWatches, BecomesInOrder
<1>5. CASE Accept
  BY <1>0, <1>5 DEF Accept, WireInv, Wire, Maps
<1>6. CASE HandleRequestLine
  <2> DEFINE r == Head(inbuf[current])[1]
             s == Announced(Wire, r)
             t == IF Owes(r) THEN Queue(s, current, Answer(r, tagset)) ELSE s
  <2>1. Becomes(t) /\ current' = current /\ current \in Client
    BY <1>6 DEF HandleRequestLine, Busy, Handling
  <2>2. /\ Maps(s)
        /\ s = [out |-> s.out, down |-> s.down, watching |-> s.watching, running |-> s.running]
        /\ \A c \in Client : c # current => WatchedIn(s, c)
    BY <1>w, BroadcastWatches DEF Announced
  <2> HIDE DEF s
  <2>3. Maps(t) /\ \A c \in Client : c # current => WatchedIn(t, c)
    BY <2>1, <2>2, QueueKeeps DEF WatchedIn
  <2> HIDE DEF t
  <2> QED BY <2>1, <2>3, BecomesInOrder
<1>7. CASE FinishReading
  <2> DEFINE s == TryFlush(Wire, current)
  <2>1. current \in Client /\ IF eof THEN Drop(current, s) ELSE Becomes(s)
    BY <1>7 DEF FinishReading, Busy, Handling
  <2>2. Maps(s) /\ \A c \in Client : WatchedIn(s, c)
    BY <1>w, <2>1, FlushWatches DEF WatchedIn
  <2> HIDE DEF s
  <2> QED BY <2>1, <2>2, BecomesInOrder, DropInOrder
<1>8. ASSUME NEW cat \in Category, DesktopEvent(cat) PROVE WireInv'
  <2>1. PICK line : Becomes(Broadcast(Wire, cat, line)) /\ current' = current
    BY <1>8 DEF DesktopEvent
  <2> QED BY <1>w, <2>1, BroadcastWatches, BecomesInOrder
<1>9. CASE UNCHANGED vars
  BY <1>0, <1>9 DEF vars, WireInv, Wire, Maps
<1> QED BY <1>1, <1>2, <1>3, <1>4, <1>5, <1>6, <1>7, <1>8, <1>9 DEF Next

(* Between two handlers a connection has output queued exactly when the loop *)
(* watches for room to write it (QueuedIffWatched of Ipc): no short write,   *)
(* flush, broadcast or hang-up leaves an answer that nothing will send, nor  *)
(* a poll for writability that wakes for nothing.                            *)
THEOREM QueuedAlwaysWatched == Spec => []QueuedIffWatched
<1>1. Init => Handling /\ WireInv
  BY InitWire DEF Init, Handling
<1>2. Handling /\ WireInv /\ [Next]_vars => Handling' /\ WireInv'
  BY StepHandling, StepWire
<1>3. WireInv => QueuedIffWatched
  BY DEF WireInv, QueuedIffWatched, Wire, WatchedIn
<1> QED BY <1>1, <1>2, <1>3, PTL DEF Spec

-----------------------------------------------------------------------------
(* Facts about sequences: a stream that is cut, read from and written to.   *)
Part == Request \X {1, 2}

(* Writing to the second part of a stream writes to the stream... *)
LEMMA AppendAfter ==
    ASSUME NEW S, NEW a \in Seq(S), NEW b \in Seq(S), NEW e \in S
    PROVE  a \o Append(b, e) = Append(a \o b, e)
<1>1. a \o b \in Seq(S) /\ <<e>> \in Seq(S)
  BY ConcatProperties
<1>2. Append(b, e) = b \o <<e>> /\ Append(a \o b, e) = (a \o b) \o <<e>>
  BY <1>1, AppendIsConcat
<1> QED BY <1>1, <1>2, ConcatAssociative

(* ... and reading from the first part reads from it. *)
LEMMA TailBefore ==
    ASSUME NEW S, NEW a \in Seq(S), NEW b \in Seq(S), a # <<>>
    PROVE  /\ a \o b # <<>>
           /\ Head(a \o b) = Head(a)
           /\ Tail(a) \o b = Tail(a \o b)
<1>1. a \o b \in Seq(S) /\ Tail(a) \in Seq(S) /\ Len(a) > 0
  BY ConcatProperties, HeadTailProperties, EmptySeq
<1>2. Len(a \o b) = Len(a) + Len(b) /\ Len(b) \in Nat /\ Len(a) \in Nat
  BY ConcatProperties, LenProperties
<1>3. a \o b # <<>>
  BY <1>1, <1>2, EmptySeq
<1>4. Tail(a \o b) \in Seq(S) /\ Tail(a) \o b \in Seq(S)
  BY <1>1, <1>3, HeadTailProperties, ConcatProperties
<1>5. Len(Tail(a \o b)) = Len(a) + Len(b) - 1 /\ Len(Tail(a) \o b) = Len(a) - 1 + Len(b)
  BY <1>1, <1>2, <1>3, HeadTailProperties, ConcatProperties
<1>6. ASSUME NEW i \in 1..Len(Tail(a) \o b) PROVE (Tail(a) \o b)[i] = Tail(a \o b)[i]
  <2>1. Tail(a \o b)[i] = (a \o b)[i + 1]
    BY <1>1, <1>3, <1>5, HeadTailProperties
  <2>2. (a \o b)[i + 1] = IF i + 1 <= Len(a) THEN a[i + 1] ELSE b[i + 1 - Len(a)]
    BY <1>2, <1>5, ConcatProperties
  <2>3. Len(Tail(a)) = Len(a) - 1
    BY HeadTailProperties
  <2>4. (Tail(a) \o b)[i] = IF i <= Len(a) - 1 THEN Tail(a)[i] ELSE b[i - (Len(a) - 1)]
    BY <1>1, <1>2, <1>5, <2>3, ConcatProperties
  <2>5. i <= Len(a) - 1 => Tail(a)[i] = a[i + 1]
    BY <1>2, <2>3, <1>5, HeadTailProperties
  <2>6. i \in Nat
    BY <1>2, <1>5
  <2>7. CASE i <= Len(a) - 1
    BY <1>2, <2>1, <2>2, <2>4, <2>5, <2>6, <2>7
  <2>8. CASE ~ (i <= Len(a) - 1)
    <3>1. i + 1 - Len(a) = i - (Len(a) - 1) /\ ~ (i + 1 <= Len(a))
      BY <1>2, <2>6, <2>8
    <3> QED BY <2>1, <2>2, <2>4, <2>8, <3>1
  <2> QED BY <2>7, <2>8
<1>7. Head(a \o b) = Head(a)
  BY <1>1, <1>2, ConcatProperties
<1> QED BY <1>3, <1>4, <1>5, <1>6, <1>7, SeqEqual

(* What is written to the end of a stream joins what was there.              *)
LEMMA Regroup ==
    ASSUME NEW S, NEW a \in Seq(S), NEW u \in Seq(S), NEW v \in Seq(S), NEW b, b = u \o v
    PROVE  (a \o u) \o v = a \o b
BY SMTT(30)

(* b cut in two after its first n elements.                                  *)
IsCut(u, v, b, n) == u = SubSeq(b, 1, n) /\ v = SubSeq(b, n + 1, Len(b))

(* The two parts make up b. *)
LEMMA CutInTwo ==
    ASSUME NEW S, NEW b \in Seq(S), NEW n \in 0..Len(b), NEW u, NEW v, IsCut(u, v, b, n)
    PROVE  /\ u \in Seq(S) /\ Len(u) = n
           /\ v \in Seq(S)
           /\ b = u \o v
<1>0. Len(b) \in Nat /\ \A i \in 1..Len(b) : b[i] \in S
  BY LenProperties, ElementOfSeq
<1>1. SubSeq(b, 1, n) \in Seq(S) /\ Len(SubSeq(b, 1, n)) = n
  BY <1>0, SubSeqProperties
<1>2. SubSeq(b, n + 1, Len(b)) \in Seq(S)
  BY <1>0, SubSeqProperties
<1>3. SubSeq(b, 1, n) \o SubSeq(b, n + 1, Len(b)) = SubSeq(b, 1, Len(b))
  <2>1. 1 \in 1..(Len(b) + 1) /\ n \in (1 - 1)..Len(b) /\ Len(b) \in n..Len(b)
    BY <1>0
  <2> QED BY <2>1, ConcatAdjacentSubSeq
<1>4. SubSeq(b, 1, Len(b)) = b
  BY SubSeqFull
<1> QED BY <1>1, <1>2, <1>3, <1>4 DEF IsCut

(* What was there first is still first. *)
LEMMA FirstOfConcat ==
    ASSUME NEW S, NEW a \in Seq(S), NEW b \in Seq(S)
    PROVE  /\ Len(a) \in 0..Len(a \o b)
           /\ SubSeq(a \o b, 1, Len(a)) = a
<1>1. Len(a) \in Nat /\ Len(b) \in Nat /\ a \o b \in Seq(S) /\ Len(a \o b) = Len(a) + Len(b)
  BY LenProperties, ConcatProperties
<1>2. CASE a = <<>>
  BY <1>1, <1>2, SubSeqEmpty, EmptySeq
<1>3. CASE a # <<>>
  <2>1. SubSeq(a \o b, 1, Len(a)) = SubSeq(a, 1, Len(a))
    BY <1>1, <1>3, EmptySeq, SubSeqOfConcat1
  <2> QED BY <1>1, <2>1, SubSeqFull
<1> QED BY <1>2, <1>3

-----------------------------------------------------------------------------
(* Lines(w) is the requests that have arrived whole. *)
LEMMA LinesShape ==
    ASSUME NEW w \in Seq(Part)
    PROVE  /\ Lines(w) \in Seq(Request)
           /\ Len(Lines(w)) = Len(w) \div 2
           /\ \A i \in 1..(Len(w) \div 2) : Lines(w)[i] = w[2 * i][1]
<1>1. Len(w) \in Nat /\ Len(w) \div 2 \in Nat /\ 2 * (Len(w) \div 2) <= Len(w)
  BY LenProperties
<1>2. \A i \in 1..(Len(w) \div 2) : 2 * i \in 1..Len(w)
  BY <1>1
<1>3. \A i \in 1..(Len(w) \div 2) : w[2 * i][1] \in Request
  BY <1>2, ElementOfSeq DEF Part
<1> DEFINE n == Len(w) \div 2
<1>4. Lines(w) = [i \in 1..n |-> w[2 * i][1]]
  BY DEF Lines
<1> HIDE DEF n
<1>5. Lines(w) \in [1..n -> Request]
  BY <1>3, <1>4 DEF n
<1>6. n \in Nat
  BY <1>1 DEF n
<1> QED BY <1>4, <1>5, <1>6, SMTT(20) DEF n

(* A first half adds no line, *)
LEMMA LinesFirst ==
    ASSUME NEW w \in Seq(Part), NEW e \in Part, Len(w) % 2 = 0
    PROVE  Lines(Append(w, e)) = Lines(w)
<1>1. Len(w) \in Nat /\ Append(w, e) \in Seq(Part) /\ Len(Append(w, e)) = Len(w) + 1
  BY LenProperties, AppendProperties
<1>2. (Len(w) + 1) \div 2 = Len(w) \div 2 /\ \A i \in 1..(Len(w) \div 2) : 2 * i \in 1..Len(w)
  BY <1>1
<1>3. ASSUME NEW i \in 1..(Len(w) \div 2) PROVE Lines(Append(w, e))[i] = Lines(w)[i]
  <2>1. Lines(Append(w, e))[i] = Append(w, e)[2 * i][1] /\ Lines(w)[i] = w[2 * i][1]
    BY <1>1, <1>2, LinesShape
  <2>2. Append(w, e)[2 * i] = w[2 * i]
    BY <1>2, AppendProperties
  <2> QED BY <2>1, <2>2
<1> QED BY <1>1, <1>2, <1>3, LinesShape, SeqEqual

(* a second half one, *)
LEMMA LinesSecond ==
    ASSUME NEW w \in Seq(Part), NEW e \in Part, Len(w) % 2 = 1
    PROVE  Lines(Append(w, e)) = Append(Lines(w), e[1])
<1> DEFINE n == Len(w) \div 2
<1>1. Len(w) \in Nat /\ Append(w, e) \in Seq(Part) /\ Len(Append(w, e)) = Len(w) + 1
  BY LenProperties, AppendProperties
<1>2. /\ n \in Nat /\ (Len(w) + 1) \div 2 = n + 1 /\ 2 * (n + 1) = Len(w) + 1
      /\ \A i \in 1..n : 2 * i \in 1..Len(w)
  BY <1>1
<1>3. e[1] \in Request
  BY DEF Part
<1>4. Append(Lines(w), e[1]) \in Seq(Request) /\ Len(Append(Lines(w), e[1])) = n + 1
  BY <1>1, <1>2, <1>3, LinesShape, AppendProperties
<1>5. ASSUME NEW i \in 1..(n + 1) PROVE Lines(Append(w, e))[i] = Append(Lines(w), e[1])[i]
  <2>1. Lines(Append(w, e))[i] = Append(w, e)[2 * i][1]
    BY <1>1, <1>2, LinesShape
  <2>2. CASE i = n + 1
    <3>1. Append(w, e)[2 * i] = e
      BY <1>2, <2>2, AppendProperties
    <3>2. Append(Lines(w), e[1])[i] = e[1]
      BY <1>2, <1>3, <2>2, LinesShape, AppendProperties
    <3> QED BY <2>1, <3>1, <3>2
  <2>3. CASE i \in 1..n
    <3>1. Append(w, e)[2 * i] = w[2 * i]
      BY <1>2, <2>3, AppendProperties
    <3>2. Append(Lines(w), e[1])[i] = Lines(w)[i]
      BY <1>2, <1>3, <2>3, LinesShape, AppendProperties
    <3> QED BY <2>1, <2>3, <3>1, <3>2, LinesShape
  <2>4. i = n + 1 \/ i \in 1..n
    <3>1. n \in Nat
      BY <1>2
    <3> HIDE DEF n
    <3> QED BY <3>1
  <2> QED BY <2>2, <2>3, <2>4
<1> QED BY <1>1, <1>2, <1>4, <1>5, LinesShape, SeqEqual

(* and a line served is the first one gone. *)
LEMMA LinesServed ==
    ASSUME NEW w \in Seq(Part), Len(w) >= 2
    PROVE  /\ Lines(w) # <<>>
           /\ Head(Lines(w)) = w[2][1]
           /\ Tail(Tail(w)) \in Seq(Part)
           /\ Len(Tail(Tail(w))) = Len(w) - 2
           /\ \A i \in 1..(Len(w) - 2) : Tail(Tail(w))[i] = w[i + 2]
           /\ Lines(Tail(Tail(w))) = Tail(Lines(w))
<1> DEFINE n == Len(w) \div 2
           t == Tail(Tail(w))
<1>1. Len(w) \in Nat /\ w # <<>> /\ n \in Nat /\ n >= 1
  BY LenProperties, EmptySeq
<1>2. Tail(w) \in Seq(Part) /\ Len(Tail(w)) = Len(w) - 1 /\ \A i \in 1..(Len(w) - 1) : Tail(w)[i] = w[i + 1]
  BY <1>1, HeadTailProperties
<1>3. Tail(w) # <<>>
  BY <1>1, <1>2, EmptySeq
<1>4. t \in Seq(Part) /\ Len(t) = Len(w) - 2 /\ \A i \in 1..(Len(w) - 2) : t[i] = Tail(w)[i + 1]
  BY <1>1, <1>2, <1>3, HeadTailProperties
<1>5. \A i \in 1..(Len(w) - 2) : t[i] = w[i + 2]
  BY <1>1, <1>2, <1>4
<1>6. Lines(w) \in Seq(Request) /\ Len(Lines(w)) = n /\ Lines(w)[1] = w[2][1] /\ Lines(w) # <<>>
  BY <1>1, LinesShape, EmptySeq
<1>7. Tail(Lines(w)) \in Seq(Request) /\ Len(Tail(Lines(w))) = n - 1
      /\ \A i \in 1..(n - 1) : Tail(Lines(w))[i] = Lines(w)[i + 1]
  BY <1>6, HeadTailProperties
<1>8. (Len(w) - 2) \div 2 = n - 1
  BY <1>1
<1>9. ASSUME NEW i \in 1..(n - 1) PROVE Lines(t)[i] = Tail(Lines(w))[i]
  <2>1. 2 * i \in 1..(Len(w) - 2) /\ 2 * i + 2 = 2 * (i + 1) /\ i + 1 \in 1..n
    BY <1>1, <1>8
  <2>2. Lines(t)[i] = t[2 * i][1]
    BY <1>4, <1>8, LinesShape
  <2>3. Lines(w)[i + 1] = w[2 * (i + 1)][1]
    BY <2>1, LinesShape
  <2> QED BY <1>5, <1>7, <2>1, <2>2, <2>3
<1>10. Lines(t) = Tail(Lines(w))
  <2>1. Lines(t) \in Seq(Request) /\ Len(Lines(t)) = n - 1
    BY <1>4, <1>8, LinesShape
  <2> DEFINE u == Lines(t)
             v == Tail(Lines(w))
  <2>2. u \in Seq(Request) /\ v \in Seq(Request) /\ Len(u) = Len(v)
        /\ \A i \in 1..Len(u) : u[i] = v[i]
    BY <1>7, <1>9, <2>1
  <2> HIDE DEF u, v
  <2>3. u = v
    BY <2>2, SeqEqual
  <2> QED BY <2>3 DEF u, v
<1>11. Head(Lines(w)) = w[2][1]
  BY <1>6
<1> QED BY <1>4, <1>5, <1>6, <1>10, <1>11

(* Less than two halves are no line. *)
LEMMA LinesNone ==
    ASSUME NEW w \in Seq(Part), Len(w) < 2
    PROVE  Lines(w) = <<>>
<1>1. Len(w) \in Nat
  BY LenProperties
<1>2. Len(w) \div 2 = 0
  BY <1>1
<1> QED BY <1>2, LinesShape, EmptySeq

-----------------------------------------------------------------------------
(* What the compositor writes. Owe(s, c) is what c has not read, on a wire s. *)
Line == ({"tagset", "snapshot", "ok", "error", "tag::change"} \cup Category) \X (Tag \cup {0})
Half == Line \X {1, 2}

WireOK(s) ==
    /\ s.out \in [Client -> Seq(Half)]
    /\ s.down \in [Client -> Seq(Half)]
    /\ s.watching \in [Client -> BOOLEAN]
    /\ s.running \in BOOLEAN
    /\ \A c \in Client : Len(s.down[c]) <= SockCap

Owe(s, c) == s.down[c] \o s.out[c]

(* An answer is sent in halves, *)
LEMMA HalvesShape == ASSUME NEW line \in Line PROVE Halves(line) \in Seq(Half)
BY DEF Halves, Half

(* and it is a line. *)
LEMMA AnswerShape == ASSUME NEW r, NEW t \in Tag PROVE Answer(r, t) \in Line
<1>1. TagAfter(r, t) \in Tag
  BY DEF TagAfter, Changes, FocusTagValid
<1> QED BY <1>1 DEF Answer, Line

(* tryFlush moves bytes to the socket and loses none but a dead peer's. *)
LEMMA FlushOwes ==
    ASSUME NEW s, WireOK(s), NEW c \in Client
    PROVE  /\ WireOK(TryFlush(s, c))
           /\ peer[c] # "gone" => Owe(TryFlush(s, c), c) = Owe(s, c)
           /\ peer[c] = "gone" => /\ TryFlush(s, c).out[c] = <<>>
                                  /\ TryFlush(s, c).down[c] = s.down[c]
           /\ \A x \in Client \ {c} : /\ TryFlush(s, c).out[x] = s.out[x]
                                      /\ TryFlush(s, c).down[x] = s.down[x]
           /\ TryFlush(s, c).running <=>
                  s.running /\ ~ (peer[c] = "gone" /\ s.out[c] # <<>>)
<1> DEFINE fits == IF Len(s.out[c]) <= SockCap - Len(s.down[c])
                   THEN Len(s.out[c]) ELSE SockCap - Len(s.down[c])
           rest == IF peer[c] = "gone" THEN <<>>
                   ELSE SubSeq(s.out[c], fits + 1, Len(s.out[c]))
           taken == IF peer[c] = "gone" THEN <<>> ELSE SubSeq(s.out[c], 1, fits)
           busy == rest # <<>>
           onwire == s.down[c] \o taken
           out == [s.out EXCEPT ![c] = rest]
           down_ == [s.down EXCEPT ![c] = onwire]
           watching_ == [s.watching EXCEPT ![c] = busy]
           runs == s.running /\ ~ (peer[c] = "gone" /\ s.out[c] # <<>>)
<1>1. TryFlush(s, c) = [out |-> out, down |-> down_, watching |-> watching_, running |-> runs]
  BY DEF TryFlush
<1>2. s.out[c] \in Seq(Half) /\ s.down[c] \in Seq(Half) /\ Len(s.down[c]) <= SockCap
  BY DEF WireOK
<1>3. Len(s.out[c]) \in Nat /\ Len(s.down[c]) \in Nat /\ SockCap \in Nat
  BY <1>2, IpcAssumption, LenProperties
<1>4. /\ fits \in 0..Len(s.out[c])
      /\ Len(s.down[c]) + fits <= SockCap
  <2>1. ASSUME NEW n \in Nat, NEW d \in Nat, d <= SockCap,
               NEW f, f = IF n <= SockCap - d THEN n ELSE SockCap - d
        PROVE  f \in 0..n /\ d + f <= SockCap
    BY <1>3, <2>1
  <2> QED BY <1>2, <1>3, <2>1
<1> HIDE DEF fits
<1>5. /\ rest \in Seq(Half) /\ taken \in Seq(Half)
      /\ Len(s.down[c]) + Len(taken) <= SockCap
  <2>1. CASE peer[c] = "gone"
    BY <1>2, <2>1, EmptySeq
  <2>2. CASE peer[c] # "gone"
    <3> DEFINE o == s.out[c]
               n == Len(s.down[c])
    <3>1. o \in Seq(Half) /\ fits \in 0..Len(o) /\ n + fits <= SockCap
      BY <1>2, <1>4
    <3>2. IsCut(taken, rest, o, fits)
      BY <2>2 DEF IsCut
    <3> HIDE DEF o, n, rest, taken
    <3>3. rest \in Seq(Half) /\ taken \in Seq(Half) /\ Len(taken) = fits
      BY <3>1, <3>2, CutInTwo
    <3> QED BY <3>1, <3>3 DEF n
  <2> QED BY <2>1, <2>2
<1>6. ASSUME peer[c] # "gone" PROVE onwire \o rest = s.down[c] \o s.out[c]
  <2> DEFINE d == s.down[c]
             o == s.out[c]
  <2>1. d \in Seq(Half) /\ o \in Seq(Half) /\ fits \in 0..Len(o)
    BY <1>2, <1>4
  <2>2. IsCut(taken, rest, o, fits)
    BY <1>6 DEF IsCut
  <2>3. rest \in Seq(Half) /\ taken \in Seq(Half)
    BY <1>5
  <2> HIDE DEF d, o, rest, taken
  <2>4. o = taken \o rest
    BY <2>1, <2>2, CutInTwo
  <2>5. (d \o taken) \o rest = d \o o
    BY <2>1, <2>3, <2>4, Regroup, SMTT(20)
  <2> QED BY <2>5 DEF d, o
<1>7. peer[c] = "gone" => rest = <<>> /\ onwire = s.down[c]
  BY <1>2, ConcatEmptySeq
<1>8. busy \in BOOLEAN /\ runs \in BOOLEAN
      /\ (runs <=> s.running /\ ~ (peer[c] = "gone" /\ s.out[c] # <<>>))
  OBVIOUS
<1> HIDE DEF rest, taken, busy, runs
<1>9. onwire \in Seq(Half) /\ Len(onwire) <= SockCap
  BY <1>2, <1>5, ConcatProperties
<1> HIDE DEF onwire
<1>10. out \in [Client -> Seq(Half)] /\ down_ \in [Client -> Seq(Half)]
       /\ watching_ \in [Client -> BOOLEAN]
  BY <1>5, <1>8, <1>9 DEF WireOK
<1>11. out[c] = rest /\ down_[c] = onwire
       /\ \A x \in Client \ {c} : out[x] = s.out[x] /\ down_[x] = s.down[x]
  BY DEF WireOK
<1> HIDE DEF out, down_, watching_
<1>12. /\ TryFlush(s, c).out = out /\ TryFlush(s, c).down = down_
       /\ TryFlush(s, c).watching = watching_ /\ TryFlush(s, c).running = runs
  BY <1>1
<1>13. WireOK(TryFlush(s, c))
  <2>1. \A x \in Client : Len(down_[x]) <= SockCap
    BY <1>9, <1>11 DEF WireOK
  <2> QED BY <1>8, <1>10, <1>12, <2>1 DEF WireOK
<1>14. TryFlush(s, c).running <=> s.running /\ ~ (peer[c] = "gone" /\ s.out[c] # <<>>)
  BY <1>8, <1>12
<1> QED BY <1>6, <1>7, <1>11, <1>12, <1>13, <1>14 DEF Owe

(* queueWrite adds its line to what the client has not read. *)
LEMMA QueueOwes ==
    ASSUME NEW s, WireOK(s), NEW c \in Client, NEW line \in Line
    PROVE  /\ WireOK(Queue(s, c, line))
           /\ Owe(Queue(s, c, line), c) = Owe(s, c) \o Halves(line)
           /\ Queue(s, c, line).down = s.down
           /\ Queue(s, c, line).running = s.running
           /\ \A x \in Client \ {c} : Queue(s, c, line).out[x] = s.out[x]
<1> DEFINE h == Halves(line)
           more == s.out[c] \o h
           out == [s.out EXCEPT ![c] = more]
<1>1. h \in Seq(Half)
  BY HalvesShape
<1>2. s.out[c] \in Seq(Half) /\ s.down[c] \in Seq(Half)
  BY DEF WireOK
<1>3. Queue(s, c, line) = [out |-> out, down |-> s.down, watching |-> s.watching,
                           running |-> s.running]
  BY DEF Queue
<1> HIDE DEF h
<1>4. more \in Seq(Half)
  BY <1>1, <1>2, ConcatProperties
<1>5. (s.down[c] \o s.out[c]) \o h = s.down[c] \o more
  <2> DEFINE d == s.down[c]
             o == s.out[c]
  <2>1. d \in Seq(Half) /\ o \in Seq(Half) /\ more = o \o h
    BY <1>2
  <2> HIDE DEF d, o, more
  <2>2. (d \o o) \o h = d \o more
    BY <1>1, <2>1, Regroup
  <2> QED BY <2>2 DEF d, o
<1> HIDE DEF more
<1>6. out \in [Client -> Seq(Half)] /\ out[c] = more /\ \A x \in Client \ {c} : out[x] = s.out[x]
  BY <1>4 DEF WireOK
<1> HIDE DEF out
<1> QED BY <1>3, <1>5, <1>6 DEF WireOK, Owe, h

(* broadcast adds its line for each subscriber and for nobody else. *)
LEMMA BroadcastOwes ==
    ASSUME NEW s, WireOK(s), NEW cat, NEW line \in Line
    PROVE  /\ WireOK(Broadcast(s, cat, line))
           /\ \A c \in Client :
                 IF c \in Subscribers(cat)
                 THEN peer[c] # "gone" =>
                          Owe(Broadcast(s, cat, line), c) = Owe(s, c) \o Halves(line)
                 ELSE /\ Broadcast(s, cat, line).out[c] = s.out[c]
                      /\ Broadcast(s, cat, line).down[c] = s.down[c]
           /\ s.running /\ (\A c \in Subscribers(cat) : peer[c] # "gone")
                  => Broadcast(s, cat, line).running
<1> DEFINE told == [c \in Client |-> IF c \in Subscribers(cat)
                                     THEN TryFlush(Queue(s, c, line), c) ELSE s]
           b == Broadcast(s, cat, line)
<1>1. b = [out |-> [c \in Client |-> told[c].out[c]],
           down |-> [c \in Client |-> told[c].down[c]],
           watching |-> [c \in Client |-> told[c].watching[c]],
           running |-> \A c \in Client : told[c].running]
  BY DEF Broadcast
<1>2. ASSUME NEW c \in Client
      PROVE  /\ WireOK(told[c])
             /\ c \in Subscribers(cat) /\ peer[c] # "gone" =>
                    Owe(told[c], c) = Owe(s, c) \o Halves(line)
             /\ c \notin Subscribers(cat) => told[c] = s
             /\ s.running /\ (c \in Subscribers(cat) => peer[c] # "gone") => told[c].running
  <2>1. CASE c \in Subscribers(cat)
    <3> DEFINE q == Queue(s, c, line)
    <3>1. WireOK(q) /\ Owe(q, c) = Owe(s, c) \o Halves(line) /\ q.running = s.running
      BY QueueOwes
    <3>2. told[c] = TryFlush(q, c)
      BY <2>1
    <3> HIDE DEF q, told
    <3>3. /\ WireOK(TryFlush(q, c)) /\ (peer[c] # "gone" => Owe(TryFlush(q, c), c) = Owe(q, c))
          /\ q.running /\ peer[c] # "gone" => TryFlush(q, c).running
      BY <3>1, FlushOwes
    <3> QED BY <2>1, <3>1, <3>2, <3>3
  <2>2. CASE c \notin Subscribers(cat)
    BY <2>2
  <2> QED BY <2>1, <2>2
<1> HIDE DEF told
<1>3. ASSUME NEW c \in Client
      PROVE /\ b.out[c] = told[c].out[c] /\ b.down[c] = told[c].down[c]
            /\ b.watching[c] = told[c].watching[c]
  BY <1>1
<1>4. WireOK(b)
  <2>1. /\ b.out = [c \in Client |-> told[c].out[c]]
        /\ b.down = [c \in Client |-> told[c].down[c]]
        /\ b.watching = [c \in Client |-> told[c].watching[c]]
        /\ b.running \in BOOLEAN
    BY <1>1
  <2>2. \A c \in Client : /\ told[c].out[c] \in Seq(Half) /\ told[c].down[c] \in Seq(Half)
                          /\ told[c].watching[c] \in BOOLEAN /\ Len(told[c].down[c]) <= SockCap
    BY <1>2 DEF WireOK
  <2> QED BY <2>1, <2>2 DEF WireOK
<1>6. s.running /\ (\A c \in Subscribers(cat) : peer[c] # "gone") => b.running
  BY <1>1, <1>2
<1> HIDE DEF b
<1>5. ASSUME NEW c \in Client
      PROVE  IF c \in Subscribers(cat)
             THEN peer[c] # "gone" => Owe(b, c) = Owe(s, c) \o Halves(line)
             ELSE b.out[c] = s.out[c] /\ b.down[c] = s.down[c]
  <2>1. Owe(b, c) = Owe(told[c], c)
    BY <1>3 DEF Owe
  <2> QED BY <1>2, <1>3, <2>1
<1> QED BY <1>4, <1>5, <1>6 DEF b

-----------------------------------------------------------------------------
(* The shape of the state, with what a connection holds at each point of its *)
(* life and what the handler that runs may rely on.                          *)
Consistent(c) ==
    /\ conn[c] = "none" <=> peer[c] = "absent"
    /\ conn[c] # "open" => inbuf[c] = <<>> /\ outbuf[c] = <<>> /\ sub[c] = {}
    /\ conn[c] \in {"none", "pending"} => down[c] = <<>>

Reading ==
    /\ current \in Client \cup {NoClient} /\ eof \in BOOLEAN
    /\ current # NoClient => conn[current] = "open"
    /\ eof => current # NoClient /\ peer[current] \in {"half", "gone"} /\ up[current] = <<>>

Shape ==
    /\ peer \in [Client -> {"absent", "open", "half", "gone"}]
    /\ conn \in [Client -> {"none", "pending", "open", "dropped"}]
    /\ typing \in [Client -> Request \cup {NoRequest}]
    /\ sub \in [Client -> SUBSET Category]
    /\ tagset \in Tag
    /\ inbuf \in [Client -> Seq(Part)]
    /\ up \in [Client -> Seq(Part)]
    /\ \A c \in Client : Len(up[c]) <= SockCap

ShapeInv == Shape /\ WireOK(Wire) /\ Reading /\ \A c \in Client : Consistent(c)

(* No connection at the start. *)
LEMMA InitShape == Init => ShapeInv
<1> SUFFICES ASSUME Init PROVE ShapeInv
  OBVIOUS
<1>1. Shape
  BY IpcAssumption, EmptySeq DEF Init, Shape
<1>2. WireOK(Wire)
  BY IpcAssumption, EmptySeq DEF Init, WireOK, Wire
<1>3. Reading /\ \A c \in Client : Consistent(c)
  BY DEF Init, Reading, Consistent
<1> QED BY <1>1, <1>2, <1>3 DEF ShapeInv

(* A handler leaves the wire it computed, or drops a client from it. *)
LEMMA WireBecomes ==
    ASSUME NEW s, WireOK(s)
    PROVE  /\ Becomes(s) => WireOK(Wire)'
           /\ \A c \in Client : Drop(c, s) => WireOK(Wire)'
<1>1. Becomes(s) => WireOK(Wire)'
  BY DEF Becomes, WireOK, Wire
<1>2. ASSUME NEW c \in Client, Drop(c, s) PROVE WireOK(Wire)'
  <2>1. <<>> \in Seq(Half)
    BY EmptySeq
  <2>2. outbuf' \in [Client -> Seq(Half)] /\ watching' \in [Client -> BOOLEAN]
    BY <1>2, <2>1 DEF Drop, WireOK
  <2> QED BY <1>2, <2>2 DEF Drop, WireOK, Wire
<1> QED BY <1>1, <1>2

Same(s, t, c) == t.out[c] = s.out[c] /\ t.down[c] = s.down[c]

(* The wire HandleRequestLine leaves, and what it leaves of a connection     *)
(* that neither listens nor asks.                                            *)
LEMMA RequestWire ==
    ASSUME ShapeInv, HandleRequestLine
    PROVE  \E t : /\ WireOK(t) /\ Becomes(t)
                  /\ \A c \in Client : conn[c] # "open" => Same(Wire, t, c)
<1> DEFINE r == Head(inbuf[current])[1]
           s == Announced(Wire, r)
           t == IF Owes(r) THEN Queue(s, current, Answer(r, tagset)) ELSE s
<1>1. Becomes(t) /\ current \in Client /\ conn[current] = "open" /\ tagset \in Tag /\ WireOK(Wire)
  BY DEF HandleRequestLine, Busy, ShapeInv, Shape, Reading
<1>2. WireOK(s) /\ \A c \in Client : conn[c] # "open" => Same(Wire, s, c)
  <2>1. CASE Changes(r, tagset)
    <3>1. <<"tag::change", r[2]>> \in Line
      BY <2>1 DEF Changes, FocusTagValid, Line
    <3>2. s = Broadcast(Wire, "tag", <<"tag::change", r[2]>>)
      BY <2>1 DEF Announced
    <3> HIDE DEF s, r
    <3> QED BY <1>1, <3>1, <3>2, BroadcastOwes DEF Same, Subscribers
  <2>2. CASE ~ Changes(r, tagset)
    BY <1>1, <2>2 DEF Announced, Same
  <2> QED BY <2>1, <2>2
<1> HIDE DEF s
<1>3. Answer(r, tagset) \in Line
  BY <1>1, AnswerShape
<1>4. WireOK(t) /\ \A c \in Client : c # current => Same(s, t, c)
  <2>1. CASE Owes(r)
    <3>1. t = Queue(s, current, Answer(r, tagset))
      BY <2>1
    <3> DEFINE answer == Answer(r, tagset)
    <3> HIDE DEF t, r, answer
    <3>2. answer \in Line /\ t = Queue(s, current, answer)
      BY <1>3, <3>1 DEF answer
    <3>3. WireOK(s) /\ current \in Client
      BY <1>1, <1>2
    <3> QED BY <3>2, <3>3, QueueOwes DEF Same
  <2>2. CASE ~ Owes(r)
    BY <1>2, <2>2 DEF Same
  <2> QED BY <2>1, <2>2
<1> HIDE DEF t
<1> QED BY <1>1, <1>2, <1>4 DEF Same

(* Every step keeps the shape. *)
LEMMA ShapeStep == ShapeInv /\ [Next]_vars => ShapeInv'
<1> SUFFICES ASSUME ShapeInv, [Next]_vars PROVE ShapeInv'
  OBVIOUS
<1> USE IpcAssumption DEF ShapeInv, Shape, Reading, Consistent, Idle, Busy
<1>1. ASSUME NEW c \in Client, Connect(c) PROVE ShapeInv'
  <2>1. WireOK(Wire)'
    BY <1>1 DEF Connect, WireOK, Wire
  <2> QED BY <1>1, <2>1 DEF Connect
<1>2. ASSUME NEW c \in Client, NEW r \in Request, SendFirstHalf(c, r) PROVE ShapeInv'
  <2>1. WireOK(Wire)'
    BY <1>2 DEF SendFirstHalf, serverVars, WireOK, Wire
  <2>2. Append(up[c], <<r, 1>>) \in Seq(Part) /\ Len(Append(up[c], <<r, 1>>)) = Len(up[c]) + 1
    BY AppendProperties DEF Part
  <2>3. Len(up[c]) < SockCap /\ Len(up[c]) \in Nat
    BY <1>2, LenProperties DEF SendFirstHalf
  <2> DEFINE more == Append(up[c], <<r, 1>>)
  <2>4. up' = [up EXCEPT ![c] = more]
    BY <1>2 DEF SendFirstHalf
  <2> HIDE DEF more
  <2>5. up' \in [Client -> Seq(Part)] /\ \A x \in Client : Len(up'[x]) <= SockCap
    BY <2>2, <2>3, <2>4 DEF more
  <2> QED BY <1>2, <2>1, <2>4, <2>5 DEF SendFirstHalf, serverVars
<1>3. ASSUME NEW c \in Client, SendSecondHalf(c) PROVE ShapeInv'
  <2>1. WireOK(Wire)'
    BY <1>3 DEF SendSecondHalf, serverVars, WireOK, Wire
  <2>2. <<typing[c], 2>> \in Part
    BY <1>3 DEF SendSecondHalf, Part
  <2> DEFINE more == Append(up[c], <<typing[c], 2>>)
  <2>3. more \in Seq(Part) /\ Len(more) = Len(up[c]) + 1
    BY <2>2, AppendProperties
  <2>4. Len(up[c]) < SockCap /\ Len(up[c]) \in Nat
    BY <1>3, LenProperties DEF SendSecondHalf
  <2>5. up' = [up EXCEPT ![c] = more]
    BY <1>3 DEF SendSecondHalf
  <2> HIDE DEF more
  <2>6. up' \in [Client -> Seq(Part)] /\ \A x \in Client : Len(up'[x]) <= SockCap
    BY <2>3, <2>4, <2>5
  <2> QED BY <1>3, <2>1, <2>5, <2>6 DEF SendSecondHalf, serverVars
<1>4. ASSUME NEW c \in Client, Receive(c) PROVE ShapeInv'
  <2> DEFINE less == Tail(down[c])
  <2>1. down[c] \in Seq(Half) /\ down[c] # <<>> /\ Len(down[c]) <= SockCap
    BY <1>4 DEF Receive, WireOK, Wire
  <2>2. less \in Seq(Half) /\ Len(less) = Len(down[c]) - 1 /\ Len(down[c]) \in Nat
    BY <2>1, HeadTailProperties, LenProperties
  <2>3. down' = [down EXCEPT ![c] = less]
    BY <1>4 DEF Receive
  <2> HIDE DEF less
  <2>4. down' \in [Client -> Seq(Half)] /\ \A x \in Client : Len(down'[x]) <= SockCap
    BY <2>1, <2>2, <2>3, SMTT(20) DEF WireOK, Wire
  <2>5. WireOK(Wire)'
    BY <1>4, <2>4 DEF Receive, serverVars, WireOK, Wire
  <2> QED BY <1>4, <2>1, <2>3, <2>5 DEF Receive, serverVars, WireOK, Wire
<1>5. ASSUME NEW c \in Client, HalfClose(c) PROVE ShapeInv'
  <2>1. WireOK(Wire)'
    BY <1>5 DEF HalfClose, serverVars, WireOK, Wire
  <2> QED BY <1>5, <2>1 DEF HalfClose, serverVars
<1>6. ASSUME NEW c \in Client, Close(c) PROVE ShapeInv'
  <2>1. <<>> \in Seq(Half) /\ <<>> \in Seq(Part) /\ Len(<<>>) = 0
    BY EmptySeq
  <2>2. WireOK(Wire)'
    <3>1. down' \in [Client -> Seq(Half)] /\ \A x \in Client : Len(down'[x]) <= SockCap
      BY <1>6, <2>1 DEF Close, WireOK, Wire
    <3> QED BY <1>6, <3>1 DEF Close, serverVars, WireOK, Wire
  <2>3. up' \in [Client -> Seq(Part)] /\ \A x \in Client : Len(up'[x]) <= SockCap
    BY <1>6, <2>1 DEF Close
  <2> QED BY <1>6, <2>2, <2>3 DEF Close, serverVars, WireOK, Wire
<1>7. ASSUME NEW c \in Client, HangupReady(c) PROVE ShapeInv'
  <2>1. WireOK(Wire)'
    BY <1>7, WireBecomes DEF HangupReady
  <2>2. <<>> \in Seq(Part)
    BY EmptySeq
  <2>3. inbuf' \in [Client -> Seq(Part)]
    BY <1>7, <2>2 DEF HangupReady, Drop
  <2>4. Shape'
    BY <1>7, <2>3 DEF HangupReady, Drop, clientVars
  <2>5. Reading'
    BY <1>7 DEF HangupReady, Drop, clientVars
  <2>6. \A x \in Client : Consistent(x)'
    BY <1>7 DEF HangupReady, Drop, Wire, clientVars, WireOK
  <2> QED BY <2>1, <2>4, <2>5, <2>6
<1>8. ASSUME NEW c \in Client, ReadReady(c) PROVE ShapeInv'
  <2>1. WireOK(Wire)'
    BY <1>8 DEF ReadReady, WireOK, Wire
  <2> DEFINE more == inbuf[c] \o up[c]
  <2>2. more \in Seq(Part) /\ <<>> \in Seq(Part) /\ Len(<<>>) = 0
    BY ConcatProperties, EmptySeq
  <2>3. inbuf' = [inbuf EXCEPT ![c] = more]
    BY <1>8 DEF ReadReady
  <2> HIDE DEF more
  <2>4. inbuf' \in [Client -> Seq(Part)] /\ up' \in [Client -> Seq(Part)]
        /\ \A x \in Client : Len(up'[x]) <= SockCap
    BY <1>8, <2>2, <2>3 DEF ReadReady
  <2> QED BY <1>8, <2>1, <2>3, <2>4 DEF ReadReady, clientVars
<1>9. ASSUME NEW c \in Client, WriteReady(c) PROVE ShapeInv'
  <2> DEFINE s == TryFlush(Wire, c)
  <2>1. WireOK(s) /\ \A x \in Client \ {c} : Same(Wire, s, x)
    BY FlushOwes DEF Same
  <2>2. Becomes(s) /\ conn[c] = "open"
    BY <1>9 DEF WriteReady
  <2> HIDE DEF s
  <2>3. WireOK(Wire)'
    BY <2>1, <2>2, WireBecomes
  <2>4. \A x \in Client \ {c} : outbuf'[x] = outbuf[x] /\ down'[x] = down[x]
    BY <2>1, <2>2 DEF Becomes, Same, Wire
  <2>5. Shape' /\ Reading' /\ \A x \in Client : Consistent(x)'
    BY <1>9, <2>2, <2>4 DEF WriteReady, clientVars
  <2> QED BY <2>3, <2>5
<1>10. CASE Accept
  <2>1. WireOK(Wire)'
    BY <1>10 DEF Accept, WireOK, Wire
  <2>2. /\ conn' \in [Client -> {"none", "pending", "open", "dropped"}]
        /\ \A c \in Client : \/ conn'[c] = conn[c]
                             \/ conn[c] = "pending" /\ conn'[c] \in {"open", "dropped"}
    BY <1>10 DEF Accept
  <2> QED BY <1>10, <2>1, <2>2 DEF Accept, clientVars
<1>11. CASE HandleRequestLine
  <2>1. PICK t : /\ WireOK(t) /\ Becomes(t)
                 /\ \A c \in Client : conn[c] # "open" => Same(Wire, t, c)
    BY <1>11, RequestWire
  <2>2. WireOK(Wire)'
    BY <2>1, WireBecomes
  <2> DEFINE r == Head(inbuf[current])[1]
             less == Tail(Tail(inbuf[current]))
  <2>3. current \in Client /\ Len(inbuf[current]) >= 2 /\ inbuf[current] \in Seq(Part)
    BY <1>11 DEF HandleRequestLine, HasLine
  <2>4. less \in Seq(Part)
    BY <2>3, LinesServed
  <2>5. inbuf' = [inbuf EXCEPT ![current] = less]
    BY <1>11 DEF HandleRequestLine
  <2>6. r \in Request
    <3>1. inbuf[current] # <<>>
      BY <2>3, EmptySeq
    <3> QED BY <2>3, <3>1, HeadTailProperties DEF Part
  <2>7. /\ sub' = IF r[1] = "subscribe" THEN [sub EXCEPT ![current] = r[2]] ELSE sub
        /\ tagset' = TagAfter(r, tagset)
        /\ UNCHANGED <<clientVars, up, conn, current, eof>>
    BY <1>11 DEF HandleRequestLine
  <2> HIDE DEF less, r
  <2>8. inbuf' \in [Client -> Seq(Part)] /\ \A c \in Client : c # current => inbuf'[c] = inbuf[c]
    BY <2>3, <2>4, <2>5
  <2>9. sub' \in [Client -> SUBSET Category] /\ \A c \in Client : c # current => sub'[c] = sub[c]
    BY <2>3, <2>6, <2>7
  <2>10. tagset' \in Tag
    BY <2>7 DEF TagAfter, Changes, FocusTagValid
  <2>11. \A c \in Client : conn[c] # "open" => outbuf'[c] = outbuf[c] /\ down'[c] = down[c]
    BY <2>1 DEF Becomes, Same, Wire
  <2>12. \A c \in Client : conn[c] \in {"none", "pending"} => down'[c] = down[c]
    BY <2>11
  <2>13. ASSUME NEW c \in Client PROVE Consistent(c)'
    <3>1. Consistent(c) /\ peer'[c] = peer[c] /\ conn'[c] = conn[c]
      BY <2>7 DEF clientVars
    <3>2. CASE c = current
      BY <2>3, <3>1, <3>2
    <3>3. CASE c # current
      BY <2>8, <2>9, <2>11, <2>12, <3>1, <3>3
    <3> QED BY <3>2, <3>3
  <2> QED BY <2>2, <2>7, <2>8, <2>9, <2>10, <2>13 DEF clientVars
<1>12. CASE FinishReading
  <2> DEFINE s == TryFlush(Wire, current)
  <2>1. current \in Client /\ conn[current] = "open"
    BY <1>12 DEF FinishReading
  <2>2. WireOK(s) /\ \A x \in Client \ {current} : Same(Wire, s, x)
    BY <2>1, FlushOwes DEF Same
  <2>3. /\ IF eof THEN Drop(current, s) ELSE Becomes(s) /\ UNCHANGED <<conn, inbuf, sub>>
        /\ current' = NoClient /\ eof' = FALSE
        /\ UNCHANGED <<clientVars, up, tagset>>
    BY <1>12 DEF FinishReading
  <2> HIDE DEF s
  <2>4. WireOK(Wire)'
    BY <2>1, <2>2, <2>3, WireBecomes
  <2>5. <<>> \in Seq(Part)
    BY EmptySeq
  <2>6. CASE eof
    <3>1. Drop(current, s)
      BY <2>3, <2>6
    <3>2. inbuf' \in [Client -> Seq(Part)]
      BY <2>1, <2>5, <3>1 DEF Drop
    <3>3. Shape'
      BY <2>1, <2>3, <3>1, <3>2 DEF Drop, clientVars
    <3>4. \A x \in Client \ {current} : outbuf'[x] = outbuf[x] /\ down'[x] = down[x]
      BY <2>1, <2>2, <3>1 DEF Drop, Same, Wire, WireOK
    <3>5. outbuf'[current] = <<>>
      BY <2>1, <2>2, <3>1 DEF Drop, WireOK
    <3>6. \A x \in Client : Consistent(x)'
      BY <2>1, <2>3, <3>1, <3>4, <3>5 DEF Drop, clientVars
    <3> QED BY <2>3, <2>4, <3>3, <3>6
  <2>7. CASE ~ eof
    <3>1. \A x \in Client \ {current} : outbuf'[x] = outbuf[x] /\ down'[x] = down[x]
      BY <2>2, <2>3, <2>7 DEF Becomes, Same, Wire
    <3>2. Shape' /\ Reading'
      BY <2>3, <2>7 DEF clientVars
    <3>3. \A x \in Client : Consistent(x)'
      BY <2>1, <2>3, <2>7, <3>1 DEF clientVars
    <3> QED BY <2>4, <3>2, <3>3
  <2> QED BY <2>6, <2>7
<1>13. ASSUME NEW cat \in Category, DesktopEvent(cat) PROVE ShapeInv'
  <2>1. PICK line \in Line : /\ Becomes(Broadcast(Wire, cat, line)) /\ tagset' \in Tag
                             /\ UNCHANGED <<clientVars, up, conn, inbuf, sub, current, eof>>
    BY <1>13 DEF DesktopEvent, Line
  <2> DEFINE s == Broadcast(Wire, cat, line)
  <2>2. WireOK(s) /\ \A c \in Client : conn[c] # "open" => Same(Wire, s, c)
    BY BroadcastOwes DEF Same, Subscribers
  <2>3. Becomes(s)
    BY <2>1
  <2> HIDE DEF s
  <2>4. WireOK(Wire)'
    BY <2>2, <2>3, WireBecomes
  <2>5. \A c \in Client : conn[c] # "open" => outbuf'[c] = outbuf[c] /\ down'[c] = down[c]
    BY <2>2, <2>3 DEF Becomes, Same, Wire
  <2>6. Shape' /\ Reading'
    BY <2>1 DEF clientVars
  <2>7. \A c \in Client : Consistent(c)'
    BY <2>1, <2>5 DEF clientVars
  <2> QED BY <2>4, <2>6, <2>7
<1>14. CASE UNCHANGED vars
  <2>1. WireOK(Wire)'
    BY <1>14 DEF vars, WireOK, Wire
  <2> QED BY <1>14, <2>1 DEF vars, clientVars
<1> QED BY <1>1, <1>2, <1>3, <1>4, <1>5, <1>6, <1>7, <1>8, <1>9, <1>10, <1>11, <1>12,
           <1>13, <1>14 DEF Next

-----------------------------------------------------------------------------
(* The stream from a client: whole requests, then the half it is typing.     *)
Stream(w, t) ==
    /\ \A i \in 1..(Len(w) \div 2) : w[2 * i - 1][1] = w[2 * i][1]
    /\ IF t = NoRequest THEN Len(w) % 2 = 0 ELSE Len(w) % 2 = 1 /\ w[Len(w)][1] = t

StreamInv == \A c \in Client : Connected(c) => Stream(inbuf[c] \o up[c], typing[c])

(* A new connection has an empty stream. *)
LEMMA StreamEmpty == Stream(<<>> \o <<>>, NoRequest)
<1>1. <<>> \in Seq(Part) /\ Len(<<>>) = 0
  BY EmptySeq
<1>2. <<>> \o <<>> = <<>>
  BY <1>1, ConcatEmptySeq
<1>3. 0 \div 2 = 0 /\ 0 % 2 = 0
  OBVIOUS
<1> QED BY <1>1, <1>2, <1>3 DEF Stream

(* The client types a first half, *)
LEMMA StreamFirst ==
    ASSUME NEW w \in Seq(Part), Stream(w, NoRequest), NEW r \in Request
    PROVE  Stream(Append(w, <<r, 1>>), r)
<1> DEFINE e == <<r, 1>>
           a == Append(w, e)
<1>1. e \in Part /\ e[1] = r /\ r # NoRequest
  BY IpcAssumption DEF Part
<1> HIDE DEF e
<1>2. Len(w) \in Nat /\ Len(a) = Len(w) + 1 /\ a[Len(w) + 1] = e /\ \A i \in 1..Len(w) : a[i] = w[i]
  BY <1>1, LenProperties, AppendProperties
<1> HIDE DEF a
<1>3. Len(w) % 2 = 0 /\ \A i \in 1..(Len(w) \div 2) : w[2 * i - 1][1] = w[2 * i][1]
  BY DEF Stream
<1>4. Len(a) % 2 = 1 /\ Len(a) \div 2 = Len(w) \div 2
  BY <1>2, <1>3
<1>5. \A i \in 1..(Len(w) \div 2) : 2 * i \in 1..Len(w) /\ 2 * i - 1 \in 1..Len(w)
  BY <1>2
<1>6. ASSUME NEW i \in 1..(Len(w) \div 2) PROVE a[2 * i - 1][1] = a[2 * i][1]
  <2>1. a[2 * i - 1] = w[2 * i - 1] /\ a[2 * i] = w[2 * i]
    BY <1>2, <1>5
  <2> QED BY <1>3, <2>1
<1>7. a[Len(a)][1] = r
  BY <1>1, <1>2
<1> QED BY <1>1, <1>4, <1>6, <1>7 DEF Stream, a, e

(* then the second of the same request, *)
LEMMA StreamSecond ==
    ASSUME NEW w \in Seq(Part), NEW t \in Request, Stream(w, t)
    PROVE  Stream(Append(w, <<t, 2>>), NoRequest)
<1> DEFINE e == <<t, 2>>
           a == Append(w, e)
           n == Len(w) \div 2
<1>1. e \in Part /\ e[1] = t /\ t # NoRequest
  BY IpcAssumption DEF Part
<1> HIDE DEF e
<1>2. Len(w) \in Nat /\ Len(a) = Len(w) + 1 /\ a[Len(w) + 1] = e /\ \A i \in 1..Len(w) : a[i] = w[i]
  BY <1>1, LenProperties, AppendProperties
<1> HIDE DEF a
<1>3. Len(w) % 2 = 1 /\ w[Len(w)][1] = t /\ \A i \in 1..n : w[2 * i - 1][1] = w[2 * i][1]
  BY <1>1 DEF Stream
<1>4. Len(a) % 2 = 0 /\ Len(a) \div 2 = n + 1 /\ n \in Nat /\ 2 * n + 1 = Len(w)
  BY <1>2, <1>3
<1> HIDE DEF n
<1>5. ASSUME NEW i \in 1..(n + 1) PROVE a[2 * i - 1][1] = a[2 * i][1]
  <2>1. CASE i = n + 1
    <3>1. 2 * i - 1 = Len(w) /\ 2 * i = Len(w) + 1
      BY <1>4, <2>1
    <3>2. a[2 * i - 1] = w[Len(w)] /\ a[2 * i] = e
      BY <1>2, <1>4, <3>1
    <3> QED BY <1>1, <1>3, <3>2
  <2>2. CASE i # n + 1
    <3>1. i \in 1..n /\ 2 * i - 1 \in 1..Len(w) /\ 2 * i \in 1..Len(w)
      BY <1>4, <2>2
    <3> QED BY <1>2, <1>3, <3>1
  <2> QED BY <2>1, <2>2
<1> QED BY <1>4, <1>5 DEF Stream, a, e

(* and the compositor takes a whole line. *)
LEMMA StreamServed ==
    ASSUME NEW w \in Seq(Part), NEW t, Stream(w, t), Len(w) >= 2
    PROVE  /\ Head(w)[1] = Head(Lines(w))
           /\ Stream(Tail(Tail(w)), t)
<1> DEFINE a == Tail(Tail(w))
           n == Len(w) \div 2
<1>1. /\ a \in Seq(Part) /\ Len(a) = Len(w) - 2 /\ Len(w) \in Nat
      /\ \A i \in 1..(Len(w) - 2) : a[i] = w[i + 2]
  BY LinesServed, LenProperties
<1> HIDE DEF a
<1>2. \A i \in 1..n : w[2 * i - 1][1] = w[2 * i][1]
  BY DEF Stream
<1>3. n \in Nat /\ n >= 1 /\ Len(a) \div 2 = n - 1 /\ 2 * n <= Len(w) /\ Len(a) % 2 = Len(w) % 2
  BY <1>1
<1> HIDE DEF n
<1>4. w[1][1] = w[2][1]
  <2>1. 1 \in 1..n /\ 2 * 1 - 1 = 1 /\ 2 * 1 = 2
    BY <1>3
  <2> QED BY <1>2, <2>1
<1>5. Head(w)[1] = Head(Lines(w))
  BY <1>4, LinesServed
<1>6. ASSUME NEW i \in 1..(n - 1) PROVE a[2 * i - 1][1] = a[2 * i][1]
  <2>1. /\ 2 * i - 1 \in 1..(Len(w) - 2) /\ 2 * i \in 1..(Len(w) - 2) /\ i + 1 \in 1..n
        /\ 2 * i - 1 + 2 = 2 * (i + 1) - 1 /\ 2 * i + 2 = 2 * (i + 1)
    BY <1>1, <1>3
  <2>2. a[2 * i - 1] = w[2 * (i + 1) - 1] /\ a[2 * i] = w[2 * (i + 1)]
    BY <1>1, <2>1
  <2> QED BY <1>2, <2>1, <2>2
<1>7. ASSUME t # NoRequest PROVE Len(a) % 2 = 1 /\ a[Len(a)][1] = t
  <2>1. Len(w) % 2 = 1 /\ w[Len(w)][1] = t
    BY <1>7 DEF Stream
  <2>2. Len(a) \in 1..(Len(w) - 2) /\ Len(a) + 2 = Len(w)
    BY <1>1, <2>1
  <2> QED BY <1>1, <1>3, <2>1, <2>2
<1>8. t = NoRequest => Len(a) % 2 = 0
  BY <1>3 DEF Stream
<1>9. Stream(a, t)
  BY <1>3, <1>6, <1>7, <1>8 DEF Stream
<1> QED BY <1>5, <1>9 DEF a

(* What a step does to the stream of a connected client. *)
InFlight(c) == inbuf[c] \o up[c]

(* The stream is a sequence of halves. *)
LEMMA InFlightShape ==
    ASSUME Shape, NEW c \in Client
    PROVE  InFlight(c) \in Seq(Part)
BY ConcatProperties, SMTT(20) DEF Shape, InFlight

(* Sending a first half adds it to one stream, *)
LEMMA FirstInFlight ==
    ASSUME ShapeInv, NEW c \in Client, NEW r \in Request, SendFirstHalf(c, r)
    PROVE  /\ InFlight(c)' = Append(InFlight(c), <<r, 1>>)
           /\ \A x \in Client \ {c} : InFlight(x)' = InFlight(x)
<1> DEFINE a == inbuf[c]
           b == up[c]
           e == <<r, 1>>
<1>1. a \in Seq(Part) /\ b \in Seq(Part) /\ e \in Part
  BY DEF ShapeInv, Shape, Part
<1>2. inbuf'[c] = a /\ up'[c] = Append(b, e)
  BY DEF SendFirstHalf, serverVars, ShapeInv, Shape
<1>3. \A x \in Client \ {c} : InFlight(x)' = InFlight(x)
  BY DEF SendFirstHalf, serverVars, ShapeInv, Shape, InFlight
<1> HIDE DEF a, b, e
<1>4. a \o Append(b, e) = Append(a \o b, e)
  BY <1>1, AppendAfter, SMTT(20)
<1> QED BY <1>2, <1>3, <1>4 DEF InFlight, a, b, e

(* sending a second half completes the request, *)
LEMMA SecondInFlight ==
    ASSUME ShapeInv, NEW c \in Client, SendSecondHalf(c)
    PROVE  /\ typing[c] \in Request
           /\ InFlight(c)' = Append(InFlight(c), <<typing[c], 2>>)
           /\ \A x \in Client \ {c} : InFlight(x)' = InFlight(x)
<1> DEFINE a == inbuf[c]
           b == up[c]
           e == <<typing[c], 2>>
<1>0. typing[c] \in Request
  BY DEF ShapeInv, Shape, SendSecondHalf
<1>1. a \in Seq(Part) /\ b \in Seq(Part) /\ e \in Part
  BY <1>0 DEF ShapeInv, Shape, Part
<1>2. inbuf'[c] = a /\ up'[c] = Append(b, e)
  BY DEF SendSecondHalf, serverVars, ShapeInv, Shape
<1>3. \A x \in Client \ {c} : InFlight(x)' = InFlight(x)
  BY DEF SendSecondHalf, serverVars, ShapeInv, Shape, InFlight
<1> HIDE DEF a, b, e
<1>4. a \o Append(b, e) = Append(a \o b, e)
  BY <1>1, AppendAfter
<1> QED BY <1>0, <1>2, <1>3, <1>4 DEF InFlight, a, b, e

(* serving a line takes it away, *)
LEMMA ServedInFlight ==
    ASSUME ShapeInv, HandleRequestLine
    PROVE  /\ current \in Client
           /\ Len(InFlight(current)) >= 2
           /\ Head(inbuf[current]) = Head(InFlight(current))
           /\ InFlight(current)' = Tail(Tail(InFlight(current)))
           /\ \A x \in Client \ {current} : InFlight(x)' = InFlight(x)
<1> DEFINE a == inbuf[current]
           b == up[current]
           t == Tail(a)
<1>1. current \in Client /\ a \in Seq(Part) /\ b \in Seq(Part) /\ Len(a) >= 2
  BY DEF ShapeInv, Shape, Reading, HandleRequestLine, Busy, HasLine
<1>2. inbuf'[current] = Tail(Tail(a)) /\ up'[current] = b
  BY <1>1 DEF HandleRequestLine, ShapeInv, Shape
<1>3. \A x \in Client \ {current} : InFlight(x)' = InFlight(x)
  BY DEF HandleRequestLine, ShapeInv, Shape, InFlight
<1>4. InFlight(current) = a \o b /\ InFlight(current)' = inbuf'[current] \o up'[current]
  <2>1. current' = current
    BY DEF HandleRequestLine
  <2> QED BY <2>1 DEF InFlight
<1> HIDE DEF a, b
<1>5. a # <<>> /\ t \in Seq(Part) /\ Len(t) = Len(a) - 1
  BY <1>1, EmptySeq, HeadTailProperties
<1>6. Head(a \o b) = Head(a) /\ t \o b = Tail(a \o b)
  BY <1>1, <1>5, TailBefore
<1> HIDE DEF t
<1>7. t # <<>>
  <2>1. Len(t) >= 1
    BY <1>1, <1>5
  <2> QED BY <2>1, EmptySeq
<1>8. Tail(t) \o b = Tail(t \o b)
  BY <1>1, <1>5, <1>7, TailBefore
<1>9. Len(a \o b) >= 2
  <2>1. Len(a \o b) = Len(a) + Len(b) /\ Len(a) \in Nat /\ Len(b) \in Nat
    BY <1>1, ConcatProperties, LenProperties
  <2> QED BY <1>1, <2>1
<1>10. Tail(Tail(a)) \o b = Tail(Tail(a \o b))
  BY <1>6, <1>8 DEF t
<1> QED BY <1>1, <1>2, <1>3, <1>4, <1>6, <1>9, <1>10 DEF a

(* and reading moves bytes within the stream. *)
LEMMA ReadInFlight ==
    ASSUME ShapeInv, NEW c \in Client, ReadReady(c)
    PROVE  \A x \in Client : InFlight(x)' = InFlight(x)
<1> DEFINE a == inbuf[c] \o up[c]
<1>1. a \in Seq(Part)
  BY ConcatProperties DEF ShapeInv, Shape
<1>2. inbuf'[c] = a /\ up'[c] = <<>>
  BY DEF ReadReady, ShapeInv, Shape
<1>3. \A x \in Client \ {c} : InFlight(x)' = InFlight(x)
  BY DEF ReadReady, ShapeInv, Shape, InFlight
<1> HIDE DEF a
<1>4. a \o <<>> = a
  BY <1>1, ConcatEmptySeq
<1> QED BY <1>2, <1>3, <1>4 DEF InFlight, a

(* Every step keeps the streams well formed. *)
LEMMA StreamStep == ShapeInv /\ StreamInv /\ [Next]_vars => StreamInv'
<1> SUFFICES ASSUME ShapeInv, StreamInv, [Next]_vars, NEW x \in Client, Connected(x)'
             PROVE  Stream(InFlight(x), typing[x])'
  BY DEF StreamInv, InFlight
<1> USE DEF Connected
<1>0. Connected(x) => Stream(InFlight(x), typing[x]) /\ InFlight(x) \in Seq(Part)
  BY InFlightShape DEF StreamInv, InFlight, ShapeInv
<1>1. CASE Connected(x) /\ InFlight(x)' = InFlight(x) /\ typing'[x] = typing[x]
  BY <1>0, <1>1 DEF Stream
<1>2. ASSUME NEW c \in Client,
             Connect(c) \/ Receive(c) \/ HalfClose(c) \/ Close(c) \/ HangupReady(c) \/ WriteReady(c)
      PROVE  Stream(InFlight(x), typing[x])'
  <2>1. Connected(x) /\ typing'[x] = typing[x] /\ inbuf'[x] = inbuf[x] /\ up'[x] = up[x]
    BY <1>2 DEF Connect, Receive, HalfClose, Close, HangupReady, WriteReady, Drop,
                Idle, serverVars, clientVars, ShapeInv, Shape, Consistent
  <2> QED BY <1>1, <2>1 DEF InFlight
<1>3. ASSUME NEW c \in Client, NEW r \in Request, SendFirstHalf(c, r)
      PROVE  Stream(InFlight(x), typing[x])'
  <2>1. Connected(x) /\ typing' = [typing EXCEPT ![c] = r] /\ typing[c] = NoRequest
    BY <1>3 DEF SendFirstHalf, serverVars
  <2>2. CASE x = c
    <3>1. Stream(Append(InFlight(c), <<r, 1>>), r)
      BY <1>0, <2>1, <2>2, StreamFirst
    <3>2. typing'[c] = r
      BY <2>1 DEF ShapeInv, Shape
    <3> QED BY <1>3, <2>2, <3>1, <3>2, FirstInFlight
  <2>3. CASE x # c
    <3>1. typing'[x] = typing[x]
      BY <2>1, <2>3
    <3> QED BY <1>1, <1>3, <2>1, <2>3, <3>1, FirstInFlight
  <2> QED BY <2>2, <2>3
<1>4. ASSUME NEW c \in Client, SendSecondHalf(c) PROVE Stream(InFlight(x), typing[x])'
  <2>1. Connected(x) /\ typing' = [typing EXCEPT ![c] = NoRequest]
    BY <1>4 DEF SendSecondHalf, serverVars
  <2>2. CASE x = c
    <3>1. Stream(Append(InFlight(c), <<typing[c], 2>>), NoRequest)
      BY <1>0, <1>4, <2>1, <2>2, StreamSecond, SecondInFlight
    <3>2. typing'[c] = NoRequest
      BY <2>1 DEF ShapeInv, Shape
    <3> QED BY <1>4, <2>2, <3>1, <3>2, SecondInFlight
  <2>3. CASE x # c
    <3>1. typing'[x] = typing[x]
      BY <2>1, <2>3
    <3> QED BY <1>1, <1>4, <2>1, <2>3, <3>1, SecondInFlight
  <2> QED BY <2>2, <2>3
<1>5. ASSUME NEW c \in Client, ReadReady(c) PROVE Stream(InFlight(x), typing[x])'
  <2>1. Connected(x) /\ typing'[x] = typing[x]
    BY <1>5 DEF ReadReady, clientVars
  <2> QED BY <1>1, <1>5, <2>1, ReadInFlight
<1>6. CASE HandleRequestLine
  <2>1. Connected(x) /\ typing'[x] = typing[x]
    BY <1>6 DEF HandleRequestLine, Busy, clientVars
  <2>2. CASE x = current
    <3>1. Stream(InFlight(x), typing[x]) /\ InFlight(x) \in Seq(Part) /\ Len(InFlight(x)) >= 2
      BY <1>0, <1>6, <2>1, <2>2, ServedInFlight
    <3>2. Stream(Tail(Tail(InFlight(x))), typing[x])
      BY <3>1, StreamServed
    <3>3. InFlight(current)' = Tail(Tail(InFlight(current)))
      BY <1>6, ServedInFlight
    <3>4. current' = current
      BY <1>6 DEF HandleRequestLine
    <3> QED BY <2>1, <2>2, <3>2, <3>3, <3>4
  <2>3. CASE x # current
    BY <1>1, <1>6, <2>1, <2>3, ServedInFlight
  <2> QED BY <2>2, <2>3
<1>7. CASE Accept \/ FinishReading \/ (\E cat \in Category : DesktopEvent(cat)) \/ UNCHANGED vars
  <2>1. typing'[x] = typing[x] /\ up'[x] = up[x]
    BY <1>7 DEF Accept, FinishReading, DesktopEvent, vars, clientVars
  <2>2. Connected(x) /\ inbuf'[x] = inbuf[x]
    <3>1. CASE Accept \/ (\E cat \in Category : DesktopEvent(cat)) \/ UNCHANGED vars
      BY <3>1 DEF Accept, Idle, DesktopEvent, vars, clientVars
    <3>2. CASE FinishReading
      BY <3>2 DEF FinishReading, Busy, clientVars, Drop, ShapeInv, Shape
    <3> QED BY <1>7, <3>1, <3>2
  <2> QED BY <1>1, <2>1, <2>2 DEF InFlight
<1> QED BY <1>2, <1>3, <1>4, <1>5, <1>6, <1>7 DEF Next

-----------------------------------------------------------------------------
(* The service as the state shows it.                                        *)
(* The words of the service are those of the protocol. *)
LEMMA SameWords ==
    /\ \A line : Service!Halves(line) = Halves(line)
    /\ \A r : Service!Owes(r) <=> Owes(r)
    /\ \A r, t : /\ Service!Changes(r, t) <=> Changes(r, t)
                 /\ Service!TagAfter(r, t) = TagAfter(r, t)
                 /\ Service!Answer(r, t) = Answer(r, t)
<1>1. \A line : Service!Halves(line) = Halves(line)
  BY DEF Service!Halves, Halves
<1>2. \A r : Service!Owes(r) <=> Owes(r)
  BY DEF Service!Owes, Owes
<1>3. \A r, t : Service!Changes(r, t) <=> Changes(r, t)
  BY DEF Service!Changes, Changes, Service!FocusTagValid, FocusTagValid
<1>4. \A r, t : Service!TagAfter(r, t) = TagAfter(r, t)
  BY <1>3 DEF Service!TagAfter, TagAfter
<1>5. \A r, t : Service!Answer(r, t) = Answer(r, t)
  BY <1>4 DEF Service!Answer, Answer
<1> QED BY <1>1, <1>2, <1>3, <1>4, <1>5

OwedIn(s, c) == IF ~ s.running \/ peer[c] = "gone" THEN <<>> ELSE Owe(s, c)

(* What the abstract service owes is what the wire holds... *)
LEMMA SeenOwed == \A c \in Client : owed[c] = OwedIn(Wire, c)
BY DEF owed, OwedIn, Owe, Wire

(* ... before and after a handler. *)
LEMMA OwedAfter ==
    ASSUME NEW s, Becomes(s), peer' = peer
    PROVE  \A c \in Client : owed'[c] = OwedIn(s, c)
BY DEF owed, OwedIn, Owe, Becomes

(* The mapped variables are functions on the clients, before and after.      *)
LEMMA SeenMaps ==
    /\ link = [c \in Client |-> link[c]] /\ link' = [c \in Client |-> link'[c]]
    /\ asked = [c \in Client |-> asked[c]] /\ asked' = [c \in Client |-> asked'[c]]
    /\ owed = [c \in Client |-> owed[c]] /\ owed' = [c \in Client |-> owed'[c]]
    /\ heeded = [c \in Client |-> heeded[c]] /\ heeded' = [c \in Client |-> heeded'[c]]
<1>1. link = [c \in Client |-> link[c]] /\ link' = [c \in Client |-> link'[c]]
  BY DEF link
<1>2. asked = [c \in Client |-> asked[c]] /\ asked' = [c \in Client |-> asked'[c]]
  BY DEF asked
<1>3. owed = [c \in Client |-> owed[c]] /\ owed' = [c \in Client |-> owed'[c]]
  BY DEF owed
<1>4. heeded = [c \in Client |-> heeded[c]] /\ heeded' = [c \in Client |-> heeded'[c]]
  BY DEF heeded
<1> QED BY <1>1, <1>2, <1>3, <1>4

(* A step that changes none of the mapped values is a stutter. *)
LEMMA SeenSame ==
    ASSUME \A c \in Client : /\ link'[c] = link[c] /\ asked'[c] = asked[c]
                             /\ owed'[c] = owed[c] /\ heeded'[c] = heeded[c],
           tagset' = tagset, admitted' = admitted, running' = running
    PROVE  UNCHANGED Service!serviceVars
BY SeenMaps DEF Service!serviceVars

(* A write to a client that hung up ends the service for all. *)
LEMMA KilledService ==
    ASSUME running, running' = FALSE, tagset' \in Tag,
           NEW c \in Client, conn[c] = "open", peer[c] = "gone"
    PROVE  Service!End
<1>1. c \in admitted /\ link[c] = "lost"
  BY DEF admitted, link
<1>2. \A x \in Client : /\ link'[x] = "closed" /\ asked'[x] = <<>>
                        /\ owed'[x] = <<>> /\ heeded'[x] = {}
  BY DEF link, asked, owed, heeded, Connected
<1>3. admitted' = {}
  BY DEF admitted
<1>4. Service!Cut(Client, "closed")
  BY <1>2, SeenMaps DEF Service!Cut
<1> QED BY <1>1, <1>3, <1>4 DEF Service!End

(* Who is let in is known from the connections. *)
LEMMA AdmittedSame ==
    ASSUME running' = running, conn' = conn
    PROVE  admitted' = admitted
BY DEF admitted

(* A broadcast reaches those whose subscription the service heeded. *)
LEMMA BroadcastHeard ==
    ASSUME ShapeInv, running, NEW cat, NEW line \in Line, NEW c \in Client,
           Broadcast(Wire, cat, line).running
    PROVE  OwedIn(Broadcast(Wire, cat, line), c) =
               IF cat \in heeded[c] THEN OwedIn(Wire, c) \o Halves(line) ELSE OwedIn(Wire, c)
<1> DEFINE b == Broadcast(Wire, cat, line)
<1>0. Wire.running /\ b.running
  BY DEF Wire
<1> SUFFICES OwedIn(b, c) =
                 IF cat \in heeded[c] THEN OwedIn(Wire, c) \o Halves(line) ELSE OwedIn(Wire, c)
  OBVIOUS
<1>1. IF c \in Subscribers(cat)
      THEN peer[c] # "gone" => Owe(b, c) = Owe(Wire, c) \o Halves(line)
      ELSE b.out[c] = Wire.out[c] /\ b.down[c] = Wire.down[c]
  BY BroadcastOwes DEF ShapeInv
<1> HIDE DEF b
<1>2. heeded[c] = IF Connected(c) THEN sub[c] ELSE {}
  BY DEF heeded
<1>3. CASE peer[c] = "gone"
  BY <1>2, <1>3 DEF OwedIn, Connected
<1>4. CASE peer[c] # "gone"
  <2>1. c \in Subscribers(cat) <=> cat \in heeded[c]
    BY <1>2, <1>4 DEF Subscribers, Connected, ShapeInv, Shape, Consistent
  <2>2. CASE c \in Subscribers(cat)
    <3>1. Owe(b, c) = Owe(Wire, c) \o Halves(line)
      BY <1>1, <1>4, <2>2
    <3> QED BY <1>0, <1>4, <2>1, <2>2, <3>1 DEF OwedIn
  <2>3. CASE c \notin Subscribers(cat)
    <3>1. Owe(b, c) = Owe(Wire, c)
      BY <1>1, <2>3 DEF Owe
    <3> QED BY <1>0, <1>4, <2>1, <2>3, <3>1 DEF OwedIn
  <2> QED BY <2>2, <2>3
<1> QED BY <1>3, <1>4

(* The initial states of the abstract service are those of the socket. *)
LEMMA InitService == Init => Service!ServiceInit
<1> SUFFICES ASSUME Init PROVE Service!ServiceInit
  OBVIOUS
<1>1. <<>> \in Seq(Part) /\ <<>> \in Seq(Half) /\ Len(<<>>) = 0
  BY EmptySeq
<1>2. <<>> \o <<>> = <<>>
  BY <1>1, ConcatEmptySeq
<1>3. Lines(<<>>) = <<>>
  <2>1. Len(<<>>) < 2
    BY <1>1
  <2> QED BY <1>1, <2>1, LinesNone, Zenon
<1>4. \A c \in Client : /\ link[c] = "absent" /\ asked[c] = <<>>
                        /\ owed[c] = <<>> /\ heeded[c] = {}
  BY <1>2, <1>3 DEF Init, link, asked, owed, heeded, Connected
<1>5. link = [c \in Client |-> "absent"]
  BY <1>4 DEF link
<1>6. asked = [c \in Client |-> <<>>]
  BY <1>4 DEF asked
<1>7. owed = [c \in Client |-> <<>>]
  BY <1>4 DEF owed
<1>8. heeded = [c \in Client |-> {}]
  BY <1>4 DEF heeded
<1>9. tagset \in Tag /\ running = TRUE /\ admitted = {}
  BY DEF Init, admitted
<1> QED BY <1>5, <1>6, <1>7, <1>8, <1>9 DEF Service!ServiceInit

-----------------------------------------------------------------------------
(* The clients' steps. *)
LEMMA ConnectService ==
    ASSUME ShapeInv, NEW c \in Client, Connect(c) PROVE Service!Join(c)
<1> USE DEF Connect, ShapeInv, Shape, Consistent, Connected
<1>1. link[c] = "absent" /\ link' = [link EXCEPT ![c] = "open"]
  <2>1. link[c] = "absent" /\ link'[c] = "open"
    BY DEF link
  <2>2. \A x \in Client \ {c} : link'[x] = link[x]
    BY DEF link
  <2>3. link = [x \in Client |-> link[x]] /\ link' = [x \in Client |-> link'[x]]
    BY SeenMaps
  <2> QED BY <2>1, <2>2, <2>3
<1>2. asked' = asked
  BY DEF asked
<1>3. owed' = owed
  BY DEF owed
<1>4. heeded' = heeded
  BY DEF heeded
<1>5. admitted' = admitted
  BY DEF admitted
<1> QED BY <1>1, <1>2, <1>3, <1>4, <1>5 DEF Service!Join

(* Half a request is nothing to the service; *)
LEMMA FirstHalfService ==
    ASSUME ShapeInv, StreamInv, NEW c \in Client, NEW r \in Request, SendFirstHalf(c, r)
    PROVE  UNCHANGED Service!serviceVars
<1> USE DEF SendFirstHalf, serverVars
<1>1. ASSUME NEW x \in Client
      PROVE  link'[x] = link[x] /\ owed'[x] = owed[x] /\ heeded'[x] = heeded[x]
  BY DEF link, owed, heeded, Connected
<1>2. \A x \in Client : Connected(x)' <=> Connected(x)
  BY DEF Connected
<1>3. ASSUME NEW x \in Client, Connected(x) PROVE Lines(InFlight(x))' = Lines(InFlight(x))
  <2>1. CASE x = c
    <3>1. Stream(InFlight(c), NoRequest) /\ InFlight(c) \in Seq(Part)
      BY <1>3, <2>1, InFlightShape DEF StreamInv, InFlight, ShapeInv
    <3>2. Len(InFlight(c)) % 2 = 0 /\ <<r, 1>> \in Part
      BY <3>1 DEF Stream, Part
    <3>3. Lines(Append(InFlight(c), <<r, 1>>)) = Lines(InFlight(c))
      BY <3>1, <3>2, LinesFirst
    <3>4. InFlight(c)' = Append(InFlight(c), <<r, 1>>)
      BY FirstInFlight
    <3> QED BY <2>1, <3>3, <3>4 DEF Lines
  <2>2. CASE x # c
    <3>1. InFlight(x)' = InFlight(x)
      BY <2>2, FirstInFlight
    <3> QED BY <3>1 DEF Lines
  <2> QED BY <2>1, <2>2
<1>4. \A x \in Client : asked'[x] = asked[x]
  BY <1>2, <1>3 DEF asked, InFlight
<1> QED BY <1>1, <1>4, AdmittedSame, SeenSame

(* who types nothing asks nothing; *)
LEMMA AskedSame ==
    ASSUME NEW x \in Client, InFlight(x)' = InFlight(x), Connected(x)' <=> Connected(x)
    PROVE  asked'[x] = asked[x]
BY DEF asked, InFlight, Lines

(* the second half asks. *)
LEMMA SecondHalfService ==
    ASSUME ShapeInv, StreamInv, NEW c \in Client, SendSecondHalf(c)
    PROVE  Service!Ask(c, typing[c]) \/ UNCHANGED Service!serviceVars
<1> USE DEF SendSecondHalf, serverVars
<1>1. ASSUME NEW x \in Client
      PROVE  link'[x] = link[x] /\ owed'[x] = owed[x] /\ heeded'[x] = heeded[x]
  BY DEF link, owed, heeded, Connected
<1>2. \A x \in Client : Connected(x)' <=> Connected(x)
  BY DEF Connected
<1>3. ASSUME NEW x \in Client, x # c PROVE asked'[x] = asked[x]
  <2>1. InFlight(x)' = InFlight(x)
    BY <1>3, SecondInFlight
  <2> QED BY <1>2, <2>1, AskedSame
<1>4. CASE Connected(c)
  <2>1. Stream(InFlight(c), typing[c]) /\ InFlight(c) \in Seq(Part) /\ typing[c] \in Request
    BY <1>4, InFlightShape, SecondInFlight DEF StreamInv, InFlight, ShapeInv
  <2>2. Len(InFlight(c)) % 2 = 1 /\ <<typing[c], 2>> \in Part
    BY <2>1, IpcAssumption DEF Stream, Part
  <2>3. Lines(Append(InFlight(c), <<typing[c], 2>>)) = Append(Lines(InFlight(c)), typing[c])
    BY <2>1, <2>2, LinesSecond
  <2>4. asked'[c] = Lines(InFlight(c))' /\ asked[c] = Lines(InFlight(c))
    BY <1>2, <1>4 DEF asked, InFlight
  <2>5. Lines(InFlight(c))' = Lines(Append(InFlight(c), <<typing[c], 2>>))
    <3>1. InFlight(c)' = Append(InFlight(c), <<typing[c], 2>>)
      BY SecondInFlight
    <3> QED BY <3>1 DEF Lines
  <2>6. asked'[c] = Append(asked[c], typing[c])
    BY <2>3, <2>4, <2>5
  <2>7. link[c] = "open"
    BY <1>4 DEF link, Connected
  <2>8. tagset' = tagset /\ running' = running /\ admitted' = admitted
    BY AdmittedSame
  <2> QED BY <1>1, <1>3, <2>6, <2>7, <2>8, SeenMaps DEF Service!Ask
<1>5. CASE ~ Connected(c)
  <2>1. asked'[c] = asked[c]
    BY <1>2, <1>5 DEF asked
  <2> QED BY <1>1, <1>3, <2>1, AdmittedSame, SeenSame
<1> QED BY <1>4, <1>5

(* A client takes what it is owed, *)
LEMMA ReceiveService ==
    ASSUME ShapeInv, NEW c \in Client, Receive(c)
    PROVE  Service!Take(c)
<1> USE DEF Receive, serverVars
<1>1. ASSUME NEW x \in Client
      PROVE  link'[x] = link[x] /\ asked'[x] = asked[x] /\ heeded'[x] = heeded[x]
  BY DEF link, asked, heeded, Connected
<1>2. ASSUME NEW x \in Client, x # c PROVE owed'[x] = owed[x]
  BY <1>2 DEF owed, ShapeInv, WireOK, Wire
<1> DEFINE d == down[c]
           o == outbuf[c]
<1>3. d \in Seq(Half) /\ o \in Seq(Half) /\ d # <<>>
  BY DEF ShapeInv, WireOK, Wire
<1>4. owed[c] = d \o o /\ owed'[c] = Tail(d) \o o
  BY DEF owed, ShapeInv, WireOK, Wire
<1> HIDE DEF d, o
<1>5. d \o o # <<>> /\ Tail(d) \o o = Tail(d \o o)
  BY <1>3, TailBefore
<1>6. owed[c] # <<>> /\ owed'[c] = Tail(owed[c])
  BY <1>4, <1>5
<1>7. tagset' = tagset /\ running' = running /\ admitted' = admitted
  BY AdmittedSame
<1> QED BY <1>1, <1>2, <1>6, <1>7, SeenMaps DEF Service!Take

(* finishes asking, *)
LEMMA HalfCloseService ==
    ASSUME ShapeInv, NEW c \in Client, HalfClose(c)
    PROVE  Service!Finish(c) \/ UNCHANGED Service!serviceVars
<1> USE DEF HalfClose, serverVars
<1>1. ASSUME NEW x \in Client
      PROVE  asked'[x] = asked[x] /\ owed'[x] = owed[x] /\ heeded'[x] = heeded[x]
  BY DEF asked, owed, heeded, Connected, ShapeInv, Shape
<1>2. ASSUME NEW x \in Client, x # c PROVE link'[x] = link[x]
  BY <1>2 DEF link, Connected, ShapeInv, Shape
<1>3. CASE Connected(c)
  <2>1. link[c] = "open" /\ link'[c] = "finished"
    BY <1>3 DEF link, Connected, ShapeInv, Shape
  <2>2. tagset' = tagset /\ running' = running /\ admitted' = admitted
    BY AdmittedSame
  <2> QED BY <1>1, <1>2, <2>1, <2>2, SeenMaps DEF Service!Finish
<1>4. CASE ~ Connected(c)
  <2>1. link'[c] = link[c]
    <3>1. peer[c] = "open" /\ peer'[c] = "half" /\ conn'[c] = "dropped" /\ conn[c] = "dropped"
      BY <1>4 DEF Connected, ShapeInv, Shape
    <3> QED BY <3>1 DEF link, Connected
  <2> QED BY <1>1, <1>2, <2>1, AdmittedSame, SeenSame
<1> QED BY <1>3, <1>4

(* Clients that are lost: their part of the service is over. *)
LEMMA LostService ==
    ASSUME NEW lost \in SUBSET Client, NEW how,
           \A x \in lost : /\ link'[x] = how
                           /\ asked'[x] = <<>> /\ owed'[x] = <<>> /\ heeded'[x] = {},
           \A x \in Client \ lost : /\ link'[x] = link[x] /\ asked'[x] = asked[x]
                                    /\ owed'[x] = owed[x] /\ heeded'[x] = heeded[x]
    PROVE  Service!Cut(lost, how)
BY SeenMaps DEF Service!Cut

(* or hangs up. *)
LEMMA CloseService ==
    ASSUME ShapeInv, NEW c \in Client, Close(c)
    PROVE  Service!HangUp(c)
<1> USE DEF Close, serverVars, ShapeInv, Shape
<1>1. ASSUME NEW x \in Client \ {c}
      PROVE  /\ link'[x] = link[x] /\ asked'[x] = asked[x]
             /\ owed'[x] = owed[x] /\ heeded'[x] = heeded[x]
  <2>1. peer'[x] = peer[x] /\ up'[x] = up[x] /\ down'[x] = down[x]
    BY DEF WireOK, Wire
  <2> QED BY <2>1 DEF link, asked, owed, heeded, Connected
<1>2. link[c] # "absent" /\ peer'[c] = "gone"
  BY DEF link
<1>3. asked'[c] = <<>> /\ owed'[c] = <<>> /\ heeded'[c] = {}
  BY <1>2 DEF asked, owed, heeded, Connected
<1>4. link'[c] = IF link[c] = "closed" THEN "closed" ELSE "lost"
  BY <1>2 DEF link
<1>5. Service!Cut({c}, IF link[c] = "closed" THEN "closed" ELSE "lost")
  <2> HIDE DEF Close, ShapeInv, Shape
  <2>1. ASSUME NEW how, link'[c] = how PROVE Service!Cut({c}, how)
    <3>1. {c} \in SUBSET Client
      OBVIOUS
    <3>2. \A x \in {c} : /\ link'[x] = how /\ asked'[x] = <<>>
                         /\ owed'[x] = <<>> /\ heeded'[x] = {}
      BY <1>3, <2>1
    <3> QED BY <1>1, <3>1, <3>2, LostService
  <2>2. CASE link[c] = "closed"
    BY <1>4, <2>1, <2>2
  <2>3. CASE link[c] # "closed"
    BY <1>4, <2>1, <2>3
  <2> QED BY <2>2, <2>3
<1>6. admitted' = admitted
  BY AdmittedSame
<1> QED BY <1>2, <1>5, <1>6 DEF Service!HangUp

(* The service notices a hangup, *)
LEMMA HangupService ==
    ASSUME ShapeInv, NEW c \in Client, HangupReady(c)
    PROVE  Service!Notice(c)
<1> USE DEF HangupReady, Idle, Drop, clientVars, Wire, ShapeInv, Shape
<1>1. ASSUME NEW x \in Client \ {c}
      PROVE  /\ link'[x] = link[x] /\ asked'[x] = asked[x]
             /\ owed'[x] = owed[x] /\ heeded'[x] = heeded[x]
  <2>1. /\ conn'[x] = conn[x] /\ inbuf'[x] = inbuf[x] /\ outbuf'[x] = outbuf[x]
        /\ sub'[x] = sub[x]
    BY DEF WireOK
  <2> QED BY <2>1 DEF link, asked, owed, heeded, Connected
<1>2. peer[c] = "gone" /\ peer' = peer
  OBVIOUS
<1>3. /\ link[c] = "lost" /\ link'[c] = "closed" /\ asked'[c] = asked[c]
      /\ owed'[c] = owed[c] /\ heeded'[c] = heeded[c]
  BY <1>2 DEF link, asked, owed, heeded, Connected
<1>4. c \in admitted /\ admitted' = admitted \ {c}
  BY DEF admitted
<1> QED BY <1>1, <1>3, <1>4, SeenMaps DEF Service!Notice

(* reading is nothing to it, *)
LEMMA ReadService ==
    ASSUME ShapeInv, NEW c \in Client, ReadReady(c)
    PROVE  UNCHANGED Service!serviceVars
<1>1. ASSUME NEW x \in Client
      PROVE  link'[x] = link[x] /\ owed'[x] = owed[x] /\ heeded'[x] = heeded[x]
  BY DEF ReadReady, clientVars, link, owed, heeded, Connected
<1>2. ASSUME NEW x \in Client PROVE asked'[x] = asked[x]
  <2>1. InFlight(x)' = InFlight(x)
    BY ReadInFlight
  <2>2. Connected(x)' <=> Connected(x)
    BY DEF ReadReady, clientVars, Connected
  <2> QED BY <2>1, <2>2, AskedSame
<1> QED BY <1>1, <1>2, AdmittedSame, SeenSame DEF ReadReady

(* nor is writing what was queued, unless the client is gone. *)
LEMMA WriteService ==
    ASSUME ShapeInv, NEW c \in Client, WriteReady(c)
    PROVE  Service!End \/ UNCHANGED Service!serviceVars
<1> DEFINE s == TryFlush(Wire, c)
<1>1. /\ Becomes(s) /\ peer' = peer /\ conn' = conn /\ tagset' = tagset
      /\ running /\ running' = s.running /\ conn[c] = "open"
  BY DEF WriteReady, Idle, Becomes, clientVars
<1>0. CASE ~ s.running
  <2>1. s.running \in BOOLEAN /\ peer[c] = "gone" /\ tagset \in Tag
    BY <1>0, <1>1, FlushOwes DEF ShapeInv, Shape, WireOK, Wire
  <2> QED BY <1>0, <1>1, <2>1, KilledService
<1>5. CASE s.running
  <2>1. Wire.running /\ running' = running /\ admitted' = admitted
    BY <1>1, <1>5, AdmittedSame, FlushOwes DEF ShapeInv, WireOK, Wire
  <2>2. ASSUME NEW x \in Client
        PROVE  link'[x] = link[x] /\ asked'[x] = asked[x] /\ heeded'[x] = heeded[x]
    BY <2>1 DEF WriteReady, clientVars, link, asked, heeded, Connected
  <2>3. \A x \in Client : OwedIn(s, x) = OwedIn(Wire, x)
    <3>1. peer[c] # "gone" => Owe(s, c) = Owe(Wire, c)
      BY FlushOwes DEF ShapeInv
    <3>2. \A x \in Client \ {c} : s.out[x] = Wire.out[x] /\ s.down[x] = Wire.down[x]
      BY FlushOwes DEF ShapeInv
    <3> HIDE DEF s
    <3>3. \A x \in Client \ {c} : Owe(s, x) = Owe(Wire, x)
      BY <3>2 DEF Owe
    <3> QED BY <1>5, <2>1, <3>1, <3>3 DEF OwedIn
  <2> HIDE DEF s
  <2>4. \A x \in Client : owed'[x] = owed[x]
    BY <1>1, <2>3, SeenOwed, OwedAfter
  <2> QED BY <1>1, <2>1, <2>2, <2>4, SeenSame
<1> QED BY <1>0, <1>5

(* Who was pending is let in or turned away. *)
LEMMA AcceptService ==
    ASSUME ShapeInv, Accept
    PROVE  \E let_in, refused \in SUBSET Client : Service!Admit(let_in, refused)
<1> DEFINE pending == {c \in Client : conn[c] = "pending"}
<1>1. PICK refused \in SUBSET pending :
          conn' = [c \in Client |-> IF c \in refused THEN "dropped"
                                    ELSE IF c \in pending THEN "open" ELSE conn[c]]
  BY DEF Accept
<1>2. running /\ UNCHANGED <<clientVars, up, down, inbuf, outbuf, sub, tagset, running>>
  BY DEF Accept, Idle
<1>3. ASSUME NEW x \in refused
      PROVE  /\ link'[x] = "closed"
             /\ asked'[x] = <<>> /\ owed'[x] = <<>> /\ heeded'[x] = {}
  <2>1. x \in Client /\ conn[x] = "pending" /\ conn'[x] = "dropped"
    BY <1>1
  <2>2. peer[x] # "absent" /\ down[x] = <<>> /\ outbuf[x] = <<>> /\ peer' = peer
    BY <1>2, <2>1 DEF ShapeInv, Consistent, clientVars
  <2>3. link'[x] = "closed" /\ asked'[x] = <<>> /\ heeded'[x] = {}
    BY <2>1 DEF link, asked, heeded, Connected
  <2>4. <<>> \o <<>> = <<>>
    BY EmptySeq, ConcatEmptySeq
  <2>5. owed'[x] = <<>>
    BY <1>2, <2>1, <2>2, <2>4 DEF owed
  <2> QED BY <2>3, <2>5
<1>4. ASSUME NEW x \in Client \ refused
      PROVE  /\ link'[x] = link[x] /\ asked'[x] = asked[x]
             /\ owed'[x] = owed[x] /\ heeded'[x] = heeded[x]
  <2>1. Connected(x)' <=> Connected(x)
    BY <1>1, <1>2 DEF Connected, clientVars
  <2>2. conn'[x] = "dropped" <=> conn[x] = "dropped"
    BY <1>1
  <2> QED BY <1>2, <2>1, <2>2 DEF link, asked, owed, heeded, clientVars
<1> DEFINE let_in == pending \ refused
<1>5. refused \in SUBSET Client /\ let_in \in SUBSET Client
  BY <1>1
<1>6. Service!Cut(refused, "closed")
  BY <1>3, <1>4, <1>5, LostService
<1>7. admitted' = admitted \cup let_in
  <2>1. \A x \in Client : conn'[x] = "open" <=> conn[x] = "open" \/ x \in let_in
    BY <1>1
  <2> QED BY <1>2, <2>1 DEF admitted
<1>8. \A x \in let_in \cup refused : x \notin admitted /\ link[x] \notin {"absent", "closed"}
  <2>1. ASSUME NEW x \in let_in \cup refused
        PROVE  x \notin admitted /\ link[x] \notin {"absent", "closed"}
    <3>1. x \in Client /\ conn[x] = "pending"
      BY <1>1
    <3>2. peer[x] # "absent"
      BY <3>1 DEF ShapeInv, Consistent
    <3> QED BY <1>2, <3>1, <3>2 DEF admitted, link
  <2> QED BY <2>1
<1>9. let_in \cap refused = {}
  OBVIOUS
<1> HIDE DEF let_in
<1> QED BY <1>2, <1>5, <1>6, <1>7, <1>8, <1>9 DEF Service!Admit

-----------------------------------------------------------------------------
(* The compositor's steps.                                                   *)
(* An event, as the subscribers hear of it. *)
LEMMA EventService ==
    ASSUME ShapeInv, running, NEW cat, NEW line \in Line,
           Becomes(Broadcast(Wire, cat, line)), Broadcast(Wire, cat, line).running,
           peer' = peer
    PROVE  owed' = Service!Sent(owed, heeded, cat, line)
<1>1. ASSUME NEW c \in Client
      PROVE  owed'[c] = IF cat \in heeded[c] THEN owed[c] \o Halves(line) ELSE owed[c]
  BY BroadcastHeard, SeenOwed, OwedAfter
<1>2. Service!Sent(owed, heeded, cat, line) =
          [c \in Client |-> IF cat \in heeded[c] THEN owed[c] \o Halves(line) ELSE owed[c]]
  BY SameWords DEF Service!Sent
<1>3. owed' = [c \in Client |-> owed'[c]]
  BY SeenMaps
<1> QED BY <1>1, <1>2, <1>3

(* A broadcast is heard, or a subscriber had hung up and the service ends. *)
LEMMA HeardOrEnd ==
    ASSUME ShapeInv, running, NEW cat, NEW line \in Line,
           Broadcast(Wire, cat, line).running = running', tagset' \in Tag
    PROVE  \/ Service!End
           \/ running' = running /\ Broadcast(Wire, cat, line).running
<1> DEFINE b == Broadcast(Wire, cat, line)
<1>1. WireOK(b) /\ (Wire.running /\ (\A c \in Subscribers(cat) : peer[c] # "gone") => b.running)
  BY BroadcastOwes DEF ShapeInv
<1>2. b.running \in BOOLEAN /\ Wire.running = running /\ running \in BOOLEAN
  BY <1>1 DEF WireOK, Wire, ShapeInv
<1> HIDE DEF b
<1>3. CASE b.running
  BY <1>2, <1>3 DEF b
<1>4. CASE ~ b.running
  <2>1. PICK c \in Subscribers(cat) : peer[c] = "gone"
    BY <1>1, <1>2, <1>4
  <2>2. c \in Client /\ conn[c] = "open" /\ running' = FALSE
    BY <1>2, <1>4, <2>1 DEF Subscribers, b
  <2> QED BY <2>1, <2>2, KilledService
<1> QED BY <1>3, <1>4

(* An event of the desktop goes to its subscribers. *)
LEMMA DesktopService ==
    ASSUME ShapeInv, NEW cat \in Category, DesktopEvent(cat)
    PROVE  Service!ServiceNext
<1>0. running /\ running \in BOOLEAN
  BY DEF DesktopEvent, Idle, ShapeInv, WireOK, Wire
<1>1. running' = running =>
          link' = link /\ asked' = asked /\ heeded' = heeded /\ admitted' = admitted
  BY DEF DesktopEvent, clientVars, link, asked, heeded, admitted, Connected
<1>2. peer' = peer
  BY DEF DesktopEvent, clientVars
<1>3. CASE cat = "tag"
  <2>1. PICK t \in Tag \ {tagset} : /\ tagset' = t
                                    /\ Becomes(Broadcast(Wire, cat, <<"tag::change", t>>))
    BY <1>3 DEF DesktopEvent
  <2>2. <<"tag::change", t>> \in Line
    BY <2>1 DEF Line
  <2>5. \/ Service!End
        \/ running' = running /\ Broadcast(Wire, cat, <<"tag::change", t>>).running
    BY <1>0, <1>3, <2>1, <2>2, HeardOrEnd DEF Becomes
  <2>6. CASE running' = running /\ Broadcast(Wire, cat, <<"tag::change", t>>).running
    <3>2. owed' = Service!Sent(owed, heeded, "tag", <<"tag::change", t>>)
      BY <1>0, <1>2, <1>3, <2>1, <2>2, <2>6, EventService
    <3>3. Service!Happens("tag", <<"tag::change", t>>)
      BY <1>1, <2>1, <2>6, <3>2 DEF Service!Happens
    <3> QED BY <1>0, <2>1, <3>3 DEF Service!ServiceNext
  <2> QED BY <1>0, <2>5, <2>6 DEF Service!ServiceNext
<1>4. CASE cat # "tag"
  <2>1. Becomes(Broadcast(Wire, cat, <<cat, 0>>)) /\ tagset' = tagset
    BY <1>4 DEF DesktopEvent
  <2>2. <<cat, 0>> \in Line
    BY DEF Line
  <2>3. tagset' \in Tag
    BY <2>1 DEF ShapeInv, Shape
  <2>5. \/ Service!End
        \/ running' = running /\ Broadcast(Wire, cat, <<cat, 0>>).running
    BY <1>0, <2>1, <2>2, <2>3, HeardOrEnd DEF Becomes
  <2>6. CASE running' = running /\ Broadcast(Wire, cat, <<cat, 0>>).running
    <3>2. owed' = Service!Sent(owed, heeded, cat, <<cat, 0>>)
      BY <1>0, <1>2, <2>1, <2>2, <2>6, EventService
    <3>3. Service!Happens(cat, <<cat, 0>>)
      BY <1>1, <1>4, <2>1, <2>6, <3>2 DEF Service!Happens
    <3> QED BY <1>0, <1>4, <3>3 DEF Service!ServiceNext
  <2> QED BY <1>0, <2>5, <2>6 DEF Service!ServiceNext
<1> QED BY <1>3, <1>4

(* What is owed once the request r of the client c is announced.             *)
LEMMA AnnouncedOwes ==
    ASSUME ShapeInv, running, NEW r, Announced(Wire, r).running
    PROVE  /\ WireOK(Announced(Wire, r))
           /\ \A x \in Client :
                 OwedIn(Announced(Wire, r), x) =
                     IF Changes(r, tagset) /\ "tag" \in heeded[x]
                     THEN owed[x] \o Halves(<<"tag::change", r[2]>>) ELSE owed[x]
<1>1. CASE Changes(r, tagset)
  <2>1. <<"tag::change", r[2]>> \in Line
    BY <1>1 DEF Changes, FocusTagValid, Line
  <2>2. Announced(Wire, r) = Broadcast(Wire, "tag", <<"tag::change", r[2]>>)
    BY <1>1 DEF Announced
  <2>3. WireOK(Announced(Wire, r))
    BY <2>1, <2>2, BroadcastOwes DEF ShapeInv
  <2>4. \A x \in Client : OwedIn(Announced(Wire, r), x) =
            IF "tag" \in heeded[x] THEN owed[x] \o Halves(<<"tag::change", r[2]>>) ELSE owed[x]
    BY <2>1, <2>2, BroadcastHeard, SeenOwed
  <2> QED BY <1>1, <2>3, <2>4
<1>2. CASE ~ Changes(r, tagset)
  BY <1>2, SeenOwed DEF Announced, ShapeInv
<1> QED BY <1>1, <1>2

(* Announcing what a request changed is heard, or ends the service. *)
LEMMA RequestHeard ==
    ASSUME ShapeInv, HandleRequestLine
    PROVE  /\ running
           /\ \/ Service!End
              \/ /\ running' = running
                 /\ Announced(Wire, Head(inbuf[current])[1]).running
<1> DEFINE r == Head(inbuf[current])[1]
           s == Announced(Wire, r)
           t == IF Owes(r) THEN Queue(s, current, Answer(r, tagset)) ELSE s
<1>1. /\ running' = t.running /\ running /\ running \in BOOLEAN /\ tagset \in Tag
      /\ tagset' = TagAfter(r, tagset) /\ Wire.running = running
  BY DEF HandleRequestLine, Busy, Becomes, ShapeInv, Shape, WireOK, Wire
<1>2. t.running = s.running
  BY DEF Queue
<1> HIDE DEF t
<1>3. tagset' \in Tag
  BY <1>1 DEF TagAfter, Changes, FocusTagValid
<1>4. CASE Changes(r, tagset)
  <2>1. <<"tag::change", r[2]>> \in Line
    BY <1>4 DEF Changes, FocusTagValid, Line
  <2>2. s = Broadcast(Wire, "tag", <<"tag::change", r[2]>>)
    BY <1>4 DEF Announced
  <2> HIDE DEF s, r
  <2>3. Service!End \/ running' = running
    BY <1>1, <1>2, <1>3, <2>1, <2>2, HeardOrEnd
  <2> QED BY <1>1, <1>2, <2>3 DEF s, r
<1>5. CASE ~ Changes(r, tagset)
  <2>1. s = Wire
    BY <1>5 DEF Announced
  <2> QED BY <1>1, <1>2, <2>1
<1> QED BY <1>4, <1>5

(* A line handled is a request answered. *)
LEMMA RequestService ==
    ASSUME ShapeInv, StreamInv, HandleRequestLine, running' = running,
           Announced(Wire, Head(inbuf[current])[1]).running
    PROVE  Service!ServiceNext \/ UNCHANGED Service!serviceVars
<1> DEFINE c == current
           r == Head(inbuf[current])[1]
           s == Announced(Wire, r)
           t == IF Owes(r) THEN Queue(s, c, Answer(r, tagset)) ELSE s
           line == <<"tag::change", r[2]>>
           told(x) == IF Changes(r, tagset) /\ "tag" \in heeded[x]
                      THEN owed[x] \o Halves(line) ELSE owed[x]
           reply == Halves(Answer(r, tagset))
<1>1. /\ Becomes(t)
      /\ sub' = IF r[1] = "subscribe" THEN [sub EXCEPT ![c] = r[2]] ELSE sub
      /\ tagset' = TagAfter(r, tagset)
      /\ UNCHANGED <<clientVars, up, conn, current, eof>>
  BY DEF HandleRequestLine
<1>2. /\ c \in Client /\ conn[c] = "open" /\ peer' = peer /\ tagset \in Tag
      /\ \A x \in Client : Connected(x)' <=> Connected(x)
      /\ running
  BY <1>1 DEF HandleRequestLine, Busy, ShapeInv, Shape, Reading, clientVars, Connected
<1>3. WireOK(s) /\ s.running /\ \A x \in Client : OwedIn(s, x) = told(x)
  BY <1>2, AnnouncedOwes
<1>10. admitted' = admitted
  BY <1>1, AdmittedSame
<1>4. link' = link
  BY <1>2, <1>1 DEF link, Connected
<1>5. \A x \in Client : x # c => asked'[x] = asked[x] /\ heeded'[x] = heeded[x]
  <2>1. ASSUME NEW x \in Client, x # c PROVE asked'[x] = asked[x]
    <3>1. InFlight(x)' = InFlight(x)
      BY <2>1, ServedInFlight
    <3> QED BY <1>2, <3>1, AskedSame
  <2>2. ASSUME NEW x \in Client, x # c PROVE heeded'[x] = heeded[x]
    <3>1. sub'[x] = sub[x]
      BY <1>1, <1>2, <2>2 DEF ShapeInv, Shape
    <3> QED BY <1>2, <3>1 DEF heeded
  <2> QED BY <2>1, <2>2
<1> HIDE DEF s
<1>6. Answer(r, tagset) \in Line
  BY <1>2, AnswerShape
<1>7. ASSUME NEW x \in Client
      PROVE  owed'[x] = IF x = c /\ peer[c] # "gone" /\ Owes(r) THEN told(x) \o reply ELSE told(x)
  <2>1. owed'[x] = OwedIn(t, x)
    BY <1>1, <1>2, OwedAfter
  <2>2. CASE Owes(r)
    <3> DEFINE q == Queue(s, c, Answer(r, tagset))
    <3>1. t = q
      BY <2>2
    <3>2. Owe(q, c) = Owe(s, c) \o reply /\ q.running = s.running
      BY <1>2, <1>3, <1>6, QueueOwes
    <3>3. x # c => q.out[x] = s.out[x] /\ q.down = s.down
      BY <1>2, <1>3, <1>6, QueueOwes
    <3> HIDE DEF q, reply, t, told
    <3>4. x # c => Owe(q, x) = Owe(s, x)
      BY <3>3 DEF Owe
    <3>5. OwedIn(s, x) = told(x)
      BY <1>3
    <3>6. CASE x = c /\ peer[c] # "gone"
      BY <1>3, <2>1, <2>2, <3>1, <3>2, <3>5, <3>6 DEF OwedIn
    <3>7. CASE x # c \/ peer[c] = "gone"
      BY <1>3, <2>1, <2>2, <3>1, <3>2, <3>4, <3>5, <3>7 DEF OwedIn
    <3> QED BY <3>6, <3>7
  <2>3. CASE ~ Owes(r)
    BY <1>3, <2>1, <2>3
  <2> QED BY <2>2, <2>3
<1> HIDE DEF t
<1>8. CASE peer[c] = "gone"
  <2>1. /\ asked[c] = <<>> /\ asked'[c] = <<>> /\ heeded[c] = {} /\ heeded'[c] = {}
    BY <1>2, <1>8 DEF asked, heeded, Connected
  <2>2. asked' = asked /\ heeded' = heeded
    <3>1. \A x \in Client : asked'[x] = asked[x] /\ heeded'[x] = heeded[x]
      BY <1>5, <2>1
    <3> QED BY <3>1, SeenMaps
  <2>3. \A x \in Client : owed'[x] = told(x)
    BY <1>7, <1>8
  <2>4. CASE Changes(r, tagset)
    <3>1. r[2] \in Tag /\ r[2] # tagset /\ tagset' = r[2]
      BY <1>1, <2>4 DEF Changes, FocusTagValid, TagAfter
    <3>2. owed' = Service!Sent(owed, heeded, "tag", line)
      <4>1. Service!Sent(owed, heeded, "tag", line) =
                [x \in Client |-> IF "tag" \in heeded[x] THEN owed[x] \o Halves(line) ELSE owed[x]]
        BY SameWords DEF Service!Sent
      <4> QED BY <2>3, <2>4, <4>1, SeenMaps
    <3>3. Service!Happens("tag", <<"tag::change", r[2]>>)
      BY <1>4, <1>10, <2>2, <3>1, <3>2 DEF Service!Happens
    <3> QED BY <1>2, <3>1, <3>3 DEF Service!ServiceNext
  <2>5. CASE ~ Changes(r, tagset)
    <3>1. tagset' = tagset
      BY <1>1, <2>5 DEF TagAfter
    <3> QED BY <1>4, <1>10, <2>2, <2>3, <2>5, <3>1, SeenSame
  <2> QED BY <2>4, <2>5
<1>9. CASE peer[c] # "gone"
  <2> DEFINE w == InFlight(c)
  <2>1. Connected(c)
    BY <1>2, <1>9 DEF Connected
  <2>2. w \in Seq(Part) /\ Len(w) >= 2 /\ Stream(w, typing[c]) /\ r = Head(w)[1]
    BY <1>2, <2>1, InFlightShape, ServedInFlight DEF ShapeInv, StreamInv, InFlight
  <2>3. asked[c] = Lines(w) /\ asked'[c] = Lines(InFlight(c)')
    BY <1>1, <1>2, <2>1 DEF asked, InFlight
  <2>4. asked[c] # <<>> /\ r = Head(asked[c]) /\ asked'[c] = Tail(asked[c])
    <3>1. Lines(w) # <<>> /\ Head(w)[1] = Head(Lines(w)) /\ Lines(Tail(Tail(w))) = Tail(Lines(w))
      BY <2>2, LinesServed, StreamServed
    <3>2. InFlight(c)' = Tail(Tail(w))
      BY <1>1, ServedInFlight
    <3> HIDE DEF w, r
    <3> QED BY <2>2, <2>3, <3>1, <3>2
  <2>5. heeded'[c] = IF r[1] = "subscribe" THEN r[2] ELSE heeded[c]
    <3>1. sub'[c] = IF r[1] = "subscribe" THEN r[2] ELSE sub[c]
      BY <1>1, <1>2 DEF ShapeInv, Shape
    <3>2. peer'[c] # "gone" /\ conn'[c] # "dropped"
      BY <1>1, <1>2, <2>1 DEF Connected
    <3> QED BY <1>2, <2>1, <3>1, <3>2 DEF heeded, Connected
  <2> HIDE DEF w, r, reply, line
  <2> DEFINE heard == IF Service!Changes(r, tagset)
                      THEN Service!Sent(owed, heeded, "tag", <<"tag::change", r[2]>>) ELSE owed
  <2>6. heard = [x \in Client |-> told(x)]
    <3>1. Service!Sent(owed, heeded, "tag", <<"tag::change", r[2]>>) =
              [x \in Client |-> IF "tag" \in heeded[x] THEN owed[x] \o Halves(line) ELSE owed[x]]
      BY SameWords DEF Service!Sent, line
    <3>2. CASE Changes(r, tagset)
      BY <3>1, <3>2, SameWords
    <3>3. CASE ~ Changes(r, tagset)
      BY <3>3, SameWords, SeenMaps
    <3> QED BY <3>2, <3>3
  <2>7. reply = Service!Halves(Service!Answer(r, tagset)) /\ (Service!Owes(r) <=> Owes(r))
        /\ Service!TagAfter(r, tagset) = TagAfter(r, tagset)
    BY SameWords DEF reply
  <2> HIDE DEF told, heard
  <2>8. owed' = IF Service!Owes(r)
                THEN [heard EXCEPT ![c] = @ \o Service!Halves(Service!Answer(r, tagset))]
                ELSE heard
    <3>1. owed' = [x \in Client |-> owed'[x]]
      BY SeenMaps
    <3>2. CASE Owes(r)
      BY <1>2, <1>7, <1>9, <2>6, <2>7, <3>1, <3>2
    <3>3. CASE ~ Owes(r)
      BY <1>7, <2>6, <2>7, <3>1, <3>3
    <3> QED BY <2>7, <3>2, <3>3
  <2>9. heeded' = IF r[1] = "subscribe" THEN [heeded EXCEPT ![c] = r[2]] ELSE heeded
    BY <1>2, <1>5, <2>5, SeenMaps
  <2>10. asked' = [asked EXCEPT ![c] = Tail(@)]
    BY <1>2, <1>5, <2>4, SeenMaps
  <2>11. Service!Serve(c)
    <3>1. c \in admitted
      BY <1>2 DEF admitted
    <3> QED BY <1>1, <1>4, <1>10, <2>4, <2>7, <2>8, <2>9, <2>10, <3>1 DEF Service!Serve, heard
  <2> QED BY <1>2, <2>11 DEF Service!ServiceNext
<1> QED BY <1>8, <1>9

(* Writing the replies ends the service if the client had hung up. *)
LEMMA FinishHeard ==
    ASSUME ShapeInv, FinishReading
    PROVE  /\ running
           /\ \/ Service!End
              \/ running' = running /\ TryFlush(Wire, current).running
<1> DEFINE c == current
           s == TryFlush(Wire, c)
<1>1. running /\ running' = s.running /\ tagset' = tagset /\ c \in Client /\ conn[c] = "open"
  BY DEF FinishReading, Busy, Drop, Becomes, ShapeInv, Reading
<1>6. WireOK(Wire) /\ Wire.running = running /\ tagset \in Tag
  BY DEF ShapeInv, Shape, Wire
<1>7. running \in BOOLEAN
  BY <1>6 DEF WireOK
<1>2. /\ WireOK(s)
      /\ s.running <=> Wire.running /\ ~ (peer[c] = "gone" /\ Wire.out[c] # <<>>)
  BY <1>1, <1>6, FlushOwes
<1>3. s.running \in BOOLEAN
  BY <1>2 DEF WireOK
<1> HIDE DEF s
<1>4. CASE s.running
  BY <1>1, <1>3, <1>4, <1>7 DEF s
<1>5. CASE ~ s.running
  <2>1. peer[c] = "gone" /\ running' = FALSE
    BY <1>1, <1>2, <1>3, <1>5, <1>6
  <2> QED BY <1>1, <1>6, <2>1, KilledService
<1> QED BY <1>4, <1>5

(* At the end of a read the connection goes on or is dropped. *)
LEMMA FinishService ==
    ASSUME ShapeInv, StreamInv, FinishReading, running' = running,
           TryFlush(Wire, current).running
    PROVE  Service!ServiceNext \/ UNCHANGED Service!serviceVars
<1> DEFINE c == current
           s == TryFlush(Wire, c)
<1>1. /\ IF eof THEN Drop(c, s) ELSE Becomes(s) /\ UNCHANGED <<conn, inbuf, sub>>
      /\ UNCHANGED <<clientVars, up, tagset>>
      /\ ~ HasLine(c)
  BY DEF FinishReading
<1>2. c \in Client /\ conn[c] = "open" /\ peer' = peer /\ running /\ s.running /\ Wire.running
  BY <1>1 DEF Wire, FinishReading, Busy, ShapeInv, Reading, clientVars
<1>3. /\ WireOK(s)
      /\ peer[c] # "gone" => Owe(s, c) = Owe(Wire, c)
      /\ \A x \in Client \ {c} : s.out[x] = Wire.out[x] /\ s.down[x] = Wire.down[x]
  BY <1>2, FlushOwes DEF ShapeInv
<1> HIDE DEF s
<1>4. \A x \in Client \ {c} : Owe(s, x) = Owe(Wire, x)
  BY <1>3 DEF Owe
<1>5. CASE ~ eof
  <2>1. ASSUME NEW x \in Client
        PROVE  link'[x] = link[x] /\ asked'[x] = asked[x] /\ heeded'[x] = heeded[x]
    BY <1>1, <1>5 DEF clientVars, link, asked, heeded, Connected
  <2>2. \A x \in Client : OwedIn(s, x) = OwedIn(Wire, x)
    BY <1>2, <1>3, <1>4 DEF OwedIn
  <2>3. \A x \in Client : owed'[x] = owed[x]
    BY <1>1, <1>2, <1>5, <2>2, SeenOwed, OwedAfter
  <2> QED BY <1>1, <1>5, <2>1, <2>3, AdmittedSame, SeenSame
<1>6. CASE eof
  <2>1. /\ Drop(c, s) /\ peer[c] \in {"half", "gone"} /\ up[c] = <<>>
    BY <1>1, <1>6 DEF ShapeInv, Reading
  <2>2. ASSUME NEW x \in Client, x # c
        PROVE  /\ link'[x] = link[x] /\ asked'[x] = asked[x]
               /\ heeded'[x] = heeded[x] /\ owed'[x] = owed[x]
    <3>1. /\ conn'[x] = conn[x] /\ inbuf'[x] = inbuf[x] /\ sub'[x] = sub[x]
          /\ outbuf'[x] = s.out[x] /\ down'[x] = s.down[x]
      BY <1>3, <2>1, <2>2 DEF Drop, ShapeInv, Shape, WireOK
    <3>2. outbuf'[x] = outbuf[x] /\ down'[x] = down[x]
      BY <1>3, <2>2, <3>1 DEF Wire
    <3> QED BY <1>1, <1>2, <3>1, <3>2 DEF link, asked, heeded, owed, Connected, clientVars
  <2>3. conn'[c] = "dropped" /\ outbuf'[c] = <<>> /\ down'[c] = s.down[c]
    BY <1>2, <1>3, <2>1 DEF Drop, ShapeInv, Shape, WireOK
  <2>4. link'[c] = "closed" /\ asked'[c] = <<>> /\ heeded'[c] = {}
    BY <1>2, <2>1, <2>3 DEF link, asked, heeded, Connected
  <2>7. c \in admitted /\ admitted' = admitted \ {c}
    BY <1>2, <2>1 DEF admitted, Drop, ShapeInv, Shape
  <2>5. CASE peer[c] = "gone"
    <3>1. link[c] = "lost" /\ asked[c] = <<>> /\ heeded[c] = {} /\ owed[c] = <<>> /\ owed'[c] = <<>>
      BY <1>2, <2>5 DEF link, asked, heeded, owed, Connected
    <3>2. asked' = asked /\ heeded' = heeded /\ owed' = owed
      <4>1. \A x \in Client : asked'[x] = asked[x] /\ heeded'[x] = heeded[x] /\ owed'[x] = owed[x]
        BY <2>2, <2>4, <3>1
      <4> QED BY <4>1, SeenMaps
    <3>4. link' = [link EXCEPT ![c] = "closed"]
      BY <1>2, <2>2, <2>4, SeenMaps
    <3>3. Service!Notice(c)
      BY <1>1, <2>7, <3>1, <3>2, <3>4 DEF Service!Notice
    <3> QED BY <1>2, <3>3 DEF Service!ServiceNext
  <2>6. CASE peer[c] = "half"
    <3>1. Connected(c)
      BY <1>2, <2>6 DEF Connected
    <3>2. link[c] = "finished"
      BY <1>2, <2>6, <3>1 DEF link
    <3>3. asked[c] = <<>>
      <4> DEFINE a == inbuf[c]
      <4>1. a \in Seq(Part) /\ Len(a) < 2
        BY <1>1, <1>2, LenProperties DEF HasLine, ShapeInv, Shape
      <4>2. asked[c] = Lines(a \o <<>>)
        BY <1>2, <2>1, <3>1 DEF asked
      <4> HIDE DEF a
      <4>3. a \o <<>> = a
        BY <4>1, ConcatEmptySeq
      <4>4. Lines(a) = <<>>
        BY <4>1, LinesNone
      <4> QED BY <4>2, <4>3, <4>4
    <3> DEFINE d == s.down[c]
               o == s.out[c]
    <3>4. d \in Seq(Half) /\ o \in Seq(Half)
      BY <1>2, <1>3 DEF WireOK
    <3>5. owed[c] = d \o o
      BY <1>2, <1>3, <2>6, SeenOwed DEF OwedIn, Owe
    <3>6. owed'[c] = d \o <<>>
      BY <1>2, <2>3, <2>6 DEF owed
    <3> HIDE DEF d, o
    <3>7. d \o <<>> = d
      BY <3>4, ConcatEmptySeq
    <3>8. Len(d) \in 0..Len(d \o o) /\ SubSeq(d \o o, 1, Len(d)) = d
      BY <3>4, FirstOfConcat
    <3> DEFINE n == Len(d)
    <3>9. n \in 0..Len(owed[c]) /\ owed'[c] = SubSeq(owed[c], 1, n)
      BY <3>5, <3>6, <3>7, <3>8
    <3> HIDE DEF n
    <3>10. owed' = [owed EXCEPT ![c] = SubSeq(@, 1, n)]
      BY <1>2, <2>2, <3>9, SeenMaps
    <3>11. link' = [link EXCEPT ![c] = "closed"] /\ heeded' = [heeded EXCEPT ![c] = {}] /\ asked' = asked
      BY <1>2, <2>2, <2>4, <3>3, SeenMaps
    <3>12. Service!LetGo(c)
      BY <1>1, <2>7, <3>2, <3>3, <3>9, <3>10, <3>11 DEF Service!LetGo
    <3> QED BY <1>2, <3>12 DEF Service!ServiceNext
  <2> QED BY <2>1, <2>5, <2>6
<1> QED BY <1>5, <1>6

(* Every step of the socket is one of the service, or a stutter. *)
LEMMA StepService ==
    ShapeInv /\ StreamInv /\ [Next]_vars => [Service!ServiceNext]_Service!serviceVars
<1> SUFFICES ASSUME ShapeInv, StreamInv, [Next]_vars
             PROVE  Service!ServiceNext \/ UNCHANGED Service!serviceVars
  OBVIOUS
<1> USE DEF Service!ServiceNext
<1>1. ASSUME NEW c \in Client, Connect(c) PROVE Service!ServiceNext
  BY <1>1, ConnectService DEF Connect
<1>2. ASSUME NEW c \in Client, NEW r \in Request, SendFirstHalf(c, r)
      PROVE  UNCHANGED Service!serviceVars
  BY <1>2, FirstHalfService
<1>3. ASSUME NEW c \in Client, SendSecondHalf(c)
      PROVE  Service!ServiceNext \/ UNCHANGED Service!serviceVars
  <2>1. typing[c] \in Request
    BY <1>3, SecondInFlight
  <2> QED BY <1>3, <2>1, SecondHalfService DEF SendSecondHalf
<1>4. ASSUME NEW c \in Client, Receive(c) PROVE Service!ServiceNext
  BY <1>4, ReceiveService DEF Receive
<1>5. ASSUME NEW c \in Client, HalfClose(c)
      PROVE  Service!ServiceNext \/ UNCHANGED Service!serviceVars
  BY <1>5, HalfCloseService DEF HalfClose
<1>6. ASSUME NEW c \in Client, Close(c) PROVE Service!ServiceNext
  BY <1>6, CloseService DEF Close
<1>7. ASSUME NEW c \in Client, HangupReady(c) \/ ReadReady(c) \/ WriteReady(c)
      PROVE  Service!ServiceNext \/ UNCHANGED Service!serviceVars
  <2>1. running
    BY <1>7 DEF HangupReady, ReadReady, WriteReady, Idle
  <2> QED BY <1>7, <2>1, HangupService, ReadService, WriteService
<1>8. CASE Accept
  BY <1>8, AcceptService DEF Accept, Idle
<1>9. CASE HandleRequestLine
  BY <1>9, RequestHeard, RequestService
<1>10. CASE FinishReading
  BY <1>10, FinishHeard, FinishService
<1>11. ASSUME NEW cat \in Category, DesktopEvent(cat) PROVE Service!ServiceNext
  BY <1>11, DesktopService
<1>12. CASE UNCHANGED vars
  <2>1. /\ link' = link /\ asked' = asked /\ owed' = owed /\ heeded' = heeded
        /\ tagset' = tagset /\ admitted' = admitted /\ running' = running
    BY <1>12 DEF vars, clientVars, link, asked, owed, heeded, admitted, Connected
  <2> QED BY <2>1 DEF Service!serviceVars
<1> HIDE DEF Service!ServiceNext
<1> QED BY <1>1, <1>2, <1>3, <1>4, <1>5, <1>6, <1>7, <1>8, <1>9, <1>10, <1>11, <1>12 DEF Next

(* No stream at the start. *)
LEMMA InitStream == Init => StreamInv
BY StreamEmpty DEF Init, StreamInv

(* The shape holds at all times, *)
LEMMA ShapeAlways == Spec => []ShapeInv
<1> QED BY InitShape, ShapeStep, PTL DEF Spec

(* and so do the streams. *)
LEMMA StreamAlways == Spec => []StreamInv
<1> QED BY InitStream, ShapeAlways, StreamStep, PTL DEF Spec

(* No event leaves the server in a state its handlers cannot read: every     *)
(* buffer holds what its reader expects, no socket holds more than SockCap,  *)
(* and the connection being handled is one, whatever clients do.             *)
THEOREM IpcShape == Spec => []TypeOK
<1>1. ShapeInv => TypeOK
  BY DEF ShapeInv, Shape, Reading, WireOK, Wire, Part, TypeOK
<1> QED BY <1>1, ShapeAlways, PTL

(* The server keeps the promise of IpcService to any number of clients: each *)
(* request of a client that stays is answered once, in order, and whoever    *)
(* subscribed is told every event, although readAvailable cuts lines in the  *)
(* middle, tryFlush writes what fits and onReadable and onHangup interleave; *)
(* and what IpcService does not promise is all that goes wrong: the service  *)
(* ends only while a client it let in has hung up unnoticed.                 *)
THEOREM IpcKeepsService == Spec => ServiceKept
<1> QED BY InitService, ShapeAlways, StreamAlways, StepService, PTL
        DEF Spec, ServiceKept, Service!ServiceSpec
=============================================================================
