-------------------------------- MODULE Ipc --------------------------------
(***************************************************************************)
(* The IPC socket (ipc.cpp): connections with an in and an out buffer over *)
(* non-blocking stream sockets, served by the one thread of the event loop *)
(* while their clients run beside it.  What a handler does to a socket is  *)
(* one step per request line, because the clients read, write and hang up  *)
(* between two lines; no other handler runs meanwhile (current).           *)
(* Nothing in the program ignores or handles SIGPIPE, so a write to a      *)
(* socket whose client is gone ends the compositor, and with it every      *)
(* connection: nothing is modelled after that (running).                   *)
(***************************************************************************)
EXTENDS IpcProtocol, Integers, Sequences

CONSTANTS
    Client,      \* the programs that may connect
    NoClient, NoRequest,
    SockCap,     \* half lines a socket holds in one direction
    MaxAsk,      \* MaxAsk[c]: the requests client c makes in its life
    MaxQueued    \* events stop while an out buffer is longer than this

ASSUME IpcAssumption ==
    /\ NoClient \notin Client
    /\ NoRequest \notin Request
    /\ SockCap \in Nat \ {0}
    /\ MaxAsk \in [Client -> Nat]
    /\ MaxQueued \in Nat
    /\ Tag \subseteq Nat \ {0}
    /\ \A r \in Request : r[1] = "subscribe" => r[2] \in SUBSET Category

VARIABLES
    peer,        \* the client's end: "absent", "open", "half" (shut for writing), "gone"
    typing,      \* the request of which the client has sent the first half
    up, down,    \* what is in the socket, to the compositor and to the client
    conn,        \* the compositor's end: "none", "pending", "open", "dropped"
    inbuf, outbuf, watching, sub,   \* Connection
    tagset,      \* the tag on screen
    current,     \* the connection whose input is being handled
    eof,         \* and whether its read ended with the end of file
    running,     \* the compositor has not been killed
    nAsked, nAnswered               \* requests a client sent, answers it read

clientVars == <<peer, typing, nAsked, nAnswered>>
vars == <<clientVars, up, down, conn, inbuf, outbuf, watching, sub, tagset,
          current, eof, running>>

TypeOK ==
    /\ peer \in [Client -> {"absent", "open", "half", "gone"}]
    /\ typing \in [Client -> Request \cup {NoRequest}]
    /\ conn \in [Client -> {"none", "pending", "open", "dropped"}]
    /\ \A c \in Client : inbuf[c] \in Seq(Request \X {1, 2})
    /\ \A c \in Client : Len(down[c]) <= SockCap /\ Len(up[c]) <= SockCap
    /\ watching \in [Client -> BOOLEAN]
    /\ sub \in [Client -> SUBSET Category]
    /\ tagset \in Tag
    /\ current \in Client \cup {NoClient}
    /\ eof \in BOOLEAN
    /\ running \in BOOLEAN

Init ==
    /\ peer = [c \in Client |-> "absent"]
    /\ typing = [c \in Client |-> NoRequest]
    /\ up = [c \in Client |-> <<>>]
    /\ down = [c \in Client |-> <<>>]
    /\ conn = [c \in Client |-> "none"]
    /\ inbuf = [c \in Client |-> <<>>]
    /\ outbuf = [c \in Client |-> <<>>]
    /\ watching = [c \in Client |-> FALSE]
    /\ sub = [c \in Client |-> {}]
    /\ tagset \in Tag
    /\ current = NoClient
    /\ eof = FALSE
    /\ running = TRUE
    /\ nAsked = [c \in Client |-> 0]
    /\ nAnswered = [c \in Client |-> 0]

-----------------------------------------------------------------------------
(* The clients. A request leaves in two halves, so a read can end inside it; *)
(* a client connects once.                                                   *)
serverVars == <<conn, inbuf, outbuf, watching, sub, tagset, current, eof,
                running>>

Connect(c) ==
    /\ running /\ peer[c] = "absent"
    /\ peer' = [peer EXCEPT ![c] = "open"]
    /\ conn' = [conn EXCEPT ![c] = "pending"]
    /\ UNCHANGED <<typing, nAsked, nAnswered, up, down, inbuf, outbuf, watching, sub,
                   tagset, current, eof, running>>

SendFirstHalf(c, r) ==
    /\ running /\ peer[c] = "open" /\ typing[c] = NoRequest
    /\ nAsked[c] < MaxAsk[c] /\ Len(up[c]) < SockCap
    /\ typing' = [typing EXCEPT ![c] = r]
    /\ up' = [up EXCEPT ![c] = Append(@, <<r, 1>>)]
    /\ UNCHANGED <<peer, nAsked, nAnswered, down, serverVars>>

SendSecondHalf(c) ==
    /\ running /\ peer[c] = "open" /\ typing[c] # NoRequest
    /\ Len(up[c]) < SockCap
    /\ typing' = [typing EXCEPT ![c] = NoRequest]
    /\ up' = [up EXCEPT ![c] = Append(@, <<typing[c], 2>>)]
    /\ nAsked' = [nAsked EXCEPT ![c] = IF Owes(typing[c]) THEN @ + 1 ELSE @]
    /\ UNCHANGED <<peer, nAnswered, down, serverVars>>

IsEvent(line) == line[1] \in Category \cup {"tag::change"}

Receive(c) ==
    /\ running /\ peer[c] \in {"open", "half"} /\ down[c] # <<>>
    /\ down' = [down EXCEPT ![c] = Tail(@)]
    /\ LET piece == Head(down[c])
       IN nAnswered' = [nAnswered EXCEPT
              ![c] = IF piece[2] = 2 /\ ~ IsEvent(piece[1]) THEN @ + 1 ELSE @]
    /\ UNCHANGED <<peer, typing, nAsked, up, serverVars>>

(* shutdown(fd, SHUT_WR), as `... | nc` does after its last request.         *)
HalfClose(c) ==
    /\ running /\ peer[c] = "open"
    /\ peer' = [peer EXCEPT ![c] = "half"]
    /\ UNCHANGED <<typing, nAsked, nAnswered, up, down, serverVars>>

Close(c) ==
    /\ running /\ peer[c] \in {"open", "half"}
    /\ peer' = [peer EXCEPT ![c] = "gone"]
    /\ up' = [up EXCEPT ![c] = <<>>]
    /\ down' = [down EXCEPT ![c] = <<>>]
    /\ UNCHANGED <<typing, nAsked, nAnswered, serverVars>>

-----------------------------------------------------------------------------
(* The compositor. s is [out, down, watching, running], what writing changes. *)
Wire == [out |-> outbuf, down |-> down, watching |-> watching, running |-> running]

(* tryFlush, were the poll for writability forgotten when a write is short.  *)
TryFlushUnwatched(s, c) ==
    LET fits == IF Len(s.out[c]) <= SockCap - Len(s.down[c])
                THEN Len(s.out[c]) ELSE SockCap - Len(s.down[c])
    IN IF peer[c] = "gone"
       THEN [s EXCEPT !.out[c] = <<>>]
       ELSE [s EXCEPT !.out[c] = SubSeq(@, fits + 1, Len(@)),
                      !.down[c] = @ \o SubSeq(s.out[c], 1, fits)]

(* tryFlush, were a short write taken for a complete one.                    *)
TryFlushWhole(s, c) ==
    LET fits == IF Len(s.out[c]) <= SockCap - Len(s.down[c])
                THEN Len(s.out[c]) ELSE SockCap - Len(s.down[c])
    IN [s EXCEPT !.out[c] = <<>>,
                 !.down[c] = IF peer[c] = "gone" THEN @ ELSE @ \o SubSeq(s.out[c], 1, fits),
                 !.watching[c] = FALSE]

(* tryFlush writes what the socket takes, and a full socket makes the loop   *)
(* watch for writability. Writing to a client that is gone raises SIGPIPE,   *)
(* and the EPIPE that would cost the buffer only is never returned.          *)
TryFlush(s, c) ==
    LET fits == IF Len(s.out[c]) <= SockCap - Len(s.down[c])
                THEN Len(s.out[c]) ELSE SockCap - Len(s.down[c])
        rest == IF peer[c] = "gone" THEN <<>>
                ELSE SubSeq(s.out[c], fits + 1, Len(s.out[c]))
        taken == IF peer[c] = "gone" THEN <<>> ELSE SubSeq(s.out[c], 1, fits)
    IN [out |-> [s.out EXCEPT ![c] = rest],
        down |-> [s.down EXCEPT ![c] = @ \o taken],
        watching |-> [s.watching EXCEPT ![c] = rest # <<>>],
        running |-> s.running /\ ~ (peer[c] = "gone" /\ s.out[c] # <<>>)]

(* broadcast queues the line on every subscriber and tries to flush it.      *)
Subscribers(cat) == {c \in Client : conn[c] = "open" /\ cat \in sub[c]}

Queue(s, c, line) ==
    [out |-> [s.out EXCEPT ![c] = @ \o Halves(line)],
     down |-> s.down, watching |-> s.watching, running |-> s.running]

Broadcast(s, cat, line) ==
    LET told == [c \in Client |-> IF c \in Subscribers(cat)
                                  THEN TryFlush(Queue(s, c, line), c) ELSE s]
    IN [out |-> [c \in Client |-> told[c].out[c]],
        down |-> [c \in Client |-> told[c].down[c]],
        watching |-> [c \in Client |-> told[c].watching[c]],
        running |-> \A c \in Client : told[c].running]

Becomes(s) ==
    outbuf' = s.out /\ down' = s.down /\ watching' = s.watching /\ running' = s.running

Idle == running /\ current = NoClient
Busy == running /\ current # NoClient

(* closeConnection, and the Connection with its buffers destroyed.           *)
Drop(c, s) ==
    /\ conn' = [conn EXCEPT ![c] = "dropped"]
    /\ outbuf' = [s.out EXCEPT ![c] = <<>>]
    /\ down' = s.down
    /\ running' = s.running
    /\ watching' = [s.watching EXCEPT ![c] = FALSE]
    /\ inbuf' = [inbuf EXCEPT ![c] = <<>>]
    /\ sub' = [sub EXCEPT ![c] = {}]

(* handleAccept takes every pending connection; one that cannot be added to  *)
(* the event loop is closed.                                                 *)
Accept ==
    /\ Idle
    /\ LET pending == {c \in Client : conn[c] = "pending"}
       IN /\ pending # {}
          /\ \E refused \in SUBSET pending :
                conn' = [c \in Client |-> IF c \in refused THEN "dropped"
                                          ELSE IF c \in pending THEN "open" ELSE conn[c]]
    /\ UNCHANGED <<clientVars, up, down, inbuf, outbuf, watching, sub, tagset, current, eof,
                   running>>

(* handleConnectionReady: a hang-up is looked at before anything to read.    *)
HangupReady(c) ==
    /\ Idle /\ conn[c] = "open" /\ peer[c] = "gone"
    /\ Drop(c, Wire)
    /\ UNCHANGED <<clientVars, up, tagset, current, eof>>

(* It reads until the socket is empty, or ends.                              *)
ReadReady(c) ==
    /\ Idle /\ conn[c] = "open" /\ peer[c] \in {"open", "half"}
    /\ up[c] # <<>> \/ peer[c] = "half"
    /\ inbuf' = [inbuf EXCEPT ![c] = @ \o up[c]]
    /\ up' = [up EXCEPT ![c] = <<>>]
    /\ current' = c
    /\ eof' = (peer[c] = "half")
    /\ UNCHANGED <<clientVars, down, conn, outbuf, watching, sub, tagset, running>>

(* ... and the complete lines are handled, first come first.                 *)
HasLine(c) == Len(inbuf[c]) >= 2

(* setTagset tells the subscribers, the one that asked included.             *)
Announced(s, r) ==
    IF Changes(r, tagset)
    THEN Broadcast(s, "tag", <<"tag::change", r[2]>>) ELSE s

(* handleRequestLine: what the command changes is broadcast by setTagset,    *)
(* so before the reply; the reply waits in outbuf for the end of the loop.   *)
HandleRequestLine ==
    /\ Busy /\ HasLine(current)
    /\ LET r == Head(inbuf[current])[1]
           s == Announced(Wire, r)
       IN /\ Becomes(IF Owes(r)
                     THEN Queue(s, current, Answer(r, tagset)) ELSE s)
          /\ sub' = IF r[1] = "subscribe" THEN [sub EXCEPT ![current] = r[2]] ELSE sub
          /\ tagset' = TagAfter(r, tagset)
    /\ inbuf' = [inbuf EXCEPT ![current] = Tail(Tail(@))]
    /\ UNCHANGED <<clientVars, up, conn, current, eof>>

(* The flush after the lines; the end of file drops the connection.          *)
FinishReading ==
    /\ Busy /\ ~ HasLine(current)
    /\ LET s == TryFlush(Wire, current)
       IN IF eof THEN Drop(current, s) ELSE Becomes(s) /\ UNCHANGED <<conn, inbuf, sub>>
    /\ current' = NoClient
    /\ eof' = FALSE
    /\ UNCHANGED <<clientVars, up, tagset>>

(* There was room when the loop polled; the client may have gone since.      *)
WriteReady(c) ==
    /\ Idle /\ conn[c] = "open" /\ watching[c]
    /\ peer[c] = "gone" \/ Len(down[c]) < SockCap
    /\ Becomes(TryFlush(Wire, c))
    /\ UNCHANGED <<clientVars, up, conn, inbuf, sub, tagset, current, eof>>

(* onClientEvent, onOutputEvent and onTagChange, from the rest of the        *)
(* compositor (a keybind that switches tags, a window that maps).            *)
Quiet == \A c \in Client : Len(outbuf[c]) <= MaxQueued

DesktopEvent(cat) ==
    /\ Idle /\ Quiet
    /\ IF cat = "tag"
       THEN \E t \in Tag \ {tagset} :
               /\ tagset' = t
               /\ Becomes(Broadcast(Wire, cat, <<"tag::change", t>>))
       ELSE /\ Becomes(Broadcast(Wire, cat, <<cat, 0>>))
            /\ UNCHANGED tagset
    /\ UNCHANGED <<clientVars, up, conn, inbuf, sub, current, eof>>

Next ==
    \/ \E c \in Client :
          \/ Connect(c) \/ SendSecondHalf(c) \/ Receive(c) \/ HalfClose(c) \/ Close(c)
          \/ HangupReady(c) \/ ReadReady(c) \/ WriteReady(c)
          \/ \E r \in Request : SendFirstHalf(c, r)
    \/ Accept \/ HandleRequestLine \/ FinishReading
    \/ \E cat \in Category : DesktopEvent(cat)

Spec == Init /\ [][Next]_vars

(* A handler that began ends, unless a write in it kills the compositor, so  *)
(* the loop is idle again and again. It polls level-triggered and serves     *)
(* every descriptor that is ready in each pass. A connected client reads.    *)
FairSpec ==
    /\ Spec
    /\ []<>(Idle \/ ~ running)
    /\ WF_vars(Accept)
    /\ \A c \in Client : /\ WF_vars(ReadReady(c)) /\ WF_vars(WriteReady(c))
                         /\ WF_vars(HangupReady(c)) /\ WF_vars(Receive(c))

-----------------------------------------------------------------------------
(* Outside its own handler a connection has output queued exactly when the   *)
(* event loop watches for room to write it: tryFlush is the only place that  *)
(* arms and disarms the poll, and it is called from four places.             *)
QueuedIffWatched ==
    \A c \in Client :
        conn[c] = "open" /\ current # c => (watching[c] <=> outbuf[c] # <<>>)

(* What the buffers and sockets hold, seen as what is asked and what is owed.*)
Lines(s) == [i \in 1..(Len(s) \div 2) |-> s[2 * i][1]]

Connected(c) == running /\ peer[c] # "gone" /\ conn[c] # "dropped"

link == [c \in Client |-> IF ~ running \/ conn[c] = "dropped" THEN "closed"
                          ELSE IF peer[c] = "absent" THEN "absent"
                          ELSE IF peer[c] = "gone" THEN "lost"
                          ELSE IF peer[c] = "half" THEN "finished" ELSE "open"]
admitted == {c \in Client : running /\ conn[c] = "open"}
asked == [c \in Client |-> IF Connected(c) THEN Lines(inbuf[c] \o up[c]) ELSE <<>>]
owed == [c \in Client |-> IF ~ running \/ peer[c] = "gone" THEN <<>>
                          ELSE down[c] \o outbuf[c]]
heeded == [c \in Client |-> IF Connected(c) THEN sub[c] ELSE {}]

Service == INSTANCE IpcService WITH link <- link, admitted <- admitted, asked <- asked,
                                    owed <- owed, sub <- heeded, serving <- running

(* Through short reads and writes, full sockets, hang-ups and the event loop *)
(* serving clients in any order, each client sees the promised service, up   *)
(* to the first write to a client that has hung up, which may end it for all. *)
ServiceKept == Service!ServiceSpec

(* Every request of a client that stays connected is answered, and the       *)
(* client gets to read the answer, however slowly it reads, as long as no    *)
(* write to another client, one that hung up, kills the compositor.          *)
EveryRequestAnswered ==
    \A c \in Client : \A n \in 1..MaxAsk[c] :
        nAsked[c] >= n ~> \/ nAnswered[c] >= n
                          \/ peer[c] # "open" \/ conn[c] = "dropped"
                          \/ ~ running
=============================================================================
