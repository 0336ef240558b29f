----------------------------- MODULE IpcService -----------------------------
(***************************************************************************)
(* What the IPC socket promises its clients, without buffers, partial      *)
(* reads and writes or the event loop: a client's requests are served in   *)
(* the order it asked them, each answered by one whole line; a subscriber  *)
(* is sent every event of the categories it asked for, as it happens; only *)
(* a client that stopped asking may miss the end of what it is owed; and a *)
(* client that was let in stays until it stops asking or hangs up.  What   *)
(* it does not promise is to outlive a client that hangs up: until that is *)
(* noticed the service may end, for all.                                   *)
(***************************************************************************)
EXTENDS IpcProtocol, Sequences, Integers

CONSTANT Client   \* the programs that may connect

VARIABLES
    link,        \* link[c]: "absent", "open", "finished" (no more requests),
                 \* "lost" (hung up, and not noticed yet) or "closed"
    admitted,    \* the clients that were let in
    asked,       \* asked[c]: the requests of c not served yet
    owed,        \* owed[c]: the half lines sent to c and not read by it yet
    sub,         \* sub[c]: the categories c is subscribed to
    tagset,      \* the tag on screen
    serving      \* the service has not ended

serviceVars == <<link, admitted, asked, owed, sub, tagset, serving>>

(* An event line reaches the subscribers of its category, and nobody else.   *)
Sent(o, s, cat, line) ==
    [c \in Client |-> IF cat \in s[c] THEN o[c] \o Halves(line) ELSE o[c]]

-----------------------------------------------------------------------------
ServiceInit ==
    /\ link = [c \in Client |-> "absent"]
    /\ admitted = {}
    /\ asked = [c \in Client |-> <<>>]
    /\ owed = [c \in Client |-> <<>>]
    /\ sub = [c \in Client |-> {}]
    /\ tagset \in Tag
    /\ serving = TRUE

Join(c) ==
    /\ link[c] = "absent"
    /\ link' = [link EXCEPT ![c] = "open"]
    /\ UNCHANGED <<admitted, asked, owed, sub, tagset, serving>>

Ask(c, r) ==
    /\ link[c] = "open"
    /\ asked' = [asked EXCEPT ![c] = Append(@, r)]
    /\ UNCHANGED <<link, admitted, owed, sub, tagset, serving>>

(* The oldest request of c is served: what it changes is announced to the    *)
(* subscribers, then c has its answer.                                       *)
Serve(c) ==
    /\ c \in admitted /\ asked[c] # <<>>
    /\ LET r == Head(asked[c])
           heard == IF Changes(r, tagset)
                    THEN Sent(owed, sub, "tag", <<"tag::change", r[2]>>) ELSE owed
       IN  /\ owed' = IF Owes(r)
                      THEN [heard EXCEPT ![c] = @ \o Halves(Answer(r, tagset))]
                      ELSE heard
           /\ sub' = IF r[1] = "subscribe" THEN [sub EXCEPT ![c] = r[2]] ELSE sub
           /\ tagset' = TagAfter(r, tagset)
    /\ asked' = [asked EXCEPT ![c] = Tail(@)]
    /\ UNCHANGED <<link, admitted, serving>>

(* Something happens on the desktop.                                         *)
Happens(cat, line) ==
    /\ owed' = Sent(owed, sub, cat, line)
    /\ tagset' \in IF cat = "tag" THEN {line[2]} ELSE {tagset}
    /\ UNCHANGED <<link, admitted, asked, sub, serving>>

Take(c) ==
    /\ owed[c] # <<>>
    /\ owed' = [owed EXCEPT ![c] = Tail(@)]
    /\ UNCHANGED <<link, admitted, asked, sub, tagset, serving>>

(* The client asks no more, but still reads.                                 *)
Finish(c) ==
    /\ link[c] = "open"
    /\ link' = [link EXCEPT ![c] = "finished"]
    /\ UNCHANGED <<admitted, asked, owed, sub, tagset, serving>>

(* A client that finished is let go once served: it keeps what was written.  *)
LetGo(c) ==
    /\ c \in admitted /\ link[c] = "finished" /\ asked[c] = <<>>
    /\ link' = [link EXCEPT ![c] = "closed"]
    /\ admitted' = admitted \ {c}
    /\ \E n \in 0..Len(owed[c]) :
          owed' = [owed EXCEPT ![c] = SubSeq(@, 1, n)]
    /\ sub' = [sub EXCEPT ![c] = {}]
    /\ UNCHANGED <<asked, tagset, serving>>

(* The clients lost are owed nothing, and their links become how. *)
Cut(lost, how) ==
    /\ link' = [c \in Client |-> IF c \in lost THEN how ELSE link[c]]
    /\ asked' = [c \in Client |-> IF c \in lost THEN <<>> ELSE asked[c]]
    /\ owed' = [c \in Client |-> IF c \in lost THEN <<>> ELSE owed[c]]
    /\ sub' = [c \in Client |-> IF c \in lost THEN {} ELSE sub[c]]

(* Clients that wait are let in, or turned away. *)
Admit(let_in, refused) ==
    /\ \A c \in let_in \cup refused : c \notin admitted /\ link[c] \notin {"absent", "closed"}
    /\ let_in \cap refused = {}
    /\ admitted' = admitted \cup let_in
    /\ Cut(refused, "closed")
    /\ UNCHANGED <<tagset, serving>>

(* The client hangs up, and that is noticed later... *)
HangUp(c) ==
    /\ link[c] # "absent"
    /\ Cut({c}, IF link[c] = "closed" THEN "closed" ELSE "lost")
    /\ UNCHANGED <<admitted, tagset, serving>>

Notice(c) ==
    /\ c \in admitted /\ link[c] = "lost"
    /\ link' = [link EXCEPT ![c] = "closed"]
    /\ admitted' = admitted \ {c}
    /\ UNCHANGED <<asked, owed, sub, tagset, serving>>

(* ... or, if something is sent to it first, ends the service. *)
End ==
    /\ \E c \in admitted : link[c] = "lost"
    /\ serving' = FALSE
    /\ Cut(Client, "closed")
    /\ admitted' = {}
    /\ tagset' \in Tag

ServiceNext ==
    /\ serving
    /\ \/ \E c \in Client :
             \/ Join(c) \/ Serve(c) \/ Take(c) \/ Finish(c) \/ LetGo(c)
             \/ HangUp(c) \/ Notice(c)
             \/ \E r \in Request : Ask(c, r)
       \/ \E let_in, refused \in SUBSET Client : Admit(let_in, refused)
       \/ End
       \/ \E t \in Tag : t # tagset /\ Happens("tag", <<"tag::change", t>>)
       \/ \E cat \in Category \ {"tag"} : Happens(cat, <<cat, 0>>)

ServiceSpec == ServiceInit /\ [][ServiceNext]_serviceVars
=============================================================================
