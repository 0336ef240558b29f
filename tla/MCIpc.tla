------------------------------- MODULE MCIpc -------------------------------
(* Ipc on a small instance: one client makes two requests, the other one.    *)
EXTENDS Ipc, TLC

CONSTANTS c1, c2

MCRequest == {<<"focus_tag", 1>>, <<"subscribe", {"tag"}>>}
MCMaxAsk == c1 :> 2 @@ c2 :> 1
=============================================================================
