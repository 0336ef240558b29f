---------------------------- MODULE InputClaims ----------------------------
(* What the comments say of Input, and the code does not do.                 *)
EXTENDS Input

(* server.hpp, of mousebind_grab_active: the release of a button whose press *)
(* the client saw is forwarded, to balance it. So what a client takes for    *)
(* held is held.                                                             *)
ReleaseBalancesPress ==
    \A v \in View : seen[v] \cap Button \subseteq held
=============================================================================
