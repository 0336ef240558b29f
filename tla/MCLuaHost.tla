----------------------------- MODULE MCLuaHost -----------------------------
(* LuaHost on small instances: what rc.lua uses differs from session to      *)
(* session, so that each stays small.                                        *)
EXTENDS LuaHost

MCSessions ==
    {{"hook", "fire", "reload"}, {"key", "timer", "reload"}, {"bar", "timer"},
     {"set", "monitor", "reload"}}
=============================================================================
