---------------------------- MODULE MCConfigure ----------------------------
(* Configure on a small instance: one window, an xdg or an X11 one.          *)
EXTENDS Configure
=============================================================================
