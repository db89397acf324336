---------------------------- MODULE MCGenProcess ----------------------------
(***************************************************************************)
(* A gen_server whose calls have no timeout, for TLC: two callers, of      *)
(* which one may stop the server while the other calls it.                 *)
(***************************************************************************)
EXTENDS GenProcess

UntimedServer == {<<"server", FALSE>>}
=============================================================================
