---------------------------- MODULE MCSession ----------------------------
(* One client and the server, for two connections and a few calls. *)
EXTENDS Session

=============================================================================
