---------------------------- MODULE MCJibotClient ----------------------------
(* Instances of JibotClient for TLC. *)
EXTENDS JibotClient
=============================================================================
