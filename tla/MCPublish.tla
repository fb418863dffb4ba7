----------------------------- MODULE MCPublish ------------------------------
(* An instance of Publish for TLC. *)
EXTENDS Publish, TLC
=============================================================================
