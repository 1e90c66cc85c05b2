----------------------------- MODULE MCDictation -----------------------------
(* Dictation for TLC.  Every constant is a number given in the cfg. *)
EXTENDS Dictation
=============================================================================
