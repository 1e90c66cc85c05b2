------------------------------ MODULE MCMeeting ------------------------------
(* Meeting for TLC.  Meetings, requests and texts are model values. *)
EXTENDS Meeting
=============================================================================
