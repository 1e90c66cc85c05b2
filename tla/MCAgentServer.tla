---------------------------- MODULE MCAgentServer ----------------------------
(* Instances of AgentServer for TLC: connections, requests, sessions and HTTP
   requests are model values, interchangeable where no liveness is checked. *)
EXTENDS AgentServer, TLC

Symmetry == Permutations(Conn) \cup Permutations(Req) \cup Permutations(Session)
            \cup Permutations(Proj) \cup Permutations(Think)
=============================================================================
