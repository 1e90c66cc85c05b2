---------------------------- MODULE PromptService ----------------------------
(***************************************************************************)
(* What the server promises of its prompts, whatever maps, locks, channels *)
(* and HTTP requests there are.  The prompts on one session handle run one *)
(* at a time.  A client that stays connected hears that its prompt is      *)
(* complete after the run returned and all its events were delivered.  A   *)
(* stop fires the signal of one prompt that is not over, and of none else. *)
(***************************************************************************)
EXTENDS Naturals

CONSTANTS
  Prompt,
  Session,
  Handle,   \* session handles
  None      \* no session, no handle, no prompt

VARIABLES
  stage,    \* stage[r]: "new", "open", "told" (that it is complete) or "over"
  of,       \* of[r]: the session it was sent to
  on,       \* on[r]: the session handle it runs on
  run,      \* run[r]: "none", "waiting", "running", "returned" or "ended"
  coming,   \* coming[r]: events emitted and not delivered
  deaf,     \* prompts whose client is gone
  entry,    \* entry[s]: the prompt that a stop of s reaches
  fired     \* prompts whose signal was fired

vars == <<stage, of, on, run, coming, deaf, entry, fired>>

Init ==
  /\ stage = [r \in Prompt |-> "new"]
  /\ of = [r \in Prompt |-> None] /\ on = [r \in Prompt |-> None]
  /\ run = [r \in Prompt |-> "none"]
  /\ coming = [r \in Prompt |-> 0]
  /\ deaf = {} /\ fired = {}
  /\ entry = [s \in Session |-> None]

\* The newest prompt of a session is the one that a stop reaches.  A handle
\* serves the prompts of one session.
Open(r, s, h) ==
  /\ stage[r] = "new"
  /\ \A q \in Prompt : on[q] = h => of[q] = s
  /\ stage' = [stage EXCEPT ![r] = "open"]
  /\ of' = [of EXCEPT ![r] = s] /\ on' = [on EXCEPT ![r] = h]
  /\ run' = [run EXCEPT ![r] = "waiting"]
  /\ entry' = [entry EXCEPT ![s] = r]
  /\ deaf' \in {deaf, deaf \cup {r}}
  /\ UNCHANGED <<coming, fired>>

Begin(r) ==
  /\ run[r] = "waiting"
  /\ \A q \in Prompt : on[q] = on[r] => run[q] \notin {"running", "returned"}
  /\ run' = [run EXCEPT ![r] = "running"]
  /\ UNCHANGED <<stage, of, on, coming, deaf, entry, fired>>

Emit(r) ==
  /\ run[r] = "running"
  /\ coming' = [coming EXCEPT ![r] = @ + 1]
  /\ UNCHANGED <<stage, of, on, run, deaf, entry, fired>>

Return(r) ==
  /\ run[r] = "running"
  /\ run' = [run EXCEPT ![r] = "returned"]
  /\ UNCHANGED <<stage, of, on, coming, deaf, entry, fired>>

End(r) ==
  /\ run[r] = "returned"
  /\ run' = [run EXCEPT ![r] = "ended"]
  /\ UNCHANGED <<stage, of, on, coming, deaf, entry, fired>>

Deliver(r) ==
  /\ stage[r] = "open" /\ coming[r] > 0
  /\ coming' = [coming EXCEPT ![r] = @ - 1]
  /\ UNCHANGED <<stage, of, on, run, deaf, entry, fired>>

Complete(r) ==
  /\ stage[r] = "open"
  /\ r \in deaf \/ (run[r] \in {"returned", "ended"} /\ coming[r] = 0)
  /\ stage' = [stage EXCEPT ![r] = "told"]
  /\ UNCHANGED <<of, on, run, coming, deaf, entry, fired>>

\* Whichever prompt of the session the entry names, it goes.
Close(r) ==
  /\ stage[r] = "told"
  /\ stage' = [stage EXCEPT ![r] = "over"]
  /\ entry' = [entry EXCEPT ![of[r]] = None]
  /\ UNCHANGED <<of, on, run, coming, deaf, fired>>

Stop(s) ==
  /\ entry[s] # None /\ stage[entry[s]] \in {"open", "told"} /\ of[entry[s]] = s
  /\ fired' = fired \cup {entry[s]}
  /\ UNCHANGED <<stage, of, on, run, coming, deaf, entry>>

Leave ==
  /\ deaf \subseteq deaf' /\ deaf' \subseteq {r \in Prompt : stage[r] # "new"}
  /\ UNCHANGED <<stage, of, on, run, coming, entry, fired>>

Next ==
  \/ \E r \in Prompt : \/ \E s \in Session, h \in Handle : Open(r, s, h)
                       \/ Begin(r) \/ Emit(r) \/ Return(r) \/ End(r)
                       \/ Deliver(r) \/ Complete(r) \/ Close(r)
  \/ \E s \in Session : Stop(s)
  \/ Leave

Spec == Init /\ [][Next]_vars
=============================================================================
