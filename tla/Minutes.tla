------------------------------- MODULE Minutes -------------------------------
(***************************************************************************)
(* What a recorded meeting promises its user, whatever threads, crashes    *)
(* and failing calls there are.  A meeting is recorded, processed and      *)
(* settled, once; its transcript grows while it is processed and is never  *)
(* touched again; its recording is thrown away only then or after its      *)
(* deletion; and its notes are the user's.                                 *)
(***************************************************************************)
EXTENDS Naturals

CONSTANTS
  Meeting,
  Text,
  NULL      \* no notes

VARIABLES
  stage,    \* stage[m]: "new", "recording", "processing", "complete", "error", "deleted"
  lines,    \* lines[m]: pieces of the transcript
  audio,    \* audio[m]: "none", "present" or "removed"
  text      \* text[m]: the notes

vars == <<stage, lines, audio, text>>

Init ==
  /\ stage = [m \in Meeting |-> "new"]
  /\ lines = [m \in Meeting |-> 0]
  /\ audio = [m \in Meeting |-> "none"]
  /\ text = [m \in Meeting |-> NULL]

Kept(m) == stage[m] \in {"recording", "processing", "complete", "error"}

Record(m) ==
  /\ stage[m] = "new" /\ audio[m] # "removed"
  /\ \E file \in {"none", "present"} : audio' = [audio EXCEPT ![m] = file]
  /\ UNCHANGED <<stage, lines, text>>

Begin(m) ==
  /\ stage[m] = "new"
  /\ stage' = [stage EXCEPT ![m] = "recording"]
  /\ UNCHANGED <<lines, audio, text>>

End(m) ==
  /\ stage[m] = "recording"
  /\ stage' = [stage EXCEPT ![m] = "processing"]
  /\ UNCHANGED <<lines, audio, text>>

Add(m) ==
  /\ stage[m] = "processing"
  /\ lines' = [lines EXCEPT ![m] = @ + 1]
  /\ UNCHANGED <<stage, audio, text>>

Discard(m) ==
  /\ stage[m] \in {"processing", "deleted"} /\ audio[m] = "present"
  /\ audio' = [audio EXCEPT ![m] = "removed"]
  /\ UNCHANGED <<stage, lines, text>>

Finish(m) ==
  /\ stage[m] = "processing"
  /\ \E end \in {"complete", "error"} : stage' = [stage EXCEPT ![m] = end]
  /\ UNCHANGED <<lines, audio, text>>

\* A crash leaves open meetings behind, which end in an error, some of them.
Recover(abandoned) ==
  /\ \A m \in abandoned : stage[m] \in {"recording", "processing"}
  /\ stage' = [m \in Meeting |-> IF m \in abandoned THEN "error" ELSE stage[m]]
  /\ UNCHANGED <<lines, audio, text>>

Write(m, t) ==
  /\ Kept(m)
  /\ text' = [text EXCEPT ![m] = t]
  /\ UNCHANGED <<stage, lines, audio>>

\* The one way to lose notes: a summary that could not be stored at first.
Forget(m) ==
  /\ Kept(m)
  /\ text' = [text EXCEPT ![m] = NULL]
  /\ UNCHANGED <<stage, lines, audio>>

Delete(m) ==
  /\ Kept(m)
  /\ stage' = [stage EXCEPT ![m] = "deleted"]
  /\ lines' = [lines EXCEPT ![m] = 0]
  /\ text' = [text EXCEPT ![m] = NULL]
  /\ UNCHANGED audio

Next ==
  \/ \E m \in Meeting :
       \/ Record(m) \/ Begin(m) \/ End(m) \/ Add(m) \/ Discard(m) \/ Finish(m)
       \/ Forget(m) \/ Delete(m)
       \/ \E t \in Text : Write(m, t)
  \/ \E abandoned \in SUBSET Meeting : Recover(abandoned)

Spec == Init /\ [][Next]_vars
=============================================================================
