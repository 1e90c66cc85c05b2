----------------------------- MODULE Utterances -----------------------------
(***************************************************************************)
(* What dictation promises its user: the words that come out belong to     *)
(* stretches of speech that went in, in the order they were spoken, none   *)
(* twice, and each comes out where its recording was started: in the app   *)
(* for the microphone button, in the active window for the global hotkey.  *)
(* Speech may be lost (a busy worker, a short utterance, the last moment   *)
(* before a stop); it is never reordered, mixed or misdirected.            *)
(***************************************************************************)
EXTENDS Naturals, Sequences, Functions

VARIABLES
  heard,    \* heard[n]: the recording in which the n-th sample was captured
  sources,  \* sources[k]: what started recording k, "button" or "hotkey"
  spoken    \* the stretches delivered so far: their samples, and where they went

Init == heard = <<>> /\ sources = <<>> /\ spoken = <<>>

Begin ==
  /\ \E source \in {"button", "hotkey"} : sources' = Append(sources, source)
  /\ UNCHANGED <<heard, spoken>>

Hear ==
  /\ sources # <<>>
  /\ heard' = Append(heard, Len(sources))
  /\ UNCHANGED <<sources, spoken>>

\* A stretch after everything delivered before, out of a single recording.
Deliver ==
  /\ \E from, to \in DOMAIN heard :
       /\ from <= to
       /\ \A n \in from..to : heard[n] = heard[from]
       /\ \A i \in DOMAIN spoken : \A n \in Range(spoken[i].samples) : n < from
       /\ spoken' = Append(spoken, [samples |-> [i \in 1..(to - from + 1) |-> from + i - 1],
                                    inApp |-> sources[heard[from]] = "button"])
  /\ UNCHANGED <<heard, sources>>

Spec == Init /\ [][Begin \/ Hear \/ Deliver]_<<heard, sources, spoken>>
=============================================================================
