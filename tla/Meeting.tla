------------------------------- MODULE Meeting -------------------------------
(***************************************************************************)
(* Meeting recordings: meeting.rs, the voice database voice_db.rs and the  *)
(* recovery at startup (lib.rs).  The commands run one after another on    *)
(* the main thread; each stopped meeting has a transcription thread, each  *)
(* requested summary an async task, and both work on the same database and *)
(* files.  The application may crash at any point: what is in the database *)
(* and on disk survives, everything else is lost.                          *)
(*                                                                         *)
(* A database call is one step: the connection's mutex is held during the  *)
(* call, and its statements run in one transaction or are single.          *)
(***************************************************************************)
EXTENDS Naturals, FiniteSets, SequencesExt

CONSTANTS
  Meeting,      \* session ids, each generated once
  Ask,          \* requests for a summary
  Text,         \* what a user may write as notes
  NULL,         \* SQL NULL, and no active recording
  ListLimit,    \* list_sessions returns this many sessions, the newest first
  MaxChunks,    \* bound on the 30 s pieces of one recording
  MaxFaults,    \* bound on the failing database calls
  MaxCrashes    \* bound on the crashes

ASSUME MeetingAssumption ==
  /\ NULL \notin Meeting \cup Text \cup [raw : Text \cup {NULL}, ai : BOOLEAN]
  /\ {ListLimit, MaxChunks, MaxFaults, MaxCrashes} \subseteq Nat

VARIABLES
  up,           \* the application runs
  active,       \* ACTIVE_MEETING
  main,         \* the two-step command on the main thread, and its session
  thread,       \* thread[m]: where the transcription of m stands
  left,         \* left[m]: pieces yet to transcribe
  outcome,      \* outcome[m]: the result of run_transcription
  ask,          \* ask[a]: where the summary task stands
  askOf,        \* askOf[a]: its session
  \* database and disk
  created,      \* the sessions ever inserted, oldest first
  status,       \* status[m]: voice_sessions.status, or "absent"
  segments,     \* segments[m]: rows of transcript_segments
  fts,          \* fts[m]: rows of voice_fts
  notes,        \* notes[m]: the row of session_notes, or NULL
  wav,          \* wav[m]: the recording on disk
  \* history
  used,         \* ids generated
  tried,        \* meetings whose transcription was attempted
  typed,        \* typed[m]: the notes last saved
  nulled,       \* sessions whose notes a summary task has set to NULL since
  announced,    \* sessions for which meeting-summary-ready was emitted
  left_behind,  \* sessions whose change of status failed
  faults, crashes

taskVars  == <<thread, left, outcome>>
askVars   == <<ask, askOf, announced, nulled>>
rowVars   == <<segments, fts>>
noteVars  == <<notes, typed>>
boundVars == <<faults, crashes>>
vars == <<up, active, main, thread, left, outcome, ask, askOf, announced, nulled,
          created, status, segments, fts, notes, typed, wav, used, tried,
          left_behind, faults, crashes>>

-----------------------------------------------------------------------------
Open == {"recording", "processing"}
Settled == {"complete", "error"}
Command == [op : {"idle"}, of : {NULL}] \cup [op : {"starting", "deleting"}, of : Meeting]
NotesRow == [raw : Text \cup {NULL}, ai : BOOLEAN]
Idle == [op |-> "idle", of |-> NULL]

(* The process, its threads and the rows range over what meeting.rs and the
   schema in voice_db.rs declare. *)
TypeOK ==
  /\ up \in BOOLEAN /\ active \in Meeting \cup {NULL} /\ main \in Command
  /\ thread \in [Meeting -> {"none", "decoding", "transcribing", "removing", "closing"}]
  /\ left \in [Meeting -> 0..MaxChunks]
  /\ outcome \in [Meeting -> {"ok", "error"}]
  /\ ask \in [Ask -> {"idle", "thinking", "preparing", "retrying"}]
  /\ askOf \in [Ask -> Meeting \cup {NULL}]
  /\ created \in Seq(Meeting) /\ IsInjective(created)
  /\ status \in [Meeting -> Open \cup Settled \cup {"absent"}]
  /\ segments \in [Meeting -> 0..MaxChunks] /\ fts \in [Meeting -> 0..MaxChunks]
  /\ notes \in [Meeting -> NotesRow \cup {NULL}]
  /\ wav \in [Meeting -> {"none", "present", "removed"}]
  /\ typed \in [Meeting -> Text \cup {NULL}]
  /\ {used, tried, nulled, announced, left_behind} \subseteq SUBSET Meeting
  /\ faults \in 0..MaxFaults /\ crashes \in 0..MaxCrashes

Init ==
  /\ up = TRUE
  /\ active = NULL
  /\ main = Idle
  /\ thread = [m \in Meeting |-> "none"]
  /\ left = [m \in Meeting |-> 0]
  /\ outcome = [m \in Meeting |-> "ok"]
  /\ ask = [a \in Ask |-> "idle"]
  /\ askOf = [a \in Ask |-> NULL]
  /\ created = <<>>
  /\ status = [m \in Meeting |-> "absent"]
  /\ segments = [m \in Meeting |-> 0]
  /\ fts = [m \in Meeting |-> 0]
  /\ notes = [m \in Meeting |-> NULL]
  /\ wav = [m \in Meeting |-> "none"]
  /\ typed = [m \in Meeting |-> NULL]
  /\ used = {} /\ tried = {} /\ nulled = {} /\ announced = {} /\ left_behind = {}
  /\ faults = 0 /\ crashes = 0

-----------------------------------------------------------------------------
(* SQLite: a call succeeds, or fails and changes nothing *)

Succeeds == UNCHANGED boundVars

Fails ==
  /\ faults < MaxFaults
  /\ faults' = faults + 1
  /\ UNCHANGED crashes

Exists(m) == status[m] # "absent"

\* An UPDATE of a row that is gone changes nothing and is no error.
SetStatus(m, s) == status' = IF Exists(m) THEN [status EXCEPT ![m] = s] ELSE status

\* A foreign key ties every segment and every notes row to a session.
SetNotes(m, row) == Exists(m) /\ notes' = [notes EXCEPT ![m] = row]

\* Mutant: foreign keys are off, as they are by default in SQLite.
InsertSegmentUnchecked(m) ==
  /\ segments' = [segments EXCEPT ![m] = @ + 1]
  /\ fts' = [fts EXCEPT ![m] = @ + 1]

\* A segment and its index entry go in together.
InsertSegment(m) ==
  /\ Exists(m)
  /\ segments' = [segments EXCEPT ![m] = @ + 1]
  /\ fts' = [fts EXCEPT ![m] = @ + 1]

\* ON CONFLICT DO UPDATE: the AI columns of an existing row stay.
WithRaw(m, text) == [raw |-> text, ai |-> IF notes[m] = NULL THEN FALSE ELSE notes[m].ai]

\* The newest sessions, as list_sessions returns them.
Listed ==
  LET newer(m) == {i \in DOMAIN created : Exists(created[i]) /\
                     \E j \in DOMAIN created : created[j] = m /\ j < i}
  IN {m \in Meeting : Exists(m) /\ Cardinality(newer(m)) < ListLimit}

-----------------------------------------------------------------------------
(* Commands *)

Ready == up /\ main = Idle

\* ffmpeg is spawned before the session exists; it may die without a file.
StartRecorder(m) ==
  /\ Ready /\ active = NULL
  /\ m \notin used
  /\ used' = used \cup {m}
  /\ main' = [op |-> "starting", of |-> m]
  /\ \E file \in {"none", "present"} : wav' = [wav EXCEPT ![m] = file]
  /\ UNCHANGED <<up, active, taskVars, askVars, created, status, rowVars, noteVars, tried,
                 left_behind, boundVars>>

\* A failure leaves the command with the file on disk and no session.
CreateSession ==
  /\ up /\ main.op = "starting"
  /\ main' = Idle
  /\ \/ /\ Succeeds
        /\ created' = Append(created, main.of)
        /\ status' = [status EXCEPT ![main.of] = "recording"]
        /\ active' = main.of
     \/ /\ Fails
        /\ UNCHANGED <<created, status, active>>
  /\ UNCHANGED <<up, taskVars, askVars, rowVars, noteVars, wav, used, tried, left_behind>>

\* The recording is taken out of the slot first; if finish_session fails then,
\* no transcription starts and the session stays as it is.
StopMeeting ==
  /\ Ready /\ active # NULL
  /\ active' = NULL
  /\ \/ /\ Succeeds
        /\ SetStatus(active, "processing")
        /\ thread' = [thread EXCEPT ![active] = "decoding"]
        /\ UNCHANGED left_behind
     \/ /\ Fails
        /\ left_behind' = left_behind \cup {active}
        /\ UNCHANGED <<status, thread>>
  /\ UNCHANGED <<up, main, left, outcome, askVars, created, rowVars, noteVars, wav, used, tried>>

\* The window saves the notes of a session it started, which another window may
\* have deleted; a failed save changes nothing.
SaveNotes(m, text) ==
  /\ Ready /\ m \in used
  /\ SetNotes(m, WithRaw(m, text))
  /\ typed' = [typed EXCEPT ![m] = text]
  /\ nulled' = nulled \ {m}
  /\ UNCHANGED <<up, active, main, taskVars, ask, askOf, announced, created, status, rowVars,
                 wav, used, tried, left_behind, boundVars>>

\* The session, its segments, its notes and its index entries go in one
\* transaction, whatever thread or task still works on it ...
DeleteSession(m) ==
  /\ Ready /\ Exists(m) /\ active # m
  /\ status' = [status EXCEPT ![m] = "absent"]
  /\ segments' = [segments EXCEPT ![m] = 0]
  /\ fts' = [fts EXCEPT ![m] = 0]
  /\ notes' = [notes EXCEPT ![m] = NULL]
  /\ main' = [op |-> "deleting", of |-> m]
  /\ UNCHANGED <<up, active, taskVars, askVars, created, typed, wav, used, tried,
                 left_behind, boundVars>>

Removed(m) == IF wav[m] = "present" THEN [wav EXCEPT ![m] = "removed"] ELSE wav

\* ... and the recording after it.
DeleteWav ==
  /\ up /\ main.op = "deleting"
  /\ main' = Idle
  /\ wav' = Removed(main.of)
  /\ UNCHANGED <<up, active, taskVars, askVars, created, status, rowVars, noteVars, used, tried,
                 left_behind, boundVars>>

-----------------------------------------------------------------------------
(* The transcription thread *)

\* ffmpeg decodes the recording.  A missing or broken file yields no samples,
\* which is no error; ffmpeg or the model missing is one.
Decode(m) ==
  /\ thread[m] = "decoding"
  /\ tried' = tried \cup {m}
  /\ \/ /\ wav[m] = "present"
        /\ \E n \in 1..MaxChunks : left' = [left EXCEPT ![m] = n]
        /\ thread' = [thread EXCEPT ![m] = "transcribing"]
        /\ outcome' = [outcome EXCEPT ![m] = "ok"]
     \/ /\ thread' = [thread EXCEPT ![m] = "removing"]
        /\ \E result \in {"ok", "error"} : outcome' = [outcome EXCEPT ![m] = result]
        /\ UNCHANGED left
  /\ UNCHANGED <<up, active, main, askVars, created, status, rowVars, noteVars, wav, used,
                 left_behind, boundVars>>

\* Mutant: the loop over the pieces ends one late.
TranscribePastEnd(m) ==
  /\ thread[m] = "transcribing"
  /\ left' = [left EXCEPT ![m] = @ - 1]
  /\ thread' = [thread EXCEPT ![m] = IF left[m] = 0 THEN "removing" ELSE @]
  /\ UNCHANGED <<up, active, main, outcome, askVars, created, status, rowVars, noteVars, wav,
                 used, tried, left_behind, boundVars>>

\* One piece of audio: text goes into both tables in one transaction, which
\* fails when the session is gone; silence, an error of the engine or of the
\* database leaves no trace, and the thread goes on.
Transcribe(m) ==
  /\ thread[m] = "transcribing"
  /\ left' = [left EXCEPT ![m] = @ - 1]
  /\ thread' = [thread EXCEPT ![m] = IF left[m] = 1 THEN "removing" ELSE @]
  /\ InsertSegment(m) \/ UNCHANGED rowVars
  /\ UNCHANGED <<up, active, main, outcome, askVars, created, status, noteVars, wav, used,
                 tried, left_behind, boundVars>>

RemoveWav(m) ==
  /\ thread[m] = "removing"
  /\ wav' = Removed(m)
  /\ thread' = [thread EXCEPT ![m] = "closing"]
  /\ UNCHANGED <<up, active, main, left, outcome, askVars, created, status, rowVars, noteVars,
                 used, tried, left_behind, boundVars>>

\* Mutant: the failed transcription does not set the terminal status.
CloseOnSuccess(m) ==
  /\ thread[m] = "closing"
  /\ thread' = [thread EXCEPT ![m] = "none"]
  /\ IF outcome[m] = "ok" THEN SetStatus(m, "complete") ELSE UNCHANGED status
  /\ UNCHANGED <<up, active, main, left, outcome, askVars, created, rowVars, noteVars, wav,
                 used, tried, left_behind, boundVars>>

\* The terminal status; a failure to write it is ignored.
Close(m) ==
  /\ thread[m] = "closing"
  /\ thread' = [thread EXCEPT ![m] = "none"]
  /\ \/ /\ Succeeds
        /\ SetStatus(m, IF outcome[m] = "ok" THEN "complete" ELSE "error")
        /\ UNCHANGED left_behind
     \/ /\ Fails
        /\ left_behind' = left_behind \cup {m}
        /\ UNCHANGED status
  /\ UNCHANGED <<up, active, main, left, outcome, askVars, created, rowVars, noteVars, wav,
                 used, tried>>

ThreadStep(m) == Decode(m) \/ Transcribe(m) \/ RemoveWav(m) \/ Close(m)

-----------------------------------------------------------------------------
(* The summary task *)

\* Transcript and notes are read before the task is spawned.
AskSummary(a, m) ==
  /\ Ready /\ ask[a] = "idle"
  /\ segments[m] > 0
  /\ ask' = [ask EXCEPT ![a] = "thinking"]
  /\ askOf' = [askOf EXCEPT ![a] = m]
  /\ UNCHANGED <<up, active, main, taskVars, announced, nulled, created, status, rowVars,
                 noteVars, wav, used, tried, left_behind, boundVars>>

NoSummary(a) ==
  /\ ask[a] = "thinking"
  /\ ask' = [ask EXCEPT ![a] = "idle"]
  /\ UNCHANGED <<up, active, main, taskVars, askOf, announced, nulled, created, status,
                 rowVars, noteVars, wav, used, tried, left_behind, boundVars>>

\* Mutant: the summary is written with INSERT OR REPLACE.
StoreSummaryReplacing(a) ==
  /\ ask[a] \in {"thinking", "retrying"}
  /\ SetNotes(askOf[a], [raw |-> NULL, ai |-> TRUE])
  /\ announced' = announced \cup {askOf[a]}
  /\ ask' = [ask EXCEPT ![a] = "idle"]
  /\ UNCHANGED <<up, active, main, taskVars, askOf, nulled, created, status, rowVars, typed,
                 wav, used, tried, left_behind, boundVars>>

\* update_ai_output: without a notes row it changes nothing and reports
\* success all the same.
StoreSummary(a) ==
  /\ ask[a] \in {"thinking", "retrying"}
  /\ notes' = IF notes[askOf[a]] = NULL THEN notes ELSE [notes EXCEPT ![askOf[a]].ai = TRUE]
  /\ announced' = announced \cup {askOf[a]}
  /\ ask' = [ask EXCEPT ![a] = "idle"]
  /\ UNCHANGED <<up, active, main, taskVars, askOf, nulled, created, status, rowVars, typed,
                 wav, used, tried, left_behind, boundVars>>

\* The first failure is retried after a notes row is made sure of, the second
\* one is reported.
StoreFails(a) ==
  /\ ask[a] \in {"thinking", "retrying"}
  /\ Fails
  /\ ask' = [ask EXCEPT ![a] = IF @ = "thinking" THEN "preparing" ELSE "idle"]
  /\ UNCHANGED <<up, active, main, taskVars, askOf, announced, nulled, created, status,
                 rowVars, noteVars, wav, used, tried, left_behind>>

\* upsert_notes(&sid, None): in a row that exists the notes become NULL.  Its
\* own failure, on a deleted session for one, is ignored.
PrepareNotes(a) ==
  /\ ask[a] = "preparing"
  /\ ask' = [ask EXCEPT ![a] = "retrying"]
  /\ \/ /\ Succeeds
        /\ SetNotes(askOf[a], WithRaw(askOf[a], NULL))
        /\ nulled' = nulled \cup {askOf[a]}
     \/ /\ Fails \/ (~Exists(askOf[a]) /\ Succeeds)
        /\ UNCHANGED <<notes, nulled>>
  /\ UNCHANGED <<up, active, main, taskVars, askOf, announced, created, status, rowVars, typed,
                 wav, used, tried, left_behind>>

AskStep(a) == NoSummary(a) \/ StoreSummary(a) \/ StoreFails(a) \/ PrepareNotes(a)

-----------------------------------------------------------------------------
(* Crashes and startup *)

\* The process ends, with every thread and task; ffmpeg sees its input close.
Crash ==
  /\ up /\ crashes < MaxCrashes
  /\ up' = FALSE
  /\ crashes' = crashes + 1
  /\ active' = NULL
  /\ main' = Idle
  /\ thread' = [m \in Meeting |-> "none"]
  /\ left' = [m \in Meeting |-> 0]
  /\ ask' = [a \in Ask |-> "idle"]
  /\ UNCHANGED <<outcome, askOf, announced, nulled, created, status, rowVars, noteVars, wav,
                 used, tried, left_behind, faults>>

\* Mutant: only sessions left in "recording" are recovered.
RestartRecordingOnly ==
  /\ ~up
  /\ up' = TRUE
  /\ status' = [m \in Meeting |->
                  IF m \in Listed /\ status[m] = "recording" THEN "error" ELSE status[m]]
  /\ UNCHANGED <<active, main, taskVars, askVars, created, rowVars, noteVars, wav, used, tried,
                 left_behind, boundVars>>

\* Mutant: every listed session is marked.
RestartAll ==
  /\ ~up
  /\ up' = TRUE
  /\ status' = [m \in Meeting |-> IF m \in Listed THEN "error" ELSE status[m]]
  /\ UNCHANGED <<active, main, taskVars, askVars, created, rowVars, noteVars, wav, used, tried,
                 left_behind, boundVars>>

\* Mutant: startup also removes the recordings of the sessions it marks.
RestartSweeping ==
  /\ ~up
  /\ up' = TRUE
  /\ status' = [m \in Meeting |->
                  IF m \in Listed /\ status[m] \in Open THEN "error" ELSE status[m]]
  /\ wav' = [m \in Meeting |->
                  IF m \in Listed /\ status[m] \in Open THEN "removed" ELSE wav[m]]
  /\ UNCHANGED <<active, main, taskVars, askVars, created, rowVars, noteVars, used, tried,
                 left_behind, boundVars>>

\* Before the first command, every open session that is listed is marked; an
\* update that fails is ignored.
Restart ==
  /\ ~up
  /\ up' = TRUE
  /\ \E marked \in SUBSET {m \in Listed : status[m] \in Open} :
       /\ status' = [m \in Meeting |-> IF m \in marked THEN "error" ELSE status[m]]
       /\ IF \E m \in Listed \ marked : status[m] \in Open THEN Fails ELSE Succeeds
       /\ left_behind' = {m \in Meeting : status[m] \in Open} \ marked
  /\ UNCHANGED <<active, main, taskVars, askVars, created, rowVars, noteVars, wav, used, tried>>

\* Nothing is under way.
Rest ==
  /\ Ready
  /\ \A m \in Meeting : thread[m] = "none"
  /\ UNCHANGED vars

Next ==
  \/ \E m \in Meeting :
       \/ StartRecorder(m) \/ DeleteSession(m) \/ ThreadStep(m)
       \/ \E text \in Text : SaveNotes(m, text)
       \/ \E a \in Ask : AskSummary(a, m)
  \/ CreateSession \/ StopMeeting \/ DeleteWav
  \/ \E a \in Ask : AskStep(a)
  \/ Crash \/ Restart \/ Rest

Spec == Init /\ [][Next]_vars

(***************************************************************************)
(* Fairness.  The main thread finishes the command it is in, and a         *)
(* transcription thread runs on: its audio is finite and the engine is     *)
(* given back after each piece.  Users, the LLM and the relaunch of a      *)
(* crashed application owe nothing.                                        *)
(***************************************************************************)
Fairness ==
  /\ WF_vars(CreateSession) /\ WF_vars(DeleteWav)
  /\ \A m \in Meeting : WF_vars(ThreadStep(m))

FairSpec == Spec /\ Fairness

-----------------------------------------------------------------------------
(* Safety *)

\* No transcript, index entry or note outlives its session, and the search
\* index holds exactly the segments: a session deleted while it is being
\* transcribed, annotated or summarised leaves nothing behind and nothing
\* comes back (voice_db.rs, delete_session and insert_segment).
NoOrphanRows ==
  \A m \in Meeting :
    /\ fts[m] = segments[m]
    /\ ~Exists(m) => segments[m] = 0 /\ notes[m] = NULL

\* A session shown as recording or processing is one: it is in the slot, or its
\* transcription runs, unless the application is down, or a write of its status
\* failed or startup did not list it (meeting.rs, lib.rs 587-592).
StatusOwned ==
  \A m \in Meeting :
    up /\ m \notin left_behind =>
      /\ status[m] = "recording" => active = m
      /\ status[m] = "processing" => thread[m] # "none"

\* The program removes a recording only after its transcription was attempted
\* or its session deleted; a crash loses no audio, and neither does a startup.
AudioSafe ==
  \A m \in Meeting : wav[m] = "removed" => m \in tried \/ ~Exists(m)

\* The notes in the database are the last ones the user saved, whatever
\* summaries, crashes and transcriptions do to the same row; the one exception
\* is a summary task whose first write failed (meeting.rs 327-330).
NotesSurvive ==
  \A m \in Meeting :
    Exists(m) /\ typed[m] # NULL /\ m \notin nulled =>
      notes[m] # NULL /\ notes[m].raw = typed[m]

\* A finished session stays as it finished, across crashes and startups, until
\* it is deleted, and a deleted one never comes back.
SettledStays ==
  [][\A m \in Meeting :
       /\ status[m] \in Settled => status'[m] \in {status[m], "absent"}
       /\ ~Exists(m) /\ m \in ToSet(created) => ~Exists(m)']_vars

-----------------------------------------------------------------------------
(* The promise to the user *)

StageOf(m) ==
  CASE Exists(m) -> status[m]
    [] ~Exists(m) /\ m \in ToSet(created) -> "deleted"
    [] OTHER -> "new"

TextOf(m) == IF notes[m] = NULL THEN NULL ELSE notes[m].raw

Promise == INSTANCE Minutes WITH
  stage <- [m \in Meeting |-> StageOf(m)],
  lines <- segments,
  audio <- wav,
  text <- [m \in Meeting |-> TextOf(m)]

\* Commands, threads, summaries, crashes and startups together only do what
\* Minutes allows: no transcript changes after its meeting has settled, no
\* recording is thrown away under a meeting that still needs it, and a
\* summary that is stored leaves the user's notes alone.
MinutesKept == Promise!Spec

-----------------------------------------------------------------------------
(* Liveness *)

\* A stopped meeting does not stay in processing: it completes, fails or is
\* deleted, unless the application is down or the status could not be written.
MeetingSettles ==
  \A m \in Meeting :
    status[m] = "processing" ~> status[m] # "processing" \/ ~up \/ m \in left_behind

-----------------------------------------------------------------------------
(* What a comment says, and the code does not do *)

\* "Persist failed - try upsert_notes first to create the row, then retry"
\* (meeting.rs 328): a summary announced as ready is stored with its session.
SummaryStored ==
  \A m \in announced : Exists(m) => notes[m] # NULL /\ notes[m].ai
=============================================================================
