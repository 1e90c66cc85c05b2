---------------------------- MODULE ScreenRecorder ----------------------------
(***************************************************************************)
(* Screen recordings: ffmpeg and its session (recorder.rs), the options    *)
(* panel that starts one, the pill that stops it and hands its file over   *)
(* (RecordingPill.tsx), and the trim editor that exports or deletes it     *)
(* (TrimEditor.tsx).  The commands run one at a time, on the main thread;  *)
(* the windows continue when they are answered.                            *)
(***************************************************************************)
EXTENDS Naturals, FiniteSets

CONSTANTS
  Recording,  \* session ids, each with a raw file of its own, generated once
  NOBODY      \* no recording

ASSUME RecorderAssumption == NOBODY \notin Recording

VARIABLES
  state,      \* state[r]: "none", "running" or "ended", of its ffmpeg
  raw,        \* recordings that were made and whose raw file nobody has removed
  active,     \* the recording session
  panel,      \* the options panel: "closed", "open", or "started" (will open the pill)
  pill,       \* "closed", "mounting", "open", "stopping", "ended" (has the path) or "handed"
  pillId,     \* the recording the pill is for
  trimPath,   \* PENDING_TRIM_PATH
  trim,       \* the trim editor: "closed", "mounting" or "open"
  trimId,     \* rawPathRef: the recording in the trim editor
  exporting,  \* handleExport: "no", "encoding", "saving" or "saved" (not yet answered)
  exported,   \* exportedRef: recordings the editor knows to be in the library
  removing,   \* recordings whose removal a close handler awaits
  leaving,    \* a close handler has asked to destroy the trim editor
  library,    \* recordings library_save_video has stored
  \* history
  reached,    \* recordings that have been in the trim editor
  dropped,    \* recordings whose editor was not built, or closed before it had the path
  hurried,    \* recordings whose editor was asked to close during their export
  spared,     \* recordings whose removal failed
  overlapped  \* recordings started before an earlier one was done with, and those

ffmpegVars == <<state, raw, active>>
pillVars == <<pill, pillId>>
closeVars == <<removing, leaving>>
trimVars == <<trim, trimId, exporting, exported, closeVars, library>>
trimPast == <<reached, dropped, hurried, spared>>
recorderVars == <<ffmpegVars, panel, pillVars, trimPath, trimVars, trimPast, overlapped>>

RecorderInit ==
  /\ state = [r \in Recording |-> "none"]
  /\ raw = {} /\ active = NOBODY /\ panel = "closed"
  /\ pill = "closed" /\ pillId = NOBODY
  /\ trimPath = NOBODY /\ trim = "closed" /\ trimId = NOBODY
  /\ exporting = "no" /\ exported = {} /\ removing = {} /\ leaving = FALSE /\ library = {}
  /\ reached = {} /\ dropped = {} /\ hurried = {} /\ spared = {} /\ overlapped = {}

(* Each window holds a recording only while it is open, and only recordings
   that were made are held, shown or exported. *)
RecorderTypeOK ==
  /\ state \in [Recording -> {"none", "running", "ended"}]
  /\ active \in Recording \cup {NOBODY}
  /\ panel \in {"closed", "open", "started"}
  /\ pill \in {"closed", "mounting", "open", "stopping", "ended", "handed"}
  /\ pillId \in Recording \cup {NOBODY} /\ trimPath \in Recording \cup {NOBODY}
  /\ pill \in {"closed", "mounting"} => pillId = NOBODY
  /\ trim \in {"closed", "mounting", "open"}
  /\ trimId \in reached \cup {NOBODY}
  /\ exporting \in {"no", "encoding", "saving", "saved"} /\ leaving \in BOOLEAN
  /\ trim # "open" => trimId = NOBODY /\ ~leaving
  /\ trimId = NOBODY => exporting = "no"
  /\ exported \subseteq library
  /\ library \cup removing \cup hurried \cup spared \subseteq reached
  /\ raw \cup reached \cup dropped \cup overlapped \subseteq {r \in Recording : state[r] # "none"}

-----------------------------------------------------------------------------
(* Starting *)

\* open_recording_options_window, by the hotkey or the tray.
OpenPanel ==
  /\ panel = "closed" /\ panel' = "open"
  /\ UNCHANGED <<ffmpegVars, pillVars, trimPath, trimVars, trimPast, overlapped>>

\* Cancel or the close button; what handleRecord awaits is answered to nobody,
\* and a recording that was started goes on without a pill.
ClosePanel ==
  /\ panel # "closed" /\ panel' = "closed"
  /\ UNCHANGED <<ffmpegVars, pillVars, trimPath, trimVars, trimPast, overlapped>>

\* Recordings on their way to the trim editor.
Unfinished == {r \in Recording : state[r] # "none"} \ (reached \cup dropped)

\* Mutant: recording_start replaces the session and leaves its ffmpeg running.
StartLeaving(r) ==
  /\ panel = "open" /\ state[r] = "none"
  /\ state' = [state EXCEPT ![r] = "running"]
  /\ raw' = raw \cup {r}
  /\ active' = r
  /\ panel' = "started"
  /\ overlapped' = IF Unfinished = {} /\ trim = "closed" THEN overlapped
                   ELSE overlapped \cup Unfinished \cup {r}
  /\ UNCHANGED <<pillVars, trimPath, trimVars, trimPast>>

\* recording_start: the new ffmpeg runs before the one it replaces is stopped; a
\* command of the main thread, so that no other comes between.
Start(r) ==
  /\ panel = "open" /\ state[r] = "none"
  /\ state' = [q \in Recording |-> IF q = r THEN "running"
                                   ELSE IF q = active THEN "ended" ELSE state[q]]
  /\ raw' = raw \cup {r}
  /\ active' = r
  /\ panel' = "started"
  /\ overlapped' = IF Unfinished = {} /\ trim = "closed" THEN overlapped
                   ELSE overlapped \cup Unfinished \cup {r}
  /\ UNCHANGED <<pillVars, trimPath, trimVars, trimPast>>

\* open_recording_pill closes an existing pill; the new one cannot be built
\* while the old has not gone, and then the panel stays open with the error.
OpenPill ==
  /\ panel = "started"
  /\ pillId' = NOBODY
  /\ \/ pill' = "mounting" /\ panel' = "closed"
     \/ pill # "closed" /\ pill' = "closed" /\ panel' = "open"
  /\ UNCHANGED <<ffmpegVars, trimPath, trimVars, trimPast, overlapped>>

-----------------------------------------------------------------------------
(* Stopping *)

\* recording_get_current_session
PillMounted ==
  /\ pill = "mounting"
  /\ pill' = "open" /\ pillId' = active
  /\ UNCHANGED <<ffmpegVars, panel, trimPath, trimVars, trimPast, overlapped>>

PressStop ==
  /\ pill = "open" /\ pillId # NOBODY
  /\ pill' = "stopping"
  /\ UNCHANGED <<ffmpegVars, panel, pillId, trimPath, trimVars, trimPast, overlapped>>

\* recording_stop: for another session than the active one it is an error.
Stop ==
  /\ pill = "stopping"
  /\ IF active = pillId
     THEN /\ pill' = "ended"
          /\ state' = [state EXCEPT ![pillId] = "ended"]
          /\ active' = NOBODY
     ELSE pill' = "open" /\ UNCHANGED <<state, active>>
  /\ UNCHANGED <<raw, panel, pillId, trimPath, trimVars, trimPast, overlapped>>

\* Mutant: the editor is opened before its path is kept.
HandOverPathless ==
  /\ pill = "ended"
  /\ pill' = "handed"
  /\ trim' = IF trim = "closed" THEN "mounting" ELSE trim
  /\ UNCHANGED <<ffmpegVars, panel, pillId, trimPath, trimId, exporting, exported, closeVars,
                 library, trimPast, overlapped>>

\* open_trim_editor keeps the path; an editor that is open is only focused.  If
\* it cannot be built the pill stays, for a session that is over.
HandOver ==
  /\ pill = "ended"
  /\ trimPath' = pillId
  /\ \/ /\ pill' = "handed"
        /\ trim' = IF trim = "closed" THEN "mounting" ELSE trim
        /\ UNCHANGED dropped
     \/ /\ trim = "closed" /\ pill' = "open"
        /\ dropped' = dropped \cup {pillId}
        /\ UNCHANGED trim
  /\ UNCHANGED <<ffmpegVars, panel, pillId, trimId, exporting, exported, closeVars, library,
                 reached, hurried, spared, overlapped>>

PillCloses ==
  /\ pill = "handed"
  /\ pill' = "closed" /\ pillId' = NOBODY
  /\ UNCHANGED <<ffmpegVars, panel, trimPath, trimVars, trimPast, overlapped>>

-----------------------------------------------------------------------------
(* Trimming *)

\* recording_get_trim_path takes the path.
TrimMounted ==
  /\ trim = "mounting"
  /\ trim' = "open" /\ trimId' = trimPath /\ trimPath' = NOBODY
  /\ reached' = reached \cup ({trimPath} \ {NOBODY})
  /\ UNCHANGED <<ffmpegVars, panel, pillVars, exporting, exported, closeVars, library, dropped,
                 hurried, spared, overlapped>>

\* Closed before it is told the path, which may have been taken: there is
\* nothing to remove.
CloseMounting ==
  /\ trim = "mounting" /\ trim' = "closed"
  /\ trimPath' \in {trimPath, NOBODY}
  /\ dropped' = dropped \cup ({trimPath} \ {NOBODY})
  /\ UNCHANGED <<ffmpegVars, panel, pillVars, trimId, exporting, exported, closeVars, library,
                 reached, hurried, spared, overlapped>>

BeginExport ==
  /\ trim = "open" /\ trimId # NOBODY /\ exporting = "no"
  /\ exporting' = "encoding"
  /\ hurried' = IF leaving \/ trimId \in removing THEN hurried \cup {trimId} ELSE hurried
  /\ UNCHANGED <<ffmpegVars, panel, pillVars, trimPath, trim, trimId, exported, closeVars,
                 library, reached, dropped, spared, overlapped>>

\* recording_export, then library_save_video; either may fail.
ExportStep ==
  /\ \/ exporting \in {"encoding", "saving"} /\ exporting' = "no" /\ UNCHANGED library
     \/ exporting = "encoding" /\ trimId \in raw /\ exporting' = "saving" /\ UNCHANGED library
     \/ exporting = "saving" /\ exporting' = "saved" /\ library' = library \cup {trimId}
  /\ UNCHANGED <<ffmpegVars, panel, pillVars, trimPath, trim, trimId, exported, closeVars,
                 trimPast, overlapped>>

\* The editor hears of the save, sets exportedRef and closes itself: the close
\* handler only destroys it.
ExportAnswered ==
  /\ exporting = "saved" /\ exporting' = "no"
  /\ exported' = exported \cup {trimId}
  /\ leaving' = TRUE
  /\ UNCHANGED <<ffmpegVars, panel, pillVars, trimPath, trim, trimId, removing, library,
                 trimPast, overlapped>>

\* The close handler reads exportedRef and, before it destroys the window,
\* awaits the removal of a raw file that is not exported.
CloseTrim ==
  /\ trim = "open"
  /\ IF trimId \in exported \cup {NOBODY}
     THEN leaving' = TRUE /\ UNCHANGED removing
     ELSE removing' = removing \cup {trimId} /\ UNCHANGED leaving
  /\ hurried' = IF exporting # "no" THEN hurried \cup {trimId} ELSE hurried
  /\ UNCHANGED <<ffmpegVars, panel, pillVars, trimPath, trim, trimId, exporting, exported,
                 library, reached, dropped, spared, overlapped>>

\* remove() may fail, which the handler ignores.
RemoveRaw(r) ==
  /\ r \in removing
  /\ removing' = removing \ {r}
  /\ leaving' = (leaving \/ trimId = r)
  /\ \/ raw' = raw \ {r} /\ UNCHANGED spared
     \/ spared' = spared \cup {r} /\ UNCHANGED raw
  /\ UNCHANGED <<state, active, panel, pillVars, trimPath, trim, trimId, exporting, exported,
                 library, reached, dropped, hurried, overlapped>>

\* Mutant: the next editor finds the recording still in hand.
DestroyHolding ==
  /\ leaving /\ leaving' = FALSE
  /\ trim' = "closed" /\ exporting' = "no"
  /\ UNCHANGED <<ffmpegVars, panel, pillVars, trimPath, trimId, exported, removing, library,
                 trimPast, overlapped>>

\* destroy(); a save that is under way may still be done.
Destroy ==
  /\ leaving /\ leaving' = FALSE
  /\ trim' = "closed" /\ trimId' = NOBODY /\ exporting' = "no"
  /\ \/ UNCHANGED library
     \/ exporting = "saving" /\ library' = library \cup {trimId}
  /\ UNCHANGED <<ffmpegVars, panel, pillVars, trimPath, exported, removing, trimPast, overlapped>>

RecorderNext ==
  \/ \E r \in Recording : Start(r) \/ RemoveRaw(r)
  \/ OpenPanel \/ ClosePanel \/ OpenPill \/ PillMounted \/ PressStop \/ Stop \/ HandOver
  \/ PillCloses \/ TrimMounted \/ CloseMounting
  \/ BeginExport \/ ExportStep \/ ExportAnswered \/ CloseTrim \/ Destroy

\* What the windows do by themselves once they are open or answered; nobody has
\* to press a button.
PillStep == PillMounted \/ Stop \/ HandOver \/ PillCloses
RecorderFairness ==
  WF_recorderVars(OpenPill) /\ WF_recorderVars(PillStep) /\ WF_recorderVars(TrimMounted)

RecorderSpec == RecorderInit /\ [][RecorderNext]_recorderVars /\ RecorderFairness

-----------------------------------------------------------------------------
(* Properties *)

\* A recording that was stopped comes to the trim editor (recorder.rs 432-452,
\* RecordingPill.tsx 36-38).  Two exceptions: it or the next was started before
\* the one before it was done with, or no editor could be built for it or that
\* was closed before it had the path.
StoppedReachesEditor ==
  \A r \in Recording : state[r] = "ended" ~> r \in reached \cup overlapped \cup dropped

\* ffmpeg runs for the session only, whichever start replaced which.  Only the
\* file of a recording that the trim editor has shown is ever removed; that of
\* one in the library only if the editor was asked to close during its export,
\* for the close handler removes what it found not exported.  And a recording
\* leaves the editor without its file, unless it was exported or the removal
\* failed (recorder.rs 197-212, TrimEditor.tsx 33-45, 74-76).
NoRunawayRecording ==
  \A r \in Recording :
    /\ state[r] = "running" => active = r
    /\ state[r] # "none" /\ r \notin raw => r \in reached /\ (r \in library => r \in hurried)
    /\ r \in reached /\ r \in raw /\ r # trimId => r \in exported \cup removing \cup spared
=============================================================================
