---------------------------- MODULE CaptureLibrary ----------------------------
(***************************************************************************)
(* Captures: the library's rows, search entries and files (library/db.rs,  *)
(* commands.rs), the threads that recognise their text (ocr.rs), the       *)
(* pending capture of capture.rs and the editor that takes it, annotates   *)
(* it and finalizes its draft (EditorWindow.tsx).                          *)
(*                                                                         *)
(* The commands run one at a time on the main thread; the OCR threads and  *)
(* the editor's callbacks run between them.                                *)
(***************************************************************************)
EXTENDS Disk, Naturals, FiniteSets

CONSTANTS
  Capture,   \* ids of rows, each with a file of its own, generated once
  NOTEXT,    \* an entry without text
  WAITING,   \* a thread that has not read the file yet
  MaxExports, \* bound on the exports
  MaxQuits    \* bound on the ends of the app

\* What a file shows: a capture as it was taken, annotated, or annotated until
\* no text is left; the stage is empty before an image is on it.
Image == [of : Capture \cup {NONE}, kind : {"raw", "marked", "blank"}]

Raw(c) == [of |-> c, kind |-> "raw"]
HasText(i) == i.of # NONE /\ i.kind # "blank"

ASSUME CaptureAssumption ==
  /\ {MaxExports, MaxQuits} \subseteq Nat
  /\ NONE \notin Capture \cup Image \cup {NOTEXT, WAITING} /\ {NOTEXT, WAITING} \cap Image = {}
  /\ NONE \notin {"draft", "final", "video"}

VARIABLES
  app,        \* the app runs
  row,        \* row[c]: "draft", "final" or "video"
  entry,      \* entry[c]: the image whose text is in the search index
  png,        \* png[c]: its file
  ocr,        \* ocr[job][c]: NONE, WAITING, or the image the thread has read
  pending,    \* the capture waiting for the editor: its image, and its id if it has one
  asks,       \* calls of get_captured_image the editor is about to make
  editor,     \* "closed", "mounting" (not yet listening for reloads) or "open"
  libId,      \* libraryIdRef
  loading,    \* captures whose images are being decoded
  shown,      \* the capture on the stage
  exports,    \* images being copied or saved
  \* history
  taken,      \* ids generated
  stray,      \* captures whose draft was reported as not saved
  hasty,      \* captures that came during an export or the loading of another, or were
              \*   exported before they were shown
  raced,      \* captures whose threads overlapped
  unread,     \* captures whose recognition failed or was cut off
  pruned,     \* captures the pruning removed
  leftOver,   \* captures whose entries the pruning failed to remove
  unremoved,  \* captures that were deleted and whose file could not be removed
  drawn,      \* exports begun
  quits

\* The thread started by the saving of the draft, and by the finalizing.
Job == {"draft", "final"}

libraryVars == <<row, entry, png, ocr>>
editorVars == <<pending, asks, editor, libId, loading, shown, exports>>
pastVars == <<taken, stray, hasty, raced, unread, pruned, leftOver, unremoved>>
captureVars == <<app, libraryVars, editorVars, pastVars, drawn, quits>>

(* The library, the threads and the editor range over what they handle. *)
CaptureTypeOK ==
  /\ app \in BOOLEAN
  /\ row \in [Capture -> {"draft", "final", "video", NONE}]
  /\ entry \in [Capture -> Image \cup {NOTEXT, NONE}]
  /\ png \in [Capture -> Image \cup {NONE}]
  /\ ocr \in [Job -> [Capture -> Image \cup {NONE, WAITING}]]
  /\ pending \in [image : Capture, id : Capture \cup {NONE}] \cup {NONE}
  /\ asks \in Nat /\ editor \in {"closed", "mounting", "open"}
  /\ editor = "closed" => asks = 0 /\ loading = {} /\ exports = {} /\ libId = NONE
  /\ {libId, shown} \subseteq Capture \cup {NONE}
  /\ loading \subseteq Capture /\ exports \subseteq Image
  /\ {taken, stray, hasty, raced, unread, pruned, leftOver, unremoved} \subseteq SUBSET Capture
  /\ drawn \in 0..MaxExports /\ quits \in 0..MaxQuits

CaptureInit ==
  /\ app = TRUE
  /\ row = [c \in Capture |-> NONE]
  /\ entry = [c \in Capture |-> NONE]
  /\ png = [c \in Capture |-> NONE]
  /\ ocr = [job \in Job |-> [c \in Capture |-> NONE]]
  /\ pending = NONE /\ asks = 0 /\ editor = "closed"
  /\ libId = NONE /\ loading = {} /\ shown = NONE /\ exports = {}
  /\ taken = {} /\ stray = {} /\ hasty = {} /\ raced = {} /\ unread = {} /\ pruned = {}
  /\ leftOver = {} /\ unremoved = {} /\ drawn = 0 /\ quits = 0

-----------------------------------------------------------------------------
(* Taking a capture *)

New(c) == c \notin taken /\ taken' = taken \cup {c}

\* Mutant of OpenEditor: an id that was not taken stays for the next image.
OpenEditorKeepingId(c, id) ==
  /\ pending' = [image |-> c, id |-> IF id = NONE /\ pending # NONE THEN pending.id ELSE id]
  /\ IF editor = "closed"
     THEN editor' = "mounting" /\ asks' = 1
     ELSE asks' = asks + (IF editor = "open" THEN 1 ELSE 0) /\ UNCHANGED editor

\* Without an id the window is opened all the same; an open one is told to load
\* again, which a window that is not listening yet does not hear.
OpenEditor(c, id) ==
  /\ pending' = [image |-> c, id |-> id]
  /\ IF editor = "closed"
     THEN editor' = "mounting" /\ asks' = 1
     ELSE asks' = asks + (IF editor = "open" THEN 1 ELSE 0) /\ UNCHANGED editor

\* save_draft_internal
SaveDraft(c) ==
  /\ png' = [png EXCEPT ![c] = Raw(c)]
  /\ row' = [row EXCEPT ![c] = "draft"]
  /\ entry' = [entry EXCEPT ![c] = NOTEXT]
  /\ ocr' = [ocr EXCEPT !["draft"][c] = WAITING]

\* It fails at one of the two INSERTs: what it wrote so far stays.
FailDraft(c) ==
  /\ png' = [png EXCEPT ![c] = Raw(c)]
  /\ \E r \in {NONE, "draft"} : row' = [row EXCEPT ![c] = r]
  /\ stray' = stray \cup {c}
  /\ UNCHANGED <<entry, ocr>>

\* Full screen, window or region: without an id, open_editor_window tries once
\* more; a failed attempt before is a capture of its own that no one refers to.
Shoot(c) ==
  /\ app /\ New(c)
  /\ SaveDraft(c) /\ OpenEditor(c, c)
  /\ UNCHANGED <<app, libId, loading, shown, exports, stray, hasty, raced, unread, pruned,
                 leftOver, unremoved, drawn, quits>>

ShootUnsaved(c) ==
  /\ app /\ New(c)
  /\ FailDraft(c)
  /\ \/ OpenEditor(c, NONE)
     \/ UNCHANGED <<pending, asks, editor>>
  /\ UNCHANGED <<app, libId, loading, shown, exports, hasty, raced, unread, pruned, leftOver,
                 unremoved, drawn, quits>>

\* library_save_video, after an export of the trim editor; png is the video.
SaveVideo(c) ==
  /\ app /\ New(c)
  /\ png' = [png EXCEPT ![c] = Raw(c)]
  /\ row' = [row EXCEPT ![c] = "video"]
  /\ \E e \in {NOTEXT, NONE} :
       /\ entry' = [entry EXCEPT ![c] = e]
       /\ stray' = IF e = NONE THEN stray \cup {c} ELSE stray
  /\ UNCHANGED <<app, ocr, editorVars, hasty, raced, unread, pruned, leftOver, unremoved, drawn,
                 quits>>

-----------------------------------------------------------------------------
(* The editor *)

\* The effects of the window have run: it hears reload-capture from now on.
Listen ==
  /\ app /\ editor = "mounting"
  /\ editor' = "open"
  /\ UNCHANGED <<app, libraryVars, pending, asks, libId, loading, shown, exports, pastVars, drawn,
                 quits>>

\* get_captured_image takes both; the id counts at once, the image when decoded.
LoadCapture ==
  /\ app /\ asks > 0
  /\ asks' = asks - 1
  /\ pending' = NONE
  /\ IF pending = NONE
     THEN UNCHANGED <<libId, loading, hasty>>
     ELSE /\ libId' = pending.id
          /\ loading' = loading \cup {pending.image}
          /\ hasty' = IF exports \cup loading = {} THEN hasty
                      ELSE hasty \cup ({pending.id} \ {NONE})
  /\ UNCHANGED <<app, libraryVars, editor, shown, exports, taken, stray, raced, unread, pruned,
                 leftOver, unremoved, drawn, quits>>

ImageLoaded(c) ==
  /\ app /\ c \in loading
  /\ loading' = loading \ {c}
  /\ shown' = c
  /\ UNCHANGED <<app, libraryVars, pending, asks, editor, libId, exports, pastVars, drawn, quits>>

\* handleCopy, handleSave: the stage is drawn, then the export awaited.  Only of
\* a text that is on it can nothing be left.
Export ==
  /\ app /\ editor # "closed" /\ drawn < MaxExports
  /\ drawn' = drawn + 1
  /\ \E kind \in {"marked", "blank"} :
       /\ kind = "blank" => shown # NONE
       /\ exports' = exports \cup {[of |-> shown, kind |-> kind]}
  /\ hasty' = IF loading # {} THEN hasty \cup ({libId} \ {NONE}) ELSE hasty
  /\ UNCHANGED <<app, libraryVars, pending, asks, editor, libId, loading, shown, taken, stray,
                 raced,
                 unread, pruned, leftOver, unremoved, quits>>

\* Mutant of Finalize: the text of the annotated image is not recognised.
FinalizeUnread(c, i) ==
  IF row[c] = NONE
  THEN UNCHANGED <<libraryVars, raced, unread>>
  ELSE /\ png' = [png EXCEPT ![c] = i]
       /\ row' = [row EXCEPT ![c] = "final"]
       /\ UNCHANGED <<entry, ocr, raced, unread>>

\* library_finalize: a deleted capture is an error; so is a failing UPDATE, after
\* the file was written and before its text is recognised.
Finalize(c, i) ==
  IF row[c] = NONE
  THEN UNCHANGED <<libraryVars, raced, unread>>
  ELSE /\ png' = [png EXCEPT ![c] = i]
       /\ \/ /\ row' = [row EXCEPT ![c] = "final"]
             /\ ocr' = [ocr EXCEPT !["final"][c] = WAITING]
             /\ raced' = IF ocr["draft"][c] # NONE THEN raced \cup {c} ELSE raced
             /\ UNCHANGED unread
          \/ unread' = unread \cup {c} /\ UNCHANGED <<row, ocr, raced>>
       /\ UNCHANGED entry

\* Now libraryIdRef is read, and cleared so that nothing is finalized twice.
FinishExport(i) ==
  /\ app /\ i \in exports
  /\ exports' = exports \ {i}
  /\ libId' = NONE
  /\ IF libId = NONE THEN UNCHANGED <<libraryVars, raced, unread>> ELSE Finalize(libId, i)
  /\ UNCHANGED <<app, pending, asks, editor, loading, shown, taken, stray, hasty, pruned,
                 leftOver, unremoved, drawn, quits>>

\* The dialog was cancelled, or the clipboard or the disk failed.
FailExport(i) ==
  /\ app /\ i \in exports
  /\ exports' = exports \ {i}
  /\ UNCHANGED <<app, libraryVars, pending, asks, editor, libId, loading, shown, pastVars, drawn,
                 quits>>

EditorGone ==
  /\ editor' = "closed" /\ asks' = 0 /\ libId' = NONE
  /\ loading' = {} /\ shown' = NONE /\ exports' = {}

\* A capture that was not asked for stays pending.
CloseEditor ==
  /\ app /\ editor # "closed"
  /\ EditorGone
  /\ UNCHANGED <<app, libraryVars, pending, pastVars, drawn, quits>>

-----------------------------------------------------------------------------
(* The library *)

\* Mutant of Delete: the second DELETE is not in the transaction and fails.
DeleteHalf(c) ==
  /\ app /\ row[c] # NONE
  /\ row' = [row EXCEPT ![c] = NONE]
  /\ png' = [png EXCEPT ![c] = NONE]
  /\ UNCHANGED <<app, entry, ocr, editorVars, pastVars, drawn, quits>>

\* library_delete; failing to remove the file is ignored.
Delete(c) ==
  /\ app /\ row[c] # NONE
  /\ row' = [row EXCEPT ![c] = NONE]
  /\ entry' = [entry EXCEPT ![c] = NONE]
  /\ \/ png' = [png EXCEPT ![c] = NONE] /\ UNCHANGED unremoved
     \/ unremoved' = unremoved \cup {c} /\ UNCHANGED png
  /\ UNCHANGED <<app, ocr, editorVars, taken, stray, hasty, raced, unread, pruned, leftOver,
                 drawn, quits>>

\* run_ocr reads the file as it is now; one without text changes nothing.
ReadText(c, job) ==
  /\ app /\ ocr[job][c] = WAITING
  /\ ocr' = [ocr EXCEPT ![job][c] = IF png[c] # NONE /\ HasText(png[c]) THEN png[c] ELSE NONE]
  /\ UNCHANGED <<app, row, entry, png, editorVars, pastVars, drawn, quits>>

FailText(c, job) ==
  /\ app /\ ocr[job][c] = WAITING
  /\ ocr' = [ocr EXCEPT ![job][c] = NONE]
  /\ unread' = unread \cup {c}
  /\ UNCHANGED <<app, row, entry, png, editorVars, taken, stray, hasty, raced, pruned, leftOver,
                 unremoved, drawn, quits>>

\* update_ocr; without an entry it changes none.
IndexText(c, job) ==
  /\ app /\ ocr[job][c] \in Image
  /\ entry' = IF entry[c] = NONE THEN entry ELSE [entry EXCEPT ![c] = ocr[job][c]]
  /\ ocr' = [ocr EXCEPT ![job][c] = NONE]
  /\ UNCHANGED <<app, row, png, editorVars, pastVars, drawn, quits>>

-----------------------------------------------------------------------------
(* Time, and the end of the app *)

Quit ==
  /\ app /\ quits < MaxQuits
  /\ app' = FALSE /\ quits' = quits + 1
  /\ unread' = unread \cup {c \in Capture : \E job \in Job : ocr[job][c] # NONE}
  /\ ocr' = [job \in Job |-> [c \in Capture |-> NONE]]
  /\ pending' = NONE
  /\ EditorGone
  /\ UNCHANGED <<row, entry, png, taken, stray, hasty, raced, pruned, leftOver, unremoved, drawn>>

\* prune removes the rows that are old by now, then the entries without one,
\* unless that fails; the files stay.
Prune(gone) ==
  LET kept == [c \in Capture |-> IF c \in gone THEN NONE ELSE row[c]]
  IN /\ ~app /\ app' = TRUE
     /\ row' = kept
     /\ pruned' = pruned \cup gone
     /\ \/ /\ entry' = [c \in Capture |-> IF kept[c] = NONE THEN NONE ELSE entry[c]]
           /\ leftOver' = {}
        \/ /\ leftOver' = leftOver \cup {c \in gone : entry[c] # NONE}
           /\ UNCHANGED entry
     /\ UNCHANGED <<png, ocr, editorVars, taken, stray, hasty, raced, unread, unremoved, drawn,
                    quits>>

Relaunch == \E gone \in SUBSET {c \in Capture : row[c] # NONE} : Prune(gone)

CaptureNext ==
  \/ \E c \in Capture :
       \/ Shoot(c) \/ ShootUnsaved(c) \/ SaveVideo(c) \/ ImageLoaded(c) \/ Delete(c)
       \/ \E job \in Job : ReadText(c, job) \/ FailText(c, job) \/ IndexText(c, job)
  \/ \E i \in exports : FinishExport(i) \/ FailExport(i)
  \/ Listen \/ LoadCapture \/ Export \/ CloseEditor \/ Quit \/ Relaunch

CaptureSpec == CaptureInit /\ [][CaptureNext]_captureVars

-----------------------------------------------------------------------------
(* Safety *)

\* Every row has its file, and its search entry unless its draft was reported
\* as not saved; an entry without a row is what a failed pruning left behind, a
\* file without one what a failed draft, the pruning or a deletion that could not
\* remove it did.
LibraryConsistent ==
  \A c \in Capture :
    /\ row[c] # NONE => png[c] # NONE /\ (entry[c] # NONE \/ c \in stray)
    /\ row[c] = NONE => /\ entry[c] # NONE => c \in leftOver
                        /\ png[c] # NONE => c \in stray \cup pruned \cup unremoved

\* Once its threads have ended, a capture is found by the text its file shows,
\* whenever they read the file and whatever was finalized in between: unless the
\* two overlapped, one was cut off, or no text was left to replace the draft's.
IndexCurrent ==
  \A c \in Capture \ (raced \cup unread \cup stray) :
    /\ row[c] \in {"draft", "final"} /\ HasText(png[c])
    /\ \A job \in Job : ocr[job][c] = NONE
    => entry[c] = png[c]

\* What ocr.rs:18 says of an image without text: "leave ocr_text empty".  A draft's
\* text is still there when nothing is left of it in the image that was saved.
TextlessIsEmpty ==
  \A c \in Capture \ (raced \cup unread) :
    /\ row[c] = "final" /\ png[c].kind = "blank"
    /\ \A job \in Job : ocr[job][c] = NONE
    => entry[c] \in {NOTEXT, NONE}

\* A file never shows another capture than its own, though the id in the editor
\* is set before the image is shown and read after the export is awaited: unless
\* the capture came while another was exported or loaded, or was exported before
\* it was shown itself.
FileIsOwn == \A c \in Capture \ hasty : png[c] # NONE => png[c].of = c
=============================================================================
