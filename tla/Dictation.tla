------------------------------ MODULE Dictation ------------------------------
(***************************************************************************)
(* Voice dictation (lib.rs, audio.rs, transcription.rs).  Four threads:    *)
(*   - the audio callback appends samples to the recorder's buffer;        *)
(*   - the main thread runs both toggles, the in-app command and the       *)
(*     global hotkey handler, one at a time;                               *)
(*   - the poll thread moves samples from the recorder to the detector;    *)
(*   - the worker takes chunks out of a bounded channel, transcribes them  *)
(*     and hides the overlay window.                                       *)
(* The dictation mutex is explicit, because the poll thread holds it over  *)
(* two steps; the other critical sections are one step each.               *)
(***************************************************************************)
EXTENDS SilenceDetector, FiniteSets, SequencesExt

CONSTANTS
  ChannelBound,   \* capacity of the chunk channel
  MaxSamples,     \* bound on the samples captured
  MaxRecordings   \* bound on the recordings started

ASSUME DictationAssumption ==
  ChannelBound \in Nat \ {0} /\ MaxSamples \in Nat /\ MaxRecordings \in Nat

VARIABLES
  micOn,         \* the input stream is alive
  mic,           \* the recorder's buffer
  detector,      \* d.detector
  is_recording,
  in_app_mode,
  held,          \* the poll thread holds the dictation mutex ...
  polled,        \* ... with these samples drained
  main,          \* where the main thread is in a toggle
  lastChunk,     \* the chunk a stop has yet to send
  queue,         \* the channel: [chunk, emit]
  alive,         \* the model was loaded and the worker runs
  worker,        \* where the worker is
  current,       \* the chunk it has taken
  engineBusy,    \* meeting transcription holds the Whisper engine
  overlay,       \* the overlay window is visible
  \* history
  heard,         \* heard[n]: the recording in which the n-th sample was captured
  sources,       \* what started each recording
  delivered,     \* the chunks transcribed, with the way they went
  settled        \* the last sample that went into a chunk or was given up

audioVars  == <<micOn, mic, heard>>
dictVars   == <<detector, is_recording, in_app_mode, settled>>
pollVars   == <<held, polled>>
mainVars   == <<main, lastChunk, sources>>
workerVars == <<alive, worker, current, engineBusy, delivered>>
vars == <<micOn, mic, heard, detector, is_recording, in_app_mode, held, polled,
          main, lastChunk, sources, queue, alive, worker, current, engineBusy,
          delivered, overlay, settled>>

-----------------------------------------------------------------------------
Source == {"button", "hotkey"}
Sample == [at : 1..MaxSamples, loud : BOOLEAN]

\* Behind the detector only the position of a sample in all that was heard
\* matters, no longer its loudness.
Positions(samples) == [i \in DOMAIN samples |-> samples[i].at]
Message(chunk, emit) == [chunk |-> chunk, emit |-> emit]

(* The threads, the channel and the detector's counters range over what lib.rs
   and transcription.rs declare; no channel exceeds its capacity. *)
TypeOK ==
  /\ {micOn, is_recording, in_app_mode, held, alive, engineBusy, overlay} \subseteq BOOLEAN
  /\ {mic, polled, detector.buffer} \subseteq Seq(Sample)
  /\ {lastChunk, current.chunk} \subseteq Seq(1..MaxSamples)
  /\ {detector.silent, detector.cursor, detector.speech} \subseteq Nat
  /\ main \in {"idle", "starting", "stopping", "sending"}
  /\ worker \in {"waiting", "transcribing", "hiding"}
  /\ Len(queue) <= ChannelBound
  /\ sources \in Seq(Source) /\ heard \in Seq(DOMAIN sources)

Init ==
  /\ micOn = FALSE
  /\ mic = <<>>
  /\ detector = NewDetector
  /\ is_recording = FALSE
  /\ in_app_mode = FALSE
  /\ held = FALSE
  /\ polled = <<>>
  /\ main = "idle"
  /\ lastChunk = <<>>
  /\ queue = <<>>
  /\ alive \in BOOLEAN
  /\ worker = "waiting"
  /\ current = Message(<<>>, FALSE)
  /\ engineBusy = FALSE
  /\ overlay = FALSE
  /\ heard = <<>>
  /\ sources = <<>>
  /\ delivered = <<>>
  /\ settled = 0

-----------------------------------------------------------------------------
(* The audio callback *)

\* push_mono: a sample is appended to the recorder's buffer.
Capture(loud) ==
  /\ micOn
  /\ Len(heard) < MaxSamples
  /\ mic' = Append(mic, [at |-> Len(heard) + 1, loud |-> loud])
  /\ heard' = Append(heard, Len(sources))
  /\ UNCHANGED <<micOn, dictVars, pollVars, mainVars, queue, workerVars, overlay>>

-----------------------------------------------------------------------------
(* The two toggles, on the main thread *)

\* The stream is started outside the dictation mutex.
StartRecorder(source) ==
  /\ main = "idle" /\ ~held /\ ~is_recording
  /\ Len(sources) < MaxRecordings
  /\ micOn' = TRUE
  /\ sources' = Append(sources, source)
  /\ main' = "starting"
  /\ UNCHANGED <<mic, heard, dictVars, pollVars, lastChunk, queue, workerVars, overlay>>

StartDictation ==
  /\ main = "starting" /\ ~held
  /\ detector' = NewDetector
  /\ is_recording' = TRUE
  /\ in_app_mode' = (Last(sources) = "button")
  /\ overlay' = TRUE
  /\ main' = "idle"
  /\ UNCHANGED <<audioVars, settled, pollVars, lastChunk, sources, queue, workerVars>>

\* Only the source that started a recording stops it; the other's toggle
\* returns at once.  The samples left in the recorder go through the detector,
\* and what it keeps is flushed unless they have ended an utterance.
StopDictation(source) ==
  /\ main = "idle" /\ ~held /\ is_recording
  /\ in_app_mode = (source = "button")
  /\ LET pushed == Push(detector, mic) IN
       IF pushed.chunk # <<>>
         THEN lastChunk' = Positions(pushed.chunk) /\ detector' = pushed.detector
         ELSE LET flushed == Flush(pushed.detector)
              IN lastChunk' = Positions(flushed.chunk) /\ detector' = flushed.detector
  /\ mic' = <<>>
  /\ settled' = Len(heard)
  /\ is_recording' = FALSE
  /\ main' = "stopping"
  /\ UNCHANGED <<micOn, heard, in_app_mode, pollVars, sources, queue, workerVars, overlay>>

\* Mutant: the recorder keeps what arrived after the last drain.
StopRecorderKeepingBuffer ==
  /\ main = "stopping"
  /\ micOn' = FALSE
  /\ overlay' = (lastChunk # <<>>)
  /\ main' = IF lastChunk # <<>> THEN "sending" ELSE "idle"
  /\ UNCHANGED <<mic, heard, dictVars, pollVars, lastChunk, sources, queue, workerVars>>

\* recorder.stop() discards what arrived after the last drain; the overlay
\* goes to "Transcribing" or, with nothing to transcribe, away.
StopRecorder ==
  /\ main = "stopping"
  /\ micOn' = FALSE
  /\ mic' = <<>>
  /\ settled' = Len(heard)
  /\ overlay' = (lastChunk # <<>>)
  /\ main' = IF lastChunk # <<>> THEN "sending" ELSE "idle"
  /\ UNCHANGED <<heard, detector, is_recording, in_app_mode, pollVars, lastChunk, sources, queue, workerVars>>

\* Mutant: the receiver outlives a worker whose model did not load.
SendToKeptReceiver ==
  /\ main = "sending"
  /\ Len(queue) < ChannelBound
  /\ queue' = Append(queue, Message(lastChunk, in_app_mode))
  /\ lastChunk' = <<>>
  /\ main' = "idle"
  /\ UNCHANGED <<audioVars, dictVars, pollVars, sources, workerVars, overlay>>

\* Mutant: the stop does not wait for room in the channel.
SendWithoutRoom ==
  /\ main = "sending"
  /\ IF alive
       THEN queue' = Append(queue, Message(lastChunk, in_app_mode)) /\ UNCHANGED overlay
       ELSE overlay' = FALSE /\ UNCHANGED queue
  /\ lastChunk' = <<>>
  /\ main' = "idle"
  /\ UNCHANGED <<audioVars, dictVars, pollVars, sources, workerVars>>

\* The blocking send waits for room in the channel; it fails when the worker
\* is gone, and then the overlay is hidden.
SendLast ==
  /\ main = "sending"
  /\ IF alive
       THEN /\ Len(queue) < ChannelBound
            /\ queue' = Append(queue, Message(lastChunk, in_app_mode))
            /\ UNCHANGED overlay
       ELSE overlay' = FALSE /\ UNCHANGED queue
  /\ lastChunk' = <<>>
  /\ main' = "idle"
  /\ UNCHANGED <<audioVars, dictVars, pollVars, sources, workerVars>>

-----------------------------------------------------------------------------
(* The poll thread *)

\* Mutant: the mutex is not held between drain and push.
PollDrainUnlocked ==
  /\ polled = <<>> /\ is_recording /\ mic # <<>>
  /\ polled' = mic
  /\ mic' = <<>>
  /\ UNCHANGED <<micOn, heard, dictVars, held, mainVars, queue, workerVars, overlay>>

\* A tick that finds a recording and samples: the mutex is kept until the
\* samples are pushed.
PollDrain ==
  /\ ~held /\ is_recording /\ mic # <<>>
  /\ held' = TRUE
  /\ polled' = mic
  /\ mic' = <<>>
  /\ UNCHANGED <<micOn, heard, dictVars, mainVars, queue, workerVars, overlay>>

\* A chunk that finds the channel full, or the worker gone, is dropped.
PollPush ==
  /\ polled # <<>>
  /\ LET pushed == Push(detector, polled) IN
       /\ detector' = pushed.detector
       /\ settled' = IF pushed.chunk # <<>> THEN Last(pushed.chunk).at ELSE settled
       /\ queue' = IF pushed.chunk # <<>> /\ alive /\ Len(queue) < ChannelBound
                     THEN Append(queue, Message(Positions(pushed.chunk), in_app_mode))
                     ELSE queue
  /\ held' = FALSE
  /\ polled' = <<>>
  /\ UNCHANGED <<audioVars, is_recording, in_app_mode, mainVars, workerVars, overlay>>

-----------------------------------------------------------------------------
(* The transcription worker and the engine it shares with meetings *)

TakeChunk ==
  /\ alive /\ worker = "waiting" /\ queue # <<>>
  /\ current' = Head(queue)
  /\ queue' = Tail(queue)
  /\ worker' = "transcribing"
  /\ UNCHANGED <<audioVars, dictVars, pollVars, mainVars, alive, engineBusy,
                 delivered, overlay>>

\* Text is emitted or typed; a chunk without text, or with an error, leaves no
\* trace.
Transcribe ==
  /\ worker = "transcribing" /\ ~engineBusy
  /\ \/ delivered' = Append(delivered, current)
     \/ UNCHANGED delivered
  /\ worker' = "hiding"
  /\ UNCHANGED <<audioVars, dictVars, pollVars, mainVars, queue, alive, current,
                 engineBusy, overlay>>

\* Mutant: the overlay is hidden only after text came out.
HideOverlayAfterText ==
  /\ worker = "hiding"
  /\ overlay' = (overlay /\ (delivered = <<>> \/ Last(delivered) # current))
  /\ worker' = "waiting"
  /\ current' = Message(<<>>, FALSE)
  /\ UNCHANGED <<audioVars, dictVars, pollVars, mainVars, queue, alive, engineBusy,
                 delivered>>

HideOverlay ==
  /\ worker = "hiding"
  /\ overlay' = FALSE
  /\ worker' = "waiting"
  /\ current' = Message(<<>>, FALSE)
  /\ UNCHANGED <<audioVars, dictVars, pollVars, mainVars, queue, alive, engineBusy,
                 delivered>>

\* Meeting transcription takes the engine for one piece of audio at a time.
MeetingTakesEngine ==
  /\ alive /\ ~engineBusy
  /\ engineBusy' = TRUE
  /\ UNCHANGED <<audioVars, dictVars, pollVars, mainVars, queue, alive, worker,
                 current, delivered, overlay>>

MeetingReleasesEngine ==
  /\ engineBusy
  /\ engineBusy' = FALSE
  /\ UNCHANGED <<audioVars, dictVars, pollVars, mainVars, queue, alive, worker,
                 current, delivered, overlay>>

-----------------------------------------------------------------------------
Main == \/ \E source \in Source : StartRecorder(source) \/ StopDictation(source)
        \/ StartDictation \/ StopRecorder \/ SendLast

\* Nobody dictates and nothing is left to transcribe.
Rest ==
  /\ main = "idle" /\ ~is_recording
  /\ worker = "waiting" /\ queue = <<>>
  /\ UNCHANGED vars

Next ==
  \/ \E loud \in BOOLEAN : Capture(loud)
  \/ Main
  \/ PollDrain \/ PollPush
  \/ TakeChunk \/ Transcribe \/ HideOverlay
  \/ MeetingTakesEngine \/ MeetingReleasesEngine
  \/ Rest

Spec == Init /\ [][Next]_vars

(***************************************************************************)
(* Fairness.  Every thread keeps running.  A meeting's audio is finite and *)
(* it gives the engine back after each piece, so a worker that waits for   *)
(* the engine gets it: strong fairness for Transcribe.  Nothing makes a    *)
(* user stop a recording, and nothing makes the microphone deliver.        *)
(***************************************************************************)
Fairness ==
  /\ WF_vars(StartDictation) /\ WF_vars(StopRecorder) /\ WF_vars(SendLast)
  /\ WF_vars(PollDrain) /\ WF_vars(PollPush)
  /\ WF_vars(TakeChunk) /\ SF_vars(Transcribe) /\ WF_vars(HideOverlay)
  /\ WF_vars(MeetingReleasesEngine)

FairSpec == Spec /\ Fairness

-----------------------------------------------------------------------------
(* Safety *)

\* Every sample captured since the last chunk was cut, or the last stop, is
\* still there, whole and in order, spread over the detector, the poll thread's
\* hands and the recorder: nothing drops out between a drain and a push, or
\* behind a chunk, whoever stops or starts meanwhile (lib.rs, polling thread).
NothingDropsOut ==
  Positions(detector.buffer \o polled \o mic)
    = [i \in 1..(Len(heard) - settled) |-> settled + i]

\* "Hold dictation lock for the entire drain->push cycle so the release handler
\* cannot flush the detector between our drain and push": once a stop has taken
\* its chunk, neither the detector nor the poll thread has samples left.
StopTakesEverything == ~is_recording => detector.buffer = <<>> /\ polled = <<>>

\* The detector's counters agree with its buffer, however the audio was cut
\* into pushes: the analysed prefix has that much speech, ends in that long a
\* silence and holds no boundary nobody acted on; the buffer is below its limit.
CountersMatchBuffer ==
  LET d == detector
      frames == d.cursor \div FrameSize
      speaks(n) == IsSpeech(SubSeq(d.buffer, (n - 1) * FrameSize + 1, n * FrameSize))
  IN /\ d.cursor = frames * FrameSize
     /\ d.cursor <= Len(d.buffer) /\ Len(d.buffer) < d.cursor + FrameSize
     /\ d.speech = FrameSize * Cardinality({n \in 1..frames : speaks(n)})
     /\ d.silent <= frames
     /\ \A n \in 1..frames : n > frames - d.silent => ~speaks(n)
     /\ d.silent < frames => speaks(frames - d.silent)
     /\ ~AtBoundary(d)
     /\ Len(d.buffer) < MaxChunk

-----------------------------------------------------------------------------
(* The promise to the user *)

Promise == INSTANCE Utterances WITH
  spoken <- [i \in DOMAIN delivered |->
               [samples |-> delivered[i].chunk, inApp |-> delivered[i].emit]]

\* Dictation implements the promise: what is transcribed are gapless stretches
\* of one recording each, in the order spoken, none twice, each delivered to
\* the side that started its recording.
KeepsPromise == Promise!Spec

-----------------------------------------------------------------------------
(* Liveness *)

\* A stop never blocks the main thread for good, whatever the worker and the
\* meeting transcription are doing ("this rarely blocks", lib.rs).
StopReturns == main = "stopping" ~> main = "idle"

\* After a stop the overlay goes away, unless a new recording shows it again,
\* with a working model or without.
OverlayGoes == main = "stopping" ~> ~overlay \/ main = "starting"
=============================================================================
