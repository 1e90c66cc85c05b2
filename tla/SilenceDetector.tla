--------------------------- MODULE SilenceDetector ---------------------------
(***************************************************************************)
(* The voice activity detector of transcription.rs: it buffers microphone  *)
(* samples and cuts the buffer into utterance chunks.                      *)
(*                                                                         *)
(* A sample is a record with a field loud.  The root mean square of a      *)
(* frame against the threshold is abstracted to: a frame is speech when    *)
(* one of its samples is loud.                                             *)
(***************************************************************************)
EXTENDS Naturals, Sequences

CONSTANTS
  FrameSize,     \* samples analysed at a time (20 ms)
  SilenceFrames, \* consecutive silent frames that end an utterance
  MinSpeech,     \* speech samples an utterance needs
  MaxChunk       \* length at which the buffer is cut in any case

\* The values of every caller: 300 ms of silence, 300 or 500 ms of speech and
\* 10 s of audio are all longer than nothing.
ASSUME DetectorAssumption ==
  {FrameSize, SilenceFrames, MinSpeech, MaxChunk} \subseteq Nat \ {0}

NewDetector == [buffer |-> <<>>, silent |-> 0, cursor |-> 0, speech |-> 0]

\* rms(frame) >= threshold
IsSpeech(frame) == \E i \in DOMAIN frame : frame[i].loud

NextFrame(d) == SubSeq(d.buffer, d.cursor + 1, d.cursor + FrameSize)

\* One round of the loop in push.
AnalyseFrame(d) ==
  LET speaks == IsSpeech(NextFrame(d)) IN
  [d EXCEPT !.silent = IF speaks THEN 0 ELSE @ + 1,
            !.speech = IF speaks THEN @ + FrameSize ELSE @,
            !.cursor = @ + FrameSize]

\* An utterance has ended at the cursor.
AtBoundary(d) == d.silent >= SilenceFrames /\ d.speech >= MinSpeech

\* Mutant: the chunk stops at the cursor and the rest of the buffer is dropped.
TakeAnalysed(d) == [detector |-> NewDetector, chunk |-> SubSeq(d.buffer, 1, d.cursor)]

\* Mutant: the silence that ended this utterance is held against the next.
TakeBufferKeepSilence(d) ==
  [detector |-> [NewDetector EXCEPT !.silent = d.silent], chunk |-> d.buffer]

\* The whole buffer becomes the chunk and every counter starts again.
TakeBuffer(d) == [detector |-> NewDetector, chunk |-> d.buffer]

Keep(d) == [detector |-> d, chunk |-> <<>>]

\* push: the samples are appended; a buffer that has reached its maximum is
\* taken at once, otherwise its complete frames are analysed one by one up to
\* the first boundary.  The chunk is empty where the code returns None.
Push(d, samples) ==
  LET extended == [d EXCEPT !.buffer = @ \o samples]
      frames == (Len(extended.buffer) - d.cursor) \div FrameSize
      after[n \in 0..frames] == IF n = 0 THEN extended ELSE AnalyseFrame(after[n - 1])
  IN IF Len(extended.buffer) >= MaxChunk THEN TakeBuffer(extended)
     ELSE IF \E n \in 1..frames : AtBoundary(after[n])
       THEN TakeBuffer(after[CHOOSE n \in 1..frames :
              AtBoundary(after[n]) /\ \A m \in 1..(n - 1) : ~AtBoundary(after[m])])
     ELSE Keep(after[frames])

\* flush: what is buffered is kept only if it holds enough speech.
Flush(d) ==
  IF d.speech >= MinSpeech THEN TakeBuffer(d) ELSE Keep(NewDetector)
=============================================================================
