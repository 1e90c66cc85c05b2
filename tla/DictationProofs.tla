---------------------------- MODULE DictationProofs ----------------------------
(***************************************************************************)
(* Dictation for any number of samples and recordings, any channel, frame  *)
(* and chunk length: nothing that was heard drops out, a stop takes it     *)
(* all, the detector's counters are those of its buffer, and the promise   *)
(* of Utterances is kept.                                                  *)
(***************************************************************************)
EXTENDS Dictation, WellFoundedInduction, FiniteSetTheorems, SequenceTheorems, TLAPS

Detector == [buffer : Seq(Sample), silent : Nat, cursor : Nat, speech : Nat]

\* The n-th frame of the buffer is speech.
Speaks(buffer, n) == IsSpeech(SubSeq(buffer, (n - 1) * FrameSize + 1, n * FrameSize))

\* The first k frames of the buffer are analysed.
Analysed(d, k) ==
  /\ d.cursor = k * FrameSize
  /\ d.speech = FrameSize * Cardinality({n \in 1..k : Speaks(d.buffer, n)})
  /\ d.silent <= k
  /\ \A n \in 1..k : n > k - d.silent => ~Speaks(d.buffer, n)
  /\ d.silent < k => Speaks(d.buffer, k - d.silent)

-----------------------------------------------------------------------------
(* Induction over the natural numbers *)

Below == {ss \in Nat \X Nat : ss[1] < ss[2]}

\* The least element of a set of natural numbers.
LEMMA Least ==
  ASSUME NEW S \in SUBSET Nat, S # {}
  PROVE  \E n \in S : \A m \in S : n <= m
  <1>1. IsWellFoundedOn(Below, Nat)
    BY NatLessThanWellFounded DEF OpToRel, Below
  <1>2. PICK n \in S : \A m \in S : ~ (<<m, n>> \in Below)
    BY <1>1, WFMin
  <1>3. ASSUME NEW m \in S PROVE n <= m
    <2>1. <<m, n>> \in Nat \X Nat /\ ~ (m < n)
      BY <1>2 DEF Below
    <2> QED
      BY <2>1
  <1> QED
    BY <1>3

\* A set with 0 and the successor of each of its elements has them all.
LEMMA Induction ==
  ASSUME NEW S \in SUBSET Nat, 0 \in S, \A n \in S : n + 1 \in S
  PROVE  S = Nat
  <1> SUFFICES ASSUME Nat \ S # {} PROVE FALSE
    OBVIOUS
  <1>1. PICK n \in Nat \ S : \A m \in Nat \ S : n <= m
    BY Least
  <1>2. n - 1 \in Nat /\ n - 1 \in S
    BY <1>1
  <1> QED
    BY <1>1, <1>2

-----------------------------------------------------------------------------
(* Frames *)

\* The frames of b samples in a samples, and the rest that is less than one.
LEMMA WholeFrames ==
  ASSUME NEW a \in Nat, NEW b \in Nat \ {0}
  PROVE  a \div b \in Nat /\ (a \div b) * b <= a /\ a < (a \div b) * b + b
  OBVIOUS

LEMMA ExactFrames ==
  ASSUME NEW k \in Nat, NEW b \in Nat \ {0}
  PROVE  (k * b) \div b = k
  OBVIOUS

LEMMA MoreFrames ==
  ASSUME NEW k \in Nat, NEW m \in Nat, NEW b \in Nat \ {0}
  PROVE  /\ (k + m) * b = k * b + m * b
         /\ k * b \in Nat
         /\ k < m => k * b + b <= m * b
         /\ k <= m => k * b <= m * b
  OBVIOUS

\* A frame that is complete stays what it is when samples are appended.
LEMMA FrameStays ==
  ASSUME NEW b \in Seq(Sample), NEW s \in Seq(Sample), NEW k \in Nat, k * FrameSize <= Len(b),
         NEW n \in 1..k
  PROVE  Speaks(b \o s, n) = Speaks(b, n)
  <1> DEFINE lo == (n - 1) * FrameSize + 1
             hi == n * FrameSize
  <1>1. FrameSize \in Nat \ {0}
    BY DetectorAssumption
  <1>2. lo \in Nat \ {0} /\ hi \in Nat
    BY <1>1, MoreFrames
  <1>3. hi <= Len(b)
    BY <1>1, MoreFrames
  <1> HIDE DEF lo, hi
  <1>4. SubSeq(b \o s, lo, hi) = SubSeq(b, lo, hi)
    BY <1>2, <1>3
  <1> QED
    BY <1>4 DEF Speaks, lo, hi

\* One round of the loop analyses the next frame.
LEMMA OneFrame ==
  ASSUME NEW d \in Detector, NEW k \in Nat, Analysed(d, k)
  PROVE  /\ AnalyseFrame(d) \in Detector
         /\ AnalyseFrame(d).buffer = d.buffer
         /\ Analysed(AnalyseFrame(d), k + 1)
  <1> DEFINE e == AnalyseFrame(d)
             speaks == Speaks(d.buffer, k + 1)
             S(m) == {n \in 1..m : Speaks(d.buffer, n)}
  <1>1. FrameSize \in Nat \ {0}
    BY DetectorAssumption
  <1>2. (k + 1) * FrameSize = k * FrameSize + FrameSize /\ k + 1 - 1 = k
    BY <1>1, MoreFrames
  <1>3. IsSpeech(NextFrame(d)) = speaks
    BY <1>2 DEF NextFrame, Speaks, Analysed
  <1> HIDE DEF speaks
  <1>4. /\ e \in Detector
        /\ e.buffer = d.buffer
        /\ e.silent = IF speaks THEN 0 ELSE d.silent + 1
        /\ e.speech = IF speaks THEN d.speech + FrameSize ELSE d.speech
        /\ e.cursor = d.cursor + FrameSize
    <2> DEFINE silent == IF speaks THEN 0 ELSE d.silent + 1
               speech == IF speaks THEN d.speech + FrameSize ELSE d.speech
               cursor == d.cursor + FrameSize
    <2>1. silent \in Nat /\ speech \in Nat /\ cursor \in Nat
      BY <1>1 DEF Detector
    <2>2. e = [d EXCEPT !.silent = silent, !.speech = speech, !.cursor = cursor]
      BY <1>3, Zenon DEF AnalyseFrame
    <2> HIDE DEF silent, speech, cursor, e
    <2>3. /\ e \in Detector /\ e.buffer = d.buffer
          /\ e.silent = silent /\ e.speech = speech /\ e.cursor = cursor
      BY <2>1, <2>2 DEF Detector
    <2> QED
      BY <2>3 DEF silent, speech, cursor
  <1> HIDE DEF e
  <1>5. e.speech = FrameSize * Cardinality(S(k + 1))
    <2>1. IsFiniteSet(S(k)) /\ Cardinality(S(k)) \in Nat
      <3>1. S(k) \subseteq 1..k /\ IsFiniteSet(1..k)
        BY FS_Interval
      <3> HIDE DEF S
      <3> QED
        BY <3>1, FS_Subset, FS_CardinalityType
    <2>2. CASE speaks
      <3>1. S(k + 1) = S(k) \cup {k + 1} /\ k + 1 \notin S(k)
        BY <2>2 DEF speaks
      <3>2. Cardinality(S(k + 1)) = Cardinality(S(k)) + 1
        BY <3>1, <2>1, FS_AddElement
      <3>3. FrameSize * (Cardinality(S(k)) + 1) = FrameSize * Cardinality(S(k)) + FrameSize
        BY <2>1, <1>1
      <3> HIDE DEF S
      <3> QED
        BY <3>2, <3>3, <2>2, <1>4 DEF Analysed, S
    <2>3. CASE ~speaks
      <3>1. S(k + 1) = S(k)
        BY <2>3 DEF speaks
      <3> QED
        BY <3>1, <2>3, <1>4 DEF Analysed
    <2> QED
      BY <2>2, <2>3
  <1>6. ASSUME NEW n \in 1..(k + 1), n > (k + 1) - e.silent PROVE ~Speaks(d.buffer, n)
    BY <1>4, <1>6 DEF Analysed, speaks, Detector
  <1>7. e.silent < k + 1 => Speaks(d.buffer, (k + 1) - e.silent)
    BY <1>4 DEF Analysed, speaks, Detector
  <1>8. e.silent <= k + 1
    BY <1>4 DEF Analysed, Detector
  <1>9. Analysed(e, k + 1)
    <2>1. e.cursor = (k + 1) * FrameSize
      BY <1>2, <1>4 DEF Analysed
    <2>2. e.speech = FrameSize * Cardinality({n \in 1..(k + 1) : Speaks(e.buffer, n)})
      BY <1>4, <1>5
    <2>3. \A n \in 1..(k + 1) : n > (k + 1) - e.silent => ~Speaks(e.buffer, n)
      BY <1>4, <1>6
    <2>4. e.silent < k + 1 => Speaks(e.buffer, (k + 1) - e.silent)
      BY <1>4, <1>7
    <2> HIDE DEF S
    <2> QED
      BY <2>1, <2>2, <2>3, <2>4, <1>8, Zenon DEF Analysed
  <1> QED
    BY <1>4, <1>9 DEF e

-----------------------------------------------------------------------------
(* push and flush *)

\* The loop of push, after n frames.
Loop(d, frames, g) == g = [n \in 0..frames |-> IF n = 0 THEN d ELSE AnalyseFrame(g[n - 1])]

\* The loop's recursion defines a function.
LEMMA LoopRuns ==
  ASSUME NEW d, NEW frames \in Nat
  PROVE  \E g : Loop(d, frames, g)
  <1> DEFINE S == {m \in Nat : \E g : Loop(d, m, g)}
  <1>1. 0 \in S
    <2>1. Loop(d, 0, [n \in 0..0 |-> d])
      BY DEF Loop
    <2> QED
      BY <2>1
  <1>2. ASSUME NEW m \in S PROVE m + 1 \in S
    <2>1. PICK g : Loop(d, m, g)
      OBVIOUS
    <2> DEFINE h == [n \in 0..(m + 1) |-> IF n <= m THEN g[n] ELSE AnalyseFrame(g[m])]
    <2>2. \A n \in 0..(m + 1) : h[n] = IF n = 0 THEN d ELSE AnalyseFrame(h[n - 1])
      <3> SUFFICES ASSUME NEW n \in 0..(m + 1)
                   PROVE  h[n] = IF n = 0 THEN d ELSE AnalyseFrame(h[n - 1])
        OBVIOUS
      <3>1. g[0] = d
        BY <2>1 DEF Loop
      <3>2. CASE n = 0
        BY <3>1, <3>2
      <3>3. CASE n # 0 /\ n <= m
        <4>1. g[n] = AnalyseFrame(g[n - 1])
          BY <3>3, <2>1 DEF Loop
        <4>2. h[n] = g[n] /\ h[n - 1] = g[n - 1]
          BY <3>3
        <4> QED
          BY <4>1, <4>2, <3>3
      <3>4. CASE n = m + 1
        <4>1. h[n] = AnalyseFrame(g[m]) /\ h[n - 1] = g[m] /\ n # 0
          BY <3>4
        <4> QED
          BY <4>1
      <3> QED
        BY <3>2, <3>3, <3>4
    <2>3. h = [n \in 0..(m + 1) |-> h[n]]
      OBVIOUS
    <2> HIDE DEF h
    <2>4. Loop(d, m + 1, h)
      BY <2>2, <2>3 DEF Loop
    <2> QED
      BY <2>4
  <1> HIDE DEF S
  <1>3. S = Nat
    BY <1>1, <1>2, Induction DEF S
  <1> QED
    BY <1>3 DEF S

\* n rounds analyse n frames more and leave the buffer alone.
LEMMA LoopAnalyses ==
  ASSUME NEW d \in Detector, NEW k \in Nat, Analysed(d, k), NEW frames \in Nat,
         NEW g, Loop(d, frames, g), NEW n \in 0..frames
  PROVE  g[n] \in Detector /\ g[n].buffer = d.buffer /\ Analysed(g[n], k + n)
  <1> DEFINE Good(m) == g[m] \in Detector /\ g[m].buffer = d.buffer /\ Analysed(g[m], k + m)
             S == {m \in Nat : m <= frames => Good(m)}
  <1>1. 0 \in S
    <2>1. g[0] = d /\ k + 0 = k
      BY DEF Loop
    <2> QED
      BY <2>1
  <1>2. ASSUME NEW m \in S PROVE m + 1 \in S
    <2> SUFFICES ASSUME m + 1 <= frames PROVE Good(m + 1)
      OBVIOUS
    <2>1. Good(m) /\ m \in Nat
      OBVIOUS
    <2>2. g[m + 1] = AnalyseFrame(g[m])
      <3>1. m + 1 \in 0..frames /\ m + 1 # 0 /\ (m + 1) - 1 = m
        BY <2>1
      <3> QED
        BY <3>1 DEF Loop
    <2>3. (k + m) + 1 = k + (m + 1) /\ k + m \in Nat
      BY <2>1
    <2> QED
      BY <2>1, <2>2, <2>3, OneFrame
  <1> HIDE DEF S
  <1>3. S = Nat
    BY <1>1, <1>2, Induction DEF S
  <1> QED
    BY <1>3 DEF S

\* What CountersMatchBuffer says, with the number of analysed frames.
Matches(d) ==
  /\ \E k \in Nat : /\ Analysed(d, k)
                    /\ d.cursor <= Len(d.buffer)
                    /\ Len(d.buffer) < d.cursor + FrameSize
  /\ ~AtBoundary(d)
  /\ Len(d.buffer) < MaxChunk

\* push returns all it has, or nothing; then it keeps all, and its counters
\* match what it keeps.
LEMMA PushResult ==
  ASSUME NEW d \in Detector, Matches(d), NEW samples \in Seq(Sample)
  PROVE  \/ /\ Push(d, samples) = [detector |-> NewDetector, chunk |-> d.buffer \o samples]
            /\ d.buffer \o samples # <<>>
         \/ /\ Push(d, samples).chunk = <<>>
            /\ Push(d, samples).detector \in Detector
            /\ Push(d, samples).detector.buffer = d.buffer \o samples
            /\ Matches(Push(d, samples).detector)
  <1> DEFINE ext == [d EXCEPT !.buffer = @ \o samples]
             frames == (Len(ext.buffer) - d.cursor) \div FrameSize
             after == CHOOSE g : Loop(ext, frames, g)
             cut == CHOOSE n \in 1..frames :
                      AtBoundary(after[n]) /\ \A m \in 1..(n - 1) : ~AtBoundary(after[m])
  <1>1. FrameSize \in Nat \ {0} /\ MaxChunk \in Nat \ {0}
    BY DetectorAssumption
  <1>2. PICK k \in Nat : /\ Analysed(d, k) /\ d.cursor <= Len(d.buffer)
                         /\ Len(d.buffer) < d.cursor + FrameSize
    BY DEF Matches
  <1>3. d.buffer \in Seq(Sample) /\ d.cursor \in Nat /\ d.cursor = k * FrameSize
    BY <1>2 DEF Detector, Analysed
  <1>4. /\ ext \in Detector /\ ext.buffer = d.buffer \o samples
        /\ ext.silent = d.silent /\ ext.cursor = d.cursor /\ ext.speech = d.speech
    <2>1. d.buffer \o samples \in Seq(Sample)
      BY <1>3
    <2> QED
      BY <2>1 DEF Detector
  <1>5. Push(d, samples) = IF Len(ext.buffer) >= MaxChunk THEN TakeBuffer(ext)
                           ELSE IF \E n \in 1..frames : AtBoundary(after[n])
                             THEN TakeBuffer(after[cut])
                           ELSE Keep(after[frames])
    BY Zenon DEF Push, Loop
  <1> HIDE DEF ext
  <1>6. /\ Len(ext.buffer) \in Nat /\ Len(ext.buffer) = Len(d.buffer) + Len(samples)
        /\ d.cursor <= Len(ext.buffer)
    BY <1>2, <1>3, <1>4
  <1>7. /\ frames \in Nat
        /\ frames * FrameSize <= Len(ext.buffer) - d.cursor
        /\ Len(ext.buffer) - d.cursor < frames * FrameSize + FrameSize
    <2>1. Len(ext.buffer) - d.cursor \in Nat
      BY <1>3, <1>6
    <2> QED
      BY <2>1, <1>1, WholeFrames, Zenon
  <1> HIDE DEF frames
  <1>8. Analysed(ext, k)
    <2>1. \A n \in 1..k : Speaks(ext.buffer, n) = Speaks(d.buffer, n)
      BY <1>2, <1>3, <1>4, FrameStays
    <2>2. {n \in 1..k : Speaks(ext.buffer, n)} = {n \in 1..k : Speaks(d.buffer, n)}
      BY <2>1
    <2>3. \A n \in 1..k : n > k - ext.silent => ~Speaks(ext.buffer, n)
      BY <2>1, <1>2, <1>4 DEF Analysed
    <2>4. ext.silent < k => Speaks(ext.buffer, k - ext.silent)
      BY <2>1, <1>2, <1>4 DEF Analysed, Detector
    <2>5. /\ ext.cursor = k * FrameSize /\ ext.silent <= k
          /\ ext.speech = FrameSize * Cardinality({n \in 1..k : Speaks(ext.buffer, n)})
      BY <2>2, <1>2, <1>4, Zenon DEF Analysed
    <2> QED
      BY <2>3, <2>4, <2>5, Zenon DEF Analysed
  <1>9. Loop(ext, frames, after)
    BY <1>7, LoopRuns
  <1> HIDE DEF after
  <1>10. ASSUME NEW n \in 0..frames
         PROVE  after[n] \in Detector /\ after[n].buffer = ext.buffer /\ Analysed(after[n], k + n)
    BY <1>4, <1>7, <1>8, <1>9, <1>10, LoopAnalyses
  <1>11. CASE Len(ext.buffer) >= MaxChunk
    <2>1. Push(d, samples) = TakeBuffer(ext)
      BY <1>5, <1>11
    <2> QED
      BY <2>1, <1>1, <1>4, <1>6, <1>11 DEF TakeBuffer
  <1>12. CASE Len(ext.buffer) < MaxChunk /\ \E n \in 1..frames : AtBoundary(after[n])
    <2>1. Push(d, samples) = TakeBuffer(after[cut])
      BY <1>5, <1>6, <1>1, <1>12
    <2>2. cut \in 1..frames
      <3> DEFINE S == {n \in 1..frames : AtBoundary(after[n])}
      <3>1. S \subseteq Nat /\ S # {}
        BY <1>12, <1>7
      <3>2. PICK n \in S : \A m \in S : n <= m
        BY <3>1, Least
      <3>3. \A m \in 1..(n - 1) : ~AtBoundary(after[m])
        BY <3>2, <1>7
      <3> QED
        BY <3>2, <3>3
    <2>3. after[cut].buffer = ext.buffer /\ frames >= 1
      BY <2>2, <1>7, <1>10
    <2>4. Len(ext.buffer) > 0
      BY <2>3, <1>7, <1>1, <1>3, <1>6, MoreFrames
    <2> QED
      BY <2>1, <2>3, <2>4, <1>4 DEF TakeBuffer
  <1>13. CASE Len(ext.buffer) < MaxChunk /\ \A n \in 1..frames : ~AtBoundary(after[n])
    <2> DEFINE e == after[frames]
    <2>1. Push(d, samples) = Keep(e)
      BY <1>5, <1>6, <1>1, <1>13
    <2>2. e \in Detector /\ e.buffer = ext.buffer /\ Analysed(e, k + frames)
      BY <1>7, <1>10
    <2>3. ~AtBoundary(e)
      <3>1. CASE frames = 0
        <4>1. e = ext
          BY <3>1, <1>9 DEF Loop
        <4> QED
          BY <4>1, <1>4 DEF Matches, AtBoundary
      <3> QED
        BY <3>1, <1>7, <1>13
    <2>4. e.cursor = d.cursor + frames * FrameSize
      BY <2>2, <1>1, <1>3, <1>7, MoreFrames DEF Analysed
    <2>5. frames * FrameSize \in Nat /\ k + frames \in Nat
      BY <1>1, <1>7, MoreFrames
    <2>6. e.cursor <= Len(e.buffer) /\ Len(e.buffer) < e.cursor + FrameSize
      <3> DEFINE analysed == frames * FrameSize
      <3>1. analysed \in Nat /\ e.cursor = d.cursor + analysed /\ e.buffer = ext.buffer
        BY <2>2, <2>4, <2>5
      <3>2. /\ analysed <= Len(ext.buffer) - d.cursor
            /\ Len(ext.buffer) - d.cursor < analysed + FrameSize
        BY <1>7
      <3>3. d.cursor \in Nat /\ Len(ext.buffer) \in Nat /\ FrameSize \in Nat
        BY <1>1, <1>3, <1>6
      <3> HIDE DEF analysed, e
      <3>4. Len(e.buffer) = Len(ext.buffer)
        BY <3>1
      <3> QED
        BY <3>1, <3>2, <3>3, <3>4
    <2> HIDE DEF e
    <2>7. Matches(e)
      BY <2>2, <2>3, <2>5, <2>6, <1>13 DEF Matches
    <2> QED
      BY <2>1, <2>2, <2>7, <1>4 DEF Keep
  <1> QED
    BY <1>1, <1>6, <1>11, <1>12, <1>13

\* flush empties the detector.
LEMMA FlushResult ==
  ASSUME NEW d
  PROVE  Flush(d).detector = NewDetector /\ Flush(d).chunk \in {<<>>, d.buffer}
  BY DEF Flush, TakeBuffer, Keep

\* A new detector's counters match its empty buffer.
LEMMA NewMatches == NewDetector \in Detector /\ NewDetector.buffer = <<>> /\ Matches(NewDetector)
  <1>1. {FrameSize, SilenceFrames, MinSpeech, MaxChunk} \subseteq Nat \ {0}
    BY DetectorAssumption
  <1>2. NewDetector \in Detector /\ NewDetector.buffer = <<>> /\ Len(<<>>) = 0
    BY DEF NewDetector, Detector
  <1>3. NewDetector.cursor = 0 /\ NewDetector.silent = 0 /\ NewDetector.speech = 0
    BY DEF NewDetector
  <1>4. Analysed(NewDetector, 0)
    <2>1. {n \in 1..0 : Speaks(NewDetector.buffer, n)} = {}
      OBVIOUS
    <2>2. Cardinality({n \in 1..0 : Speaks(NewDetector.buffer, n)}) = 0
      BY <2>1, FS_EmptySet
    <2>3. 0 * FrameSize = 0 /\ FrameSize * 0 = 0
      BY <1>1
    <2> QED
      BY <1>3, <2>2, <2>3 DEF Analysed
  <1> QED
    BY <1>1, <1>2, <1>3, <1>4 DEF Matches, AtBoundary

\* Matches is CountersMatchBuffer of any detector.
LEMMA MatchesCounts == detector \in Detector /\ Matches(detector) => CountersMatchBuffer
  <1> SUFFICES ASSUME detector \in Detector, Matches(detector) PROVE CountersMatchBuffer
    OBVIOUS
  <1>1. FrameSize \in Nat \ {0}
    BY DetectorAssumption
  <1>2. PICK k \in Nat : /\ Analysed(detector, k) /\ detector.cursor <= Len(detector.buffer)
                         /\ Len(detector.buffer) < detector.cursor + FrameSize
    BY DEF Matches
  <1>3. detector.cursor \div FrameSize = k /\ detector.cursor = k * FrameSize
    BY <1>1, <1>2, ExactFrames DEF Analysed
  <1> QED
    BY <1>2, <1>3, Zenon DEF CountersMatchBuffer, Matches, Analysed, Speaks

-----------------------------------------------------------------------------
(* Sequences *)

LEMMA NoElements == ASSUME NEW S PROVE <<>> \in Seq(S) /\ Len(<<>>) = 0
  OBVIOUS

LEMMA Appended ==
  ASSUME NEW S, NEW s \in Seq(S), NEW x \in S
  PROVE  /\ Append(s, x) \in Seq(S) /\ Append(s, x) # <<>>
         /\ Len(s) \in Nat /\ Len(Append(s, x)) = Len(s) + 1
         /\ \A i \in 1..Len(s) : Append(s, x)[i] = s[i] /\ s[i] \in S
         /\ Append(s, x)[Len(s) + 1] = x
         /\ Last(Append(s, x)) = x
  BY DEF Last

LEMMA HeadAndTail ==
  ASSUME NEW S, NEW s \in Seq(S), s # <<>>
  PROVE  /\ Head(s) = s[1] /\ Head(s) \in S /\ Tail(s) \in Seq(S)
         /\ Len(s) \in Nat \ {0} /\ Len(Tail(s)) = Len(s) - 1
         /\ \A i \in 1..Len(Tail(s)) : Tail(s)[i] = s[i + 1] /\ i + 1 \in 1..Len(s)
  OBVIOUS

LEMMA LastIn ==
  ASSUME NEW S, NEW s \in Seq(S), s # <<>>
  PROVE  Len(s) \in 1..Len(s) /\ Last(s) = s[Len(s)] /\ Last(s) \in S
  BY DEF Last

LEMMA AppendedBehind ==
  ASSUME NEW S, NEW a \in Seq(S), NEW b \in Seq(S), NEW x \in S
  PROVE  a \o b \in Seq(S) /\ a \o Append(b, x) = Append(a \o b, x)
  <1>1. a \o b \in Seq(S) /\ Append(b, x) \in Seq(S) /\ Len(a \o b) = Len(a) + Len(b)
    OBVIOUS
  <1>2. a \o Append(b, x) \in Seq(S) /\ Append(a \o b, x) \in Seq(S)
    BY <1>1
  <1>3. Len(a \o Append(b, x)) = Len(Append(a \o b, x))
    BY <1>1
  <1>4. ASSUME NEW i \in 1..Len(Append(a \o b, x))
        PROVE  (a \o Append(b, x))[i] = Append(a \o b, x)[i]
    BY <1>1
  <1> QED
    BY <1>2, <1>3, <1>4, SeqEqual

\* Positions keeps the number and the order of the samples.
LEMMA PositionsIn ==
  ASSUME NEW s \in Seq(Sample)
  PROVE  /\ Positions(s) \in Seq(1..MaxSamples) /\ Len(Positions(s)) = Len(s)
         /\ \A i \in 1..Len(s) : Positions(s)[i] = s[i].at
  <1>1. Positions(s) = [i \in 1..Len(s) |-> s[i].at] /\ Len(s) \in Nat
    BY DEF Positions
  <1>2. ASSUME NEW i \in 1..Len(s) PROVE s[i].at \in 1..MaxSamples
    <2>1. s[i] \in Sample
      OBVIOUS
    <2> QED
      BY <2>1 DEF Sample
  <1> QED
    BY <1>1, <1>2

-----------------------------------------------------------------------------
(* The invariant *)

Messages == [chunk : Seq(1..MaxSamples), emit : BOOLEAN]

\* TypeOK, with the channel, the chunks and the detector in full.
Shape ==
  /\ micOn \in BOOLEAN /\ is_recording \in BOOLEAN /\ in_app_mode \in BOOLEAN
  /\ held \in BOOLEAN /\ alive \in BOOLEAN /\ engineBusy \in BOOLEAN /\ overlay \in BOOLEAN
  /\ detector \in Detector /\ mic \in Seq(Sample) /\ polled \in Seq(Sample)
  /\ lastChunk \in Seq(1..MaxSamples)
  /\ queue \in Seq(Messages) /\ Len(queue) <= ChannelBound
  /\ current \in Messages /\ delivered \in Seq(Messages)
  /\ main \in {"idle", "starting", "stopping", "sending"}
  /\ worker \in {"waiting", "transcribing", "hiding"}
  /\ sources \in Seq(Source) /\ heard \in Seq(1..Len(sources)) /\ Len(heard) <= MaxSamples
  /\ settled \in 0..Len(heard)

\* Where the threads are, and what the recording in hand was started by.
Threads ==
  /\ held <=> polled # <<>>
  /\ held => is_recording
  /\ main # "idle" => ~is_recording
  /\ main \in {"idle", "sending"} /\ ~is_recording => ~micOn /\ settled = Len(heard)
  /\ micOn \/ is_recording \/ main # "idle" => sources # <<>>
  /\ is_recording \/ main \in {"stopping", "sending"} => in_app_mode = (Last(sources) = "button")
  /\ lastChunk # <<>> => main \in {"stopping", "sending"}
  /\ main = "sending" => lastChunk # <<>>

\* NothingDropsOut, sample by sample.
Gapless(samples, from, to) ==
  Len(samples) = to - from /\ \A i \in 1..Len(samples) : samples[i].at = from + i

\* Everything since the last chunk is in the detector, in the poll thread's hands
\* or in the recorder.
Kept == Gapless(detector.buffer \o polled \o mic, settled, Len(heard))

Inv == Shape /\ Threads /\ Kept /\ Matches(detector) /\ StopTakesEverything

\* Kept is NothingDropsOut, said of the whole sequence.
LEMMA KeptDrops == Shape /\ Kept => NothingDropsOut
  <1> SUFFICES ASSUME Shape, Kept PROVE NothingDropsOut
    OBVIOUS
  <1> DEFINE all == detector.buffer \o polled \o mic
  <1>1. all \in Seq(Sample) /\ DOMAIN all = 1..Len(all)
    BY DEF Shape, Detector
  <1>2. Len(all) = Len(heard) - settled /\ \A i \in 1..Len(all) : all[i].at = settled + i
    BY DEF Kept, Gapless
  <1> HIDE DEF all
  <1>3. Positions(all) = [i \in 1..(Len(heard) - settled) |-> settled + i]
    BY <1>1, <1>2 DEF Positions
  <1> QED
    BY <1>3 DEF NothingDropsOut, all

LEMMA ShapeTypes == Shape => TypeOK
  BY DEF Shape, TypeOK, Detector, Messages

\* Gapless stretches can be joined, and cut in two.
LEMMA Joined ==
  ASSUME NEW a \in Seq(Sample), NEW b \in Seq(Sample), NEW from \in Nat, NEW to \in Nat,
         Gapless(a \o b, from, to)
  PROVE  Gapless(a, from, from + Len(a)) /\ Gapless(b, from + Len(a), to)
  <1>1. Len(a \o b) = Len(a) + Len(b) /\ Len(a) \in Nat /\ Len(b) \in Nat
    OBVIOUS
  <1>2. ASSUME NEW i \in 1..Len(a) PROVE a[i].at = from + i
    <2>1. (a \o b)[i] = a[i] /\ i \in 1..Len(a \o b)
      BY <1>1
    <2> QED
      BY <2>1 DEF Gapless
  <1>3. ASSUME NEW i \in 1..Len(b) PROVE b[i].at = (from + Len(a)) + i
    <2>1. (a \o b)[Len(a) + i] = b[i] /\ Len(a) + i \in 1..Len(a \o b)
      BY <1>1
    <2>2. b[i].at = from + (Len(a) + i)
      BY <2>1 DEF Gapless
    <2> QED
      BY <2>2, <1>1
  <1> QED
    BY <1>1, <1>2, <1>3 DEF Gapless

LEMMA InitInv == Init => Inv
  <1> SUFFICES ASSUME Init PROVE Inv
    OBVIOUS
  <1>1. Shape
    <2>1. Message(<<>>, FALSE) \in Messages
      BY DEF Message, Messages
    <2>2. heard \in Seq(1..Len(sources)) /\ Len(heard) = 0 /\ Len(queue) = 0
      BY DEF Init
    <2>3. /\ mic \in Seq(Sample) /\ polled \in Seq(Sample) /\ lastChunk \in Seq(1..MaxSamples)
          /\ queue \in Seq(Messages) /\ delivered \in Seq(Messages) /\ sources \in Seq(Source)
      BY NoElements DEF Init
    <2>4. Len(queue) <= ChannelBound /\ Len(heard) <= MaxSamples /\ settled \in 0..Len(heard)
      BY <2>2, DictationAssumption DEF Init
    <2>5. detector \in Detector /\ current \in Messages
      BY <2>1, NewMatches DEF Init
    <2> QED
      BY <2>2, <2>3, <2>4, <2>5 DEF Init, Shape
  <1>2. Threads
    BY DEF Init, Threads
  <1>3. Kept
    BY NewMatches DEF Init, Kept, Gapless
  <1> QED
    BY <1>1, <1>2, <1>3, NewMatches DEF Init, Inv, StopTakesEverything
\* A stop takes all the samples there are, for its chunk or for nothing.
LEMMA StopTakes ==
  ASSUME Inv, NEW source, StopDictation(source)
  PROVE  /\ detector' = NewDetector
         /\ \E chunk \in {<<>>, detector.buffer \o mic} : lastChunk' = Positions(chunk)
  <1> USE DEF StopDictation
  <1> DEFINE pushed == Push(detector, mic)
  <1>1. detector \in Detector /\ mic \in Seq(Sample) /\ Matches(detector)
    BY DEF Inv, Shape
  <1>2. /\ pushed.chunk # <<>> => pushed.detector = NewDetector
        /\ pushed.chunk \in {<<>>, detector.buffer \o mic}
        /\ pushed.chunk = <<>> => pushed.detector.buffer = detector.buffer \o mic
    BY <1>1, PushResult
  <1> QED
    BY <1>2, FlushResult

\* The poll thread's push cuts a chunk.
Cut ==
  /\ detector.buffer \o polled # <<>>
  /\ detector' = NewDetector
  /\ settled' = settled + Len(detector.buffer \o polled)
  /\ queue' = IF alive /\ Len(queue) < ChannelBound
                THEN Append(queue, Message(Positions(detector.buffer \o polled), in_app_mode))
                ELSE queue

\* The push cuts a chunk of all it has, or changes the detector alone.
LEMMA PollCuts ==
  ASSUME Inv, PollPush
  PROVE  \/ Cut
         \/ /\ UNCHANGED <<settled, queue>>
            /\ detector' \in Detector /\ detector'.buffer = detector.buffer \o polled
            /\ Matches(detector')
  <1> DEFINE pushed == Push(detector, polled)
             all == detector.buffer \o polled
  <1>1. /\ detector \in Detector /\ polled \in Seq(Sample) /\ mic \in Seq(Sample)
        /\ all \in Seq(Sample) /\ settled \in Nat /\ Len(heard) \in Nat /\ Matches(detector)
    BY DEF Inv, Shape, Detector
  <1>2. CASE pushed = [detector |-> NewDetector, chunk |-> all] /\ all # <<>>
    <2>1. Gapless(all, settled, settled + Len(all))
      BY <1>1, Joined DEF Inv, Kept
    <2>2. Last(all).at = settled + Len(all)
      BY <1>1, <1>2, <2>1, LastIn DEF Gapless
    <2> QED
      BY <1>2, <2>2 DEF PollPush, Cut
  <1>3. CASE /\ pushed.chunk = <<>> /\ pushed.detector \in Detector
             /\ pushed.detector.buffer = all /\ Matches(pushed.detector)
    BY <1>3 DEF PollPush
  <1> QED
    BY <1>1, <1>2, <1>3, PushResult

LEMMA NextInv == Inv /\ [Next]_vars => Inv'
  <1> SUFFICES ASSUME Inv, [Next]_vars PROVE Inv'
    OBVIOUS
  <1> USE DEF Inv, audioVars, dictVars, pollVars, mainVars, workerVars
  <1>1. ASSUME NEW loud \in BOOLEAN, Capture(loud) PROVE Inv'
    <2> USE <1>1 DEF Capture
    <2> DEFINE new == [at |-> Len(heard) + 1, loud |-> loud]
               all == detector.buffer \o polled \o mic
    <2>1. new \in Sample /\ Len(sources) \in 1..Len(sources)
      <3>1. sources # <<>> /\ sources \in Seq(Source) /\ Len(heard) \in Nat
        BY DEF Threads, Shape
      <3>2. Len(heard) + 1 \in 1..MaxSamples
        BY <3>1, DictationAssumption
      <3> QED
        BY <3>1, <3>2, LastIn DEF Sample
    <2>2. Shape'
      <3>1. mic' \in Seq(Sample)
        BY <2>1, Appended DEF Shape
      <3>2. heard' \in Seq(1..Len(sources')) /\ Len(heard') = Len(heard) + 1 /\ Len(heard) \in Nat
        BY <2>1, Appended DEF Shape
      <3>3. Len(heard') <= MaxSamples /\ settled' \in 0..Len(heard')
        BY <3>2, DictationAssumption DEF Shape
      <3> QED
        BY <3>1, <3>2, <3>3 DEF Shape
    <2>3. Threads'
      BY DEF Threads
    <2>4. Kept'
      <3>1. Gapless(all, settled, Len(heard))
        BY DEF Kept
      <3>2. all \in Seq(Sample) /\ (detector.buffer \o polled \o mic)' = Append(all, new)
        <4>1. detector.buffer \o polled \in Seq(Sample) /\ mic \in Seq(Sample)
          BY DEF Shape, Detector
        <4> QED
          <5>1. (detector.buffer \o polled \o mic)'
                 = (detector.buffer \o polled) \o Append(mic, new)
            OBVIOUS
          <5> DEFINE front == detector.buffer \o polled
          <5>2. new \in Sample /\ front \in Seq(Sample) /\ all = front \o mic
            BY <4>1, <2>1
          <5> HIDE DEF new, front, all
          <5>3. /\ front \o mic \in Seq(Sample)
                /\ front \o Append(mic, new) = Append(front \o mic, new)
            BY <5>2, <4>1, AppendedBehind
          <5> QED
            BY <5>1, <5>2, <5>3 DEF front
      <3>3. Len(heard') = Len(heard) + 1 /\ Len(heard) \in Nat /\ settled \in 0..Len(heard)
        BY DEF Shape
      <3>4. new.at = Len(heard) + 1 /\ Len(all) = Len(heard) - settled
        BY DEF Kept, Gapless
      <3> HIDE DEF all, new
      <3>5. Len(Append(all, new)) = Len(all) + 1 /\ Append(all, new)[Len(all) + 1] = new
        BY <3>2
      <3>6. ASSUME NEW i \in 1..(Len(all) + 1) PROVE Append(all, new)[i].at = settled + i
        <4>1. CASE i = Len(all) + 1
          BY <4>1, <3>3, <3>4, <3>5
        <4>2. CASE i \in 1..Len(all)
          <5>1. all[i].at = settled + i
            BY <4>2, <3>1 DEF Gapless
          <5>2. Append(all, new)[i] = all[i]
            BY <4>2, <3>2
          <5> QED
            BY <5>1, <5>2
        <4> QED
          BY <4>1, <4>2, <3>3, <3>4
      <3> QED
        <4>1. Len(Append(all, new)) = Len(heard') - settled
          BY <3>3, <3>4, <3>5
        <4> QED
          BY <3>2, <3>5, <3>6, <4>1 DEF Kept, Gapless
    <2> QED
      BY <2>2, <2>3, <2>4 DEF Matches, StopTakesEverything
  <1>2. ASSUME NEW source \in Source, StartRecorder(source) PROVE Inv'
    <2> USE <1>2 DEF StartRecorder
    <2>1. Shape'
      BY DEF Shape
    <2>2. Threads'
      <3>1. sources' # <<>>
        <4>1. sources \in Seq(Source) /\ sources' = Append(sources, source)
          BY DEF Shape
        <4> QED
          BY <4>1, Appended, SMTT(60)
      <3> QED
        BY <3>1 DEF Threads
    <2> QED
      BY <2>1, <2>2 DEF Kept, Matches, StopTakesEverything
  <1>3. ASSUME NEW source \in Source, StopDictation(source) PROVE Inv'
    <2>1. /\ mic' = <<>> /\ settled' = Len(heard) /\ is_recording /\ ~held
          /\ is_recording' = FALSE /\ main' = "stopping"
          /\ UNCHANGED <<micOn, heard, in_app_mode, pollVars, sources, queue, workerVars, overlay>>
      BY <1>3 DEF StopDictation
    <2>2. polled = <<>>
      BY <2>1 DEF Threads
    <2>3. detector.buffer \o mic \in Seq(Sample)
      BY DEF Shape, Detector
    <2>4. /\ detector' = NewDetector
          /\ \E chunk \in {<<>>, detector.buffer \o mic} : lastChunk' = Positions(chunk)
      BY <1>3, StopTakes
    <2>5. lastChunk' \in Seq(1..MaxSamples)
      BY <2>3, <2>4, PositionsIn, NoElements
    <2>6. Shape'
      <3>1. detector' \in Detector /\ mic' \in Seq(Sample) /\ Len(heard) \in Nat
        <4>1. detector' \in Detector
          BY <2>4, NewMatches, Zenon
        <4> QED
          BY <4>1, <2>1, NoElements DEF Shape
      <3>2. settled' \in 0..Len(heard)
        BY <3>1, <2>1
      <3> QED
        <4>1. /\ polled' \in Seq(Sample) /\ queue' \in Seq(Messages) /\ Len(queue') <= ChannelBound
              /\ sources' \in Seq(Source)
          BY <2>1 DEF Shape
        <4>2. /\ current' \in Messages /\ delivered' \in Seq(Messages)
              /\ worker' \in {"waiting", "transcribing", "hiding"}
          BY <2>1 DEF Shape
        <4>3. /\ heard' \in Seq(1..Len(sources')) /\ Len(heard') <= MaxSamples
              /\ settled' \in 0..Len(heard')
          BY <2>1, <3>2 DEF Shape
        <4>4. /\ micOn' \in BOOLEAN /\ is_recording' \in BOOLEAN /\ in_app_mode' \in BOOLEAN
              /\ held' \in BOOLEAN /\ alive' \in BOOLEAN /\ engineBusy' \in BOOLEAN
              /\ overlay' \in BOOLEAN
              /\ main' \in {"idle", "starting", "stopping", "sending"}
          BY <2>1 DEF Shape
        <4> QED
          BY <3>1, <2>5, <4>1, <4>2, <4>3, <4>4 DEF Shape
    <2>7. Threads'
      BY <2>1 DEF Threads
    <2>8. Kept'
      BY <2>1, <2>2, <2>4, NewMatches DEF Kept, Gapless, Shape
    <2> QED
      BY <2>1, <2>2, <2>4, <2>6, <2>7, <2>8, NewMatches DEF StopTakesEverything
  <1>4. CASE StartDictation
    <2> USE <1>4 DEF StartDictation
    <2>1. Shape'
      BY NewMatches DEF Shape
    <2>2. Threads'
      BY DEF Threads
    <2>3. Kept'
      BY NewMatches DEF Kept, StopTakesEverything, Threads
    <2> QED
      BY <2>1, <2>2, <2>3, NewMatches DEF StopTakesEverything
  <1>5. CASE StopRecorder
    <2> USE <1>5 DEF StopRecorder
    <2>1. Shape'
      <3>1. mic' \in Seq(Sample) /\ settled' \in 0..Len(heard)
        BY NoElements DEF Shape
      <3> QED
        BY <3>1 DEF Shape
    <2>2. Threads'
      BY DEF Threads
    <2>3. Kept'
      BY DEF Kept, Gapless, StopTakesEverything, Threads, Shape
    <2> QED
      BY <2>1, <2>2, <2>3 DEF StopTakesEverything, Matches
  <1>6. CASE SendLast
    <2> USE <1>6 DEF SendLast
    <2>1. Message(lastChunk, in_app_mode) \in Messages
      BY DEF Shape, Message, Messages
    <2>2. Shape'
      <3>1. queue' \in Seq(Messages) /\ Len(queue') <= ChannelBound
        <4>1. queue \in Seq(Messages) /\ Len(queue) <= ChannelBound /\ Len(queue) \in Nat
          BY DEF Shape
        <4>2. CASE ~alive
          BY <4>1, <4>2
        <4>3. CASE alive
          <5>1. queue' = Append(queue, Message(lastChunk, in_app_mode)) /\ Len(queue) < ChannelBound
            BY <4>3
          <5> QED
            BY <4>1, <5>1, <2>1, Appended, DictationAssumption
        <4> QED
          BY <4>2, <4>3
      <3>2. lastChunk' \in Seq(1..MaxSamples)
        BY NoElements
      <3> QED
        BY <3>1, <3>2 DEF Shape
    <2>3. Threads'
      BY DEF Threads
    <2> QED
      BY <2>2, <2>3 DEF Kept, Matches, StopTakesEverything
  <1>7. CASE PollDrain
    <2> USE <1>7 DEF PollDrain
    <2>1. Shape'
      BY DEF Shape
    <2>2. Threads'
      BY DEF Threads
    <2>3. Kept'
      <3>1. polled = <<>> /\ mic \in Seq(Sample) /\ detector.buffer \in Seq(Sample)
        BY DEF Threads, Shape, Detector
      <3>2. detector.buffer \o polled \o mic = detector.buffer \o mic
        BY <3>1
      <3>3. (detector.buffer \o polled \o mic)' = detector.buffer \o mic
        BY <3>1
      <3> QED
        BY <3>2, <3>3 DEF Kept
    <2> QED
      BY <2>1, <2>2, <2>3 DEF StopTakesEverything, Matches
  <1>8. CASE PollPush
    <2> USE <1>8 DEF PollPush
    <2> DEFINE all == detector.buffer \o polled
    <2>1. /\ detector \in Detector /\ polled \in Seq(Sample) /\ mic \in Seq(Sample)
          /\ all \in Seq(Sample) /\ is_recording
      BY DEF Shape, Detector, Threads
    <2>2. settled \in Nat /\ Len(heard) \in Nat
      BY DEF Shape
    <2>3. Gapless(mic, settled + Len(all), Len(heard))
      BY <2>1, <2>2, Joined DEF Kept
    <2>4. settled + Len(all) <= Len(heard)
      BY <2>1, <2>2, <2>3 DEF Gapless
    <2>5. CASE Cut
      <3>1. detector' = NewDetector /\ settled' = settled + Len(all)
        BY <2>5 DEF Cut
      <3>2. Positions(all) \in Seq(1..MaxSamples)
        BY <2>1, PositionsIn
      <3>3. queue' \in Seq(Messages) /\ Len(queue') <= ChannelBound
        <4>1. Message(Positions(all), in_app_mode) \in Messages
          BY <3>2 DEF Shape, Message, Messages
        <4> QED
          BY <4>1, <2>5, DictationAssumption DEF Shape, Cut
      <3>4. Shape'
        <4>1. detector' \in Detector /\ settled' \in 0..Len(heard) /\ polled' \in Seq(Sample)
          BY <3>1, <2>1, <2>2, <2>4, NewMatches
        <4> QED
          BY <3>3, <4>1 DEF Shape
      <3>5. Threads'
        BY <2>1 DEF Threads
      <3>6. Kept'
        BY <3>1, <2>1, <2>3, NewMatches DEF Kept
      <3> QED
        BY <3>1, <3>4, <3>5, <3>6, <2>1, NewMatches DEF StopTakesEverything
    <2>6. CASE ~Cut
      <3>1. /\ UNCHANGED <<settled, queue>>
            /\ detector' \in Detector /\ detector'.buffer = all /\ Matches(detector')
        BY <2>6, PollCuts
      <3>2. Shape'
        BY <3>1, NoElements DEF Shape
      <3>3. Threads'
        BY <2>1, <3>1 DEF Threads
      <3>4. Kept'
        BY <3>1, <2>1 DEF Kept
      <3> QED
        BY <3>1, <3>2, <3>3, <3>4, <2>1 DEF StopTakesEverything
    <2> QED
      BY <2>5, <2>6
  <1>9. ASSUME TakeChunk \/ Transcribe \/ HideOverlay \/ MeetingTakesEngine \/ MeetingReleasesEngine
        PROVE  Inv'
    <2>1. Shape'
      <3>1. Message(<<>>, FALSE) \in Messages
        BY DEF Message, Messages
      <3>2. CASE TakeChunk
        <4>1. /\ Head(queue) \in Messages /\ Tail(queue) \in Seq(Messages)
              /\ Len(Tail(queue)) <= Len(queue)
          BY <3>2, HeadAndTail DEF Shape, TakeChunk
        <4> QED
          BY <3>2, <4>1, DictationAssumption DEF Shape, TakeChunk
      <3>3. CASE Transcribe
        <4>1. delivered' \in Seq(Messages)
          <5>1. delivered \in Seq(Messages) /\ current \in Messages
            BY DEF Shape
          <5>2. delivered' \in {delivered, Append(delivered, current)}
            BY <3>3 DEF Transcribe
          <5>3. Append(delivered, current) \in Seq(Messages)
            BY <5>1, Appended
          <5> QED
            BY <5>1, <5>2, <5>3
        <4> QED
          BY <3>3, <4>1 DEF Shape, Transcribe
      <3>4. CASE HideOverlay
        BY <3>1, <3>4 DEF Shape, HideOverlay
      <3> QED
        BY <1>9, <3>2, <3>3, <3>4, ZenonT(60) DEF Shape, MeetingTakesEngine, MeetingReleasesEngine
    <2>2. UNCHANGED <<audioVars, dictVars, pollVars, mainVars>>
      BY <1>9 DEF TakeChunk, Transcribe, HideOverlay, MeetingTakesEngine, MeetingReleasesEngine
    <2> QED
      BY <2>1, <2>2 DEF Threads, Kept, Matches, StopTakesEverything
  <1>10. CASE UNCHANGED vars
    BY <1>10 DEF vars, Shape, Threads, Kept, Matches, StopTakesEverything
  <1> QED
    BY <1>1, <1>2, <1>3, <1>4, <1>5, <1>6, <1>7, <1>8, <1>9, <1>10 DEF Next, Main, Rest

-----------------------------------------------------------------------------
(* The chunks on their way, from the stop or the poll thread to the text *)

\* A stretch of one recording, for the side that started it.
Stretch(m, h, s) ==
  \E from, to \in 1..Len(h) :
    /\ from <= to
    /\ \A n \in from..to : h[n] = h[from]
    /\ m.chunk = [i \in 1..(to - from + 1) |-> from + i - 1]
    /\ m.emit = (s[h[from]] = "button")

\* The chunk ends at sample n or before.
Upto(chunk, n) == \A i \in DOMAIN chunk : chunk[i] <= n

\* One chunk ends before the other begins.
Before(c, e) == \A i \in DOMAIN c, j \in DOMAIN e : c[i] < e[j]

\* A stretch of what is settled, after everything delivered so far.
Good(m, h, s, n, past) ==
  /\ Stretch(m, h, s) /\ Upto(m.chunk, n)
  /\ \A i \in DOMAIN past : Before(past[i].chunk, m.chunk)

\* What is not settled was heard in the last recording.
Recent == \A n \in (settled + 1)..Len(heard) : heard[n] = Len(sources)

DeliveredSettled == \A i \in DOMAIN delivered : Upto(delivered[i].chunk, settled)

\* The channel, the chunk the worker has and the one a stop has yet to send are
\* in the order of their samples.
QueueInOrder ==
  /\ \A j \in DOMAIN queue : Good(queue[j], heard, sources, settled, delivered)
  /\ \A i, j \in DOMAIN queue : i < j => Before(queue[i].chunk, queue[j].chunk)

CurrentInOrder ==
  worker = "transcribing" =>
    /\ Good(current, heard, sources, settled, delivered)
    /\ \A j \in DOMAIN queue : Before(current.chunk, queue[j].chunk)

LastInOrder ==
  lastChunk # <<>> =>
    /\ Good(Message(lastChunk, in_app_mode), heard, sources, settled, delivered)
    /\ worker = "transcribing" => Before(current.chunk, lastChunk)
    /\ \A j \in DOMAIN queue : Before(queue[j].chunk, lastChunk)

Order == Recent /\ DeliveredSettled /\ QueueInOrder /\ CurrentInOrder /\ LastInOrder

\* A stretch stays one while samples and recordings are added.
LEMMA StretchStays ==
  ASSUME NEW m, NEW s \in Seq(Source), NEW h \in Seq(1..Len(s)), NEW t \in Seq(Source),
         NEW g \in Seq(1..Len(t)), Len(h) <= Len(g), Len(s) <= Len(t),
         \A i \in 1..Len(h) : g[i] = h[i], \A i \in 1..Len(s) : t[i] = s[i],
         Stretch(m, h, s)
  PROVE  Stretch(m, g, t)
  <1>1. PICK from \in 1..Len(h), to \in 1..Len(h) :
          /\ from <= to
          /\ \A n \in from..to : h[n] = h[from]
          /\ m.chunk = [i \in 1..(to - from + 1) |-> from + i - 1]
          /\ m.emit = (s[h[from]] = "button")
    BY DEF Stretch
  <1>2. Len(h) \in Nat /\ Len(g) \in Nat /\ from \in 1..Len(g) /\ to \in 1..Len(g)
    OBVIOUS
  <1>3. h[from] \in 1..Len(s)
    OBVIOUS
  <1>4. g[from] = h[from] /\ t[g[from]] = s[h[from]]
    BY <1>3
  <1>5. \A n \in from..to : g[n] = g[from]
    <2> SUFFICES ASSUME NEW n \in from..to PROVE g[n] = g[from]
      OBVIOUS
    <2>1. n \in 1..Len(h)
      BY <1>2
    <2> QED
      BY <2>1, <1>1, <1>4
  <1> QED
    BY <1>1, <1>2, <1>4, <1>5 DEF Stretch

\* All that is unsettled, or its beginning, is a stretch of the last recording
\* and comes after everything settled.
LEMMA CutIsStretch ==
  ASSUME NEW samples \in Seq(Sample), samples # <<>>, NEW from \in Nat,
         Gapless(samples, from, from + Len(samples)),
         NEW s \in Seq(Source), s # <<>>, NEW h \in Seq(1..Len(s)), from + Len(samples) <= Len(h),
         \A n \in (from + 1)..Len(h) : h[n] = Len(s),
         NEW emit, emit = (Last(s) = "button")
  PROVE  /\ Stretch(Message(Positions(samples), emit), h, s)
         /\ Upto(Positions(samples), from + Len(samples))
         /\ \A c \in Seq(1..MaxSamples) : Upto(c, from) => Before(c, Positions(samples))
  <1> DEFINE m == Message(Positions(samples), emit)
             to == from + Len(samples)
  <1>1. Len(samples) \in Nat \ {0} /\ Len(h) \in Nat
    OBVIOUS
  <1>2. /\ from + 1 \in 1..Len(h) /\ to \in 1..Len(h)
        /\ from + 1 <= to /\ to - (from + 1) + 1 = Len(samples)
    BY <1>1
  <1>3. \A n \in (from + 1)..to : h[n] = Len(s)
    BY <1>2
  <1>4. \A n \in (from + 1)..to : h[n] = h[from + 1]
    BY <1>2, <1>3
  <1>5. \A i \in 1..Len(samples) : Positions(samples)[i] = from + i /\ (from + 1) + i - 1 = from + i
    BY <1>1, PositionsIn DEF Gapless
  <1>6. Positions(samples) = [i \in 1..Len(samples) |-> from + i]
    <2>1. DOMAIN samples = 1..Len(samples) /\ \A i \in 1..Len(samples) : samples[i].at = from + i
      BY DEF Gapless
    <2> QED
      BY <2>1 DEF Positions
  <1>7. m.chunk = [i \in 1..(to - (from + 1) + 1) |-> (from + 1) + i - 1]
    BY <1>1, <1>2, <1>5, <1>6 DEF Message
  <1>8. s[h[from + 1]] = Last(s)
    BY <1>2, <1>3, LastIn
  <1>9. m.emit = (s[h[from + 1]] = "button")
    BY <1>8 DEF Message
  <1>10. Stretch(m, h, s)
    BY <1>2, <1>4, <1>7, <1>9 DEF Stretch
  <1>11. Upto(Positions(samples), from + Len(samples))
    BY <1>1, <1>6 DEF Upto
  <1>12. ASSUME NEW c \in Seq(1..MaxSamples), Upto(c, from) PROVE Before(c, Positions(samples))
    <2> SUFFICES ASSUME NEW i \in DOMAIN c, NEW j \in 1..Len(samples) PROVE c[i] < from + j
      BY <1>1, <1>6 DEF Before
    <2>1. c[i] \in Nat /\ c[i] <= from
      BY <1>12, DictationAssumption, SMTT(60) DEF Upto
    <2> QED
      BY <2>1, <1>1
  <1> QED
    BY <1>10, <1>11, <1>12

LEMMA UptoMore ==
  ASSUME NEW c \in Seq(1..MaxSamples), NEW n \in Nat, NEW m \in Nat, n <= m, Upto(c, n)
  PROVE  Upto(c, m)
  BY DictationAssumption DEF Upto

LEMMA OrderInit == Init => Order
  BY DEF Init, Order, Recent, DeliveredSettled, QueueInOrder, CurrentInOrder, LastInOrder

LEMMA GoodStays ==
  ASSUME NEW m \in Messages, NEW s \in Seq(Source), NEW h \in Seq(1..Len(s)), NEW t \in Seq(Source),
         NEW g \in Seq(1..Len(t)), Len(h) <= Len(g), Len(s) <= Len(t),
         \A i \in 1..Len(h) : g[i] = h[i], \A i \in 1..Len(s) : t[i] = s[i],
         NEW n \in Nat, NEW k \in Nat, n <= k, NEW past, Good(m, h, s, n, past)
  PROVE  Good(m, g, t, k, past)
  <1>1. Stretch(m, g, t)
    BY StretchStays DEF Good
  <1>2. Upto(m.chunk, k)
    BY UptoMore DEF Good, Messages
  <1> QED
    BY <1>1, <1>2 DEF Good

\* The history only grows.
Grows ==
  /\ Len(heard) <= Len(heard') /\ \A i \in 1..Len(heard) : heard'[i] = heard[i]
  /\ Len(sources) <= Len(sources') /\ \A i \in 1..Len(sources) : sources'[i] = sources[i]
  /\ settled <= settled'
  /\ Recent'

LEMMA HistoryGrows == Inv /\ Recent /\ [Next]_vars => Grows
  <1> SUFFICES ASSUME Inv, Recent, [Next]_vars PROVE Grows
    OBVIOUS
  <1> USE DEF audioVars, dictVars, pollVars, mainVars, workerVars
  <1>1. /\ sources \in Seq(Source) /\ heard \in Seq(1..Len(sources)) /\ settled \in Nat
        /\ settled <= Len(heard) /\ Len(heard) \in Nat /\ Len(sources) \in Nat
    BY DEF Inv, Shape
  <1>2. ASSUME UNCHANGED <<heard, sources>>, settled' \in Nat, settled <= settled' PROVE Grows
    <2>1. Recent'
      <3> SUFFICES ASSUME NEW n \in (settled' + 1)..Len(heard') PROVE heard'[n] = Len(sources')
        BY DEF Recent
      <3>1. heard' = heard /\ sources' = sources
        BY <1>2
      <3>2. n \in (settled + 1)..Len(heard)
        <4>1. Len(heard') = Len(heard) /\ Len(heard) \in Nat /\ settled \in Nat
          BY <3>1, <1>1
        <4>2. settled' \in Nat /\ settled <= settled' /\ n \in (settled' + 1)..Len(heard)
          BY <4>1, <1>2
        <4>3. ASSUME NEW a \in Nat, NEW b \in Nat, NEW c \in Nat, a <= b, NEW k \in (b + 1)..c
              PROVE  k \in (a + 1)..c
          BY <4>3
        <4> QED
          BY <4>1, <4>2, <4>3, Zenon
      <3> QED
        BY <3>1, <3>2 DEF Recent
    <2> QED
      BY <2>1, <1>1, <1>2 DEF Grows
  <1>3. ASSUME NEW loud \in BOOLEAN, Capture(loud) PROVE Grows
    <2>1. sources # <<>>
      BY <1>3 DEF Capture, Inv, Threads
    <2>2. Len(sources) \in 1..Len(sources)
      BY <2>1, <1>1, LastIn
    <2>3. heard' = Append(heard, Len(sources)) /\ UNCHANGED <<sources, settled>>
      BY <1>3 DEF Capture
    <2>4. /\ Len(heard') = Len(heard) + 1 /\ \A i \in 1..Len(heard) : heard'[i] = heard[i]
          /\ heard'[Len(heard) + 1] = Len(sources)
      BY <2>2, <2>3, <1>1, Appended
    <2>5. Recent'
      BY <2>3, <2>4, <1>1 DEF Recent
    <2> QED
      BY <2>3, <2>4, <2>5, <1>1 DEF Grows
  <1>4. ASSUME NEW source \in Source, StartRecorder(source) PROVE Grows
    <2>1. sources' = Append(sources, source) /\ UNCHANGED <<heard, settled>> /\ settled = Len(heard)
      BY <1>4 DEF StartRecorder, Inv, Threads
    <2>2. Len(sources') = Len(sources) + 1 /\ \A i \in 1..Len(sources) : sources'[i] = sources[i]
      BY <2>1, <1>1, Appended
    <2>3. Recent'
      BY <2>1, <1>1 DEF Recent
    <2> QED
      BY <2>1, <2>2, <2>3, <1>1 DEF Grows
  <1>5. ASSUME NEW source \in Source, StopDictation(source) PROVE Grows
    BY <1>1, <1>2, <1>5 DEF StopDictation
  <1>6. CASE StartDictation \/ StopRecorder \/ SendLast \/ PollDrain
    BY <1>1, <1>2, <1>6 DEF StartDictation, StopRecorder, SendLast, PollDrain
  <1>7. CASE PollPush
    <2>1. detector.buffer \o polled \in Seq(Sample)
      BY DEF Inv, Shape, Detector
    <2>2. settled' \in {settled, settled + Len(detector.buffer \o polled)}
      BY <1>7, PollCuts DEF Cut
    <2>3. UNCHANGED <<heard, sources>>
      BY <1>7 DEF PollPush
    <2> QED
      BY <2>1, <2>2, <2>3, <1>1, <1>2
  <1>8. CASE TakeChunk \/ Transcribe \/ HideOverlay \/ MeetingTakesEngine \/ MeetingReleasesEngine
    <2>1. UNCHANGED <<heard, sources, settled>>
      BY <1>8 DEF TakeChunk, Transcribe, HideOverlay, MeetingTakesEngine, MeetingReleasesEngine
    <2> QED
      BY <2>1, <1>1, <1>2
  <1>9. CASE UNCHANGED vars
    BY <1>1, <1>2, <1>9 DEF vars
  <1> QED
    BY <1>3, <1>4, <1>5, <1>6, <1>7, <1>8, <1>9 DEF Next, Main, Rest

LEMMA OrderNext == Inv /\ Order /\ [Next]_vars => Order'
  <1> SUFFICES ASSUME Inv, Order, [Next]_vars PROVE Order'
    OBVIOUS
  <1> USE DEF audioVars, dictVars, pollVars, mainVars, workerVars
  <1>1. Grows
    BY HistoryGrows DEF Order
  <1>2. Inv'
    BY NextInv
  <1>3. /\ sources \in Seq(Source) /\ heard \in Seq(1..Len(sources)) /\ settled \in Nat
        /\ sources' \in Seq(Source) /\ heard' \in Seq(1..Len(sources')) /\ settled' \in Nat
        /\ queue \in Seq(Messages) /\ current \in Messages /\ delivered \in Seq(Messages)
        /\ Message(lastChunk, in_app_mode) \in Messages
    BY <1>2 DEF Inv, Shape, Message, Messages
  <1>4. ASSUME NEW m \in Messages, Good(m, heard, sources, settled, delivered)
        PROVE  Good(m, heard', sources', settled', delivered)
    BY <1>1, <1>3, <1>4, GoodStays DEF Grows
  <1>5. \A m \in Messages : Upto(m.chunk, settled) => Upto(m.chunk, settled')
    BY <1>1, <1>3, UptoMore DEF Grows, Messages
  <1>6. ASSUME UNCHANGED delivered PROVE DeliveredSettled'
    BY <1>3, <1>5, <1>6 DEF Order, DeliveredSettled
  <1>7. ASSUME UNCHANGED <<delivered, queue>> PROVE QueueInOrder'
    BY <1>3, <1>4, <1>7 DEF Order, QueueInOrder
  <1>8. ASSUME UNCHANGED <<delivered, queue, worker, current>> PROVE CurrentInOrder'
    BY <1>3, <1>4, <1>8 DEF Order, CurrentInOrder
  <1>9. ASSUME UNCHANGED <<delivered, queue, worker, current, lastChunk, in_app_mode>>
        PROVE  LastInOrder'
    BY <1>3, <1>4, <1>9 DEF Order, LastInOrder
  <1>10. ASSUME UNCHANGED <<delivered, queue, worker, current, lastChunk, in_app_mode>> PROVE Order'
    BY <1>1, <1>6, <1>7, <1>8, <1>9, <1>10 DEF Order, Grows
  <1>11. ASSUME NEW e \in Messages, queue' = Append(queue, e),
                UNCHANGED <<delivered, worker, current>>,
                Good(e, heard', sources', settled', delivered),
                \A j \in DOMAIN queue : Before(queue[j].chunk, e.chunk),
                worker = "transcribing" => Before(current.chunk, e.chunk)
         PROVE  QueueInOrder' /\ CurrentInOrder'
    <2>1. /\ DOMAIN queue' = 1..(Len(queue) + 1) /\ queue'[Len(queue) + 1] = e /\ Len(queue) \in Nat
          /\ DOMAIN queue = 1..Len(queue)
          /\ \A j \in 1..Len(queue) : queue'[j] = queue[j] /\ queue[j] \in Messages
      BY <1>3, <1>11
    <2>2. ASSUME NEW j \in DOMAIN queue'
          PROVE  Good(queue'[j], heard', sources', settled', delivered)
      <3>1. CASE j = Len(queue) + 1
        BY <3>1, <2>1, <1>11
      <3>2. CASE j \in 1..Len(queue)
        BY <3>2, <2>1, <1>4 DEF Order, QueueInOrder
      <3> QED
        BY <3>1, <3>2, <2>1
    <2>3. ASSUME NEW i \in DOMAIN queue', NEW j \in DOMAIN queue', i < j
          PROVE  Before(queue'[i].chunk, queue'[j].chunk)
      <3>1. i \in 1..Len(queue)
        BY <2>1, <2>3
      <3>2. CASE j = Len(queue) + 1
        BY <3>1, <3>2, <2>1, <1>11
      <3>3. CASE j \in 1..Len(queue)
        BY <3>1, <3>3, <2>1, <2>3 DEF Order, QueueInOrder
      <3> QED
        BY <3>2, <3>3, <2>1
    <2>4. QueueInOrder'
      BY <2>2, <2>3, <1>11 DEF QueueInOrder
    <2>5. ASSUME worker = "transcribing", NEW j \in DOMAIN queue'
          PROVE  Before(current.chunk, queue'[j].chunk)
      BY <2>1, <2>5, <1>11 DEF Order, CurrentInOrder
    <2>6. worker = "transcribing" => Good(current, heard', sources', settled', delivered)
      BY <1>3, <1>4 DEF Order, CurrentInOrder
    <2> QED
      BY <2>4, <2>5, <2>6, <1>11 DEF CurrentInOrder
  \* A chunk cut from the samples at hand comes after everything before it.
  <1>12. ASSUME NEW samples \in Seq(Sample), samples # <<>>, is_recording,
                Gapless(samples, settled, settled + Len(samples)),
                UNCHANGED <<heard, sources>>, settled' = settled + Len(samples),
                NEW e, e = Message(Positions(samples), in_app_mode)
         PROVE  /\ Good(e, heard', sources', settled', delivered)
                /\ \A j \in DOMAIN queue : Before(queue[j].chunk, e.chunk)
                /\ worker = "transcribing" => Before(current.chunk, e.chunk)
    <2>1. in_app_mode = (Last(sources) = "button") /\ sources # <<>> /\ settled' <= Len(heard)
      BY <1>2, <1>12 DEF Inv, Threads, Shape
    <2>2. /\ Stretch(e, heard, sources) /\ Upto(Positions(samples), settled')
          /\ \A c \in Seq(1..MaxSamples) : Upto(c, settled) => Before(c, Positions(samples))
      <3>1. \A n \in (settled + 1)..Len(heard) : heard[n] = Len(sources)
        BY DEF Order, Recent
      <3> QED
        BY <3>1, <2>1, <1>3, <1>12, CutIsStretch
    <2>3. e.chunk = Positions(samples)
      BY <1>12 DEF Message
    <2>4. \A i \in DOMAIN delivered : Before(delivered[i].chunk, e.chunk)
      <3> SUFFICES ASSUME NEW i \in DOMAIN delivered PROVE Before(delivered[i].chunk, e.chunk)
        OBVIOUS
      <3>1. delivered[i] \in Messages
        BY <1>3
      <3> QED
        BY <3>1, <2>2, <2>3 DEF Order, DeliveredSettled, Messages
    <2>5. \A j \in DOMAIN queue : Before(queue[j].chunk, e.chunk)
      <3> SUFFICES ASSUME NEW j \in DOMAIN queue PROVE Before(queue[j].chunk, e.chunk)
        OBVIOUS
      <3>1. queue[j] \in Messages
        BY <1>3
      <3> QED
        BY <3>1, <2>2, <2>3 DEF Order, QueueInOrder, Good, Messages
    <2>6. worker = "transcribing" => Before(current.chunk, e.chunk)
      BY <2>2, <2>3, <1>3 DEF Order, CurrentInOrder, Good, Messages
    <2> QED
      BY <2>2, <2>3, <2>4, <2>5, <2>6, <1>12 DEF Good
  <1>13. ASSUME NEW source \in Source, StopDictation(source) PROVE Order'
    <2> DEFINE all == detector.buffer \o mic
    <2>1. /\ mic' = <<>> /\ settled' = Len(heard) /\ is_recording /\ ~held
          /\ UNCHANGED <<heard, in_app_mode, sources, queue, workerVars>>
      BY <1>13 DEF StopDictation
    <2>2. PICK chunk \in {<<>>, all} : lastChunk' = Positions(chunk)
      BY <1>13, StopTakes
    <2>3. all \in Seq(Sample) /\ Gapless(all, settled, Len(heard))
      <3>1. polled = <<>> /\ detector.buffer \in Seq(Sample) /\ mic \in Seq(Sample)
        BY <2>1 DEF Inv, Shape, Threads, Detector
      <3>2. detector.buffer \o polled \o mic = all
        BY <3>1
      <3> QED
        BY <3>1, <3>2 DEF Inv, Kept
    <2>4. LastInOrder'
      <3> SUFFICES ASSUME lastChunk' # <<>> PROVE LastInOrder'
        BY DEF LastInOrder
      <3>1. chunk = all /\ all # <<>>
        BY <2>2 DEF Positions
      <3>2. Len(heard) = settled + Len(all)
        BY <2>3, <1>3 DEF Gapless
      <3> HIDE DEF all
      <3> QED
        BY <3>1, <3>2, <2>1, <2>2, <2>3, <1>12 DEF LastInOrder, Message
    <2> QED
      BY <2>1, <2>4, <1>1, <1>6, <1>7, <1>8 DEF Order, Grows
  <1>14. CASE StartDictation
    <2>1. UNCHANGED <<delivered, queue, worker, current>> /\ lastChunk' = <<>>
      BY <1>14 DEF StartDictation, Inv, Threads
    <2> QED
      BY <2>1, <1>1, <1>6, <1>7, <1>8 DEF Order, Grows, LastInOrder
  <1>15. CASE SendLast
    <2>1. /\ UNCHANGED <<delivered, worker, current, heard, sources, settled>>
          /\ lastChunk' = <<>> /\ lastChunk # <<>>
      BY <1>15 DEF SendLast, Inv, Threads
    <2>2. QueueInOrder' /\ CurrentInOrder'
      <3>1. CASE UNCHANGED queue
        BY <3>1, <2>1, <1>7, <1>8
      <3>2. CASE queue' = Append(queue, Message(lastChunk, in_app_mode))
        <4> DEFINE e == Message(lastChunk, in_app_mode)
        <4>1. e.chunk = lastChunk
          BY DEF Message
        <4>2. Good(e, heard', sources', settled', delivered)
          BY <2>1 DEF Order, LastInOrder
        <4>3. /\ worker = "transcribing" => Before(current.chunk, e.chunk)
              /\ \A j \in DOMAIN queue : Before(queue[j].chunk, e.chunk)
          BY <2>1, <4>1 DEF Order, LastInOrder
        <4> HIDE DEF e
        <4>4. queue' = Append(queue, e) /\ e \in Messages
          BY <3>2, <1>3 DEF e
        <4> QED
          BY <4>2, <4>3, <4>4, <2>1, <1>11
      <3> QED
        BY <3>1, <3>2, <1>15 DEF SendLast
    <2> QED
      BY <2>1, <2>2, <1>1, <1>6 DEF Order, Grows, LastInOrder
  <1>16. CASE PollPush
    <2> DEFINE all == detector.buffer \o polled
               e == Message(Positions(all), in_app_mode)
    <2>1. UNCHANGED <<delivered, worker, current, lastChunk, in_app_mode, heard, sources>>
      BY <1>16 DEF PollPush
    <2>2. is_recording /\ lastChunk = <<>>
      BY <1>16 DEF PollPush, Inv, Threads
    <2>3. CASE Cut /\ queue' = Append(queue, e)
      <3>1. all \in Seq(Sample) /\ mic \in Seq(Sample) /\ Len(heard) \in Nat
        BY DEF Inv, Shape, Detector
      <3>2. Gapless(all, settled, settled + Len(all))
        BY <3>1, <1>3, Joined DEF Inv, Kept
      <3>3. all # <<>> /\ settled' = settled + Len(all)
        BY <2>3 DEF Cut
      <3>4. e \in Messages
        BY <3>1, PositionsIn DEF Inv, Shape, Message, Messages
      <3> HIDE DEF all
      <3>5. /\ Good(e, heard', sources', settled', delivered)
            /\ \A j \in DOMAIN queue : Before(queue[j].chunk, e.chunk)
            /\ worker = "transcribing" => Before(current.chunk, e.chunk)
        BY <3>1, <3>2, <3>3, <2>1, <2>2, <1>12
      <3> HIDE DEF e
      <3>6. QueueInOrder' /\ CurrentInOrder'
        BY <3>4, <3>5, <2>1, <2>3, <1>11
      <3> QED
        BY <3>6, <2>1, <2>2, <1>1, <1>6 DEF Order, Grows, LastInOrder
    <2>4. CASE UNCHANGED queue
      BY <2>1, <2>4, <1>10
    <2> QED
      BY <2>3, <2>4, <1>16, PollCuts DEF Cut
  <1>17. CASE TakeChunk
    <2>1. /\ worker = "waiting" /\ worker' = "transcribing" /\ queue # <<>>
          /\ current' = Head(queue) /\ queue' = Tail(queue)
          /\ UNCHANGED <<delivered, heard, sources, settled, lastChunk, in_app_mode>>
      BY <1>17 DEF TakeChunk
    <2>2. /\ current' = queue[1] /\ 1 \in DOMAIN queue
          /\ DOMAIN queue' = 1..Len(queue') /\ Len(queue') \in Nat
          /\ \A j \in DOMAIN queue' : queue'[j] = queue[j + 1] /\ j + 1 \in DOMAIN queue
      BY <2>1, <1>3, HeadAndTail
    <2>3. QueueInOrder'
      <3>1. \A i, j \in DOMAIN queue' : i < j => i + 1 < j + 1
        BY <2>2
      <3> QED
        BY <3>1, <2>1, <2>2 DEF Order, QueueInOrder
    <2>4. CurrentInOrder'
      <3>1. \A j \in DOMAIN queue' : 1 < j + 1
        BY <2>2
      <3> QED
        BY <3>1, <2>1, <2>2 DEF Order, QueueInOrder, CurrentInOrder
    <2>5. LastInOrder'
      BY <2>1, <2>2 DEF Order, LastInOrder
    <2> QED
      BY <2>1, <2>3, <2>4, <2>5, <1>1, <1>6 DEF Order, Grows
  <1>18. CASE Transcribe
    <2>1. /\ worker = "transcribing" /\ worker' = "hiding"
          /\ UNCHANGED <<heard, sources, settled, lastChunk, in_app_mode, queue, current>>
      BY <1>18 DEF Transcribe
    <2>2. CurrentInOrder'
      BY <2>1 DEF CurrentInOrder
    <2>3. CASE UNCHANGED delivered
      <3>1. LastInOrder'
        BY <2>1, <2>3 DEF Order, LastInOrder
      <3> QED
        BY <3>1, <2>1, <2>2, <2>3, <1>1, <1>6, <1>7 DEF Order, Grows
    <2>4. CASE delivered' = Append(delivered, current)
      <3>1. \A i \in DOMAIN delivered' :
              delivered'[i] = current \/ (i \in DOMAIN delivered /\ delivered'[i] = delivered[i])
        <4>1. /\ DOMAIN delivered' = 1..(Len(delivered) + 1)
              /\ DOMAIN delivered = 1..Len(delivered) /\ Len(delivered) \in Nat
          BY <2>4, <1>3
        <4>2. /\ delivered'[Len(delivered) + 1] = current
              /\ \A i \in 1..Len(delivered) : delivered'[i] = delivered[i]
          BY <2>4, <1>3, Appended
        <4> QED
          BY <4>1, <4>2
      <3>2. ASSUME NEW m, Good(m, heard, sources, settled, delivered),
                   Before(current.chunk, m.chunk)
            PROVE  Good(m, heard, sources, settled, delivered')
        BY <3>1, <3>2 DEF Good
      <3>3. DeliveredSettled'
        BY <3>1, <2>1 DEF Order, DeliveredSettled, CurrentInOrder, Good
      <3>4. QueueInOrder'
        BY <3>2, <2>1 DEF Order, QueueInOrder, CurrentInOrder
      <3>5. LastInOrder'
        <4> DEFINE e == Message(lastChunk, in_app_mode)
        <4>1. e.chunk = lastChunk
          BY DEF Message
        <4>2. ASSUME lastChunk # <<>> PROVE Good(e, heard, sources, settled, delivered')
          BY <3>2, <4>1, <4>2, <2>1 DEF Order, LastInOrder
        <4> QED
          BY <4>2, <2>1 DEF Order, LastInOrder
      <3> QED
        BY <3>3, <3>4, <3>5, <2>2, <1>1 DEF Order, Grows
    <2> QED
      BY <2>3, <2>4, <1>18 DEF Transcribe
  <1>19. CASE HideOverlay
    <2>1. /\ worker = "hiding" /\ worker' = "waiting"
          /\ UNCHANGED <<delivered, heard, sources, settled, lastChunk, in_app_mode, queue>>
      BY <1>19 DEF HideOverlay
    <2>2. CurrentInOrder' /\ LastInOrder'
      BY <2>1 DEF Order, CurrentInOrder, LastInOrder
    <2> QED
      BY <2>1, <2>2, <1>1, <1>6, <1>7 DEF Order, Grows
  <1>20. CASE \/ \E loud \in BOOLEAN : Capture(loud)
              \/ \E source \in Source : StartRecorder(source)
              \/ StopRecorder \/ PollDrain \/ MeetingTakesEngine \/ MeetingReleasesEngine
              \/ UNCHANGED vars
    <2>1. UNCHANGED <<delivered, queue, worker, current, lastChunk, in_app_mode>>
      BY <1>20 DEF Capture, StartRecorder, StopRecorder, PollDrain, MeetingTakesEngine,
         MeetingReleasesEngine, vars
    <2> QED
      BY <2>1, <1>10
  <1> QED
    BY <1>13, <1>14, <1>15, <1>16, <1>17, <1>18, <1>19, <1>20 DEF Next, Main, Rest
-----------------------------------------------------------------------------
(* The promise *)

\* The refinement mapping of Dictation's Promise.
Spoken(past) == [i \in DOMAIN past |-> [samples |-> past[i].chunk, inApp |-> past[i].emit]]

LEMMA PromiseInit == Init => Promise!Init
  BY DEF Init, Promise!Init

\* Capture is Hear, StartRecorder is Begin, and Transcribe with text is Deliver;
\* every other step leaves the promise's variables alone.
LEMMA PromiseNext ==
  Inv /\ Order /\ [Next]_vars
    => [Promise!Begin \/ Promise!Hear \/ Promise!Deliver]_<<heard, sources, Spoken(delivered)>>
  <1> SUFFICES ASSUME Inv, Order, [Next]_vars
               PROVE  \/ Promise!Begin \/ Promise!Hear \/ Promise!Deliver
                      \/ UNCHANGED <<heard, sources, Spoken(delivered)>>
    OBVIOUS
  <1> USE DEF audioVars, dictVars, pollVars, mainVars, workerVars, Spoken
  <1>1. ASSUME UNCHANGED <<heard, sources, delivered>>
        PROVE  UNCHANGED <<heard, sources, Spoken(delivered)>>
    BY <1>1
  <1>2. ASSUME NEW loud \in BOOLEAN, Capture(loud) PROVE Promise!Hear
    <2>1. sources # <<>> /\ heard' = Append(heard, Len(sources)) /\ UNCHANGED <<sources, delivered>>
      BY <1>2 DEF Capture, Inv, Threads
    <2> QED
      BY <2>1 DEF Promise!Hear
  <1>3. ASSUME NEW source \in Source, StartRecorder(source) PROVE Promise!Begin
    <2>1. sources' = Append(sources, source) /\ UNCHANGED <<heard, delivered>>
      BY <1>3 DEF StartRecorder
    <2> QED
      BY <2>1 DEF Promise!Begin, Source
  <1>4. CASE Transcribe /\ delivered' = Append(delivered, current)
    <2>1. worker = "transcribing" /\ UNCHANGED <<heard, sources>>
      BY <1>4 DEF Transcribe
    <2>2. /\ Stretch(current, heard, sources)
          /\ delivered \in Seq(Messages) /\ heard \in Seq(1..Len(sources))
          /\ \A i \in DOMAIN delivered : Before(delivered[i].chunk, current.chunk)
      BY <2>1 DEF Order, CurrentInOrder, Good, Inv, Shape
    <2>3. PICK from \in 1..Len(heard), to \in 1..Len(heard) :
            /\ from <= to
            /\ \A n \in from..to : heard[n] = heard[from]
            /\ current.chunk = [i \in 1..(to - from + 1) |-> from + i - 1]
            /\ current.emit = (sources[heard[from]] = "button")
      BY <2>2 DEF Stretch
    <2>4. from \in DOMAIN heard /\ to \in DOMAIN heard
      BY <2>2
    <2>5. ASSUME NEW i \in DOMAIN delivered, NEW n \in Promise!Range(delivered[i].chunk)
          PROVE  n < from
      <3>1. PICK k \in DOMAIN delivered[i].chunk : n = delivered[i].chunk[k]
        BY <2>5 DEF Promise!Range
      <3>2. 1 \in DOMAIN current.chunk /\ current.chunk[1] = from
        BY <2>2, <2>3
      <3> QED
        BY <3>1, <3>2, <2>2 DEF Before
    <2>6. Spoken(delivered')
            = Append(Spoken(delivered), [samples |-> current.chunk, inApp |-> current.emit])
      BY <1>4, <2>2
    <2> QED
      BY <2>1, <2>3, <2>4, <2>5, <2>6 DEF Promise!Deliver
  <1>5. CASE \/ \E source \in Source : StopDictation(source)
             \/ StartDictation \/ StopRecorder \/ SendLast \/ PollDrain \/ PollPush
             \/ TakeChunk \/ HideOverlay \/ MeetingTakesEngine \/ MeetingReleasesEngine
             \/ UNCHANGED vars
    <2>1. UNCHANGED <<heard, sources, delivered>>
      BY <1>5 DEF StopDictation, StartDictation, StopRecorder, SendLast, PollDrain, PollPush,
         TakeChunk, HideOverlay, MeetingTakesEngine, MeetingReleasesEngine, vars
    <2> QED
      BY <2>1, <1>1
  <1>6. CASE Transcribe /\ UNCHANGED delivered
    BY <1>6, <1>1 DEF Transcribe
  <1> QED
    BY <1>2, <1>3, <1>4, <1>5, <1>6 DEF Next, Main, Rest, Transcribe

-----------------------------------------------------------------------------
(* Waiting *)

\* The worker has something to do.
Working == queue # <<>> \/ worker # "waiting"

\* Only a live worker is given work, and the overlay is visible only with a
\* recording, a toggle or a chunk under way that will hide it.
Attended == (Working => alive) /\ (overlay => is_recording \/ main # "idle" \/ Working)

\* Something is in flight that must not wait for ever ...
UnderWay == main # "idle" \/ held \/ Working

\* ... and these find the guards of their next step open.
ThreadGoesOn ==
  \/ main = "starting" /\ ~held
  \/ main = "stopping"
  \/ main = "sending" /\ (~alive \/ Len(queue) < ChannelBound)
  \/ held /\ polled # <<>>
  \/ alive /\ worker = "waiting" /\ queue # <<>>
  \/ worker = "transcribing" /\ ~engineBusy
  \/ worker = "hiding"

LEMMA AttendedInit == Init => Attended
  BY DEF Init, Attended, Working

LEMMA AttendedNext == Inv /\ Attended /\ [Next]_vars => Attended'
  <1> SUFFICES ASSUME Inv, Attended, [Next]_vars PROVE Attended'
    OBVIOUS
  <1> USE DEF Attended, Working, audioVars, dictVars, pollVars, mainVars, workerVars
  <1>1. CASE \E loud \in BOOLEAN : Capture(loud)
    BY <1>1 DEF Capture
  <1>2. CASE \E source \in Source : StartRecorder(source)
    BY <1>2 DEF StartRecorder
  <1>3. CASE \E source \in Source : StopDictation(source)
    BY <1>3 DEF StopDictation
  <1>4. CASE StartDictation
    BY <1>4 DEF StartDictation
  <1>5. CASE StopRecorder
    BY <1>5 DEF StopRecorder
  <1>6. CASE SendLast
    <2>1. CASE alive
      <3>1. /\ queue' # <<>> /\ alive' = alive /\ worker' = worker
        BY <1>6, <2>1 DEF SendLast, Inv, Shape
      <3> QED
        BY <2>1, <3>1
    <2>2. CASE ~alive
      BY <1>6, <2>2 DEF SendLast
    <2> QED
      BY <2>1, <2>2
  <1>7. CASE PollDrain
    BY <1>7 DEF PollDrain
  <1>8. CASE PollPush
    <2>1. UNCHANGED <<is_recording, main, worker, alive, overlay>> /\ (queue' = queue \/ alive)
      BY <1>8 DEF PollPush
    <2>2. is_recording
      BY <1>8 DEF PollPush, Inv, Threads
    <2> QED
      BY <2>1, <2>2
  <1>9. CASE TakeChunk
    BY <1>9 DEF TakeChunk
  <1>10. CASE Transcribe
    BY <1>10 DEF Transcribe
  <1>11. CASE HideOverlay
    BY <1>11 DEF HideOverlay
  <1>12. CASE MeetingTakesEngine \/ MeetingReleasesEngine
    BY <1>12 DEF MeetingTakesEngine, MeetingReleasesEngine
  <1>13. CASE UNCHANGED vars
    BY <1>13 DEF vars
  <1> QED
    BY <1>1, <1>2, <1>3, <1>4, <1>5, <1>6, <1>7, <1>8, <1>9, <1>10, <1>11, <1>12, <1>13
       DEF Next, Main, Rest

LEMMA AlwaysAttended == Spec => [](Inv /\ Attended)
  <1>1. Inv /\ Attended /\ [Next]_vars => (Inv /\ Attended)'
    BY NextInv, AttendedNext
  <1> QED
    BY InitInv, AttendedInit, <1>1, PTL DEF Spec

-----------------------------------------------------------------------------
(* The theorems *)

LEMMA Always == Spec => []Inv
  BY InitInv, NextInv, PTL DEF Spec

LEMMA AlwaysInOrder == Spec => [](Inv /\ Order)
  <1>1. Inv /\ Order /\ [Next]_vars => (Inv /\ Order)'
    BY NextInv, OrderNext
  <1> QED
    BY InitInv, OrderInit, <1>1, PTL DEF Spec

\* The threads, the channel and the detector keep their types, and the channel its
\* capacity, however the toggles, the poll thread and the worker interleave (lib.rs).
THEOREM DictationTypes == Spec => []TypeOK
  <1>1. Inv => TypeOK
    BY ShapeTypes DEF Inv
  <1> QED
    BY Always, <1>1, PTL

\* After a toggle has stopped a recording neither the detector nor the poll thread has
\* samples left: the mutex kept from drain to push excludes the stop (lib.rs).
THEOREM StopsTakeEverything == Spec => []StopTakesEverything
  <1>1. Inv => StopTakesEverything
    BY DEF Inv
  <1> QED
    BY Always, <1>1, PTL

\* Every sample since the last chunk or stop is in the detector, in the poll thread's
\* hands or in the recorder, once and in order (lib.rs, transcription.rs).
THEOREM NoSampleDropsOut == Spec => []NothingDropsOut
  <1>1. Inv => NothingDropsOut
    BY KeptDrops DEF Inv
  <1> QED
    BY Always, <1>1, PTL

\* push and flush keep the detector's counters equal to what they count in its buffer,
\* for any way the audio is cut into pushes (transcription.rs).
THEOREM CountersDoMatch == Spec => []CountersMatchBuffer
  <1>1. Inv => CountersMatchBuffer
    BY MatchesCounts DEF Inv, Shape
  <1> QED
    BY Always, <1>1, PTL

\* Dictation implements Utterances: the chunks transcribed are gapless stretches of one
\* recording each, in the order spoken, for the side that started it, although the
\* channel, the worker and a stop each hold chunks of their own (lib.rs).
THEOREM DictationKeepsPromise == Spec => KeepsPromise
  <1>1. Spec => Promise!Init
    BY PromiseInit DEF Spec
  <1>2. Inv /\ Order /\ [Next]_vars
          => [Promise!Begin \/ Promise!Hear \/ Promise!Deliver]_
                 <<heard, sources, Spoken(delivered)>>
    BY PromiseNext
  <1> QED
    BY <1>1, <1>2, AlwaysInOrder, PTL DEF Spec, KeepsPromise, Promise!Spec, Spoken

\* No circle of waiting among the four threads: the poll thread waits for nobody
\* while it holds the mutex, a toggle that is under way never finds it held, and
\* the blocking send waits only for a worker that has a chunk in hand.  Whatever is
\* under way, a thread can go on, unless a meeting has the engine (lib.rs).
THEOREM ThreadsNotStuck == Spec => [](UnderWay => ThreadGoesOn \/ (engineBusy /\ worker = "transcribing"))
  <1>1. Inv /\ Attended => (UnderWay => ThreadGoesOn \/ (engineBusy /\ worker = "transcribing"))
    <2> SUFFICES ASSUME Inv, Attended, UnderWay, ~ThreadGoesOn, worker # "transcribing"
                 PROVE  FALSE
      BY DEF ThreadGoesOn
    <2>1. Shape /\ Threads
      BY DEF Inv
    <2>2. ~held /\ worker = "waiting"
      BY <2>1 DEF ThreadGoesOn, Shape, Threads
    <2>3. queue = <<>>
      BY <2>2 DEF Attended, Working, ThreadGoesOn
    <2>4. Len(queue) < ChannelBound
      BY <2>3, DictationAssumption
    <2> QED
      BY <2>1, <2>2, <2>3, <2>4 DEF UnderWay, Working, ThreadGoesOn, Shape
  <1> QED
    BY AlwaysAttended, <1>1, PTL

\* The overlay outlives no dictation: with no recording, no toggle and no chunk under
\* way it is hidden, whether the model was loaded or not (lib.rs, worker and toggles).
THEOREM OverlayNotLeft == Spec => [](~is_recording /\ ~UnderWay => ~overlay)
  <1>1. Inv /\ Attended => (~is_recording /\ ~UnderWay => ~overlay)
    BY DEF Attended, UnderWay
  <1> QED
    BY AlwaysAttended, <1>1, PTL
=============================================================================
