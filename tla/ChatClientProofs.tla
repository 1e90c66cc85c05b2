--------------------------- MODULE ChatClientProofs ---------------------------
(***************************************************************************)
(* BusyMatchesTurn and AnswersInOwnChat for any sessions and bounds.       *)
(***************************************************************************)
EXTENDS ChatClient, SequenceTheorems, TLAPS

\* A prompt that waits is not completed, does not run, and waits once.
WaitingOpen ==
  /\ open \subseteq 1..submits
  /\ \A i \in DOMAIN up : up[i].kind = "prompt" => up[i].of \in open /\ up[i].of # turn.of

WaitsOnce(frames) ==
  \A i, j \in DOMAIN frames :
    frames[i].kind = "prompt" /\ frames[j].kind = "prompt" /\ i < j => frames[i].of # frames[j].of

WaitingOnce == WaitsOnce(up)

TurnOpen == turn # NoTurn => turn.of \in open

\* What is told of a prompt is told before its completion is heard of,
AnswersOpen ==
  \A i \in DOMAIN down :
    /\ down[i].of <= submits
    /\ down[i].kind \in {"agentEnd", "failed", "complete"} => down[i].of \in open
    /\ down[i].kind = "error" => down[i].of \in open \cup {0}

\* and it no longer waits.
AnswersTaken ==
  \A i \in DOMAIN down, j \in DOMAIN up : up[j].kind = "prompt" => up[j].of # down[i].of

\* After a prompt was completed, or has failed, it neither runs nor is told of.
CompletedOver == \A i \in DOMAIN down : down[i].kind \in {"failed", "complete"} => turn.of # down[i].of

LastWords(frames) ==
  \A i, j \in DOMAIN frames :
    i < j /\ frames[i].kind \in {"failed", "complete"} => frames[j].of # frames[i].of

CompletedLast == LastWords(down)

\* One prompt at most is in the dark, and only if it is alone.
OneOpen == open \subseteq ended \cup excused \/ \E n \in Prompts : open = {n}

\* Until the next switch of the session that is on the way, what starts, runs
\* and waits is of the session that is shown.
Starts(frames, s) ==
  \A i \in DOMAIN frames :
    \/ frames[i].kind = "start" => frames[i].session = s
    \/ \E j \in DOMAIN frames : j < i /\ frames[j].kind = "cleared"

OwnStarts == ~strayed => Starts(down, session)

OwnPrompts ==
  ~strayed /\ (\A j \in DOMAIN down : down[j].kind # "cleared") =>
    /\ turn # NoTurn => turn.session = session
    /\ \A i \in DOMAIN up : up[i].kind = "prompt" => up[i].session = session

\* A closed connection carries nothing, and one being closed only answers.
Connected ==
  /\ socket # "open" => up = <<>> /\ turn = NoTurn
  /\ socket = "closed" => down = <<>>
  /\ turn # NoTurn => turn.of # 0

\* Only sessions the server has are spoken of, and a stop under way was asked for.
Known ==
  /\ turn.session \in sessions \cup {NOSESSION}
  /\ \A i \in DOMAIN up : up[i].session \in sessions \cup {NOSESSION}
  /\ \A i \in DOMAIN down : down[i].session \in sessions \cup {NOSESSION}
  /\ stops <= asks

ClientInv ==
  /\ ClientTypeOK /\ Known /\ Connected
  /\ WaitingOpen /\ WaitingOnce /\ TurnOpen /\ AnswersOpen /\ AnswersTaken
  /\ CompletedOver /\ CompletedLast
  /\ OneOpen /\ OwnStarts /\ OwnPrompts
  /\ BusyMatchesTurn /\ AnswersInOwnChat


-----------------------------------------------------------------------------
(* Sequences of frames *)

UpFrames == Frames({"newChat", "prompt", "steer"})
DownFrames == Frames({"cleared", "start", "agentEnd", "error", "failed", "complete"})

Long(s) == Len(s) \in Nat /\ DOMAIN s = 1..Len(s)

\* t is s with e behind it.
Extended(s, t, e) ==
  /\ Long(s) /\ Long(t) /\ Len(t) = Len(s) + 1 /\ t[Len(t)] = e
  /\ \A i \in DOMAIN s : i \in DOMAIN t /\ i # Len(t) /\ t[i] = s[i]
  /\ \A i \in DOMAIN t : i = Len(t) \/ i \in DOMAIN s

\* t is s without its head.
Shortened(s, t) ==
  /\ Long(s) /\ Long(t) /\ Len(s) = Len(t) + 1
  /\ 1 \in DOMAIN s /\ Head(s) = s[1]
  /\ \A i \in DOMAIN t : i + 1 \in DOMAIN s /\ t[i] = s[i + 1]
  /\ \A i \in DOMAIN s : i = 1 \/ (i - 1 \in DOMAIN t /\ s[i] = t[i - 1])

LEMMA Bounds == MaxSubmits \in Nat /\ MaxAsks \in Nat /\ MaxLosses \in Nat
  BY ChatAssumption

LEMMA AppendIs ==
  ASSUME NEW S, NEW s \in Seq(S), NEW e \in S
  PROVE  Append(s, e) \in Seq(S) /\ Extended(s, Append(s, e), e)
  BY DEF Extended, Long

LEMMA TailIs ==
  ASSUME NEW S, NEW s \in Seq(S), s # <<>>
  PROVE  Tail(s) \in Seq(S) /\ Head(s) \in S /\ Shortened(s, Tail(s))
  BY DEF Shortened, Long

LEMMA PrefixIs ==
  ASSUME NEW S, NEW s \in Seq(S), NEW k \in 0..Len(s)
  PROVE  /\ SubSeq(s, 1, k) \in Seq(S) /\ DOMAIN s = 1..Len(s)
         /\ DOMAIN SubSeq(s, 1, k) = 1..k
         /\ \A i \in 1..k : SubSeq(s, 1, k)[i] = s[i]
  OBVIOUS

LEMMA StaysLast ==
  ASSUME NEW s, NEW t, NEW e, LastWords(s),
         \/ Shortened(s, t)
         \/ /\ Extended(s, t, e)
            /\ \A i \in DOMAIN s : s[i].kind \in {"failed", "complete"} => e.of # s[i].of
  PROVE  LastWords(t)
  <1> SUFFICES ASSUME NEW i \in DOMAIN t, NEW j \in DOMAIN t, i < j,
                      t[i].kind \in {"failed", "complete"}
               PROVE  t[j].of # t[i].of
    BY DEF LastWords
  <1>1. CASE Shortened(s, t)
    <2>1. /\ i + 1 \in DOMAIN s /\ j + 1 \in DOMAIN s /\ i + 1 < j + 1
          /\ t[i] = s[i + 1] /\ t[j] = s[j + 1]
      BY <1>1 DEF Shortened, Long
    <2> QED
      BY <2>1 DEF LastWords
  <1>2. CASE /\ Extended(s, t, e)
             /\ \A k \in DOMAIN s : s[k].kind \in {"failed", "complete"} => e.of # s[k].of
    <2>1. i \in DOMAIN s /\ t[i] = s[i]
      BY <1>2 DEF Extended, Long
    <2>2. CASE j = Len(t)
      BY <1>2, <2>1, <2>2 DEF Extended
    <2>3. CASE j # Len(t)
      BY <1>2, <2>1, <2>3 DEF Extended, LastWords
    <2> QED
      BY <2>2, <2>3
  <1> QED
    BY <1>1, <1>2

LEMMA StaysOwn ==
  ASSUME NEW s, NEW t, NEW e, NEW v, Starts(s, v),
         \/ Shortened(s, t) /\ s[1].kind # "cleared"
         \/ /\ Extended(s, t, e)
            /\ \/ e.kind = "start" => e.session = v
               \/ \E j \in DOMAIN s : s[j].kind = "cleared"
  PROVE  Starts(t, v)
  <1> SUFFICES ASSUME NEW i \in DOMAIN t, t[i].kind = "start", t[i].session # v
               PROVE  \E j \in DOMAIN t : j < i /\ t[j].kind = "cleared"
    BY DEF Starts
  <1>1. CASE Shortened(s, t) /\ s[1].kind # "cleared"
    <2>1. i + 1 \in DOMAIN s /\ t[i] = s[i + 1] /\ i \in Nat
      BY <1>1 DEF Shortened, Long
    <2>2. PICK j \in DOMAIN s : j < i + 1 /\ s[j].kind = "cleared"
      BY <2>1 DEF Starts
    <2>3. j # 1 /\ j - 1 \in DOMAIN t /\ s[j] = t[j - 1] /\ j \in Nat
      BY <1>1, <2>2 DEF Shortened, Long
    <2>4. j - 1 < i
      BY <2>1, <2>2, <2>3
    <2> QED
      BY <2>2, <2>3, <2>4
  <1>2. CASE /\ Extended(s, t, e)
             /\ \/ e.kind = "start" => e.session = v
                \/ \E j \in DOMAIN s : s[j].kind = "cleared"
    <2>1. CASE i \in DOMAIN s
      <3>1. PICK j \in DOMAIN s : j < i /\ s[j].kind = "cleared"
        BY <1>2, <2>1 DEF Starts, Extended
      <3> QED
        BY <1>2, <3>1 DEF Extended
    <2>2. CASE i = Len(t)
      <3>1. PICK j \in DOMAIN s : s[j].kind = "cleared"
        BY <1>2, <2>2 DEF Extended
      <3>2. j \in DOMAIN t /\ j < i /\ t[j] = s[j]
        BY <1>2, <2>2 DEF Extended, Long
      <3> QED
        BY <3>1, <3>2
    <2> QED
      BY <1>2, <2>1, <2>2 DEF Extended
  <1> QED
    BY <1>1, <1>2

LEMMA CalmBefore ==
  ASSUME NEW s, NEW t, Shortened(s, t), s[1].kind # "cleared",
         \A j \in DOMAIN t : t[j].kind # "cleared"
  PROVE  \A j \in DOMAIN s : s[j].kind # "cleared"
  BY DEF Shortened

LEMMA StaysOnce ==
  ASSUME NEW s, NEW t, Shortened(s, t), WaitsOnce(s)
  PROVE  /\ WaitsOnce(t)
         /\ s[1].kind = "prompt" => \A i \in DOMAIN t : t[i].kind = "prompt" => t[i].of # s[1].of
  <1>1. ASSUME NEW i \in DOMAIN t, NEW j \in DOMAIN t, i < j
        PROVE  /\ i + 1 \in DOMAIN s /\ j + 1 \in DOMAIN s /\ i + 1 < j + 1
               /\ t[i] = s[i + 1] /\ t[j] = s[j + 1]
    BY <1>1 DEF Shortened, Long
  <1>2. ASSUME NEW i \in DOMAIN t
        PROVE  1 \in DOMAIN s /\ i + 1 \in DOMAIN s /\ 1 < i + 1 /\ t[i] = s[i + 1]
    BY <1>2 DEF Shortened, Long
  <1> QED
    BY <1>1, <1>2 DEF WaitsOnce

LEMMA OneMore ==
  ASSUME NEW n \in Nat, NEW s, s \subseteq 1..n
  PROVE  s \cup {n + 1} \subseteq 1..(n + 1)
  <1>1. n + 1 \in 1..(n + 1) /\ 1..n \subseteq 1..(n + 1)
    OBVIOUS
  <1> QED
    BY <1>1

LEMMA UpFrameIs ==
  ASSUME NEW kind \in {"newChat", "prompt", "steer"}, NEW n \in 0..MaxSubmits,
         NEW s \in Session \cup {NOSESSION}
  PROVE  /\ Frame(kind, n, s) \in UpFrames /\ Frame(kind, n, s).kind = kind
         /\ Frame(kind, n, s).of = n /\ Frame(kind, n, s).session = s
  BY DEF Frame, Frames, UpFrames

LEMMA DownFrameIs ==
  ASSUME NEW kind \in {"cleared", "start", "agentEnd", "error", "failed", "complete"},
         NEW n \in 0..MaxSubmits, NEW s \in Session \cup {NOSESSION}
  PROVE  /\ Frame(kind, n, s) \in DownFrames /\ Frame(kind, n, s).kind = kind
         /\ Frame(kind, n, s).of = n /\ Frame(kind, n, s).session = s
  BY DEF Frame, Frames, DownFrames

\* The frames there are, as the invariants speak of them.
LEMMA Shapes ==
  ASSUME ClientTypeOK
  PROVE  /\ Long(up) /\ Long(down)
         /\ \A i \in 1..Len(up) : up[i].of \in 0..MaxSubmits /\ up[i].session \in Session \cup {NOSESSION}
         /\ \A i \in 1..Len(down) : down[i].of \in 0..MaxSubmits /\ down[i].session \in Session \cup {NOSESSION}
         /\ turn.of \in 0..MaxSubmits /\ submits \in 0..MaxSubmits
  <1>1. up \in Seq(UpFrames) /\ down \in Seq(DownFrames)
    BY DEF ClientTypeOK, UpFrames, DownFrames
  <1>2. \A i \in 1..Len(up) : up[i] \in UpFrames
    BY <1>1
  <1>3. \A i \in 1..Len(down) : down[i] \in DownFrames
    BY <1>1
  <1>4. Long(up) /\ Long(down)
    BY <1>1 DEF Long
  <1> QED
    BY <1>2, <1>3, <1>4 DEF UpFrames, DownFrames, Frames, ClientTypeOK

-----------------------------------------------------------------------------
(* The invariant *)

\* What a submit, a taken frame, a told one and a heard one leave alone.
Submitting ==
  /\ socket # "closed" /\ submits < MaxSubmits /\ submits' = submits + 1
  /\ excused' = excused \cup open \cup (IF open # {} /\ socket = "open" THEN {submits + 1} ELSE {})
  /\ severed' = FALSE
  /\ UNCHANGED <<socket, down, serverVars, session, refVars, loads, stops, ended, asks, losses>>

Taking ==
  /\ socket = "open" /\ turn = NoTurn /\ up # <<>> /\ up' = Tail(up)
  /\ UNCHANGED <<socket, chatVars, pastVars, boundVars>>

Running ==
  /\ socket = "open" /\ turn.stage \in {"new", "running", "ended"}
  /\ UNCHANGED <<socket, up, sessions, chatVars, pastVars, boundVars>>

Hearing ==
  /\ socket # "closed" /\ down # <<>> /\ down' = Tail(down)
  /\ UNCHANGED <<socket, up, serverVars, refVars, loads, stops, boundVars>>

LEMMA ClientInitInv == ClientInit => ClientInv
  <1> SUFFICES ASSUME ClientInit PROVE ClientInv
    OBVIOUS
  <1> USE Bounds DEF ClientInit, NoTurn
  <1>1. ClientTypeOK
    <2>1. /\ turn \in [of : 0..MaxSubmits, session : Session \cup {NOSESSION},
                       stage : {"none", "new", "running", "ended", "erred"}]
          /\ up \in Seq(UpFrames) /\ down \in Seq(DownFrames)
      OBVIOUS
    <2>2. submits \in 0..MaxSubmits
      OBVIOUS
    <2>3. asks \in 0..MaxAsks /\ stops \in 0..MaxAsks
      OBVIOUS
    <2>4. losses \in 0..MaxLosses
      OBVIOUS
    <2> QED
      BY <2>1, <2>2, <2>3, <2>4 DEF ClientTypeOK, UpFrames, DownFrames
  <1>2. Known /\ Connected /\ WaitingOpen /\ WaitingOnce /\ TurnOpen /\ AnswersOpen
    BY DEF Known, Connected, WaitingOpen, WaitingOnce, WaitsOnce, TurnOpen, AnswersOpen
  <1>3. AnswersTaken /\ CompletedOver /\ CompletedLast /\ OneOpen /\ OwnStarts /\ OwnPrompts
    BY DEF AnswersTaken, CompletedOver, CompletedLast, LastWords, OneOpen, OwnStarts, Starts,
           OwnPrompts
  <1>4. BusyMatchesTurn /\ AnswersInOwnChat
    BY DEF BusyMatchesTurn, AnswersInOwnChat
  <1> QED
    BY <1>1, <1>2, <1>4, <1>3 DEF ClientInv

LEMMA ClientNextInv == ClientInv /\ [ClientNext]_clientVars => ClientInv'
  <1> SUFFICES ASSUME ClientInv, [ClientNext]_clientVars PROVE ClientInv'
    OBVIOUS
  <1> USE DEF ClientInv, serverVars, chatVars, refVars, pastVars, boundVars
  <1>1. ASSUME Connect PROVE ClientInv'
    <2> USE <1>1 DEF Connect
    <2>1. up' = <<NewChatFrame>> /\ NewChatFrame \in UpFrames /\ NewChatFrame.kind = "newChat"
        /\ NewChatFrame.session = NOSESSION
      BY UpFrameIs, Bounds DEF NewChatFrame
    <2>2. up' \in Seq(UpFrames) /\ Len(up') = 1 /\ DOMAIN up' = {1} /\ up'[1] = NewChatFrame
      BY <2>1
    <2>3. ClientTypeOK'
      BY <2>1, <2>2, Bounds, Shapes DEF ClientTypeOK, UpFrames, DownFrames, Frames, Prompts, Known,
         SwitchTo, OpenElsewhere, Shortened, NoTurn, AnswersOpen
    <2>4. Known'
      BY <2>1, <2>2, Shapes DEF Known
    <2>5. WaitingOpen'
      BY <2>1, <2>2, Shapes, Bounds, StaysOnce DEF WaitingOpen
    <2>6. WaitingOnce'
      BY DEF WaitingOnce, WaitsOnce, WaitingOpen, Extended, Shortened, Long
    <2>7. AnswersTaken'
      BY <2>1, <2>2, Shapes, StaysOnce DEF AnswersTaken
    <2>8. OwnPrompts'
      BY <2>1, <2>2, Shapes, CalmBefore DEF OwnPrompts
    <2>9. /\ Connected' /\ TurnOpen' /\ AnswersOpen' /\ CompletedOver' /\ CompletedLast'
           /\ OneOpen' /\ OwnStarts' /\ BusyMatchesTurn' /\ AnswersInOwnChat'
      BY DEF Connected, TurnOpen, AnswersOpen, CompletedOver, CompletedLast, OneOpen, OwnStarts,
         BusyMatchesTurn, AnswersInOwnChat
    <2> QED
      BY <2>3, <2>4, <2>5, <2>6, <2>7, <2>8, <2>9
  <1>2. ASSUME Lose PROVE ClientInv'
    <2> USE <1>2 DEF Lose
    <2>1. PICK k \in 0..Len(down) :
        /\ down' \in Seq(DownFrames) /\ DOMAIN down' = 1..k
        /\ DOMAIN down = 1..Len(down) /\ Len(down) \in Nat
        /\ \A i \in 1..k : down'[i] = down[i]
      BY DEF ClientTypeOK, DownFrames, Long
    <2>2. NoTurn \in [of : 0..MaxSubmits, session : Session \cup {NOSESSION},
                   stage : {"none", "new", "running", "ended", "erred"}]
      BY Bounds DEF NoTurn
    <2>3. ClientTypeOK'
      BY <2>1, <2>2, Bounds, Shapes DEF ClientTypeOK
    <2>4. Known'
      BY DEF Known, ClientTypeOK, NoTurn, Extended, Shortened, Long
    <2>5. WaitingOnce'
      BY DEF WaitingOnce, WaitsOnce, WaitingOpen, Extended, Shortened, Long
    <2>6. CompletedOver'
      BY DEF CompletedOver, CompletedLast, LastWords, AnswersOpen, AnswersTaken, WaitingOpen,
         TurnOpen, Connected, Extended, Shortened, Long, NoTurn
    <2>7. CompletedLast'
      BY DEF CompletedLast, LastWords
    <2>8. OwnStarts'
      <3> SUFFICES ASSUME ~strayed', NEW i \in DOMAIN down', down'[i].kind = "start", down'[i].session # session'
               PROVE  \E j \in DOMAIN down' : j < i /\ down'[j].kind = "cleared"
        BY DEF OwnStarts, Starts
      <3>1. i \in DOMAIN down /\ down[i] = down'[i] /\ i \in 1..k
        BY <2>1, <2>2
      <3>2. PICK j \in DOMAIN down : j < i /\ down[j].kind = "cleared"
        BY DEF OwnStarts, Starts
      <3>3. j \in 1..k
        BY <3>1, <3>2, <2>1, <2>2
      <3> QED
        BY <3>2, <3>3, <2>1, <2>2
    <2>9. /\ Connected' /\ WaitingOpen' /\ TurnOpen' /\ AnswersOpen' /\ AnswersTaken'
           /\ OneOpen' /\ OwnPrompts' /\ BusyMatchesTurn' /\ AnswersInOwnChat'
      BY DEF Connected, WaitingOpen, TurnOpen, AnswersOpen, AnswersTaken, OneOpen, OwnPrompts,
         BusyMatchesTurn, AnswersInOwnChat
    <2> QED
      BY <2>3, <2>4, <2>5, <2>6, <2>7, <2>8, <2>9
  <1>3. ASSUME Closed PROVE ClientInv'
    <2> USE <1>3 DEF Closed
    <2>1. WaitingOpen'
      BY DEF WaitingOpen, WaitingOnce, TurnOpen, AnswersOpen, AnswersTaken, CompletedOver,
         Connected, Extended, Shortened, Long, NoTurn
    <2>2. TurnOpen'
      BY DEF TurnOpen, WaitingOpen, CompletedOver, CompletedLast, LastWords, Connected, Extended,
         Shortened, Long, NoTurn
    <2>3. /\ ClientTypeOK' /\ Known' /\ Connected' /\ WaitingOnce' /\ AnswersOpen'
           /\ AnswersTaken' /\ CompletedOver' /\ CompletedLast' /\ OneOpen' /\ OwnStarts'
           /\ OwnPrompts' /\ BusyMatchesTurn' /\ AnswersInOwnChat'
      BY DEF ClientTypeOK, Known, Connected, WaitingOnce, AnswersOpen, AnswersTaken, CompletedOver,
         CompletedLast, OneOpen, OwnStarts, OwnPrompts, BusyMatchesTurn, AnswersInOwnChat
    <2> QED
      BY <2>1, <2>2, <2>3
  <1>4. ASSUME Steer PROVE ClientInv'
    <2> USE <1>4 DEF Steer
    <2>1. ASSUME socket = "open"
         PROVE  ClientInv'
      <3> USE <2>1
      <3>1. /\ Frame("steer", 0, sessionRef) \in UpFrames
            /\ Frame("steer", 0, sessionRef).kind = "steer"
            /\ Frame("steer", 0, sessionRef).of = 0
            /\ Frame("steer", 0, sessionRef).session = sessionRef
        BY UpFrameIs, ChatAssumption, Shapes DEF ClientTypeOK, Known
      <3>2. up' \in Seq(UpFrames) /\ Extended(up, up', Frame("steer", 0, sessionRef))
        BY <3>1, AppendIs DEF ClientTypeOK, UpFrames, NewChatFrame
      <3>3. ClientTypeOK'
        BY <3>1, <3>2, Bounds, Shapes, SMTT(60) DEF ClientTypeOK, UpFrames, DownFrames, Frames, Prompts,
           Known, SwitchTo, OpenElsewhere, Shortened, NoTurn, AnswersOpen
      <3>4. Known'
        BY <3>1, <3>2, Shapes DEF Known, ClientTypeOK, NoTurn, Extended, Shortened, Long
      <3>5. WaitingOpen'
        BY <3>1, <3>2, Shapes, Bounds, StaysOnce DEF WaitingOpen
      <3>6. WaitingOnce'
        BY <3>1, <3>2, Shapes, StaysOnce DEF WaitingOnce, WaitsOnce, WaitingOpen, Extended,
           Shortened, Long
      <3>7. AnswersOpen'
        BY <3>1, <3>2, Shapes, SMTT(60) DEF AnswersOpen
      <3>8. AnswersTaken'
        BY <3>1, <3>2, Shapes, StaysOnce DEF AnswersTaken
      <3>9. OwnPrompts'
        <4>1. ~strayed' => ~strayed
          OBVIOUS
        <4>2. \A i \in DOMAIN up' : up'[i].kind = "prompt" => i \in DOMAIN up /\ up'[i] = up[i]
          BY <3>1, <3>2 DEF Extended
        <4> QED
          BY <4>1, <4>2 DEF OwnPrompts
      <3>10. /\ Connected' /\ TurnOpen' /\ CompletedOver' /\ CompletedLast' /\ OneOpen'
             /\ OwnStarts' /\ BusyMatchesTurn' /\ AnswersInOwnChat'
        BY DEF Connected, TurnOpen, CompletedOver, CompletedLast, OneOpen, OwnStarts,
           BusyMatchesTurn, AnswersInOwnChat
      <3> QED
        BY <3>3, <3>4, <3>5, <3>6, <3>7, <3>8, <3>9, <3>10
    <2>2. ASSUME socket # "open"
         PROVE  ClientInv'
      <3> USE <2>2
      <3>1. ClientTypeOK'
        BY Bounds, Shapes DEF ClientTypeOK
      <3>2. WaitingOpen'
        BY Shapes, Bounds, StaysOnce DEF WaitingOpen
      <3>3. AnswersOpen'
        BY Shapes DEF AnswersOpen
      <3>4. /\ Known' /\ Connected' /\ WaitingOnce' /\ TurnOpen' /\ AnswersTaken'
             /\ CompletedOver' /\ CompletedLast' /\ OneOpen' /\ OwnStarts' /\ OwnPrompts'
             /\ BusyMatchesTurn' /\ AnswersInOwnChat'
        BY DEF Known, Connected, WaitingOnce, TurnOpen, AnswersTaken, CompletedOver, CompletedLast,
           OneOpen, OwnStarts, OwnPrompts, BusyMatchesTurn, AnswersInOwnChat
      <3> QED
        BY <3>1, <3>2, <3>3, <3>4
    <2> QED
      BY <2>1, <2>2
  <1>5. ASSUME Submit PROVE ClientInv'
    <2>1. Submitting
      BY <1>5 DEF Submit, Submitting
    <2>2. ASSUME socket = "open", up' = Append(up, Frame("prompt", submits + 1, sessionRef)),
           isProcessing' = TRUE, view' = view \cup {sessionRef}, open' = open \cup {submits + 1},
           strayed' = (strayed \/ sessionRef # session)
         PROVE  ClientInv'
      <3> USE <2>1, <2>2 DEF Submitting
      <3>1. /\ Frame("prompt", submits + 1, sessionRef) \in UpFrames
            /\ Frame("prompt", submits + 1, sessionRef).kind = "prompt"
            /\ Frame("prompt", submits + 1, sessionRef).of = submits + 1
            /\ Frame("prompt", submits + 1, sessionRef).session = sessionRef
        BY UpFrameIs, Bounds DEF ClientTypeOK
      <3>2. up' \in Seq(UpFrames) /\ Extended(up, up', Frame("prompt", submits + 1, sessionRef))
        BY <3>1, AppendIs DEF ClientTypeOK, UpFrames, NewChatFrame
      <3>3. ClientTypeOK'
        <4> USE Bounds, Shapes DEF ClientTypeOK
        <4>1. up' \in Seq(UpFrames)
          BY <3>2
        <4>2. submits' \in 0..MaxSubmits
          OBVIOUS
        <4>3. submits + 1 \in Prompts
          BY DEF Prompts
        <4>4. open' \subseteq Prompts /\ excused' \subseteq Prompts
          BY <4>3
        <4>5. /\ turn' = turn /\ sessions' = sessions /\ socket' = socket /\ down' = down
              /\ UNCHANGED <<session, refVars, loads, stops, ended, asks, losses>>
          OBVIOUS
        <4>6. /\ view' \subseteq sessions \cup {NOSESSION} /\ isProcessing' = TRUE
              /\ severed' = FALSE /\ strayed' \in BOOLEAN
          OBVIOUS
        <4> QED
          BY <4>1, <4>2, <4>4, <4>5, <4>6 DEF UpFrames
      <3>4. Known'
        BY <3>1, <3>2, Shapes DEF Known, ClientTypeOK, NoTurn, Extended, Shortened, Long
      <3>5. WaitingOpen'
        <4>1. submits \in Nat /\ submits' = submits + 1
          BY Bounds, Shapes
        <4>2. open' \subseteq 1..submits'
          BY <4>1, OneMore DEF WaitingOpen
        <4>3. turn.of \in 0..submits
          BY Bounds, Shapes DEF WaitingOpen, TurnOpen, NoTurn
        <4>4. submits + 1 # turn.of
          BY <4>3, Bounds, Shapes
        <4> QED
          BY <4>2, <4>4, <3>1, <3>2 DEF WaitingOpen, Extended
      <3>6. WaitingOnce'
        BY <3>1, <3>2, Shapes, StaysOnce DEF WaitingOnce, WaitsOnce, WaitingOpen, Extended,
           Shortened, Long
      <3>7. AnswersOpen'
        BY <3>1, <3>2, Shapes DEF AnswersOpen, CompletedLast, LastWords, TurnOpen, WaitingOpen,
           Connected, Extended, Shortened, Long, NoTurn
      <3>8. AnswersTaken'
        BY <3>1, <3>2, Shapes, StaysOnce DEF AnswersTaken, AnswersOpen, WaitingOpen, WaitingOnce,
           Connected, Extended, Shortened, Long, NoTurn
      <3>9. OneOpen'
        <4>1. CASE open = {}
          <5>1. open' = {submits + 1} /\ submits + 1 \in Prompts
            BY <4>1, Bounds, Shapes DEF Prompts
          <5> QED
            BY <5>1 DEF OneOpen, Prompts
        <4>2. CASE open # {}
          BY <4>2 DEF OneOpen
        <4> QED
          BY <4>1, <4>2
      <3>10. OwnPrompts'
        <4>1. ~strayed' => ~strayed /\ sessionRef = session
          OBVIOUS
        <4>2. \A i \in DOMAIN up' : \/ i \in DOMAIN up /\ up'[i] = up[i]
                                   \/ up'[i].session = sessionRef
          BY <3>1, <3>2 DEF Extended
        <4> QED
          BY <4>1, <4>2 DEF OwnPrompts
      <3>11. /\ Connected' /\ TurnOpen' /\ CompletedOver' /\ CompletedLast' /\ OwnStarts'
             /\ BusyMatchesTurn' /\ AnswersInOwnChat'
        BY DEF Connected, TurnOpen, CompletedOver, CompletedLast, OwnStarts, BusyMatchesTurn,
           AnswersInOwnChat
      <3> QED
        BY <3>3, <3>4, <3>5, <3>6, <3>7, <3>8, <3>9, <3>10, <3>11
    <2>3. ASSUME socket # "open", isProcessing' = FALSE, UNCHANGED <<up, view, strayed, open>>
         PROVE  ClientInv'
      <3> USE <2>1, <2>3 DEF Submitting
      <3>1. ClientTypeOK'
        <4> USE Bounds, Shapes DEF ClientTypeOK
        <4>1. submits' \in 0..MaxSubmits
          OBVIOUS
        <4>2. excused' \subseteq Prompts
          OBVIOUS
        <4>3. /\ turn' = turn /\ sessions' = sessions /\ socket' = socket /\ down' = down
              /\ UNCHANGED <<session, refVars, loads, stops, ended, asks, losses>>
          OBVIOUS
        <4>4. up' = up /\ view' = view /\ strayed' = strayed /\ open' = open
          OBVIOUS
        <4>5. isProcessing' = FALSE /\ severed' = FALSE
          OBVIOUS
        <4> QED
          BY <4>1, <4>2, <4>3, <4>4, <4>5
      <3>2. WaitingOpen'
        BY Shapes, Bounds, StaysOnce DEF WaitingOpen
      <3>3. AnswersOpen'
        BY Shapes DEF AnswersOpen
      <3>4. /\ Known' /\ Connected' /\ WaitingOnce' /\ TurnOpen' /\ AnswersTaken'
             /\ CompletedOver' /\ CompletedLast' /\ OneOpen' /\ OwnStarts' /\ OwnPrompts'
             /\ BusyMatchesTurn' /\ AnswersInOwnChat'
        BY DEF Known, Connected, WaitingOnce, TurnOpen, AnswersTaken, CompletedOver, CompletedLast,
           OneOpen, OwnStarts, OwnPrompts, BusyMatchesTurn, AnswersInOwnChat
      <3> QED
        BY <3>1, <3>2, <3>3, <3>4
    <2> QED
      BY <1>5, <2>2, <2>3 DEF Submit
  <1>6. ASSUME NewChat PROVE ClientInv'
    <2> USE <1>6 DEF NewChat, Asked
    <2>1. ASSUME socket = "open"
         PROVE  ClientInv'
      <3> USE <2>1
      <3>1. /\ Frame("newChat", 0, NOSESSION) \in UpFrames
            /\ Frame("newChat", 0, NOSESSION).kind = "newChat"
            /\ Frame("newChat", 0, NOSESSION).of = 0
            /\ Frame("newChat", 0, NOSESSION).session = NOSESSION
        BY UpFrameIs, Bounds DEF ClientTypeOK
      <3>2. up' \in Seq(UpFrames) /\ Extended(up, up', Frame("newChat", 0, NOSESSION))
        BY <3>1, AppendIs DEF ClientTypeOK, UpFrames, NewChatFrame
      <3>3. ClientTypeOK'
        BY <3>1, <3>2, Bounds, Shapes DEF ClientTypeOK, UpFrames, DownFrames, Frames, Prompts,
           Known, SwitchTo, OpenElsewhere, Shortened, NoTurn, AnswersOpen
      <3>4. Known'
        BY <3>1, <3>2, Shapes DEF Known, ClientTypeOK, NoTurn, Extended, Shortened, Long
      <3>5. WaitingOpen'
        BY <3>1, <3>2, Shapes, Bounds, StaysOnce DEF WaitingOpen, WaitingOnce, TurnOpen,
           AnswersOpen, AnswersTaken, CompletedOver, Connected, Extended, Shortened, Long, NoTurn
      <3>6. WaitingOnce'
        BY <3>1, <3>2, Shapes, StaysOnce DEF WaitingOnce, WaitsOnce, WaitingOpen, Extended,
           Shortened, Long
      <3>7. AnswersTaken'
        BY <3>1, <3>2, Shapes, StaysOnce DEF AnswersTaken, AnswersOpen, WaitingOpen, WaitingOnce,
           Connected, Extended, Shortened, Long, NoTurn
      <3>8. OwnPrompts'
        BY <3>1, <3>2, Shapes, CalmBefore DEF OwnPrompts, Connected, OpenElsewhere, WaitingOpen,
           Extended, Shortened, Long, NoTurn
      <3>9. /\ Connected' /\ TurnOpen' /\ AnswersOpen' /\ CompletedOver' /\ CompletedLast'
             /\ OneOpen' /\ OwnStarts' /\ BusyMatchesTurn' /\ AnswersInOwnChat'
        BY DEF Connected, TurnOpen, AnswersOpen, CompletedOver, CompletedLast, OneOpen, OwnStarts,
           BusyMatchesTurn, AnswersInOwnChat
      <3> QED
        BY <3>3, <3>4, <3>5, <3>6, <3>7, <3>8, <3>9
    <2>2. ASSUME socket # "open"
         PROVE  ClientInv'
      <3> USE <2>2
      <3>1. ClientTypeOK'
        BY Bounds, Shapes DEF ClientTypeOK
      <3>2. Known'
        BY DEF Known, ClientTypeOK, NoTurn, Extended, Shortened, Long
      <3>3. /\ Connected' /\ WaitingOpen' /\ WaitingOnce' /\ TurnOpen' /\ AnswersOpen'
             /\ AnswersTaken' /\ CompletedOver' /\ CompletedLast' /\ OneOpen' /\ OwnStarts'
             /\ OwnPrompts' /\ BusyMatchesTurn' /\ AnswersInOwnChat'
        BY DEF Connected, WaitingOpen, WaitingOnce, TurnOpen, AnswersOpen, AnswersTaken,
           CompletedOver, CompletedLast, OneOpen, OwnStarts, OwnPrompts, BusyMatchesTurn,
           AnswersInOwnChat
      <3> QED
        BY <3>1, <3>2, <3>3
    <2> QED
      BY <2>1, <2>2
  <1>7. ASSUME AskStop PROVE ClientInv'
    <2> USE <1>7 DEF AskStop, Asked
    <2>1. ClientTypeOK'
      BY Bounds, Shapes DEF ClientTypeOK, UpFrames, DownFrames, Frames, Prompts, Known, SwitchTo,
         OpenElsewhere, Shortened, NoTurn, AnswersOpen
    <2>2. Known'
      BY DEF Known, ClientTypeOK, NoTurn, Extended, Shortened, Long
    <2>3. /\ Connected' /\ WaitingOpen' /\ WaitingOnce' /\ TurnOpen' /\ AnswersOpen'
           /\ AnswersTaken' /\ CompletedOver' /\ CompletedLast' /\ OneOpen' /\ OwnStarts'
           /\ OwnPrompts' /\ BusyMatchesTurn' /\ AnswersInOwnChat'
      BY DEF Connected, WaitingOpen, WaitingOnce, TurnOpen, AnswersOpen, AnswersTaken,
         CompletedOver, CompletedLast, OneOpen, OwnStarts, OwnPrompts, BusyMatchesTurn,
         AnswersInOwnChat
    <2> QED
      BY <2>1, <2>2, <2>3
  <1>8. ASSUME StopAnswered PROVE ClientInv'
    <2> USE <1>8 DEF StopAnswered, Idle
    <2>1. ClientTypeOK'
      <3> USE Bounds, Shapes DEF ClientTypeOK
      <3>1. /\ up' \in Seq(UpFrames) /\ down' \in Seq(DownFrames)
            /\ turn' = turn /\ sessions' = sessions /\ socket' = socket
        BY DEF UpFrames, DownFrames
      <3>2. isProcessing' \in BOOLEAN
        OBVIOUS
      <3>3. severed' \in BOOLEAN
        OBVIOUS
      <3>4. strayed' \in BOOLEAN
        BY DEF OpenElsewhere
      <3>5. open' \subseteq Prompts /\ ended' \subseteq Prompts /\ excused' \subseteq Prompts
        OBVIOUS
      <3>6. session' \in sessions \cup {NOSESSION} /\ view' \subseteq sessions \cup {NOSESSION}
        BY DEF Known, Shortened
      <3>7. /\ stops' \in 0..MaxAsks /\ loads' \subseteq sessions
            /\ submits' = submits /\ asks' = asks /\ losses' = losses /\ UNCHANGED refVars
        OBVIOUS
      <3> QED
        BY <3>1, <3>2, <3>3, <3>4, <3>5, <3>6, <3>7 DEF UpFrames, DownFrames
    <2>2. Known'
      BY DEF Known, ClientTypeOK, NoTurn, Extended, Shortened, Long
    <2>3. /\ Connected' /\ WaitingOpen' /\ WaitingOnce' /\ TurnOpen' /\ AnswersOpen'
           /\ AnswersTaken' /\ CompletedOver' /\ CompletedLast' /\ OneOpen' /\ OwnStarts'
           /\ OwnPrompts' /\ BusyMatchesTurn' /\ AnswersInOwnChat'
      BY DEF Connected, WaitingOpen, WaitingOnce, TurnOpen, AnswersOpen, AnswersTaken,
         CompletedOver, CompletedLast, OneOpen, OwnStarts, OwnPrompts, BusyMatchesTurn,
         AnswersInOwnChat
    <2> QED
      BY <2>1, <2>2, <2>3
  <1>9. ASSUME NEW s \in Session, AskLoad(s) PROVE ClientInv'
    <2> USE <1>9 DEF AskLoad, Asked
    <2>1. ClientTypeOK'
      BY Bounds, Shapes DEF ClientTypeOK
    <2>2. Known'
      BY DEF Known, ClientTypeOK, NoTurn, Extended, Shortened, Long
    <2>3. /\ Connected' /\ WaitingOpen' /\ WaitingOnce' /\ TurnOpen' /\ AnswersOpen'
           /\ AnswersTaken' /\ CompletedOver' /\ CompletedLast' /\ OneOpen' /\ OwnStarts'
           /\ OwnPrompts' /\ BusyMatchesTurn' /\ AnswersInOwnChat'
      BY DEF Connected, WaitingOpen, WaitingOnce, TurnOpen, AnswersOpen, AnswersTaken,
         CompletedOver, CompletedLast, OneOpen, OwnStarts, OwnPrompts, BusyMatchesTurn,
         AnswersInOwnChat
    <2> QED
      BY <2>1, <2>2, <2>3
  <1>10. ASSUME NEW s \in Session, LoadAnswered(s) PROVE ClientInv'
    <2> USE <1>10 DEF LoadAnswered, SwitchTo
    <2>1. ClientTypeOK'
      BY ZenonT(60) DEF ClientTypeOK, UpFrames, DownFrames, Frames, Prompts, Known, SwitchTo, OpenElsewhere,
         Shortened, NoTurn, AnswersOpen
    <2>2. OwnStarts'
      <3>1. CASE SwitchTo(s, {s})
        BY <3>1, Shapes DEF OwnStarts, Starts, OpenElsewhere, Connected, NoTurn, WaitingOpen, Long
      <3>2. CASE UNCHANGED <<session, view, strayed>>
        BY <3>2 DEF OwnStarts, Starts
      <3> QED
        BY <3>1, <3>2
    <2>3. OwnPrompts'
      <3>1. CASE SwitchTo(s, {s})
        BY <3>1, Shapes DEF OwnPrompts, Starts, OpenElsewhere, Connected, NoTurn, WaitingOpen, Long
      <3>2. CASE UNCHANGED <<session, view, strayed>>
        BY <3>2 DEF OwnPrompts, Starts
      <3> QED
        BY <3>1, <3>2
    <2>4. /\ Known' /\ Connected' /\ WaitingOpen' /\ WaitingOnce' /\ TurnOpen' /\ AnswersOpen'
           /\ AnswersTaken' /\ CompletedOver' /\ CompletedLast' /\ OneOpen' /\ BusyMatchesTurn'
           /\ AnswersInOwnChat'
      BY DEF Known, Connected, WaitingOpen, WaitingOnce, TurnOpen, AnswersOpen, AnswersTaken,
         CompletedOver, CompletedLast, OneOpen, BusyMatchesTurn, AnswersInOwnChat
    <2> QED
      BY <2>1, <2>2, <2>3, <2>4
  <1>11. ASSUME TakeFrame PROVE ClientInv'
    <2>1. Taking
      BY <1>11 DEF TakeFrame, Taking
    <2>2. ASSUME Head(up).kind = "steer", UNCHANGED <<down, serverVars>>
         PROVE  ClientInv'
      <3> USE <2>1, <2>2 DEF Taking
      <3>1. up' \in Seq(UpFrames) /\ Head(up) \in UpFrames /\ Shortened(up, up')
        BY TailIs DEF ClientTypeOK, UpFrames
      <3>2. Head(up).of \in 0..MaxSubmits /\ Head(up).session \in Session \cup {NOSESSION}
        BY <3>1 DEF UpFrames, Frames
      <3>3. ClientTypeOK'
        BY DEF ClientTypeOK
      <3>4. Known'
        BY DEF Known
      <3>5. Connected'
        BY DEF Connected
      <3>6. WaitingOpen'
        BY DEF WaitingOpen
      <3>7. WaitingOnce'
        BY <3>1, <3>2, StaysOnce DEF WaitingOnce
      <3>8. TurnOpen'
        BY DEF TurnOpen
      <3>9. AnswersOpen'
        BY DEF AnswersOpen
      <3>10. AnswersTaken'
        BY <3>1 DEF AnswersTaken, Shortened
      <3>11. CompletedOver'
        BY DEF CompletedOver
      <3>12. CompletedLast'
        BY DEF CompletedLast
      <3>13. OneOpen'
        BY DEF OneOpen
      <3>14. OwnStarts'
        BY DEF OwnStarts
      <3>15. OwnPrompts'
        <4>1. /\ up[1] = Head(up) /\ 1 \in DOMAIN up
              /\ \A i \in DOMAIN up' : i + 1 \in DOMAIN up /\ up'[i] = up[i + 1]
          BY DEF Shortened
        <4>2. (\A j \in DOMAIN down' : down'[j].kind # "cleared") =>
                \A j \in DOMAIN down : down[j].kind # "cleared"
          BY DEF Extended
        <4> QED
          BY <4>1, <4>2 DEF OwnPrompts, NoTurn
      <3>16. BusyMatchesTurn'
        BY DEF BusyMatchesTurn
      <3>17. AnswersInOwnChat'
        BY DEF AnswersInOwnChat
      <3> QED
        BY <3>3, <3>4, <3>5, <3>6, <3>7, <3>8, <3>9, <3>10, <3>11, <3>12, <3>13, <3>14, <3>15,
           <3>16, <3>17
    <2>3. ASSUME Head(up).kind = "newChat", Say("error", 0, NOSESSION), UNCHANGED serverVars
         PROVE  ClientInv'
      <3> USE <2>1, <2>3 DEF Taking
      <3>1. up' \in Seq(UpFrames) /\ Head(up) \in UpFrames /\ Shortened(up, up')
        BY TailIs DEF ClientTypeOK, UpFrames
      <3>2. Head(up).of \in 0..MaxSubmits /\ Head(up).session \in Session \cup {NOSESSION}
        BY <3>1 DEF UpFrames, Frames
      <3>3. /\ Frame("error", 0, NOSESSION) \in DownFrames
            /\ Frame("error", 0, NOSESSION).kind = "error"
            /\ Frame("error", 0, NOSESSION).of = 0
            /\ Frame("error", 0, NOSESSION).session = NOSESSION
        BY DownFrameIs, Bounds
      <3>4. down' \in Seq(DownFrames) /\ Extended(down, down', Frame("error", 0, NOSESSION))
        BY <3>3, AppendIs DEF ClientTypeOK, DownFrames, Say
      <3>5. ClientTypeOK'
        BY <3>1, <3>2, <3>3, <3>4, Bounds, Shapes DEF ClientTypeOK, UpFrames, DownFrames, Frames,
           Prompts, Known, SwitchTo, OpenElsewhere, Shortened, NoTurn, AnswersOpen
      <3>6. Known'
        BY <3>1, <3>2, <3>3, <3>4, Shapes DEF Known, ClientTypeOK, NoTurn, Extended, Shortened, Long
      <3>7. WaitingOpen'
        BY <3>1, <3>2, <3>3, <3>4, Shapes, Bounds, StaysOnce, SMTT(60) DEF WaitingOpen
      <3>8. WaitingOnce'
        BY <3>1, <3>2, <3>3, <3>4, StaysOnce DEF WaitingOnce
      <3>9. AnswersOpen'
        BY <3>1, <3>2, <3>3, <3>4, Shapes DEF AnswersOpen, CompletedLast, LastWords, TurnOpen,
           WaitingOpen, Connected, Extended, Shortened, Long, NoTurn
      <3>10. AnswersTaken'
        BY <3>1, <3>2, <3>3, <3>4, Shapes, StaysOnce DEF AnswersTaken, AnswersOpen, WaitingOpen,
           WaitingOnce, Connected, Extended, Shortened, Long, NoTurn
      <3>11. CompletedOver'
        BY <3>1, <3>2, <3>3, <3>4, Shapes DEF CompletedOver, CompletedLast, LastWords, AnswersOpen,
           AnswersTaken, WaitingOpen, TurnOpen, Connected, Extended, Shortened, Long, NoTurn
      <3>12. CompletedLast'
        <4>1. \A i \in DOMAIN down : down[i].kind \in {"failed", "complete"} =>
                Frame("error", 0, NOSESSION).of # down[i].of
          BY <3>1, <3>2, <3>3, <3>4, Shapes DEF CompletedOver, AnswersTaken, AnswersOpen,
             WaitingOpen, TurnOpen, Connected,
                    NoTurn, Shortened, Long
        <4> QED
          BY <4>1, <3>1, <3>2, <3>3, <3>4, StaysLast DEF CompletedLast
      <3>13. OwnStarts'
        <4>1. ~strayed =>
                \/ Frame("error", 0, NOSESSION).kind = "start" => Frame("error", 0, NOSESSION).session = session
                              \/ \E j \in DOMAIN down : down[j].kind = "cleared"
          BY <3>1, <3>2, <3>3, <3>4, Shapes DEF OwnPrompts, Connected, NoTurn
        <4> QED
          BY <4>1, <3>1, <3>2, <3>3, <3>4, StaysOwn DEF OwnStarts
      <3>14. OwnPrompts'
        <4>1. /\ up[1] = Head(up) /\ 1 \in DOMAIN up
              /\ \A i \in DOMAIN up' : i + 1 \in DOMAIN up /\ up'[i] = up[i + 1]
          BY DEF Shortened
        <4>2. (\A j \in DOMAIN down' : down'[j].kind # "cleared") =>
                \A j \in DOMAIN down : down[j].kind # "cleared"
          BY <3>1, <3>2, <3>3, <3>4 DEF Extended
        <4> QED
          BY <4>1, <4>2 DEF OwnPrompts, NoTurn
      <3>15. Connected' /\ TurnOpen' /\ OneOpen' /\ BusyMatchesTurn' /\ AnswersInOwnChat'
        BY DEF Connected, TurnOpen, OneOpen, BusyMatchesTurn, AnswersInOwnChat
      <3> QED
        BY <3>5, <3>6, <3>7, <3>8, <3>9, <3>10, <3>11, <3>12, <3>13, <3>14, <3>15
    <2>4. ASSUME NEW s \in Session, Head(up).kind = "newChat", UNCHANGED turn,
           sessions' = sessions \cup {s}, Say("cleared", 0, s)
         PROVE  ClientInv'
      <3> USE <2>1, <2>4 DEF Taking
      <3>1. up' \in Seq(UpFrames) /\ Head(up) \in UpFrames /\ Shortened(up, up')
        BY TailIs DEF ClientTypeOK, UpFrames
      <3>2. Head(up).of \in 0..MaxSubmits /\ Head(up).session \in Session \cup {NOSESSION}
        BY <3>1 DEF UpFrames, Frames
      <3>3. /\ Frame("cleared", 0, s) \in DownFrames
            /\ Frame("cleared", 0, s).kind = "cleared"
            /\ Frame("cleared", 0, s).of = 0
            /\ Frame("cleared", 0, s).session = s
        BY DownFrameIs, Bounds
      <3>4. down' \in Seq(DownFrames) /\ Extended(down, down', Frame("cleared", 0, s))
        BY <3>3, AppendIs DEF ClientTypeOK, DownFrames, Say
      <3>5. ClientTypeOK'
        BY <3>1, <3>2, <3>3, <3>4, Bounds, Shapes DEF ClientTypeOK, UpFrames, DownFrames, Frames,
           Prompts, Known, SwitchTo, OpenElsewhere, Shortened, NoTurn, AnswersOpen
      <3>6. Known'
        BY <3>1, <3>2, <3>3, <3>4, Shapes DEF Known, ClientTypeOK, NoTurn, Extended, Shortened, Long
      <3>7. WaitingOpen'
        BY <3>1, <3>2, <3>3, <3>4, Shapes, Bounds, StaysOnce DEF WaitingOpen
      <3>8. WaitingOnce'
        BY <3>1, <3>2, <3>3, <3>4, StaysOnce DEF WaitingOnce
      <3>9. AnswersOpen'
        BY <3>1, <3>2, <3>3, <3>4, Shapes DEF AnswersOpen, CompletedLast, LastWords, TurnOpen,
           WaitingOpen, Connected, Extended, Shortened, Long, NoTurn
      <3>10. AnswersTaken'
        BY <3>1, <3>2, <3>3, <3>4, Shapes, StaysOnce DEF AnswersTaken, AnswersOpen, WaitingOpen,
           WaitingOnce, Connected, Extended, Shortened, Long, NoTurn
      <3>11. CompletedOver'
        BY <3>1, <3>2, <3>3, <3>4, Shapes DEF CompletedOver, CompletedLast, LastWords, AnswersOpen,
           AnswersTaken, WaitingOpen, TurnOpen, Connected, Extended, Shortened, Long, NoTurn
      <3>12. CompletedLast'
        <4>1. \A i \in DOMAIN down : down[i].kind \in {"failed", "complete"} =>
                Frame("cleared", 0, s).of # down[i].of
          BY <3>1, <3>2, <3>3, <3>4, Shapes DEF CompletedOver, AnswersTaken, AnswersOpen,
             WaitingOpen, TurnOpen, Connected,
                    NoTurn, Shortened, Long
        <4> QED
          BY <4>1, <3>1, <3>2, <3>3, <3>4, StaysLast DEF CompletedLast
      <3>13. OwnStarts'
        <4>1. ~strayed =>
                \/ Frame("cleared", 0, s).kind = "start" => Frame("cleared", 0, s).session = session
                              \/ \E j \in DOMAIN down : down[j].kind = "cleared"
          BY <3>1, <3>2, <3>3, <3>4, Shapes DEF OwnPrompts, Connected, NoTurn
        <4> QED
          BY <4>1, <3>1, <3>2, <3>3, <3>4, StaysOwn DEF OwnStarts
      <3>14. OwnPrompts'
        BY <3>1, <3>2, <3>3, <3>4 DEF OwnPrompts, Extended, Long
      <3>15. Connected' /\ TurnOpen' /\ OneOpen' /\ BusyMatchesTurn' /\ AnswersInOwnChat'
        BY DEF Connected, TurnOpen, OneOpen, BusyMatchesTurn, AnswersInOwnChat
      <3> QED
        BY <3>5, <3>6, <3>7, <3>8, <3>9, <3>10, <3>11, <3>12, <3>13, <3>14, <3>15
    <2>5. ASSUME Head(up).kind = "prompt", Say("failed", Head(up).of, Head(up).session), UNCHANGED serverVars
         PROVE  ClientInv'
      <3> USE <2>1, <2>5 DEF Taking
      <3>1. up' \in Seq(UpFrames) /\ Head(up) \in UpFrames /\ Shortened(up, up')
        BY TailIs DEF ClientTypeOK, UpFrames
      <3>2. Head(up).of \in 0..MaxSubmits /\ Head(up).session \in Session \cup {NOSESSION}
        BY <3>1 DEF UpFrames, Frames
      <3>3. /\ Frame("failed", Head(up).of, Head(up).session) \in DownFrames
            /\ Frame("failed", Head(up).of, Head(up).session).kind = "failed"
            /\ Frame("failed", Head(up).of, Head(up).session).of = Head(up).of
            /\ Frame("failed", Head(up).of, Head(up).session).session = Head(up).session
        BY <3>2, DownFrameIs
      <3>4. down' \in Seq(DownFrames) /\ Extended(down, down', Frame("failed", Head(up).of, Head(up).session))
        BY <3>3, AppendIs DEF ClientTypeOK, DownFrames, Say
      <3>5. ClientTypeOK'
        BY <3>1, <3>2, <3>3, <3>4, Bounds, Shapes DEF ClientTypeOK, UpFrames, DownFrames, Frames,
           Prompts, Known, SwitchTo, OpenElsewhere, Shortened, NoTurn, AnswersOpen
      <3>6. Known'
        BY <3>1, <3>2, <3>3, <3>4, Shapes, SMTT(60) DEF Known, ClientTypeOK, NoTurn, Extended, Shortened, Long
      <3>7. WaitingOpen'
        <4>1. \A i \in DOMAIN up' : up'[i].kind = "prompt" => up'[i].of # Head(up).of /\ up'[i].of \in open
          <5>1. up[1].kind = "prompt" /\ up[1] = Head(up) /\ WaitsOnce(up)
            BY DEF WaitingOnce, Shortened
          <5>2. \A i \in DOMAIN up' : up'[i].kind = "prompt" => up'[i].of # up[1].of
            <6>1. Shortened(up, up') /\ WaitsOnce(up)
              BY <5>1, <3>1
            <6> HIDE DEF Shortened, WaitsOnce
            <6> QED
              BY ONLY <6>1, <5>1, StaysOnce
          <5>3. \A i \in DOMAIN up' : i + 1 \in DOMAIN up /\ up'[i] = up[i + 1]
            BY DEF Shortened
          <5> QED
            BY <5>1, <5>2, <5>3 DEF WaitingOpen
        <4>2. \A i \in DOMAIN up' : i + 1 \in DOMAIN up /\ up'[i] = up[i + 1]
          BY DEF Shortened
        <4> QED
          BY <4>1, <4>2, <3>1, <3>2, <3>3, <3>4, Shapes DEF WaitingOpen, Extended, NoTurn
      <3>8. WaitingOnce'
        BY <3>1, <3>2, <3>3, <3>4, StaysOnce DEF WaitingOnce
      <3>9. AnswersOpen'
        BY <3>1, <3>2, <3>3, <3>4, Shapes DEF AnswersOpen, CompletedLast, LastWords, TurnOpen,
           WaitingOpen, Connected, Extended, Shortened, Long, NoTurn
      <3>10. AnswersTaken'
        <4>1. \A i \in DOMAIN up' : up'[i].kind = "prompt" => up'[i].of # Head(up).of /\ up'[i].of \in open
          <5>1. up[1].kind = "prompt" /\ up[1] = Head(up) /\ WaitsOnce(up)
            BY DEF WaitingOnce, Shortened
          <5>2. \A i \in DOMAIN up' : up'[i].kind = "prompt" => up'[i].of # up[1].of
            <6>1. Shortened(up, up') /\ WaitsOnce(up)
              BY <5>1, <3>1
            <6> HIDE DEF Shortened, WaitsOnce
            <6> QED
              BY ONLY <6>1, <5>1, StaysOnce
          <5>3. \A i \in DOMAIN up' : i + 1 \in DOMAIN up /\ up'[i] = up[i + 1]
            BY DEF Shortened
          <5> QED
            BY <5>1, <5>2, <5>3 DEF WaitingOpen
        <4>2. \A i \in DOMAIN up' : i + 1 \in DOMAIN up /\ up'[i] = up[i + 1]
          BY DEF Shortened
        <4>3. SUFFICES ASSUME NEW i \in DOMAIN down', NEW j \in DOMAIN up', up'[j].kind = "prompt"
                       PROVE  up'[j].of # down'[i].of
          BY DEF AnswersTaken
        <4>4. CASE i \in DOMAIN down
          <5>1. down'[i] = down[i]
            BY <3>4, <4>4 DEF Extended
          <5> QED
            BY <4>2, <4>3, <4>4, <5>1 DEF AnswersTaken
        <4>5. CASE i = Len(down')
          BY <3>3, <3>4, <4>1, <4>3, <4>5 DEF Extended
        <4> QED
          BY <3>4, <4>4, <4>5 DEF Extended
      <3>11. CompletedOver'
        BY <3>1, <3>2, <3>3, <3>4, Shapes DEF CompletedOver, CompletedLast, LastWords, AnswersOpen,
           AnswersTaken, WaitingOpen, TurnOpen, Connected, Extended, Shortened, Long, NoTurn
      <3>12. CompletedLast'
        <4>1. \A i \in DOMAIN down : down[i].kind \in {"failed", "complete"} =>
                Frame("failed", Head(up).of, Head(up).session).of # down[i].of
          BY <3>1, <3>2, <3>3, <3>4, Shapes DEF CompletedOver, AnswersTaken, AnswersOpen,
             WaitingOpen, TurnOpen, Connected,
                    NoTurn, Shortened, Long
        <4> QED
          BY <4>1, <3>1, <3>2, <3>3, <3>4, StaysLast DEF CompletedLast
      <3>13. OwnStarts'
        <4>1. ~strayed =>
                \/ Frame("failed", Head(up).of, Head(up).session).kind = "start" => Frame("failed", Head(up).of, Head(up).session).session = session
                              \/ \E j \in DOMAIN down : down[j].kind = "cleared"
          BY <3>1, <3>2, <3>3, <3>4, Shapes DEF OwnPrompts, Connected, NoTurn
        <4> QED
          BY <4>1, <3>1, <3>2, <3>3, <3>4, StaysOwn DEF OwnStarts
      <3>14. OwnPrompts'
        <4>1. /\ up[1] = Head(up) /\ 1 \in DOMAIN up
              /\ \A i \in DOMAIN up' : i + 1 \in DOMAIN up /\ up'[i] = up[i + 1]
          BY DEF Shortened
        <4>2. (\A j \in DOMAIN down' : down'[j].kind # "cleared") =>
                \A j \in DOMAIN down : down[j].kind # "cleared"
          BY <3>1, <3>2, <3>3, <3>4 DEF Extended
        <4> QED
          BY <4>1, <4>2 DEF OwnPrompts, NoTurn
      <3>15. Connected' /\ TurnOpen' /\ OneOpen' /\ BusyMatchesTurn' /\ AnswersInOwnChat'
        BY DEF Connected, TurnOpen, OneOpen, BusyMatchesTurn, AnswersInOwnChat
      <3> QED
        BY <3>5, <3>6, <3>7, <3>8, <3>9, <3>10, <3>11, <3>12, <3>13, <3>14, <3>15
    <2>6. ASSUME Head(up).kind = "prompt", Head(up).session # NOSESSION,
           turn' = [of |-> Head(up).of, session |-> Head(up).session, stage |-> "new"],
           UNCHANGED <<down, sessions>>
         PROVE  ClientInv'
      <3> USE <2>1, <2>6 DEF Taking
      <3>1. up' \in Seq(UpFrames) /\ Head(up) \in UpFrames /\ Shortened(up, up')
        BY TailIs DEF ClientTypeOK, UpFrames
      <3>2. Head(up).of \in 0..MaxSubmits /\ Head(up).session \in Session \cup {NOSESSION}
        BY <3>1 DEF UpFrames, Frames
      <3>3. ClientTypeOK'
        BY <3>1, <3>2, Bounds, Shapes DEF ClientTypeOK
      <3>4. Known'
        BY <3>1, <3>2, Shapes DEF Known
      <3>5. Connected'
        BY <3>1, <3>2, Shapes DEF Connected, WaitingOpen, Extended, Shortened, Long, NoTurn
      <3>6. WaitingOpen'
        <4>1. \A i \in DOMAIN up' : up'[i].kind = "prompt" => up'[i].of # Head(up).of /\ up'[i].of \in open
          <5>1. up[1].kind = "prompt" /\ up[1] = Head(up) /\ WaitsOnce(up)
            BY DEF WaitingOnce, Shortened
          <5>2. \A i \in DOMAIN up' : up'[i].kind = "prompt" => up'[i].of # up[1].of
            BY <5>1, <3>1, <3>2, StaysOnce
          <5>3. \A i \in DOMAIN up' : i + 1 \in DOMAIN up /\ up'[i] = up[i + 1]
            BY DEF Shortened
          <5> QED
            BY <5>1, <5>2, <5>3 DEF WaitingOpen
        <4>2. \A i \in DOMAIN up' : i + 1 \in DOMAIN up /\ up'[i] = up[i + 1]
          BY DEF Shortened
        <4> QED
          BY <4>1, <4>2, <3>1, <3>2, Shapes DEF WaitingOpen, Extended, NoTurn
      <3>7. WaitingOnce'
        BY <3>1, <3>2, StaysOnce DEF WaitingOnce
      <3>8. TurnOpen'
        BY <3>1, <3>2, Shapes DEF TurnOpen, WaitingOpen, CompletedOver, CompletedLast, LastWords,
           Connected, Extended, Shortened, Long, NoTurn
      <3>9. AnswersTaken'
        <4>1. \A i \in DOMAIN up' : up'[i].kind = "prompt" => up'[i].of # Head(up).of /\ up'[i].of \in open
          <5>1. up[1].kind = "prompt" /\ up[1] = Head(up) /\ WaitsOnce(up)
            BY DEF WaitingOnce, Shortened
          <5>2. \A i \in DOMAIN up' : up'[i].kind = "prompt" => up'[i].of # up[1].of
            BY <5>1, <3>1, <3>2, StaysOnce
          <5>3. \A i \in DOMAIN up' : i + 1 \in DOMAIN up /\ up'[i] = up[i + 1]
            BY DEF Shortened
          <5> QED
            BY <5>1, <5>2, <5>3 DEF WaitingOpen
        <4>2. \A i \in DOMAIN up' : i + 1 \in DOMAIN up /\ up'[i] = up[i + 1]
          BY DEF Shortened
        <4> QED
          BY <4>1, <4>2, <3>1, <3>2, Shapes DEF AnswersTaken, WaitingOpen, Extended, NoTurn
      <3>10. CompletedOver'
        BY <3>1, <3>2, Shapes DEF CompletedOver, CompletedLast, LastWords, AnswersOpen,
           AnswersTaken, WaitingOpen, TurnOpen, Connected, Extended, Shortened, Long, NoTurn
      <3>11. OwnPrompts'
        <4>1. /\ up[1] = Head(up) /\ 1 \in DOMAIN up
              /\ \A i \in DOMAIN up' : i + 1 \in DOMAIN up /\ up'[i] = up[i + 1]
          BY DEF Shortened
        <4>2. (\A j \in DOMAIN down' : down'[j].kind # "cleared") =>
                \A j \in DOMAIN down : down[j].kind # "cleared"
          BY DEF Extended
        <4> QED
          BY <4>1, <4>2 DEF OwnPrompts, NoTurn
      <3>12. /\ AnswersOpen' /\ CompletedLast' /\ OneOpen' /\ OwnStarts' /\ BusyMatchesTurn'
             /\ AnswersInOwnChat'
        BY DEF AnswersOpen, CompletedLast, OneOpen, OwnStarts, BusyMatchesTurn, AnswersInOwnChat
      <3> QED
        BY <3>3, <3>4, <3>5, <3>6, <3>7, <3>8, <3>9, <3>10, <3>11, <3>12
    <2>7. ASSUME NEW s \in Session, Head(up).kind = "prompt", Head(up).session = NOSESSION,
           sessions' = sessions \cup {s}, Say("cleared", 0, s),
           turn' = [of |-> Head(up).of, session |-> s, stage |-> "new"]
         PROVE  ClientInv'
      <3> USE <2>1, <2>7 DEF Taking
      <3>1. up' \in Seq(UpFrames) /\ Head(up) \in UpFrames /\ Shortened(up, up')
        BY TailIs DEF ClientTypeOK, UpFrames
      <3>2. Head(up).of \in 0..MaxSubmits /\ Head(up).session \in Session \cup {NOSESSION}
        BY <3>1 DEF UpFrames, Frames
      <3>3. /\ Frame("cleared", 0, s) \in DownFrames
            /\ Frame("cleared", 0, s).kind = "cleared"
            /\ Frame("cleared", 0, s).of = 0
            /\ Frame("cleared", 0, s).session = s
        BY DownFrameIs, Bounds
      <3>4. down' \in Seq(DownFrames) /\ Extended(down, down', Frame("cleared", 0, s))
        BY <3>3, AppendIs DEF ClientTypeOK, DownFrames, Say
      <3>5. ClientTypeOK'
        BY <3>1, <3>2, <3>3, <3>4, Bounds, Shapes DEF ClientTypeOK, UpFrames, DownFrames, Frames,
           Prompts, Known, SwitchTo, OpenElsewhere, Shortened, NoTurn, AnswersOpen
      <3>6. Known'
        BY <3>1, <3>2, <3>3, <3>4, Shapes, SMTT(60) DEF Known, ClientTypeOK, NoTurn, Extended, Shortened, Long
      <3>7. Connected'
        BY <3>1, <3>2, <3>3, <3>4, Shapes DEF Connected, WaitingOpen, Extended, Shortened, Long,
           NoTurn
      <3>8. WaitingOpen'
        <4>1. \A i \in DOMAIN up' : up'[i].kind = "prompt" => up'[i].of # Head(up).of /\ up'[i].of \in open
          <5>1. up[1].kind = "prompt" /\ up[1] = Head(up) /\ WaitsOnce(up)
            BY DEF WaitingOnce, Shortened
          <5>2. \A i \in DOMAIN up' : up'[i].kind = "prompt" => up'[i].of # up[1].of
            BY <5>1, <3>1, <3>2, <3>3, <3>4, StaysOnce
          <5>3. \A i \in DOMAIN up' : i + 1 \in DOMAIN up /\ up'[i] = up[i + 1]
            BY <3>1, <3>2, <3>3, <3>4 DEF Shortened
          <5> QED
            BY <5>1, <5>2, <5>3 DEF WaitingOpen
        <4>2. \A i \in DOMAIN up' : i + 1 \in DOMAIN up /\ up'[i] = up[i + 1]
          BY <3>1, <3>2, <3>3, <3>4 DEF Shortened
        <4> QED
          BY <4>1, <4>2, <3>1, <3>2, <3>3, <3>4, Shapes DEF WaitingOpen, Extended, NoTurn
      <3>9. WaitingOnce'
        BY <3>1, <3>2, <3>3, <3>4, StaysOnce DEF WaitingOnce
      <3>10. TurnOpen'
        BY DEF TurnOpen, WaitingOpen, CompletedOver, CompletedLast, LastWords, Connected, Extended,
           Shortened, Long, NoTurn
      <3>11. AnswersOpen'
        BY <3>1, <3>2, <3>3, <3>4, Shapes DEF AnswersOpen, CompletedLast, LastWords, TurnOpen,
           WaitingOpen, Connected, Extended, Shortened, Long, NoTurn
      <3>12. AnswersTaken'
        <4>1. \A i \in DOMAIN up' : up'[i].kind = "prompt" => up'[i].of # Head(up).of /\ up'[i].of \in open
          <5>1. up[1].kind = "prompt" /\ up[1] = Head(up) /\ WaitsOnce(up)
            BY DEF WaitingOnce, Shortened
          <5>2. \A i \in DOMAIN up' : up'[i].kind = "prompt" => up'[i].of # up[1].of
            BY <5>1, <3>1, <3>2, <3>3, <3>4, StaysOnce
          <5>3. \A i \in DOMAIN up' : i + 1 \in DOMAIN up /\ up'[i] = up[i + 1]
            BY <3>1, <3>2, <3>3, <3>4 DEF Shortened
          <5> QED
            BY <5>1, <5>2, <5>3 DEF WaitingOpen
        <4>2. \A i \in DOMAIN up' : i + 1 \in DOMAIN up /\ up'[i] = up[i + 1]
          BY <3>1, <3>2, <3>3, <3>4 DEF Shortened
        <4> QED
          BY <4>1, <4>2, <3>1, <3>2, <3>3, <3>4, Shapes, SMTT(60) DEF AnswersTaken, WaitingOpen, Extended,
             NoTurn
      <3>13. CompletedOver'
        BY <3>1, <3>2, <3>3, <3>4, Shapes DEF CompletedOver, CompletedLast, LastWords, AnswersOpen,
           AnswersTaken, WaitingOpen, TurnOpen, Connected, Extended, Shortened, Long, NoTurn
      <3>14. CompletedLast'
        <4>1. \A i \in DOMAIN down : down[i].kind \in {"failed", "complete"} =>
                Frame("cleared", 0, s).of # down[i].of
          BY <3>1, <3>2, <3>3, <3>4, Shapes DEF CompletedOver, AnswersTaken, AnswersOpen,
             WaitingOpen, TurnOpen, Connected,
                    NoTurn, Shortened, Long
        <4> QED
          BY <4>1, <3>1, <3>2, <3>3, <3>4, StaysLast DEF CompletedLast
      <3>15. OwnStarts'
        <4>1. ~strayed =>
                \/ Frame("cleared", 0, s).kind = "start" => Frame("cleared", 0, s).session = session
                              \/ \E j \in DOMAIN down : down[j].kind = "cleared"
          BY <3>1, <3>2, <3>3, <3>4, Shapes DEF OwnPrompts, Connected, NoTurn
        <4> QED
          BY <4>1, <3>1, <3>2, <3>3, <3>4, StaysOwn DEF OwnStarts
      <3>16. OwnPrompts'
        BY <3>1, <3>2, <3>3, <3>4 DEF OwnPrompts, Extended, Long
      <3>17. OneOpen' /\ BusyMatchesTurn' /\ AnswersInOwnChat'
        BY DEF OneOpen, BusyMatchesTurn, AnswersInOwnChat
      <3> QED
        BY <3>5, <3>6, <3>7, <3>8, <3>9, <3>10, <3>11, <3>12, <3>13, <3>14, <3>15, <3>16, <3>17
    <2> QED
      <3>1. sessions # Session => NewSession \in Session
        BY DEF NewSession, ClientTypeOK
      <3> QED
        BY <1>11, <3>1, <2>2, <2>3, <2>4, <2>5, <2>6, <2>7 DEF TakeFrame
  <1>12. ASSUME RunTurn PROVE ClientInv'
    <2>1. Running
      BY <1>12 DEF RunTurn, Running
    <2>2. ASSUME turn.stage # "ended", turn' = [turn EXCEPT !.stage = "running"],
           Say("start", turn.of, turn.session)
         PROVE  ClientInv'
      <3> USE <2>1, <2>2 DEF Running
      <3>1. /\ Frame("start", turn.of, turn.session) \in DownFrames
            /\ Frame("start", turn.of, turn.session).kind = "start"
            /\ Frame("start", turn.of, turn.session).of = turn.of
            /\ Frame("start", turn.of, turn.session).session = turn.session
        BY DownFrameIs, Bounds, Shapes DEF ClientTypeOK
      <3>2. down' \in Seq(DownFrames) /\ Extended(down, down', Frame("start", turn.of, turn.session))
        BY <3>1, AppendIs DEF ClientTypeOK, DownFrames, Say
      <3>3. ClientTypeOK'
        BY <3>1, <3>2, Bounds, Shapes DEF ClientTypeOK, UpFrames, DownFrames, Frames, Prompts,
           Known, SwitchTo, OpenElsewhere, Shortened, NoTurn, AnswersOpen
      <3>4. Known'
        BY <3>1, <3>2, Shapes DEF Known, ClientTypeOK, NoTurn, Extended, Shortened, Long
      <3>5. Connected'
        BY DEF Connected, WaitingOpen, Extended, Shortened, Long, NoTurn
      <3>6. TurnOpen'
        BY DEF TurnOpen, WaitingOpen, CompletedOver, CompletedLast, LastWords, Connected, Extended,
           Shortened, Long, NoTurn
      <3>7. AnswersOpen'
        BY <3>1, <3>2, Shapes DEF AnswersOpen, CompletedLast, LastWords, TurnOpen, WaitingOpen,
           Connected, Extended, Shortened, Long, NoTurn
      <3>8. AnswersTaken'
        BY <3>1, <3>2, Shapes, StaysOnce DEF AnswersTaken, AnswersOpen, WaitingOpen, WaitingOnce,
           Connected, Extended, Shortened, Long, NoTurn
      <3>9. CompletedOver'
        BY <3>1, <3>2, Shapes DEF CompletedOver, CompletedLast, LastWords, AnswersOpen,
           AnswersTaken, WaitingOpen, TurnOpen, Connected, Extended, Shortened, Long, NoTurn
      <3>10. CompletedLast'
        <4>1. \A i \in DOMAIN down : down[i].kind \in {"failed", "complete"} =>
                Frame("start", turn.of, turn.session).of # down[i].of
          BY <3>1, <3>2, Shapes DEF CompletedOver, AnswersTaken, AnswersOpen, WaitingOpen, TurnOpen,
             Connected,
                    NoTurn, Shortened, Long
        <4> QED
          BY <4>1, <3>1, <3>2, StaysLast DEF CompletedLast
      <3>11. OwnStarts'
        <4>1. ~strayed =>
                \/ Frame("start", turn.of, turn.session).kind = "start" => Frame("start", turn.of, turn.session).session = session
                              \/ \E j \in DOMAIN down : down[j].kind = "cleared"
          BY <3>1, <3>2, Shapes DEF OwnPrompts, Connected, NoTurn
        <4> QED
          BY <4>1, <3>1, <3>2, StaysOwn DEF OwnStarts
      <3>12. OwnPrompts'
        BY <3>1, <3>2, Shapes, CalmBefore DEF OwnPrompts, Connected, OpenElsewhere, WaitingOpen,
           Extended, Shortened, Long, NoTurn
      <3>13. /\ WaitingOpen' /\ WaitingOnce' /\ OneOpen' /\ BusyMatchesTurn'
             /\ AnswersInOwnChat'
        BY DEF WaitingOpen, WaitingOnce, OneOpen, BusyMatchesTurn, AnswersInOwnChat
      <3> QED
        BY <3>3, <3>4, <3>5, <3>6, <3>7, <3>8, <3>9, <3>10, <3>11, <3>12, <3>13
    <2>3. ASSUME turn.stage # "ended", turn' = [turn EXCEPT !.stage = "ended"],
           Say("agentEnd", turn.of, turn.session)
         PROVE  ClientInv'
      <3> USE <2>1, <2>3 DEF Running
      <3>1. /\ Frame("agentEnd", turn.of, turn.session) \in DownFrames
            /\ Frame("agentEnd", turn.of, turn.session).kind = "agentEnd"
            /\ Frame("agentEnd", turn.of, turn.session).of = turn.of
            /\ Frame("agentEnd", turn.of, turn.session).session = turn.session
        BY DownFrameIs, Bounds, Shapes DEF ClientTypeOK
      <3>2. down' \in Seq(DownFrames) /\ Extended(down, down', Frame("agentEnd", turn.of, turn.session))
        BY <3>1, AppendIs DEF ClientTypeOK, DownFrames, Say
      <3>3. ClientTypeOK'
        BY <3>1, <3>2, Bounds, Shapes DEF ClientTypeOK, UpFrames, DownFrames, Frames, Prompts,
           Known, SwitchTo, OpenElsewhere, Shortened, NoTurn, AnswersOpen
      <3>4. Known'
        BY <3>1, <3>2, Shapes DEF Known, ClientTypeOK, NoTurn, Extended, Shortened, Long
      <3>5. Connected'
        BY DEF Connected, WaitingOpen, Extended, Shortened, Long, NoTurn
      <3>6. TurnOpen'
        BY DEF TurnOpen, WaitingOpen, CompletedOver, CompletedLast, LastWords, Connected, Extended,
           Shortened, Long, NoTurn
      <3>7. AnswersOpen'
        BY <3>1, <3>2, Shapes DEF AnswersOpen, CompletedLast, LastWords, TurnOpen, WaitingOpen,
           Connected, Extended, Shortened, Long, NoTurn
      <3>8. AnswersTaken'
        BY <3>1, <3>2, Shapes, StaysOnce DEF AnswersTaken, AnswersOpen, WaitingOpen, WaitingOnce,
           Connected, Extended, Shortened, Long, NoTurn
      <3>9. CompletedOver'
        BY <3>1, <3>2, Shapes DEF CompletedOver, CompletedLast, LastWords, AnswersOpen,
           AnswersTaken, WaitingOpen, TurnOpen, Connected, Extended, Shortened, Long, NoTurn
      <3>10. CompletedLast'
        <4>1. \A i \in DOMAIN down : down[i].kind \in {"failed", "complete"} =>
                Frame("agentEnd", turn.of, turn.session).of # down[i].of
          BY <3>1, <3>2, Shapes DEF CompletedOver, AnswersTaken, AnswersOpen, WaitingOpen, TurnOpen,
             Connected,
                    NoTurn, Shortened, Long
        <4> QED
          BY <4>1, <3>1, <3>2, StaysLast DEF CompletedLast
      <3>11. OwnStarts'
        <4>1. ~strayed =>
                \/ Frame("agentEnd", turn.of, turn.session).kind = "start" => Frame("agentEnd", turn.of, turn.session).session = session
                              \/ \E j \in DOMAIN down : down[j].kind = "cleared"
          BY <3>1, <3>2, Shapes DEF OwnPrompts, Connected, NoTurn
        <4> QED
          BY <4>1, <3>1, <3>2, StaysOwn DEF OwnStarts
      <3>12. OwnPrompts'
        BY <3>1, <3>2, Shapes, CalmBefore DEF OwnPrompts, Connected, OpenElsewhere, WaitingOpen,
           Extended, Shortened, Long, NoTurn
      <3>13. /\ WaitingOpen' /\ WaitingOnce' /\ OneOpen' /\ BusyMatchesTurn'
             /\ AnswersInOwnChat'
        BY DEF WaitingOpen, WaitingOnce, OneOpen, BusyMatchesTurn, AnswersInOwnChat
      <3> QED
        BY <3>3, <3>4, <3>5, <3>6, <3>7, <3>8, <3>9, <3>10, <3>11, <3>12, <3>13
    <2>4. ASSUME turn' = [turn EXCEPT !.stage = "erred"], Say("error", turn.of, turn.session)
         PROVE  ClientInv'
      <3> USE <2>1, <2>4 DEF Running
      <3>1. /\ Frame("error", turn.of, turn.session) \in DownFrames
            /\ Frame("error", turn.of, turn.session).kind = "error"
            /\ Frame("error", turn.of, turn.session).of = turn.of
            /\ Frame("error", turn.of, turn.session).session = turn.session
        BY DownFrameIs, Bounds, Shapes DEF ClientTypeOK
      <3>2. down' \in Seq(DownFrames) /\ Extended(down, down', Frame("error", turn.of, turn.session))
        BY <3>1, AppendIs DEF ClientTypeOK, DownFrames, Say
      <3>3. ClientTypeOK'
        BY <3>1, <3>2, Bounds, Shapes DEF ClientTypeOK, UpFrames, DownFrames, Frames, Prompts,
           Known, SwitchTo, OpenElsewhere, Shortened, NoTurn, AnswersOpen
      <3>4. Known'
        BY <3>1, <3>2, Shapes DEF Known, ClientTypeOK, NoTurn, Extended, Shortened, Long
      <3>5. Connected'
        BY DEF Connected, WaitingOpen, Extended, Shortened, Long, NoTurn
      <3>6. TurnOpen'
        BY DEF TurnOpen, WaitingOpen, CompletedOver, CompletedLast, LastWords, Connected, Extended,
           Shortened, Long, NoTurn
      <3>7. AnswersOpen'
        BY <3>1, <3>2, Shapes DEF AnswersOpen, CompletedLast, LastWords, TurnOpen, WaitingOpen,
           Connected, Extended, Shortened, Long, NoTurn
      <3>8. AnswersTaken'
        BY <3>1, <3>2, Shapes, StaysOnce DEF AnswersTaken, AnswersOpen, WaitingOpen, WaitingOnce,
           Connected, Extended, Shortened, Long, NoTurn
      <3>9. CompletedOver'
        BY <3>1, <3>2, Shapes DEF CompletedOver, CompletedLast, LastWords, AnswersOpen,
           AnswersTaken, WaitingOpen, TurnOpen, Connected, Extended, Shortened, Long, NoTurn
      <3>10. CompletedLast'
        <4>1. \A i \in DOMAIN down : down[i].kind \in {"failed", "complete"} =>
                Frame("error", turn.of, turn.session).of # down[i].of
          BY <3>1, <3>2, Shapes DEF CompletedOver, AnswersTaken, AnswersOpen, WaitingOpen, TurnOpen,
             Connected,
                    NoTurn, Shortened, Long
        <4> QED
          BY <4>1, <3>1, <3>2, StaysLast DEF CompletedLast
      <3>11. OwnStarts'
        <4>1. ~strayed =>
                \/ Frame("error", turn.of, turn.session).kind = "start" => Frame("error", turn.of, turn.session).session = session
                              \/ \E j \in DOMAIN down : down[j].kind = "cleared"
          BY <3>1, <3>2, Shapes DEF OwnPrompts, Connected, NoTurn
        <4> QED
          BY <4>1, <3>1, <3>2, StaysOwn DEF OwnStarts
      <3>12. OwnPrompts'
        BY <3>1, <3>2, Shapes, CalmBefore DEF OwnPrompts, Connected, OpenElsewhere, WaitingOpen,
           Extended, Shortened, Long, NoTurn
      <3>13. /\ WaitingOpen' /\ WaitingOnce' /\ OneOpen' /\ BusyMatchesTurn'
             /\ AnswersInOwnChat'
        BY DEF WaitingOpen, WaitingOnce, OneOpen, BusyMatchesTurn, AnswersInOwnChat
      <3> QED
        BY <3>3, <3>4, <3>5, <3>6, <3>7, <3>8, <3>9, <3>10, <3>11, <3>12, <3>13
    <2> QED
      BY <1>12, <2>2, <2>3, <2>4 DEF RunTurn
  <1>13. ASSUME EndTurn PROVE ClientInv'
    <2> USE <1>13 DEF EndTurn
    <2>1. /\ Frame("complete", turn.of, turn.session) \in DownFrames
          /\ Frame("complete", turn.of, turn.session).kind = "complete"
          /\ Frame("complete", turn.of, turn.session).of = turn.of
          /\ Frame("complete", turn.of, turn.session).session = turn.session
      BY DownFrameIs, Bounds, Shapes DEF ClientTypeOK
    <2>2. down' \in Seq(DownFrames) /\ Extended(down, down', Frame("complete", turn.of, turn.session))
      BY <2>1, AppendIs DEF ClientTypeOK, DownFrames, Say
    <2>3. ClientTypeOK'
      BY <2>1, <2>2, Bounds, Shapes DEF ClientTypeOK, UpFrames, DownFrames, Frames, Prompts, Known,
         SwitchTo, OpenElsewhere, Shortened, NoTurn, AnswersOpen
    <2>4. Known'
      BY <2>1, <2>2, Shapes DEF Known, ClientTypeOK, NoTurn, Extended, Shortened, Long
    <2>5. WaitingOpen'
      BY DEF WaitingOpen, WaitingOnce, TurnOpen, AnswersOpen, AnswersTaken, CompletedOver,
         Connected, Extended, Shortened, Long, NoTurn
    <2>6. AnswersOpen'
      BY <2>1, <2>2, Shapes DEF AnswersOpen, CompletedLast, LastWords, TurnOpen, WaitingOpen,
         Connected, Extended, Shortened, Long, NoTurn
    <2>7. AnswersTaken'
      BY <2>1, <2>2, Shapes, StaysOnce DEF AnswersTaken, WaitingOpen, Extended
    <2>8. CompletedOver'
      BY <2>1, <2>2, Shapes DEF CompletedOver, CompletedLast, LastWords, AnswersOpen, AnswersTaken,
         WaitingOpen, TurnOpen, Connected, Extended, Shortened, Long, NoTurn
    <2>9. CompletedLast'
      <3>1. \A i \in DOMAIN down : down[i].kind \in {"failed", "complete"} =>
              Frame("complete", turn.of, turn.session).of # down[i].of
        BY <2>1, <2>2, Shapes DEF CompletedOver, AnswersTaken, AnswersOpen, WaitingOpen, TurnOpen,
           Connected,
                  NoTurn, Shortened, Long
      <3> QED
        BY <3>1, <2>1, <2>2, StaysLast DEF CompletedLast
    <2>10. OwnStarts'
      <3>1. ~strayed =>
              \/ Frame("complete", turn.of, turn.session).kind = "start" => Frame("complete", turn.of, turn.session).session = session
                            \/ \E j \in DOMAIN down : down[j].kind = "cleared"
        BY <2>1, <2>2, Shapes DEF OwnPrompts, Connected, NoTurn
      <3> QED
        BY <3>1, <2>1, <2>2, StaysOwn DEF OwnStarts
    <2>11. OwnPrompts'
      BY <2>1, <2>2, Shapes, CalmBefore DEF OwnPrompts, Connected, OpenElsewhere, WaitingOpen,
         Extended, Shortened, Long, NoTurn
    <2>12. /\ Connected' /\ WaitingOnce' /\ TurnOpen' /\ OneOpen' /\ BusyMatchesTurn'
           /\ AnswersInOwnChat'
      BY DEF Connected, WaitingOnce, TurnOpen, OneOpen, BusyMatchesTurn, AnswersInOwnChat
    <2> QED
      BY <2>3, <2>4, <2>5, <2>6, <2>7, <2>8, <2>9, <2>10, <2>11, <2>12
  <1>14. ASSUME Receive PROVE ClientInv'
    <2>1. Hearing
      BY <1>14 DEF Receive, Hearing
    <2>2. ASSUME HandleCleared(Head(down))
         PROVE  ClientInv'
      <3> USE <2>1, <2>2 DEF Hearing, HandleCleared, SwitchTo
      <3>1. down' \in Seq(DownFrames) /\ Head(down) \in DownFrames /\ Shortened(down, down')
        BY TailIs DEF ClientTypeOK, DownFrames
      <3>2. Head(down).of \in 0..MaxSubmits /\ Head(down).session \in Session \cup {NOSESSION}
        BY <3>1 DEF DownFrames, Frames
      <3>3. ClientTypeOK'
        <4> USE <3>1, <3>2, Bounds, Shapes DEF ClientTypeOK
        <4>1. /\ up' \in Seq(UpFrames) /\ down' \in Seq(DownFrames)
              /\ turn' = turn /\ sessions' = sessions /\ socket' = socket
          BY DEF UpFrames, DownFrames
        <4>2. isProcessing' \in BOOLEAN
          OBVIOUS
        <4>3. severed' \in BOOLEAN
          OBVIOUS
        <4>4. strayed' \in BOOLEAN
          BY DEF OpenElsewhere
        <4>5. open' \subseteq Prompts /\ ended' \subseteq Prompts /\ excused' \subseteq Prompts
          OBVIOUS
        <4>6. session' \in sessions \cup {NOSESSION} /\ view' \subseteq sessions \cup {NOSESSION}
          BY DEF Known, Shortened
        <4>7. /\ stops' \in 0..MaxAsks /\ loads' \subseteq sessions
              /\ submits' = submits /\ asks' = asks /\ losses' = losses /\ UNCHANGED refVars
          OBVIOUS
        <4> QED
          BY <4>1, <4>2, <4>3, <4>4, <4>5, <4>6, <4>7 DEF UpFrames, DownFrames
      <3>4. AnswersTaken'
        BY <3>1, <3>2, Shapes, StaysOnce DEF AnswersTaken
      <3>5. CompletedLast'
        BY <3>1, <3>2, StaysLast DEF CompletedLast
      <3>6. OwnStarts'
        BY DEF OwnStarts, Starts, OpenElsewhere, Shortened, Long
      <3>7. OwnPrompts'
        BY DEF OwnPrompts, Connected, OpenElsewhere, WaitingOpen, Extended, Shortened, Long, NoTurn
      <3>8. /\ Known' /\ Connected' /\ WaitingOpen' /\ WaitingOnce' /\ TurnOpen'
             /\ AnswersOpen' /\ CompletedOver' /\ OneOpen' /\ BusyMatchesTurn'
             /\ AnswersInOwnChat'
        BY DEF Known, Connected, WaitingOpen, WaitingOnce, TurnOpen, AnswersOpen, CompletedOver,
           OneOpen, BusyMatchesTurn, AnswersInOwnChat
      <3> QED
        BY <3>3, <3>4, <3>5, <3>6, <3>7, <3>8
    <2>3. ASSUME HandleStart(Head(down))
         PROVE  ClientInv'
      <3> USE <2>1, <2>3 DEF Hearing, HandleStart
      <3>1. down' \in Seq(DownFrames) /\ Head(down) \in DownFrames /\ Shortened(down, down')
        BY TailIs DEF ClientTypeOK, DownFrames
      <3>2. Head(down).of \in 0..MaxSubmits /\ Head(down).session \in Session \cup {NOSESSION}
        BY <3>1 DEF DownFrames, Frames
      <3>3. ClientTypeOK'
        <4> USE <3>1, <3>2, Bounds, Shapes DEF ClientTypeOK
        <4>1. /\ up' \in Seq(UpFrames) /\ down' \in Seq(DownFrames)
              /\ turn' = turn /\ sessions' = sessions /\ socket' = socket
          BY DEF UpFrames, DownFrames
        <4>2. isProcessing' \in BOOLEAN
          OBVIOUS
        <4>3. severed' \in BOOLEAN
          OBVIOUS
        <4>4. strayed' \in BOOLEAN
          BY DEF OpenElsewhere
        <4>5. open' \subseteq Prompts /\ ended' \subseteq Prompts /\ excused' \subseteq Prompts
          OBVIOUS
        <4>6. session' \in sessions \cup {NOSESSION} /\ view' \subseteq sessions \cup {NOSESSION}
          BY DEF Known, Shortened
        <4>7. /\ stops' \in 0..MaxAsks /\ loads' \subseteq sessions
              /\ submits' = submits /\ asks' = asks /\ losses' = losses /\ UNCHANGED refVars
          OBVIOUS
        <4> QED
          BY <4>1, <4>2, <4>3, <4>4, <4>5, <4>6, <4>7 DEF UpFrames, DownFrames
      <3>4. Known'
        BY DEF Known
      <3>5. Connected'
        BY DEF Connected
      <3>6. WaitingOpen'
        BY DEF WaitingOpen
      <3>7. WaitingOnce'
        BY DEF WaitingOnce
      <3>8. TurnOpen'
        BY DEF TurnOpen
      <3>9. AnswersOpen'
        BY DEF AnswersOpen
      <3>10. AnswersTaken'
        BY <3>1, <3>2, Shapes, StaysOnce DEF AnswersTaken
      <3>11. CompletedOver'
        BY <3>1, <3>2, Shapes DEF CompletedOver
      <3>12. CompletedLast'
        BY <3>1, <3>2, StaysLast DEF CompletedLast
      <3>13. OneOpen'
        BY DEF OneOpen
      <3>14. OwnStarts'
        BY <3>1, <3>2, Shapes, StaysOwn DEF OwnStarts, OwnPrompts, Extended, Shortened, Connected
      <3>15. OwnPrompts'
        <4>1. down[1].kind # "cleared"
          BY DEF Shortened
        <4> QED
          BY <4>1, <3>1, <3>2, CalmBefore DEF OwnPrompts
      <3>16. BusyMatchesTurn'
        BY DEF BusyMatchesTurn
      <3>17. AnswersInOwnChat'
        BY <3>1, <3>2, Shapes DEF AnswersInOwnChat, OwnStarts, Starts, Shortened, Long
      <3> QED
        BY <3>3, <3>4, <3>5, <3>6, <3>7, <3>8, <3>9, <3>10, <3>11, <3>12, <3>13, <3>14, <3>15,
           <3>16, <3>17
    <2>4. ASSUME HandleAgentEnd(Head(down))
         PROVE  ClientInv'
      <3> USE <2>1, <2>4 DEF Hearing, HandleAgentEnd, Idle
      <3>1. down' \in Seq(DownFrames) /\ Head(down) \in DownFrames /\ Shortened(down, down')
        BY TailIs DEF ClientTypeOK, DownFrames
      <3>2. Head(down).of \in 0..MaxSubmits /\ Head(down).session \in Session \cup {NOSESSION}
        BY <3>1 DEF DownFrames, Frames
      <3>3. ClientTypeOK'
        <4> USE <3>1, <3>2, Bounds, Shapes DEF ClientTypeOK
        <4>1. /\ up' \in Seq(UpFrames) /\ down' \in Seq(DownFrames)
              /\ turn' = turn /\ sessions' = sessions /\ socket' = socket
          BY DEF UpFrames, DownFrames
        <4>2. isProcessing' \in BOOLEAN
          OBVIOUS
        <4>3. severed' \in BOOLEAN
          OBVIOUS
        <4>4. strayed' \in BOOLEAN
          BY DEF OpenElsewhere
        <4>5. open' \subseteq Prompts /\ ended' \subseteq Prompts /\ excused' \subseteq Prompts
          <5>1. Head(down).of \in Prompts
            BY DEF Prompts, AnswersOpen, Shortened
          <5> QED
            BY <5>1
        <4>6. session' \in sessions \cup {NOSESSION} /\ view' \subseteq sessions \cup {NOSESSION}
          BY DEF Known, Shortened
        <4>7. /\ stops' \in 0..MaxAsks /\ loads' \subseteq sessions
              /\ submits' = submits /\ asks' = asks /\ losses' = losses /\ UNCHANGED refVars
          OBVIOUS
        <4> QED
          BY <4>1, <4>2, <4>3, <4>4, <4>5, <4>6, <4>7 DEF UpFrames, DownFrames
      <3>4. AnswersTaken'
        BY <3>1, <3>2, Shapes, StaysOnce DEF AnswersTaken
      <3>5. CompletedOver'
        BY <3>1, <3>2, Shapes DEF CompletedOver
      <3>6. CompletedLast'
        BY <3>1, <3>2, StaysLast DEF CompletedLast
      <3>7. OwnStarts'
        BY <3>1, <3>2, Shapes, StaysOwn DEF OwnStarts, OwnPrompts, Extended, Shortened, Connected
      <3>8. OwnPrompts'
        <4>1. down[1].kind # "cleared"
          BY DEF Shortened
        <4> QED
          BY <4>1, <3>1, <3>2, CalmBefore DEF OwnPrompts
      <3>9. BusyMatchesTurn'
        BY DEF BusyMatchesTurn, AnswersOpen, OneOpen, Shortened, Long
      <3>10. /\ Known' /\ Connected' /\ WaitingOpen' /\ WaitingOnce' /\ TurnOpen'
             /\ AnswersOpen' /\ OneOpen' /\ AnswersInOwnChat'
        BY DEF Known, Connected, WaitingOpen, WaitingOnce, TurnOpen, AnswersOpen, OneOpen,
           AnswersInOwnChat
      <3> QED
        BY <3>3, <3>4, <3>5, <3>6, <3>7, <3>8, <3>9, <3>10
    <2>5. ASSUME Head(down).of = 0, HandleError(Head(down))
         PROVE  ClientInv'
      <3> USE <2>1, <2>5 DEF Hearing, HandleError
      <3>1. down' \in Seq(DownFrames) /\ Head(down) \in DownFrames /\ Shortened(down, down')
        BY TailIs DEF ClientTypeOK, DownFrames
      <3>2. Head(down).of \in 0..MaxSubmits /\ Head(down).session \in Session \cup {NOSESSION}
        BY <3>1 DEF DownFrames, Frames
      <3>3. ClientTypeOK'
        <4> USE <3>1, <3>2, Bounds, Shapes DEF ClientTypeOK
        <4>1. /\ up' \in Seq(UpFrames) /\ down' \in Seq(DownFrames)
              /\ turn' = turn /\ sessions' = sessions /\ socket' = socket
          BY DEF UpFrames, DownFrames
        <4>2. isProcessing' \in BOOLEAN
          OBVIOUS
        <4>3. severed' \in BOOLEAN
          OBVIOUS
        <4>4. strayed' \in BOOLEAN
          BY DEF OpenElsewhere
        <4>5. open' \subseteq Prompts /\ ended' \subseteq Prompts /\ excused' \subseteq Prompts
          OBVIOUS
        <4>6. session' \in sessions \cup {NOSESSION} /\ view' \subseteq sessions \cup {NOSESSION}
          BY DEF Known, Shortened
        <4>7. /\ stops' \in 0..MaxAsks /\ loads' \subseteq sessions
              /\ submits' = submits /\ asks' = asks /\ losses' = losses /\ UNCHANGED refVars
          OBVIOUS
        <4> QED
          BY <4>1, <4>2, <4>3, <4>4, <4>5, <4>6, <4>7 DEF UpFrames, DownFrames
      <3>4. Known'
        BY DEF Known
      <3>5. Connected'
        BY DEF Connected
      <3>6. WaitingOpen'
        BY DEF WaitingOpen
      <3>7. WaitingOnce'
        BY DEF WaitingOnce
      <3>8. TurnOpen'
        BY DEF TurnOpen
      <3>9. AnswersOpen'
        BY DEF AnswersOpen
      <3>10. AnswersTaken'
        BY DEF AnswersTaken
      <3>11. CompletedOver'
        BY <3>1, <3>2, Shapes DEF CompletedOver
      <3>12. CompletedLast'
        BY <3>1, <3>2, StaysLast DEF CompletedLast
      <3>13. OneOpen'
        BY DEF OneOpen
      <3>14. OwnStarts'
        BY <3>1, <3>2, Shapes, StaysOwn DEF OwnStarts, OwnPrompts, Extended, Shortened, Connected
      <3>15. OwnPrompts'
        <4>1. down[1].kind # "cleared"
          BY DEF Shortened
        <4> QED
          BY <4>1, <3>1, <3>2, CalmBefore DEF OwnPrompts
      <3>16. BusyMatchesTurn'
        BY DEF BusyMatchesTurn
      <3>17. AnswersInOwnChat'
        BY DEF AnswersInOwnChat
      <3> QED
        BY <3>3, <3>4, <3>5, <3>6, <3>7, <3>8, <3>9, <3>10, <3>11, <3>12, <3>13, <3>14, <3>15,
           <3>16, <3>17
    <2>6. ASSUME Head(down).of # 0, HandleError(Head(down))
         PROVE  ClientInv'
      <3> USE <2>1, <2>6 DEF Hearing, HandleError
      <3>1. down' \in Seq(DownFrames) /\ Head(down) \in DownFrames /\ Shortened(down, down')
        BY TailIs DEF ClientTypeOK, DownFrames
      <3>2. Head(down).of \in 0..MaxSubmits /\ Head(down).session \in Session \cup {NOSESSION}
        BY <3>1 DEF DownFrames, Frames
      <3>3. ClientTypeOK'
        <4> USE <3>1, <3>2, Bounds, Shapes DEF ClientTypeOK
        <4>1. /\ up' \in Seq(UpFrames) /\ down' \in Seq(DownFrames)
              /\ turn' = turn /\ sessions' = sessions /\ socket' = socket
          BY DEF UpFrames, DownFrames
        <4>2. isProcessing' \in BOOLEAN
          OBVIOUS
        <4>3. severed' \in BOOLEAN
          OBVIOUS
        <4>4. strayed' \in BOOLEAN
          BY DEF OpenElsewhere
        <4>5. open' \subseteq Prompts /\ ended' \subseteq Prompts /\ excused' \subseteq Prompts
          <5>1. Head(down).of \in Prompts
            BY DEF Prompts, AnswersOpen, Shortened
          <5> QED
            BY <5>1
        <4>6. session' \in sessions \cup {NOSESSION} /\ view' \subseteq sessions \cup {NOSESSION}
          BY DEF Known, Shortened
        <4>7. /\ stops' \in 0..MaxAsks /\ loads' \subseteq sessions
              /\ submits' = submits /\ asks' = asks /\ losses' = losses /\ UNCHANGED refVars
          OBVIOUS
        <4> QED
          BY <4>1, <4>2, <4>3, <4>4, <4>5, <4>6, <4>7 DEF UpFrames, DownFrames
      <3>4. Known'
        BY DEF Known
      <3>5. Connected'
        BY DEF Connected
      <3>6. WaitingOpen'
        BY <3>1, <3>2, Shapes, Bounds, StaysOnce, ZenonT(60) DEF WaitingOpen, AnswersTaken, Shortened
      <3>7. WaitingOnce'
        BY DEF WaitingOnce
      <3>8. TurnOpen'
        BY <3>1, <3>2, Shapes DEF TurnOpen, WaitingOpen, CompletedOver, CompletedLast, LastWords,
           Connected, Extended, Shortened, Long, NoTurn
      <3>9. AnswersOpen'
        BY <3>1, <3>2, Shapes, SMTT(60) DEF AnswersOpen, CompletedLast, LastWords, TurnOpen, WaitingOpen,
           Connected, Extended, Shortened, Long, NoTurn
      <3>10. AnswersTaken'
        BY <3>1, <3>2, Shapes, StaysOnce DEF AnswersTaken
      <3>11. CompletedOver'
        BY SMTT(60) DEF CompletedOver
      <3>12. CompletedLast'
        BY <3>1, <3>2, StaysLast DEF CompletedLast
      <3>13. OneOpen'
        BY DEF OneOpen
      <3>14. OwnStarts'
        BY <3>1, <3>2, Shapes, StaysOwn DEF OwnStarts, OwnPrompts, Extended, Shortened, Connected
      <3>15. OwnPrompts'
        <4>1. down[1].kind # "cleared"
          BY DEF Shortened
        <4> QED
          BY <4>1, <3>1, <3>2, CalmBefore DEF OwnPrompts
      <3>16. BusyMatchesTurn'
        BY DEF BusyMatchesTurn, AnswersOpen, OneOpen, Shortened, Long
      <3>17. AnswersInOwnChat'
        BY DEF AnswersInOwnChat
      <3> QED
        BY <3>3, <3>4, <3>5, <3>6, <3>7, <3>8, <3>9, <3>10, <3>11, <3>12, <3>13, <3>14, <3>15,
           <3>16, <3>17
    <2>7. ASSUME HandleComplete(Head(down))
         PROVE  ClientInv'
      <3> USE <2>1, <2>7 DEF Hearing, HandleComplete
      <3>1. down' \in Seq(DownFrames) /\ Head(down) \in DownFrames /\ Shortened(down, down')
        BY TailIs DEF ClientTypeOK, DownFrames
      <3>2. Head(down).of \in 0..MaxSubmits /\ Head(down).session \in Session \cup {NOSESSION}
        BY <3>1 DEF DownFrames, Frames
      <3>3. ClientTypeOK'
        <4> USE <3>1, <3>2, Bounds, Shapes DEF ClientTypeOK
        <4>1. /\ up' \in Seq(UpFrames) /\ down' \in Seq(DownFrames)
              /\ turn' = turn /\ sessions' = sessions /\ socket' = socket
          BY DEF UpFrames, DownFrames
        <4>2. isProcessing' \in BOOLEAN
          OBVIOUS
        <4>3. severed' \in BOOLEAN
          OBVIOUS
        <4>4. strayed' \in BOOLEAN
          BY DEF OpenElsewhere
        <4>5. open' \subseteq Prompts /\ ended' \subseteq Prompts /\ excused' \subseteq Prompts
          <5>1. Head(down).of \in Prompts
            BY DEF Prompts, AnswersOpen, Shortened
          <5> QED
            BY <5>1
        <4>6. session' \in sessions \cup {NOSESSION} /\ view' \subseteq sessions \cup {NOSESSION}
          BY DEF Known, Shortened
        <4>7. /\ stops' \in 0..MaxAsks /\ loads' \subseteq sessions
              /\ submits' = submits /\ asks' = asks /\ losses' = losses /\ UNCHANGED refVars
          OBVIOUS
        <4> QED
          BY <4>1, <4>2, <4>3, <4>4, <4>5, <4>6, <4>7 DEF UpFrames, DownFrames
      <3>4. Known'
        BY DEF Known
      <3>5. Connected'
        BY DEF Connected
      <3>6. WaitingOpen'
        BY <3>1, <3>2, Shapes, Bounds, StaysOnce, ZenonT(60) DEF WaitingOpen, AnswersTaken, Shortened
      <3>7. WaitingOnce'
        BY DEF WaitingOnce
      <3>8. TurnOpen'
        BY SMTT(60) DEF TurnOpen, WaitingOpen, CompletedOver, CompletedLast, LastWords, Connected, Extended,
           Shortened, Long, NoTurn
      <3>9. AnswersOpen'
        BY <3>1, <3>2, Shapes, SMTT(60) DEF AnswersOpen, CompletedLast, LastWords, TurnOpen, WaitingOpen,
           Connected, Extended, Shortened, Long, NoTurn
      <3>10. AnswersTaken'
        BY <3>1, <3>2, Shapes, StaysOnce DEF AnswersTaken
      <3>11. CompletedOver'
        BY <3>1, <3>2, Shapes DEF CompletedOver
      <3>12. CompletedLast'
        BY <3>1, <3>2, StaysLast DEF CompletedLast
      <3>13. OneOpen'
        BY DEF OneOpen
      <3>14. OwnStarts'
        BY <3>1, <3>2, Shapes, StaysOwn DEF OwnStarts, OwnPrompts, Extended, Shortened, Connected
      <3>15. OwnPrompts'
        <4>1. down[1].kind # "cleared"
          BY DEF Shortened
        <4> QED
          BY <4>1, <3>1, <3>2, CalmBefore DEF OwnPrompts
      <3>16. BusyMatchesTurn'
        BY DEF BusyMatchesTurn, AnswersOpen, OneOpen, Shortened, Long
      <3>17. AnswersInOwnChat'
        BY DEF AnswersInOwnChat
      <3> QED
        BY <3>3, <3>4, <3>5, <3>6, <3>7, <3>8, <3>9, <3>10, <3>11, <3>12, <3>13, <3>14, <3>15,
           <3>16, <3>17
    <2> QED
      BY <1>14, <2>2, <2>3, <2>4, <2>5, <2>6, <2>7 DEF Receive
  <1>16. ASSUME FailTurn PROVE ClientInv'
    <2> USE <1>16 DEF FailTurn
    <2>0. turn # NoTurn
      BY DEF NoTurn
    <2> USE <2>0
    <2>1. /\ Frame("failed", turn.of, turn.session) \in DownFrames
          /\ Frame("failed", turn.of, turn.session).kind = "failed"
          /\ Frame("failed", turn.of, turn.session).of = turn.of
          /\ Frame("failed", turn.of, turn.session).session = turn.session
      BY DownFrameIs, Bounds, Shapes DEF ClientTypeOK
    <2>2. down' \in Seq(DownFrames) /\ Extended(down, down', Frame("failed", turn.of, turn.session))
      BY <2>1, AppendIs DEF ClientTypeOK, DownFrames, Say
    <2>3. ClientTypeOK'
      BY <2>1, <2>2, Bounds, Shapes DEF ClientTypeOK, UpFrames, DownFrames, Frames, Prompts, Known,
         SwitchTo, OpenElsewhere, Shortened, NoTurn, AnswersOpen
    <2>4. Known'
      BY <2>1, <2>2, Shapes DEF Known, ClientTypeOK, NoTurn, Extended, Shortened, Long
    <2>5. WaitingOpen'
      BY DEF WaitingOpen, WaitingOnce, TurnOpen, AnswersOpen, AnswersTaken, CompletedOver,
         Connected, Extended, Shortened, Long, NoTurn
    <2>6. AnswersOpen'
      BY <2>1, <2>2, Shapes DEF AnswersOpen, CompletedLast, LastWords, TurnOpen, WaitingOpen,
         Connected, Extended, Shortened, Long, NoTurn
    <2>7. AnswersTaken'
      BY <2>1, <2>2, Shapes, StaysOnce DEF AnswersTaken, WaitingOpen, Extended
    <2>8. CompletedOver'
      BY <2>1, <2>2, Shapes DEF CompletedOver, CompletedLast, LastWords, AnswersOpen, AnswersTaken,
         WaitingOpen, TurnOpen, Connected, Extended, Shortened, Long, NoTurn
    <2>9. CompletedLast'
      <3>1. \A i \in DOMAIN down : down[i].kind \in {"failed", "complete"} =>
              Frame("failed", turn.of, turn.session).of # down[i].of
        BY <2>1, <2>2, Shapes DEF CompletedOver, AnswersTaken, AnswersOpen, WaitingOpen, TurnOpen,
           Connected,
                  NoTurn, Shortened, Long
      <3> QED
        BY <3>1, <2>1, <2>2, StaysLast DEF CompletedLast
    <2>10. OwnStarts'
      <3>1. ~strayed =>
              \/ Frame("failed", turn.of, turn.session).kind = "start" => Frame("failed", turn.of, turn.session).session = session
                            \/ \E j \in DOMAIN down : down[j].kind = "cleared"
        BY <2>1, <2>2, Shapes DEF OwnPrompts, Connected, NoTurn
      <3> QED
        BY <3>1, <2>1, <2>2, StaysOwn DEF OwnStarts
    <2>11. OwnPrompts'
      BY <2>1, <2>2, Shapes, CalmBefore DEF OwnPrompts, Connected, OpenElsewhere, WaitingOpen,
         Extended, Shortened, Long, NoTurn
    <2>12. /\ Connected' /\ WaitingOnce' /\ TurnOpen' /\ OneOpen' /\ BusyMatchesTurn'
           /\ AnswersInOwnChat'
      BY DEF Connected, WaitingOnce, TurnOpen, OneOpen, BusyMatchesTurn, AnswersInOwnChat
    <2> QED
      BY <2>3, <2>4, <2>5, <2>6, <2>7, <2>8, <2>9, <2>10, <2>11, <2>12
  <1>17. ASSUME Render PROVE ClientInv'
    <2> USE <1>17 DEF Render
    <2>1. ClientTypeOK'
      BY DEF ClientTypeOK
    <2>2. /\ Known' /\ Connected' /\ WaitingOpen' /\ WaitingOnce' /\ TurnOpen' /\ AnswersOpen'
           /\ AnswersTaken' /\ CompletedOver' /\ CompletedLast' /\ OneOpen' /\ OwnStarts'
           /\ OwnPrompts' /\ BusyMatchesTurn' /\ AnswersInOwnChat'
      BY DEF Known, Connected, WaitingOpen, WaitingOnce, TurnOpen, AnswersOpen, AnswersTaken,
         CompletedOver, CompletedLast, OneOpen, OwnStarts, OwnPrompts, BusyMatchesTurn,
         AnswersInOwnChat
    <2> QED
      BY <2>1, <2>2
  <1>15. ASSUME UNCHANGED clientVars PROVE ClientInv'
    BY <1>15 DEF clientVars, ClientTypeOK, Known, Connected, WaitingOpen, WaitingOnce, TurnOpen,
       AnswersOpen, AnswersTaken, CompletedOver, CompletedLast, OneOpen, OwnStarts, OwnPrompts,
       BusyMatchesTurn, AnswersInOwnChat
  <1> QED
    BY <1>1, <1>2, <1>3, <1>4, <1>5, <1>6, <1>7, <1>8, <1>9, <1>10, <1>11, <1>12, <1>13, <1>14,
       <1>15, <1>16, <1>17 DEF ClientNext

\* Every field keeps to its values, whatever the server answers and in whatever
\* order its frames arrive and the user acts.
THEOREM ClientTypes == ClientSpec => []ClientTypeOK
  <1>1. ClientInv => ClientTypeOK
    BY DEF ClientInv
  <1> QED
    BY <1>1, ClientInitInv, ClientNextInv, PTL DEF ClientSpec

\* isProcessing, which decides between a prompt and a steer, follows the prompts of
\* the connection.
THEOREM BusyMatches == ClientSpec => []BusyMatchesTurn
  <1>1. ClientInv => BusyMatchesTurn
    BY DEF ClientInv
  <1> QED
    BY <1>1, ClientInitInv, ClientNextInv, PTL DEF ClientSpec

\* No handler compares the session of a message with the current one, and still
\* the messages shown are of it.
THEOREM OwnChat == ClientSpec => []AnswersInOwnChat
  <1>1. ClientInv => AnswersInOwnChat
    BY DEF ClientInv
  <1> QED
    BY <1>1, ClientInitInv, ClientNextInv, PTL DEF ClientSpec
=============================================================================
