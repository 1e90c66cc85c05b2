---------------------------- MODULE MeetingProofs ----------------------------
(***************************************************************************)
(* Safety of meetings for any sessions, requests, notes and bounds.  The   *)
(* invariant, Inv, joins the safety invariants with what ties a session to *)
(* the command, the thread and the history that work on it.                *)
(***************************************************************************)
EXTENDS Meeting, SequenceTheorems, TLAPS

\* Nothing was done yet for a session that is about to be inserted.
Fresh(m) ==
  /\ m \notin ToSet(created) /\ status[m] = "absent" /\ thread[m] = "none"
  /\ m \notin tried /\ typed[m] = NULL /\ wav[m] # "removed"

\* An id is fresh until it is used, and while ffmpeg is being started for it.
FreshUntilCreated ==
  /\ \A m \in Meeting : m \notin used => Fresh(m)
  /\ main.op = "starting" => Fresh(main.of) /\ main.of \in used /\ active = NULL

\* What exists was inserted, and the session being deleted is gone.
Inserted ==
  /\ \A m \in Meeting : Exists(m) => m \in ToSet(created)
  /\ main.op = "deleting" => ~Exists(main.of) /\ main.of \in used

\* The active meeting is recording and has not been transcribed, a thread
\* works on a session in processing or on a deleted one.
Working ==
  /\ active # NULL =>
       active \in used /\ active \notin tried /\ thread[active] = "none" /\ status[active] = "recording"
  /\ \A m \in Meeting : thread[m] # "none" => m \in used /\ status[m] \in {"processing", "absent"}
  /\ ~up => active = NULL /\ main = Idle /\ \A m \in Meeting : thread[m] = "none"

\* Each piece gives at most one segment, and a meeting is transcribed once.
PiecesCounted ==
  \A m \in Meeting :
    /\ m \notin tried => segments[m] = 0
    /\ thread[m] = "decoding" => m \notin tried
    /\ thread[m] \in {"transcribing", "removing", "closing"} => m \in tried
    /\ thread[m] = "transcribing" => left[m] >= 1 /\ segments[m] + left[m] <= MaxChunks

\* A summary task works on a session.
Asked == \A a \in Ask : ask[a] # "idle" => askOf[a] \in Meeting

\* A thread works on a session that was inserted, and so does a deletion.
UnderHand ==
  \A m \in Meeting : thread[m] # "none" \/ (main.op = "deleting" /\ main.of = m) => m \in ToSet(created)

Typed == TypeOK /\ NoOrphanRows /\ PiecesCounted /\ Asked

Owned == FreshUntilCreated /\ Inserted /\ Working

Inv == Typed /\ Owned /\ StatusOwned /\ AudioSafe /\ NotesSurvive /\ UnderHand

-----------------------------------------------------------------------------
LEMMA InitInv == Init => Inv
  <1> SUFFICES ASSUME Init PROVE Inv
    OBVIOUS
  <1> USE MeetingAssumption DEF Init, Exists, Idle
  <1>1. TypeOK
    BY DEF TypeOK, Command, NotesRow, IsInjective
  <1>2. ToSet(created) = {}
    BY DEF ToSet
  <1> QED
    BY <1>1, <1>2 DEF Inv, Typed, NoOrphanRows, PiecesCounted, Asked, Owned, FreshUntilCreated,
      Fresh, Inserted, Working, StatusOwned, AudioSafe, NotesSurvive, UnderHand

\* A session that is inserted for the first time keeps the ids distinct.
LEMMA AppendNew ==
  ASSUME created \in Seq(Meeting), IsInjective(created),
         NEW m \in Meeting, m \notin ToSet(created),
         NEW longer, longer = Append(created, m)
  PROVE  /\ longer \in Seq(Meeting) /\ IsInjective(longer)
         /\ ToSet(longer) = ToSet(created) \cup {m}
  <1>1. /\ longer \in Seq(Meeting) /\ Len(longer) = Len(created) + 1
        /\ \A i \in 1..Len(created) : longer[i] = created[i]
        /\ longer[Len(created) + 1] = m
    BY AppendProperties
  <1>2. Len(created) \in Nat /\ DOMAIN created = 1..Len(created)
        /\ DOMAIN longer = 1..(Len(created) + 1)
    BY <1>1, LenProperties
  <1>3. ToSet(longer) = ToSet(created) \cup {m}
    BY <1>1, <1>2 DEF ToSet
  <1>4. \A i \in 1..Len(created) : created[i] # m
    BY <1>2 DEF ToSet
  <1>5. ASSUME NEW i \in DOMAIN longer, NEW j \in DOMAIN longer, longer[i] = longer[j]
        PROVE  i = j
    <2>1. CASE i \in 1..Len(created) /\ j \in 1..Len(created)
      BY <1>1, <1>2, <1>5, <2>1 DEF IsInjective
    <2>2. CASE i = Len(created) + 1 \/ j = Len(created) + 1
      BY <1>1, <1>2, <1>4, <1>5, <2>2
    <2> QED BY <1>2, <1>5, <2>1, <2>2
  <1>6. IsInjective(longer)
    BY <1>5 DEF IsInjective
  <1> QED BY <1>1, <1>3, <1>6

LEMMA TypedNext == Typed /\ Owned /\ [Next]_vars => Typed'
  <1> SUFFICES ASSUME Typed, Owned, [Next]_vars PROVE Typed'
    OBVIOUS
  <1> USE MeetingAssumption DEF Typed, TypeOK, Command, NotesRow, Idle, Open, Settled, Exists,
        NoOrphanRows, PiecesCounted, Asked, taskVars, askVars, rowVars, noteVars, boundVars
  <1>1. ASSUME NEW m \in Meeting, StartRecorder(m) PROVE Typed'
    BY <1>1 DEF StartRecorder, Ready
  <1>2. ASSUME CreateSession PROVE Typed'
    <2>1. TypeOK'
      <3>1. main.of \in Meeting /\ main.of \notin ToSet(created)
        BY <1>2 DEF CreateSession, Owned, FreshUntilCreated, Fresh
      <3>2. created' \in Seq(Meeting) /\ IsInjective(created')
        <4>1. CASE created' = Append(created, main.of)
          BY <3>1, <4>1, AppendNew
        <4>2. CASE created' = created
          BY <4>2
        <4> QED BY <1>2, <4>1, <4>2 DEF CreateSession
      <3>3. status' \in [Meeting -> Open \cup Settled \cup {"absent"}]
        BY <1>2, <3>1 DEF CreateSession
      <3>4. faults' \in 0..MaxFaults /\ crashes' = crashes
        BY <1>2 DEF CreateSession, Succeeds, Fails
      <3>5. main' \in Command /\ active' \in Meeting \cup {NULL}
        BY <1>2, <3>1 DEF CreateSession
      <3> QED BY <1>2, <3>2, <3>3, <3>4, <3>5 DEF CreateSession
    <2>2. NoOrphanRows'
      BY <1>2 DEF CreateSession, Succeeds, Fails
    <2>3. PiecesCounted'
      BY <1>2 DEF CreateSession, Succeeds, Fails
    <2>4. Asked'
      BY <1>2 DEF CreateSession, Succeeds, Fails
    <2> QED BY <2>1, <2>2, <2>3, <2>4
  <1>3. ASSUME StopMeeting PROVE Typed'
    <2>1. TypeOK'
      <3>1. status' \in [Meeting -> Open \cup Settled \cup {"absent"}]
        <4>1. CASE UNCHANGED status
          BY <4>1
        <4>2. CASE SetStatus(active, "processing")
          BY <4>2 DEF SetStatus
        <4> QED BY <1>3, <4>1, <4>2 DEF StopMeeting
      <3>2. thread' \in [Meeting -> {"none", "decoding", "transcribing", "removing", "closing"}]
        BY <1>3 DEF StopMeeting
      <3>3. faults' \in 0..MaxFaults /\ crashes' = crashes /\ left_behind' \in SUBSET Meeting
        BY <1>3 DEF StopMeeting, Succeeds, Fails
      <3> QED BY <1>3, <3>1, <3>2, <3>3 DEF StopMeeting
    <2>2. NoOrphanRows'
      BY <1>3 DEF StopMeeting, Succeeds, Fails, SetStatus, Exists, Ready
    <2>3. PiecesCounted'
      <3>1. active \in Meeting /\ active \notin tried /\ segments[active] = 0
        BY <1>3 DEF StopMeeting, Owned, Working
      <3> QED BY <1>3, <3>1 DEF StopMeeting, SetStatus
    <2>4. Asked'
      BY <1>3 DEF StopMeeting, Succeeds, Fails, SetStatus, Exists, Ready
    <2> QED BY <2>1, <2>2, <2>3, <2>4
  <1>4. ASSUME NEW m \in Meeting, NEW text \in Text, SaveNotes(m, text) PROVE Typed'
    <2>1. TypeOK'
      <3>1. notes' \in [Meeting -> NotesRow \cup {NULL}]
        BY <1>4 DEF SaveNotes, SetNotes, WithRaw
      <3>2. typed' \in [Meeting -> Text \cup {NULL}] /\ nulled' \in SUBSET Meeting
        BY <1>4 DEF SaveNotes
      <3> QED BY <1>4, <3>1, <3>2, SMTT(60) DEF SaveNotes
    <2>2. NoOrphanRows'
      <3>1. UNCHANGED <<status, segments, fts>> /\ SetNotes(m, WithRaw(m, text))
        BY <1>4 DEF SaveNotes
      <3> QED
        BY <3>1 DEF NoOrphanRows, SetNotes, Exists
    <2>3. PiecesCounted'
      BY <1>4 DEF SaveNotes, SetNotes, WithRaw, Ready, Exists
    <2>4. Asked'
      BY <1>4 DEF SaveNotes, SetNotes, WithRaw, Ready, Exists
    <2> QED BY <2>1, <2>2, <2>3, <2>4
  <1>5. ASSUME NEW m \in Meeting, DeleteSession(m) PROVE Typed'
    BY <1>5 DEF DeleteSession, Exists, Ready
  <1>6. ASSUME DeleteWav PROVE Typed'
    BY <1>6 DEF DeleteWav, Removed
  <1>7. ASSUME NEW m \in Meeting, Decode(m) PROVE Typed'
    <2>1. TypeOK'
      <3>1. /\ left' \in [Meeting -> 0..MaxChunks]
            /\ thread' \in [Meeting -> {"none", "decoding", "transcribing", "removing", "closing"}]
            /\ outcome' \in [Meeting -> {"ok", "error"}]
        <4>1. CASE /\ UNCHANGED left /\ thread' = [thread EXCEPT ![m] = "removing"]
                   /\ \E result \in {"ok", "error"} : outcome' = [outcome EXCEPT ![m] = result]
          BY <4>1
        <4>2. CASE /\ \E n \in 1..MaxChunks : left' = [left EXCEPT ![m] = n]
                   /\ thread' = [thread EXCEPT ![m] = "transcribing"]
                   /\ outcome' = [outcome EXCEPT ![m] = "ok"]
          BY <4>2
        <4> QED BY <1>7, <4>1, <4>2 DEF Decode
      <3>2. tried' \in SUBSET Meeting
        BY <1>7 DEF Decode
      <3> QED BY <1>7, <3>1, <3>2 DEF Decode
    <2>2. NoOrphanRows'
      BY <1>7 DEF Decode
    <2>3. PiecesCounted'
      BY <1>7 DEF Decode
    <2>4. Asked'
      BY <1>7 DEF Decode
    <2> QED BY <2>1, <2>2, <2>3, <2>4
  <1>8. ASSUME NEW m \in Meeting, Transcribe(m) PROVE Typed'
    <2>1. TypeOK'
      <3>1. left' \in [Meeting -> 0..MaxChunks]
        BY <1>8 DEF Transcribe
      <3>2. thread' \in [Meeting -> {"none", "decoding", "transcribing", "removing", "closing"}]
        BY <1>8 DEF Transcribe
      <3>3. segments' \in [Meeting -> 0..MaxChunks] /\ fts' \in [Meeting -> 0..MaxChunks]
        <4>1. segments[m] + 1 \in 0..MaxChunks /\ fts[m] = segments[m]
          BY <1>8 DEF Transcribe
        <4>2. CASE InsertSegment(m)
          BY <4>1, <4>2 DEF InsertSegment
        <4>3. CASE UNCHANGED rowVars
          BY <4>3
        <4> QED BY <1>8, <4>2, <4>3 DEF Transcribe
      <3> QED BY <1>8, <3>1, <3>2, <3>3 DEF Transcribe
    <2>2. NoOrphanRows'
      <3>1. CASE InsertSegment(m)
        BY <1>8, <3>1, SMTT(60) DEF Transcribe, InsertSegment
      <3>2. CASE UNCHANGED rowVars
        BY <1>8, <3>2 DEF Transcribe
      <3> QED BY <1>8, <3>1, <3>2 DEF Transcribe
    <2>3. PiecesCounted'
      BY <1>8, SMTT(60) DEF Transcribe, InsertSegment, Exists
    <2>4. Asked'
      BY <1>8 DEF Transcribe, InsertSegment, Exists
    <2> QED BY <2>1, <2>2, <2>3, <2>4
  <1>9. ASSUME NEW m \in Meeting, RemoveWav(m) PROVE Typed'
    BY <1>9 DEF RemoveWav, Removed
  <1>10. ASSUME NEW m \in Meeting, Close(m) PROVE Typed'
    <2>1. TypeOK'
      <3>1. status' \in [Meeting -> Open \cup Settled \cup {"absent"}]
        <4>1. CASE UNCHANGED status
          BY <4>1
        <4>2. CASE SetStatus(m, IF outcome[m] = "ok" THEN "complete" ELSE "error")
          BY <4>2 DEF SetStatus
        <4> QED BY <1>10, <4>1, <4>2 DEF Close
      <3>2. thread' \in [Meeting -> {"none", "decoding", "transcribing", "removing", "closing"}]
        BY <1>10 DEF Close
      <3>3. faults' \in 0..MaxFaults /\ crashes' = crashes /\ left_behind' \in SUBSET Meeting
        BY <1>10 DEF Close, Succeeds, Fails
      <3> QED BY <1>10, <3>1, <3>2, <3>3, SMTT(60) DEF Close
    <2>2. NoOrphanRows'
      BY <1>10 DEF Close, Succeeds, Fails, SetStatus, Exists
    <2>3. PiecesCounted'
      BY <1>10 DEF Close, Succeeds, Fails, SetStatus, Exists
    <2>4. Asked'
      BY <1>10 DEF Close, Succeeds, Fails, SetStatus, Exists
    <2> QED BY <2>1, <2>2, <2>3, <2>4
  <1>11. ASSUME NEW a \in Ask, NEW m \in Meeting, AskSummary(a, m) PROVE Typed'
    BY <1>11, ZenonT(60) DEF AskSummary, Ready
  <1>12. ASSUME NEW a \in Ask, NoSummary(a) PROVE Typed'
    BY <1>12 DEF NoSummary
  <1>13. ASSUME NEW a \in Ask, StoreSummary(a) PROVE Typed'
    <2>1. TypeOK'
      <3>1. notes' \in [Meeting -> NotesRow \cup {NULL}]
        <4>1. CASE UNCHANGED notes
          BY <4>1
        <4>2. CASE notes[askOf[a]] # NULL /\ notes' = [notes EXCEPT ![askOf[a]].ai = TRUE]
          <5>1. askOf[a] \in Meeting /\ notes[askOf[a]] \in NotesRow
            BY <1>13, <4>2 DEF StoreSummary
          <5>2. [notes[askOf[a]] EXCEPT !.ai = TRUE] \in NotesRow
            BY <5>1
          <5> QED BY <4>2, <5>1, <5>2
        <4> QED BY <1>13, <4>1, <4>2 DEF StoreSummary
      <3>2. ask' \in [Ask -> {"idle", "thinking", "preparing", "retrying"}]
        BY <1>13 DEF StoreSummary
      <3> QED BY <1>13, <3>1, <3>2, SMTT(60) DEF StoreSummary
    <2>2. NoOrphanRows'
      BY <1>13 DEF StoreSummary
    <2>3. PiecesCounted'
      BY <1>13 DEF StoreSummary
    <2>4. Asked'
      BY <1>13 DEF StoreSummary
    <2> QED BY <2>1, <2>2, <2>3, <2>4
  <1>14. ASSUME NEW a \in Ask, StoreFails(a) PROVE Typed'
    BY <1>14 DEF StoreFails, Fails
  <1>15. ASSUME NEW a \in Ask, PrepareNotes(a) PROVE Typed'
    <2>1. TypeOK'
      <3>1. notes' \in [Meeting -> NotesRow \cup {NULL}]
        <4>1. CASE UNCHANGED notes
          BY <4>1
        <4>2. CASE SetNotes(askOf[a], WithRaw(askOf[a], NULL))
          BY <1>15, <4>2 DEF SetNotes, WithRaw, PrepareNotes
        <4> QED BY <1>15, <4>1, <4>2 DEF PrepareNotes
      <3>2. ask' \in [Ask -> {"idle", "thinking", "preparing", "retrying"}]
        BY <1>15 DEF PrepareNotes
      <3>3. faults' \in 0..MaxFaults /\ crashes' = crashes
        BY <1>15 DEF PrepareNotes, Succeeds, Fails
      <3>4. nulled' \in SUBSET Meeting
        BY <1>15 DEF PrepareNotes
      <3> QED BY <1>15, <3>1, <3>2, <3>3, <3>4, SMTT(60) DEF PrepareNotes
    <2>2. NoOrphanRows'
      <3>1. UNCHANGED <<status, segments, fts>>
        BY <1>15 DEF PrepareNotes
      <3>2. CASE UNCHANGED notes
        BY <3>1, <3>2 DEF NoOrphanRows, Exists
      <3>3. CASE SetNotes(askOf[a], WithRaw(askOf[a], NULL))
        BY <3>1, <3>3 DEF NoOrphanRows, SetNotes, Exists
      <3> QED
        BY <1>15, <3>2, <3>3 DEF PrepareNotes
    <2>3. PiecesCounted'
      BY <1>15 DEF PrepareNotes, Succeeds, Fails, SetNotes, WithRaw, Exists
    <2>4. Asked'
      BY <1>15 DEF PrepareNotes, Succeeds, Fails, SetNotes, WithRaw, Exists
    <2> QED BY <2>1, <2>2, <2>3, <2>4
  <1>16. ASSUME Crash PROVE Typed'
    <2>1. TypeOK'
      <3>1. main' \in Command /\ up' \in BOOLEAN /\ active' \in Meeting \cup {NULL}
        BY <1>16 DEF Crash
      <3>2. thread' \in [Meeting -> {"none", "decoding", "transcribing", "removing", "closing"}]
        BY <1>16 DEF Crash
      <3>3. left' \in [Meeting -> 0..MaxChunks] /\ crashes' \in 0..MaxCrashes
        BY <1>16 DEF Crash
      <3>4. ask' \in [Ask -> {"idle", "thinking", "preparing", "retrying"}]
        BY <1>16 DEF Crash
      <3> QED BY <1>16, <3>1, <3>2, <3>3, <3>4 DEF Crash
    <2>2. NoOrphanRows'
      BY <1>16 DEF Crash
    <2>3. PiecesCounted'
      BY <1>16 DEF Crash
    <2>4. Asked'
      BY <1>16 DEF Crash
    <2> QED BY <2>1, <2>2, <2>3, <2>4
  <1>17. ASSUME Restart PROVE Typed'
    <2>1. TypeOK'
      <3>1. status' \in [Meeting -> Open \cup Settled \cup {"absent"}]
        BY <1>17 DEF Restart
      <3>2. left_behind' \in SUBSET Meeting /\ up' \in BOOLEAN
        BY <1>17 DEF Restart
      <3>3. faults' \in 0..MaxFaults /\ crashes' = crashes
        BY <1>17 DEF Restart, Succeeds, Fails
      <3> QED BY <1>17, <3>1, <3>2, <3>3 DEF Restart
    <2>2. NoOrphanRows'
      BY <1>17 DEF Restart, Succeeds, Fails, Listed, Open
    <2>3. PiecesCounted'
      BY <1>17 DEF Restart, Succeeds, Fails, Listed, Open
    <2>4. Asked'
      BY <1>17 DEF Restart, Succeeds, Fails, Listed, Open
    <2> QED BY <2>1, <2>2, <2>3, <2>4
  <1>18. CASE UNCHANGED vars
    BY <1>18 DEF vars
  <1> QED
    BY <1>1, <1>2, <1>3, <1>4, <1>5, <1>6, <1>7, <1>8, <1>9, <1>10, <1>11, <1>12, <1>13,
          <1>14, <1>15, <1>16, <1>17, <1>18 DEF Next, Rest, ThreadStep, AskStep

\* A startup neither brings a session back nor makes one go, and leaves the
\* settled ones alone.
LEMMA RestartKeeps ==
  ASSUME TypeOK, Restart
  PROVE  \A m \in Meeting : /\ status'[m] = "absent" <=> status[m] = "absent"
                            /\ status[m] \in Settled => status'[m] = status[m]
  <1> SUFFICES ASSUME NEW m \in Meeting
               PROVE  /\ status'[m] = "absent" <=> status[m] = "absent"
                      /\ status[m] \in Settled => status'[m] = status[m]
    OBVIOUS
  <1>1. PICK marked \in SUBSET {k \in Listed : status[k] \in Open} :
          status' = [k \in Meeting |-> IF k \in marked THEN "error" ELSE status[k]]
    BY DEF Restart
  <1>2. m \in marked => status[m] \in {"recording", "processing"}
    BY <1>1 DEF Open
  <1> QED BY <1>1, <1>2 DEF Settled

\* ... as CreateSession inserts it.
LEMMA CreatedGrows ==
  ASSUME created \in Seq(Meeting), IsInjective(created), NEW m \in Meeting,
         m \notin ToSet(created), created' = Append(created, m)
  PROVE  ToSet(created') = ToSet(created) \cup {m}
  BY AppendNew

LEMMA OwnedNext == Typed /\ Owned /\ [Next]_vars => Owned'
  <1> SUFFICES ASSUME Typed, Owned, [Next]_vars PROVE Owned'
    OBVIOUS
  <1> USE MeetingAssumption DEF Typed, TypeOK, Command, Idle, Open, Settled, Exists,
        PiecesCounted, Owned, FreshUntilCreated, Fresh,
        Inserted, Working,
        taskVars, askVars, rowVars, noteVars, boundVars
  <1>1. ASSUME NEW m \in Meeting, StartRecorder(m) PROVE Owned'
    <2>1. FreshUntilCreated'
      BY <1>1 DEF StartRecorder, Ready
    <2>2. Inserted'
      BY <1>1 DEF StartRecorder, Ready
    <2>3. Working'
      BY <1>1 DEF StartRecorder, Ready
    <2> QED BY <2>1, <2>2, <2>3
  <1>2. ASSUME CreateSession PROVE Owned'
    <2>1. /\ main.of \in Meeting /\ Fresh(main.of) /\ main.of \in used /\ main' = Idle
          /\ \A m \in Meeting : thread'[m] = "none" <=> thread[m] = "none"
      BY <1>2 DEF CreateSession
    <2>2. CASE created' = Append(created, main.of) /\ active' = main.of
               /\ status' = [status EXCEPT ![main.of] = "recording"]
      <3>1. ToSet(created') = ToSet(created) \cup {main.of}
        BY <2>1, <2>2, CreatedGrows
      <3>2. FreshUntilCreated'
        BY <1>2, <2>1, <2>2, <3>1 DEF CreateSession
      <3>3. Inserted'
        BY <1>2, <2>1, <2>2, <3>1 DEF CreateSession
      <3>4. Working'
        BY <1>2, <2>1, <2>2 DEF CreateSession
      <3> QED BY <3>2, <3>3, <3>4
    <2>3. CASE UNCHANGED <<created, status, active>>
      BY <1>2, <2>1, <2>3 DEF CreateSession
    <2> QED BY <1>2, <2>2, <2>3 DEF CreateSession
  <1>3. ASSUME StopMeeting PROVE Owned'
    <2>1. FreshUntilCreated'
      BY <1>3 DEF StopMeeting, Succeeds, Fails, SetStatus, Exists, Ready
    <2>2. Inserted'
      BY <1>3 DEF StopMeeting, Succeeds, Fails, SetStatus, Exists, Ready
    <2>3. Working'
      BY <1>3 DEF StopMeeting, Succeeds, Fails, SetStatus, Exists, Ready
    <2> QED BY <2>1, <2>2, <2>3
  <1>4. ASSUME NEW m \in Meeting, NEW text \in Text, SaveNotes(m, text) PROVE Owned'
    <2>1. FreshUntilCreated'
      BY <1>4 DEF SaveNotes, SetNotes, WithRaw, Ready, Exists
    <2>2. Inserted'
      BY <1>4 DEF SaveNotes, SetNotes, WithRaw, Ready, Exists
    <2>3. Working'
      BY <1>4 DEF SaveNotes, SetNotes, WithRaw, Ready, Exists
    <2> QED BY <2>1, <2>2, <2>3
  <1>5. ASSUME NEW m \in Meeting, DeleteSession(m) PROVE Owned'
    <2>1. FreshUntilCreated'
      BY <1>5 DEF DeleteSession, Exists, Ready
    <2>2. Inserted'
      BY <1>5 DEF DeleteSession, Exists, Ready
    <2>3. Working'
      BY <1>5 DEF DeleteSession, Exists, Ready
    <2> QED BY <2>1, <2>2, <2>3
  <1>6. ASSUME DeleteWav PROVE Owned'
    <2>1. FreshUntilCreated'
      BY <1>6 DEF DeleteWav, Removed
    <2>2. Inserted'
      BY <1>6 DEF DeleteWav, Removed
    <2>3. Working'
      BY <1>6 DEF DeleteWav, Removed
    <2> QED BY <2>1, <2>2, <2>3
  <1>7. ASSUME NEW m \in Meeting, Decode(m) PROVE Owned'
    <2>1. FreshUntilCreated'
      BY <1>7 DEF Decode
    <2>2. Inserted'
      BY <1>7 DEF Decode
    <2>3. Working'
      BY <1>7 DEF Decode
    <2> QED BY <2>1, <2>2, <2>3
  <1>8. ASSUME NEW m \in Meeting, Transcribe(m) PROVE Owned'
    <2>1. FreshUntilCreated'
      BY <1>8 DEF Transcribe, InsertSegment, Exists
    <2>2. Inserted'
      BY <1>8 DEF Transcribe, InsertSegment, Exists
    <2>3. Working'
      BY <1>8 DEF Transcribe, InsertSegment, Exists
    <2> QED BY <2>1, <2>2, <2>3
  <1>9. ASSUME NEW m \in Meeting, RemoveWav(m) PROVE Owned'
    <2>1. FreshUntilCreated'
      BY <1>9 DEF RemoveWav, Removed
    <2>2. Inserted'
      BY <1>9 DEF RemoveWav, Removed
    <2>3. Working'
      BY <1>9 DEF RemoveWav, Removed
    <2> QED BY <2>1, <2>2, <2>3
  <1>10. ASSUME NEW m \in Meeting, Close(m) PROVE Owned'
    <2>1. FreshUntilCreated'
      BY <1>10 DEF Close, Succeeds, Fails, SetStatus, Exists
    <2>2. Inserted'
      BY <1>10 DEF Close, Succeeds, Fails, SetStatus, Exists
    <2>3. Working'
      BY <1>10 DEF Close, Succeeds, Fails, SetStatus, Exists
    <2> QED BY <2>1, <2>2, <2>3
  <1>11. ASSUME NEW a \in Ask, NEW m \in Meeting, AskSummary(a, m) PROVE Owned'
    <2>1. FreshUntilCreated'
      BY <1>11 DEF AskSummary, Ready
    <2>2. Inserted'
      BY <1>11 DEF AskSummary, Ready
    <2>3. Working'
      BY <1>11 DEF AskSummary, Ready
    <2> QED BY <2>1, <2>2, <2>3
  <1>12. ASSUME NEW a \in Ask, NoSummary(a) PROVE Owned'
    <2>1. FreshUntilCreated'
      BY <1>12 DEF NoSummary
    <2>2. Inserted'
      BY <1>12 DEF NoSummary
    <2>3. Working'
      BY <1>12 DEF NoSummary
    <2> QED BY <2>1, <2>2, <2>3
  <1>13. ASSUME NEW a \in Ask, StoreSummary(a) PROVE Owned'
    <2>1. FreshUntilCreated'
      BY <1>13 DEF StoreSummary
    <2>2. Inserted'
      BY <1>13 DEF StoreSummary
    <2>3. Working'
      BY <1>13 DEF StoreSummary
    <2> QED BY <2>1, <2>2, <2>3
  <1>14. ASSUME NEW a \in Ask, StoreFails(a) PROVE Owned'
    <2>1. FreshUntilCreated'
      BY <1>14 DEF StoreFails, Fails
    <2>2. Inserted'
      BY <1>14 DEF StoreFails, Fails
    <2>3. Working'
      BY <1>14 DEF StoreFails, Fails
    <2> QED BY <2>1, <2>2, <2>3
  <1>15. ASSUME NEW a \in Ask, PrepareNotes(a) PROVE Owned'
    <2>1. FreshUntilCreated'
      BY <1>15 DEF PrepareNotes, Succeeds, Fails, SetNotes, WithRaw, Exists
    <2>2. Inserted'
      BY <1>15 DEF PrepareNotes, Succeeds, Fails, SetNotes, WithRaw, Exists
    <2>3. Working'
      BY <1>15 DEF PrepareNotes, Succeeds, Fails, SetNotes, WithRaw, Exists
    <2> QED BY <2>1, <2>2, <2>3
  <1>16. ASSUME Crash PROVE Owned'
    <2>1. FreshUntilCreated'
      BY <1>16 DEF Crash
    <2>2. Inserted'
      BY <1>16 DEF Crash
    <2>3. Working'
      BY <1>16 DEF Crash
    <2> QED BY <2>1, <2>2, <2>3
  <1>17. ASSUME Restart PROVE Owned'
    <2>1. FreshUntilCreated'
      BY <1>17, RestartKeeps DEF Restart
    <2>2. Inserted'
      BY <1>17, RestartKeeps DEF Restart
    <2>3. Working'
      BY <1>17 DEF Restart, Succeeds, Fails, Listed, Open
    <2> QED BY <2>1, <2>2, <2>3
  <1>18. CASE UNCHANGED vars
    BY <1>18 DEF vars
  <1> QED
    BY <1>1, <1>2, <1>3, <1>4, <1>5, <1>6, <1>7, <1>8, <1>9, <1>10, <1>11, <1>12, <1>13,
          <1>14, <1>15, <1>16, <1>17, <1>18 DEF Next, Rest, ThreadStep, AskStep

LEMMA StatusOwnedNext == Typed /\ Owned /\ StatusOwned /\ [Next]_vars => StatusOwned'
  <1> SUFFICES ASSUME Typed, Owned, StatusOwned, [Next]_vars PROVE StatusOwned'
    OBVIOUS
  <1> USE MeetingAssumption DEF Typed, TypeOK, Command, Idle, Open, Settled, Exists, Owned,
        FreshUntilCreated, Fresh, Inserted,
        Working, StatusOwned,
        taskVars, askVars, rowVars, noteVars, boundVars
  <1>1. ASSUME NEW m \in Meeting, StartRecorder(m) PROVE StatusOwned'
    BY <1>1 DEF StartRecorder, Ready
  <1>2. ASSUME CreateSession PROVE StatusOwned'
    <2>1. UNCHANGED <<up, thread, left_behind>>
      BY <1>2 DEF CreateSession
    <2>2. CASE UNCHANGED <<status, active>>
      BY <2>1, <2>2
    <2>3. CASE status' = [status EXCEPT ![main.of] = "recording"] /\ active' = main.of
      BY <1>2, <2>1, <2>3 DEF CreateSession
    <2> QED
      BY <1>2, <2>2, <2>3 DEF CreateSession
  <1>3. ASSUME StopMeeting PROVE StatusOwned'
    BY <1>3 DEF StopMeeting, Succeeds, Fails, SetStatus, Exists, Ready
  <1>4. ASSUME NEW m \in Meeting, NEW text \in Text, SaveNotes(m, text) PROVE StatusOwned'
    BY <1>4 DEF SaveNotes, SetNotes, WithRaw, Ready, Exists
  <1>5. ASSUME NEW m \in Meeting, DeleteSession(m) PROVE StatusOwned'
    BY <1>5 DEF DeleteSession, Exists, Ready
  <1>6. ASSUME DeleteWav PROVE StatusOwned'
    BY <1>6 DEF DeleteWav, Removed
  <1>7. ASSUME NEW m \in Meeting, Decode(m) PROVE StatusOwned'
    BY <1>7 DEF Decode
  <1>8. ASSUME NEW m \in Meeting, Transcribe(m) PROVE StatusOwned'
    BY <1>8 DEF Transcribe, InsertSegment, Exists
  <1>9. ASSUME NEW m \in Meeting, RemoveWav(m) PROVE StatusOwned'
    BY <1>9 DEF RemoveWav, Removed
  <1>10. ASSUME NEW m \in Meeting, Close(m) PROVE StatusOwned'
    BY <1>10 DEF Close, Succeeds, Fails, SetStatus, Exists
  <1>11. ASSUME NEW a \in Ask, NEW m \in Meeting, AskSummary(a, m) PROVE StatusOwned'
    BY <1>11 DEF AskSummary, Ready
  <1>12. ASSUME NEW a \in Ask, NoSummary(a) PROVE StatusOwned'
    BY <1>12 DEF NoSummary
  <1>13. ASSUME NEW a \in Ask, StoreSummary(a) PROVE StatusOwned'
    BY <1>13 DEF StoreSummary
  <1>14. ASSUME NEW a \in Ask, StoreFails(a) PROVE StatusOwned'
    BY <1>14 DEF StoreFails, Fails
  <1>15. ASSUME NEW a \in Ask, PrepareNotes(a) PROVE StatusOwned'
    BY <1>15 DEF PrepareNotes, Succeeds, Fails, SetNotes, WithRaw, Exists
  <1>16. ASSUME Crash PROVE StatusOwned'
    BY <1>16 DEF Crash
  <1>17. ASSUME Restart PROVE StatusOwned'
    BY <1>17 DEF Restart, Succeeds, Fails, Listed, Open
  <1>18. CASE UNCHANGED vars
    BY <1>18 DEF vars
  <1> QED
    BY <1>1, <1>2, <1>3, <1>4, <1>5, <1>6, <1>7, <1>8, <1>9, <1>10, <1>11, <1>12, <1>13,
          <1>14, <1>15, <1>16, <1>17, <1>18 DEF Next, Rest, ThreadStep, AskStep

LEMMA AudioSafeNext == Typed /\ Owned /\ AudioSafe /\ [Next]_vars => AudioSafe'
  <1> SUFFICES ASSUME Typed, Owned, AudioSafe, [Next]_vars PROVE AudioSafe'
    OBVIOUS
  <1> USE MeetingAssumption DEF Typed, TypeOK, Command, Idle, Open, Settled, Exists,
        PiecesCounted, Owned, FreshUntilCreated, Fresh,
        Inserted, Working, AudioSafe,
        taskVars, askVars, rowVars, noteVars, boundVars
  <1>1. ASSUME NEW m \in Meeting, StartRecorder(m) PROVE AudioSafe'
    BY <1>1 DEF StartRecorder, Ready
  <1>2. ASSUME CreateSession PROVE AudioSafe'
    BY <1>2 DEF CreateSession, Succeeds, Fails
  <1>3. ASSUME StopMeeting PROVE AudioSafe'
    BY <1>3 DEF StopMeeting, Succeeds, Fails, SetStatus, Exists, Ready
  <1>4. ASSUME NEW m \in Meeting, NEW text \in Text, SaveNotes(m, text) PROVE AudioSafe'
    BY <1>4 DEF SaveNotes, SetNotes, WithRaw, Ready, Exists
  <1>5. ASSUME NEW m \in Meeting, DeleteSession(m) PROVE AudioSafe'
    BY <1>5 DEF DeleteSession, Exists, Ready
  <1>6. ASSUME DeleteWav PROVE AudioSafe'
    BY <1>6 DEF DeleteWav, Removed
  <1>7. ASSUME NEW m \in Meeting, Decode(m) PROVE AudioSafe'
    BY <1>7 DEF Decode
  <1>8. ASSUME NEW m \in Meeting, Transcribe(m) PROVE AudioSafe'
    BY <1>8 DEF Transcribe, InsertSegment, Exists
  <1>9. ASSUME NEW m \in Meeting, RemoveWav(m) PROVE AudioSafe'
    BY <1>9 DEF RemoveWav, Removed
  <1>10. ASSUME NEW m \in Meeting, Close(m) PROVE AudioSafe'
    BY <1>10 DEF Close, Succeeds, Fails, SetStatus, Exists
  <1>11. ASSUME NEW a \in Ask, NEW m \in Meeting, AskSummary(a, m) PROVE AudioSafe'
    BY <1>11 DEF AskSummary, Ready
  <1>12. ASSUME NEW a \in Ask, NoSummary(a) PROVE AudioSafe'
    BY <1>12 DEF NoSummary
  <1>13. ASSUME NEW a \in Ask, StoreSummary(a) PROVE AudioSafe'
    BY <1>13 DEF StoreSummary
  <1>14. ASSUME NEW a \in Ask, StoreFails(a) PROVE AudioSafe'
    BY <1>14 DEF StoreFails, Fails
  <1>15. ASSUME NEW a \in Ask, PrepareNotes(a) PROVE AudioSafe'
    BY <1>15 DEF PrepareNotes, Succeeds, Fails, SetNotes, WithRaw, Exists
  <1>16. ASSUME Crash PROVE AudioSafe'
    BY <1>16 DEF Crash
  <1>17. ASSUME Restart PROVE AudioSafe'
    BY <1>17, RestartKeeps DEF Restart
  <1>18. CASE UNCHANGED vars
    BY <1>18 DEF vars
  <1> QED
    BY <1>1, <1>2, <1>3, <1>4, <1>5, <1>6, <1>7, <1>8, <1>9, <1>10, <1>11, <1>12, <1>13,
          <1>14, <1>15, <1>16, <1>17, <1>18 DEF Next, Rest, ThreadStep, AskStep

LEMMA NotesSurviveNext == Typed /\ Owned /\ NotesSurvive /\ [Next]_vars => NotesSurvive'
  <1> SUFFICES ASSUME Typed, Owned, NotesSurvive, [Next]_vars PROVE NotesSurvive'
    OBVIOUS
  <1> USE MeetingAssumption DEF Typed, TypeOK, Command, Idle, Open, Settled, Exists, NotesRow,
        NoOrphanRows, Asked, Owned,
        FreshUntilCreated, Fresh, Inserted, NotesSurvive,
        taskVars, askVars, rowVars, noteVars, boundVars
  <1>1. ASSUME NEW m \in Meeting, StartRecorder(m) PROVE NotesSurvive'
    BY <1>1 DEF StartRecorder, Ready
  <1>2. ASSUME CreateSession PROVE NotesSurvive'
    BY <1>2 DEF CreateSession, Succeeds, Fails
  <1>3. ASSUME StopMeeting PROVE NotesSurvive'
    BY <1>3 DEF StopMeeting, Succeeds, Fails, SetStatus, Exists, Ready
  <1>4. ASSUME NEW m \in Meeting, NEW text \in Text, SaveNotes(m, text) PROVE NotesSurvive'
    <2>1. notes' = [notes EXCEPT ![m] = WithRaw(m, text)] /\ typed' = [typed EXCEPT ![m] = text]
      BY <1>4 DEF SaveNotes, SetNotes
    <2>2. WithRaw(m, text).raw = text /\ WithRaw(m, text) # NULL
      <3>1. PICK flag \in BOOLEAN : WithRaw(m, text) = [raw |-> text, ai |-> flag]
        <4>1. notes[m] = NULL \/ notes[m] \in NotesRow
          OBVIOUS
        <4> QED BY <4>1 DEF WithRaw
      <3>2. [raw |-> text, ai |-> flag] \in NotesRow
        OBVIOUS
      <3>3. \A row \in NotesRow : row # NULL
        OBVIOUS
      <3>4. [raw |-> text, ai |-> flag].raw = text
        OBVIOUS
      <3> QED BY <3>1, <3>2, <3>3, <3>4
    <2>3. notes'[m] = WithRaw(m, text) /\ typed'[m] = text
      BY <2>1
    <2>4. \A k \in Meeting \ {m} : /\ notes'[k] = notes[k] /\ typed'[k] = typed[k]
                                  /\ status'[k] = status[k] /\ (k \in nulled' <=> k \in nulled)
      BY <1>4, <2>1 DEF SaveNotes
    <2>5. ASSUME NEW k \in Meeting, status'[k] # "absent", typed'[k] # NULL, k \notin nulled'
          PROVE  notes'[k] # NULL /\ notes'[k].raw = typed'[k]
      <3>1. CASE k = m
        BY <2>2, <2>3, <3>1
      <3>2. CASE k # m
        BY <2>4, <2>5, <3>2
      <3> QED BY <3>1, <3>2
    <2> QED BY <2>5
  <1>5. ASSUME NEW m \in Meeting, DeleteSession(m) PROVE NotesSurvive'
    BY <1>5 DEF DeleteSession, Exists, Ready
  <1>6. ASSUME DeleteWav PROVE NotesSurvive'
    BY <1>6 DEF DeleteWav, Removed
  <1>7. ASSUME NEW m \in Meeting, Decode(m) PROVE NotesSurvive'
    BY <1>7 DEF Decode
  <1>8. ASSUME NEW m \in Meeting, Transcribe(m) PROVE NotesSurvive'
    BY <1>8 DEF Transcribe, InsertSegment, Exists
  <1>9. ASSUME NEW m \in Meeting, RemoveWav(m) PROVE NotesSurvive'
    BY <1>9 DEF RemoveWav, Removed
  <1>10. ASSUME NEW m \in Meeting, Close(m) PROVE NotesSurvive'
    BY <1>10 DEF Close, Succeeds, Fails, SetStatus, Exists
  <1>11. ASSUME NEW a \in Ask, NEW m \in Meeting, AskSummary(a, m) PROVE NotesSurvive'
    BY <1>11 DEF AskSummary, Ready
  <1>12. ASSUME NEW a \in Ask, NoSummary(a) PROVE NotesSurvive'
    BY <1>12 DEF NoSummary
  <1>13. ASSUME NEW a \in Ask, StoreSummary(a) PROVE NotesSurvive'
    <2>1. CASE UNCHANGED notes
      BY <1>13, <2>1, ZenonT(60) DEF StoreSummary
    <2>2. CASE notes[askOf[a]] # NULL /\ notes' = [notes EXCEPT ![askOf[a]].ai = TRUE]
      <3>1. \A m \in Meeting : notes[m] # NULL => notes'[m] # NULL /\ notes'[m].raw = notes[m].raw
        <4>1. askOf[a] \in Meeting /\ notes[askOf[a]] \in NotesRow
          BY <1>13, <2>2 DEF StoreSummary
        <4>2. PICK row \in NotesRow : row = [notes[askOf[a]] EXCEPT !.ai = TRUE]
          BY <4>1
        <4>3. row.raw = notes[askOf[a]].raw /\ row # NULL
          BY <4>1, <4>2
        <4>4. notes' = [notes EXCEPT ![askOf[a]] = row]
          BY <2>2, <4>2
        <4> QED BY <4>1, <4>3, <4>4
      <3> QED BY <1>13, <3>1 DEF StoreSummary
    <2> QED BY <1>13, <2>1, <2>2 DEF StoreSummary
  <1>14. ASSUME NEW a \in Ask, StoreFails(a) PROVE NotesSurvive'
    BY <1>14 DEF StoreFails, Fails
  <1>15. ASSUME NEW a \in Ask, PrepareNotes(a) PROVE NotesSurvive'
    <2>1. CASE UNCHANGED <<notes, nulled>>
      BY <1>15, <2>1 DEF PrepareNotes
    <2>2. CASE /\ notes' = [notes EXCEPT ![askOf[a]] = WithRaw(askOf[a], NULL)]
               /\ nulled' = nulled \cup {askOf[a]}
      BY <1>15, <2>2 DEF PrepareNotes
    <2> QED BY <1>15, <2>1, <2>2 DEF PrepareNotes, SetNotes
  <1>16. ASSUME Crash PROVE NotesSurvive'
    BY <1>16 DEF Crash
  <1>17. ASSUME Restart PROVE NotesSurvive'
    BY <1>17, RestartKeeps DEF Restart
  <1>18. CASE UNCHANGED vars
    BY <1>18 DEF vars
  <1> QED
    BY <1>1, <1>2, <1>3, <1>4, <1>5, <1>6, <1>7, <1>8, <1>9, <1>10, <1>11, <1>12, <1>13,
          <1>14, <1>15, <1>16, <1>17, <1>18 DEF Next, Rest, ThreadStep, AskStep

\* What SettledStays says of a step and a session.
Stays(m) ==
  /\ status[m] \in Settled => status'[m] \in {status[m], "absent"}
  /\ status[m] = "absent" /\ m \in ToSet(created) => status'[m] = "absent"

LEMMA StaysNext == Typed /\ Owned /\ [Next]_vars => \A k \in Meeting : Stays(k)
  <1> SUFFICES ASSUME Typed, Owned, [Next]_vars PROVE \A k \in Meeting : Stays(k)
    OBVIOUS
  <1> USE MeetingAssumption DEF Typed, TypeOK, Command, Idle, Open, Settled, Exists, Owned,
        FreshUntilCreated, Fresh, Inserted, Working,
        Stays,
        taskVars, askVars, rowVars, noteVars, boundVars
  <1>1. ASSUME NEW m \in Meeting, StartRecorder(m) PROVE \A k \in Meeting : Stays(k)
    BY <1>1 DEF StartRecorder, Ready
  <1>2. ASSUME CreateSession PROVE \A k \in Meeting : Stays(k)
    BY <1>2 DEF CreateSession, Succeeds, Fails
  <1>3. ASSUME StopMeeting PROVE \A k \in Meeting : Stays(k)
    BY <1>3 DEF StopMeeting, Succeeds, Fails, SetStatus, Exists, Ready
  <1>4. ASSUME NEW m \in Meeting, NEW text \in Text, SaveNotes(m, text) PROVE \A k \in Meeting : Stays(k)
    BY <1>4 DEF SaveNotes, SetNotes, WithRaw, Ready, Exists
  <1>5. ASSUME NEW m \in Meeting, DeleteSession(m) PROVE \A k \in Meeting : Stays(k)
    BY <1>5 DEF DeleteSession, Exists, Ready
  <1>6. ASSUME DeleteWav PROVE \A k \in Meeting : Stays(k)
    BY <1>6 DEF DeleteWav, Removed
  <1>7. ASSUME NEW m \in Meeting, Decode(m) PROVE \A k \in Meeting : Stays(k)
    BY <1>7 DEF Decode
  <1>8. ASSUME NEW m \in Meeting, Transcribe(m) PROVE \A k \in Meeting : Stays(k)
    BY <1>8 DEF Transcribe, InsertSegment, Exists
  <1>9. ASSUME NEW m \in Meeting, RemoveWav(m) PROVE \A k \in Meeting : Stays(k)
    BY <1>9 DEF RemoveWav, Removed
  <1>10. ASSUME NEW m \in Meeting, Close(m) PROVE \A k \in Meeting : Stays(k)
    BY <1>10 DEF Close, Succeeds, Fails, SetStatus, Exists
  <1>11. ASSUME NEW a \in Ask, NEW m \in Meeting, AskSummary(a, m) PROVE \A k \in Meeting : Stays(k)
    BY <1>11 DEF AskSummary, Ready
  <1>12. ASSUME NEW a \in Ask, NoSummary(a) PROVE \A k \in Meeting : Stays(k)
    BY <1>12 DEF NoSummary
  <1>13. ASSUME NEW a \in Ask, StoreSummary(a) PROVE \A k \in Meeting : Stays(k)
    BY <1>13 DEF StoreSummary
  <1>14. ASSUME NEW a \in Ask, StoreFails(a) PROVE \A k \in Meeting : Stays(k)
    BY <1>14 DEF StoreFails, Fails
  <1>15. ASSUME NEW a \in Ask, PrepareNotes(a) PROVE \A k \in Meeting : Stays(k)
    BY <1>15 DEF PrepareNotes, Succeeds, Fails, SetNotes, WithRaw, Exists
  <1>16. ASSUME Crash PROVE \A k \in Meeting : Stays(k)
    BY <1>16 DEF Crash
  <1>17. ASSUME Restart PROVE \A k \in Meeting : Stays(k)
    BY <1>17, RestartKeeps DEF Restart
  <1>18. CASE UNCHANGED vars
    BY <1>18 DEF vars
  <1> QED
    BY <1>1, <1>2, <1>3, <1>4, <1>5, <1>6, <1>7, <1>8, <1>9, <1>10, <1>11, <1>12, <1>13,
          <1>14, <1>15, <1>16, <1>17, <1>18 DEF Next, Rest, ThreadStep, AskStep

LEMMA UnderHandNext == Typed /\ Owned /\ UnderHand /\ [Next]_vars => UnderHand'
  <1> SUFFICES ASSUME Typed, Owned, UnderHand, [Next]_vars PROVE UnderHand'
    OBVIOUS
  <1> USE MeetingAssumption DEF Typed, TypeOK, Command, Idle, Exists, UnderHand, Owned,
        FreshUntilCreated, Fresh, Inserted, Working, taskVars, askVars, rowVars, noteVars, boundVars
  <1>1. ASSUME NEW m \in Meeting, StartRecorder(m) PROVE UnderHand'
    BY <1>1 DEF StartRecorder, Ready
  <1>2. ASSUME CreateSession PROVE UnderHand'
    <2>1. thread' = thread /\ main'.op # "deleting"
      BY <1>2 DEF CreateSession
    <2>2. created' = created \/ (created' = Append(created, main.of) /\ main.of \in Meeting /\ main.of \notin ToSet(created))
      BY <1>2 DEF CreateSession
    <2>3. ToSet(created) \subseteq ToSet(created')
      BY ONLY <2>2, CreatedGrows, created \in Seq(Meeting) /\ IsInjective(created)
    <2> QED
      BY <2>1, <2>3
  <1>3. ASSUME StopMeeting PROVE UnderHand'
    BY <1>3 DEF StopMeeting
  <1>4. ASSUME NEW m \in Meeting, NEW text \in Text, SaveNotes(m, text) PROVE UnderHand'
    BY <1>4 DEF SaveNotes
  <1>5. ASSUME NEW m \in Meeting, DeleteSession(m) PROVE UnderHand'
    BY <1>5 DEF DeleteSession, Ready
  <1>6. ASSUME DeleteWav PROVE UnderHand'
    BY <1>6 DEF DeleteWav
  <1>7. ASSUME NEW m \in Meeting, Decode(m) PROVE UnderHand'
    BY <1>7 DEF Decode
  <1>8. ASSUME NEW m \in Meeting, Transcribe(m) PROVE UnderHand'
    BY <1>8 DEF Transcribe
  <1>9. ASSUME NEW m \in Meeting, RemoveWav(m) PROVE UnderHand'
    BY <1>9 DEF RemoveWav
  <1>10. ASSUME NEW m \in Meeting, Close(m) PROVE UnderHand'
    BY <1>10 DEF Close
  <1>11. ASSUME NEW a \in Ask, NEW m \in Meeting, AskSummary(a, m) PROVE UnderHand'
    BY <1>11 DEF AskSummary
  <1>12. ASSUME NEW a \in Ask, NoSummary(a) PROVE UnderHand'
    BY <1>12 DEF NoSummary
  <1>13. ASSUME NEW a \in Ask, StoreSummary(a) PROVE UnderHand'
    BY <1>13 DEF StoreSummary
  <1>14. ASSUME NEW a \in Ask, StoreFails(a) PROVE UnderHand'
    BY <1>14 DEF StoreFails
  <1>15. ASSUME NEW a \in Ask, PrepareNotes(a) PROVE UnderHand'
    BY <1>15 DEF PrepareNotes
  <1>16. ASSUME Crash PROVE UnderHand'
    BY <1>16 DEF Crash
  <1>17. ASSUME Restart PROVE UnderHand'
    BY <1>17 DEF Restart
  <1>18. CASE UNCHANGED vars
    BY <1>18 DEF vars
  <1> QED
    BY <1>1, <1>2, <1>3, <1>4, <1>5, <1>6, <1>7, <1>8, <1>9, <1>10, <1>11, <1>12, <1>13,
          <1>14, <1>15, <1>16, <1>17, <1>18 DEF Next, Rest, ThreadStep, AskStep

-----------------------------------------------------------------------------
LEMMA InvNext == Inv /\ [Next]_vars => Inv'
  BY TypedNext, OwnedNext, StatusOwnedNext, AudioSafeNext, NotesSurviveNext,
     UnderHandNext DEF Inv

LEMMA InvAlways == Spec => []Inv
  BY InitInv, InvNext, PTL DEF Spec

-----------------------------------------------------------------------------
(* The refinement of Minutes *)

LEMMA StagesKept ==
  ASSUME UNCHANGED <<created, status>>
  PROVE  [m \in Meeting |-> StageOf(m)]' = [m \in Meeting |-> StageOf(m)]
  BY DEF StageOf, Exists

LEMMA TextsKept ==
  ASSUME UNCHANGED notes
  PROVE  [m \in Meeting |-> TextOf(m)]' = [m \in Meeting |-> TextOf(m)]
  BY DEF TextOf

\* The user sees the rows and the recording, and nothing of the tasks.
LEMMA MappedKept ==
  ASSUME UNCHANGED <<created, status, segments, wav, notes>>
  PROVE  UNCHANGED Promise!vars
  BY StagesKept, TextsKept DEF Promise!vars

LEMMA WithRawIs ==
  ASSUME NEW m \in Meeting, NEW text \in Text \cup {NULL}, TypeOK
  PROVE  WithRaw(m, text) # NULL /\ WithRaw(m, text).raw = text
  <1>1. WithRaw(m, text) \in NotesRow /\ WithRaw(m, text).raw = text
    BY DEF WithRaw, TypeOK, NotesRow
  <1>2. NULL \notin NotesRow
    BY MeetingAssumption DEF NotesRow
  <1> QED BY <1>1, <1>2

LEMMA SummedRow ==
  ASSUME NEW row \in NotesRow
  PROVE  LET summed == [row EXCEPT !.ai = TRUE] IN
         summed \in NotesRow /\ summed.raw = row.raw /\ summed # NULL
  <1>1. [row EXCEPT !.ai = TRUE] \in NotesRow /\ [row EXCEPT !.ai = TRUE].raw = row.raw
    BY DEF NotesRow
  <1>2. NULL \notin NotesRow
    BY MeetingAssumption DEF NotesRow
  <1> QED BY <1>1, <1>2

LEMMA PromiseInit == Init => Promise!Init
  <1> SUFFICES ASSUME Init PROVE Promise!Init
    OBVIOUS
  <1>1. ToSet(created) = {}
    BY DEF Init, ToSet
  <1> QED
    BY <1>1 DEF Init, Promise!Init, StageOf, TextOf, Exists

LEMMA PromiseNext == Inv /\ [Next]_vars => [Promise!Next]_(Promise!vars)
  <1> SUFFICES ASSUME Inv, [Next]_vars PROVE [Promise!Next]_(Promise!vars)
    OBVIOUS
  <1>0. TypeOK
    BY DEF Inv, Typed
  <1> USE MeetingAssumption DEF Inv, Typed, TypeOK, Command, NotesRow, Idle, Open, Settled, Exists, Owned,
        FreshUntilCreated, Fresh, Inserted, Working, UnderHand, Asked,
        taskVars, askVars, rowVars, noteVars, boundVars
  <1>1. ASSUME NEW m \in Meeting, StartRecorder(m) PROVE [Promise!Next]_(Promise!vars)
    <2>1. StageOf(m) = "new" /\ wav[m] # "removed"
      BY <1>1 DEF StartRecorder, StageOf
    <2>2. /\ \E file \in {"none", "present"} : wav' = [wav EXCEPT ![m] = file]
          /\ UNCHANGED <<created, status, segments, notes>>
      BY <1>1 DEF StartRecorder
    <2>3. Promise!Record(m)
      BY ONLY m \in Meeting, <2>1, <2>2, StagesKept, TextsKept DEF Promise!Record
    <2> QED
      BY <2>3 DEF Promise!Next
  <1>2. ASSUME CreateSession PROVE [Promise!Next]_(Promise!vars)
    <2>1. PICK m \in Meeting : m = main.of
      BY <1>2 DEF CreateSession
    <2>2. UNCHANGED <<segments, wav, notes>> /\ m \notin ToSet(created) /\ status[m] = "absent"
      BY <1>2, <2>1 DEF CreateSession
    <2>3. CASE created' = Append(created, m) /\ status' = [status EXCEPT ![m] = "recording"]
      <3>1. ToSet(created') = ToSet(created) \cup {m}
        BY <2>2, <2>3, CreatedGrows
      <3>2. StageOf(m) = "new" /\ StageOf(m)' = "recording"
        BY <2>2, <2>3 DEF StageOf
      <3>3. \A k \in Meeting \ {m} : StageOf(k)' = StageOf(k)
        BY <2>3, <3>1 DEF StageOf
      <3>4. Promise!Begin(m)
        BY ONLY m \in Meeting, <2>2, <3>2, <3>3, TextsKept DEF Promise!Begin
      <3> QED
        BY <3>4 DEF Promise!Next
    <2>4. CASE UNCHANGED <<created, status>>
      BY <2>2, <2>4, MappedKept
    <2> QED
      BY <1>2, <2>1, <2>3, <2>4 DEF CreateSession
  <1>3. ASSUME StopMeeting PROVE [Promise!Next]_(Promise!vars)
    <2>1. PICK m \in Meeting : m = active
      BY <1>3 DEF StopMeeting
    <2>2. UNCHANGED <<created, segments, wav, notes>> /\ status[m] = "recording"
      BY <1>3, <2>1 DEF StopMeeting
    <2>3. CASE status' = [status EXCEPT ![m] = "processing"]
      <3>1. StageOf(m) = "recording" /\ StageOf(m)' = "processing"
        BY <2>2, <2>3 DEF StageOf
      <3>2. \A k \in Meeting \ {m} : StageOf(k)' = StageOf(k)
        BY <2>2, <2>3 DEF StageOf
      <3>3. Promise!End(m)
        BY ONLY m \in Meeting, <2>2, <3>1, <3>2, TextsKept DEF Promise!End
      <3> QED
        BY <3>3 DEF Promise!Next
    <2>4. CASE UNCHANGED status
      BY <2>2, <2>4, MappedKept
    <2> QED
      BY <1>3, <2>1, <2>2, <2>3, <2>4 DEF StopMeeting, SetStatus
  <1>4. ASSUME NEW m \in Meeting, NEW text \in Text, SaveNotes(m, text) PROVE [Promise!Next]_(Promise!vars)
    <2>1. UNCHANGED <<created, status, segments, wav>> /\ notes' = [notes EXCEPT ![m] = WithRaw(m, text)]
      BY <1>4 DEF SaveNotes, SetNotes
    <2>2. Promise!Kept(m)
      BY <1>4 DEF SaveNotes, SetNotes, Promise!Kept, StageOf
    <2>3. WithRaw(m, text) # NULL /\ WithRaw(m, text).raw = text
      BY ONLY <1>0, WithRawIs, m \in Meeting, text \in Text
    <2>4. TextOf(m)' = text /\ \A k \in Meeting \ {m} : TextOf(k)' = TextOf(k)
      BY <2>1, <2>3 DEF TextOf
    <2>5. Promise!Write(m, text)
      BY ONLY m \in Meeting, <2>1, <2>2, <2>4, StagesKept DEF Promise!Write
    <2> QED
      BY <2>5 DEF Promise!Next
  <1>5. ASSUME NEW m \in Meeting, DeleteSession(m) PROVE [Promise!Next]_(Promise!vars)
    <2>1. StageOf(m) = status[m] /\ StageOf(m)' = "deleted"
      BY <1>5 DEF DeleteSession, StageOf
    <2>2. \A k \in Meeting \ {m} : StageOf(k)' = StageOf(k) /\ TextOf(k)' = TextOf(k)
      BY <1>5 DEF DeleteSession, StageOf, TextOf
    <2>3. TextOf(m)' = NULL /\ segments' = [segments EXCEPT ![m] = 0] /\ wav' = wav
      BY <1>5 DEF DeleteSession, TextOf
    <2>4. Promise!Kept(m)
      BY <1>5, <2>1 DEF DeleteSession, Promise!Kept
    <2>5. Promise!Delete(m)
      BY ONLY m \in Meeting, <2>1, <2>2, <2>3, <2>4 DEF Promise!Delete
    <2> QED
      BY <2>5 DEF Promise!Next
  <1>6. ASSUME DeleteWav PROVE [Promise!Next]_(Promise!vars)
    <2>1. PICK m \in Meeting : m = main.of
      BY <1>6 DEF DeleteWav
    <2>2. UNCHANGED <<created, status, segments, notes>> /\ wav' = Removed(m) /\ StageOf(m) = "deleted"
      BY <1>6, <2>1 DEF DeleteWav, StageOf
    <2>3. CASE wav[m] = "present"
      <3>1. wav' = [wav EXCEPT ![m] = "removed"]
        BY <2>2, <2>3 DEF Removed
      <3>2. Promise!Discard(m)
        BY <2>2, <2>3, <3>1 DEF Promise!Discard, StageOf, TextOf
      <3> QED
        BY <3>2 DEF Promise!Next
    <2>4. CASE wav[m] # "present"
      BY <2>2, <2>4, MappedKept DEF Removed
    <2> QED
      BY <2>3, <2>4
  <1>7. ASSUME NEW m \in Meeting, Decode(m) PROVE [Promise!Next]_(Promise!vars)
    BY <1>7, MappedKept DEF Decode
  <1>8. ASSUME NEW m \in Meeting, Transcribe(m) PROVE [Promise!Next]_(Promise!vars)
    <2>1. UNCHANGED <<created, status, wav, notes>> /\ StageOf(m) \in {"processing", "deleted"}
      BY <1>8 DEF Transcribe, StageOf
    <2>2. CASE InsertSegment(m)
      <3>1. Promise!Add(m)
        <4>1. segments' = [segments EXCEPT ![m] = segments[m] + 1] /\ StageOf(m) = "processing"
          BY <2>1, <2>2 DEF InsertSegment, StageOf
        <4> QED
          BY ONLY m \in Meeting, <2>1, <4>1, StagesKept, TextsKept DEF Promise!Add
      <3> QED
        BY <3>1 DEF Promise!Next
    <2>3. CASE UNCHANGED segments
      BY <2>1, <2>3, MappedKept
    <2> QED
      BY <1>8, <2>2, <2>3 DEF Transcribe
  <1>9. ASSUME NEW m \in Meeting, RemoveWav(m) PROVE [Promise!Next]_(Promise!vars)
    <2>2. /\ UNCHANGED <<created, status, segments, notes>> /\ wav' = Removed(m)
          /\ StageOf(m) \in {"processing", "deleted"}
      BY <1>9 DEF RemoveWav, StageOf
    <2>3. CASE wav[m] = "present"
      <3>1. wav' = [wav EXCEPT ![m] = "removed"]
        BY <2>2, <2>3 DEF Removed
      <3>2. Promise!Discard(m)
        BY <2>2, <2>3, <3>1 DEF Promise!Discard, StageOf, TextOf
      <3> QED
        BY <3>2 DEF Promise!Next
    <2>4. CASE wav[m] # "present"
      BY <2>2, <2>4, MappedKept DEF Removed
    <2> QED
      BY <2>3, <2>4
  <1>10. ASSUME NEW m \in Meeting, Close(m) PROVE [Promise!Next]_(Promise!vars)
    <2>1. UNCHANGED <<created, segments, wav, notes>> /\ status[m] \in {"processing", "absent"}
      BY <1>10 DEF Close
    <2>2. CASE UNCHANGED status
      BY <2>1, <2>2, MappedKept
    <2>3. ASSUME status[m] = "processing", NEW end \in {"complete", "error"}, status' = [status EXCEPT ![m] = end]
          PROVE  [Promise!Next]_(Promise!vars)
      <3>1. StageOf(m) = "processing" /\ StageOf(m)' = end /\ \A k \in Meeting \ {m} : StageOf(k)' = StageOf(k)
        BY <2>1, <2>3 DEF StageOf
      <3>2. Promise!Finish(m)
        BY ONLY m \in Meeting, <2>1, <2>3, <3>1, TextsKept DEF Promise!Finish
      <3> QED
        BY <3>2 DEF Promise!Next
    <2> QED
      BY <1>10, <2>1, <2>2, <2>3 DEF Close, SetStatus
  <1>11. ASSUME NEW a \in Ask, NEW m \in Meeting, AskSummary(a, m) PROVE [Promise!Next]_(Promise!vars)
    BY <1>11, MappedKept DEF AskSummary, Ready
  <1>12. ASSUME NEW a \in Ask, NoSummary(a) PROVE [Promise!Next]_(Promise!vars)
    BY <1>12, MappedKept DEF NoSummary
  <1>13. ASSUME NEW a \in Ask, StoreSummary(a) PROVE [Promise!Next]_(Promise!vars)
    <2>1. UNCHANGED <<created, status, segments, wav>>
      BY <1>13 DEF StoreSummary
    <2>2. \A m \in Meeting : TextOf(m)' = TextOf(m)
      <3>1. CASE UNCHANGED notes
        BY <3>1 DEF TextOf
      <3>2. CASE notes[askOf[a]] # NULL /\ notes' = [notes EXCEPT ![askOf[a]].ai = TRUE]
        <4>1. askOf[a] \in Meeting /\ notes[askOf[a]] \in NotesRow
          BY <1>13, <3>2 DEF StoreSummary
        <4>2. PICK row \in NotesRow : row = [notes[askOf[a]] EXCEPT !.ai = TRUE]
          BY ONLY <4>1, SummedRow
        <4>3. row.raw = notes[askOf[a]].raw /\ row # NULL
          BY ONLY <4>1, <4>2, SummedRow
        <4>4. notes' = [notes EXCEPT ![askOf[a]] = row] /\ notes \in [Meeting -> NotesRow \cup {NULL}]
          BY <3>2, <4>2
        <4> QED
          BY ONLY <3>2, <4>1, <4>3, <4>4 DEF TextOf
      <3> QED
        BY <1>13, <3>1, <3>2 DEF StoreSummary
    <2> QED
      BY ONLY <2>1, <2>2, StagesKept DEF Promise!vars
  <1>14. ASSUME NEW a \in Ask, StoreFails(a) PROVE [Promise!Next]_(Promise!vars)
    BY <1>14, MappedKept DEF StoreFails, Fails
  <1>15. ASSUME NEW a \in Ask, PrepareNotes(a) PROVE [Promise!Next]_(Promise!vars)
    <2>1. UNCHANGED <<created, status, segments, wav>>
      BY <1>15 DEF PrepareNotes
    <2>2. CASE UNCHANGED notes
      BY <2>1, <2>2, MappedKept
    <2>3. PICK m \in Meeting : m = askOf[a]
      BY <1>15 DEF PrepareNotes
    <2>4. CASE Exists(m) /\ notes' = [notes EXCEPT ![m] = WithRaw(m, NULL)]
      <3>1. Promise!Kept(m)
        BY <2>4 DEF Promise!Kept, StageOf
      <3>2. WithRaw(m, NULL) # NULL /\ WithRaw(m, NULL).raw = NULL
        BY ONLY <1>0, WithRawIs, m \in Meeting
      <3>3. TextOf(m)' = NULL /\ \A k \in Meeting \ {m} : TextOf(k)' = TextOf(k)
        BY <2>4, <3>2 DEF TextOf
      <3>4. Promise!Forget(m)
        BY ONLY m \in Meeting, <2>1, <3>1, <3>3, StagesKept DEF Promise!Forget
      <3> QED
        BY <3>4 DEF Promise!Next
    <2> QED
      BY <1>15, <2>2, <2>3, <2>4 DEF PrepareNotes, SetNotes
  <1>16. ASSUME Crash PROVE [Promise!Next]_(Promise!vars)
    BY <1>16, MappedKept DEF Crash
  <1>17. ASSUME Restart PROVE [Promise!Next]_(Promise!vars)
    <2>1. PICK marked \in SUBSET {k \in Listed : status[k] \in Open} :
            status' = [k \in Meeting |-> IF k \in marked THEN "error" ELSE status[k]]
      BY ONLY <1>17 DEF Restart
    <2>2. marked \in SUBSET Meeting /\ \A k \in marked : StageOf(k) \in {"recording", "processing"}
      BY <2>1 DEF Listed, StageOf
    <2>3. UNCHANGED <<created, segments, wav, notes>>
      BY <1>17 DEF Restart
    <2>4. \A k \in Meeting : StageOf(k)' = IF k \in marked THEN "error" ELSE StageOf(k)
      BY <2>1, <2>2, <2>3 DEF StageOf
    <2>5. [k \in Meeting |-> TextOf(k)]' = [k \in Meeting |-> TextOf(k)]
      BY <2>3 DEF TextOf
    <2>6. Promise!Recover(marked)
      BY <2>2, <2>3, <2>4, <2>5 DEF Promise!Recover
    <2> QED
      BY <2>2, <2>6 DEF Promise!Next
  <1>18. CASE UNCHANGED vars
    BY <1>18, MappedKept DEF vars
  <1> QED
    BY <1>1, <1>2, <1>3, <1>4, <1>5, <1>6, <1>7, <1>8, <1>9, <1>10, <1>11, <1>12, <1>13,
          <1>14, <1>15, <1>16, <1>17, <1>18 DEF Next, Rest, ThreadStep, AskStep

-----------------------------------------------------------------------------
(* The theorems *)

\* Every reachable state has the types meeting.rs and voice_db.rs declare.
THEOREM TypeCorrect == Spec => []TypeOK
  BY InvAlways, PTL DEF Inv, Typed

\* Deleting a session under a running transcription or summary leaves no row
\* behind, and none comes back (voice_db.rs, delete_session).
THEOREM NoOrphans == Spec => []NoOrphanRows
  BY InvAlways, PTL DEF Inv, Typed

\* No session is shown as recording or processing without the command slot or
\* a thread that owns it (meeting.rs, and the recovery in lib.rs).
THEOREM StatusesOwned == Spec => []StatusOwned
  BY InvAlways, PTL DEF Inv

\* No crash and no startup loses a recording that was never transcribed.
THEOREM AudioIsSafe == Spec => []AudioSafe
  BY InvAlways, PTL DEF Inv

\* The user's notes survive every other writer of their row but the retry of a
\* summary that could not be stored (meeting.rs 327-330).
THEOREM NotesDoSurvive == Spec => []NotesSurvive
  BY InvAlways, PTL DEF Inv

\* A settled session keeps its outcome until it is deleted, a deleted one stays
\* deleted.
THEOREM SettledDoesStay == Spec => SettledStays
  <1>1. Inv /\ [Next]_vars =>
          [\A m \in Meeting :
             /\ status[m] \in Settled => status'[m] \in {status[m], "absent"}
             /\ ~Exists(m) /\ m \in ToSet(created) => ~Exists(m)']_vars
    BY StaysNext DEF Inv, Stays, Exists
  <1> QED BY <1>1, InvAlways, PTL DEF Spec, SettledStays

\* Meetings implement Minutes: whatever commands, threads, summaries, crashes and
\* startups do to the rows and files they share, a transcript, a recording, the
\* notes and the outcome of a meeting change only as promised (meeting.rs, lib.rs).
THEOREM MinutesAreKept == Spec => MinutesKept
  BY PromiseInit, PromiseNext, InvAlways, PTL DEF Spec, MinutesKept, Promise!Spec
=============================================================================
