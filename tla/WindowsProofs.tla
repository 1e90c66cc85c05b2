----------------------------- MODULE WindowsProofs -----------------------------
(***************************************************************************)
(* The screen recorder's NoRunawayRecording, for any number of recordings. *)
(* And the recorder's windows beside the chat, as MCWindows runs them.     *)
(***************************************************************************)
EXTENDS MCWindows, ChatClientProofs

-----------------------------------------------------------------------------
(* The screen recorder *)

Made == {r \in Recording : state[r] # "none"}

\* Only recordings that were made are in hand: the session's runs, and what was
\* stopped has not been in the trim editor until it is handed over and shown.
InHand ==
  /\ {active, pillId, trimPath} \subseteq Made \cup {NOBODY}
  /\ active # NOBODY => state[active] = "running"
  /\ \A r \in reached : state[r] = "ended"
  /\ trimPath # NOBODY => state[trimPath] = "ended" /\ trimPath \notin reached
  /\ pill = "stopping" => pillId # NOBODY
  /\ pill = "ended" => /\ pillId \in Recording /\ pillId # trimPath
                       /\ state[pillId] = "ended" /\ pillId \notin reached

\* An export that a close handler may overtake is known to be hurried, and so is
\* every recording in the library whose removal is awaited.
Overtaken ==
  /\ exporting # "no" /\ (leaving \/ trimId \in removing) => trimId \in hurried
  /\ removing \cap library \subseteq hurried
  /\ trimId \in library => trimId \in exported \/ exporting = "saved"
  /\ exporting = "saved" => trimId \in library

\* The file of the recording in the editor is there until the editor leaves, and
\* an editor that leaves is done with it.
Kept ==
  /\ trimId # NOBODY /\ trimId \notin raw => leaving
  /\ leaving => trimId \notin raw \/ trimId \in exported \cup spared

RecorderInv == RecorderTypeOK /\ InHand /\ Overtaken /\ Kept /\ NoRunawayRecording

-----------------------------------------------------------------------------
LEMMA RecorderInitInv == RecorderInit => RecorderInv
  BY RecorderAssumption DEF RecorderInit, RecorderInv, RecorderTypeOK, InHand, Made, Overtaken,
     Kept, NoRunawayRecording

LEMMA RecorderNextInv == RecorderInv /\ [RecorderNext]_recorderVars => RecorderInv'
  <1> SUFFICES ASSUME RecorderInv, [RecorderNext]_recorderVars PROVE RecorderInv'
    OBVIOUS
  <1> USE RecorderAssumption
      DEF RecorderInv, ffmpegVars, pillVars, closeVars, trimVars, trimPast
  <1>1. ASSUME NEW r \in Recording, Start(r) PROVE RecorderInv'
    <2> USE <1>1 DEF Start, Unfinished, RecorderTypeOK, Made
    <2>1. RecorderTypeOK'
      BY DEF InHand, Kept
    <2>2. InHand'
      BY DEF InHand
    <2>3. Overtaken'
      BY DEF InHand, Overtaken, Kept
    <2>4. Kept'
      BY DEF InHand, Kept, NoRunawayRecording
    <2>5. NoRunawayRecording'
      BY DEF InHand, Overtaken, Kept, NoRunawayRecording
    <2> QED
      BY <2>1, <2>2, <2>3, <2>4, <2>5
  <1>2. ASSUME OpenPanel PROVE RecorderInv'
    <2> USE <1>2 DEF OpenPanel, RecorderTypeOK, Made
    <2>1. RecorderTypeOK'
      BY DEF InHand, Kept
    <2>2. InHand'
      BY DEF InHand
    <2>3. Overtaken'
      BY DEF InHand, Overtaken, Kept
    <2>4. Kept'
      BY DEF InHand, Kept, NoRunawayRecording
    <2>5. NoRunawayRecording'
      BY DEF InHand, Overtaken, Kept, NoRunawayRecording
    <2> QED
      BY <2>1, <2>2, <2>3, <2>4, <2>5
  <1>3. ASSUME ClosePanel PROVE RecorderInv'
    <2> USE <1>3 DEF ClosePanel, RecorderTypeOK, Made
    <2>1. RecorderTypeOK'
      BY DEF InHand, Kept
    <2>2. InHand'
      BY DEF InHand
    <2>3. Overtaken'
      BY DEF InHand, Overtaken, Kept
    <2>4. Kept'
      BY DEF InHand, Kept, NoRunawayRecording
    <2>5. NoRunawayRecording'
      BY DEF InHand, Overtaken, Kept, NoRunawayRecording
    <2> QED
      BY <2>1, <2>2, <2>3, <2>4, <2>5
  <1>4. ASSUME OpenPill PROVE RecorderInv'
    <2> USE <1>4 DEF OpenPill, RecorderTypeOK, Made
    <2>1. RecorderTypeOK'
      BY DEF InHand, Kept
    <2>2. InHand'
      BY DEF InHand
    <2>3. Overtaken'
      BY DEF InHand, Overtaken, Kept
    <2>4. Kept'
      BY DEF InHand, Kept, NoRunawayRecording
    <2>5. NoRunawayRecording'
      BY DEF InHand, Overtaken, Kept, NoRunawayRecording
    <2> QED
      BY <2>1, <2>2, <2>3, <2>4, <2>5
  <1>5. ASSUME PillMounted PROVE RecorderInv'
    <2> USE <1>5 DEF PillMounted, RecorderTypeOK, Made
    <2>1. RecorderTypeOK'
      BY DEF InHand, Kept
    <2>2. InHand'
      BY DEF InHand
    <2>3. Overtaken'
      BY DEF InHand, Overtaken, Kept
    <2>4. Kept'
      BY DEF InHand, Kept, NoRunawayRecording
    <2>5. NoRunawayRecording'
      BY DEF InHand, Overtaken, Kept, NoRunawayRecording
    <2> QED
      BY <2>1, <2>2, <2>3, <2>4, <2>5
  <1>6. ASSUME PressStop PROVE RecorderInv'
    <2> USE <1>6 DEF PressStop, RecorderTypeOK, Made
    <2>1. RecorderTypeOK'
      BY DEF InHand, Kept
    <2>2. InHand'
      BY DEF InHand
    <2>3. Overtaken'
      BY DEF InHand, Overtaken, Kept
    <2>4. Kept'
      BY DEF InHand, Kept, NoRunawayRecording
    <2>5. NoRunawayRecording'
      BY DEF InHand, Overtaken, Kept, NoRunawayRecording
    <2> QED
      BY <2>1, <2>2, <2>3, <2>4, <2>5
  <1>7. ASSUME Stop PROVE RecorderInv'
    <2> USE <1>7 DEF Stop, RecorderTypeOK, Made
    <2>1. RecorderTypeOK'
      BY DEF InHand, Kept
    <2>2. InHand'
      BY DEF InHand
    <2>3. Overtaken'
      BY DEF InHand, Overtaken, Kept
    <2>4. Kept'
      BY DEF InHand, Kept, NoRunawayRecording
    <2>5. NoRunawayRecording'
      BY DEF InHand, Overtaken, Kept, NoRunawayRecording
    <2> QED
      BY <2>1, <2>2, <2>3, <2>4, <2>5
  <1>8. ASSUME HandOver PROVE RecorderInv'
    <2> USE <1>8 DEF HandOver, RecorderTypeOK, Made
    <2>1. RecorderTypeOK'
      BY DEF InHand, Kept
    <2>2. InHand'
      BY DEF InHand
    <2>3. Overtaken'
      BY DEF InHand, Overtaken, Kept
    <2>4. Kept'
      BY DEF InHand, Kept, NoRunawayRecording
    <2>5. NoRunawayRecording'
      BY DEF InHand, Overtaken, Kept, NoRunawayRecording
    <2> QED
      BY <2>1, <2>2, <2>3, <2>4, <2>5
  <1>9. ASSUME PillCloses PROVE RecorderInv'
    <2> USE <1>9 DEF PillCloses, RecorderTypeOK, Made
    <2>1. RecorderTypeOK'
      BY DEF InHand, Kept
    <2>2. InHand'
      BY DEF InHand
    <2>3. Overtaken'
      BY DEF InHand, Overtaken, Kept
    <2>4. Kept'
      BY DEF InHand, Kept, NoRunawayRecording
    <2>5. NoRunawayRecording'
      BY DEF InHand, Overtaken, Kept, NoRunawayRecording
    <2> QED
      BY <2>1, <2>2, <2>3, <2>4, <2>5
  <1>10. ASSUME TrimMounted PROVE RecorderInv'
    <2> USE <1>10 DEF TrimMounted, RecorderTypeOK, Made
    <2>1. RecorderTypeOK'
      BY DEF InHand, Kept
    <2>2. InHand'
      BY DEF InHand
    <2>3. Overtaken'
      BY DEF InHand, Overtaken, Kept
    <2>4. Kept'
      BY DEF InHand, Kept, NoRunawayRecording
    <2>5. NoRunawayRecording'
      BY DEF InHand, Overtaken, Kept, NoRunawayRecording
    <2> QED
      BY <2>1, <2>2, <2>3, <2>4, <2>5
  <1>11. ASSUME CloseMounting PROVE RecorderInv'
    <2> USE <1>11 DEF CloseMounting, RecorderTypeOK, Made
    <2>1. RecorderTypeOK'
      BY DEF InHand, Kept
    <2>2. InHand'
      BY DEF InHand
    <2>3. Overtaken'
      BY DEF InHand, Overtaken, Kept
    <2>4. Kept'
      BY DEF InHand, Kept, NoRunawayRecording
    <2>5. NoRunawayRecording'
      BY DEF InHand, Overtaken, Kept, NoRunawayRecording
    <2> QED
      BY <2>1, <2>2, <2>3, <2>4, <2>5
  <1>12. ASSUME BeginExport PROVE RecorderInv'
    <2> USE <1>12 DEF BeginExport, RecorderTypeOK, Made
    <2>1. RecorderTypeOK'
      BY DEF InHand, Kept
    <2>2. InHand'
      BY DEF InHand
    <2>3. Overtaken'
      BY DEF InHand, Overtaken, Kept
    <2>4. Kept'
      BY DEF InHand, Kept, NoRunawayRecording
    <2>5. NoRunawayRecording'
      BY DEF InHand, Overtaken, Kept, NoRunawayRecording
    <2> QED
      BY <2>1, <2>2, <2>3, <2>4, <2>5
  <1>13. ASSUME ExportStep PROVE RecorderInv'
    <2> USE <1>13 DEF ExportStep, RecorderTypeOK, Made
    <2>1. RecorderTypeOK'
      BY DEF InHand, Kept
    <2>2. InHand'
      BY DEF InHand
    <2>3. Overtaken'
      BY DEF InHand, Overtaken, Kept
    <2>4. Kept'
      BY DEF InHand, Kept, NoRunawayRecording
    <2>5. NoRunawayRecording'
      BY DEF InHand, Overtaken, Kept, NoRunawayRecording
    <2> QED
      BY <2>1, <2>2, <2>3, <2>4, <2>5
  <1>14. ASSUME ExportAnswered PROVE RecorderInv'
    <2> USE <1>14 DEF ExportAnswered, RecorderTypeOK, Made
    <2>1. RecorderTypeOK'
      BY DEF InHand, Overtaken, Kept
    <2>2. InHand'
      BY DEF InHand
    <2>3. Overtaken'
      BY DEF InHand, Overtaken, Kept
    <2>4. Kept'
      BY DEF InHand, Kept, NoRunawayRecording
    <2>5. NoRunawayRecording'
      BY DEF InHand, Overtaken, Kept, NoRunawayRecording
    <2> QED
      BY <2>1, <2>2, <2>3, <2>4, <2>5
  <1>15. ASSUME CloseTrim PROVE RecorderInv'
    <2> USE <1>15 DEF CloseTrim, RecorderTypeOK, Made
    <2>1. RecorderTypeOK'
      BY DEF InHand, Kept
    <2>2. InHand'
      BY DEF InHand
    <2>3. Overtaken'
      BY DEF InHand, Overtaken, Kept
    <2>4. Kept'
      BY DEF InHand, Kept, NoRunawayRecording
    <2>5. NoRunawayRecording'
      BY DEF InHand, Overtaken, Kept, NoRunawayRecording
    <2> QED
      BY <2>1, <2>2, <2>3, <2>4, <2>5
  <1>16. ASSUME NEW r \in Recording, RemoveRaw(r) PROVE RecorderInv'
    <2> USE <1>16 DEF RemoveRaw, RecorderTypeOK, Made
    <2>1. RecorderTypeOK'
      BY DEF InHand, Kept
    <2>2. InHand'
      BY DEF InHand
    <2>3. Overtaken'
      BY DEF InHand, Overtaken, Kept
    <2>4. Kept'
      BY DEF InHand, Kept, NoRunawayRecording
    <2>5. NoRunawayRecording'
      BY DEF InHand, Overtaken, Kept, NoRunawayRecording
    <2> QED
      BY <2>1, <2>2, <2>3, <2>4, <2>5
  <1>17. ASSUME Destroy PROVE RecorderInv'
    <2> USE <1>17 DEF Destroy, RecorderTypeOK, Made
    <2>1. RecorderTypeOK'
      BY DEF InHand, Kept
    <2>2. InHand'
      BY DEF InHand
    <2>3. Overtaken'
      BY DEF InHand, Overtaken, Kept
    <2>4. Kept'
      BY DEF InHand, Kept, NoRunawayRecording
    <2>5. NoRunawayRecording'
      BY DEF InHand, Overtaken, Kept, NoRunawayRecording
    <2> QED
      BY <2>1, <2>2, <2>3, <2>4, <2>5
  <1>18. CASE UNCHANGED recorderVars
    BY <1>18 DEF recorderVars, RecorderTypeOK, InHand, Made, Overtaken, Kept, NoRunawayRecording
  <1> QED
    BY <1>1, <1>2, <1>3, <1>4, <1>5, <1>6, <1>7, <1>8, <1>9, <1>10, <1>11, <1>12, <1>13, <1>14, <1>15, <1>16, <1>17, <1>18 DEF RecorderNext

-----------------------------------------------------------------------------
(* The windows hold a recording only while they are open and only ones that
   recorder.rs has made. *)
THEOREM RecorderTypes == RecorderSpec => []RecorderTypeOK
  <1>1. RecorderInv => RecorderTypeOK
    BY DEF RecorderInv
  <1> QED
    BY <1>1, RecorderInitInv, RecorderNextInv, PTL DEF RecorderSpec

(* However often recordings replace one another, recording_start leaves no
   ffmpeg behind.  TrimEditor's close handler deletes no file of a recording
   that was never shown, and that of one in the library only if it was asked to
   close during the export, whose end it does not see while it awaits remove(). *)
THEOREM NothingRunsAway == RecorderSpec => []NoRunawayRecording
  <1>1. RecorderInv => NoRunawayRecording
    BY DEF RecorderInv
  <1> QED
    BY <1>1, RecorderInitInv, RecorderNextInv, PTL DEF RecorderSpec

-----------------------------------------------------------------------------
(* The recorder's windows beside the chat *)

LEMMA WindowsStep ==
  ASSUME [WindowsNext]_<<focus, recorderVars, clientVars>>
  PROVE  [RecorderNext]_recorderVars /\ [ClientNext]_clientVars
  BY DEF WindowsNext

\* Neither the windows nor the chat reach a state that they would not reach alone.
LEMMA WindowsAlways == WindowsSpec => [](RecorderInv /\ ClientInv)
  <1>1. WindowsInit => RecorderInv /\ ClientInv
    BY RecorderInitInv, ClientInitInv DEF WindowsInit
  <1>2. RecorderInv /\ ClientInv /\ [WindowsNext]_<<focus, recorderVars, clientVars>>
          => RecorderInv' /\ ClientInv'
    BY WindowsStep, RecorderNextInv, ClientNextInv
  <1> QED
    BY <1>1, <1>2, PTL DEF WindowsSpec

(* The recorder's windows and the chat's context keep their types side by side,
   as the windows of one app do. *)
THEOREM WindowsTypes == WindowsSpec => []WindowsTypeOK
  <1>1. RecorderInv /\ ClientInv => WindowsTypeOK
    BY DEF RecorderInv, ClientInv, WindowsTypeOK
  <1> QED
    BY <1>1, WindowsAlways, PTL
=============================================================================
