------------------------------ MODULE StoresProofs ------------------------------
(***************************************************************************)
(* The plugins: RegistryIsDisk and UninstalledStaysGone.  The library: its *)
(* consistency, that its files show their own captures, and that its       *)
(* search entries are current.  And the stores side by side, as MCStores   *)
(* runs them: each behaves as its own specification says.                  *)
(***************************************************************************)
EXTENDS MCStores, SessionFilesProofs, ConfigFilesProofs, TLAPS

-----------------------------------------------------------------------------
(* The plugins *)

\* Installs only ever write the placeholder into TARGET, and what is registered
\* at a directory is the one plugin that it may still hold.
OwnDirectory ==
  /\ dir[TARGET] \notin Plugin \ {PLACEHOLDER}
  /\ \A p \in Plugin :
       registry[p] # NONE =>
         /\ dir[registry[p].path] \in {p, MISSING, BARE}
         /\ p # PLACEHOLDER => registry[p].path # TARGET

\* Nothing is in the memory of a server that does not run.
Stopped ==
  ~serving => /\ \A p \in Plugin : registry[p] = NONE
              /\ \A r \in Request : install[r] = "idle"

\* What an install is about to register has its manifest.
ManifestWritten ==
  \A r \in Request : install[r] = "register" /\ PLACEHOLDER \notin muddled => dir[TARGET] = PLACEHOLDER

\* What is registered has a directory, and what has a directory is registered or
\* about to be.
Agree ==
  \A p \in Plugin \ muddled :
    /\ registry[p] # NONE => dir[registry[p].path] = p
    /\ serving /\ registry[p] = NONE /\ (\E d \in Dir : dir[d] = p) =>
         p = PLACEHOLDER /\ \E r \in Request : install[r] = "register"

\* A plugin that is gone is neither registered, nor on disk, nor being installed.
Gone ==
  \A p \in gone \ contested :
    /\ registry[p] = NONE
    /\ \A d \in Dir : dir[d] # p
    /\ p = PLACEHOLDER => \A r \in Request : install[r] \in {"idle", "download"}

PluginInv == PluginTypeOK /\ OwnDirectory /\ Stopped /\ ManifestWritten /\ Agree /\ Gone

-----------------------------------------------------------------------------
LEMMA ScannedAgrees ==
  ASSUME dir \in [Dir -> Plugin \cup {MISSING, BARE}],
         NEW reg \in Scanned, NEW p \in Plugin
  PROVE  /\ reg \in [Plugin -> Registered \cup {NONE}]
         /\ reg[p] = NONE => \A d \in Dir : dir[d] # p
         /\ reg[p] # NONE => reg[p].path \in Dir /\ dir[reg[p].path] = p
  BY DEF Scanned, Holders

LEMMA PluginInitInv == PluginInit => PluginInv
  <1> SUFFICES ASSUME PluginInit PROVE PluginInv
    OBVIOUS
  <1> USE PluginAssumption DEF PluginInit
  <1>1. PluginTypeOK
    BY DEF PluginTypeOK, Scanned
  <1>2. OwnDirectory /\ Agree
    BY ScannedAgrees DEF OwnDirectory, Agree
  <1>3. Stopped /\ ManifestWritten /\ Gone
    BY DEF Stopped, ManifestWritten, Gone
  <1> QED
    BY <1>1, <1>2, <1>3 DEF PluginInv

LEMMA PluginNextInv == PluginInv /\ [PluginNext]_pluginVars => PluginInv'
  <1> SUFFICES ASSUME PluginInv, [PluginNext]_pluginVars PROVE PluginInv'
    OBVIOUS
  <1> USE PluginAssumption DEF PluginInv
  <1>1. ASSUME NEW r \in Request, BeginInstall(r) PROVE PluginInv'
    <2> USE <1>1 DEF BeginInstall
    <2>1. PluginTypeOK'
      BY DEF PluginTypeOK, Registered
    <2>2. OwnDirectory'
      BY DEF PluginTypeOK, OwnDirectory, Registered
    <2>3. Stopped'
      BY DEF PluginTypeOK, OwnDirectory, Stopped, Registered
    <2>4. ManifestWritten'
      BY DEF PluginTypeOK, OwnDirectory, ManifestWritten, Registered
    <2>5. Agree'
      BY DEF PluginTypeOK, OwnDirectory, Agree, Registered
    <2>6. Gone'
      BY DEF PluginTypeOK, OwnDirectory, Gone, Registered
    <2> QED
      BY <2>1, <2>2, <2>3, <2>4, <2>5, <2>6
  <1>2. ASSUME NEW r \in Request, MakeDir(r) PROVE PluginInv'
    <2> USE <1>2 DEF MakeDir, Step
    <2>1. PluginTypeOK'
      BY DEF PluginTypeOK, Registered
    <2>2. OwnDirectory'
      BY DEF PluginTypeOK, OwnDirectory, Registered
    <2>3. Stopped'
      BY DEF PluginTypeOK, OwnDirectory, Stopped, Registered
    <2>4. ManifestWritten'
      BY DEF PluginTypeOK, OwnDirectory, ManifestWritten, Registered
    <2>5. Agree'
      BY DEF PluginTypeOK, OwnDirectory, Agree, Registered
    <2>6. Gone'
      BY DEF PluginTypeOK, OwnDirectory, Gone, Registered
    <2> QED
      BY <2>1, <2>2, <2>3, <2>4, <2>5, <2>6
  <1>3. ASSUME NEW r \in Request, WriteWasm(r) PROVE PluginInv'
    <2> USE <1>3 DEF WriteWasm, Step
    <2>1. PluginTypeOK'
      BY DEF PluginTypeOK, Registered
    <2>2. OwnDirectory'
      BY DEF PluginTypeOK, OwnDirectory, Registered
    <2>3. Stopped'
      BY DEF PluginTypeOK, OwnDirectory, Stopped, Registered
    <2>4. ManifestWritten'
      BY DEF PluginTypeOK, OwnDirectory, ManifestWritten, Registered
    <2>5. Agree'
      BY DEF PluginTypeOK, OwnDirectory, Agree, Registered
    <2>6. Gone'
      BY DEF PluginTypeOK, OwnDirectory, Gone, Registered
    <2> QED
      BY <2>1, <2>2, <2>3, <2>4, <2>5, <2>6
  <1>4. ASSUME NEW r \in Request, WriteManifest(r) PROVE PluginInv'
    <2> USE <1>4 DEF WriteManifest, Step
    <2>1. PluginTypeOK'
      BY DEF PluginTypeOK, Registered, ManifestWritten, Agree, Stopped
    <2>2. OwnDirectory'
      BY DEF PluginTypeOK, OwnDirectory, Registered, ManifestWritten, Agree, Stopped
    <2>3. Stopped'
      BY DEF PluginTypeOK, OwnDirectory, Stopped, Registered, ManifestWritten, Agree
    <2>4. ManifestWritten'
      BY DEF PluginTypeOK, OwnDirectory, ManifestWritten, Registered, Agree, Stopped
    <2>5. Agree'
      BY DEF PluginTypeOK, OwnDirectory, Agree, Registered, ManifestWritten, Stopped
    <2>6. Gone'
      BY DEF PluginTypeOK, OwnDirectory, Gone, Registered, ManifestWritten, Agree, Stopped
    <2> QED
      BY <2>1, <2>2, <2>3, <2>4, <2>5, <2>6
  <1>5. ASSUME NEW r \in Request, FailInstall(r) PROVE PluginInv'
    <2> USE <1>5 DEF FailInstall
    <2>1. PluginTypeOK'
      BY DEF PluginTypeOK, Registered, ManifestWritten, Agree, Stopped
    <2>2. OwnDirectory'
      BY DEF PluginTypeOK, OwnDirectory, Registered, ManifestWritten, Agree, Stopped
    <2>3. Stopped'
      BY DEF PluginTypeOK, OwnDirectory, Stopped, Registered, ManifestWritten, Agree
    <2>4. ManifestWritten'
      BY DEF PluginTypeOK, OwnDirectory, ManifestWritten, Registered, Agree, Stopped
    <2>5. Agree'
      BY DEF PluginTypeOK, OwnDirectory, Agree, Registered, ManifestWritten, Stopped
    <2>6. Gone'
      BY DEF PluginTypeOK, OwnDirectory, Gone, Registered, ManifestWritten, Agree, Stopped
    <2> QED
      BY <2>1, <2>2, <2>3, <2>4, <2>5, <2>6
  <1>6. ASSUME NEW r \in Request, Register(r) PROVE PluginInv'
    <2> USE <1>6 DEF Register, Step
    <2>1. PluginTypeOK'
      BY DEF PluginTypeOK, Registered, ManifestWritten, Agree, Stopped
    <2>2. OwnDirectory'
      BY DEF PluginTypeOK, OwnDirectory, Registered, ManifestWritten, Agree, Stopped
    <2>3. Stopped'
      BY DEF PluginTypeOK, OwnDirectory, Stopped, Registered, ManifestWritten, Agree
    <2>4. ManifestWritten'
      BY DEF PluginTypeOK, OwnDirectory, ManifestWritten, Registered, Agree, Stopped
    <2>5. Agree'
      <3> DEFINE new == [path |-> TARGET, enabled |-> TRUE]
      <3>0. new \in Registered /\ new.path = TARGET
        BY DEF Registered
      <3>1. registry' = [registry EXCEPT ![PLACEHOLDER] = new]
        OBVIOUS
      <3> HIDE DEF new
      <3>3. NONE \notin Registered
        BY DEF Registered
      <3>4. /\ registry'[PLACEHOLDER] # NONE /\ registry'[PLACEHOLDER].path = TARGET
            /\ \A q \in Plugin \ {PLACEHOLDER} : registry'[q] = registry[q]
        BY <3>0, <3>1, <3>3 DEF PluginTypeOK
      <3>2. PLACEHOLDER \notin muddled => dir[TARGET] = PLACEHOLDER
        BY DEF ManifestWritten
      <3> QED
        BY <3>2, <3>4 DEF Agree
    <2>6. Gone'
      BY DEF PluginTypeOK, OwnDirectory, Gone, Registered, ManifestWritten, Agree, Stopped
    <2> QED
      BY <2>1, <2>2, <2>3, <2>4, <2>5, <2>6
  <1>7. ASSUME NEW p \in Plugin, Uninstall(p) PROVE PluginInv'
    <2> USE <1>7 DEF Uninstall
    <2>1. PluginTypeOK'
      BY DEF PluginTypeOK, Registered, Holders, Installing, ManifestWritten, Agree, Stopped
    <2>2. OwnDirectory'
      BY DEF PluginTypeOK, OwnDirectory, Registered, Holders, Installing, ManifestWritten, Agree, Stopped
    <2>3. Stopped'
      BY DEF PluginTypeOK, OwnDirectory, Stopped, Registered, Holders, Installing, ManifestWritten, Agree
    <2>4. ManifestWritten'
      BY DEF PluginTypeOK, OwnDirectory, ManifestWritten, Registered, Holders, Installing, Agree, Stopped
    <2>5. Agree'
      BY DEF PluginTypeOK, OwnDirectory, Agree, Registered, Holders, Installing, ManifestWritten, Stopped
    <2>6. Gone'
      BY DEF PluginTypeOK, OwnDirectory, Gone, Registered, Holders, Installing, ManifestWritten, Agree, Stopped
    <2> QED
      BY <2>1, <2>2, <2>3, <2>4, <2>5, <2>6
  <1>8. ASSUME NEW p \in Plugin, NEW enabled \in BOOLEAN, SetEnabled(p, enabled) PROVE PluginInv'
    <2> USE <1>8 DEF SetEnabled
    <2>1. PluginTypeOK'
      BY DEF PluginTypeOK, Registered, ManifestWritten, Agree, Stopped
    <2>2. OwnDirectory'
      BY DEF PluginTypeOK, OwnDirectory, Registered, ManifestWritten, Agree, Stopped
    <2>3. Stopped'
      BY DEF PluginTypeOK, OwnDirectory, Stopped, Registered, ManifestWritten, Agree
    <2>4. ManifestWritten'
      BY DEF PluginTypeOK, OwnDirectory, ManifestWritten, Registered, Agree, Stopped
    <2>5. Agree'
      BY DEF PluginTypeOK, OwnDirectory, Agree, Registered, ManifestWritten, Stopped
    <2>6. Gone'
      BY DEF PluginTypeOK, OwnDirectory, Gone, Registered, ManifestWritten, Agree, Stopped
    <2> QED
      BY <2>1, <2>2, <2>3, <2>4, <2>5, <2>6
  <1>9. ASSUME Stop PROVE PluginInv'
    <2> USE <1>9 DEF Stop
    <2>1. PluginTypeOK'
      <3>1. PICK d : dir' \in {dir, [dir EXCEPT ![d] = BARE]}
        OBVIOUS
      <3>2. dir' \in [Dir -> Plugin \cup {MISSING, BARE}]
        BY <3>1 DEF PluginTypeOK
      <3>3. registry' \in [Plugin -> Registered \cup {NONE}]
        OBVIOUS
      <3>4. install' \in [Request -> {"idle", "download", "wasm", "manifest", "register"}]
        OBVIOUS
      <3>5. stops' \in 0..MaxStops
        BY DEF PluginTypeOK
      <3> QED
        BY <3>2, <3>3, <3>4, <3>5 DEF PluginTypeOK
    <2>2. OwnDirectory'
      BY DEF PluginTypeOK, OwnDirectory, Registered, HalfDone
    <2>3. Stopped'
      BY DEF PluginTypeOK, OwnDirectory, Stopped, Registered, HalfDone
    <2>4. ManifestWritten'
      BY DEF PluginTypeOK, OwnDirectory, ManifestWritten, Registered, HalfDone
    <2>5. Agree'
      BY DEF PluginTypeOK, OwnDirectory, Agree, Registered, HalfDone
    <2>6. Gone'
      BY DEF PluginTypeOK, OwnDirectory, Gone, Registered, HalfDone
    <2> QED
      BY <2>1, <2>2, <2>3, <2>4, <2>5, <2>6
  <1>10. ASSUME Start PROVE PluginInv'
    <2> USE <1>10 DEF Start
    <2>1. PluginTypeOK'
      BY ScannedAgrees DEF PluginTypeOK, Registered, Stopped, Gone
    <2>2. OwnDirectory'
      BY ScannedAgrees DEF PluginTypeOK, OwnDirectory, Registered, Stopped, Gone
    <2>3. Stopped'
      BY ScannedAgrees DEF PluginTypeOK, OwnDirectory, Stopped, Registered, Gone
    <2>4. ManifestWritten'
      BY ScannedAgrees DEF PluginTypeOK, OwnDirectory, ManifestWritten, Registered, Stopped, Gone
    <2>5. Agree'
      BY ScannedAgrees DEF PluginTypeOK, OwnDirectory, Agree, Registered, Stopped, Gone
    <2>6. Gone'
      BY ScannedAgrees DEF PluginTypeOK, OwnDirectory, Gone, Registered, Stopped
    <2> QED
      BY <2>1, <2>2, <2>3, <2>4, <2>5, <2>6
  <1>11. CASE UNCHANGED pluginVars
    BY <1>11 DEF pluginVars, PluginTypeOK, OwnDirectory, Stopped, ManifestWritten, Agree, Gone
  <1> QED
    BY <1>1, <1>2, <1>3, <1>4, <1>5, <1>6, <1>7, <1>8, <1>9, <1>10, <1>11 DEF PluginNext

-----------------------------------------------------------------------------
LEMMA PluginAlways == PluginSpec => []PluginInv
  BY PluginInitInv, PluginNextInv, PTL DEF PluginSpec

(* The directories, the registry and the requests keep the types that
   plugins.rs gives them, for any number of plugins. *)
THEOREM PluginTypes == PluginSpec => []PluginTypeOK
  <1>1. PluginInv => PluginTypeOK
    BY DEF PluginInv
  <1> QED
    BY <1>1, PluginAlways, PTL

(* The registry behind the lock says what the directories say, whatever
   installs, removals, failures and crashes come in between. *)
THEOREM RegistryFollowsDisk == PluginSpec => []RegistryIsDisk
  <1>1. PluginInv => RegistryIsDisk
    BY DEF PluginInv, Agree, RegistryIsDisk, Installing, Holders
  <1> QED
    BY <1>1, PluginAlways, PTL

(* uninstall_plugin's acknowledgement holds until the next install, whatever failed
   before it, for every plugin that no second directory had the id of and no
   install was at when it was removed. *)
THEOREM RemovalHolds == PluginSpec => []UninstalledStaysGone
  <1>1. PluginInv => UninstalledStaysGone
    BY DEF PluginInv, PluginTypeOK, Gone, UninstalledStaysGone, Holders
  <1> QED
    BY <1>1, PluginAlways, PTL

-----------------------------------------------------------------------------
(* The capture library *)

\* Nothing was done yet for a capture that is about to be taken.
Fresh ==
  \A c \in Capture \ taken :
    /\ row[c] = NONE /\ entry[c] = NONE /\ png[c] = NONE
    /\ ocr["draft"][c] = NONE /\ ocr["final"][c] = NONE
    /\ pending # NONE => pending.image # c /\ pending.id # c
    /\ libId # c

\* The id comes with its image, once; until it is used nothing is final.
OnceInHand ==
  /\ pending # NONE => pending.id \in {pending.image, NONE}
  /\ pending # NONE /\ libId # NONE => pending.id # libId
  /\ \A c \in Capture :
       c = libId \/ (pending # NONE /\ c = pending.id) =>
         row[c] \in {"draft", NONE} /\ ocr["final"][c] = NONE

\* What the editor holds for a capture that did not come in haste: its image is
\* on the way and nothing was exported yet, or it is on the stage.
Unhurried ==
  libId # NONE /\ libId \notin hasty =>
    /\ \A c \in loading : c = libId
    /\ loading # {} => exports = {}
    /\ loading = {} => shown = libId
    /\ \A i \in exports : i.of = libId

\* The thread of the other job has ended, the one of this job brings what the
\* file shows, and after it the entry has it.
Threads ==
  \A c \in Capture \ (raced \cup unread \cup stray) :
    /\ row[c] \in {"draft", "video"} => ocr["final"][c] = NONE
    /\ row[c] \in {"final", "video"} => ocr["draft"][c] = NONE
    /\ \A kind \in Job :
         row[c] = kind /\ HasText(png[c]) =>
           ocr[kind][c] \in {WAITING, png[c]} \/ (ocr[kind][c] = NONE /\ entry[c] = png[c])

CaptureInv ==
  /\ CaptureTypeOK /\ Fresh /\ OnceInHand /\ Unhurried /\ Threads
  /\ LibraryConsistent /\ FileIsOwn

-----------------------------------------------------------------------------
LEMMA RawImage ==
  ASSUME NEW c \in Capture
  PROVE  Raw(c) \in Image /\ HasText(Raw(c)) /\ Raw(c).of = c /\ Raw(c) # NONE
  BY CaptureAssumption DEF Raw, Image, HasText

LEMMA ExportImage ==
  ASSUME NEW s \in Capture \cup {NONE}, NEW kind \in {"marked", "blank"}
  PROVE  [of |-> s, kind |-> kind] \in Image /\ [of |-> s, kind |-> kind].of = s
  BY DEF Image

LEMMA CaptureInitInv == CaptureInit => CaptureInv
  <1> SUFFICES ASSUME CaptureInit PROVE CaptureInv
    OBVIOUS
  <1> USE CaptureAssumption DEF CaptureInit
  <1>1. CaptureTypeOK
    BY DEF CaptureTypeOK
  <1>2. Fresh /\ OnceInHand /\ Unhurried /\ Threads
    BY DEF Job, Fresh, OnceInHand, Unhurried, Threads
  <1>3. LibraryConsistent /\ FileIsOwn
    BY DEF LibraryConsistent, FileIsOwn
  <1> QED
    BY <1>1, <1>2, <1>3 DEF CaptureInv

LEMMA CaptureNextInv == CaptureInv /\ [CaptureNext]_captureVars => CaptureInv'
  <1> SUFFICES ASSUME CaptureInv, [CaptureNext]_captureVars PROVE CaptureInv'
    OBVIOUS
  <1> USE CaptureAssumption DEF CaptureInv, libraryVars, editorVars, pastVars
  <1>1. ASSUME NEW c \in Capture, Shoot(c) PROVE CaptureInv'
    <2> USE <1>1 DEF Shoot, New, SaveDraft, OpenEditor, CaptureTypeOK
    <2>1. CaptureTypeOK'
      BY RawImage DEF Job
    <2>2. Fresh'
      BY RawImage DEF Fresh
    <2>3. OnceInHand'
      BY RawImage DEF OnceInHand, Fresh
    <2>4. Unhurried'
      BY RawImage DEF Unhurried, OnceInHand
    <2>5. Threads'
      BY RawImage DEF Threads, Fresh, OnceInHand, LibraryConsistent
    <2>6. LibraryConsistent'
      BY RawImage DEF Job, LibraryConsistent, Fresh
    <2>7. FileIsOwn'
      BY RawImage DEF FileIsOwn, Unhurried, OnceInHand
    <2> QED
      BY <2>1, <2>2, <2>3, <2>4, <2>5, <2>6, <2>7
  <1>2. ASSUME NEW c \in Capture, ShootUnsaved(c) PROVE CaptureInv'
    <2> USE <1>2 DEF ShootUnsaved, New, FailDraft, OpenEditor, CaptureTypeOK
    <2>1. CaptureTypeOK'
      BY RawImage
    <2>2. Fresh'
      BY RawImage DEF Fresh
    <2>3. OnceInHand'
      BY RawImage DEF OnceInHand, Fresh
    <2>4. Unhurried'
      BY RawImage DEF Unhurried, OnceInHand
    <2>5. Threads'
      BY RawImage DEF Threads, Fresh, OnceInHand, LibraryConsistent
    <2>6. LibraryConsistent'
      BY RawImage DEF LibraryConsistent, Fresh
    <2>7. FileIsOwn'
      BY RawImage DEF FileIsOwn, Unhurried, OnceInHand
    <2> QED
      BY <2>1, <2>2, <2>3, <2>4, <2>5, <2>6, <2>7
  <1>3. ASSUME NEW c \in Capture, SaveVideo(c) PROVE CaptureInv'
    <2> USE <1>3 DEF SaveVideo, New, CaptureTypeOK
    <2>1. CaptureTypeOK'
      BY RawImage
    <2>2. Fresh'
      BY RawImage DEF Fresh
    <2>3. OnceInHand'
      BY RawImage DEF OnceInHand, Fresh
    <2>4. Unhurried'
      BY RawImage DEF Unhurried, OnceInHand
    <2>5. Threads'
      BY RawImage DEF Job, Threads, Fresh, OnceInHand, LibraryConsistent
    <2>6. LibraryConsistent'
      BY RawImage DEF Job, LibraryConsistent, Fresh
    <2>7. FileIsOwn'
      BY RawImage DEF FileIsOwn, Unhurried, OnceInHand
    <2> QED
      BY <2>1, <2>2, <2>3, <2>4, <2>5, <2>6, <2>7
  <1>4. ASSUME NEW c \in Capture, ImageLoaded(c) PROVE CaptureInv'
    <2> USE <1>4 DEF ImageLoaded, CaptureTypeOK
    <2>1. CaptureTypeOK'
      OBVIOUS
    <2>2. Fresh'
      BY DEF Fresh
    <2>3. OnceInHand'
      BY DEF OnceInHand, Fresh
    <2>4. Unhurried'
      BY DEF Unhurried, OnceInHand
    <2>5. Threads'
      BY DEF Threads, Fresh, OnceInHand, LibraryConsistent
    <2>6. LibraryConsistent'
      BY DEF LibraryConsistent, Fresh
    <2>7. FileIsOwn'
      BY DEF FileIsOwn, Unhurried, OnceInHand
    <2> QED
      BY <2>1, <2>2, <2>3, <2>4, <2>5, <2>6, <2>7
  <1>5. ASSUME NEW c \in Capture, Delete(c) PROVE CaptureInv'
    <2> USE <1>5 DEF Delete, CaptureTypeOK
    <2>1. CaptureTypeOK'
      OBVIOUS
    <2>2. Fresh'
      BY DEF Fresh
    <2>3. OnceInHand'
      BY DEF OnceInHand, Fresh
    <2>4. Unhurried'
      BY DEF Unhurried, OnceInHand
    <2>5. Threads'
      BY DEF Job, Threads, Fresh, OnceInHand, LibraryConsistent
    <2>6. LibraryConsistent'
      BY DEF LibraryConsistent, Fresh
    <2>7. FileIsOwn'
      BY DEF FileIsOwn, Unhurried, OnceInHand
    <2> QED
      BY <2>1, <2>2, <2>3, <2>4, <2>5, <2>6, <2>7
  <1>6. ASSUME NEW c \in Capture, NEW kind \in Job, ReadText(c, kind) PROVE CaptureInv'
    <2> USE <1>6 DEF ReadText, CaptureTypeOK
    <2>1. CaptureTypeOK'
      OBVIOUS
    <2>2. Fresh'
      BY DEF Fresh
    <2>3. OnceInHand'
      BY DEF OnceInHand, Fresh
    <2>4. Unhurried'
      BY DEF Unhurried, OnceInHand
    <2>5. Threads'
      BY DEF Threads, Fresh, OnceInHand, LibraryConsistent
    <2>6. LibraryConsistent'
      BY DEF LibraryConsistent, Fresh
    <2>7. FileIsOwn'
      BY DEF FileIsOwn, Unhurried, OnceInHand
    <2> QED
      BY <2>1, <2>2, <2>3, <2>4, <2>5, <2>6, <2>7
  <1>7. ASSUME NEW c \in Capture, NEW kind \in Job, FailText(c, kind) PROVE CaptureInv'
    <2> USE <1>7 DEF FailText, CaptureTypeOK
    <2>1. CaptureTypeOK'
      OBVIOUS
    <2>2. Fresh'
      BY DEF Fresh
    <2>3. OnceInHand'
      BY DEF OnceInHand, Fresh
    <2>4. Unhurried'
      BY DEF Unhurried, OnceInHand
    <2>5. Threads'
      BY DEF Threads, Fresh, OnceInHand, LibraryConsistent
    <2>6. LibraryConsistent'
      BY DEF LibraryConsistent, Fresh
    <2>7. FileIsOwn'
      BY DEF FileIsOwn, Unhurried, OnceInHand
    <2> QED
      BY <2>1, <2>2, <2>3, <2>4, <2>5, <2>6, <2>7
  <1>8. ASSUME NEW c \in Capture, NEW kind \in Job, IndexText(c, kind) PROVE CaptureInv'
    <2> USE <1>8 DEF IndexText, CaptureTypeOK
    <2>1. CaptureTypeOK'
      OBVIOUS
    <2>2. Fresh'
      BY DEF Fresh
    <2>3. OnceInHand'
      BY DEF OnceInHand, Fresh
    <2>4. Unhurried'
      BY DEF Unhurried, OnceInHand
    <2>5. Threads'
      BY DEF Job, Threads, Fresh, OnceInHand, LibraryConsistent
    <2>6. LibraryConsistent'
      BY DEF LibraryConsistent, Fresh
    <2>7. FileIsOwn'
      BY DEF FileIsOwn, Unhurried, OnceInHand
    <2> QED
      BY <2>1, <2>2, <2>3, <2>4, <2>5, <2>6, <2>7
  <1>9. ASSUME NEW i \in exports, FinishExport(i) PROVE CaptureInv'
    <2> USE <1>9 DEF FinishExport, Finalize, CaptureTypeOK
    <2>1. CaptureTypeOK'
      OBVIOUS
    <2>2. Fresh'
      BY DEF Job, Fresh
    <2>3. OnceInHand'
      BY DEF OnceInHand, Fresh
    <2>4. Unhurried'
      BY DEF Unhurried, OnceInHand
    <2>5. Threads'
      BY DEF Job, Threads, Fresh, OnceInHand, LibraryConsistent
    <2>6. LibraryConsistent'
      BY DEF Job, LibraryConsistent, Fresh
    <2>7. FileIsOwn'
      BY DEF FileIsOwn, Unhurried, OnceInHand
    <2> QED
      BY <2>1, <2>2, <2>3, <2>4, <2>5, <2>6, <2>7
  <1>10. ASSUME NEW i \in exports, FailExport(i) PROVE CaptureInv'
    <2> USE <1>10 DEF FailExport, CaptureTypeOK
    <2>1. CaptureTypeOK'
      OBVIOUS
    <2>2. Fresh'
      BY DEF Fresh
    <2>3. OnceInHand'
      BY DEF OnceInHand, Fresh
    <2>4. Unhurried'
      BY DEF Unhurried, OnceInHand
    <2>5. Threads'
      BY DEF Threads, Fresh, OnceInHand, LibraryConsistent
    <2>6. LibraryConsistent'
      BY DEF LibraryConsistent, Fresh
    <2>7. FileIsOwn'
      BY DEF FileIsOwn, Unhurried, OnceInHand
    <2> QED
      BY <2>1, <2>2, <2>3, <2>4, <2>5, <2>6, <2>7
  <1>11. ASSUME Listen PROVE CaptureInv'
    <2> USE <1>11 DEF Listen, CaptureTypeOK
    <2>1. CaptureTypeOK'
      OBVIOUS
    <2>2. Fresh'
      BY DEF Fresh
    <2>3. OnceInHand'
      BY DEF OnceInHand, Fresh
    <2>4. Unhurried'
      BY DEF Unhurried, OnceInHand
    <2>5. Threads'
      BY DEF Threads, Fresh, OnceInHand, LibraryConsistent
    <2>6. LibraryConsistent'
      BY DEF LibraryConsistent, Fresh
    <2>7. FileIsOwn'
      BY DEF FileIsOwn, Unhurried, OnceInHand
    <2> QED
      BY <2>1, <2>2, <2>3, <2>4, <2>5, <2>6, <2>7
  <1>12. ASSUME LoadCapture PROVE CaptureInv'
    <2> USE <1>12 DEF LoadCapture, CaptureTypeOK
    <2>1. CaptureTypeOK'
      OBVIOUS
    <2>2. Fresh'
      BY DEF Fresh
    <2>3. OnceInHand'
      BY DEF OnceInHand, Fresh
    <2>4. Unhurried'
      BY DEF Job, Unhurried, OnceInHand
    <2>5. Threads'
      BY DEF Threads, Fresh, OnceInHand, LibraryConsistent
    <2>6. LibraryConsistent'
      BY DEF LibraryConsistent, Fresh
    <2>7. FileIsOwn'
      BY DEF FileIsOwn, Unhurried, OnceInHand
    <2> QED
      BY <2>1, <2>2, <2>3, <2>4, <2>5, <2>6, <2>7
  <1>13. ASSUME Export PROVE CaptureInv'
    <2> USE <1>13 DEF Export, CaptureTypeOK
    <2>1. CaptureTypeOK'
      <3>0. PICK kind \in {"marked", "blank"} :
              exports' = exports \cup {[of |-> shown, kind |-> kind]}
        OBVIOUS
      <3>1. exports' \subseteq Image
        BY <3>0, ExportImage
      <3>2. hasty' \subseteq Capture
        OBVIOUS
      <3>3. drawn' \in 0..MaxExports
        OBVIOUS
      <3> QED
        BY <3>1, <3>2, <3>3
    <2>2. Fresh'
      BY ExportImage DEF Fresh
    <2>3. OnceInHand'
      BY ExportImage DEF OnceInHand, Fresh
    <2>4. Unhurried'
      BY ExportImage DEF Unhurried, OnceInHand
    <2>5. Threads'
      BY ExportImage DEF Threads, Fresh, OnceInHand, LibraryConsistent
    <2>6. LibraryConsistent'
      BY ExportImage DEF LibraryConsistent, Fresh
    <2>7. FileIsOwn'
      BY ExportImage DEF FileIsOwn, Unhurried, OnceInHand
    <2> QED
      BY <2>1, <2>2, <2>3, <2>4, <2>5, <2>6, <2>7
  <1>14. ASSUME CloseEditor PROVE CaptureInv'
    <2> USE <1>14 DEF CloseEditor, EditorGone, CaptureTypeOK
    <2>1. CaptureTypeOK'
      OBVIOUS
    <2>2. Fresh'
      BY DEF Fresh
    <2>3. OnceInHand'
      BY DEF OnceInHand, Fresh
    <2>4. Unhurried'
      BY DEF Unhurried, OnceInHand
    <2>5. Threads'
      BY DEF Threads, Fresh, OnceInHand, LibraryConsistent
    <2>6. LibraryConsistent'
      BY DEF LibraryConsistent, Fresh
    <2>7. FileIsOwn'
      BY DEF FileIsOwn, Unhurried, OnceInHand
    <2> QED
      BY <2>1, <2>2, <2>3, <2>4, <2>5, <2>6, <2>7
  <1>15. ASSUME Quit PROVE CaptureInv'
    <2> USE <1>15 DEF Quit, EditorGone, CaptureTypeOK
    <2>1. CaptureTypeOK'
      <3>1. ocr' \in [Job -> [Capture -> Image \cup {NONE, WAITING}]]
        OBVIOUS
      <3>2. unread' \subseteq Capture
        OBVIOUS
      <3>3. quits' \in 0..MaxQuits
        OBVIOUS
      <3> QED
        BY <3>1, <3>2, <3>3, ZenonT(60)
    <2>2. Fresh'
      BY DEF Job, Fresh
    <2>3. OnceInHand'
      BY DEF OnceInHand, Fresh
    <2>4. Unhurried'
      BY DEF Unhurried, OnceInHand
    <2>5. Threads'
      BY DEF Job, Threads, Fresh, OnceInHand, LibraryConsistent
    <2>6. LibraryConsistent'
      BY DEF LibraryConsistent, Fresh
    <2>7. FileIsOwn'
      BY DEF FileIsOwn, Unhurried, OnceInHand
    <2> QED
      BY <2>1, <2>2, <2>3, <2>4, <2>5, <2>6, <2>7
  <1>16. ASSUME Relaunch PROVE CaptureInv'
    <2> USE <1>16 DEF Relaunch, Prune, CaptureTypeOK
    <2>1. CaptureTypeOK'
      OBVIOUS
    <2>2. Fresh'
      BY DEF Fresh
    <2>3. OnceInHand'
      BY DEF OnceInHand, Fresh
    <2>4. Unhurried'
      BY DEF Unhurried, OnceInHand
    <2>5. Threads'
      BY DEF Job, Threads, Fresh, OnceInHand, LibraryConsistent
    <2>6. LibraryConsistent'
      BY DEF LibraryConsistent, Fresh
    <2>7. FileIsOwn'
      BY DEF FileIsOwn, Unhurried, OnceInHand
    <2> QED
      BY <2>1, <2>2, <2>3, <2>4, <2>5, <2>6, <2>7
  <1>17. CASE UNCHANGED captureVars
    BY <1>17 DEF captureVars, CaptureTypeOK, Fresh, OnceInHand, Unhurried, Threads, LibraryConsistent, FileIsOwn
  <1> QED
    BY <1>1, <1>2, <1>3, <1>4, <1>5, <1>6, <1>7, <1>8, <1>9, <1>10, <1>11, <1>12, <1>13, <1>14, <1>15, <1>16, <1>17 DEF CaptureNext

-----------------------------------------------------------------------------
LEMMA CaptureAlways == CaptureSpec => []CaptureInv
  BY CaptureInitInv, CaptureNextInv, PTL DEF CaptureSpec

(* The library, its threads and the editor keep their types, for any number of
   captures. *)
THEOREM CaptureTypes == CaptureSpec => []CaptureTypeOK
  <1>1. CaptureInv => CaptureTypeOK
    BY DEF CaptureInv
  <1> QED
    BY <1>1, CaptureAlways, PTL

(* db.rs loses no file or search entry of a row, and leaves only those without a
   row that a failed draft, the pruning or a file that could not be removed
   accounts for. *)
THEOREM LibraryHolds == CaptureSpec => []LibraryConsistent
  <1>1. CaptureInv => LibraryConsistent
    BY DEF CaptureInv
  <1> QED
    BY <1>1, CaptureAlways, PTL

(* EditorWindow.tsx finalizes a draft with its own picture, though it reads the
   id after the export was awaited. *)
THEOREM PicturesAreOwn == CaptureSpec => []FileIsOwn
  <1>1. CaptureInv => FileIsOwn
    BY DEF CaptureInv
  <1> QED
    BY <1>1, CaptureAlways, PTL

(* Whatever the OCR threads and the finalizing interleave to, the search entry
   that remains is of the picture that the file shows. *)
THEOREM SearchFindsWhatIsShown == CaptureSpec => []IndexCurrent
  <1>1. CaptureInv => IndexCurrent
    BY CaptureAssumption DEF Job, CaptureInv, Threads, LibraryConsistent, IndexCurrent
  <1> QED
    BY <1>1, CaptureAlways, PTL

-----------------------------------------------------------------------------
(* The stores side by side *)

\* A step of one store is a step of it and leaves the others alone.
LEMMA StoresStep ==
  ASSUME [StoresNext]_<<focus, sessionVars, configVars, pluginVars, captureVars>>
  PROVE  /\ [SessionNext]_sessionVars /\ [ConfigNext]_configVars
         /\ [PluginNext]_pluginVars /\ [CaptureNext]_captureVars
  <1>1. CASE StoresNext
    <2>1. CASE SessionNext /\ UNCHANGED <<configVars, pluginVars, captureVars>>
      BY <2>1
    <2>2. CASE PluginNext /\ UNCHANGED <<sessionVars, configVars, captureVars>>
      BY <2>2
    <2>3. CASE CaptureNext /\ UNCHANGED <<sessionVars, configVars, pluginVars>>
      BY <2>3
    <2>4. CASE ConfigNext /\ UNCHANGED <<sessionVars, pluginVars, captureVars>>
      BY <2>4
    <2> QED
      BY <1>1, <2>1, <2>2, <2>3, <2>4 DEF StoresNext, ConfigStep
  <1>2. CASE UNCHANGED <<focus, sessionVars, configVars, pluginVars, captureVars>>
    BY <1>2
  <1> QED
    BY <1>1, <1>2

(* What a run of MCStores shows of a store is shown of that store alone:
   sessions.rs, the configuration files, plugins.rs and db.rs share nothing, so
   side by side each of them is as its own specification allows, ... *)
THEOREM StoresApart == StoresSpec => SessionSpec /\ ConfigSpec /\ PluginSpec /\ CaptureSpec
  <1>1. StoresInit => SessionInit /\ ConfigInit /\ PluginInit /\ CaptureInit
    BY DEF StoresInit
  <1> QED
    BY <1>1, StoresStep, PTL DEF StoresSpec, SessionSpec, ConfigSpec, PluginSpec, CaptureSpec

(* ... each keeps its types, ... *)
THEOREM StoresTypes == StoresSpec => []StoresTypeOK
  <1>1. SessionTypeOK /\ ConfigTypeOK /\ PluginTypeOK /\ CaptureTypeOK => StoresTypeOK
    BY DEF StoresTypeOK
  <1> QED
    BY <1>1, StoresApart, SessionTypes, ConfigTypes, PluginTypes, CaptureTypes, PTL
=============================================================================
