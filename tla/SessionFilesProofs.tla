-------------------------- MODULE SessionFilesProofs --------------------------
(***************************************************************************)
(* The session files, for any sessions, requests and bounds: no session    *)
(* vanishes, none has two files unless requests collided, and they         *)
(* implement SessionStore.                                                 *)
(***************************************************************************)
EXTENDS SessionFiles, TLAPS

\* A document that a session was given, as SessionStore has it.
Good == Store!Document

\* A request works on a session that exists, its own while it creates it, and
\* the file it has open is where its handle is.
RequestsSound ==
  \A r \in Request :
    /\ pc[r] = "idle" => on[r] = NONE
    /\ pc[r] \in {"idle", "check", "open"} <=> handle[r] = "none"
    /\ pc[r] # "idle" => on[r] \in created /\ next[r] \in Document
    /\ pc[r] \in {"check", "open", "fill"} => on[r] \in told
    /\ pc[r] = "create" => /\ on[r] \notin told /\ handle[r] = "active"
                           /\ \A q \in Request : on[q] = on[r] => q = r
    /\ handle[r] = "active" => active[on[r]] # MISSING
    /\ handle[r] = "archive" => archive[on[r]] # MISSING

\* Before its creation is acknowledged a session has at most the file it began
\* with, and the cleanup leaves it alone.
Unborn ==
  /\ told \subseteq created
  /\ \A s \in Session \ created : active[s] = MISSING
  /\ \A s \in Session \ told : archive[s] = MISSING /\ active[s] \in {MISSING, TORN}
  /\ doomed # NONE => doomed \in told

\* What a request is about to write: the document it was sent, or the file it
\* read with a label or a directory.
Planned(r) ==
  \/ /\ seen[r] = NONE /\ next[r] \in Good
     /\ next[r].meta # NONE => ~next[r].meta.cwd
  \/ /\ seen[r] # NONE
     /\ seen[r] \in Document =>
          \/ ~Labelled(seen[r]) /\ next[r] = WithLabel(seen[r])
          \/ next[r] = WithCwd(seen[r])

Plans ==
  \A r \in Request :
    /\ pc[r] \in {"check", "open"} => Planned(r)
    /\ pc[r] = "create" => next[r] \in Good

\* A session nothing was lost of has one writer, and an empty file under it, or
\* none, and a document.
WriterAlone(s) ==
  \A r \in Writers(s) :
    /\ \A q \in Writers(s) : q = r
    /\ next[r] \in Good
    /\ handle[r] = "active" => active[s] = TORN
    /\ handle[r] = "archive" => archive[s] = TORN

Settled(s) == s \in told /\ Writers(s) = {} => {active[s], archive[s]} \subseteq Good \cup {MISSING}

Sound == \A s \in Session \ void : WriterAlone(s) /\ Settled(s)

SessionInv ==
  /\ SessionTypeOK /\ RequestsSound /\ Unborn /\ Plans /\ Sound
  /\ SessionNeverVanishes /\ OnePlace

-----------------------------------------------------------------------------
(* Documents *)

LEMMA GoodDocument == era \in 0..MaxEra => Good \subseteq Document
  <1> SUFFICES ASSUME era \in 0..MaxEra PROVE Good \subseteq Document
    OBVIOUS
  <1>1. 0..era \subseteq 0..MaxEra
    BY SessionAssumption
  <1>2. Store!Meta = Meta
    BY DEF Store!Meta, Meta
  <1> QED
    BY <1>1, <1>2 DEF Good, Store!Document, Document

LEMMA GoodGrows ==
  ASSUME era \in Nat, era' \in Nat, era <= era'
  PROVE  Good \subseteq Good'
  <1>1. 0..era \subseteq 0..era'
    OBVIOUS
  <1> QED
    BY <1>1 DEF Good, Store!Document, Store!Meta

LEMMA SentIsGood ==
  ASSUME era \in 0..MaxEra, NEW body \in Body, NEW meta \in SentMeta, NEW born \in 0..era,
         NEW d, d = [own |-> TRUE, body |-> body, meta |-> meta, born |-> born]
  PROVE  d \in Good /\ d \in Document /\ (d.meta # NONE => ~d.meta.cwd)
  <1>1. meta \in Meta /\ (meta # NONE => ~meta.cwd)
    BY DEF SentMeta
  <1>2. d \in Good /\ d.meta = meta
    BY <1>1 DEF Good, Store!Document, Store!Meta, Meta
  <1> QED
    BY <1>1, <1>2, GoodDocument

LEMMA ChangedDocument ==
  ASSUME NEW d \in Document
  PROVE  WithLabel(d) \in Document /\ WithCwd(d) \in Document
  BY SessionAssumption DEF WithLabel, WithCwd, Labelled, Document, Meta

LEMMA ChangedGood ==
  ASSUME NEW d \in Good
  PROVE  WithLabel(d) \in Good /\ WithCwd(d) \in Good
  BY SessionAssumption DEF WithLabel, WithCwd, Labelled, Good, Store!Document, Store!Meta

LEMMA MadeUpDocument == era \in 0..MaxEra => MadeUp \in Document
  BY SessionAssumption DEF MadeUp, Document, Meta

LEMMA NoDocument == MISSING \notin Document /\ TORN \notin Document /\ MISSING # TORN /\ NONE \notin Content
  BY SessionAssumption DEF Content

-----------------------------------------------------------------------------
(* The invariant *)

LEMMA SessionInitInv == SessionInit => SessionInv
  <1> SUFFICES ASSUME SessionInit PROVE SessionInv
    OBVIOUS
  <1> USE SessionAssumption DEF SessionInit
  <1>1. SessionTypeOK
    BY DEF SessionTypeOK, Content
  <1>2. RequestsSound /\ Unborn /\ Plans
    BY DEF RequestsSound, Unborn, Plans
  <1>3. Sound /\ SessionNeverVanishes /\ OnePlace
    BY DEF Sound, WriterAlone, Settled, Writers, SessionNeverVanishes, OnePlace
  <1> QED
    BY <1>1, <1>2, <1>3 DEF SessionInv

LEMMA SessionNextInv == SessionInv /\ [SessionNext]_sessionVars => SessionInv'
  <1> SUFFICES ASSUME SessionInv, [SessionNext]_sessionVars PROVE SessionInv'
    OBVIOUS
  <1> USE SessionAssumption, NoDocument DEF SessionInv, requestVars, cleanupVars, historyVars
  <1>1. ASSUME NEW r \in Request, NEW s \in Session, Create(r, s) PROVE SessionInv'
    <2> USE <1>1 DEF Create, Served, Prepare, SessionTypeOK, Content
    <2>0. Good' = Good
      BY DEF Good, Store!Document, Store!Meta
    <2>1. SessionTypeOK'
      BY <2>0, SentIsGood DEF Unborn
    <2>2. RequestsSound'
      BY <2>0, SentIsGood DEF RequestsSound, Unborn
    <2>3. Unborn'
      BY <2>0, SentIsGood DEF Unborn, RequestsSound
    <2>4. Plans'
      BY <2>0, SentIsGood DEF Plans, Planned, RequestsSound
    <2>5. Sound'
      BY <2>0, SentIsGood DEF Sound, WriterAlone, Settled, Writers, RequestsSound, Unborn, OnePlace
    <2>6. SessionNeverVanishes'
      BY <2>0, SentIsGood DEF SessionNeverVanishes, Unborn, RequestsSound
    <2>7. OnePlace'
      BY <2>0, SentIsGood DEF OnePlace, Unborn, RequestsSound, Collides, Writers
    <2> QED
      BY <2>1, <2>2, <2>3, <2>4, <2>5, <2>6, <2>7
  <1>2. ASSUME NEW r \in Request, NEW s \in Session, Put(r, s) PROVE SessionInv'
    <2> USE <1>2 DEF Put, Served, Prepare, SessionTypeOK, Content
    <2>0. Good' = Good
      BY DEF Good, Store!Document, Store!Meta
    <2>1. SessionTypeOK'
      BY <2>0, SentIsGood DEF Unborn
    <2>2. RequestsSound'
      BY <2>0, SentIsGood DEF RequestsSound, Unborn
    <2>3. Unborn'
      BY <2>0, SentIsGood DEF Unborn, RequestsSound
    <2>4. Plans'
      BY <2>0, SentIsGood DEF Plans, Planned, RequestsSound
    <2>5. Sound'
      BY <2>0, SentIsGood DEF Sound, WriterAlone, Settled, Writers, RequestsSound, Unborn, OnePlace
    <2>6. SessionNeverVanishes'
      BY <2>0, SentIsGood DEF SessionNeverVanishes, Unborn, RequestsSound
    <2>7. OnePlace'
      BY <2>0, SentIsGood DEF OnePlace, Unborn, RequestsSound, Collides, Writers
    <2> QED
      BY <2>1, <2>2, <2>3, <2>4, <2>5, <2>6, <2>7
  <1>3. ASSUME NEW r \in Request, NEW s \in Session, LoadForLabel(r, s) PROVE SessionInv'
    <2> USE <1>3 DEF LoadForLabel, Served, Prepare, SessionTypeOK, Content
    <2>0. Good' = Good
      BY DEF Good, Store!Document, Store!Meta
    <2>1. SessionTypeOK'
      BY <2>0, ChangedDocument, MadeUpDocument DEF Unborn
    <2>2. RequestsSound'
      BY <2>0, ChangedDocument, MadeUpDocument DEF RequestsSound, Unborn
    <2>3. Unborn'
      BY <2>0, ChangedDocument, MadeUpDocument DEF Unborn, RequestsSound
    <2>4. Plans'
      BY <2>0, ChangedDocument, MadeUpDocument DEF Plans, Planned, RequestsSound
    <2>5. Sound'
      BY <2>0, ChangedDocument, MadeUpDocument DEF Sound, WriterAlone, Settled, Writers, RequestsSound, Unborn, OnePlace
    <2>6. SessionNeverVanishes'
      BY <2>0, ChangedDocument, MadeUpDocument DEF SessionNeverVanishes, Unborn, RequestsSound
    <2>7. OnePlace'
      BY <2>0, ChangedDocument, MadeUpDocument DEF OnePlace, Unborn, RequestsSound, Collides, Writers
    <2> QED
      BY <2>1, <2>2, <2>3, <2>4, <2>5, <2>6, <2>7
  <1>4. ASSUME NEW r \in Request, NEW s \in Session, LoadForProject(r, s) PROVE SessionInv'
    <2> USE <1>4 DEF LoadForProject, Served, Prepare, SessionTypeOK, Content
    <2>0. Good' = Good
      BY DEF Good, Store!Document, Store!Meta
    <2>1. SessionTypeOK'
      BY <2>0, ChangedDocument, MadeUpDocument DEF Unborn
    <2>2. RequestsSound'
      BY <2>0, ChangedDocument, MadeUpDocument DEF RequestsSound, Unborn
    <2>3. Unborn'
      BY <2>0, ChangedDocument, MadeUpDocument DEF Unborn, RequestsSound
    <2>4. Plans'
      BY <2>0, ChangedDocument, MadeUpDocument DEF Plans, Planned, RequestsSound
    <2>5. Sound'
      BY <2>0, ChangedDocument, MadeUpDocument DEF Sound, WriterAlone, Settled, Writers, RequestsSound, Unborn, OnePlace
    <2>6. SessionNeverVanishes'
      BY <2>0, ChangedDocument, MadeUpDocument DEF SessionNeverVanishes, Unborn, RequestsSound
    <2>7. OnePlace'
      BY <2>0, ChangedDocument, MadeUpDocument DEF OnePlace, Unborn, RequestsSound, Collides, Writers
    <2> QED
      BY <2>1, <2>2, <2>3, <2>4, <2>5, <2>6, <2>7
  <1>5. ASSUME NEW r \in Request, Check(r) PROVE SessionInv'
    <2> USE <1>5 DEF Check, Finish, SessionTypeOK, Content
    <2>0. Good' = Good
      BY DEF Good, Store!Document, Store!Meta
    <2>1. SessionTypeOK'
      BY <2>0 DEF Unborn
    <2>2. RequestsSound'
      BY <2>0 DEF RequestsSound, Unborn
    <2>3. Unborn'
      BY <2>0 DEF Unborn, RequestsSound
    <2>4. Plans'
      BY <2>0 DEF Plans, Planned, RequestsSound
    <2>5. Sound'
      BY <2>0 DEF Sound, WriterAlone, Settled, Writers, RequestsSound, Unborn, OnePlace
    <2>6. SessionNeverVanishes'
      BY <2>0 DEF SessionNeverVanishes, Unborn, RequestsSound
    <2>7. OnePlace'
      BY <2>0 DEF OnePlace, Unborn, RequestsSound, Collides, Writers
    <2> QED
      BY <2>1, <2>2, <2>3, <2>4, <2>5, <2>6, <2>7
  <1>6. ASSUME NEW r \in Request, Open(r) PROVE SessionInv'
    <2> USE <1>6 DEF Open, SessionTypeOK, Content
    <2>0. Good' = Good
      BY DEF Good, Store!Document, Store!Meta
    <2>1. SessionTypeOK'
      BY <2>0, GoodDocument, ChangedGood DEF Unborn, RequestsSound
    <2>2. RequestsSound'
      BY <2>0, GoodDocument, ChangedGood DEF RequestsSound, Unborn
    <2>3. Unborn'
      BY <2>0, GoodDocument, ChangedGood DEF Unborn, RequestsSound
    <2>4. Plans'
      BY <2>0, GoodDocument, ChangedGood DEF Plans, Planned, RequestsSound
    <2>5. Sound'
      <3>1. SUFFICES ASSUME NEW s \in Session \ void' PROVE WriterAlone(s)' /\ Settled(s)'
        BY DEF Sound
      <3>2. s \in Session \ void /\ WriterAlone(s) /\ Settled(s)
        BY DEF Sound
      <3>3. CASE s # on[r]
        <4>1. Writers(s)' = Writers(s) /\ r \notin Writers(s)
          BY <3>3 DEF Writers
        <4>2. active'[s] = active[s] /\ archive'[s] = archive[s]
          BY <3>3
        <4> QED
          BY <2>0, <3>2, <4>1, <4>2 DEF WriterAlone, Settled
      <3>4. CASE s = on[r]
        <4>1. ~Collides(r)
          BY <3>1, <3>4
        <4>2. active[s] # MISSING /\ archive[s] = MISSING
          BY <3>2, <3>4, <4>1 DEF Collides, OnePlace
        <4>3. Writers(s) = {} /\ s \in told
          BY <3>4, <4>1, <4>2 DEF Collides, Writers, RequestsSound
        <4>4. Writers(s)' = {r}
          BY <3>4, <4>3 DEF Writers
        <4>5. active[s] \in Good
          BY <3>2, <4>2, <4>3 DEF Settled
        <4>6. next[r] \in Good
          BY <3>4, <4>1, <4>5, GoodDocument, ChangedGood DEF Plans, Planned, Collides
        <4> QED
          BY <2>0, <3>4, <4>4, <4>6 DEF WriterAlone, Settled
      <3> QED
        BY <3>3, <3>4
    <2>6. SessionNeverVanishes'
      BY <2>0, GoodDocument, ChangedGood DEF SessionNeverVanishes, Unborn, RequestsSound
    <2>7. OnePlace'
      BY <2>0, GoodDocument, ChangedGood DEF OnePlace, Unborn, RequestsSound, Collides, Writers
    <2> QED
      BY <2>1, <2>2, <2>3, <2>4, <2>5, <2>6, <2>7
  <1>7. ASSUME NEW r \in Request, Fill(r) PROVE SessionInv'
    <2> USE <1>7 DEF Fill, Finish, SessionTypeOK, Content
    <2>0. Good' = Good
      BY DEF Good, Store!Document, Store!Meta
    <2>1. SessionTypeOK'
      BY <2>0, GoodDocument, ChangedGood DEF Unborn, RequestsSound
    <2>2. RequestsSound'
      BY <2>0, GoodDocument, ChangedGood DEF RequestsSound, Unborn
    <2>3. Unborn'
      BY <2>0, GoodDocument, ChangedGood DEF Unborn, RequestsSound
    <2>4. Plans'
      BY <2>0, GoodDocument, ChangedGood DEF Plans, Planned, RequestsSound
    <2>5. Sound'
      BY <2>0, GoodDocument, ChangedGood DEF Sound, WriterAlone, Settled, Writers, RequestsSound, Unborn, OnePlace
    <2>6. SessionNeverVanishes'
      BY <2>0, GoodDocument, ChangedGood DEF SessionNeverVanishes, Unborn, RequestsSound
    <2>7. OnePlace'
      BY <2>0, GoodDocument, ChangedGood DEF OnePlace, Unborn, RequestsSound, Collides, Writers
    <2> QED
      BY <2>1, <2>2, <2>3, <2>4, <2>5, <2>6, <2>7
  <1>8. ASSUME NEW s \in Session, Archive(s) PROVE SessionInv'
    <2> USE <1>8 DEF Archive, Served, HandlesMoved, SessionTypeOK, Content
    <2>0. Good' = Good
      BY DEF Good, Store!Document, Store!Meta
    <2>1. SessionTypeOK'
      BY <2>0 DEF Unborn
    <2>2. RequestsSound'
      BY <2>0 DEF RequestsSound, Unborn
    <2>3. Unborn'
      BY <2>0 DEF Unborn, RequestsSound
    <2>4. Plans'
      BY <2>0 DEF Plans, Planned, RequestsSound
    <2>5. Sound'
      BY <2>0 DEF Sound, WriterAlone, Settled, Writers, RequestsSound, Unborn, OnePlace
    <2>6. SessionNeverVanishes'
      BY <2>0 DEF SessionNeverVanishes, Unborn, RequestsSound
    <2>7. OnePlace'
      BY <2>0 DEF OnePlace, Unborn, RequestsSound, Collides, Writers
    <2> QED
      BY <2>1, <2>2, <2>3, <2>4, <2>5, <2>6, <2>7
  <1>9. ASSUME NEW s \in Session, Unarchive(s) PROVE SessionInv'
    <2> USE <1>9 DEF Unarchive, Served, HandlesMoved, SessionTypeOK, Content
    <2>0. Good' = Good
      BY DEF Good, Store!Document, Store!Meta
    <2>1. SessionTypeOK'
      BY <2>0 DEF Unborn
    <2>2. RequestsSound'
      BY <2>0 DEF RequestsSound, Unborn
    <2>3. Unborn'
      BY <2>0 DEF Unborn, RequestsSound
    <2>4. Plans'
      BY <2>0 DEF Plans, Planned, RequestsSound
    <2>5. Sound'
      BY <2>0 DEF Sound, WriterAlone, Settled, Writers, RequestsSound, Unborn, OnePlace
    <2>6. SessionNeverVanishes'
      BY <2>0 DEF SessionNeverVanishes, Unborn, RequestsSound
    <2>7. OnePlace'
      BY <2>0 DEF OnePlace, Unborn, RequestsSound, Collides, Writers
    <2> QED
      BY <2>1, <2>2, <2>3, <2>4, <2>5, <2>6, <2>7
  <1>10. ASSUME NEW s \in Session, CleanupRead(s) PROVE SessionInv'
    <2> USE <1>10 DEF CleanupRead, SessionTypeOK, Content
    <2>0. Good' = Good
      BY DEF Good, Store!Document, Store!Meta
    <2>1. SessionTypeOK'
      BY <2>0 DEF Unborn
    <2>2. RequestsSound'
      BY <2>0 DEF RequestsSound, Unborn
    <2>3. Unborn'
      BY <2>0 DEF IsOld, Unborn, RequestsSound
    <2>4. Plans'
      BY <2>0 DEF Plans, Planned, RequestsSound
    <2>5. Sound'
      BY <2>0 DEF Sound, WriterAlone, Settled, Writers, RequestsSound, Unborn, OnePlace
    <2>6. SessionNeverVanishes'
      BY <2>0 DEF SessionNeverVanishes, Unborn, RequestsSound
    <2>7. OnePlace'
      BY <2>0 DEF OnePlace, Unborn, RequestsSound, Collides, Writers
    <2> QED
      BY <2>1, <2>2, <2>3, <2>4, <2>5, <2>6, <2>7
  <1>11. ASSUME CleanupRemove PROVE SessionInv'
    <2> USE <1>11 DEF CleanupRemove, SessionTypeOK, Content
    <2>0. Good' = Good
      BY DEF Good, Store!Document, Store!Meta
    <2>1. SessionTypeOK'
      BY <2>0 DEF Unborn
    <2>2. RequestsSound'
      BY <2>0 DEF RequestsSound, Unborn
    <2>3. Unborn'
      BY <2>0 DEF Unborn, RequestsSound
    <2>4. Plans'
      BY <2>0 DEF Plans, Planned, RequestsSound
    <2>5. Sound'
      <3>1. SUFFICES ASSUME NEW s \in Session \ void' PROVE WriterAlone(s)' /\ Settled(s)'
        BY DEF Sound
      <3>2. s \in Session \ void /\ WriterAlone(s) /\ Settled(s)
        BY <3>1 DEF Sound
      <3>3. Writers(s)' \subseteq Writers(s)
        BY DEF Writers, RequestsSound
      <3>4. CASE s # doomed
        <4>1. active'[s] = active[s] /\ archive'[s] = archive[s] /\ Writers(s)' = Writers(s)
          BY <3>1, <3>4 DEF Writers, RequestsSound
        <4> QED
          BY <2>0, <3>2, <4>1 DEF WriterAlone, Settled, Writers, RequestsSound
      <3>5. CASE s = doomed
        <4>1. active[s] = MISSING \/ IsOld(active[s])
          BY <3>1, <3>5
        <4>2. \A r \in Writers(s)' : handle[r] = "archive" /\ handle'[r] = "archive"
          BY <3>5 DEF Writers, RequestsSound
        <4>3. \A r \in Writers(s) : handle[r] = "archive"
          BY <3>2, <4>1 DEF WriterAlone, RequestsSound, Writers, IsOld
        <4>4. Writers(s)' = Writers(s)
          BY <3>5, <4>3 DEF Writers, RequestsSound
        <4> QED
          BY <2>0, <3>2, <3>5, <4>2, <4>3, <4>4 DEF WriterAlone, Settled
      <3> QED
        BY <3>4, <3>5
    <2>6. SessionNeverVanishes'
      BY <2>0 DEF SessionNeverVanishes, Unborn, RequestsSound
    <2>7. OnePlace'
      BY <2>0 DEF OnePlace, Unborn, RequestsSound, Collides, Writers
    <2> QED
      BY <2>1, <2>2, <2>3, <2>4, <2>5, <2>6, <2>7
  <1>12. ASSUME Month PROVE SessionInv'
    <2> USE <1>12 DEF Month, SessionTypeOK, Content
    <2>0. Good \subseteq Good'
      BY GoodGrows
    <2>1. SessionTypeOK'
      BY <2>0 DEF Unborn
    <2>2. RequestsSound'
      BY <2>0 DEF RequestsSound, Unborn
    <2>3. Unborn'
      BY <2>0 DEF Unborn, RequestsSound
    <2>4. Plans'
      BY <2>0 DEF Plans, Planned, RequestsSound
    <2>5. Sound'
      BY <2>0 DEF Sound, WriterAlone, Settled, Writers, RequestsSound, Unborn, OnePlace
    <2>6. SessionNeverVanishes'
      BY <2>0 DEF SessionNeverVanishes, Unborn, RequestsSound
    <2>7. OnePlace'
      BY <2>0 DEF OnePlace, Unborn, RequestsSound, Collides, Writers
    <2> QED
      BY <2>1, <2>2, <2>3, <2>4, <2>5, <2>6, <2>7
  <1>13. ASSUME Crash PROVE SessionInv'
    <2> USE <1>13 DEF Crash, SessionTypeOK, Content
    <2>0. Good' = Good
      BY DEF Good, Store!Document, Store!Meta
    <2>1. SessionTypeOK'
      <3>1. crashes' \in 0..MaxCrashes
        OBVIOUS
      <3>2. void' \subseteq Session
        OBVIOUS
      <3> QED
        BY <3>1, <3>2, ZenonT(60)
    <2>2. RequestsSound'
      BY <2>0 DEF RequestsSound, Unborn
    <2>3. Unborn'
      BY <2>0 DEF Unborn, RequestsSound
    <2>4. Plans'
      BY <2>0 DEF Plans, Planned, RequestsSound
    <2>5. Sound'
      BY <2>0 DEF Sound, WriterAlone, Settled, Writers, RequestsSound, Unborn, OnePlace
    <2>6. SessionNeverVanishes'
      BY <2>0 DEF SessionNeverVanishes, Unborn, RequestsSound
    <2>7. OnePlace'
      BY <2>0 DEF OnePlace, Unborn, RequestsSound, Collides, Writers
    <2> QED
      BY <2>1, <2>2, <2>3, <2>4, <2>5, <2>6, <2>7
  <1>14. ASSUME Restart PROVE SessionInv'
    <2> USE <1>14 DEF Restart, SessionTypeOK, Content
    <2>0. Good' = Good
      BY DEF Good, Store!Document, Store!Meta
    <2>1. SessionTypeOK'
      BY <2>0 DEF Unborn
    <2>2. RequestsSound'
      BY <2>0 DEF RequestsSound, Unborn
    <2>3. Unborn'
      BY <2>0 DEF Unborn, RequestsSound
    <2>4. Plans'
      BY <2>0 DEF Plans, Planned, RequestsSound
    <2>5. Sound'
      BY <2>0 DEF Sound, WriterAlone, Settled, Writers, RequestsSound, Unborn, OnePlace
    <2>6. SessionNeverVanishes'
      BY <2>0 DEF SessionNeverVanishes, Unborn, RequestsSound
    <2>7. OnePlace'
      BY <2>0 DEF OnePlace, Unborn, RequestsSound, Collides, Writers
    <2> QED
      BY <2>1, <2>2, <2>3, <2>4, <2>5, <2>6, <2>7
  <1>15. ASSUME UNCHANGED sessionVars PROVE SessionInv'
    <2> USE <1>15 DEF sessionVars
    <2>1. Good' = Good
      BY DEF Good, Store!Document, Store!Meta
    <2> QED
      BY <2>1 DEF SessionTypeOK, Content, RequestsSound, Unborn, Plans, Planned, Sound, WriterAlone, Settled, Writers, SessionNeverVanishes, OnePlace
  <1> QED
    BY <1>1, <1>2, <1>3, <1>4, <1>5, <1>6, <1>7, <1>8, <1>9, <1>10, <1>11, <1>12, <1>13, <1>14, <1>15 DEF SessionNext

-----------------------------------------------------------------------------
LEMMA SessionAlways == SessionSpec => []SessionInv
  BY SessionInitInv, SessionNextInv, PTL DEF SessionSpec

(* The directories and the requests keep their types, for any sessions, threads
   and documents. *)
THEOREM SessionTypes == SessionSpec => []SessionTypeOK
  <1>1. SessionInv => SessionTypeOK
    BY DEF SessionInv
  <1> QED
    BY <1>1, SessionAlways, PTL

(* No interleaving of saves, renames, the cleanup and crashes makes the file of
   a session that has not expired disappear. *)
THEOREM NeverVanishes == SessionSpec => []SessionNeverVanishes
  <1>1. SessionInv => SessionNeverVanishes
    BY DEF SessionInv
  <1> QED
    BY <1>1, SessionAlways, PTL

(* Without a collision archive_session and unarchive_session leave one file. *)
THEOREM StaysInOnePlace == SessionSpec => []OnePlace
  <1>1. SessionInv => OnePlace
    BY DEF SessionInv
  <1> QED
    BY <1>1, SessionAlways, PTL

-----------------------------------------------------------------------------
(* The files implement SessionStore *)

Map == [s \in Session |-> Entry(s)]

LEMMA EntryKept ==
  ASSUME NEW s \in Session,
         active'[s] = active[s], archive'[s] = archive[s],
         s \in void' <=> s \in void, s \in told' <=> s \in told,
         Writers(s)' = Writers(s), \A r \in Writers(s) : next'[r] = next[r]
  PROVE  Entry(s)' = Entry(s)
  <1>1. Writers(s) # {} => (CHOOSE r \in Writers(s) : TRUE) \in Writers(s)
    OBVIOUS
  <1>2. Current(s)' = Current(s)
    BY <1>1 DEF Current
  <1> QED
    BY <1>2 DEF Entry, Exists

LEMMA EntryBefore ==
  ASSUME NEW s \in Session \ told
  PROVE  Entry(s) = IF s \in void THEN VOID ELSE NONE
  BY DEF Entry, Exists

LEMMA EntryWritten ==
  ASSUME NEW s \in Session \ void, Exists(s), WriterAlone(s), NEW r \in Writers(s)
  PROVE  Entry(s) = [archived |-> active[s] = MISSING, doc |-> next[r]]
  <1>1. (CHOOSE q \in Writers(s) : TRUE) = r
    BY DEF WriterAlone
  <1>2. Current(s) = next[r]
    BY <1>1 DEF Current
  <1> QED
    BY <1>2 DEF Entry

LEMMA EntryOnDisk ==
  ASSUME NEW s \in Session \ void, Exists(s), Writers(s) = {}
  PROVE  Entry(s) = [archived |-> active[s] = MISSING,
                     doc |-> IF active[s] # MISSING THEN active[s] ELSE archive[s]]
  BY DEF Entry, Current

LEMMA Stutter ==
  ASSUME era' = era, \A s \in Session : Entry(s)' = Entry(s)
  PROVE  [Store!Next]_<<Map, era>>
  BY DEF Map

LEMMA Changes ==
  ASSUME era' = era, NEW s \in Session, \A q \in Session \ {s} : Entry(q)' = Entry(q),
         NEW e, Entry(s)' = e
  PROVE  Store!Becomes(s, e) /\ Map[s] = Entry(s)
  BY DEF Map, Store!Becomes

LEMMA InitRefines == SessionInit => Store!Init
  BY DEF SessionInit, Store!Init, Entry, Exists

LEMMA Distinct ==
  ASSUME NEW archived \in BOOLEAN, NEW d \in Document,
         NEW e, e = [archived |-> archived, doc |-> d]
  PROVE  e \notin {NONE, VOID} /\ e.archived = archived /\ e.doc = d
  <1>1. e \in [archived : BOOLEAN, doc : Document]
    OBVIOUS
  <1> QED
    BY <1>1, SessionAssumption

\* Storing a document that was planned from the one that is stored.
LEMMA SavedAsPlanned ==
  ASSUME era \in 0..MaxEra, era' = era,
         NEW s \in Session, \A q \in Session \ {s} : Entry(q)' = Entry(q),
         NEW d \in Good, Entry(s) = [archived |-> FALSE, doc |-> d],
         NEW new \in Good, Entry(s)' = [archived |-> FALSE, doc |-> new],
         \/ new.meta # NONE => ~new.meta.cwd
         \/ ~Labelled(d) /\ new = WithLabel(d)
         \/ new = WithCwd(d)
  PROVE  [Store!Next]_<<Map, era>>
  <1> DEFINE e == [archived |-> FALSE, doc |-> d]
  <1>1. d \in Document
    BY GoodDocument
  <1>2. e \notin {NONE, VOID} /\ e.archived = FALSE /\ e.doc = d
    BY <1>1, Distinct
  <1>3. Map[s] = e /\ Store!Becomes(s, [archived |-> FALSE, doc |-> new])
    BY Changes
  <1> HIDE DEF e
  <1>4. Store!Active(s) /\ Map[s].doc = d
    BY <1>2, <1>3 DEF Store!Active, Map
  <1>5. CASE new.meta # NONE => ~new.meta.cwd
    <2>1. Store!Replace(s)
      BY <1>3, <1>4, <1>5 DEF Store!Replace, Store!Stored, Good
    <2> QED
      BY <2>1 DEF Store!Next, Store!Change, Map
  <1>6. CASE ~Labelled(d) /\ new = WithLabel(d) /\ d.meta # NONE
    <2>1. ~d.meta.label /\ new = [d EXCEPT !.meta.label = TRUE]
      BY <1>6 DEF Labelled, WithLabel
    <2>2. Store!Label(s)
      BY <1>3, <1>4, <1>6, <2>1 DEF Store!Label, Store!Stored, Map
    <2> QED
      BY <2>2 DEF Store!Next, Store!Change, Map
  <1>7. CASE new = WithLabel(d) /\ d.meta = NONE
    <2>1. Entry(s)' = Entry(s)
      BY <1>7 DEF WithLabel
    <2> QED
      BY <2>1, Stutter
  <1>8. CASE new = WithCwd(d)
    <2>1. new = [d EXCEPT !.meta = [label |-> d.meta # NONE /\ d.meta.label, cwd |-> TRUE]]
      BY <1>8 DEF WithCwd, Labelled
    <2>2. Store!SetCwd(s)
      BY <1>3, <1>4, <2>1 DEF Store!SetCwd, Store!Stored, Map
    <2> QED
      BY <2>2 DEF Store!Next, Store!Change, Map
  <1> QED
    BY <1>5, <1>6, <1>7, <1>8

LEMMA Moved ==
  ASSUME era' = era,
         NEW s \in Session, \A q \in Session \ {s} : Entry(q)' = Entry(q),
         NEW d \in Document, NEW archived \in BOOLEAN,
         Entry(s) = [archived |-> archived, doc |-> d],
         Entry(s)' = [archived |-> ~archived, doc |-> d]
  PROVE  [Store!Next]_<<Map, era>>
  <1>1. Map[s] = Entry(s) /\ Store!Becomes(s, [archived |-> ~archived, doc |-> d])
    BY Changes
  <1>2. Map[s] \notin {NONE, VOID} /\ Map[s].archived = archived /\ Map[s].doc = d
    BY <1>1, Distinct
  <1>3. Store!Move(s)
    BY <1>1, <1>2 DEF Store!Move, Store!Stored, Map
  <1> QED
    BY <1>3 DEF Store!Next, Store!Change, Map

LEMMA Lost ==
  ASSUME era' = era, NEW lost \in SUBSET Session,
         \A s \in Session : Entry(s)' = IF s \in lost THEN VOID ELSE Entry(s)
  PROVE  [Store!Next]_<<Map, era>>
  <1>1. Store!Void(lost)
    BY DEF Store!Void, Map
  <1> QED
    BY <1>1 DEF Store!Next, Map

\* Reading, checking and leaving change no session.
LEMMA QuietStep ==
  ASSUME era' = era, UNCHANGED <<active, archive, void, told>>,
         \A s \in Session : Writers(s)' = Writers(s) /\ \A r \in Writers(s) : next'[r] = next[r]
  PROVE  [Store!Next]_<<Map, era>>
  BY EntryKept, Stutter

LEMMA OpenRefines ==
  ASSUME SessionInv, NEW r \in Request, Open(r)
  PROVE  [Store!Next]_<<Map, era>>
  <1> USE NoDocument DEF SessionInv, Open, SessionTypeOK
  <1>0. PICK s \in Session : s = on[r]
    BY DEF RequestsSound
  <1> USE <1>0
  <1>1. s \in Session /\ s \in told /\ handle[r] = "none"
    BY DEF RequestsSound
  <1>2. \A q \in Session \ {s} : Entry(q)' = Entry(q)
    <2> SUFFICES ASSUME NEW q \in Session \ {s} PROVE Entry(q)' = Entry(q)
      OBVIOUS
    <2>1. Writers(q)' = Writers(q)
      BY DEF Writers
    <2> QED
      BY <2>1, <1>1, EntryKept
  <1>3. CASE s \in void \/ Collides(r)
    <2>1. Entry(s)' = VOID
      BY <1>1, <1>3 DEF Entry
    <2> QED
      BY <1>1, <1>2, <2>1, Lost, ZenonT(60)
  <1>4. CASE s \notin void /\ ~Collides(r)
    <2>1. active[s] # MISSING
      BY <1>4 DEF Collides
    <2>2. archive[s] = MISSING
      BY <1>1, <1>4, <2>1 DEF OnePlace
    <2>3. Writers(s) = {} /\ Writers(s)' = {r}
      <3>1. \A q \in Request : on[q] = s => handle[q] \notin {"active", "archive"}
        BY <1>4, <2>2 DEF Collides, Writers, RequestsSound
      <3> QED
        BY <1>1, <3>1 DEF Writers
    <2>4. active[s] \in Good
      BY <1>1, <1>4, <2>1, <2>3 DEF Sound, Settled
    <2>5. next[r] \in Good
      BY <1>4, <2>4, GoodDocument, ChangedGood DEF Plans, Planned, Collides
    <2>6. Entry(s) = [archived |-> FALSE, doc |-> active[s]]
      BY <1>1, <1>4, <2>1, <2>3, EntryOnDisk DEF Exists
    <2>7. Entry(s)' = [archived |-> FALSE, doc |-> next[r]]
      <3>1. s \notin void' /\ s \in told' /\ active'[s] = TORN /\ next' = next
        BY <1>1, <1>4
      <3>2. (CHOOSE q \in {r} : TRUE) = r
        OBVIOUS
      <3> QED
        BY <2>3, <3>1, <3>2 DEF Entry, Exists, Current
    <2>8. \/ next[r].meta # NONE => ~next[r].meta.cwd
          \/ ~Labelled(active[s]) /\ next[r] = WithLabel(active[s])
          \/ next[r] = WithCwd(active[s])
      BY <1>4, <2>4, GoodDocument DEF Plans, Planned, Collides
    <2> QED
      BY <1>1, <1>2, <2>4, <2>5, <2>6, <2>7, <2>8, SavedAsPlanned
  <1> QED
    BY <1>3, <1>4

LEMMA FillRefines ==
  ASSUME SessionInv, NEW r \in Request, Fill(r)
  PROVE  [Store!Next]_<<Map, era>>
  <1> USE NoDocument DEF SessionInv, Fill, Finish, SessionTypeOK
  <1>0. PICK s \in Session : s = on[r]
    BY DEF RequestsSound
  <1> USE <1>0
  <1>1. s \in Session /\ s \in created /\ handle[r] # "none" /\ next[r] \in Document
    BY DEF RequestsSound
  <1>2. \A q \in Session \ {s} : Entry(q)' = Entry(q)
    <2> SUFFICES ASSUME NEW q \in Session \ {s} PROVE Entry(q)' = Entry(q)
      OBVIOUS
    <2>1. Writers(q)' = Writers(q) /\ r \notin Writers(q)
      BY SessionAssumption DEF Writers
    <2>2. active'[q] = active[q] /\ archive'[q] = archive[q] /\ \A p \in Writers(q) : next'[p] = next[p]
      BY <2>1 DEF Writers
    <2> QED
      BY <2>1, <2>2, <1>1, EntryKept
  <1>3. CASE s \in void
    <2>1. Entry(s)' = Entry(s)
      BY <1>3 DEF Entry
    <2> QED
      BY <1>2, <2>1, Stutter
  <1>4. CASE s \notin void /\ handle[r] = "gone"
    <2>1. pc[r] = "fill" /\ s \in told
      BY <1>4 DEF RequestsSound
    <2>2. Writers(s)' = Writers(s) /\ r \notin Writers(s)
      BY <1>4, SessionAssumption DEF Writers
    <2>3. Entry(s)' = Entry(s)
      BY <1>1, <1>4, <2>1, <2>2, EntryKept DEF Writers
    <2> QED
      BY <1>2, <2>3, Stutter
  <1>5. CASE s \notin void /\ handle[r] \in {"active", "archive"}
    <2>1. r \in Writers(s) /\ WriterAlone(s)
      BY <1>1, <1>5 DEF Writers, Sound
    <2>2. Writers(s)' = {}
      BY <2>1 DEF WriterAlone, Writers
    <2>3. next[r] \in Good
      BY <2>1 DEF WriterAlone
    <2>4. /\ handle[r] = "active" => active'[s] = next[r] /\ archive'[s] = MISSING /\ active[s] # MISSING
          /\ handle[r] = "archive" => archive'[s] = next[r] /\ active'[s] = MISSING /\ active[s] = MISSING
                                        /\ archive[s] # MISSING
      BY <1>1, <1>5 DEF RequestsSound, OnePlace
    <2>5. s \notin void' /\ Exists(s)'
      BY <1>1, <1>5, <2>4 DEF Exists
    <2>6. Entry(s)' = [archived |-> handle[r] = "archive", doc |-> next[r]]
      BY <1>1, <1>5, <2>2, <2>4, <2>5 DEF Entry, Current
    <2>7. CASE pc[r] = "fill"
      <3>1. Exists(s)
        BY <1>5, <2>4, <2>7 DEF Exists, RequestsSound
      <3>2. Entry(s) = [archived |-> active[s] = MISSING, doc |-> next[r]]
        BY <1>1, <1>5, <2>1, <3>1, EntryWritten
      <3>3. Entry(s)' = Entry(s)
        BY <1>5, <2>4, <2>6, <3>2
      <3> QED
        BY <1>2, <3>3, Stutter
    <2>8. CASE pc[r] = "create"
      <3>1. s \notin told /\ handle[r] = "active"
        BY <2>8 DEF RequestsSound
      <3>2. Entry(s) = NONE
        BY <1>1, <1>5, <3>1, EntryBefore
      <3>3. Map[s] = NONE /\ Store!Becomes(s, [archived |-> FALSE, doc |-> next[r]])
        BY <1>1, <1>2, <2>6, <3>1, <3>2, Changes
      <3>4. Entry(s)' \notin {NONE, VOID} /\ Entry(s)'.archived = FALSE
        BY <1>1, <2>6, <3>1, Distinct, ZenonT(60)
      <3>5. Store!Create(s)
        BY <1>1, <2>3, <3>3, <3>4 DEF Store!Create, Store!Stored, Store!Active, Map, Good
      <3> QED
        BY <1>1, <3>5 DEF Store!Next, Store!Change, Map
    <2> QED
      BY <2>7, <2>8
  <1> QED
    BY <1>1, <1>3, <1>4, <1>5

\* A renamed file takes its writer along.
LEMMA RenameRefines ==
  ASSUME SessionInv, NEW s \in Session, Archive(s) \/ Unarchive(s)
  PROVE  [Store!Next]_<<Map, era>>
  <1> USE NoDocument DEF SessionInv, Archive, Unarchive, HandlesMoved, Served, historyVars, SessionTypeOK, Unborn
  <1>1. \A q \in Session \ {s} : Entry(q)' = Entry(q)
    <2> SUFFICES ASSUME NEW q \in Session \ {s} PROVE Entry(q)' = Entry(q)
      OBVIOUS
    <2>1. Writers(q)' = Writers(q)
      BY DEF Writers
    <2> QED
      BY <2>1, EntryKept
  <1>2. CASE s \in void
    <2>1. Entry(s)' = Entry(s)
      BY <1>2 DEF Entry
    <2> QED
      BY <1>1, <2>1, Stutter
  <1>3. CASE s \notin void
    <2>1. /\ active[s] = MISSING \/ archive[s] = MISSING
          /\ active'[s] = archive[s] /\ archive'[s] = active[s]
          /\ active[s] # MISSING \/ archive[s] # MISSING
      BY <1>3 DEF OnePlace
    <2>2. Writers(s)' = Writers(s)
      <3>1. \A r \in Request : on[r] = s =>
              /\ handle[r] = "active" => active[s] # MISSING
              /\ handle[r] = "archive" => archive[s] # MISSING
        BY DEF RequestsSound
      <3> QED
        BY <2>1, <3>1 DEF Writers
    <2>3. Exists(s) /\ Exists(s)' /\ s \in told /\ s \notin void'
      BY <1>3, <2>1 DEF Exists
    <2>4. Current(s)' = Current(s) /\ Current(s) \in Document
      <3>1. CASE Writers(s) = {}
        <4>1. {active[s], archive[s]} \subseteq Document \cup {MISSING}
          BY <1>3, <2>3, <3>1, GoodDocument DEF Sound, Settled
        <4> QED
          BY <2>1, <2>2, <3>1, <4>1 DEF Current
      <3>2. CASE Writers(s) # {}
        <4>1. (CHOOSE r \in Writers(s) : TRUE) \in Writers(s)
          BY <3>2
        <4>2. next[CHOOSE r \in Writers(s) : TRUE] \in Document
          BY <1>3, <4>1, GoodDocument DEF Sound, WriterAlone
        <4> QED
          BY <2>2, <3>2, <4>2 DEF Current
      <3> QED
        BY <3>1, <3>2
    <2>5. /\ Entry(s) = [archived |-> active[s] = MISSING, doc |-> Current(s)]
          /\ Entry(s)' = [archived |-> active'[s] = MISSING, doc |-> Current(s)']
      BY <1>3, <2>3 DEF Entry
    <2>6. PICK d \in Document, archived \in BOOLEAN : d = Current(s) /\ archived = (active[s] = MISSING)
      BY <2>4
    <2>7. (active'[s] = MISSING) = ~archived
      BY <2>1, <2>6
    <2>8. /\ Entry(s) = [archived |-> archived, doc |-> d]
          /\ Entry(s)' = [archived |-> ~archived, doc |-> d]
      BY <2>4, <2>5, <2>6, <2>7
    <2>9. era' = era
      OBVIOUS
    <2> QED
      BY ONLY <1>1, <2>8, <2>9, Moved
  <1> QED
    BY <1>2, <1>3

LEMMA RemoveRefines ==
  ASSUME SessionInv, CleanupRemove
  PROVE  [Store!Next]_<<Map, era>>
  <1> USE NoDocument DEF SessionInv, CleanupRemove, SessionTypeOK, Unborn
  <1>0. PICK s \in Session : s = doomed
    OBVIOUS
  <1> USE <1>0
  <1>1. \A q \in Session \ {s} : Entry(q)' = Entry(q)
    <2> SUFFICES ASSUME NEW q \in Session \ {s} PROVE Entry(q)' = Entry(q)
      OBVIOUS
    <2>1. Writers(q)' = Writers(q)
      BY DEF Writers
    <2> QED
      BY <2>1, EntryKept
  <1>2. CASE active[s] = MISSING
    <2>1. \A r \in Request : on[r] = s => handle[r] # "active"
      BY <1>2 DEF RequestsSound
    <2>2. Writers(s)' = Writers(s) /\ active'[s] = active[s]
      BY <1>2, <2>1 DEF Writers
    <2>3. Entry(s)' = Entry(s)
      BY <1>2, <2>2, EntryKept
    <2> QED
      BY <1>1, <2>3, Stutter
  <1>3. CASE active[s] # MISSING /\ (s \in void \/ ~IsOld(active[s]))
    <2>1. Entry(s)' = VOID
      BY <1>3 DEF Entry
    <2> QED
      BY <1>1, <2>1, Lost, ZenonT(60)
  <1>4. CASE active[s] # MISSING /\ s \notin void /\ IsOld(active[s])
    <2>1. archive[s] = MISSING /\ active[s] \in Document /\ active[s].born < era
      BY <1>4 DEF OnePlace, IsOld
    <2>2. Writers(s) = {}
      <3>1. \A r \in Writers(s) : handle[r] = "active" /\ active[s] = TORN
        BY <1>4, <2>1 DEF Writers, RequestsSound, Sound, WriterAlone
      <3> QED
        BY <2>1, <3>1
    <2>3. Entry(s) = [archived |-> FALSE, doc |-> active[s]]
      BY <1>4, <2>2, EntryOnDisk DEF Exists
    <2>4. Entry(s)' = NONE
      BY <1>4, <2>1 DEF Entry, Exists
    <2>5. Map[s] = Entry(s) /\ Store!Becomes(s, NONE)
      BY <1>1, <2>4, Changes
    <2>6. Map[s] \notin {NONE, VOID} /\ Map[s].archived = FALSE /\ Map[s].doc = active[s]
      <3>1. Map[s] = [archived |-> FALSE, doc |-> active[s]]
        BY <2>3, <2>5
      <3> HIDE <1>0
      <3> QED
        BY <2>1, <3>1, Distinct
    <2>7. Store!Expire(s)
      BY <2>1, <2>5, <2>6 DEF Store!Expire, Store!Active, Map
    <2> QED
      BY <2>7 DEF Store!Next, Store!Change, Map
  <1> QED
    BY <1>2, <1>3, <1>4

LEMMA CrashRefines ==
  ASSUME SessionInv, Crash
  PROVE  [Store!Next]_<<Map, era>>
  <1> USE SessionAssumption DEF SessionInv, Crash, SessionTypeOK
  <1> DEFINE hit == {s \in Session : Writers(s) # {}}
  <1>1. PICK lost \in SUBSET Session : lost = hit
    OBVIOUS
  <1>2. ASSUME NEW s \in Session PROVE Entry(s)' = IF s \in lost THEN VOID ELSE Entry(s)
    <2>1. CASE s \in lost
      BY <1>1, <2>1 DEF Entry
    <2>2. CASE s \notin lost
      <3>1. Writers(s) = {}
        BY <1>1, <2>2
      <3>2. Writers(s)' = {}
        BY DEF Writers
      <3>3. s \in void' <=> s \in void
        BY <3>1
      <3> QED
        BY <2>2, <3>1, <3>2, <3>3, EntryKept
    <2> QED
      BY <2>1, <2>2
  <1> QED
    BY <1>2, Lost

LEMMA NextRefines ==
  ASSUME SessionInv, [SessionNext]_sessionVars
  PROVE  [Store!Next]_<<Map, era>>
  <1> USE NoDocument DEF requestVars, cleanupVars, historyVars, Served
  <1>1. ASSUME NEW r \in Request, NEW s \in Session, Create(r, s) PROVE [Store!Next]_<<Map, era>>
    <2> USE <1>1 DEF Create, Prepare, SessionInv, SessionTypeOK, Unborn
    <2>1. \A q \in Session \ {s} : Entry(q)' = Entry(q)
      <3> SUFFICES ASSUME NEW q \in Session \ {s} PROVE Entry(q)' = Entry(q)
        OBVIOUS
      <3>1. Writers(q)' = Writers(q) /\ r \notin Writers(q)
        BY DEF Writers, RequestsSound
      <3>2. \A p \in Writers(q) : next'[p] = next[p]
        BY <3>1 DEF Writers
      <3> QED
        BY <3>1, <3>2, EntryKept
    <2>2. Entry(s)' = Entry(s)
      BY DEF Entry, Exists
    <2> QED
      BY <2>1, <2>2, Stutter
  <1>2. ASSUME NEW r \in Request, NEW s \in Session, Put(r, s) \/ LoadForLabel(r, s) \/ LoadForProject(r, s)
        PROVE  [Store!Next]_<<Map, era>>
    <2> USE <1>2 DEF Put, LoadForLabel, LoadForProject, Prepare
    <2>1. handle[r] = "none"
      BY DEF SessionInv, RequestsSound
    <2>2. \A q \in Session : Writers(q)' = Writers(q) /\ r \notin Writers(q)
      BY <2>1 DEF Writers, SessionInv, SessionTypeOK
    <2>3. \A q \in Session : \A p \in Writers(q) : next'[p] = next[p]
      BY <2>2 DEF Writers, SessionInv, SessionTypeOK
    <2> QED
      BY <2>2, <2>3, QuietStep
  <1>3. ASSUME NEW r \in Request, Check(r) PROVE [Store!Next]_<<Map, era>>
    <2> USE <1>3, SessionAssumption DEF Check, Finish
    <2>1. handle[r] = "none"
      BY DEF SessionInv, RequestsSound
    <2>2. \A q \in Session : Writers(q)' = Writers(q) /\ r \notin Writers(q)
      BY <2>1 DEF Writers, SessionInv, SessionTypeOK
    <2>3. \A q \in Session : \A p \in Writers(q) : next'[p] = next[p]
      BY <2>2 DEF Writers, SessionInv, SessionTypeOK
    <2> QED
      BY <2>2, <2>3, QuietStep
  <1>4. ASSUME NEW s \in Session, CleanupRead(s) PROVE [Store!Next]_<<Map, era>>
    BY <1>4, QuietStep DEF CleanupRead, Writers
  <1>5. ASSUME Month PROVE [Store!Next]_<<Map, era>>
    <2>1. \A s \in Session : Entry(s)' = Entry(s)
      BY <1>5, EntryKept DEF Month, Writers
    <2> QED
      BY <1>5, <2>1 DEF Month, Store!Next, Map
  <1>6. ASSUME Restart PROVE [Store!Next]_<<Map, era>>
    BY <1>6, QuietStep DEF Restart, Writers
  <1>7. ASSUME UNCHANGED sessionVars PROVE [Store!Next]_<<Map, era>>
    BY <1>7, QuietStep DEF sessionVars, Writers
  <1> QED
    BY <1>1, <1>2, <1>3, <1>4, <1>5, <1>6, <1>7, OpenRefines, FillRefines, RenameRefines,
       RemoveRefines, CrashRefines DEF SessionNext

(* sessions.rs implements SessionStore: requests on a session that do not
   collide change its one document at once, in any order and beside any
   others, and what a crash or a collision can spoil is only its own session. *)
THEOREM FilesImplementStore == SessionSpec => RequestsAtomic
  <1>1. SessionInv /\ [SessionNext]_sessionVars => [Store!Next]_<<[s \in Session |-> Entry(s)], era>>
    BY NextRefines DEF Map
  <1> QED
    BY <1>1, InitRefines, SessionAlways, PTL DEF SessionSpec, RequestsAtomic, Store!Spec
=============================================================================
