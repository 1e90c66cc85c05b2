---------------------------- MODULE SessionFiles ----------------------------
(***************************************************************************)
(* The agent's session files (server/sessions.rs): one JSON file for each  *)
(* session, in the sessions directory or in its archive, and the requests  *)
(* that create, save, label, move and expire them.                         *)
(*                                                                         *)
(* Requests run in parallel on the server's threads and nothing locks a    *)
(* file.  fs::write opens the file, which empties it, and then writes the  *)
(* document through the open handle; the handle stays with the file when   *)
(* the file is renamed.  A step is one such access to the disk.            *)
(***************************************************************************)
EXTENDS Disk, Naturals, FiniteSets

CONSTANTS
  Session,     \* session ids, each generated once
  Body,        \* the messages of a document
  EMPTY,       \* no messages
  VOID,        \* see SessionStore
  MaxEra,      \* bound on the 30-day periods
  MaxRequests, \* bound on the requests served
  MaxCrashes   \* bound on the crashes

Meta == [label : BOOLEAN, cwd : BOOLEAN] \cup {NONE}

\* Clients send no directory; set_project adds it.
SentMeta == {m \in Meta : m # NONE => ~m.cwd}

\* own: the document carries the id that names its file.
Document == [own : BOOLEAN, body : Body, meta : Meta, born : 0..MaxEra]
Content == Document \cup {MISSING, TORN}

ASSUME SessionAssumption ==
  /\ EMPTY \in Body
  /\ {MaxEra, MaxRequests, MaxCrashes} \subseteq Nat
  /\ MISSING \notin Document \cup {TORN} /\ TORN \notin Document
  /\ NONE \notin Session \cup Content \cup [label : BOOLEAN, cwd : BOOLEAN]
  /\ {NONE, VOID} \cap [archived : BOOLEAN, doc : Document] = {}

VARIABLES
  up,         \* the server runs
  active,     \* active[s]: <s>.json in the sessions directory
  archive,    \* archive[s]: <s>.json in the archive
  pc,         \* pc[r]: where the request stands
  on,         \* on[r]: its session
  seen,       \* seen[r]: the file it made its document from, NONE if it brought its own
  next,       \* next[r]: the document it is about to write
  handle,     \* handle[r]: where the file it has open is now
  sweep,      \* sessions the startup cleanup has yet to look at
  doomed,     \* the session the cleanup found expired and is about to delete
  \* history
  era,        \* 30-day periods that have passed
  created,    \* ids generated
  told,       \* sessions whose creation was acknowledged
  expired,    \* sessions the cleanup has deleted
  void,       \* sessions on which requests collided, or whose write a crash hit
  requests, crashes

requestVars == <<pc, on, seen, next, handle>>
cleanupVars == <<sweep, doomed>>
historyVars == <<era, created, told, expired, void>>
sessionVars == <<up, active, archive, requestVars, cleanupVars, historyVars, requests, crashes>>

(* The two directories, the requests and the cleanup range over what
   sessions.rs reads and writes. *)
SessionTypeOK ==
  /\ up \in BOOLEAN
  /\ active \in [Session -> Content] /\ archive \in [Session -> Content]
  /\ pc \in [Request -> {"idle", "check", "open", "fill", "create"}]
  /\ on \in [Request -> Session \cup {NONE}]
  /\ seen \in [Request -> Content \cup {NONE}]
  /\ next \in [Request -> Document \cup {NONE}]
  /\ handle \in [Request -> {"none", "active", "archive", "gone"}]
  /\ sweep \subseteq Session /\ doomed \in Session \cup {NONE}
  /\ era \in 0..MaxEra
  /\ {created, told, expired, void} \subseteq SUBSET Session
  /\ requests \in 0..MaxRequests /\ crashes \in 0..MaxCrashes

SessionInit ==
  /\ up = TRUE
  /\ active = [s \in Session |-> MISSING] /\ archive = [s \in Session |-> MISSING]
  /\ pc = [r \in Request |-> "idle"]
  /\ on = [r \in Request |-> NONE]
  /\ seen = [r \in Request |-> NONE]
  /\ next = [r \in Request |-> NONE]
  /\ handle = [r \in Request |-> "none"]
  /\ sweep = {} /\ doomed = NONE
  /\ era = 0 /\ created = {} /\ told = {} /\ expired = {} /\ void = {}
  /\ requests = 0 /\ crashes = 0

-----------------------------------------------------------------------------
(* The disk *)

\* Requests with the session's file open, wherever it has been moved to.
Writers(s) == {r \in Request : on[r] = s /\ handle[r] \in {"active", "archive"}}

IsOld(c) == c \in Document /\ c.born < era

\* Open handles go along with a renamed file; what it replaces is gone.
HandlesMoved(s, from) ==
  handle' = [r \in Request |->
               IF on[r] # s \/ handle[r] \in {"none", "gone"} THEN handle[r]
               ELSE IF handle[r] # from THEN "gone"
               ELSE IF from = "active" THEN "archive" ELSE "active"]

-----------------------------------------------------------------------------
(* Requests *)

Served == up /\ requests < MaxRequests /\ requests' = requests + 1

\* A request has read what it needs and will write d.
Prepare(r, s, c, d) ==
  /\ on' = [on EXCEPT ![r] = s]
  /\ seen' = [seen EXCEPT ![r] = c]
  /\ next' = [next EXCEPT ![r] = d]

Finish(r) ==
  /\ pc' = [pc EXCEPT ![r] = "idle"]
  /\ on' = [on EXCEPT ![r] = NONE]
  /\ seen' = [seen EXCEPT ![r] = NONE]
  /\ next' = [next EXCEPT ![r] = NONE]
  /\ handle' = [handle EXCEPT ![r] = "none"]

\* create_session: a new id, and fs::write opens its file.
Create(r, s) ==
  /\ Served /\ pc[r] = "idle" /\ s \notin created
  /\ \E body \in Body, meta \in SentMeta :
       Prepare(r, s, NONE, [own |-> TRUE, body |-> body, meta |-> meta, born |-> era])
  /\ pc' = [pc EXCEPT ![r] = "create"]
  /\ handle' = [handle EXCEPT ![r] = "active"]
  /\ active' = [active EXCEPT ![s] = TORN]
  /\ created' = created \cup {s}
  /\ UNCHANGED <<up, archive, cleanupVars, era, told, expired, void, crashes>>

\* PUT: the client sends a whole document.
Put(r, s) ==
  /\ Served /\ pc[r] = "idle" /\ s \in told
  /\ \E body \in Body, meta \in SentMeta, born \in 0..era :
       Prepare(r, s, NONE, [own |-> TRUE, body |-> body, meta |-> meta, born |-> born])
  /\ pc' = [pc EXCEPT ![r] = "check"]
  /\ UNCHANGED <<up, active, archive, handle, cleanupVars, historyVars, crashes>>

\* A document without metadata is saved again as it is.
WithLabel(d) == IF d.meta = NONE THEN d ELSE [d EXCEPT !.meta.label = TRUE]

Labelled(d) == d.meta # NONE /\ d.meta.label

\* The label is there after the await; the file is read now.
LoadForLabel(r, s) ==
  /\ Served /\ pc[r] = "idle" /\ s \in told
  /\ active[s] \in Document /\ ~Labelled(active[s])
  /\ Prepare(r, s, active[s], WithLabel(active[s]))
  /\ pc' = [pc EXCEPT ![r] = "check"]
  /\ UNCHANGED <<up, active, archive, handle, cleanupVars, historyVars, crashes>>

\* Mutant of WithCwd: fresh metadata replace the old.
WithCwdOnly(d) == [d EXCEPT !.meta = [label |-> FALSE, cwd |-> TRUE]]

WithCwd(d) == [d EXCEPT !.meta = [label |-> Labelled(d), cwd |-> TRUE]]

\* No file, or one that cannot be read: a document of its own, with a new id.
MadeUp == [own |-> FALSE, body |-> EMPTY, meta |-> [label |-> FALSE, cwd |-> FALSE], born |-> era]

LoadForProject(r, s) ==
  /\ Served /\ pc[r] = "idle" /\ s \in told
  /\ Prepare(r, s, active[s], WithCwd(IF active[s] \in Document THEN active[s] ELSE MadeUp))
  /\ pc' = [pc EXCEPT ![r] = "check"]
  /\ UNCHANGED <<up, active, archive, handle, cleanupVars, historyVars, crashes>>

\* update_session gives up if there is no file; the label and set_project do not care.
Check(r) ==
  /\ up /\ pc[r] = "check"
  /\ IF active[on[r]] = MISSING
     THEN Finish(r)
     ELSE /\ pc' = [pc EXCEPT ![r] = "open"]
          /\ UNCHANGED <<on, seen, next, handle>>
  /\ UNCHANGED <<up, active, archive, cleanupVars, historyVars, requests, crashes>>

\* Someone else has the file open, took it away, or changed it since it was read.
Collides(r) ==
  \/ \E q \in Writers(on[r]) : handle[q] = "active"
  \/ active[on[r]] = MISSING
  \/ seen[r] # NONE /\ seen[r] # active[on[r]]

\* fs::write opens the file, which empties it.
Open(r) ==
  /\ up /\ pc[r] = "open"
  /\ void' = IF Collides(r) THEN void \cup {on[r]} ELSE void
  /\ active' = [active EXCEPT ![on[r]] = TORN]
  /\ handle' = [handle EXCEPT ![r] = "active"]
  /\ pc' = [pc EXCEPT ![r] = "fill"]
  /\ UNCHANGED <<up, archive, on, seen, next, cleanupVars, era, created, told, expired,
                 requests, crashes>>

\* The document goes where the file is; over another writer's it may not parse.
Fill(r) ==
  /\ up /\ pc[r] \in {"fill", "create"}
  /\ \E c \in {next[r]} \cup (IF on[r] \in void THEN {TORN} ELSE {}) :
       /\ active' = IF handle[r] = "active" THEN [active EXCEPT ![on[r]] = c] ELSE active
       /\ archive' = IF handle[r] = "archive" THEN [archive EXCEPT ![on[r]] = c] ELSE archive
  /\ told' = told \cup {on[r]}
  /\ Finish(r)
  /\ UNCHANGED <<up, cleanupVars, era, created, expired, void, requests, crashes>>

\* Mutant of Archive: parses the file to rewrite it, and removes it anyway.
ArchiveParsed(s) ==
  /\ Served /\ s \in told /\ active[s] # MISSING
  /\ archive' = [archive EXCEPT ![s] = IF active[s] \in Document THEN active[s] ELSE @]
  /\ active' = [active EXCEPT ![s] = MISSING]
  /\ HandlesMoved(s, "active")
  /\ UNCHANGED <<up, pc, on, seen, next, cleanupVars, historyVars, crashes>>

\* Mutant of Archive: copies the file.
ArchiveCopied(s) ==
  /\ Served /\ s \in told /\ active[s] # MISSING
  /\ archive' = [archive EXCEPT ![s] = active[s]]
  /\ UNCHANGED <<up, active, pc, on, seen, next, handle, cleanupVars, historyVars, crashes>>

\* archive_session: without a file nothing happens.
Archive(s) ==
  /\ Served /\ s \in told /\ active[s] # MISSING
  /\ archive' = [archive EXCEPT ![s] = active[s]]
  /\ active' = [active EXCEPT ![s] = MISSING]
  /\ HandlesMoved(s, "active")
  /\ UNCHANGED <<up, pc, on, seen, next, cleanupVars, historyVars, crashes>>

\* unarchive_session
Unarchive(s) ==
  /\ Served /\ s \in told /\ archive[s] # MISSING
  /\ active' = [active EXCEPT ![s] = archive[s]]
  /\ archive' = [archive EXCEPT ![s] = MISSING]
  /\ HandlesMoved(s, "archive")
  /\ UNCHANGED <<up, pc, on, seen, next, cleanupVars, historyVars, crashes>>

-----------------------------------------------------------------------------
(* The cleanup at startup runs beside the server; files it cannot read stay *)

CleanupRead(s) ==
  /\ up /\ s \in sweep /\ doomed = NONE
  /\ sweep' = sweep \ {s}
  /\ doomed' = IF IsOld(active[s]) THEN s ELSE NONE
  /\ UNCHANGED <<up, active, archive, requestVars, historyVars, requests, crashes>>

CleanupRemove ==
  /\ up /\ doomed # NONE
  /\ doomed' = NONE
  /\ active' = [active EXCEPT ![doomed] = MISSING]
  /\ handle' = [r \in Request |-> IF on[r] = doomed /\ handle[r] = "active"
                                  THEN "gone" ELSE handle[r]]
  /\ expired' = IF active[doomed] = MISSING THEN expired ELSE expired \cup {doomed}
  /\ void' = IF active[doomed] = MISSING \/ IsOld(active[doomed])
             THEN void ELSE void \cup {doomed}
  /\ UNCHANGED <<up, archive, pc, on, seen, next, sweep, era, created, told, requests, crashes>>

-----------------------------------------------------------------------------
(* Time and crashes *)

Month ==
  /\ era < MaxEra
  /\ era' = era + 1
  /\ UNCHANGED <<up, active, archive, requestVars, cleanupVars, created, told, expired, void,
                 requests, crashes>>

\* An open file stays as empty as it was.
Crash ==
  /\ up /\ crashes < MaxCrashes
  /\ up' = FALSE
  /\ crashes' = crashes + 1
  /\ void' = void \cup {s \in Session : Writers(s) # {}}
  /\ pc' = [r \in Request |-> "idle"]
  /\ on' = [r \in Request |-> NONE]
  /\ seen' = [r \in Request |-> NONE]
  /\ next' = [r \in Request |-> NONE]
  /\ handle' = [r \in Request |-> "none"]
  /\ sweep' = {} /\ doomed' = NONE
  /\ UNCHANGED <<active, archive, era, created, told, expired, requests>>

Restart ==
  /\ ~up
  /\ up' = TRUE
  /\ sweep' = {s \in Session : active[s] # MISSING}
  /\ UNCHANGED <<active, archive, requestVars, doomed, historyVars, requests, crashes>>

SessionNext ==
  \/ \E r \in Request :
       \/ Check(r) \/ Open(r) \/ Fill(r)
       \/ \E s \in Session :
            Create(r, s) \/ Put(r, s) \/ LoadForLabel(r, s) \/ LoadForProject(r, s)
  \/ \E s \in Session : Archive(s) \/ Unarchive(s) \/ CleanupRead(s)
  \/ CleanupRemove \/ Month \/ Crash \/ Restart

SessionSpec == SessionInit /\ [][SessionNext]_sessionVars

-----------------------------------------------------------------------------
(* Safety *)

\* Whatever requests, renames, crashes and the cleanup do to each other, a
\* session that has not expired has a file somewhere, if only a torn one.
SessionNeverVanishes ==
  \A s \in created \ expired : active[s] # MISSING \/ archive[s] # MISSING

\* archive_session and unarchive_session rename: only a writer that lost its
\* file to one of them, between the check and fs::write, makes a second copy.
OnePlace == \A s \in Session \ void : active[s] = MISSING \/ archive[s] = MISSING

\* What the file of a session holds, a document being written included.
Current(s) ==
  IF Writers(s) # {} THEN next[CHOOSE r \in Writers(s) : TRUE]
  ELSE IF active[s] # MISSING THEN active[s] ELSE archive[s]

Exists(s) == s \in told /\ (active[s] # MISSING \/ archive[s] # MISSING)

\* What the two directories promise about a session.
Entry(s) ==
  IF s \in void THEN VOID
  ELSE IF Exists(s) THEN [archived |-> active[s] = MISSING, doc |-> Current(s)]
  ELSE NONE

Store == INSTANCE SessionStore WITH store <- [s \in Session |-> Entry(s)]

\* Requests that do not collide are atomic: each acknowledged save, label and
\* directory is in the session's one document, an archived session stays as it
\* is, and only an old document expires, whatever else runs beside.
RequestsAtomic == Store!Spec

-----------------------------------------------------------------------------
(* What a comment says, and the code does not do *)

\* "Session doesn't exist, create new one" (agent_endpoints.rs 215): set_project writes
\* a new, empty document over no session whose file it found.
NewOnlyIfMissing ==
  \A r \in Request : pc[r] = "fill" /\ ~next[r].own => seen[r] = MISSING
=============================================================================
