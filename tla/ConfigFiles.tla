----------------------------- MODULE ConfigFiles -----------------------------
(***************************************************************************)
(* The configuration the server keeps in one JSON object per file: the     *)
(* settings with the models (server/settings.rs, models.rs), the MCP       *)
(* servers (mcp.rs) and the credentials of the logins (oauth_endpoints.rs, *)
(* AuthStorage of the agent library).  Requests run in parallel; a change  *)
(* loads the object, edits it and saves it whole.  Only the credentials    *)
(* have a lock, for each access and not across a change.                   *)
(*                                                                         *)
(* The files part ways over one that does not parse: settings read as the  *)
(* defaults, credentials as none, and the MCP servers as an error.         *)
(***************************************************************************)
EXTENDS Disk, Naturals, FiniteSets

CONSTANTS
  Builtin,      \* models that need no setting
  Custom,       \* models that users add
  DEFAULT,      \* the model of default_settings
  Slug,         \* MCP servers
  Config,       \* their configurations
  Provider,     \* where one can log in
  Login,        \* pending ids, each generated once
  UNSET,        \* a key that is absent
  BLANK,        \* the credentials' file, created and not written yet
  MaxServed,    \* bound on the requests served
  MaxFaults     \* bound on failing writes, crashes and edits from outside

ASSUME ConfigAssumption ==
  /\ DEFAULT \in Builtin
  /\ {MaxServed, MaxFaults} \subseteq Nat
  /\ UNSET \notin Builtin \cup Custom \cup Config \cup Login
  /\ NONE \notin Request \cup Login \cup Provider

VARIABLES
  running,     \* the server runs
  file,        \* file[f]: its content
  locked,      \* the request that holds the lock of the credentials
  step,        \* step[r]: where the request stands
  job,         \* job[r]: what it is to do
  base,        \* base[r]: the content it edits, as it was read
  peeked,      \* peeked[r]: the models it saw before, on which its edit depends
  result,      \* result[r]: what it will save
  pendingOf,   \* pendingOf[l]: the provider of a login that is pending
  \* history
  begun,       \* logins started since the server did
  spent,       \* logins whose code was exchanged: a code is good once
  done,        \* logins acknowledged
  cut,         \* exchanged logins whose request a crash or a failed write ended
  acked,       \* acked[f]: what the acknowledged changes, one after another, make of it;
               \*   no longer kept once two of them collided, or one was cut off
  collided,    \* files on which two changes collided
  harmed,      \* files on which a write was cut off
  wiped,       \* files where a change replaced content it could not read
  served, faults

jobVars == <<step, job, base, peeked, result>>
loginVars == <<pendingOf, begun, spent, done, cut>>
configVars == <<running, file, locked, jobVars, loginVars, acked, collided, harmed, wiped,
                served, faults>>

-----------------------------------------------------------------------------
(* Contents *)

Files == {"settings", "mcp", "auth"}

Settings == [model : Builtin \cup Custom \cup {UNSET}, custom : SUBSET Custom]
Servers == [Slug -> Config \cup {UNSET}]
Credentials == [Provider -> Login \cup {UNSET}]

Object(f) == CASE f = "settings" -> Settings [] f = "mcp" -> Servers [] f = "auth" -> Credentials

\* What a file holds is something, and parses.
ASSUME ContentAssumption ==
  /\ \A f \in Files, c \in {MISSING, BLANK, TORN, NONE} : c \notin Object(f)
  /\ MISSING # TORN /\ MISSING # NONE /\ TORN # NONE /\ BLANK \notin {MISSING, TORN, NONE}

Defaults == [model |-> DEFAULT, custom |-> {}]

\* What a file reads as when there is none.
Empty(f) ==
  CASE f = "settings" -> Defaults
    [] f = "mcp" -> [s \in Slug |-> UNSET]
    [] f = "auth" -> [p \in Provider |-> UNSET]

\* Mutant of Reads: whatever does not parse reads as empty.
ReadsLeniently(f, c) == IF c \in Object(f) THEN c ELSE Empty(f)

\* load_settings, load_mcp_config, AuthStorage::load; an error reads as NONE.
Reads(f, c) ==
  IF c \in Object(f) THEN c ELSE IF c = TORN /\ f = "mcp" THEN NONE ELSE Empty(f)

\* Nothing in a file is as good as no file.
Same(c, d) == c = d \/ {c, d} \subseteq {MISSING, BLANK}

\* Removing a key of the settings leaves it unset; no custom models are none.
Values(f, k) ==
  CASE f = "mcp" -> Config \cup {UNSET}
    [] f = "settings" /\ k = "model" -> Builtin \cup Custom \cup {UNSET}
    [] f = "settings" /\ k = "custom" -> SUBSET Custom

NoJob == [kind |-> "none", file |-> NONE, key |-> NONE, value |-> NONE]
Task(kind, f, k, v) == [kind |-> kind, file |-> f, key |-> k, value |-> v]

ChangeJobs == UNION {UNION {{Task("set", f, k, v) : v \in Values(f, k)} : k \in DOMAIN Empty(f)}
                       : f \in {"settings", "mcp"}}
SaveJobs == UNION {{Task("all", f, NONE, c) : c \in Object(f)} : f \in {"settings", "mcp"}}
ReadJobs == {Task("read", "settings", NONE, NONE)}
ModelJobs == {Task(kind, "settings", "custom", m) : kind \in {"add", "remove"}, m \in Custom}
             \cup {Task("select", "settings", "model", m) : m \in Builtin \cup Custom}
LoginJobs == {Task("login", "auth", p, l) : p \in Provider, l \in Login}

(* The files, their requests and the pending logins range over what the
   stores' functions read and write. *)
ConfigTypeOK ==
  /\ running \in BOOLEAN /\ locked \in Request \cup {NONE}
  /\ \A f \in Files : /\ file[f] \in Object(f) \cup {MISSING, BLANK, TORN}
                       /\ acked[f] \in Object(f) \cup {MISSING}
  /\ job \in [Request -> {NoJob} \cup ChangeJobs \cup SaveJobs \cup ReadJobs \cup ModelJobs \cup LoginJobs]
  /\ step \in [Request -> {"idle", "load", "default", "defaulting", "exchange", "save", "saving"}]
  /\ \A r \in Request :
       /\ (step[r] = "idle") <=> (job[r] = NoJob)
       /\ step[r] \in {"exchange", "save", "saving"} => result[r] \in Object(job[r].file)
  /\ pendingOf \in [Login -> Provider \cup {NONE}]
  /\ begun \subseteq Login /\ spent \subseteq Login /\ done \subseteq Login /\ cut \subseteq Login
  /\ collided \subseteq Files /\ harmed \subseteq Files /\ wiped \subseteq Files
  /\ served \in 0..MaxServed /\ faults \in 0..MaxFaults

ConfigInit ==
  /\ running = TRUE
  /\ file = [f \in Files |-> MISSING]
  /\ locked = NONE
  /\ step = [r \in Request |-> "idle"]
  /\ job = [r \in Request |-> NoJob]
  /\ base = [r \in Request |-> NONE] /\ peeked = [r \in Request |-> NONE]
  /\ result = [r \in Request |-> NONE]
  /\ pendingOf = [l \in Login |-> NONE]
  /\ begun = {} /\ spent = {} /\ done = {} /\ cut = {}
  /\ acked = [f \in Files |-> MISSING]
  /\ collided = {} /\ harmed = {} /\ wiped = {}
  /\ served = 0 /\ faults = 0

-----------------------------------------------------------------------------
(* A request *)

\* Mutant of Answer: the request keeps its job.
AnswerHalf(r) ==
  /\ step' = [step EXCEPT ![r] = "idle"]
  /\ base' = [base EXCEPT ![r] = NONE] /\ peeked' = [peeked EXCEPT ![r] = NONE]
  /\ result' = [result EXCEPT ![r] = NONE]
  /\ UNCHANGED job

Answer(r) ==
  /\ step' = [step EXCEPT ![r] = "idle"]
  /\ job' = [job EXCEPT ![r] = NoJob]
  /\ base' = [base EXCEPT ![r] = NONE] /\ peeked' = [peeked EXCEPT ![r] = NONE]
  /\ result' = [result EXCEPT ![r] = NONE]

\* A request that brings the whole content loads nothing.
Accept(r) ==
  /\ running /\ served < MaxServed /\ step[r] = "idle"
  /\ \E j \in ChangeJobs \cup SaveJobs \cup ReadJobs \cup ModelJobs \cup LoginJobs :
       /\ j.kind = "login" => pendingOf[j.value] = j.key
       /\ job' = [job EXCEPT ![r] = j]
       /\ step' = [step EXCEPT ![r] = IF j.kind = "all" THEN "save" ELSE "load"]
       /\ result' = [result EXCEPT ![r] = IF j.kind = "all" THEN j.value ELSE NONE]
  /\ served' = served + 1
  /\ UNCHANGED <<running, file, locked, base, peeked, loginVars, acked, collided, harmed, wiped,
                 faults>>

Known(c) == Builtin \cup c.custom

\* What the models' functions set, once they have read the settings.
ModelChange(j, c) ==
  CASE j.kind = "add" -> {Task("set", "settings", "custom", c.custom \cup {j.value})}
    [] j.kind = "remove" /\ j.value \in c.custom ->
         {Task("set", "settings", "custom", c.custom \ {j.value})}
    [] j.kind = "select" /\ j.value \in Known(c) -> {Task("set", "settings", "model", j.value)}
    [] OTHER -> {}

\* Nothing is saved by a read, over a file that cannot be read, for a model that is
\* not there, or to remove an MCP server that is not there.
Futile(j, content, change) ==
  \/ content = NONE \/ j.kind = "read"
  \/ j.kind \in {"add", "remove", "select"} /\ change = {}
  \/ content # NONE /\ j.file = "mcp" /\ j.value = UNSET /\ content[j.key] = UNSET

\* Mutant of Proceed: saves an object with the one key it was given.
ProceedAlone(r, raw) ==
  LET j == job[r]
      content == Reads(j.file, raw)
      change == ModelChange(j, content)
  IN \/ Futile(j, content, change) /\ Answer(r)
     \/ /\ j.kind \in {"add", "remove", "select"} /\ change # {}
        /\ job' = [job EXCEPT ![r] = CHOOSE c \in change : TRUE]
        /\ peeked' = [peeked EXCEPT ![r] = raw]
        /\ step' = [step EXCEPT ![r] = "load"]
        /\ UNCHANGED <<base, result>>
     \/ /\ j.kind \in {"set", "login"} /\ ~Futile(j, content, change)
        /\ base' = [base EXCEPT ![r] = raw]
        /\ result' = [result EXCEPT ![r] = [Empty(j.file) EXCEPT ![j.key] = j.value]]
        /\ step' = [step EXCEPT ![r] = IF j.kind = "login" THEN "exchange" ELSE "save"]
        /\ UNCHANGED <<job, peeked>>

\* The request has read raw, which means content.
Proceed(r, raw) ==
  LET j == job[r]
      content == Reads(j.file, raw)
      change == ModelChange(j, content)
  IN \/ Futile(j, content, change) /\ Answer(r)
     \/ /\ j.kind \in {"add", "remove", "select"} /\ change # {}
        /\ job' = [job EXCEPT ![r] = CHOOSE c \in change : TRUE]
        /\ peeked' = [peeked EXCEPT ![r] = raw]
        /\ step' = [step EXCEPT ![r] = "load"]
        /\ UNCHANGED <<base, result>>
     \/ /\ j.kind \in {"set", "login"} /\ ~Futile(j, content, change)
        /\ base' = [base EXCEPT ![r] = raw]
        /\ result' = [result EXCEPT ![r] = [content EXCEPT ![j.key] = j.value]]
        /\ step' = [step EXCEPT ![r] = IF j.kind = "login" THEN "exchange" ELSE "save"]
        /\ UNCHANGED <<job, peeked>>

\* load_settings saves the defaults if there is no file.
Load(r) ==
  /\ running /\ step[r] = "load"
  /\ job[r].file = "auth" => locked = NONE
  /\ IF job[r].file = "settings" /\ file["settings"] = MISSING
     THEN /\ step' = [step EXCEPT ![r] = "default"]
          /\ base' = [base EXCEPT ![r] = MISSING]
          /\ UNCHANGED <<job, peeked, result>>
     ELSE Proceed(r, file[job[r].file])
  /\ UNCHANGED <<running, file, locked, loginVars, acked, collided, harmed, wiped, served, faults>>

Writing(f) == {r \in Request : job[r].file = f /\ step[r] \in {"defaulting", "saving"}}

\* The file is open in another request, or not what the edit started from.
Overlaps(r) ==
  LET f == job[r].file
  IN \/ Writing(f) # {}
     \/ base[r] # NONE /\ ~Same(base[r], file[f])
     \/ peeked[r] = TORN
     \/ /\ peeked[r] # NONE /\ job[r].key = "custom"
        /\ Reads(f, peeked[r]).custom # Reads(f, base[r]).custom

\* AuthStorage::save opens the file, and so creates it, before it takes the lock.
OpenAuth(r) ==
  /\ running /\ step[r] = "save" /\ job[r].file = "auth" /\ file["auth"] = MISSING
  /\ file' = [file EXCEPT !["auth"] = BLANK]
  /\ UNCHANGED <<running, locked, jobVars, loginVars, acked, collided, harmed, wiped, served, faults>>

\* fs::write empties the file; AuthStorage::save does so under the lock.
Truncate(r) ==
  LET f == job[r].file
  IN /\ running /\ step[r] \in {"default", "save"}
     /\ f = "auth" => locked = NONE /\ file["auth"] # MISSING
     /\ locked' = IF f = "auth" THEN r ELSE locked
     /\ file' = [file EXCEPT ![f] = TORN]
     /\ step' = [step EXCEPT ![r] = IF @ = "default" THEN "defaulting" ELSE "saving"]
     /\ collided' = IF Overlaps(r) THEN collided \cup {f} ELSE collided
     /\ wiped' = IF TORN \in {base[r], peeked[r]} THEN wiped \cup {f} ELSE wiped
     /\ UNCHANGED <<running, job, base, peeked, result, loginVars, acked, harmed, served, faults>>

Acknowledge(f, c) ==
  acked' = [acked EXCEPT ![f] = IF f \in collided' \cup harmed' THEN MISSING ELSE c]

\* Over what another request wrote meanwhile, the content may not parse.
Written(f, c) ==
  \E d \in {c} \cup (IF f \in collided \ {"auth"} THEN {TORN} ELSE {}) :
    file' = [file EXCEPT ![f] = d]

SaveDefaults(r) ==
  /\ running /\ step[r] = "defaulting"
  /\ Written("settings", Defaults)
  /\ Proceed(r, Defaults)
  /\ UNCHANGED <<running, locked, loginVars, collided, harmed, wiped, served, faults>>
  /\ Acknowledge("settings", Defaults)

\* The change is acknowledged; a login that is saved is no longer pending.
Save(r) ==
  LET j == job[r]
  IN /\ running /\ step[r] = "saving"
     /\ Written(j.file, result[r])
     /\ locked' = IF j.file = "auth" THEN NONE ELSE locked
     /\ IF j.kind = "login"
        THEN /\ pendingOf' = [pendingOf EXCEPT ![j.value] = NONE]
             /\ done' = done \cup {j.value}
        ELSE UNCHANGED <<pendingOf, done>>
     /\ Answer(r)
     /\ UNCHANGED <<running, begun, spent, cut, collided, harmed, wiped, served, faults>>
     /\ Acknowledge(j.file, IF j.kind = "all" THEN j.value
                            ELSE [Reads(j.file, acked[j.file]) EXCEPT ![j.key] = j.value])

-----------------------------------------------------------------------------
(* Logins *)

StartLogin(l, p) ==
  /\ running /\ l \notin begun /\ l \notin spent
  /\ pendingOf' = [pendingOf EXCEPT ![l] = p]
  /\ begun' = begun \cup {l}
  /\ UNCHANGED <<running, file, locked, jobVars, spent, done, cut, acked, collided, harmed, wiped,
                 served, faults>>

\* Mutant of Exchange: the login stops being pending before it is saved.
ExchangeConsumes(r) ==
  /\ running /\ step[r] = "exchange"
  /\ \/ /\ job[r].value \notin spent
        /\ spent' = spent \cup {job[r].value}
        /\ pendingOf' = [pendingOf EXCEPT ![job[r].value] = NONE]
        /\ step' = [step EXCEPT ![r] = "save"]
        /\ UNCHANGED <<job, base, peeked, result>>
     \/ Answer(r) /\ UNCHANGED <<spent, pendingOf>>
  /\ UNCHANGED <<running, file, locked, begun, done, cut, acked, collided, harmed, wiped, served,
                 faults>>

\* The provider exchanges a code once; an empty code, or a device nobody has
\* approved yet, fails as well.  Whatever fails leaves the login pending.
Exchange(r) ==
  /\ running /\ step[r] = "exchange"
  /\ \/ /\ job[r].value \notin spent
        /\ spent' = spent \cup {job[r].value}
        /\ step' = [step EXCEPT ![r] = "save"]
        /\ UNCHANGED <<job, base, peeked, result>>
     \/ Answer(r) /\ UNCHANGED spent
  /\ UNCHANGED <<running, file, locked, pendingOf, begun, done, cut, acked, collided, harmed, wiped,
                 served, faults>>

-----------------------------------------------------------------------------
(* Failures and edits from outside *)

InHand(r) == IF job[r].kind = "login" /\ step[r] \in {"save", "saving"} THEN {job[r].value} ELSE {}

\* A save fails, before it empties the file (it cannot be opened, its lock is not
\* to be had) or after (the disk is full).  Where the defaults were to be saved,
\* list_models has no custom models then, and a builtin one is selected all the same.
FailSave(r) ==
  LET j == job[r]
      emptied == step[r] \in {"defaulting", "saving"}
      swallowed == step[r] \in {"default", "defaulting"} /\ j.kind = "select" /\ j.value \in Builtin
  IN /\ running /\ faults < MaxFaults
     /\ step[r] \in {"default", "defaulting", "save", "saving"}
     /\ faults' = faults + 1
     /\ harmed' = IF emptied THEN harmed \cup {j.file} ELSE harmed
     /\ cut' = cut \cup InHand(r)
     /\ locked' = IF emptied /\ j.file = "auth" THEN NONE ELSE locked
     /\ \/ ~swallowed /\ Answer(r)
        \/ /\ swallowed
           /\ job' = [job EXCEPT ![r] = Task("set", "settings", "model", j.value)]
           /\ step' = [step EXCEPT ![r] = "load"]
           /\ UNCHANGED <<base, peeked, result>>
     /\ UNCHANGED <<running, file, pendingOf, begun, spent, done, acked, collided, wiped, served>>

\* The lock of the credentials is not to be had for half a minute.
FailLoad(r) ==
  /\ running /\ step[r] = "load" /\ job[r].file = "auth" /\ faults < MaxFaults
  /\ faults' = faults + 1
  /\ Answer(r)
  /\ UNCHANGED <<running, file, locked, loginVars, acked, collided, harmed, wiped, served>>

\* An editor saves the file, perhaps with a typing error.
EditOutside(f) ==
  /\ f # "auth" /\ faults < MaxFaults
  /\ faults' = faults + 1
  /\ collided' = IF Writing(f) # {} THEN collided \cup {f} ELSE collided
  /\ \E c \in Object(f) \cup {TORN} :
       /\ file' = [file EXCEPT ![f] = c]
       /\ harmed' = IF c = TORN THEN harmed \cup {f} ELSE harmed
       /\ Acknowledge(f, c)
  /\ UNCHANGED <<running, locked, jobVars, loginVars, wiped, served>>

\* Pending logins are in memory only.
Kill ==
  /\ running /\ faults < MaxFaults
  /\ running' = FALSE
  /\ faults' = faults + 1
  /\ harmed' = harmed \cup {f \in Files : Writing(f) # {}}
  /\ cut' = cut \cup UNION {InHand(r) : r \in Request}
  /\ locked' = NONE
  /\ step' = [r \in Request |-> "idle"] /\ job' = [r \in Request |-> NoJob]
  /\ base' = [r \in Request |-> NONE] /\ peeked' = [r \in Request |-> NONE]
  /\ result' = [r \in Request |-> NONE]
  /\ pendingOf' = [l \in Login |-> NONE] /\ begun' = {}
  /\ UNCHANGED <<file, spent, done, acked, collided, wiped, served>>

Launch ==
  /\ ~running /\ running' = TRUE
  /\ UNCHANGED <<file, locked, jobVars, loginVars, acked, collided, harmed, wiped, served, faults>>

ConfigNext ==
  \/ \E r \in Request :
       \/ Accept(r) \/ Load(r) \/ OpenAuth(r) \/ Truncate(r) \/ SaveDefaults(r) \/ Save(r)
       \/ Exchange(r) \/ FailSave(r) \/ FailLoad(r)
  \/ \E l \in Login, p \in Provider : StartLogin(l, p)
  \/ \E f \in Files : EditOutside(f)
  \/ Kill \/ Launch

ConfigSpec == ConfigInit /\ [][ConfigNext]_configVars

-----------------------------------------------------------------------------
(* Safety *)

\* Changes that do not collide are atomic: a file that no write was cut off on
\* holds what the acknowledged changes make of it, one after another.
ChangesAtomic ==
  \A f \in Files \ (collided \cup harmed) : Writing(f) = {} => Same(file[f], acked[f])

\* A file that does not parse is replaced by an edit of nothing only where the
\* code says so: never mcp.json; the credentials only after a write of them was
\* cut off, since the lock hides a file that is being written; the settings also
\* when a request reads them while another writes.
NoSilentReset ==
  /\ "mcp" \notin wiped
  /\ "auth" \in wiped => "auth" \in harmed
  /\ "settings" \in wiped => "settings" \in collided \cup harmed

\* A login stays pending until it is saved, however its completion fails, so it
\* can be tried again; a code that was exchanged is in the credentials, or its
\* request has it, or that request was cut off.
LoginAccounted ==
  /\ \A l \in begun : pendingOf[l] # NONE <=> l \notin done
  /\ spent \subseteq done \cup cut \cup UNION {InHand(r) : r \in Request}
=============================================================================
