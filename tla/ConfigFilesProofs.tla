-------------------------- MODULE ConfigFilesProofs --------------------------
(***************************************************************************)
(* The configuration files, for any models, servers, logins and bounds:    *)
(* changes that do not collide are atomic, no file that does not parse is  *)
(* silently replaced, and no login that was exchanged is lost.             *)
(***************************************************************************)
EXTENDS ConfigFiles, TLAPS

Changing == {"set", "add", "remove", "select"}
Editing == {"exchange", "save", "saving"}

\* Requests and files are kept in functions.
Shaped ==
  /\ DOMAIN base = Request /\ DOMAIN peeked = Request /\ DOMAIN result = Request
  /\ DOMAIN file = Files /\ DOMAIN acked = Files

\* What a request has to do at each step, and what it has read for it.
StepSound(r) ==
  /\ step[r] = "idle" => base[r] = NONE /\ peeked[r] = NONE
  /\ step[r] = "load" => job[r].kind \notin {"none", "all"}
  /\ step[r] \in {"default", "defaulting"} =>
       job[r].file = "settings" /\ job[r].kind \in Changing \cup {"read"} /\ base[r] = MISSING
  /\ step[r] = "exchange" => job[r].kind = "login"
  /\ step[r] \in {"save", "saving"} => job[r].kind \in {"set", "all", "login"}
  /\ peeked[r] # NONE => job[r].file = "settings"

\* A request edits what it has read, and that parses if it is of the MCP servers.
EditSound(r) ==
  step[r] \in Editing =>
    \/ /\ job[r].kind = "all" /\ base[r] = NONE /\ peeked[r] = NONE
       /\ result[r] = job[r].value
    \/ /\ job[r].kind # "all"
       /\ base[r] \in Object(job[r].file) \cup {MISSING, BLANK, TORN}
       /\ result[r] = [Reads(job[r].file, base[r]) EXCEPT ![job[r].key] = job[r].value]
       /\ job[r].file = "mcp" => base[r] # TORN

StepsSound == \A r \in Request : StepSound(r)
EditsSound == \A r \in Request : EditSound(r)

\* The lock of the credentials is held while they are written, and hides that
\* they are, so what a request finds torn was cut off.
Held ==
  /\ \A r \in Writing("auth") : locked = r
  /\ locked # NONE => locked \in Writing("auth")

TornHidden == file["auth"] = TORN => locked # NONE \/ "auth" \in harmed

TornRead == \A r \in Request : job[r].file = "auth" /\ base[r] = TORN => "auth" \in harmed

\* Until two changes of a file collide it has one writer, which edits what the
\* acknowledged changes have made of it.
OneWriter ==
  \A f \in Files \ (collided \cup harmed) : \A r \in Writing(f) :
    /\ \A q \in Writing(f) : q = r
    /\ base[r] = NONE \/ Same(base[r], acked[f])

\* A login that is saved was exchanged, and one that is acknowledged too.
Exchanged ==
  /\ done \subseteq spent
  /\ \A r \in Request : InHand(r) \subseteq spent

ConfigInv ==
  /\ ConfigTypeOK /\ Shaped /\ StepsSound /\ EditsSound
  /\ Held /\ TornHidden /\ TornRead /\ OneWriter /\ Exchanged
  /\ ChangesAtomic /\ NoSilentReset /\ LoginAccounted

-----------------------------------------------------------------------------
(* Jobs and contents *)

Jobs == ChangeJobs \cup SaveJobs \cup ReadJobs \cup ModelJobs \cup LoginJobs

LEMMA ChangeJobIs ==
  ASSUME NEW j \in ChangeJobs
  PROVE  /\ j.kind = "set" /\ j.file \in {"settings", "mcp"}
         /\ j.key \in DOMAIN Empty(j.file) /\ j.value \in Values(j.file, j.key)
  BY DEF ChangeJobs, Task

LEMMA LoginJobIs ==
  ASSUME NEW j \in LoginJobs
  PROVE  j.kind = "login" /\ j.file = "auth" /\ j.key \in Provider /\ j.value \in Login
  BY DEF LoginJobs, Task

LEMMA SaveJobIs ==
  ASSUME NEW j \in SaveJobs
  PROVE  j.kind = "all" /\ j.file \in {"settings", "mcp"} /\ j.value \in Object(j.file)
  BY DEF SaveJobs, Task

LEMMA ModelJobIs ==
  ASSUME NEW j \in ModelJobs \cup ReadJobs
  PROVE  /\ j.file = "settings" /\ j.kind \in {"read", "add", "remove", "select"}
         /\ j.kind \in {"add", "remove"} => j.value \in Custom
         /\ j.kind = "select" => j.value \in Builtin \cup Custom
  BY DEF ModelJobs, ReadJobs, Task

LEMMA NoJobIs == NoJob.kind = "none" /\ NoJob.file = NONE /\ NoJob \notin Jobs
  BY ChangeJobIs, LoginJobIs, SaveJobIs, ModelJobIs DEF NoJob, Jobs

\* What the kind of a job says of it.
LEMMA KindIs ==
  ASSUME NEW j \in Jobs
  PROVE  /\ j.file \in Files /\ j.kind \in Changing \cup {"all", "read", "login"}
         /\ j.kind = "set" => j \in ChangeJobs
         /\ j.kind = "all" => j \in SaveJobs
         /\ j.kind \in {"read", "add", "remove", "select"} => j \in ModelJobs \cup ReadJobs
         /\ j.kind = "login" => j \in LoginJobs
         /\ j.kind = "login" <=> j.file = "auth"
  BY ChangeJobIs, LoginJobIs, SaveJobIs, ModelJobIs DEF Jobs, Files, Changing

LEMMA SetJobIs ==
  ASSUME NEW k \in {"model", "custom"}, NEW v \in Values("settings", k)
  PROVE  /\ Task("set", "settings", k, v) \in ChangeJobs
         /\ Task("set", "settings", k, v).kind = "set"
         /\ Task("set", "settings", k, v).file = "settings"
  <1>1. k \in DOMAIN Empty("settings")
    BY DEF Empty, Defaults
  <1> QED
    BY <1>1 DEF ChangeJobs, Task

LEMMA ModelChangeIs ==
  ASSUME NEW j \in ModelJobs, NEW c \in Settings, NEW d \in ModelChange(j, c)
  PROVE  d \in ChangeJobs /\ d.kind = "set" /\ d.file = "settings"
  <1>1. c.custom \cup {j.value} \in Values("settings", "custom")
        \/ j.kind # "add"
    BY ModelJobIs DEF Values, Settings
  <1>2. c.custom \ {j.value} \in Values("settings", "custom")
    BY DEF Values, Settings
  <1>3. j.value \in Values("settings", "model") \/ j.kind # "select"
    BY ModelJobIs DEF Values
  <1> QED
    BY <1>1, <1>2, <1>3, SetJobIs, ModelJobIs DEF ModelChange

LEMMA EmptyIs == \A f \in Files : Empty(f) \in Object(f)
  BY ConfigAssumption DEF Files, Empty, Object, Defaults, Settings, Servers, Credentials

LEMMA ReadsIs ==
  ASSUME NEW f \in Files, NEW c \in Object(f) \cup {MISSING, BLANK, TORN}
  PROVE  /\ Reads(f, c) \in Object(f) \cup {NONE}
         /\ Reads(f, c) = NONE <=> f = "mcp" /\ c = TORN
         /\ c \in Object(f) => Reads(f, c) = c
  BY EmptyIs, ContentAssumption DEF Reads

\* No file reads as one with nothing in it does.
LEMMA SameReads ==
  ASSUME NEW f \in Files, NEW c, NEW d, Same(c, d)
  PROVE  Reads(f, c) = Reads(f, d)
  BY ContentAssumption DEF Same, Reads

LEMMA EditIs ==
  ASSUME NEW j \in ChangeJobs \cup LoginJobs, NEW c \in Object(j.file)
  PROVE  [c EXCEPT ![j.key] = j.value] \in Object(j.file)
  <1>1. CASE j.file = "settings"
    <2>1. c \in Settings /\ j \in ChangeJobs
      BY <1>1, LoginJobIs DEF Object
    <2>2. j.key \in {"model", "custom"} /\ j.value \in Values("settings", j.key)
      BY <1>1, <2>1, ChangeJobIs DEF Empty, Defaults
    <2>3. CASE j.key = "model"
      BY <1>1, <2>1, <2>2, <2>3 DEF Object, Settings, Values
    <2>4. CASE j.key = "custom"
      BY <1>1, <2>1, <2>2, <2>4 DEF Object, Settings, Values
    <2> QED
      BY <2>2, <2>3, <2>4
  <1>2. CASE j.file = "mcp"
    <2>1. c \in Servers /\ j \in ChangeJobs
      BY <1>2, LoginJobIs DEF Object
    <2>2. j.key \in Slug /\ j.value \in Config \cup {UNSET}
      BY <1>2, <2>1, ChangeJobIs DEF Empty, Values
    <2> QED
      BY <1>2, <2>1, <2>2 DEF Object, Servers
  <1>3. CASE j.file = "auth"
    <2>1. c \in Credentials /\ j.key \in Provider /\ j.value \in Login
      BY <1>3, LoginJobIs, ChangeJobIs DEF Object
    <2> QED
      BY <1>3, <2>1 DEF Object, Credentials
  <1> QED
    BY <1>1, <1>2, <1>3, ChangeJobIs, LoginJobIs

-----------------------------------------------------------------------------
(* What a request does with what it has read *)

Others(r) ==
  \A q \in Request \ {r} :
    /\ step'[q] = step[q] /\ job'[q] = job[q] /\ base'[q] = base[q]
    /\ peeked'[q] = peeked[q] /\ result'[q] = result[q]

Kept ==
  /\ job' \in [Request -> {NoJob} \cup Jobs]
  /\ step' \in [Request -> {"idle", "load", "default", "defaulting", "exchange", "save", "saving"}]
  /\ DOMAIN base' = Request /\ DOMAIN peeked' = Request /\ DOMAIN result' = Request

Finished(r) ==
  step'[r] = "idle" /\ job'[r] = NoJob /\ base'[r] = NONE /\ peeked'[r] = NONE /\ result'[r] = NONE

TurnedToSet(r, raw) ==
  /\ job[r].file = "settings"
  /\ job'[r] \in ChangeJobs /\ job'[r].kind = "set" /\ job'[r].file = "settings"
  /\ step'[r] = "load" /\ peeked'[r] = raw /\ base'[r] = base[r] /\ result'[r] = result[r]

Edited(r, raw) ==
  /\ job'[r] = job[r] /\ job[r] \in ChangeJobs \cup LoginJobs /\ base'[r] = raw
  /\ peeked'[r] = peeked[r]
  /\ result'[r] = [Reads(job[r].file, raw) EXCEPT ![job[r].key] = job[r].value]
  /\ result'[r] \in Object(job[r].file)
  /\ job[r].file = "mcp" => raw # TORN
  /\ step'[r] = IF job[r].kind = "login" THEN "exchange" ELSE "save"

LEMMA AnswerIs ==
  ASSUME ConfigTypeOK, Shaped, NEW r \in Request, Answer(r)
  PROVE  Others(r) /\ Kept /\ Finished(r)
  BY DEF ConfigTypeOK, Shaped, Answer, Others, Kept, Finished, Jobs

LEMMA ProceedIs ==
  ASSUME ConfigTypeOK, Shaped, NEW r \in Request, step[r] # "idle",
         NEW raw \in Object(job[r].file) \cup {MISSING, BLANK, TORN}, Proceed(r, raw)
  PROVE  Others(r) /\ Kept /\ (Finished(r) \/ TurnedToSet(r, raw) \/ Edited(r, raw))
  <1> DEFINE j == job[r]
             content == Reads(j.file, raw)
             change == ModelChange(j, content)
  <1>1. j \in Jobs /\ j.file \in Files
    BY KindIs DEF ConfigTypeOK, Jobs
  <1>2. CASE Answer(r)
    BY <1>2, AnswerIs
  <1>3. CASE /\ j.kind \in {"add", "remove", "select"} /\ change # {}
             /\ job' = [job EXCEPT ![r] = CHOOSE c \in change : TRUE]
             /\ peeked' = [peeked EXCEPT ![r] = raw]
             /\ step' = [step EXCEPT ![r] = "load"]
             /\ UNCHANGED <<base, result>>
    <2>1. j \in ModelJobs /\ j.file = "settings"
      BY <1>1, <1>3, KindIs, ModelJobIs DEF ReadJobs, Task
    <2>2. content \in Settings
      BY <1>1, <2>1, ReadsIs DEF Object
    <2>3. (CHOOSE c \in change : TRUE) \in change
      BY <1>3
    <2> HIDE DEF change, content
    <2>4. job'[r] \in change
      BY <1>3, <2>3 DEF ConfigTypeOK
    <2>5. job'[r] \in ChangeJobs /\ job'[r].kind = "set" /\ job'[r].file = "settings"
      BY <2>1, <2>2, <2>4, ModelChangeIs DEF change
    <2> QED
      BY <1>3, <2>1, <2>5 DEF Others, Kept, TurnedToSet, ConfigTypeOK, Shaped, Jobs
  <1>4. CASE /\ j.kind \in {"set", "login"} /\ ~Futile(j, content, change)
             /\ base' = [base EXCEPT ![r] = raw]
             /\ result' = [result EXCEPT ![r] = [content EXCEPT ![j.key] = j.value]]
             /\ step' = [step EXCEPT ![r] = IF j.kind = "login" THEN "exchange" ELSE "save"]
             /\ UNCHANGED <<job, peeked>>
    <2>1. j \in ChangeJobs \cup LoginJobs
      BY <1>1, <1>4, KindIs
    <2>2. content # NONE
      BY <1>4 DEF Futile
    <2>3. content \in Object(j.file) /\ (j.file = "mcp" => raw # TORN)
      BY <1>1, <2>2, ReadsIs
    <2>4. [content EXCEPT ![j.key] = j.value] \in Object(j.file)
      BY <2>1, <2>3, EditIs
    <2> QED
      BY <1>4, <2>1, <2>3, <2>4 DEF Others, Kept, Edited, ConfigTypeOK, Shaped, Jobs
  <1> QED
    BY <1>2, <1>3, <1>4 DEF Proceed


-----------------------------------------------------------------------------
(* The invariant *)

LEMMA ConfigInitInv == ConfigInit => ConfigInv
  <1> SUFFICES ASSUME ConfigInit PROVE ConfigInv
    OBVIOUS
  <1> USE ConfigAssumption, ContentAssumption DEF ConfigInit
  <1>1. ConfigTypeOK /\ Shaped
    BY DEF ConfigTypeOK, Shaped
  <1>2. StepsSound /\ EditsSound
    BY DEF StepsSound, EditsSound, StepSound, EditSound, Editing
  <1>3. Held /\ TornHidden /\ TornRead /\ OneWriter
    BY NoJobIs DEF Held, TornHidden, TornRead, OneWriter, Writing, Files
  <1>4. Exchanged /\ LoginAccounted
    BY NoJobIs DEF Exchanged, InHand, LoginAccounted
  <1>5. ChangesAtomic /\ NoSilentReset
    BY DEF ChangesAtomic, Same, NoSilentReset
  <1> QED
    BY <1>1, <1>2, <1>3, <1>4, <1>5 DEF ConfigInv

LEMMA ConfigNextInv == ConfigInv /\ [ConfigNext]_configVars => ConfigInv'
  <1> SUFFICES ASSUME ConfigInv, [ConfigNext]_configVars PROVE ConfigInv'
    OBVIOUS
  <1> USE ConfigAssumption, ContentAssumption DEF ConfigInv, jobVars, loginVars
  <1>1. ASSUME NEW r \in Request, Accept(r) PROVE ConfigInv'
    <2>1. PICK j \in Jobs :
          /\ j.kind = "login" => pendingOf[j.value] = j.key
          /\ job' = [job EXCEPT ![r] = j]
          /\ step' = [step EXCEPT ![r] = IF j.kind = "all" THEN "save" ELSE "load"]
          /\ result' = [result EXCEPT ![r] = IF j.kind = "all" THEN j.value ELSE NONE]
      BY <1>1 DEF Accept, Jobs
    <2>2. /\ running /\ served < MaxServed /\ step[r] = "idle" /\ served' = served + 1
          /\ UNCHANGED <<running, file, locked, base, peeked, loginVars, acked, collided, harmed, wiped,
                         faults>>
      BY <1>1 DEF Accept
    <2>3. Others(r) /\ Kept
      BY <2>1, <2>2 DEF Others, Kept, ConfigTypeOK, Shaped, Jobs
    <2>4. /\ job[r] = NoJob /\ job'[r] = j /\ step'[r] = (IF j.kind = "all" THEN "save" ELSE "load")
          /\ base'[r] = NONE /\ peeked'[r] = NONE
          /\ result'[r] = (IF j.kind = "all" THEN j.value ELSE NONE)
      BY <2>1, <2>2 DEF ConfigTypeOK, Shaped, StepsSound, StepSound
    <2>5. j.kind = "all" => j.value \in Object(j.file) /\ j.file # "auth"
      BY KindIs, SaveJobIs
    <2>6. \A f \in Files : Writing(f)' = Writing(f)
      BY <2>2, <2>3, <2>4 DEF Writing, Others
    <2>7. ConfigTypeOK'
      BY <2>1, <2>2, <2>3, <2>4, <2>5, <2>6, KindIs, NoJobIs DEF ConfigTypeOK, Kept, Others, Jobs,
         Editing, Finished, TurnedToSet, Edited, StepsSound, EditsSound, StepSound, EditSound
    <2>8. Shaped'
      BY <2>1, <2>2, <2>3, <2>4, <2>5, <2>6 DEF Shaped, Kept
    <2>9. StepsSound'
      <3>1. ASSUME NEW q \in Request \ {r} PROVE StepSound(q)'
        BY <3>1, <2>1, <2>2, <2>3, <2>4, <2>5, <2>6 DEF StepsSound, StepSound, Others
      <3>2. StepSound(r)'
        BY <2>1, <2>2, <2>3, <2>4, <2>5, <2>6, KindIs, NoJobIs DEF StepSound, Finished, TurnedToSet,
           Edited, Changing, ConfigTypeOK, StepsSound
      <3> QED
        BY <3>1, <3>2 DEF StepsSound
    <2>10. EditsSound'
      <3>1. ASSUME NEW q \in Request \ {r} PROVE EditSound(q)'
        BY <3>1, <2>1, <2>2, <2>3, <2>4, <2>5, <2>6 DEF EditsSound, EditSound, Others
      <3>2. EditSound(r)'
        BY <2>1, <2>2, <2>3, <2>4, <2>5, <2>6, NoJobIs DEF EditSound, Editing, Finished, TurnedToSet,
           Edited, StepSound, StepsSound, EditsSound
      <3> QED
        BY <3>1, <3>2 DEF EditsSound
    <2>11. Held'
      BY <2>1, <2>2, <2>3, <2>4, <2>5, <2>6 DEF Held, Files, ConfigTypeOK
    <2>12. TornHidden'
      BY <2>1, <2>2, <2>3, <2>4, <2>5, <2>6 DEF TornHidden, Held, Files
    <2>13. TornRead'
      BY <2>1, <2>2, <2>3, <2>4, <2>5, <2>6, NoJobIs, KindIs DEF TornRead, TornHidden, Others,
         Finished, TurnedToSet, Edited, StepsSound, StepSound
    <2>14. OneWriter'
      BY <2>1, <2>2, <2>3, <2>4, <2>5, <2>6 DEF OneWriter, Others, ChangesAtomic, Overlaps,
         Acknowledge
    <2>15. Exchanged'
      BY <2>1, <2>2, <2>3, <2>4, <2>5, <2>6, NoJobIs, ChangeJobIs DEF Exchanged, InHand, Others,
         Finished, TurnedToSet, Edited, ConfigTypeOK
    <2>16. ChangesAtomic'
      BY <2>1, <2>2, <2>3, <2>4, <2>5, <2>6 DEF ChangesAtomic, OneWriter, Acknowledge, Written
    <2>17. NoSilentReset'
      BY <2>1, <2>2, <2>3, <2>4, <2>5, <2>6 DEF NoSilentReset, StepsSound, EditsSound, StepSound,
         EditSound, TornRead, Writing, Files, Overlaps, ChangesAtomic
    <2>18. LoginAccounted'
      BY <2>1, <2>2, <2>3, <2>4, <2>5, <2>6, NoJobIs, ChangeJobIs DEF LoginAccounted, Exchanged,
         InHand, Others, Finished, TurnedToSet, Edited, ConfigTypeOK
    <2> QED
      BY <2>7, <2>8, <2>9, <2>10, <2>11, <2>12, <2>13, <2>14, <2>15, <2>16, <2>17, <2>18
  <1>2. ASSUME NEW r \in Request, Load(r) PROVE ConfigInv'
    <2>1. /\ running /\ step[r] = "load" /\ (job[r].file = "auth" => locked = NONE)
          /\ UNCHANGED <<running, file, locked, loginVars, acked, collided, harmed, wiped, served, faults>>
      BY <1>2 DEF Load
    <2>2. job[r] \in Jobs /\ job[r].file \in Files /\ file[job[r].file] \in Object(job[r].file) \cup {MISSING, BLANK, TORN}
      BY <2>1, KindIs DEF ConfigTypeOK, Jobs
    <2>3. Others(r) /\ Kept
          /\ \/ Finished(r) \/ TurnedToSet(r, file["settings"]) \/ Edited(r, file[job[r].file])
             \/ /\ job[r].file = "settings" /\ step'[r] = "default" /\ base'[r] = MISSING
                /\ job'[r] = job[r] /\ peeked'[r] = peeked[r] /\ result'[r] = result[r]
      <3>1. CASE Proceed(r, file[job[r].file])
        BY <2>1, <2>2, <3>1, ProceedIs DEF TurnedToSet
      <3>2. CASE /\ job[r].file = "settings" /\ step' = [step EXCEPT ![r] = "default"]
                 /\ base' = [base EXCEPT ![r] = MISSING] /\ UNCHANGED <<job, peeked, result>>
        BY <2>1, <3>2 DEF Others, Kept, ConfigTypeOK, Shaped, Jobs
      <3> QED
        BY <1>2, <3>1, <3>2 DEF Load
    <2>4. \A f \in Files : Writing(f)' = Writing(f)
      BY <2>1, <2>3 DEF Writing, Others, Finished, TurnedToSet, Edited
    <2>5. ConfigTypeOK'
      BY <2>1, <2>2, <2>3, <2>4, KindIs, NoJobIs DEF ConfigTypeOK, Kept, Others, Jobs, Editing,
         Finished, TurnedToSet, Edited, StepsSound, EditsSound, StepSound, EditSound
    <2>6. Shaped'
      BY <2>1, <2>2, <2>3, <2>4 DEF Shaped, Kept
    <2>7. StepsSound'
      <3>1. ASSUME NEW q \in Request \ {r} PROVE StepSound(q)'
        BY <3>1, <2>3 DEF StepsSound, StepSound, Others
      <3>2. ASSUME Finished(r)
            PROVE  StepSound(r)'
        BY <3>2, NoJobIs DEF StepSound, StepsSound, Finished, TurnedToSet, Edited, Changing
      <3>3. ASSUME TurnedToSet(r, file["settings"])
            PROVE  StepSound(r)'
        BY <3>3, <2>1 DEF StepSound, StepsSound, Finished, TurnedToSet, Edited, Changing
      <3>4. ASSUME Edited(r, file[job[r].file])
            PROVE  StepSound(r)'
        BY <3>4, <2>1, ChangeJobIs, LoginJobIs DEF StepSound, StepsSound, Finished, TurnedToSet,
           Edited, Changing
      <3>5. ASSUME step'[r] = "default" /\ job'[r] = job[r] /\ peeked'[r] = peeked[r] /\ base'[r] = MISSING
                 /\ job[r].file = "settings"
            PROVE  StepSound(r)'
        BY <3>5, <2>1, <2>2, KindIs, LoginJobIs DEF StepSound, StepsSound, Finished, TurnedToSet,
           Edited, Changing
      <3> QED
        BY <3>1, <3>2, <3>3, <3>4, <3>5, <2>3 DEF StepsSound, Others
    <2>8. EditsSound'
      <3>1. ASSUME NEW q \in Request \ {r} PROVE EditSound(q)'
        BY <3>1, <2>1, <2>2, <2>3, <2>4 DEF EditsSound, EditSound, Others
      <3>2. EditSound(r)'
        BY <2>1, <2>2, <2>3, <2>4, NoJobIs DEF EditSound, Editing, Finished, TurnedToSet, Edited,
           StepSound, StepsSound, EditsSound
      <3> QED
        BY <3>1, <3>2 DEF EditsSound
    <2>9. Held'
      BY <2>1, <2>2, <2>3, <2>4 DEF Held, Files, ConfigTypeOK
    <2>10. TornHidden'
      BY <2>1, <2>2, <2>3, <2>4 DEF TornHidden, Held, Files
    <2>11. TornRead'
      BY <2>1, <2>2, <2>3, <2>4, NoJobIs, KindIs DEF TornRead, TornHidden, Others, Finished,
         TurnedToSet, Edited, StepsSound, StepSound
    <2>12. OneWriter'
      <3>1. ASSUME NEW f \in Files, f \notin collided' \cup harmed', NEW q \in Writing(f)'
            PROVE  q \in Writing(f) /\ base'[q] = base[q] /\ acked'[f] = acked[f] /\ f \notin collided \cup harmed
        BY <3>1, <2>1, <2>3, <2>4 DEF Others, Writing
      <3>2. ASSUME NEW f \in Files, f \notin collided' \cup harmed' PROVE Writing(f)' \subseteq Writing(f)
        BY <3>2, <3>1
      <3> QED
        BY <3>1, <3>2 DEF OneWriter
    <2>13. Exchanged'
      BY <2>1, <2>2, <2>3, <2>4, NoJobIs, ChangeJobIs DEF Exchanged, InHand, Others, Finished,
         TurnedToSet, Edited, ConfigTypeOK
    <2>14. ChangesAtomic'
      BY <2>1, <2>2, <2>3, <2>4 DEF ChangesAtomic, OneWriter, Acknowledge, Written
    <2>15. NoSilentReset'
      BY <2>1, <2>2, <2>3, <2>4 DEF NoSilentReset, StepsSound, EditsSound, StepSound, EditSound,
         TornRead, Writing, Files, Overlaps, ChangesAtomic
    <2>16. LoginAccounted'
      BY <2>1, <2>2, <2>3, <2>4, NoJobIs, ChangeJobIs DEF LoginAccounted, Exchanged, InHand, Others,
         Finished, TurnedToSet, Edited, ConfigTypeOK
    <2> QED
      BY <2>5, <2>6, <2>7, <2>8, <2>9, <2>10, <2>11, <2>12, <2>13, <2>14, <2>15, <2>16
  <1>3. ASSUME NEW r \in Request, Truncate(r) PROVE ConfigInv'
    <2>1. /\ running /\ step[r] \in {"default", "save"} /\ (job[r].file = "auth" => locked = NONE)
          /\ locked' = (IF job[r].file = "auth" THEN r ELSE locked)
          /\ file' = [file EXCEPT ![job[r].file] = TORN]
          /\ step' = [step EXCEPT ![r] = IF @ = "default" THEN "defaulting" ELSE "saving"]
          /\ collided' = (IF Overlaps(r) THEN collided \cup {job[r].file} ELSE collided)
          /\ wiped' = (IF TORN \in {base[r], peeked[r]} THEN wiped \cup {job[r].file} ELSE wiped)
          /\ UNCHANGED <<running, job, base, peeked, result, loginVars, acked, harmed, served, faults>>
      BY <1>3 DEF Truncate
    <2>2. job[r] \in Jobs /\ job[r].file \in Files
      BY <2>1, KindIs DEF ConfigTypeOK, Jobs
    <2>3. Others(r) /\ Kept
      BY <2>1 DEF Others, Kept, ConfigTypeOK, Shaped, Jobs
    <2>4. /\ step'[r] = (IF step[r] = "default" THEN "defaulting" ELSE "saving") /\ job'[r] = job[r]
          /\ base'[r] = base[r] /\ peeked'[r] = peeked[r] /\ result'[r] = result[r]
      BY <2>1 DEF ConfigTypeOK
    <2>5. \A f \in Files : Writing(f)' = IF f = job[r].file THEN Writing(f) \cup {r} ELSE Writing(f)
      BY <2>1, <2>3, <2>4 DEF Writing, Others
    <2>6. \A f \in Files : file'[f] = IF f = job[r].file THEN TORN ELSE file[f]
      BY <2>1, <2>2 DEF Shaped
    <2>7. ConfigTypeOK'
      BY <2>1, <2>2, <2>3, <2>4, <2>5, <2>6, KindIs, NoJobIs DEF ConfigTypeOK, Kept, Others, Jobs,
         Editing, Finished, TurnedToSet, Edited, StepsSound, EditsSound, StepSound, EditSound
    <2>8. Shaped'
      BY <2>1, <2>2, <2>3, <2>4, <2>5, <2>6 DEF Shaped, Kept
    <2>9. StepsSound'
      <3>1. ASSUME NEW q \in Request \ {r} PROVE StepSound(q)'
        BY <3>1, <2>1, <2>2, <2>3, <2>4, <2>5, <2>6 DEF StepsSound, StepSound, Others
      <3>2. StepSound(r)'
        BY <2>1, <2>2, <2>3, <2>4, <2>5, <2>6, KindIs, NoJobIs DEF StepSound, Finished, TurnedToSet,
           Edited, Changing, ConfigTypeOK, StepsSound
      <3> QED
        BY <3>1, <3>2 DEF StepsSound
    <2>10. EditsSound'
      <3>1. ASSUME NEW q \in Request \ {r} PROVE EditSound(q)'
        BY <3>1, <2>1, <2>2, <2>3, <2>4, <2>5, <2>6 DEF EditsSound, EditSound, Others
      <3>2. EditSound(r)'
        BY <2>1, <2>2, <2>3, <2>4, <2>5, <2>6, NoJobIs DEF EditSound, Editing, Finished, TurnedToSet,
           Edited, StepSound, StepsSound, EditsSound
      <3> QED
        BY <3>1, <3>2 DEF EditsSound
    <2>11. Held'
      <3>1. CASE job[r].file = "auth"
        <4>1. locked = NONE /\ locked' = r /\ Writing("auth") = {}
          BY <2>1, <3>1 DEF Held, Writing
        <4> QED
          BY <2>2, <2>5, <3>1, <4>1 DEF Held
      <3>2. CASE job[r].file # "auth"
        BY <2>1, <2>5, <3>2 DEF Held, Files
      <3> QED
        BY <3>1, <3>2
    <2>12. TornHidden'
      BY <2>1, <2>2, <2>3, <2>4, <2>5, <2>6 DEF TornHidden, Held, Files
    <2>13. TornRead'
      BY <2>1, <2>2, <2>3, <2>4, <2>5, <2>6, NoJobIs, KindIs DEF TornRead, TornHidden, Others,
         Finished, TurnedToSet, Edited, StepsSound, StepSound
    <2>14. OneWriter'
      <3>0. PICK f \in Files : f = job[r].file
        BY <2>2
      <3>1. ASSUME f \notin collided' \cup harmed'
            PROVE  /\ Writing(f)' = {r}
                   /\ base'[r] = NONE \/ Same(base'[r], acked'[f])
        <4>1. f \notin collided \cup harmed /\ ~Overlaps(r)
          BY <3>0, <3>1, <2>1
        <4>2. Writing(f) = {} /\ (base[r] = NONE \/ Same(base[r], file[f]))
          BY <3>0, <4>1 DEF Overlaps
        <4>3. Same(file[f], acked[f])
          BY <4>1, <4>2, <2>2 DEF ChangesAtomic
        <4>4. base[r] = NONE \/ Same(base[r], acked[f])
          BY <4>2, <4>3 DEF Same
        <4> QED
          BY <3>0, <4>2, <4>4, <2>1, <2>2, <2>4, <2>5
      <3>2. ASSUME NEW g \in Files \ {f}, g \notin collided' \cup harmed', NEW p \in Writing(g)'
            PROVE  /\ \A q \in Writing(g)' : q = p
                   /\ base'[p] = NONE \/ Same(base'[p], acked'[g])
        <4>1. g \notin collided \cup harmed /\ Writing(g)' = Writing(g)
          BY <3>0, <3>2, <2>1, <2>5
        <4> QED
          BY <3>2, <4>1, <2>1 DEF OneWriter
      <3> QED
        BY <3>1, <3>2 DEF OneWriter
    <2>15. Exchanged'
      BY <2>1, <2>2, <2>3, <2>4, <2>5, <2>6, NoJobIs, ChangeJobIs DEF Exchanged, InHand, Others,
         Finished, TurnedToSet, Edited, ConfigTypeOK
    <2>16. ChangesAtomic'
      BY <2>1, <2>2, <2>3, <2>4, <2>5, <2>6 DEF ChangesAtomic, OneWriter, Acknowledge, Written
    <2>17. NoSilentReset'
      <3>1. job[r].file = "mcp" => TORN \notin {base[r], peeked[r]}
        BY <2>1 DEF EditsSound, EditSound, Editing, StepsSound, StepSound
      <3>2. job[r].file = "auth" /\ TORN \in {base[r], peeked[r]} => "auth" \in harmed
        BY <2>1 DEF TornRead, StepsSound, StepSound
      <3>3. ASSUME job[r].file = "settings", TORN \in {base[r], peeked[r]}, ~Overlaps(r)
            PROVE  "settings" \in collided \cup harmed
        <4>1. base[r] = TORN /\ file["settings"] = TORN /\ Writing("settings") = {}
          BY <3>3 DEF Overlaps, Same
        <4> QED
          BY <2>2, <3>3, <4>1 DEF ChangesAtomic, ConfigTypeOK, Same
      <3> QED
        BY <2>1, <2>2, <3>1, <3>2, <3>3 DEF NoSilentReset, Files
    <2>18. LoginAccounted'
      BY <2>1, <2>2, <2>3, <2>4, <2>5, <2>6, NoJobIs, ChangeJobIs DEF LoginAccounted, Exchanged,
         InHand, Others, Finished, TurnedToSet, Edited, ConfigTypeOK
    <2> QED
      BY <2>7, <2>8, <2>9, <2>10, <2>11, <2>12, <2>13, <2>14, <2>15, <2>16, <2>17, <2>18
  <1>4. ASSUME NEW r \in Request, SaveDefaults(r) PROVE ConfigInv'
    <2>1. /\ running /\ step[r] = "defaulting" /\ Written("settings", Defaults) /\ Proceed(r, Defaults)
          /\ Acknowledge("settings", Defaults)
          /\ UNCHANGED <<running, locked, loginVars, collided, harmed, wiped, served, faults>>
      BY <1>4 DEF SaveDefaults
    <2>2. job[r] \in Jobs /\ job[r].file = "settings" /\ Defaults \in Object("settings") /\ "settings" \in Files
      BY <2>1, KindIs, EmptyIs DEF ConfigTypeOK, Jobs, StepsSound, StepSound, Empty, Files
    <2>3. Others(r) /\ Kept /\ (Finished(r) \/ TurnedToSet(r, Defaults) \/ Edited(r, Defaults))
      BY <2>1, <2>2, ProceedIs
    <2>4. \A f \in Files : Writing(f)' = IF f = job[r].file THEN Writing(f) \ {r} ELSE Writing(f)
      BY <2>1, <2>3 DEF Writing, Others, Finished, TurnedToSet, Edited
    <2>5. r \in Writing("settings")
      BY <2>1, <2>2 DEF Writing
    <2>6. /\ DOMAIN file' = Files /\ DOMAIN acked' = Files
          /\ \A f \in Files \ {"settings"} : file'[f] = file[f] /\ acked'[f] = acked[f]
          /\ file'["settings"] \in {Defaults, TORN} /\ acked'["settings"] \in {Defaults, MISSING}
          /\ "settings" \notin collided => file'["settings"] = Defaults
          /\ "settings" \notin collided \cup harmed => acked'["settings"] = Defaults
      BY <2>1, <2>2 DEF Written, Acknowledge, Shaped
    <2>7. ConfigTypeOK'
      <3>1. /\ job' \in [Request -> {NoJob} \cup Jobs]
            /\ step' \in [Request -> {"idle", "load", "default", "defaulting", "exchange", "save", "saving"}]
        BY <2>3 DEF Kept
      <3>2. ASSUME NEW q \in Request
            PROVE  /\ (step'[q] = "idle") <=> (job'[q] = NoJob)
                   /\ step'[q] \in Editing => result'[q] \in Object(job'[q].file)
        <4>1. CASE q = r
          BY <4>1, <2>1, <2>3, NoJobIs, KindIs, ChangeJobIs DEF ConfigTypeOK, Finished, TurnedToSet,
             Edited, Jobs, Editing
        <4>2. CASE q # r
          BY <4>2, <2>3 DEF Others, ConfigTypeOK, Editing
        <4> QED
          BY <4>1, <4>2
      <3>3. ASSUME NEW f \in Files
            PROVE  file'[f] \in Object(f) \cup {MISSING, BLANK, TORN} /\ acked'[f] \in Object(f) \cup {MISSING}
        BY <2>2, <2>6 DEF ConfigTypeOK
      <3> QED
        BY <3>1, <3>2, <3>3, <2>1 DEF ConfigTypeOK, Jobs, Editing
    <2>8. Shaped'
      BY <2>1, <2>2, <2>3, <2>4, <2>5, <2>6 DEF Shaped, Kept
    <2>9. StepsSound'
      <3>1. ASSUME NEW q \in Request \ {r} PROVE StepSound(q)'
        BY <3>1, <2>3 DEF StepsSound, StepSound, Others
      <3>2. ASSUME Finished(r)
            PROVE  StepSound(r)'
        BY <3>2, NoJobIs DEF StepSound, StepsSound, Finished, TurnedToSet, Edited, Changing
      <3>3. ASSUME TurnedToSet(r, Defaults)
            PROVE  StepSound(r)'
        BY <3>3, <2>1 DEF StepSound, StepsSound, Finished, TurnedToSet, Edited, Changing
      <3>4. ASSUME Edited(r, Defaults)
            PROVE  StepSound(r)'
        BY <3>4, <2>1, <2>2, ChangeJobIs, LoginJobIs DEF StepSound, StepsSound, Finished,
           TurnedToSet, Edited, Changing
      <3> QED
        BY <3>1, <3>2, <3>3, <3>4, <2>3 DEF StepsSound, Others
    <2>10. EditsSound'
      <3>1. ASSUME NEW q \in Request \ {r} PROVE EditSound(q)'
        BY <3>1, <2>3 DEF EditsSound, EditSound, Others
      <3>2. ASSUME Finished(r)
            PROVE  EditSound(r)'
        BY <3>2, NoJobIs DEF EditSound, Editing, Finished, TurnedToSet, Edited
      <3>3. ASSUME TurnedToSet(r, Defaults)
            PROVE  EditSound(r)'
        BY <3>3, <2>1 DEF EditSound, Editing, Finished, TurnedToSet, Edited
      <3>4. ASSUME Edited(r, Defaults)
            PROVE  EditSound(r)'
        BY <3>4, <2>1, <2>2, ChangeJobIs, LoginJobIs DEF EditSound, Editing, Finished, TurnedToSet,
           Edited
      <3> QED
        BY <3>1, <3>2, <3>3, <3>4, <2>3 DEF EditsSound, Others
    <2>11. Held'
      BY <2>1, <2>2, <2>4 DEF Held, Files
    <2>12. TornHidden'
      BY <2>1, <2>6 DEF TornHidden, Files
    <2>13. TornRead'
      BY <2>1, <2>2, <2>3, <2>4, <2>5, <2>6, NoJobIs, KindIs DEF TornRead, TornHidden, Others,
         Finished, TurnedToSet, Edited, StepsSound, StepSound
    <2>14. OneWriter'
      <3>1. ASSUME NEW f \in Files, f \notin collided' \cup harmed', NEW q \in Writing(f)'
            PROVE  q \in Writing(f) /\ base'[q] = base[q] /\ acked'[f] = acked[f] /\ f \notin collided \cup harmed
        <4>1. f \notin collided \cup harmed
          BY <3>1, <2>1
        <4>2. f # job[r].file
          BY <3>1, <4>1, <2>2, <2>4, <2>5 DEF OneWriter
        <4>3. q \in Writing(f) /\ q # r
          BY <3>1, <2>4, <4>2 DEF Writing
        <4> QED
          BY <4>1, <4>2, <4>3, <2>2, <2>3, <2>6 DEF Others, Writing
      <3>2. ASSUME NEW f \in Files, f \notin collided' \cup harmed' PROVE Writing(f)' \subseteq Writing(f)
        BY <3>2, <3>1
      <3> QED
        BY <3>1, <3>2 DEF OneWriter
    <2>15. Exchanged'
      BY <2>1, <2>2, <2>3, <2>4, <2>5, <2>6, NoJobIs, ChangeJobIs DEF Exchanged, InHand, Others,
         Finished, TurnedToSet, Edited, ConfigTypeOK
    <2>16. ChangesAtomic'
      BY <2>1, <2>2, <2>4, <2>6 DEF ChangesAtomic, Same
    <2>17. NoSilentReset'
      BY <2>1, <2>2, <2>3, <2>4, <2>5, <2>6 DEF NoSilentReset, StepsSound, EditsSound, StepSound,
         EditSound, TornRead, Writing, Files, Overlaps, ChangesAtomic
    <2>18. LoginAccounted'
      BY <2>1, <2>2, <2>3, <2>4, <2>5, <2>6, NoJobIs, ChangeJobIs DEF LoginAccounted, Exchanged,
         InHand, Others, Finished, TurnedToSet, Edited, ConfigTypeOK
    <2> QED
      BY <2>7, <2>8, <2>9, <2>10, <2>11, <2>12, <2>13, <2>14, <2>15, <2>16, <2>17, <2>18
  <1>5. ASSUME NEW r \in Request, Save(r) PROVE ConfigInv'
    <2>1. /\ running /\ step[r] = "saving" /\ Written(job[r].file, result[r]) /\ Answer(r)
          /\ locked' = (IF job[r].file = "auth" THEN NONE ELSE locked)
          /\ UNCHANGED <<running, begun, spent, cut, collided, harmed, wiped, served, faults>>
      BY <1>5 DEF Save
    <2>2. job[r] \in Jobs /\ job[r].file \in Files /\ result[r] \in Object(job[r].file)
      BY <2>1, KindIs DEF ConfigTypeOK, Jobs
    <2>3. Others(r) /\ Kept /\ Finished(r)
      BY <2>1, AnswerIs
    <2>4. \A f \in Files : Writing(f)' = IF f = job[r].file THEN Writing(f) \ {r} ELSE Writing(f)
      BY <2>1, <2>3 DEF Writing, Others, Finished
    <2>5. r \in Writing(job[r].file)
      BY <2>1, <2>2 DEF Writing
    <2>6. job[r].kind = "login" => job[r].value \in Login /\ job[r].file = "auth"
      BY <2>2, KindIs, LoginJobIs
    <2>7. PICK c \in Object(job[r].file) :
          /\ Acknowledge(job[r].file, c)
          /\ job[r].file \notin collided \cup harmed => c = result[r]
      <3>1. CASE job[r].kind = "all"
        <4>1. job[r].value \in Object(job[r].file)
          BY <2>2, <3>1, KindIs, SaveJobIs
        <4>2. result[r] = job[r].value
          BY <2>1, <3>1 DEF EditsSound, EditSound, Editing
        <4> QED
          BY <1>5, <3>1, <4>1, <4>2 DEF Save
      <3>2. CASE job[r].kind # "all"
        <4>1. job[r] \in ChangeJobs \cup LoginJobs
          BY <2>1, <2>2, <3>2, KindIs DEF StepsSound, StepSound
        <4>2. Reads(job[r].file, acked[job[r].file]) \in Object(job[r].file)
          BY <2>2, ReadsIs DEF ConfigTypeOK
        <4>3. [Reads(job[r].file, acked[job[r].file]) EXCEPT ![job[r].key] = job[r].value] \in Object(job[r].file)
          BY <4>1, <4>2, EditIs
        <4>4. /\ base[r] # NONE
              /\ result[r] = [Reads(job[r].file, base[r]) EXCEPT ![job[r].key] = job[r].value]
          BY <2>1, <2>2, <3>2 DEF EditsSound, EditSound, Editing
        <4>5. job[r].file \notin collided \cup harmed =>
                Reads(job[r].file, base[r]) = Reads(job[r].file, acked[job[r].file])
          BY <2>2, <2>5, <4>4, SameReads DEF OneWriter
        <4>6. Acknowledge(job[r].file, [Reads(job[r].file, acked[job[r].file]) EXCEPT ![job[r].key] = job[r].value])
          BY <1>5, <3>2 DEF Save
        <4> QED
          BY <4>3, <4>4, <4>5, <4>6
      <3> QED
        BY <3>1, <3>2
    <2>8. /\ DOMAIN file' = Files /\ DOMAIN acked' = Files
          /\ \A f \in Files \ {job[r].file} : file'[f] = file[f] /\ acked'[f] = acked[f]
          /\ file'[job[r].file] \in {result[r], TORN} /\ acked'[job[r].file] \in Object(job[r].file) \cup {MISSING}
          /\ job[r].file \notin collided \ {"auth"} => file'[job[r].file] = result[r]
          /\ job[r].file \notin collided \cup harmed => acked'[job[r].file] = result[r]
      <3>1. /\ DOMAIN file' = Files /\ \A f \in Files \ {job[r].file} : file'[f] = file[f]
            /\ file'[job[r].file] \in {result[r], TORN}
            /\ job[r].file \notin collided \ {"auth"} => file'[job[r].file] = result[r]
        BY <2>1, <2>2 DEF Written, Shaped
      <3>2. /\ DOMAIN acked' = Files /\ \A f \in Files \ {job[r].file} : acked'[f] = acked[f]
            /\ acked'[job[r].file] \in {c, MISSING}
            /\ job[r].file \notin collided \cup harmed => acked'[job[r].file] = c
        BY <2>1, <2>2, <2>7 DEF Acknowledge, Shaped
      <3> QED
        BY <2>7, <3>1, <3>2
    <2>9. UNCHANGED <<running, begun, spent, cut, collided, harmed, wiped, served, faults>>
      BY <2>1
    <2>10. /\ job[r].kind = "login" => /\ pendingOf' = [pendingOf EXCEPT ![job[r].value] = NONE]
                                   /\ done' = done \cup {job[r].value}
           /\ job[r].kind # "login" => UNCHANGED <<pendingOf, done>>
      BY <1>5 DEF Save
    <2>11. ConfigTypeOK'
      <3>1. /\ job' \in [Request -> {NoJob} \cup Jobs]
            /\ step' \in [Request -> {"idle", "load", "default", "defaulting", "exchange", "save", "saving"}]
        BY <2>3 DEF Kept
      <3>2. ASSUME NEW q \in Request
            PROVE  /\ (step'[q] = "idle") <=> (job'[q] = NoJob)
                   /\ step'[q] \in Editing => result'[q] \in Object(job'[q].file)
        <4>1. CASE q = r
          BY <4>1, <2>3 DEF ConfigTypeOK, Finished, TurnedToSet, Edited, Jobs, Editing
        <4>2. CASE q # r
          BY <4>2, <2>3 DEF Others, ConfigTypeOK, Editing
        <4> QED
          BY <4>1, <4>2
      <3>3. ASSUME NEW f \in Files
            PROVE  file'[f] \in Object(f) \cup {MISSING, BLANK, TORN} /\ acked'[f] \in Object(f) \cup {MISSING}
        BY <2>2, <2>8 DEF ConfigTypeOK
      <3>4. /\ pendingOf' \in [Login -> Provider \cup {NONE}] /\ done' \subseteq Login
            /\ locked' \in Request \cup {NONE}
        BY <2>1, <2>6, <2>10 DEF ConfigTypeOK
      <3> QED
        BY <3>1, <3>2, <3>3, <3>4, <2>9 DEF ConfigTypeOK, Jobs, Editing
    <2>12. Shaped'
      BY <2>1, <2>2, <2>3, <2>4, <2>5, <2>6, <2>7, <2>8, <2>9, <2>10 DEF Shaped, Kept
    <2>13. StepsSound'
      <3>1. ASSUME NEW q \in Request \ {r} PROVE StepSound(q)'
        BY <3>1, <2>1, <2>2, <2>3, <2>4, <2>5, <2>6, <2>7, <2>8, <2>9, <2>10 DEF StepsSound,
           StepSound, Others
      <3>2. StepSound(r)'
        BY <2>1, <2>2, <2>3, <2>4, <2>5, <2>6, <2>7, <2>8, <2>9, <2>10, KindIs, NoJobIs DEF StepSound,
           Finished, TurnedToSet, Edited, Changing, ConfigTypeOK, StepsSound
      <3> QED
        BY <3>1, <3>2 DEF StepsSound
    <2>14. EditsSound'
      <3>1. ASSUME NEW q \in Request \ {r} PROVE EditSound(q)'
        BY <3>1, <2>1, <2>2, <2>3, <2>4, <2>5, <2>6, <2>7, <2>8, <2>9, <2>10, SMTT(60) DEF EditsSound,
           EditSound, Others
      <3>2. EditSound(r)'
        BY <2>1, <2>2, <2>3, <2>4, <2>5, <2>6, <2>7, <2>8, <2>9, <2>10, NoJobIs DEF EditSound,
           Editing, Finished, TurnedToSet, Edited, StepSound, StepsSound, EditsSound
      <3> QED
        BY <3>1, <3>2 DEF EditsSound
    <2>15. Held'
      <3>1. CASE job[r].file = "auth"
        <4>1. locked = r /\ Writing("auth") \subseteq {r} /\ locked' = NONE
          BY <2>1, <2>5, <3>1 DEF Held
        <4> QED
          BY <2>2, <2>4, <3>1, <4>1 DEF Held
      <3>2. CASE job[r].file # "auth"
        BY <2>1, <2>4, <3>2 DEF Held, Files
      <3> QED
        BY <3>1, <3>2
    <2>16. TornHidden'
      BY <2>1, <2>2, <2>8 DEF TornHidden, Files
    <2>17. TornRead'
      BY <2>3, <2>9, NoJobIs DEF TornRead, Others, Finished
    <2>18. OneWriter'
      <3>1. ASSUME NEW f \in Files, f \notin collided' \cup harmed', NEW q \in Writing(f)'
            PROVE  q \in Writing(f) /\ base'[q] = base[q] /\ acked'[f] = acked[f] /\ f \notin collided \cup harmed
        <4>1. f \notin collided \cup harmed
          BY <3>1, <2>9
        <4>2. f # job[r].file
          BY <3>1, <4>1, <2>4, <2>5 DEF OneWriter
        <4>3. q \in Writing(f) /\ q # r
          BY <3>1, <2>4, <4>2 DEF Writing
        <4> QED
          BY <4>1, <4>2, <4>3, <2>3, <2>8 DEF Others, Writing
      <3>2. ASSUME NEW f \in Files, f \notin collided' \cup harmed' PROVE Writing(f)' \subseteq Writing(f)
        BY <3>2, <3>1
      <3> QED
        BY <3>1, <3>2 DEF OneWriter
    <2>19. Exchanged'
      BY <2>1, <2>3, <2>6, <2>9, <2>10, NoJobIs DEF Exchanged, InHand, Others, Finished
    <2>20. ChangesAtomic'
      BY <2>2, <2>4, <2>8, <2>9 DEF ChangesAtomic, Same
    <2>21. NoSilentReset'
      BY <2>9 DEF NoSilentReset
    <2>22. LoginAccounted'
      <3>1. \A q \in Request \ {r} : InHand(q)' = InHand(q)
        BY <2>3 DEF InHand, Others
      <3>2. InHand(r) \subseteq done'
        BY <2>1, <2>10 DEF InHand
      <3>3. done \subseteq done' /\ spent' = spent /\ cut' = cut
        BY <2>1, <2>10
      <3>4. spent' \subseteq done' \cup cut' \cup UNION {InHand(q)' : q \in Request}
        BY <3>1, <3>2, <3>3 DEF LoginAccounted
      <3>5. \A l \in begun' : pendingOf'[l] # NONE <=> l \notin done'
        BY <2>6, <2>9, <2>10 DEF LoginAccounted, ConfigTypeOK
      <3> QED
        BY <3>4, <3>5 DEF LoginAccounted
    <2> QED
      BY <2>11, <2>12, <2>13, <2>14, <2>15, <2>16, <2>17, <2>18, <2>19, <2>20, <2>21, <2>22
  <1>6. ASSUME NEW r \in Request, Exchange(r) PROVE ConfigInv'
    <2>1. /\ running /\ step[r] = "exchange" /\ job[r].kind = "login" /\ job[r].value \in Login
          /\ UNCHANGED <<running, file, locked, pendingOf, begun, done, cut, acked, collided, harmed, wiped,
                         served, faults>>
      BY <1>6, KindIs, LoginJobIs, NoJobIs DEF Exchange, StepsSound, StepSound, ConfigTypeOK, Jobs
    <2>2. Others(r) /\ Kept
          /\ \/ Finished(r) /\ UNCHANGED spent
             \/ /\ spent' = spent \cup {job[r].value} /\ job[r].value \notin spent
                /\ step'[r] = "save" /\ job'[r] = job[r] /\ base'[r] = base[r] /\ peeked'[r] = peeked[r]
                /\ result'[r] = result[r]
      <3>1. CASE Answer(r) /\ UNCHANGED spent
        BY <3>1, AnswerIs
      <3>2. CASE /\ job[r].value \notin spent /\ spent' = spent \cup {job[r].value}
                 /\ step' = [step EXCEPT ![r] = "save"] /\ UNCHANGED <<job, base, peeked, result>>
        BY <3>2 DEF Others, Kept, ConfigTypeOK, Shaped, Jobs
      <3> QED
        BY <1>6, <3>1, <3>2 DEF Exchange
    <2>3. \A f \in Files : Writing(f)' = Writing(f)
      BY <2>1, <2>2 DEF Writing, Others, Finished
    <2>4. ConfigTypeOK'
      BY <2>1, <2>2, <2>3, KindIs, NoJobIs DEF ConfigTypeOK, Kept, Others, Jobs, Editing, Finished,
         TurnedToSet, Edited, StepsSound, EditsSound, StepSound, EditSound
    <2>5. Shaped'
      BY <2>1, <2>2, <2>3 DEF Shaped, Kept
    <2>6. StepsSound'
      <3>1. ASSUME NEW q \in Request \ {r} PROVE StepSound(q)'
        BY <3>1, <2>1, <2>2, <2>3 DEF StepsSound, StepSound, Others
      <3>2. StepSound(r)'
        BY <2>1, <2>2, <2>3, KindIs, NoJobIs DEF StepSound, Finished, TurnedToSet, Edited, Changing,
           ConfigTypeOK, StepsSound
      <3> QED
        BY <3>1, <3>2 DEF StepsSound
    <2>7. EditsSound'
      <3>1. ASSUME NEW q \in Request \ {r} PROVE EditSound(q)'
        BY <3>1, <2>1, <2>2, <2>3 DEF EditsSound, EditSound, Others
      <3>2. EditSound(r)'
        BY <2>1, <2>2, <2>3, NoJobIs DEF EditSound, Editing, Finished, TurnedToSet, Edited, StepSound,
           StepsSound, EditsSound
      <3> QED
        BY <3>1, <3>2 DEF EditsSound
    <2>8. Held'
      BY <2>1, <2>2, <2>3 DEF Held, Files, ConfigTypeOK
    <2>9. TornHidden'
      BY <2>1, <2>2, <2>3 DEF TornHidden, Held, Files
    <2>10. TornRead'
      BY <2>1, <2>2, <2>3, NoJobIs, KindIs DEF TornRead, TornHidden, Others, Finished, TurnedToSet,
         Edited, StepsSound, StepSound
    <2>11. OneWriter'
      <3>1. ASSUME NEW f \in Files, f \notin collided' \cup harmed', NEW q \in Writing(f)'
            PROVE  q \in Writing(f) /\ base'[q] = base[q] /\ acked'[f] = acked[f] /\ f \notin collided \cup harmed
        BY <3>1, <2>1, <2>2, <2>3 DEF Others, Writing
      <3>2. ASSUME NEW f \in Files, f \notin collided' \cup harmed' PROVE Writing(f)' \subseteq Writing(f)
        BY <3>2, <3>1
      <3> QED
        BY <3>1, <3>2 DEF OneWriter
    <2>12. Exchanged'
      BY <2>1, <2>2, <2>3, NoJobIs, ChangeJobIs DEF Exchanged, InHand, Others, Finished,
         TurnedToSet, Edited, ConfigTypeOK
    <2>13. ChangesAtomic'
      BY <2>1, <2>2, <2>3 DEF ChangesAtomic, OneWriter, Acknowledge, Written
    <2>14. NoSilentReset'
      BY <2>1, <2>2, <2>3 DEF NoSilentReset, StepsSound, EditsSound, StepSound, EditSound, TornRead,
         Writing, Files, Overlaps, ChangesAtomic
    <2>15. LoginAccounted'
      BY <2>1, <2>2, <2>3, NoJobIs, ChangeJobIs DEF LoginAccounted, Exchanged, InHand, Others,
         Finished, TurnedToSet, Edited, ConfigTypeOK
    <2> QED
      BY <2>4, <2>5, <2>6, <2>7, <2>8, <2>9, <2>10, <2>11, <2>12, <2>13, <2>14, <2>15
  <1>7. ASSUME NEW r \in Request, FailSave(r) PROVE ConfigInv'
    <2> DEFINE emptied == step[r] \in {"defaulting", "saving"}
               turned == Task("set", "settings", "model", job[r].value)
    <2>1. /\ running /\ step[r] \in {"default", "defaulting", "save", "saving"}
          /\ faults < MaxFaults /\ faults' = faults + 1
          /\ harmed' = (IF emptied THEN harmed \cup {job[r].file} ELSE harmed)
          /\ cut' = cut \cup InHand(r)
          /\ locked' = (IF emptied /\ job[r].file = "auth" THEN NONE ELSE locked)
          /\ UNCHANGED <<running, file, pendingOf, begun, spent, done, acked, collided, wiped, served>>
      BY <1>7 DEF FailSave
    <2>2. job[r] \in Jobs /\ job[r].file \in Files
      BY <2>1, KindIs DEF ConfigTypeOK, Jobs
    <2>3. \/ Finished(r)
          \/ /\ step[r] \in {"default", "defaulting"} /\ job'[r] = turned /\ step'[r] = "load"
             /\ base'[r] = base[r] /\ peeked'[r] = peeked[r] /\ result'[r] = result[r]
             /\ turned \in ChangeJobs /\ turned.kind = "set" /\ turned.file = "settings"
      <3>1. CASE Answer(r)
        BY <3>1, AnswerIs
      <3>2. CASE /\ step[r] \in {"default", "defaulting"} /\ job[r].value \in Builtin
                 /\ job' = [job EXCEPT ![r] = turned] /\ step' = [step EXCEPT ![r] = "load"]
                 /\ UNCHANGED <<base, peeked, result>>
        <4>1. job[r].value \in Values("settings", "model")
          BY <3>2 DEF Values
        <4> QED
          BY <3>2, <4>1, SetJobIs DEF ConfigTypeOK
      <3> QED
        BY <1>7, <3>1, <3>2 DEF FailSave
    <2>4. Others(r) /\ Kept
      BY <1>7, <2>3 DEF FailSave, Answer, Others, Kept, ConfigTypeOK, Shaped, Finished, Jobs
    <2>5. step'[r] \in {"idle", "load"}
      BY <2>3 DEF Finished
    <2> HIDE DEF turned
    <2>6. \A f \in Files : Writing(f)' = Writing(f) \ {r}
      BY <2>4, <2>5 DEF Writing, Others
    <2>7. InHand(r) \subseteq Login /\ InHand(r)' = {} /\ \A q \in Request \ {r} : InHand(q)' = InHand(q)
      <3>1. InHand(r) \subseteq Login
        BY <2>2, KindIs, LoginJobIs DEF InHand
      <3>2. InHand(r)' = {}
        BY <2>5 DEF InHand
      <3>3. \A q \in Request \ {r} : InHand(q)' = InHand(q)
        BY <2>4 DEF InHand, Others
      <3> QED
        BY <3>1, <3>2, <3>3
    <2>8. emptied <=> r \in Writing(job[r].file)
      BY DEF Writing
    <2>9. ConfigTypeOK'
      <3>1. /\ job' \in [Request -> {NoJob} \cup Jobs]
            /\ step' \in [Request -> {"idle", "load", "default", "defaulting", "exchange", "save", "saving"}]
        BY <2>4 DEF Kept
      <3>2. ASSUME NEW q \in Request
            PROVE  /\ (step'[q] = "idle") <=> (job'[q] = NoJob)
                   /\ step'[q] \in Editing => result'[q] \in Object(job'[q].file)
        <4>1. CASE q = r
          BY <4>1, <2>3, NoJobIs DEF Finished, Editing, Jobs
        <4>2. CASE q # r
          BY <4>2, <2>4 DEF Others, ConfigTypeOK, Editing
        <4> QED
          BY <4>1, <4>2
      <3> QED
        BY <3>1, <3>2, <2>1, <2>2, <2>7 DEF ConfigTypeOK, Jobs, Editing
    <2>10. Shaped'
      BY <2>1, <2>4 DEF Shaped, Kept
    <2>11. StepsSound'
      <3>1. ASSUME NEW q \in Request \ {r} PROVE StepSound(q)'
        BY <3>1, <2>4 DEF StepsSound, StepSound, Others
      <3>2. StepSound(r)'
        BY <2>3, NoJobIs DEF StepSound, StepsSound, Finished
      <3> QED
        BY <3>1, <3>2 DEF StepsSound
    <2>12. EditsSound'
      BY <2>4, <2>5 DEF EditsSound, EditSound, Editing, Others
    <2>13. Held'
      <3>1. CASE emptied /\ job[r].file = "auth"
        <4>1. locked = r /\ Writing("auth") \subseteq {r} /\ locked' = NONE
          BY <2>1, <2>8, <3>1 DEF Held
        <4> QED
          BY <2>2, <2>6, <3>1, <4>1 DEF Held
      <3>2. CASE ~(emptied /\ job[r].file = "auth")
        <4>1. r \notin Writing("auth")
          BY <3>2 DEF Writing
        <4> QED
          BY <2>1, <2>6, <3>2, <4>1 DEF Held, Files
      <3> QED
        BY <3>1, <3>2
    <2>14. TornHidden'
      BY <2>1 DEF TornHidden
    <2>15. TornRead'
      <3>1. job'[r].file # "auth" \/ base'[r] = NONE
        BY <2>3 DEF Finished, turned, Task
      <3> QED
        BY <2>1, <2>4, <3>1 DEF TornRead, Others
    <2>16. OneWriter'
      <3> SUFFICES ASSUME NEW f \in Files, f \notin collided' \cup harmed', NEW p \in Writing(f)'
                   PROVE  /\ \A q \in Writing(f)' : q = p
                          /\ base'[p] = NONE \/ Same(base'[p], acked'[f])
        BY DEF OneWriter
      <3>1. f \notin collided \cup harmed /\ p \in Writing(f) /\ p # r
            /\ Writing(f)' \subseteq Writing(f)
        BY <2>1, <2>6
      <3>2. base'[p] = base[p]
        BY <3>1, <2>4 DEF Others, Writing
      <3> QED
        BY <3>1, <3>2, <2>1 DEF OneWriter
    <2>17. Exchanged'
      BY <2>1, <2>7 DEF Exchanged
    <2>18. ChangesAtomic'
      <3>1. ASSUME NEW f \in Files, f \notin collided' \cup harmed', Writing(f)' = {}
            PROVE  Writing(f) = {}
        <4>1. r \notin Writing(f)
          BY <3>1, <2>1 DEF Writing
        <4> QED
          BY <3>1, <4>1, <2>6
      <3> QED
        BY <3>1, <2>1 DEF ChangesAtomic
    <2>19. NoSilentReset'
      BY <2>1 DEF NoSilentReset
    <2>20. LoginAccounted'
      BY <2>1, <2>7 DEF LoginAccounted
    <2> QED
      BY <2>9, <2>10, <2>11, <2>12, <2>13, <2>14, <2>15, <2>16, <2>17, <2>18, <2>19, <2>20
  <1>8. ASSUME NEW l \in Login, NEW p \in Provider, StartLogin(l, p) PROVE ConfigInv'
    <2>1. ConfigTypeOK'
      BY <1>8 DEF StartLogin, ConfigTypeOK, Writing, InHand, StepSound, EditSound, Files
    <2>2. Shaped'
      BY <1>8 DEF StartLogin, Shaped, Writing, InHand, StepSound, EditSound, ConfigTypeOK, Files
    <2>3. StepsSound'
      BY <1>8 DEF StartLogin, StepsSound, Writing, InHand, StepSound, EditSound, ConfigTypeOK, Files
    <2>4. EditsSound'
      BY <1>8 DEF StartLogin, EditsSound, Writing, InHand, StepSound, EditSound, ConfigTypeOK, Files
    <2>5. Held'
      BY <1>8 DEF StartLogin, Held, Writing, InHand, StepSound, EditSound, ConfigTypeOK, Files
    <2>6. TornHidden'
      BY <1>8 DEF StartLogin, TornHidden, Writing, InHand, StepSound, EditSound, ConfigTypeOK, Files
    <2>7. TornRead'
      BY <1>8 DEF StartLogin, TornRead, Writing, InHand, StepSound, EditSound, ConfigTypeOK, Files
    <2>8. OneWriter'
      BY <1>8 DEF StartLogin, OneWriter, Writing, InHand, StepSound, EditSound, ConfigTypeOK, Files
    <2>9. Exchanged'
      BY <1>8 DEF StartLogin, Exchanged, Writing, InHand, StepSound, EditSound, ConfigTypeOK, Files
    <2>10. ChangesAtomic'
      BY <1>8 DEF StartLogin, ChangesAtomic, Writing, InHand, StepSound, EditSound, ConfigTypeOK,
         Files
    <2>11. NoSilentReset'
      BY <1>8 DEF StartLogin, NoSilentReset, Writing, InHand, StepSound, EditSound, ConfigTypeOK,
         Files
    <2>12. LoginAccounted'
      BY <1>8 DEF StartLogin, LoginAccounted, Exchanged, InHand, ConfigTypeOK
    <2> QED
      BY <2>1, <2>2, <2>3, <2>4, <2>5, <2>6, <2>7, <2>8, <2>9, <2>10, <2>11, <2>12
  <1>9. ASSUME NEW f \in Files, EditOutside(f) PROVE ConfigInv'
    <2>1. /\ f # "auth" /\ faults < MaxFaults /\ faults' = faults + 1
          /\ collided' = (IF Writing(f) # {} THEN collided \cup {f} ELSE collided)
          /\ UNCHANGED <<running, locked, jobVars, loginVars, wiped, served>>
      BY <1>9 DEF EditOutside
    <2>2. PICK c \in Object(f) \cup {TORN} :
          /\ file' = [file EXCEPT ![f] = c]
          /\ harmed' = (IF c = TORN THEN harmed \cup {f} ELSE harmed)
          /\ Acknowledge(f, c)
      BY <1>9 DEF EditOutside
    <2>3. /\ DOMAIN file' = Files /\ DOMAIN acked' = Files
          /\ \A g \in Files \ {f} : file'[g] = file[g] /\ acked'[g] = acked[g]
          /\ file'[f] = c /\ acked'[f] \in Object(f) \cup {MISSING}
          /\ f \notin collided' \cup harmed' => acked'[f] = c
      BY <2>2 DEF Acknowledge, Shaped
    <2>4. \A g \in Files : Writing(g)' = Writing(g)
      BY <2>1 DEF Writing
    <2>5. ConfigTypeOK'
      BY <2>1, <2>2, <2>3 DEF ConfigTypeOK
    <2>6. Shaped'
      BY <2>1, <2>2, <2>3, <2>4 DEF Shaped, Kept
    <2>7. StepsSound'
      BY <2>1 DEF StepsSound, StepSound
    <2>8. EditsSound'
      BY <2>1 DEF EditsSound, EditSound
    <2>9. Held'
      BY <2>1, <2>2, <2>3, <2>4 DEF Held, Files, ConfigTypeOK
    <2>10. TornHidden'
      BY <2>1, <2>2, <2>3, <2>4 DEF TornHidden, Held, Files
    <2>11. TornRead'
      BY <2>1, <2>2, <2>3, <2>4, NoJobIs, KindIs DEF TornRead, TornHidden, Others, Finished,
         TurnedToSet, Edited, StepsSound, StepSound
    <2>12. OneWriter'
      BY <2>1, <2>2, <2>3, <2>4 DEF OneWriter, Others, ChangesAtomic, Overlaps, Acknowledge
    <2>13. Exchanged'
      BY <2>1, <2>2, <2>3, <2>4, NoJobIs, ChangeJobIs DEF Exchanged, InHand, Others, Finished,
         TurnedToSet, Edited, ConfigTypeOK
    <2>14. ChangesAtomic'
      BY <2>1, <2>2, <2>3, <2>4 DEF ChangesAtomic, Same, OneWriter, Acknowledge, Written
    <2>15. NoSilentReset'
      BY <2>1, <2>2, <2>3, <2>4 DEF NoSilentReset, StepsSound, EditsSound, StepSound, EditSound,
         TornRead, Writing, Files, Overlaps, ChangesAtomic
    <2>16. LoginAccounted'
      BY <2>1, <2>2, <2>3, <2>4, NoJobIs, ChangeJobIs DEF LoginAccounted, Exchanged, InHand, Others,
         Finished, TurnedToSet, Edited, ConfigTypeOK
    <2> QED
      BY <2>5, <2>6, <2>7, <2>8, <2>9, <2>10, <2>11, <2>12, <2>13, <2>14, <2>15, <2>16
  <1>10. ASSUME Kill PROVE ConfigInv'
    <2>1. /\ faults < MaxFaults /\ faults' = faults + 1 /\ locked' = NONE
          /\ harmed' = harmed \cup {f \in Files : Writing(f) # {}}
          /\ cut' = cut \cup UNION {InHand(r) : r \in Request}
          /\ step' = [r \in Request |-> "idle"] /\ job' = [r \in Request |-> NoJob]
          /\ base' = [r \in Request |-> NONE] /\ peeked' = [r \in Request |-> NONE]
          /\ result' = [r \in Request |-> NONE]
          /\ pendingOf' = [l \in Login |-> NONE] /\ begun' = {} /\ running' = FALSE
          /\ UNCHANGED <<file, spent, done, acked, collided, wiped, served>>
      BY <1>10 DEF Kill
    <2>2. \A f \in Files : Writing(f)' = {}
      BY <2>1 DEF Writing
    <2>3. \A r \in Request : InHand(r)' = {}
      BY <2>1, NoJobIs DEF InHand
    <2>4. \A r \in Request : InHand(r) \subseteq Login
      BY KindIs, LoginJobIs, NoJobIs DEF InHand, ConfigTypeOK, Jobs
    <2>5. ConfigTypeOK'
      <3>1. /\ pendingOf' \in [Login -> Provider \cup {NONE}]
            /\ step' \in [Request -> {"idle", "load", "default", "defaulting", "exchange", "save", "saving"}]
            /\ job' \in [Request -> {NoJob} \cup Jobs]
        BY <2>1
      <3>2. cut' \subseteq Login /\ harmed' \subseteq Files /\ faults' \in 0..MaxFaults
        BY <2>1, <2>4 DEF ConfigTypeOK
      <3>3. \A r \in Request : step'[r] = "idle" /\ job'[r] = NoJob
        BY <2>1
      <3> QED
        BY <2>1, <3>1, <3>2, <3>3 DEF ConfigTypeOK, Jobs
    <2>6. Shaped'
      BY <2>1, <2>2, <2>3, <2>4 DEF Shaped, Kept
    <2>7. StepsSound'
      BY <2>1 DEF StepsSound, StepSound
    <2>8. EditsSound'
      BY <2>1 DEF EditsSound, EditSound, Editing
    <2>9. Held'
      BY <2>1, <2>2, <2>3, <2>4 DEF Held, Files, ConfigTypeOK
    <2>10. TornHidden'
      BY <2>1, <2>2, <2>3, <2>4 DEF TornHidden, Held, Files
    <2>11. TornRead'
      BY <2>1, <2>2, <2>3, <2>4, NoJobIs, KindIs DEF TornRead, TornHidden, Others, Finished,
         TurnedToSet, Edited, StepsSound, StepSound
    <2>12. OneWriter'
      BY <2>1, <2>2, <2>3, <2>4 DEF OneWriter, Others, ChangesAtomic, Overlaps, Acknowledge
    <2>13. Exchanged'
      BY <2>1, <2>2, <2>3, <2>4, NoJobIs, ChangeJobIs DEF Exchanged, InHand, Others, Finished,
         TurnedToSet, Edited, ConfigTypeOK
    <2>14. ChangesAtomic'
      BY <2>1, <2>2, <2>3, <2>4 DEF ChangesAtomic, OneWriter, Acknowledge, Written
    <2>15. NoSilentReset'
      BY <2>1, <2>2, <2>3, <2>4 DEF NoSilentReset, StepsSound, EditsSound, StepSound, EditSound,
         TornRead, Writing, Files, Overlaps, ChangesAtomic
    <2>16. LoginAccounted'
      BY <2>1, <2>2, <2>3, <2>4, NoJobIs, ChangeJobIs DEF LoginAccounted, Exchanged, InHand, Others,
         Finished, TurnedToSet, Edited, ConfigTypeOK
    <2> QED
      BY <2>5, <2>6, <2>7, <2>8, <2>9, <2>10, <2>11, <2>12, <2>13, <2>14, <2>15, <2>16
  <1>11. ASSUME Launch PROVE ConfigInv'
    <2>1. ConfigTypeOK'
      BY <1>11 DEF Launch, ConfigTypeOK, Writing, InHand, StepSound, EditSound, Files
    <2>2. Shaped'
      BY <1>11 DEF Launch, Shaped, Writing, InHand, StepSound, EditSound, ConfigTypeOK, Files
    <2>3. StepsSound'
      BY <1>11 DEF Launch, StepsSound, Writing, InHand, StepSound, EditSound, ConfigTypeOK, Files
    <2>4. EditsSound'
      BY <1>11 DEF Launch, EditsSound, Writing, InHand, StepSound, EditSound, ConfigTypeOK, Files
    <2>5. Held'
      BY <1>11 DEF Launch, Held, Writing, InHand, StepSound, EditSound, ConfigTypeOK, Files
    <2>6. TornHidden'
      BY <1>11 DEF Launch, TornHidden, Writing, InHand, StepSound, EditSound, ConfigTypeOK, Files
    <2>7. TornRead'
      BY <1>11 DEF Launch, TornRead, Writing, InHand, StepSound, EditSound, ConfigTypeOK, Files
    <2>8. OneWriter'
      BY <1>11 DEF Launch, OneWriter, Writing, InHand, StepSound, EditSound, ConfigTypeOK, Files
    <2>9. Exchanged'
      BY <1>11 DEF Launch, Exchanged, Writing, InHand, StepSound, EditSound, ConfigTypeOK, Files
    <2>10. ChangesAtomic'
      BY <1>11 DEF Launch, ChangesAtomic, Writing, InHand, StepSound, EditSound, ConfigTypeOK, Files
    <2>11. NoSilentReset'
      BY <1>11 DEF Launch, NoSilentReset, Writing, InHand, StepSound, EditSound, ConfigTypeOK, Files
    <2>12. LoginAccounted'
      BY <1>11 DEF Launch, LoginAccounted, Writing, InHand, StepSound, EditSound, ConfigTypeOK,
         Files
    <2> QED
      BY <2>1, <2>2, <2>3, <2>4, <2>5, <2>6, <2>7, <2>8, <2>9, <2>10, <2>11, <2>12
  <1>12. ASSUME NEW r \in Request, OpenAuth(r) PROVE ConfigInv'
    <2>1. /\ file["auth"] = MISSING /\ file' = [file EXCEPT !["auth"] = BLANK]
          /\ UNCHANGED <<running, locked, jobVars, loginVars, acked, collided, harmed, wiped, served, faults>>
      BY <1>12 DEF OpenAuth
    <2>2. /\ DOMAIN file' = Files /\ file'["auth"] = BLANK
          /\ \A f \in Files \ {"auth"} : file'[f] = file[f]
      BY <2>1 DEF Shaped, Files
    <2>3. /\ \A f \in Files : Writing(f)' = Writing(f)
          /\ \A q \in Request : InHand(q)' = InHand(q)
      BY <2>1 DEF Writing, InHand
    <2>4. ConfigTypeOK'
      BY <2>1, <2>2 DEF ConfigTypeOK
    <2>5. Shaped'
      BY <2>1, <2>2 DEF Shaped
    <2>6. StepsSound' /\ EditsSound'
      BY <2>1 DEF StepsSound, StepSound, EditsSound, EditSound
    <2>7. Held' /\ TornHidden' /\ TornRead'
      BY <2>1, <2>2, <2>3 DEF Held, TornHidden, TornRead, Files
    <2>8. OneWriter'
      BY <2>1, <2>3 DEF OneWriter
    <2>9. ChangesAtomic'
      BY <2>1, <2>2, <2>3 DEF ChangesAtomic, Same
    <2>10. NoSilentReset' /\ Exchanged' /\ LoginAccounted'
      BY <2>1, <2>3 DEF NoSilentReset, Exchanged, LoginAccounted
    <2> QED
      BY <2>4, <2>5, <2>6, <2>7, <2>8, <2>9, <2>10
  <1>13. ASSUME NEW r \in Request, FailLoad(r) PROVE ConfigInv'
    <2>1. /\ running /\ step[r] = "load" /\ job[r].file = "auth" /\ Answer(r)
          /\ faults < MaxFaults /\ faults' = faults + 1
          /\ UNCHANGED <<running, file, locked, loginVars, acked, collided, harmed, wiped, served>>
      BY <1>13 DEF FailLoad
    <2>2. Others(r) /\ Kept /\ Finished(r)
      BY <2>1, AnswerIs
    <2>3. /\ \A f \in Files : Writing(f)' = Writing(f) /\ r \notin Writing(f)
          /\ \A q \in Request : InHand(q)' = InHand(q)
      BY <2>1, <2>2, NoJobIs DEF Writing, InHand, Others, Finished
    <2>4. ConfigTypeOK'
      BY <2>1, <2>2, NoJobIs DEF ConfigTypeOK, Kept, Others, Finished, Jobs
    <2>5. Shaped'
      BY <2>1, <2>2 DEF Shaped, Kept
    <2>6. StepsSound' /\ EditsSound'
      BY <2>1, <2>2, NoJobIs DEF StepsSound, StepSound, EditsSound, EditSound, Editing, Others, Finished
    <2>7. Held' /\ TornHidden'
      BY <2>1, <2>3 DEF Held, TornHidden, Files
    <2>8. TornRead'
      BY <2>1, <2>2, NoJobIs DEF TornRead, Others, Finished
    <2>9. OneWriter'
      BY <2>1, <2>2, <2>3 DEF OneWriter, Others, Writing
    <2>10. ChangesAtomic'
      BY <2>1, <2>3 DEF ChangesAtomic
    <2>11. NoSilentReset' /\ Exchanged' /\ LoginAccounted'
      BY <2>1, <2>3 DEF NoSilentReset, Exchanged, LoginAccounted
    <2> QED
      BY <2>4, <2>5, <2>6, <2>7, <2>8, <2>9, <2>10, <2>11
  <1>14. ASSUME UNCHANGED configVars PROVE ConfigInv'
    BY <1>14 DEF configVars, Writing, InHand, StepSound, EditSound, ConfigTypeOK, Shaped,
       StepsSound, EditsSound, Held, TornHidden, TornRead, OneWriter, Exchanged, ChangesAtomic,
       NoSilentReset, LoginAccounted
  <1> QED
    BY <1>1, <1>2, <1>3, <1>4, <1>5, <1>6, <1>7, <1>8, <1>9, <1>10, <1>11, <1>12, <1>13, <1>14 DEF ConfigNext

\* What the requests edit and the files hold keeps to the form of its file.
THEOREM ConfigTypes == ConfigSpec => []ConfigTypeOK
  <1>1. ConfigInv => ConfigTypeOK
    BY DEF ConfigInv
  <1> QED
    BY <1>1, ConfigInitInv, ConfigNextInv, PTL DEF ConfigSpec

\* Without a lock, changes of a file are atomic unless two of them collide or a
\* write is cut off.
THEOREM ChangesAreAtomic == ConfigSpec => []ChangesAtomic
  <1>1. ConfigInv => ChangesAtomic
    BY DEF ConfigInv
  <1> QED
    BY <1>1, ConfigInitInv, ConfigNextInv, PTL DEF ConfigSpec

\* A file that does not parse is replaced only where the code lets it, or after a
\* cut-off or colliding write.
THEOREM NothingSilentlyReset == ConfigSpec => []NoSilentReset
  <1>1. ConfigInv => NoSilentReset
    BY DEF ConfigInv
  <1> QED
    BY <1>1, ConfigInitInv, ConfigNextInv, PTL DEF ConfigSpec

\* A login is pending until it is saved, and an exchanged code is not lost unless
\* its request is cut off.
THEOREM LoginsAccounted == ConfigSpec => []LoginAccounted
  <1>1. ConfigInv => LoginAccounted
    BY DEF ConfigInv
  <1> QED
    BY <1>1, ConfigInitInv, ConfigNextInv, PTL DEF ConfigSpec
=============================================================================
