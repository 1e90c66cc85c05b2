----------------------------- MODULE AgentServer -----------------------------
(***************************************************************************)
(* The agent runtime of the WorkWithMe backend: the WebSocket loop of each *)
(* connection (server/ws.rs), the shared maps of AppState, the agent task  *)
(* a prompt spawns, and the HTTP endpoints that touch the same maps        *)
(* (server/agent_endpoints.rs: stop, project, thinking).                   *)
(*                                                                         *)
(* One action is one stretch of a handler between two awaits at which      *)
(* another task can see or change the shared maps.  A connection handles   *)
(* one message at a time, so a request is identified with the message that *)
(* started it: the session handle a request creates, the abort handle it   *)
(* registers and the agent task it spawns all carry the request's name.    *)
(***************************************************************************)
EXTENDS Naturals, Sequences

CONSTANTS
  Conn,        \* WebSocket connections
  Req,         \* `prompt` and `new_chat` messages; each is received at most once
  Session,     \* session ids
  Proj,        \* POST /api/project requests
  Think,       \* GET and POST /api/thinking requests
  Cwd,         \* working directories, the empty one included
  EmptyCwd,    \* "": no project selected
  MaxEvents,   \* bound on the events one agent run emits
  None         \* absence of a map entry

ASSUME AgentAssumption ==
  /\ EmptyCwd \in Cwd
  /\ MaxEvents \in Nat
  /\ None \notin Req
  /\ None \notin Session
  /\ Req \cap Proj = {}

VARIABLES
  clientUp,        \* clientUp[c]: the peer still reads what the server sends
  socketOpen,      \* socketOpen[c]: handle_socket is still in its loop
  \* request handlers, local state
  phase,           \* phase[r]: where the handler of r stands
  kind,            \* kind[r]: "prompt" or "new_chat"
  conn,            \* conn[r]: the connection r arrived on
  sess,            \* sess[r]: the session r is about
  cwd,             \* cwd[r]: the directory r creates a session handle with
  handle,          \* handle[r]: the session handle r prompts
  told,            \* told[r]: the outcomes the handler has sent to the client
  \* agent tasks and their two channels
  task,            \* task[r]: the spawned agent task
  failed,          \* requests whose agent run returned an error
  emitted,         \* emitted[r]: events the run pushed into its channel
  pending,         \* pending[r]: events still in that channel
  aborted,         \* requests whose abort signal was fired
  \* AppState
  session_handles, \* session_handles[s]: the entry of the map, or None
  abort_handles,   \* abort_handles[s]: the entry of the map, or None
  session_cwd,     \* session_cwd[s]: absent entries read as ""
  writeQueue,      \* writers queued on the RwLock of session_handles, in order
  \* HTTP requests
  proj,            \* proj[p]: how far the POST /api/project is
  projSess,        \* projSess[p]: the session it names
  think,           \* think[t]: how far the thinking request is
  thinkSess,       \* thinkSess[t]: the session it names
  \* history
  overtaken        \* creations during which a set_project dropped the old handle

connVars  == <<clientUp, socketOpen>>
argVars   == <<kind, conn, sess>>
taskVars  == <<task, failed, emitted, pending>>
mapVars   == <<session_handles, abort_handles, session_cwd, writeQueue>>
projVars  == <<proj, projSess>>
thinkVars == <<think, thinkSess>>
httpVars  == <<projVars, thinkVars>>
vars == <<clientUp, socketOpen, phase, kind, conn, sess, cwd, handle, told,
          task, failed, emitted, pending, aborted,
          session_handles, abort_handles, session_cwd, writeQueue, proj, projSess,
          think, thinkSess, overtaken>>

-----------------------------------------------------------------------------
(* Type definitions *)

Phase == {"unsent", "lookup", "readCwd", "create", "insertHandle", "register",
          "forward", "report", "cleanup", "label", "done"}
TaskState == {"none", "waiting", "running", "returned", "ended"}
Frame == {"error", "complete", "cleared"}
ProjStage == {"idle", "stored", "queued", "done"}
ThinkStage == {"idle", "holding", "done"}

(* The state of the maps, the handlers, the tasks and the HTTP requests ranges
   over what server/mod.rs and server/ws.rs declare. *)
TypeOK ==
  /\ clientUp \in [Conn -> BOOLEAN]
  /\ socketOpen \in [Conn -> BOOLEAN]
  /\ phase \in [Req -> Phase]
  /\ kind \in [Req -> {"prompt", "new_chat"}]
  /\ conn \in [Req -> Conn \cup {None}]
  /\ sess \in [Req -> Session \cup {None}]
  /\ cwd \in [Req -> Cwd]
  /\ handle \in [Req -> Req \cup {None}]
  /\ told \in [Req -> SUBSET Frame]
  /\ task \in [Req -> TaskState]
  /\ failed \in SUBSET Req
  /\ emitted \in [Req -> 0..MaxEvents]
  /\ pending \in [Req -> 0..MaxEvents]
  /\ aborted \in SUBSET Req
  /\ session_handles \in [Session -> Req \cup {None}]
  /\ abort_handles \in [Session -> Req \cup {None}]
  /\ session_cwd \in [Session -> Cwd]
  /\ writeQueue \in Seq(Req \cup Proj)
  /\ proj \in [Proj -> ProjStage]
  /\ projSess \in [Proj -> Session \cup {None}]
  /\ think \in [Think -> ThinkStage]
  /\ thinkSess \in [Think -> Session \cup {None}]
  /\ overtaken \in SUBSET Req

Init ==
  /\ clientUp = [c \in Conn |-> TRUE]
  /\ socketOpen = [c \in Conn |-> TRUE]
  /\ phase = [r \in Req |-> "unsent"]
  /\ kind = [r \in Req |-> "prompt"]
  /\ conn = [r \in Req |-> None]
  /\ sess = [r \in Req |-> None]
  /\ cwd = [r \in Req |-> EmptyCwd]
  /\ handle = [r \in Req |-> None]
  /\ told = [r \in Req |-> {}]
  /\ task = [r \in Req |-> "none"]
  /\ failed = {}
  /\ emitted = [r \in Req |-> 0]
  /\ pending = [r \in Req |-> 0]
  /\ aborted = {}
  /\ session_handles = [s \in Session |-> None]
  /\ abort_handles = [s \in Session |-> None]
  /\ session_cwd = [s \in Session |-> EmptyCwd]
  /\ writeQueue = <<>>
  /\ proj = [p \in Proj |-> "idle"]
  /\ projSess = [p \in Proj |-> None]
  /\ think = [t \in Think |-> "idle"]
  /\ thinkSess = [t \in Think |-> None]
  /\ overtaken = {}

-----------------------------------------------------------------------------
(* State functions *)

\* handle_socket awaits each handler before it reads the next message.
Busy(c) == \E r \in Req : conn[r] = c /\ phase[r] \notin {"unsent", "done"}

\* A freshly generated uuid is the id of no session anyone has named before.
Fresh(s) == /\ \A r \in Req : sess[r] # s
            /\ \A p \in Proj : projSess[p] # s
            /\ \A t \in Think : thinkSess[t] # s

\* The id new_chat generates is known outside the server only from the
\* chat_cleared on, which follows the creation and the insert; until then no
\* request can name the session.
Disclosed(s) ==
  \A r \in Req : sess[r] = s /\ kind[r] = "new_chat" => "cleared" \in told[r]

\* The tokio mutex around a session handle is held by the task prompting it.
Locked(h) == \E r \in Req : task[r] \in {"running", "returned"} /\ handle[r] = h

\* The tokio RwLock around session_handles is fair: writers enter in the order
\* in which they queued, once the readers inside have left, and a reader that
\* comes after a queued writer waits.
ReaderInside == \E t \in Think : think[t] = "holding"
MayRead == writeQueue = <<>>
MayWrite(w) == ~ReaderInside /\ writeQueue # <<>> /\ Head(writeQueue) = w

-----------------------------------------------------------------------------
(* The WebSocket loop *)

\* Mutant: the loop spawns the handler and reads on.
ReceivePromptBeside(c, r, s) ==
  /\ socketOpen[c] /\ Disclosed(s)
  /\ phase[r] = "unsent"
  /\ phase' = [phase EXCEPT ![r] = "lookup"]
  /\ conn' = [conn EXCEPT ![r] = c]
  /\ sess' = [sess EXCEPT ![r] = s]
  /\ UNCHANGED <<connVars, kind, cwd, handle, told, taskVars, aborted, mapVars,
                 httpVars, overtaken>>

\* A `prompt` with non-empty text for session s.  A prompt without a session
\* id is the case of a fresh s: the handler answers it with chat_cleared first.
ReceivePrompt(c, r, s) ==
  /\ socketOpen[c] /\ ~Busy(c) /\ Disclosed(s)
  /\ phase[r] = "unsent"
  /\ phase' = [phase EXCEPT ![r] = "lookup"]
  /\ conn' = [conn EXCEPT ![r] = c]
  /\ sess' = [sess EXCEPT ![r] = s]
  /\ UNCHANGED <<connVars, kind, cwd, handle, told, taskVars, aborted, mapVars,
                 httpVars, overtaken>>

\* `new_chat` generates an id and stores the directory under it before the
\* session handle is created.
ReceiveNewChat(c, r, s, d) ==
  /\ socketOpen[c] /\ ~Busy(c)
  /\ phase[r] = "unsent"
  /\ Fresh(s)
  /\ phase' = [phase EXCEPT ![r] = "create"]
  /\ kind' = [kind EXCEPT ![r] = "new_chat"]
  /\ conn' = [conn EXCEPT ![r] = c]
  /\ sess' = [sess EXCEPT ![r] = s]
  /\ cwd' = [cwd EXCEPT ![r] = d]
  /\ session_cwd' = [session_cwd EXCEPT ![s] = d]
  /\ UNCHANGED <<connVars, handle, told, taskVars, aborted, session_handles,
                 abort_handles, writeQueue, httpVars, overtaken>>

\* The window is closed, reloaded or loses its connection.
Disconnect(c) ==
  /\ clientUp[c]
  /\ clientUp' = [clientUp EXCEPT ![c] = FALSE]
  /\ UNCHANGED <<socketOpen, phase, argVars, cwd, handle, told, taskVars,
                 aborted, mapVars, httpVars, overtaken>>

\* The loop reads the close frame or the error and leaves; it can only do so
\* between two messages.
CloseSocket(c) ==
  /\ socketOpen[c] /\ ~clientUp[c] /\ ~Busy(c)
  /\ socketOpen' = [socketOpen EXCEPT ![c] = FALSE]
  /\ UNCHANGED <<clientUp, phase, argVars, cwd, handle, told, taskVars,
                 aborted, mapVars, httpVars, overtaken>>

-----------------------------------------------------------------------------
(* handle_prompt and handle_new_chat *)

\* Mutant: session handles pooled by working directory instead of by session.
FindHandleByCwd(r) ==
  /\ phase[r] = "lookup"
  /\ MayRead
  /\ \E s \in Session :
       /\ session_handles[s] # None
       /\ cwd[session_handles[s]] = session_cwd[sess[r]]
       /\ handle' = [handle EXCEPT ![r] = session_handles[s]]
  /\ phase' = [phase EXCEPT ![r] = "register"]
  /\ UNCHANGED <<connVars, argVars, cwd, told, taskVars, aborted, mapVars,
                 httpVars, overtaken>>

\* Clone the handle out of the map under the read lock, which is released
\* before anything else happens.
FindHandle(r) ==
  /\ phase[r] = "lookup"
  /\ MayRead
  /\ session_handles[sess[r]] # None
  /\ handle' = [handle EXCEPT ![r] = session_handles[sess[r]]]
  /\ phase' = [phase EXCEPT ![r] = "register"]
  /\ UNCHANGED <<connVars, argVars, cwd, told, taskVars, aborted, mapVars,
                 httpVars, overtaken>>

\* The session has no handle: the prompt creates one.
MissHandle(r) ==
  /\ phase[r] = "lookup"
  /\ MayRead
  /\ session_handles[sess[r]] = None
  /\ phase' = [phase EXCEPT ![r] = "readCwd"]
  /\ UNCHANGED <<connVars, argVars, cwd, handle, told, taskVars, aborted,
                 mapVars, httpVars, overtaken>>

ReadCwd(r) ==
  /\ phase[r] = "readCwd"
  /\ cwd' = [cwd EXCEPT ![r] = session_cwd[sess[r]]]
  /\ phase' = [phase EXCEPT ![r] = "create"]
  /\ UNCHANGED <<connVars, argVars, handle, told, taskVars, aborted, mapVars,
                 httpVars, overtaken>>

\* create_agent_session returned a session; the handler queues for the write
\* lock on session_handles.
CreateSucceeds(r) ==
  /\ phase[r] = "create"
  /\ phase' = [phase EXCEPT ![r] = "insertHandle"]
  /\ writeQueue' = Append(writeQueue, r)
  /\ UNCHANGED <<connVars, argVars, cwd, handle, told, taskVars, aborted,
                 session_handles, abort_handles, session_cwd, httpVars, overtaken>>

\* create_agent_session failed: an error frame, and the handler is over.
CreateFails(r) ==
  /\ phase[r] = "create"
  /\ phase' = [phase EXCEPT ![r] = "done"]
  /\ told' = [told EXCEPT ![r] = @ \cup {"error"}]
  /\ UNCHANGED <<connVars, argVars, cwd, handle, taskVars, aborted, mapVars,
                 httpVars, overtaken>>

\* The insert replaces whatever another handler has stored in the meantime.
InsertHandle(r) ==
  /\ phase[r] = "insertHandle"
  /\ MayWrite(r)
  /\ writeQueue' = Tail(writeQueue)
  /\ session_handles' = [session_handles EXCEPT ![sess[r]] = r]

\* A prompt goes on with the handle it has inserted ...
InsertForPrompt(r) ==
  /\ kind[r] = "prompt"
  /\ InsertHandle(r)
  /\ handle' = [handle EXCEPT ![r] = r]
  /\ phase' = [phase EXCEPT ![r] = "register"]
  /\ UNCHANGED <<connVars, argVars, cwd, told, taskVars, aborted, abort_handles,
                 session_cwd, httpVars, overtaken>>

\* ... and new_chat answers with chat_cleared, which names the new session.
InsertForNewChat(r) ==
  /\ kind[r] = "new_chat"
  /\ InsertHandle(r)
  /\ phase' = [phase EXCEPT ![r] = "done"]
  /\ told' = [told EXCEPT ![r] = @ \cup {"cleared"}]
  /\ UNCHANGED <<connVars, argVars, cwd, handle, taskVars, aborted, abort_handles,
                 session_cwd, httpVars, overtaken>>

\* Store the abort handle, replacing the one of any other prompt of the
\* session, and spawn the agent task.
RegisterAbort(r) ==
  /\ phase[r] = "register"
  /\ abort_handles' = [abort_handles EXCEPT ![sess[r]] = r]
  /\ task' = [task EXCEPT ![r] = "waiting"]
  /\ phase' = [phase EXCEPT ![r] = "forward"]
  /\ UNCHANGED <<connVars, argVars, cwd, handle, told, failed, emitted, pending,
                 aborted, session_handles, session_cwd, writeQueue, httpVars,
                 overtaken>>

\* Mutant: an event is counted as forwarded whether or not there was one.
ForwardEventBlindly(r) ==
  /\ phase[r] = "forward"
  /\ pending' = [pending EXCEPT ![r] = @ - 1]
  /\ UNCHANGED <<connVars, phase, argVars, cwd, handle, told, task, failed,
                 emitted, aborted, mapVars, httpVars, overtaken>>

\* rx.recv() yields an event and the frame is handed to the socket.  A send
\* to a peer that is gone may still succeed.
ForwardEvent(r) ==
  /\ phase[r] = "forward"
  /\ pending[r] > 0
  /\ pending' = [pending EXCEPT ![r] = @ - 1]
  /\ UNCHANGED <<connVars, phase, argVars, cwd, handle, told, task, failed,
                 emitted, aborted, mapVars, httpVars, overtaken>>

\* The send failed: "Client disconnected", the loop is left although the
\* agent task is still running.
ForwardBreaks(r) ==
  /\ phase[r] = "forward"
  /\ pending[r] > 0
  /\ ~clientUp[conn[r]]
  /\ pending' = [pending EXCEPT ![r] = @ - 1]
  /\ phase' = [phase EXCEPT ![r] = "report"]
  /\ UNCHANGED <<connVars, argVars, cwd, handle, told, task, failed, emitted,
                 aborted, mapVars, httpVars, overtaken>>

\* Mutant: the loop ends when the run has returned, with events still queued.
StreamEndsUndrained(r) ==
  /\ phase[r] = "forward"
  /\ task[r] \in {"returned", "ended"}
  /\ phase' = [phase EXCEPT ![r] = "report"]
  /\ UNCHANGED <<connVars, argVars, cwd, handle, told, taskVars, aborted,
                 mapVars, httpVars, overtaken>>

\* rx.recv() yields None: the callback that owned tx is gone.
StreamEnds(r) ==
  /\ phase[r] = "forward"
  /\ pending[r] = 0
  /\ task[r] \in {"returned", "ended"}
  /\ phase' = [phase EXCEPT ![r] = "report"]
  /\ UNCHANGED <<connVars, argVars, cwd, handle, told, taskVars, aborted,
                 mapVars, httpVars, overtaken>>

\* err_rx.try_recv() does not wait: it finds a message only if the task has
\* already sent one.  prompt_complete follows in any case.
Report(r) ==
  /\ phase[r] = "report"
  /\ told' = [told EXCEPT ![r] = @ \cup {"complete"} \cup
                (IF task[r] = "ended" /\ r \in failed THEN {"error"} ELSE {})]
  /\ phase' = [phase EXCEPT ![r] = "cleanup"]
  /\ UNCHANGED <<connVars, argVars, cwd, handle, taskVars, aborted, mapVars,
                 httpVars, overtaken>>

\* Mutant: an early return after a failed send skips the cleanup.
RemoveAbortIfConnected(r) ==
  /\ phase[r] = "cleanup"
  /\ IF clientUp[conn[r]]
       THEN abort_handles' = [abort_handles EXCEPT ![sess[r]] = None]
       ELSE UNCHANGED abort_handles
  /\ phase' = [phase EXCEPT ![r] = "label"]
  /\ UNCHANGED <<connVars, argVars, cwd, handle, told, taskVars, aborted,
                 session_handles, session_cwd, writeQueue, httpVars, overtaken>>

\* abort_handles.remove(&session_id): the entry of the session, whoever put it
\* there and whether or not the agent task is over.
RemoveAbort(r) ==
  /\ phase[r] = "cleanup"
  /\ abort_handles' = [abort_handles EXCEPT ![sess[r]] = None]
  /\ phase' = [phase EXCEPT ![r] = "label"]
  /\ UNCHANGED <<connVars, argVars, cwd, handle, told, taskVars, aborted,
                 session_handles, session_cwd, writeQueue, httpVars, overtaken>>

\* Label generation touches only the session file; the connection reads its
\* next message after it.
FinishLabel(r) ==
  /\ phase[r] = "label"
  /\ phase' = [phase EXCEPT ![r] = "done"]
  /\ UNCHANGED <<connVars, argVars, cwd, handle, told, taskVars, aborted,
                 mapVars, httpVars, overtaken>>

-----------------------------------------------------------------------------
(* The spawned agent task *)

LockHandle(r) ==
  /\ task[r] = "waiting"
  /\ ~Locked(handle[r])
  /\ task' = [task EXCEPT ![r] = "running"]
  /\ UNCHANGED <<connVars, phase, argVars, cwd, handle, told, failed, emitted,
                 pending, aborted, mapVars, httpVars, overtaken>>

EmitEvent(r) ==
  /\ task[r] = "running"
  /\ emitted[r] < MaxEvents
  /\ emitted' = [emitted EXCEPT ![r] = @ + 1]
  /\ pending' = [pending EXCEPT ![r] = @ + 1]
  /\ UNCHANGED <<connVars, phase, argVars, cwd, handle, told, task, failed,
                 aborted, mapVars, httpVars, overtaken>>

\* prompt_with_abort returns, of its own accord or because the signal fired;
\* the callback and the event sender inside it are dropped here.
RunReturns(r) ==
  /\ task[r] = "running"
  /\ task' = [task EXCEPT ![r] = "returned"]
  /\ \/ failed' = failed \cup {r}
     \/ UNCHANGED failed
  /\ UNCHANGED <<connVars, phase, argVars, cwd, handle, told, emitted, pending,
                 aborted, mapVars, httpVars, overtaken>>

\* Mutant: the error path keeps the session's mutex.
TaskEndsOnSuccess(r) ==
  /\ task[r] = "returned" /\ r \notin failed
  /\ task' = [task EXCEPT ![r] = "ended"]
  /\ UNCHANGED <<connVars, phase, argVars, cwd, handle, told, failed, emitted,
                 pending, aborted, mapVars, httpVars, overtaken>>

\* The error, if any, goes into the oneshot channel and the mutex guard is
\* dropped at the end of the task.
TaskEnds(r) ==
  /\ task[r] = "returned"
  /\ task' = [task EXCEPT ![r] = "ended"]
  /\ UNCHANGED <<connVars, phase, argVars, cwd, handle, told, failed, emitted,
                 pending, aborted, mapVars, httpVars, overtaken>>

-----------------------------------------------------------------------------
(* HTTP endpoints *)

\* Mutant: a stop fires the signal of every run the session ever started.
StopWholeSession(s) ==
  /\ aborted' = aborted \cup {r \in Req : sess[r] = s /\ task[r] # "none"}
  /\ UNCHANGED <<connVars, phase, argVars, cwd, handle, told, taskVars, mapVars,
                 httpVars, overtaken>>

\* POST /api/stop fires whatever abort handle the session has now.
StopAgent(s) ==
  /\ abort_handles[s] # None
  /\ aborted' = aborted \cup {abort_handles[s]}
  /\ UNCHANGED <<connVars, phase, argVars, cwd, handle, told, taskVars, mapVars,
                 httpVars, overtaken>>

\* POST /api/project, after the session file is written: store the directory...
StoreProject(p, s, d) ==
  /\ proj[p] = "idle" /\ Disclosed(s)
  /\ session_cwd' = [session_cwd EXCEPT ![s] = d]
  /\ proj' = [proj EXCEPT ![p] = "stored"]
  /\ projSess' = [projSess EXCEPT ![p] = s]
  /\ UNCHANGED <<connVars, phase, argVars, cwd, handle, told, taskVars, aborted,
                 session_handles, abort_handles, writeQueue, thinkVars, overtaken>>

\* ... queue for the write lock on session_handles ...
QueueDrop(p) ==
  /\ proj[p] = "stored"
  /\ proj' = [proj EXCEPT ![p] = "queued"]
  /\ writeQueue' = Append(writeQueue, p)
  /\ UNCHANGED <<connVars, phase, argVars, cwd, handle, told, taskVars, aborted,
                 session_handles, abort_handles, session_cwd, projSess, thinkVars,
                 overtaken>>

\* Mutant: the old handle is kept.
DropHandleForgotten(p) ==
  /\ proj[p] = "queued"
  /\ MayWrite(p)
  /\ writeQueue' = Tail(writeQueue)
  /\ proj' = [proj EXCEPT ![p] = "done"]
  /\ overtaken' = overtaken \cup
       {r \in Req : sess[r] = projSess[p] /\ phase[r] \in {"create", "insertHandle"}}
  /\ UNCHANGED <<connVars, phase, argVars, cwd, handle, told, taskVars, aborted,
                 session_handles, abort_handles, session_cwd, projSess, thinkVars>>

\* ... and drop the session's handle, so that the next prompt creates one.
DropHandle(p) ==
  /\ proj[p] = "queued"
  /\ MayWrite(p)
  /\ writeQueue' = Tail(writeQueue)
  /\ session_handles' = [session_handles EXCEPT ![projSess[p]] = None]
  /\ proj' = [proj EXCEPT ![p] = "done"]
  /\ overtaken' = overtaken \cup
       {r \in Req : sess[r] = projSess[p] /\ phase[r] \in {"create", "insertHandle"}}
  /\ UNCHANGED <<connVars, phase, argVars, cwd, handle, told, taskVars, aborted,
                 abort_handles, session_cwd, projSess, thinkVars>>

\* GET and POST /api/thinking take the read lock on session_handles and, with
\* it held, wait for the mutex of the session's handle.
ThinkEnter(t, s) ==
  /\ think[t] = "idle" /\ Disclosed(s)
  /\ MayRead
  /\ think' = [think EXCEPT ![t] = "holding"]
  /\ thinkSess' = [thinkSess EXCEPT ![t] = s]
  /\ UNCHANGED <<connVars, phase, argVars, cwd, handle, told, taskVars, aborted,
                 mapVars, projVars, overtaken>>

ThinkLeave(t) ==
  /\ think[t] = "holding"
  /\ \/ session_handles[thinkSess[t]] = None
     \/ ~Locked(session_handles[thinkSess[t]])
  /\ think' = [think EXCEPT ![t] = "done"]
  /\ UNCHANGED <<connVars, phase, argVars, cwd, handle, told, taskVars, aborted,
                 mapVars, projVars, thinkSess, overtaken>>

-----------------------------------------------------------------------------
(* Nothing is in flight: the server waits for its next message. *)
Rest ==
  /\ \A r \in Req : phase[r] \in {"unsent", "done"} /\ task[r] \in {"none", "ended"}
  /\ \A p \in Proj : proj[p] \in {"idle", "done"}
  /\ \A t \in Think : think[t] \in {"idle", "done"}
  /\ UNCHANGED vars

Handler(r) ==
  \/ FindHandle(r) \/ MissHandle(r)
  \/ ReadCwd(r) \/ CreateSucceeds(r) \/ CreateFails(r)
  \/ InsertForPrompt(r) \/ InsertForNewChat(r) \/ RegisterAbort(r)
  \/ ForwardEvent(r) \/ ForwardBreaks(r) \/ StreamEnds(r)
  \/ Report(r) \/ RemoveAbort(r) \/ FinishLabel(r)

AgentTask(r) == LockHandle(r) \/ EmitEvent(r) \/ RunReturns(r) \/ TaskEnds(r)

Next ==
  \/ \E c \in Conn, r \in Req, s \in Session :
       \/ ReceivePrompt(c, r, s)
       \/ \E d \in Cwd : ReceiveNewChat(c, r, s, d)
  \/ \E c \in Conn : Disconnect(c) \/ CloseSocket(c)
  \/ \E r \in Req : Handler(r) \/ AgentTask(r)
  \/ \E s \in Session : StopAgent(s)
  \/ \E p \in Proj, s \in Session, d \in Cwd : StoreProject(p, s, d)
  \/ \E p \in Proj : QueueDrop(p) \/ DropHandle(p)
  \/ \E t \in Think, s \in Session : ThinkEnter(t, s)
  \/ \E t \in Think : ThinkLeave(t)
  \/ Rest

Spec == Init /\ [][Next]_vars

(***************************************************************************)
(* Fairness.  tokio polls every ready task, so an enabled handler or HTTP   *)
(* step is taken.  Its Mutex and RwLock queue waiters in order, so a waiter *)
(* for a lock that is free again and again gets it: strong fairness for the *)
(* steps that wait on a session handle.  An agent run is assumed to return  *)
(* (provider requests end or fail); clients owe nothing.                   *)
(***************************************************************************)
Fairness ==
  /\ \A r \in Req : /\ WF_vars(Handler(r))
                    /\ SF_vars(LockHandle(r))
                    /\ WF_vars(RunReturns(r))
                    /\ WF_vars(TaskEnds(r))
  /\ \A p \in Proj : WF_vars(QueueDrop(p)) /\ WF_vars(DropHandle(p))
  /\ \A t \in Think : SF_vars(ThinkLeave(t))

FairSpec == Spec /\ Fairness

-----------------------------------------------------------------------------
(* Safety *)

\* Phases in which a prompt's abort handle has been stored and not yet removed.
Registered == {"forward", "report", "cleanup"}

\* Whatever POST /api/stop finds in abort_handles belongs to a prompt of that
\* very session whose handler has not yet cleaned up: overwriting and removing
\* by session id never leaves the handle of a finished prompt behind, on the
\* paths where the client disconnected too (ws.rs, insert and remove).
AbortEntryLive ==
  \A s \in Session :
    abort_handles[s] # None =>
      /\ sess[abort_handles[s]] = s
      /\ phase[abort_handles[s]] \in Registered

\* A prompt only ever runs on a session handle created for its own session,
\* and that handle is fully created: no interleaving of lookups, racing
\* creations and set_project hands a prompt another session's sandbox.
HandleOfOwnSession ==
  /\ \A r \in Req : handle[r] # None =>
       sess[handle[r]] = sess[r] /\ phase[handle[r]] \notin {"unsent", "create", "insertHandle"}
  /\ \A s \in Session : session_handles[s] # None => sess[session_handles[s]] = s

\* prompt_complete reaches a client that stayed connected only after its run
\* has returned and every event of the run was forwarded (ws.rs 392-412).
CompleteMeansDrained ==
  \A r \in Req :
    "complete" \in told[r] /\ clientUp[conn[r]] =>
      task[r] \in {"returned", "ended"} /\ pending[r] = 0

\* The sandbox boundary: a handle stored for a session was created with the
\* session's current directory, unless a set_project is still between its two
\* writes or dropped the old handle while this one was being created.
BoundaryCurrent ==
  \A s \in Session :
    LET h == session_handles[s] IN
    h # None /\ cwd[h] # session_cwd[s] =>
      \/ h \in overtaken
      \/ \E p \in Proj : projSess[p] = s /\ proj[p] \in {"stored", "queued"}

\* A stop is final and precise: a signal fires only for a prompt that is still
\* registered, and it is never withdrawn.
StopIsPrecise ==
  [][/\ aborted \subseteq aborted'
     /\ \A r \in aborted' \ aborted : phase[r] \in Registered /\ abort_handles[sess[r]] = r]_vars

\* How far a stop can be relied on: a connected client whose connection alone
\* has prompted a session stops its prompt, for its connection is read one
\* message at a time, so that no other cleanup removes the entry (ws.rs 304-428).
LoneStopReaches ==
  \A r \in Req :
    /\ task[r] \in {"waiting", "running"} /\ clientUp[conn[r]]
    /\ \A q \in Req : sess[q] = sess[r] /\ task[q] # "none" => conn[q] = conn[r]
    => abort_handles[sess[r]] = r

\* How a prompt stands, from its registration on.
Stage(r) ==
  CASE task[r] = "none" -> "new"
    [] task[r] # "none" /\ phase[r] \in {"forward", "report"} -> "open"
    [] task[r] # "none" /\ phase[r] = "cleanup" -> "told"
    [] OTHER -> "over"

IfSpawned(r, v) == IF task[r] = "none" THEN None ELSE v

Service == INSTANCE PromptService WITH
  Prompt <- Req, Handle <- Req,
  stage <- [r \in Req |-> Stage(r)],
  of <- [r \in Req |-> IfSpawned(r, sess[r])],
  on <- [r \in Req |-> IfSpawned(r, handle[r])],
  run <- task,
  coming <- pending,
  deaf <- {r \in Req : task[r] # "none" /\ ~clientUp[conn[r]]},
  entry <- abort_handles,
  fired <- aborted

\* Whatever handlers, tasks, stops, set_projects and disconnects interleave to:
\* a session handle runs one prompt at a time, a connected client is told of
\* the end after everything else, and a stop fires one prompt that is under way.
PromptsServed == Service!Spec

-----------------------------------------------------------------------------
(* What the comments of the code say, and the code does not do *)

\* "Uses an abort handle that is stored in AppState::abort_handles and removed
\* after the prompt finishes, so POST /api/stop can cancel it mid-run"
\* (ws.rs 304-306): while a prompt's agent run is in progress and its client
\* is waiting, the session's entry is the prompt's own.
StopCanCancel ==
  \A r \in Req :
    task[r] \in {"waiting", "running"} /\ clientUp[conn[r]] =>
      abort_handles[sess[r]] = r

\* "Surface any agent error to the frontend" (ws.rs 400): a client that stayed
\* connected and was told its prompt is complete was also told of its failure.
ErrorSurfaced ==
  \A r \in Req :
    r \in failed /\ "complete" \in told[r] /\ clientUp[conn[r]] => "error" \in told[r]

\* "Drop the existing pi session handle so the next prompt spawns a fresh
\* session with the updated working directory as its sandbox boundary"
\* (agent_endpoints.rs 276-277): once a set_project is over, a stored handle
\* has the session's directory.
ProjectTakesEffect ==
  \A s \in Session :
    /\ session_handles[s] # None
    /\ \A p \in Proj : projSess[p] = s => proj[p] = "done"
    => cwd[session_handles[s]] = session_cwd[s]

-----------------------------------------------------------------------------
(* Liveness *)

\* Every prompt and every new_chat the server starts to handle is answered and
\* its connection becomes free for the next message, whatever thinking and
\* project requests hold and wait for the same locks.
EveryRequestFinishes == \A r \in Req : phase[r] # "unsent" ~> phase[r] = "done"
=============================================================================
