-------------------------- MODULE AgentServerProofs --------------------------
(***************************************************************************)
(* Safety of the agent server for any connections, requests, sessions and  *)
(* directories.  The invariant the theorems rest on, Inv, joins the type   *)
(* invariant with what the handlers know about the maps between two awaits. *)
(***************************************************************************)
EXTENDS AgentServer, SequenceTheorems, TLAPS

\* Phases before a request has published a session handle.
Unpublished == {"unsent", "lookup", "readCwd", "create", "insertHandle"}

\* A request that was received names a connection and a session.
Addressed ==
  \A r \in Req : phase[r] # "unsent" => sess[r] \in Session /\ conn[r] \in Conn

\* The channel of a run holds only events the run emitted.
Counted == \A r \in Req : pending[r] <= emitted[r]

\* Map entries and the handles in use were published by a request for the same
\* session; a request keeps its directory from then on.
Published ==
  /\ \A r \in Req : handle[r] # None =>
       /\ phase[r] \notin Unpublished
       /\ sess[handle[r]] = sess[r] /\ phase[handle[r]] \notin Unpublished
  /\ \A s \in Session : session_handles[s] # None =>
       sess[session_handles[s]] = s /\ phase[session_handles[s]] \notin Unpublished

\* Some set_project for s is between its two writes.
ProjectPending(s) ==
  \E p \in Proj : projSess[p] = s /\ proj[p] \in {"stored", "queued"}

\* What BoundaryCurrent says of a stored handle, said of one being created.
CreationCurrent ==
  \A r \in Req :
    phase[r] \in {"create", "insertHandle"} /\ cwd[r] # session_cwd[sess[r]] =>
      r \in overtaken \/ ProjectPending(sess[r])

\* Directories of handles that are stored and of handles being created.
Current == CreationCurrent /\ BoundaryCurrent

\* The run has returned and every event was taken out of the channel.
Drained(r) == task[r] \in {"returned", "ended"} /\ pending[r] = 0

\* "complete" is said after the forwarding loop, which a connected client's
\* handler leaves only at the end of the stream.
DrainedAfterLoop ==
  \A r \in Req :
    /\ "complete" \in told[r] => phase[r] \in {"cleanup", "label", "done"}
    /\ (phase[r] = "report" \/ "complete" \in told[r]) /\ clientUp[conn[r]] => Drained(r)

\* The messages of one connection are handled one after another, and a prompt
\* has a task from the time it is registered.
InFlight(r) == phase[r] \notin {"unsent", "done"}
OneAtATime == \A q, r \in Req : InFlight(q) /\ InFlight(r) /\ conn[q] = conn[r] => q = r
Spawned ==
  \A r \in Req :
    /\ phase[r] \in Unpublished \cup {"register"} => task[r] = "none"
    /\ phase[r] \in Registered => task[r] # "none"

\* No other connection has prompted the session of r.
Alone(r) == \A q \in Req : sess[q] = sess[r] /\ task[q] # "none" => conn[q] = conn[r]

\* A prompt of a connected client leaves its loop with its run, and the entry of
\* a session prompted from one connection is the prompt's own.
Reachable ==
  \A r \in Req :
    /\ task[r] \in {"waiting", "running"} /\ clientUp[conn[r]] => phase[r] = "forward"
    /\ phase[r] \in Registered /\ Alone(r) => abort_handles[sess[r]] = r

Lone == OneAtATime /\ Spawned /\ Reachable

\* A prompt is registered and runs with a session handle.
Handled == \A r \in Req : phase[r] = "register" \/ task[r] # "none" => handle[r] \in Req

\* Those that wait for the write lock on session_handles are in its queue, once,
\* and nobody else is.
Queues(q, waiting) ==
  /\ \A i \in DOMAIN q : q[i] \in waiting
  /\ \A w \in waiting : \E i \in DOMAIN q : q[i] = w
  /\ \A i, j \in DOMAIN q : i # j => q[i] # q[j]
Writers == {r \in Req : phase[r] = "insertHandle"} \cup {p \in Proj : proj[p] = "queued"}
WritersQueued == Queues(writeQueue, Writers)

\* Nothing is in flight, as Rest has it.
AtRest ==
  /\ \A r \in Req : phase[r] \in {"unsent", "done"} /\ task[r] \in {"none", "ended"}
  /\ \A p \in Proj : proj[p] \in {"idle", "done"}
  /\ \A t \in Think : think[t] \in {"idle", "done"}

\* What is in flight and finds the guards of one of its steps open: it has what
\* it waits for, or waits for nothing.
HandlerGoesOn(r) ==
  \/ phase[r] \in {"readCwd", "create", "register", "report", "cleanup", "label"}
  \/ phase[r] = "lookup" /\ MayRead
  \/ phase[r] = "insertHandle" /\ MayWrite(r)
  \/ phase[r] = "forward" /\ (pending[r] > 0 \/ task[r] \in {"returned", "ended"})
TaskGoesOn(r) == task[r] \in {"running", "returned"} \/ (task[r] = "waiting" /\ ~Locked(handle[r]))
ProjectGoesOn(p) == proj[p] = "stored" \/ (proj[p] = "queued" /\ MayWrite(p))
ThinkingGoesOn(t) ==
  think[t] = "holding" /\ (session_handles[thinkSess[t]] = None \/ ~Locked(session_handles[thinkSess[t]]))

SomebodyGoesOn ==
  \/ \E r \in Req : HandlerGoesOn(r) \/ TaskGoesOn(r)
  \/ \E p \in Proj : ProjectGoesOn(p)
  \/ \E t \in Think : ThinkingGoesOn(t)

-----------------------------------------------------------------------------
\* The inductive strengthening of the type invariant.
Typed == TypeOK /\ Addressed /\ Counted

LEMMA TypedInit == Init => Typed
  BY AgentAssumption DEF Init, Typed, Addressed, Counted, TypeOK, Phase,
       TaskState, ProjStage, ThinkStage

LEMMA WriterLeaves ==
  ASSUME TypeOK, NEW w, MayWrite(w)
  PROVE  Tail(writeQueue) \in Seq(Req \cup Proj)
  <1>1. writeQueue \in Seq(Req \cup Proj) /\ writeQueue # <<>>
    BY DEF TypeOK, MayWrite
  <1> QED BY <1>1, HeadTailProperties

LEMMA TypedNext == Typed /\ [Next]_vars => Typed'
  <1> SUFFICES ASSUME Typed, [Next]_vars PROVE Typed'
    OBVIOUS
  <1> USE AgentAssumption DEF Typed, TypeOK, Addressed, Counted, Phase, TaskState, Frame,
        ProjStage, ThinkStage,
        connVars, argVars, taskVars, mapVars, projVars, thinkVars, httpVars
  <1>1. ASSUME NEW c \in Conn, NEW r \in Req, NEW s \in Session,
               ReceivePrompt(c, r, s) PROVE Typed'
    BY <1>1 DEF ReceivePrompt
  <1>2. ASSUME NEW c \in Conn, NEW r \in Req, NEW s \in Session, NEW d \in Cwd,
               ReceiveNewChat(c, r, s, d) PROVE Typed'
    BY <1>2 DEF ReceiveNewChat
  <1>3. ASSUME NEW c \in Conn, Disconnect(c) PROVE Typed'
    BY <1>3 DEF Disconnect
  <1>4. ASSUME NEW c \in Conn, CloseSocket(c) PROVE Typed'
    BY <1>4 DEF CloseSocket
  <1>5. ASSUME NEW r \in Req, FindHandle(r) PROVE Typed'
    BY <1>5 DEF FindHandle
  <1>6. ASSUME NEW r \in Req, MissHandle(r) PROVE Typed'
    BY <1>6 DEF MissHandle
  <1>7. ASSUME NEW r \in Req, ReadCwd(r) PROVE Typed'
    BY <1>7 DEF ReadCwd
  <1>8. ASSUME NEW r \in Req, CreateSucceeds(r) PROVE Typed'
    BY <1>8 DEF CreateSucceeds
  <1>9. ASSUME NEW r \in Req, CreateFails(r) PROVE Typed'
    BY <1>9 DEF CreateFails
  <1>10. ASSUME NEW r \in Req, InsertForPrompt(r) PROVE Typed'
    <2>1. Tail(writeQueue) \in Seq(Req \cup Proj)
      BY <1>10, WriterLeaves DEF InsertForPrompt, InsertHandle
    <2> QED BY <1>10, <2>1 DEF InsertForPrompt, InsertHandle
  <1>11. ASSUME NEW r \in Req, InsertForNewChat(r) PROVE Typed'
    <2>1. Tail(writeQueue) \in Seq(Req \cup Proj)
      BY <1>11, WriterLeaves DEF InsertForNewChat, InsertHandle
    <2> QED BY <1>11, <2>1 DEF InsertForNewChat, InsertHandle
  <1>12. ASSUME NEW r \in Req, RegisterAbort(r) PROVE Typed'
    BY <1>12 DEF RegisterAbort
  <1>13. ASSUME NEW r \in Req, ForwardEvent(r) PROVE Typed'
    BY <1>13 DEF ForwardEvent
  <1>14. ASSUME NEW r \in Req, ForwardBreaks(r) PROVE Typed'
    BY <1>14 DEF ForwardBreaks
  <1>15. ASSUME NEW r \in Req, StreamEnds(r) PROVE Typed'
    BY <1>15 DEF StreamEnds
  <1>16. ASSUME NEW r \in Req, Report(r) PROVE Typed'
    BY <1>16 DEF Report
  <1>17. ASSUME NEW r \in Req, RemoveAbort(r) PROVE Typed'
    BY <1>17 DEF RemoveAbort
  <1>18. ASSUME NEW r \in Req, FinishLabel(r) PROVE Typed'
    BY <1>18 DEF FinishLabel
  <1>19. ASSUME NEW r \in Req, LockHandle(r) PROVE Typed'
    BY <1>19 DEF LockHandle
  <1>20. ASSUME NEW r \in Req, EmitEvent(r) PROVE Typed'
    BY <1>20 DEF EmitEvent
  <1>21. ASSUME NEW r \in Req, RunReturns(r) PROVE Typed'
    BY <1>21 DEF RunReturns
  <1>22. ASSUME NEW r \in Req, TaskEnds(r) PROVE Typed'
    BY <1>22 DEF TaskEnds
  <1>23. ASSUME NEW s \in Session, StopAgent(s) PROVE Typed'
    BY <1>23 DEF StopAgent
  <1>24. ASSUME NEW p \in Proj, NEW s \in Session, NEW d \in Cwd,
               StoreProject(p, s, d) PROVE Typed'
    BY <1>24 DEF StoreProject
  <1>25. ASSUME NEW p \in Proj, QueueDrop(p) PROVE Typed'
    <2>1. Append(writeQueue, p) \in Seq(Req \cup Proj)
      BY AppendProperties
    <2> QED BY <1>25, <2>1 DEF QueueDrop
  <1>26. ASSUME NEW p \in Proj, DropHandle(p) PROVE Typed'
    <2>1. Tail(writeQueue) \in Seq(Req \cup Proj)
      BY <1>26, WriterLeaves DEF DropHandle
    <2> QED BY <1>26, <2>1 DEF DropHandle
  <1>27. ASSUME NEW t \in Think, NEW s \in Session, ThinkEnter(t, s) PROVE Typed'
    BY <1>27 DEF ThinkEnter
  <1>28. ASSUME NEW t \in Think, ThinkLeave(t) PROVE Typed'
    BY <1>28 DEF ThinkLeave
  <1>29. CASE UNCHANGED vars
    BY <1>29 DEF vars
  <1> QED
    BY <1>1, <1>2, <1>3, <1>4, <1>5, <1>6, <1>7, <1>8, <1>9, <1>10, <1>11,
       <1>12, <1>13, <1>14, <1>15, <1>16, <1>17, <1>18, <1>19, <1>20,
       <1>21, <1>22, <1>23, <1>24, <1>25, <1>26, <1>27, <1>28, <1>29
       DEF Next, Handler, AgentTask, Rest

LEMMA AbortEntryNext == Typed /\ AbortEntryLive /\ [Next]_vars => AbortEntryLive'
  <1> SUFFICES ASSUME Typed /\ AbortEntryLive, [Next]_vars PROVE AbortEntryLive'
    OBVIOUS
  <1> USE AgentAssumption DEF AbortEntryLive, Registered, Typed, TypeOK, Addressed,
        connVars, argVars, taskVars, mapVars, projVars, thinkVars, httpVars
  <1>1. ASSUME NEW c \in Conn, NEW r \in Req, NEW s \in Session,
               ReceivePrompt(c, r, s) PROVE AbortEntryLive'
    BY <1>1 DEF ReceivePrompt
  <1>2. ASSUME NEW c \in Conn, NEW r \in Req, NEW s \in Session, NEW d \in Cwd,
               ReceiveNewChat(c, r, s, d) PROVE AbortEntryLive'
    BY <1>2 DEF ReceiveNewChat
  <1>3. ASSUME NEW c \in Conn, Disconnect(c) PROVE AbortEntryLive'
    BY <1>3 DEF Disconnect
  <1>4. ASSUME NEW c \in Conn, CloseSocket(c) PROVE AbortEntryLive'
    BY <1>4 DEF CloseSocket
  <1>5. ASSUME NEW r \in Req, FindHandle(r) PROVE AbortEntryLive'
    BY <1>5 DEF FindHandle
  <1>6. ASSUME NEW r \in Req, MissHandle(r) PROVE AbortEntryLive'
    BY <1>6 DEF MissHandle
  <1>7. ASSUME NEW r \in Req, ReadCwd(r) PROVE AbortEntryLive'
    BY <1>7 DEF ReadCwd
  <1>8. ASSUME NEW r \in Req, CreateSucceeds(r) PROVE AbortEntryLive'
    BY <1>8 DEF CreateSucceeds
  <1>9. ASSUME NEW r \in Req, CreateFails(r) PROVE AbortEntryLive'
    BY <1>9 DEF CreateFails
  <1>10. ASSUME NEW r \in Req, InsertForPrompt(r) PROVE AbortEntryLive'
    BY <1>10 DEF InsertForPrompt, InsertHandle
  <1>11. ASSUME NEW r \in Req, InsertForNewChat(r) PROVE AbortEntryLive'
    BY <1>11 DEF InsertForNewChat, InsertHandle
  <1>12. ASSUME NEW r \in Req, RegisterAbort(r) PROVE AbortEntryLive'
    BY <1>12 DEF RegisterAbort
  <1>13. ASSUME NEW r \in Req, ForwardEvent(r) PROVE AbortEntryLive'
    BY <1>13 DEF ForwardEvent
  <1>14. ASSUME NEW r \in Req, ForwardBreaks(r) PROVE AbortEntryLive'
    BY <1>14 DEF ForwardBreaks
  <1>15. ASSUME NEW r \in Req, StreamEnds(r) PROVE AbortEntryLive'
    BY <1>15 DEF StreamEnds
  <1>16. ASSUME NEW r \in Req, Report(r) PROVE AbortEntryLive'
    BY <1>16 DEF Report
  <1>17. ASSUME NEW r \in Req, RemoveAbort(r) PROVE AbortEntryLive'
    BY <1>17 DEF RemoveAbort
  <1>18. ASSUME NEW r \in Req, FinishLabel(r) PROVE AbortEntryLive'
    BY <1>18 DEF FinishLabel
  <1>19. ASSUME NEW r \in Req, LockHandle(r) PROVE AbortEntryLive'
    BY <1>19 DEF LockHandle
  <1>20. ASSUME NEW r \in Req, EmitEvent(r) PROVE AbortEntryLive'
    BY <1>20 DEF EmitEvent
  <1>21. ASSUME NEW r \in Req, RunReturns(r) PROVE AbortEntryLive'
    BY <1>21 DEF RunReturns
  <1>22. ASSUME NEW r \in Req, TaskEnds(r) PROVE AbortEntryLive'
    BY <1>22 DEF TaskEnds
  <1>23. ASSUME NEW s \in Session, StopAgent(s) PROVE AbortEntryLive'
    BY <1>23 DEF StopAgent
  <1>24. ASSUME NEW p \in Proj, NEW s \in Session, NEW d \in Cwd,
               StoreProject(p, s, d) PROVE AbortEntryLive'
    BY <1>24 DEF StoreProject
  <1>25. ASSUME NEW p \in Proj, QueueDrop(p) PROVE AbortEntryLive'
    BY <1>25 DEF QueueDrop
  <1>26. ASSUME NEW p \in Proj, DropHandle(p) PROVE AbortEntryLive'
    BY <1>26 DEF DropHandle
  <1>27. ASSUME NEW t \in Think, NEW s \in Session, ThinkEnter(t, s) PROVE AbortEntryLive'
    BY <1>27 DEF ThinkEnter
  <1>28. ASSUME NEW t \in Think, ThinkLeave(t) PROVE AbortEntryLive'
    BY <1>28 DEF ThinkLeave
  <1>29. CASE UNCHANGED vars
    BY <1>29 DEF vars
  <1> QED
    BY <1>1, <1>2, <1>3, <1>4, <1>5, <1>6, <1>7, <1>8, <1>9, <1>10, <1>11,
       <1>12, <1>13, <1>14, <1>15, <1>16, <1>17, <1>18, <1>19, <1>20,
       <1>21, <1>22, <1>23, <1>24, <1>25, <1>26, <1>27, <1>28, <1>29
       DEF Next, Handler, AgentTask, Rest

LEMMA PublishedNext == Typed /\ Published /\ [Next]_vars => Published'
  <1> SUFFICES ASSUME Typed /\ Published, [Next]_vars PROVE Published'
    OBVIOUS
  <1> USE AgentAssumption DEF Published, Unpublished, Typed, TypeOK, Addressed,
        connVars, argVars, taskVars, mapVars, projVars, thinkVars, httpVars
  <1>1. ASSUME NEW c \in Conn, NEW r \in Req, NEW s \in Session,
               ReceivePrompt(c, r, s) PROVE Published'
    BY <1>1 DEF ReceivePrompt
  <1>2. ASSUME NEW c \in Conn, NEW r \in Req, NEW s \in Session, NEW d \in Cwd,
               ReceiveNewChat(c, r, s, d) PROVE Published'
    BY <1>2 DEF ReceiveNewChat
  <1>3. ASSUME NEW c \in Conn, Disconnect(c) PROVE Published'
    BY <1>3 DEF Disconnect
  <1>4. ASSUME NEW c \in Conn, CloseSocket(c) PROVE Published'
    BY <1>4 DEF CloseSocket
  <1>5. ASSUME NEW r \in Req, FindHandle(r) PROVE Published'
    BY <1>5 DEF FindHandle
  <1>6. ASSUME NEW r \in Req, MissHandle(r) PROVE Published'
    BY <1>6 DEF MissHandle
  <1>7. ASSUME NEW r \in Req, ReadCwd(r) PROVE Published'
    BY <1>7 DEF ReadCwd
  <1>8. ASSUME NEW r \in Req, CreateSucceeds(r) PROVE Published'
    BY <1>8 DEF CreateSucceeds
  <1>9. ASSUME NEW r \in Req, CreateFails(r) PROVE Published'
    BY <1>9 DEF CreateFails
  <1>10. ASSUME NEW r \in Req, InsertForPrompt(r) PROVE Published'
    BY <1>10 DEF InsertForPrompt, InsertHandle
  <1>11. ASSUME NEW r \in Req, InsertForNewChat(r) PROVE Published'
    BY <1>11 DEF InsertForNewChat, InsertHandle
  <1>12. ASSUME NEW r \in Req, RegisterAbort(r) PROVE Published'
    BY <1>12 DEF RegisterAbort
  <1>13. ASSUME NEW r \in Req, ForwardEvent(r) PROVE Published'
    BY <1>13 DEF ForwardEvent
  <1>14. ASSUME NEW r \in Req, ForwardBreaks(r) PROVE Published'
    BY <1>14 DEF ForwardBreaks
  <1>15. ASSUME NEW r \in Req, StreamEnds(r) PROVE Published'
    BY <1>15 DEF StreamEnds
  <1>16. ASSUME NEW r \in Req, Report(r) PROVE Published'
    BY <1>16 DEF Report
  <1>17. ASSUME NEW r \in Req, RemoveAbort(r) PROVE Published'
    BY <1>17 DEF RemoveAbort
  <1>18. ASSUME NEW r \in Req, FinishLabel(r) PROVE Published'
    BY <1>18 DEF FinishLabel
  <1>19. ASSUME NEW r \in Req, LockHandle(r) PROVE Published'
    BY <1>19 DEF LockHandle
  <1>20. ASSUME NEW r \in Req, EmitEvent(r) PROVE Published'
    BY <1>20 DEF EmitEvent
  <1>21. ASSUME NEW r \in Req, RunReturns(r) PROVE Published'
    BY <1>21 DEF RunReturns
  <1>22. ASSUME NEW r \in Req, TaskEnds(r) PROVE Published'
    BY <1>22 DEF TaskEnds
  <1>23. ASSUME NEW s \in Session, StopAgent(s) PROVE Published'
    BY <1>23 DEF StopAgent
  <1>24. ASSUME NEW p \in Proj, NEW s \in Session, NEW d \in Cwd,
               StoreProject(p, s, d) PROVE Published'
    BY <1>24 DEF StoreProject
  <1>25. ASSUME NEW p \in Proj, QueueDrop(p) PROVE Published'
    BY <1>25 DEF QueueDrop
  <1>26. ASSUME NEW p \in Proj, DropHandle(p) PROVE Published'
    BY <1>26 DEF DropHandle
  <1>27. ASSUME NEW t \in Think, NEW s \in Session, ThinkEnter(t, s) PROVE Published'
    BY <1>27 DEF ThinkEnter
  <1>28. ASSUME NEW t \in Think, ThinkLeave(t) PROVE Published'
    BY <1>28 DEF ThinkLeave
  <1>29. CASE UNCHANGED vars
    BY <1>29 DEF vars
  <1> QED
    BY <1>1, <1>2, <1>3, <1>4, <1>5, <1>6, <1>7, <1>8, <1>9, <1>10, <1>11,
       <1>12, <1>13, <1>14, <1>15, <1>16, <1>17, <1>18, <1>19, <1>20,
       <1>21, <1>22, <1>23, <1>24, <1>25, <1>26, <1>27, <1>28, <1>29
       DEF Next, Handler, AgentTask, Rest

LEMMA CurrentNext == Typed /\ Published /\ Current /\ [Next]_vars => Current'
  <1> SUFFICES ASSUME Typed /\ Published /\ Current, [Next]_vars PROVE Current'
    OBVIOUS
  <1> USE AgentAssumption DEF Current, CreationCurrent,
        BoundaryCurrent, ProjectPending, Published, Unpublished, Typed, TypeOK, Addressed,
        connVars, argVars, taskVars, mapVars, projVars, thinkVars, httpVars
  <1>1. ASSUME NEW c \in Conn, NEW r \in Req, NEW s \in Session,
               ReceivePrompt(c, r, s) PROVE Current'
    BY <1>1 DEF ReceivePrompt
  <1>2. ASSUME NEW c \in Conn, NEW r \in Req, NEW s \in Session, NEW d \in Cwd,
               ReceiveNewChat(c, r, s, d) PROVE Current'
    <2>1. \A q \in Req : q # r => cwd'[q] = cwd[q] /\ sess'[q] = sess[q] /\ phase'[q] = phase[q] /\ sess[q] # s
      BY <1>2 DEF ReceiveNewChat, Fresh
    <2>2. \A q \in Session : q # s => session_cwd'[q] = session_cwd[q]
      BY <1>2 DEF ReceiveNewChat
    <2>3. cwd'[r] = d /\ session_cwd'[s] = d /\ sess'[r] = s /\ phase[r] = "unsent"
      BY <1>2 DEF ReceiveNewChat
    <2>4. UNCHANGED <<session_handles, overtaken>>
      BY <1>2 DEF ReceiveNewChat
    <2>5. \A q \in Session : ProjectPending(q)' = ProjectPending(q)
      BY <1>2 DEF ReceiveNewChat
    <2>6. ASSUME NEW q \in Session, session_handles[q] # None
          PROVE  q # s /\ session_handles[q] # r
      BY <2>1, <2>3, <2>6
    <2>7. ASSUME NEW q \in Req, phase'[q] \in {"create", "insertHandle"},
                 cwd'[q] # session_cwd'[sess'[q]]
          PROVE  q \in overtaken \/ ProjectPending(sess'[q])
      <3>1. q # r
        BY <2>3, <2>7
      <3>2. /\ sess'[q] = sess[q] /\ sess[q] # s /\ sess[q] \in Session
            /\ cwd'[q] = cwd[q] /\ phase'[q] = phase[q]
        BY <3>1, <2>1, <2>7
      <3>3. session_cwd'[sess[q]] = session_cwd[sess[q]]
        BY <3>2, <2>2
      <3> QED BY <2>7, <3>2, <3>3
    <2>8. CreationCurrent'
      BY <2>4, <2>5, <2>7, <1>2 DEF ReceiveNewChat
    <2>9. BoundaryCurrent'
      BY <2>1, <2>2, <2>4, <2>5, <2>6, <1>2 DEF ReceiveNewChat
    <2> QED BY <2>8, <2>9
  <1>3. ASSUME NEW c \in Conn, Disconnect(c) PROVE Current'
    BY <1>3 DEF Disconnect
  <1>4. ASSUME NEW c \in Conn, CloseSocket(c) PROVE Current'
    BY <1>4 DEF CloseSocket
  <1>5. ASSUME NEW r \in Req, FindHandle(r) PROVE Current'
    BY <1>5 DEF FindHandle
  <1>6. ASSUME NEW r \in Req, MissHandle(r) PROVE Current'
    BY <1>6 DEF MissHandle
  <1>7. ASSUME NEW r \in Req, ReadCwd(r) PROVE Current'
    BY <1>7 DEF ReadCwd
  <1>8. ASSUME NEW r \in Req, CreateSucceeds(r) PROVE Current'
    BY <1>8 DEF CreateSucceeds
  <1>9. ASSUME NEW r \in Req, CreateFails(r) PROVE Current'
    BY <1>9 DEF CreateFails
  <1>10. ASSUME NEW r \in Req, InsertForPrompt(r) PROVE Current'
    BY <1>10 DEF InsertForPrompt, InsertHandle
  <1>11. ASSUME NEW r \in Req, InsertForNewChat(r) PROVE Current'
    BY <1>11 DEF InsertForNewChat, InsertHandle
  <1>12. ASSUME NEW r \in Req, RegisterAbort(r) PROVE Current'
    BY <1>12 DEF RegisterAbort
  <1>13. ASSUME NEW r \in Req, ForwardEvent(r) PROVE Current'
    BY <1>13 DEF ForwardEvent
  <1>14. ASSUME NEW r \in Req, ForwardBreaks(r) PROVE Current'
    BY <1>14 DEF ForwardBreaks
  <1>15. ASSUME NEW r \in Req, StreamEnds(r) PROVE Current'
    BY <1>15 DEF StreamEnds
  <1>16. ASSUME NEW r \in Req, Report(r) PROVE Current'
    BY <1>16 DEF Report
  <1>17. ASSUME NEW r \in Req, RemoveAbort(r) PROVE Current'
    BY <1>17 DEF RemoveAbort
  <1>18. ASSUME NEW r \in Req, FinishLabel(r) PROVE Current'
    BY <1>18 DEF FinishLabel
  <1>19. ASSUME NEW r \in Req, LockHandle(r) PROVE Current'
    BY <1>19 DEF LockHandle
  <1>20. ASSUME NEW r \in Req, EmitEvent(r) PROVE Current'
    BY <1>20 DEF EmitEvent
  <1>21. ASSUME NEW r \in Req, RunReturns(r) PROVE Current'
    BY <1>21 DEF RunReturns
  <1>22. ASSUME NEW r \in Req, TaskEnds(r) PROVE Current'
    BY <1>22 DEF TaskEnds
  <1>23. ASSUME NEW s \in Session, StopAgent(s) PROVE Current'
    BY <1>23 DEF StopAgent
  <1>24. ASSUME NEW p \in Proj, NEW s \in Session, NEW d \in Cwd,
               StoreProject(p, s, d) PROVE Current'
    <2>1. \A q \in Session : ProjectPending(q) => ProjectPending(q)'
      BY <1>24 DEF StoreProject
    <2>2. ProjectPending(s)'
      BY <1>24 DEF StoreProject
    <2>3. \A q \in Session : q # s => session_cwd'[q] = session_cwd[q]
      BY <1>24 DEF StoreProject
    <2>4. UNCHANGED <<phase, cwd, sess, session_handles, overtaken>>
      BY <1>24 DEF StoreProject
    <2> HIDE DEF ProjectPending
    <2>5. CreationCurrent'
      <3>1. SUFFICES ASSUME NEW r \in Req,
                            phase[r] \in {"create", "insertHandle"},
                            cwd[r] # session_cwd'[sess[r]], r \notin overtaken
                     PROVE  ProjectPending(sess[r])'
        BY <2>4 DEF CreationCurrent
      <3>2. sess[r] \in Session
        BY <3>1
      <3>3. CASE sess[r] = s
        BY <2>2, <2>4, <3>3
      <3>4. CASE sess[r] # s
        <4>1. ProjectPending(sess[r])
          BY <2>3, <3>1, <3>2, <3>4 DEF CreationCurrent
        <4> QED
          BY <2>1, <2>4, <3>2, <4>1
      <3> QED
        BY <3>3, <3>4
    <2>6. BoundaryCurrent'
      BY <2>1, <2>2, <2>3, <2>4 DEF ProjectPending
    <2> QED BY <2>5, <2>6
  <1>25. ASSUME NEW p \in Proj, QueueDrop(p) PROVE Current'
    BY <1>25 DEF QueueDrop
  <1>26. ASSUME NEW p \in Proj, DropHandle(p) PROVE Current'
    BY <1>26 DEF DropHandle
  <1>27. ASSUME NEW t \in Think, NEW s \in Session, ThinkEnter(t, s) PROVE Current'
    BY <1>27 DEF ThinkEnter
  <1>28. ASSUME NEW t \in Think, ThinkLeave(t) PROVE Current'
    BY <1>28 DEF ThinkLeave
  <1>29. CASE UNCHANGED vars
    BY <1>29 DEF vars
  <1> QED
    BY <1>1, <1>2, <1>3, <1>4, <1>5, <1>6, <1>7, <1>8, <1>9, <1>10, <1>11,
       <1>12, <1>13, <1>14, <1>15, <1>16, <1>17, <1>18, <1>19, <1>20,
       <1>21, <1>22, <1>23, <1>24, <1>25, <1>26, <1>27, <1>28, <1>29
       DEF Next, Handler, AgentTask, Rest

LEMMA DrainedNext == Typed /\ DrainedAfterLoop /\ [Next]_vars => DrainedAfterLoop'
  <1> SUFFICES ASSUME Typed /\ DrainedAfterLoop, [Next]_vars PROVE DrainedAfterLoop'
    OBVIOUS
  <1> USE AgentAssumption DEF DrainedAfterLoop, Drained, Typed, TypeOK, Addressed,
        connVars, argVars, taskVars, mapVars, projVars, thinkVars, httpVars
  <1>1. ASSUME NEW c \in Conn, NEW r \in Req, NEW s \in Session,
               ReceivePrompt(c, r, s) PROVE DrainedAfterLoop'
    BY <1>1 DEF ReceivePrompt
  <1>2. ASSUME NEW c \in Conn, NEW r \in Req, NEW s \in Session, NEW d \in Cwd,
               ReceiveNewChat(c, r, s, d) PROVE DrainedAfterLoop'
    BY <1>2 DEF ReceiveNewChat
  <1>3. ASSUME NEW c \in Conn, Disconnect(c) PROVE DrainedAfterLoop'
    BY <1>3 DEF Disconnect
  <1>4. ASSUME NEW c \in Conn, CloseSocket(c) PROVE DrainedAfterLoop'
    BY <1>4 DEF CloseSocket
  <1>5. ASSUME NEW r \in Req, FindHandle(r) PROVE DrainedAfterLoop'
    BY <1>5 DEF FindHandle
  <1>6. ASSUME NEW r \in Req, MissHandle(r) PROVE DrainedAfterLoop'
    BY <1>6 DEF MissHandle
  <1>7. ASSUME NEW r \in Req, ReadCwd(r) PROVE DrainedAfterLoop'
    BY <1>7 DEF ReadCwd
  <1>8. ASSUME NEW r \in Req, CreateSucceeds(r) PROVE DrainedAfterLoop'
    BY <1>8 DEF CreateSucceeds
  <1>9. ASSUME NEW r \in Req, CreateFails(r) PROVE DrainedAfterLoop'
    BY <1>9 DEF CreateFails
  <1>10. ASSUME NEW r \in Req, InsertForPrompt(r) PROVE DrainedAfterLoop'
    BY <1>10 DEF InsertForPrompt, InsertHandle
  <1>11. ASSUME NEW r \in Req, InsertForNewChat(r) PROVE DrainedAfterLoop'
    BY <1>11 DEF InsertForNewChat, InsertHandle
  <1>12. ASSUME NEW r \in Req, RegisterAbort(r) PROVE DrainedAfterLoop'
    BY <1>12 DEF RegisterAbort
  <1>13. ASSUME NEW r \in Req, ForwardEvent(r) PROVE DrainedAfterLoop'
    BY <1>13 DEF ForwardEvent
  <1>14. ASSUME NEW r \in Req, ForwardBreaks(r) PROVE DrainedAfterLoop'
    BY <1>14 DEF ForwardBreaks
  <1>15. ASSUME NEW r \in Req, StreamEnds(r) PROVE DrainedAfterLoop'
    BY <1>15 DEF StreamEnds
  <1>16. ASSUME NEW r \in Req, Report(r) PROVE DrainedAfterLoop'
    BY <1>16 DEF Report
  <1>17. ASSUME NEW r \in Req, RemoveAbort(r) PROVE DrainedAfterLoop'
    BY <1>17 DEF RemoveAbort
  <1>18. ASSUME NEW r \in Req, FinishLabel(r) PROVE DrainedAfterLoop'
    BY <1>18 DEF FinishLabel
  <1>19. ASSUME NEW r \in Req, LockHandle(r) PROVE DrainedAfterLoop'
    BY <1>19 DEF LockHandle
  <1>20. ASSUME NEW r \in Req, EmitEvent(r) PROVE DrainedAfterLoop'
    BY <1>20 DEF EmitEvent
  <1>21. ASSUME NEW r \in Req, RunReturns(r) PROVE DrainedAfterLoop'
    BY <1>21 DEF RunReturns
  <1>22. ASSUME NEW r \in Req, TaskEnds(r) PROVE DrainedAfterLoop'
    BY <1>22 DEF TaskEnds
  <1>23. ASSUME NEW s \in Session, StopAgent(s) PROVE DrainedAfterLoop'
    BY <1>23 DEF StopAgent
  <1>24. ASSUME NEW p \in Proj, NEW s \in Session, NEW d \in Cwd,
               StoreProject(p, s, d) PROVE DrainedAfterLoop'
    BY <1>24 DEF StoreProject
  <1>25. ASSUME NEW p \in Proj, QueueDrop(p) PROVE DrainedAfterLoop'
    BY <1>25 DEF QueueDrop
  <1>26. ASSUME NEW p \in Proj, DropHandle(p) PROVE DrainedAfterLoop'
    BY <1>26 DEF DropHandle
  <1>27. ASSUME NEW t \in Think, NEW s \in Session, ThinkEnter(t, s) PROVE DrainedAfterLoop'
    BY <1>27 DEF ThinkEnter
  <1>28. ASSUME NEW t \in Think, ThinkLeave(t) PROVE DrainedAfterLoop'
    BY <1>28 DEF ThinkLeave
  <1>29. CASE UNCHANGED vars
    BY <1>29 DEF vars
  <1> QED
    BY <1>1, <1>2, <1>3, <1>4, <1>5, <1>6, <1>7, <1>8, <1>9, <1>10, <1>11,
       <1>12, <1>13, <1>14, <1>15, <1>16, <1>17, <1>18, <1>19, <1>20,
       <1>21, <1>22, <1>23, <1>24, <1>25, <1>26, <1>27, <1>28, <1>29
       DEF Next, Handler, AgentTask, Rest

\* Only POST /api/stop fires a signal, and it fires the one it finds.
LEMMA StopNext ==
  ASSUME Typed, AbortEntryLive, [Next]_vars
  PROVE  /\ aborted \subseteq aborted'
         /\ \A r \in aborted' \ aborted : phase[r] \in Registered /\ abort_handles[sess[r]] = r
  <1>1. CASE \E s \in Session : StopAgent(s)
    BY <1>1 DEF StopAgent, AbortEntryLive
  <1>2. ASSUME NEW r \in Req, Handler(r) \/ AgentTask(r)
        PROVE  UNCHANGED aborted
    BY <1>2 DEF Handler, FindHandle, MissHandle, ReadCwd, CreateSucceeds, CreateFails,
         InsertForPrompt, InsertForNewChat, RegisterAbort, ForwardEvent, ForwardBreaks,
         StreamEnds, Report, RemoveAbort, FinishLabel,
         AgentTask, LockHandle, EmitEvent, RunReturns, TaskEnds
  <1>3. CASE \/ \E c \in Conn, r \in Req, s \in Session :
                  \/ ReceivePrompt(c, r, s)
                  \/ \E d \in Cwd : ReceiveNewChat(c, r, s, d)
             \/ \E c \in Conn : Disconnect(c) \/ CloseSocket(c)
    BY <1>3 DEF ReceivePrompt, ReceiveNewChat, Disconnect, CloseSocket
  <1>4. CASE \/ \E p \in Proj, s \in Session, d \in Cwd : StoreProject(p, s, d)
             \/ \E p \in Proj : QueueDrop(p) \/ DropHandle(p)
             \/ \E t \in Think, s \in Session : ThinkEnter(t, s)
             \/ \E t \in Think : ThinkLeave(t)
    BY <1>4 DEF StoreProject, QueueDrop, DropHandle, ThinkEnter, ThinkLeave
  <1>5. CASE UNCHANGED vars
    BY <1>5 DEF vars
  <1> QED BY <1>1, <1>2, <1>3, <1>4, <1>5 DEF Next, Rest

\* Only a connection that handles nothing receives the next message.
LEMMA OneNext == Typed /\ OneAtATime /\ Spawned /\ [Next]_vars => OneAtATime' /\ Spawned'
  <1> SUFFICES ASSUME Typed, OneAtATime, Spawned, [Next]_vars PROVE OneAtATime' /\ Spawned'
    OBVIOUS
  <1> USE AgentAssumption DEF Typed, TypeOK, Phase, TaskState, Addressed, OneAtATime, Spawned,
        InFlight, Unpublished, Registered, Busy,
        connVars, argVars, taskVars, mapVars, projVars, thinkVars, httpVars
  <1>1. ASSUME NEW c \in Conn, NEW r \in Req, NEW s \in Session,
               ReceivePrompt(c, r, s) PROVE OneAtATime' /\ Spawned'
    BY <1>1 DEF ReceivePrompt
  <1>2. ASSUME NEW c \in Conn, NEW r \in Req, NEW s \in Session, NEW d \in Cwd,
               ReceiveNewChat(c, r, s, d) PROVE OneAtATime' /\ Spawned'
    BY <1>2 DEF ReceiveNewChat, Fresh
  <1>3. ASSUME NEW c \in Conn, Disconnect(c) PROVE OneAtATime' /\ Spawned'
    BY <1>3 DEF Disconnect
  <1>4. ASSUME NEW c \in Conn, CloseSocket(c) PROVE OneAtATime' /\ Spawned'
    BY <1>4 DEF CloseSocket
  <1>5. ASSUME NEW r \in Req, FindHandle(r) PROVE OneAtATime' /\ Spawned'
    BY <1>5 DEF FindHandle
  <1>6. ASSUME NEW r \in Req, MissHandle(r) PROVE OneAtATime' /\ Spawned'
    BY <1>6 DEF MissHandle
  <1>7. ASSUME NEW r \in Req, ReadCwd(r) PROVE OneAtATime' /\ Spawned'
    BY <1>7 DEF ReadCwd
  <1>8. ASSUME NEW r \in Req, CreateSucceeds(r) PROVE OneAtATime' /\ Spawned'
    BY <1>8 DEF CreateSucceeds
  <1>9. ASSUME NEW r \in Req, CreateFails(r) PROVE OneAtATime' /\ Spawned'
    BY <1>9 DEF CreateFails
  <1>10. ASSUME NEW r \in Req, InsertForPrompt(r) PROVE OneAtATime' /\ Spawned'
    BY <1>10 DEF InsertForPrompt, InsertHandle
  <1>11. ASSUME NEW r \in Req, InsertForNewChat(r) PROVE OneAtATime' /\ Spawned'
    BY <1>11 DEF InsertForNewChat, InsertHandle
  <1>12. ASSUME NEW r \in Req, RegisterAbort(r) PROVE OneAtATime' /\ Spawned'
    BY <1>12 DEF RegisterAbort
  <1>13. ASSUME NEW r \in Req, ForwardEvent(r) PROVE OneAtATime' /\ Spawned'
    BY <1>13 DEF ForwardEvent
  <1>14. ASSUME NEW r \in Req, ForwardBreaks(r) PROVE OneAtATime' /\ Spawned'
    BY <1>14 DEF ForwardBreaks
  <1>15. ASSUME NEW r \in Req, StreamEnds(r) PROVE OneAtATime' /\ Spawned'
    BY <1>15 DEF StreamEnds
  <1>16. ASSUME NEW r \in Req, Report(r) PROVE OneAtATime' /\ Spawned'
    BY <1>16 DEF Report
  <1>17. ASSUME NEW r \in Req, RemoveAbort(r) PROVE OneAtATime' /\ Spawned'
    BY <1>17 DEF RemoveAbort
  <1>18. ASSUME NEW r \in Req, FinishLabel(r) PROVE OneAtATime' /\ Spawned'
    BY <1>18 DEF FinishLabel
  <1>19. ASSUME NEW r \in Req, LockHandle(r) PROVE OneAtATime' /\ Spawned'
    BY <1>19 DEF LockHandle
  <1>20. ASSUME NEW r \in Req, EmitEvent(r) PROVE OneAtATime' /\ Spawned'
    BY <1>20 DEF EmitEvent
  <1>21. ASSUME NEW r \in Req, RunReturns(r) PROVE OneAtATime' /\ Spawned'
    BY <1>21 DEF RunReturns
  <1>22. ASSUME NEW r \in Req, TaskEnds(r) PROVE OneAtATime' /\ Spawned'
    BY <1>22 DEF TaskEnds
  <1>23. ASSUME NEW s \in Session, StopAgent(s) PROVE OneAtATime' /\ Spawned'
    BY <1>23 DEF StopAgent
  <1>24. ASSUME NEW p \in Proj, NEW s \in Session, NEW d \in Cwd,
               StoreProject(p, s, d) PROVE OneAtATime' /\ Spawned'
    BY <1>24 DEF StoreProject
  <1>25. ASSUME NEW p \in Proj, QueueDrop(p) PROVE OneAtATime' /\ Spawned'
    BY <1>25 DEF QueueDrop
  <1>26. ASSUME NEW p \in Proj, DropHandle(p) PROVE OneAtATime' /\ Spawned'
    BY <1>26 DEF DropHandle
  <1>27. ASSUME NEW t \in Think, NEW s \in Session,
               ThinkEnter(t, s) PROVE OneAtATime' /\ Spawned'
    BY <1>27 DEF ThinkEnter
  <1>28. ASSUME NEW t \in Think, ThinkLeave(t) PROVE OneAtATime' /\ Spawned'
    BY <1>28 DEF ThinkLeave
  <1>29. CASE UNCHANGED vars
    BY <1>29 DEF vars
  <1> QED
    BY <1>1, <1>2, <1>3, <1>4, <1>5, <1>6, <1>7, <1>8, <1>9, <1>10, <1>11,
       <1>12, <1>13, <1>14, <1>15, <1>16, <1>17, <1>18, <1>19, <1>20,
       <1>21, <1>22, <1>23, <1>24, <1>25, <1>26, <1>27, <1>28, <1>29
       DEF Next, Handler, AgentTask, Rest

\* What a step leaves alone of the prompts there are: a spawned task stays with
\* its session, connection and session handle, and nobody connects again.
Steady ==
  /\ \A q \in Req : task[q] # "none" =>
       /\ task'[q] # "none" /\ sess'[q] = sess[q]
       /\ conn'[q] = conn[q] /\ handle'[q] = handle[q]
  /\ \A c \in Conn : clientUp'[c] => clientUp[c]

LEMMA SteadyNext == Typed /\ Spawned /\ [Next]_vars => Steady
  <1> SUFFICES ASSUME Typed, Spawned, [Next]_vars PROVE Steady
    OBVIOUS
  <1> USE AgentAssumption DEF Typed, TypeOK, Addressed, Spawned, Unpublished, Steady,
        connVars, argVars, taskVars, mapVars, projVars, thinkVars, httpVars
  <1>1. ASSUME NEW c \in Conn, NEW r \in Req, NEW s \in Session,
               ReceivePrompt(c, r, s) PROVE Steady
    BY <1>1 DEF ReceivePrompt
  <1>2. ASSUME NEW c \in Conn, NEW r \in Req, NEW s \in Session, NEW d \in Cwd,
               ReceiveNewChat(c, r, s, d) PROVE Steady
    BY <1>2 DEF ReceiveNewChat, Fresh
  <1>3. ASSUME NEW c \in Conn, Disconnect(c) PROVE Steady
    BY <1>3 DEF Disconnect
  <1>4. ASSUME NEW c \in Conn, CloseSocket(c) PROVE Steady
    BY <1>4 DEF CloseSocket
  <1>5. ASSUME NEW r \in Req, FindHandle(r) PROVE Steady
    BY <1>5 DEF FindHandle
  <1>6. ASSUME NEW r \in Req, MissHandle(r) PROVE Steady
    BY <1>6 DEF MissHandle
  <1>7. ASSUME NEW r \in Req, ReadCwd(r) PROVE Steady
    BY <1>7 DEF ReadCwd
  <1>8. ASSUME NEW r \in Req, CreateSucceeds(r) PROVE Steady
    BY <1>8 DEF CreateSucceeds
  <1>9. ASSUME NEW r \in Req, CreateFails(r) PROVE Steady
    BY <1>9 DEF CreateFails
  <1>10. ASSUME NEW r \in Req, InsertForPrompt(r) PROVE Steady
    BY <1>10 DEF InsertForPrompt, InsertHandle
  <1>11. ASSUME NEW r \in Req, InsertForNewChat(r) PROVE Steady
    BY <1>11 DEF InsertForNewChat, InsertHandle
  <1>12. ASSUME NEW r \in Req, RegisterAbort(r) PROVE Steady
    BY <1>12 DEF RegisterAbort
  <1>13. ASSUME NEW r \in Req, ForwardEvent(r) PROVE Steady
    BY <1>13 DEF ForwardEvent
  <1>14. ASSUME NEW r \in Req, ForwardBreaks(r) PROVE Steady
    BY <1>14 DEF ForwardBreaks
  <1>15. ASSUME NEW r \in Req, StreamEnds(r) PROVE Steady
    BY <1>15 DEF StreamEnds
  <1>16. ASSUME NEW r \in Req, Report(r) PROVE Steady
    BY <1>16 DEF Report
  <1>17. ASSUME NEW r \in Req, RemoveAbort(r) PROVE Steady
    BY <1>17 DEF RemoveAbort
  <1>18. ASSUME NEW r \in Req, FinishLabel(r) PROVE Steady
    BY <1>18 DEF FinishLabel
  <1>19. ASSUME NEW r \in Req, LockHandle(r) PROVE Steady
    BY <1>19 DEF LockHandle
  <1>20. ASSUME NEW r \in Req, EmitEvent(r) PROVE Steady
    BY <1>20 DEF EmitEvent
  <1>21. ASSUME NEW r \in Req, RunReturns(r) PROVE Steady
    BY <1>21 DEF RunReturns
  <1>22. ASSUME NEW r \in Req, TaskEnds(r) PROVE Steady
    BY <1>22 DEF TaskEnds
  <1>23. ASSUME NEW s \in Session, StopAgent(s) PROVE Steady
    BY <1>23 DEF StopAgent
  <1>24. ASSUME NEW p \in Proj, NEW s \in Session, NEW d \in Cwd,
               StoreProject(p, s, d) PROVE Steady
    BY <1>24 DEF StoreProject
  <1>25. ASSUME NEW p \in Proj, QueueDrop(p) PROVE Steady
    BY <1>25 DEF QueueDrop
  <1>26. ASSUME NEW p \in Proj, DropHandle(p) PROVE Steady
    BY <1>26 DEF DropHandle
  <1>27. ASSUME NEW t \in Think, NEW s \in Session, ThinkEnter(t, s) PROVE Steady
    BY <1>27 DEF ThinkEnter
  <1>28. ASSUME NEW t \in Think, ThinkLeave(t) PROVE Steady
    BY <1>28 DEF ThinkLeave
  <1>29. CASE UNCHANGED vars
    BY <1>29 DEF vars
  <1> QED
    BY <1>1, <1>2, <1>3, <1>4, <1>5, <1>6, <1>7, <1>8, <1>9, <1>10, <1>11,
       <1>12, <1>13, <1>14, <1>15, <1>16, <1>17, <1>18, <1>19, <1>20,
       <1>21, <1>22, <1>23, <1>24, <1>25, <1>26, <1>27, <1>28, <1>29
       DEF Next, Handler, AgentTask, Rest

LEMMA HandledNext == Typed /\ Spawned /\ Handled /\ [Next]_vars => Handled'
  <1> SUFFICES ASSUME Typed, Spawned, Handled, [Next]_vars PROVE Handled'
    OBVIOUS
  <1> USE AgentAssumption DEF Typed, TypeOK, Addressed, Spawned, Unpublished, Handled,
        connVars, argVars, taskVars, mapVars, projVars, thinkVars, httpVars
  <1>1. ASSUME NEW c \in Conn, NEW r \in Req, NEW s \in Session,
               ReceivePrompt(c, r, s) PROVE Handled'
    BY <1>1 DEF ReceivePrompt
  <1>2. ASSUME NEW c \in Conn, NEW r \in Req, NEW s \in Session, NEW d \in Cwd,
               ReceiveNewChat(c, r, s, d) PROVE Handled'
    BY <1>2 DEF ReceiveNewChat, Fresh
  <1>3. ASSUME NEW c \in Conn, Disconnect(c) PROVE Handled'
    BY <1>3 DEF Disconnect
  <1>4. ASSUME NEW c \in Conn, CloseSocket(c) PROVE Handled'
    BY <1>4 DEF CloseSocket
  <1>5. ASSUME NEW r \in Req, FindHandle(r) PROVE Handled'
    BY <1>5 DEF FindHandle
  <1>6. ASSUME NEW r \in Req, MissHandle(r) PROVE Handled'
    BY <1>6 DEF MissHandle
  <1>7. ASSUME NEW r \in Req, ReadCwd(r) PROVE Handled'
    BY <1>7 DEF ReadCwd
  <1>8. ASSUME NEW r \in Req, CreateSucceeds(r) PROVE Handled'
    BY <1>8 DEF CreateSucceeds
  <1>9. ASSUME NEW r \in Req, CreateFails(r) PROVE Handled'
    BY <1>9 DEF CreateFails
  <1>10. ASSUME NEW r \in Req, InsertForPrompt(r) PROVE Handled'
    BY <1>10 DEF InsertForPrompt, InsertHandle
  <1>11. ASSUME NEW r \in Req, InsertForNewChat(r) PROVE Handled'
    BY <1>11 DEF InsertForNewChat, InsertHandle
  <1>12. ASSUME NEW r \in Req, RegisterAbort(r) PROVE Handled'
    BY <1>12 DEF RegisterAbort
  <1>13. ASSUME NEW r \in Req, ForwardEvent(r) PROVE Handled'
    BY <1>13 DEF ForwardEvent
  <1>14. ASSUME NEW r \in Req, ForwardBreaks(r) PROVE Handled'
    BY <1>14 DEF ForwardBreaks
  <1>15. ASSUME NEW r \in Req, StreamEnds(r) PROVE Handled'
    BY <1>15 DEF StreamEnds
  <1>16. ASSUME NEW r \in Req, Report(r) PROVE Handled'
    BY <1>16 DEF Report
  <1>17. ASSUME NEW r \in Req, RemoveAbort(r) PROVE Handled'
    BY <1>17 DEF RemoveAbort
  <1>18. ASSUME NEW r \in Req, FinishLabel(r) PROVE Handled'
    BY <1>18 DEF FinishLabel
  <1>19. ASSUME NEW r \in Req, LockHandle(r) PROVE Handled'
    BY <1>19 DEF LockHandle
  <1>20. ASSUME NEW r \in Req, EmitEvent(r) PROVE Handled'
    BY <1>20 DEF EmitEvent
  <1>21. ASSUME NEW r \in Req, RunReturns(r) PROVE Handled'
    BY <1>21 DEF RunReturns
  <1>22. ASSUME NEW r \in Req, TaskEnds(r) PROVE Handled'
    BY <1>22 DEF TaskEnds
  <1>23. ASSUME NEW s \in Session, StopAgent(s) PROVE Handled'
    BY <1>23 DEF StopAgent
  <1>24. ASSUME NEW p \in Proj, NEW s \in Session, NEW d \in Cwd,
               StoreProject(p, s, d) PROVE Handled'
    BY <1>24 DEF StoreProject
  <1>25. ASSUME NEW p \in Proj, QueueDrop(p) PROVE Handled'
    BY <1>25 DEF QueueDrop
  <1>26. ASSUME NEW p \in Proj, DropHandle(p) PROVE Handled'
    BY <1>26 DEF DropHandle
  <1>27. ASSUME NEW t \in Think, NEW s \in Session, ThinkEnter(t, s) PROVE Handled'
    BY <1>27 DEF ThinkEnter
  <1>28. ASSUME NEW t \in Think, ThinkLeave(t) PROVE Handled'
    BY <1>28 DEF ThinkLeave
  <1>29. CASE UNCHANGED vars
    BY <1>29 DEF vars
  <1> QED
    BY <1>1, <1>2, <1>3, <1>4, <1>5, <1>6, <1>7, <1>8, <1>9, <1>10, <1>11,
       <1>12, <1>13, <1>14, <1>15, <1>16, <1>17, <1>18, <1>19, <1>20,
       <1>21, <1>22, <1>23, <1>24, <1>25, <1>26, <1>27, <1>28, <1>29
       DEF Next, Handler, AgentTask, Rest

LEMMA ReachableNext == Typed /\ Lone /\ [Next]_vars => Reachable'
  <1> SUFFICES ASSUME Typed, Lone, [Next]_vars PROVE Reachable'
    OBVIOUS
  <1>0. Steady
    BY SteadyNext DEF Lone
  <1>00. ASSUME NEW q \in Req, task[q] # "none", Alone(q)'
         PROVE  Alone(q) /\ \A r \in Req : sess'[r] = sess[q] /\ task'[r] # "none" => conn'[r] = conn[q]
    BY <1>0, <1>00 DEF Steady, Alone
  <1> USE AgentAssumption DEF Typed, TypeOK, Phase, TaskState, Addressed, Lone, OneAtATime, Spawned, Reachable,
        InFlight, Unpublished, Registered, Alone,
        connVars, argVars, taskVars, mapVars, projVars, thinkVars, httpVars
  <1>1. ASSUME NEW c \in Conn, NEW r \in Req, NEW s \in Session,
               ReceivePrompt(c, r, s) PROVE Reachable'
    <2>1. UNCHANGED <<clientUp, task, abort_handles>> /\ phase'[r] = "lookup" /\ phase[r] = "unsent"
      BY <1>1 DEF ReceivePrompt
    <2>2. \A q \in Req \ {r} : phase'[q] = phase[q] /\ sess'[q] = sess[q] /\ conn'[q] = conn[q]
      BY <1>1 DEF ReceivePrompt
    <2>3. task[r] = "none"
      BY <2>1
    <2>4. ASSUME NEW q \in Req, task[q] \in {"waiting", "running"}, clientUp'[conn'[q]]
          PROVE  phase'[q] = "forward"
      BY <2>1, <2>2, <2>3, <2>4
    <2>5. ASSUME NEW q \in Req, phase'[q] \in Registered, Alone(q)' PROVE abort_handles[sess'[q]] = q
      <3>1. q # r /\ task[q] # "none"
        BY <2>1, <2>2, <2>5
      <3>2. Alone(q) /\ phase[q] \in Registered
        <4> HIDE DEF Alone
        <4> QED
          BY <1>00, <2>2, <2>5, <3>1
      <3> QED
        BY <2>2, <3>1, <3>2
    <2> QED
      BY <2>1, <2>4, <2>5
  <1>2. ASSUME NEW c \in Conn, NEW r \in Req, NEW s \in Session, NEW d \in Cwd,
               ReceiveNewChat(c, r, s, d) PROVE Reachable'
    <2>1. UNCHANGED <<clientUp, task, abort_handles>> /\ phase'[r] = "create" /\ phase[r] = "unsent"
      BY <1>2 DEF ReceiveNewChat
    <2>2. \A q \in Req \ {r} : phase'[q] = phase[q] /\ sess'[q] = sess[q] /\ conn'[q] = conn[q]
      BY <1>2 DEF ReceiveNewChat
    <2>3. task[r] = "none"
      BY <2>1
    <2>4. ASSUME NEW q \in Req, task[q] \in {"waiting", "running"}, clientUp'[conn'[q]]
          PROVE  phase'[q] = "forward"
      BY <2>1, <2>2, <2>3, <2>4
    <2>5. ASSUME NEW q \in Req, phase'[q] \in Registered, Alone(q)' PROVE abort_handles[sess'[q]] = q
      <3>1. q # r /\ task[q] # "none"
        BY <2>1, <2>2, <2>5
      <3>2. Alone(q) /\ phase[q] \in Registered
        <4> HIDE DEF Alone
        <4> QED
          BY <1>00, <2>2, <2>5, <3>1
      <3> QED
        BY <2>2, <3>1, <3>2
    <2> QED
      BY <2>1, <2>4, <2>5
  <1>3. ASSUME NEW c \in Conn, Disconnect(c) PROVE Reachable'
    BY <1>3 DEF Disconnect
  <1>4. ASSUME NEW c \in Conn, CloseSocket(c) PROVE Reachable'
    BY <1>4 DEF CloseSocket
  <1>5. ASSUME NEW r \in Req, FindHandle(r) PROVE Reachable'
    BY <1>5 DEF FindHandle
  <1>6. ASSUME NEW r \in Req, MissHandle(r) PROVE Reachable'
    BY <1>6 DEF MissHandle
  <1>7. ASSUME NEW r \in Req, ReadCwd(r) PROVE Reachable'
    BY <1>7 DEF ReadCwd
  <1>8. ASSUME NEW r \in Req, CreateSucceeds(r) PROVE Reachable'
    BY <1>8 DEF CreateSucceeds
  <1>9. ASSUME NEW r \in Req, CreateFails(r) PROVE Reachable'
    BY <1>9 DEF CreateFails
  <1>10. ASSUME NEW r \in Req, InsertForPrompt(r) PROVE Reachable'
    BY <1>10 DEF InsertForPrompt, InsertHandle
  <1>11. ASSUME NEW r \in Req, InsertForNewChat(r) PROVE Reachable'
    BY <1>11 DEF InsertForNewChat, InsertHandle
  <1>12. ASSUME NEW r \in Req, RegisterAbort(r) PROVE Reachable'
    <2>1. UNCHANGED <<clientUp, conn, sess>> /\ phase[r] = "register" /\ phase' = [phase EXCEPT ![r] = "forward"]
      BY <1>12 DEF RegisterAbort
    <2>2. task' = [task EXCEPT ![r] = "waiting"] /\ abort_handles' = [abort_handles EXCEPT ![sess[r]] = r]
      BY <1>12 DEF RegisterAbort
    <2>3. ASSUME NEW q \in Req, phase'[q] \in Registered, Alone(q)' PROVE abort_handles'[sess[q]] = q
      <3>1. CASE q = r
        BY <2>1, <2>2, <3>1
      <3>2. CASE q # r
        <4>1. phase[q] \in Registered /\ task[q] # "none"
          BY <2>1, <2>3, <3>2
        <4>2. Alone(q) /\ (sess'[r] = sess[q] /\ task'[r] # "none" => conn'[r] = conn[q])
          <5> HIDE DEF Alone
          <5> QED
            BY <1>00, <2>3, <4>1
        <4>3. sess[q] # sess[r]
          <5> SUFFICES ASSUME sess[q] = sess[r] PROVE FALSE
            OBVIOUS
          <5>1. conn[q] = conn[r]
            <6> HIDE DEF Alone
            <6> QED
              BY <2>1, <2>2, <4>2
          <5>2. InFlight(q) /\ InFlight(r)
            BY <2>1, <4>1
          <5>3. OneAtATime
            OBVIOUS
          <5> HIDE DEF InFlight
          <5> QED
            BY ONLY <3>2, <5>1, <5>2, <5>3 DEF OneAtATime
        <4> QED
          BY <2>1, <2>2, <4>1, <4>2, <4>3
      <3> QED
        BY <3>1, <3>2
    <2> QED
      BY <2>1, <2>2, <2>3
  <1>13. ASSUME NEW r \in Req, ForwardEvent(r) PROVE Reachable'
    BY <1>13 DEF ForwardEvent
  <1>14. ASSUME NEW r \in Req, ForwardBreaks(r) PROVE Reachable'
    BY <1>14 DEF ForwardBreaks
  <1>15. ASSUME NEW r \in Req, StreamEnds(r) PROVE Reachable'
    BY <1>15 DEF StreamEnds
  <1>16. ASSUME NEW r \in Req, Report(r) PROVE Reachable'
    BY <1>16 DEF Report
  <1>17. ASSUME NEW r \in Req, RemoveAbort(r) PROVE Reachable'
    BY <1>17 DEF RemoveAbort
  <1>18. ASSUME NEW r \in Req, FinishLabel(r) PROVE Reachable'
    BY <1>18 DEF FinishLabel
  <1>19. ASSUME NEW r \in Req, LockHandle(r) PROVE Reachable'
    BY <1>19 DEF LockHandle
  <1>20. ASSUME NEW r \in Req, EmitEvent(r) PROVE Reachable'
    BY <1>20 DEF EmitEvent
  <1>21. ASSUME NEW r \in Req, RunReturns(r) PROVE Reachable'
    BY <1>21 DEF RunReturns
  <1>22. ASSUME NEW r \in Req, TaskEnds(r) PROVE Reachable'
    BY <1>22 DEF TaskEnds
  <1>23. ASSUME NEW s \in Session, StopAgent(s) PROVE Reachable'
    BY <1>23 DEF StopAgent
  <1>24. ASSUME NEW p \in Proj, NEW s \in Session, NEW d \in Cwd,
               StoreProject(p, s, d) PROVE Reachable'
    BY <1>24 DEF StoreProject
  <1>25. ASSUME NEW p \in Proj, QueueDrop(p) PROVE Reachable'
    BY <1>25 DEF QueueDrop
  <1>26. ASSUME NEW p \in Proj, DropHandle(p) PROVE Reachable'
    BY <1>26 DEF DropHandle
  <1>27. ASSUME NEW t \in Think, NEW s \in Session, ThinkEnter(t, s) PROVE Reachable'
    BY <1>27 DEF ThinkEnter
  <1>28. ASSUME NEW t \in Think, ThinkLeave(t) PROVE Reachable'
    BY <1>28 DEF ThinkLeave
  <1>29. CASE UNCHANGED vars
    BY <1>29 DEF vars
  <1> QED
    BY <1>1, <1>2, <1>3, <1>4, <1>5, <1>6, <1>7, <1>8, <1>9, <1>10, <1>11,
       <1>12, <1>13, <1>14, <1>15, <1>16, <1>17, <1>18, <1>19, <1>20,
       <1>21, <1>22, <1>23, <1>24, <1>25, <1>26, <1>27, <1>28, <1>29
       DEF Next, Handler, AgentTask, Rest

\* One that waits for nothing yet joins the queue at its end, ...
LEMMA Joins ==
  ASSUME NEW S, NEW q \in Seq(S), NEW W, Queues(q, W), NEW w \in S, w \notin W
  PROVE  Queues(Append(q, w), W \cup {w})
  <1>1. /\ Append(q, w) \in Seq(S) /\ Len(Append(q, w)) = Len(q) + 1
        /\ \A i \in 1..Len(q) : Append(q, w)[i] = q[i]
        /\ Append(q, w)[Len(q) + 1] = w
    BY AppendProperties
  <1>2. DOMAIN q = 1..Len(q) /\ DOMAIN Append(q, w) = 1..(Len(q) + 1) /\ Len(q) \in Nat
    BY <1>1
  <1>3. \A i \in 1..(Len(q) + 1) : i \in 1..Len(q) \/ i = Len(q) + 1
    BY <1>2
  <1> QED
    BY <1>1, <1>2, <1>3 DEF Queues

\* ... and the one at its head leaves it.
LEMMA Leaves ==
  ASSUME NEW S, NEW q \in Seq(S), q # <<>>, NEW W, Queues(q, W)
  PROVE  Queues(Tail(q), W \ {Head(q)})
  <1>1. /\ Tail(q) \in Seq(S) /\ Len(Tail(q)) = Len(q) - 1 /\ Len(q) \in Nat \ {0}
        /\ \A i \in 1..(Len(q) - 1) : Tail(q)[i] = q[i + 1]
        /\ Head(q) = q[1]
    BY HeadTailProperties
  <1>2. DOMAIN q = 1..Len(q) /\ DOMAIN Tail(q) = 1..(Len(q) - 1)
    BY <1>1
  <1>3. \A i \in DOMAIN Tail(q) : i + 1 \in DOMAIN q /\ i + 1 # 1 /\ Tail(q)[i] = q[i + 1] /\ 1 \in DOMAIN q
    BY <1>1, <1>2
  <1>4. \A i \in DOMAIN q : i # 1 => i - 1 \in DOMAIN Tail(q) /\ Tail(q)[i - 1] = q[i]
    BY <1>1, <1>2
  <1>5. \A i, j \in DOMAIN Tail(q) : i # j => i + 1 # j + 1
    BY <1>2
  <1>6. \A i \in DOMAIN Tail(q) : Tail(q)[i] \in W \ {Head(q)}
    BY <1>1, <1>3 DEF Queues
  <1>7. ASSUME NEW w \in W \ {Head(q)} PROVE \E i \in DOMAIN Tail(q) : Tail(q)[i] = w
    <2>1. PICK i \in DOMAIN q : q[i] = w
      BY DEF Queues
    <2> QED
      BY <1>1, <1>4, <2>1
  <1>8. \A i, j \in DOMAIN Tail(q) : i # j => Tail(q)[i] # Tail(q)[j]
    BY <1>3, <1>5 DEF Queues
  <1> QED
    BY <1>6, <1>7, <1>8 DEF Queues

LEMMA QueueNext == Typed /\ WritersQueued /\ [Next]_vars => WritersQueued'
  <1> SUFFICES ASSUME Typed, WritersQueued, [Next]_vars PROVE WritersQueued'
    OBVIOUS
  <1>0. writeQueue \in Seq(Req \cup Proj) /\ Writers \subseteq Req \cup Proj
    BY DEF Typed, TypeOK, Writers
  <1>00. Writers' = Writers /\ writeQueue' = writeQueue => WritersQueued'
    BY DEF WritersQueued
  <1> USE <1>0, <1>00, AgentAssumption DEF Typed, TypeOK,
        connVars, argVars, taskVars, mapVars, projVars, thinkVars, httpVars
  <1>1. ASSUME NEW c \in Conn, NEW r \in Req, NEW s \in Session,
               ReceivePrompt(c, r, s) PROVE WritersQueued'
    BY <1>1 DEF ReceivePrompt, Writers
  <1>2. ASSUME NEW c \in Conn, NEW r \in Req, NEW s \in Session, NEW d \in Cwd,
               ReceiveNewChat(c, r, s, d) PROVE WritersQueued'
    BY <1>2 DEF ReceiveNewChat, Fresh, Writers
  <1>3. ASSUME NEW c \in Conn, Disconnect(c) PROVE WritersQueued'
    BY <1>3 DEF Disconnect, Writers
  <1>4. ASSUME NEW c \in Conn, CloseSocket(c) PROVE WritersQueued'
    BY <1>4 DEF CloseSocket, Writers
  <1>5. ASSUME NEW r \in Req, FindHandle(r) PROVE WritersQueued'
    BY <1>5 DEF FindHandle, Writers
  <1>6. ASSUME NEW r \in Req, MissHandle(r) PROVE WritersQueued'
    BY <1>6 DEF MissHandle, Writers
  <1>7. ASSUME NEW r \in Req, ReadCwd(r) PROVE WritersQueued'
    BY <1>7 DEF ReadCwd, Writers
  <1>8. ASSUME NEW r \in Req, CreateSucceeds(r) PROVE WritersQueued'
    <2>1. Writers' = Writers \cup {r} /\ r \notin Writers /\ writeQueue' = Append(writeQueue, r)
      BY <1>8 DEF CreateSucceeds, Writers
    <2> QED
      BY <2>1, Joins DEF WritersQueued
  <1>9. ASSUME NEW r \in Req, CreateFails(r) PROVE WritersQueued'
    BY <1>9 DEF CreateFails, Writers
  <1>10. ASSUME NEW r \in Req, InsertForPrompt(r) PROVE WritersQueued'
    <2>1. MayWrite(r) /\ Writers' = Writers \ {r} /\ writeQueue' = Tail(writeQueue)
      BY <1>10 DEF InsertForPrompt, InsertHandle, Writers
    <2> QED
      BY <2>1, Leaves DEF MayWrite, WritersQueued
  <1>11. ASSUME NEW r \in Req, InsertForNewChat(r) PROVE WritersQueued'
    <2>1. MayWrite(r) /\ Writers' = Writers \ {r} /\ writeQueue' = Tail(writeQueue)
      BY <1>11 DEF InsertForNewChat, InsertHandle, Writers
    <2> QED
      BY <2>1, Leaves DEF MayWrite, WritersQueued
  <1>12. ASSUME NEW r \in Req, RegisterAbort(r) PROVE WritersQueued'
    BY <1>12 DEF RegisterAbort, Writers
  <1>13. ASSUME NEW r \in Req, ForwardEvent(r) PROVE WritersQueued'
    BY <1>13 DEF ForwardEvent, Writers
  <1>14. ASSUME NEW r \in Req, ForwardBreaks(r) PROVE WritersQueued'
    BY <1>14 DEF ForwardBreaks, Writers
  <1>15. ASSUME NEW r \in Req, StreamEnds(r) PROVE WritersQueued'
    BY <1>15 DEF StreamEnds, Writers
  <1>16. ASSUME NEW r \in Req, Report(r) PROVE WritersQueued'
    BY <1>16 DEF Report, Writers
  <1>17. ASSUME NEW r \in Req, RemoveAbort(r) PROVE WritersQueued'
    BY <1>17 DEF RemoveAbort, Writers
  <1>18. ASSUME NEW r \in Req, FinishLabel(r) PROVE WritersQueued'
    BY <1>18 DEF FinishLabel, Writers
  <1>19. ASSUME NEW r \in Req, LockHandle(r) PROVE WritersQueued'
    BY <1>19 DEF LockHandle, Writers
  <1>20. ASSUME NEW r \in Req, EmitEvent(r) PROVE WritersQueued'
    BY <1>20 DEF EmitEvent, Writers
  <1>21. ASSUME NEW r \in Req, RunReturns(r) PROVE WritersQueued'
    BY <1>21 DEF RunReturns, Writers
  <1>22. ASSUME NEW r \in Req, TaskEnds(r) PROVE WritersQueued'
    BY <1>22 DEF TaskEnds, Writers
  <1>23. ASSUME NEW s \in Session, StopAgent(s) PROVE WritersQueued'
    BY <1>23 DEF StopAgent, Writers
  <1>24. ASSUME NEW p \in Proj, NEW s \in Session, NEW d \in Cwd,
               StoreProject(p, s, d) PROVE WritersQueued'
    BY <1>24 DEF StoreProject, Writers
  <1>25. ASSUME NEW p \in Proj, QueueDrop(p) PROVE WritersQueued'
    <2>1. Writers' = Writers \cup {p} /\ p \notin Writers /\ writeQueue' = Append(writeQueue, p)
      BY <1>25 DEF QueueDrop, Writers
    <2> QED
      BY <2>1, Joins DEF WritersQueued
  <1>26. ASSUME NEW p \in Proj, DropHandle(p) PROVE WritersQueued'
    <2>1. MayWrite(p) /\ Writers' = Writers \ {p} /\ writeQueue' = Tail(writeQueue)
      BY <1>26 DEF DropHandle, Writers
    <2> QED
      BY <2>1, Leaves DEF MayWrite, WritersQueued
  <1>27. ASSUME NEW t \in Think, NEW s \in Session, ThinkEnter(t, s) PROVE WritersQueued'
    BY <1>27 DEF ThinkEnter, Writers
  <1>28. ASSUME NEW t \in Think, ThinkLeave(t) PROVE WritersQueued'
    BY <1>28 DEF ThinkLeave, Writers
  <1>29. CASE UNCHANGED vars
    BY <1>29 DEF vars, Writers
  <1> QED
    BY <1>1, <1>2, <1>3, <1>4, <1>5, <1>6, <1>7, <1>8, <1>9, <1>10, <1>11,
       <1>12, <1>13, <1>14, <1>15, <1>16, <1>17, <1>18, <1>19, <1>20,
       <1>21, <1>22, <1>23, <1>24, <1>25, <1>26, <1>27, <1>28, <1>29
       DEF Next, Handler, AgentTask, Rest

-----------------------------------------------------------------------------
\* The inductive invariant of the server.
Inv ==
  /\ Typed /\ AbortEntryLive /\ Published /\ Current /\ DrainedAfterLoop
  /\ Lone /\ Handled /\ WritersQueued

LEMMA InvInit == Init => Inv
  <1> SUFFICES ASSUME Init PROVE Inv
    OBVIOUS
  <1>1. Typed
    BY TypedInit
  <1>2. AbortEntryLive /\ Published /\ BoundaryCurrent
    BY DEF Init, AbortEntryLive, Published, BoundaryCurrent
  <1>3. CreationCurrent /\ DrainedAfterLoop
    BY DEF Init, CreationCurrent, DrainedAfterLoop
  <1>4. Lone /\ Handled
    BY AgentAssumption DEF Init, Lone, Handled, OneAtATime, Spawned, Reachable, InFlight, Registered
  <1>5. WritersQueued
    <2>1. Writers = {} /\ DOMAIN writeQueue = {}
      BY DEF Init, Writers
    <2> QED
      BY <2>1 DEF WritersQueued, Queues
  <1> QED BY <1>1, <1>2, <1>3, <1>4, <1>5 DEF Inv, Current

LEMMA InvNext == Inv /\ [Next]_vars => Inv'
  BY TypedNext, AbortEntryNext, PublishedNext, CurrentNext, DrainedNext, OneNext, ReachableNext,
     HandledNext, QueueNext DEF Inv, Lone

LEMMA InvAlways == Spec => []Inv
  BY InvInit, InvNext, PTL DEF Spec

\* Every reachable state has the types server/mod.rs and server/ws.rs declare.
THEOREM TypeCorrect == Spec => []TypeOK
  BY InvAlways, PTL DEF Inv, Typed

\* Overwriting and removing abort handles by session id leaves no handle of a
\* finished prompt behind (ws.rs, handle_prompt).
THEOREM AbortEntriesLive == Spec => []AbortEntryLive
  BY InvAlways, PTL DEF Inv

\* A prompt runs only on a session handle created for its own session.
THEOREM HandlesOfOwnSession == Spec => []HandleOfOwnSession
  <1>1. Inv => HandleOfOwnSession
    BY DEF Inv, Published, Unpublished, HandleOfOwnSession
  <1> QED BY <1>1, InvAlways, PTL

\* The sandbox boundary is current but for the race the model names: a handle
\* with another directory than its session's was overtaken by a set_project.
THEOREM BoundaryIsCurrent == Spec => []BoundaryCurrent
  BY InvAlways, PTL DEF Inv, Current

\* prompt_complete follows the last event of a finished run for every client
\* that stays connected.
THEOREM CompletionDrained == Spec => []CompleteMeansDrained
  <1>1. Inv => CompleteMeansDrained
    BY DEF Inv, DrainedAfterLoop, Drained, CompleteMeansDrained
  <1> QED BY <1>1, InvAlways, PTL

\* A stop fires only the signal of a prompt still registered, for ever.
THEOREM StopsArePrecise == Spec => StopIsPrecise
  <1>1. Inv /\ [Next]_vars =>
          [/\ aborted \subseteq aborted'
           /\ \A r \in aborted' \ aborted :
                phase[r] \in Registered /\ abort_handles[sess[r]] = r]_vars
    BY StopNext DEF Inv
  <1> QED BY <1>1, InvAlways, PTL DEF Spec, StopIsPrecise

\* A connected client that prompts a session from one connection can stop the
\* prompt as long as it runs (ws.rs, handle_prompt; agent_endpoints.rs, stop).
THEOREM LoneStopsReach == Spec => []LoneStopReaches
  <1>1. Inv => LoneStopReaches
    BY DEF Inv, Lone, Reachable, Alone, LoneStopReaches, Registered
  <1> QED BY <1>1, InvAlways, PTL

\* The queue of the RwLock around session_handles: a handler or a set_project
\* waits in it exactly once, and leaves with its write.
THEOREM QueueIsWriters == Spec => []WritersQueued
  BY InvAlways, PTL DEF Inv

\* No circle of waiting: handlers wait for writers, writers for the thinking
\* requests that read, those for the task that holds a session's mutex, and that
\* one for nobody.  So whatever is in flight, some of it can go on.
THEOREM NobodyStuck == Spec => [](AtRest \/ SomebodyGoesOn)
  <1>1. Inv => AtRest \/ SomebodyGoesOn
    <2> SUFFICES ASSUME Inv, ~SomebodyGoesOn PROVE AtRest
      OBVIOUS
    <2>1. Typed /\ Spawned /\ WritersQueued
      BY DEF Inv, Lone
    <2>2. /\ \A r \in Req : ~HandlerGoesOn(r) /\ ~TaskGoesOn(r)
          /\ \A p \in Proj : ~ProjectGoesOn(p)
          /\ \A t \in Think : ~ThinkingGoesOn(t)
      BY DEF SomebodyGoesOn
    <2>3. \A r \in Req : task[r] \notin {"running", "returned"}
      BY <2>2 DEF TaskGoesOn
    <2>4. \A h : ~Locked(h)
      BY <2>3 DEF Locked
    <2>5. \A r \in Req : task[r] \in {"none", "ended"}
      BY <2>1, <2>2, <2>3, <2>4 DEF TaskGoesOn, Typed, TypeOK, TaskState
    <2>6. \A t \in Think : think[t] \in {"idle", "done"}
      BY <2>1, <2>2, <2>4 DEF ThinkingGoesOn, Typed, TypeOK, ThinkStage
    <2>7. writeQueue = <<>>
      <3> SUFFICES ASSUME writeQueue # <<>> PROVE FALSE
        OBVIOUS
      <3>1. 1 \in DOMAIN writeQueue /\ Head(writeQueue) = writeQueue[1]
        BY <2>1, HeadTailProperties DEF Typed, TypeOK
      <3>2. Head(writeQueue) \in Writers
        BY <2>1, <3>1 DEF WritersQueued, Queues
      <3>3. MayWrite(Head(writeQueue))
        BY <2>6 DEF MayWrite, ReaderInside
      <3> QED
        BY <2>2, <3>2, <3>3 DEF Writers, HandlerGoesOn, ProjectGoesOn
    <2>8. Writers = {}
      BY <2>1, <2>7 DEF WritersQueued, Queues
    <2>9. \A p \in Proj : proj[p] \in {"idle", "done"}
      BY <2>1, <2>2, <2>8 DEF Writers, ProjectGoesOn, Typed, TypeOK, ProjStage
    <2>10. \A r \in Req : phase[r] \in {"unsent", "done"}
      <3>1. \A r \in Req : phase[r] # "forward"
        BY <2>1, <2>2, <2>5 DEF HandlerGoesOn, Spawned, Registered
      <3>2. \A r \in Req : phase[r] \notin {"lookup", "insertHandle"}
        BY <2>2, <2>7, <2>8 DEF HandlerGoesOn, MayRead, Writers
      <3> QED
        BY <2>1, <2>2, <3>1, <3>2 DEF HandlerGoesOn, Typed, TypeOK, Phase
    <2> QED
      BY <2>5, <2>6, <2>9, <2>10 DEF AtRest
  <1> QED BY <1>1, InvAlways, PTL

-----------------------------------------------------------------------------
(* The server implements PromptService. *)

\* The prompts whose client is gone, as the mapping has them.
Deaf == {r \in Req : task[r] # "none" /\ ~clientUp[conn[r]]}

\* What no client, run or stop can notice.
Unseen ==
  /\ UNCHANGED <<task, pending, abort_handles, aborted, clientUp>>
  /\ \A q \in Req : Stage(q)' = Stage(q)

\* A prompt runs for its session, on its handle, as long as it has a task.
LEMMA PlacesKept ==
  ASSUME Steady, \A q \in Req : task'[q] # "none" => task[q] # "none"
  PROVE  /\ [r \in Req |-> IfSpawned(r, sess[r])]' = [r \in Req |-> IfSpawned(r, sess[r])]
         /\ [r \in Req |-> IfSpawned(r, handle[r])]' = [r \in Req |-> IfSpawned(r, handle[r])]
         /\ clientUp' = clientUp => Deaf' = Deaf
  BY DEF Steady, IfSpawned, Deaf

LEMMA UnseenStutters ==
  ASSUME Steady, Unseen PROVE UNCHANGED Service!vars
  BY PlacesKept DEF Unseen, Service!vars, Deaf

\* How far the client was served depends on the handler, once there is a task.
LEMMA StagesKept ==
  ASSUME NEW r \in Req, (task'[r] = "none") <=> (task[r] = "none"), phase'[r] = phase[r]
  PROVE  Stage(r)' = Stage(r)
  BY DEF Stage

LEMMA ServiceInit == Init => Service!Init
  BY DEF Init, Service!Init, Stage, IfSpawned

LEMMA ServiceNext == Inv /\ [Next]_vars => [Service!Next]_(Service!vars)
  <1> SUFFICES ASSUME Inv, [Next]_vars PROVE [Service!Next]_(Service!vars)
    OBVIOUS
  <1>0. Steady
    BY SteadyNext DEF Inv, Lone
  <1> USE AgentAssumption DEF Typed, TypeOK, Phase, TaskState, Addressed, Spawned, Inv, Lone,
        Unpublished, Registered, Unseen, Stage,
        connVars, argVars, taskVars, mapVars, projVars, thinkVars, httpVars
  <1>1. ASSUME NEW c \in Conn, NEW r \in Req, NEW s \in Session,
               ReceivePrompt(c, r, s) PROVE [Service!Next]_(Service!vars)
    <2>1. Unseen
      BY <1>1 DEF ReceivePrompt
    <2> QED
      BY <1>0, <2>1, UnseenStutters
  <1>2. ASSUME NEW c \in Conn, NEW r \in Req, NEW s \in Session, NEW d \in Cwd,
               ReceiveNewChat(c, r, s, d) PROVE [Service!Next]_(Service!vars)
    <2>1. Unseen
      BY <1>2 DEF ReceiveNewChat, Fresh
    <2> QED
      BY <1>0, <2>1, UnseenStutters
  <1>3. ASSUME NEW c \in Conn, Disconnect(c) PROVE [Service!Next]_(Service!vars)
    <2>1. \A q \in Req : Stage(q)' = Stage(q)
      BY <1>3 DEF Disconnect
    <2>2. Deaf \subseteq Deaf' /\ \A q \in Deaf' : q \in Req /\ Stage(q) # "new"
      BY <1>3 DEF Disconnect, Deaf
    <2>3. Service!Leave
      BY <1>0, <1>3, <2>1, <2>2, PlacesKept DEF Disconnect, Service!Leave, Deaf
    <2> QED
      BY <2>3 DEF Service!Next
  <1>4. ASSUME NEW c \in Conn, CloseSocket(c) PROVE [Service!Next]_(Service!vars)
    <2>1. Unseen
      BY <1>4 DEF CloseSocket
    <2> QED
      BY <1>0, <2>1, UnseenStutters
  <1>5. ASSUME NEW r \in Req, FindHandle(r) PROVE [Service!Next]_(Service!vars)
    <2>1. Unseen
      BY <1>5 DEF FindHandle
    <2> QED
      BY <1>0, <2>1, UnseenStutters
  <1>6. ASSUME NEW r \in Req, MissHandle(r) PROVE [Service!Next]_(Service!vars)
    <2>1. Unseen
      BY <1>6 DEF MissHandle
    <2> QED
      BY <1>0, <2>1, UnseenStutters
  <1>7. ASSUME NEW r \in Req, ReadCwd(r) PROVE [Service!Next]_(Service!vars)
    <2>1. Unseen
      BY <1>7 DEF ReadCwd
    <2> QED
      BY <1>0, <2>1, UnseenStutters
  <1>8. ASSUME NEW r \in Req, CreateSucceeds(r) PROVE [Service!Next]_(Service!vars)
    <2>1. Unseen
      BY <1>8 DEF CreateSucceeds
    <2> QED
      BY <1>0, <2>1, UnseenStutters
  <1>9. ASSUME NEW r \in Req, CreateFails(r) PROVE [Service!Next]_(Service!vars)
    <2>1. Unseen
      BY <1>9 DEF CreateFails
    <2> QED
      BY <1>0, <2>1, UnseenStutters
  <1>10. ASSUME NEW r \in Req, InsertForPrompt(r) PROVE [Service!Next]_(Service!vars)
    <2>1. Unseen
      BY <1>10 DEF InsertForPrompt, InsertHandle
    <2> QED
      BY <1>0, <2>1, UnseenStutters
  <1>11. ASSUME NEW r \in Req, InsertForNewChat(r) PROVE [Service!Next]_(Service!vars)
    <2>1. Unseen
      BY <1>11 DEF InsertForNewChat, InsertHandle
    <2> QED
      BY <1>0, <2>1, UnseenStutters
  <1>12. ASSUME NEW r \in Req, RegisterAbort(r) PROVE [Service!Next]_(Service!vars)
    <2>1. Stage(r) = "new" /\ Stage(r)' = "open" /\ \A q \in Req \ {r} : Stage(q)' = Stage(q)
      BY <1>12 DEF RegisterAbort
    <2>2. sess[r] \in Session /\ handle[r] \in Req
      BY <1>12 DEF RegisterAbort, Handled
    <2>3. ASSUME NEW q \in Req, IfSpawned(q, handle[q]) = handle[r]
          PROVE  IfSpawned(q, sess[q]) = sess[r]
      BY <2>2, <2>3 DEF IfSpawned, Published
    <2>4. [q \in Req |-> IfSpawned(q, sess[q])]' = [[q \in Req |-> IfSpawned(q, sess[q])] EXCEPT ![r] = sess[r]]
      BY <1>12 DEF RegisterAbort, IfSpawned
    <2>5. [q \in Req |-> IfSpawned(q, handle[q])]' = [[q \in Req |-> IfSpawned(q, handle[q])] EXCEPT ![r] = handle[r]]
      BY <1>12 DEF RegisterAbort, IfSpawned
    <2>6. Deaf' \in {Deaf, Deaf \cup {r}}
      BY <1>12 DEF RegisterAbort, Deaf
    <2>7. [q \in Req |-> Stage(q)]' = [[q \in Req |-> Stage(q)] EXCEPT ![r] = "open"]
      BY <2>1
    <2>8. /\ UNCHANGED <<pending, aborted>>
          /\ task' = [task EXCEPT ![r] = "waiting"]
          /\ abort_handles' = [abort_handles EXCEPT ![sess[r]] = r]
      BY <1>12 DEF RegisterAbort
    <2>9. PICK s \in Session, h \in Req : s = sess[r] /\ h = handle[r]
      BY <2>2
    <2>10. Service!Open(r, s, h)
      BY ONLY <2>1, <2>3, <2>4, <2>5, <2>6, <2>7, <2>8, <2>9, r \in Req DEF Service!Open, Deaf
    <2> QED
      BY ONLY <2>9, <2>10, r \in Req DEF Service!Next
  <1>13. ASSUME NEW r \in Req, ForwardEvent(r) PROVE [Service!Next]_(Service!vars)
    <2>1. \A q \in Req : (task'[q] = "none") <=> (task[q] = "none")
      BY <1>13 DEF ForwardEvent
    <2>2. \A q \in Req : Stage(q)' = Stage(q)
      BY <1>13, <2>1, StagesKept DEF ForwardEvent
    <2>9. Service!Deliver(r)
      BY <1>0, <1>13, <2>1, <2>2, PlacesKept DEF ForwardEvent, Service!Deliver, Deaf
    <2> QED
      BY <2>9 DEF Service!Next
  <1>14. ASSUME NEW r \in Req, ForwardBreaks(r) PROVE [Service!Next]_(Service!vars)
    <2>1. \A q \in Req : Stage(q)' = Stage(q)
      BY <1>14 DEF ForwardBreaks
    <2>2. Service!Deliver(r)
      BY <1>0, <1>14, <2>1, PlacesKept DEF ForwardBreaks, Service!Deliver, Deaf
    <2> QED
      BY <2>2 DEF Service!Next
  <1>15. ASSUME NEW r \in Req, StreamEnds(r) PROVE [Service!Next]_(Service!vars)
    <2>1. Unseen
      BY <1>15 DEF StreamEnds
    <2> QED
      BY <1>0, <2>1, UnseenStutters
  <1>16. ASSUME NEW r \in Req, Report(r) PROVE [Service!Next]_(Service!vars)
    <2>1. Stage(r) = "open" /\ Stage(r)' = "told" /\ \A q \in Req \ {r} : Stage(q)' = Stage(q)
      BY <1>16 DEF Report
    <2>2. r \in Deaf \/ (task[r] \in {"returned", "ended"} /\ pending[r] = 0)
      BY <1>16 DEF Report, Deaf, DrainedAfterLoop, Drained
    <2>3. Service!Complete(r)
      BY <1>0, <1>16, <2>1, <2>2, PlacesKept DEF Report, Service!Complete, Deaf
    <2> QED
      BY <2>3 DEF Service!Next
  <1>17. ASSUME NEW r \in Req, RemoveAbort(r) PROVE [Service!Next]_(Service!vars)
    <2>1. Stage(r) = "told" /\ Stage(r)' = "over" /\ \A q \in Req \ {r} : Stage(q)' = Stage(q)
      BY <1>17 DEF RemoveAbort
    <2>2. IfSpawned(r, sess[r]) = sess[r]
      BY <1>17 DEF RemoveAbort, IfSpawned
    <2>3. Service!Close(r)
      BY <1>0, <1>17, <2>1, <2>2, PlacesKept DEF RemoveAbort, Service!Close, Deaf
    <2> QED
      BY <2>3 DEF Service!Next
  <1>18. ASSUME NEW r \in Req, FinishLabel(r) PROVE [Service!Next]_(Service!vars)
    <2>1. Unseen
      BY <1>18 DEF FinishLabel
    <2> QED
      BY <1>0, <2>1, UnseenStutters
  <1>19. ASSUME NEW r \in Req, LockHandle(r) PROVE [Service!Next]_(Service!vars)
    <2>1. \A q \in Req : (task'[q] = "none") <=> (task[q] = "none")
      BY <1>19 DEF LockHandle
    <2>2. \A q \in Req : Stage(q)' = Stage(q)
      BY <1>19, <2>1, StagesKept DEF LockHandle
    <2>3. \A q \in Req : IfSpawned(q, handle[q]) = IfSpawned(r, handle[r]) =>
                         task[q] \notin {"running", "returned"}
      BY <1>19 DEF LockHandle, Locked, IfSpawned, Handled
    <2>9. Service!Begin(r)
      BY <1>0, <1>19, <2>1, <2>2, PlacesKept, <2>3 DEF LockHandle, Service!Begin, Deaf
    <2> QED
      BY <2>9 DEF Service!Next
  <1>20. ASSUME NEW r \in Req, EmitEvent(r) PROVE [Service!Next]_(Service!vars)
    <2>1. \A q \in Req : (task'[q] = "none") <=> (task[q] = "none")
      BY <1>20 DEF EmitEvent
    <2>2. \A q \in Req : Stage(q)' = Stage(q)
      BY <1>20, <2>1, StagesKept DEF EmitEvent
    <2>9. Service!Emit(r)
      BY <1>0, <1>20, <2>1, <2>2, PlacesKept DEF EmitEvent, Service!Emit, Deaf
    <2> QED
      BY <2>9 DEF Service!Next
  <1>21. ASSUME NEW r \in Req, RunReturns(r) PROVE [Service!Next]_(Service!vars)
    <2>1. \A q \in Req : (task'[q] = "none") <=> (task[q] = "none")
      BY <1>21 DEF RunReturns
    <2>2. \A q \in Req : Stage(q)' = Stage(q)
      BY <1>21, <2>1, StagesKept DEF RunReturns
    <2>9. Service!Return(r)
      BY <1>0, <1>21, <2>1, <2>2, PlacesKept DEF RunReturns, Service!Return, Deaf
    <2> QED
      BY <2>9 DEF Service!Next
  <1>22. ASSUME NEW r \in Req, TaskEnds(r) PROVE [Service!Next]_(Service!vars)
    <2>1. \A q \in Req : (task'[q] = "none") <=> (task[q] = "none")
      BY <1>22 DEF TaskEnds
    <2>2. \A q \in Req : Stage(q)' = Stage(q)
      BY <1>22, <2>1, StagesKept DEF TaskEnds
    <2>9. Service!End(r)
      BY <1>0, <1>22, <2>1, <2>2, PlacesKept DEF TaskEnds, Service!End, Deaf
    <2> QED
      BY <2>9 DEF Service!Next
  <1>23. ASSUME NEW s \in Session, StopAgent(s) PROVE [Service!Next]_(Service!vars)
    <2>1. /\ abort_handles[s] \in Req /\ Stage(abort_handles[s]) \in {"open", "told"}
          /\ IfSpawned(abort_handles[s], sess[abort_handles[s]]) = s
      BY <1>23 DEF StopAgent, AbortEntryLive, IfSpawned
    <2>2. Service!Stop(s)
      BY <1>0, <1>23, <2>1, PlacesKept DEF StopAgent, Service!Stop, Deaf
    <2> QED
      BY <2>2 DEF Service!Next
  <1>24. ASSUME NEW p \in Proj, NEW s \in Session, NEW d \in Cwd,
               StoreProject(p, s, d) PROVE [Service!Next]_(Service!vars)
    <2>1. Unseen
      BY <1>24 DEF StoreProject
    <2> QED
      BY <1>0, <2>1, UnseenStutters
  <1>25. ASSUME NEW p \in Proj, QueueDrop(p) PROVE [Service!Next]_(Service!vars)
    <2>1. Unseen
      BY <1>25 DEF QueueDrop
    <2> QED
      BY <1>0, <2>1, UnseenStutters
  <1>26. ASSUME NEW p \in Proj, DropHandle(p) PROVE [Service!Next]_(Service!vars)
    <2>1. Unseen
      BY <1>26 DEF DropHandle
    <2> QED
      BY <1>0, <2>1, UnseenStutters
  <1>27. ASSUME NEW t \in Think, NEW s \in Session,
               ThinkEnter(t, s) PROVE [Service!Next]_(Service!vars)
    <2>1. Unseen
      BY <1>27 DEF ThinkEnter
    <2> QED
      BY <1>0, <2>1, UnseenStutters
  <1>28. ASSUME NEW t \in Think, ThinkLeave(t) PROVE [Service!Next]_(Service!vars)
    <2>1. Unseen
      BY <1>28 DEF ThinkLeave
    <2> QED
      BY <1>0, <2>1, UnseenStutters
  <1>29. CASE UNCHANGED vars
    BY <1>0, <1>29, UnseenStutters DEF vars
  <1> QED
    BY <1>1, <1>2, <1>3, <1>4, <1>5, <1>6, <1>7, <1>8, <1>9, <1>10, <1>11,
       <1>12, <1>13, <1>14, <1>15, <1>16, <1>17, <1>18, <1>19, <1>20,
       <1>21, <1>22, <1>23, <1>24, <1>25, <1>26, <1>27, <1>28, <1>29
       DEF Next, Handler, AgentTask, Rest

\* What the server promises of its prompts (PromptService) holds of every
\* interleaving of handlers, tasks, stops, set_projects and disconnects.
THEOREM PromptsAreServed == Spec => PromptsServed
  BY ServiceInit, ServiceNext, InvAlways, PTL DEF Spec, PromptsServed, Service!Spec
=============================================================================
