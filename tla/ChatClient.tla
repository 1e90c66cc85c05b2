------------------------------ MODULE ChatClient ------------------------------
(***************************************************************************)
(* The chat of the frontend: the WebSocket that reconnects by itself       *)
(* (WebSocketContext.tsx), the current session (SessionContext.tsx), the   *)
(* messages and isProcessing (ChatContext.tsx) and the handlers of what    *)
(* the server sends (useChatWebSocketSubscriptions.ts), which pay no       *)
(* attention to the session a message is about.                            *)
(*                                                                         *)
(* The server appears as a client sees it: it takes the frames of a        *)
(* connection one after another, a prompt for a whole turn; AgentServer    *)
(* has its inside.                                                         *)
(***************************************************************************)
EXTENDS Naturals, Sequences

CONSTANTS
  Session,    \* session ids, each generated once
  NOSESSION,  \* no session yet
  MaxSubmits, \* bound on the submits
  MaxAsks,    \* bound on new chats, loads and stops
  MaxLosses   \* bound on lost connections

ASSUME ChatAssumption ==
  /\ NOSESSION \notin Session
  /\ {MaxSubmits, MaxAsks, MaxLosses} \subseteq Nat

VARIABLES
  socket,       \* "open", "closing" (nobody has noticed) or "closed"
  up, down,     \* frames on the way to the server and back
  turn,         \* the server's turn: its prompt, 0 if none; session, stage
  sessions,     \* sessions the server has
  session,      \* currentSessionId
  view,         \* sessions whose messages are shown
  isProcessing, 
  sessionRef, processingRef, \* session and isProcessing as of the last render
  loads,        \* sessions being loaded
  stops,        \* stop requests under way
  \* history
  open,         \* prompts sent and not completed, as far as the client knows
  ended,        \* prompts whose end was heard of
  excused,      \* prompts sent before another was completed, or open when a stop was
                \*   answered, a new chat failed, or a submit took the chat for idle
  severed,      \* isProcessing since a connection that was lost
  strayed,      \* the session was switched while a prompt to another was open, or
                \*   a submit was made before the switch was rendered
  submits, asks, losses

serverVars == <<turn, sessions>>
refVars == <<sessionRef, processingRef>>
chatVars == <<session, view, isProcessing, refVars, loads, stops>>
pastVars == <<open, ended, excused, severed, strayed>>
boundVars == <<submits, asks, losses>>
clientVars == <<socket, up, down, serverVars, chatVars, pastVars, boundVars>>

Prompts == 1..MaxSubmits
NoTurn == [of |-> 0, session |-> NOSESSION, stage |-> "none"]

Frame(kind, n, s) == [kind |-> kind, of |-> n, session |-> s]
NewChatFrame == Frame("newChat", 0, NOSESSION)
Frames(kinds) == [kind : kinds, of : 0..MaxSubmits, session : Session \cup {NOSESSION}]

(* Socket, chat and server range over what the contexts keep and exchange. *)
ClientTypeOK ==
  /\ socket \in {"open", "closing", "closed"}
  /\ up \in Seq(Frames({"newChat", "prompt", "steer"}))
  /\ down \in Seq(Frames({"cleared", "start", "agentEnd", "error", "failed", "complete"}))
  /\ turn \in [of : 0..MaxSubmits, session : Session \cup {NOSESSION},
               stage : {"none", "new", "running", "ended", "erred"}]
  /\ sessions \subseteq Session /\ session \in sessions \cup {NOSESSION}
  /\ view \subseteq sessions \cup {NOSESSION}
  /\ isProcessing \in BOOLEAN
  /\ sessionRef \in sessions \cup {NOSESSION} /\ processingRef \in BOOLEAN
  /\ severed \in BOOLEAN /\ strayed \in BOOLEAN
  /\ loads \subseteq sessions /\ stops \in 0..MaxAsks
  /\ open \subseteq Prompts /\ ended \subseteq Prompts /\ excused \subseteq Prompts
  /\ submits \in 0..MaxSubmits /\ asks \in 0..MaxAsks /\ losses \in 0..MaxLosses

ClientInit ==
  /\ socket = "closed" /\ up = <<>> /\ down = <<>>
  /\ turn = NoTurn /\ sessions = {}
  /\ session = NOSESSION /\ view = {}
  /\ isProcessing = FALSE
  /\ sessionRef = NOSESSION /\ processingRef = FALSE
  /\ loads = {} /\ stops = 0
  /\ open = {} /\ ended = {} /\ excused = {} /\ severed = FALSE /\ strayed = FALSE
  /\ submits = 0 /\ asks = 0 /\ losses = 0

-----------------------------------------------------------------------------
(* The connection *)

\* onopen asks for a new chat at once.
Connect ==
  /\ socket = "closed"
  /\ socket' = "open"
  /\ up' = <<NewChatFrame>>
  /\ UNCHANGED <<down, serverVars, chatVars, pastVars, boundVars>>

\* What has arrived is still delivered; the server gives the connection up.
Lose ==
  /\ socket = "open" /\ losses < MaxLosses
  /\ losses' = losses + 1
  /\ socket' = "closing"
  /\ up' = <<>> /\ turn' = NoTurn
  /\ \E k \in 0..Len(down) : down' = SubSeq(down, 1, k)
  /\ UNCHANGED <<sessions, chatVars, pastVars, submits, asks>>

\* onclose, after the last message; isProcessing stays as it is.
Closed ==
  /\ socket = "closing" /\ down = <<>>
  /\ socket' = "closed"
  /\ open' = {} /\ severed' = isProcessing
  /\ UNCHANGED <<up, down, serverVars, chatVars, ended, excused, strayed, boundVars>>

-----------------------------------------------------------------------------
(* The user *)

Asked == asks < MaxAsks /\ asks' = asks + 1

\* The effects that follow a render copy the state into the refs.
Render ==
  /\ sessionRef' = session /\ processingRef' = isProcessing
  /\ UNCHANGED <<socket, up, down, serverVars, session, view, isProcessing, loads,
                 stops, pastVars, boundVars>>

\* handleSubmit, while the chat looked busy: a steer, which the server drops.
Steer ==
  /\ socket # "closed" /\ processingRef /\ submits < MaxSubmits
  /\ submits' = submits + 1
  /\ view' = view \cup {sessionRef}
  /\ strayed' = (strayed \/ sessionRef # session)
  /\ up' = IF socket = "open" THEN Append(up, Frame("steer", 0, sessionRef)) ELSE up
  /\ UNCHANGED <<socket, down, serverVars, session, isProcessing, refVars, loads, stops, open,
                 ended, excused, severed, asks, losses>>

\* handleSubmit otherwise: a prompt for the session it saw; what cannot be sent
\* is taken back.
Submit ==
  LET n == submits + 1
  IN /\ socket # "closed" /\ ~processingRef /\ submits < MaxSubmits
     /\ submits' = n
     /\ excused' = excused \cup open \cup (IF open # {} /\ socket = "open" THEN {n} ELSE {})
     /\ severed' = FALSE
     /\ IF socket = "open"
        THEN /\ up' = Append(up, Frame("prompt", n, sessionRef))
             /\ isProcessing' = TRUE
             /\ view' = view \cup {sessionRef}
             /\ strayed' = (strayed \/ sessionRef # session)
             /\ open' = open \cup {n}
        ELSE isProcessing' = FALSE /\ UNCHANGED <<up, view, strayed, open>>
     /\ UNCHANGED <<socket, down, serverVars, session, refVars, loads, stops, ended,
                    asks, losses>>

\* createSession; changeProjectDir does the same once the server has answered.
NewChat ==
  /\ Asked
  /\ up' = IF socket = "open" THEN Append(up, NewChatFrame) ELSE up
  /\ UNCHANGED <<socket, down, serverVars, chatVars, pastVars, submits, losses>>

Idle == isProcessing' = FALSE /\ severed' = FALSE

AskStop ==
  /\ isProcessing /\ Asked
  /\ stops' = stops + 1
  /\ UNCHANGED <<socket, up, down, serverVars, session, view, isProcessing, refVars,
                 loads, pastVars, submits, losses>>

\* POST /api/stop is answered with success though nothing was stopped; or fails.
StopAnswered ==
  /\ stops > 0
  /\ stops' = stops - 1
  /\ \/ Idle /\ excused' = excused \cup open
     \/ UNCHANGED <<isProcessing, severed, excused>>
  /\ UNCHANGED <<socket, up, down, serverVars, session, view, refVars, loads, open, ended,
                 strayed, boundVars>>

AskLoad(s) ==
  /\ s \in sessions /\ Asked
  /\ loads' = loads \cup {s}
  /\ UNCHANGED <<socket, up, down, serverVars, session, view, isProcessing, refVars,
                 stops, pastVars, submits, losses>>

\* Prompts to the server, or in it, for another session than s.
OpenElsewhere(s) ==
  \/ \E i \in DOMAIN up : up[i].kind = "prompt" /\ up[i].session # s
  \/ turn.of # 0 /\ turn.session # s
  \/ \E i \in DOMAIN down : down[i].kind = "start" /\ down[i].session # s

\* The current session and its messages change together.
SwitchTo(s, messages) ==
  /\ session' = s
  /\ view' = messages
  /\ strayed' = OpenElsewhere(s)

LoadAnswered(s) ==
  /\ s \in loads
  /\ loads' = loads \ {s}
  /\ \/ SwitchTo(s, {s})
     \/ UNCHANGED <<session, view, strayed>>
  /\ UNCHANGED <<socket, up, down, serverVars, isProcessing, refVars, stops, open,
                 ended, excused, severed, boundVars>>

-----------------------------------------------------------------------------
(* The server *)

Say(kind, n, s) == down' = Append(down, Frame(kind, n, s))

\* A fresh session id; which one makes no difference.
NewSession == CHOOSE s \in Session : s \notin sessions

\* The next frame of the connection, when no turn is running.
TakeFrame ==
  /\ socket = "open" /\ turn = NoTurn /\ up # <<>>
  /\ up' = Tail(up)
  /\ LET f == Head(up)
     IN \/ f.kind = "steer" /\ UNCHANGED <<down, serverVars>>
        \/ f.kind = "newChat" /\ Say("error", 0, NOSESSION) /\ UNCHANGED serverVars
        \/ /\ f.kind = "newChat" /\ UNCHANGED turn
           /\ sessions # Session /\ sessions' = sessions \cup {NewSession}
           /\ Say("cleared", 0, NewSession)
        \* a prompt of images alone: an error, and no turn
        \/ f.kind = "prompt" /\ Say("failed", f.of, f.session) /\ UNCHANGED serverVars
        \/ /\ f.kind = "prompt" /\ f.session # NOSESSION
           /\ turn' = [of |-> f.of, session |-> f.session, stage |-> "new"]
           /\ UNCHANGED <<down, sessions>>
        \/ /\ f.kind = "prompt" /\ f.session = NOSESSION
           /\ sessions # Session /\ sessions' = sessions \cup {NewSession}
           /\ Say("cleared", 0, NewSession)
           /\ turn' = [of |-> f.of, session |-> NewSession, stage |-> "new"]
  /\ UNCHANGED <<socket, chatVars, pastVars, boundVars>>

\* The session of a prompt cannot be created: an error, and the turn is over.
FailTurn ==
  /\ socket = "open" /\ turn.stage = "new"
  /\ Say("failed", turn.of, turn.session)
  /\ turn' = NoTurn
  /\ UNCHANGED <<socket, up, sessions, chatVars, pastVars, boundVars>>

\* A message starts, the agent ends, and its error is told.
RunTurn ==
  /\ socket = "open" /\ turn.stage \in {"new", "running", "ended"}
  /\ \/ /\ turn.stage # "ended" /\ Len(down) < 2
        /\ Say("start", turn.of, turn.session) /\ turn' = [turn EXCEPT !.stage = "running"]
     \/ /\ turn.stage # "ended" /\ turn' = [turn EXCEPT !.stage = "ended"]
        /\ Say("agentEnd", turn.of, turn.session)
     \/ turn' = [turn EXCEPT !.stage = "erred"] /\ Say("error", turn.of, turn.session)
  /\ UNCHANGED <<socket, up, sessions, chatVars, pastVars, boundVars>>

\* prompt_complete, also when there was neither an end nor an error.
EndTurn ==
  /\ socket = "open" /\ turn # NoTurn
  /\ Say("complete", turn.of, turn.session)
  /\ turn' = NoTurn
  /\ UNCHANGED <<socket, up, sessions, chatVars, pastVars, boundVars>>

-----------------------------------------------------------------------------
(* The handlers *)

\* Mutant: the messages stay when the session is switched.
HandleClearedKeeping(m) ==
  /\ m.kind = "cleared"
  /\ SwitchTo(m.session, view)
  /\ UNCHANGED <<isProcessing, open, ended, excused, severed>>

\* chat_cleared: the chat context empties the messages, isProcessing stays.
HandleCleared(m) ==
  /\ m.kind = "cleared"
  /\ SwitchTo(m.session, {})
  /\ UNCHANGED <<isProcessing, open, ended, excused, severed>>

HandleStart(m) ==
  /\ m.kind = "start"
  /\ view' = view \cup {m.session}
  /\ UNCHANGED <<session, isProcessing, open, ended, excused, severed, strayed>>

HandleAgentEnd(m) ==
  /\ m.kind = "agentEnd" /\ Idle
  /\ ended' = ended \cup {m.of}
  /\ UNCHANGED <<session, view, open, excused, strayed>>

\* Mutant: an error is shown and leaves the chat busy.
HandleErrorBusy(m) ==
  /\ m.kind \in {"error", "failed"}
  /\ IF m.of = 0
     THEN excused' = excused \cup open /\ UNCHANGED <<open, ended>>
     ELSE /\ ended' = ended \cup {m.of}
          /\ open' = IF m.kind = "failed" THEN open \ {m.of} ELSE open
          /\ UNCHANGED excused
  /\ UNCHANGED <<session, view, isProcessing, severed, strayed>>

\* The error of a failed new chat counts for whatever is being processed.
HandleError(m) ==
  /\ m.kind \in {"error", "failed"}
  /\ isProcessing' = FALSE /\ severed' = FALSE
  /\ IF m.of = 0
     THEN excused' = excused \cup open /\ UNCHANGED <<open, ended>>
     ELSE /\ ended' = ended \cup {m.of}
          /\ open' = IF m.kind = "failed" THEN open \ {m.of} ELSE open
          /\ UNCHANGED excused
  /\ UNCHANGED <<session, view, strayed>>

\* Mutant: only agent_end and errors end the processing.
HandleCompleteBusy(m) ==
  /\ m.kind = "complete"
  /\ open' = open \ {m.of} /\ ended' = ended \cup {m.of}
  /\ UNCHANGED <<session, view, isProcessing, excused, severed, strayed>>

HandleComplete(m) ==
  /\ m.kind = "complete"
  /\ isProcessing' = FALSE /\ severed' = FALSE
  /\ open' = open \ {m.of} /\ ended' = ended \cup {m.of}
  /\ UNCHANGED <<session, view, excused, strayed>>

Receive ==
  /\ socket # "closed" /\ down # <<>>
  /\ down' = Tail(down)
  /\ LET m == Head(down)
     IN \/ HandleCleared(m) \/ HandleStart(m) \/ HandleAgentEnd(m) \/ HandleError(m)
        \/ HandleComplete(m)
  /\ UNCHANGED <<socket, up, serverVars, refVars, loads, stops, boundVars>>

ClientNext ==
  \/ Connect \/ Lose \/ Closed
  \/ Render \/ Steer \/ Submit \/ NewChat \/ AskStop \/ StopAnswered
  \/ \E s \in Session : AskLoad(s) \/ LoadAnswered(s)
  \/ TakeFrame \/ FailTurn \/ RunTurn \/ EndTurn \/ Receive

\* The reconnecting timer never gives up, messages are delivered or the socket
\* closes, and the agent ends its turns.
SocketStep == Connect \/ Closed \/ Receive
ServerStep == TakeFrame \/ EndTurn
ClientFairness == WF_clientVars(SocketStep) /\ WF_clientVars(ServerStep)

ClientSpec == ClientInit /\ [][ClientNext]_clientVars /\ ClientFairness

-----------------------------------------------------------------------------
(* Properties *)

\* The chat looks busy only while a prompt of its connection is not completed,
\* or it was when its connection was lost; and it looks idle while a prompt is
\* running only if it was told of that prompt's end, if the prompt was sent before
\* the one before it was completed, or if it was open when a stop was answered, a
\* new chat failed, or another submit still saw the chat idle (ChatContext.tsx
\* 85-119).  Of the server's turn, which may be over before the chat hears of it,
\* this says nothing: a steer is taken after it (TakeFrame).
BusyMatchesTurn ==
  /\ isProcessing => open # {} \/ severed
  /\ ~isProcessing => open \subseteq ended \cup excused

\* The messages shown are of the current session, though no handler compares
\* them with it; unless the session was switched before a prompt to another was
\* answered, or a submit was made between the switch and the render that copies
\* it into sessionIdRef (useChatWebSocketSubscriptions.ts 43-64).
AnswersInOwnChat == ~strayed => view \subseteq {session}

\* A chat that is busy does not stay so, however the turn ends, unless the
\* connection is lost before it hears of that.
BusySettles == isProcessing ~> ~isProcessing \/ severed
=============================================================================
