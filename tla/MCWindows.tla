------------------------------ MODULE MCWindows ------------------------------
(* The recorder's windows and the chat share no state: each behaviour is of
   one of them. *)
EXTENDS ScreenRecorder, ChatClient

VARIABLE focus

WindowsInit == RecorderInit /\ ClientInit /\ focus \in {"recorder", "chat"}

WindowsNext ==
  /\ UNCHANGED focus
  /\ \/ focus = "recorder" /\ RecorderNext /\ UNCHANGED clientVars
     \/ focus = "chat" /\ ClientNext /\ UNCHANGED recorderVars

\* ClientFairness, for the behaviours of the chat.
ChatFairness ==
  WF_clientVars(focus = "chat" /\ SocketStep) /\ WF_clientVars(focus = "chat" /\ ServerStep)

WindowsSpec ==
  /\ WindowsInit /\ [][WindowsNext]_<<focus, recorderVars, clientVars>>
  /\ RecorderFairness /\ ChatFairness

\* What the windows, the commands and the contexts keep has its types.
WindowsTypeOK == RecorderTypeOK /\ ClientTypeOK
=============================================================================
