------------------------------ MODULE MCStores ------------------------------
(* The stores share no state: each behaviour is of one of them, or of one of
   the configuration files. *)
EXTENDS SessionFiles, ConfigFiles, Plugins, CaptureLibrary, TLC

VARIABLE focus

StoresInit ==
  /\ SessionInit /\ ConfigInit /\ PluginInit /\ CaptureInit
  /\ focus \in {"sessions", "plugins", "captures"} \cup Files
  /\ focus # "plugins" => dir = [d \in Dir |-> MISSING]

ConfigStep(f) ==
  /\ ConfigNext
  /\ \A r \in Request : job'[r].file \in {NONE, f}
  /\ \A g \in Files \ {f} : file'[g] = file[g]
  /\ f # "auth" => begun' = {}

StoresNext ==
  /\ UNCHANGED focus
  /\ \/ focus = "sessions" /\ SessionNext /\ UNCHANGED <<configVars, pluginVars, captureVars>>
     \/ focus = "plugins" /\ PluginNext /\ UNCHANGED <<sessionVars, configVars, captureVars>>
     \/ focus = "captures" /\ CaptureNext /\ UNCHANGED <<sessionVars, configVars, pluginVars>>
     \/ \E f \in Files \cap {focus} :
          ConfigStep(f) /\ UNCHANGED <<sessionVars, pluginVars, captureVars>>

StoresSpec ==
  StoresInit /\ [][StoresNext]_<<focus, sessionVars, configVars, pluginVars, captureVars>>

\* What the stores, the plugins and the library keep has its types.
StoresTypeOK == SessionTypeOK /\ ConfigTypeOK /\ PluginTypeOK /\ CaptureTypeOK

Symmetry == Permutations(Request) \cup Permutations(Capture)
=============================================================================
