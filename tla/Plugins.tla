-------------------------------- MODULE Plugins --------------------------------
(***************************************************************************)
(* The plugins (server/plugins.rs): a directory each under ~/.pi/plugins,  *)
(* and the registry of those the server has read or installed.  The        *)
(* registry is behind a lock, which uninstall_plugin holds while it        *)
(* deletes the directory and install_plugin takes only at the end.         *)
(*                                                                         *)
(* Every manifest is the placeholder of extract_manifest_from_wasm, so all *)
(* installs write one directory and register one plugin.                   *)
(***************************************************************************)
EXTENDS Disk, Naturals

CONSTANTS
  Plugin,       \* the ids in manifests
  PLACEHOLDER,  \* the one that is installed
  Dir,          \* directories of plugins
  TARGET,       \* the one installs write
  BARE,         \* a directory without a manifest that parses
  MaxInstalls,  \* bound on the installs
  MaxStops      \* bound on the crashes

ASSUME PluginAssumption ==
  /\ PLACEHOLDER \in Plugin /\ TARGET \in Dir
  /\ {MaxInstalls, MaxStops} \subseteq Nat
  /\ MISSING \notin Plugin \cup {BARE} /\ BARE \notin Plugin
  /\ NONE \notin [path : Dir, enabled : BOOLEAN]

VARIABLES
  serving,    \* the server runs
  dir,        \* dir[d]: the id in its manifest, BARE or MISSING
  registry,   \* registry[p]: path and enabled
  install,    \* install[r]: where the request stands
  \* history
  gone,       \* plugins whose removal was acknowledged, with no install since
  muddled,    \* plugins whose registration and directories may differ
  contested,  \* plugins removed while another directory had the id or an install was at it
  installs, stops

pluginVars == <<serving, dir, registry, install, gone, muddled, contested, installs, stops>>

Registered == [path : Dir, enabled : BOOLEAN]

(* Directories, registry and requests range over what plugins.rs keeps. *)
PluginTypeOK ==
  /\ serving \in BOOLEAN
  /\ dir \in [Dir -> Plugin \cup {MISSING, BARE}]
  /\ registry \in [Plugin -> Registered \cup {NONE}]
  /\ install \in [Request -> {"idle", "download", "wasm", "manifest", "register"}]
  /\ gone \subseteq Plugin /\ muddled \subseteq Plugin /\ contested \subseteq Plugin
  /\ installs \in 0..MaxInstalls /\ stops \in 0..MaxStops

Holders(p) == {d \in Dir : dir[d] = p}

\* scan_plugins, in any order of the directories; one of two with an id stays.
Scanned ==
  {reg \in [Plugin -> Registered \cup {NONE}] :
     \A p \in Plugin :
       IF Holders(p) = {} THEN reg[p] = NONE
       ELSE reg[p] # NONE /\ reg[p].path \in Holders(p) /\ reg[p].enabled}

\* Users put plugins into directories by hand, but not into TARGET.
PluginInit ==
  /\ serving = TRUE
  /\ dir \in {f \in [Dir -> Plugin \cup {MISSING, BARE}] : f[TARGET] \notin Plugin \ {PLACEHOLDER}}
  /\ registry \in Scanned
  /\ install = [r \in Request |-> "idle"]
  /\ gone = {} /\ muddled = {} /\ contested = {}
  /\ installs = 0 /\ stops = 0

-----------------------------------------------------------------------------
(* Installing *)

BeginInstall(r) ==
  /\ serving /\ install[r] = "idle" /\ installs < MaxInstalls
  /\ installs' = installs + 1
  /\ install' = [install EXCEPT ![r] = "download"]
  /\ UNCHANGED <<serving, dir, registry, gone, muddled, contested, stops>>

\* Installs that are at the directory.
Installing == {r \in Request : install[r] \notin {"idle", "download"}}

Step(r, now, then) == install[r] = now /\ install' = [install EXCEPT ![r] = then]

\* The download is there; create_dir_all leaves a directory that exists alone.
MakeDir(r) ==
  /\ serving /\ Step(r, "download", "wasm")
  /\ dir' = [dir EXCEPT ![TARGET] = IF @ = MISSING THEN BARE ELSE @]
  /\ gone' = gone \ {PLACEHOLDER}
  /\ UNCHANGED <<serving, registry, muddled, contested, installs, stops>>

WriteWasm(r) ==
  /\ serving /\ dir[TARGET] # MISSING
  /\ Step(r, "wasm", "manifest")
  /\ UNCHANGED <<serving, dir, registry, gone, muddled, contested, installs, stops>>

WriteManifest(r) ==
  /\ serving /\ dir[TARGET] # MISSING
  /\ Step(r, "manifest", "register")
  /\ dir' = [dir EXCEPT ![TARGET] = PLACEHOLDER]
  /\ UNCHANGED <<serving, registry, gone, muddled, contested, installs, stops>>

\* The download or a write fails, or the directory was removed: what is there
\* stays there, and a manifest that was there may have been emptied.
FailInstall(r) ==
  /\ serving /\ install[r] \in {"download", "wasm", "manifest"}
  /\ install' = [install EXCEPT ![r] = "idle"]
  /\ \/ UNCHANGED <<dir, muddled>>
     \/ /\ install[r] = "manifest" /\ dir[TARGET] # MISSING
        /\ dir' = [dir EXCEPT ![TARGET] = BARE]
        /\ muddled' = muddled \cup {PLACEHOLDER}
  /\ UNCHANGED <<serving, registry, gone, contested, installs, stops>>

\* Mutant of Register: does not wait for the manifest.
RegisterEarly(r) ==
  /\ serving /\ install[r] \in {"manifest", "register"}
  /\ install' = [install EXCEPT ![r] = "idle"]
  /\ registry' = [registry EXCEPT ![PLACEHOLDER] = [path |-> TARGET, enabled |-> TRUE]]
  /\ gone' = gone \ {PLACEHOLDER}
  /\ UNCHANGED <<serving, dir, muddled, contested, installs, stops>>

Register(r) ==
  /\ serving /\ Step(r, "register", "idle")
  /\ registry' = [registry EXCEPT ![PLACEHOLDER] = [path |-> TARGET, enabled |-> TRUE]]
  /\ gone' = gone \ {PLACEHOLDER}
  /\ UNCHANGED <<serving, dir, muddled, contested, installs, stops>>

-----------------------------------------------------------------------------
(* The other operations, each under the registry's lock *)

SetEnabled(p, enabled) ==
  /\ serving /\ registry[p] # NONE
  /\ registry' = [registry EXCEPT ![p].enabled = enabled]
  /\ UNCHANGED <<serving, dir, install, gone, muddled, contested, installs, stops>>

\* Mutant of Uninstall: only the registry forgets the plugin.
UninstallUnlisted(p) ==
  /\ serving /\ registry[p] # NONE
  /\ registry' = [registry EXCEPT ![p] = NONE]
  /\ gone' = gone \cup {p}
  /\ UNCHANGED <<serving, dir, install, muddled, contested, installs, stops>>

\* The directory is deleted for good, unless an install is at it or another
\* directory has the same id.
Uninstall(p) ==
  /\ serving /\ registry[p] # NONE
  /\ registry' = [registry EXCEPT ![p] = NONE]
  /\ LET d == registry[p].path
         clean == Holders(p) \subseteq {d} /\ (p = PLACEHOLDER => Installing = {})
     IN \/ /\ dir[d] # MISSING
           /\ dir' = [dir EXCEPT ![d] = MISSING]
           /\ gone' = gone \cup {p}
           /\ IF clean THEN contested' = contested \ {p} /\ UNCHANGED muddled
                       ELSE contested' = contested \cup {p} /\ muddled' = muddled \cup {p}
        \* remove_dir_all fails, before or after the manifest is deleted
        \/ /\ dir' \in {dir, [dir EXCEPT ![d] = IF @ = MISSING THEN @ ELSE BARE]}
           /\ muddled' = muddled \cup {p}
           /\ UNCHANGED <<gone, contested>>
  /\ UNCHANGED <<serving, install, installs, stops>>

-----------------------------------------------------------------------------
(* Crashes *)

\* A manifest being written, or a directory being removed, is left half done.
HalfDone ==
  {TARGET : r \in {q \in Request : install[q] = "manifest"}}
    \cup {registry[p].path : p \in {q \in Plugin : registry[q] # NONE}}

Stop ==
  /\ serving /\ stops < MaxStops
  /\ serving' = FALSE /\ stops' = stops + 1
  /\ \/ UNCHANGED dir
     \/ \E d \in HalfDone : dir[d] # MISSING /\ dir' = [dir EXCEPT ![d] = BARE]
  /\ registry' = [p \in Plugin |-> NONE]
  /\ install' = [r \in Request |-> "idle"]
  /\ UNCHANGED <<gone, muddled, contested, installs>>

\* init_plugins has scanned the directories before the server listens.
Start ==
  /\ ~serving
  /\ serving' = TRUE
  /\ registry' \in Scanned
  /\ UNCHANGED <<dir, install, gone, muddled, contested, installs, stops>>

PluginNext ==
  \/ \E r \in Request :
       \/ BeginInstall(r) \/ MakeDir(r) \/ WriteWasm(r) \/ WriteManifest(r)
       \/ FailInstall(r) \/ Register(r)
  \/ \E p \in Plugin : Uninstall(p) \/ \E enabled \in BOOLEAN : SetEnabled(p, enabled)
  \/ Stop \/ Start

PluginSpec == PluginInit /\ [][PluginNext]_pluginVars

-----------------------------------------------------------------------------
(* Safety *)

\* A running server has exactly the plugins registered that a directory has a
\* manifest for, so that a restart changes nothing but enabled, unless an
\* installation is in progress or one of the cases that muddle a plugin arose:
\* a failed removal, a manifest emptied by a failed install, an uninstall during
\* an install or of one of two directories with the same id.
RegistryIsDisk ==
  \A p \in Plugin \ muddled :
    /\ registry[p] # NONE => dir[registry[p].path] = p
    /\ serving /\ Installing = {} /\ registry[p] = NONE => Holders(p) = {}

\* A plugin whose removal was acknowledged does not come back, by a restart
\* either, before it is installed again.  Except for one that was removed while
\* another directory had its id, which the next start registers, or while an
\* install was at its directory, which finishes after it.
UninstalledStaysGone == \A p \in gone \ contested : registry[p] = NONE /\ Holders(p) = {}
=============================================================================
