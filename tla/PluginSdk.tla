----------------------------- MODULE PluginSdk -----------------------------
(***************************************************************************)
(* sdk/plugin-lifecycle-manager.js: plugins with dependencies, loaded from *)
(* the directories of PLUGIN_SDK_DIR in the order the file system lists    *)
(* them and unloaded by destroy().  Every call into a plugin's code is a   *)
(* step, since that code sees what is loaded at that moment; its outcome   *)
(* is the plugin's.                                                        *)
(***************************************************************************)
EXTENDS Naturals, Sequences, SequencesExt

CONSTANTS Directories,  \* the entries of PLUGIN_SDK_DIR
          PluginId,     \* the id in the manifest of a directory
          DependsOn     \* the dependencies in it

ASSUME PluginAssumption ==
  /\ DOMAIN PluginId = Directories
  /\ DOMAIN DependsOn = Directories
  /\ \A d \in Directories : DependsOn[d] \subseteq {PluginId[e] : e \in Directories}

VARIABLES unread,      \* directories the bootstrap has still to read
          loadOrder,   \* _loadOrder: the directories loaded, first to last
          pluginState, \* state of the entry of a directory in _plugins
          enabled,     \* directories whose context is not disabled
          sdk          \* the manager: bootstrap, running, destroying, gone
sdkVars == <<unread, loadOrder, pluginState, enabled, sdk>>

SdkInit ==
  /\ unread = Directories /\ loadOrder = <<>> /\ enabled = {}
  /\ pluginState = [d \in Directories |-> "absent"]
  /\ sdk = "bootstrap"

Ids(s) == {PluginId[s[i]] : i \in DOMAIN s}
Loaded == Ids(loadOrder)

-----------------------------------------------------------------------------
\* loadPlugin refuses what does not validate or load, an id it has, and a
\* plugin with a dependency it does not have yet.
Refused(d) == PluginId[d] \in Loaded \/ ~(DependsOn[d] \subseteq Loaded)
RefuseDirectory(d) ==
  /\ sdk = "bootstrap" /\ d \in unread /\ unread' = unread \ {d}
  /\ UNCHANGED <<loadOrder, pluginState, enabled, sdk>>

\* A plugin taken in is registered before it is activated; it is activated,
\* vetoes that, or throws and is disabled: it stays loaded all the same.
Activations == {"activated", "deactivated", "disabled"}
LoadPlugin(d, activation) ==
  /\ sdk = "bootstrap" /\ d \in unread /\ ~Refused(d)
  /\ unread' = unread \ {d}
  /\ loadOrder' = Append(loadOrder, d)
  /\ pluginState' = [pluginState EXCEPT ![d] = activation]
  /\ enabled' = IF activation = "disabled" THEN enabled ELSE enabled \cup {d}
  /\ UNCHANGED sdk

BootstrapEnds ==
  /\ sdk = "bootstrap" /\ unread = {} /\ sdk' = "running"
  /\ UNCHANGED <<unread, loadOrder, pluginState, enabled>>

\* The daemon's cleanup calls destroy(), which unloads from the last loaded to
\* the first; a mutant takes them in the order they were loaded.
FirstLoaded == Head(loadOrder)
NextToUnload == Last(loadOrder)
StartDestroy ==
  /\ sdk = "running" /\ sdk' = "destroying"
  /\ UNCHANGED <<unread, loadOrder, pluginState, enabled>>

\* unloadPlugin deactivates, a plugin that was never activated too, and takes
\* its context away whether or not that throws.
Deactivate(d) ==
  /\ sdk = "destroying" /\ loadOrder # <<>> /\ d = NextToUnload
  /\ pluginState[d] # "unloading"
  /\ pluginState' = [pluginState EXCEPT ![d] = "unloading"]
  /\ enabled' = enabled \ {d}
  /\ UNCHANGED <<unread, loadOrder, sdk>>

\* The rest of it: cleanup with the context disabled, and the entry goes.
Position(d) == CHOOSE i \in DOMAIN loadOrder : loadOrder[i] = d
Cleanup(d) ==
  /\ sdk = "destroying" /\ pluginState[d] = "unloading"
  /\ loadOrder' = RemoveAt(loadOrder, Position(d))
  /\ pluginState' = [pluginState EXCEPT ![d] = "unloaded"]
  /\ UNCHANGED <<unread, enabled, sdk>>

DestroyEnds ==
  /\ sdk = "destroying" /\ loadOrder = <<>> /\ sdk' = "gone"
  /\ UNCHANGED <<unread, loadOrder, pluginState, enabled>>

SdkNext ==
  \/ \E d \in Directories : RefuseDirectory(d)
  \/ \E d \in Directories, activation \in Activations : LoadPlugin(d, activation)
  \/ BootstrapEnds
  \/ StartDestroy
  \/ \E d \in Directories : Deactivate(d)
  \/ \E d \in Directories : Cleanup(d)
  \/ DestroyEnds

-----------------------------------------------------------------------------
SdkTypeOK ==
  /\ unread \subseteq Directories /\ loadOrder \in Seq(Directories)
  /\ enabled \subseteq Directories
  /\ pluginState \in [Directories ->
       {"absent", "unloading", "unloaded"} \cup Activations]
  /\ sdk \in {"bootstrap", "running", "destroying", "gone"}

\* Whenever code of a plugin runs, the plugins it depends on are loaded, and
\* have not been asked to deactivate before it has, whatever the order of the
\* directories and whichever plugins were refused, vetoed or failed.
DependentsUnloadedFirst ==
  \A i \in DOMAIN loadOrder : \A id \in DependsOn[loadOrder[i]] :
    \E j \in 1..(i - 1) :
      /\ PluginId[loadOrder[j]] = id
      /\ pluginState[loadOrder[j]] # "unloading"
=============================================================================
