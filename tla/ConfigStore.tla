----------------------------- MODULE ConfigStore -----------------------------
(***************************************************************************)
(* internal/config: Load and Save of config.json by programs that share it *)
(* (the engine, the terminal program, a one-shot send), and the settings   *)
(* each of them keeps in memory from its start on.                         *)
(*                                                                         *)
(* Settings are the identity (certificate and fingerprint) and the set of  *)
(* changes that were made to the rest: a program that saves writes all it  *)
(* has in memory.  0 stands for a flag of the command line.                *)
(***************************************************************************)
EXTENDS AtomicFile

CONSTANTS
  MaxChanges,  \* bound: changes of settings
  NoSettings

Settings == [id : Nat, set : SUBSET (0 .. MaxChanges)]

ASSUME ConfigStoreAssumption ==
  /\ MaxChanges \in Nat
  /\ \A v \in {NoSettings, NoFile, Empty, Torn} : v \notin Settings

VARIABLES
  cfgFile,
  mem,       \* mem[p]: the settings p has in memory
  step,      \* step[p] in Load or Save; "ready": in neither
  loaded,    \* the programs whose Load has returned
  minted,    \* identities generated so far
  changes    \* changes made so far

cfgVars == <<cfgFile, mem, step, loaded, minted, changes>>

Saving == {"create", "write", "rename"}

ConfigTypeOK ==
  /\ cfgFile \in FileType(Settings)
  /\ mem \in [Proc -> Settings \cup {NoSettings}]
  /\ step \in [Proc -> {"off", "read", "ready"} \cup Saving]
  /\ loaded \subseteq Proc
  /\ minted \in Nat
  /\ changes \in 0 .. MaxChanges

\* 0: there may be the identity of an omarchy-send install to start from.
ConfigInit ==
  /\ cfgFile = Clean
  /\ mem = [p \in Proc |-> NoSettings]
  /\ step = [p \in Proc |-> "off"]
  /\ loaded = {}
  /\ minted \in {0, 1}
  /\ changes = 0

-----------------------------------------------------------------------------

\* The settings of a first run: a new identity, or the one of the old install.
FirstRun ==
  IF minted = 0 THEN [id |-> 0, set |-> {}] ELSE [id |-> minted, set |-> {}]

Exits(p) ==
  /\ step' = [step EXCEPT ![p] = "off"]
  /\ loaded' = loaded \ {p}
  /\ mem' = [mem EXCEPT ![p] = NoSettings]

StartLoad(p) ==
  /\ step[p] = "off"
  /\ step' = [step EXCEPT ![p] = "read"]
  /\ UNCHANGED <<cfgFile, mem, loaded, minted, changes>>

\* Load reads the file, or takes what a first run has; it saves in any case.
ReadConfig(p) ==
  /\ step[p] = "read" /\ Readable(cfgFile)
  /\ step' = [step EXCEPT ![p] = "create"]
  /\ IF Content(cfgFile) = NoFile
     THEN /\ mem' = [mem EXCEPT ![p] = FirstRun]
          /\ minted' = IF minted = 0 THEN 0 ELSE minted + 1
     ELSE /\ mem' = [mem EXCEPT ![p] = Content(cfgFile)]
          /\ UNCHANGED minted
  /\ UNCHANGED <<cfgFile, loaded, changes>>

\* A file that is no JSON ends the program and is left alone.
ReadFails(p) ==
  /\ step[p] = "read" /\ ~Readable(cfgFile)
  /\ Exits(p)
  /\ UNCHANGED <<cfgFile, minted, changes>>

CreateTmp(p) ==
  /\ step[p] = "create"
  /\ cfgFile' = Created(cfgFile, p)
  /\ step' = [step EXCEPT ![p] = "write"]
  /\ UNCHANGED <<mem, loaded, minted, changes>>

WriteTmp(p) ==
  /\ step[p] = "write"
  /\ cfgFile' \in Written(cfgFile, p, mem[p])
  /\ step' = [step EXCEPT ![p] = "rename"]
  /\ UNCHANGED <<mem, loaded, minted, changes>>

\* Save returns: Load returns with it.
SaveOk(p) ==
  /\ step[p] = "rename" /\ CanRename(cfgFile)
  /\ cfgFile' = Renamed(cfgFile)
  /\ step' = [step EXCEPT ![p] = "ready"]
  /\ loaded' = loaded \cup {p}
  /\ UNCHANGED <<mem, minted, changes>>

\* An error ends a program that loads; one that runs goes on.
SaveFails(p) ==
  /\ \/ step[p] = "create" /\ UNCHANGED cfgFile
     \/ step[p] = "write" /\ cfgFile' \in HalfWritten(cfgFile, p)
     \/ step[p] = "rename" /\ ~CanRename(cfgFile) /\ UNCHANGED cfgFile
  /\ IF p \in loaded
     THEN step' = [step EXCEPT ![p] = "ready"] /\ UNCHANGED <<mem, loaded>>
     ELSE Exits(p)
  /\ UNCHANGED <<minted, changes>>

\* A setting is changed (handleSet, handleAddPeer, saveEdit, updateAddPeer):
\* in memory, then in the file.
Change(p) ==
  /\ step[p] = "ready" /\ changes < MaxChanges
  /\ changes' = changes + 1
  /\ mem' = [mem EXCEPT ![p].set = @ \cup {changes + 1}]
  /\ step' = [step EXCEPT ![p] = "create"]
  /\ UNCHANGED <<cfgFile, loaded, minted>>

\* A flag of the command line, which is not saved with it.
Override(p) ==
  /\ mem' = [mem EXCEPT ![p].set = @ \cup {0}]
  /\ UNCHANGED <<cfgFile, step, loaded, minted, changes>>

\* The program ends or dies, wherever it is.
ConfigStops(p) ==
  /\ cfgFile' = Closed(cfgFile, p)
  /\ Exits(p)
  /\ UNCHANGED <<minted, changes>>
=============================================================================
