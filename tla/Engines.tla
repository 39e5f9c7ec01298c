------------------------------- MODULE Engines -------------------------------
(***************************************************************************)
(* The programs of one user: engines and terminal programs that share the  *)
(* settings file, the port, and (the engines) the control socket and the   *)
(* message history.  main of omasend-engine and of omasend, prepareSocket, *)
(* Server.Start, and the end by a signal or a crash.                       *)
(*                                                                         *)
(* A program is at pc[p]: what it does next.  All of them are started with *)
(* the same port; a flag may override any other setting.                   *)
(***************************************************************************)
EXTENDS ConfigStore, MessageHistory

CONSTANTS
  Engine,      \* the programs that are engines; the others are terminal ones
  NoProc,
  Dead,        \* the owner of a socket whose engine died
  MaxStarts,   \* bound: starts in a behaviour
  Topics,      \* bound: a behaviour is about one of them
  Overlaps     \* bound: pairs of a topic and what may be crossed in it

ASSUME EnginesAssumption ==
  /\ Engine \subseteq Proc
  /\ NoProc \notin Proc /\ Dead \notin Proc \cup {NoProc}
  /\ MaxStarts \in Nat
  /\ Topics \subseteq {"settings", "flags", "messages"}
  /\ Overlaps \subseteq Topics \X {"start", "stop"}

VARIABLES
  pc,
  sock,        \* whose socket is under the path of the control socket
  listening,   \* the engines whose listener is open
  port,        \* who holds the port
  starts,      \* starts so far
  topic,       \* bound: settings change, without flags or with them, or
               \* messages come
  crossed      \* history: "start" once two programs started or saved at the
               \* same time, "stop" once one did while another was ending

lifeVars == <<pc, sock, listening, port, starts, topic, crossed>>
vars == <<cfgVars, msgVars, lifeVars>>

Starting == {"config", "look", "dial", "remove", "bind", "history", "listen"}

TypeOK ==
  /\ ConfigTypeOK /\ HistoryTypeOK
  /\ pc \in [Proc -> {"off", "up", "cancelled", "closed"} \cup Starting]
  /\ sock \in Engine \cup {NoProc, Dead}
  /\ listening \subseteq Engine
  /\ port \in Proc \cup {NoProc}
  /\ starts \in 0 .. MaxStarts
  /\ topic \in Topics
  /\ crossed \subseteq {"start", "stop"}

Init ==
  /\ ConfigInit /\ HistoryInit
  /\ pc = [p \in Proc |-> "off"]
  /\ sock = NoProc
  /\ listening = {}
  /\ port = NoProc
  /\ starts = 0
  /\ topic \in Topics
  /\ topic = "messages" => minted = 1
  /\ crossed = {}

-----------------------------------------------------------------------------
At(p, here, next) == pc[p] = here /\ pc' = [pc EXCEPT ![p] = next]

\* The kernel takes back what a program held: its port and its listener.  Its
\* socket stays under the path, dead.
Releases(p) ==
  /\ port' = IF port = p THEN NoProc ELSE port
  /\ listening' = listening \ {p}
  /\ sock' = IF sock = p THEN Dead ELSE sock

\* os.Exit, or a crash, at any point.
Ends(p) ==
  /\ pc[p] # "off"
  /\ pc' = [pc EXCEPT ![p] = "off"]
  /\ ConfigStops(p) /\ HistoryStops(p) /\ Releases(p)
  /\ UNCHANGED starts

Start(p) ==
  /\ starts < MaxStarts /\ starts' = starts + 1
  /\ topic # "messages" \/ p \in Engine
  /\ At(p, "off", "config")
  /\ StartLoad(p)
  /\ UNCHANGED <<msgVars, sock, listening, port>>

\* A step of Load, or of a later Save.
ConfigStep(p) ==
  /\ ReadConfig(p) \/ CreateTmp(p) \/ WriteTmp(p) \/ SaveOk(p)
     \/ (topic # "messages" /\ p \in loaded /\ SaveFails(p))
  /\ UNCHANGED <<msgVars, pc, sock, listening, port, starts>>

\* Load fails: the program exits.
LoadFails(p) ==
  /\ pc[p] = "config" /\ topic # "messages"
  /\ ReadFails(p) \/ SaveFails(p)
  /\ pc' = [pc EXCEPT ![p] = "off"]
  /\ UNCHANGED <<msgVars, sock, listening, port, starts>>

\* Load has returned; a flag may override what it read.  Of the terminal
\* programs, a quick-send window and a headless send take no port.
AfterLoad(p) ==
  /\ step[p] = "ready"
  /\ \E next \in IF p \in Engine THEN {"look"} ELSE {"bind", "up"} :
       At(p, "config", next)
  /\ (topic = "flags" /\ Override(p)) \/ UNCHANGED cfgVars
  /\ UNCHANGED <<msgVars, sock, listening, port, starts>>

-----------------------------------------------------------------------------
\* prepareSocket.

LookAtSocket(p) ==
  /\ At(p, "look", IF sock = NoProc THEN "bind" ELSE "dial")
  /\ UNCHANGED <<cfgVars, msgVars, sock, listening, port, starts>>

\* Fault: any failure to connect counts as refused.
DialAny(p) ==
  /\ At(p, "dial", "remove")
  /\ UNCHANGED <<cfgVars, msgVars, sock, listening, port, starts>>

\* Only a refused connection lets it go on: the socket is there, and nobody
\* listens.  A live engine, and a path that is gone by now, end the program.
DialRefused(p) ==
  /\ sock # NoProc /\ sock \notin listening
  /\ At(p, "dial", "remove")
  /\ UNCHANGED <<cfgVars, msgVars, sock, listening, port, starts>>

\* os.Remove by name: whosesoever socket it is by now.
RemoveSocket(p) ==
  /\ sock # NoProc
  /\ At(p, "remove", "bind")
  /\ sock' = NoProc
  /\ UNCHANGED <<cfgVars, msgVars, listening, port, starts>>

-----------------------------------------------------------------------------
\* Server.Start, then the rest of main.

BindPort(p) ==
  /\ port = NoProc
  /\ At(p, "bind", IF p \in Engine THEN "history" ELSE "up")
  /\ port' = p
  /\ UNCHANGED <<cfgVars, msgVars, sock, listening, starts>>

LoadSaved(p) ==
  /\ At(p, "history", "listen")
  /\ LoadHistory(p)
  /\ UNCHANGED <<cfgVars, sock, listening, port, starts>>

\* net.Listen fails on a path that exists.
Listen(p) ==
  /\ sock = NoProc
  /\ At(p, "listen", "up")
  /\ sock' = p /\ listening' = listening \cup {p}
  /\ UNCHANGED <<cfgVars, msgVars, port, starts>>

\* A setting is changed while no other save of this program is under way.
ChangeSetting(p) ==
  /\ topic # "messages" /\ pc[p] = "up" /\ Change(p)
  /\ UNCHANGED <<msgVars, pc, sock, listening, port, starts>>

\* The pumps run from "listen" on; a send that is under way records its
\* message even after the engine was told to end.
RecordMessage(p) ==
  /\ topic = "messages" /\ p \in Engine
  /\ pc[p] \in {"listen", "up", "cancelled", "closed"}
  /\ Record(p) \/ SaveHistory(p) \/ SaveHistoryFails(p)
  /\ UNCHANGED <<cfgVars, pc, sock, listening, port, starts>>

-----------------------------------------------------------------------------
\* The end by a signal.

Signal(p) ==
  /\ p \in Engine
  /\ At(p, "up", "cancelled")
  /\ UNCHANGED <<cfgVars, msgVars, sock, listening, port, starts>>

\* Shutdown closes the port some time after the context is cancelled.
PortCloses(p) ==
  /\ pc[p] \in {"cancelled", "closed"} /\ port = p
  /\ port' = NoProc
  /\ UNCHANGED <<cfgVars, msgVars, pc, sock, listening, starts>>

\* ln.Close unlinks the path, too.
CloseListener(p) ==
  /\ At(p, "cancelled", "closed")
  /\ listening' = listening \ {p} /\ sock' = NoProc
  /\ UNCHANGED <<cfgVars, msgVars, port, starts>>

\* os.Remove, and the exit; or main returns first.
Exit(p) ==
  /\ At(p, "closed", "off")
  /\ ConfigStops(p) /\ HistoryStops(p)
  /\ port' = IF port = p THEN NoProc ELSE port
  /\ sock' \in {NoProc, sock}
  /\ UNCHANGED <<listening, starts>>

Step(p) ==
  \/ Start(p) \/ ConfigStep(p) \/ LoadFails(p) \/ AfterLoad(p)
  \/ LookAtSocket(p) \/ DialRefused(p) \/ RemoveSocket(p)
  \/ BindPort(p) \/ LoadSaved(p) \/ Listen(p)
  \/ ChangeSetting(p) \/ RecordMessage(p)
  \/ Signal(p) \/ PortCloses(p) \/ CloseListener(p) \/ Exit(p) \/ Ends(p)

\* What is under way: a start or a save, and an end.
Entering == {p \in Proc : pc[p] \in Starting \/ step[p] \in Saving}
Leaving == {p \in Proc : pc[p] \in {"cancelled", "closed"}}

Crossed ==
  (IF Cardinality(Entering) > 1 THEN {"start"} ELSE {})
  \cup (IF Leaving # {} /\ Entering \ Leaving # {} THEN {"stop"} ELSE {})

Next ==
  /\ \/ \E p \in Proc : Step(p)
     \/ topic = "messages" /\ Tick /\ UNCHANGED <<cfgVars, pc, sock, listening, port, starts>>
  /\ crossed' = crossed \cup Crossed'
  /\ {topic} \X crossed' \subseteq Overlaps
  /\ UNCHANGED topic

Spec == Init /\ [][Next]_vars
-----------------------------------------------------------------------------
(* Properties *)

\* If no two programs start or save at once, the settings file is whole
\* whenever one dies or fails to write, and each program that has loaded it
\* shows peers the identity that is in it.
SettingsSafe ==
  crossed = {} =>
    /\ Readable(cfgFile)
    /\ \A p \in loaded : /\ Content(cfgFile) # NoFile
                         /\ mem[p].id = Content(cfgFile).id

\* If, moreover, none starts while another is ending, an engine that is up is
\* the one its clients reach, whatever was left of earlier ones.
UpIsReachable ==
  crossed = {} => \A p \in Engine : pc[p] = "up" => sock = p

Due(m) ==
  /\ ~Expired(m)
  /\ Cardinality({n \in Recorded : n > m}) < Cap

\* A message that was saved once is in the history of every later engine
\* until it is too old or Cap newer ones have come, whatever crashes and
\* failed saves there were, and even if engines start at the same time; but
\* for a start that overlaps another engine's end, which may still write what
\* it has.
SavedIsKept ==
  "stop" \notin crossed =>
    \A p \in Engine, m \in safe :
      pc[p] \in {"listen", "up"} /\ Due(m) => m \in messages[p]

\* What the comment of Save says: "Save atomically writes the config".
SavesAreWhole == Readable(cfgFile)

\* What prepareSocket's comment says: it clears a stale socket "but never one
\* a live engine is serving".
LiveSocketStays ==
  [][\A p \in Engine : RemoveSocket(p) => sock \notin listening]_vars

\* What the flags say: they override the settings "for this run".
OverridesStayOut == Content(cfgFile) \in {NoFile, Empty, Torn}
                    \/ 0 \notin Content(cfgFile).set

\* A saved change of settings is still in the file later on.
ChangesStay ==
  [][\A c \in 1 .. MaxChanges :
       /\ {Content(cfgFile), Content(cfgFile)'} \subseteq Settings
       /\ c \in Content(cfgFile).set
       => c \in Content(cfgFile)'.set]_vars
=============================================================================
