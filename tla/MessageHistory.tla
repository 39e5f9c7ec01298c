--------------------------- MODULE MessageHistory ---------------------------
(***************************************************************************)
(* The engine's message history: recordMessage with its cap and retention, *)
(* messages.json, and what a new engine loads of it.                       *)
(*                                                                         *)
(* Messages are numbered as they are recorded; a history is a set of them. *)
(* Whoever records holds msgMu until the file is saved.                    *)
(***************************************************************************)
EXTENDS AtomicFile

CONSTANTS
  Cap,        \* messageHistoryCap
  Retention,  \* messageRetention, in ticks
  MaxMessages,\* bound: messages in a behaviour
  LastTime    \* bound: the clock stops here

Msg == 1 .. MaxMessages

ASSUME MessageHistoryAssumption ==
  /\ Cap \in Nat /\ Retention \in Nat
  /\ MaxMessages \in Nat /\ LastTime \in Nat \ {0}
  /\ \A ms \in SUBSET Msg : ms \notin {NoFile, Empty, Torn}

VARIABLES
  msgFile,
  messages,  \* messages[p]: the history in memory
  hstep,     \* hstep[p]: the step of saveMessagesLocked; "idle": msgMu is free
  now,
  stamp,     \* stamp[m]: when m was recorded; 0: not yet
  safe       \* history: the messages some completed save had in it

msgVars == <<msgFile, messages, hstep, now, stamp, safe>>

Recorded == {m \in Msg : stamp[m] > 0}

HistoryTypeOK ==
  /\ msgFile \in FileType(SUBSET Msg)
  /\ messages \in [Proc -> SUBSET Msg]
  /\ hstep \in [Proc -> {"idle", "create", "write", "rename"}]
  /\ now \in 1 .. LastTime
  /\ stamp \in [Msg -> 0 .. LastTime]
  /\ safe \subseteq Recorded

HistoryInit ==
  /\ msgFile = Clean
  /\ messages = [p \in Proc |-> {}]
  /\ hstep = [p \in Proc |-> "idle"]
  /\ now = 1
  /\ stamp = [m \in Msg |-> 0]
  /\ safe = {}

-----------------------------------------------------------------------------
Expired(m) == stamp[m] + Retention <= now
Unexpired(ms) == {m \in ms : ~Expired(m)}

\* The last Cap of ms.
Newest(ms) == {m \in ms : Cardinality({n \in ms : n > m}) < Cap}

\* loadSavedMessages: a file that cannot be read is no history.
LoadHistory(p) ==
  /\ messages' = [messages EXCEPT ![p] =
                    IF Readable(msgFile) /\ Content(msgFile) # NoFile
                    THEN Newest(Unexpired(Content(msgFile))) ELSE {}]
  /\ UNCHANGED <<msgFile, hstep, now, stamp, safe>>

\* recordMessage, up to the save.
Record(p) ==
  /\ hstep[p] = "idle"
  /\ \E m \in Msg :
       /\ m = Cardinality(Recorded) + 1
       /\ stamp' = [stamp EXCEPT ![m] = now]
       /\ messages' = [messages EXCEPT ![p] = Newest(Unexpired(@) \cup {m})]
  /\ hstep' = [hstep EXCEPT ![p] = "create"]
  /\ UNCHANGED <<msgFile, now, safe>>

SaveHistory(p) ==
  /\ \/ /\ hstep[p] = "create"
        /\ msgFile' = Created(msgFile, p)
        /\ hstep' = [hstep EXCEPT ![p] = "write"]
        /\ UNCHANGED safe
     \/ /\ hstep[p] = "write"
        /\ msgFile' \in Written(msgFile, p, messages[p])
        /\ hstep' = [hstep EXCEPT ![p] = "rename"]
        /\ UNCHANGED safe
     \/ /\ hstep[p] = "rename" /\ CanRename(msgFile)
        /\ msgFile' = Renamed(msgFile)
        /\ hstep' = [hstep EXCEPT ![p] = "idle"]
        /\ safe' = safe \cup messages[p]
  /\ UNCHANGED <<messages, now, stamp>>

\* An error is dropped: the message stays in memory.
SaveHistoryFails(p) ==
  /\ \/ hstep[p] = "create" /\ UNCHANGED msgFile
     \/ hstep[p] = "write" /\ msgFile' \in HalfWritten(msgFile, p)
     \/ hstep[p] = "rename" /\ ~CanRename(msgFile) /\ UNCHANGED msgFile
  /\ hstep' = [hstep EXCEPT ![p] = "idle"]
  /\ UNCHANGED <<messages, now, stamp, safe>>

HistoryStops(p) ==
  /\ msgFile' = Closed(msgFile, p)
  /\ messages' = [messages EXCEPT ![p] = {}]
  /\ hstep' = [hstep EXCEPT ![p] = "idle"]
  /\ UNCHANGED <<now, stamp, safe>>

Tick ==
  /\ now < LastTime
  /\ now' = now + 1
  /\ UNCHANGED <<msgFile, messages, hstep, stamp, safe>>
=============================================================================
