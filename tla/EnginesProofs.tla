---------------------------- MODULE EnginesProofs ----------------------------
(***************************************************************************)
(* Theorems about Engines, for any number of programs, of changes, of      *)
(* messages and of starts, any cap and any retention.                      *)
(*                                                                         *)
(* The files come first: what each operation of AtomicFile does to a file  *)
(* whatever is in it.  Then the settings, the history and the programs,    *)
(* each with the part of the inductive invariant that is about it.         *)
(***************************************************************************)
EXTENDS Engines, FiniteSetTheorems, TLAPS

-----------------------------------------------------------------------------
(* The inductive invariant. *)

\* What a program has of the settings at each step of Load and Save.
CfgOK ==
  /\ ConfigTypeOK
  /\ \A p \in Proc :
       /\ step[p] = "write" <=> cfgFile.held[p] # NoIno
       /\ step[p] \notin {"off", "read"} => mem[p] \in Settings
       /\ step[p] \in {"off", "read"} => p \notin loaded
       /\ step[p] = "ready" => p \in loaded

\* Messages are numbered in the order they are recorded, and nothing else is in
\* a history, in memory or saved.
NumbersOK ==
  /\ \E k \in 0 .. MaxMessages : Recorded = 1 .. k
  /\ \A p \in Proc : messages[p] \subseteq Recorded
  /\ \A i \in Ino : msgFile.data[i] \in (SUBSET Recorded) \cup {Empty, Torn}

HistOK ==
  /\ HistoryTypeOK /\ NumbersOK
  /\ \A p \in Proc : hstep[p] = "write" <=> msgFile.held[p] # NoIno

\* The engines that have loaded the history and may record.
Active == {p \in Engine : pc[p] \in {"listen", "up", "cancelled", "closed"}}

\* Load comes before all else, what follows it is the engine's, and only an
\* engine that has loaded its history saves one.
Placed(p) ==
  /\ pc[p] = "off" <=> step[p] = "off"
  /\ p \in loaded => step[p] \in {"ready"} \cup Saving /\ (pc[p] = "config" => step[p] = "ready")
  /\ pc[p] \notin {"off", "config"} => p \in loaded
  /\ pc[p] \in {"look", "dial", "remove", "history", "listen", "cancelled", "closed"}
       => p \in Engine
  /\ hstep[p] # "idle" => p \in Active

Base == TypeOK /\ CfgOK /\ HistOK /\ \A p \in Proc : Placed(p)

\* What crossed says of the present.
CrossOK ==
  /\ "start" \notin crossed => \A p, q \in Entering : p = q
  /\ "stop" \notin crossed => Leaving = {} \/ Entering \subseteq Leaving

\* One engine at a time has the port, or had it and is ending.
PortOK ==
  /\ \A p \in Engine : pc[p] \in {"history", "listen", "up"} => port = p
  /\ "stop" \notin crossed =>
       \A p \in Leaving, q \in Engine :
         pc[q] \in {"history", "listen", "up", "cancelled", "closed"} => p = q

\* The engine that is up has the socket, and nobody is about to take it away.
SocketOK ==
  crossed = {} => \A p \in Engine : pc[p] = "up" =>
    /\ sock = p /\ p \in listening
    /\ \A q \in Proc : pc[q] \notin {"remove", "cancelled", "closed"}

\* The file f while at most one program writes to it: it is whole, and the
\* temporary one is another inode, which that program has open.
FileOK(f, Value) ==
  /\ f.temp # NoIno => f.temp # f.path
  /\ f.path # NoIno => f.data[f.path] \in Value
  /\ \A p \in Proc : f.held[p] # NoIno => f.held[p] = f.temp

\* A program is at step at of saving v in f.
SaveOK(f, at, v) ==
  /\ at = "write" => f.data[f.temp] = Empty
  /\ at = "rename" => f.temp # NoIno /\ f.data[f.temp] = v

\* The settings while programs start and save one after the other.
SettingsOK ==
  /\ FileOK(cfgFile, Settings)
  /\ \A p \in Proc :
       /\ SaveOK(cfgFile, step[p], mem[p])
       /\ p \in loaded => cfgFile.path # NoIno
       /\ (p \in loaded \/ step[p] \in Saving) /\ cfgFile.path # NoIno
            => mem[p].id = Content(cfgFile).id

\* The history while no engine starts before an earlier one has ended.
HistorySafe ==
  /\ FileOK(msgFile, SUBSET Msg)
  /\ \A p \in Proc : SaveOK(msgFile, hstep[p], messages[p])
  /\ \A m \in safe : Due(m) =>
       /\ msgFile.path # NoIno /\ m \in msgFile.data[msgFile.path]
       /\ \A p \in Active : m \in messages[p]

IInv ==
  /\ Base /\ CrossOK /\ PortOK /\ SocketOK
  /\ "start" \notin crossed => SettingsOK
  /\ "stop" \notin crossed => HistorySafe

-----------------------------------------------------------------------------
(* A file that is replaced. *)

\* Some inode is free whenever a temporary file has to be made.
LEMMA FreshInode ==
  ASSUME NEW f, f.temp = NoIno
  PROVE  \E x \in Ino : x \notin Used(f)
<1> DEFINE H == {f.held[p] : p \in Proc}
           A == H \cup {f.path}
           n == Cardinality(Proc)
<1>1. IsFiniteSet(Proc) /\ n \in Nat
  BY AtomicFileAssumption, FS_CardinalityType
<1>2. IsFiniteSet(H) /\ Cardinality(H) <= n /\ Cardinality(H) \in Nat
  <2> DEFINE g == [p \in Proc |-> f.held[p]]
  <2>1. g \in Surjection(Proc, H)
    BY DEF Surjection
  <2> QED
    BY <2>1, <1>1, FS_Surjection, FS_CardinalityType
<1> HIDE DEF H
<1>3. IsFiniteSet(A) /\ Cardinality(A) <= n + 1 /\ Cardinality(A) \in Nat
  <2>1. /\ IsFiniteSet(A)
        /\ Cardinality(A) = IF f.path \in H THEN Cardinality(H) ELSE Cardinality(H) + 1
    BY <1>2, FS_AddElement
  <2> QED
    BY <1>1, <1>2, <2>1
<1>4. SUFFICES ASSUME Ino \subseteq Used(f) PROVE FALSE
  OBVIOUS
<1>5. Ino \subseteq A
  BY <1>4, AtomicFileAssumption DEF Used, H
<1>6. Cardinality(Ino) <= Cardinality(A)
  BY <1>3, <1>5, FS_Subset
<1>7. Cardinality(Ino) \in Nat /\ Cardinality(Ino) >= n + 2
  BY AtomicFileAssumption, FS_CardinalityType
<1> QED
  BY <1>1, <1>3, <1>6, <1>7

\* What has no name and no writer is reclaimed; the rest stays.
LEMMA ReclaimedIs ==
  ASSUME NEW Value, NEW f \in FileType(Value)
  PROVE  LET g == Reclaimed(f) IN
         /\ g \in FileType(Value)
         /\ g.path = f.path /\ g.temp = f.temp /\ g.held = f.held
         /\ \A i \in Ino : g.data[i] = IF i \in Used(f) THEN f.data[i] ELSE Empty
<1> QED
  BY DEF Reclaimed, FileType

\* Closing a file drops what is held and no content that has a name.
LEMMA ClosedIs ==
  ASSUME NEW Value, NEW f \in FileType(Value), NEW p \in Proc
  PROVE  LET g == Closed(f, p) IN
         /\ g \in FileType(Value)
         /\ g.path = f.path /\ g.temp = f.temp
         /\ g.held = [f.held EXCEPT ![p] = NoIno]
         /\ \A i \in Ino : /\ g.data[i] \in {f.data[i], Empty}
                           /\ i \in {f.path, f.temp} => g.data[i] = f.data[i]
<1> DEFINE e == [f EXCEPT !.held[p] = NoIno]
<1>1. /\ e \in FileType(Value)
      /\ e.path = f.path /\ e.temp = f.temp /\ e.data = f.data
      /\ e.held = [f.held EXCEPT ![p] = NoIno]
  BY DEF FileType
<1>2. f.path \in Used(e) /\ f.temp \in Used(e)
  BY <1>1 DEF Used
<1> HIDE DEF e
<1>3. /\ Reclaimed(e) \in FileType(Value)
      /\ Reclaimed(e).path = e.path /\ Reclaimed(e).temp = e.temp
      /\ Reclaimed(e).held = e.held
      /\ \A i \in Ino : Reclaimed(e).data[i] = IF i \in Used(e) THEN e.data[i] ELSE Empty
  BY <1>1, ReclaimedIs
<1>4. Closed(f, p) = Reclaimed(e)
  BY DEF Closed, e
<1> QED
  BY <1>1, <1>2, <1>3, <1>4

\* Opening the temporary file truncates it, or makes one that nobody uses.
LEMMA CreatedIs ==
  ASSUME NEW Value, NEW f \in FileType(Value), NEW p \in Proc
  PROVE  LET g == Created(f, p) IN
         /\ g \in FileType(Value)
         /\ g.path = f.path
         /\ g.temp \in Ino
         /\ f.temp # NoIno => g.temp = f.temp
         /\ f.temp = NoIno => g.temp \notin Used(f)
         /\ \A i \in Ino : g.data[i] = IF i = g.temp THEN Empty ELSE f.data[i]
         /\ \A q \in Proc : g.held[q] = IF q = p THEN g.temp ELSE f.held[q]
<1> DEFINE i == IF f.temp # NoIno THEN f.temp ELSE CHOOSE x \in Ino : x \notin Used(f)
<1>1. i \in Ino /\ (f.temp = NoIno => i \notin Used(f))
  <2>1. CASE f.temp = NoIno
    <3>1. \E x \in Ino : x \notin Used(f)
      BY <2>1, FreshInode
    <3>2. (CHOOSE x \in Ino : x \notin Used(f)) \in Ino \ Used(f)
      BY <3>1
    <3> QED
      BY <2>1, <3>2
  <2>2. CASE f.temp # NoIno
    BY <2>2 DEF FileType
  <2> QED
    BY <2>1, <2>2
<1>2. Created(f, p) = [f EXCEPT !.temp = i, !.data[i] = Empty, !.held[p] = i]
  BY DEF Created
<1>3. f.temp # NoIno => i = f.temp
  OBVIOUS
<1> HIDE DEF i
<1>4. Created(f, p) = [path |-> f.path, temp |-> i, data |-> [f.data EXCEPT ![i] = Empty],
                       held |-> [f.held EXCEPT ![p] = i]]
  BY <1>2 DEF FileType
<1> QED
  BY <1>1, <1>3, <1>4 DEF FileType

\* The inode that is written to takes the new content or a mixture; nothing else
\* that has a name changes.
LEMMA OutcomeIs ==
  ASSUME NEW Value, NEW f \in FileType(Value), NEW p \in Proc,
         NEW w \in Value \cup {Empty, Torn}
  PROVE  LET g == Closed([f EXCEPT !.data[f.held[p]] = w], p) IN
         /\ g \in FileType(Value)
         /\ g.path = f.path /\ g.temp = f.temp
         /\ g.held = [f.held EXCEPT ![p] = NoIno]
         /\ \A i \in Ino : /\ g.data[i] \in {f.data[i], w, Empty}
                           /\ i \in {f.path, f.temp} /\ i # f.held[p] => g.data[i] = f.data[i]
                           /\ i \in {f.path, f.temp} /\ i = f.held[p] => g.data[i] = w
<1> DEFINE e == [f EXCEPT !.data[f.held[p]] = w]
<1>1. /\ e \in FileType(Value)
      /\ e.path = f.path /\ e.temp = f.temp /\ e.held = f.held
      /\ \A i \in Ino : e.data[i] = IF i = f.held[p] THEN w ELSE f.data[i]
  BY DEF FileType
<1> HIDE DEF e
<1>2. LET g == Closed(e, p) IN
      /\ g \in FileType(Value)
      /\ g.path = e.path /\ g.temp = e.temp
      /\ g.held = [e.held EXCEPT ![p] = NoIno]
      /\ \A i \in Ino : /\ g.data[i] \in {e.data[i], Empty}
                        /\ i \in {e.path, e.temp} => g.data[i] = e.data[i]
  BY <1>1, ClosedIs
<1>3. LET g == Closed(e, p) IN
      /\ g \in FileType(Value)
      /\ g.path = f.path /\ g.temp = f.temp
      /\ g.held = [f.held EXCEPT ![p] = NoIno]
      /\ \A i \in Ino : /\ g.data[i] \in {f.data[i], w, Empty}
                        /\ i \in {f.path, f.temp} /\ i # f.held[p] => g.data[i] = f.data[i]
                        /\ i \in {f.path, f.temp} /\ i = f.held[p] => g.data[i] = w
  BY <1>1, <1>2
<1> QED
  BY <1>3 DEF e

\* A write into a truncated file leaves it whole; one into another program's
\* text may leave a mixture.
LEMMA WrittenIs ==
  ASSUME NEW Value, NEW f \in FileType(Value), NEW p \in Proc,
         NEW v \in Value, NEW g \in Written(f, p, v)
  PROVE  /\ g \in FileType(Value)
         /\ g.path = f.path /\ g.temp = f.temp
         /\ g.held = [f.held EXCEPT ![p] = NoIno]
         /\ \A i \in Ino :
              /\ g.data[i] \in {f.data[i], v, Torn, Empty}
              /\ i \in {f.path, f.temp} /\ i # f.held[p] => g.data[i] = f.data[i]
              /\ i \in {f.path, f.temp} /\ i = f.held[p] /\ f.data[i] = Empty => g.data[i] = v
<1>1. PICK w \in IF f.data[f.held[p]] \in {Empty, v} THEN {v} ELSE {v, Torn} :
        g = Closed([f EXCEPT !.data[f.held[p]] = w], p)
  BY DEF Written
<1>2. w \in {v, Torn} /\ (f.data[f.held[p]] = Empty => w = v)
  BY <1>1
<1> QED
  BY <1>1, <1>2, OutcomeIs

\* A write that fails leaves a mixture or what was there.
LEMMA HalfWrittenIs ==
  ASSUME NEW Value, NEW f \in FileType(Value), NEW p \in Proc,
         f.held[p] # NoIno, NEW g \in HalfWritten(f, p)
  PROVE  /\ g \in FileType(Value)
         /\ g.path = f.path /\ g.temp = f.temp
         /\ g.held = [f.held EXCEPT ![p] = NoIno]
         /\ \A i \in Ino :
              /\ g.data[i] \in {f.data[i], Torn, Empty}
              /\ i \in {f.path, f.temp} /\ i # f.held[p] => g.data[i] = f.data[i]
<1>1. PICK w \in {Torn, f.data[f.held[p]]} :
        g = Closed([f EXCEPT !.data[f.held[p]] = w], p)
  BY DEF HalfWritten
<1>2. f.held[p] \in Ino /\ f.data[f.held[p]] \in Value \cup {Empty, Torn}
  BY DEF FileType
<1>3. w \in Value \cup {Empty, Torn}
  BY <1>1, <1>2
<1>4. /\ g \in FileType(Value)
      /\ g.path = f.path /\ g.temp = f.temp
      /\ g.held = [f.held EXCEPT ![p] = NoIno]
      /\ \A i \in Ino : /\ g.data[i] \in {f.data[i], w, Empty}
                        /\ i \in {f.path, f.temp} /\ i # f.held[p] => g.data[i] = f.data[i]
                        /\ i \in {f.path, f.temp} /\ i = f.held[p] => g.data[i] = w
  BY <1>1, <1>3, OutcomeIs
<1>5. ASSUME NEW i \in Ino
      PROVE  g.data[i] \in {f.data[i], Torn, Empty}
  <2>1. CASE w = Torn
    BY <1>4, <2>1
  <2>2. CASE w = f.data[f.held[p]]
    <3>1. [f EXCEPT !.data[f.held[p]] = w] = f
      BY <2>2, <1>2 DEF FileType
    <3>2. g = Closed(f, p)
      BY <1>1, <3>1
    <3>3. Closed(f, p).data[i] \in {f.data[i], Empty}
      BY ClosedIs
    <3> QED
      BY <3>2, <3>3
  <2> QED
    BY <1>1, <2>1, <2>2
<1> QED
  BY <1>4, <1>5

\* A rename gives the file the temporary one's inode and content.
LEMMA RenamedIs ==
  ASSUME NEW Value, NEW f \in FileType(Value), CanRename(f)
  PROVE  LET g == Renamed(f) IN
         /\ g \in FileType(Value)
         /\ g.path = f.temp /\ g.temp = NoIno /\ g.held = f.held
         /\ f.temp \in Ino /\ g.data[f.temp] = f.data[f.temp]
         /\ \A i \in Ino : g.data[i] \in {f.data[i], Empty}
<1> DEFINE e == [f EXCEPT !.path = f.temp, !.temp = NoIno]
<1>1. /\ e \in FileType(Value)
      /\ e.path = f.temp /\ e.temp = NoIno /\ e.data = f.data /\ e.held = f.held
      /\ f.temp \in Ino
  BY DEF FileType, CanRename
<1>2. f.temp \in Used(e)
  BY <1>1 DEF Used
<1> HIDE DEF e
<1>3. /\ Reclaimed(e) \in FileType(Value)
      /\ Reclaimed(e).path = e.path /\ Reclaimed(e).temp = e.temp
      /\ Reclaimed(e).held = e.held
      /\ \A i \in Ino : Reclaimed(e).data[i] = IF i \in Used(e) THEN e.data[i] ELSE Empty
  BY <1>1, ReclaimedIs
<1>4. Renamed(f) = Reclaimed(e)
  BY DEF Renamed, e
<1> QED
  BY <1>1, <1>2, <1>3, <1>4

\* No program has written yet.
LEMMA CleanIs ==
  ASSUME NEW Value
  PROVE  /\ Clean \in FileType(Value)
         /\ Clean.path = NoIno /\ Clean.temp = NoIno
         /\ \A i \in Ino : Clean.data[i] = Empty
         /\ \A p \in Proc : Clean.held[p] = NoIno
<1> QED
  BY DEF Clean, FileType

-----------------------------------------------------------------------------
(* The settings. *)

CfgStep(p) ==
  \/ StartLoad(p) \/ ReadConfig(p) \/ ReadFails(p)
  \/ CreateTmp(p) \/ WriteTmp(p) \/ SaveOk(p) \/ SaveFails(p)
  \/ Change(p) \/ (step[p] = "ready" /\ Override(p)) \/ ConfigStops(p)

\* A step of one program leaves what others have in memory and open alone.
CfgOthers(p) ==
  \A q \in Proc \ {p} :
    /\ step'[q] = step[q] /\ mem'[q] = mem[q]
    /\ q \in loaded' <=> q \in loaded
    /\ cfgFile'.held[q] = cfgFile.held[q]

\* What a program has of the settings follows its step, whatever others do.
LEMMA CfgKeeps ==
  ASSUME CfgOK, NEW p \in Proc, CfgStep(p)
  PROVE  CfgOK' /\ CfgOthers(p)
<1>0. /\ cfgFile \in FileType(Settings) /\ cfgFile.held \in [Proc -> Ino \cup {NoIno}]
      /\ mem \in [Proc -> Settings \cup {NoSettings}]
      /\ step \in [Proc -> {"off", "read", "ready"} \cup Saving]
      /\ loaded \subseteq Proc /\ minted \in Nat /\ changes \in 0 .. MaxChanges
      /\ MaxChanges \in Nat
  BY ConfigStoreAssumption DEF CfgOK, ConfigTypeOK, FileType
<1>1. CASE StartLoad(p)
  BY <1>1 DEF StartLoad, CfgOthers, CfgOK, ConfigTypeOK
<1>2. CASE ReadConfig(p)
  <2>1. FirstRun \in Settings /\ (Content(cfgFile) # NoFile => Content(cfgFile) \in Settings)
    BY <1>0, <1>2 DEF ReadConfig, Readable, Content, FileType, FirstRun, Settings
  <2>2. mem'[p] \in Settings /\ minted' \in Nat /\ mem' = [mem EXCEPT ![p] = mem'[p]]
    BY <1>0, <1>2, <2>1 DEF ReadConfig
  <2> QED
    BY <1>0, <1>2, <2>2 DEF ReadConfig, CfgOthers, CfgOK, ConfigTypeOK, Saving
<1>3. CASE ReadFails(p)
  BY <1>0, <1>3 DEF ReadFails, Exits, CfgOthers, CfgOK, ConfigTypeOK
<1>4. CASE CreateTmp(p)
  <2>1. /\ cfgFile' \in FileType(Settings)
        /\ cfgFile'.held \in [Proc -> Ino \cup {NoIno}]
        /\ \A q \in Proc : cfgFile'.held[q] = IF q = p THEN cfgFile'.temp ELSE cfgFile.held[q]
        /\ cfgFile'.temp \in Ino
    <3>1. cfgFile' = Created(cfgFile, p)
      BY <1>4 DEF CreateTmp
    <3>2. cfgFile' \in FileType(Settings)
      BY <1>0, <3>1, CreatedIs
    <3> QED
      BY <1>0, <3>1, <3>2, CreatedIs DEF FileType
  <2>2. cfgFile'.temp # NoIno
    BY <2>1, AtomicFileAssumption
  <2> QED
    BY <1>0, <1>4, <2>1, <2>2 DEF CreateTmp, CfgOthers, CfgOK, ConfigTypeOK, Saving
<1>5. CASE WriteTmp(p)
  <2>1. mem[p] \in Settings
    BY <1>5 DEF WriteTmp, CfgOK
  <2>2. cfgFile' \in FileType(Settings) /\ cfgFile'.held = [cfgFile.held EXCEPT ![p] = NoIno]
    BY <1>0, <1>5, <2>1, WrittenIs DEF WriteTmp
  <2> QED
    BY <1>0, <1>5, <2>2 DEF WriteTmp, CfgOthers, CfgOK, ConfigTypeOK, Saving
<1>6. CASE SaveOk(p)
  <2>1. cfgFile' \in FileType(Settings) /\ cfgFile'.held = cfgFile.held
    BY <1>0, <1>6, RenamedIs DEF SaveOk
  <2> QED
    BY <1>0, <1>6, <2>1 DEF SaveOk, CfgOthers, CfgOK, ConfigTypeOK, Saving
<1>7. CASE SaveFails(p)
  <2>1. /\ cfgFile' \in FileType(Settings)
        /\ step[p] = "write" => cfgFile'.held = [cfgFile.held EXCEPT ![p] = NoIno]
        /\ step[p] # "write" => cfgFile'.held = cfgFile.held
        /\ step[p] \in {"create", "write", "rename"}
    <3>1. CASE step[p] = "write"
      <4>1. cfgFile' \in HalfWritten(cfgFile, p) /\ cfgFile.held[p] # NoIno
        BY <1>7, <3>1 DEF SaveFails, CfgOK
      <4> QED
        BY <1>0, <3>1, <4>1, HalfWrittenIs
    <3>2. CASE step[p] # "write"
      BY <1>0, <1>7, <3>2 DEF SaveFails
    <3> QED
      BY <3>1, <3>2
  <2>2. cfgFile'.held[p] = NoIno /\ \A q \in Proc \ {p} : cfgFile'.held[q] = cfgFile.held[q]
    BY <1>0, <2>1 DEF CfgOK
  <2>3. CASE p \in loaded
    BY <1>0, <1>7, <2>1, <2>2, <2>3 DEF SaveFails, CfgOthers, CfgOK, ConfigTypeOK, Saving
  <2>4. CASE p \notin loaded
    BY <1>0, <1>7, <2>1, <2>2, <2>4 DEF SaveFails, Exits, CfgOthers, CfgOK, ConfigTypeOK
  <2> QED
    BY <2>3, <2>4
<1>8. CASE Change(p)
  <2>1. mem[p] \in Settings /\ changes + 1 \in 0 .. MaxChanges
    BY <1>0, <1>8 DEF Change, CfgOK
  <2>2. mem'[p] \in Settings /\ mem' = [mem EXCEPT ![p] = mem'[p]]
    BY <1>0, <1>8, <2>1 DEF Change, Settings
  <2> QED
    BY <1>0, <1>8, <2>1, <2>2 DEF Change, CfgOthers, CfgOK, ConfigTypeOK, Saving
<1>9. CASE step[p] = "ready" /\ Override(p)
  <2>1. mem[p] \in Settings
    BY <1>0, <1>9 DEF CfgOK
  <2>2. mem'[p] \in Settings /\ mem' = [mem EXCEPT ![p] = mem'[p]]
    BY <1>0, <1>9, <2>1 DEF Override, Settings
  <2> QED
    BY <1>0, <1>9, <2>2 DEF Override, CfgOthers, CfgOK, ConfigTypeOK
<1>10. CASE ConfigStops(p)
  <2>1. cfgFile' \in FileType(Settings) /\ cfgFile'.held = [cfgFile.held EXCEPT ![p] = NoIno]
    BY <1>0, <1>10, ClosedIs DEF ConfigStops
  <2> QED
    BY <1>0, <1>10, <2>1 DEF ConfigStops, Exits, CfgOthers, CfgOK, ConfigTypeOK
<1> QED
  BY <1>1, <1>2, <1>3, <1>4, <1>5, <1>6, <1>7, <1>8, <1>9, <1>10 DEF CfgStep

LEMMA SettingsKeep ==
  ASSUME CfgOK, SettingsOK, NEW p \in Proc, CfgStep(p),
         \A q \in Proc : step[p] \in Saving /\ step[q] \in Saving => q = p
  PROVE  SettingsOK'
<1> DEFINE f == cfgFile
<1>0. /\ f \in FileType(Settings) /\ f.held \in [Proc -> Ino \cup {NoIno}]
      /\ f.data \in [Ino -> Settings \cup {Empty, Torn}]
      /\ f.path \in Ino \cup {NoIno} /\ f.temp \in Ino \cup {NoIno}
      /\ mem \in [Proc -> Settings \cup {NoSettings}]
      /\ step \in [Proc -> {"off", "read", "ready"} \cup Saving]
      /\ loaded \subseteq Proc /\ NoIno \notin Ino
      /\ \A v \in {NoSettings, NoFile, Empty, Torn} : v \notin Settings
  BY ConfigStoreAssumption, AtomicFileAssumption DEF CfgOK, ConfigTypeOK, FileType
<1>1. /\ CfgOK' /\ CfgOthers(p)
      /\ f' \in FileType(Settings)
      /\ f'.path \in Ino \cup {NoIno} /\ f'.temp \in Ino \cup {NoIno}
  BY CfgKeeps DEF CfgOK, ConfigTypeOK, FileType
<1>2. ASSUME step[p] \in Saving, NEW q \in Proc, q # p
      PROVE  step[q] \notin Saving /\ f.held[q] = NoIno
  BY <1>2 DEF CfgOK, Saving
<1>3. CASE StartLoad(p)
  BY <1>0, <1>3 DEF StartLoad, SettingsOK, FileOK, SaveOK, Content, Saving
<1>4. CASE ReadConfig(p)
  <2>1. f.path # NoIno => mem'[p].id = Content(f).id
    BY <1>0, <1>4 DEF ReadConfig, Content, SettingsOK, FileOK
  <2> QED
    BY <1>0, <1>4, <1>1, <2>1 DEF ReadConfig, CfgOthers, SettingsOK, FileOK, SaveOK, Content, Saving, CfgOK
<1>5. CASE ReadFails(p)
  BY <1>0, <1>5, <1>1 DEF ReadFails, Exits, CfgOthers, SettingsOK, FileOK, SaveOK, Content, Saving
<1>6. CASE CreateTmp(p)
  <2>1. f' = Created(f, p)
    BY <1>6 DEF CreateTmp
  <2>2. /\ f'.path = f.path /\ f'.temp \in Ino
        /\ f.temp # NoIno => f'.temp = f.temp
        /\ f.temp = NoIno => f'.temp # f.path
        /\ \A i \in Ino : f'.data[i] = IF i = f'.temp THEN Empty ELSE f.data[i]
        /\ \A q \in Proc : f'.held[q] = IF q = p THEN f'.temp ELSE f.held[q]
    BY <1>0, <2>1, CreatedIs DEF Used
  <2>3. f'.temp # f'.path
    BY <2>2 DEF SettingsOK, FileOK
  <2>4. f'.path # NoIno => f'.data[f'.path] = f.data[f.path]
    BY <1>1, <2>2, <2>3
  <2>5. FileOK(f, Settings)'
    BY <1>0, <1>2, <1>6, <2>2, <2>3, <2>4 DEF CreateTmp, SettingsOK, FileOK, Saving
  <2>6. mem' = mem /\ loaded' = loaded /\ Content(f)' = Content(f)
    BY <1>6, <2>2, <2>4 DEF CreateTmp, Content
  <2>7. SaveOK(f', step'[p], mem'[p])
    BY <1>0, <1>6, <2>2 DEF CreateTmp, SaveOK
  <2> QED
    BY <1>0, <1>1, <1>2, <1>6, <2>2, <2>5, <2>6, <2>7
      DEF CreateTmp, CfgOthers, SettingsOK, SaveOK, Saving
<1>7. CASE WriteTmp(p)
  <2>1. mem[p] \in Settings /\ f' \in Written(f, p, mem[p])
    BY <1>7 DEF WriteTmp, CfgOK
  <2>2. /\ f'.path = f.path /\ f'.temp = f.temp
        /\ f'.held = [f.held EXCEPT ![p] = NoIno]
        /\ \A i \in Ino :
              /\ i \in {f.path, f.temp} /\ i # f.held[p] => f'.data[i] = f.data[i]
              /\ i \in {f.path, f.temp} /\ i = f.held[p] /\ f.data[i] = Empty => f'.data[i] = mem[p]
    BY <1>0, <2>1, WrittenIs
  <2>3. f.held[p] = f.temp /\ f.temp \in Ino /\ f.temp # f.path /\ f.data[f.temp] = Empty
    BY <1>0, <1>7 DEF WriteTmp, CfgOK, SettingsOK, FileOK, SaveOK
  <2>4. f'.data[f'.temp] = mem[p] /\ (f'.path # NoIno => f'.data[f'.path] = f.data[f.path])
    BY <1>0, <2>2, <2>3
  <2>5. FileOK(f, Settings)'
    BY <1>0, <2>2, <2>3, <2>4 DEF SettingsOK, FileOK
  <2>6. mem' = mem /\ loaded' = loaded /\ Content(f)' = Content(f)
    BY <1>7, <2>2, <2>4 DEF WriteTmp, Content
  <2>7. SaveOK(f', step'[p], mem'[p])
    BY <1>0, <1>7, <2>2, <2>3, <2>4, <2>6 DEF WriteTmp, SaveOK
  <2> QED
    BY <1>0, <1>1, <1>2, <1>7, <2>2, <2>5, <2>6, <2>7
      DEF WriteTmp, CfgOthers, SettingsOK, SaveOK, Saving
<1>8. CASE SaveOk(p)
  <2>1. CanRename(f) /\ f' = Renamed(f)
    BY <1>8 DEF SaveOk
  <2>2. /\ f'.path = f.temp /\ f'.temp = NoIno /\ f'.held = f.held
        /\ f.temp \in Ino /\ f'.data[f.temp] = f.data[f.temp]
    BY <1>0, <2>1, RenamedIs
  <2>3. f.data[f.temp] = mem[p] /\ mem[p] \in Settings /\ step[p] \in Saving
    BY <1>8 DEF SaveOk, CfgOK, SettingsOK, SaveOK, Saving
  <2>4. Content(f)' = mem[p] /\ f'.path # NoIno
    BY <1>0, <2>2, <2>3 DEF Content
  <2>5. \A q \in Proc : f.held[q] = NoIno
    BY <1>2, <1>8, <2>3 DEF SaveOk, CfgOK
  <2>6. FileOK(f, Settings)'
    BY <1>0, <2>2, <2>3, <2>5 DEF FileOK
  <2>7. ASSUME NEW q \in Proc, q \in loaded' \/ step'[q] \in Saving
        PROVE  mem'[q].id = Content(f)'.id
    <3>1. CASE q = p
      BY <1>8, <2>4, <3>1 DEF SaveOk
    <3>2. CASE q # p
      <4>1. q \in loaded /\ mem'[q] = mem[q]
        BY <1>1, <1>2, <2>3, <2>7, <3>2 DEF CfgOthers
      <4>2. mem[q].id = Content(f).id /\ mem[p].id = Content(f).id
        BY <2>3, <4>1 DEF SettingsOK
      <4> QED
        BY <2>4, <4>1, <4>2
    <3> QED
      BY <3>1, <3>2
  <2>8. \A q \in Proc : step'[q] \notin {"write", "rename"}
    BY <1>0, <1>1, <1>2, <1>8, <2>3 DEF SaveOk, CfgOthers, Saving
  <2> QED
    BY <2>4, <2>6, <2>7, <2>8 DEF SettingsOK, SaveOK
<1>9. CASE SaveFails(p)
  <2>1. /\ step[p] \in Saving /\ f'.path = f.path /\ f'.temp = f.temp
        /\ f'.path # NoIno => f'.data[f'.path] = f.data[f.path]
        /\ \A q \in Proc : f'.held[q] = NoIno
    <3>1. CASE step[p] = "write"
      <4>1. f' \in HalfWritten(f, p) /\ f.held[p] # NoIno
        BY <1>9, <3>1 DEF SaveFails, CfgOK
      <4>2. /\ f'.path = f.path /\ f'.temp = f.temp
            /\ f'.held = [f.held EXCEPT ![p] = NoIno]
            /\ \A i \in Ino : i \in {f.path, f.temp} /\ i # f.held[p] => f'.data[i] = f.data[i]
        BY <1>0, <4>1, HalfWrittenIs
      <4>3. f.held[p] # f.path
        BY <4>1 DEF SettingsOK, FileOK
      <4> QED
        BY <1>0, <1>2, <3>1, <4>2, <4>3 DEF Saving
    <3>2. CASE step[p] # "write"
      BY <1>0, <1>2, <1>9, <3>2 DEF SaveFails, Saving, CfgOK
    <3> QED
      BY <3>1, <3>2
  <2>2. FileOK(f, Settings)' /\ Content(f)' = Content(f)
    BY <2>1 DEF FileOK, SettingsOK, Content
  <2>3. \A q \in Proc : step'[q] \notin Saving
    <3>1. step'[p] \notin Saving
      BY <1>0, <1>9 DEF SaveFails, Exits, Saving
    <3> QED
      BY <1>1, <1>2, <2>1, <3>1 DEF CfgOthers
  <2>4. ASSUME NEW q \in Proc, q \in loaded'
        PROVE  q \in loaded /\ mem'[q] = mem[q]
    <3>1. CASE q # p
      BY <1>1, <2>4, <3>1 DEF CfgOthers
    <3>2. CASE q = p
      BY <1>0, <1>9, <2>4, <3>2 DEF SaveFails, Exits
    <3> QED
      BY <3>1, <3>2
  <2> QED
    BY <2>1, <2>2, <2>3, <2>4 DEF SettingsOK, SaveOK, Saving
<1>10. CASE Change(p)
  <2>1. mem[p] \in Settings /\ mem' = [mem EXCEPT ![p].set = @ \cup {changes + 1}] /\ p \in loaded
    BY <1>0, <1>10 DEF Change, CfgOK
  <2>2. mem'[p].id = mem[p].id
    BY <1>0, <2>1 DEF Settings
  <2> QED
    BY <1>0, <1>1, <1>10, <2>1, <2>2 DEF Change, CfgOthers, SettingsOK, FileOK, SaveOK, Content, Saving
<1>11. CASE step[p] = "ready" /\ Override(p)
  <2>1. mem[p] \in Settings /\ mem' = [mem EXCEPT ![p].set = @ \cup {0}]
    BY <1>0, <1>11 DEF Override, CfgOK
  <2>2. mem'[p].id = mem[p].id
    BY <1>0, <2>1 DEF Settings
  <2> QED
    BY <1>0, <1>1, <1>11, <2>1, <2>2 DEF Override, CfgOthers, SettingsOK, FileOK, SaveOK, Content, Saving
<1>12. CASE ConfigStops(p)
  <2>1. f' = Closed(f, p)
    BY <1>12 DEF ConfigStops
  <2>2. /\ f'.path = f.path /\ f'.temp = f.temp
        /\ f'.held = [f.held EXCEPT ![p] = NoIno]
        /\ \A i \in Ino : i \in {f.path, f.temp} => f'.data[i] = f.data[i]
    BY <1>0, <2>1, ClosedIs
  <2>3. /\ f'.path # NoIno => f'.data[f'.path] = f.data[f.path]
        /\ f'.temp # NoIno => f'.data[f'.temp] = f.data[f.temp]
    BY <1>0, <2>2
  <2>4. FileOK(f, Settings)' /\ Content(f)' = Content(f)
    BY <1>0, <2>2, <2>3 DEF FileOK, SettingsOK, Content
  <2>5. step'[p] = "off" /\ p \notin loaded'
    BY <1>0, <1>12 DEF ConfigStops, Exits
  <2>6. ASSUME NEW q \in Proc, q # p, step[q] = "write"
        PROVE  f.temp # NoIno
    BY <1>0, <2>6 DEF CfgOK, SettingsOK, FileOK
  <2> QED
    BY <1>1, <2>2, <2>3, <2>4, <2>5, <2>6 DEF CfgOthers, SettingsOK, SaveOK, Saving
<1> QED
  BY <1>3, <1>4, <1>5, <1>6, <1>7, <1>8, <1>9, <1>10, <1>11, <1>12 DEF CfgStep

-----------------------------------------------------------------------------
(* The message history. *)

HistStep(p) ==
  LoadHistory(p) \/ Record(p) \/ SaveHistory(p) \/ SaveHistoryFails(p) \/ HistoryStops(p)

\* A step of one program leaves the history of the others alone.
HistOthers(p) ==
  \A q \in Proc \ {p} :
    /\ hstep'[q] = hstep[q] /\ messages'[q] = messages[q]
    /\ msgFile'.held[q] = msgFile.held[q]

\* recordMessage gives the message a number of its own and keeps all earlier ones.
LEMMA RecordIs ==
  ASSUME HistOK, NEW p \in Proc, Record(p)
  PROVE  \E m \in Msg :
           /\ m \notin Recorded /\ Recorded' = Recorded \cup {m}
           /\ \A n \in Recorded : n < m /\ stamp'[n] = stamp[n]
           /\ \E k \in 0 .. MaxMessages : Recorded' = 1 .. k
           /\ messages' = [messages EXCEPT ![p] = Newest(Unexpired(@) \cup {m})]
           /\ stamp' = [stamp EXCEPT ![m] = now]
<1>1. PICK k \in 0 .. MaxMessages : Recorded = 1 .. k
  BY DEF HistOK, NumbersOK
<1>2. Cardinality(Recorded) = k
  BY <1>1, FS_Interval, MessageHistoryAssumption
<1>3. PICK m \in Msg :
        /\ m = Cardinality(Recorded) + 1
        /\ stamp' = [stamp EXCEPT ![m] = now]
        /\ messages' = [messages EXCEPT ![p] = Newest(Unexpired(@) \cup {m})]
  BY DEF Record
<1>4. m = k + 1 /\ k + 1 \in 0 .. MaxMessages
  BY <1>1, <1>2, <1>3, MessageHistoryAssumption DEF Msg
<1>5. m \notin Recorded /\ \A n \in Recorded : n < m
  BY <1>1, <1>4, MessageHistoryAssumption
<1>6. stamp \in [Msg -> 0 .. LastTime] /\ now > 0
  BY MessageHistoryAssumption DEF HistOK, HistoryTypeOK
<1>7. Recorded' = Recorded \cup {m} /\ \A n \in Recorded : stamp'[n] = stamp[n]
  BY <1>3, <1>5, <1>6 DEF Recorded
<1>8. Recorded' = 1 .. (k + 1)
  BY <1>1, <1>4, <1>7, MessageHistoryAssumption
<1> QED
  BY <1>3, <1>4, <1>5, <1>7, <1>8

\* The history of the engine is made of recorded messages, whatever it does.
LEMMA HistKeeps ==
  ASSUME HistOK, NEW p \in Proc, HistStep(p)
  PROVE  HistOK' /\ HistOthers(p) /\ Recorded \subseteq Recorded'
<1> DEFINE f == msgFile
<1>0. /\ f \in FileType(SUBSET Msg) /\ f.held \in [Proc -> Ino \cup {NoIno}]
      /\ f.data \in [Ino -> (SUBSET Msg) \cup {Empty, Torn}]
      /\ messages \in [Proc -> SUBSET Msg]
      /\ hstep \in [Proc -> {"idle", "create", "write", "rename"}]
      /\ stamp \in [Msg -> 0 .. LastTime]
      /\ now \in 1 .. LastTime
      /\ safe \subseteq Recorded
      /\ \A q \in Proc : messages[q] \subseteq Recorded
  BY DEF HistOK, HistoryTypeOK, NumbersOK, FileType
<1>1. CASE LoadHistory(p)
  <2>1. Recorded' = Recorded
    BY <1>1 DEF LoadHistory, Recorded
  <2>2. Readable(f) /\ Content(f) # NoFile => Content(f) \in SUBSET Recorded
    BY <1>0 DEF HistOK, NumbersOK, Readable, Content, FileType
  <2>3. messages' = [messages EXCEPT ![p] = messages'[p]] /\ messages'[p] \subseteq Recorded
    BY <1>0, <1>1, <2>2 DEF LoadHistory, Newest, Unexpired
  <2>4. messages' \in [Proc -> SUBSET Msg] /\ \A q \in Proc : messages'[q] \subseteq Recorded
    BY <1>0, <2>3 DEF Recorded
  <2>5. HistOthers(p)
    BY <1>0, <1>1, <2>3 DEF LoadHistory, HistOthers
  <2> QED
    BY <1>0, <1>1, <2>1, <2>4, <2>5 DEF LoadHistory, HistOK, HistoryTypeOK, NumbersOK
<1>2. CASE Record(p)
  <2>1. PICK m \in Msg :
           /\ m \notin Recorded /\ Recorded' = Recorded \cup {m}
           /\ \E k \in 0 .. MaxMessages : Recorded' = 1 .. k
           /\ messages' = [messages EXCEPT ![p] = Newest(Unexpired(@) \cup {m})]
           /\ stamp' = [stamp EXCEPT ![m] = now]
    BY <1>2, RecordIs
  <2>2. messages' = [messages EXCEPT ![p] = messages'[p]] /\ messages'[p] \subseteq Recorded'
    BY <1>0, <2>1 DEF Newest, Unexpired
  <2>3. messages' \in [Proc -> SUBSET Msg] /\ \A q \in Proc : messages'[q] \subseteq Recorded'
    BY <1>0, <2>1, <2>2 DEF Recorded
  <2>4. stamp' \in [Msg -> 0 .. LastTime]
    BY <1>0, <2>1
  <2>5. \A i \in Ino : f.data[i] \in (SUBSET Recorded') \cup {Empty, Torn}
    BY <2>1 DEF HistOK, NumbersOK
  <2>6. /\ f' = f /\ now' = now /\ safe' = safe
        /\ hstep' \in [Proc -> {"idle", "create", "write", "rename"}]
        /\ hstep[p] = "idle" /\ hstep' = [hstep EXCEPT ![p] = "create"]
    BY <1>0, <1>2 DEF Record
  <2>7. HistOthers(p)
    BY <1>0, <2>2, <2>6 DEF HistOthers
  <2>8. HistoryTypeOK'
    BY <1>0, <2>1, <2>3, <2>4, <2>6 DEF HistoryTypeOK, Msg
  <2>9. NumbersOK'
    BY <2>1, <2>3, <2>5, <2>6 DEF NumbersOK
  <2>10. \A q \in Proc : hstep'[q] = "write" <=> f'.held[q] # NoIno
    BY <1>0, <2>6 DEF HistOK
  <2> QED
    BY <2>1, <2>7, <2>8, <2>9, <2>10 DEF HistOK
<1>3. ASSUME NEW g, f' = g, g \in FileType(SUBSET Msg), stamp' = stamp, now' = now,
             safe' \subseteq Recorded,
             messages' \in [Proc -> SUBSET Msg], \A q \in Proc : messages'[q] \subseteq Recorded,
             \A i \in Ino : g.data[i] \in {f.data[i], messages[p], Torn, Empty},
             hstep' \in [Proc -> {"idle", "create", "write", "rename"}],
             HistOthers(p),
             hstep'[p] = "write" <=> g.held[p] # NoIno
      PROVE  HistOK' /\ HistOthers(p) /\ Recorded \subseteq Recorded'
  <2>1. Recorded' = Recorded
    BY <1>3 DEF Recorded
  <2>2. HistoryTypeOK'
    BY <1>0, <1>3, <2>1 DEF HistoryTypeOK
  <2>3. \A i \in Ino : g.data[i] \in (SUBSET Recorded) \cup {Empty, Torn}
    BY <1>0, <1>3 DEF HistOK, NumbersOK
  <2>4. NumbersOK'
    BY <1>3, <2>1, <2>3 DEF HistOK, NumbersOK
  <2>5. \A q \in Proc : hstep'[q] = "write" <=> f'.held[q] # NoIno
    BY <1>3 DEF HistOK, HistOthers
  <2> QED
    BY <1>3, <2>1, <2>2, <2>4, <2>5 DEF HistOK
<1>4. CASE SaveHistory(p)
  <2>0. messages' = messages /\ stamp' = stamp /\ now' = now
    BY <1>4 DEF SaveHistory
  <2>1. CASE hstep[p] = "create"
    <3>1. f' = Created(f, p) /\ hstep' = [hstep EXCEPT ![p] = "write"] /\ safe' = safe
      BY <1>4, <2>1 DEF SaveHistory
    <3>2. /\ f' \in FileType(SUBSET Msg) /\ f'.temp \in Ino
          /\ \A i \in Ino : f'.data[i] = IF i = f'.temp THEN Empty ELSE f.data[i]
          /\ \A q \in Proc : f'.held[q] = IF q = p THEN f'.temp ELSE f.held[q]
      BY <1>0, <3>1, CreatedIs
    <3>3. f'.held[p] # NoIno
      BY <3>2, AtomicFileAssumption
    <3>4. HistOthers(p)
      BY <1>0, <2>0, <3>1, <3>2 DEF HistOthers
    <3>5. /\ hstep' \in [Proc -> {"idle", "create", "write", "rename"}] /\ hstep'[p] = "write"
          /\ \A i \in Ino : f'.data[i] \in {f.data[i], messages[p], Torn, Empty}
      BY <1>0, <3>1, <3>2
    <3> QED
      BY <1>0, <1>3, <2>0, <3>1, <3>2, <3>3, <3>4, <3>5
  <2>2. CASE hstep[p] = "write"
    <3>1. /\ f' \in Written(f, p, messages[p]) /\ hstep' = [hstep EXCEPT ![p] = "rename"]
          /\ safe' = safe
      BY <1>4, <2>2 DEF SaveHistory
    <3>2. /\ f' \in FileType(SUBSET Msg)
          /\ f'.held = [f.held EXCEPT ![p] = NoIno]
          /\ \A i \in Ino : f'.data[i] \in {f.data[i], messages[p], Torn, Empty}
      BY <1>0, <3>1, WrittenIs
    <3>3. HistOthers(p)
      BY <1>0, <2>0, <3>1, <3>2 DEF HistOthers
    <3> QED
      BY <1>0, <1>3, <2>0, <3>1, <3>2, <3>3
  <2>3. CASE hstep[p] = "rename"
    <3>1. /\ CanRename(f) /\ f' = Renamed(f) /\ hstep' = [hstep EXCEPT ![p] = "idle"]
          /\ safe' = safe \cup messages[p]
      BY <1>4, <2>3 DEF SaveHistory
    <3>2. /\ f' \in FileType(SUBSET Msg) /\ f'.held = f.held
          /\ \A i \in Ino : f'.data[i] \in {f.data[i], Empty}
      BY <1>0, <3>1, RenamedIs
    <3>3. HistOthers(p)
      BY <1>0, <2>0, <3>1, <3>2 DEF HistOthers
    <3>4. f'.held[p] = NoIno
      BY <2>3, <3>2 DEF HistOK
    <3> QED
      BY <1>0, <1>3, <2>0, <3>1, <3>2, <3>3, <3>4
  <2> QED
    BY <1>4, <2>1, <2>2, <2>3 DEF SaveHistory
<1>5. CASE SaveHistoryFails(p)
  <2>0. /\ messages' = messages /\ stamp' = stamp /\ now' = now /\ safe' = safe
        /\ hstep' = [hstep EXCEPT ![p] = "idle"]
    BY <1>5 DEF SaveHistoryFails
  <2>1. /\ f' \in FileType(SUBSET Msg)
        /\ f'.held[p] = NoIno /\ \A q \in Proc \ {p} : f'.held[q] = f.held[q]
        /\ \A i \in Ino : f'.data[i] \in {f.data[i], Torn, Empty}
    <3>1. CASE hstep[p] = "write"
      <4>1. f' \in HalfWritten(f, p) /\ f.held[p] # NoIno
        BY <1>5, <3>1 DEF SaveHistoryFails, HistOK
      <4>2. /\ f' \in FileType(SUBSET Msg)
            /\ f'.held = [f.held EXCEPT ![p] = NoIno]
            /\ \A i \in Ino : f'.data[i] \in {f.data[i], Torn, Empty}
        BY <1>0, <4>1, HalfWrittenIs
      <4> QED
        BY <1>0, <4>2
    <3>2. CASE hstep[p] # "write"
      BY <1>0, <1>5, <3>2 DEF SaveHistoryFails, HistOK
    <3> QED
      BY <3>1, <3>2
  <2>2. HistOthers(p)
    BY <1>0, <2>0, <2>1 DEF HistOthers
  <2> QED
    BY <1>0, <1>3, <2>0, <2>1, <2>2
<1>6. CASE HistoryStops(p)
  <2>1. /\ f' = Closed(f, p) /\ messages' = [messages EXCEPT ![p] = {}]
        /\ hstep' = [hstep EXCEPT ![p] = "idle"] /\ stamp' = stamp /\ now' = now /\ safe' = safe
    BY <1>6 DEF HistoryStops
  <2>2. /\ f' \in FileType(SUBSET Msg)
        /\ f'.held = [f.held EXCEPT ![p] = NoIno]
        /\ \A i \in Ino : f'.data[i] \in {f.data[i], Empty}
    BY <1>0, <2>1, ClosedIs
  <2>3. HistOthers(p)
    BY <1>0, <2>1, <2>2 DEF HistOthers
  <2>4. messages' \in [Proc -> SUBSET Msg] /\ \A q \in Proc : messages'[q] \subseteq Recorded
    BY <1>0, <2>1
  <2> QED
    BY <1>0, <1>3, <2>1, <2>2, <2>3, <2>4
<1> QED
  BY <1>1, <1>2, <1>4, <1>5, <1>6 DEF HistStep

\* The newer messages are finitely many.
LEMMA NewerFinite ==
  ASSUME NEW S \in SUBSET Nat, S \subseteq Msg, NEW m
  PROVE  /\ IsFiniteSet(S) /\ IsFiniteSet({n \in S : n > m})
         /\ Cardinality({n \in S : n > m}) \in Nat
<1>1. IsFiniteSet(Msg)
  BY FS_Interval, MessageHistoryAssumption DEF Msg
<1>2. IsFiniteSet(S)
  BY <1>1, FS_Subset
<1>3. {n \in S : n > m} \in SUBSET S
  OBVIOUS
<1> QED
  BY <1>2, <1>3, FS_Subset, FS_CardinalityType

\* The cap keeps what is due.
LEMMA NewestKeepsDue ==
  ASSUME NEW T \in SUBSET Msg, NEW S \in SUBSET T, NEW m \in S,
         Cardinality({n \in T : n > m}) < Cap
  PROVE  m \in Newest(S)
<1>0. Msg \subseteq Nat /\ Cap \in Nat
  BY MessageHistoryAssumption DEF Msg
<1>1. {n \in S : n > m} \in SUBSET {n \in T : n > m}
  OBVIOUS
<1>2. Cardinality({n \in S : n > m}) <= Cardinality({n \in T : n > m})
  BY <1>0, <1>1, NewerFinite, FS_Subset
<1>3. Cardinality({n \in S : n > m}) \in Nat /\ Cardinality({n \in T : n > m}) \in Nat
  BY <1>0, NewerFinite
<1>4. Cardinality({n \in S : n > m}) < Cap
  BY <1>0, <1>2, <1>3
<1> QED
  BY <1>4 DEF Newest

\* What is due was due before.
LEMMA DueBefore ==
  ASSUME HistOK, HistoryTypeOK', Recorded \subseteq Recorded', NEW m \in Recorded,
         stamp'[m] = stamp[m], now <= now', Due(m)'
  PROVE  Due(m) /\ Cardinality({n \in Recorded' : n > m}) < Cap /\ ~Expired(m)
<1>0. /\ Recorded \in SUBSET Msg /\ Recorded' \in SUBSET Msg /\ Msg \subseteq Nat /\ Cap \in Nat
      /\ stamp[m] \in Nat /\ now \in Nat /\ now' \in Nat /\ Retention \in Nat
  <2>1. Recorded \in SUBSET Msg /\ Recorded' \in SUBSET Msg /\ Msg \subseteq Nat /\ Cap \in Nat
    BY MessageHistoryAssumption DEF Recorded, Msg
  <2>2. stamp \in [Msg -> 0 .. LastTime] /\ now \in 1 .. LastTime /\ now' \in 1 .. LastTime
    BY DEF HistOK, HistoryTypeOK
  <2> QED
    BY <2>1, <2>2, MessageHistoryAssumption
<1>1. Cardinality({n \in Recorded' : n > m}) < Cap /\ ~Expired(m)'
  BY DEF Due
<1>2. ~Expired(m)
  BY <1>0, <1>1 DEF Expired
<1>3. {n \in Recorded : n > m} \in SUBSET {n \in Recorded' : n > m}
  OBVIOUS
<1>4. Cardinality({n \in Recorded : n > m}) <= Cardinality({n \in Recorded' : n > m})
  BY <1>0, <1>3, NewerFinite, FS_Subset
<1>5. Cardinality({n \in Recorded : n > m}) \in Nat /\ Cardinality({n \in Recorded' : n > m}) \in Nat
  BY <1>0, NewerFinite
<1>6. Cardinality({n \in Recorded : n > m}) < Cap
  BY <1>0, <1>1, <1>4, <1>5
<1> QED
  BY <1>1, <1>2, <1>6 DEF Due

\* A saved message stays due or is dropped for good, in the file and in memory,
\* while only one engine records.
LEMMA HistoryKeeps ==
  ASSUME HistOK, HistorySafe, NEW p \in Proc,
         \A q \in Proc : hstep[q] # "idle" => q \in Active,
         \A q, r \in Active : q = r,
         \A q \in Active' : q # p => q \in Active,
         \/ LoadHistory(p) /\ p \notin Active
         \/ (Record(p) \/ SaveHistory(p) \/ SaveHistoryFails(p)) /\ p \in Active
         \/ HistoryStops(p) /\ p \notin Active'
  PROVE  HistorySafe'
<1> DEFINE f == msgFile
<1>0. /\ f \in FileType(SUBSET Msg) /\ f.held \in [Proc -> Ino \cup {NoIno}]
      /\ f.path \in Ino \cup {NoIno} /\ f.temp \in Ino \cup {NoIno} /\ NoIno \notin Ino
      /\ f.data \in [Ino -> (SUBSET Msg) \cup {Empty, Torn}]
      /\ messages \in [Proc -> SUBSET Msg]
      /\ hstep \in [Proc -> {"idle", "create", "write", "rename"}]
      /\ safe \subseteq Recorded /\ Recorded \subseteq Msg
      /\ \A q \in Proc : messages[q] \subseteq Recorded
      /\ \A q \in Proc : hstep[q] = "write" <=> f.held[q] # NoIno
  BY AtomicFileAssumption DEF HistOK, HistoryTypeOK, NumbersOK, FileType, Recorded
<1>1. /\ HistOK' /\ HistoryTypeOK' /\ HistOthers(p) /\ Recorded \subseteq Recorded'
      /\ f' \in FileType(SUBSET Msg)
      /\ f'.path \in Ino \cup {NoIno} /\ f'.temp \in Ino \cup {NoIno}
  BY HistKeeps DEF HistStep, HistOK, HistoryTypeOK, FileType
<1>2. ASSUME p \in Active, NEW q \in Proc, q # p
      PROVE  hstep[q] = "idle" /\ f.held[q] = NoIno /\ q \notin Active'
  BY <1>0, <1>2
<1>3. now <= now'
  BY DEF LoadHistory, Record, SaveHistory, SaveHistoryFails, HistoryStops, HistOK, HistoryTypeOK
<1>4. ASSUME NEW m \in safe, Due(m)', stamp'[m] = stamp[m]
      PROVE  /\ f.path # NoIno /\ m \in f.data[f.path] /\ m \in Recorded
             /\ \A q \in Active : m \in messages[q]
             /\ Cardinality({n \in Recorded' : n > m}) < Cap /\ ~Expired(m)
  BY <1>0, <1>1, <1>3, <1>4, DueBefore DEF HistorySafe
<1>5. CASE LoadHistory(p) /\ p \notin Active
  <2>1. /\ f' = f /\ hstep' = hstep /\ stamp' = stamp /\ safe' = safe
        /\ p \notin Active /\ hstep[p] = "idle"
        /\ messages'[p] = IF Readable(f) /\ Content(f) # NoFile
                          THEN Newest(Unexpired(Content(f))) ELSE {}
    BY <1>0, <1>5 DEF LoadHistory
  <2>2. \A q \in Proc : SaveOK(f', hstep'[q], messages'[q])
    BY <1>1, <2>1 DEF SaveOK, HistorySafe, HistOthers
  <2>3. ASSUME NEW m \in safe', Due(m)'
        PROVE  /\ f'.path # NoIno /\ m \in f'.data[f'.path]
               /\ \A q \in Active' : m \in messages'[q]
    <3>1. /\ f.path # NoIno /\ m \in f.data[f.path] /\ ~Expired(m)
          /\ \A q \in Active : m \in messages[q]
          /\ m \in Recorded
          /\ Cardinality({n \in Recorded' : n > m}) < Cap
      BY <1>4, <2>1, <2>3
    <3>2. Content(f) = f.data[f.path] /\ f.data[f.path] \in SUBSET Msg /\ Recorded' = Recorded
      BY <2>1, <3>1 DEF Content, HistorySafe, FileOK, Recorded
    <3>3. Readable(f) /\ Content(f) # NoFile
      BY <3>2, MessageHistoryAssumption DEF Readable
    <3>4. Content(f) \in SUBSET Recorded
      <4>1. f.data[f.path] \in (SUBSET Recorded) \cup {Empty, Torn}
        BY <1>0, <3>1 DEF HistOK, NumbersOK
      <4> QED
        BY <4>1, <3>2, MessageHistoryAssumption
    <3>5. Unexpired(Content(f)) \in SUBSET Recorded' /\ m \in Unexpired(Content(f))
      BY <3>1, <3>2, <3>4 DEF Unexpired
    <3>6. m \in messages'[p]
      BY <1>0, <2>1, <3>1, <3>2, <3>3, <3>5, NewestKeepsDue
    <3>7. ASSUME NEW q \in Active' PROVE m \in messages'[q]
      <4>1. CASE q = p
        BY <3>6, <4>1
      <4>2. CASE q # p
        <5>1. q \in Active /\ q \in Proc /\ messages'[q] = messages[q]
          BY <1>1, <4>2, EnginesAssumption DEF HistOthers, Active
        <5> QED
          BY <3>1, <5>1
      <4> QED
        BY <4>1, <4>2
    <3> QED
      BY <2>1, <3>1, <3>7
  <2>4. FileOK(f, SUBSET Msg)'
    BY <2>1 DEF HistorySafe, FileOK
  <2> QED
    BY <2>2, <2>3, <2>4 DEF HistorySafe
<1>6. CASE Record(p) /\ p \in Active
  <2>1. PICK k \in Msg :
          /\ k \notin Recorded /\ Recorded' = Recorded \cup {k}
          /\ \A n \in Recorded : n < k /\ stamp'[n] = stamp[n]
          /\ messages' = [messages EXCEPT ![p] = Newest(Unexpired(@) \cup {k})]
    BY <1>6, RecordIs
  <2>2. f' = f /\ safe' = safe /\ hstep' = [hstep EXCEPT ![p] = "create"] /\ p \in Active
    BY <1>0, <1>6 DEF Record
  <2>3. \A q \in Proc : SaveOK(f', hstep'[q], messages'[q])
    BY <1>0, <1>2, <2>2 DEF SaveOK
  <2>4. ASSUME NEW m \in safe', Due(m)'
        PROVE  /\ f'.path # NoIno /\ m \in f'.data[f'.path]
               /\ \A q \in Active' : m \in messages'[q]
    <3>1. /\ f.path # NoIno /\ m \in f.data[f.path] /\ ~Expired(m)
          /\ m \in messages[p] /\ m \in Recorded
          /\ Cardinality({n \in Recorded' : n > m}) < Cap
      BY <1>0, <1>4, <2>1, <2>2, <2>4
    <3>2. m \in Unexpired(messages[p]) /\ Unexpired(messages[p]) \cup {k} \in SUBSET Recorded'
      BY <1>0, <2>1, <3>1 DEF Unexpired
    <3>3. Recorded' \in SUBSET Msg
      BY <1>0, <2>1
    <3>4. m \in Newest(Unexpired(messages[p]) \cup {k})
      BY <3>1, <3>2, <3>3, NewestKeepsDue
    <3>5. \A q \in Active' : q = p
      BY <1>2, <2>2, EnginesAssumption DEF Active
    <3> QED
      BY <1>0, <2>1, <2>2, <3>1, <3>4, <3>5
  <2>5. FileOK(f, SUBSET Msg)'
    BY <2>2 DEF HistorySafe, FileOK
  <2> QED
    BY <2>3, <2>4, <2>5 DEF HistorySafe
<1>7. ASSUME p \in Active, messages' = messages, stamp' = stamp, safe' = safe,
             f'.path = f.path, f'.path # NoIno => f'.data[f'.path] = f.data[f.path]
      PROVE  \A m \in safe' : Due(m)' =>
               /\ f'.path # NoIno /\ m \in f'.data[f'.path]
               /\ \A q \in Active' : m \in messages'[q]
  <2> SUFFICES ASSUME NEW m \in safe', Due(m)'
               PROVE  /\ f'.path # NoIno /\ m \in f'.data[f'.path]
                      /\ \A q \in Active' : m \in messages'[q]
    OBVIOUS
  <2>1. f.path # NoIno /\ m \in f.data[f.path] /\ m \in messages[p]
    BY <1>4, <1>7
  <2>2. \A q \in Active' : q = p
    BY <1>2, <1>7, EnginesAssumption DEF Active
  <2> QED
    BY <1>7, <2>1, <2>2
<1>8. CASE SaveHistory(p) /\ p \in Active
  <2>0. messages' = messages /\ stamp' = stamp /\ now' = now
    BY <1>8 DEF SaveHistory
  <2>1. CASE hstep[p] = "create"
    <3>0. p \in Active
      BY <1>8
    <3>1. f' = Created(f, p) /\ hstep' = [hstep EXCEPT ![p] = "write"] /\ safe' = safe
      BY <1>8, <2>1 DEF SaveHistory
    <3>2. /\ f'.path = f.path /\ f'.temp \in Ino
          /\ f.temp # NoIno => f'.temp = f.temp
          /\ f.temp = NoIno => f'.temp # f.path
          /\ \A i \in Ino : f'.data[i] = IF i = f'.temp THEN Empty ELSE f.data[i]
          /\ \A q \in Proc : f'.held[q] = IF q = p THEN f'.temp ELSE f.held[q]
      BY <1>0, <3>1, CreatedIs DEF Used
    <3>3. f'.temp # f'.path
      BY <3>2 DEF HistorySafe, FileOK
    <3>4. f'.path # NoIno => f'.data[f'.path] = f.data[f.path]
      BY <1>1, <3>2, <3>3
    <3>5. FileOK(f, SUBSET Msg)'
      BY <1>0, <1>2, <3>0, <3>2, <3>3, <3>4 DEF HistorySafe, FileOK
    <3>6. \A q \in Proc : SaveOK(f', hstep'[q], messages'[q])
      BY <1>0, <1>2, <3>0, <3>1, <3>2 DEF SaveOK
    <3> QED
      BY <1>7, <2>0, <3>0, <3>1, <3>2, <3>4, <3>5, <3>6 DEF HistorySafe
  <2>2. CASE hstep[p] = "write"
    <3>0. p \in Active
      BY <1>8
    <3>1. /\ f' \in Written(f, p, messages[p]) /\ hstep' = [hstep EXCEPT ![p] = "rename"]
          /\ safe' = safe /\ messages[p] \in SUBSET Msg
      BY <1>0, <1>8, <2>2 DEF SaveHistory
    <3>2. /\ f'.path = f.path /\ f'.temp = f.temp
          /\ f'.held = [f.held EXCEPT ![p] = NoIno]
          /\ \A i \in Ino :
               /\ i \in {f.path, f.temp} /\ i # f.held[p] => f'.data[i] = f.data[i]
               /\ i \in {f.path, f.temp} /\ i = f.held[p] /\ f.data[i] = Empty
                    => f'.data[i] = messages[p]
      BY <1>0, <3>1, WrittenIs
    <3>3. f.held[p] = f.temp /\ f.temp \in Ino /\ f.temp # f.path /\ f.data[f.temp] = Empty
      BY <1>0, <2>2 DEF HistorySafe, FileOK, SaveOK
    <3>4. f'.data[f'.temp] = messages[p] /\ (f'.path # NoIno => f'.data[f'.path] = f.data[f.path])
      BY <1>0, <3>2, <3>3
    <3>5. FileOK(f, SUBSET Msg)'
      BY <1>0, <3>2, <3>3, <3>4 DEF HistorySafe, FileOK
    <3>6. \A q \in Proc : SaveOK(f', hstep'[q], messages'[q])
      BY <1>0, <1>2, <2>0, <3>0, <3>1, <3>2, <3>3, <3>4 DEF SaveOK
    <3> QED
      BY <1>7, <2>0, <3>0, <3>1, <3>2, <3>4, <3>5, <3>6 DEF HistorySafe
  <2>3. CASE hstep[p] = "rename"
    <3>0. p \in Active
      BY <1>8
    <3>1. /\ CanRename(f) /\ f' = Renamed(f) /\ hstep' = [hstep EXCEPT ![p] = "idle"]
          /\ safe' = safe \cup messages[p]
      BY <1>8, <2>3 DEF SaveHistory
    <3>2. /\ f'.path = f.temp /\ f'.temp = NoIno /\ f'.held = f.held
          /\ f.temp \in Ino /\ f'.data[f.temp] = f.data[f.temp]
      BY <1>0, <3>1, RenamedIs
    <3>3. f'.path # NoIno /\ f'.data[f'.path] = messages[p]
      BY <1>0, <2>3, <3>2 DEF HistorySafe, SaveOK
    <3>4. FileOK(f, SUBSET Msg)'
      BY <1>0, <1>2, <2>3, <3>0, <3>2, <3>3 DEF FileOK
    <3>5. \A q \in Proc : SaveOK(f', hstep'[q], messages'[q])
      BY <1>0, <1>2, <3>0, <3>1 DEF SaveOK
    <3>6. ASSUME NEW m \in safe', Due(m)'
          PROVE  m \in f'.data[f'.path] /\ \A q \in Active' : m \in messages'[q]
      <4>1. m \in messages[p]
        BY <1>4, <2>0, <3>0, <3>1, <3>6
      <4>2. \A q \in Active' : q = p
        BY <1>2, <3>0, EnginesAssumption DEF Active
      <4> QED
        BY <2>0, <3>3, <4>1, <4>2
    <3> QED
      BY <3>3, <3>4, <3>5, <3>6 DEF HistorySafe
  <2> QED
    BY <1>8, <2>1, <2>2, <2>3 DEF SaveHistory
<1>9. CASE SaveHistoryFails(p) /\ p \in Active
  <2>0. /\ messages' = messages /\ stamp' = stamp /\ now' = now /\ safe' = safe
        /\ hstep' = [hstep EXCEPT ![p] = "idle"] /\ p \in Active
    BY <1>0, <1>9 DEF SaveHistoryFails
  <2>1. /\ f'.path = f.path /\ f'.temp = f.temp
        /\ f'.path # NoIno => f'.data[f'.path] = f.data[f.path]
        /\ \A q \in Proc : f'.held[q] = NoIno
    <3>1. CASE hstep[p] = "write"
      <4>1. f' \in HalfWritten(f, p) /\ f.held[p] # NoIno
        BY <1>0, <1>9, <3>1 DEF SaveHistoryFails
      <4>2. /\ f'.path = f.path /\ f'.temp = f.temp
            /\ f'.held = [f.held EXCEPT ![p] = NoIno]
            /\ \A i \in Ino : i \in {f.path, f.temp} /\ i # f.held[p] => f'.data[i] = f.data[i]
        BY <1>0, <4>1, HalfWrittenIs
      <4>3. f.held[p] # f.path
        BY <4>1 DEF HistorySafe, FileOK
      <4> QED
        BY <1>0, <1>2, <2>0, <4>2, <4>3
    <3>2. CASE hstep[p] # "write"
      BY <1>0, <1>2, <1>9, <2>0, <3>2 DEF SaveHistoryFails
    <3> QED
      BY <3>1, <3>2
  <2>2. FileOK(f, SUBSET Msg)'
    BY <2>1 DEF FileOK, HistorySafe
  <2>3. \A q \in Proc : SaveOK(f', hstep'[q], messages'[q])
    BY <1>0, <1>2, <2>0 DEF SaveOK
  <2> QED
    BY <1>7, <2>0, <2>1, <2>2, <2>3 DEF HistorySafe
<1>10. CASE HistoryStops(p) /\ p \notin Active'
  <2>1. /\ f' = Closed(f, p) /\ messages' = [messages EXCEPT ![p] = {}]
        /\ hstep' = [hstep EXCEPT ![p] = "idle"] /\ stamp' = stamp /\ now' = now /\ safe' = safe
        /\ p \notin Active'
    BY <1>10 DEF HistoryStops
  <2>2. /\ f'.path = f.path /\ f'.temp = f.temp
        /\ f'.held = [f.held EXCEPT ![p] = NoIno]
        /\ \A i \in Ino : i \in {f.path, f.temp} => f'.data[i] = f.data[i]
    BY <1>0, <2>1, ClosedIs
  <2>3. /\ f'.path # NoIno => f'.data[f'.path] = f.data[f.path]
        /\ f'.temp # NoIno => f'.data[f'.temp] = f.data[f.temp]
    BY <1>0, <2>2
  <2>4. FileOK(f, SUBSET Msg)'
    BY <1>0, <2>2, <2>3 DEF FileOK, HistorySafe
  <2>5. ASSUME NEW q \in Proc, hstep[q] = "write"
        PROVE  f.temp # NoIno
    BY <1>0, <2>5 DEF HistorySafe, FileOK
  <2>6. \A q \in Proc : SaveOK(f', hstep'[q], messages'[q])
    BY <1>0, <2>1, <2>2, <2>3, <2>5 DEF SaveOK, HistorySafe
  <2>7. ASSUME NEW m \in safe', Due(m)'
        PROVE  /\ f'.path # NoIno /\ m \in f'.data[f'.path]
               /\ \A q \in Active' : m \in messages'[q]
    <3>1. f.path # NoIno /\ m \in f.data[f.path] /\ \A q \in Active : m \in messages[q]
      BY <1>4, <2>1, <2>7
    <3>2. ASSUME NEW q \in Active' PROVE m \in messages'[q]
      <4>1. q # p /\ q \in Active /\ q \in Proc
        BY <2>1, EnginesAssumption DEF Active
      <4> QED
        BY <1>0, <2>1, <3>1, <4>1
    <3> QED
      BY <2>2, <2>3, <3>1, <3>2
  <2> QED
    BY <2>4, <2>6, <2>7 DEF HistorySafe
<1> QED
  BY <1>5, <1>6, <1>8, <1>9, <1>10

-----------------------------------------------------------------------------
(* The programs. *)

\* A step of a program is a step with the settings file, and one with the
\* history, or leaves them alone.
LEMMA StepParts ==
  ASSUME Base, NEW p \in Proc, Step(p)
  PROVE  /\ CfgStep(p) \/ UNCHANGED cfgVars
         /\ HistStep(p) \/ UNCHANGED msgVars
<1>1. CASE Start(p)
  BY <1>1 DEF Start, CfgStep
<1>2. CASE ConfigStep(p)
  BY <1>2 DEF ConfigStep, CfgStep
<1>3. CASE LoadFails(p)
  BY <1>3 DEF LoadFails, CfgStep
<1>4. CASE AfterLoad(p)
  BY <1>4 DEF AfterLoad, CfgStep
<1>5. CASE LookAtSocket(p) \/ DialRefused(p) \/ RemoveSocket(p) \/ BindPort(p) \/ Listen(p)
  BY <1>5 DEF LookAtSocket, DialRefused, RemoveSocket, BindPort, Listen
<1>6. CASE LoadSaved(p)
  BY <1>6 DEF LoadSaved, HistStep
<1>7. CASE ChangeSetting(p)
  BY <1>7 DEF ChangeSetting, CfgStep
<1>8. CASE RecordMessage(p)
  BY <1>8 DEF RecordMessage, HistStep
<1>9. CASE Signal(p) \/ PortCloses(p) \/ CloseListener(p)
  BY <1>9 DEF Signal, PortCloses, CloseListener
<1>10. CASE Exit(p) \/ Ends(p)
  BY <1>10 DEF Exit, Ends, CfgStep, HistStep
<1> QED
  BY <1>1, <1>2, <1>3, <1>4, <1>5, <1>6, <1>7, <1>8, <1>9, <1>10 DEF Step

\* Both files and what the programs have of them stay as they should be.
LEMMA PartsKeep ==
  ASSUME Base, NEW p \in Proc, Step(p)
  PROVE  /\ CfgOK' /\ CfgOthers(p)
         /\ HistOK' /\ HistOthers(p) /\ Recorded \subseteq Recorded'
<1>1. CfgOK /\ HistOK
  BY DEF Base
<1>2. ASSUME UNCHANGED cfgVars PROVE CfgOK' /\ CfgOthers(p)
  BY <1>1, <1>2 DEF cfgVars, CfgOK, ConfigTypeOK, CfgOthers
<1>3. ASSUME UNCHANGED msgVars PROVE HistOK' /\ HistOthers(p) /\ Recorded \subseteq Recorded'
  BY <1>1, <1>3 DEF msgVars, HistOK, HistoryTypeOK, NumbersOK, Recorded, HistOthers
<1>4. UNCHANGED cfgVars \/ CfgStep(p)
  BY StepParts
<1>5. UNCHANGED msgVars \/ HistStep(p)
  BY StepParts
<1>6. CfgOK' /\ CfgOthers(p)
  BY <1>1, <1>2, <1>4, CfgKeeps
<1>7. HistOK' /\ HistOthers(p) /\ Recorded \subseteq Recorded'
  BY <1>1, <1>3, <1>5, HistKeeps
<1> QED
  BY <1>6, <1>7

\* A program moves on its own.
LEMMA PcMoves ==
  ASSUME Base, NEW p \in Proc, Step(p)
  PROVE  /\ pc' \in [Proc -> {"off", "up", "cancelled", "closed"} \cup Starting]
         /\ \A q \in Proc \ {p} : pc'[q] = pc[q]
<1>1. pc \in [Proc -> {"off", "up", "cancelled", "closed"} \cup Starting]
  BY DEF Base, TypeOK
<1>2. PICK x \in {"off", "up", "cancelled", "closed"} \cup Starting :
        pc' = [pc EXCEPT ![p] = x] \/ pc' = pc
  BY DEF Step, Start, ConfigStep, LoadFails, AfterLoad, LookAtSocket, DialRefused,
         RemoveSocket, BindPort, LoadSaved, Listen, ChangeSetting, RecordMessage,
         Signal, PortCloses, CloseListener, Exit, Ends, At, Starting
<1> QED
  BY <1>1, <1>2

\* Where a program is agrees with what it has loaded, after each step of its own.
LEMMA PlacedAfter ==
  ASSUME Base, NEW p \in Proc, Step(p)
  PROVE  Placed(p)'
<1>0. /\ pc \in [Proc -> {"off", "up", "cancelled", "closed"} \cup Starting]
      /\ step \in [Proc -> {"off", "read", "ready"} \cup Saving]
      /\ hstep \in [Proc -> {"idle", "create", "write", "rename"}]
      /\ Placed(p)
      /\ step[p] \in {"off", "read"} => p \notin loaded
      /\ step[p] = "ready" => p \in loaded
  BY DEF Base, TypeOK, ConfigTypeOK, HistoryTypeOK, CfgOK
<1>1. CASE Start(p)
  BY <1>0, <1>1 DEF Start, At, StartLoad, Placed, msgVars, Active
<1>2. CASE ConfigStep(p)
  <2>1. pc' = pc /\ hstep' = hstep /\ Active' = Active
    BY <1>2 DEF ConfigStep, msgVars, Active
  <2>2. CASE ReadConfig(p) \/ CreateTmp(p) \/ WriteTmp(p)
    BY <1>0, <2>1, <2>2 DEF ReadConfig, CreateTmp, WriteTmp, Placed, Saving
  <2>3. CASE SaveOk(p)
    BY <1>0, <2>1, <2>3 DEF SaveOk, Placed, Saving
  <2>4. CASE p \in loaded /\ SaveFails(p)
    BY <1>0, <2>1, <2>4 DEF SaveFails, Placed, Saving
  <2> QED
    BY <1>2, <2>2, <2>3, <2>4 DEF ConfigStep
<1>3. CASE LoadFails(p)
  <2>1. step' = [step EXCEPT ![p] = "off"] /\ loaded' = loaded \ {p}
    BY <1>0, <1>3 DEF LoadFails, ReadFails, SaveFails, Exits, Placed, Saving
  <2> QED
    BY <1>0, <1>3, <2>1 DEF LoadFails, Placed, msgVars, Active
<1>4. CASE AfterLoad(p)
  <2>1. step' = step /\ loaded' = loaded /\ hstep' = hstep
    BY <1>4 DEF AfterLoad, Override, cfgVars, msgVars
  <2>2. pc[p] = "config" /\ pc'[p] \in IF p \in Engine THEN {"look"} ELSE {"bind", "up"}
    BY <1>0, <1>4 DEF AfterLoad, At
  <2> QED
    BY <1>0, <1>4, <2>1, <2>2 DEF AfterLoad, Placed, Active
<1>5. CASE LookAtSocket(p) \/ DialRefused(p) \/ RemoveSocket(p) \/ BindPort(p) \/ Listen(p)
  BY <1>0, <1>5 DEF LookAtSocket, DialRefused, RemoveSocket, BindPort, Listen, At, Placed,
                    Active, cfgVars, msgVars
<1>6. CASE LoadSaved(p)
  BY <1>0, <1>6 DEF LoadSaved, LoadHistory, At, Placed, Active, cfgVars
<1>7. CASE ChangeSetting(p)
  BY <1>0, <1>7 DEF ChangeSetting, Change, Placed, Active, msgVars, Saving
<1>8. CASE RecordMessage(p)
  <2>1. p \in Active' /\ pc' = pc /\ step' = step /\ loaded' = loaded
    BY <1>8 DEF RecordMessage, Active, cfgVars
  <2> QED
    BY <1>0, <2>1 DEF Placed
<1>9. CASE Signal(p) \/ PortCloses(p) \/ CloseListener(p)
  BY <1>0, <1>9 DEF Signal, PortCloses, CloseListener, At, Placed, Active, cfgVars, msgVars
<1>10. CASE Exit(p) \/ Ends(p)
  <2>1. pc'[p] = "off" /\ ConfigStops(p) /\ HistoryStops(p)
    BY <1>0, <1>10 DEF Exit, Ends, At
  <2> QED
    BY <1>0, <2>1 DEF ConfigStops, Exits, HistoryStops, Placed
<1> QED
  BY <1>1, <1>2, <1>3, <1>4, <1>5, <1>6, <1>7, <1>8, <1>9, <1>10 DEF Step

\* The sockets, the port and the counters keep their types.
LEMMA WorldTypes ==
  ASSUME Base, NEW p \in Proc, Step(p)
  PROVE  /\ sock' \in Engine \cup {NoProc, Dead}
         /\ listening' \subseteq Engine
         /\ port' \in Proc \cup {NoProc}
         /\ starts' \in 0 .. MaxStarts
<1>0. /\ sock \in Engine \cup {NoProc, Dead} /\ listening \subseteq Engine
      /\ port \in Proc \cup {NoProc} /\ starts \in 0 .. MaxStarts /\ MaxStarts \in Nat
  BY EnginesAssumption DEF Base, TypeOK
<1>1. CASE Start(p)
  BY <1>0, <1>1 DEF Start
<1>2. CASE Listen(p)
  <2>1. p \in Engine
    BY <1>2 DEF Listen, At, Base, Placed
  <2> QED
    BY <1>0, <1>2, <2>1 DEF Listen
<1>3. CASE ConfigStep(p) \/ LoadFails(p) \/ AfterLoad(p) \/ LookAtSocket(p) \/ DialRefused(p)
           \/ RemoveSocket(p) \/ BindPort(p) \/ LoadSaved(p) \/ ChangeSetting(p)
           \/ RecordMessage(p) \/ Signal(p) \/ PortCloses(p)
  BY <1>0, <1>3 DEF ConfigStep, LoadFails, AfterLoad, LookAtSocket, DialRefused, RemoveSocket,
                    BindPort, LoadSaved, ChangeSetting, RecordMessage, Signal, PortCloses
<1>4. CASE CloseListener(p) \/ Exit(p)
  BY <1>0, <1>4 DEF CloseListener, Exit
<1>5. CASE Ends(p)
  BY <1>0, <1>5 DEF Ends, Releases
<1> QED
  BY <1>1, <1>2, <1>3, <1>4, <1>5 DEF Step

\* Everything of the above holds after any step of any program.
LEMMA BaseKeeps ==
  ASSUME Base, NEW p \in Proc, Step(p), topic' = topic, crossed' = crossed \cup Crossed'
  PROVE  Base'
<1>1. /\ CfgOK' /\ CfgOthers(p) /\ HistOK' /\ HistOthers(p)
      /\ pc' \in [Proc -> {"off", "up", "cancelled", "closed"} \cup Starting]
      /\ \A q \in Proc \ {p} : pc'[q] = pc[q]
      /\ Placed(p)'
  BY PartsKeep, PcMoves, PlacedAfter
<1>2. ASSUME NEW q \in Proc, q # p PROVE Placed(q)'
  <2>1. /\ pc'[q] = pc[q] /\ step'[q] = step[q] /\ hstep'[q] = hstep[q]
        /\ q \in loaded' <=> q \in loaded
    BY <1>1, <1>2 DEF CfgOthers, HistOthers
  <2>2. Placed(q)
    BY DEF Base
  <2> QED
    BY <2>1, <2>2 DEF Placed, Active
<1>3. crossed' \subseteq {"start", "stop"}
  BY DEF Base, TypeOK, Crossed
<1>4. TypeOK'
  BY <1>1, <1>3, WorldTypes DEF Base, TypeOK, CfgOK, HistOK
<1> QED
  BY <1>1, <1>2, <1>4 DEF Base

-----------------------------------------------------------------------------
(* Starts and ends. *)

\* The history variable records what overlaps after a step.
LEMMA CrossAfter ==
  ASSUME crossed' = crossed \cup Crossed'
  PROVE  CrossOK'
<1>1. ASSUME "start" \notin crossed', NEW p \in Entering', NEW q \in Entering', p # q
      PROVE  FALSE
  <2>1. IsFiniteSet(Entering') /\ Cardinality(Entering') \in Nat
    <3>1. Entering' \in SUBSET Proc /\ IsFiniteSet(Proc)
      BY AtomicFileAssumption DEF Entering
    <3> QED
      BY <3>1, FS_Subset, FS_CardinalityType
  <2>2. {p, q} \in SUBSET Entering'
    BY <1>1
  <2>3. Cardinality({p, q}) = 2
    <3>1. IsFiniteSet({p}) /\ Cardinality({p}) = 1
      BY FS_Singleton
    <3>2. Cardinality({p} \cup {q}) = Cardinality({p}) + 1
      BY <1>1, <3>1, FS_AddElement
    <3>3. {p} \cup {q} = {p, q}
      OBVIOUS
    <3> QED
      BY <3>1, <3>2, <3>3
  <2>4. Cardinality(Entering') > 1
    BY <2>1, <2>2, <2>3, FS_Subset
  <2> QED
    BY <1>1, <2>4 DEF Crossed
<1>2. "stop" \notin crossed' => Leaving' = {} \/ Entering' \subseteq Leaving'
  BY DEF Crossed
<1> QED
  BY <1>1, <1>2 DEF CrossOK

\* Server.Start binds the port of one engine at a time.
LEMMA PortKeeps ==
  ASSUME Base, CrossOK, CrossOK', PortOK, NEW p \in Proc, Step(p), crossed \subseteq crossed'
  PROVE  PortOK'
<1>0. /\ pc \in [Proc -> {"off", "up", "cancelled", "closed"} \cup Starting]
      /\ Engine \subseteq Proc /\ NoProc \notin Proc /\ Placed(p)
  BY EnginesAssumption DEF Base, TypeOK
<1>1. \A q \in Proc \ {p} : pc'[q] = pc[q]
  BY PcMoves
<1> DEFINE Holds == {"history", "listen", "up"}
           Late == {"history", "listen", "up", "cancelled", "closed"}
<1>2. /\ pc'[p] \in Holds /\ p \in Engine => port' = p
      /\ \A q \in Engine \ {p} : pc[q] \in Holds => port' = port
  <2>1. CASE Start(p)
    BY <1>0, <2>1 DEF Start, At
  <2>2. CASE ConfigStep(p) \/ RecordMessage(p) \/ ChangeSetting(p)
    BY <1>0, <2>2 DEF ConfigStep, RecordMessage, ChangeSetting, PortOK
  <2>3. CASE LoadFails(p)
    BY <1>0, <2>3 DEF LoadFails
  <2>4. CASE AfterLoad(p)
    BY <1>0, <2>4 DEF AfterLoad, At
  <2>5. CASE LookAtSocket(p) \/ DialRefused(p) \/ RemoveSocket(p)
    BY <1>0, <2>5 DEF LookAtSocket, DialRefused, RemoveSocket, At
  <2>6. CASE BindPort(p)
    BY <1>0, <2>6 DEF BindPort, At, PortOK
  <2>7. CASE LoadSaved(p) \/ Listen(p)
    BY <1>0, <2>7 DEF LoadSaved, Listen, At, PortOK
  <2>8. CASE Signal(p) \/ CloseListener(p)
    BY <1>0, <2>8 DEF Signal, CloseListener, At
  <2>9. CASE PortCloses(p) \/ Exit(p) \/ Ends(p)
    BY <1>0, <2>9 DEF PortCloses, Exit, Ends, Releases, At, PortOK
  <2> QED
    BY <2>1, <2>2, <2>3, <2>4, <2>5, <2>6, <2>7, <2>8, <2>9 DEF Step
<1>3. \A q \in Engine : pc'[q] \in Holds => port' = q
  BY <1>0, <1>1, <1>2 DEF PortOK
<1>4. ASSUME "stop" \notin crossed', NEW q \in Leaving', NEW r \in Engine, pc'[r] \in Late, q # r
      PROVE  FALSE
  <2>0. /\ "stop" \notin crossed /\ q \in Proc /\ r \in Proc
        /\ pc'[q] \in {"cancelled", "closed"}
    BY <1>0, <1>4 DEF Leaving
  <2>1. ~ (pc'[r] \in Starting)
    <3>1. Entering' \subseteq Leaving'
      BY <1>4 DEF CrossOK
    <3> QED
      BY <2>0, <3>1 DEF Entering, Leaving, Starting
  <2>2. CASE p # q /\ p # r
    BY <1>0, <1>1, <1>4, <2>0, <2>2 DEF PortOK, Leaving
  <2>3. CASE p = r
    <3>1. q \in Leaving
      BY <1>1, <1>4, <2>0, <2>3 DEF Leaving
    <3>2. pc[r] \notin Late
      BY <1>4, <2>0, <3>1 DEF PortOK
    <3>3. pc'[r] \notin {"up", "cancelled", "closed"}
      BY <1>0, <1>4, <2>3, <3>2
        DEF Step, Start, ConfigStep, LoadFails, AfterLoad, LookAtSocket, DialRefused,
            RemoveSocket, BindPort, LoadSaved, Listen, ChangeSetting, RecordMessage,
            Signal, PortCloses, CloseListener, Exit, Ends, At, Starting
    <3> QED
      BY <1>4, <2>1, <3>3 DEF Starting
  <2>4. CASE p = q
    <3>1. pc[r] \in Late
      BY <1>1, <1>4, <2>0, <2>4
    <3>2. q \notin Leaving
      BY <1>4, <2>0, <3>1 DEF PortOK
    <3>3. pc[q] = "up" /\ q \in Engine
      BY <1>0, <2>0, <2>4, <3>2
        DEF Step, Start, ConfigStep, LoadFails, AfterLoad, LookAtSocket, DialRefused,
            RemoveSocket, BindPort, LoadSaved, Listen, ChangeSetting, RecordMessage,
            Signal, PortCloses, CloseListener, Exit, Ends, At, Starting, Leaving
    <3>4. port = q
      BY <3>3 DEF PortOK
    <3>5. pc[r] \in {"cancelled", "closed"}
      BY <1>4, <3>1, <3>4 DEF PortOK
    <3>6. r \in Leaving
      BY <2>0, <3>5 DEF Leaving
    <3> QED
      BY <1>4, <2>0, <3>3, <3>6 DEF PortOK
  <2> QED
    BY <2>2, <2>3, <2>4
<1> QED
  BY <1>3, <1>4 DEF PortOK

\* prepareSocket removes no socket of an engine that is up.
LEMMA SocketKeeps ==
  ASSUME Base, CrossOK, SocketOK, NEW p \in Proc, Step(p), crossed \subseteq crossed'
  PROVE  SocketOK'
<1>0. /\ pc \in [Proc -> {"off", "up", "cancelled", "closed"} \cup Starting]
      /\ Engine \subseteq Proc /\ NoProc \notin Proc /\ Dead \notin Proc \cup {NoProc} /\ Placed(p)
      /\ listening \subseteq Engine
  BY EnginesAssumption DEF Base, TypeOK
<1>1. \A q \in Proc \ {p} : pc'[q] = pc[q]
  BY PcMoves
<1> SUFFICES ASSUME crossed' = {}, NEW e \in Engine, pc'[e] = "up"
             PROVE  /\ sock' = e /\ e \in listening'
                    /\ \A q \in Proc : pc'[q] \notin {"remove", "cancelled", "closed"}
  BY DEF SocketOK
<1>2. crossed = {} /\ e \in Proc
  BY <1>0
<1>3. CASE pc[e] = "up"
  <2>1. /\ sock = e /\ e \in listening
        /\ \A q \in Proc : pc[q] \notin {"remove", "cancelled", "closed"}
        /\ \A q \in Engine : pc[q] = "up" => q = e
    BY <1>2, <1>3 DEF SocketOK
  <2>2. /\ sock' = e /\ e \in listening'
        /\ pc'[p] \notin {"remove", "cancelled", "closed"}
    <3>1. CASE Start(p) \/ ConfigStep(p) \/ LoadFails(p) \/ RecordMessage(p) \/ ChangeSetting(p)
      BY <1>0, <2>1, <3>1 DEF Start, ConfigStep, LoadFails, RecordMessage, ChangeSetting, At
    <3>2. CASE AfterLoad(p)
      BY <1>0, <2>1, <3>2 DEF AfterLoad, At
    <3>3. CASE LookAtSocket(p) \/ BindPort(p) \/ LoadSaved(p)
      BY <1>0, <2>1, <3>3 DEF LookAtSocket, BindPort, LoadSaved, At
    <3>4. CASE DialRefused(p) \/ RemoveSocket(p) \/ Listen(p)
      BY <1>0, <1>2, <2>1, <3>4 DEF DialRefused, RemoveSocket, Listen, At
    <3>5. CASE Signal(p)
      <4>1. p = e /\ pc'[e] = "cancelled"
        BY <1>0, <2>1, <3>5 DEF Signal, At
      <4> QED
        BY <4>1
    <3>6. CASE PortCloses(p) \/ CloseListener(p) \/ Exit(p)
      BY <1>0, <2>1, <3>6 DEF PortCloses, CloseListener, Exit, At
    <3>7. CASE Ends(p)
      <4>1. p # e
        BY <1>0, <3>7 DEF Ends
      <4> QED
        BY <1>0, <2>1, <3>7, <4>1 DEF Ends, Releases
    <3> QED
      BY <3>1, <3>2, <3>3, <3>4, <3>5, <3>6, <3>7 DEF Step
  <2> QED
    BY <1>1, <2>1, <2>2
<1>4. CASE pc[e] # "up"
  <2>1. p = e /\ Listen(p)
    <3>1. p = e
      BY <1>1, <1>2, <1>4
    <3> QED
      BY <1>0, <1>2, <1>4, <3>1
        DEF Step, Start, ConfigStep, LoadFails, AfterLoad, LookAtSocket, DialRefused,
            RemoveSocket, BindPort, LoadSaved, ChangeSetting, RecordMessage,
            Signal, PortCloses, CloseListener, Exit, Ends, At
  <2>2. e \in Entering /\ e \notin Leaving
    BY <1>0, <1>2, <2>1 DEF Listen, At, Entering, Leaving, Starting
  <2>3. Leaving = {} /\ \A q \in Entering : q = e
    BY <1>2, <2>2 DEF CrossOK
  <2>4. \A q \in Proc : pc'[q] \notin {"remove", "cancelled", "closed"}
    <3>1. ASSUME NEW q \in Proc, q # e PROVE pc[q] \notin {"remove", "cancelled", "closed"}
      BY <2>3, <3>1 DEF Entering, Leaving, Starting
    <3> QED
      BY <1>1, <2>1, <3>1
  <2> QED
    BY <2>1, <2>4 DEF Listen
<1> QED
  BY <1>3, <1>4

-----------------------------------------------------------------------------
(* The theorems. *)

\* Nothing has happened yet, and a first run finds no file.
LEMMA InitIInv == Init => IInv
<1> SUFFICES ASSUME Init PROVE IInv
  OBVIOUS
<1>1. /\ Clean \in FileType(Settings) /\ Clean \in FileType(SUBSET Msg)
      /\ Clean.path = NoIno /\ Clean.temp = NoIno
      /\ \A i \in Ino : Clean.data[i] = Empty
      /\ \A p \in Proc : Clean.held[p] = NoIno
  BY CleanIs
<1>2. ConfigInit /\ HistoryInit /\ Recorded = {}
  BY DEF Init, HistoryInit, Recorded
<1>3. CfgOK
  BY <1>1, <1>2, ConfigStoreAssumption DEF ConfigInit, CfgOK, ConfigTypeOK
<1>4. HistOK
  <2>1. HistoryTypeOK
    BY <1>1, <1>2, MessageHistoryAssumption DEF HistoryInit, HistoryTypeOK
  <2>2. Recorded = 1 .. 0 /\ 0 \in 0 .. MaxMessages
    BY <1>2, MessageHistoryAssumption
  <2>3. NumbersOK
    BY <1>1, <1>2, <2>2 DEF HistoryInit, NumbersOK
  <2> QED
    BY <1>1, <1>2, <2>1, <2>3 DEF HistoryInit, HistOK
<1>5. Base
  <2>1. TypeOK
    BY <1>3, <1>4, EnginesAssumption DEF Init, TypeOK, CfgOK, HistOK
  <2> QED
    BY <1>2, <1>3, <1>4, <2>1 DEF Init, ConfigInit, HistoryInit, Base, Placed
<1>6. Entering = {} /\ Leaving = {}
  BY <1>2 DEF Init, ConfigInit, Entering, Leaving, Starting, Saving
<1>7. CrossOK /\ PortOK /\ SocketOK
  BY <1>6, EnginesAssumption DEF Init, CrossOK, PortOK, SocketOK
<1>8. SettingsOK
  BY <1>1, <1>2 DEF ConfigInit, SettingsOK, FileOK, SaveOK, Saving
<1>9. HistorySafe
  BY <1>1, <1>2 DEF HistoryInit, HistorySafe, FileOK, SaveOK
<1> QED
  BY <1>5, <1>7, <1>8, <1>9 DEF IInv

\* While programs start and save one after the other, no step harms the settings.
LEMMA SettingsStepKeeps ==
  ASSUME IInv, NEW p \in Proc, Step(p), "start" \notin crossed
  PROVE  SettingsOK'
<1>1. CfgOK /\ SettingsOK
  BY DEF IInv, Base
<1>2. ASSUME UNCHANGED cfgVars PROVE SettingsOK'
  BY <1>1, <1>2 DEF cfgVars, SettingsOK, FileOK, SaveOK, Content
<1>3. \A q \in Proc : step[p] \in Saving /\ step[q] \in Saving => q = p
  BY DEF IInv, CrossOK, Entering
<1>4. CfgStep(p) \/ UNCHANGED cfgVars
  BY StepParts DEF IInv
<1> QED
  BY <1>1, <1>2, <1>3, <1>4, SettingsKeep

\* While no engine starts before an earlier one has ended, no step loses a
\* message that is due.
LEMMA HistoryStepKeeps ==
  ASSUME IInv, NEW p \in Proc, Step(p), "stop" \notin crossed
  PROVE  HistorySafe'
<1>0. /\ HistOK /\ HistorySafe /\ Placed(p)
      /\ pc \in [Proc -> {"off", "up", "cancelled", "closed"} \cup Starting]
      /\ Engine \subseteq Proc
      /\ \A q \in Proc : hstep[q] # "idle" => q \in Active
  BY EnginesAssumption DEF IInv, Base, TypeOK, Placed
<1>1. \A q \in Proc \ {p} : pc'[q] = pc[q]
  BY PcMoves DEF IInv
<1>2. \A q, r \in Active : q = r
  <2> SUFFICES ASSUME NEW q \in Active, NEW r \in Active PROVE q = r
    OBVIOUS
  <2>1. CASE q \in Leaving
    BY <2>1 DEF IInv, PortOK, Active
  <2>2. CASE r \in Leaving
    BY <2>2 DEF IInv, PortOK, Active
  <2>3. CASE q \notin Leaving /\ r \notin Leaving
    BY <1>0, <2>3 DEF IInv, PortOK, Active, Leaving
  <2> QED
    BY <2>1, <2>2, <2>3
<1>3. \A q \in Active' : q # p => q \in Active
  BY <1>0, <1>1 DEF Active
<1>4. \/ LoadHistory(p) /\ p \notin Active
      \/ (Record(p) \/ SaveHistory(p) \/ SaveHistoryFails(p)) /\ p \in Active
      \/ HistoryStops(p) /\ p \notin Active'
      \/ UNCHANGED msgVars /\ (p \in Active' => p \in Active)
  <2>1. CASE Start(p)
    BY <1>0, <2>1 DEF Start, At, Active
  <2>2. CASE ConfigStep(p) \/ LoadFails(p) \/ AfterLoad(p)
    BY <1>0, <2>2 DEF ConfigStep, LoadFails, AfterLoad, At, Active
  <2>3. CASE LookAtSocket(p) \/ DialRefused(p) \/ RemoveSocket(p) \/ BindPort(p) \/ Listen(p)
    BY <1>0, <2>3 DEF LookAtSocket, DialRefused, RemoveSocket, BindPort, Listen, At, Active
  <2>4. CASE LoadSaved(p)
    BY <1>0, <2>4 DEF LoadSaved, At, Active
  <2>5. CASE ChangeSetting(p)
    BY <1>0, <2>5 DEF ChangeSetting, Active
  <2>6. CASE RecordMessage(p)
    BY <2>6 DEF RecordMessage, Active
  <2>7. CASE Signal(p) \/ PortCloses(p) \/ CloseListener(p)
    BY <1>0, <2>7 DEF Signal, PortCloses, CloseListener, At, Active
  <2>8. CASE Exit(p) \/ Ends(p)
    BY <1>0, <2>8 DEF Exit, Ends, At, Active
  <2> QED
    BY <2>1, <2>2, <2>3, <2>4, <2>5, <2>6, <2>7, <2>8 DEF Step
<1>5. ASSUME UNCHANGED msgVars, p \in Active' => p \in Active
      PROVE  HistorySafe'
  <2>1. Active' \subseteq Active
    BY <1>3, <1>5
  <2>2. Recorded' = Recorded /\ \A m : Due(m)' = Due(m)
    BY <1>5 DEF msgVars, Recorded, Due, Expired
  <2> QED
    BY <1>0, <1>5, <2>1, <2>2 DEF msgVars, HistorySafe, FileOK, SaveOK
<1> QED
  BY <1>0, <1>2, <1>3, <1>4, <1>5, HistoryKeeps

\* Time makes messages expire, and nothing else.
LEMMA TickKeeps ==
  ASSUME IInv, Tick, UNCHANGED <<cfgVars, pc, sock, listening, port, starts>>,
         crossed' = crossed \cup Crossed', topic' = topic
  PROVE  IInv'
<1>0. /\ now \in Nat /\ now' = now + 1 /\ now' \in 1 .. LastTime /\ crossed \subseteq crossed'
      /\ UNCHANGED <<msgFile, messages, hstep, stamp, safe>>
      /\ stamp \in [Msg -> 0 .. LastTime]
      /\ safe \subseteq Recorded
  BY MessageHistoryAssumption DEF Tick, IInv, Base, HistOK, HistoryTypeOK
<1>1. Recorded' = Recorded
  BY <1>0 DEF Recorded
<1>2. HistOK'
  BY <1>0, <1>1 DEF IInv, Base, HistOK, HistoryTypeOK, NumbersOK
<1>3. CfgOK'
  BY DEF IInv, Base, CfgOK, ConfigTypeOK, cfgVars
<1>4. crossed' \subseteq {"start", "stop"}
  BY DEF IInv, Base, TypeOK, Crossed
<1>5. TypeOK'
  BY <1>2, <1>3, <1>4 DEF IInv, Base, TypeOK, CfgOK, HistOK
<1>6. Base'
  BY <1>0, <1>2, <1>3, <1>5 DEF IInv, Base, Placed, Active, cfgVars
<1>7. CrossOK'
  BY CrossAfter
<1>8. PortOK' /\ SocketOK'
  BY <1>0 DEF IInv, PortOK, SocketOK, Leaving
<1>9. "start" \notin crossed' => SettingsOK'
  BY <1>0 DEF IInv, SettingsOK, FileOK, SaveOK, Content, cfgVars
<1>10. ASSUME "stop" \notin crossed' PROVE HistorySafe'
  <2>1. HistorySafe
    BY <1>0, <1>10 DEF IInv
  <2>2. ASSUME NEW m \in safe, Due(m)' PROVE Due(m)
    <3>1. HistOK /\ HistoryTypeOK' /\ m \in Recorded /\ now <= now'
      BY <1>0, <1>2 DEF IInv, Base, HistOK
    <3> QED
      BY <1>0, <1>1, <2>2, <3>1, DueBefore
  <2>3. Active' = Active
    BY DEF Active
  <2> QED
    BY <1>0, <2>1, <2>2, <2>3 DEF HistorySafe, FileOK, SaveOK
<1> QED
  BY <1>6, <1>7, <1>8, <1>9, <1>10 DEF IInv

\* The inductive invariant holds always.
THEOREM EnginesInvariant == Spec => []IInv
<1>1. Init => IInv
  BY InitIInv
<1>2. IInv /\ [Next]_vars => IInv'
  <2> SUFFICES ASSUME IInv, [Next]_vars PROVE IInv'
    OBVIOUS
  <2>1. ASSUME NEW p \in Proc, Step(p), crossed' = crossed \cup Crossed', topic' = topic
        PROVE  IInv'
    <3>1. Base /\ CrossOK /\ PortOK /\ SocketOK /\ crossed \subseteq crossed'
      BY <2>1 DEF IInv
    <3>2. Base'
      BY <2>1, <3>1, BaseKeeps
    <3>3. CrossOK'
      BY <2>1, CrossAfter
    <3>4. PortOK' /\ SocketOK'
      BY <2>1, <3>1, <3>3, PortKeeps, SocketKeeps
    <3>5. "start" \notin crossed' => SettingsOK'
      BY <2>1, <3>1, SettingsStepKeeps
    <3>6. "stop" \notin crossed' => HistorySafe'
      BY <2>1, <3>1, HistoryStepKeeps
    <3> QED
      BY <3>2, <3>3, <3>4, <3>5, <3>6 DEF IInv
  <2>2. ASSUME Tick, UNCHANGED <<cfgVars, pc, sock, listening, port, starts>>,
               crossed' = crossed \cup Crossed', topic' = topic
        PROVE  IInv'
    BY <2>2, TickKeeps
  <2>3. CASE UNCHANGED vars
    <3>1. UNCHANGED cfgVars /\ UNCHANGED msgVars /\ UNCHANGED lifeVars
      BY <2>3 DEF vars
    <3>2. Base'
      BY <3>1 DEF IInv, Base, TypeOK, CfgOK, ConfigTypeOK, HistOK, HistoryTypeOK, NumbersOK,
                  Recorded, Placed, Active, cfgVars, msgVars, lifeVars
    <3>3. CrossOK' /\ PortOK' /\ SocketOK'
      BY <3>1 DEF IInv, CrossOK, PortOK, SocketOK, Entering, Leaving, cfgVars, lifeVars
    <3>4. "start" \notin crossed' => SettingsOK'
      BY <3>1 DEF IInv, SettingsOK, FileOK, SaveOK, Content, cfgVars, lifeVars
    <3>5. "stop" \notin crossed' => HistorySafe'
      BY <3>1 DEF IInv, HistorySafe, FileOK, SaveOK, Due, Expired, Recorded, Active,
                  msgVars, lifeVars
    <3> QED
      BY <3>2, <3>3, <3>4, <3>5 DEF IInv
  <2> QED
    BY <2>1, <2>2, <2>3 DEF Next
<1> QED
  BY <1>1, <1>2, PTL DEF Spec

\* Whatever programs there are and however they start, save, end and crash,
\* their files, sockets, ports and histories keep their types.
THEOREM TypeCorrect == Spec => []TypeOK
<1>1. IInv => TypeOK
  BY DEF IInv, Base
<1> QED
  BY <1>1, EnginesInvariant, PTL

\* Save's temporary file and rename keep config.json whole and every program's
\* identity the one in it, through crashes and failed writes, while no two
\* programs load or save at once.
THEOREM SettingsAreSafe == Spec => []SettingsSafe
<1>1. IInv => SettingsSafe
  <2> SUFFICES ASSUME IInv, crossed = {}
               PROVE  /\ Readable(cfgFile)
                      /\ \A p \in loaded : /\ Content(cfgFile) # NoFile
                                           /\ mem[p].id = Content(cfgFile).id
    BY DEF SettingsSafe
  <2>1. SettingsOK /\ loaded \subseteq Proc
    BY DEF IInv, Base, CfgOK, ConfigTypeOK
  <2>2. cfgFile.path # NoIno => Content(cfgFile) \in Settings
    BY <2>1 DEF SettingsOK, FileOK, Content
  <2>3. cfgFile.path = NoIno => Content(cfgFile) = NoFile
    BY DEF Content
  <2>4. Readable(cfgFile)
    BY <2>2, <2>3, ConfigStoreAssumption, AtomicFileAssumption DEF Readable
  <2>5. ASSUME NEW p \in loaded
        PROVE  Content(cfgFile) # NoFile /\ mem[p].id = Content(cfgFile).id
    <3>1. p \in Proc /\ cfgFile.path # NoIno
      BY <2>1 DEF SettingsOK
    <3> QED
      BY <2>1, <2>2, <3>1, ConfigStoreAssumption DEF SettingsOK
  <2> QED
    BY <2>4, <2>5
<1> QED
  BY <1>1, EnginesInvariant, PTL

\* prepareSocket and Server.Start leave the engine that is up with the control
\* socket, whatever earlier engines left behind, while no start overlaps
\* another start or an end.
THEOREM UpIsReached == Spec => []UpIsReachable
<1>1. IInv => UpIsReachable
  BY DEF IInv, SocketOK, UpIsReachable
<1> QED
  BY <1>1, EnginesInvariant, PTL

\* recordMessage, its save and loadSavedMessages lose no saved message that is
\* neither too old nor beyond the cap, even if engines start at the same time.
THEOREM SavedMessagesAreKept == Spec => []SavedIsKept
<1>1. IInv => SavedIsKept
  BY DEF IInv, HistorySafe, SavedIsKept, Active
<1> QED
  BY <1>1, EnginesInvariant, PTL
=============================================================================
