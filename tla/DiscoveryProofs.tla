-------------------------- MODULE DiscoveryProofs ---------------------------
(***************************************************************************)
(* Theorems about Discovery, for any number of devices, goroutines and     *)
(* clients, any addresses, and any capacities of the table and of the      *)
(* channel.                                                                *)
(***************************************************************************)
EXTENDS Discovery, FiniteSetTheorems, TLAPS

-----------------------------------------------------------------------------
(* The inductive invariant. *)

Event ==
  {ev \in [kind : {"found", "lost"}, device : Device, entry : Entry \cup {None}] :
     ev.kind = "found" => ev.entry \in Entry}

\* TypeOK, with what is in the channel.  Devices may be infinitely many, those
\* in the table are not.
DataOK ==
  /\ TypeOK
  /\ IsFiniteSet(Known)
  /\ events \in Seq(Event)

\* A goroutine tells of one sighting before it takes up the next.
HandOK == \A g \in Goroutine : hand[g] = None \/ tell[g] = None

Told(d) == \E g \in Goroutine : tell[g] # None /\ tell[g].device = d

Seen(d) == IF peers[d] = None THEN None ELSE peers[d].ip

\* The terminal program has no socket.
SocketOK == program = "tui" => members = {} /\ \A t \in Teller : ~Holding(t)

\* The pump will read the table once more: it has begun to, or will read an
\* event, which is in the channel or about to be put there.  Which one does not
\* matter, so that one dropped from a full channel is not missed.
Pending(d) ==
  \/ events # <<>>
  \/ d \in lost
  \/ Told(d)
  \/ at[Pump] = "read"

\* What was read of a device since the pump's last read is what the table has,
\* and the clients show that, once the pump has told them.
Fresh(d) ==
  /\ \A t \in Teller \ older : Holding(t) => snap[t][d] = Seen(d)
  /\ at[Pump] # "tell" => \A c \in Served \ late : shown[c][d] = Seen(d)

ViewOK == \A d \in Device : Pending(d) \/ Fresh(d)

IInv ==
  /\ DataOK
  /\ HandOK
  /\ SocketOK
  /\ ViewOK

-----------------------------------------------------------------------------
(* The channel and the table. *)

\* Whatever is emitted, the channel is not empty afterwards.
LEMMA EmitStep ==
  ASSUME DataOK, NEW kind \in {"found", "lost"}, NEW d \in Device,
         NEW e \in Entry \cup {None}, kind = "found" => e \in Entry,
         Emit(kind, d, e)
  PROVE  /\ events' \in Seq(Event)
         /\ Len(events') <= EventCap
         /\ events' # <<>>
<1>1. events \in Seq(Event) /\ Len(events) <= EventCap /\ Len(events) \in Nat
  BY DEF DataOK, TypeOK
<1>. DEFINE ev == [kind |-> kind, device |-> d, entry |-> e]
<1>2. ev \in Event
  BY DEF Event
<1>. HIDE DEF ev
<1>3. CASE Fits
  <2>1. events' = Append(events, ev)
    BY <1>3 DEF Emit, ev
  <2>2. Len(events) < EventCap
    BY <1>3 DEF Fits
  <2>3. events' \in Seq(Event) /\ Len(events') = Len(events) + 1
    BY <1>1, <1>2, <2>1
  <2>. QED
    BY <1>1, <2>2, <2>3, DiscoveryAssumption
<1>4. CASE ~Fits
  <2>1. events' = events
    BY <1>4 DEF Emit
  <2>2. Len(events) # 0
    BY <1>1, <1>4, DiscoveryAssumption DEF Fits
  <2>. QED
    BY <1>1, <2>1, <2>2
<1>. QED
  BY <1>3, <1>4

\* The head of the channel is an event, and the rest are events.
LEMMA TakeStep ==
  ASSUME DataOK, events # <<>>, events' = Tail(events)
  PROVE  /\ Head(events) \in Event
         /\ events' \in Seq(Event)
         /\ Len(events') <= EventCap
<1>1. events \in Seq(Event) /\ Len(events) <= EventCap /\ Len(events) \in Nat
  BY DEF DataOK, TypeOK
<1>2. /\ Head(events) \in Event /\ Tail(events) \in Seq(Event)
      /\ Len(Tail(events)) = Len(events) - 1
  BY <1>1
<1>. QED
  BY <1>1, <1>2, DiscoveryAssumption

\* A table into which one device may come, if there is room or it is there.
LEMMA TableGrows ==
  ASSUME NEW d, IsFiniteSet(Known), Cardinality(Known) <= MaxPeers,
         Admits(d), Known' \subseteq Known \cup {d}
  PROVE  IsFiniteSet(Known') /\ Cardinality(Known') <= MaxPeers
<1>1. Cardinality(Known) \in Nat
  BY FS_CardinalityType
<1>2. IsFiniteSet(Known \cup {d})
  BY FS_AddElement
<1>3. Cardinality(Known \cup {d}) <= MaxPeers
  <2>1. CASE d \in Known
    <3>1. Known \cup {d} = Known
      BY <2>1
    <3>. QED BY <3>1
  <2>2. CASE d \notin Known
    <3>1. Cardinality(Known) < MaxPeers
      BY <2>2 DEF Admits
    <3>2. Cardinality(Known \cup {d}) = Cardinality(Known) + 1
      BY <2>2, FS_AddElement
    <3>. QED BY <1>1, <3>1, <3>2, DiscoveryAssumption
  <2>. QED BY <2>1, <2>2
<1>4. IsFiniteSet(Known') /\ Cardinality(Known') <= Cardinality(Known \cup {d})
  BY <1>2, FS_Subset
<1>5. Cardinality(Known') \in Nat /\ Cardinality(Known \cup {d}) \in Nat
  BY <1>2, <1>4, FS_CardinalityType
<1>. QED
  BY <1>3, <1>4, <1>5, DiscoveryAssumption

\* A table from which devices go.
LEMMA TableShrinks ==
  ASSUME IsFiniteSet(Known), Cardinality(Known) <= MaxPeers, Known' \subseteq Known
  PROVE  IsFiniteSet(Known') /\ Cardinality(Known') <= MaxPeers
<1>1. IsFiniteSet(Known') /\ Cardinality(Known') <= Cardinality(Known)
  BY FS_Subset
<1>2. Cardinality(Known') \in Nat /\ Cardinality(Known) \in Nat
  BY <1>1, FS_CardinalityType
<1>. QED
  BY <1>1, <1>2, DiscoveryAssumption

-----------------------------------------------------------------------------
(* What the clients are told. *)

LEMMA TellerFacts ==
  /\ Pump \in Teller /\ Client \subseteq Teller /\ Asker \subseteq Teller
  /\ Pump \notin Client /\ Pump \notin Asker
BY DiscoveryAssumption DEF Teller

\* peersEvent tells of each device what the table has.
LEMMA SnapshotIs ==
  ASSUME DataOK
  PROVE  Snapshot \in View /\ \A d \in Device : Snapshot[d] = Seen(d)
BY DEF DataOK, TypeOK, Snapshot, View, Seen, Entry

\* While no teller moves, what is fresh stays fresh of a device whose entry
\* stays.
LEMMA FreshStays ==
  ASSUME NEW d, Fresh(d), UNCHANGED tellVars, Seen(d)' = Seen(d)
  PROVE  Fresh(d)'
BY DEF Fresh, tellVars, Holding, Served

LEMMA SocketStays ==
  ASSUME SocketOK, UNCHANGED <<program, tellVars>>
  PROVE  SocketOK'
BY DEF SocketOK, tellVars, Holding

\* Any step of a teller but a read of the pump leaves what is pending pending.
LEMMA PendingStays ==
  ASSUME NEW d, Pending(d), UNCHANGED <<events, lost, tell>>,
         at[Pump] = "read" => at'[Pump] = "read"
  PROVE  Pending(d)'
BY DEF Pending, Told

-----------------------------------------------------------------------------
(* The initial states, and one lemma per action. *)

\* An empty table, and nobody told.
LEMMA InitIInv == Init => IInv
<1>. SUFFICES ASSUME Init PROVE IInv
  OBVIOUS
<1>1. Known = {}
  BY DEF Init, Known
<1>2. IsFiniteSet(Known) /\ Cardinality(Known) = 0
  BY <1>1, FS_EmptySet
<1>3. events = <<>> /\ events \in Seq(Event) /\ Len(events) = 0
  BY DEF Init
<1>4. Blank \in View
  BY DEF Blank, View
<1>5. TypeOK
  BY <1>2, <1>3, <1>4, DiscoveryAssumption DEF Init, TypeOK
<1>6. \A t \in Teller : ~Holding(t)
  BY DEF Init, Holding
<1>7. members = {} /\ Served = {}
  BY DEF Init, Served
<1>8. SocketOK /\ ViewOK
  BY <1>6, <1>7 DEF SocketOK, ViewOK, Fresh
<1>. QED
  BY <1>2, <1>3, <1>5, <1>8 DEF Init, IInv, DataOK, HandOK

\* A goroutine takes up a sighting: nothing that is told changes.
LEMMA HearIInv ==
  ASSUME IInv, NEW g \in Goroutine, NEW d \in Device, NEW ip \in Ip, Hear(g, d, ip)
  PROVE  IInv'
<1>1. [device |-> d, entry |-> [ip |-> ip, port |-> listens[d]]] \in Sighting
  BY DEF IInv, DataOK, TypeOK, Sighting, Entry
<1>2. Known' = Known
  BY DEF Hear, tableVars, Known
<1>3. UNCHANGED <<worldVars, tableVars, tell, lost, viewVars>>
  BY DEF Hear
<1>4. TypeOK'
  BY <1>1, <1>2, <1>3 DEF IInv, DataOK, TypeOK, Hear, worldVars, tableVars, viewVars, tellVars
<1>5. DataOK'
  BY <1>2, <1>3, <1>4 DEF IInv, DataOK, viewVars
<1>6. HandOK'
  BY DEF IInv, HandOK, DataOK, TypeOK, Hear
<1>7. SocketOK'
  BY <1>3, SocketStays DEF IInv, worldVars, viewVars
<1>8. \A c \in Device : Seen(c)' = Seen(c) /\ (Pending(c) => Pending(c)')
  BY <1>3 DEF Seen, Pending, Told, tableVars, viewVars, tellVars
<1>9. ViewOK'
  BY <1>3, <1>8, FreshStays DEF IInv, ViewOK, viewVars
<1>. QED
  BY <1>5, <1>6, <1>7, <1>9 DEF IInv

\* What a goroutine notes is an entry, and is told if it changes what a client
\* would be told.
LEMMA NoteIInv ==
  ASSUME IInv, NEW g \in Goroutine, Note(g)
  PROVE  IInv'
<1>. DEFINE d == hand[g].device
            e == Address(d, hand[g].entry)
<1>1. hand[g] \in Sighting /\ tell[g] = None
  BY DEF IInv, DataOK, TypeOK, HandOK, Note
<1>2. d \in Device /\ e \in Entry
  BY <1>1 DEF IInv, DataOK, TypeOK, Sighting, Address, Entry
<1>3. UNCHANGED <<worldVars, lost, viewVars>>
  BY DEF Note
<1>4. SocketOK'
  BY <1>3, SocketStays DEF IInv, worldVars, viewVars
<1>. HIDE DEF d, e
<1>5. CASE Admits(d)
  <2>1. /\ peers' = [peers EXCEPT ![d] = e]
        /\ age' = [age EXCEPT ![d] = 0]
        /\ tell' = [tell EXCEPT ![g] = IF Changed(d, e)
                                       THEN [device |-> d, entry |-> e] ELSE None]
        /\ hand' = [hand EXCEPT ![g] = None]
    BY <1>5 DEF Note, d, e
  <2>2. e # None /\ [device |-> d, entry |-> e] \in Sighting
        /\ [device |-> d, entry |-> e] # None
    BY <1>2, DiscoveryAssumption DEF Sighting
  <2>3. Known' \subseteq Known \cup {d}
    BY <2>1 DEF IInv, DataOK, TypeOK, Known
  <2>4. IsFiniteSet(Known') /\ Cardinality(Known') <= MaxPeers
    BY <1>5, <2>3, TableGrows DEF IInv, DataOK, TypeOK
  <2>5. TypeOK'
    BY <1>2, <1>3, <2>1, <2>2, <2>4, DiscoveryAssumption
       DEF IInv, DataOK, TypeOK, worldVars, viewVars, tellVars
  <2>6. DataOK'
    BY <1>3, <2>4, <2>5 DEF IInv, DataOK, viewVars
  <2>7. HandOK'
    BY <2>1 DEF IInv, DataOK, TypeOK, HandOK
  <2>8. ViewOK'
    <3>. SUFFICES ASSUME NEW c \in Device PROVE Pending(c)' \/ Fresh(c)'
      BY DEF ViewOK
    <3>1. Told(c) => Told(c)'
      BY <1>1, <2>1 DEF Told, IInv, DataOK, TypeOK
    <3>2. Pending(c) => Pending(c)'
      BY <1>3, <3>1 DEF Pending, viewVars, tellVars
    <3>3. CASE c # d \/ ~Changed(d, e)
      <4>1. Seen(c)' = Seen(c)
        BY <1>2, <2>1, <2>2, <3>3 DEF Seen, Changed, IInv, DataOK, TypeOK
      <4>. QED
        BY <1>3, <3>2, <4>1, FreshStays DEF IInv, ViewOK, viewVars
    <3>4. CASE c = d /\ Changed(d, e)
      <4>1. tell'[g] # None /\ tell'[g].device = d
        BY <2>1, <2>2, <3>4 DEF IInv, DataOK, TypeOK
      <4>. QED
        BY <3>4, <4>1 DEF Told, Pending
    <3>. QED
      BY <3>3, <3>4
  <2>. QED
    BY <1>4, <2>6, <2>7, <2>8 DEF IInv
<1>6. CASE ~Admits(d)
  <2>1. /\ UNCHANGED <<peers, age, tell>>
        /\ hand' = [hand EXCEPT ![g] = None]
    BY <1>6 DEF Note, d
  <2>2. Known' = Known
    BY <2>1 DEF Known
  <2>3. TypeOK'
    BY <1>3, <2>1, <2>2 DEF IInv, DataOK, TypeOK, worldVars, viewVars, tellVars
  <2>4. DataOK'
    BY <1>3, <2>2, <2>3 DEF IInv, DataOK, viewVars
  <2>5. HandOK'
    BY <2>1 DEF IInv, DataOK, TypeOK, HandOK
  <2>6. \A c \in Device : Seen(c)' = Seen(c) /\ (Pending(c) => Pending(c)')
    BY <1>3, <2>1 DEF Seen, Pending, Told, viewVars, tellVars
  <2>7. ViewOK'
    BY <1>3, <2>6, FreshStays DEF IInv, ViewOK, viewVars
  <2>. QED
    BY <1>4, <2>4, <2>5, <2>7 DEF IInv
<1>. QED
  BY <1>5, <1>6

\* What was to be told is in the channel, or the channel is full.
LEMMA EmitFoundIInv ==
  ASSUME IInv, NEW g \in Goroutine, EmitFound(g)
  PROVE  IInv'
<1>1. tell[g].device \in Device /\ tell[g].entry \in Entry
  BY DEF IInv, DataOK, TypeOK, Sighting, EmitFound
<1>2. Emit("found", tell[g].device, tell[g].entry)
  BY DEF EmitFound
<1>3. events' \in Seq(Event) /\ Len(events') <= EventCap /\ events' # <<>>
  <2>. DEFINE d == tell[g].device
              e == tell[g].entry
  <2>. HIDE DEF d, e
  <2>1. d \in Device /\ e \in Entry /\ Emit("found", d, e)
    BY <1>1, <1>2 DEF d, e
  <2>. QED
    BY <2>1, EmitStep DEF IInv
<1>4. Known' = Known
  BY DEF EmitFound, tableVars, Known
<1>5. TypeOK'
  BY <1>3, <1>4 DEF IInv, DataOK, TypeOK, EmitFound, worldVars, tableVars, tellVars
<1>6. HandOK'
  BY DEF IInv, DataOK, TypeOK, HandOK, EmitFound
<1>7. SocketOK'
  BY SocketStays DEF IInv, EmitFound, worldVars
<1>8. ViewOK'
  BY <1>3 DEF ViewOK, Pending
<1>. QED
  BY <1>3, <1>4, <1>5, <1>6, <1>7, <1>8 DEF IInv, DataOK

\* The reaper takes out what is stale, and has it to tell.
LEMMA ReapIInv ==
  ASSUME IInv, Reap
  PROVE  IInv'
<1>. DEFINE stale == {d \in Device : Stale(d)}
<1>1. /\ lost = {} /\ lost' = stale
      /\ peers' = [d \in Device |-> IF d \in stale THEN None ELSE peers[d]]
      /\ UNCHANGED <<worldVars, age, hand, tell, viewVars>>
  BY DEF Reap
<1>. HIDE DEF stale
<1>2. Known' \subseteq Known
  BY <1>1 DEF IInv, DataOK, TypeOK, Known
<1>3. IsFiniteSet(Known') /\ Cardinality(Known') <= MaxPeers
  BY <1>2, TableShrinks DEF IInv, DataOK, TypeOK
<1>4. TypeOK'
  BY <1>1, <1>3 DEF IInv, DataOK, TypeOK, worldVars, viewVars, tellVars, stale
<1>5. DataOK'
  BY <1>1, <1>3, <1>4 DEF IInv, DataOK, viewVars
<1>6. HandOK'
  BY <1>1 DEF IInv, HandOK
<1>7. SocketOK'
  BY <1>1, SocketStays DEF IInv, worldVars, viewVars
<1>8. ViewOK'
  <2>. SUFFICES ASSUME NEW c \in Device PROVE Pending(c)' \/ Fresh(c)'
    BY DEF ViewOK
  <2>1. c \notin stale => Seen(c)' = Seen(c)
    BY <1>1 DEF Seen
  <2>2. Pending(c) => Pending(c)'
    BY <1>1 DEF Pending, Told, viewVars, tellVars
  <2>3. c \in stale => Pending(c)'
    BY <1>1 DEF Pending
  <2>. QED
    BY <1>1, <2>1, <2>2, <2>3, FreshStays DEF IInv, ViewOK, viewVars
<1>. QED
  BY <1>5, <1>6, <1>7, <1>8 DEF IInv

LEMMA EmitLostIInv ==
  ASSUME IInv, NEW d \in Device, EmitLost(d)
  PROVE  IInv'
<1>1. events' \in Seq(Event) /\ Len(events') <= EventCap /\ events' # <<>>
  BY EmitStep DEF IInv, EmitLost
<1>2. Known' = Known
  BY DEF EmitLost, tableVars, Known
<1>3. TypeOK'
  BY <1>1, <1>2 DEF IInv, DataOK, TypeOK, EmitLost, worldVars, tableVars, tellVars
<1>4. HandOK'
  BY DEF IInv, HandOK, EmitLost
<1>5. SocketOK'
  BY SocketStays DEF IInv, EmitLost, worldVars
<1>6. ViewOK'
  BY <1>1 DEF ViewOK, Pending
<1>. QED
  BY <1>1, <1>2, <1>3, <1>4, <1>5, <1>6 DEF IInv, DataOK

\* With the event taken, the pump is about to read the table.
LEMMA ReceiveIInv ==
  ASSUME IInv, Receive
  PROVE  IInv'
<1>1. events' \in Seq(Event) /\ Len(events') <= EventCap
  BY TakeStep DEF IInv, Receive
<1>2. Known' = Known
  BY DEF Receive, tableVars, Known
<1>3. at'[Pump] = "read"
  BY TellerFacts DEF IInv, DataOK, TypeOK, Receive, Go
<1>4. TypeOK'
  BY <1>1, <1>2 DEF IInv, DataOK, TypeOK, Receive, Go, worldVars, tableVars
<1>5. HandOK'
  BY DEF IInv, HandOK, Receive
<1>6. SocketOK'
  BY DEF SocketOK, Receive, worldVars
<1>7. ViewOK'
  BY <1>3 DEF ViewOK, Pending
<1>. QED
  BY <1>1, <1>2, <1>4, <1>5, <1>6, <1>7 DEF IInv, DataOK

\* A step of the engine's tellers, or of their clients.
TellStep ==
  /\ UNCHANGED <<worldVars, tableVars, hand, tell, lost, events, listed>>
  /\ members' \subseteq Client
  /\ at' \in [Teller -> {"away", "read", "greet", "loop", "tell"}]
  /\ snap' \in [Teller -> View]
  /\ shown' \in [Client -> View]
  /\ older' \subseteq Teller \ {Pump}
  /\ late' \subseteq Client

\* Such a step need be looked at for what it makes clients show only.
LEMMA TellIInv ==
  ASSUME IInv, TellStep, SocketOK', ViewOK'
  PROVE  IInv'
<1>1. Known' = Known
  BY DEF TellStep, tableVars, Known
<1>2. TypeOK'
  BY <1>1 DEF IInv, DataOK, TypeOK, TellStep, worldVars, tableVars
<1>. QED
  BY <1>1, <1>2 DEF IInv, DataOK, HandOK, TellStep

\* A new connection is not served yet.
LEMMA ConnectIInv ==
  ASSUME IInv, NEW c \in Client, Connect(c)
  PROVE  IInv'
<1>1. TellStep
  BY TellerFacts DEF IInv, DataOK, TypeOK, TellStep, Connect, Go
<1>2. SocketOK'
  BY DEF SocketOK, Connect, worldVars
<1>3. /\ at'[c] = "read" /\ at'[Pump] = at[Pump]
      /\ \A t \in Teller : t # c => at'[t] = at[t]
  BY TellerFacts DEF IInv, DataOK, TypeOK, Connect, Go
<1>4. Served' \subseteq Served
  BY <1>3, TellerFacts DEF IInv, DataOK, TypeOK, Connect, Served
<1>5. \A t \in Teller : Holding(t)' => Holding(t)
  BY <1>3 DEF Holding
<1>6. ViewOK'
  <2>. SUFFICES ASSUME NEW d \in Device PROVE Pending(d)' \/ Fresh(d)'
    BY DEF ViewOK
  <2>1. Pending(d) => Pending(d)'
    BY <1>3, PendingStays DEF Connect
  <2>2. Seen(d)' = Seen(d)
    BY DEF Connect, Seen, tableVars
  <2>3. Fresh(d) => Fresh(d)'
    BY <1>3, <1>4, <1>5, <2>2 DEF Fresh, Connect
  <2>. QED
    BY <2>1, <2>3 DEF IInv, ViewOK
<1>. QED
  BY <1>1, <1>2, <1>6, TellIInv

\* The pump reads the table as it is, and makes all that others have read
\* older; what another reads is the table as it is.
LEMMA ComposeIInv ==
  ASSUME IInv, NEW t \in Teller, Compose(t)
  PROVE  IInv'
<1>1. Snapshot \in View /\ \A d \in Device : Snapshot[d] = Seen(d)
  BY SnapshotIs DEF IInv
<1>2. TellStep
  BY <1>1 DEF IInv, DataOK, TypeOK, TellStep, Compose, Go
<1>3. SocketOK'
  BY DEF SocketOK, Compose, worldVars
<1>4. /\ snap' = [snap EXCEPT ![t] = Snapshot]
      /\ at' = [at EXCEPT ![t] = IF t \in Client /\ at[t] = "read" THEN "greet" ELSE "tell"]
      /\ shown' = shown /\ late' = late /\ members' = members
      /\ older' = IF t = Pump THEN {s \in Teller \ {Pump} : Holding(s)} ELSE older
  BY DEF Compose, Go
<1>5. snap'[t] = Snapshot /\ \A s \in Teller : s # t => snap'[s] = snap[s] /\ at'[s] = at[s]
  BY <1>4 DEF IInv, DataOK, TypeOK
<1>6. \A d \in Device : Seen(d)' = Seen(d)
  BY DEF Compose, Seen, tableVars
<1>7. CASE t = Pump
  <2>1. at'[Pump] = "tell"
    BY <1>4, <1>7, TellerFacts DEF IInv, DataOK, TypeOK
  <2>2. \A s \in Teller \ older' : Holding(s)' => s = Pump
    BY <1>4, <1>5, <1>7 DEF Holding
  <2>3. \A d \in Device : Fresh(d)'
    BY <1>1, <1>5, <1>6, <1>7, <2>1, <2>2 DEF Fresh
  <2>4. ViewOK'
    BY <2>3 DEF ViewOK
  <2>. QED
    BY <1>2, <1>3, <2>4, TellIInv
<1>8. CASE t # Pump
  <2>1. at'[Pump] = at[Pump]
    BY <1>5, <1>8, TellerFacts
  <2>2. Served' \subseteq Served
    <3>1. t \in Client => (at'[t] = "tell" => at[t] = "loop") /\ at'[t] # "loop"
      BY <1>4, <1>8 DEF IInv, DataOK, TypeOK, Compose
    <3>. QED
      BY <1>4, <1>5, <3>1, TellerFacts DEF Served, IInv, DataOK, TypeOK
  <2>3. \A d \in Device : Pending(d) => Pending(d)'
    BY <2>1, PendingStays DEF Compose
  <2>4. ASSUME NEW d \in Device, Fresh(d) PROVE Fresh(d)'
    <3>1. ASSUME NEW s \in Teller \ older', Holding(s)' PROVE snap'[s][d] = Seen(d)'
      <4>1. CASE s = t
        BY <1>1, <1>5, <1>6, <4>1
      <4>2. CASE s # t
        BY <1>4, <1>5, <1>6, <1>8, <2>4, <3>1, <4>2 DEF Fresh, Holding
      <4>. QED
        BY <4>1, <4>2
    <3>2. at'[Pump] # "tell" => \A c \in Served' \ late' : shown'[c][d] = Seen(d)'
      BY <1>4, <1>6, <2>1, <2>2, <2>4 DEF Fresh
    <3>. QED
      BY <3>1, <3>2 DEF Fresh
  <2>5. ViewOK'
    BY <2>3, <2>4 DEF IInv, ViewOK
  <2>. QED
    BY <1>2, <1>3, <2>5, TellIInv
<1>. QED
  BY <1>7, <1>8

\* What is told is the table, unless it is older than the pump's last read or
\* the pump will read again.  While the pump has something to tell, nothing is
\* asked of what the clients show.
LEMMA QueueIInv ==
  ASSUME IInv, NEW t \in Teller, Queue(t)
  PROVE  IInv'
<1>. DEFINE R == Recipients(t)
<1>1. R \subseteq Client /\ R \subseteq members
  BY DEF IInv, DataOK, TypeOK, Recipients
<1>2. Blank \in View
  BY DEF Blank, View
<1>3. /\ Holding(t)
      /\ shown' = [c \in Client |-> IF c \in R THEN snap[t] ELSE shown[c]]
      /\ late' = IF t \in older THEN late \cup R ELSE late \ R
      /\ older' = older \ {t}
      /\ snap' = [snap EXCEPT ![t] = Blank]
      /\ at' = [at EXCEPT ![t] = "loop"]
      /\ members' = members
      /\ UNCHANGED <<worldVars, tableVars, hand, tell, lost, events, listed>>
  BY DEF Queue, Go
<1>. HIDE DEF R
<1>4. TellStep
  BY <1>1, <1>2, <1>3 DEF IInv, DataOK, TypeOK, TellStep
<1>5. at'[t] = "loop" /\ \A s \in Teller : s # t => snap'[s] = snap[s] /\ at'[s] = at[s]
  BY <1>3 DEF IInv, DataOK, TypeOK
<1>6. \A s \in Teller : Holding(s)' => s # t /\ Holding(s)
  BY <1>5 DEF Holding
<1>7. SocketOK'
  BY <1>3, <1>6 DEF IInv, SocketOK, worldVars
<1>8. \A d \in Device : Seen(d)' = Seen(d)
  BY <1>3 DEF Seen, tableVars
<1>9. at[Pump] = "read" => at'[Pump] = "read"
  BY <1>3, <1>5, TellerFacts DEF Holding
<1>10. \A d \in Device : Pending(d) => Pending(d)'
  BY <1>3, <1>9, PendingStays
<1>11. ASSUME NEW d \in Device, Fresh(d) PROVE Fresh(d)'
  <2>1. \A s \in Teller \ older' : Holding(s)' => snap'[s][d] = Seen(d)'
    BY <1>3, <1>5, <1>6, <1>8, <1>11 DEF Fresh
  <2>2. ASSUME NEW c \in Served' \ late', at'[Pump] # "tell"
        PROVE  shown'[c][d] = Seen(d)'
    <3>1. c \in Client /\ c \in members
      BY <1>3 DEF IInv, DataOK, TypeOK, Served
    <3>2. CASE c \in R
      <4>1. t \notin older /\ shown'[c] = snap[t]
        BY <1>3, <2>2, <3>1, <3>2
      <4>. QED
        BY <1>3, <1>8, <1>11, <4>1 DEF Fresh
    <3>3. CASE c \notin R
      <4>1. t # Pump /\ t # c
        BY <1>1, <3>1, <3>3, TellerFacts DEF R, Recipients
      <4>2. at'[Pump] = at[Pump] /\ at'[c] = at[c]
        BY <1>5, <3>1, <4>1, TellerFacts
      <4>3. c \in Served \ late /\ shown'[c] = shown[c]
        BY <1>3, <2>2, <3>1, <3>3, <4>2 DEF Served
      <4>. QED
        BY <1>8, <1>11, <2>2, <4>2, <4>3 DEF Fresh
    <3>. QED
      BY <3>2, <3>3
  <2>. QED
    BY <2>1, <2>2 DEF Fresh
<1>12. ViewOK'
  BY <1>10, <1>11 DEF IInv, ViewOK
<1>. QED
  BY <1>4, <1>7, <1>12, TellIInv

\* Who goes is not served any more.
LEMMA LeaveIInv ==
  ASSUME IInv, NEW c \in Client, Drop(c) \/ HangUp(c)
  PROVE  IInv'
<1>1. Blank \in View
  BY DEF Blank, View
<1>2. TellStep
  BY <1>1, TellerFacts DEF IInv, DataOK, TypeOK, TellStep, Drop, HangUp, Go
<1>3. /\ at'[Pump] = at[Pump]
      /\ \A t \in Teller : at'[t] = at[t] \/ at'[t] = "away"
      /\ snap' = snap /\ older' = older
      /\ UNCHANGED <<worldVars, tableVars, tell, lost, events>>
  BY TellerFacts DEF IInv, DataOK, TypeOK, Drop, HangUp, Go
<1>4. Served' \subseteq Served /\ \A b \in Served' : shown'[b] = shown[b] /\ (b \in late => b \in late')
  BY <1>3, TellerFacts DEF IInv, DataOK, TypeOK, Drop, HangUp, Served
<1>5. \A t \in Teller : Holding(t)' => Holding(t)
  BY <1>3 DEF Holding
<1>6. members' \subseteq members
  BY DEF Drop, HangUp
<1>7. SocketOK'
  BY <1>3, <1>5, <1>6 DEF IInv, SocketOK, worldVars
<1>8. \A d \in Device : Seen(d)' = Seen(d) /\ (Pending(d) => Pending(d)')
  BY <1>3, PendingStays DEF Seen, tableVars
<1>9. \A d \in Device : Fresh(d) => Fresh(d)'
  BY <1>3, <1>4, <1>5, <1>8 DEF Fresh
<1>10. ViewOK'
  BY <1>8, <1>9 DEF IInv, ViewOK
<1>. QED
  BY <1>2, <1>7, <1>10, TellIInv

\* The terminal program lists an entry, or drops one; it has nobody to tell.
LEMMA BridgeIInv ==
  ASSUME IInv, Bridge
  PROVE  IInv'
<1>1. /\ Head(events) \in Event /\ events' \in Seq(Event) /\ Len(events') <= EventCap
  BY TakeStep DEF IInv, Bridge
<1>2. listed' \in [Device -> Entry \cup {None}]
  <2>. DEFINE ev == Head(events)
  <2>1. listed' = [listed EXCEPT ![ev.device] = IF ev.kind = "found" THEN ev.entry ELSE None]
    BY DEF Bridge
  <2>. HIDE DEF ev
  <2>2. ev \in Event
    BY <1>1 DEF ev
  <2>3. (IF ev.kind = "found" THEN ev.entry ELSE None) \in Entry \cup {None}
    BY <2>2 DEF Event
  <2>. QED
    BY <2>1, <2>3 DEF IInv, DataOK, TypeOK
<1>3. Known' = Known
  BY DEF Bridge, tableVars, Known
<1>4. TypeOK'
  BY <1>1, <1>2, <1>3 DEF IInv, DataOK, TypeOK, Bridge, worldVars, tableVars, tellVars
<1>5. HandOK'
  BY DEF IInv, HandOK, Bridge
<1>6. SocketOK'
  BY SocketStays DEF IInv, Bridge, worldVars
<1>7. members' = {} /\ \A t \in Teller : ~Holding(t)'
  BY <1>6 DEF SocketOK, Bridge, worldVars
<1>8. ViewOK'
  BY <1>7 DEF ViewOK, Fresh, Served
<1>. QED
  BY <1>1, <1>3, <1>4, <1>5, <1>6, <1>8 DEF IInv, DataOK

\* The world and the clock touch neither the table nor what is told of it.
LEMMA WorldIInv ==
  ASSUME IInv, UNCHANGED <<program, peers, hand, tell, lost, viewVars>>,
         listens' \in [Device -> Port],
         age' \in [Device -> 0 .. PeerTTL + 1]
  PROVE  IInv'
<1>1. Known' = Known
  BY DEF Known
<1>2. TypeOK'
  BY <1>1 DEF IInv, DataOK, TypeOK, viewVars, tellVars
<1>3. SocketOK'
  BY SocketStays DEF IInv, viewVars
<1>4. \A d \in Device : Seen(d)' = Seen(d) /\ (Pending(d) => Pending(d)')
  BY DEF Seen, Pending, Told, viewVars, tellVars
<1>5. ViewOK'
  BY <1>4, FreshStays DEF IInv, ViewOK, viewVars
<1>. QED
  BY <1>1, <1>2, <1>3, <1>5 DEF IInv, DataOK, HandOK, viewVars

LEMMA NextIInv == IInv /\ [Next]_vars => IInv'
<1>1. ASSUME IInv, UNCHANGED vars PROVE IInv'
  BY <1>1, WorldIInv DEF IInv, DataOK, TypeOK, vars, worldVars, tableVars
<1>2. ASSUME IInv, NEW d \in Device, NEW p \in Port, Rebind(d, p) PROVE IInv'
  BY <1>2, WorldIInv DEF IInv, DataOK, TypeOK, Rebind, tableVars
<1>3. ASSUME IInv, Tick PROVE IInv'
  <2>1. age' \in [Device -> 0 .. PeerTTL + 1]
    BY <1>3, DiscoveryAssumption DEF IInv, DataOK, TypeOK, Tick
  <2>. QED
    BY <1>3, <2>1, WorldIInv DEF IInv, DataOK, TypeOK, Tick, worldVars
<1>. QED
  BY <1>1, <1>2, <1>3, HearIInv, NoteIInv, EmitFoundIInv, ReapIInv, EmitLostIInv,
     ReceiveIInv, ConnectIInv, ComposeIInv, QueueIInv, LeaveIInv, BridgeIInv DEF Next, Step

LEMMA IInvHolds == Spec => []IInv
BY InitIInv, NextIInv, PTL DEF Spec

-----------------------------------------------------------------------------
(* Theorems *)

\* Every reachable state is well typed; in particular the table keeps its
\* bound, whatever announces itself and however the goroutines interleave.
THEOREM TypeCorrect == Spec => []TypeOK
<1>1. IInv => TypeOK
  BY DEF IInv, DataOK
<1>. QED
  BY <1>1, IInvHolds, PTL

\* Once all events are read and answered, the clients have the table, though
\* events were dropped, came out of order or crossed a greeting, but for those
\* who heard last what had been read before the pump's last read.
THEOREM ClientsSeeTheTable == Spec => []ClientsSeeTable
<1>1. IInv => ClientsSeeTable
  <2>. SUFFICES ASSUME IInv, Quiet, NEW c \in Served \ late
                PROVE  shown[c] = Snapshot
    BY DEF ClientsSeeTable
  <2>1. \A d \in Device : ~Pending(d)
    BY DEF Quiet, Busy, Pending, Told
  <2>2. \A d \in Device : shown[c][d] = Snapshot[d]
    BY <2>1, SnapshotIs DEF IInv, ViewOK, Fresh, Quiet
  <2>3. shown[c] \in View /\ Snapshot \in View
    BY SnapshotIs DEF IInv, DataOK, TypeOK, Served
  <2>. QED
    BY <2>2, <2>3 DEF View
<1>. QED
  BY <1>1, IInvHolds, PTL

\* A device leaves the table only after it was not heard for peerTTL.
THEOREM SilenceEvicts == Spec => OnlySilenceEvicts
<1>1. IInv /\ [Next]_vars => [EvictionStepOK]_vars
  <2>. SUFFICES ASSUME IInv, Next, NEW d \in Device, peers[d] # None, peers'[d] = None
                PROVE  age[d] > PeerTTL
    BY DEF EvictionStepOK
  <2>1. ASSUME NEW g \in Goroutine, Note(g) PROVE FALSE
    <3>1. hand[g] \in Sighting
      BY <2>1 DEF IInv, DataOK, TypeOK, Note
    <3>2. Address(hand[g].device, hand[g].entry) \in Entry
      BY <3>1 DEF IInv, DataOK, TypeOK, Sighting, Address, Entry
    <3>. QED
      BY <2>1, <3>2, DiscoveryAssumption DEF IInv, DataOK, TypeOK, Note
  <2>2. Reap
    BY <2>1 DEF Next, Step, Hear, EmitFound, EmitLost, Receive, Connect, Compose, Queue,
                Drop, HangUp, Bridge, Rebind, Tick, tableVars
  <2>. QED
    BY <2>2 DEF Reap, Stale
<1>. QED
  BY <1>1, IInvHolds, PTL DEF Spec, OnlySilenceEvicts

\* A device listed at a routable address keeps one, whatever is heard of it
\* through the loopback.
THEOREM RoutableAddressesStay == Spec => KeepsRoutable
<1>1. IInv /\ [Next]_vars => [AddressStepOK]_vars
  <2>. SUFFICES ASSUME IInv, Next, NEW d \in Device,
                       peers[d] # None, peers[d].ip # Loopback, peers'[d] # None
                PROVE  peers'[d].ip # Loopback
    BY DEF AddressStepOK
  <2>1. ASSUME NEW g \in Goroutine, Note(g)
        PROVE  peers'[d].ip # Loopback
    <3>1. hand[g] \in Sighting
      BY <2>1 DEF IInv, DataOK, TypeOK, Note
    <3>2. hand[g].device = d => Address(hand[g].device, hand[g].entry).ip # Loopback
      BY <3>1 DEF IInv, DataOK, TypeOK, Sighting, Address, Entry
    <3>. QED
      BY <2>1, <3>2 DEF IInv, DataOK, TypeOK, Note
  <2>2. CASE Reap
    BY <2>2 DEF Reap
  <2>3. CASE peers' = peers
    BY <2>3
  <2>. QED
    BY <2>1, <2>2, <2>3 DEF Next, Step, Hear, EmitFound, EmitLost, Receive,
       Connect, Compose, Queue, Drop, HangUp, Bridge, Rebind, Tick, tableVars
<1>. QED
  BY <1>1, IInvHolds, PTL DEF Spec, KeepsRoutable
=============================================================================
