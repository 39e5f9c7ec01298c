----------------------------- MODULE Discovery ------------------------------
(***************************************************************************)
(* The table of peers (internal/discovery/discovery.go) and the two views  *)
(* other parts keep of it.  Announcements, /register requests and probes   *)
(* of other devices reach NotePeer on goroutines of their own, the reaper  *)
(* evicts what was not seen for peerTTL; both change the table under the   *)
(* lock and send their events after it, on a channel that drops what does  *)
(* not fit.                                                                *)
(*                                                                         *)
(* The engine answers any event with a snapshot of the table for all the   *)
(* clients of its socket (pumpEvents).  Others tell them of it as well:    *)
(* the goroutine of an addPeer all of them, and the goroutine that serves  *)
(* a client this one, in its greeting and on request.  Each reads the      *)
(* table under its lock, and queues what it read under the hub's.  What a  *)
(* client shows is taken to be the last peers event queued for it: its     *)
(* queue (EventHub) keeps the order, and a client whose queue is full is   *)
(* thrown out, which is Drop here, before the queueing.                    *)
(*                                                                         *)
(* The terminal program applies the events one by one                      *)
(* (internal/app/events.go, Update in internal/tui/model.go).              *)
(*                                                                         *)
(* A tick is the reaper's interval: a goroutine that took the time finds   *)
(* the lock within it.  A device's own announcements are ignored and left  *)
(* out; a change of alias is handled like a change of address.             *)
(***************************************************************************)
EXTENDS Integers, Sequences, FiniteSets

CONSTANTS
  Device,     \* fingerprints of the devices around
  Goroutine,  \* goroutines that call NotePeer
  Ip,         \* addresses a device is seen at
  SeenAt,     \* SeenAt[d]: those at which d is seen
  Loopback,   \* one of them: behind a userspace tailscaled all come from it
  Port,       \* ports a device may listen on
  None,       \* no entry, nothing in hand
  Client,     \* connections to the engine's socket
  Asker,      \* goroutines of addPeer requests
  Pump,       \* the goroutine that reads the events
  MaxPeers,   \* maxPeers
  PeerTTL,    \* peerTTL in ticks
  EventCap    \* capacity of Discoverer.events

Entry == [ip : Ip, port : Port]
Sighting == [device : Device, entry : Entry]

\* What a peers event tells of each device.
View  == [Device -> Ip \cup {None}]
Blank == [d \in Device |-> None]

\* The goroutines that tell clients of the table.
Teller == {Pump} \cup Asker \cup Client

ASSUME DiscoveryAssumption ==
  /\ Loopback \in Ip
  /\ SeenAt \in [Device -> SUBSET Ip]
  /\ None \notin Device \cup Ip \cup Port \cup Entry \cup Sighting
  /\ Pump \notin Asker \cup Client
  /\ Asker \cap Client = {}
  /\ MaxPeers \in Nat
  /\ PeerTTL \in Nat
  /\ EventCap \in Nat \ {0}

VARIABLES
  program, \* whose table it is: "engine" or "tui"
  listens, \* listens[d]: the port d serves
  peers,   \* Discoverer.peers: an entry [ip, port] or None
  age,     \* ticks since LastSeen, saturating just past PeerTTL
  hand,    \* what a goroutine is about to note
  tell,    \* the event it is about to emit
  lost,    \* the reaper's: evicted, PeerLost not emitted yet
  events,  \* the channel
  listed,  \* Model.peers of the terminal interface
  members, \* hub.clients
  at,      \* where a teller is
  snap,    \* the table as it read it, not queued yet
  shown,   \* the last peers event queued for a client
  older,   \* history: tellers that read the table before the pump's last read
  late     \* history: clients that heard one of those last

worldVars == <<program, listens>>
tableVars == <<peers, age>>
tellVars  == <<members, at, snap, shown, older, late>>
viewVars  == <<events, listed, tellVars>>
vars == <<worldVars, tableVars, hand, tell, lost, viewVars>>

Known == {d \in Device : peers[d] # None}

\* Types; and the table stays within its bound whatever announces itself
\* (comment of maxPeers).
TypeOK ==
  /\ program \in {"engine", "tui"}
  /\ listens \in [Device -> Port]
  /\ peers \in [Device -> Entry \cup {None}]
  /\ Cardinality(Known) <= MaxPeers
  /\ age \in [Device -> 0 .. PeerTTL + 1]
  /\ hand \in [Goroutine -> Sighting \cup {None}]
  /\ tell \in [Goroutine -> Sighting \cup {None}]
  /\ lost \in SUBSET Device
  /\ Len(events) <= EventCap
  /\ listed \in [Device -> Entry \cup {None}]
  /\ members \subseteq Client
  /\ at \in [Teller -> {"away", "read", "greet", "loop", "tell"}]
  /\ snap \in [Teller -> View]
  /\ shown \in [Client -> View]
  /\ older \subseteq Teller \ {Pump}
  /\ late \subseteq Client

Init ==
  /\ program \in {"engine", "tui"}
  /\ listens \in [Device -> Port]
  /\ peers = [d \in Device |-> None]
  /\ age = [d \in Device |-> 0]
  /\ hand = [g \in Goroutine |-> None]
  /\ tell = [g \in Goroutine |-> None]
  /\ lost = {}
  /\ events = <<>>
  /\ listed = [d \in Device |-> None]
  /\ members = {}
  /\ at = [t \in Teller |-> IF t \in Client THEN "away" ELSE "loop"]
  /\ snap = [t \in Teller |-> Blank]
  /\ shown = [c \in Client |-> Blank]
  /\ older = {}
  /\ late = {}

-----------------------------------------------------------------------------
\* Slips in the definitions that follow; not part of the specification.

\* Fault: the newest address always wins.
AddressNewest(d, e) == e

\* Fault: a full table admits one more.
AdmitsOneMore(d) == d \in Known \/ Cardinality(Known) <= MaxPeers

\* Fault: only a new device is worth an event.
ChangedIfNew(d, e) == peers[d] = None

\* Fault: the table is swept one tick early.
StaleEarly(d) == d \in Known /\ age[d] >= PeerTTL

\* Fault: nothing is ever stale.
StaleNever(d) == FALSE

-----------------------------------------------------------------------------
\* Helpers of NotePeer and reapOnce.

\* A routable address is not replaced by the loopback one.
Address(d, e) ==
  IF peers[d] # None /\ e.ip = Loopback THEN [e EXCEPT !.ip = peers[d].ip] ELSE e

Admits(d) == d \in Known \/ Cardinality(Known) < MaxPeers

\* What NotePeer compares to decide on an event: the address, not the port.
Changed(d, e) == peers[d] = None \/ peers[d].ip # e.ip

Stale(d) == d \in Known /\ age[d] > PeerTTL

Fits == Len(events) < EventCap

Emit(kind, d, e) ==
  events' = IF Fits THEN Append(events, [kind |-> kind, device |-> d, entry |-> e])
                    ELSE events

-----------------------------------------------------------------------------
\* NotePeer.

\* A packet, a /register or the answer to a probe comes from a device.
Hear(g, d, ip) ==
  /\ hand[g] = None /\ tell[g] = None
  /\ ip \in SeenAt[d]
  /\ hand' = [hand EXCEPT ![g] = [device |-> d, entry |-> [ip |-> ip, port |-> listens[d]]]]
  /\ UNCHANGED <<worldVars, tableVars, tell, lost, viewVars>>

Note(g) ==
  /\ hand[g] # None
  /\ LET d == hand[g].device
         e == Address(d, hand[g].entry)
     IN  IF Admits(d)
         THEN /\ peers' = [peers EXCEPT ![d] = e]
              /\ age' = [age EXCEPT ![d] = 0]
              /\ tell' = [tell EXCEPT ![g] = IF Changed(d, e)
                                             THEN [device |-> d, entry |-> e] ELSE None]
         ELSE UNCHANGED <<peers, age, tell>>
  /\ hand' = [hand EXCEPT ![g] = None]
  /\ UNCHANGED <<worldVars, lost, viewVars>>

EmitFound(g) ==
  /\ tell[g] # None
  /\ Emit("found", tell[g].device, tell[g].entry)
  /\ tell' = [tell EXCEPT ![g] = None]
  /\ UNCHANGED <<worldVars, tableVars, hand, lost, listed, tellVars>>

-----------------------------------------------------------------------------
\* reapOnce.

Reap ==
  LET stale == {d \in Device : Stale(d)}
  IN  /\ lost = {}
      /\ stale # {}
      /\ peers' = [d \in Device |-> IF d \in stale THEN None ELSE peers[d]]
      /\ lost' = stale
      /\ UNCHANGED <<worldVars, age, hand, tell, viewVars>>

EmitLost(d) ==
  /\ d \in lost
  /\ Emit("lost", d, None)
  /\ lost' = lost \ {d}
  /\ UNCHANGED <<worldVars, tableVars, hand, tell, listed, tellVars>>

-----------------------------------------------------------------------------
\* The engine: the discovery pump, the goroutines of addPeer and those that
\* serve a client.

\* Discoverer.Snapshot, as peersEvent tells of it.
Snapshot == [d \in Device |-> IF peers[d] = None THEN None ELSE peers[d].ip]

Go(t, label) == at' = [at EXCEPT ![t] = label]

\* The pump takes an event; which one does not matter to it.
Receive ==
  /\ program = "engine"
  /\ at[Pump] = "loop"
  /\ events # <<>>
  /\ events' = Tail(events)
  /\ Go(Pump, "read")
  /\ UNCHANGED <<worldVars, tableVars, hand, tell, lost, listed, members, snap, shown,
                 older, late>>

\* hub.add; the greeting has the table in it.
Connect(c) ==
  /\ program = "engine"
  /\ at[c] = "away"
  /\ members' = members \cup {c}
  /\ Go(c, "read")
  /\ UNCHANGED <<worldVars, tableVars, hand, tell, lost, events, listed, snap, shown,
                 older, late>>

Holding(t) == at[t] \in {"greet", "tell"}

\* peersEvent: after an event, for a greeting, on request, or after the probe
\* of an addPeer, which found somebody or not.
Compose(t) ==
  /\ program = "engine"
  /\ at[t] = "read" \/ (at[t] = "loop" /\ t # Pump)
  /\ snap' = [snap EXCEPT ![t] = Snapshot]
  /\ Go(t, IF t \in Client /\ at[t] = "read" THEN "greet" ELSE "tell")
  /\ older' = IF t = Pump THEN {s \in Teller \ {Pump} : Holding(s)} ELSE older
  /\ UNCHANGED <<worldVars, tableVars, hand, tell, lost, events, listed, members, shown, late>>

\* sendTo, for the goroutine that serves a client; broadcast, for the others.
Recipients(t) == IF t \in Client THEN members \cap {t} ELSE members

Queue(t) ==
  /\ Holding(t)
  /\ shown' = [c \in Client |-> IF c \in Recipients(t) THEN snap[t] ELSE shown[c]]
  /\ late' = IF t \in older THEN late \cup Recipients(t) ELSE late \ Recipients(t)
  /\ older' = older \ {t}
  /\ snap' = [snap EXCEPT ![t] = Blank]
  /\ Go(t, "loop")
  /\ UNCHANGED <<worldVars, tableVars, hand, tell, lost, events, listed, members>>

\* A client is thrown out, or goes: hub.remove.
Drop(c) ==
  /\ c \in members
  /\ members' = members \ {c}
  /\ shown' = [shown EXCEPT ![c] = Blank]
  /\ late' = late \ {c}
  /\ UNCHANGED <<worldVars, tableVars, hand, tell, lost, events, listed, at, snap, older>>

\* serveClient returns; another connection may be made.
HangUp(c) ==
  /\ at[c] = "loop" /\ c \notin members
  /\ Go(c, "away")
  /\ UNCHANGED <<worldVars, tableVars, hand, tell, lost, events, listed, members, snap,
                 shown, older, late>>

-----------------------------------------------------------------------------
\* The terminal program: BridgeDiscovery, and Update for its messages.

Bridge ==
  /\ program = "tui"
  /\ events # <<>>
  /\ LET ev == Head(events)
     IN  listed' = [listed EXCEPT ![ev.device] = IF ev.kind = "found" THEN ev.entry ELSE None]
  /\ events' = Tail(events)
  /\ UNCHANGED <<worldVars, tableVars, hand, tell, lost, tellVars>>

-----------------------------------------------------------------------------
\* The devices, and time.

\* A device restarts on another port.
Rebind(d, p) ==
  /\ listens' = [listens EXCEPT ![d] = p]
  /\ UNCHANGED <<program, tableVars, hand, tell, lost, viewVars>>

Busy ==
  \/ \E g \in Goroutine : hand[g] # None \/ tell[g] # None
  \/ lost # {}

Tick ==
  /\ ~Busy
  /\ \A d \in Device : ~Stale(d)
  /\ age' = [d \in Device |-> IF d \in Known /\ age[d] <= PeerTTL THEN age[d] + 1 ELSE age[d]]
  /\ UNCHANGED <<worldVars, peers, hand, tell, lost, viewVars>>

Step(g) == Note(g) \/ EmitFound(g)

Next ==
  \/ \E g \in Goroutine :
       \/ Step(g)
       \/ \E d \in Device, ip \in Ip : Hear(g, d, ip)
  \/ Reap
  \/ \E d \in Device : EmitLost(d)
  \/ Receive
  \/ \E t \in Teller : Compose(t) \/ Queue(t)
  \/ \E c \in Client : Connect(c) \/ Drop(c) \/ HangUp(c)
  \/ Bridge
  \/ \E d \in Device, p \in Port : Rebind(d, p)
  \/ Tick

Spec == Init /\ [][Next]_vars

\* Goroutines run, the tickers tick, the events are read; and packets are
\* never so dense that some goroutine always has one in hand.
FairSpec ==
  /\ Spec
  /\ \A g \in Goroutine : WF_vars(Step(g))
  /\ WF_vars(Reap) /\ WF_vars(\E d \in Device : EmitLost(d))
  /\ WF_vars(Receive) /\ WF_vars(Compose(Pump)) /\ WF_vars(Bridge)
  /\ \A t \in Teller : WF_vars(Queue(t))
  /\ SF_vars(Tick)
  /\ []<>(~Busy)

-----------------------------------------------------------------------------
(* Properties *)

\* No event is pending anywhere, and the pump has told what it read.
Quiet == ~Busy /\ events = <<>> /\ at[Pump] = "loop"

\* Greeted, and not thrown out.
Served == {c \in members : at[c] \in {"loop", "tell"}}

\* A device leaves the table only after a silence longer than peerTTL, by
\* whatever goroutines it is refreshed meanwhile (reapOnce).
EvictionStepOK ==
  \A d \in Device : peers[d] # None /\ peers'[d] = None => age[d] > PeerTTL

OnlySilenceEvicts == [][EvictionStepOK]_vars

\* "Never downgrade a routable address to loopback" (comment in NotePeer), in
\* whatever order goroutines get the lock.
AddressStepOK ==
  \A d \in Device :
    /\ peers[d] # None /\ peers[d].ip # Loopback
    /\ peers'[d] # None
    => peers'[d].ip # Loopback

KeepsRoutable == [][AddressStepOK]_vars

\* Once all events are read and answered (pumpEvents), a client has the table,
\* though events are dropped when the channel is full, come out of order, or
\* cross its greeting; unless the last it was told had been read before the
\* pump's last read.
ClientsSeeTable ==
  Quiet => \A c \in Served \ late : shown[c] = Snapshot

\* A device that is not heard any more, for good, is gone for the clients from
\* some moment on, with the same exception (reapOnce, pumpEvents).
Heard(d) == \E g \in Goroutine : hand[g] = None /\ hand'[g] # None /\ hand'[g].device = d

GoneDevicesVanish ==
  \A d \in Device :
    <>[][~Heard(d)]_hand => <>[](\A c \in Served \ late : shown[c][d] = None)

\* "discovery -> peers snapshots" (comment in pumpEvents): once everybody has
\* told what he read, every client has the table.
ClientsEndUpRight ==
  Quiet /\ (\A t \in Teller : ~Holding(t)) => \A c \in Served : shown[c] = Snapshot

\* "PeerFoundMsg is delivered when a peer is discovered" (app/events.go): once
\* all events are read, the terminal interface lists what the table has.
TuiListsTable == program = "tui" /\ Quiet => \A d \in Device : listed[d] = None <=> peers[d] = None

\* "... or when its address changes" (comments of NotePeer and PeerFoundMsg): an
\* entry the terminal interface lists is the one the table has, port included.
TuiAddressFresh ==
  program = "tui" /\ Quiet
    => \A d \in Device : listed[d] # None /\ peers[d] # None => listed[d] = peers[d]
=============================================================================
