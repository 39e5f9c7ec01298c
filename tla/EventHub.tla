------------------------------ MODULE EventHub ------------------------------
(***************************************************************************)
(* The engine's control socket: the hub and serveClient of                 *)
(* cmd/omasend-engine/main.go, and what the shell's client                 *)
(* (Service.qml, handleLine) makes of the lines it reads.                  *)
(*                                                                         *)
(* Every connection has a queue.  Broadcasts go to the queues of all the   *)
(* members; a member whose queue is full is thrown out and its queue       *)
(* closed.  A connection is a member before it is greeted, and what it is  *)
(* greeted with is read first and queued later, so broadcasts of other     *)
(* goroutines fall in between.  Offers are parked and unparked under a     *)
(* lock and broadcast after it; messages and settings likewise.            *)
(*                                                                         *)
(* A client that comes back is another element of Client.  The peers event *)
(* is built and sent like the status event; Discovery has it.              *)
(***************************************************************************)
EXTENDS Integers, Sequences, FiniteSets

CONSTANTS
  Client,   \* connections to the socket, one after another or at once
  Offer,    \* offer ids; each is parked once
  Message,  \* messages; each is recorded once
  NoOffer,  \* the accept pump is not inside holdOffer
  NoEvent,  \* a goroutine has no event in hand
  OutCap,   \* capacity of hubClient.out
  MaxSets   \* bound: settings changes

ASSUME EventHubAssumption ==
  /\ NoOffer \notin Offer
  /\ OutCap \in Nat \ {0}
  /\ MaxSets \in Nat

VARIABLES
  \* engine
  offers,      \* engine.offers
  announcing,  \* the offer holdOffer parked and has not broadcast yet
  expired,     \* offers whose timer took them, offerDone not broadcast yet
  used,        \* offers parked so far
  history,     \* engine.messages
  telling,     \* messages recorded and not broadcast yet
  since,       \* history: messages recorded while a connection was served
  settings,    \* how often cfg was changed
  \* hub
  members,     \* hub.clients
  out,         \* hubClient.out
  closed,      \* queues that were closed
  panicked,    \* a goroutine sent on a closed queue, or closed one again
  \* serveClient
  at,          \* where the goroutine serving a connection is
  held,        \* the event it is about to queue or to broadcast
  replay,      \* offers it has read and still has to replay
  \* the shell
  open,        \* connections that still deliver
  view         \* what the client shows

engineVars == <<offers, announcing, expired, used, history, telling, since, settings>>
hubVars    == <<members, out, closed, panicked>>
serveVars  == <<at, held, replay>>
shellVars  == <<open, view>>
vars == <<engineVars, hubVars, serveVars, shellVars>>

Greeting == {"ready", "history", "parked", "replay"}

\* Greeted and still connected.
Served == {c \in members \cap open : at[c] \in {"loop", "status", "tell"}}

Line(kind, data) == [kind |-> kind, data |-> data]

Blank == [status |-> 0, offers |-> [o \in Offer |-> 0],
          messages |-> [m \in Message |-> 0]]

TypeOK ==
  /\ offers \subseteq used /\ used \subseteq Offer
  /\ announcing \in Offer \cup {NoOffer}
  /\ expired \subseteq used \ offers
  /\ telling \subseteq history /\ history \subseteq Message
  /\ settings \in 0 .. MaxSets
  /\ members \subseteq Client /\ closed \subseteq Client /\ open \subseteq Client
  /\ panicked \in BOOLEAN
  /\ \A c \in Client :
       /\ Len(out[c]) <= OutCap
       /\ at[c] \in Greeting \cup {"new", "queue", "loop", "status", "tell", "gone"}
       /\ replay[c] \subseteq used
       /\ since[c] \subseteq history
       /\ view[c].status \in 0 .. MaxSets
       /\ view[c].offers \in [Offer -> Nat]
       /\ view[c].messages \in [Message -> Nat]

Init ==
  /\ offers = {} /\ announcing = NoOffer /\ expired = {} /\ used = {}
  /\ history = {} /\ telling = {} /\ settings = 0
  /\ since = [c \in Client |-> {}]
  /\ members = {} /\ closed = {} /\ panicked = FALSE
  /\ out = [c \in Client |-> <<>>]
  /\ at = [c \in Client |-> "new"]
  /\ held = [c \in Client |-> NoEvent]
  /\ replay = [c \in Client |-> {}]
  /\ open = {}
  /\ view = [c \in Client |-> Blank]

-----------------------------------------------------------------------------
\* The shell: Service.qml's handleLine for the lines modelled here.

Shown(v, line) ==
  CASE line.kind = "ready" ->
         [v EXCEPT !.status = line.data, !.offers = [o \in Offer |-> 0]]
    [] line.kind = "status"    -> [v EXCEPT !.status = line.data]
    [] line.kind = "messages"  ->
         [v EXCEPT !.messages = [m \in Message |-> IF m \in line.data THEN 1 ELSE 0]]
    [] line.kind = "message"   -> [v EXCEPT !.messages[line.data] = @ + 1]
    [] line.kind = "offer"     -> [v EXCEPT !.offers[line.data] = @ + 1]
    [] line.kind = "offerDone" -> [v EXCEPT !.offers[line.data] = 0]

\* What v becomes as the lines of s are read one after another.
ReadAll(v, s) ==
  LET after[n \in 0 .. Len(s)] == IF n = 0 THEN v ELSE Shown(after[n - 1], s[n])
  IN  after[Len(s)]

\* What c will show once it has read what is queued for it.
Settled(c) == ReadAll(view[c], out[c])

-----------------------------------------------------------------------------
\* Slips in the operations below, for the properties to notice; not part of
\* the specification.

\* Fault: a queue is used without looking at the membership.
CanSendAny(c) == TRUE

\* Fault: the parked offers are not read for a new connection.
ReadNothing(c) == replay' = [replay EXCEPT ![c] = {}]

-----------------------------------------------------------------------------
\* The hub; each operation is one hold of its lock.

HasRoom(c) == Len(out[c]) < OutCap

\* hub.clients[c], the check sendTo makes before it uses the queue.
CanSend(c) == c \in members

Drop(full) == members' = members \ full

\* Queue line for the given connections; throw out those that are full.
Queue(to, line) ==
  LET full == {c \in to : ~HasRoom(c)}
  IN  /\ out' = [c \in Client |-> IF c \in to \ full THEN Append(out[c], line)
                                                      ELSE out[c]]
      /\ Drop(full)
      /\ closed' = closed \cup full
      /\ panicked' = (panicked \/ to \cap closed # {})

\* Never waits for a client.
Broadcast(line) == Queue(members, line)

\* Fault, as above: what one connection is greeted with goes to all.
SendToAll(c, line) == Queue(members, line)

SendTo(c, line) == Queue({d \in {c} : CanSend(d)}, line)

\* hub.remove.
Leave(c) ==
  /\ members' = members \ {c}
  /\ closed' = closed \cup (members \cap {c})
  /\ UNCHANGED panicked

-----------------------------------------------------------------------------
\* serveClient.

Go(c, label) == at' = [at EXCEPT ![c] = label]

Join(c) == members' = members \cup {c}

\* hub.add, and the writer goroutine.
Connect(c) ==
  /\ at[c] = "new"
  /\ Join(c)
  /\ open' = open \cup {c}
  /\ Go(c, "ready")
  /\ UNCHANGED <<engineVars, out, closed, panicked, held, replay, view>>

ComposeReady(c) == held' = [held EXCEPT ![c] = Line("ready", settings)]

ComposeHistory(c) == held' = [held EXCEPT ![c] = Line("messages", history)]

\* Read what to greet with: the status, then the message history.
Compose(c) ==
  /\ held[c] = NoEvent
  /\ \/ at[c] = "ready" /\ ComposeReady(c)
     \/ at[c] = "history" /\ ComposeHistory(c)
  /\ UNCHANGED <<engineVars, hubVars, at, replay, shellVars>>

Greet(c) ==
  /\ at[c] \in {"ready", "history"}
  /\ held[c] # NoEvent
  /\ SendTo(c, held[c])
  /\ held' = [held EXCEPT ![c] = NoEvent]
  /\ Go(c, IF at[c] = "ready" THEN "history" ELSE "parked")
  /\ UNCHANGED <<engineVars, replay, shellVars>>

ReadOffers(c) == replay' = [replay EXCEPT ![c] = offers]

\* pendingOfferEvents.
ReadParked(c) ==
  /\ at[c] = "parked"
  /\ ReadOffers(c)
  /\ Go(c, "replay")
  /\ UNCHANGED <<engineVars, hubVars, held, shellVars>>

ReplayOffer(c, o) ==
  /\ at[c] = "replay"
  /\ o \in replay[c]
  /\ SendTo(c, Line("offer", o))
  /\ replay' = [replay EXCEPT ![c] = @ \ {o}]
  /\ UNCHANGED <<engineVars, at, held, shellVars>>

StartLoop(c) ==
  /\ at[c] = "replay"
  /\ replay[c] = {}
  /\ Go(c, "loop")
  /\ UNCHANGED <<engineVars, hubVars, held, replay, shellVars>>

\* accept: the user answers what is shown.  If the offer is not parked any
\* more, resolveOffer returns without a word.
Answer(c, o) ==
  /\ at[c] = "loop" /\ c \in open
  /\ view[c].offers[o] > 0
  /\ o \in offers
  /\ offers' = offers \ {o}
  /\ held' = [held EXCEPT ![c] = Line("offerDone", o)]
  /\ Go(c, "tell")
  /\ UNCHANGED <<announcing, expired, used, history, telling, since, settings, hubVars,
                 replay, shellVars>>

\* set: change the configuration ...
Change(c) ==
  /\ at[c] = "loop" /\ c \in open
  /\ settings < MaxSets
  /\ settings' = settings + 1
  /\ Go(c, "status")
  /\ UNCHANGED <<offers, announcing, expired, used, history, telling, since, hubVars,
                 held, replay, shellVars>>

\* ... then read it ...
ComposeStatus(c) ==
  /\ at[c] = "status"
  /\ held' = [held EXCEPT ![c] = Line("status", settings)]
  /\ Go(c, "tell")
  /\ UNCHANGED <<engineVars, hubVars, replay, shellVars>>

\* ... and broadcast it, as for an offer that was answered.
Tell(c) ==
  /\ at[c] = "tell"
  /\ Broadcast(held[c])
  /\ held' = [held EXCEPT ![c] = NoEvent]
  /\ Go(c, "loop")
  /\ UNCHANGED <<engineVars, replay, shellVars>>

\* The scanner sees the end of the connection.  The writer goroutine drains
\* what is left in the queue into nothing.
HangUp(c) ==
  /\ at[c] = "loop" /\ c \notin open
  /\ Leave(c)
  /\ out' = [out EXCEPT ![c] = <<>>]
  /\ Go(c, "gone")
  /\ UNCHANGED <<engineVars, held, replay, shellVars>>

\* The writer goroutine, and the client at the other end.
Deliver(c) ==
  /\ c \in open
  /\ out[c] # <<>>
  /\ view' = [view EXCEPT ![c] = Shown(@, Head(out[c]))]
  /\ out' = [out EXCEPT ![c] = Tail(@)]
  /\ UNCHANGED <<engineVars, members, closed, panicked, serveVars, open>>

\* The writer drained a queue the hub closed, or the client went away, and
\* with it what it showed.
Disconnect(c) ==
  /\ c \in open
  /\ open' = open \ {c}
  /\ view' = [view EXCEPT ![c] = Blank]
  /\ since' = [since EXCEPT ![c] = {}]
  /\ UNCHANGED <<offers, announcing, expired, used, history, telling, settings, hubVars,
                 serveVars>>

-----------------------------------------------------------------------------
\* The goroutines that broadcast.

\* holdOffer parks an offer ...
Park(o) ==
  /\ announcing = NoOffer
  /\ o \notin used
  /\ offers' = offers \cup {o}
  /\ used' = used \cup {o}
  /\ announcing' = o
  /\ UNCHANGED <<expired, history, telling, since, settings, hubVars, serveVars, shellVars>>

\* ... and tells the clients.
Announce ==
  /\ announcing # NoOffer
  /\ Broadcast(Line("offer", announcing))
  /\ announcing' = NoOffer
  /\ UNCHANGED <<offers, expired, used, history, telling, since, settings, serveVars, shellVars>>

\* resolveOffer for the hold timer, which is set after the announcement.
Expire(o) ==
  /\ o \in offers
  /\ o # announcing
  /\ offers' = offers \ {o}
  /\ expired' = expired \cup {o}
  /\ UNCHANGED <<announcing, used, history, telling, since, settings, hubVars, serveVars,
                 shellVars>>

TellExpired(o) ==
  /\ o \in expired
  /\ Broadcast(Line("offerDone", o))
  /\ expired' = expired \ {o}
  /\ UNCHANGED <<offers, announcing, used, history, telling, since, settings, serveVars,
                 shellVars>>

\* recordMessage, by the message pump or by a send.
Record(m) ==
  /\ m \notin history
  /\ history' = history \cup {m}
  /\ telling' = telling \cup {m}
  /\ since' = [c \in Client |-> since[c] \cup IF c \in Served THEN {m} ELSE {}]
  /\ UNCHANGED <<offers, announcing, expired, used, settings, hubVars, serveVars, shellVars>>

TellMessage(m) ==
  /\ m \in telling
  /\ Broadcast(Line("message", m))
  /\ telling' = telling \ {m}
  /\ UNCHANGED <<offers, announcing, expired, used, history, since, settings, serveVars,
                 shellVars>>

-----------------------------------------------------------------------------
Serve(c) ==
  \/ Compose(c) \/ Greet(c) \/ ReadParked(c) \/ StartLoop(c)
  \/ \E o \in Offer : ReplayOffer(c, o)
  \/ ComposeStatus(c) \/ Tell(c) \/ HangUp(c)

Engine ==
  \/ Announce
  \/ \E o \in Offer : TellExpired(o)
  \/ \E m \in Message : TellMessage(m)

Next ==
  \/ \E c \in Client :
       \/ Serve(c) \/ Deliver(c)
       \/ Connect(c) \/ Disconnect(c) \/ Change(c)
       \/ \E o \in Offer : Answer(c, o)
  \/ Engine
  \/ \E o \in Offer : Park(o) \/ Expire(o)
  \/ \E m \in Message : Record(m)

Spec == Init /\ [][Next]_vars

-----------------------------------------------------------------------------
(* Properties *)

\* Nobody sends on a queue that was closed or closes it twice (the comment of
\* sendTo): the hub throws a client out while its own goroutine still greets
\* it and before it hangs up.
NoPanic == ~panicked

\* A prompt is never lost: every client that was greeted and kept up shows, or
\* is about to read, every parked offer that was announced, also one parked
\* while it connected ("a shell restart inside the accept window must not lose
\* the prompt", comment in serveClient).
PromptsComplete ==
  \A c \in Served, o \in offers \ {announcing} : Settled(c).offers[o] > 0

\* After the greeting no message is lost and none is shown twice, whatever
\* other connections are greeted with meanwhile.
MessagesReach ==
  \A c \in Served : \A m \in since[c] \ telling : Settled(c).messages[m] = 1

\* "resolveOffer answers a parked offer exactly once and tells the clients": once
\* all that was decided has been told, no client is left with the prompt of an
\* offer that is gone.
Quiet ==
  /\ announcing = NoOffer /\ expired = {}
  /\ \A c \in Client : at[c] # "tell"

ToldOfTheEnd ==
  Quiet => \A c \in Served, o \in Offer : Settled(c).offers[o] > 0 => o \in offers

\* handleSet "Broadcasts a fresh status afterwards": once every change has been
\* told, the clients show the present settings.
StatusFresh ==
  (\A c \in Client : at[c] \notin {"status", "tell"})
    => \A c \in Served : Settled(c).status = settings

\* "the Messages tab keeps the recent conversation" (README of the repository):
\* a client that was greeted and kept up shows, or is about to read, every
\* message that was recorded and broadcast.
MessagesComplete ==
  \A c \in Served, m \in history \ telling : Settled(c).messages[m] > 0
=============================================================================
