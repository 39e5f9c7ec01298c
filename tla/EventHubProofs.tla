--------------------------- MODULE EventHubProofs ---------------------------
(***************************************************************************)
(* What holds of EventHub for every number of connections, offers and      *)
(* messages and every capacity of a queue: nobody sends on a closed queue, *)
(* no greeted client misses a prompt, and a message recorded while a       *)
(* client is served reaches it exactly once.                               *)
(*                                                                         *)
(* The last two speak of what a client shows after it has read all that is *)
(* queued for it, so the proof needs three facts about ReadAll: nothing to *)
(* read changes nothing, a line queued is the last one read, and a line    *)
(* delivered is the first one read.  They are proved by induction on the   *)
(* length of the queue, with NatSets in the place of the rule of           *)
(* induction.                                                              *)
(***************************************************************************)
EXTENDS EventHub, WellFoundedInduction, TLAPS

-----------------------------------------------------------------------------
(* Reading a queue *)

\* A set of numbers that holds 0 and the successor of each of its members
\* holds every number: induction, for a set in the place of a predicate.
LEMMA NatSets ==
  ASSUME NEW T, 0 \in T, \A n \in Nat : n \in T => n + 1 \in T
  PROVE  \A n \in Nat : n \in T
<1>. DEFINE less == OpToRel(<, Nat)
            Missing == {n \in Nat : n \notin T}
<1>. SUFFICES ASSUME Missing # {} PROVE FALSE
  OBVIOUS
<1>1. \A x, y \in Nat : y < x => <<y, x>> \in less
  BY DEF OpToRel
<1>2. IsWellFoundedOn(less, Nat)
  BY NatLessThanWellFounded
<1>3. \E x \in Missing : \A y \in Missing : ~ (<<y, x>> \in less)
  <2>. HIDE DEF less
  <2>. QED BY <1>2, WFMin
<1>4. PICK x \in Missing : \A y \in Missing : ~ (<<y, x>> \in less)
  BY <1>3
<1>5. x # 0 /\ x \in Nat
  OBVIOUS
<1>6. x - 1 \in Nat /\ x - 1 < x /\ (x - 1) + 1 = x
  BY <1>5
<1>7. x - 1 \in Missing
  BY <1>4, <1>6
<1>. QED
  BY <1>1, <1>4, <1>5, <1>6, <1>7

\* after lists what v becomes as the first n lines of s are read.
Reads(after, v, s, n) ==
  after = [i \in 0 .. n |-> IF i = 0 THEN v ELSE Shown(after[i - 1], s[i])]

\* There is such a list for every number of lines, which is what gives the
\* function in ReadAll its values.
LEMMA ReadsExist ==
  ASSUME NEW v, NEW s
  PROVE  \A n \in Nat : \E after : Reads(after, v, s, n)
<1>. DEFINE T == {n \in Nat : \E after : Reads(after, v, s, n)}
<1>1. 0 \in T
  <2>1. Reads([i \in 0 .. 0 |-> v], v, s, 0)
    BY DEF Reads
  <2>. QED BY <2>1
<1>2. ASSUME NEW n \in Nat, n \in T PROVE n + 1 \in T
  <2>. PICK g : Reads(g, v, s, n)
    BY <1>2
  <2>. DEFINE h == [i \in 0 .. n + 1 |-> IF i = n + 1 THEN Shown(g[n], s[n + 1]) ELSE g[i]]
  <2>1. \A i \in 0 .. n + 1 : h[i] = IF i = 0 THEN v ELSE Shown(h[i - 1], s[i])
    <3>. SUFFICES ASSUME NEW i \in 0 .. n + 1
                  PROVE  h[i] = IF i = 0 THEN v ELSE Shown(h[i - 1], s[i])
      OBVIOUS
    <3>1. CASE i = n + 1
      <4>1. h[i] = Shown(g[n], s[n + 1]) /\ i # 0 /\ i - 1 = n /\ h[n] = g[n]
        BY <3>1
      <4>. QED BY <3>1, <4>1
    <3>2. CASE i \in 0 .. n
      <4>1. h[i] = g[i] /\ g[i] = IF i = 0 THEN v ELSE Shown(g[i - 1], s[i])
        BY <3>2 DEF Reads
      <4>2. i # 0 => i - 1 \in 0 .. n /\ h[i - 1] = g[i - 1]
        BY <3>2
      <4>. QED BY <4>1, <4>2
    <3>. QED BY <3>1, <3>2
  <2>2. Reads(h, v, s, n + 1)
    BY <2>1 DEF Reads
  <2>. QED BY <2>2
<1>. HIDE DEF T
<1>3. \A n \in Nat : n \in T
  BY <1>1, <1>2, NatSets
<1>. QED
  BY <1>3 DEF T

\* ReadAll is the last entry of that list.
LEMMA ReadAllIs ==
  ASSUME NEW v, NEW s, Len(s) \in Nat
  PROVE  \E after : Reads(after, v, s, Len(s)) /\ ReadAll(v, s) = after[Len(s)]
<1>. DEFINE after == CHOOSE g : Reads(g, v, s, Len(s))
<1>1. Reads(after, v, s, Len(s))
  BY ReadsExist
<1>2. ReadAll(v, s) = after[Len(s)]
  BY DEF ReadAll, Reads
<1>. QED
  BY <1>1, <1>2

\* Reading nothing changes nothing.
LEMMA ReadNone ==
  ASSUME NEW v
  PROVE  ReadAll(v, <<>>) = v
<1>1. PICK g : Reads(g, v, <<>>, Len(<<>>)) /\ ReadAll(v, <<>>) = g[Len(<<>>)]
  BY ReadAllIs
<1>. QED
  BY <1>1 DEF Reads

\* A line that is appended is the last one read.
LEMMA ReadAppended ==
  ASSUME NEW S, NEW v, NEW s \in Seq(S), NEW x \in S
  PROVE  ReadAll(v, Append(s, x)) = Shown(ReadAll(v, s), x)
<1>. DEFINE t == Append(s, x)
            n == Len(s)
<1>0. t \in Seq(S) /\ Len(t) = n + 1 /\ t[n + 1] = x /\ \A i \in 1 .. n : t[i] = s[i]
  OBVIOUS
<1>00. n \in Nat
  OBVIOUS
<1>1. PICK g : Reads(g, v, s, n) /\ ReadAll(v, s) = g[n]
  BY ReadAllIs
<1>2. PICK h : Reads(h, v, t, n + 1) /\ ReadAll(v, t) = h[n + 1]
  <2>. HIDE DEF t, n
  <2>1. Len(t) \in Nat
    BY <1>0, <1>00
  <2>2. \E h : Reads(h, v, t, Len(t)) /\ ReadAll(v, t) = h[Len(t)]
    BY <2>1, ReadAllIs
  <2>. QED BY <2>2, <1>0
<1>. HIDE DEF t, n
<1>. DEFINE T == {i \in Nat : i <= n => g[i] = h[i]}
<1>3. 0 \in T
  BY <1>1, <1>2, <1>00 DEF Reads
<1>4. ASSUME NEW i \in Nat, i \in T PROVE i + 1 \in T
  <2>. SUFFICES ASSUME i + 1 <= n PROVE g[i + 1] = h[i + 1]
    OBVIOUS
  <2>1. g[i] = h[i] /\ s[i + 1] = t[i + 1]
    BY <1>4, <1>0, <1>00
  <2>2. i + 1 \in 0 .. n /\ i + 1 \in 0 .. n + 1 /\ (i + 1) - 1 = i /\ i + 1 # 0
    BY <1>00
  <2>3. g[i + 1] = Shown(g[i], s[i + 1])
    BY <1>1, <2>2 DEF Reads
  <2>4. h[i + 1] = Shown(h[i], t[i + 1])
    BY <1>2, <2>2 DEF Reads
  <2>. QED BY <2>1, <2>3, <2>4
<1>. HIDE DEF T
<1>5. \A i \in Nat : i \in T
  BY <1>3, <1>4, NatSets
<1>6. g[n] = h[n]
  BY <1>5, <1>00 DEF T
<1>7. h[n + 1] = Shown(h[n], t[n + 1])
  <2>1. n + 1 \in 0 .. n + 1 /\ n + 1 # 0 /\ (n + 1) - 1 = n
    BY <1>00
  <2>. QED BY <1>2, <2>1 DEF Reads
<1>8. ReadAll(v, t) = Shown(ReadAll(v, s), x)
  BY <1>0, <1>1, <1>2, <1>6, <1>7
<1>. QED
  BY <1>8 DEF t

\* The line at the head is the first one read.
LEMMA ReadDelivered ==
  ASSUME NEW S, NEW v, NEW s \in Seq(S), s # <<>>
  PROVE  ReadAll(Shown(v, Head(s)), Tail(s)) = ReadAll(v, s)
<1>. DEFINE t == Tail(s)
            n == Len(t)
            w == Shown(v, Head(s))
<1>0. t \in Seq(S) /\ Len(s) = n + 1 /\ Head(s) = s[1] /\ \A i \in 1 .. n : t[i] = s[i + 1]
  OBVIOUS
<1>00. n \in Nat
  BY <1>0
<1>1. PICK g : Reads(g, v, s, n + 1) /\ ReadAll(v, s) = g[n + 1]
  BY ReadAllIs, <1>0, <1>00
<1>2. PICK h : Reads(h, w, t, n) /\ ReadAll(w, t) = h[n]
  BY ReadAllIs, <1>0, <1>00
<1>01. w = Shown(v, s[1])
  BY <1>0
<1>. HIDE DEF t, n, w
<1>. DEFINE T == {i \in Nat : i <= n => h[i] = g[i + 1]}
<1>3. 0 \in T
  <2>1. h[0] = w
    BY <1>2, <1>00 DEF Reads
  <2>2. g[0] = v
    BY <1>1, <1>00 DEF Reads
  <2>3. 1 \in 0 .. n + 1 /\ 1 - 1 = 0 /\ 1 # 0
    BY <1>00
  <2>4. g[1] = Shown(g[0], s[1])
    BY <1>1, <2>3 DEF Reads
  <2>. QED BY <2>1, <2>2, <2>4, <1>01
<1>4. ASSUME NEW i \in Nat, i \in T PROVE i + 1 \in T
  <2>. SUFFICES ASSUME i + 1 <= n PROVE h[i + 1] = g[(i + 1) + 1]
    OBVIOUS
  <2>. DEFINE j == i + 1
  <2>1. h[i] = g[j] /\ t[j] = s[j + 1]
    BY <1>4, <1>0, <1>00
  <2>2. j \in 0 .. n /\ j - 1 = i /\ j # 0 /\ j + 1 \in 0 .. n + 1 /\ (j + 1) - 1 = j /\ j + 1 # 0
    BY <1>00
  <2>3. h[j] = Shown(h[i], t[j])
    BY <1>2, <2>2 DEF Reads
  <2>4. g[j + 1] = Shown(g[j], s[j + 1])
    BY <1>1, <2>2 DEF Reads
  <2>. QED BY <2>1, <2>3, <2>4
<1>. HIDE DEF T
<1>5. \A i \in Nat : i \in T
  BY <1>3, <1>4, NatSets
<1>6. h[n] = g[n + 1]
  BY <1>5, <1>00 DEF T
<1>7. ReadAll(w, t) = ReadAll(v, s)
  BY <1>1, <1>2, <1>6
<1>. QED
  BY <1>7 DEF t, w

-----------------------------------------------------------------------------
(* Lines and what they do to a view *)

\* The lines the engine sends.
Lines ==
  [kind : {"ready", "status"}, data : 0 .. MaxSets]
    \cup [kind : {"messages"}, data : SUBSET Message]
    \cup [kind : {"message"}, data : Message]
    \cup [kind : {"offer", "offerDone"}, data : Offer]

\* What a client can show.
Views == [status : 0 .. MaxSets, offers : [Offer -> Nat], messages : [Message -> Nat]]

\* A ready line takes the status from the engine and removes the prompts.
LEMMA ReadyShown ==
  ASSUME NEW v \in Views, NEW n \in 0 .. MaxSets
  PROVE  /\ Line("ready", n) \in Lines
         /\ Shown(v, Line("ready", n)) \in Views
         /\ Shown(v, Line("ready", n)).messages = v.messages
  BY DEF Views, Lines, Line, Shown

\* A status line touches neither prompts nor messages.
LEMMA StatusShown ==
  ASSUME NEW v \in Views, NEW n \in 0 .. MaxSets
  PROVE  /\ Line("status", n) \in Lines
         /\ Shown(v, Line("status", n)) \in Views
         /\ Shown(v, Line("status", n)).offers = v.offers
         /\ Shown(v, Line("status", n)).messages = v.messages
  BY DEF Views, Lines, Line, Shown

\* The history shows each of its messages once and no other.
LEMMA HistoryShown ==
  ASSUME NEW v \in Views, NEW ms \in SUBSET Message
  PROVE  /\ Line("messages", ms) \in Lines
         /\ Shown(v, Line("messages", ms)) \in Views
         /\ Shown(v, Line("messages", ms)).offers = v.offers
         /\ \A m \in Message \ ms : Shown(v, Line("messages", ms)).messages[m] = 0
  BY DEF Views, Lines, Line, Shown

\* A message is shown once more, and nothing else changes.
LEMMA MessageShown ==
  ASSUME NEW v \in Views, NEW m \in Message
  PROVE  /\ Line("message", m) \in Lines
         /\ Shown(v, Line("message", m)) \in Views
         /\ Shown(v, Line("message", m)).offers = v.offers
         /\ Shown(v, Line("message", m)).messages[m] = v.messages[m] + 1
         /\ \A k \in Message \ {m} :
              Shown(v, Line("message", m)).messages[k] = v.messages[k]
  BY DEF Views, Lines, Line, Shown

\* An offer is prompted for, and no other prompt changes.
LEMMA OfferShown ==
  ASSUME NEW v \in Views, NEW o \in Offer
  PROVE  /\ Line("offer", o) \in Lines
         /\ Shown(v, Line("offer", o)) \in Views
         /\ Shown(v, Line("offer", o)).offers[o] > 0
         /\ \A k \in Offer \ {o} : Shown(v, Line("offer", o)).offers[k] = v.offers[k]
         /\ Shown(v, Line("offer", o)).messages = v.messages
  BY DEF Views, Lines, Line, Shown

\* The end of an offer removes its prompt, and no other prompt changes.
LEMMA OfferDoneShown ==
  ASSUME NEW v \in Views, NEW o \in Offer
  PROVE  /\ Line("offerDone", o) \in Lines
         /\ Shown(v, Line("offerDone", o)) \in Views
         /\ \A k \in Offer \ {o} : Shown(v, Line("offerDone", o)).offers[k] = v.offers[k]
         /\ Shown(v, Line("offerDone", o)).messages = v.messages
  BY DEF Views, Lines, Line, Shown

\* Whatever the line, a view stays a view.
LEMMA ShownTyped ==
  ASSUME NEW v \in Views, NEW x \in Lines
  PROVE  Shown(v, x) \in Views
<1>1. CASE x \in [kind : {"ready", "status"}, data : 0 .. MaxSets]
  <2>1. x = Line("ready", x.data) \/ x = Line("status", x.data)
    BY <1>1 DEF Line
  <2>2. x.data \in 0 .. MaxSets
    BY <1>1
  <2>. QED BY <2>1, <2>2, ReadyShown, StatusShown
<1>2. CASE x \in [kind : {"messages"}, data : SUBSET Message]
  <2>1. x = Line("messages", x.data) /\ x.data \in SUBSET Message
    BY <1>2 DEF Line
  <2>. QED BY <2>1, HistoryShown
<1>3. CASE x \in [kind : {"message"}, data : Message]
  <2>1. x = Line("message", x.data) /\ x.data \in Message
    BY <1>3 DEF Line
  <2>. QED BY <2>1, MessageShown
<1>4. CASE x \in [kind : {"offer", "offerDone"}, data : Offer]
  <2>1. x = Line("offer", x.data) \/ x = Line("offerDone", x.data)
    BY <1>4 DEF Line
  <2>2. x.data \in Offer
    BY <1>4
  <2>. QED BY <2>1, <2>2, OfferShown, OfferDoneShown
<1>. QED
  BY <1>1, <1>2, <1>3, <1>4 DEF Lines

\* ... also after a whole queue of them.
LEMMA ReadAllTyped ==
  ASSUME NEW v \in Views, NEW s \in Seq(Lines)
  PROVE  ReadAll(v, s) \in Views
<1>. DEFINE n == Len(s)
<1>0. n \in Nat /\ \A i \in 1 .. n : s[i] \in Lines
  OBVIOUS
<1>1. PICK g : Reads(g, v, s, n) /\ ReadAll(v, s) = g[n]
  BY ReadAllIs, <1>0
<1>. HIDE DEF n
<1>. DEFINE T == {i \in Nat : i <= n => g[i] \in Views}
<1>2. 0 \in T
  BY <1>0, <1>1 DEF Reads
<1>3. ASSUME NEW i \in Nat, i \in T PROVE i + 1 \in T
  <2>. SUFFICES ASSUME i + 1 <= n PROVE g[i + 1] \in Views
    OBVIOUS
  <2>1. g[i] \in Views /\ s[i + 1] \in Lines
    BY <1>0, <1>3
  <2>2. i + 1 \in 0 .. n /\ (i + 1) - 1 = i /\ i + 1 # 0
    BY <1>0
  <2>3. g[i + 1] = Shown(g[i], s[i + 1])
    BY <1>1, <2>2 DEF Reads
  <2>. QED BY <2>1, <2>3, ShownTyped
<1>. HIDE DEF T
<1>4. \A i \in Nat : i \in T
  BY <1>2, <1>3, NatSets
<1>. QED
  BY <1>0, <1>1, <1>4 DEF T

-----------------------------------------------------------------------------
(* The inductive invariant *)

\* Where the goroutine of a connection is once it has greeted its client.
Working == {"loop", "status", "tell"}

OffersOK ==
  /\ offers \subseteq used /\ used \subseteq Offer
  /\ expired \subseteq used \ offers
  /\ announcing \in Offer \cup {NoOffer}

RecordsOK ==
  /\ telling \subseteq history /\ history \subseteq Message
  /\ settings \in 0 .. MaxSets

\* A member's queue is not closed.
HubOK ==
  /\ members \subseteq Client /\ closed \subseteq Client /\ open \subseteq Client
  /\ members \cap closed = {}

\* No goroutine panicked.
CalmOK == panicked = FALSE

QueuesOK ==
  /\ out \in [Client -> Seq(Lines)]
  /\ \A c \in Client : Len(out[c]) <= OutCap
  /\ view \in [Client -> Views]

ServersOK ==
  /\ at \in [Client -> Greeting \cup Working \cup {"new", "gone"}]
  /\ held \in [Client -> Lines \cup {NoEvent}]
  /\ replay \in [Client -> SUBSET used]
  /\ since \in [Client -> SUBSET history]

\* A connection that was not made yet has left no trace.
NewOK(c) ==
  at[c] = "new" =>
    /\ c \notin members \cup closed \cup open
    /\ out[c] = <<>> /\ view[c] = Blank
    /\ held[c] = NoEvent

\* What a goroutine has in hand fits the place it is at; an offer whose end it
\* tells is not parked and will not be again.
HeldOK(c) ==
  /\ at[c] = "ready" /\ held[c] # NoEvent
       => \E n \in 0 .. MaxSets : held[c] = Line("ready", n)
  /\ at[c] = "history" /\ held[c] # NoEvent
       => \E ms \in SUBSET history : held[c] = Line("messages", ms)
  /\ at[c] = "tell"
       => \/ \E n \in 0 .. MaxSets : held[c] = Line("status", n)
          \/ \E o \in used \ offers : held[c] = Line("offerDone", o)

\* While the parked offers are replayed, each one is either still to be
\* replayed or on its way to the client already.
PromptOK(c) ==
  c \in members \cap open =>
    \A o \in offers \ {announcing} :
      /\ at[c] = "replay" => o \in replay[c] \/ Settled(c).offers[o] > 0
      /\ at[c] \in Working => Settled(c).offers[o] > 0

\* A message that was not recorded is on its way to nobody; one recorded while
\* the client was served is until it is broadcast, and then once.
MessageOK(c) ==
  /\ at[c] \in Greeting \cup {"new"} => since[c] = {}
  /\ c \in members \cap open =>
       \A m \in Message \ history : Settled(c).messages[m] = 0
  /\ c \in members \cap open /\ at[c] \in Working =>
       \A m \in since[c] : Settled(c).messages[m] = IF m \in telling THEN 0 ELSE 1

TypesOK == OffersOK /\ RecordsOK /\ HubOK /\ QueuesOK /\ ServersOK

IInv ==
  /\ TypesOK
  /\ CalmOK
  /\ \A c \in Client : NewOK(c) /\ HeldOK(c)
  /\ \A c \in Client : PromptOK(c) /\ MessageOK(c)

-----------------------------------------------------------------------------
(* What the operations do to what a client will show *)

\* What a client will show is a view.
LEMMA SettledTyped ==
  ASSUME QueuesOK, NEW c \in Client
  PROVE  Settled(c) \in Views
<1>1. view[c] \in Views /\ out[c] \in Seq(Lines)
  BY DEF QueuesOK
<1>. QED
  BY <1>1, ReadAllTyped DEF Settled

\* It depends on the connection's own queue and view only.
LEMMA SettledSame ==
  ASSUME NEW c \in Client, out'[c] = out[c], view'[c] = view[c]
  PROVE  Settled(c)' = Settled(c)
BY DEF Settled

\* A hold of the hub's lock: the members that are left are among those before,
\* no queue of theirs is closed, and those the line was queued for will have
\* read it last.
LEMMA QueueStep ==
  ASSUME EventHubAssumption, HubOK, QueuesOK, NEW line \in Lines,
         NEW to \in SUBSET members, Queue(to, line), UNCHANGED <<open, view>>
  PROVE  /\ HubOK' /\ QueuesOK'
         /\ members' \subseteq members /\ closed' \subseteq closed \cup members
         /\ to \cap closed = {}
         /\ \A c \in Client \ to : Settled(c)' = Settled(c) /\ out'[c] = out[c]
         /\ \A c \in to \cap members' : Settled(c)' = Shown(Settled(c), line)
<1>. DEFINE full == {c \in to : ~HasRoom(c)}
<1>1. /\ members' = members \ full /\ closed' = closed \cup full
      /\ out' = [c \in Client |-> IF c \in to \ full THEN Append(out[c], line) ELSE out[c]]
  BY DEF Queue, Drop
<1>2. full \subseteq members /\ to \subseteq Client /\ to \cap closed = {}
  BY DEF HubOK
<1>3. HubOK'
  BY <1>1, <1>2 DEF HubOK
<1>4. ASSUME NEW c \in to \ full
      PROVE  /\ out'[c] = Append(out[c], line) /\ out'[c] \in Seq(Lines)
             /\ Len(out'[c]) <= OutCap
  <2>1. out[c] \in Seq(Lines) /\ Len(out[c]) < OutCap /\ Len(out[c]) \in Nat
    BY <1>2, <1>4 DEF QueuesOK, HasRoom
  <2>2. out'[c] = Append(out[c], line)
    BY <1>1, <1>2, <1>4
  <2>3. Append(out[c], line) \in Seq(Lines) /\ Len(Append(out[c], line)) = Len(out[c]) + 1
    BY <2>1
  <2>. QED BY <2>1, <2>2, <2>3 DEF EventHubAssumption
<1>5. \A c \in Client : c \notin to \ full => out'[c] = out[c]
  BY <1>1
<1>. HIDE DEF full
<1>6. QueuesOK'
  <2>1. \A c \in Client : out'[c] \in Seq(Lines) /\ Len(out'[c]) <= OutCap
    BY <1>4, <1>5 DEF QueuesOK
  <2>2. out' \in [Client -> Seq(Lines)]
    BY <1>1, <2>1
  <2>. QED BY <2>1, <2>2 DEF QueuesOK
<1>7. \A c \in Client \ to : Settled(c)' = Settled(c) /\ out'[c] = out[c]
  BY <1>5, SettledSame
<1>8. ASSUME NEW c \in to \cap members' PROVE Settled(c)' = Shown(Settled(c), line)
  <2>1. c \in to \ full /\ c \in Client
    BY <1>1, <1>2, <1>8
  <2>2. out'[c] = Append(out[c], line) /\ out[c] \in Seq(Lines) /\ view'[c] = view[c]
    BY <1>4, <2>1 DEF QueuesOK
  <2>3. ReadAll(view[c], Append(out[c], line)) = Shown(ReadAll(view[c], out[c]), line)
    BY <2>2, ReadAppended
  <2>. QED BY <2>2, <2>3 DEF Settled
<1>. QED
  BY <1>1, <1>2, <1>3, <1>6, <1>7, <1>8

\* A line that moves from the queue into the view makes no difference.
LEMMA DeliverStep ==
  ASSUME EventHubAssumption, QueuesOK, NEW c \in Client, Deliver(c)
  PROVE  QueuesOK' /\ \A d \in Client : Settled(d)' = Settled(d)
<1>1. /\ out[c] \in Seq(Lines) /\ out[c] # <<>> /\ view[c] \in Views
      /\ Len(out[c]) <= OutCap /\ OutCap \in Int
  BY DEF QueuesOK, Deliver, EventHubAssumption
<1>2. /\ Head(out[c]) \in Lines /\ Tail(out[c]) \in Seq(Lines)
      /\ Len(Tail(out[c])) <= OutCap
  BY <1>1
<1>3. /\ out' = [out EXCEPT ![c] = Tail(out[c])]
      /\ view' = [view EXCEPT ![c] = Shown(view[c], Head(out[c]))]
  BY DEF Deliver
<1>4. Shown(view[c], Head(out[c])) \in Views
  BY <1>1, <1>2, ShownTyped
<1>5. QueuesOK'
  BY <1>2, <1>3, <1>4 DEF QueuesOK
<1>6. Settled(c)' = Settled(c)
  <2>1. out'[c] = Tail(out[c]) /\ view'[c] = Shown(view[c], Head(out[c]))
    BY <1>3 DEF QueuesOK
  <2>2. ReadAll(Shown(view[c], Head(out[c])), Tail(out[c])) = ReadAll(view[c], out[c])
    BY <1>1, ReadDelivered
  <2>. QED BY <2>1, <2>2 DEF Settled
<1>7. ASSUME NEW d \in Client, d # c PROVE Settled(d)' = Settled(d)
  <2>1. out'[d] = out[d] /\ view'[d] = view[d]
    BY <1>3, <1>7 DEF QueuesOK
  <2>. QED BY <2>1, SettledSame
<1>. QED
  BY <1>5, <1>6, <1>7

-----------------------------------------------------------------------------
(* The invariant holds at the start *)

\* A client that has read nothing.
LEMMA BlankIsView ==
  ASSUME EventHubAssumption
  PROVE  Blank \in Views
BY DEF Blank, Views, EventHubAssumption

\* At the start there are no connections.
LEMMA InitIInv ==
  ASSUME EventHubAssumption, Init
  PROVE  IInv
<1>1. OffersOK /\ RecordsOK /\ HubOK
  BY DEF Init, OffersOK, RecordsOK, HubOK, EventHubAssumption
<1>2. QueuesOK
  <2>1. <<>> \in Seq(Lines) /\ Len(<<>>) = 0
    OBVIOUS
  <2>. QED BY <2>1, BlankIsView DEF Init, QueuesOK, EventHubAssumption
<1>3. ServersOK
  BY DEF Init, ServersOK, Working
<1>4. CalmOK
  BY Zenon DEF Init, CalmOK
<1>5. \A c \in Client : NewOK(c) /\ HeldOK(c)
  BY DEF Init, NewOK, HeldOK
<1>6. \A c \in Client : PromptOK(c) /\ MessageOK(c)
  BY DEF Init, PromptOK, MessageOK
<1>. QED
  BY <1>1, <1>2, <1>3, <1>4, <1>5, <1>6 DEF IInv, TypesOK

-----------------------------------------------------------------------------
(* Every step keeps the types *)

\* What a goroutine is about to send is a line.
LEMMA HeldIsLine ==
  ASSUME IInv, NEW c \in Client,
         at[c] = "tell" \/ (at[c] \in {"ready", "history"} /\ held[c] # NoEvent)
  PROVE  held[c] \in Lines
<1>1. HeldOK(c) /\ history \subseteq Message /\ used \subseteq Offer
  BY DEF IInv, TypesOK, RecordsOK, OffersOK
<1>2. \A n \in 0 .. MaxSets : Line("ready", n) \in Lines /\ Line("status", n) \in Lines
  BY DEF Lines, Line
<1>3. \A ms \in SUBSET Message : Line("messages", ms) \in Lines
  BY DEF Lines, Line
<1>4. \A o \in Offer : Line("offerDone", o) \in Lines
  BY DEF Lines, Line
<1>5. \A ms \in SUBSET history : ms \in SUBSET Message
  BY <1>1
<1>. HIDE DEF IInv
<1>. QED
  BY <1>1, <1>2, <1>3, <1>4, <1>5 DEF HeldOK

\* The four who tell all the members ...
LEMMA BroadcastStep ==
  ASSUME EventHubAssumption, IInv, NEW line \in Lines, Broadcast(line),
         UNCHANGED <<open, view>>
  PROVE  /\ HubOK' /\ QueuesOK'
         /\ members' \subseteq members /\ closed' \subseteq closed \cup members
         /\ members \cap closed = {}
         /\ \A c \in Client \ members : Settled(c)' = Settled(c) /\ out'[c] = out[c]
         /\ \A c \in members' : Settled(c)' = Shown(Settled(c), line)
<1>1. HubOK /\ QueuesOK /\ Queue(members, line)
  BY DEF IInv, TypesOK, Broadcast
<1>2. members \in SUBSET members
  OBVIOUS
<1>. HIDE DEF IInv
<1>3. /\ HubOK' /\ QueuesOK'
      /\ members' \subseteq members /\ closed' \subseteq closed \cup members
      /\ members \cap closed = {}
      /\ \A c \in Client \ members : Settled(c)' = Settled(c) /\ out'[c] = out[c]
      /\ \A c \in members \cap members' : Settled(c)' = Shown(Settled(c), line)
  BY <1>1, <1>2, QueueStep
<1>. QED
  BY <1>3

\* ... and the two who greet one of them.
LEMMA SendToStep ==
  ASSUME EventHubAssumption, IInv, NEW c \in Client, NEW line \in Lines,
         SendTo(c, line), UNCHANGED <<open, view>>
  PROVE  /\ HubOK' /\ QueuesOK'
         /\ members' \subseteq members /\ closed' \subseteq closed \cup members
         /\ \A d \in Client \ {c} : Settled(d)' = Settled(d) /\ out'[d] = out[d]
         /\ c \notin members => out'[c] = out[c]
         /\ c \in members' => Settled(c)' = Shown(Settled(c), line)
<1>. DEFINE to == {d \in {c} : CanSend(d)}
<1>1. HubOK /\ QueuesOK /\ Queue(to, line)
  BY DEF IInv, TypesOK, SendTo
<1>2. to \in SUBSET members /\ (c \in members => c \in to) /\ \A d \in to : d = c
  BY DEF CanSend
<1>. HIDE DEF IInv, to
<1>3. /\ HubOK' /\ QueuesOK'
      /\ members' \subseteq members /\ closed' \subseteq closed \cup members
      /\ \A d \in Client \ to : Settled(d)' = Settled(d) /\ out'[d] = out[d]
      /\ \A d \in to \cap members' : Settled(d)' = Shown(Settled(d), line)
  BY <1>1, <1>2, QueueStep
<1>. QED
  BY <1>2, <1>3

\* Every step keeps what is known of offers and of what was recorded.
LEMMA RecordsKept ==
  ASSUME EventHubAssumption, OffersOK, RecordsOK, Next
  PROVE  OffersOK' /\ RecordsOK'
<1>1. ASSUME NEW c \in Client, NEW o \in Offer, Answer(c, o) PROVE OffersOK' /\ RecordsOK'
  BY <1>1 DEF Answer, hubVars, OffersOK, RecordsOK
<1>2. ASSUME NEW c \in Client, Change(c) PROVE OffersOK' /\ RecordsOK'
  BY <1>2 DEF Change, hubVars, OffersOK, RecordsOK, EventHubAssumption
<1>3. ASSUME NEW c \in Client, Serve(c) \/ Deliver(c) \/ Connect(c) \/ Disconnect(c)
      PROVE  OffersOK' /\ RecordsOK'
  <2>1. UNCHANGED <<offers, announcing, expired, used, history, telling, settings>>
    BY <1>3 DEF Serve, Compose, Greet, ReadParked, StartLoop, ReplayOffer, ComposeStatus,
                Tell, HangUp, Deliver, Connect, Disconnect, engineVars
  <2>. QED BY <2>1 DEF OffersOK, RecordsOK
<1>4. CASE Engine
  BY <1>4 DEF Engine, Announce, TellExpired, TellMessage, OffersOK, RecordsOK
<1>5. CASE \E o \in Offer : Park(o) \/ Expire(o)
  BY <1>5 DEF Park, Expire, OffersOK, RecordsOK
<1>6. CASE \E m \in Message : Record(m)
  BY <1>6 DEF Record, OffersOK, RecordsOK
<1>. QED
  BY <1>1, <1>2, <1>3, <1>4, <1>5, <1>6 DEF Next

\* Every step keeps what is known of members, queues and views.
LEMMA QueuesKept ==
  ASSUME EventHubAssumption, IInv, Next
  PROVE  HubOK' /\ QueuesOK'
<1>. HubOK /\ QueuesOK /\ OffersOK /\ RecordsOK /\ ServersOK
  BY DEF IInv, TypesOK
<1>1. ASSUME UNCHANGED <<members, closed, open, out, view>> PROVE HubOK' /\ QueuesOK'
  BY <1>1 DEF HubOK, QueuesOK
<1>2. ASSUME NEW c \in Client, Serve(c) PROVE HubOK' /\ QueuesOK'
  <2>1. CASE Compose(c) \/ ReadParked(c) \/ StartLoop(c) \/ ComposeStatus(c)
    BY <1>1, <2>1 DEF Compose, ReadParked, StartLoop, ComposeStatus, hubVars, shellVars
  <2>2. CASE Greet(c)
    <3>1. PICK line \in Lines : line = held[c]
      BY <2>2, HeldIsLine DEF Greet
    <3>. QED BY <2>2, <3>1, SendToStep DEF Greet, shellVars
  <2>3. CASE \E o \in Offer : ReplayOffer(c, o)
    <3>1. PICK o \in Offer : ReplayOffer(c, o)
      BY <2>3
    <3>2. Line("offer", o) \in Lines
      BY DEF Lines, Line
    <3>. QED BY <3>1, <3>2, SendToStep DEF ReplayOffer, shellVars
  <2>4. CASE Tell(c)
    <3>1. PICK line \in Lines : line = held[c]
      BY <2>4, HeldIsLine DEF Tell
    <3>2. Broadcast(line) /\ UNCHANGED <<open, view>>
      BY <2>4, <3>1 DEF Tell, shellVars
    <3>. QED BY <3>2, BroadcastStep
  <2>5. CASE HangUp(c)
    <3>1. HubOK'
      BY <2>5 DEF HangUp, Leave, HubOK, shellVars
    <3>2. <<>> \in Seq(Lines) /\ Len(<<>>) = 0 /\ 0 <= OutCap
      BY DEF EventHubAssumption
    <3>3. QueuesOK'
      BY <2>5, <3>2 DEF HangUp, QueuesOK, shellVars
    <3>. QED BY <3>1, <3>3
  <2>. QED BY <1>2, <2>1, <2>2, <2>3, <2>4, <2>5 DEF Serve
<1>3. ASSUME NEW c \in Client, Deliver(c) PROVE HubOK' /\ QueuesOK'
  <2>1. HubOK'
    BY <1>3 DEF Deliver, HubOK
  <2>. QED BY <1>3, <2>1, DeliverStep
<1>4. ASSUME NEW c \in Client, Connect(c) PROVE HubOK' /\ QueuesOK'
  <2>1. NewOK(c)
    BY DEF IInv
  <2>2. HubOK'
    BY <1>4, <2>1 DEF Connect, Join, HubOK, NewOK
  <2>. QED BY <1>4, <2>2 DEF Connect, QueuesOK
<1>5. ASSUME NEW c \in Client, Disconnect(c) PROVE HubOK' /\ QueuesOK'
  <2>1. HubOK'
    BY <1>5 DEF Disconnect, hubVars, HubOK
  <2>2. Blank \in Views /\ view' = [view EXCEPT ![c] = Blank] /\ out' = out
    BY <1>5, BlankIsView DEF Disconnect, hubVars
  <2>3. view' \in [Client -> Views]
    BY <2>2 DEF QueuesOK
  <2>. QED BY <2>1, <2>2, <2>3 DEF QueuesOK
<1>6. ASSUME NEW c \in Client, Change(c) \/ \E o \in Offer : Answer(c, o)
      PROVE  HubOK' /\ QueuesOK'
  BY <1>1, <1>6 DEF Change, Answer, hubVars, shellVars
<1>7. CASE Engine
  <2>1. CASE Announce
    <3>1. Line("offer", announcing) \in Lines
      BY <2>1 DEF Announce, Lines, Line, OffersOK
    <3>. QED BY <2>1, <3>1, BroadcastStep DEF Announce, shellVars
  <2>2. CASE \E o \in Offer : TellExpired(o)
    <3>1. PICK o \in Offer : TellExpired(o)
      BY <2>2
    <3>2. Line("offerDone", o) \in Lines
      BY DEF Lines, Line
    <3>. QED BY <3>1, <3>2, BroadcastStep DEF TellExpired, shellVars
  <2>3. CASE \E m \in Message : TellMessage(m)
    <3>1. PICK m \in Message : TellMessage(m)
      BY <2>3
    <3>2. Line("message", m) \in Lines
      BY DEF Lines, Line
    <3>. QED BY <3>1, <3>2, BroadcastStep DEF TellMessage, shellVars
  <2>. QED BY <1>7, <2>1, <2>2, <2>3 DEF Engine
<1>8. CASE (\E o \in Offer : Park(o) \/ Expire(o)) \/ \E m \in Message : Record(m)
  BY <1>1, <1>8 DEF Park, Expire, Record, hubVars, shellVars
<1>. QED
  BY <1>2, <1>3, <1>4, <1>5, <1>6, <1>7, <1>8 DEF Next

\* Every step keeps what is known of the goroutines that serve connections.
LEMMA ServersKept ==
  ASSUME EventHubAssumption, IInv, Next
  PROVE  ServersOK'
<1>. OffersOK /\ RecordsOK /\ ServersOK
  BY DEF IInv, TypesOK
<1>. DEFINE Places == Greeting \cup Working \cup {"new", "gone"}
<1>1. \A n \in 0 .. MaxSets : Line("ready", n) \in Lines /\ Line("status", n) \in Lines
  BY DEF Lines, Line
<1>2. /\ \A o \in Offer : Line("offerDone", o) \in Lines
      /\ Line("messages", history) \in Lines
  BY DEF Lines, Line, RecordsOK
<1>3. ASSUME NEW c \in Client, NEW l \in Places, at' = [at EXCEPT ![c] = l]
      PROVE  at' \in [Client -> Places]
  BY <1>3 DEF ServersOK
<1>4. ASSUME NEW c \in Client, NEW e \in Lines \cup {NoEvent}, held' = [held EXCEPT ![c] = e]
      PROVE  held' \in [Client -> Lines \cup {NoEvent}]
  BY <1>4 DEF ServersOK
<1>5. {"ready", "history", "parked", "replay", "loop", "status", "tell", "gone"} \subseteq Places
  BY DEF Greeting, Working
<1>6. ServersOK <=> /\ at \in [Client -> Places]
                    /\ held \in [Client -> Lines \cup {NoEvent}]
                    /\ replay \in [Client -> SUBSET used]
                    /\ since \in [Client -> SUBSET history]
  BY DEF ServersOK
<1>7. ServersOK' <=> /\ at' \in [Client -> Places]
                     /\ held' \in [Client -> Lines \cup {NoEvent}]
                     /\ replay' \in [Client -> SUBSET used']
                     /\ since' \in [Client -> SUBSET history']
  BY DEF ServersOK
<1>. HIDE DEF Places
<1>8. ASSUME NEW c \in Client, Serve(c) PROVE ServersOK'
  <2>0. UNCHANGED <<used, history, since>>
    BY <1>8 DEF Serve, Compose, Greet, ReadParked, StartLoop, ReplayOffer, ComposeStatus,
                Tell, HangUp, engineVars
  <2>1. CASE Compose(c)
    BY <1>1, <1>2, <1>4, <1>6, <1>7, <2>0, <2>1
       DEF Compose, ComposeReady, ComposeHistory, RecordsOK
  <2>2. CASE Greet(c)
    <3>1. /\ held' = [held EXCEPT ![c] = NoEvent] /\ UNCHANGED replay
          /\ \/ at' = [at EXCEPT ![c] = "history"] \/ at' = [at EXCEPT ![c] = "parked"]
      BY <2>2 DEF Greet, Go
    <3>. QED BY <1>3, <1>4, <1>5, <1>6, <1>7, <2>0, <3>1
  <2>3. CASE ReadParked(c)
    <3>1. /\ at' = [at EXCEPT ![c] = "replay"] /\ UNCHANGED held
          /\ replay' = [replay EXCEPT ![c] = offers] /\ offers \subseteq used
      BY <2>3 DEF ReadParked, ReadOffers, Go, OffersOK
    <3>2. replay' \in [Client -> SUBSET used]
      BY <1>6, <3>1
    <3>. QED BY <1>3, <1>5, <1>6, <1>7, <2>0, <3>1, <3>2
  <2>4. CASE StartLoop(c)
    BY <1>3, <1>5, <1>6, <1>7, <2>0, <2>4 DEF StartLoop, Go
  <2>5. CASE \E o \in Offer : ReplayOffer(c, o)
    <3>1. PICK o \in Offer : replay' = [replay EXCEPT ![c] = @ \ {o}]
      BY <2>5 DEF ReplayOffer
    <3>2. replay' \in [Client -> SUBSET used]
      BY <1>6, <3>1
    <3>3. UNCHANGED <<at, held>>
      BY <2>5 DEF ReplayOffer
    <3>. QED BY <1>6, <1>7, <2>0, <3>2, <3>3
  <2>6. CASE ComposeStatus(c)
    BY <1>1, <1>3, <1>4, <1>5, <1>6, <1>7, <2>0, <2>6 DEF ComposeStatus, Go, RecordsOK
  <2>7. CASE Tell(c)
    BY <1>3, <1>4, <1>5, <1>6, <1>7, <2>0, <2>7 DEF Tell, Go
  <2>8. CASE HangUp(c)
    BY <1>3, <1>5, <1>6, <1>7, <2>0, <2>8 DEF HangUp, Go
  <2>. QED
    BY <1>8, <2>1, <2>2, <2>3, <2>4, <2>5, <2>6, <2>7, <2>8 DEF Serve
<1>9. ASSUME NEW c \in Client, Deliver(c) PROVE ServersOK'
  BY <1>6, <1>7, <1>9 DEF Deliver, engineVars, serveVars
<1>10. ASSUME NEW c \in Client, Connect(c) PROVE ServersOK'
  BY <1>3, <1>5, <1>6, <1>7, <1>10 DEF Connect, Go, engineVars
<1>11. ASSUME NEW c \in Client, Disconnect(c) PROVE ServersOK'
  <2>1. since' = [since EXCEPT ![c] = {}] /\ UNCHANGED <<used, history, at, held, replay>>
    BY <1>11 DEF Disconnect, serveVars
  <2>. QED BY <1>6, <1>7, <2>1
<1>12. ASSUME NEW c \in Client, Change(c) PROVE ServersOK'
  BY <1>3, <1>5, <1>6, <1>7, <1>12 DEF Change, Go
<1>13. ASSUME NEW c \in Client, NEW o \in Offer, Answer(c, o) PROVE ServersOK'
  BY <1>2, <1>3, <1>4, <1>5, <1>6, <1>7, <1>13 DEF Answer, Go
<1>14. ASSUME NEW o \in Offer, Park(o) \/ Expire(o) PROVE ServersOK'
  <2>1. used \subseteq used' /\ UNCHANGED <<history, since, at, held, replay>>
    BY <1>14 DEF Park, Expire, serveVars
  <2>2. replay \in [Client -> SUBSET used']
    BY <1>6, <2>1
  <2>. QED BY <1>6, <1>7, <2>1, <2>2
<1>15. ASSUME NEW m \in Message, Record(m) PROVE ServersOK'
  <2>1. /\ since' = [c \in Client |-> since[c] \cup IF c \in Served THEN {m} ELSE {}]
        /\ history' = history \cup {m} /\ UNCHANGED <<used, at, held, replay>>
    BY <1>15 DEF Record, serveVars
  <2>2. since' \in [Client -> SUBSET history']
    BY <1>6, <2>1
  <2>. QED BY <1>6, <1>7, <2>1, <2>2
<1>16. CASE Engine
  BY <1>6, <1>7, <1>16 DEF Engine, Announce, TellExpired, TellMessage, serveVars
<1>. QED
  BY <1>8, <1>9, <1>10, <1>11, <1>12, <1>13, <1>14, <1>15, <1>16 DEF Next

-----------------------------------------------------------------------------
(* Every step keeps the rest *)

\* What NewOK and PromptOK and MessageOK need to know of a step that queues.
LEMMA QueueingSteps ==
  ASSUME EventHubAssumption, IInv, NEW c \in Client,
         \/ Greet(c) \/ (\E o \in Offer : ReplayOffer(c, o)) \/ Tell(c)
         \/ Engine
  PROVE  /\ members' \subseteq members /\ closed' \subseteq closed \cup members
         /\ UNCHANGED <<open, view>>
         /\ \A d \in Client : d \notin members => out'[d] = out[d]
<1>. OffersOK
  BY DEF IInv, TypesOK
<1>1. CASE Greet(c)
  <2>1. PICK line \in Lines : line = held[c]
    BY <1>1, HeldIsLine DEF Greet
  <2>. QED BY <1>1, <2>1, SendToStep DEF Greet, shellVars
<1>2. CASE \E o \in Offer : ReplayOffer(c, o)
  <2>1. PICK o \in Offer : ReplayOffer(c, o)
    BY <1>2
  <2>2. Line("offer", o) \in Lines
    BY DEF Lines, Line
  <2>. QED BY <2>1, <2>2, SendToStep DEF ReplayOffer, shellVars
<1>3. CASE Tell(c) \/ Engine
  <2>1. \E line \in Lines : Broadcast(line) /\ UNCHANGED <<open, view>>
    <3>1. CASE Tell(c)
      <4>1. PICK line \in Lines : line = held[c]
        BY <3>1, HeldIsLine DEF Tell
      <4>. QED BY <3>1, <4>1 DEF Tell, shellVars
    <3>2. CASE Announce
      <4>1. Line("offer", announcing) \in Lines
        BY <3>2 DEF Announce, Lines, Line, OffersOK
      <4>. QED BY <3>2, <4>1 DEF Announce, shellVars
    <3>3. CASE \E o \in Offer : TellExpired(o)
      <4>1. \A o \in Offer : Line("offerDone", o) \in Lines
        BY DEF Lines, Line
      <4>. QED BY <3>3, <4>1 DEF TellExpired, shellVars
    <3>4. CASE \E m \in Message : TellMessage(m)
      <4>1. \A m \in Message : Line("message", m) \in Lines
        BY DEF Lines, Line
      <4>. QED BY <3>4, <4>1 DEF TellMessage, shellVars
    <3>. QED BY <1>3, <3>1, <3>2, <3>3, <3>4 DEF Engine
  <2>2. PICK line \in Lines : Broadcast(line) /\ UNCHANGED <<open, view>>
    BY <2>1
  <2>. QED BY <2>2, BroadcastStep
<1>. QED
  BY <1>1, <1>2, <1>3

\* A connection that was not made yet is left alone by every step.
LEMMA NewKept ==
  ASSUME EventHubAssumption, IInv, Next, NEW d \in Client
  PROVE  NewOK(d)'
<1>. NewOK(d) /\ ServersOK
  BY DEF IInv, TypesOK
<1>0. ASSUME at'[d] = "new" => at[d] = "new" /\ held'[d] = held[d], d \notin members => out'[d] = out[d],
             members' \subseteq members, closed' \subseteq closed \cup members,
             open' \subseteq open, d \notin open => view'[d] = view[d]
      PROVE  NewOK(d)'
  BY <1>0 DEF NewOK
<1>1. ASSUME NEW c \in Client, Serve(c) PROVE NewOK(d)'
  <2>1. at'[d] = "new" => at[d] = "new" /\ held'[d] = held[d]
    BY <1>1 DEF Serve, Compose, Greet, ReadParked, StartLoop, ReplayOffer, ComposeStatus,
                Tell, HangUp, ComposeReady, ComposeHistory, Go, ServersOK
  <2>2. CASE \/ Greet(c) \/ (\E o \in Offer : ReplayOffer(c, o)) \/ Tell(c)
    BY <1>0, <2>1, <2>2, QueueingSteps
  <2>3. CASE HangUp(c)
    <3>1. /\ members' \subseteq members /\ closed' \subseteq closed \cup members
          /\ UNCHANGED <<open, view>> /\ out' = [out EXCEPT ![c] = <<>>]
      BY <2>3 DEF HangUp, Leave, shellVars
    <3>. QED BY <2>1, <3>1 DEF NewOK
  <2>4. CASE Compose(c) \/ ReadParked(c) \/ StartLoop(c) \/ ComposeStatus(c)
    BY <1>0, <2>1, <2>4 DEF Compose, ReadParked, StartLoop, ComposeStatus, hubVars, shellVars
  <2>. QED
    BY <1>1, <2>2, <2>3, <2>4 DEF Serve
<1>2. CASE Engine
  BY <1>0, <1>2, QueueingSteps DEF Engine, Announce, TellExpired, TellMessage, serveVars
<1>3. ASSUME NEW c \in Client, Deliver(c) PROVE NewOK(d)'
  <2>1. /\ c \in open /\ UNCHANGED <<members, closed, at, held, open>>
        /\ d # c => out'[d] = out[d] /\ view'[d] = view[d]
    BY <1>3 DEF Deliver, serveVars
  <2>. QED BY <2>1 DEF NewOK
<1>4. ASSUME NEW c \in Client, Connect(c) PROVE NewOK(d)'
  BY <1>4 DEF Connect, Join, Go, NewOK, ServersOK
<1>5. ASSUME NEW c \in Client, Disconnect(c) PROVE NewOK(d)'
  BY <1>5 DEF Disconnect, hubVars, serveVars, NewOK
<1>6. ASSUME NEW c \in Client, Change(c) \/ \E o \in Offer : Answer(c, o) PROVE NewOK(d)'
  <2>1. UNCHANGED <<hubVars, shellVars>> /\ (at'[d] = "new" => at[d] = "new" /\ held'[d] = held[d])
    BY <1>6 DEF Change, Answer, Go, ServersOK
  <2>. QED BY <1>0, <2>1 DEF hubVars, shellVars
<1>7. CASE (\E o \in Offer : Park(o) \/ Expire(o)) \/ \E m \in Message : Record(m)
  <2>1. UNCHANGED <<hubVars, serveVars, shellVars>>
    BY <1>7 DEF Park, Expire, Record
  <2>. QED BY <1>0, <2>1 DEF hubVars, serveVars, shellVars
<1>. QED
  BY <1>1, <1>2, <1>3, <1>4, <1>5, <1>6, <1>7 DEF Next

\* Nor does a step spoil what another goroutine has in hand: the history and
\* the offers used so far only grow, and no offer is parked twice.
LEMMA HeldKept ==
  ASSUME EventHubAssumption, IInv, Next, NEW d \in Client
  PROVE  HeldOK(d)'
<1>. HeldOK(d) /\ ServersOK /\ OffersOK /\ RecordsOK
  BY DEF IInv, TypesOK
<1>1. history \subseteq history' /\ used \ offers \subseteq used' \ offers'
  <2>1. ASSUME NEW c \in Client, Serve(c) \/ Deliver(c) \/ Connect(c) \/ Disconnect(c)
        PROVE  UNCHANGED <<history, used, offers>>
    BY <2>1 DEF Serve, Compose, Greet, ReadParked, StartLoop, ReplayOffer, ComposeStatus,
                Tell, HangUp, Deliver, Connect, Disconnect, engineVars
  <2>2. ASSUME NEW c \in Client, Change(c) \/ \E o \in Offer : Answer(c, o)
        PROVE  UNCHANGED <<history, used>> /\ offers' \subseteq offers
    BY <2>2 DEF Change, Answer
  <2>3. ASSUME Engine PROVE UNCHANGED <<history, used, offers>>
    BY <2>3 DEF Engine, Announce, TellExpired, TellMessage
  <2>4. ASSUME NEW o \in Offer, Park(o) \/ Expire(o)
        PROVE  history \subseteq history' /\ used \ offers \subseteq used' \ offers'
    BY <2>4 DEF Park, Expire, OffersOK
  <2>5. ASSUME NEW m \in Message, Record(m)
        PROVE  history \subseteq history' /\ UNCHANGED <<used, offers>>
    BY <2>5 DEF Record
  <2>. QED BY <2>1, <2>2, <2>3, <2>4, <2>5 DEF Next
<1>2. ASSUME at'[d] = at[d], held'[d] = held[d] PROVE HeldOK(d)'
  <2>1. SUBSET history \subseteq SUBSET history'
    BY <1>1
  <2>. QED BY <1>1, <1>2, <2>1 DEF HeldOK
<1>3. ASSUME at'[d] \notin {"ready", "history", "tell"} PROVE HeldOK(d)'
  BY <1>3 DEF HeldOK
<1>4. ASSUME held'[d] = NoEvent, at'[d] # "tell" PROVE HeldOK(d)'
  BY <1>4 DEF HeldOK
<1>5. ASSUME NEW c \in Client, Serve(c) PROVE HeldOK(d)'
  <2>1. CASE Compose(c)
    <3>1. CASE d = c /\ at[c] = "ready"
      BY <2>1, <3>1 DEF Compose, ComposeReady, HeldOK, RecordsOK, ServersOK
    <3>2. CASE d = c /\ at[c] = "history"
      BY <2>1, <3>2 DEF Compose, ComposeHistory, HeldOK, RecordsOK, ServersOK, engineVars
    <3>3. CASE d # c
      BY <1>2, <2>1, <3>3 DEF Compose, ComposeReady, ComposeHistory, ServersOK
    <3>. QED BY <2>1, <3>1, <3>2, <3>3 DEF Compose
  <2>2. CASE Greet(c)
    BY <1>2, <1>4, <2>2 DEF Greet, Go, ServersOK
  <2>3. CASE ReadParked(c) \/ StartLoop(c) \/ HangUp(c)
    BY <1>2, <1>3, <2>3 DEF ReadParked, StartLoop, HangUp, Go, ServersOK
  <2>4. CASE \E o \in Offer : ReplayOffer(c, o)
    BY <1>2, <2>4 DEF ReplayOffer
  <2>5. CASE ComposeStatus(c)
    <3>1. CASE d = c
      BY <2>5, <3>1 DEF ComposeStatus, Go, HeldOK, RecordsOK, ServersOK
    <3>2. CASE d # c
      BY <1>2, <2>5, <3>2 DEF ComposeStatus, Go, ServersOK
    <3>. QED BY <3>1, <3>2
  <2>6. CASE Tell(c)
    BY <1>2, <1>3, <2>6 DEF Tell, Go, ServersOK
  <2>. QED BY <1>5, <2>1, <2>2, <2>3, <2>4, <2>5, <2>6 DEF Serve
<1>6. ASSUME NEW c \in Client, Connect(c) PROVE HeldOK(d)'
  <2>1. CASE d = c
    BY <1>4, <1>6, <2>1 DEF Connect, Go, ServersOK, IInv, NewOK
  <2>2. CASE d # c
    BY <1>2, <1>6, <2>2 DEF Connect, Go, ServersOK
  <2>. QED BY <2>1, <2>2
<1>7. ASSUME NEW c \in Client, Deliver(c) \/ Disconnect(c) PROVE HeldOK(d)'
  BY <1>2, <1>7 DEF Deliver, Disconnect, serveVars
<1>8. ASSUME NEW c \in Client, Change(c) PROVE HeldOK(d)'
  BY <1>2, <1>3, <1>8 DEF Change, Go, ServersOK
<1>9. ASSUME NEW c \in Client, NEW o \in Offer, Answer(c, o) PROVE HeldOK(d)'
  <2>1. CASE d = c
    <3>1. /\ at'[d] = "tell" /\ held'[d] = Line("offerDone", o)
          /\ o \in used' \ offers'
      BY <1>9, <2>1 DEF Answer, Go, ServersOK, OffersOK
    <3>. QED BY <3>1 DEF HeldOK
  <2>2. CASE d # c
    BY <1>2, <1>9, <2>2 DEF Answer, Go, ServersOK
  <2>. QED BY <2>1, <2>2
<1>10. CASE Engine
  BY <1>2, <1>10 DEF Engine, Announce, TellExpired, TellMessage, serveVars
<1>11. CASE (\E o \in Offer : Park(o) \/ Expire(o)) \/ \E m \in Message : Record(m)
  BY <1>2, <1>11 DEF Park, Expire, Record, serveVars
<1>. QED
  BY <1>5, <1>6, <1>7, <1>8, <1>9, <1>10, <1>11 DEF Next

\* Every step keeps what is known of prompts.  Once a client was greeted
\* nothing removes the prompt of a parked offer: who tells the end of an offer
\* has unparked it before.
LEMMA PromptKept ==
  ASSUME EventHubAssumption, IInv, Next, NEW d \in Client
  PROVE  PromptOK(d)'
<1>. PromptOK(d) /\ OffersOK /\ ServersOK /\ QueuesOK /\ HubOK
  BY DEF IInv, TypesOK
<1>. Settled(d) \in Views
  BY SettledTyped
<1>1. ASSUME members' \subseteq members, UNCHANGED open, Settled(d)' = Settled(d),
             offers' \ {announcing'} \subseteq offers \ {announcing},
             at'[d] \in Working => at[d] \in Working, at'[d] = "replay" => at[d] = "replay",
             replay'[d] = replay[d]
      PROVE  PromptOK(d)'
  BY <1>1 DEF PromptOK
<1>2. ASSUME members' \subseteq members, UNCHANGED open,
             d \in members' =>
               \A o \in offers \ {announcing} :
                 Settled(d).offers[o] > 0 => Settled(d)'.offers[o] > 0,
             UNCHANGED <<offers, announcing>>,
             at'[d] \in Working => at[d] \in Working, at'[d] = "replay" => at[d] = "replay",
             replay'[d] = replay[d]
      PROVE  PromptOK(d)'
  BY <1>2 DEF PromptOK
<1>3. ASSUME NEW c \in Client, Serve(c) PROVE PromptOK(d)'
  <2>0. UNCHANGED <<offers, announcing>>
    BY <1>3 DEF Serve, Compose, Greet, ReadParked, StartLoop, ReplayOffer, ComposeStatus,
                Tell, HangUp, engineVars
  <2>1. CASE Compose(c) \/ ComposeStatus(c)
    BY <1>1, <2>0, <2>1, SettledSame
       DEF Compose, ComposeStatus, Go, Working, ServersOK, hubVars, shellVars
  <2>2. CASE Greet(c)
    <3>1. PICK line \in Lines : line = held[c]
      BY <2>2, HeldIsLine DEF Greet
    <3>2. SendTo(c, line) /\ UNCHANGED <<open, view, replay>>
      BY <2>2, <3>1 DEF Greet, shellVars
    <3>3. CASE d = c
      <4>1. at'[d] \in {"history", "parked"}
        BY <2>2, <3>3 DEF Greet, Go, ServersOK
      <4>. QED BY <4>1 DEF PromptOK, Working
    <3>4. CASE d # c
      <4>1. at'[d] = at[d]
        BY <2>2, <3>4 DEF Greet, Go, ServersOK
      <4>. QED BY <1>1, <2>0, <3>2, <3>4, <4>1, SendToStep
    <3>. QED BY <3>3, <3>4
  <2>3. CASE ReadParked(c)
    <3>1. CASE d = c
      <4>1. at'[d] = "replay" /\ replay'[d] = offers
        BY <2>3, <3>1 DEF ReadParked, ReadOffers, Go, ServersOK
      <4>. QED BY <2>0, <4>1 DEF PromptOK, Working
    <3>2. CASE d # c
      <4>1. at'[d] = at[d] /\ replay'[d] = replay[d]
        BY <2>3, <3>2 DEF ReadParked, ReadOffers, Go, ServersOK
      <4>. QED BY <1>1, <2>0, <2>3, <4>1, SettledSame DEF ReadParked, hubVars, shellVars
    <3>. QED BY <3>1, <3>2
  <2>4. CASE StartLoop(c)
    <3>1. Settled(d)' = Settled(d) /\ UNCHANGED <<members, open, replay>>
      BY <2>4, SettledSame DEF StartLoop, hubVars, shellVars
    <3>2. CASE d = c
      <4>1. at[d] = "replay" /\ replay[d] = {} /\ at'[d] = "loop"
        BY <2>4, <3>2 DEF StartLoop, Go, ServersOK
      <4>. QED BY <2>0, <3>1, <4>1 DEF PromptOK, Working
    <3>3. CASE d # c
      <4>1. at'[d] = at[d]
        BY <2>4, <3>3 DEF StartLoop, Go, ServersOK
      <4>. QED BY <1>1, <2>0, <3>1, <4>1
    <3>. QED BY <3>2, <3>3
  <2>5. CASE \E o \in Offer : ReplayOffer(c, o)
    <3>1. PICK o \in Offer : ReplayOffer(c, o)
      BY <2>5
    <3>2. Line("offer", o) \in Lines
      BY DEF Lines, Line
    <3>3. /\ members' \subseteq members /\ UNCHANGED <<open, at>>
          /\ d # c => Settled(d)' = Settled(d)
          /\ c \in members' => Settled(c)' = Shown(Settled(c), Line("offer", o))
      BY <3>1, <3>2, SendToStep DEF ReplayOffer, shellVars
    <3>4. CASE d = c
      <4>1. at[d] = "replay" /\ replay'[d] = replay[d] \ {o}
        BY <3>1, <3>4 DEF ReplayOffer, ServersOK
      <4>2. d \in members' =>
              /\ Settled(d)'.offers[o] > 0
              /\ \A k \in Offer \ {o} : Settled(d)'.offers[k] = Settled(d).offers[k]
        BY <3>3, <3>4, OfferShown
      <4>. QED BY <2>0, <3>3, <4>1, <4>2 DEF PromptOK, OffersOK, Working
    <3>5. CASE d # c
      <4>1. replay'[d] = replay[d]
        BY <3>1, <3>5 DEF ReplayOffer, ServersOK
      <4>. QED BY <1>1, <2>0, <3>3, <3>5, <4>1
    <3>. QED BY <3>4, <3>5
  <2>6. CASE Tell(c)
    <3>1. PICK line \in Lines : line = held[c]
      BY <2>6, HeldIsLine DEF Tell
    <3>2. Broadcast(line) /\ UNCHANGED <<open, view, replay>>
      BY <2>6, <3>1 DEF Tell, shellVars
    <3>3. d \in members' => Settled(d)' = Shown(Settled(d), line)
      BY <3>2, BroadcastStep
    <3>4. \/ \E n \in 0 .. MaxSets : line = Line("status", n)
          \/ \E o \in used \ offers : line = Line("offerDone", o)
      BY <2>6, <3>1 DEF Tell, HeldOK, IInv
    <3>5. d \in members' =>
            \A o \in offers \ {announcing} : Settled(d)'.offers[o] = Settled(d).offers[o]
      BY <3>3, <3>4, StatusShown, OfferDoneShown DEF OffersOK
    <3>6. at'[d] \in Working => at[d] \in Working
      BY <2>6 DEF Tell, Go, ServersOK, Working
    <3>7. at'[d] = "replay" => at[d] = "replay"
      BY <2>6 DEF Tell, Go, ServersOK
    <3>. QED BY <1>2, <2>0, <3>2, <3>5, <3>6, <3>7, BroadcastStep
  <2>7. CASE HangUp(c)
    <3>1. CASE d = c
      BY <2>7, <3>1 DEF HangUp, Leave, PromptOK
    <3>2. CASE d # c
      <4>1. /\ at'[d] = at[d] /\ out'[d] = out[d] /\ view'[d] = view[d] /\ members' \subseteq members
            /\ UNCHANGED <<open, replay>>
        BY <2>7, <3>2 DEF HangUp, Leave, Go, ServersOK, QueuesOK, shellVars
      <4>. QED BY <1>1, <2>0, <4>1, SettledSame
    <3>. QED BY <3>1, <3>2
  <2>. QED BY <1>3, <2>1, <2>2, <2>3, <2>4, <2>5, <2>6, <2>7 DEF Serve
<1>4. ASSUME NEW c \in Client, Deliver(c) PROVE PromptOK(d)'
  <2>1. Settled(d)' = Settled(d)
    BY <1>4, DeliverStep
  <2>. QED BY <1>1, <1>4, <2>1 DEF Deliver, engineVars, serveVars
<1>5. ASSUME NEW c \in Client, Connect(c) PROVE PromptOK(d)'
  <2>1. CASE d = c
    <3>1. at'[d] = "ready"
      BY <1>5, <2>1 DEF Connect, Go, ServersOK
    <3>. QED BY <3>1 DEF PromptOK, Working
  <2>2. CASE d # c
    <3>1. /\ at'[d] = at[d] /\ (d \in members' \cap open' => d \in members \cap open)
          /\ UNCHANGED <<offers, announcing, replay, out, view>>
      BY <1>5, <2>2 DEF Connect, Join, Go, ServersOK, engineVars
    <3>2. Settled(d)' = Settled(d)
      BY <3>1, SettledSame
    <3>. QED BY <3>1, <3>2 DEF PromptOK
  <2>. QED BY <2>1, <2>2
<1>6. ASSUME NEW c \in Client, Disconnect(c) PROVE PromptOK(d)'
  <2>1. CASE d = c
    BY <1>6, <2>1 DEF Disconnect, PromptOK
  <2>2. CASE d # c
    <3>1. /\ (d \in open' => d \in open) /\ view'[d] = view[d]
          /\ UNCHANGED <<offers, announcing, members, out, at, replay>>
      BY <1>6, <2>2 DEF Disconnect, hubVars, serveVars, QueuesOK
    <3>2. Settled(d)' = Settled(d)
      BY <3>1, SettledSame
    <3>. QED BY <3>1, <3>2 DEF PromptOK
  <2>. QED BY <2>1, <2>2
<1>7. ASSUME NEW c \in Client, Change(c) PROVE PromptOK(d)'
  <2>1. at'[d] \in Working => at[d] \in Working
    BY <1>7 DEF Change, Go, ServersOK, Working
  <2>2. at'[d] = "replay" => at[d] = "replay"
    BY <1>7 DEF Change, Go, ServersOK
  <2>. QED BY <1>1, <1>7, <2>1, <2>2, SettledSame DEF Change, hubVars, shellVars
<1>8. ASSUME NEW c \in Client, NEW o \in Offer, Answer(c, o) PROVE PromptOK(d)'
  <2>1. at'[d] \in Working => at[d] \in Working
    BY <1>8 DEF Answer, Go, ServersOK, Working
  <2>2. at'[d] = "replay" => at[d] = "replay"
    BY <1>8 DEF Answer, Go, ServersOK
  <2>. QED BY <1>1, <1>8, <2>1, <2>2, SettledSame DEF Answer, hubVars, shellVars
<1>9. ASSUME NEW o \in Offer, Park(o) \/ Expire(o) PROVE PromptOK(d)'
  <2>1. offers' \ {announcing'} \subseteq offers \ {announcing}
    BY <1>9 DEF Park, Expire, OffersOK, EventHubAssumption
  <2>. QED BY <1>1, <1>9, <2>1, SettledSame DEF Park, Expire, hubVars, serveVars, shellVars
<1>10. CASE \E m \in Message : Record(m)
  BY <1>1, <1>10, SettledSame DEF Record, hubVars, serveVars, shellVars
<1>11. CASE Announce
  <2>1. PICK a \in Offer : a = announcing
    BY <1>11 DEF Announce, OffersOK
  <2>2. Broadcast(Line("offer", a)) /\ UNCHANGED <<open, view, offers, at, replay>>
        /\ announcing' = NoOffer
    BY <1>11, <2>1 DEF Announce, serveVars, shellVars
  <2>3. Line("offer", a) \in Lines
    BY DEF Lines, Line
  <2>4. members' \subseteq members
        /\ (d \in members' => Settled(d)' = Shown(Settled(d), Line("offer", a)))
    BY <2>2, <2>3, BroadcastStep
  <2>5. d \in members' =>
          /\ Settled(d)'.offers[a] > 0
          /\ \A k \in Offer \ {a} : Settled(d)'.offers[k] = Settled(d).offers[k]
    BY <2>4, OfferShown
  <2>. QED BY <2>1, <2>2, <2>4, <2>5 DEF PromptOK, OffersOK
<1>12. ASSUME NEW o \in Offer, TellExpired(o) PROVE PromptOK(d)'
  <2>1. o \notin offers
    BY <1>12 DEF TellExpired, OffersOK
  <2>2. Line("offerDone", o) \in Lines
    BY DEF Lines, Line
  <2>3. /\ members' \subseteq members
        /\ d \in members' => Settled(d)' = Shown(Settled(d), Line("offerDone", o))
    BY <1>12, <2>2, BroadcastStep DEF TellExpired, shellVars
  <2>4. d \in members' =>
          \A k \in Offer \ {o} : Settled(d)'.offers[k] = Settled(d).offers[k]
    BY <2>3, OfferDoneShown
  <2>5. d \in members' =>
          \A k \in offers \ {announcing} : Settled(d)'.offers[k] = Settled(d).offers[k]
    BY <2>1, <2>4 DEF OffersOK
  <2>. QED BY <1>2, <1>12, <2>3, <2>5 DEF TellExpired, serveVars, shellVars
<1>13. ASSUME NEW m \in Message, TellMessage(m) PROVE PromptOK(d)'
  <2>2. Line("message", m) \in Lines
    BY DEF Lines, Line
  <2>3. /\ members' \subseteq members
        /\ d \in members' => Settled(d)' = Shown(Settled(d), Line("message", m))
    BY <1>13, <2>2, BroadcastStep DEF TellMessage, shellVars
  <2>4. d \in members' => Settled(d)'.offers = Settled(d).offers
    BY <2>3, MessageShown
  <2>. QED BY <1>2, <1>13, <2>3, <2>4 DEF TellMessage, serveVars, shellVars
<1>. QED
  BY <1>3, <1>4, <1>5, <1>6, <1>7, <1>8, <1>9, <1>10, <1>11, <1>12, <1>13 DEF Next, Engine

\* Every step keeps what is known of messages.  A message line is queued only
\* by who takes the message off telling, and a history goes to nobody who was
\* greeted.
LEMMA MessageKept ==
  ASSUME EventHubAssumption, IInv, Next, NEW d \in Client
  PROVE  MessageOK(d)'
<1>. MessageOK(d) /\ NewOK(d) /\ RecordsOK /\ ServersOK /\ QueuesOK /\ HubOK /\ OffersOK
  BY DEF IInv, TypesOK
<1>. Settled(d) \in Views
  BY SettledTyped
<1>. DEFINE Early == Greeting \cup {"new"}
<1>0. ASSUME members' \subseteq members, UNCHANGED <<open, history, telling, since>>,
             d \in members' => Settled(d)'.messages = Settled(d).messages,
             at'[d] \in Working => at[d] \in Working,
             at'[d] \in Early => at[d] \in Early
      PROVE  MessageOK(d)'
  BY <1>0 DEF MessageOK
<1>1. ASSUME NEW c \in Client, Serve(c) PROVE MessageOK(d)'
  <2>0. UNCHANGED <<history, telling, since>>
    BY <1>1 DEF Serve, Compose, Greet, ReadParked, StartLoop, ReplayOffer, ComposeStatus,
                Tell, HangUp, engineVars
  <2>00. at'[d] \in Early => at[d] \in Early
    BY <1>1 DEF Serve, Compose, Greet, ReadParked, StartLoop, ReplayOffer, ComposeStatus,
                Tell, HangUp, Go, ServersOK, Greeting
  <2>1. CASE Compose(c) \/ ComposeStatus(c)
    BY <1>0, <2>0, <2>00, <2>1, SettledSame
       DEF Compose, ComposeStatus, Go, Working, ServersOK, hubVars, shellVars
  <2>2. CASE Greet(c)
    <3>1. PICK line \in Lines : line = held[c]
      BY <2>2, HeldIsLine DEF Greet
    <3>2. SendTo(c, line) /\ UNCHANGED <<open, view>>
      BY <2>2, <3>1 DEF Greet, shellVars
    <3>3. /\ members' \subseteq members
          /\ d # c => Settled(d)' = Settled(d)
          /\ c \in members' => Settled(c)' = Shown(Settled(c), line)
      BY <3>2, SendToStep
    <3>4. CASE d = c
      <4>1. at'[d] \notin Working /\ since[d] = {}
        BY <2>2, <3>4 DEF Greet, Go, ServersOK, Working, MessageOK, Greeting
      <4>2. \/ \E n \in 0 .. MaxSets : line = Line("ready", n)
            \/ \E ms \in SUBSET history : line = Line("messages", ms)
        BY <2>2, <3>1 DEF Greet, HeldOK, IInv
      <4>3. d \in members' \cap open =>
              \A m \in Message \ history : Settled(d)'.messages[m] = 0
        <5>1. CASE \E n \in 0 .. MaxSets : line = Line("ready", n)
          BY <3>3, <3>4, <5>1, ReadyShown DEF MessageOK
        <5>2. CASE \E ms \in SUBSET history : line = Line("messages", ms)
          <6>1. PICK ms \in SUBSET history : line = Line("messages", ms)
            BY <5>2
          <6>2. ms \in SUBSET Message /\ Message \ history \subseteq Message \ ms
            BY DEF RecordsOK
          <6>. QED BY <3>3, <3>4, <6>1, <6>2, HistoryShown
        <5>. QED BY <4>2, <5>1, <5>2
      <4>. QED BY <2>0, <3>2, <4>1, <4>3 DEF MessageOK
    <3>5. CASE d # c
      <4>1. at'[d] = at[d]
        BY <2>2, <3>5 DEF Greet, Go, ServersOK
      <4>. QED BY <1>0, <2>0, <3>2, <3>3, <3>5, <4>1
    <3>. QED BY <3>4, <3>5
  <2>3. CASE ReadParked(c)
    <3>1. at'[d] \in Working => at[d] \in Working
      BY <2>3 DEF ReadParked, Go, ServersOK, Working
    <3>. QED BY <1>0, <2>0, <2>00, <2>3, <3>1, SettledSame DEF ReadParked, hubVars, shellVars
  <2>4. CASE StartLoop(c)
    <3>1. Settled(d)' = Settled(d) /\ UNCHANGED <<members, open>>
      BY <2>4, SettledSame DEF StartLoop, hubVars, shellVars
    <3>2. CASE d = c
      <4>1. since[d] = {}
        BY <2>4, <3>2 DEF StartLoop, MessageOK, Greeting
      <4>. QED BY <2>0, <3>1, <4>1 DEF MessageOK
    <3>3. CASE d # c
      <4>1. at'[d] = at[d]
        BY <2>4, <3>3 DEF StartLoop, Go, ServersOK
      <4>. QED BY <1>0, <2>0, <3>1, <4>1
    <3>. QED BY <3>2, <3>3
  <2>5. CASE \E o \in Offer : ReplayOffer(c, o)
    <3>1. PICK o \in Offer : ReplayOffer(c, o)
      BY <2>5
    <3>2. Line("offer", o) \in Lines
      BY DEF Lines, Line
    <3>3. /\ members' \subseteq members /\ UNCHANGED <<open, at>>
          /\ d # c => Settled(d)' = Settled(d)
          /\ c \in members' => Settled(c)' = Shown(Settled(c), Line("offer", o))
      BY <3>1, <3>2, SendToStep DEF ReplayOffer, shellVars
    <3>4. d \in members' => Settled(d)'.messages = Settled(d).messages
      BY <3>3, OfferShown
    <3>. QED BY <1>0, <2>0, <3>3, <3>4
  <2>6. CASE Tell(c)
    <3>1. PICK line \in Lines : line = held[c]
      BY <2>6, HeldIsLine DEF Tell
    <3>2. Broadcast(line) /\ UNCHANGED <<open, view>>
      BY <2>6, <3>1 DEF Tell, shellVars
    <3>3. members' \subseteq members /\ (d \in members' => Settled(d)' = Shown(Settled(d), line))
      BY <3>2, BroadcastStep
    <3>4. \/ \E n \in 0 .. MaxSets : line = Line("status", n)
          \/ \E o \in used \ offers : line = Line("offerDone", o)
      BY <2>6, <3>1 DEF Tell, HeldOK, IInv
    <3>5. d \in members' => Settled(d)'.messages = Settled(d).messages
      BY <3>3, <3>4, StatusShown, OfferDoneShown DEF OffersOK
    <3>6. at'[d] \in Working => at[d] \in Working
      BY <2>6 DEF Tell, Go, ServersOK, Working
    <3>. QED BY <1>0, <2>0, <2>00, <3>2, <3>3, <3>5, <3>6
  <2>7. CASE HangUp(c)
    <3>1. CASE d = c
      <4>1. d \notin members' \cap open' /\ at'[d] \notin Early
        BY <2>7, <3>1 DEF HangUp, Leave, Go, ServersOK, Greeting, shellVars
      <4>. QED BY <4>1 DEF MessageOK
    <3>2. CASE d # c
      <4>1. /\ at'[d] = at[d] /\ out'[d] = out[d] /\ view'[d] = view[d] /\ members' \subseteq members
            /\ UNCHANGED open
        BY <2>7, <3>2 DEF HangUp, Leave, Go, ServersOK, QueuesOK, shellVars
      <4>. QED BY <1>0, <2>0, <4>1, SettledSame
    <3>. QED BY <3>1, <3>2
  <2>. QED BY <1>1, <2>1, <2>2, <2>3, <2>4, <2>5, <2>6, <2>7 DEF Serve
<1>2. ASSUME NEW c \in Client, Deliver(c) PROVE MessageOK(d)'
  <2>1. Settled(d)' = Settled(d)
    BY <1>2, DeliverStep
  <2>. QED BY <1>0, <1>2, <2>1 DEF Deliver, engineVars, serveVars
<1>3. ASSUME NEW c \in Client, Connect(c) PROVE MessageOK(d)'
  <2>0. UNCHANGED <<history, telling, since, out, view>>
    BY <1>3 DEF Connect, engineVars
  <2>00. Settled(d)' = Settled(d)
    BY <2>0, SettledSame
  <2>1. CASE d = c
    <3>1. at[d] = "new" /\ at'[d] = "ready"
      BY <1>3, <2>1 DEF Connect, Go, ServersOK
    <3>2. out[d] = <<>> /\ view[d] = Blank /\ since[d] = {}
      BY <3>1 DEF NewOK, MessageOK
    <3>3. Settled(d) = Blank
      BY <3>2, ReadNone DEF Settled
    <3>4. \A m \in Message : Settled(d)'.messages[m] = 0
      BY <2>00, <3>3 DEF Blank
    <3>. QED BY <2>0, <3>1, <3>2, <3>4 DEF MessageOK, Working
  <2>2. CASE d # c
    <3>1. at'[d] = at[d] /\ (d \in members' \cap open' => d \in members \cap open)
      BY <1>3, <2>2 DEF Connect, Join, Go, ServersOK
    <3>. QED BY <2>0, <2>00, <3>1 DEF MessageOK
  <2>. QED BY <2>1, <2>2
<1>4. ASSUME NEW c \in Client, Disconnect(c) PROVE MessageOK(d)'
  <2>1. CASE d = c
    <3>1. d \notin open' /\ since'[d] = {}
      BY <1>4, <2>1 DEF Disconnect, ServersOK
    <3>. QED BY <3>1 DEF MessageOK
  <2>2. CASE d # c
    <3>1. /\ (d \in open' => d \in open) /\ view'[d] = view[d] /\ since'[d] = since[d]
          /\ UNCHANGED <<history, telling, members, out, at>>
      BY <1>4, <2>2 DEF Disconnect, hubVars, serveVars, QueuesOK, ServersOK
    <3>2. Settled(d)' = Settled(d)
      BY <3>1, SettledSame
    <3>. QED BY <3>1, <3>2 DEF MessageOK
  <2>. QED BY <2>1, <2>2
<1>5. ASSUME NEW c \in Client, Change(c) \/ \E o \in Offer : Answer(c, o) PROVE MessageOK(d)'
  <2>1. at'[d] \in Working => at[d] \in Working
    BY <1>5 DEF Change, Answer, Go, ServersOK, Working
  <2>2. at'[d] \in Early => at[d] \in Early
    BY <1>5 DEF Change, Answer, Go, ServersOK, Greeting
  <2>3. UNCHANGED <<hubVars, shellVars, history, telling, since>>
    BY <1>5 DEF Change, Answer
  <2>. QED BY <1>0, <2>1, <2>2, <2>3, SettledSame DEF hubVars, shellVars
<1>6. ASSUME NEW o \in Offer, Park(o) \/ Expire(o) PROVE MessageOK(d)'
  BY <1>0, <1>6, SettledSame DEF Park, Expire, hubVars, serveVars, shellVars
<1>7. ASSUME NEW m \in Message, Record(m) PROVE MessageOK(d)'
  <2>1. /\ m \notin history /\ history' = history \cup {m} /\ telling' = telling \cup {m}
        /\ UNCHANGED <<members, open, out, view, at>>
        /\ since'[d] = since[d] \cup IF d \in Served THEN {m} ELSE {}
    BY <1>7 DEF Record, hubVars, serveVars, shellVars
  <2>2. Settled(d)' = Settled(d)
    BY <2>1, SettledSame
  <2>3. d \in Served <=> d \in members \cap open /\ at[d] \in Working
    BY DEF Served, Working
  <2>4. at[d] \in Early => at[d] \notin Working
    BY DEF Greeting, Working
  <2>5. m \notin since[d]
    BY <2>1 DEF ServersOK
  <2>6. d \in members \cap open => Settled(d).messages[m] = 0
    BY <2>1 DEF MessageOK
  <2>7. ASSUME NEW k \in since'[d], d \in members \cap open, at[d] \in Working
        PROVE  Settled(d)'.messages[k] = IF k \in telling' THEN 0 ELSE 1
    <3>1. CASE k = m
      BY <2>1, <2>2, <2>6, <2>7, <3>1
    <3>2. CASE k # m
      <4>1. k \in since[d]
        BY <2>1, <2>7, <3>2
      <4>. QED BY <2>1, <2>2, <2>7, <3>2, <4>1 DEF MessageOK
    <3>. QED BY <3>1, <3>2
  <2>8. at'[d] \in Early => since'[d] = {}
    BY <2>1, <2>3, <2>4 DEF MessageOK
  <2>9. d \in members' \cap open' =>
          \A k \in Message \ history' : Settled(d)'.messages[k] = 0
    BY <2>1, <2>2 DEF MessageOK
  <2>. QED BY <2>1, <2>7, <2>8, <2>9 DEF MessageOK
<1>8. CASE Announce
  <2>1. PICK a \in Offer : a = announcing
    BY <1>8 DEF Announce, OffersOK
  <2>2. Broadcast(Line("offer", a)) /\ UNCHANGED <<open, view, history, telling, since, at>>
    BY <1>8, <2>1 DEF Announce, serveVars, shellVars
  <2>3. Line("offer", a) \in Lines
    BY DEF Lines, Line
  <2>4. members' \subseteq members
        /\ (d \in members' => Settled(d)' = Shown(Settled(d), Line("offer", a)))
    BY <2>2, <2>3, BroadcastStep
  <2>5. d \in members' => Settled(d)'.messages = Settled(d).messages
    BY <2>4, OfferShown
  <2>. QED BY <1>0, <2>2, <2>4, <2>5
<1>9. ASSUME NEW o \in Offer, TellExpired(o) PROVE MessageOK(d)'
  <2>1. Line("offerDone", o) \in Lines
    BY DEF Lines, Line
  <2>2. /\ members' \subseteq members /\ UNCHANGED <<open, history, telling, since, at>>
        /\ d \in members' => Settled(d)' = Shown(Settled(d), Line("offerDone", o))
    BY <1>9, <2>1, BroadcastStep DEF TellExpired, serveVars, shellVars
  <2>3. d \in members' => Settled(d)'.messages = Settled(d).messages
    BY <2>2, OfferDoneShown
  <2>. QED BY <1>0, <2>2, <2>3
<1>10. ASSUME NEW m \in Message, TellMessage(m) PROVE MessageOK(d)'
  <2>1. Line("message", m) \in Lines
    BY DEF Lines, Line
  <2>2. /\ members' \subseteq members /\ UNCHANGED <<open, history, since, at>>
        /\ m \in telling /\ telling' = telling \ {m}
        /\ d \in members' => Settled(d)' = Shown(Settled(d), Line("message", m))
    BY <1>10, <2>1, BroadcastStep DEF TellMessage, serveVars, shellVars
  <2>3. d \in members' =>
          /\ Settled(d)'.messages[m] = Settled(d).messages[m] + 1
          /\ \A k \in Message \ {m} : Settled(d)'.messages[k] = Settled(d).messages[k]
    BY <2>2, MessageShown
  <2>4. m \in history
    BY <2>2 DEF RecordsOK
  <2>5. d \in members' \cap open' =>
          \A k \in Message \ history' : Settled(d)'.messages[k] = 0
    BY <2>2, <2>3, <2>4 DEF MessageOK
  <2>6. ASSUME NEW k \in since'[d], d \in members' \cap open', at'[d] \in Working
        PROVE  Settled(d)'.messages[k] = IF k \in telling' THEN 0 ELSE 1
    <3>1. k \in since[d] /\ d \in members \cap open /\ at[d] \in Working /\ k \in Message
      BY <2>2, <2>6 DEF ServersOK, RecordsOK
    <3>2. Settled(d).messages[k] = IF k \in telling THEN 0 ELSE 1
      BY <3>1 DEF MessageOK
    <3>3. CASE k = m
      BY <2>2, <2>3, <2>6, <3>2, <3>3
    <3>4. CASE k # m
      BY <2>2, <2>3, <2>6, <3>1, <3>2, <3>4
    <3>. QED BY <3>3, <3>4
  <2>7. at'[d] \in Early => since'[d] = {}
    BY <2>2 DEF MessageOK
  <2>. QED BY <2>5, <2>6, <2>7 DEF MessageOK
<1>. QED
  BY <1>1, <1>2, <1>3, <1>4, <1>5, <1>6, <1>7, <1>8, <1>9, <1>10 DEF Next, Engine

\* Nobody sends on a closed queue: a broadcast goes to members, sendTo looks at
\* the membership under the same hold of the lock, and a queue is closed only
\* when its connection stops being a member.
LEMMA PanicKept ==
  ASSUME EventHubAssumption, IInv, Next
  PROVE  CalmOK'
<1>. CalmOK /\ HubOK
  BY Zenon DEF IInv, TypesOK
<1>1. ASSUME NEW line, Broadcast(line) PROVE CalmOK'
  <2>1. panicked' = (panicked \/ members \cap closed # {})
    BY <1>1, Zenon DEF Broadcast, Queue
  <2>. QED BY <2>1, Zenon DEF CalmOK, HubOK
<1>2. ASSUME NEW c, NEW line, SendTo(c, line) PROVE CalmOK'
  <2>1. PICK to : to = {d \in {c} : CanSend(d)}
    OBVIOUS
  <2>2. panicked' = (panicked \/ to \cap closed # {})
    BY <1>2, <2>1, Zenon DEF SendTo, Queue
  <2>3. to \cap closed = {}
    BY <2>1 DEF CanSend, HubOK
  <2>. QED BY <2>2, <2>3, Zenon DEF CalmOK
<1>3. ASSUME UNCHANGED panicked PROVE CalmOK'
  BY <1>3, Zenon DEF CalmOK
<1>4. ASSUME NEW c \in Client, Serve(c) PROVE CalmOK'
  <2>1. CASE Greet(c)
    <3>1. PICK line : line = held[c]
      OBVIOUS
    <3>2. SendTo(c, line)
      BY <2>1, <3>1 DEF Greet
    <3>. QED BY <1>2, <3>2
  <2>2. CASE \E o \in Offer : ReplayOffer(c, o)
    <3>1. PICK o \in Offer : SendTo(c, Line("offer", o))
      BY <2>2, Zenon DEF ReplayOffer
    <3>. QED BY <1>2, <3>1, Zenon
  <2>3. CASE Tell(c)
    <3>1. PICK line : line = held[c]
      OBVIOUS
    <3>2. Broadcast(line)
      BY <2>3, <3>1 DEF Tell
    <3>. QED BY <1>1, <3>2
  <2>4. CASE Compose(c) \/ ReadParked(c) \/ StartLoop(c) \/ ComposeStatus(c)
    BY <1>3, <2>4, Zenon DEF Compose, ReadParked, StartLoop, ComposeStatus, hubVars
  <2>5. CASE HangUp(c)
    BY <1>3, <2>5, Zenon DEF HangUp, Leave
  <2>. QED BY <1>4, <2>1, <2>2, <2>3, <2>4, <2>5, Zenon DEF Serve
<1>5. ASSUME NEW c \in Client,
             \/ Deliver(c) \/ Connect(c) \/ Disconnect(c) \/ Change(c)
             \/ \E o \in Offer : Answer(c, o)
      PROVE  CalmOK'
  BY <1>3, <1>5, Zenon DEF Deliver, Connect, Disconnect, Change, Answer, hubVars
<1>6. CASE Engine
  <2>1. CASE Announce
    <3>1. PICK line : line = Line("offer", announcing)
      OBVIOUS
    <3>2. Broadcast(line)
      BY <2>1, <3>1 DEF Announce
    <3>. QED BY <1>1, <3>2
  <2>2. CASE \E o \in Offer : TellExpired(o)
    BY <1>1, <2>2, Zenon DEF TellExpired
  <2>3. CASE \E m \in Message : TellMessage(m)
    BY <1>1, <2>3, Zenon DEF TellMessage
  <2>. QED BY <1>6, <2>1, <2>2, <2>3 DEF Engine
<1>7. CASE (\E o \in Offer : Park(o) \/ Expire(o)) \/ \E m \in Message : Record(m)
  BY <1>3, <1>7, Zenon DEF Park, Expire, Record, hubVars
<1>. QED
  BY <1>4, <1>5, <1>6, <1>7, Zenon DEF Next

-----------------------------------------------------------------------------
(* The theorems *)

\* A step that changes nothing.
LEMMA Stutter ==
  ASSUME IInv, UNCHANGED vars
  PROVE  IInv'
<1>. USE DEF vars, engineVars, hubVars, serveVars, shellVars
<1>1. TypesOK'
  BY DEF IInv, TypesOK, OffersOK, RecordsOK, HubOK, QueuesOK, ServersOK
<1>2. CalmOK'
  BY Zenon DEF IInv, CalmOK
<1>3. ASSUME NEW c \in Client PROVE NewOK(c)' /\ HeldOK(c)'
  BY DEF IInv, NewOK, HeldOK
<1>4. ASSUME NEW c \in Client PROVE PromptOK(c)' /\ MessageOK(c)'
  <2>1. Settled(c)' = Settled(c)
    BY SettledSame
  <2>. QED BY <2>1 DEF IInv, PromptOK, MessageOK
<1>. QED
  BY <1>1, <1>2, <1>3, <1>4 DEF IInv

\* The invariant is inductive.
LEMMA IInvHolds == Spec => []IInv
<1>. USE EventHubAssumption
<1>1. Init => IInv
  BY InitIInv
<1>2. IInv /\ [Next]_vars => IInv'
  <2>1. ASSUME IInv, Next PROVE IInv'
    <3>1. TypesOK'
      BY <2>1, RecordsKept, QueuesKept, ServersKept DEF IInv, TypesOK
    <3>2. CalmOK'
      BY <2>1, PanicKept
    <3>3. \A c \in Client : NewOK(c)' /\ HeldOK(c)'
      BY <2>1, NewKept, HeldKept
    <3>4. \A c \in Client : PromptOK(c)' /\ MessageOK(c)'
      BY <2>1, PromptKept, MessageKept
    <3>. QED BY <3>1, <3>2, <3>3, <3>4 DEF IInv
  <2>. QED BY <2>1, Stutter
<1>. QED
  BY <1>1, <1>2, PTL DEF Spec

\* What the variables range over: offers that are told to be over were parked
\* once and are not any more, queues keep to their capacity, and a client shows
\* a status the engine had.
THEOREM TypeCorrect == Spec => []TypeOK
<1>1. EventHubAssumption /\ IInv => TypeOK
  <2>. SUFFICES ASSUME EventHubAssumption, IInv PROVE TypeOK
    OBVIOUS
  <2>1. panicked \in BOOLEAN
    BY Zenon DEF IInv, CalmOK
  <2>2. TypesOK
    BY DEF IInv
  <2>3. ASSUME NEW c \in Client
        PROVE  /\ Len(out[c]) <= OutCap
               /\ at[c] \in Greeting \cup {"new", "queue", "loop", "status", "tell", "gone"}
               /\ replay[c] \subseteq used
               /\ since[c] \subseteq history
               /\ view[c].status \in 0 .. MaxSets
               /\ view[c].offers \in [Offer -> Nat]
               /\ view[c].messages \in [Message -> Nat]
    BY <2>2 DEF TypesOK, QueuesOK, ServersOK, Views, Working
  <2>. QED
    BY <2>1, <2>2, <2>3 DEF TypeOK, TypesOK, OffersOK, RecordsOK, HubOK
<1>. QED
  BY <1>1, IInvHolds, EventHubAssumption, PTL

\* The engine does not crash over a client that leaves or is thrown out while
\* others write to it (hub.broadcast, hub.sendTo, hub.remove).
THEOREM QueuesAreUsedOpen == Spec => []NoPanic
<1>1. IInv => NoPanic
  BY Zenon DEF IInv, CalmOK, NoPanic
<1>. QED
  BY <1>1, IInvHolds, PTL

\* However a client's greeting interleaves with offers that come, are answered
\* and expire, once greeted it shows or is about to read the prompt of every
\* offer that is parked and announced (serveClient, holdOffer, resolveOffer).
THEOREM PromptsAreComplete == Spec => []PromptsComplete
<1>1. IInv => PromptsComplete
  <2>. SUFFICES ASSUME IInv, NEW c \in Served, NEW o \in offers \ {announcing}
                PROVE  Settled(c).offers[o] > 0
    BY DEF PromptsComplete
  <2>1. c \in Client /\ c \in members \cap open /\ at[c] \in Working
    BY DEF IInv, TypesOK, HubOK, Served, Working
  <2>2. PromptOK(c)
    BY <2>1 DEF IInv
  <2>. QED BY <2>1, <2>2 DEF PromptOK
<1>. QED
  BY <1>1, IInvHolds, PTL

\* A message recorded while a client is served reaches it exactly once, and no
\* later greeting, replay or status takes it away or repeats it (recordMessage,
\* pumpEvents, serveClient).
THEOREM MessagesReachOnce == Spec => []MessagesReach
<1>1. IInv => MessagesReach
  <2>. SUFFICES ASSUME IInv, NEW c \in Served, NEW m \in since[c] \ telling
                PROVE  Settled(c).messages[m] = 1
    BY DEF MessagesReach
  <2>1. c \in Client /\ c \in members \cap open /\ at[c] \in Working
    BY DEF IInv, TypesOK, HubOK, Served, Working
  <2>2. MessageOK(c)
    BY <2>1 DEF IInv
  <2>. QED BY <2>1, <2>2 DEF MessageOK
<1>. QED
  BY <1>1, IInvHolds, PTL

=============================================================================
