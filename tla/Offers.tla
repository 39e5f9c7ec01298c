------------------------------- MODULE Offers -------------------------------
(***************************************************************************)
(* How a prepare-upload gets its answer: askAccept of                      *)
(* internal/server/server.go blocks the request until the engine           *)
(* (cmd/omasend-engine/main.go) answers it; the engine parks it as an      *)
(* offer until some client of its socket accepts or declines, or a timer   *)
(* declines for them; the sender at the other end                          *)
(* (internal/client/client.go) gives up on its own clock.  The terminal    *)
(* program (internal/app/events.go, internal/tui/model.go) takes requests  *)
(* from the same channel and shows the latest one in a prompt.             *)
(*                                                                         *)
(* Time is counted in ticks.  A goroutine whose timer fired or whose       *)
(* channel is ready runs before the next tick, so a timer is never late by *)
(* a tick; the order within a tick is free.  The engine's accept pump      *)
(* starts some time after the server does.                                 *)
(***************************************************************************)
EXTENDS Integers, Sequences, FiniteSets

CONSTANTS
  Request,      \* prepare-upload requests that carry files
  NoRequest,    \* no prompt is shown
  AcceptCap,    \* capacity of the accepts channel
  MaxHeld,      \* maxHeldOffers
  EnqueueWait,  \* askAccept: how long to try to hand the request over (2s)
  ServerWait,   \* askAccept: how long to wait for the decision (60s)
  HoldFor,      \* holdOffer: how long an offer stays parked (55s)
  SenderWait,   \* the sender's ResponseHeaderTimeout (30s)
  StartupLag    \* bound: ticks from Server.Start to pumpEvents

ASSUME OffersAssumption ==
  /\ NoRequest \notin Request
  /\ AcceptCap \in Nat \ {0}
  /\ MaxHeld \in Nat
  /\ EnqueueWait \in Nat \ {0}
  /\ ServerWait \in Nat
  /\ HoldFor \in Nat
  /\ SenderWait \in Nat \ {0}
  /\ StartupLag \in Nat
  /\ HoldFor + StartupLag < ServerWait

VARIABLES
  program,     \* which program the server runs in
  pumping,     \* pumpEvents, or BridgeServer, runs
  startup,     \* ticks since Server.Start, until it does
  autoAccept,  \* Server.autoAccept
  handler,     \* where the goroutine of a request is
  handlerAge,  \* ticks its present wait has lasted
  accepts,     \* the accepts channel
  offers,      \* engine.offers
  offerAge,    \* ticks since the hold timer was set
  prompt,      \* Model.pending of the terminal program
  answering,   \* what a resolveOffer under way is about to reply
  reply,       \* the request's Reply channel, capacity 1
  sender,      \* how the sender sees it
  senderAge,   \* ticks since it sent the request
  said,        \* history: who accepted it, and how
  blocked      \* history: resolvers that found the Reply channel full

engineVars  == <<pumping, startup, accepts, offers, offerAge, prompt, answering>>
handlerVars == <<handler, handlerAge>>
senderVars  == <<sender, senderAge>>
vars == <<program, engineVars, handlerVars, senderVars, autoAccept, reply, said, blocked>>

Decision == {"yes", "no"}

\* Types; and at most maxHeldOffers requests keep their file lists in memory.
TypeOK ==
  /\ program \in {"engine", "terminal"}
  /\ pumping \in BOOLEAN
  /\ startup \in 0 .. StartupLag
  /\ autoAccept \in BOOLEAN
  /\ handler \in [Request -> {"new", "asking", "waiting", "accepted", "declined"}]
  /\ handlerAge \in [Request -> 0 .. ServerWait + EnqueueWait]
  /\ accepts \in Seq(Request) /\ Len(accepts) <= AcceptCap
  /\ offers \in SUBSET Request /\ Cardinality(offers) <= MaxHeld
  /\ offerAge \in [Request -> 0 .. HoldFor]
  /\ prompt \in Request \cup {NoRequest}
  /\ answering \in [Request -> Decision \cup {"none"}]
  /\ reply \in [Request -> Decision \cup {"none"}]
  /\ sender \in [Request -> {"new", "waiting", "told", "gaveUp"}]
  /\ senderAge \in [Request -> 0 .. SenderWait]
  /\ said \in [Request -> {"nothing", "auto", "yes", "no", "timer"}]
  /\ blocked \in SUBSET Request

Init ==
  /\ program \in {"engine", "terminal"}
  /\ pumping = FALSE
  /\ startup = 0
  /\ autoAccept \in BOOLEAN
  /\ handler = [r \in Request |-> "new"]
  /\ handlerAge = [r \in Request |-> 0]
  /\ accepts = <<>>
  /\ offers = {}
  /\ offerAge = [r \in Request |-> 0]
  /\ prompt = NoRequest
  /\ answering = [r \in Request |-> "none"]
  /\ reply = [r \in Request |-> "none"]
  /\ sender = [r \in Request |-> "new"]
  /\ senderAge = [r \in Request |-> 0]
  /\ said = [r \in Request |-> "nothing"]
  /\ blocked = {}

-----------------------------------------------------------------------------
\* Variants of operations below that a slip in the code could produce; they
\* are not part of the specification.

\* Fault: the hold timer is as long as the server's own wait.
HoldOverLate(r) == r \in offers /\ offerAge[r] + 1 > ServerWait

\* Fault: the cap lets one more offer in.
RoomOneMore == Cardinality(offers) <= MaxHeld

\* Fault: answering an offer leaves it parked.
UnparkNothing(r) == UNCHANGED offers

\* Fault: nothing declines an offer nobody answers.
HoldOverNever(r) == FALSE

\* Fault: whatever the decision, the reply is an accept.
DecideYes(r, d) == answering' = [answering EXCEPT ![r] = "yes"]

-----------------------------------------------------------------------------
\* The two timers of the receiver and the cap, as guards.

Room == Cardinality(offers) < MaxHeld

HoldOver(r) == r \in offers /\ offerAge[r] >= HoldFor

WaitOver(r) == handler[r] = "waiting" /\ handlerAge[r] >= ServerWait

AskOver(r) == handler[r] = "asking" /\ handlerAge[r] >= EnqueueWait

Unpark(r) == offers' = offers \ {r}

\* The decision resolveOffer was called with.
Decide(r, d) == answering' = [answering EXCEPT ![r] = d]

Move(r, label) ==
  /\ handler' = [handler EXCEPT ![r] = label]
  /\ handlerAge' = [handlerAge EXCEPT ![r] = 0]

-----------------------------------------------------------------------------
\* The server's side: askAccept.

\* A request arrives and has passed the PIN gate.
Ask(r) ==
  /\ handler[r] = "new"
  /\ sender' = [sender EXCEPT ![r] = "waiting"]
  /\ IF autoAccept
     THEN Move(r, "accepted") /\ said' = [said EXCEPT ![r] = "auto"]
     ELSE Move(r, "asking") /\ UNCHANGED said
  /\ UNCHANGED <<program, engineVars, senderAge, autoAccept, reply, blocked>>

Enqueue(r) ==
  /\ handler[r] = "asking"
  /\ Len(accepts) < AcceptCap
  /\ accepts' = Append(accepts, r)
  /\ Move(r, "waiting")
  /\ UNCHANGED <<program, pumping, startup, offers, offerAge, prompt, answering,
                 senderVars, autoAccept, reply, said, blocked>>

\* Nobody drains the channel.
AskTimesOut(r) ==
  /\ AskOver(r)
  /\ Move(r, "declined")
  /\ UNCHANGED <<program, engineVars, senderVars, autoAccept, reply, said, blocked>>

ReceiveReply(r) ==
  /\ handler[r] = "waiting"
  /\ reply[r] # "none"
  /\ Move(r, IF reply[r] = "yes" THEN "accepted" ELSE "declined")
  /\ reply' = [reply EXCEPT ![r] = "none"]
  /\ UNCHANGED <<program, engineVars, senderVars, autoAccept, said, blocked>>

WaitTimesOut(r) ==
  /\ WaitOver(r)
  /\ Move(r, "declined")
  /\ UNCHANGED <<program, engineVars, senderVars, autoAccept, reply, said, blocked>>

\* handleSet of the engine, whatever requests are under way.
SetAutoAccept ==
  /\ autoAccept' = ~autoAccept
  /\ UNCHANGED <<program, engineVars, handlerVars, senderVars, reply, said, blocked>>

-----------------------------------------------------------------------------
\* The engine's side: pumpEvents, holdOffer, resolveOffer.

StartPump ==
  /\ ~pumping
  /\ pumping' = TRUE
  /\ UNCHANGED <<program, startup, accepts, offers, offerAge, prompt, answering,
                 handlerVars, senderVars, autoAccept, reply, said, blocked>>

\* holdOffer: park the request and set its timer, or decline it at the cap.
\* The clients learn of it by the broadcast or by a replay.
HoldOffer ==
  /\ pumping /\ program = "engine"
  /\ accepts # <<>>
  /\ accepts' = Tail(accepts)
  /\ LET r == Head(accepts)
     IN  IF Room
         THEN /\ offers' = offers \cup {r}
              /\ offerAge' = [offerAge EXCEPT ![r] = 0]
              /\ UNCHANGED reply
         ELSE /\ reply' = [reply EXCEPT ![r] = "no"]
              /\ UNCHANGED <<offers, offerAge>>
  /\ UNCHANGED <<program, pumping, startup, prompt, answering, handlerVars,
                 senderVars, autoAccept, said, blocked>>

\* A client's accept or decline reached resolveOffer while the offer is
\* parked; one that comes later finds nothing and changes nothing.
ClientAnswers(r, d) ==
  /\ r \in offers
  /\ Unpark(r)
  /\ Decide(r, d)
  /\ said' = [said EXCEPT ![r] = d]
  /\ UNCHANGED <<program, pumping, startup, accepts, offerAge, prompt, handlerVars,
                 senderVars, autoAccept, reply, blocked>>

\* The hold timer declines.
OfferExpires(r) ==
  /\ HoldOver(r)
  /\ Unpark(r)
  /\ Decide(r, "no")
  /\ said' = [said EXCEPT ![r] = "timer"]
  /\ UNCHANGED <<program, pumping, startup, accepts, offerAge, prompt, handlerVars,
                 senderVars, autoAccept, reply, blocked>>

\* resolveOffer, after the unlock.  A full Reply channel would hold up the
\* goroutine for good.
Reply(r) ==
  /\ answering[r] # "none"
  /\ answering' = [answering EXCEPT ![r] = "none"]
  /\ IF reply[r] = "none"
     THEN reply' = [reply EXCEPT ![r] = answering[r]] /\ UNCHANGED blocked
     ELSE blocked' = blocked \cup {r} /\ UNCHANGED reply
  /\ UNCHANGED <<program, pumping, startup, accepts, offers, offerAge, prompt,
                 handlerVars, senderVars, autoAccept, said>>

-----------------------------------------------------------------------------
\* The terminal program: BridgeServer and the accept prompt.

\* A prompt that was not answered is replaced.
ShowPrompt ==
  /\ pumping /\ program = "terminal"
  /\ accepts # <<>>
  /\ prompt' = Head(accepts)
  /\ accepts' = Tail(accepts)
  /\ UNCHANGED <<program, pumping, startup, offers, offerAge, answering, handlerVars,
                 senderVars, autoAccept, reply, said, blocked>>

\* A key answers the prompt, however long its request has been over.
PromptAnswers(d) ==
  /\ prompt # NoRequest
  /\ Decide(prompt, d)
  /\ said' = [said EXCEPT ![prompt] = d]
  /\ prompt' = NoRequest
  /\ UNCHANGED <<program, pumping, startup, accepts, offers, offerAge, handlerVars,
                 senderVars, autoAccept, reply, blocked>>

-----------------------------------------------------------------------------
\* The sender's side: prepareUpload over an http.Transport.

HearAnswer(r) ==
  /\ sender[r] = "waiting"
  /\ handler[r] \in {"accepted", "declined"}
  /\ sender' = [sender EXCEPT ![r] = "told"]
  /\ UNCHANGED <<program, engineVars, handlerVars, senderAge, autoAccept, reply, said, blocked>>

SenderTimesOut(r) ==
  /\ sender[r] = "waiting"
  /\ senderAge[r] >= SenderWait
  /\ sender' = [sender EXCEPT ![r] = "gaveUp"]
  /\ UNCHANGED <<program, engineVars, handlerVars, senderAge, autoAccept, reply, said, blocked>>

-----------------------------------------------------------------------------
\* Something is due before the next tick.
Due(r) ==
  \/ handler[r] = "asking" /\ Len(accepts) < AcceptCap
  \/ AskOver(r)
  \/ handler[r] = "waiting" /\ reply[r] # "none"
  \/ WaitOver(r)
  \/ HoldOver(r)
  \/ answering[r] # "none"
  \/ sender[r] = "waiting" /\ \/ handler[r] \in {"accepted", "declined"}
                              \/ senderAge[r] >= SenderWait

\* Bound: a clock stops when every timer has fired.
LastTimer == ServerWait + EnqueueWait + SenderWait

Aged(age, running) ==
  [r \in Request |-> IF r \in running /\ age[r] < LastTimer THEN age[r] + 1
                                                           ELSE age[r]]

Tick ==
  /\ \A r \in Request : ~Due(r)
  /\ pumping => accepts = <<>>
  /\ ~pumping => startup < StartupLag
  /\ startup' = IF pumping THEN startup ELSE startup + 1
  /\ handlerAge' = Aged(handlerAge, {r \in Request : handler[r] \in {"asking", "waiting"}})
  /\ offerAge' = Aged(offerAge, offers)
  /\ senderAge' = Aged(senderAge, {r \in Request : sender[r] = "waiting"})
  /\ UNCHANGED <<program, pumping, autoAccept, handler, accepts, offers, prompt,
                 answering, reply, sender, said, blocked>>

\* What runs by itself.
Advance ==
  \/ \E r \in Request :
       \/ Enqueue(r) \/ AskTimesOut(r) \/ ReceiveReply(r) \/ WaitTimesOut(r)
       \/ OfferExpires(r) \/ Reply(r) \/ HearAnswer(r) \/ SenderTimesOut(r)
  \/ StartPump
  \/ HoldOffer \/ ShowPrompt
  \/ Tick

Next ==
  \/ Advance
  \/ \E r \in Request : Ask(r) \/ \E d \in Decision : ClientAnswers(r, d)
  \/ \E d \in Decision : PromptAnswers(d)
  \/ SetAutoAccept

Spec == Init /\ [][Next]_vars

\* Goroutines that can run do, timers fire, time passes.  Users may never answer.
FairSpec == Spec /\ WF_vars(Advance)

-----------------------------------------------------------------------------
(* Properties *)

\* "resolveOffer answers a parked offer exactly once" (its comment): the reply
\* of a request is sent once, by whoever took the offer off the table first,
\* so nobody is held up on the Reply channel and no reply replaces another.
AnsweredOnce ==
  /\ blocked = {}
  /\ \A r \in Request :
       /\ r \in offers \cup {prompt} => answering[r] = "none" /\ reply[r] = "none"
       /\ answering[r] # "none" => reply[r] = "none"

\* A parked offer can still be answered: the request behind it waits for the
\* decision, so that an accept does not go nowhere on the receiver's side (the
\* comment on holdOffer's timer, which must undercut askAccept's).
OffersAnswerable == \A r \in offers : handler[r] = "waiting"

\* Files are taken only if somebody said so: a client of the socket, the user
\* at the prompt (for that request, not the one it replaced), or the
\* auto-accept setting as it was when the request came.  Never a timer, a cap,
\* or a setting changed while the request waited.
AcceptedByUser ==
  \A r \in Request : handler[r] = "accepted" => said[r] \in {"auto", "yes"}

\* Every offer leaves the table, answered or not.
OffersLeave == \A r \in Request : r \in offers ~> r \notin offers

\* What the comment in holdOffer wants the hold time for, taken from end to
\* end: an accept of a parked offer does not go nowhere, the sender is still
\* there to hear of it.
AcceptsGoSomewhere ==
  \A r \in Request :
    handler[r] = "accepted" /\ said[r] = "yes" => sender[r] # "gaveUp"
=============================================================================
