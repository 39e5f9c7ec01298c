------------------------------ MODULE Transfer ------------------------------
(***************************************************************************)
(* Sender and receiver together: each batch of Sender talks to a peer that *)
(* keeps the promise of FileDelivery (as UploadSessions is checked to do). *)
(* Between them is a network that may lose a request or an answer, and may *)
(* deliver a request after its sender gave up.                             *)
(***************************************************************************)
EXTENDS Sender

VARIABLES
  open,    \* the receiver's sessions, named by the batch they were made for
  status,  \* status[b][f] at the receiver
  served   \* history: the upload requests that reached the receiver

peerVars == <<open, status, served>>

Receiver == INSTANCE FileDelivery WITH Session <- Batch

TransferInit ==
  /\ Init
  /\ Receiver!Init
  /\ served = {}

-----------------------------------------------------------------------------
\* Plausible mistakes, substituted for the operation they vary.

\* Fault: an answer is an answer, whatever its status.
AnyAnswer(b) == <<b, current[b]>> \in served

-----------------------------------------------------------------------------

\* The prepare-upload request of b is waiting at the receiver, or still is
\* after its sender gave up.
Asking(b) ==
  \/ pc[b] = "preparing"
  \/ b \notin sync /\ \E f \in File : outcome[b][f] = "refused"

\* The receiver accepts: it makes a session for the files it wants.
Accepts(b, gs) ==
  /\ Asking(b)
  /\ gs # {} /\ gs \subseteq batch[b]
  /\ Receiver!Offer(b, gs)
  /\ UNCHANGED <<vars, served>>

Wanted(b) == {f \in File : status[b][f] # "absent"}

\* The answer reaches the sender; without a session it is a 204.
HearsGranted(b) ==
  /\ Granted(b, Wanted(b))
  /\ UNCHANGED peerVars

\* An upload request reaches the receiver and may claim the file.
Arrives(b, f) ==
  /\ f \in posted[b]
  /\ <<b, f>> \notin served
  /\ served' = served \cup {<<b, f>>}
  /\ Receiver!Attempt(b, f)
  /\ UNCHANGED vars

ReceiverStep ==
  /\ \/ \E b \in Batch, f \in File : Receiver!GiveUp(b, f) \/ Receiver!Deliver(b, f)
     \/ \E b \in Batch : b \in open /\ Receiver!Close({b})
  /\ UNCHANGED <<vars, served>>

\* The receiver answers 200: its handler came to its end.
AnswersOk(b) ==
  /\ <<b, current[b]>> \in served
  /\ status[b][current[b]] = "delivered"

HearsOk(b) ==
  /\ pc[b] = "uploading"
  /\ AnswersOk(b)
  /\ UploadOk(b)
  /\ UNCHANGED peerVars

TransferNext ==
  \/ \E b \in Batch :
       \/ /\ \/ \E p \in Peer : Begin(b, p) \/ BeginSync(b, p)
             \/ Own(b)
             \/ PinRequired(b) \/ Refused(b) \/ UploadFails(b)
          /\ UNCHANGED peerVars
       \/ HearsGranted(b)
       \/ HearsOk(b)
       \/ \E gs \in SUBSET File : Accepts(b, gs)
       \/ \E f \in File : Arrives(b, f)
  \/ ReceiverStep

TransferSpec == TransferInit /\ [][TransferNext]_<<vars, peerVars>>
-----------------------------------------------------------------------------
(* Properties *)

\* Each file the sender reports as done, and each file of a SendFilesSync
\* that returned no error, is in place at the receiver.
DoneIsDelivered ==
  \A b \in Batch, f \in File :
    \/ outcome[b][f] = "done"
    \/ b \in sync /\ result[b] = "ok" /\ f \in granted[b]
    => status[b][f] = "delivered"

\* A sender is wrong about one file at most: of the files it reports as not
\* sent, only the last one it posted can have landed.
WrongAboutOne ==
  \A b \in Batch :
    Cardinality({f \in File : /\ status[b][f] \in {"attempted", "delivered"}
                              /\ outcome[b][f] \notin {"none", "done"}}) <= 1
=============================================================================
