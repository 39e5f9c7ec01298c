------------------------------- MODULE Sender -------------------------------
(***************************************************************************)
(* The sending side of a transfer (internal/client/client.go).  A batch is *)
(* one call of Send (its own goroutine, superseded by the next Send to the *)
(* same address) or of SendFilesSync (the engine and the command line):    *)
(* expand the paths, ask the peer with prepare-upload, then upload file    *)
(* after file the ones the peer gave a token for.  What the peer answers,  *)
(* and when, is free here; Transfer makes it a FileDelivery receiver.      *)
(*                                                                         *)
(* An action runs to the goroutine's next call of the network, the file    *)
(* system or the lock.  outcome is the terminal event of a file's row as   *)
(* the batch reports it ("skipped": Error for a file that does not open,   *)
(* "refused": Error because prepare-upload failed); the events channel,    *)
(* progress and the messages that ride in prepare-upload are left out, and *)
(* so is the context SendFilesSync gets, which lasts as long as the        *)
(* program.                                                                *)
(***************************************************************************)
EXTENDS Integers, FiniteSets

CONSTANTS
  Batch,     \* calls of Send and SendFilesSync
  NoBatch,   \* "no send to this address is running"
  Peer,      \* peer addresses
  NoPeer,    \* "the batch has not begun"
  File,      \* the file ids a batch may make
  NoFile     \* "no file is being uploaded"

ASSUME SenderAssumption ==
  /\ NoBatch \notin Batch
  /\ NoPeer \notin Peer
  /\ NoFile \notin File

VARIABLES
  active,     \* Sender.active: the inflight registered for an address
  cancelled,  \* batches whose context is cancelled
  pc,         \* where each batch is
  sync,       \* batches begun by SendFilesSync
  peer,       \* the address a batch sends to
  batch,      \* batch[b]: the ids in the map files
  todo,       \* files the loop at hand has not handled yet
  current,    \* the file being uploaded
  posted,     \* history: files whose upload request was handed to the transport
  granted,    \* granted[b]: the files the peer gave a token for
  outcome,    \* history: outcome[b][f]
  result      \* what SendFilesSync returned

registry == <<active, cancelled>>
progress == <<todo, current, posted, outcome>>
vars == <<registry, progress, pc, sync, peer, batch, granted, result>>

-----------------------------------------------------------------------------

Outcome == {"none", "done", "failed", "skipped", "cancelled", "refused"}

PC == {"idle", "expand", "preparing", "loop", "opening", "posting",
       "uploading", "exit", "leaving", "ended"}

\* Between the registration and the deferred clean-up of send.
Running(b) == pc[b] \notin {"idle", "leaving", "ended"}

TypeOK ==
  /\ active    \in [Peer -> Batch \cup {NoBatch}]
  /\ cancelled \in SUBSET (Batch \ sync)
  /\ pc        \in [Batch -> PC]
  /\ sync      \in SUBSET Batch
  /\ peer      \in [Batch -> Peer \cup {NoPeer}]
  /\ batch     \in [Batch -> SUBSET File]
  /\ granted   \in [Batch -> SUBSET File]
  /\ todo      \in [Batch -> SUBSET File]
  /\ current   \in [Batch -> File \cup {NoFile}]
  /\ posted    \in [Batch -> SUBSET File]
  /\ outcome   \in [Batch -> [File -> Outcome]]
  /\ result    \in [Batch -> {"none", "ok", "error"}]
  /\ \A b \in Batch : todo[b] \cup posted[b] \subseteq batch[b]

Init ==
  /\ active    = [p \in Peer |-> NoBatch]
  /\ cancelled = {}
  /\ pc        = [b \in Batch |-> "idle"]
  /\ sync      = {}
  /\ peer      = [b \in Batch |-> NoPeer]
  /\ batch     = [b \in Batch |-> {}]
  /\ granted   = [b \in Batch |-> {}]
  /\ todo      = [b \in Batch |-> {}]
  /\ current   = [b \in Batch |-> NoFile]
  /\ posted    = [b \in Batch |-> {}]
  /\ outcome   = [b \in Batch |-> [f \in File |-> "none"]]
  /\ result    = [b \in Batch |-> "none"]

Goto(b, label) == pc' = [pc EXCEPT ![b] = label]

Conclude(b, f, how) == outcome' = [outcome EXCEPT ![b][f] = how]

\* SendFilesSync returns; it registered nothing that needs a clean-up.
Return(b, how) ==
  /\ Goto(b, "ended")
  /\ result' = [result EXCEPT ![b] = how]

-----------------------------------------------------------------------------
\* Plausible mistakes, substituted for the operation they vary.

\* Fault: the registration is removed whoever holds it.
ForgetAnyone(b) == [active EXCEPT ![peer[b]] = NoBatch]

\* Fault: after a failure the loop goes on with the next file.
AbortNothing(b) == cancelled

\* Fault: a cancelled batch leaves its loop without reporting the rest.
TakeOrLeave(b, f) ==
  /\ pc[b] = "loop"
  /\ f \in todo[b]
  /\ IF b \in cancelled
     THEN /\ Goto(b, "exit")
          /\ UNCHANGED <<todo, current>>
     ELSE /\ Goto(b, "opening")
          /\ current' = [current EXCEPT ![b] = f]
          /\ todo' = [todo EXCEPT ![b] = @ \ {f}]
  /\ UNCHANGED <<registry, posted, outcome, sync, peer, batch, granted, result>>

\* Fault: the files that could not be opened are forgotten.
SyncResultOk(b) == "ok"

\* Fault: the upload request does not carry the context of its batch.
HangingUp(b) == FALSE

-----------------------------------------------------------------------------
\* Beginning and end of a batch.

\* The contexts after a Send to p: it supersedes the one still running.
Supersede(p) ==
  cancelled \cup (IF active[p] = NoBatch THEN {} ELSE {active[p]})

\* send: one hold of the lock cancels the previous batch and registers b.
Begin(b, p) ==
  /\ pc[b] = "idle"
  /\ cancelled' = Supersede(p)
  /\ active' = [active EXCEPT ![p] = b]
  /\ peer' = [peer EXCEPT ![b] = p]
  /\ Goto(b, "expand")
  /\ UNCHANGED <<progress, sync, batch, granted, result>>

BeginSync(b, p) ==
  /\ pc[b] = "idle"
  /\ sync' = sync \cup {b}
  /\ peer' = [peer EXCEPT ![b] = p]
  /\ Goto(b, "expand")
  /\ UNCHANGED <<registry, progress, batch, granted, result>>

\* expand found the readable files fs and they were given ids; with none
\* there is nothing to send.  A missing path fails SendFilesSync as well.
Expand(b, fs) ==
  /\ pc[b] = "expand"
  /\ batch' = [batch EXCEPT ![b] = fs]
  /\ IF fs # {}
     THEN Goto(b, "preparing") /\ UNCHANGED result
     ELSE IF b \in sync THEN Return(b, "error")
                        ELSE Goto(b, "exit") /\ UNCHANGED result
  /\ UNCHANGED <<registry, progress, sync, peer, granted>>

\* The deferred function of send: first end the context ...
Exit(b) ==
  /\ pc[b] = "exit"
  /\ cancelled' = cancelled \cup {b}
  /\ Goto(b, "leaving")
  /\ UNCHANGED <<active, progress, sync, peer, batch, granted, result>>

\* The registrations left once b forgets its own.
Forget(b) ==
  [p \in Peer |-> IF p = peer[b] /\ active[p] = b THEN NoBatch ELSE active[p]]

\* ... then, under the lock, remove the registration if it is still b's.
Deregister(b) ==
  /\ pc[b] = "leaving"
  /\ active' = Forget(b)
  /\ Goto(b, "ended")
  /\ UNCHANGED <<cancelled, progress, sync, peer, batch, granted, result>>

-----------------------------------------------------------------------------
\* prepare-upload.

\* 200 with tokens for gs; 204 is the empty set, and a success.  The sender does
\* not check that the ids are its own: a receiver is taken to answer with ids
\* it was asked about.
Granted(b, gs) ==
  /\ pc[b] = "preparing"
  /\ gs \subseteq batch[b]
  /\ granted' = [granted EXCEPT ![b] = gs]
  /\ todo' = [todo EXCEPT ![b] = gs]
  /\ Goto(b, "loop")
  /\ UNCHANGED <<registry, current, posted, outcome, sync, peer, batch, result>>

\* 401: one event without a file, the user is asked for the PIN and a new
\* batch follows.
PinRequired(b) ==
  /\ pc[b] = "preparing"
  /\ IF b \in sync THEN Return(b, "error")
                   ELSE Goto(b, "exit") /\ UNCHANGED result
  /\ UNCHANGED <<registry, progress, sync, peer, batch, granted>>

\* Any other failure, the end of the context included, is an Error for each
\* file of the batch, or the error SendFilesSync returns.
Refused(b) ==
  /\ pc[b] = "preparing"
  /\ IF b \in sync
     THEN Return(b, "error") /\ UNCHANGED outcome
     ELSE /\ outcome' = [outcome EXCEPT ![b] =
                [f \in File |-> IF f \in batch[b] THEN "refused" ELSE "none"]]
          /\ Goto(b, "exit")
          /\ UNCHANGED result
  /\ UNCHANGED <<registry, todo, current, posted, sync, peer, batch, granted>>

-----------------------------------------------------------------------------
\* The upload loop.

\* Next file, in the order of Go's map iteration: any.  A cancelled send
\* reports a Cancel instead.
Take(b, f) ==
  /\ pc[b] = "loop"
  /\ f \in todo[b]
  /\ todo' = [todo EXCEPT ![b] = @ \ {f}]
  /\ IF b \in cancelled
     THEN Conclude(b, f, "cancelled") /\ UNCHANGED <<pc, current>>
     ELSE /\ Goto(b, "opening")
          /\ current' = [current EXCEPT ![b] = f]
          /\ UNCHANGED outcome
  /\ UNCHANGED <<registry, posted, sync, peer, batch, granted, result>>

\* errOpen is this file's own failure: the loop goes on.
OpenFails(b) ==
  /\ pc[b] = "opening"
  /\ Conclude(b, current[b], IF b \in cancelled THEN "cancelled" ELSE "skipped")
  /\ current' = [current EXCEPT ![b] = NoFile]
  /\ Goto(b, "loop")
  /\ UNCHANGED <<registry, todo, posted, sync, peer, batch, granted, result>>

\* Start was emitted and the request is made.
Open(b) ==
  /\ pc[b] = "opening"
  /\ Goto(b, "posting")
  /\ UNCHANGED <<registry, progress, sync, peer, batch, granted, result>>

\* The transport takes no request whose context is over.
Post(b) ==
  /\ pc[b] = "posting"
  /\ b \notin cancelled
  /\ posted' = [posted EXCEPT ![b] = @ \cup {current[b]}]
  /\ Goto(b, "uploading")
  /\ UNCHANGED <<registry, todo, current, outcome, sync, peer, batch, granted,
                 result>>

\* The peer answered 200.
UploadOk(b) ==
  /\ pc[b] = "uploading"
  /\ Conclude(b, current[b], "done")
  /\ current' = [current EXCEPT ![b] = NoFile]
  /\ Goto(b, "loop")
  /\ UNCHANGED <<registry, todo, posted, sync, peer, batch, granted, result>>

\* The contexts after a failed upload: the session is gone, so is the batch.
Abort(b) == cancelled \cup {b}

\* Another answer, a broken connection, or the end of the context.
UploadFails(b) ==
  /\ pc[b] \in {"posting", "uploading"}
  /\ Conclude(b, current[b], IF b \in cancelled THEN "cancelled" ELSE "failed")
  /\ current' = [current EXCEPT ![b] = NoFile]
  /\ IF b \in sync
     THEN Return(b, "error") /\ UNCHANGED registry
     ELSE /\ cancelled' = Abort(b)
          /\ Goto(b, "loop")
          /\ UNCHANGED <<active, result>>
  /\ UNCHANGED <<todo, posted, sync, peer, batch, granted>>

\* What SendFilesSync returns after its loop.
SyncResult(b) ==
  IF \E f \in granted[b] : outcome[b][f] = "skipped" THEN "error" ELSE "ok"

LoopEnds(b) ==
  /\ pc[b] = "loop"
  /\ todo[b] = {}
  /\ IF b \in sync THEN Return(b, SyncResult(b))
                   ELSE Goto(b, "exit") /\ UNCHANGED result
  /\ UNCHANGED <<registry, progress, sync, peer, batch, granted>>

-----------------------------------------------------------------------------

\* A call of the transport returns once the context of its request is over.
HangUp(b) == b \in cancelled

\* Steps the goroutine takes without the peer.
Own(b) ==
  \/ \E fs \in SUBSET File : Expand(b, fs)
  \/ \E f \in File : Take(b, f)
  \/ OpenFails(b) \/ Open(b) \/ Post(b) \/ LoopEnds(b) \/ Exit(b) \/ Deregister(b)
  \/ HangUp(b) /\ (Refused(b) \/ UploadFails(b))

\* Steps that wait for the peer or the network.
Answered(b) ==
  \/ \E gs \in SUBSET File : Granted(b, gs)
  \/ PinRequired(b) \/ Refused(b) \/ UploadOk(b) \/ UploadFails(b)

Next ==
  \E b \in Batch :
    \/ \E p \in Peer : Begin(b, p) \/ BeginSync(b, p)
    \/ Own(b)
    \/ Answered(b)

Spec == Init /\ [][Next]_vars

(***************************************************************************)
(* Fairness.  A goroutine that can run does.  Nothing bounds an upload in  *)
(* time (Client.Timeout is 0), and a peer need not answer: Answered gets   *)
(* no fairness.                                                            *)
(***************************************************************************)
FairSpec == Spec /\ \A b \in Batch : WF_vars(Own(b))
-----------------------------------------------------------------------------
(* Properties *)

\* At most one send to an address is alive, however sends, their ends and
\* their clean-ups interleave: the comment at the head of send ("a new
\* transfer to a peer supersedes any still-running one to the same peer").
OneLiveSend ==
  \A p \in Peer :
    Cardinality({b \in Batch \ (sync \cup cancelled) :
                   peer[b] = p /\ Running(b)}) <= 1

\* The registration of an address is a send to it that has not cleaned up:
\* no batch that is over stays registered, and a live one is always found.
RegistryExact ==
  \A p \in Peer :
    /\ active[p] # NoBatch =>
         /\ peer[active[p]] = p
         /\ pc[active[p]] \notin {"idle", "ended"}
         /\ active[p] \notin sync
    /\ \A b \in Batch \ (sync \cup cancelled) :
         peer[b] = p /\ Running(b) => active[p] = b

\* When a Send is over every file the peer wanted was reported, as done,
\* failed, skipped or cancelled.
EveryFileReported ==
  \A b \in Batch \ sync :
    pc[b] \in {"exit", "leaving", "ended"} =>
      \A f \in granted[b] : outcome[b][f] # "none"

\* A batch fails once: after a failed upload the remaining files are never
\* tried (TestSendAbortsBatchWhenSessionGone, cancel_test.go).
FailsOnce ==
  \A b \in Batch :
    LET failed == {f \in File : outcome[b][f] = "failed"}
    IN  /\ Cardinality(failed) <= 1
        /\ failed # {} => current[b] = NoFile

\* SendFilesSync returns without an error only if each file the peer wanted
\* was uploaded.
SyncOkMeansAllDone ==
  \A b \in sync :
    result[b] = "ok" => \A f \in granted[b] : outcome[b][f] = "done"

CleanStep ==
  \A b \in cancelled, f \in File :
    outcome[b][f] = "none" => outcome'[b][f] \in {"none", "done", "cancelled"}

\* A file of a cancelled batch that has not been reported yet is reported as
\* cancelled, unless it just made it (the comment in the upload loop: "report
\* a clean cancel").
CleanCancel == [][CleanStep]_vars

\* A send that was superseded is over some time, whatever its peer does.
SupersededEnds ==
  \A b \in Batch : b \in cancelled ~> pc[b] = "ended"
=============================================================================
