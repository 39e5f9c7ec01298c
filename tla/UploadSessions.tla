--------------------------- MODULE UploadSessions ---------------------------
(***************************************************************************)
(* The receiving server's session store (internal/server/session.go) and   *)
(* the three HTTP handlers that drive it (internal/server/server.go):      *)
(* prepare-upload creates a session, upload claims one of its files,       *)
(* streams it and completes it, cancel removes the session.  net/http runs *)
(* every request on its own goroutine, so the handlers interleave freely   *)
(* between two holds of the store's lock; an action is one such hold, or   *)
(* one step of writeFile, or one send on the bounded transfers channel.    *)
(*                                                                         *)
(* Left out here: the PIN gate and the user's answer (a BeginCreate is a   *)
(* request that passed both), tokens (a claim carries the right one: a     *)
(* wrong one changes nothing), and names on disk (ReceiveDir).             *)
(***************************************************************************)
EXTENDS Integers, FiniteSets

CONSTANTS
  Session,          \* the ids randToken may return; a fresh one every time
  NoSession,        \* "no session yet"
  File,             \* the file ids of a prepare-upload request
  Handler,          \* goroutines serving requests
  MaxSessions,      \* maxSessions
  MaxSessionFiles,  \* maxSessionFiles
  SessionTTL,       \* sessionTTL, in ticks
  TransferCap       \* capacity of the transfers channel

ASSUME UploadSessionsAssumption ==
  /\ NoSession \notin Session
  /\ IsFiniteSet(File)
  /\ MaxSessions \in Nat
  /\ MaxSessionFiles \in Nat
  /\ SessionTTL \in Nat
  /\ TransferCap \in Nat \ {0}

VARIABLES
  sessions,   \* keys of sessionStore.sessions
  files,      \* files[s]: file ids session s was created with ({}: no such id yet)
  done,       \* done[s]: entries with fileEntry.done
  inflight,   \* inflight[s]: entries with fileEntry.inflight
  active,     \* session.active
  idle,       \* ticks since session.lastUsed, saturating just past SessionTTL
  cancelled,  \* sessions whose context is cancelled
  pc,         \* where each handler goroutine is
  sid,        \* the session a handler works on
  want,       \* the files a handler works on: those to declare, or the one to receive
  queued,     \* events waiting in the transfers channel
  landed,     \* history: <<s, f>> renamed to its final name
  row         \* history: the last event sent under the key sessionId:fileId

storeVars   == <<sessions, files, done, inflight, active, idle, cancelled>>
handlerVars == <<pc, sid, want>>
eventVars   == <<queued, row>>
vars        == <<storeVars, handlerVars, eventVars, landed>>

-----------------------------------------------------------------------------

\* Inside writeFile: the claim is held and the file is not yet in place.
Receiving == {"claimed", "writing", "copied"}

\* Between claim and endUpload.
Uploading == Receiving \cup {"landed", "completing", "failed", "ending"}

PC == Uploading \cup {"idle", "insert", "aborting", "announce"}

Fresh == {s \in Session : files[s] = {}}

\* Handlers that hold a claim on a file of session s.
Uploaders(s) == {h \in Handler : pc[h] \in Uploading /\ sid[h] = s}

\* The entries of all the sessions in the store, one per declared file.
Entries == {e \in Session \X File : e[1] \in sessions /\ e[2] \in files[e[1]]}

TypeOK ==
  /\ sessions  \in SUBSET Session
  /\ files     \in [Session -> SUBSET File]
  /\ done      \in [Session -> SUBSET File]
  /\ inflight  \in [Session -> SUBSET File]
  /\ active    \in [Session -> Nat]
  /\ idle      \in [Session -> 0 .. SessionTTL + 1]
  /\ cancelled \in SUBSET Session
  /\ pc        \in [Handler -> PC]
  /\ sid       \in [Handler -> Session \cup {NoSession}]
  /\ want      \in [Handler -> SUBSET File]
  /\ queued    \in 0 .. TransferCap
  /\ landed    \in SUBSET (Session \X File)
  /\ row       \in [Session \X File -> {"none", "start", "failed", "done"}]

Init ==
  /\ sessions = {}
  /\ files    = [s \in Session |-> {}]
  /\ done     = [s \in Session |-> {}]
  /\ inflight = [s \in Session |-> {}]
  /\ active   = [s \in Session |-> 0]
  /\ idle     = [s \in Session |-> 0]
  /\ cancelled = {}
  /\ pc   = [h \in Handler |-> "idle"]
  /\ sid  = [h \in Handler |-> NoSession]
  /\ want = [h \in Handler |-> {}]
  /\ queued = 0
  /\ landed = {}
  /\ row = [k \in Session \X File |-> "none"]

-----------------------------------------------------------------------------
\* Helpers shared by the handlers.

Goto(h, label) == pc' = [pc EXCEPT ![h] = label]

\* The request is answered and its goroutine is free to serve another.
Finish(h) ==
  /\ Goto(h, "idle")
  /\ sid'  = [sid EXCEPT ![h] = NoSession]
  /\ want' = [want EXCEPT ![h] = {}]

\* A blocking send on s.transfers of an event of the given kind, keyed by
\* the session and file h works on.
Send(h, kind) ==
  /\ queued < TransferCap
  /\ queued' = queued + 1
  /\ row' = [k \in DOMAIN row |->
               IF k[1] = sid[h] /\ k[2] \in want[h] THEN kind ELSE row[k]]

-----------------------------------------------------------------------------
\* Plausible mistakes in the operations below, one operator each.  None is
\* part of the specification: substituted for the operation it varies, each
\* must break a property stated at the end of the module.

\* Fault: an expired session is dropped although an upload is in flight.
ExpiredThoughBusy(s) == s \in sessions /\ idle[s] > SessionTTL

\* Fault: the cap lets one more session in.
FullOneLate(newFiles) ==
  \/ Cardinality(sessions) > MaxSessions
  \/ Cardinality(Entries) + Cardinality(newFiles) > MaxSessionFiles

\* Fault: a file already being received can be claimed.
ClaimableInflight(s, f) == s \in sessions /\ f \in files[s] \ done[s]

\* Fault: the file is not marked done.
MarkNothing(s, fs) == UNCHANGED <<done, sessions, cancelled>>

\* Fault: the busy mark is not released.
ReleaseClaimOnly(s, fs) ==
  /\ inflight' = [inflight EXCEPT ![s] = @ \ fs]
  /\ idle' = [idle EXCEPT ![s] = 0]
  /\ UNCHANGED active

\* Fault: the claim is not released.
ReleaseBusyOnly(s, fs) ==
  /\ active' = [active EXCEPT ![s] = IF @ > 0 THEN @ - 1 ELSE @]
  /\ idle' = [idle EXCEPT ![s] = 0]
  /\ UNCHANGED inflight

\* Fault: writeFile's error is dropped and the upload goes on as received.
FailUnnoticed(h) ==
  /\ pc[h] \in Receiving
  /\ Goto(h, "landed")
  /\ UNCHANGED <<storeVars, sid, want, eventVars, landed>>

-----------------------------------------------------------------------------
\* sessionStore operations, each one hold of the lock.

Expired(s) == s \in sessions /\ active[s] = 0 /\ idle[s] > SessionTTL

\* sweep: the contexts are cancelled after the unlock, but no goroutine is
\* using the context of a session that is not active.
Sweep ==
  LET dead == {s \in sessions : Expired(s)}
  IN  /\ sessions' = sessions \ dead
      /\ cancelled' = cancelled \cup dead

\* The check made under the lock by create.
Full(newFiles) ==
  \/ Cardinality(sessions) >= MaxSessions
  \/ Cardinality(Entries) + Cardinality(newFiles) > MaxSessionFiles

Insert(s, newFiles) ==
  /\ sessions' = sessions \cup {s}
  /\ files' = [files EXCEPT ![s] = newFiles]
  /\ idle' = [idle EXCEPT ![s] = 0]

Claimable(s, f) ==
  /\ s \in sessions
  /\ f \in files[s]
  /\ f \notin done[s]
  /\ f \notin inflight[s]

Touch(s) == idle' = [idle EXCEPT ![s] = 0]

\* complete: mark the file done; when every file is, drop the session.
MarkDone(s, fs) ==
  IF s \in sessions
  THEN /\ done' = [done EXCEPT ![s] = @ \cup fs]
       /\ IF files[s] \subseteq done[s] \cup fs
          THEN /\ sessions' = sessions \ {s}
               /\ cancelled' = cancelled \cup {s}
          ELSE UNCHANGED <<sessions, cancelled>>
  ELSE UNCHANGED <<done, sessions, cancelled>>

\* endUpload: release the busy mark and the claim, restart the idle clock.
Release(s, fs) ==
  IF s \in sessions
  THEN /\ active' = [active EXCEPT ![s] = IF @ > 0 THEN @ - 1 ELSE @]
       /\ inflight' = [inflight EXCEPT ![s] = @ \ fs]
       /\ Touch(s)
  ELSE UNCHANGED <<active, inflight, idle>>

-----------------------------------------------------------------------------
\* POST /prepare-upload, from the point where the request was accepted.

\* create starts with a sweep.  Bounded by the ids the model has left.
BeginCreate(h, newFiles) ==
  /\ pc[h] = "idle"
  /\ newFiles # {}
  /\ Cardinality(Fresh) > Cardinality({g \in Handler : pc[g] = "insert"})
  /\ Sweep
  /\ Goto(h, "insert")
  /\ want' = [want EXCEPT ![h] = newFiles]
  /\ UNCHANGED <<files, done, inflight, active, idle, sid, eventVars, landed>>

\* create's second hold: check the caps and insert, or answer 429.
Create(h) ==
  /\ pc[h] = "insert"
  /\ IF Full(want[h])
     THEN UNCHANGED <<sessions, files, idle>>
     ELSE \E s \in Fresh : Insert(s, want[h])
  /\ Finish(h)
  /\ UNCHANGED <<done, inflight, active, cancelled, eventVars, landed>>

-----------------------------------------------------------------------------
\* POST /upload.

\* claim; a request that may not claim is answered 403 and changes nothing.
Claim(h, s, f) ==
  /\ pc[h] = "idle"
  /\ Claimable(s, f)
  /\ inflight' = [inflight EXCEPT ![s] = @ \cup {f}]
  /\ active' = [active EXCEPT ![s] = @ + 1]
  /\ Touch(s)
  /\ Goto(h, "claimed")
  /\ sid' = [sid EXCEPT ![h] = s]
  /\ want' = [want EXCEPT ![h] = {f}]
  /\ UNCHANGED <<sessions, files, done, cancelled, eventVars, landed>>

\* writeFile opened the temporary file and announces the transfer.
Start(h) ==
  /\ pc[h] = "claimed"
  /\ Send(h, "start")
  /\ Goto(h, "writing")
  /\ UNCHANGED <<storeVars, sid, want, landed>>

\* A progress event, dropped when the channel is full.
Progress(h) ==
  /\ pc[h] = "writing"
  /\ queued < TransferCap
  /\ queued' = queued + 1
  /\ UNCHANGED <<storeVars, handlerVars, row, landed>>

\* The last Read returned EOF; the context was not cancelled before it.
ReadEOF(h) ==
  /\ pc[h] = "writing"
  /\ sid[h] \notin cancelled
  /\ Goto(h, "copied")
  /\ UNCHANGED <<storeVars, sid, want, eventVars, landed>>

\* io.Copy was good and the temporary file got its final name.
Rename(h) ==
  /\ pc[h] = "copied"
  /\ landed' = landed \cup ({sid[h]} \X want[h])
  /\ Goto(h, "landed")
  /\ UNCHANGED <<storeVars, sid, want, eventVars>>

\* writeFile returned an error: no destination, the open failed, the sender
\* or the context ended the copy, too many bytes, the rename failed.
Fail(h) ==
  /\ pc[h] \in Receiving
  /\ Goto(h, "failed")
  /\ UNCHANGED <<storeVars, sid, want, eventVars, landed>>

SendDone(h) ==
  /\ pc[h] = "landed"
  /\ Send(h, "done")
  /\ Goto(h, "completing")
  /\ UNCHANGED <<storeVars, sid, want, landed>>

Complete(h) ==
  /\ pc[h] = "completing"
  /\ MarkDone(sid[h], want[h])
  /\ Goto(h, "ending")
  /\ UNCHANGED <<files, inflight, active, idle, sid, want, eventVars, landed>>

SendError(h) ==
  /\ pc[h] = "failed"
  /\ Send(h, "failed")
  /\ Goto(h, "ending")
  /\ UNCHANGED <<storeVars, sid, want, landed>>

\* The deferred endUpload.
EndUpload(h) ==
  /\ pc[h] = "ending"
  /\ Release(sid[h], want[h])
  /\ Finish(h)
  /\ UNCHANGED <<sessions, files, done, cancelled, eventVars, landed>>

-----------------------------------------------------------------------------
\* POST /cancel.

\* cancel: remove the session under the lock.  An unknown id is not an
\* error, the handler goes on to announce it.
Cancel(h, s) ==
  /\ pc[h] = "idle"
  /\ sessions' = sessions \ {s}
  /\ Goto(h, IF s \in sessions THEN "aborting" ELSE "announce")
  /\ sid' = [sid EXCEPT ![h] = s]
  /\ UNCHANGED <<files, done, inflight, active, idle, cancelled, want,
                 eventVars, landed>>

\* cancel, after the unlock: end the context its uploads read under.
EndContext(h) ==
  /\ pc[h] = "aborting"
  /\ cancelled' = cancelled \cup {sid[h]}
  /\ Goto(h, "announce")
  /\ UNCHANGED <<sessions, files, done, inflight, active, idle, sid, want,
                 eventVars, landed>>

\* The Cancel event carries the bare session id: it is no file's key.
SendCancel(h) ==
  /\ pc[h] = "announce"
  /\ queued < TransferCap
  /\ queued' = queued + 1
  /\ Finish(h)
  /\ UNCHANGED <<storeVars, row, landed>>

-----------------------------------------------------------------------------
\* The consumer of the transfers channel, and time.

Pump ==
  /\ queued > 0
  /\ queued' = queued - 1
  /\ UNCHANGED <<storeVars, handlerVars, row, landed>>

Tick ==
  /\ idle' = [s \in Session |->
                IF s \in sessions /\ idle[s] <= SessionTTL THEN idle[s] + 1
                                                           ELSE idle[s]]
  /\ UNCHANGED <<sessions, files, done, inflight, active, cancelled,
                 handlerVars, eventVars, landed>>

\* What a goroutine does on its own once a request reached it.
HandlerStep(h) ==
  \/ Create(h)
  \/ Start(h) \/ Progress(h) \/ ReadEOF(h) \/ Rename(h) \/ Fail(h)
  \/ SendDone(h) \/ Complete(h) \/ SendError(h) \/ EndUpload(h)
  \/ EndContext(h) \/ SendCancel(h)

Request(h) ==
  \/ \E newFiles \in SUBSET File : BeginCreate(h, newFiles)
  \/ \E s \in Session, f \in File : Claim(h, s, f)
  \/ \E s \in Session : Cancel(h, s)

Next ==
  \/ \E h \in Handler : HandlerStep(h) \/ Request(h)
  \/ Pump
  \/ Tick

Spec == Init /\ [][Next]_vars

(***************************************************************************)
(* Fairness.  A goroutine that can run does.  A body that stops arriving   *)
(* is cut by stallGuard's read deadline, so a copy always ends one way or  *)
(* the other; progress events alone do not count as an end.  The engine    *)
(* ranges over Transfers for as long as it lives.  Requests are the peers' *)
(* choice and get no fairness.                                             *)
(***************************************************************************)
FairSpec ==
  /\ Spec
  /\ \A h \in Handler :
       /\ WF_vars(ReadEOF(h) \/ Rename(h) \/ Fail(h))
       /\ WF_vars(Create(h) \/ Complete(h) \/ EndUpload(h) \/ EndContext(h))
       /\ SF_vars(Start(h) \/ SendDone(h) \/ SendError(h) \/ SendCancel(h))
  /\ WF_vars(Pump)
-----------------------------------------------------------------------------
(* Properties *)

\* Two goroutines never hold a claim on the same file of the same session,
\* and nobody receives a file that is already in place: the single-use token
\* of claim's comment, across failures, retries, cancels and expiry.
SingleReceiver ==
  /\ \A g, h \in Handler :
       /\ g # h /\ pc[g] \in Uploading /\ pc[h] \in Uploading
       /\ sid[g] = sid[h]
       => want[g] \cap want[h] = {}
  /\ \A h \in Handler, f \in File :
       pc[h] \in Receiving /\ f \in want[h] => <<sid[h], f>> \notin landed

\* The busy mark of a session in the store is exact: active counts its
\* uploading goroutines, and inflight holds just the files they work on.  A
\* count too low lets the sweep cut a transfer, one too high keeps a dead
\* session for ever.
BusyMarkExact ==
  \A s \in sessions :
    /\ active[s] = Cardinality(Uploaders(s))
    /\ inflight[s] = UNION {want[h] : h \in Uploaders(s)}

\* The caps hold however many prepare-uploads run in parallel
\* (the comment in create about check and insert).
CapsHold ==
  /\ Cardinality(sessions) <= MaxSessions
  /\ Cardinality(Entries) <= MaxSessionFiles

\* A file is marked done, and reported done, only once it has its final name.
DoneMeansLanded ==
  /\ \A s \in Session, f \in File : f \in done[s] => <<s, f>> \in landed
  /\ \A k \in Session \X File : row[k] = "done" => k \in landed

EndsForAReason ==
  \A s \in sessions \ sessions' :
    \/ \E h \in Handler : Cancel(h, s)
    \/ {s} \X files[s] \subseteq landed
    \/ idle[s] > SessionTTL /\ Uploaders(s) = {}

\* A session leaves the store because a peer cancelled it, because every file
\* it declared is in place, or because it sat unused past the TTL with no
\* upload in flight: completing one file or sweeping never cuts a transfer.
SessionsEndForAReason == [][EndsForAReason]_vars

RowStepOK ==
  \A k \in Session \X File :
    /\ row[k] = "done" => row'[k] = "done"
    /\ row'[k] = "done" => row[k] \in {"start", "done"}

\* Once FileDone was sent for a key no other event is ever sent under it, and
\* FileDone always follows a Start: what the engine's clients rely on to show
\* one row per file.
RowsEndOnce == [][RowStepOK]_vars

\* A claim does not outlive its upload: the file becomes claimable again, is
\* done, or its session is gone.
ClaimsAreReleased ==
  \A s \in Session, f \in File :
    (s \in sessions /\ f \in inflight[s])
      ~> (s \notin sessions \/ f \notin inflight[s])

(***************************************************************************)
(* Refinement of FileDelivery.                                             *)
(***************************************************************************)
Attempted(s, f) ==
  \E h \in Handler : pc[h] \in Receiving /\ sid[h] = s /\ f \in want[h]

FileStatus(s, f) ==
  CASE Attempted(s, f) -> "attempted"
    [] ~Attempted(s, f) /\ <<s, f>> \in landed -> "delivered"
    [] ~Attempted(s, f) /\ <<s, f>> \notin landed /\ f \in files[s] -> "offered"
    [] OTHER -> "absent"

Delivery == INSTANCE FileDelivery WITH
  open   <- sessions,
  status <- [s \in Session |-> [f \in File |-> FileStatus(s, f)]]

\* The server with its goroutines, store and channel delivers files as
\* FileDelivery promises.
DeliversFiles == Delivery!Spec
=============================================================================
