---------------------------- MODULE SenderProofs ----------------------------
(***************************************************************************)
(* Theorems about Sender, for any number of batches, addresses and files;  *)
(* and about Transfer: what the sender reports agrees with what the        *)
(* receiver has.                                                           *)
(***************************************************************************)
EXTENDS Transfer, FiniteSetTheorems, TLAPS

-----------------------------------------------------------------------------
(* The inductive invariant. *)

Attempting == {"opening", "posting", "uploading"}

\* Before the peer answered nothing is wanted or reported; a file is current
\* only while it is attempted.
PlaceOK(b) ==
  /\ pc[b] = "idle" => b \notin cancelled \cup sync
  /\ b \in sync => pc[b] \notin {"exit", "leaving"}
  /\ pc[b] \in {"idle", "expand", "preparing"} =>
       /\ granted[b] = {} /\ todo[b] = {} /\ posted[b] = {}
       /\ \A f \in File : outcome[b][f] = "none"
  /\ current[b] # NoFile <=> pc[b] \in Attempting
  /\ current[b] # NoFile => current[b] \in batch[b]
  /\ result[b] # "none" => pc[b] = "ended"

\* A wanted file is handled, at hand, or still to be handled.
ReportOK(b) ==
  /\ \A f \in granted[b] :
       \/ outcome[b][f] # "none"
       \/ f \in todo[b]
       \/ f = current[b]
       \/ b \in sync /\ pc[b] = "ended"
  /\ b \notin sync /\ pc[b] \in {"exit", "leaving", "ended"} => todo[b] = {}

\* A failed upload is the last one of its batch.
FailureOK(b) ==
  \A f \in File : outcome[b][f] = "failed" =>
    /\ \/ pc[b] = "loop" /\ b \in cancelled
       \/ pc[b] \in {"exit", "leaving", "ended"}
    /\ \A g \in File : outcome[b][g] = "failed" => g = f

\* SendFilesSync has no context of its own to cancel.
SyncOK(b) ==
  b \in sync =>
    /\ \A f \in File : outcome[b][f] \notin {"cancelled", "refused"}
    /\ result[b] = "ok" => \A f \in granted[b] : outcome[b][f] = "done"

BatchOK(b) == PlaceOK(b) /\ ReportOK(b) /\ FailureOK(b) /\ SyncOK(b)

IInv ==
  /\ TypeOK
  /\ RegistryExact
  /\ \A b \in Batch : BatchOK(b)

-----------------------------------------------------------------------------
(* The initial states, and what a step leaves alone. *)

\* Nothing is registered and no batch has begun.
LEMMA InitIInv == Init => IInv
<1>. SUFFICES ASSUME Init PROVE IInv
  OBVIOUS
<1>1. TypeOK
  BY DEF Init, TypeOK, PC, Outcome
<1>2. RegistryExact
  BY DEF Init, RegistryExact, Running
<1>3. ASSUME NEW b \in Batch PROVE BatchOK(b)
  BY DEF Init, BatchOK, PlaceOK, ReportOK, FailureOK, SyncOK, Attempting
<1>. QED
  BY <1>1, <1>2, <1>3 DEF IInv

\* A step of b changes nothing of another batch; at most it cancels it, once
\* it has begun.
Apart(b) ==
  \A c \in Batch \ {b} :
    /\ pc'[c] = pc[c] /\ peer'[c] = peer[c] /\ batch'[c] = batch[c]
    /\ posted'[c] = posted[c]
    /\ granted'[c] = granted[c] /\ todo'[c] = todo[c] /\ current'[c] = current[c]
    /\ outcome'[c] = outcome[c] /\ result'[c] = result[c]
    /\ c \in sync' <=> c \in sync
    /\ c \in cancelled => c \in cancelled'
    /\ c \in cancelled' => c \in cancelled \/ pc[c] # "idle"

\* A step of b keeps what is known of the other batches.
LEMMA ApartOK ==
  ASSUME NEW b \in Batch, Apart(b), \A c \in Batch : BatchOK(c), BatchOK(b)'
  PROVE  \A c \in Batch : BatchOK(c)'
<1>. SUFFICES ASSUME NEW c \in Batch \ {b} PROVE BatchOK(c)'
  OBVIOUS
<1>0. /\ BatchOK(c)
      /\ pc'[c] = pc[c] /\ granted'[c] = granted[c] /\ todo'[c] = todo[c]
      /\ current'[c] = current[c] /\ outcome'[c] = outcome[c]
      /\ result'[c] = result[c] /\ batch'[c] = batch[c] /\ posted'[c] = posted[c]
      /\ c \in sync' <=> c \in sync
      /\ c \in cancelled => c \in cancelled'
      /\ c \in cancelled' => c \in cancelled \/ pc[c] # "idle"
  BY DEF Apart
<1>1. PlaceOK(c)'
  BY <1>0 DEF BatchOK, PlaceOK
<1>2. ReportOK(c)'
  BY <1>0 DEF BatchOK, ReportOK
<1>3. FailureOK(c)'
  BY <1>0 DEF BatchOK, FailureOK
<1>4. SyncOK(c)'
  BY <1>0 DEF BatchOK, SyncOK
<1>. QED
  BY <1>1, <1>2, <1>3, <1>4 DEF BatchOK

\* The registry stays exact when b goes on without touching it, stays where
\* it was or ends unregistered, and is cancelled at most.
LEMMA RegistryKept ==
  ASSUME TypeOK, RegistryExact, NEW b \in Batch,
         active' = active, sync' = sync, peer' = peer,
         cancelled \subseteq cancelled',
         \A c \in Batch \ {b} : pc'[c] = pc[c],
         pc[b] # "idle", pc'[b] # "idle",
         Running(b)' => Running(b),
         pc'[b] = "ended" => b \in sync
  PROVE  RegistryExact'
BY DEF RegistryExact, Running, TypeOK

-----------------------------------------------------------------------------
(* One lemma per action. *)

\* Begin cancels the send that was registered, and only that one can be alive.
LEMMA BeginIInv ==
  ASSUME NEW b \in Batch, NEW p \in Peer, IInv, Begin(b, p)
  PROVE  IInv'
<1>. USE DEF IInv
<1>1. active[p] # NoBatch => active[p] \notin sync /\ pc[active[p]] # "idle"
  BY DEF RegistryExact
<1>2. TypeOK'
  BY <1>1, SenderAssumption DEF TypeOK, Begin, Supersede, Goto, progress, PC
<1>3. Apart(b)
  BY <1>1 DEF Apart, TypeOK, Begin, Supersede, Goto, progress
<1>4. BatchOK(b)'
  <2>0. /\ pc[b] = "idle" /\ pc'[b] = "expand" /\ b \notin sync
        /\ UNCHANGED <<todo, current, outcome, posted, sync, batch, granted, result>>
        /\ PlaceOK(b) /\ FailureOK(b)
    BY DEF BatchOK, PlaceOK, TypeOK, Begin, Goto, progress
  <2>1. PlaceOK(b)'
    BY <2>0 DEF PlaceOK, Attempting
  <2>2. ReportOK(b)' /\ FailureOK(b)' /\ SyncOK(b)'
    BY <2>0 DEF PlaceOK, ReportOK, FailureOK, SyncOK
  <2>. QED
    BY <2>1, <2>2 DEF BatchOK
<1>5. RegistryExact'
  <2>1. pc[b] = "idle" /\ \A q \in Peer : active[q] # b
    BY SenderAssumption DEF RegistryExact, Begin, TypeOK
  <2>2. \A c \in Batch : c # b => pc'[c] = pc[c] /\ peer'[c] = peer[c]
    BY DEF Begin, Goto, TypeOK
  <2>3. pc'[b] = "expand" /\ peer'[b] = p /\ active' = [active EXCEPT ![p] = b]
    BY DEF Begin, Goto, TypeOK
  <2>4. b \notin sync' /\ sync' = sync
    BY DEF Begin, BatchOK, PlaceOK
  <2>5. ASSUME NEW q \in Peer, active'[q] # NoBatch
        PROVE  /\ peer'[active'[q]] = q
               /\ pc'[active'[q]] \notin {"idle", "ended"}
               /\ active'[q] \notin sync'
    BY <2>1, <2>2, <2>3, <2>4, <2>5 DEF RegistryExact, TypeOK
  <2>6. ASSUME NEW q \in Peer, NEW c \in Batch \ (sync' \cup cancelled'),
               peer'[c] = q, Running(c)'
        PROVE  active'[q] = c
    <3>1. CASE c = b
      BY <3>1, <2>3, <2>6 DEF TypeOK
    <3>2. CASE c # b
      <4>1. active[q] = c /\ q \in Peer
        BY <3>2, <2>2, <2>6, <2>4 DEF RegistryExact, Running, Begin, Supersede
      <4>2. q # p
        BY <4>1, <2>6, SenderAssumption DEF Begin, Supersede
      <4>. QED
        BY <4>1, <4>2, <2>3 DEF TypeOK
    <3>. QED
      BY <3>1, <3>2
  <2>. QED
    BY <2>5, <2>6 DEF RegistryExact
<1>. QED
  BY <1>2, <1>3, <1>4, <1>5, ApartOK

\* SendFilesSync registers nothing.
LEMMA BeginSyncIInv ==
  ASSUME NEW b \in Batch, NEW p \in Peer, IInv, BeginSync(b, p)
  PROVE  IInv'
<1>. USE DEF IInv
<1>1. b \notin cancelled
  BY DEF BeginSync, BatchOK, PlaceOK
<1>2. TypeOK'
  BY <1>1 DEF TypeOK, BeginSync, Goto, registry, progress, PC
<1>3. Apart(b)
  BY DEF Apart, TypeOK, BeginSync, Goto, registry, progress
<1>4. BatchOK(b)'
  <2>1. PlaceOK(b)'
    <3>1. /\ pc'[b] = "expand" /\ current' = current /\ result' = result /\ batch' = batch
          /\ granted' = granted /\ todo' = todo /\ posted' = posted /\ outcome' = outcome
          /\ cancelled' = cancelled /\ pc[b] = "idle"
      BY DEF TypeOK, BeginSync, Goto, registry, progress
    <3>. QED
      BY <3>1 DEF BatchOK, PlaceOK, Attempting
  <2>2. ReportOK(b)' /\ FailureOK(b)' /\ SyncOK(b)'
    BY DEF BatchOK, PlaceOK, ReportOK, FailureOK, SyncOK, TypeOK, BeginSync, Goto,
           registry, progress
  <2>. QED
    BY <2>1, <2>2 DEF BatchOK
<1>5. RegistryExact'
  <2>1. pc[b] = "idle" /\ \A q \in Peer : active[q] # b
    BY SenderAssumption DEF RegistryExact, BeginSync, TypeOK
  <2>2. \A c \in Batch : c # b =>
          pc'[c] = pc[c] /\ peer'[c] = peer[c] /\ (c \in sync' <=> c \in sync)
    BY DEF BeginSync, Goto, TypeOK
  <2>3. b \in sync' /\ active' = active /\ cancelled' = cancelled
    BY DEF BeginSync, registry
  <2>4. \A q \in Peer : active'[q] # NoBatch => active'[q] \in Batch \ {b}
    BY <2>1, <2>3 DEF TypeOK
  <2>. QED
    BY <2>2, <2>3, <2>4 DEF RegistryExact, Running
<1>. QED
  BY <1>2, <1>3, <1>4, <1>5, ApartOK

\* Expansion chooses the files; a batch without any ends.
LEMMA ExpandIInv ==
  ASSUME NEW b \in Batch, NEW fs \in SUBSET File, IInv, Expand(b, fs)
  PROVE  IInv'
<1>. TypeOK /\ RegistryExact /\ BatchOK(b)
  BY DEF IInv
<1>1. /\ pc[b] = "expand" /\ batch'[b] = fs /\ todo[b] = {} /\ posted[b] = {}
      /\ \/ pc'[b] = "preparing" /\ result'[b] = result[b]
         \/ pc'[b] = "ended" /\ b \in sync /\ result'[b] = "error"
         \/ pc'[b] = "exit" /\ b \notin sync /\ result'[b] = result[b]
      /\ active' = active /\ cancelled' = cancelled /\ sync' = sync
      /\ peer' = peer /\ todo' = todo /\ current' = current
      /\ posted' = posted /\ granted' = granted /\ outcome' = outcome
  BY DEF Expand, Return, Goto, registry, progress, TypeOK, PC, Outcome, BatchOK,
     PlaceOK
<1>2. TypeOK'
  <2>1. pc' \in [Batch -> PC]
    BY <1>1 DEF Expand, Return, Goto, TypeOK, PC
  <2>2. batch' \in [Batch -> SUBSET File]
    BY <1>1 DEF Expand, TypeOK
  <2>3. result' \in [Batch -> {"none", "ok", "error"}]
    BY <1>1 DEF Expand, Return, TypeOK
  <2>4. \A c \in Batch : todo'[c] \cup posted'[c] \subseteq batch'[c]
    BY <1>1 DEF Expand, TypeOK
  <2>. QED
    BY <1>1, <2>1, <2>2, <2>3, <2>4 DEF TypeOK
<1>3. Apart(b)
  BY DEF Expand, Return, Goto, registry, progress, Apart, TypeOK
<1>4. RegistryExact'
  <2>1. /\ pc[b] # "idle" /\ pc'[b] # "idle"
        /\ Running(b)' => Running(b)
        /\ pc'[b] = "ended" => b \in sync
    BY <1>1 DEF Running
  <2>. QED
    BY <1>1, <1>3, <2>1, RegistryKept DEF Apart
<1>5. PlaceOK(b)'
  BY <1>1, SenderAssumption DEF BatchOK, PlaceOK, TypeOK, Attempting
<1>6. ReportOK(b)'
  BY <1>1, SenderAssumption DEF BatchOK, PlaceOK, ReportOK, TypeOK, Attempting
<1>7. FailureOK(b)'
  BY <1>1 DEF BatchOK, PlaceOK, FailureOK, TypeOK, Attempting
<1>8. SyncOK(b)'
  BY <1>1 DEF BatchOK, PlaceOK, ReportOK, FailureOK, SyncOK, TypeOK, Attempting,
     Outcome
<1>. QED
  BY <1>2, <1>3, <1>4, <1>5, <1>6, <1>7, <1>8, ApartOK DEF IInv, BatchOK

\* send returns: its deferred cancel runs first.
LEMMA ExitIInv ==
  ASSUME NEW b \in Batch, IInv, Exit(b)
  PROVE  IInv'
<1>. TypeOK /\ RegistryExact /\ BatchOK(b)
  BY DEF IInv
<1>1. /\ pc[b] = "exit" /\ pc'[b] = "leaving" /\ b \notin sync
      /\ cancelled' = cancelled \cup {b}
      /\ active' = active /\ sync' = sync /\ peer' = peer /\ batch' = batch
      /\ todo' = todo /\ current' = current /\ posted' = posted
      /\ granted' = granted /\ outcome' = outcome /\ result' = result
  BY DEF Exit, Goto, progress, TypeOK, PC, Outcome, BatchOK, PlaceOK
<1>2. TypeOK'
  <2>1. pc' \in [Batch -> PC]
    BY <1>1 DEF Exit, Goto, TypeOK, PC
  <2>2. cancelled' \in SUBSET (Batch \ sync)
    BY <1>1 DEF Exit, TypeOK
  <2>3. \A c \in Batch : todo'[c] \cup posted'[c] \subseteq batch'[c]
    BY <1>1 DEF Exit, TypeOK
  <2>. QED
    BY <1>1, <2>1, <2>2, <2>3 DEF TypeOK
<1>3. Apart(b)
  BY DEF Exit, Goto, progress, Apart, TypeOK
<1>4. RegistryExact'
  <2>1. /\ pc[b] # "idle" /\ pc'[b] # "idle"
        /\ Running(b)' => Running(b)
        /\ pc'[b] = "ended" => b \in sync
    BY <1>1 DEF Running
  <2>. QED
    BY <1>1, <1>3, <2>1, RegistryKept DEF Apart
<1>5. PlaceOK(b)'
  BY <1>1, SenderAssumption DEF BatchOK, PlaceOK, TypeOK, Attempting
<1>6. ReportOK(b)'
  BY <1>1, SenderAssumption DEF BatchOK, PlaceOK, ReportOK, TypeOK, Attempting
<1>7. FailureOK(b)'
  BY <1>1 DEF BatchOK, PlaceOK, FailureOK, TypeOK, Attempting
<1>8. SyncOK(b)'
  BY <1>1 DEF BatchOK, PlaceOK, ReportOK, FailureOK, SyncOK, TypeOK, Attempting,
     Outcome
<1>. QED
  BY <1>2, <1>3, <1>4, <1>5, <1>6, <1>7, <1>8, ApartOK DEF IInv, BatchOK

\* The answer of prepare-upload: what is granted is all still to be handled.
LEMMA GrantedIInv ==
  ASSUME NEW b \in Batch, NEW gs \in SUBSET File, IInv, Granted(b, gs)
  PROVE  IInv'
<1>. TypeOK /\ RegistryExact /\ BatchOK(b)
  BY DEF IInv
<1>1. /\ pc[b] = "preparing" /\ pc'[b] = "loop"
      /\ granted'[b] = gs /\ todo'[b] = gs
      /\ active' = active /\ cancelled' = cancelled /\ sync' = sync
      /\ peer' = peer /\ batch' = batch /\ current' = current
      /\ posted' = posted /\ outcome' = outcome /\ result' = result
  BY DEF Granted, Goto, registry, TypeOK, PC, Outcome, BatchOK, PlaceOK
<1>2. TypeOK'
  <2>1. pc' \in [Batch -> PC]
    BY <1>1 DEF Granted, Goto, TypeOK, PC
  <2>2. granted' \in [Batch -> SUBSET File]
    BY <1>1 DEF Granted, TypeOK
  <2>3. todo' \in [Batch -> SUBSET File]
    BY <1>1 DEF Granted, TypeOK
  <2>4. \A c \in Batch : todo'[c] \cup posted'[c] \subseteq batch'[c]
    BY <1>1 DEF Granted, TypeOK
  <2>. QED
    BY <1>1, <2>1, <2>2, <2>3, <2>4 DEF TypeOK
<1>3. Apart(b)
  BY DEF Granted, Goto, registry, Apart, TypeOK
<1>4. RegistryExact'
  <2>1. /\ pc[b] # "idle" /\ pc'[b] # "idle"
        /\ Running(b)' => Running(b)
        /\ pc'[b] = "ended" => b \in sync
    BY <1>1 DEF Running
  <2>. QED
    BY <1>1, <1>3, <2>1, RegistryKept DEF Apart
<1>5. PlaceOK(b)'
  BY <1>1, SenderAssumption DEF BatchOK, PlaceOK, TypeOK, Attempting
<1>6. ReportOK(b)'
  BY <1>1, SenderAssumption DEF BatchOK, PlaceOK, ReportOK, TypeOK, Attempting
<1>7. FailureOK(b)'
  BY <1>1 DEF BatchOK, PlaceOK, FailureOK, TypeOK, Attempting
<1>8. SyncOK(b)'
  BY <1>1 DEF BatchOK, PlaceOK, ReportOK, FailureOK, SyncOK, TypeOK, Attempting,
     Outcome
<1>. QED
  BY <1>2, <1>3, <1>4, <1>5, <1>6, <1>7, <1>8, ApartOK DEF IInv, BatchOK

\* 401 ends the batch before a file is wanted,
LEMMA PinRequiredIInv ==
  ASSUME NEW b \in Batch, IInv, PinRequired(b)
  PROVE  IInv'
<1>. TypeOK /\ RegistryExact /\ BatchOK(b)
  BY DEF IInv
<1>1. /\ pc[b] = "preparing"
      /\ \/ pc'[b] = "ended" /\ b \in sync /\ result'[b] = "error"
         \/ pc'[b] = "exit" /\ b \notin sync /\ result'[b] = result[b]
      /\ active' = active /\ cancelled' = cancelled /\ sync' = sync
      /\ peer' = peer /\ batch' = batch /\ todo' = todo /\ current' = current
      /\ posted' = posted /\ granted' = granted /\ outcome' = outcome
  BY DEF PinRequired, Return, Goto, registry, progress, TypeOK, PC, Outcome,
     BatchOK, PlaceOK
<1>2. TypeOK'
  <2>1. pc' \in [Batch -> PC]
    <3>1. CASE b \in sync
      BY <3>1, <1>1 DEF PinRequired, Return, Goto, TypeOK, PC
    <3>2. CASE b \notin sync
      BY <3>2, <1>1 DEF PinRequired, Return, Goto, TypeOK, PC
    <3>. QED
      BY <3>1, <3>2
  <2>2. result' \in [Batch -> {"none", "ok", "error"}]
    <3>1. CASE b \in sync
      BY <3>1, <1>1 DEF PinRequired, Return, TypeOK
    <3>2. CASE b \notin sync
      BY <3>2, <1>1 DEF PinRequired, Return, TypeOK
    <3>. QED
      BY <3>1, <3>2
  <2>3. \A c \in Batch : todo'[c] \cup posted'[c] \subseteq batch'[c]
    BY <1>1 DEF PinRequired, TypeOK
  <2>. QED
    BY <1>1, <2>1, <2>2, <2>3 DEF TypeOK
<1>3. Apart(b)
  BY DEF PinRequired, Return, Goto, registry, progress, Apart, TypeOK
<1>4. RegistryExact'
  <2>1. /\ pc[b] # "idle" /\ pc'[b] # "idle"
        /\ Running(b)' => Running(b)
        /\ pc'[b] = "ended" => b \in sync
    BY <1>1 DEF Running
  <2>. QED
    BY <1>1, <1>3, <2>1, RegistryKept DEF Apart
<1>5. PlaceOK(b)'
  BY <1>1, SenderAssumption DEF BatchOK, PlaceOK, TypeOK, Attempting
<1>6. ReportOK(b)'
  BY <1>1, SenderAssumption DEF BatchOK, PlaceOK, ReportOK, TypeOK, Attempting
<1>7. FailureOK(b)'
  BY <1>1 DEF BatchOK, PlaceOK, FailureOK, TypeOK, Attempting
<1>8. SyncOK(b)'
  BY <1>1 DEF BatchOK, PlaceOK, ReportOK, FailureOK, SyncOK, TypeOK, Attempting,
     Outcome
<1>. QED
  BY <1>2, <1>3, <1>4, <1>5, <1>6, <1>7, <1>8, ApartOK DEF IInv, BatchOK

\* and so does a refusal.
LEMMA RefusedIInv ==
  ASSUME NEW b \in Batch, IInv, Refused(b)
  PROVE  IInv'
<1>. TypeOK /\ RegistryExact /\ BatchOK(b)
  BY DEF IInv
<1>1. /\ pc[b] = "preparing"
      /\ \/ /\ pc'[b] = "ended" /\ b \in sync /\ result'[b] = "error"
            /\ outcome'[b] = outcome[b]
         \/ /\ pc'[b] = "exit" /\ b \notin sync /\ result'[b] = result[b]
            /\ \A f \in File : outcome'[b][f] \in {"refused", "none"}
      /\ active' = active /\ cancelled' = cancelled /\ sync' = sync
      /\ peer' = peer /\ batch' = batch /\ todo' = todo /\ current' = current
      /\ posted' = posted /\ granted' = granted
  BY DEF Refused, Return, Goto, registry, TypeOK, PC, Outcome, BatchOK, PlaceOK
<1>2. TypeOK'
  <2>1. pc' \in [Batch -> PC]
    <3>1. CASE b \in sync
      BY <3>1, <1>1 DEF Refused, Return, Goto, TypeOK, PC
    <3>2. CASE b \notin sync
      BY <3>2, <1>1 DEF Refused, Return, Goto, TypeOK, PC
    <3>. QED
      BY <3>1, <3>2
  <2>2. result' \in [Batch -> {"none", "ok", "error"}]
    <3>1. CASE b \in sync
      BY <3>1, <1>1 DEF Refused, Return, TypeOK
    <3>2. CASE b \notin sync
      BY <3>2, <1>1 DEF Refused, Return, TypeOK
    <3>. QED
      BY <3>1, <3>2
  <2>3. outcome' \in [Batch -> [File -> Outcome]]
    <3>1. CASE b \in sync
      BY <3>1, <1>1 DEF Refused, TypeOK, Outcome
    <3>2. CASE b \notin sync
      BY <3>2, <1>1 DEF Refused, TypeOK, Outcome
    <3>. QED
      BY <3>1, <3>2
  <2>4. \A c \in Batch : todo'[c] \cup posted'[c] \subseteq batch'[c]
    BY <1>1 DEF Refused, TypeOK
  <2>. QED
    BY <1>1, <2>1, <2>2, <2>3, <2>4 DEF TypeOK
<1>3. Apart(b)
  BY DEF Refused, Return, Goto, registry, Apart, TypeOK
<1>4. RegistryExact'
  <2>1. /\ pc[b] # "idle" /\ pc'[b] # "idle"
        /\ Running(b)' => Running(b)
        /\ pc'[b] = "ended" => b \in sync
    BY <1>1 DEF Running
  <2>. QED
    BY <1>1, <1>3, <2>1, RegistryKept DEF Apart
<1>5. PlaceOK(b)'
  BY <1>1, SenderAssumption DEF BatchOK, PlaceOK, TypeOK, Attempting
<1>6. ReportOK(b)'
  BY <1>1, SenderAssumption DEF BatchOK, PlaceOK, ReportOK, TypeOK, Attempting
<1>7. FailureOK(b)'
  BY <1>1 DEF BatchOK, PlaceOK, FailureOK, TypeOK, Attempting
<1>8. SyncOK(b)'
  BY <1>1 DEF BatchOK, PlaceOK, ReportOK, FailureOK, SyncOK, TypeOK, Attempting,
     Outcome
<1>. QED
  BY <1>2, <1>3, <1>4, <1>5, <1>6, <1>7, <1>8, ApartOK DEF IInv, BatchOK

\* A cancelled batch does not attempt what is left, so a failed file stays the
\* only one.
LEMMA TakeIInv ==
  ASSUME NEW b \in Batch, NEW f \in File, IInv, Take(b, f)
  PROVE  IInv'
<1>. TypeOK /\ RegistryExact /\ BatchOK(b)
  BY DEF IInv
<1>1. /\ pc[b] = "loop" /\ f \in todo[b] /\ todo'[b] = todo[b] \ {f}
      /\ \/ /\ b \in cancelled /\ pc'[b] = "loop" /\ current'[b] = current[b]
            /\ outcome'[b][f] = "cancelled"
            /\ \A g \in File \ {f} : outcome'[b][g] = outcome[b][g]
         \/ /\ b \notin cancelled /\ pc'[b] = "opening" /\ current'[b] = f
            /\ outcome'[b] = outcome[b]
      /\ active' = active /\ cancelled' = cancelled /\ sync' = sync
      /\ peer' = peer /\ batch' = batch /\ posted' = posted
      /\ granted' = granted /\ result' = result
  BY DEF Take, Conclude, Goto, registry, TypeOK, PC, Outcome, BatchOK, PlaceOK
<1>2. TypeOK'
  <2>1. pc' \in [Batch -> PC]
    <3>1. CASE b \in cancelled
      BY <3>1, <1>1 DEF Take, Goto, TypeOK, PC
    <3>2. CASE b \notin cancelled
      BY <3>2, <1>1 DEF Take, Goto, TypeOK, PC
    <3>. QED
      BY <3>1, <3>2
  <2>2. todo' \in [Batch -> SUBSET File]
    BY <1>1 DEF Take, TypeOK
  <2>3. current' \in [Batch -> File \cup {NoFile}]
    BY <1>1 DEF Take, TypeOK
  <2>4. outcome' \in [Batch -> [File -> Outcome]]
    <3>1. CASE b \in cancelled
      <4>1. outcome' = [outcome EXCEPT ![b][f] = "cancelled"]
        BY <3>1 DEF Take, Conclude
      <4>. QED
        BY <4>1 DEF TypeOK, Outcome
    <3>2. CASE b \notin cancelled
      BY <3>2, <1>1 DEF Take, Conclude, TypeOK, Outcome
    <3>. QED
      BY <3>1, <3>2
  <2>5. \A c \in Batch : todo'[c] \cup posted'[c] \subseteq batch'[c]
    BY <1>1 DEF Take, TypeOK
  <2>. QED
    BY <1>1, <2>1, <2>2, <2>3, <2>4, <2>5 DEF TypeOK
<1>3. Apart(b)
  BY DEF Take, Conclude, Goto, registry, Apart, TypeOK
<1>4. RegistryExact'
  <2>1. /\ pc[b] # "idle" /\ pc'[b] # "idle"
        /\ Running(b)' => Running(b)
        /\ pc'[b] = "ended" => b \in sync
    BY <1>1 DEF Running
  <2>. QED
    BY <1>1, <1>3, <2>1, RegistryKept DEF Apart
<1>5. PlaceOK(b)'
  BY <1>1, SenderAssumption DEF BatchOK, PlaceOK, TypeOK, Attempting
<1>6. ReportOK(b)'
  <2>1. CASE b \in cancelled
    BY <2>1, <1>1, SenderAssumption DEF BatchOK, PlaceOK, ReportOK, TypeOK,
       Attempting
  <2>2. CASE b \notin cancelled
    BY <2>2, <1>1, SenderAssumption DEF BatchOK, PlaceOK, ReportOK, TypeOK,
       Attempting
  <2>. QED
    BY <2>1, <2>2
<1>7. FailureOK(b)'
  <2>1. CASE b \in cancelled
    BY <2>1, <1>1 DEF BatchOK, PlaceOK, FailureOK, TypeOK, Attempting
  <2>2. CASE b \notin cancelled
    BY <2>2, <1>1 DEF BatchOK, PlaceOK, FailureOK, TypeOK, Attempting
  <2>. QED
    BY <2>1, <2>2
<1>8. SyncOK(b)'
  BY <1>1 DEF BatchOK, PlaceOK, ReportOK, FailureOK, SyncOK, TypeOK, Attempting,
     Outcome
<1>. QED
  BY <1>2, <1>3, <1>4, <1>5, <1>6, <1>7, <1>8, ApartOK DEF IInv, BatchOK

\* A file that cannot be opened is skipped, or cancelled with its batch.
LEMMA OpenFailsIInv ==
  ASSUME NEW b \in Batch, IInv, OpenFails(b)
  PROVE  IInv'
<1>. TypeOK /\ RegistryExact /\ BatchOK(b)
  BY DEF IInv
<1>1. /\ pc[b] = "opening" /\ pc'[b] = "loop" /\ current'[b] = NoFile
      /\ current[b] \in File /\ outcome'[b][current[b]] \in {"cancelled", "skipped"}
      /\ outcome'[b][current[b]] = "cancelled" => b \in cancelled
      /\ \A f \in File \ {current[b]} : outcome'[b][f] = outcome[b][f]
      /\ active' = active /\ cancelled' = cancelled /\ sync' = sync
      /\ peer' = peer /\ batch' = batch /\ todo' = todo /\ posted' = posted
      /\ granted' = granted /\ result' = result
  BY DEF OpenFails, Conclude, Goto, registry, TypeOK, PC, Outcome, BatchOK,
     PlaceOK, Attempting
<1>2. TypeOK'
  <2>1. pc' \in [Batch -> PC]
    BY <1>1 DEF OpenFails, Goto, TypeOK, PC
  <2>2. current' \in [Batch -> File \cup {NoFile}]
    BY <1>1 DEF OpenFails, TypeOK
  <2>3. outcome' \in [Batch -> [File -> Outcome]]
    BY <1>1 DEF OpenFails, Conclude, TypeOK, Outcome
  <2>4. \A c \in Batch : todo'[c] \cup posted'[c] \subseteq batch'[c]
    BY <1>1 DEF OpenFails, TypeOK
  <2>. QED
    BY <1>1, <2>1, <2>2, <2>3, <2>4 DEF TypeOK
<1>3. Apart(b)
  BY DEF OpenFails, Conclude, Goto, registry, Apart, TypeOK
<1>4. RegistryExact'
  <2>1. /\ pc[b] # "idle" /\ pc'[b] # "idle"
        /\ Running(b)' => Running(b)
        /\ pc'[b] = "ended" => b \in sync
    BY <1>1 DEF Running
  <2>. QED
    BY <1>1, <1>3, <2>1, RegistryKept DEF Apart
<1>5. PlaceOK(b)'
  BY <1>1, SenderAssumption DEF BatchOK, PlaceOK, TypeOK, Attempting
<1>6. ReportOK(b)'
  <2>1. CASE b \in cancelled
    BY <2>1, <1>1, SenderAssumption DEF BatchOK, PlaceOK, ReportOK, TypeOK,
       Attempting
  <2>2. CASE b \notin cancelled
    BY <2>2, <1>1, SenderAssumption DEF BatchOK, PlaceOK, ReportOK, TypeOK,
       Attempting
  <2>. QED
    BY <2>1, <2>2
<1>7. FailureOK(b)'
  <2>1. CASE b \in cancelled
    BY <2>1, <1>1 DEF BatchOK, PlaceOK, FailureOK, TypeOK, Attempting
  <2>2. CASE b \notin cancelled
    BY <2>2, <1>1 DEF BatchOK, PlaceOK, FailureOK, TypeOK, Attempting
  <2>. QED
    BY <2>1, <2>2
<1>8. SyncOK(b)'
  BY <1>1 DEF BatchOK, PlaceOK, ReportOK, FailureOK, SyncOK, TypeOK, Attempting,
     Outcome
<1>. QED
  BY <1>2, <1>3, <1>4, <1>5, <1>6, <1>7, <1>8, ApartOK DEF IInv, BatchOK

\* The file at hand is opened,
LEMMA OpenIInv ==
  ASSUME NEW b \in Batch, IInv, Open(b)
  PROVE  IInv'
<1>. TypeOK /\ RegistryExact /\ BatchOK(b)
  BY DEF IInv
<1>1. /\ pc[b] = "opening" /\ pc'[b] = "posting"
      /\ active' = active /\ cancelled' = cancelled /\ sync' = sync
      /\ peer' = peer /\ batch' = batch /\ todo' = todo /\ current' = current
      /\ posted' = posted /\ granted' = granted /\ outcome' = outcome
      /\ result' = result
  BY DEF Open, Goto, registry, progress, TypeOK, PC, Outcome, BatchOK, PlaceOK
<1>2. TypeOK'
  <2>1. pc' \in [Batch -> PC]
    BY <1>1 DEF Open, Goto, TypeOK, PC
  <2>2. \A c \in Batch : todo'[c] \cup posted'[c] \subseteq batch'[c]
    BY <1>1 DEF Open, TypeOK
  <2>. QED
    BY <1>1, <2>1, <2>2 DEF TypeOK
<1>3. Apart(b)
  BY DEF Open, Goto, registry, progress, Apart, TypeOK
<1>4. RegistryExact'
  <2>1. /\ pc[b] # "idle" /\ pc'[b] # "idle"
        /\ Running(b)' => Running(b)
        /\ pc'[b] = "ended" => b \in sync
    BY <1>1 DEF Running
  <2>. QED
    BY <1>1, <1>3, <2>1, RegistryKept DEF Apart
<1>5. PlaceOK(b)'
  BY <1>1, SenderAssumption DEF BatchOK, PlaceOK, TypeOK, Attempting
<1>6. ReportOK(b)'
  BY <1>1, SenderAssumption DEF BatchOK, PlaceOK, ReportOK, TypeOK, Attempting
<1>7. FailureOK(b)'
  BY <1>1 DEF BatchOK, PlaceOK, FailureOK, TypeOK, Attempting
<1>8. SyncOK(b)'
  BY <1>1 DEF BatchOK, PlaceOK, ReportOK, FailureOK, SyncOK, TypeOK, Attempting,
     Outcome
<1>. QED
  BY <1>2, <1>3, <1>4, <1>5, <1>6, <1>7, <1>8, ApartOK DEF IInv, BatchOK

\* posted,
LEMMA PostIInv ==
  ASSUME NEW b \in Batch, IInv, Post(b)
  PROVE  IInv'
<1>. TypeOK /\ RegistryExact /\ BatchOK(b)
  BY DEF IInv
<1>1. /\ pc[b] = "posting" /\ pc'[b] = "uploading" /\ current[b] \in batch[b]
      /\ active' = active /\ cancelled' = cancelled /\ sync' = sync
      /\ peer' = peer /\ batch' = batch /\ todo' = todo /\ current' = current
      /\ granted' = granted /\ outcome' = outcome /\ result' = result
  BY DEF Post, Goto, registry, TypeOK, PC, Outcome, BatchOK, PlaceOK, Attempting
<1>2. TypeOK'
  <2>1. pc' \in [Batch -> PC]
    BY <1>1 DEF Post, Goto, TypeOK, PC
  <2>2. posted' \in [Batch -> SUBSET File]
    BY <1>1 DEF Post, TypeOK
  <2>3. \A c \in Batch : todo'[c] \cup posted'[c] \subseteq batch'[c]
    BY <1>1 DEF Post, TypeOK
  <2>. QED
    BY <1>1, <2>1, <2>2, <2>3 DEF TypeOK
<1>3. Apart(b)
  BY DEF Post, Goto, registry, Apart, TypeOK
<1>4. RegistryExact'
  <2>1. /\ pc[b] # "idle" /\ pc'[b] # "idle"
        /\ Running(b)' => Running(b)
        /\ pc'[b] = "ended" => b \in sync
    BY <1>1 DEF Running
  <2>. QED
    BY <1>1, <1>3, <2>1, RegistryKept DEF Apart
<1>5. PlaceOK(b)'
  BY <1>1, SenderAssumption DEF BatchOK, PlaceOK, TypeOK, Attempting
<1>6. ReportOK(b)'
  BY <1>1, SenderAssumption DEF BatchOK, PlaceOK, ReportOK, TypeOK, Attempting
<1>7. FailureOK(b)'
  BY <1>1 DEF BatchOK, PlaceOK, FailureOK, TypeOK, Attempting
<1>8. SyncOK(b)'
  BY <1>1 DEF BatchOK, PlaceOK, ReportOK, FailureOK, SyncOK, TypeOK, Attempting,
     Outcome
<1>. QED
  BY <1>2, <1>3, <1>4, <1>5, <1>6, <1>7, <1>8, ApartOK DEF IInv, BatchOK

\* and done when the peer answers 200.
LEMMA UploadOkIInv ==
  ASSUME NEW b \in Batch, IInv, UploadOk(b)
  PROVE  IInv'
<1>. TypeOK /\ RegistryExact /\ BatchOK(b)
  BY DEF IInv
<1>1. /\ pc[b] = "uploading" /\ pc'[b] = "loop" /\ current'[b] = NoFile
      /\ current[b] \in File /\ outcome'[b][current[b]] = "done"
      /\ \A f \in File \ {current[b]} : outcome'[b][f] = outcome[b][f]
      /\ active' = active /\ cancelled' = cancelled /\ sync' = sync
      /\ peer' = peer /\ batch' = batch /\ todo' = todo /\ posted' = posted
      /\ granted' = granted /\ result' = result
  BY DEF UploadOk, Conclude, Goto, registry, TypeOK, PC, Outcome, BatchOK,
     PlaceOK, Attempting
<1>2. TypeOK'
  <2>1. pc' \in [Batch -> PC]
    BY <1>1 DEF UploadOk, Goto, TypeOK, PC
  <2>2. current' \in [Batch -> File \cup {NoFile}]
    BY <1>1 DEF UploadOk, TypeOK
  <2>3. outcome' \in [Batch -> [File -> Outcome]]
    BY <1>1 DEF UploadOk, Conclude, TypeOK, Outcome
  <2>4. \A c \in Batch : todo'[c] \cup posted'[c] \subseteq batch'[c]
    BY <1>1 DEF UploadOk, TypeOK
  <2>. QED
    BY <1>1, <2>1, <2>2, <2>3, <2>4 DEF TypeOK
<1>3. Apart(b)
  BY DEF UploadOk, Conclude, Goto, registry, Apart, TypeOK
<1>4. RegistryExact'
  <2>1. /\ pc[b] # "idle" /\ pc'[b] # "idle"
        /\ Running(b)' => Running(b)
        /\ pc'[b] = "ended" => b \in sync
    BY <1>1 DEF Running
  <2>. QED
    BY <1>1, <1>3, <2>1, RegistryKept DEF Apart
<1>5. PlaceOK(b)'
  BY <1>1, SenderAssumption DEF BatchOK, PlaceOK, TypeOK, Attempting
<1>6. ReportOK(b)'
  BY <1>1, SenderAssumption DEF BatchOK, PlaceOK, ReportOK, TypeOK, Attempting
<1>7. FailureOK(b)'
  BY <1>1 DEF BatchOK, PlaceOK, FailureOK, TypeOK, Attempting
<1>8. SyncOK(b)'
  BY <1>1 DEF BatchOK, PlaceOK, ReportOK, FailureOK, SyncOK, TypeOK, Attempting,
     Outcome
<1>. QED
  BY <1>2, <1>3, <1>4, <1>5, <1>6, <1>7, <1>8, ApartOK DEF IInv, BatchOK

\* The first failure ends a SendFilesSync and cancels a Send.
LEMMA UploadFailsIInv ==
  ASSUME NEW b \in Batch, IInv, UploadFails(b)
  PROVE  IInv'
<1>. TypeOK /\ RegistryExact /\ BatchOK(b)
  BY DEF IInv
<1>1. /\ pc[b] \in {"posting", "uploading"} /\ current'[b] = NoFile
      /\ \/ /\ b \in sync /\ pc'[b] = "ended" /\ result'[b] = "error"
            /\ cancelled' = cancelled
         \/ /\ b \notin sync /\ pc'[b] = "loop" /\ result'[b] = result[b]
            /\ cancelled' = cancelled \cup {b}
      /\ current[b] \in File /\ outcome'[b][current[b]] \in {"cancelled", "failed"}
      /\ outcome'[b][current[b]] = "cancelled" => b \in cancelled
      /\ \A f \in File \ {current[b]} : outcome'[b][f] = outcome[b][f]
      /\ active' = active /\ sync' = sync /\ peer' = peer /\ batch' = batch
      /\ todo' = todo /\ posted' = posted /\ granted' = granted
  BY DEF UploadFails, Abort, Conclude, Return, Goto, registry, TypeOK, PC,
     Outcome, BatchOK, PlaceOK, Attempting
<1>2. TypeOK'
  <2>1. pc' \in [Batch -> PC]
    <3>1. CASE b \in sync
      BY <3>1, <1>1 DEF UploadFails, Return, Goto, TypeOK, PC
    <3>2. CASE b \notin sync
      BY <3>2, <1>1 DEF UploadFails, Return, Goto, TypeOK, PC
    <3>. QED
      BY <3>1, <3>2
  <2>2. current' \in [Batch -> File \cup {NoFile}]
    BY <1>1 DEF UploadFails, TypeOK
  <2>3. outcome' \in [Batch -> [File -> Outcome]]
    BY <1>1 DEF UploadFails, Conclude, TypeOK, Outcome
  <2>4. cancelled' \in SUBSET (Batch \ sync)
    BY <1>1 DEF UploadFails, Abort, TypeOK
  <2>5. result' \in [Batch -> {"none", "ok", "error"}]
    <3>1. CASE b \in sync
      BY <3>1, <1>1 DEF UploadFails, Return, TypeOK
    <3>2. CASE b \notin sync
      BY <3>2, <1>1 DEF UploadFails, Return, TypeOK
    <3>. QED
      BY <3>1, <3>2
  <2>6. \A c \in Batch : todo'[c] \cup posted'[c] \subseteq batch'[c]
    BY <1>1 DEF UploadFails, TypeOK
  <2>. QED
    BY <1>1, <2>1, <2>2, <2>3, <2>4, <2>5, <2>6 DEF TypeOK
<1>3. Apart(b)
  BY DEF UploadFails, Abort, Conclude, Return, Goto, registry, Apart, TypeOK
<1>4. RegistryExact'
  <2>1. /\ pc[b] # "idle" /\ pc'[b] # "idle"
        /\ Running(b)' => Running(b)
        /\ pc'[b] = "ended" => b \in sync
    BY <1>1 DEF Running
  <2>. QED
    BY <1>1, <1>3, <2>1, RegistryKept DEF Apart
<1>5. PlaceOK(b)'
  BY <1>1, SenderAssumption DEF BatchOK, PlaceOK, TypeOK, Attempting
<1>6. ReportOK(b)'
  <2>1. CASE b \in sync
    BY <2>1, <1>1, SenderAssumption DEF BatchOK, PlaceOK, ReportOK, TypeOK,
       Attempting
  <2>2. CASE b \notin sync
    BY <2>2, <1>1, SenderAssumption DEF BatchOK, PlaceOK, ReportOK, TypeOK,
       Attempting
  <2>. QED
    BY <2>1, <2>2
<1>7. FailureOK(b)'
  BY <1>1 DEF BatchOK, PlaceOK, FailureOK, TypeOK, Attempting
<1>8. SyncOK(b)'
  BY <1>1 DEF BatchOK, PlaceOK, ReportOK, FailureOK, SyncOK, TypeOK, Attempting,
     Outcome
<1>. QED
  BY <1>2, <1>3, <1>4, <1>5, <1>6, <1>7, <1>8, ApartOK DEF IInv, BatchOK

\* Nothing is left to handle, so what a SendFilesSync returns covers every
\* wanted file.
LEMMA LoopEndsIInv ==
  ASSUME NEW b \in Batch, IInv, LoopEnds(b)
  PROVE  IInv'
<1>. TypeOK /\ RegistryExact /\ BatchOK(b)
  BY DEF IInv
<1>1. /\ pc[b] = "loop" /\ todo[b] = {}
      /\ \/ /\ b \in sync /\ pc'[b] = "ended"
            /\ \/ result'[b] = "error"
               \/ /\ result'[b] = "ok"
                  /\ \A f \in granted[b] : outcome[b][f] # "skipped"
         \/ b \notin sync /\ pc'[b] = "exit" /\ result'[b] = result[b]
      /\ active' = active /\ cancelled' = cancelled /\ sync' = sync
      /\ peer' = peer /\ batch' = batch /\ todo' = todo /\ current' = current
      /\ posted' = posted /\ granted' = granted /\ outcome' = outcome
  BY DEF LoopEnds, SyncResult, Return, Goto, registry, progress, TypeOK, PC,
     Outcome, BatchOK, PlaceOK
<1>2. TypeOK'
  <2>1. pc' \in [Batch -> PC]
    <3>1. CASE b \in sync
      BY <3>1, <1>1 DEF LoopEnds, Return, Goto, TypeOK, PC
    <3>2. CASE b \notin sync
      BY <3>2, <1>1 DEF LoopEnds, Return, Goto, TypeOK, PC
    <3>. QED
      BY <3>1, <3>2
  <2>2. result' \in [Batch -> {"none", "ok", "error"}]
    <3>1. CASE b \in sync
      BY <3>1, <1>1 DEF LoopEnds, Return, SyncResult, TypeOK
    <3>2. CASE b \notin sync
      BY <3>2, <1>1 DEF LoopEnds, Return, SyncResult, TypeOK
    <3>. QED
      BY <3>1, <3>2
  <2>3. \A c \in Batch : todo'[c] \cup posted'[c] \subseteq batch'[c]
    BY <1>1 DEF LoopEnds, TypeOK
  <2>. QED
    BY <1>1, <2>1, <2>2, <2>3 DEF TypeOK
<1>3. Apart(b)
  BY DEF LoopEnds, SyncResult, Return, Goto, registry, progress, Apart, TypeOK
<1>4. RegistryExact'
  <2>1. /\ pc[b] # "idle" /\ pc'[b] # "idle"
        /\ Running(b)' => Running(b)
        /\ pc'[b] = "ended" => b \in sync
    BY <1>1 DEF Running
  <2>. QED
    BY <1>1, <1>3, <2>1, RegistryKept DEF Apart
<1>5. PlaceOK(b)'
  BY <1>1, SenderAssumption DEF BatchOK, PlaceOK, TypeOK, Attempting
<1>6. ReportOK(b)'
  BY <1>1, SenderAssumption DEF BatchOK, PlaceOK, ReportOK, TypeOK, Attempting
<1>7. FailureOK(b)'
  BY <1>1 DEF BatchOK, PlaceOK, FailureOK, TypeOK, Attempting
<1>8. SyncOK(b)'
  <2>1. ASSUME b \in sync, result'[b] = "ok", NEW f \in granted[b]
        PROVE  outcome[b][f] = "done"
    <3>1. f \in File /\ outcome[b][f] \in Outcome
      BY DEF TypeOK
    <3>2. f # current[b] /\ f \notin todo[b] /\ pc[b] = "loop" /\ b \notin cancelled
      BY <1>1, <2>1, <3>1, SenderAssumption DEF BatchOK, PlaceOK, TypeOK, Attempting
    <3>3. outcome[b][f] # "none"
      BY <3>2 DEF BatchOK, ReportOK
    <3>4. outcome[b][f] # "failed"
      BY <3>1, <3>2 DEF BatchOK, FailureOK
    <3>5. outcome[b][f] \notin {"skipped", "cancelled", "refused"}
      BY <1>1, <2>1, <3>1 DEF BatchOK, SyncOK
    <3>. QED
      BY <3>1, <3>3, <3>4, <3>5 DEF Outcome
  <2>. QED
    BY <1>1, <2>1 DEF BatchOK, SyncOK
<1>. QED
  BY <1>2, <1>3, <1>4, <1>5, <1>6, <1>7, <1>8, ApartOK DEF IInv, BatchOK

\* A batch that is over leaves the registry only if it is still in it.
LEMMA DeregisterIInv ==
  ASSUME NEW b \in Batch, IInv, Deregister(b)
  PROVE  IInv'
<1>. TypeOK /\ RegistryExact /\ BatchOK(b)
  BY DEF IInv
<1>. USE DEF Deregister, Goto, progress
<1>1. TypeOK'
  BY DEF TypeOK, Forget, PC
<1>2. Apart(b)
  BY DEF Apart, TypeOK
<1>3. RegistryExact'
  <2>1. \A p \in Peer :
          active'[p] = IF p = peer[b] /\ active[p] = b THEN NoBatch ELSE active[p]
    BY DEF Forget
  <2>2. \A p \in Peer : active'[p] # b
    BY <2>1, SenderAssumption DEF RegistryExact
  <2>3. \A c \in Batch \ {b} : pc'[c] = pc[c]
    BY DEF TypeOK
  <2>4. \A c \in Batch : Running(c)' => Running(c) /\ c # b
    BY <2>3 DEF Running, TypeOK
  <2>5. ASSUME NEW p \in Peer, active'[p] # NoBatch
        PROVE  /\ peer'[active'[p]] = p
               /\ pc'[active'[p]] \notin {"idle", "ended"}
               /\ active'[p] \notin sync'
    BY <2>1, <2>2, <2>3, <2>5 DEF RegistryExact, TypeOK
  <2>6. ASSUME NEW p \in Peer, NEW c \in Batch \ (sync' \cup cancelled'),
               peer'[c] = p, Running(c)'
        PROVE  active'[p] = c
    BY <2>1, <2>4, <2>6 DEF RegistryExact
  <2>. QED
    BY <2>5, <2>6 DEF RegistryExact
<1>4. /\ pc[b] = "leaving" /\ pc'[b] = "ended" /\ cancelled' = cancelled
      /\ batch' = batch /\ todo' = todo /\ current' = current
      /\ posted' = posted /\ granted' = granted /\ outcome' = outcome
      /\ result' = result /\ sync' = sync
  BY DEF TypeOK
<1>5. PlaceOK(b)' /\ ReportOK(b)' /\ FailureOK(b)' /\ SyncOK(b)'
  BY <1>4 DEF BatchOK, PlaceOK, ReportOK, FailureOK, SyncOK, Attempting
<1>. QED
  BY <1>1, <1>2, <1>3, <1>5, ApartOK DEF IInv, BatchOK

-----------------------------------------------------------------------------
(* The theorems. *)

\* Every step of every batch keeps the invariant.
LEMMA NextIInv == IInv /\ [Next]_vars => IInv'
<1>. SUFFICES ASSUME IInv, [Next]_vars PROVE IInv'
  OBVIOUS
<1>1. CASE UNCHANGED vars
  BY <1>1 DEF IInv, vars, registry, progress, TypeOK, RegistryExact, Running, BatchOK,
              PlaceOK, ReportOK, FailureOK, SyncOK
<1>2. CASE Next
  <2>1. PICK b \in Batch :
          \/ \E p \in Peer : Begin(b, p) \/ BeginSync(b, p)
          \/ Own(b)
          \/ Answered(b)
    BY <1>2 DEF Next
  <2>2. CASE \E p \in Peer : Begin(b, p) \/ BeginSync(b, p)
    BY <2>2, BeginIInv, BeginSyncIInv
  <2>3. CASE Own(b)
    BY <2>3, ExpandIInv, TakeIInv, OpenFailsIInv, OpenIInv, PostIInv, LoopEndsIInv,
       ExitIInv, DeregisterIInv, RefusedIInv, UploadFailsIInv DEF Own
  <2>4. CASE Answered(b)
    BY <2>4, GrantedIInv, PinRequiredIInv, RefusedIInv, UploadOkIInv, UploadFailsIInv
       DEF Answered
  <2>. QED
    BY <2>1, <2>2, <2>3, <2>4
<1>. QED
  BY <1>1, <1>2

\* The inductive invariant holds throughout.
LEMMA IInvHolds == Spec => []IInv
BY InitIInv, NextIInv, PTL DEF Spec

\* The state of the sender is well typed; no batch of SendFilesSync is ever
\* cancelled by another.
THEOREM SenderTypeCorrect == Spec => []TypeOK
<1>1. IInv => TypeOK
  BY DEF IInv
<1>. QED
  BY <1>1, IInvHolds, PTL

\* Under any interleaving of sends, ends and clean-ups the registry names the
\* live send of each address and none that is over (send, client.go).
THEOREM RegistryIsExact == Spec => []RegistryExact
<1>1. IInv => RegistryExact
  BY DEF IInv
<1>. QED
  BY <1>1, IInvHolds, PTL

\* A new transfer to an address supersedes the running one: two are never
\* alive (the comment at the head of send).
THEOREM OneLiveSendHolds == Spec => []OneLiveSend
<1>1. IInv => OneLiveSend
  <2>. SUFFICES ASSUME IInv, NEW p \in Peer
                PROVE  Cardinality({b \in Batch \ (sync \cup cancelled) :
                                      peer[b] = p /\ Running(b)}) <= 1
    BY DEF OneLiveSend
  <2>. DEFINE Live == {b \in Batch \ (sync \cup cancelled) : peer[b] = p /\ Running(b)}
  <2>1. Live \subseteq {active[p]}
    BY DEF IInv, RegistryExact
  <2>2. IsFiniteSet({active[p]}) /\ Cardinality({active[p]}) = 1
    BY FS_Singleton
  <2>3. Cardinality(Live) <= 1
    BY <2>1, <2>2, FS_Subset
  <2>. QED
    BY <2>3
<1>. QED
  BY <1>1, IInvHolds, PTL

\* When a Send is over each wanted file was reported (the upload loop of send).
THEOREM EveryFileIsReported == Spec => []EveryFileReported
<1>1. IInv => EveryFileReported
  BY SenderAssumption
     DEF IInv, EveryFileReported, BatchOK, PlaceOK, ReportOK, TypeOK, Attempting
<1>. QED
  BY <1>1, IInvHolds, PTL

\* A failed upload is the last one its batch tries (the abort in send, the
\* return in SendFilesSync).
THEOREM FailsOnlyOnce == Spec => []FailsOnce
<1>1. IInv => FailsOnce
  <2>. SUFFICES ASSUME IInv, NEW b \in Batch
                PROVE  LET failed == {f \in File : outcome[b][f] = "failed"}
                       IN  /\ Cardinality(failed) <= 1
                           /\ failed # {} => current[b] = NoFile
    BY DEF FailsOnce
  <2>. DEFINE failed == {f \in File : outcome[b][f] = "failed"}
  <2>1. failed # {} => current[b] = NoFile
    BY DEF IInv, BatchOK, PlaceOK, FailureOK, Attempting
  <2>2. CASE failed = {}
    BY <2>2, FS_EmptySet
  <2>3. CASE failed # {}
    <3>1. PICK f \in File : failed = {f}
      BY <2>3 DEF IInv, BatchOK, FailureOK
    <3>2. Cardinality(failed) = 1
      BY <3>1, FS_Singleton
    <3>. QED
      BY <2>1, <3>2
  <2>. QED
    BY <2>2, <2>3
<1>. QED
  BY <1>1, IInvHolds, PTL

\* A SendFilesSync that returns no error uploaded every wanted file.
THEOREM SyncOkMeansAllAreDone == Spec => []SyncOkMeansAllDone
<1>1. IInv => SyncOkMeansAllDone
  BY DEF IInv, SyncOkMeansAllDone, BatchOK, SyncOK, TypeOK
<1>. QED
  BY <1>1, IInvHolds, PTL


-----------------------------------------------------------------------------
(* Transfer: IInv of the sender, and what ties the two sides together. *)

\* The files of b that were posted and yet reported as not sent.
Lost(b) == {f \in posted[b] : outcome[b][f] \notin {"none", "done"}}

\* A file is posted once, and a posted file that was not sent is the last.
PostedOK(b) ==
  /\ todo[b] \cap posted[b] = {}
  /\ current[b] \notin todo[b]
  /\ \A f \in File : f \in todo[b] \/ f = current[b] => outcome[b][f] = "none"
  /\ pc[b] \in {"opening", "posting"} => current[b] \notin posted[b]
  /\ Lost(b) # {} =>
       \/ pc[b] = "loop" /\ b \in cancelled
       \/ pc[b] \in {"exit", "leaving", "ended"}
  /\ \A f, g \in Lost(b) : f = g

\* The receiver knows of a file's content only what was posted to it, and has
\* what the sender reports as done.
PeerOK ==
  /\ status \in [Batch -> [File -> {"absent", "offered", "attempted", "delivered"}]]
  /\ \A b \in Batch, f \in File :
       /\ status[b][f] \in {"attempted", "delivered"} => f \in posted[b]
       /\ outcome[b][f] = "done" => status[b][f] = "delivered"

TInv ==
  /\ IInv
  /\ \A b \in Batch : PostedOK(b)
  /\ PeerOK

-----------------------------------------------------------------------------
(* What a step of the sender does to the files it has posted. *)

\* The steps of batch b.
SenderStep(b) ==
  \/ \E p \in Peer : Begin(b, p) \/ BeginSync(b, p)
  \/ Own(b)
  \/ Answered(b)

\* A batch changes nothing of the others; at most it cancels one.
LEMMA StepApart ==
  ASSUME NEW b \in Batch, IInv, SenderStep(b)
  PROVE  Apart(b)
<1>. TypeOK /\ RegistryExact
  BY DEF IInv
<1>1. ASSUME NEW p \in Peer, Begin(b, p) PROVE Apart(b)
  <2>1. active[p] # NoBatch => active[p] \notin sync /\ pc[active[p]] # "idle"
    BY DEF RegistryExact
  <2>. QED
    BY <1>1, <2>1 DEF Apart, TypeOK, Begin, Supersede, Goto, progress
<1>2. ASSUME NEW p \in Peer, BeginSync(b, p) PROVE Apart(b)
  BY <1>2 DEF Apart, TypeOK, BeginSync, Goto, progress, registry
<1>3. ASSUME NEW fs \in SUBSET File, Expand(b, fs) PROVE Apart(b)
  BY <1>3 DEF Apart, TypeOK, Expand, Return, Goto, progress, registry
<1>4. ASSUME NEW f \in File, Take(b, f) PROVE Apart(b)
  BY <1>4 DEF Apart, TypeOK, Take, Conclude, Goto, registry
<1>5. CASE OpenFails(b) \/ Open(b) \/ Post(b)
  BY <1>5 DEF Apart, TypeOK, OpenFails, Open, Post, Conclude, Goto, progress, registry
<1>6. CASE LoopEnds(b) \/ Exit(b) \/ Deregister(b)
  BY <1>6 DEF Apart, TypeOK, LoopEnds, Exit, Deregister, Return, Goto, progress, registry
<1>7. ASSUME NEW gs \in SUBSET File, Granted(b, gs) PROVE Apart(b)
  BY <1>7 DEF Apart, TypeOK, Granted, Goto, registry
<1>8. CASE PinRequired(b) \/ Refused(b)
  BY <1>8 DEF Apart, TypeOK, PinRequired, Refused, Return, Goto, progress, registry
<1>9. CASE UploadOk(b) \/ UploadFails(b)
  BY <1>9 DEF Apart, TypeOK, UploadOk, UploadFails, Abort, Return, Conclude, Goto,
     progress, registry
<1>. QED
  BY <1>1, <1>2, <1>3, <1>4, <1>5, <1>6, <1>7, <1>8, <1>9 DEF SenderStep, Own, Answered

\* What a batch has posted is unharmed by the steps of another one.
LEMMA ApartPosted ==
  ASSUME NEW b \in Batch, Apart(b), \A c \in Batch : PostedOK(c), PostedOK(b)'
  PROVE  \A c \in Batch : PostedOK(c)'
<1>. SUFFICES ASSUME NEW c \in Batch \ {b} PROVE PostedOK(c)'
  OBVIOUS
<1>1. /\ PostedOK(c)
      /\ pc'[c] = pc[c] /\ todo'[c] = todo[c] /\ current'[c] = current[c]
      /\ outcome'[c] = outcome[c] /\ posted'[c] = posted[c]
      /\ c \in cancelled => c \in cancelled'
  BY DEF Apart
<1>2. Lost(c)' = Lost(c)
  BY <1>1 DEF Lost
<1>. QED
  BY <1>1, <1>2 DEF PostedOK

\* Before the upload loop nothing is posted.
LEMMA EarlyPosted ==
  ASSUME NEW b \in Batch, IInv, PostedOK(b),
         \/ \E p \in Peer : Begin(b, p) \/ BeginSync(b, p)
         \/ \E fs \in SUBSET File : Expand(b, fs)
         \/ \E gs \in SUBSET File : Granted(b, gs)
         \/ PinRequired(b) \/ Refused(b)
  PROVE  PostedOK(b)'
<1>. TypeOK /\ PlaceOK(b)
  BY DEF IInv, BatchOK
<1>1. pc[b] \in {"idle", "expand", "preparing"} /\ posted'[b] = posted[b]
      /\ current'[b] = current[b]
  BY DEF Begin, BeginSync, Expand, Granted, PinRequired, Refused, progress
<1>2. posted[b] = {} /\ current[b] = NoFile
  BY <1>1 DEF PlaceOK, Attempting
<1>3. todo'[b] \subseteq File
  BY DEF TypeOK, Begin, BeginSync, Expand, Granted, PinRequired, Refused, progress
<1>4. Lost(b)' = {}
  BY <1>1, <1>2 DEF Lost
<1>5. \A f \in File : f \in todo'[b] => outcome'[b][f] = "none"
  <2>1. todo[b] = {} /\ \A f \in File : outcome[b][f] = "none"
    BY <1>1 DEF PlaceOK
  <2>2. CASE Refused(b)
    BY <2>1, <2>2 DEF Refused
  <2>3. CASE outcome' = outcome
    BY <2>1, <2>3
  <2>. QED
    BY <2>2, <2>3 DEF Begin, BeginSync, Expand, Granted, PinRequired, progress
<1>. QED
  BY <1>1, <1>2, <1>3, <1>4, <1>5, SenderAssumption DEF PostedOK

\* In the loop a file leaves todo before it is posted, and after a posted file
\* was not sent the batch is cancelled or over.
LEMMA LoopPosted ==
  ASSUME NEW b \in Batch, IInv, PostedOK(b),
         \/ \E f \in File : Take(b, f)
         \/ OpenFails(b) \/ Open(b) \/ Post(b)
  PROVE  PostedOK(b)'
<1>. TypeOK /\ PlaceOK(b)
  BY DEF IInv, BatchOK
<1>1. ASSUME NEW f \in File, Take(b, f) PROVE PostedOK(b)'
  <2>1. /\ pc[b] = "loop" /\ f \in todo[b] /\ todo'[b] = todo[b] \ {f}
        /\ posted'[b] = posted[b] /\ cancelled' = cancelled
        /\ \/ /\ b \in cancelled /\ pc'[b] = "loop" /\ current'[b] = current[b]
              /\ \A g \in File : g # f => outcome'[b][g] = outcome[b][g]
           \/ /\ b \notin cancelled /\ pc'[b] = "opening" /\ current'[b] = f
              /\ outcome' = outcome
    BY <1>1 DEF TypeOK, Take, Conclude, Goto, registry
  <2>2. f \notin posted[b] /\ posted[b] \subseteq File
    BY <2>1 DEF PostedOK, TypeOK
  <2>3. Lost(b)' = Lost(b)
    BY <2>1, <2>2 DEF Lost
  <2>. QED
    BY <2>1, <2>2, <2>3 DEF PostedOK
<1>2. CASE OpenFails(b)
  <2>1. /\ pc[b] = "opening" /\ pc'[b] = "loop" /\ current'[b] = NoFile
        /\ todo'[b] = todo[b] /\ posted'[b] = posted[b] /\ cancelled' = cancelled
        /\ \A g \in File : g # current[b] => outcome'[b][g] = outcome[b][g]
    BY <1>2 DEF TypeOK, OpenFails, Conclude, Goto, registry
  <2>2. current[b] \notin posted[b] /\ posted[b] \subseteq File /\ todo[b] \subseteq File
    BY <2>1 DEF PostedOK, TypeOK
  <2>3. Lost(b)' = Lost(b) /\ Lost(b) = {}
    BY <2>1, <2>2 DEF Lost, PostedOK
  <2>. QED
    BY <2>1, <2>2, <2>3, SenderAssumption DEF PostedOK
<1>3. CASE Open(b)
  <2>1. /\ pc[b] = "opening" /\ pc'[b] = "posting" /\ current'[b] = current[b]
        /\ todo'[b] = todo[b] /\ posted'[b] = posted[b] /\ cancelled' = cancelled
        /\ outcome'[b] = outcome[b]
    BY <1>3 DEF TypeOK, Open, Goto, registry, progress
  <2>2. Lost(b)' = Lost(b)
    BY <2>1 DEF Lost
  <2>. QED
    BY <2>1, <2>2 DEF PostedOK
<1>4. CASE Post(b)
  <2>1. /\ pc[b] = "posting" /\ pc'[b] = "uploading" /\ current'[b] = current[b]
        /\ todo'[b] = todo[b] /\ posted'[b] = posted[b] \cup {current[b]}
        /\ outcome'[b] = outcome[b]
    BY <1>4 DEF TypeOK, Post, Goto, registry
  <2>2. Lost(b) = {} /\ current[b] \in File /\ outcome[b][current[b]] = "none"
    BY <2>1, SenderAssumption DEF PostedOK, PlaceOK, Attempting, TypeOK
  <2>3. Lost(b)' = {}
    BY <2>1, <2>2 DEF Lost
  <2>. QED
    BY <2>1, <2>2, <2>3 DEF PostedOK
<1>. QED
  BY <1>1, <1>2, <1>3, <1>4

\* An upload ends: sent, or not sent and then nothing more of its batch is.
LEMMA UploadPosted ==
  ASSUME NEW b \in Batch, IInv, PostedOK(b), UploadOk(b) \/ UploadFails(b)
  PROVE  PostedOK(b)'
<1>. TypeOK /\ PlaceOK(b)
  BY DEF IInv, BatchOK
<1>1. /\ pc[b] \in {"posting", "uploading"} /\ current'[b] = NoFile /\ current[b] \in File
      /\ todo'[b] = todo[b] /\ posted'[b] = posted[b]
      /\ \A g \in File : g # current[b] => outcome'[b][g] = outcome[b][g]
      /\ \/ pc'[b] = "loop" /\ b \in cancelled'
         \/ pc'[b] = "ended"
         \/ outcome'[b][current[b]] = "done"
  <2>1. pc[b] \in {"posting", "uploading"} /\ current[b] \in File
    BY SenderAssumption DEF UploadOk, UploadFails, PlaceOK, Attempting, TypeOK
  <2>2. CASE UploadOk(b)
    BY <2>1, <2>2 DEF TypeOK, UploadOk, Conclude, Goto, registry
  <2>3. CASE UploadFails(b)
    BY <2>1, <2>3 DEF TypeOK, UploadFails, Abort, Return, Conclude, Goto, registry
  <2>. QED
    BY <2>2, <2>3
<1>2. Lost(b) = {} /\ current[b] \notin todo[b] /\ NoFile \notin todo[b]
  BY <1>1, SenderAssumption DEF PostedOK, TypeOK
<1>3. \A f \in Lost(b)' : f = current[b] /\ outcome'[b][current[b]] # "done"
  BY <1>1, <1>2 DEF Lost, TypeOK
<1>4. \A f \in File : f \in todo'[b] => outcome'[b][f] = "none"
  BY <1>1, <1>2 DEF PostedOK
<1>5. pc'[b] \in {"loop", "ended"}
  BY DEF TypeOK, UploadOk, UploadFails, Return, Goto
<1>. QED
  BY <1>1, <1>2, <1>3, <1>4, <1>5, SenderAssumption DEF PostedOK

\* After the loop nothing is posted or reported.
LEMMA EndPosted ==
  ASSUME NEW b \in Batch, IInv, PostedOK(b),
         LoopEnds(b) \/ Exit(b) \/ Deregister(b)
  PROVE  PostedOK(b)'
<1>. TypeOK
  BY DEF IInv
<1>1. /\ todo'[b] = todo[b] /\ posted'[b] = posted[b] /\ current'[b] = current[b]
      /\ outcome'[b] = outcome[b] /\ pc'[b] \in {"exit", "leaving", "ended"}
  BY DEF TypeOK, LoopEnds, Exit, Deregister, Return, Goto, progress
<1>2. Lost(b)' = Lost(b)
  BY <1>1 DEF Lost
<1>. QED
  BY <1>1, <1>2 DEF PostedOK

\* Every step of a batch keeps what its posted files are known to be.
LEMMA StepPosted ==
  ASSUME NEW b \in Batch, IInv, \A c \in Batch : PostedOK(c), SenderStep(b)
  PROVE  \A c \in Batch : PostedOK(c)'
<1>1. PostedOK(b)'
  BY EarlyPosted, LoopPosted, UploadPosted, EndPosted DEF SenderStep, Own, Answered
<1>. QED
  BY <1>1, StepApart, ApartPosted

\* Only the answer to an upload makes a file done, and posts are not undone.
LEMMA StepReports ==
  ASSUME NEW b \in Batch, IInv, SenderStep(b)
  PROVE  \A c \in Batch, f \in File :
           /\ f \in posted[c] => f \in posted'[c]
           /\ outcome'[c][f] = "done" =>
                \/ outcome[c][f] = "done"
                \/ UploadOk(b) /\ c = b /\ f = current[b]
<1>. TypeOK /\ Apart(b)
  BY StepApart DEF IInv
<1>1. ASSUME NEW f \in File
      PROVE  /\ f \in posted[b] => f \in posted'[b]
             /\ outcome'[b][f] = "done" =>
                  outcome[b][f] = "done" \/ (UploadOk(b) /\ f = current[b])
  <2>1. CASE outcome' = outcome
    <3>1. f \in posted[b] => f \in posted'[b]
      BY DEF TypeOK, SenderStep, Own, Answered, Begin, BeginSync, Expand, Take, OpenFails,
         Open, Post, LoopEnds, Exit, Deregister, Granted, PinRequired, Refused, UploadOk,
         UploadFails, progress
    <3>. QED
      BY <2>1, <3>1
  <2>2. CASE \E g \in File : Take(b, g)
    <3>. PICK g \in File : Take(b, g)
      BY <2>2
    <3>1. /\ posted' = posted
          /\ outcome' = outcome \/ outcome' = [outcome EXCEPT ![b][g] = "cancelled"]
      BY DEF Take, Conclude
    <3>. QED
      BY <3>1 DEF TypeOK
  <2>3. CASE OpenFails(b) \/ UploadFails(b) \/ UploadOk(b)
    BY <2>3 DEF TypeOK, OpenFails, UploadFails, UploadOk, Conclude
  <2>4. CASE Refused(b)
    BY <2>4 DEF TypeOK, Refused
  <2>5. outcome' = outcome \/ (\E g \in File : Take(b, g)) \/ OpenFails(b)
          \/ UploadFails(b) \/ UploadOk(b) \/ Refused(b)
    BY DEF SenderStep, Own, Answered, Begin, BeginSync, Expand, Open, Post, LoopEnds, Exit,
       Deregister, Granted, PinRequired, progress
  <2>. QED
    BY <2>1, <2>2, <2>3, <2>4, <2>5
<1>. QED
  BY <1>1 DEF Apart

-----------------------------------------------------------------------------
(* The composition. *)

\* In the composition each side does what its own module says.
LEMMA SenderSide == TransferNext => [Next]_vars
BY DEF TransferNext, HearsGranted, Wanted, HearsOk, Accepts, Arrives, ReceiverStep,
       Next, Own, Answered

\* A step of the sender as the composition takes it.
LEMMA SenderPeerOK ==
  ASSUME NEW b \in Batch, TInv, SenderStep(b), UNCHANGED peerVars,
         UploadOk(b) => AnswersOk(b)
  PROVE  PeerOK'
<1>1. \A c \in Batch, f \in File :
        /\ f \in posted[c] => f \in posted'[c]
        /\ outcome'[c][f] = "done" =>
             outcome[c][f] = "done" \/ (UploadOk(b) /\ c = b /\ f = current[b])
  BY StepReports DEF TInv
<1>2. status' = status
  BY DEF peerVars
<1>. QED
  BY <1>1, <1>2 DEF TInv, PeerOK, AnswersOk

\* A step of the receiver: what is delivered stays so, and only a posted file
\* is attempted.
LEMMA ReceiverPeerOK ==
  ASSUME TInv, UNCHANGED vars,
         \/ \E b \in Batch, gs \in SUBSET File : Accepts(b, gs)
         \/ \E b \in Batch, f \in File : Arrives(b, f)
         \/ ReceiverStep
  PROVE  PeerOK'
<1>. PeerOK
  BY DEF TInv
<1>1. posted' = posted /\ outcome' = outcome
  BY DEF vars, progress
<1>2. ASSUME NEW b \in Batch, NEW gs \in SUBSET File, Accepts(b, gs) PROVE PeerOK'
  <2>1. /\ \A f \in File : status[b][f] = "absent"
        /\ status' = [status EXCEPT ![b] =
                        [f \in File |-> IF f \in gs THEN "offered" ELSE "absent"]]
    BY <1>2 DEF Accepts, Receiver!Offer
  <2>2. status' \in [Batch -> [File -> {"absent", "offered", "attempted", "delivered"}]]
    BY <2>1 DEF PeerOK
  <2>3. \A c \in Batch, f \in File :
          IF c = b THEN status'[c][f] \in {"absent", "offered"} /\ status[c][f] = "absent"
                   ELSE status'[c][f] = status[c][f]
    BY <2>1 DEF PeerOK
  <2>4. ASSUME NEW c \in Batch, NEW f \in File
        PROVE  /\ status'[c][f] \in {"attempted", "delivered"} => f \in posted[c]
               /\ outcome[c][f] = "done" => status'[c][f] = "delivered"
    <3>1. /\ status[c][f] \in {"attempted", "delivered"} => f \in posted[c]
          /\ outcome[c][f] = "done" => status[c][f] = "delivered"
      BY DEF PeerOK
    <3>. QED
      BY <2>3, <3>1
  <2>. QED
    BY <1>1, <2>2, <2>4 DEF PeerOK
<1>3. ASSUME NEW b \in Batch, NEW f \in File, Arrives(b, f) PROVE PeerOK'
  <2>1. /\ f \in posted[b] /\ status[b][f] = "offered"
        /\ status' = [status EXCEPT ![b][f] = "attempted"]
    BY <1>3 DEF Arrives, Receiver!Attempt
  <2>. QED
    BY <1>1, <2>1 DEF PeerOK
<1>4. ASSUME NEW b \in Batch, NEW f \in File, Receiver!GiveUp(b, f) \/ Receiver!Deliver(b, f)
      PROVE  PeerOK'
  <2>1. CASE Receiver!GiveUp(b, f)
    BY <1>1, <2>1 DEF PeerOK, Receiver!GiveUp
  <2>2. CASE Receiver!Deliver(b, f)
    BY <1>1, <2>2 DEF PeerOK, Receiver!Deliver
  <2>. QED
    BY <1>4, <2>1, <2>2
<1>5. ASSUME NEW b \in Batch, Receiver!Close({b}) PROVE PeerOK'
  BY <1>1, <1>5 DEF PeerOK, Receiver!Close
<1>. QED
  BY <1>2, <1>3, <1>4, <1>5 DEF ReceiverStep

\* Steps of a sender, of the receiver, and of both when an answer is heard.
LEMMA TransferNextTInv == TInv /\ [TransferNext]_<<vars, peerVars>> => TInv'
<1>. SUFFICES ASSUME TInv, [TransferNext]_<<vars, peerVars>> PROVE TInv'
  OBVIOUS
<1>1. IInv'
  BY SenderSide, NextIInv DEF TInv
<1>2. ASSUME UNCHANGED vars PROVE \A c \in Batch : PostedOK(c)'
  <2>. SUFFICES ASSUME NEW c \in Batch PROVE PostedOK(c)'
    OBVIOUS
  <2>1. /\ PostedOK(c) /\ UNCHANGED <<pc, cancelled, todo, current, posted, outcome>>
    BY <1>2 DEF TInv, vars, registry, progress
  <2>2. Lost(c)' = Lost(c)
    BY <2>1 DEF Lost
  <2>. QED
    BY <2>1, <2>2 DEF PostedOK
<1>3. CASE UNCHANGED <<vars, peerVars>>
  <2>1. PeerOK'
    BY <1>3 DEF TInv, PeerOK, vars, progress, peerVars
  <2>. QED
    BY <1>1, <1>2, <1>3, <2>1 DEF TInv
<1>4. ASSUME NEW b \in Batch, SenderStep(b), UNCHANGED peerVars, UploadOk(b) => AnswersOk(b)
      PROVE  TInv'
  BY <1>1, <1>4, StepPosted, SenderPeerOK DEF TInv
<1>5. ASSUME NEW b \in Batch,
             \/ \E p \in Peer : Begin(b, p) \/ BeginSync(b, p)
             \/ Own(b)
             \/ PinRequired(b) \/ Refused(b) \/ UploadFails(b)
      PROVE  SenderStep(b) /\ ~UploadOk(b)
  <2>1. SenderStep(b)
    BY <1>5 DEF SenderStep, Answered
  <2>2. ASSUME UploadOk(b) PROVE FALSE
    <3>1. pc[b] = "uploading" /\ pc'[b] = "loop" /\ outcome'[b][current[b]] = "done"
      BY <2>2 DEF TInv, IInv, TypeOK, BatchOK, PlaceOK, Attempting, UploadOk, Conclude, Goto
    <3>2. UploadFails(b)
      BY <1>5, <3>1 DEF Own, Begin, BeginSync, Expand, Take, OpenFails, Open, Post,
         LoopEnds, Exit, Deregister, PinRequired, Refused
    <3>3. current[b] \in File
      BY <3>1, SenderAssumption DEF TInv, IInv, TypeOK, BatchOK, PlaceOK, Attempting
    <3>4. outcome'[b][current[b]] \in {"cancelled", "failed"}
      BY <3>2, <3>3 DEF TInv, IInv, TypeOK, UploadFails, Conclude
    <3>. QED
      BY <3>1, <3>4
  <2>. QED
    BY <2>1, <2>2
<1>6. ASSUME NEW b \in Batch, HearsGranted(b) PROVE TInv'
  <2>1. Granted(b, Wanted(b)) /\ UNCHANGED peerVars
    BY <1>6 DEF HearsGranted
  <2>2. SenderStep(b)
    BY <2>1 DEF SenderStep, Answered, Wanted
  <2>3. ~UploadOk(b)
    BY <2>1 DEF Granted, UploadOk
  <2>. QED
    BY <1>4, <2>1, <2>2, <2>3
<1>7. ASSUME NEW b \in Batch, HearsOk(b) PROVE TInv'
  BY <1>4, <1>7 DEF HearsOk, SenderStep, Answered
<1>8. CASE \/ \E b \in Batch, gs \in SUBSET File : Accepts(b, gs)
           \/ \E b \in Batch, f \in File : Arrives(b, f)
           \/ ReceiverStep
  <2>1. UNCHANGED vars
    BY <1>8 DEF Accepts, Arrives, ReceiverStep
  <2>. QED
    BY <1>1, <1>2, <1>8, <2>1, ReceiverPeerOK DEF TInv
<1>. QED
  BY <1>3, <1>4, <1>5, <1>6, <1>7, <1>8 DEF TransferNext

\* TInv holds throughout.
LEMMA TInvHolds == TransferSpec => []TInv
<1>1. TransferInit => TInv
  <2>. SUFFICES ASSUME TransferInit PROVE TInv
    OBVIOUS
  <2>1. IInv
    BY InitIInv DEF TransferInit
  <2>2. \A b \in Batch : PostedOK(b)
    BY DEF TransferInit, Init, PostedOK, Lost
  <2>3. PeerOK
    BY DEF TransferInit, Init, Receiver!Init, PeerOK
  <2>. QED
    BY <2>1, <2>2, <2>3 DEF TInv
<1>. QED
  BY <1>1, TransferNextTInv, PTL DEF TransferSpec

-----------------------------------------------------------------------------
(* The theorems. *)

\* What the sender reports as done, and what SendFilesSync returned without
\* an error for, is in place at the receiver, whatever the network loses or
\* delivers late.
THEOREM DoneFilesAreDelivered == TransferSpec => []DoneIsDelivered
<1>1. TInv => DoneIsDelivered
  BY DEF TInv, IInv, TypeOK, BatchOK, SyncOK, PeerOK, DoneIsDelivered
<1>. QED
  BY <1>1, TInvHolds, PTL

\* Of the files a batch reports as not sent, at most one can have landed.
THEOREM SenderIsWrongAboutOne == TransferSpec => []WrongAboutOne
<1>1. ASSUME TInv, NEW b \in Batch
      PROVE  Cardinality({f \in File : /\ status[b][f] \in {"attempted", "delivered"}
                                       /\ outcome[b][f] \notin {"none", "done"}}) <= 1
  <2>. DEFINE wrong == {f \in File : /\ status[b][f] \in {"attempted", "delivered"}
                                    /\ outcome[b][f] \notin {"none", "done"}}
  <2>1. wrong \subseteq Lost(b)
    BY <1>1 DEF TInv, PeerOK, Lost
  <2>2. \A f, g \in wrong : f = g
    BY <1>1, <2>1 DEF TInv, PostedOK
  <2>3. CASE wrong = {}
    BY <2>3, FS_EmptySet
  <2>4. CASE wrong # {}
    <3>. PICK f \in wrong : TRUE
      BY <2>4
    <3>1. wrong = {f}
      BY <2>2
    <3>2. Cardinality({f}) = 1
      BY FS_Singleton
    <3>. HIDE DEF wrong
    <3>3. Cardinality(wrong) <= 1
      BY <3>1, <3>2
    <3>. QED
      BY <3>3 DEF wrong
  <2>. QED
    BY <2>3, <2>4
<1>2. TInv => WrongAboutOne
  BY <1>1 DEF WrongAboutOne
<1>. QED
  BY <1>2, TInvHolds, PTL

\* The sender of the composition is the sender of Sender, so what is proved
\* there holds here.
THEOREM SenderInTransfer == TransferSpec => Spec
<1>1. [TransferNext]_<<vars, peerVars>> => [Next]_vars
  BY SenderSide
<1>. QED
  BY <1>1, PTL DEF TransferSpec, TransferInit, Spec

\* Against such a receiver, too, every file of a finished Send was reported,
\* and SendFilesSync is silent only when all of its files went.
THEOREM ReportsInTransfer == TransferSpec => [](EveryFileReported /\ SyncOkMeansAllDone)
BY SenderInTransfer, EveryFileIsReported, SyncOkMeansAllAreDone, PTL

\* The receiver of the composition takes only steps of FileDelivery.
THEOREM ReceiverInTransfer == TransferSpec => Receiver!Spec
<1>1. [TransferNext]_<<vars, peerVars>> => [Receiver!Next]_(Receiver!vars)
  BY DEF TransferNext, HearsGranted, HearsOk, Accepts, Arrives, ReceiverStep,
         peerVars, Receiver!Next, Receiver!vars
<1>. QED
  BY <1>1, PTL DEF TransferSpec, TransferInit, Receiver!Spec

=============================================================================
