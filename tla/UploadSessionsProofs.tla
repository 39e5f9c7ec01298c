------------------------ MODULE UploadSessionsProofs ------------------------
(***************************************************************************)
(* Theorems about UploadSessions, for any number of sessions, files and    *)
(* goroutines and any values of the limits.                                *)
(***************************************************************************)
EXTENDS UploadSessions, FiniteSetTheorems, TLAPS

-----------------------------------------------------------------------------
(* The inductive invariant. *)

\* What a goroutine's place says of the session and the file it works on.
HandlersOK ==
  \A h \in Handler :
    /\ pc[h] \in Uploading =>
         /\ sid[h] \in Session
         /\ \E f \in files[sid[h]] : want[h] = {f}
    /\ pc[h] = "aborting" => sid[h] \in Session
    /\ pc[h] = "insert" => want[h] # {}

\* A claimed file is in place exactly from the rename on, and a claim given
\* back while the session lives is of a file that is done or not in place.
ClaimsOK ==
  \A h \in Handler, f \in File :
    pc[h] \in Uploading /\ f \in want[h] =>
      /\ pc[h] \in Receiving \cup {"failed"} => <<sid[h], f>> \notin landed
      /\ pc[h] \in {"landed", "completing"} => <<sid[h], f>> \in landed
      /\ pc[h] = "ending" /\ sid[h] \in sessions /\ <<sid[h], f>> \in landed
           => f \in done[sid[h]]
      /\ pc[h] \in {"writing", "copied", "landed"} => row[<<sid[h], f>>] = "start"

\* No goroutine shares a file of a session with another one.
ClaimsDisjoint ==
  \A g, h \in Handler :
    g # h /\ pc[g] \in Uploading /\ pc[h] \in Uploading /\ sid[g] = sid[h]
      => want[g] \cap want[h] = {}

\* Sessions: an id never issued has a blank record; what landed was declared;
\* in a session of the store it is marked done unless its upload still runs.
SessionsOK ==
  /\ \A s \in sessions : files[s] # {}
  /\ \A s \in Fresh : active[s] = 0 /\ inflight[s] = {} /\ done[s] = {}
  /\ \A s \in Session, f \in File : <<s, f>> \in landed => f \in files[s]
  /\ \A s \in sessions, f \in File :
       <<s, f>> \in landed => f \in done[s] \/ f \in inflight[s]

\* The busy mark counts a finite set of goroutines.
BusyOK ==
  \A s \in sessions :
    /\ IsFiniteSet(Uploaders(s))
    /\ active[s] = Cardinality(Uploaders(s))
    /\ \A f \in File : f \in inflight[s] <=> \E h \in Uploaders(s) : f \in want[h]

IInv ==
  /\ TypeOK
  /\ HandlersOK
  /\ ClaimsOK
  /\ ClaimsDisjoint
  /\ SessionsOK
  /\ BusyOK
  /\ DoneMeansLanded

-----------------------------------------------------------------------------
(* The initial states. *)

\* No session and no upload.
LEMMA InitIInv == Init => IInv
<1>. SUFFICES ASSUME Init PROVE IInv
  OBVIOUS
<1>1. TypeOK
  BY UploadSessionsAssumption DEF Init, TypeOK, PC
<1>2. HandlersOK /\ ClaimsOK /\ ClaimsDisjoint
  BY DEF Init, HandlersOK, ClaimsOK, ClaimsDisjoint, Uploading, Receiving
<1>3. SessionsOK /\ BusyOK /\ DoneMeansLanded
  BY DEF Init, SessionsOK, BusyOK, DoneMeansLanded, Fresh
<1>. QED
  BY <1>1, <1>2, <1>3 DEF IInv

-----------------------------------------------------------------------------
(* One lemma per action. *)

\* Most steps leave alone which goroutine holds which claim.
ClaimsKept ==
  \A g \in Handler :
    /\ pc'[g] \in Uploading <=> pc[g] \in Uploading
    /\ pc[g] \in Uploading => sid'[g] = sid[g] /\ want'[g] = want[g]

\* Claims that nobody takes or gives up stay disjoint,
LEMMA KeptDisjoint ==
  ASSUME ClaimsDisjoint, ClaimsKept
  PROVE  ClaimsDisjoint'
BY DEF ClaimsDisjoint, ClaimsKept

\* each session keeps its uploaders,
LEMMA KeptUploaders ==
  ASSUME ClaimsKept, NEW s
  PROVE  /\ Uploaders(s)' = Uploaders(s)
         /\ \A g \in Uploaders(s) : want'[g] = want[g]
BY DEF ClaimsKept, Uploaders

\* and active and inflight stay exact if they are left alone.
LEMMA KeptBusy ==
  ASSUME BusyOK, ClaimsKept, sessions' \subseteq sessions,
         active' = active, inflight' = inflight
  PROVE  BusyOK'
<1>. SUFFICES ASSUME NEW s \in sessions'
              PROVE  /\ IsFiniteSet(Uploaders(s)')
                     /\ active'[s] = Cardinality(Uploaders(s)')
                     /\ \A f \in File : f \in inflight'[s] <=>
                          \E h \in Uploaders(s)' : f \in want'[h]
  BY DEF BusyOK
<1>1. /\ Uploaders(s)' = Uploaders(s)
      /\ \A g \in Uploaders(s) : want'[g] = want[g]
  BY KeptUploaders
<1>. QED
  BY <1>1 DEF BusyOK

\* claim gives the goroutine a file nobody holds and counts it.
LEMMA ClaimIInv ==
  ASSUME NEW h \in Handler, NEW s \in Session, NEW f \in File,
         IInv, Claim(h, s, f)
  PROVE  IInv'
<1>. USE DEF IInv
<1>1. TypeOK'
  BY UploadSessionsAssumption
     DEF TypeOK, Claim, Touch, Goto, PC, Uploading, Receiving, eventVars
<1>2. pc[h] \notin Uploading /\ pc'[h] = "claimed" /\ sid'[h] = s /\ want'[h] = {f}
  BY DEF TypeOK, Claim, Goto, Uploading, Receiving
<1>3. \A g \in Handler : g # h =>
        pc'[g] = pc[g] /\ sid'[g] = sid[g] /\ want'[g] = want[g]
  BY DEF TypeOK, Claim, Goto
<1>4. HandlersOK'
  BY <1>2, <1>3 DEF HandlersOK, Claim, Claimable, Uploading, Receiving
<1>5. f \notin inflight[s] /\ s \in sessions /\ <<s, f>> \notin landed
  BY DEF Claim, Claimable, SessionsOK
<1>6. \A g \in Handler : g # h /\ pc[g] \in Uploading /\ sid[g] = s => f \notin want[g]
  BY <1>5 DEF BusyOK, Uploaders
<1>7. ClaimsOK'
  BY <1>2, <1>3, <1>5 DEF ClaimsOK, Claim, eventVars, Receiving
<1>8. ClaimsDisjoint'
  BY <1>2, <1>3, <1>6 DEF ClaimsDisjoint
<1>9. SessionsOK'
  BY <1>5 DEF SessionsOK, Claim, TypeOK, Fresh
<1>10. BusyOK'
  <2>. SUFFICES ASSUME NEW r \in sessions
                PROVE  /\ IsFiniteSet(Uploaders(r)')
                       /\ active'[r] = Cardinality(Uploaders(r)')
                       /\ \A e \in File : e \in inflight'[r] <=>
                            \E g \in Uploaders(r)' : e \in want'[g]
    BY DEF BusyOK, Claim
  <2>1. CASE r = s
    <3>1. Uploaders(s)' = Uploaders(s) \cup {h} /\ h \notin Uploaders(s)
      BY <1>2, <1>3 DEF Uploaders, Uploading, Receiving
    <3>2. IsFiniteSet(Uploaders(s)) /\ active[s] = Cardinality(Uploaders(s))
      BY <2>1 DEF BusyOK
    <3>3. /\ IsFiniteSet(Uploaders(s) \cup {h})
          /\ Cardinality(Uploaders(s) \cup {h}) = Cardinality(Uploaders(s)) + 1
      BY <3>1, <3>2, FS_AddElement
    <3>4. active'[s] = active[s] + 1 /\ inflight'[s] = inflight[s] \cup {f}
      BY DEF Claim, TypeOK
    <3>5. \A g \in Uploaders(s) : want'[g] = want[g]
      BY <1>3, <3>1 DEF Uploaders
    <3>6. \A e \in File : e \in inflight[s] <=> \E g \in Uploaders(s) : e \in want[g]
      BY <2>1 DEF BusyOK
    <3>7. \A e \in File : e \in inflight'[s] <=>
                            \E g \in Uploaders(s)' : e \in want'[g]
      BY <1>2, <3>1, <3>4, <3>5, <3>6
    <3>. QED
      BY <2>1, <3>1, <3>2, <3>3, <3>4, <3>7
  <2>2. CASE r # s
    <3>1. Uploaders(r)' = Uploaders(r) /\ h \notin Uploaders(r)
      BY <1>2, <1>3, <2>2 DEF Uploaders
    <3>2. active'[r] = active[r] /\ inflight'[r] = inflight[r]
      BY <2>2 DEF Claim, TypeOK
    <3>3. \A g \in Uploaders(r) : want'[g] = want[g]
      BY <1>3, <3>1 DEF Uploaders
    <3>. QED
      BY <3>1, <3>2, <3>3 DEF BusyOK
  <2>. QED
    BY <2>1, <2>2
<1>11. DoneMeansLanded'
  BY DEF DoneMeansLanded, Claim, eventVars
<1>. QED
  BY <1>1, <1>4, <1>7, <1>8, <1>9, <1>10, <1>11

\* The temporary file is open.
LEMMA StartIInv ==
  ASSUME NEW h \in Handler, IInv, Start(h)
  PROVE  IInv'
<1>. USE DEF IInv
<1>1. TypeOK'
  BY UploadSessionsAssumption
     DEF TypeOK, Start, Send, Goto, PC, Uploading, Receiving, storeVars, eventVars
<1>2. pc[h] = "claimed" /\ pc'[h] = "writing" /\ sid'[h] = sid[h] /\ want'[h] = want[h]
  BY DEF TypeOK, Start, Goto
<1>3. \A g \in Handler : g # h =>
        pc'[g] = pc[g] /\ sid'[g] = sid[g] /\ want'[g] = want[g]
  BY DEF TypeOK, Start, Goto
<1>4. ClaimsKept
  BY <1>2, <1>3 DEF ClaimsKept, Uploading, Receiving
<1>4a. \A k \in Session \X File : row'[k] =
         IF k[1] = sid[h] /\ k[2] \in want[h] THEN "start" ELSE row[k]
  BY DEF Start, Send, TypeOK
<1>5. HandlersOK'
  BY <1>2, <1>3 DEF HandlersOK, Start, storeVars, Uploading, Receiving
<1>6. ClaimsOK'
  BY <1>2, <1>3, <1>4a DEF ClaimsOK, ClaimsDisjoint, HandlersOK, Start, storeVars, Uploading, Receiving
<1>7. ClaimsDisjoint' /\ BusyOK'
  BY <1>4, KeptDisjoint, KeptBusy DEF Start, storeVars
<1>8. SessionsOK'
  BY DEF SessionsOK, Start, storeVars, eventVars, Fresh
<1>9. DoneMeansLanded'
  BY <1>2, <1>4a DEF DoneMeansLanded, ClaimsOK, Start, storeVars, Uploading, Receiving
<1>. QED
  BY <1>1, <1>5, <1>6, <1>7, <1>8, <1>9

\* The last byte was read.
LEMMA ReadEOFIInv ==
  ASSUME NEW h \in Handler, IInv, ReadEOF(h)
  PROVE  IInv'
<1>. USE DEF IInv
<1>1. TypeOK'
  BY UploadSessionsAssumption
     DEF TypeOK, ReadEOF, Goto, PC, Uploading, Receiving, storeVars, eventVars
<1>2. pc[h] = "writing" /\ pc'[h] = "copied" /\ sid'[h] = sid[h] /\ want'[h] = want[h]
  BY DEF TypeOK, ReadEOF, Goto
<1>3. \A g \in Handler : g # h =>
        pc'[g] = pc[g] /\ sid'[g] = sid[g] /\ want'[g] = want[g]
  BY DEF TypeOK, ReadEOF, Goto
<1>4. ClaimsKept
  BY <1>2, <1>3 DEF ClaimsKept, Uploading, Receiving
<1>5. HandlersOK'
  BY <1>2, <1>3 DEF HandlersOK, ReadEOF, storeVars, Uploading, Receiving
<1>6. ClaimsOK'
  BY <1>2, <1>3 DEF ClaimsOK, ReadEOF, storeVars, eventVars, Uploading, Receiving
<1>7. ClaimsDisjoint' /\ BusyOK'
  BY <1>4, KeptDisjoint, KeptBusy DEF ReadEOF, storeVars
<1>8. SessionsOK'
  BY DEF SessionsOK, ReadEOF, storeVars, eventVars, Fresh
<1>9. DoneMeansLanded'
  BY DEF DoneMeansLanded, ReadEOF, storeVars, eventVars, TypeOK
<1>. QED
  BY <1>1, <1>5, <1>6, <1>7, <1>8, <1>9

\* writeFile returned an error.
LEMMA FailIInv ==
  ASSUME NEW h \in Handler, IInv, Fail(h)
  PROVE  IInv'
<1>. USE DEF IInv
<1>1. TypeOK'
  BY UploadSessionsAssumption
     DEF TypeOK, Fail, Goto, PC, Uploading, Receiving, storeVars, eventVars
<1>2. pc[h] \in Receiving /\ pc'[h] = "failed" /\ sid'[h] = sid[h] /\ want'[h] = want[h]
  BY DEF TypeOK, Fail, Goto
<1>3. \A g \in Handler : g # h =>
        pc'[g] = pc[g] /\ sid'[g] = sid[g] /\ want'[g] = want[g]
  BY DEF TypeOK, Fail, Goto
<1>4. ClaimsKept
  BY <1>2, <1>3 DEF ClaimsKept, Uploading, Receiving
<1>5. HandlersOK'
  BY <1>2, <1>3 DEF HandlersOK, Fail, storeVars, Uploading, Receiving
<1>6. ClaimsOK'
  BY <1>2, <1>3 DEF ClaimsOK, Fail, storeVars, eventVars, Uploading, Receiving
<1>7. ClaimsDisjoint' /\ BusyOK'
  BY <1>4, KeptDisjoint, KeptBusy DEF Fail, storeVars
<1>8. SessionsOK'
  BY DEF SessionsOK, Fail, storeVars, eventVars, Fresh
<1>9. DoneMeansLanded'
  BY DEF DoneMeansLanded, Fail, storeVars, eventVars, TypeOK
<1>. QED
  BY <1>1, <1>5, <1>6, <1>7, <1>8, <1>9

\* The file gets its final name.
LEMMA RenameIInv ==
  ASSUME NEW h \in Handler, IInv, Rename(h)
  PROVE  IInv'
<1>. USE DEF IInv
<1>0. PICK f \in files[sid[h]] : sid[h] \in Session /\ want[h] = {f}
  BY DEF HandlersOK, Rename, Uploading, Receiving
<1>1. TypeOK'
  BY <1>0, UploadSessionsAssumption
     DEF TypeOK, Rename, Goto, PC, Uploading, Receiving, storeVars, eventVars
<1>2. pc[h] = "copied" /\ pc'[h] = "landed" /\ sid'[h] = sid[h] /\ want'[h] = want[h]
  BY DEF TypeOK, Rename, Goto
<1>3. \A g \in Handler : g # h =>
        pc'[g] = pc[g] /\ sid'[g] = sid[g] /\ want'[g] = want[g]
  BY DEF TypeOK, Rename, Goto
<1>4. ClaimsKept
  BY <1>2, <1>3 DEF ClaimsKept, Uploading, Receiving
<1>5. HandlersOK'
  BY <1>2, <1>3 DEF HandlersOK, Rename, storeVars, Uploading, Receiving
<1>6. ClaimsOK'
  BY <1>2, <1>3 DEF ClaimsOK, ClaimsDisjoint, HandlersOK, Rename, storeVars, eventVars, Uploading, Receiving
<1>7. ClaimsDisjoint' /\ BusyOK'
  BY <1>4, KeptDisjoint, KeptBusy DEF Rename, storeVars
<1>8. SessionsOK'
  <2>1. landed' = landed \cup {<<sid[h], f>>} /\ f \in File
    BY <1>0 DEF Rename, TypeOK
  <2>2. sid[h] \in sessions => f \in inflight[sid[h]]
    BY <1>0, <1>2, <2>1 DEF BusyOK, Uploaders, Uploading, Receiving
  <2>. QED
    BY <1>0, <2>1, <2>2 DEF SessionsOK, Rename, storeVars, Fresh
<1>9. DoneMeansLanded'
  BY DEF DoneMeansLanded, Rename, storeVars, eventVars, TypeOK
<1>. QED
  BY <1>1, <1>5, <1>6, <1>7, <1>8, <1>9

\* FileDone is sent.
LEMMA SendDoneIInv ==
  ASSUME NEW h \in Handler, IInv, SendDone(h)
  PROVE  IInv'
<1>. USE DEF IInv
<1>1. TypeOK'
  BY UploadSessionsAssumption
     DEF TypeOK, SendDone, Send, Goto, PC, Uploading, Receiving, storeVars, eventVars
<1>2. pc[h] = "landed" /\ pc'[h] = "completing" /\ sid'[h] = sid[h] /\ want'[h] = want[h]
  BY DEF TypeOK, SendDone, Goto
<1>3. \A g \in Handler : g # h =>
        pc'[g] = pc[g] /\ sid'[g] = sid[g] /\ want'[g] = want[g]
  BY DEF TypeOK, SendDone, Goto
<1>4. ClaimsKept
  BY <1>2, <1>3 DEF ClaimsKept, Uploading, Receiving
<1>4a. \A k \in Session \X File : row'[k] =
         IF k[1] = sid[h] /\ k[2] \in want[h] THEN "done" ELSE row[k]
  BY DEF SendDone, Send, TypeOK
<1>5. HandlersOK'
  BY <1>2, <1>3 DEF HandlersOK, SendDone, storeVars, Uploading, Receiving
<1>6. ClaimsOK'
  BY <1>2, <1>3, <1>4a DEF ClaimsOK, ClaimsDisjoint, HandlersOK, SendDone, storeVars, Uploading, Receiving
<1>7. ClaimsDisjoint' /\ BusyOK'
  BY <1>4, KeptDisjoint, KeptBusy DEF SendDone, storeVars
<1>8. SessionsOK'
  BY DEF SessionsOK, SendDone, storeVars, eventVars, Fresh
<1>9. DoneMeansLanded'
  BY <1>2, <1>4a DEF DoneMeansLanded, ClaimsOK, SendDone, storeVars, Uploading, Receiving
<1>. QED
  BY <1>1, <1>5, <1>6, <1>7, <1>8, <1>9

\* Error is sent.
LEMMA SendErrorIInv ==
  ASSUME NEW h \in Handler, IInv, SendError(h)
  PROVE  IInv'
<1>. USE DEF IInv
<1>1. TypeOK'
  BY UploadSessionsAssumption
     DEF TypeOK, SendError, Send, Goto, PC, Uploading, Receiving, storeVars, eventVars
<1>2. pc[h] = "failed" /\ pc'[h] = "ending" /\ sid'[h] = sid[h] /\ want'[h] = want[h]
  BY DEF TypeOK, SendError, Goto
<1>3. \A g \in Handler : g # h =>
        pc'[g] = pc[g] /\ sid'[g] = sid[g] /\ want'[g] = want[g]
  BY DEF TypeOK, SendError, Goto
<1>4. ClaimsKept
  BY <1>2, <1>3 DEF ClaimsKept, Uploading, Receiving
<1>4a. \A k \in Session \X File : row'[k] =
         IF k[1] = sid[h] /\ k[2] \in want[h] THEN "failed" ELSE row[k]
  BY DEF SendError, Send, TypeOK
<1>5. HandlersOK'
  BY <1>2, <1>3 DEF HandlersOK, SendError, storeVars, Uploading, Receiving
<1>6. ClaimsOK'
  BY <1>2, <1>3, <1>4a DEF ClaimsOK, ClaimsDisjoint, HandlersOK, SendError, storeVars, Uploading, Receiving
<1>7. ClaimsDisjoint' /\ BusyOK'
  BY <1>4, KeptDisjoint, KeptBusy DEF SendError, storeVars
<1>8. SessionsOK'
  BY DEF SessionsOK, SendError, storeVars, eventVars, Fresh
<1>9. DoneMeansLanded'
  BY <1>2, <1>4a DEF DoneMeansLanded, ClaimsOK, SendError, storeVars, Uploading, Receiving
<1>. QED
  BY <1>1, <1>5, <1>6, <1>7, <1>8, <1>9

\* complete: the file is marked done under the claim, which stays until
\* endUpload; with the last file the session leaves the store.
LEMMA CompleteIInv ==
  ASSUME NEW h \in Handler, IInv, Complete(h)
  PROVE  IInv'
<1>. USE DEF IInv
<1>0. PICK f \in files[sid[h]] :
        sid[h] \in Session /\ want[h] = {f} /\ f \in File /\ <<sid[h], f>> \in landed
  BY DEF HandlersOK, ClaimsOK, Complete, TypeOK, Uploading, Receiving
<1>1. TypeOK'
  BY <1>0 DEF TypeOK, Complete, MarkDone, Goto, PC, Uploading, eventVars
<1>2. pc[h] = "completing" /\ pc'[h] = "ending" /\ sid'[h] = sid[h] /\ want'[h] = want[h]
  BY DEF TypeOK, Complete, Goto
<1>3. \A g \in Handler : g # h =>
        pc'[g] = pc[g] /\ sid'[g] = sid[g] /\ want'[g] = want[g]
  BY DEF TypeOK, Complete, Goto
<1>4. ClaimsKept
  BY <1>2, <1>3 DEF ClaimsKept, Uploading, Receiving
<1>5. /\ sessions' \subseteq sessions
      /\ \A s \in Session : done[s] \subseteq done'[s]
      /\ sid[h] \in sessions => f \in done'[sid[h]]
      /\ \A s \in Session, e \in File :
           e \in done'[s] => e \in done[s] \/ (s = sid[h] /\ e = f)
  BY <1>0 DEF Complete, MarkDone, TypeOK
<1>6. HandlersOK'
  BY <1>2, <1>3 DEF HandlersOK, Complete, Uploading, Receiving
<1>7. ClaimsOK'
  BY <1>0, <1>2, <1>3, <1>5
     DEF ClaimsOK, HandlersOK, Complete, eventVars, Uploading, Receiving
<1>8. ClaimsDisjoint' /\ BusyOK'
  BY <1>4, <1>5, KeptDisjoint, KeptBusy DEF Complete
<1>9. SessionsOK'
  <2>1. UNCHANGED <<files, active, inflight, landed>>
    BY DEF Complete
  <2>2. \A s \in Fresh : s # sid[h] /\ done'[s] = {}
    <3>1. sid[h] \notin Fresh
      BY <1>0 DEF Fresh
    <3>. QED
      BY <3>1, <1>5 DEF SessionsOK, Fresh, TypeOK, Complete, MarkDone
  <2>3. \A s \in sessions', e \in File :
          <<s, e>> \in landed => e \in done'[s] \/ e \in inflight[s]
    BY <1>5 DEF SessionsOK, TypeOK
  <2>. QED
    BY <1>5, <2>1, <2>2, <2>3 DEF SessionsOK, Fresh
<1>10. DoneMeansLanded'
  BY <1>0, <1>5 DEF DoneMeansLanded, Complete, eventVars
<1>. QED
  BY <1>1, <1>6, <1>7, <1>8, <1>9, <1>10

\* endUpload: the goroutine gives back its claim and is counted off.
LEMMA EndUploadIInv ==
  ASSUME NEW h \in Handler, IInv, EndUpload(h)
  PROVE  IInv'
<1>. USE DEF IInv
<1>0. PICK f \in files[sid[h]] : sid[h] \in Session /\ want[h] = {f} /\ f \in File
  BY DEF HandlersOK, EndUpload, TypeOK, Uploading
<1>1. TypeOK'
  <2>1. active' \in [Session -> Nat]
    BY <1>0 DEF TypeOK, EndUpload, Release
  <2>. QED
    BY <1>0, <2>1, UploadSessionsAssumption
       DEF TypeOK, EndUpload, Release, Touch, Finish, Goto, PC, eventVars
<1>2. pc[h] = "ending" /\ pc'[h] = "idle"
  BY DEF TypeOK, EndUpload, Finish, Goto
<1>3. \A g \in Handler : g # h =>
        pc'[g] = pc[g] /\ sid'[g] = sid[g] /\ want'[g] = want[g]
  BY DEF TypeOK, EndUpload, Finish, Goto
<1>4. HandlersOK'
  BY <1>2, <1>3 DEF HandlersOK, EndUpload, Uploading, Receiving
<1>5. ClaimsOK'
  BY <1>2, <1>3 DEF ClaimsOK, EndUpload, eventVars, Uploading, Receiving
<1>6. ClaimsDisjoint'
  BY <1>2, <1>3 DEF ClaimsDisjoint, Uploading, Receiving
<1>7. SessionsOK'
  <2>1. sid[h] \in sessions /\ <<sid[h], f>> \in landed => f \in done[sid[h]]
    BY <1>0, <1>2 DEF ClaimsOK, Uploading
  <2>2. \A s \in Session : s # sid[h] => active'[s] = active[s] /\ inflight'[s] = inflight[s]
    BY DEF EndUpload, Release, TypeOK
  <2>3. \A e \in File : e \in inflight[sid[h]] /\ e # f => e \in inflight'[sid[h]]
    BY <1>0 DEF EndUpload, Release, TypeOK
  <2>4. sid[h] \notin Fresh
    BY <1>0 DEF Fresh
  <2>. QED
    BY <1>0, <2>1, <2>2, <2>3, <2>4 DEF SessionsOK, EndUpload, eventVars, Fresh, TypeOK
<1>8. BusyOK'
  <2>. SUFFICES ASSUME NEW r \in sessions
                PROVE  /\ IsFiniteSet(Uploaders(r)')
                       /\ active'[r] = Cardinality(Uploaders(r)')
                       /\ \A e \in File : e \in inflight'[r] <=>
                            \E g \in Uploaders(r)' : e \in want'[g]
    BY DEF BusyOK, EndUpload
  <2>1. CASE r = sid[h]
    <3>1. Uploaders(r)' = Uploaders(r) \ {h} /\ h \in Uploaders(r)
      BY <1>2, <1>3, <2>1 DEF Uploaders, Uploading, Receiving
    <3>2. IsFiniteSet(Uploaders(r)) /\ active[r] = Cardinality(Uploaders(r))
      BY DEF BusyOK
    <3>3. /\ IsFiniteSet(Uploaders(r) \ {h})
          /\ Cardinality(Uploaders(r) \ {h}) = Cardinality(Uploaders(r)) - 1
      BY <3>1, <3>2, FS_RemoveElement
    <3>4. Cardinality(Uploaders(r)) \in Nat /\ Cardinality(Uploaders(r) \ {h}) \in Nat
      BY <3>2, <3>3, FS_CardinalityType
    <3>5. active'[r] = active[r] - 1 /\ inflight'[r] = inflight[r] \ {f}
      BY <1>0, <2>1, <3>2, <3>3, <3>4 DEF EndUpload, Release, TypeOK
    <3>6. \A g \in Uploaders(r) : g # h => want'[g] = want[g] /\ f \notin want[g]
      BY <1>0, <1>2, <1>3, <2>1 DEF Uploaders, ClaimsDisjoint, Uploading
    <3>7. \A e \in File : e \in inflight[r] <=> \E g \in Uploaders(r) : e \in want[g]
      BY DEF BusyOK
    <3>8. \A e \in File : e \in inflight'[r] <=>
                            \E g \in Uploaders(r)' : e \in want'[g]
      BY <1>0, <3>1, <3>5, <3>6, <3>7
    <3>. QED
      BY <3>1, <3>2, <3>3, <3>5, <3>8
  <2>2. CASE r # sid[h]
    <3>1. Uploaders(r)' = Uploaders(r) /\ h \notin Uploaders(r)
      BY <1>2, <1>3, <2>2 DEF Uploaders, Uploading, Receiving
    <3>2. active'[r] = active[r] /\ inflight'[r] = inflight[r]
      BY <2>2 DEF EndUpload, Release, TypeOK
    <3>3. \A g \in Uploaders(r) : want'[g] = want[g]
      BY <1>3, <3>1 DEF Uploaders
    <3>. QED
      BY <3>1, <3>2, <3>3 DEF BusyOK
  <2>. QED
    BY <2>1, <2>2
<1>9. DoneMeansLanded'
  BY DEF DoneMeansLanded, EndUpload, eventVars
<1>. QED
  BY <1>1, <1>4, <1>5, <1>6, <1>7, <1>8, <1>9

\* prepare-upload: the sweep only takes sessions away.
LEMMA BeginCreateIInv ==
  ASSUME NEW h \in Handler, NEW newFiles \in SUBSET File, IInv, BeginCreate(h, newFiles)
  PROVE  IInv'
<1>. USE DEF IInv
<1>1. TypeOK'
  BY DEF TypeOK, BeginCreate, Sweep, Goto, PC, eventVars
<1>2. /\ pc[h] = "idle" /\ pc'[h] = "insert" /\ want'[h] = newFiles /\ newFiles # {}
      /\ sid' = sid /\ sessions' \subseteq sessions
  BY DEF TypeOK, BeginCreate, Sweep, Goto
<1>3. \A g \in Handler : g # h => pc'[g] = pc[g] /\ want'[g] = want[g]
  BY DEF TypeOK, BeginCreate, Goto
<1>4. ClaimsKept
  BY <1>2, <1>3 DEF ClaimsKept, Uploading, Receiving
<1>5. HandlersOK'
  BY <1>2, <1>3 DEF HandlersOK, BeginCreate, Uploading, Receiving
<1>6. ClaimsOK'
  BY <1>2, <1>3 DEF ClaimsOK, BeginCreate, eventVars, Uploading, Receiving
<1>7. ClaimsDisjoint' /\ BusyOK'
  BY <1>2, <1>4, KeptDisjoint, KeptBusy DEF BeginCreate
<1>8. SessionsOK' /\ DoneMeansLanded'
  BY <1>2 DEF SessionsOK, DoneMeansLanded, BeginCreate, eventVars, Fresh
<1>. QED
  BY <1>1, <1>5, <1>6, <1>7, <1>8

\* create: the id is fresh, so nobody works on the new session yet.
LEMMA CreateIInv ==
  ASSUME NEW h \in Handler, IInv, Create(h)
  PROVE  IInv'
<1>. USE DEF IInv
<1>1. /\ pc[h] = "insert" /\ pc'[h] = "idle" /\ want[h] # {} /\ want[h] \subseteq File
      /\ \A g \in Handler : g # h =>
           pc'[g] = pc[g] /\ sid'[g] = sid[g] /\ want'[g] = want[g]
  BY DEF TypeOK, HandlersOK, Create, Finish, Goto
<1>2. ClaimsKept
  BY <1>1 DEF ClaimsKept, Uploading, Receiving
<1>3. UNCHANGED <<active, inflight, done, landed, row>>
  BY DEF Create, eventVars
<1>4. CASE Full(want[h])
  <2>1. UNCHANGED <<sessions, files, idle>>
    BY <1>4 DEF Create
  <2>2. TypeOK'
    BY <2>1 DEF TypeOK, Create, Finish, Goto, PC, eventVars
  <2>3. HandlersOK' /\ ClaimsOK'
    BY <1>1, <1>3, <2>1 DEF HandlersOK, ClaimsOK, Uploading, Receiving
  <2>4. ClaimsDisjoint' /\ BusyOK'
    BY <1>2, <1>3, <2>1, KeptDisjoint, KeptBusy
  <2>5. SessionsOK' /\ DoneMeansLanded'
    BY <1>3, <2>1 DEF SessionsOK, DoneMeansLanded, Fresh
  <2>. QED
    BY <2>2, <2>3, <2>4, <2>5
<1>5. CASE ~Full(want[h])
  <2>. PICK s \in Fresh : Insert(s, want[h])
    BY <1>5 DEF Create
  <2>1. /\ s \in Session /\ files[s] = {}
        /\ sessions' = sessions \cup {s}
        /\ files' = [files EXCEPT ![s] = want[h]]
    BY DEF Fresh, Insert
  <2>2. TypeOK'
    BY <1>1, <2>1, UploadSessionsAssumption
       DEF TypeOK, Create, Insert, Finish, Goto, PC, eventVars
  <2>3. Uploaders(s) = {}
    BY <2>1 DEF Uploaders, HandlersOK
  <2>4. /\ files'[s] = want[h]
        /\ \A r \in Session : r # s => files'[r] = files[r]
    BY <2>1 DEF TypeOK
  <2>5. HandlersOK'
    <3>1. \A g \in Handler : pc[g] \in Uploading => sid[g] # s
      BY <2>3 DEF Uploaders
    <3>. QED
      BY <1>1, <2>1, <2>4, <3>1 DEF HandlersOK, Uploading, Receiving
  <2>6. ClaimsOK'
    <3>1. \A g \in Handler : pc[g] \in Uploading => sid[g] # s
      BY <2>3 DEF Uploaders
    <3>. QED
      BY <1>1, <1>3, <2>1, <3>1 DEF ClaimsOK, Uploading, Receiving
  <2>7. ClaimsDisjoint'
    BY <1>2, KeptDisjoint
  <2>8. BusyOK'
    <3>. SUFFICES ASSUME NEW r \in sessions'
                  PROVE  /\ IsFiniteSet(Uploaders(r)')
                         /\ active'[r] = Cardinality(Uploaders(r)')
                         /\ \A f \in File : f \in inflight'[r] <=>
                              \E g \in Uploaders(r)' : f \in want'[g]
      BY DEF BusyOK
    <3>1. /\ Uploaders(r)' = Uploaders(r)
          /\ \A g \in Uploaders(r) : want'[g] = want[g]
      BY <1>2, KeptUploaders
    <3>2. CASE r = s
      BY <1>3, <2>1, <2>3, <3>1, <3>2, FS_EmptySet DEF SessionsOK
    <3>3. CASE r \in sessions
      BY <1>3, <3>1, <3>3 DEF BusyOK
    <3>. QED
      BY <2>1, <3>2, <3>3
  <2>9. SessionsOK' /\ DoneMeansLanded'
    BY <1>1, <1>3, <2>1, <2>4 DEF SessionsOK, DoneMeansLanded, Fresh
  <2>. QED
    BY <2>2, <2>5, <2>6, <2>7, <2>8, <2>9
<1>. QED
  BY <1>4, <1>5

\* cancel: the session goes; its uploads keep their claims until they end.
LEMMA CancelIInv ==
  ASSUME NEW h \in Handler, NEW s \in Session, IInv, Cancel(h, s)
  PROVE  IInv'
<1>. USE DEF IInv
<1>1. TypeOK'
  BY DEF TypeOK, Cancel, Goto, PC, eventVars
<1>2. /\ pc[h] = "idle" /\ pc'[h] \in {"aborting", "announce"} /\ sid'[h] = s
      /\ want' = want /\ sessions' \subseteq sessions
  BY DEF TypeOK, Cancel, Goto
<1>3. \A g \in Handler : g # h => pc'[g] = pc[g] /\ sid'[g] = sid[g]
  BY DEF TypeOK, Cancel, Goto
<1>4. ClaimsKept
  BY <1>2, <1>3 DEF ClaimsKept, Uploading, Receiving
<1>5. HandlersOK'
  BY <1>2, <1>3 DEF HandlersOK, Cancel, Uploading, Receiving
<1>6. ClaimsOK'
  BY <1>2, <1>3 DEF ClaimsOK, Cancel, eventVars, Uploading, Receiving
<1>7. ClaimsDisjoint' /\ BusyOK'
  BY <1>2, <1>4, KeptDisjoint, KeptBusy DEF Cancel
<1>8. SessionsOK' /\ DoneMeansLanded'
  BY <1>2 DEF SessionsOK, DoneMeansLanded, Cancel, eventVars, Fresh
<1>. QED
  BY <1>1, <1>5, <1>6, <1>7, <1>8

\* The two steps that end a cancel request.
LEMMA EndCancelIInv ==
  ASSUME NEW h \in Handler, IInv, EndContext(h) \/ SendCancel(h)
  PROVE  IInv'
<1>. USE DEF IInv
<1>1. TypeOK'
  <2>1. CASE EndContext(h)
    BY <2>1 DEF TypeOK, HandlersOK, EndContext, Goto, PC, eventVars
  <2>2. CASE SendCancel(h)
    BY <2>2, UploadSessionsAssumption
       DEF TypeOK, SendCancel, Finish, Goto, PC, storeVars
  <2>. QED
    BY <2>1, <2>2
<1>2. /\ pc[h] \notin Uploading /\ pc'[h] \in {"announce", "idle"}
      /\ \A g \in Handler : g # h =>
           pc'[g] = pc[g] /\ sid'[g] = sid[g] /\ want'[g] = want[g]
  BY DEF TypeOK, EndContext, SendCancel, Finish, Goto, Uploading, Receiving
<1>3. UNCHANGED <<sessions, files, done, inflight, active, landed, row>>
  BY DEF EndContext, SendCancel, storeVars, eventVars
<1>4. ClaimsKept
  BY <1>2 DEF ClaimsKept, Uploading, Receiving
<1>5. HandlersOK' /\ ClaimsOK'
  BY <1>2, <1>3 DEF HandlersOK, ClaimsOK, Uploading, Receiving
<1>6. ClaimsDisjoint' /\ BusyOK'
  BY <1>3, <1>4, KeptDisjoint, KeptBusy
<1>7. SessionsOK' /\ DoneMeansLanded'
  BY <1>3 DEF SessionsOK, DoneMeansLanded, Fresh
<1>. QED
  BY <1>1, <1>5, <1>6, <1>7

\* Steps that touch neither goroutines nor claims, and stuttering.
LEMMA QuietIInv ==
  ASSUME IInv, (\E h \in Handler : Progress(h)) \/ Pump \/ Tick \/ UNCHANGED vars
  PROVE  IInv'
<1>. USE DEF IInv
<1>1. UNCHANGED <<handlerVars, sessions, files, done, inflight, active, landed, row>>
  BY DEF Progress, Pump, Tick, vars, storeVars, eventVars
<1>2. TypeOK'
  <2>1. cancelled' = cancelled
    BY DEF Progress, Pump, Tick, vars, storeVars
  <2>2. queued' \in 0 .. TransferCap
    BY UploadSessionsAssumption DEF TypeOK, Progress, Pump, Tick, vars, eventVars
  <2>3. idle' \in [Session -> 0 .. SessionTTL + 1]
    <3>1. CASE Tick
      BY <3>1, UploadSessionsAssumption DEF TypeOK, Tick
    <3>2. CASE idle' = idle
      BY <3>2 DEF TypeOK
    <3>. QED
      BY <3>1, <3>2 DEF Progress, Pump, vars, storeVars
  <2>. QED
    BY <1>1, <2>1, <2>2, <2>3 DEF TypeOK, handlerVars
<1>3. ClaimsKept
  BY <1>1 DEF ClaimsKept, handlerVars
<1>4. HandlersOK' /\ ClaimsOK'
  BY <1>1 DEF HandlersOK, ClaimsOK, handlerVars
<1>5. ClaimsDisjoint' /\ BusyOK'
  BY <1>1, <1>3, KeptDisjoint, KeptBusy
<1>6. SessionsOK' /\ DoneMeansLanded'
  BY <1>1 DEF SessionsOK, DoneMeansLanded, Fresh
<1>. QED
  BY <1>2, <1>4, <1>5, <1>6

-----------------------------------------------------------------------------
(* The theorems. *)

\* Every step, by whichever goroutine, keeps the invariant.
LEMMA NextIInv == IInv /\ [Next]_vars => IInv'
<1>. SUFFICES ASSUME IInv, [Next]_vars PROVE IInv'
  OBVIOUS
<1>1. CASE UNCHANGED vars \/ Pump \/ Tick
  BY <1>1, QuietIInv
<1>2. ASSUME NEW h \in Handler, HandlerStep(h) PROVE IInv'
  BY <1>2, QuietIInv, CreateIInv, StartIInv, ReadEOFIInv, RenameIInv, FailIInv,
     SendDoneIInv, CompleteIInv, SendErrorIInv, EndUploadIInv, EndCancelIInv
     DEF HandlerStep
<1>3. ASSUME NEW h \in Handler, Request(h) PROVE IInv'
  BY <1>3, BeginCreateIInv, ClaimIInv, CancelIInv DEF Request
<1>. QED
  BY <1>1, <1>2, <1>3 DEF Next

\* The inductive invariant holds throughout.
LEMMA Invariance == Spec => []IInv
BY InitIInv, NextIInv, PTL DEF Spec

\* Every variable keeps its type: in particular a busy counter never goes
\* below zero and the transfers channel never holds more than its capacity.
THEOREM TypeCorrect == Spec => []TypeOK
<1>1. IInv => TypeOK
  BY DEF IInv
<1>. QED
  BY <1>1, Invariance, PTL

\* No file of a session is ever received by two goroutines, or again once it
\* is in place (claim, endUpload and complete in session.go).
THEOREM SingleReceiverHolds == Spec => []SingleReceiver
<1>1. IInv => SingleReceiver
  BY DEF IInv, SingleReceiver, ClaimsDisjoint, ClaimsOK, Receiving, Uploading
<1>. QED
  BY <1>1, Invariance, PTL

\* The busy mark that protects a session from the sweep is exact.
THEOREM BusyMarkIsExact == Spec => []BusyMarkExact
<1>1. ASSUME IInv PROVE BusyMarkExact
  <2>. SUFFICES ASSUME NEW s \in sessions
                PROVE  inflight[s] = UNION {want[h] : h \in Uploaders(s)}
    BY <1>1 DEF IInv, BusyOK, BusyMarkExact
  <2>1. inflight[s] \subseteq File /\ \A h \in Uploaders(s) : want[h] \subseteq File
    BY <1>1 DEF IInv, TypeOK, Uploaders
  <2>2. \A f \in File : f \in inflight[s] <=> \E h \in Uploaders(s) : f \in want[h]
    BY <1>1 DEF IInv, BusyOK
  <2>. QED
    BY <2>1, <2>2
<1>. QED
  BY <1>1, Invariance, PTL

\* A file is marked or reported done only when it has its final name.
THEOREM DoneMeansLandedHolds == Spec => []DoneMeansLanded
<1>1. IInv => DoneMeansLanded
  BY DEF IInv
<1>. QED
  BY <1>1, Invariance, PTL

\* A session leaves the store only cancelled, complete, or idle past the TTL
\* with nobody uploading.
THEOREM SessionsEndOnlyForAReason == Spec => SessionsEndForAReason
<1>1. ASSUME IInv, Next, NEW s \in sessions \ sessions'
      PROVE  \/ \E h \in Handler : Cancel(h, s)
             \/ {s} \X files[s] \subseteq landed
             \/ idle[s] > SessionTTL /\ Uploaders(s) = {}
  <2>1. CASE \E h \in Handler, newFiles \in SUBSET File : BeginCreate(h, newFiles)
    <3>1. active[s] = 0 /\ idle[s] > SessionTTL
      BY <1>1, <2>1 DEF BeginCreate, Sweep, Expired
    <3>2. IsFiniteSet(Uploaders(s)) /\ Cardinality(Uploaders(s)) = 0
      BY <1>1, <3>1 DEF IInv, BusyOK
    <3>3. Uploaders(s) = {}
      BY <3>2, FS_EmptySet
    <3>. QED
      BY <3>1, <3>3
  <2>2. CASE \E h \in Handler, r \in Session : Cancel(h, r)
    <3>. PICK h \in Handler, r \in Session : Cancel(h, r)
      BY <2>2
    <3>1. r = s
      BY <1>1 DEF Cancel
    <3>. QED
      BY <3>1
  <2>3. CASE \E h \in Handler : Complete(h)
    <3>. PICK h \in Handler : Complete(h)
      BY <2>3
    <3>1. s = sid[h] /\ files[s] \subseteq done[s] \cup want[h]
      BY <1>1 DEF Complete, MarkDone
    <3>2. \A f \in want[h] : f \in File => <<s, f>> \in landed
      BY <1>1, <3>1 DEF IInv, ClaimsOK, Complete, Uploading
    <3>3. \A f \in files[s] : <<s, f>> \in landed
      BY <1>1, <3>1, <3>2 DEF IInv, TypeOK, DoneMeansLanded
    <3>4. {s} \X files[s] \subseteq landed
      BY <3>3
    <3>. QED
      BY <3>4
  <2>4. CASE \E h \in Handler : HandlerStep(h) /\ ~Complete(h)
    BY <1>1, <2>4 DEF HandlerStep, Create, Insert, Start, Progress, ReadEOF,
       Rename, Fail, SendDone, SendError, EndUpload, EndContext, SendCancel, storeVars
  <2>5. CASE Pump \/ Tick \/ \E h \in Handler, r \in Session, f \in File : Claim(h, r, f)
    BY <1>1, <2>5 DEF Pump, Tick, Claim, storeVars
  <2>. QED
    BY <1>1, <2>1, <2>2, <2>3, <2>4, <2>5 DEF Next, Request
<1>2. IInv /\ [Next]_vars => [EndsForAReason]_vars
  BY <1>1 DEF EndsForAReason
<1>. QED
  BY <1>2, Invariance, PTL DEF Spec, SessionsEndForAReason

\* FileDone ends a row for good, and always after a Start.
THEOREM RowsEndOnlyOnce == Spec => RowsEndOnce
<1>1. ASSUME IInv, Next, NEW h \in Handler, Start(h) \/ SendError(h) \/ SendDone(h)
      PROVE  RowStepOK
  <2>. SUFFICES ASSUME NEW k \in Session \X File
                PROVE  /\ row[k] = "done" => row'[k] = "done"
                       /\ row'[k] = "done" => row[k] \in {"start", "done"}
    BY DEF RowStepOK
  <2>1. CASE k[1] = sid[h] /\ k[2] \in want[h]
    <3>1. k = <<sid[h], k[2]>> /\ k[2] \in File
      BY <2>1
    <3>2. Start(h) \/ SendError(h) => k \notin landed /\ row'[k] # "done"
      BY <1>1, <2>1, <3>1
         DEF IInv, TypeOK, ClaimsOK, Start, SendError, Send, Uploading, Receiving
    <3>3. SendDone(h) => row[k] = "start" /\ row'[k] = "done"
      BY <1>1, <2>1, <3>1
         DEF IInv, TypeOK, ClaimsOK, SendDone, Send, Uploading, Receiving
    <3>. QED
      BY <1>1, <3>2, <3>3 DEF IInv, DoneMeansLanded
  <2>2. CASE ~(k[1] = sid[h] /\ k[2] \in want[h])
    <3>1. row'[k] = row[k]
      BY <1>1, <2>2 DEF IInv, TypeOK, Start, SendError, SendDone, Send
    <3>. QED
      BY <3>1
  <2>. QED
    BY <2>1, <2>2
<1>2. ASSUME row' = row PROVE RowStepOK
  BY <1>2 DEF RowStepOK
<1>3. ASSUME IInv, Next PROVE RowStepOK
  BY <1>1, <1>2, <1>3
     DEF Next, HandlerStep, Request, Create, Progress, ReadEOF, Rename, Fail,
         Complete, EndUpload, EndContext, SendCancel, BeginCreate, Claim,
         Cancel, Pump, Tick, eventVars
<1>4. IInv /\ [Next]_vars => [RowStepOK]_vars
  BY <1>3
<1>. QED
  BY <1>4, Invariance, PTL DEF Spec, RowsEndOnce

-----------------------------------------------------------------------------
(* The caps. *)

\* What create's check needs: the sets it counts are finite.
CapsIInv ==
  /\ IsFiniteSet(sessions)
  /\ CapsHold

\* Entries is finite whenever the store is: File is, and an entry is a pair.
LEMMA EntriesFinite ==
  ASSUME IsFiniteSet(sessions)
  PROVE  IsFiniteSet(Entries) /\ Cardinality(Entries) \in Nat
<1>1. IsFiniteSet(sessions \X File)
  BY FS_Product, UploadSessionsAssumption
<1>2. Entries \subseteq sessions \X File
  BY DEF Entries
<1>. QED
  BY <1>1, <1>2, FS_Subset, FS_CardinalityType

\* Taking sessions away frees room under both caps.
LEMMA ShrinkCaps ==
  ASSUME TypeOK, CapsIInv, sessions' \subseteq sessions, files' = files
  PROVE  CapsIInv'
<1>1. IsFiniteSet(sessions') /\ Cardinality(sessions') <= Cardinality(sessions)
  BY FS_Subset DEF CapsIInv
<1>2. IsFiniteSet(Entries) /\ Entries' \subseteq Entries
  BY EntriesFinite DEF CapsIInv, Entries
<1>3. Cardinality(Entries') <= Cardinality(Entries)
  BY <1>2, FS_Subset
<1>4. /\ Cardinality(sessions) \in Nat /\ Cardinality(sessions') \in Nat
      /\ Cardinality(Entries) \in Nat /\ Cardinality(Entries') \in Nat
  BY <1>1, <1>2, FS_Subset, FS_CardinalityType DEF CapsIInv
<1>. QED
  BY <1>1, <1>3, <1>4, UploadSessionsAssumption DEF CapsIInv, CapsHold

\* create checks both caps in the hold of the lock that inserts.
LEMMA CreateCaps ==
  ASSUME NEW h \in Handler, IInv, CapsIInv, Create(h)
  PROVE  CapsIInv'
<1>1. CASE Full(want[h])
  BY <1>1, ShrinkCaps DEF Create, IInv
<1>2. CASE ~Full(want[h])
  <2>. PICK s \in Fresh : Insert(s, want[h])
    BY <1>2 DEF Create
  <2>1. /\ s \in Session /\ files[s] = {} /\ s \notin sessions
        /\ sessions' = sessions \cup {s}
        /\ files' = [files EXCEPT ![s] = want[h]]
        /\ want[h] \subseteq File
    BY DEF Fresh, Insert, IInv, SessionsOK, TypeOK
  <2>2. /\ IsFiniteSet(sessions)
        /\ Cardinality(sessions) \in Nat
        /\ Cardinality(sessions) < MaxSessions
    BY <1>2, FS_CardinalityType, UploadSessionsAssumption DEF CapsIInv, Full
  <2>3. IsFiniteSet(sessions') /\ Cardinality(sessions') = Cardinality(sessions) + 1
    BY <2>1, <2>2, FS_AddElement
  <2>4. IsFiniteSet(want[h]) /\ Cardinality(want[h]) \in Nat
    BY <2>1, FS_Subset, FS_CardinalityType, UploadSessionsAssumption
  <2>5. IsFiniteSet({s} \X want[h]) /\ Cardinality({s} \X want[h]) = Cardinality(want[h])
    <3>1. IsFiniteSet({s}) /\ Cardinality({s}) = 1
      BY FS_Singleton
    <3>2. /\ IsFiniteSet({s} \X want[h])
          /\ Cardinality({s} \X want[h]) = 1 * Cardinality(want[h])
      BY <2>4, <3>1, FS_Product
    <3>. QED
      BY <2>4, <3>2
  <2>6. IsFiniteSet(Entries) /\ Cardinality(Entries) \in Nat
    BY <2>2, EntriesFinite
  <2>7. Entries' = Entries \cup ({s} \X want[h])
    BY <2>1 DEF Entries, IInv, TypeOK
  <2>8. Entries \cap ({s} \X want[h]) = {}
    BY <2>1 DEF Entries
  <2>9. Cardinality(Entries') = Cardinality(Entries) + Cardinality(want[h])
    <3>1. Cardinality({}) = 0
      BY FS_EmptySet
    <3>2. Cardinality(Entries') = Cardinality(Entries) + Cardinality({s} \X want[h])
                                    - Cardinality({})
      BY <2>5, <2>6, <2>7, <2>8, FS_Union
    <3>. QED
      BY <2>4, <2>5, <2>6, <3>1, <3>2
  <2>10. Cardinality(Entries) + Cardinality(want[h]) <= MaxSessionFiles
    BY <1>2, <2>4, <2>6, UploadSessionsAssumption DEF Full
  <2>. QED
    BY <2>2, <2>3, <2>9, <2>10, UploadSessionsAssumption DEF CapsIInv, CapsHold
<1>. QED
  BY <1>1, <1>2

\* However many prepare-uploads check and insert at once, the store never
\* holds more sessions, or more entries in all, than the limits of session.go.
THEOREM CapsAreKept == Spec => []CapsHold
<1>1. Init => CapsIInv
  <2>. SUFFICES ASSUME Init PROVE CapsIInv
    OBVIOUS
  <2>1. sessions = {} /\ Entries = {}
    BY DEF Init, Entries
  <2>2. IsFiniteSet({}) /\ Cardinality({}) = 0
    BY FS_EmptySet
  <2>. QED
    BY <2>1, <2>2, UploadSessionsAssumption DEF CapsIInv, CapsHold
<1>2. ASSUME IInv, CapsIInv, [Next]_vars PROVE CapsIInv'
  <2>1. CASE \E h \in Handler : Create(h)
    BY <1>2, <2>1, CreateCaps
  <2>2. CASE ~\E h \in Handler : Create(h)
    <3>1. sessions' \subseteq sessions /\ files' = files
      BY <1>2, <2>2
         DEF Next, HandlerStep, Request, Start, Progress, ReadEOF, Rename, Fail,
             SendDone, SendError, EndUpload, EndContext, SendCancel, BeginCreate,
             Sweep, Claim, Cancel, Complete, MarkDone, Pump, Tick, vars, storeVars
    <3>. QED
      BY <1>2, <3>1, ShrinkCaps DEF IInv
  <2>. QED
    BY <2>1, <2>2
<1>3. CapsIInv => CapsHold
  BY DEF CapsIInv
<1>. QED
  BY <1>1, <1>2, <1>3, Invariance, PTL DEF Spec

-----------------------------------------------------------------------------
(* The server implements FileDelivery. *)

\* The abstract status of every file, as the refinement maps it.
Statuses == [s \in Session |-> [f \in File |-> FileStatus(s, f)]]

\* Steps that move no goroutine into or out of writeFile, put nothing in
\* place and declare nothing leave every file's status alone.
LEMMA StatusKept ==
  ASSUME landed' = landed, files' = files,
         \A g \in Handler :
           /\ pc'[g] \in Receiving <=> pc[g] \in Receiving
           /\ pc[g] \in Receiving => sid'[g] = sid[g] /\ want'[g] = want[g]
  PROVE  Statuses' = Statuses
<1>1. ASSUME NEW s \in Session, NEW f \in File
      PROVE  FileStatus(s, f)' = FileStatus(s, f)
  <2>1. Attempted(s, f)' <=> Attempted(s, f)
    BY DEF Attempted
  <2>. QED
    BY <2>1 DEF FileStatus
<1>. QED
  BY <1>1 DEF Statuses

\* A step that moves the status of one file only.
LEMMA OneStatus ==
  ASSUME NEW s \in Session, NEW f \in File, NEW x,
         FileStatus(s, f)' = x,
         \A r \in Session, e \in File :
           <<r, e>> # <<s, f>> => FileStatus(r, e)' = FileStatus(r, e)
  PROVE  Statuses' = [Statuses EXCEPT ![s][f] = x]
BY DEF Statuses

\* While a goroutine is in writeFile with a file, that file is the only one
\* it has and no other goroutine has it.
LEMMA OnlyAttempt ==
  ASSUME IInv, NEW h \in Handler, pc[h] \in Receiving
  PROVE  \E f \in File :
           /\ want[h] = {f} /\ sid[h] \in Session /\ f \in files[sid[h]]
           /\ <<sid[h], f>> \notin landed
           /\ \A g \in Handler : g # h /\ pc[g] \in Receiving /\ sid[g] = sid[h]
                                   => f \notin want[g]
BY DEF IInv, TypeOK, HandlersOK, ClaimsOK, ClaimsDisjoint, Uploading

\* claim begins an attempt: its guard (not in flight, not done) says that the
\* file is offered.
LEMMA ClaimDelivers ==
  ASSUME NEW h \in Handler, NEW s \in Session, NEW f \in File,
         IInv, Claim(h, s, f)
  PROVE  Delivery!Attempt(s, f)
<1>1. /\ pc[h] = "idle" /\ pc'[h] = "claimed" /\ sid'[h] = s /\ want'[h] = {f}
      /\ \A g \in Handler : g # h =>
           pc'[g] = pc[g] /\ sid'[g] = sid[g] /\ want'[g] = want[g]
  BY DEF IInv, TypeOK, Claim, Goto
<1>2. /\ s \in sessions /\ f \in files[s] /\ f \notin inflight[s] /\ f \notin done[s]
      /\ UNCHANGED <<sessions, files, landed>>
  BY DEF Claim, Claimable
<1>3. <<s, f>> \notin landed
  BY <1>2 DEF IInv, SessionsOK
<1>4. ~Attempted(s, f)
  BY <1>2 DEF IInv, BusyOK, Attempted, Uploaders, Uploading
<1>5. FileStatus(s, f) = "offered"
  BY <1>2, <1>3, <1>4 DEF FileStatus
<1>6. FileStatus(s, f)' = "attempted"
  BY <1>1 DEF FileStatus, Attempted, Receiving
<1>7. ASSUME NEW r \in Session, NEW e \in File, <<r, e>> # <<s, f>>
      PROVE  FileStatus(r, e)' = FileStatus(r, e)
  <2>1. Attempted(r, e)' <=> Attempted(r, e)
    BY <1>1, <1>7 DEF Attempted, Receiving
  <2>. QED
    BY <1>2, <2>1 DEF FileStatus
<1>8. Statuses' = [Statuses EXCEPT ![s][f] = "attempted"]
  BY <1>6, <1>7, OneStatus
<1>. QED
  BY <1>2, <1>5, <1>8 DEF Delivery!Attempt, Statuses

\* writeFile ends, one way or the other.
LEMMA EndDelivers ==
  ASSUME NEW h \in Handler, IInv, Fail(h) \/ Rename(h)
  PROVE  \E s \in Session, f \in File :
           Delivery!GiveUp(s, f) \/ Delivery!Deliver(s, f)
<1>1. /\ pc[h] \in Receiving /\ pc'[h] \in {"failed", "landed"}
      /\ UNCHANGED <<sid, want, sessions, files>>
      /\ \A g \in Handler : g # h => pc'[g] = pc[g]
  BY DEF IInv, TypeOK, Fail, Rename, Goto, Receiving, storeVars
<1>. PICK f \in File :
       /\ want[h] = {f} /\ sid[h] \in Session /\ f \in files[sid[h]]
       /\ <<sid[h], f>> \notin landed
       /\ \A g \in Handler : g # h /\ pc[g] \in Receiving /\ sid[g] = sid[h]
                               => f \notin want[g]
  BY <1>1, OnlyAttempt
<1>. PICK s \in Session : s = sid[h]
  OBVIOUS
<1>2. FileStatus(s, f) = "attempted"
  BY <1>1 DEF FileStatus, Attempted
<1>3. ~Attempted(s, f)'
  BY <1>1 DEF Attempted, Receiving
<1>4. ASSUME NEW r \in Session, NEW e \in File, <<r, e>> # <<s, f>>
      PROVE  FileStatus(r, e)' = FileStatus(r, e)
  <2>1. Attempted(r, e)' <=> Attempted(r, e)
    BY <1>1, <1>4 DEF Attempted, Receiving
  <2>2. <<r, e>> \in landed' <=> <<r, e>> \in landed
    BY <1>4 DEF Fail, Rename
  <2>. QED
    BY <1>1, <2>1, <2>2 DEF FileStatus
<1>5. CASE Fail(h)
  <2>1. FileStatus(s, f)' = "offered"
    BY <1>1, <1>3, <1>5 DEF FileStatus, Fail
  <2>2. Statuses' = [Statuses EXCEPT ![s][f] = "offered"]
    BY <1>4, <2>1, OneStatus
  <2>3. Delivery!GiveUp(s, f)
    BY <1>1, <1>2, <2>2 DEF Delivery!GiveUp, Statuses
  <2>. QED
    BY <2>3
<1>6. CASE Rename(h)
  <2>1. FileStatus(s, f)' = "delivered"
    BY <1>1, <1>3, <1>6 DEF FileStatus, Rename
  <2>2. Statuses' = [Statuses EXCEPT ![s][f] = "delivered"]
    BY <1>4, <2>1, OneStatus
  <2>3. Delivery!Deliver(s, f)
    BY <1>1, <1>2, <2>2 DEF Delivery!Deliver, Statuses
  <2>. QED
    BY <2>3
<1>. QED
  BY <1>5, <1>6

\* create offers files under an id that was closed, or does nothing when the
\* store is full.
LEMMA CreateDelivers ==
  ASSUME NEW h \in Handler, IInv, Create(h)
  PROVE  \/ UNCHANGED Delivery!vars
         \/ \E s \in Session, fs \in (SUBSET File) \ {{}} : Delivery!Offer(s, fs)
<1>1. /\ pc[h] = "insert" /\ pc'[h] = "idle" /\ landed' = landed
      /\ want[h] # {} /\ want[h] \subseteq File
      /\ \A g \in Handler : g # h =>
           pc'[g] = pc[g] /\ sid'[g] = sid[g] /\ want'[g] = want[g]
  BY DEF IInv, TypeOK, HandlersOK, Create, Finish, Goto
<1>2. CASE Full(want[h])
  <2>1. UNCHANGED <<sessions, files>>
    BY <1>2 DEF Create
  <2>2. Statuses' = Statuses
    BY <1>1, <2>1, StatusKept DEF Receiving
  <2>. QED
    BY <2>1, <2>2 DEF Delivery!vars, Statuses
<1>3. CASE ~Full(want[h])
  <2>. PICK s \in Fresh : Insert(s, want[h])
    BY <1>3 DEF Create
  <2>1. /\ s \in Session /\ files[s] = {}
        /\ sessions' = sessions \cup {s}
        /\ files' = [files EXCEPT ![s] = want[h]]
    BY DEF Fresh, Insert
  <2>2. \A g \in Handler : pc[g] \in Receiving => sid[g] # s
    BY <2>1 DEF IInv, HandlersOK, Uploading
  <2>3. \A f \in File : ~Attempted(s, f) /\ ~Attempted(s, f)' /\ <<s, f>> \notin landed
    BY <1>1, <2>1, <2>2 DEF IInv, SessionsOK, Attempted, Receiving
  <2>4. \A f \in File : FileStatus(s, f) = "absent"
    BY <2>1, <2>3 DEF FileStatus
  <2>5. \A f \in File : FileStatus(s, f)' = IF f \in want[h] THEN "offered" ELSE "absent"
    BY <1>1, <2>1, <2>3 DEF FileStatus, IInv, TypeOK
  <2>6. ASSUME NEW r \in Session, r # s, NEW f \in File
        PROVE  FileStatus(r, f)' = FileStatus(r, f)
    <3>1. Attempted(r, f)' <=> Attempted(r, f)
      BY <1>1 DEF Attempted, Receiving
    <3>2. files'[r] = files[r]
      BY <2>1, <2>6 DEF IInv, TypeOK
    <3>. QED
      BY <1>1, <3>1, <3>2 DEF FileStatus
  <2>7. Statuses' = [Statuses EXCEPT ![s] =
                       [f \in File |-> IF f \in want[h] THEN "offered" ELSE "absent"]]
    BY <2>1, <2>5, <2>6 DEF Statuses
  <2>8. Delivery!Offer(s, want[h])
    BY <2>1, <2>4, <2>7 DEF Delivery!Offer, Statuses
  <2>. QED
    BY <1>1, <2>1, <2>8
<1>. QED
  BY <1>2, <1>3

\* The sweep, cancel and the last completion close sessions and touch nothing
\* else a peer can see; every other step stutters.
LEMMA OthersDeliver ==
  ASSUME IInv, [Next]_vars,
         ~\E h \in Handler : Create(h) \/ Fail(h) \/ Rename(h),
         ~\E h \in Handler, s \in Session, f \in File : Claim(h, s, f)
  PROVE  \/ UNCHANGED Delivery!vars
         \/ \E ss \in (SUBSET Session) \ {{}} : Delivery!Close(ss)
<1>1. sessions' \subseteq sessions /\ files' = files /\ landed' = landed
  BY DEF Next, HandlerStep, Request, Start, Progress, ReadEOF, SendDone, SendError,
         EndUpload, EndContext, SendCancel, BeginCreate, Sweep, Cancel, Complete,
         MarkDone, Pump, Tick, vars, storeVars
<1>2. ASSUME NEW g \in Handler
      PROVE  /\ pc'[g] \in Receiving <=> pc[g] \in Receiving
             /\ pc[g] \in Receiving => sid'[g] = sid[g] /\ want'[g] = want[g]
  <2>1. CASE \E h \in Handler : Request(h)
    BY <2>1 DEF Request, BeginCreate, Cancel, Goto, Receiving, IInv, TypeOK
  <2>2. CASE \E h \in Handler : HandlerStep(h)
    BY <2>2 DEF HandlerStep, Start, Progress, ReadEOF, SendDone, SendError,
       EndUpload, EndContext, SendCancel, Complete, Finish, Goto, Receiving,
       handlerVars, IInv, TypeOK
  <2>3. CASE Pump \/ Tick \/ UNCHANGED vars
    BY <2>3 DEF Pump, Tick, vars, handlerVars
  <2>. QED
    BY <2>1, <2>2, <2>3 DEF Next
<1>3. Statuses' = Statuses
  BY <1>1, <1>2, StatusKept
<1>4. CASE sessions' = sessions
  BY <1>3, <1>4 DEF Delivery!vars, Statuses
<1>5. CASE sessions' # sessions
  <2>. DEFINE dead == sessions \ sessions'
  <2>1. dead \in (SUBSET Session) \ {{}} /\ sessions' = sessions \ dead
    BY <1>1, <1>5 DEF IInv, TypeOK
  <2>2. Delivery!Close(dead)
    BY <1>3, <2>1 DEF Delivery!Close, Statuses
  <2>. QED
    BY <2>1, <2>2
<1>. QED
  BY <1>4, <1>5

\* The session store, the handlers and the transfers channel together do what
\* FileDelivery promises: every behaviour of the server, seen through the
\* sessions in its store and the status of their files, is one of FileDelivery.
THEOREM ImplementsFileDelivery == Spec => DeliversFiles
<1>1. Init => Delivery!Init
  BY DEF Init, Delivery!Init, FileStatus, Attempted, Receiving
<1>2. ASSUME IInv, [Next]_vars PROVE [Delivery!Next]_(Delivery!vars)
  <2>1. CASE \E h \in Handler : Create(h)
    BY <1>2, <2>1, CreateDelivers DEF Delivery!Next
  <2>2. CASE \E h \in Handler : Fail(h) \/ Rename(h)
    BY <1>2, <2>2, EndDelivers DEF Delivery!Next
  <2>3. CASE \E h \in Handler, s \in Session, f \in File : Claim(h, s, f)
    BY <1>2, <2>3, ClaimDelivers DEF Delivery!Next
  <2>. QED
    BY <1>2, <2>1, <2>2, <2>3, OthersDeliver DEF Delivery!Next
<1>. QED
  BY <1>1, <1>2, Invariance, PTL DEF Spec, DeliversFiles, Delivery!Spec
=============================================================================
