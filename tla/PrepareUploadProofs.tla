------------------------- MODULE PrepareUploadProofs -------------------------
(***************************************************************************)
(* Theorems about what a prepare-upload passes through on its way to a     *)
(* session: the PIN gate (PinLimit), for any number of sources and         *)
(* goroutines and any limits, and then the accept question (Offers), for   *)
(* any number of requests, any capacities, and any waits for which the     *)
(* engine lets go of an offer before the server does.                      *)
(***************************************************************************)
EXTENDS Offers, PinLimit, FiniteSetTheorems, TLAPS

-----------------------------------------------------------------------------
(* The PIN gate: its inductive invariant. *)

Most == (MaxFails - 1) + Cardinality(Handler)

\* Without a lockout the strikes are the guesses, and too few for one; with
\* one, what is still being compared is counted in advance while it is in
\* force.
RunOK(ip) ==
  /\ until[ip] = 0 => tries[ip] = fails[ip] /\ fails[ip] < MaxFails
  /\ until[ip] # 0 => fails[ip] >= MaxFails /\ tries[ip] <= Most
  /\ until[ip] <= now + Lockout
  /\ Locked(ip) => tries[ip] + Cardinality(Comparing(ip)) <= Most

PinIInv == PinTypeOK /\ \A ip \in Ip : RunOK(ip)

-----------------------------------------------------------------------------
(* Counting. *)

\* The goroutines that compare a PIN of one source are finitely many.
LEMMA ComparingFinite ==
  ASSUME NEW ip \in Ip
  PROVE  /\ IsFiniteSet(Comparing(ip))
         /\ Cardinality(Comparing(ip)) \in Nat
         /\ Cardinality(Comparing(ip)) <= Cardinality(Handler)
         /\ Cardinality(Handler) \in Nat
<1>1. Comparing(ip) \subseteq Handler
  BY DEF Comparing
<1>2. IsFiniteSet(Handler)
  BY PinLimitAssumption
<1> QED
  BY <1>1, <1>2, FS_Subset, FS_CardinalityType

\* A goroutine that is not among those comparing leaves room for one.
LEMMA OneIsMissing ==
  ASSUME NEW S \in SUBSET Handler, NEW h \in Handler \ S
  PROVE  Cardinality(S) \in Nat /\ Cardinality(S) <= Cardinality(Handler) - 1
<1>1. IsFiniteSet(Handler)
  BY PinLimitAssumption
<1>2. IsFiniteSet(Handler \ {h}) /\ Cardinality(Handler \ {h}) = Cardinality(Handler) - 1
  BY <1>1, FS_RemoveElement
<1>3. S \subseteq Handler \ {h}
  OBVIOUS
<1> QED
  BY <1>2, <1>3, FS_Subset, FS_CardinalityType

\* The table of records is finite.
LEMMA RecordedFinite == IsFiniteSet(Recorded) /\ Cardinality(Recorded) \in Nat
<1>1. Recorded \subseteq Ip /\ IsFiniteSet(Ip)
  BY PinLimitAssumption DEF Recorded
<1> QED
  BY <1>1, FS_Subset, FS_CardinalityType

\* The bound on guesses leaves room for a whole run and for every goroutine.
LEMMA MostType == Most \in Nat /\ MaxFails <= Most + 1 /\ Cardinality(Handler) <= Most
<1>1. Cardinality(Handler) \in Nat
  BY PinLimitAssumption, FS_CardinalityType
<1> QED
  BY <1>1, PinLimitAssumption DEF Most

-----------------------------------------------------------------------------
(* What Fail does to each record. *)

\* A failure of one source drops the record of another or leaves it alone, and
\* drops none that is locked out.
LEMMA FailOthers ==
  ASSUME PinTypeOK, NEW h \in Handler, Fail(h), NEW x \in Ip, x # src[h]
  PROVE  \/ /\ fails'[x] = 0 /\ until'[x] = 0 /\ tries'[x] = 0 /\ lastFail'[x] = 0
            /\ ~Locked(x)
         \/ /\ fails'[x] = fails[x] /\ until'[x] = until[x]
            /\ tries'[x] = tries[x] /\ lastFail'[x] = lastFail[x]
<1>1. x \in Pruned(src[h]) => ~Locked(x)
  BY DEF Pruned, Prunable
<1>2. CASE NoRoom(src[h])
  BY <1>1, <1>2 DEF Fail, PinTypeOK
<1>3. CASE ~NoRoom(src[h])
  BY <1>1, <1>3 DEF Fail, PinTypeOK
<1> QED
  BY <1>2, <1>3

\* A failure leaves its own source without a record when the table is full, and
\* counts against it otherwise.
LEMMA FailSelf ==
  ASSUME PinTypeOK, NEW h \in Handler, Fail(h)
  PROVE  /\ src[h] \in Ip
         /\ NoRoom(src[h]) =>
              /\ fails[src[h]] = 0 /\ until[src[h]] = 0
              /\ fails'[src[h]] = fails[src[h]] /\ until'[src[h]] = until[src[h]]
              /\ tries'[src[h]] = tries[src[h]] /\ lastFail'[src[h]] = lastFail[src[h]]
         /\ ~NoRoom(src[h]) =>
              /\ fails'[src[h]] = Strikes(src[h])
              /\ until'[src[h]] = Deadline(src[h])
              /\ lastFail'[src[h]] = now
              /\ tries'[src[h]] = IF until[src[h]] # 0 /\ ~Locked(src[h]) THEN 1
                                  ELSE tries[src[h]] + 1
<1>1. src[h] \in Ip
  BY DEF Fail, Answer, PinTypeOK
<1>2. ASSUME NoRoom(src[h])
      PROVE  /\ fails[src[h]] = 0 /\ until[src[h]] = 0
             /\ fails'[src[h]] = fails[src[h]] /\ until'[src[h]] = until[src[h]]
             /\ tries'[src[h]] = tries[src[h]] /\ lastFail'[src[h]] = lastFail[src[h]]
  <2>1. fails[src[h]] = 0 /\ until[src[h]] = 0
    BY <1>1, <1>2 DEF NoRoom, PinTypeOK
  <2>2. src[h] \notin Pruned(src[h])
    BY <1>1, <2>1 DEF Pruned, Prunable
  <2> QED
    BY <1>1, <1>2, <2>1, <2>2 DEF Fail
<1>3. ASSUME ~NoRoom(src[h])
      PROVE  /\ fails'[src[h]] = Strikes(src[h])
             /\ until'[src[h]] = Deadline(src[h])
             /\ lastFail'[src[h]] = now
             /\ tries'[src[h]] = IF until[src[h]] # 0 /\ ~Locked(src[h]) THEN 1
                                 ELSE tries[src[h]] + 1
  <2>1. src[h] \notin Pruned(src[h]) \/ fails[src[h]] # 0
    BY DEF Pruned, Prunable, PinTypeOK
  <2>2. fails[src[h]] # 0 => Pruned(src[h]) = {}
    BY DEF Pruned
  <2>3. src[h] \notin Pruned(src[h])
    BY <1>1, <2>1, <2>2
  <2> QED
    BY <1>1, <1>3, <2>3 DEF Fail
<1> QED
  BY <1>1, <1>2, <1>3

\* Who is comparing after an answer.
LEMMA AnswerLeaves ==
  ASSUME PinTypeOK, NEW h \in Handler, Answer(h), NEW x \in Ip
  PROVE  /\ Comparing(x)' = Comparing(x) \ {h}
         /\ h \notin Comparing(x)'
<1> QED
  BY DEF Answer, Comparing, PinTypeOK

-----------------------------------------------------------------------------
(* Types. *)

\* fail makes a record only where it made room: the table never exceeds its cap.
LEMMA RecordedBounded ==
  ASSUME PinTypeOK, NEW h \in Handler, Fail(h)
  PROVE  Cardinality(Recorded') <= MaxEntries
<1> DEFINE ip == src[h]
           kept == Recorded \ Pruned(ip)
<1>1. ip \in Ip /\ Strikes(ip) \in Nat \ {0}
  BY FailSelf DEF Strikes, PinTypeOK
<1>2. IsFiniteSet(Recorded) /\ Cardinality(Recorded) \in Nat
  BY RecordedFinite
<1>3. IsFiniteSet(kept) /\ Cardinality(kept) \in Nat /\ Cardinality(kept) <= Cardinality(Recorded)
  BY <1>2, FS_Subset, FS_CardinalityType
<1>4. CASE NoRoom(ip)
  <2>1. Recorded' \subseteq Recorded
    BY <1>1, <1>4, FailSelf, FailOthers DEF Recorded
  <2>2. Cardinality(Recorded') <= Cardinality(Recorded)
    BY <2>1, <1>2, FS_Subset
  <2> QED
    BY <2>1, <2>2, <1>2, FS_Subset, FS_CardinalityType, PinLimitAssumption DEF PinTypeOK
<1>5. CASE ~NoRoom(ip) /\ fails[ip] # 0
  <2>1. Recorded' \subseteq Recorded
    BY <1>1, <1>5, FailOthers DEF Recorded, PinTypeOK
  <2> QED
    BY <2>1, <1>2, FS_Subset, FS_CardinalityType, PinLimitAssumption DEF PinTypeOK
<1>6. CASE ~NoRoom(ip) /\ fails[ip] = 0
  <2>0. \A x \in Ip : x # ip => fails'[x] = IF x \in Pruned(ip) THEN 0 ELSE fails[x]
    BY <1>6 DEF Fail, PinTypeOK
  <2>1. Recorded' \subseteq kept \cup {ip}
    BY <1>1, <2>0 DEF Recorded
  <2>2. Cardinality(kept) < MaxEntries
    BY <1>3, <1>6, PinLimitAssumption DEF NoRoom
  <2>3. /\ IsFiniteSet(kept \cup {ip})
        /\ Cardinality(kept \cup {ip}) <= Cardinality(kept) + 1
        /\ Cardinality(kept \cup {ip}) \in Nat
    <3> HIDE DEF kept
    <3>1. /\ IsFiniteSet(kept \cup {ip})
          /\ Cardinality(kept \cup {ip}) =
               IF ip \in kept THEN Cardinality(kept) ELSE Cardinality(kept) + 1
      BY <1>3, FS_AddElement
    <3> QED
      BY <1>3, <3>1
  <2>4. Cardinality(Recorded') <= Cardinality(kept \cup {ip}) /\ Cardinality(Recorded') \in Nat
    BY <2>1, <2>3, FS_Subset, FS_CardinalityType
  <2> QED
    BY <2>2, <2>3, <2>4, <1>3, PinLimitAssumption
<1> QED
  BY <1>4, <1>5, <1>6

\* The records stay well formed and fewer than pinMaxEntries, whatever the
\* sources and however many requests run at once.
THEOREM PinTypeCorrect == PinSpec => []PinTypeOK
<1>1. PinInit => PinTypeOK
  <2> SUFFICES ASSUME PinInit PROVE PinTypeOK
    OBVIOUS
  <2>1. Recorded = {}
    BY DEF PinInit, Recorded
  <2>2. Cardinality(Recorded) = 0
    BY <2>1, FS_EmptySet
  <2> QED
    BY <2>2, PinLimitAssumption DEF PinInit, PinTypeOK
<1>2. PinTypeOK /\ [PinNext]_pinVars => PinTypeOK'
  <2> SUFFICES ASSUME PinTypeOK, [PinNext]_pinVars PROVE PinTypeOK'
    OBVIOUS
  <2>1. ASSUME NEW h \in Handler, NEW ip \in Ip, Admit(h, ip) PROVE PinTypeOK'
    BY <2>1 DEF Admit, PinTypeOK, recVars, Recorded
  <2>2. ASSUME NEW h \in Handler, Fail(h) PROVE PinTypeOK'
    <3> DEFINE ip == src[h]
    <3>1. ip \in Ip /\ Strikes(ip) \in Nat \ {0} /\ Deadline(ip) \in Nat
      BY <2>2, FailSelf, PinLimitAssumption DEF Strikes, Deadline, PinTypeOK
    <3>2. fails' \in [Ip -> Nat] /\ lastFail' \in [Ip -> Nat] /\ until' \in [Ip -> Nat]
          /\ tries' \in [Ip -> Nat]
      <4>1. ASSUME NEW x \in Ip
            PROVE  /\ fails'[x] \in Nat /\ lastFail'[x] \in Nat
                   /\ until'[x] \in Nat /\ tries'[x] \in Nat
        <5>1. CASE x # ip
          BY <2>2, <5>1, FailOthers DEF PinTypeOK
        <5>2. CASE x = ip
          BY <2>2, <3>1, <5>2, FailSelf DEF PinTypeOK
        <5> QED
          BY <5>1, <5>2
      <4>2. /\ fails' = [x \in Ip |-> fails'[x]]
            /\ lastFail' = [x \in Ip |-> lastFail'[x]]
            /\ until' = [x \in Ip |-> until'[x]]
            /\ tries' = [x \in Ip |-> tries'[x]]
        <5>1. CASE NoRoom(ip)
          BY <2>2, <5>1 DEF Fail
        <5>2. CASE ~NoRoom(ip)
          BY <2>2, <5>2 DEF Fail
        <5> QED
          BY <5>1, <5>2
      <4> HIDE DEF ip
      <4> QED
        BY <4>1, <4>2
    <3>3. \A x \in Ip : fails'[x] = 0 => until'[x] = 0
      BY <2>2, <3>1, FailSelf, FailOthers DEF PinTypeOK
    <3>4. Cardinality(Recorded') <= MaxEntries
      BY <2>2, RecordedBounded
    <3>5. /\ now' \in Nat \ {0}
          /\ pc' \in [Handler -> {"idle", "comparing"}]
          /\ src' \in [Handler -> Ip \cup {NoIp}]
          /\ \A g \in Handler : pc'[g] = "comparing" => src'[g] \in Ip
      BY <2>2 DEF Fail, Answer, PinTypeOK
    <3> QED
      BY <3>2, <3>3, <3>4, <3>5 DEF PinTypeOK, Recorded
  <2>3. ASSUME NEW h \in Handler, Succeed(h) PROVE PinTypeOK'
    <3>1. Recorded' \subseteq Recorded
      BY <2>3 DEF Succeed, Recorded, PinTypeOK
    <3>2. Cardinality(Recorded') <= MaxEntries
      BY <3>1, RecordedFinite, FS_Subset, FS_CardinalityType, PinLimitAssumption DEF PinTypeOK
    <3> QED
      BY <2>3, <3>2 DEF Succeed, Answer, PinTypeOK, Recorded
  <2>4. CASE PinTick
    BY <2>4 DEF PinTick, PinTypeOK, recVars, Recorded
  <2>5. CASE UNCHANGED pinVars
    BY <2>5 DEF pinVars, PinTypeOK, recVars, Recorded
  <2> QED
    BY <2>1, <2>2, <2>3, <2>4, <2>5 DEF PinNext
<1> QED
  BY <1>1, <1>2, PTL DEF PinSpec

-----------------------------------------------------------------------------
(* Guesses. *)

\* A failure keeps every run of guesses within its bound.
LEMMA FailKeepsRun ==
  ASSUME PinTypeOK, NEW h \in Handler, Fail(h), \A x \in Ip : RunOK(x), NEW x \in Ip
  PROVE  RunOK(x)'
<1> DEFINE C == Cardinality(Comparing(x))
           D == Cardinality(Comparing(x)')
<1>1. RunOK(x) /\ now' = now /\ now \in Nat /\ Lockout \in Nat \ {0} /\ MaxFails \in Nat \ {0}
  BY PinLimitAssumption DEF Fail, PinTypeOK
<1>2. /\ D \in Nat /\ D <= Cardinality(Handler) - 1 /\ C \in Nat
      /\ Cardinality(Handler) \in Nat
  <2>1. h \in Handler /\ Comparing(x)' \subseteq Handler /\ h \notin Comparing(x)'
    BY AnswerLeaves DEF Fail, Comparing
  <2> QED
    BY <2>1, OneIsMissing, ComparingFinite
<1>3. Most \in Nat /\ MaxFails <= Most + 1 /\ Cardinality(Handler) <= Most
  BY MostType
<1>4. CASE x # src[h]
  <2>1. Comparing(x)' = Comparing(x)
    BY <1>4 DEF Fail, Answer, Comparing, PinTypeOK
  <2>2. CASE fails'[x] = 0 /\ until'[x] = 0 /\ tries'[x] = 0
    BY <2>2, <1>1 DEF RunOK, Locked
  <2>3. CASE fails'[x] = fails[x] /\ until'[x] = until[x] /\ tries'[x] = tries[x]
    BY <2>3, <2>1, <1>1 DEF RunOK, Locked, Most
  <2> QED
    BY <1>4, <2>2, <2>3, FailOthers
<1>5. CASE x = src[h] /\ NoRoom(x)
  <2>1. fails'[x] = fails[x] /\ until'[x] = until[x] /\ tries'[x] = tries[x] /\ until[x] = 0
    BY <1>5, FailSelf
  <2> QED
    BY <2>1, <1>1 DEF RunOK, Locked
<1>6. CASE x = src[h] /\ ~NoRoom(x)
  <2>1. /\ fails'[x] = Strikes(x) /\ until'[x] = Deadline(x)
        /\ tries'[x] = IF until[x] # 0 /\ ~Locked(x) THEN 1 ELSE tries[x] + 1
    BY <1>6, FailSelf
  <2>2. D = C - 1
    <3>1. h \in Comparing(x) /\ Comparing(x)' = Comparing(x) \ {h}
      BY <1>6, AnswerLeaves DEF Fail, Answer, Comparing, PinTypeOK
    <3> QED
      BY <3>1, ComparingFinite, FS_RemoveElement
  <2>3. fails[x] \in Nat /\ until[x] \in Nat /\ tries[x] \in Nat
    BY DEF PinTypeOK
  <2>4. CASE until[x] = 0
    BY <2>1, <2>3, <2>4, <1>1, <1>2, <1>3 DEF RunOK, Locked, Strikes, Deadline, Served, Most
  <2>5. CASE until[x] # 0 /\ Locked(x)
    <3>1. ~Served(x) /\ Strikes(x) = fails[x] + 1 /\ Strikes(x) >= MaxFails
      BY <2>3, <2>5, <1>1 DEF Served, Locked, Strikes, RunOK
    <3>2. until'[x] = now + Lockout /\ fails'[x] >= MaxFails /\ tries'[x] = tries[x] + 1
      BY <2>1, <2>5, <3>1 DEF Deadline
    <3>3. tries'[x] + D <= Most /\ tries'[x] <= Most
      BY <3>2, <2>2, <2>3, <2>5, <1>1, <1>2, <1>3 DEF RunOK
    <3> QED
      BY <3>2, <3>3, <1>1 DEF RunOK, Locked, Most
  <2>6. CASE until[x] # 0 /\ ~Locked(x)
    <3>1. tries'[x] = 1
      BY <2>1, <2>6
    <3>2. fails'[x] >= MaxFails => until'[x] = now + Lockout
      BY <2>1 DEF Deadline
    <3>3. fails'[x] < MaxFails => fails'[x] = 1 /\ until'[x] = 0
      BY <2>1, <2>3, <2>6, <1>1 DEF Deadline, Strikes, RunOK
    <3>4. fails'[x] \in Nat /\ 1 + D <= Most /\ 1 <= Most
      BY <2>1, <2>3, <1>2, <1>3 DEF Strikes
    <3> QED
      BY <3>1, <3>2, <3>3, <3>4, <1>1 DEF RunOK, Locked, Most
  <2> QED
    BY <2>4, <2>5, <2>6
<1> QED
  BY <1>4, <1>5, <1>6

\* The guesses of every source follow its record: without a lockout they are its
\* strikes, during one they and what is still compared fit the bound.
THEOREM RunsHold == PinSpec => []PinIInv
<1>1. PinInit => \A ip \in Ip : RunOK(ip)
  BY PinLimitAssumption DEF PinInit, RunOK, Locked
<1>2. PinTypeOK /\ (\A ip \in Ip : RunOK(ip)) /\ [PinNext]_pinVars => (\A ip \in Ip : RunOK(ip))'
  <2> SUFFICES ASSUME PinTypeOK, \A ip \in Ip : RunOK(ip), [PinNext]_pinVars, NEW x \in Ip
               PROVE  RunOK(x)'
    OBVIOUS
  <2>0. Lockout \in Nat /\ now \in Nat /\ until[x] \in Nat /\ RunOK(x)
    BY PinLimitAssumption DEF PinTypeOK
  <2>1. ASSUME NEW h \in Handler, NEW ip \in Ip, Admit(h, ip) PROVE RunOK(x)'
    <3>1. CASE x = ip
      BY <2>0, <2>1, <3>1 DEF Admit, recVars, RunOK, Locked, Most
    <3>2. CASE x # ip
      <4>1. Comparing(x)' = Comparing(x)
        BY <2>1, <3>2 DEF Admit, Comparing, PinTypeOK
      <4> QED
        BY <2>0, <2>1, <4>1 DEF Admit, recVars, RunOK, Locked, Most
    <3> QED
      BY <3>1, <3>2
  <2>2. ASSUME NEW h \in Handler, Fail(h) PROVE RunOK(x)'
    BY <2>2, FailKeepsRun
  <2>3. ASSUME NEW h \in Handler, Succeed(h) PROVE RunOK(x)'
    <3>1. CASE x = src[h]
      <4>1. fails'[x] = 0 /\ until'[x] = 0 /\ tries'[x] = 0 /\ now' = now
        BY <2>3, <3>1 DEF Succeed, PinTypeOK
      <4> QED
        BY <2>0, <4>1, PinLimitAssumption DEF RunOK, Locked
    <3>2. CASE x # src[h]
      <4>1. Comparing(x)' = Comparing(x)
        BY <2>3, <3>2 DEF Succeed, Answer, Comparing, PinTypeOK
      <4>2. fails'[x] = fails[x] /\ until'[x] = until[x] /\ tries'[x] = tries[x] /\ now' = now
        BY <2>3, <3>2 DEF Succeed, PinTypeOK
      <4> QED
        BY <2>0, <4>1, <4>2 DEF RunOK, Locked, Most
    <3> QED
      BY <3>1, <3>2
  <2>4. CASE PinTick
    <3>1. Comparing(x)' = Comparing(x) /\ now' = now + 1
          /\ fails' = fails /\ until' = until /\ tries' = tries
      BY <2>4 DEF PinTick, recVars, Comparing
    <3> QED
      BY <2>0, <3>1 DEF RunOK, Locked, Most
  <2>5. CASE UNCHANGED pinVars
    BY <2>0, <2>5 DEF pinVars, recVars, RunOK, Locked, Most, Comparing
  <2> QED
    BY <2>1, <2>2, <2>3, <2>4, <2>5 DEF PinNext
<1> QED
  BY <1>1, <1>2, PinTypeCorrect, PTL DEF PinSpec, PinIInv

\* pinMaxFails - 1 wrong PINs and one per goroutine is all a source gets out of
\* one run, although locked, the comparison and fail are separate steps.
THEOREM GuessesAreBounded == PinSpec => []GuessesBounded
<1>1. PinIInv => GuessesBounded
  <2> SUFFICES ASSUME PinTypeOK, \A ip \in Ip : RunOK(ip), NEW ip \in Ip
               PROVE  tries[ip] <= Most
    BY DEF PinIInv, GuessesBounded, Most
  <2>1. tries[ip] \in Nat /\ fails[ip] \in Nat /\ RunOK(ip)
    BY DEF PinTypeOK
  <2> QED
    BY <2>1, MostType, PinLimitAssumption DEF RunOK
<1> QED
  BY <1>1, RunsHold, PTL

-----------------------------------------------------------------------------
(* Lockouts. *)

\* Nothing but a right PIN of a request admitted before shortens a lockout that
\* is in force: not fail for another source, not pruneLocked.
THEOREM LockoutsStandAlways == PinSpec => LockoutsStand
<1>1. PinIInv /\ [PinNext]_pinVars => [LockoutStep]_pinVars
  <2> SUFFICES ASSUME PinTypeOK, \A ip \in Ip : RunOK(ip), PinNext,
                      NEW x \in Ip, Locked(x)
               PROVE  \/ until'[x] >= until[x]
                      \/ \E h \in Comparing(x) : Succeed(h)
    BY DEF PinIInv, LockoutStep
  <2>0. now \in Nat /\ until[x] \in Nat /\ until[x] # 0 /\ RunOK(x)
        /\ fails[x] \in Nat /\ Lockout \in Nat /\ MaxFails \in Nat
    BY PinLimitAssumption DEF PinTypeOK, Locked
  <2>1. ASSUME NEW h \in Handler, NEW ip \in Ip, Admit(h, ip)
        PROVE  until'[x] >= until[x]
    BY <2>0, <2>1 DEF Admit, recVars
  <2>2. ASSUME NEW h \in Handler, Fail(h)
        PROVE  until'[x] >= until[x]
    <3>1. CASE x # src[h]
      BY <2>0, <2>2, <3>1, FailOthers
    <3>2. CASE x = src[h]
      <4>1. ~NoRoom(x) /\ until'[x] = Deadline(x)
        BY <2>0, <2>2, <3>2, FailSelf
      <4>2. ~Served(x) /\ Strikes(x) >= MaxFails
        BY <2>0 DEF Locked, Served, Strikes, RunOK
      <4>3. until'[x] = now + Lockout
        BY <4>1, <4>2 DEF Deadline
      <4> QED
        BY <2>0, <4>3 DEF RunOK
    <3> QED
      BY <3>1, <3>2
  <2>3. ASSUME NEW h \in Handler, Succeed(h)
        PROVE  until'[x] >= until[x] \/ h \in Comparing(x)
    <3>1. CASE x = src[h]
      BY <2>3, <3>1 DEF Succeed, Answer, Comparing
    <3>2. CASE x # src[h]
      BY <2>0, <2>3, <3>2 DEF Succeed, PinTypeOK
    <3> QED
      BY <3>1, <3>2
  <2>4. CASE PinTick
    BY <2>0, <2>4 DEF PinTick, recVars
  <2> QED
    BY <2>1, <2>2, <2>3, <2>4 DEF PinNext
<1> QED
  BY <1>1, RunsHold, PTL DEF PinSpec, LockoutsStand

-----------------------------------------------------------------------------
(* Uncounted failures. *)

\* fail gives up on a wrong PIN only while pinMaxEntries records are locked out
\* or younger than pinStale.
THEOREM UncountedOnlyWhenFullAlways == PinSpec => UncountedOnlyWhenFull
<1>1. PinTypeOK /\ [PinNext]_pinVars => [UncountedStep]_pinVars
  <2> SUFFICES ASSUME PinTypeOK, NEW h \in Handler, Fail(h), fails'[src[h]] = 0
               PROVE  \E full \in SUBSET Ip :
                        /\ Cardinality(full) = MaxEntries
                        /\ \A ip \in full : Locked(ip) \/ now - lastFail[ip] <= Stale
    BY DEF UncountedStep
  <2> DEFINE kept == Recorded \ Pruned(src[h])
  <2>1. src[h] \in Ip /\ fails[src[h]] \in Nat
    BY FailSelf DEF PinTypeOK
  <2>2. NoRoom(src[h])
    <3>1. Strikes(src[h]) # 0
      BY <2>1 DEF Strikes
    <3> QED
      BY <3>1, FailSelf
  <2>3. kept \in SUBSET Ip
    BY DEF Recorded
  <2>4. Cardinality(kept) = MaxEntries
    <3>1. IsFiniteSet(Recorded) /\ Cardinality(Recorded) \in Nat
      BY RecordedFinite
    <3>2. Cardinality(kept) \in Nat /\ Cardinality(kept) <= Cardinality(Recorded)
      BY <3>1, FS_Subset, FS_CardinalityType
    <3>3. Cardinality(kept) >= MaxEntries /\ Cardinality(Recorded) <= MaxEntries
      BY <2>2 DEF NoRoom, PinTypeOK
    <3> QED
      BY <3>1, <3>2, <3>3, PinLimitAssumption
  <2>5. ASSUME NEW ip \in kept
        PROVE  Locked(ip) \/ now - lastFail[ip] <= Stale
    <3>1. Cardinality(Recorded) \in Nat /\ Cardinality(Recorded) >= MaxEntries
      BY <2>4, RecordedFinite, FS_Subset, FS_CardinalityType, PinLimitAssumption
    <3>2. Pruned(src[h]) = {y \in Ip : Prunable(y)}
      BY <2>2, <3>1 DEF Pruned, NoRoom
    <3>3. ip \in Ip /\ fails[ip] > 0 /\ ~Prunable(ip)
      BY <3>2 DEF Recorded
    <3>4. now \in Nat /\ lastFail[ip] \in Nat /\ Stale \in Nat
      BY <3>3, PinLimitAssumption DEF PinTypeOK
    <3> QED
      BY <3>3, <3>4 DEF Prunable
  <2> QED
    BY <2>3, <2>4, <2>5
<1> QED
  BY <1>1, PinTypeCorrect, PTL DEF PinSpec, UncountedOnlyWhenFull

-----------------------------------------------------------------------------
(* The accept question: its inductive invariant, where a request can be and
   what follows. *)

\* TypeOK, with its Boolean variables apart: the provers take them apart too.
FlagsOK == pumping \in BOOLEAN /\ autoAccept \in BOOLEAN

DataOK ==
  /\ program \in {"engine", "terminal"}
  /\ startup \in 0 .. StartupLag
  /\ handler \in [Request -> {"new", "asking", "waiting", "accepted", "declined"}]
  /\ handlerAge \in [Request -> 0 .. ServerWait + EnqueueWait]
  /\ accepts \in Seq(Request) /\ Len(accepts) <= AcceptCap
  /\ offers \in SUBSET Request /\ Cardinality(offers) <= MaxHeld
  /\ offerAge \in [Request -> 0 .. HoldFor]
  /\ prompt \in Request \cup {NoRequest}
  /\ answering \in [Request -> {"yes", "no", "none"}]
  /\ reply \in [Request -> {"yes", "no", "none"}]
  /\ sender \in [Request -> {"new", "waiting", "told", "gaveUp"}]
  /\ senderAge \in [Request -> 0 .. SenderWait]
  /\ said \in [Request -> {"nothing", "auto", "yes", "no", "timer"}]
  /\ blocked \in SUBSET Request

\* The requests in the accepts channel.
Queued == {accepts[i] : i \in 1 .. Len(accepts)}

\* Nobody has decided about r, and no decision is on its way.
Untouched(r) == answering[r] = "none" /\ reply[r] = "none"

\* Before it is handed over, a request is nowhere.
NewOK ==
  \A r \in Request : handler[r] \in {"new", "asking"} =>
    /\ r \notin Queued /\ r \notin offers /\ r # prompt
    /\ Untouched(r)

\* A request is in the channel once, waits for its decision, and not longer
\* than the pump has been missing.
QueuedOK ==
  /\ \A i, j \in 1 .. Len(accepts) : i # j => accepts[i] # accepts[j]
  /\ \A r \in Queued :
       /\ handler[r] = "waiting" /\ handlerAge[r] <= startup
       /\ r \notin offers /\ r # prompt
       /\ Untouched(r)

\* A parked offer waits for its decision, and hardly longer than it is parked.
ParkedOK ==
  /\ IsFiniteSet(offers)
  /\ \A r \in offers :
       /\ handler[r] = "waiting" /\ handlerAge[r] <= offerAge[r] + StartupLag
       /\ r # prompt
       /\ Untouched(r)

\* The request in the prompt may have timed out, but was not accepted.
PromptOK ==
  \A r \in Request : r = prompt =>
    /\ handler[r] \in {"waiting", "declined"}
    /\ Untouched(r)

\* An accept on its way was somebody's.
DecisionOK ==
  /\ blocked = {}
  /\ \A r \in Request :
       /\ answering[r] # "none" => reply[r] = "none"
       /\ answering[r] = "yes" \/ reply[r] = "yes" => said[r] = "yes"
       /\ handler[r] = "accepted" => said[r] \in {"auto", "yes"}

IInv ==
  /\ FlagsOK
  /\ DataOK
  /\ NewOK
  /\ QueuedOK
  /\ ParkedOK
  /\ PromptOK
  /\ DecisionOK

-----------------------------------------------------------------------------
(* The channel. *)

\* What a hand-over does to the channel.
LEMMA QueuedAppend ==
  ASSUME accepts \in Seq(Request), NEW r \in Request, accepts' = Append(accepts, r)
  PROVE  /\ accepts' \in Seq(Request)
         /\ Len(accepts') = Len(accepts) + 1
         /\ Queued' = Queued \cup {r}
         /\ \A i \in 1 .. Len(accepts) : accepts'[i] = accepts[i]
         /\ accepts'[Len(accepts) + 1] = r
<1>1. /\ accepts' \in Seq(Request)
      /\ Len(accepts') = Len(accepts) + 1
      /\ \A i \in 1 .. Len(accepts) : accepts'[i] = accepts[i]
      /\ accepts'[Len(accepts) + 1] = r
      /\ Len(accepts) \in Nat
  OBVIOUS
<1>2. Queued' = Queued \cup {r}
  <2>1. \A i \in 1 .. Len(accepts') : i = Len(accepts) + 1 \/ i \in 1 .. Len(accepts)
    BY <1>1
  <2>2. Len(accepts) + 1 \in 1 .. Len(accepts')
    BY <1>1
  <2>3. \A i \in 1 .. Len(accepts) : i \in 1 .. Len(accepts')
    BY <1>1
  <2>. QED
    BY <1>1, <2>1, <2>2, <2>3 DEF Queued
<1>. QED
  BY <1>1, <1>2

\* Only requests are in it.
LEMMA QueuedInRequests ==
  ASSUME DataOK
  PROVE  Queued \subseteq Request
BY DEF DataOK, Queued

\* What taking the first request out does to it.
LEMMA QueuedTail ==
  ASSUME accepts \in Seq(Request), accepts # <<>>, accepts' = Tail(accepts)
  PROVE  /\ Head(accepts) \in Request
         /\ accepts' \in Seq(Request)
         /\ Len(accepts') = Len(accepts) - 1
         /\ Queued = Queued' \cup {Head(accepts)}
         /\ \A i \in 1 .. Len(accepts') : i + 1 \in 1 .. Len(accepts) /\ accepts'[i] = accepts[i + 1]
<1>1. /\ accepts' \in Seq(Request)
      /\ Len(accepts) \in Nat \ {0}
      /\ Len(accepts') = Len(accepts) - 1
      /\ \A i \in 1 .. Len(accepts') : accepts'[i] = accepts[i + 1]
      /\ Head(accepts) = accepts[1]
      /\ Head(accepts) \in Request
  OBVIOUS
<1>2. Queued = Queued' \cup {Head(accepts)}
  <2>1. \A i \in 1 .. Len(accepts) : i = 1 \/ (i - 1 \in 1 .. Len(accepts') /\ (i - 1) + 1 = i)
    BY <1>1
  <2>2. \A i \in 1 .. Len(accepts') : i + 1 \in 1 .. Len(accepts)
    BY <1>1
  <2>3. 1 \in 1 .. Len(accepts)
    BY <1>1
  <2>4. Queued' \cup {Head(accepts)} \subseteq Queued
    BY <1>1, <2>2, <2>3 DEF Queued
  <2>5. ASSUME NEW i \in 1 .. Len(accepts)
        PROVE  accepts[i] \in Queued' \cup {Head(accepts)}
    <3>1. CASE i = 1
      BY <1>1, <3>1
    <3>2. CASE i - 1 \in 1 .. Len(accepts')
      <4>1. accepts'[i - 1] = accepts[i]
        BY <1>1, <3>2
      <4>. QED
        BY <3>2, <4>1 DEF Queued
    <3>. QED
      BY <2>1, <3>1, <3>2
  <2>. QED
    BY <2>4, <2>5 DEF Queued
<1>. QED
  BY <1>1, <1>2

\* A goroutine that goes on to its next wait, or ends, starts its clock anew.
LEMMA Moves ==
  ASSUME DataOK, NEW r \in Request,
         NEW label \in {"asking", "waiting", "accepted", "declined"},
         Move(r, label)
  PROVE  /\ handler' \in [Request -> {"new", "asking", "waiting", "accepted", "declined"}]
         /\ handlerAge' \in [Request -> 0 .. ServerWait + EnqueueWait]
         /\ handler'[r] = label /\ handlerAge'[r] = 0
         /\ \A q \in Request : q # r => /\ handler'[q] = handler[q]
                                        /\ handlerAge'[q] = handlerAge[q]
<1>1. 0 \in 0 .. ServerWait + EnqueueWait
  BY OffersAssumption
<1>. QED
  BY <1>1 DEF DataOK, Move

\* A decided request is in no place but the prompt of a slow user.
LEMMA DecidedNowhere ==
  ASSUME IInv, NEW r \in Request, ~Untouched(r)
  PROVE  /\ r \notin Queued /\ r \notin offers /\ r # prompt
         /\ handler[r] \notin {"new", "asking"}
BY DEF IInv, NewOK, QueuedOK, ParkedOK, PromptOK

-----------------------------------------------------------------------------
(* The initial states. *)

\* Nothing has been asked yet.
LEMMA InitIInv == Init => IInv
<1>. SUFFICES ASSUME Init PROVE IInv
  OBVIOUS
<1>1. IsFiniteSet(offers) /\ Cardinality(offers) = 0
  BY FS_EmptySet DEF Init
<1>2. FlagsOK /\ DataOK
  <2>1. FlagsOK
    BY DEF Init, FlagsOK
  <2>2. DataOK
    BY <1>1, OffersAssumption DEF Init, DataOK
  <2>. QED
    BY <2>1, <2>2
<1>3. Queued = {}
  BY DEF Init, Queued
<1>4. NewOK /\ QueuedOK /\ ParkedOK /\ PromptOK /\ DecisionOK
  BY <1>1, <1>3, OffersAssumption
     DEF Init, NewOK, QueuedOK, ParkedOK, PromptOK, DecisionOK, Untouched
<1>. QED
  BY <1>2, <1>4 DEF IInv

-----------------------------------------------------------------------------
(* One lemma per action. *)

\* The request arrives; with auto-accept on it is never a question.
LEMMA AskIInv ==
  ASSUME NEW r \in Request, IInv, Ask(r)
  PROVE  IInv'
<1>. USE DEF IInv
<1>1. FlagsOK' /\ DataOK'
  <2>1. FlagsOK'
    BY DEF FlagsOK, Ask, engineVars
  <2>2. \/ said' = [said EXCEPT ![r] = "auto"] /\ Move(r, "accepted")
        \/ said' = said /\ Move(r, "asking")
    BY DEF Ask
  <2>3. /\ UNCHANGED <<program, startup, accepts, offers, offerAge, prompt,
                       answering, senderAge, reply, blocked>>
        /\ sender' = [sender EXCEPT ![r] = "waiting"]
    BY DEF Ask, engineVars
  <2>4. DataOK'
    <3>1. said' \in [Request -> {"nothing", "auto", "yes", "no", "timer"}]
      BY <2>2 DEF DataOK
    <3>2. /\ handler' \in [Request -> {"new", "asking", "waiting", "accepted", "declined"}]
          /\ handlerAge' \in [Request -> 0 .. ServerWait + EnqueueWait]
      BY <2>2, Moves
    <3>4. sender' \in [Request -> {"new", "waiting", "told", "gaveUp"}]
      BY <2>3 DEF DataOK
    <3>. QED
      BY <2>3, <3>1, <3>2, <3>4 DEF DataOK
  <2>. QED
    BY <2>1, <2>4
<1>2. /\ handler[r] = "new" /\ handler'[r] \in {"accepted", "asking"}
      /\ handler'[r] = "accepted" => said'[r] = "auto"
      /\ \A q \in Request : q # r => /\ handler'[q] = handler[q]
                                     /\ handlerAge'[q] = handlerAge[q]
                                     /\ said'[q] = said[q]
  BY DEF DataOK, Ask, Move
<1>3. UNCHANGED <<startup, accepts, offers, offerAge, prompt, answering, reply, blocked>>
  BY DEF Ask, engineVars
<1>4. Queued' = Queued /\ \A q : Untouched(q)' = Untouched(q)
  BY <1>3 DEF Queued, Untouched
<1>5. r \notin Queued /\ r \notin offers /\ r # prompt /\ Untouched(r)
  BY <1>2 DEF NewOK
<1>6. NewOK' /\ PromptOK'
  BY <1>2, <1>3, <1>4, <1>5 DEF NewOK, PromptOK
<1>7. QueuedOK'
  BY <1>2, <1>3, <1>4, <1>5, QueuedInRequests DEF QueuedOK
<1>8. ParkedOK'
  <2>1. IsFiniteSet(offers') /\ offers' = offers /\ prompt' = prompt
    BY <1>3 DEF ParkedOK
  <2>2. offerAge' = offerAge
    BY <1>3
  <2>3. ASSUME NEW q \in offers
        PROVE  /\ handler'[q] = "waiting" /\ handlerAge'[q] <= offerAge[q] + StartupLag
               /\ q # prompt /\ Untouched(q)'
    <3>1. q \in Request /\ q # r
      BY <1>5, <2>3 DEF DataOK
    <3>2. handler'[q] = handler[q] /\ handlerAge'[q] = handlerAge[q]
      BY <1>2, <3>1
    <3>. QED
      BY <1>4, <2>3, <3>2 DEF ParkedOK
  <2>. QED
    BY <2>1, <2>2, <2>3 DEF ParkedOK
<1>9. DecisionOK'
  BY <1>2, <1>3, <1>5 DEF DecisionOK, Untouched
<1>. QED
  BY <1>1, <1>6, <1>7, <1>8, <1>9

\* The request enters the channel.
LEMMA EnqueueIInv ==
  ASSUME NEW r \in Request, IInv, Enqueue(r)
  PROVE  IInv'
<1>. USE DEF IInv
<1>1. /\ handler[r] = "asking" /\ handler'[r] = "waiting" /\ handlerAge'[r] = 0
      /\ \A q \in Request : q # r => /\ handler'[q] = handler[q]
                                     /\ handlerAge'[q] = handlerAge[q]
      /\ UNCHANGED <<startup, offers, offerAge, prompt, answering, reply, said, blocked>>
  BY DEF DataOK, Enqueue, Move
<1>2. /\ accepts' \in Seq(Request)
      /\ Len(accepts') = Len(accepts) + 1
      /\ Queued' = Queued \cup {r}
      /\ \A i \in 1 .. Len(accepts) : accepts'[i] = accepts[i]
      /\ accepts'[Len(accepts) + 1] = r
  BY QueuedAppend DEF DataOK, Enqueue
<1>3. Len(accepts) \in Nat /\ Len(accepts) < AcceptCap
  BY DEF DataOK, Enqueue
<1>4. FlagsOK' /\ DataOK'
  <2>1. FlagsOK'
    BY DEF FlagsOK, Enqueue
  <2>2. DataOK'
    <3>1. /\ handler' \in [Request -> {"new", "asking", "waiting", "accepted", "declined"}]
          /\ handlerAge' \in [Request -> 0 .. ServerWait + EnqueueWait]
      BY Moves DEF Enqueue
    <3>2. Len(accepts') <= AcceptCap
      BY <1>2, <1>3, OffersAssumption
    <3>3. UNCHANGED <<program, startup, offers, offerAge, prompt, answering,
                      sender, senderAge, reply, said, blocked>>
      BY DEF Enqueue, senderVars
    <3>. QED
      BY <1>2, <3>1, <3>2, <3>3 DEF DataOK
  <2>. QED
    BY <2>1, <2>2
<1>5. \A q : Untouched(q)' = Untouched(q)
  BY <1>1 DEF Untouched
<1>6. r \notin Queued /\ r \notin offers /\ r # prompt /\ Untouched(r)
  BY <1>1 DEF NewOK
<1>7. NewOK' /\ PromptOK' /\ DecisionOK'
  BY <1>1, <1>2, <1>5, <1>6 DEF NewOK, PromptOK, DecisionOK
<1>8. QueuedOK'
  <2>1. ASSUME NEW i \in 1 .. Len(accepts'), NEW j \in 1 .. Len(accepts'), i # j
        PROVE  accepts'[i] # accepts'[j]
    <3>1. \A k \in 1 .. Len(accepts') : k = Len(accepts) + 1 \/ k \in 1 .. Len(accepts)
      BY <1>2, <1>3
    <3>2. \A k \in 1 .. Len(accepts) : accepts[k] \in Queued
      BY DEF Queued
    <3>. QED
      BY <1>2, <1>6, <2>1, <3>1, <3>2 DEF QueuedOK
  <2>2. ASSUME NEW q \in Queued'
        PROVE  /\ handler'[q] = "waiting" /\ handlerAge'[q] <= startup'
               /\ q \notin offers' /\ q # prompt' /\ Untouched(q)'
    <3>1. CASE q = r
      BY <1>1, <1>6, <3>1 DEF DataOK, Untouched
    <3>2. CASE q \in Queued
      BY <1>1, <1>6, <3>2, QueuedInRequests DEF QueuedOK, Untouched
    <3>. QED
      BY <1>2, <3>1, <3>2
  <2>. QED
    BY <2>1, <2>2 DEF QueuedOK
<1>9. ParkedOK'
  BY <1>1, <1>5, <1>6 DEF ParkedOK, DataOK
<1>. QED
  BY <1>4, <1>7, <1>8, <1>9

\* Nobody drained the channel in time.
LEMMA AskTimesOutIInv ==
  ASSUME NEW r \in Request, IInv, AskTimesOut(r)
  PROVE  IInv'
<1>. USE DEF IInv
<1>1. /\ handler[r] = "asking" /\ Move(r, "declined")
      /\ UNCHANGED <<program, startup, accepts, offers, offerAge, prompt, answering,
                     sender, senderAge, reply, said, blocked>>
  BY DEF AskTimesOut, AskOver, engineVars, senderVars
<1>2. FlagsOK'
  BY DEF FlagsOK, AskTimesOut, engineVars
<1>3. DataOK'
  BY <1>1, Moves DEF DataOK
<1>4. Queued' = Queued /\ \A q : Untouched(q)' = Untouched(q)
  BY <1>1 DEF Queued, Untouched
<1>5. r \notin Queued /\ r \notin offers /\ r # prompt
  BY <1>1 DEF NewOK
<1>6. handler'[r] = "declined"
      /\ \A q \in Request : q # r => /\ handler'[q] = handler[q]
                                     /\ handlerAge'[q] = handlerAge[q]
  BY <1>1, Moves
<1>7. NewOK' /\ PromptOK' /\ DecisionOK'
  BY <1>1, <1>4, <1>6 DEF NewOK, PromptOK, DecisionOK
<1>8. QueuedOK' /\ ParkedOK'
  <2>1. \A q \in Queued \cup offers : q \in Request /\ q # r
    BY <1>5, QueuedInRequests DEF DataOK
  <2>. QED
    BY <1>1, <1>4, <1>6, <2>1 DEF QueuedOK, ParkedOK
<1>. QED
  BY <1>2, <1>3, <1>7, <1>8

\* The decision arrives.
LEMMA ReceiveReplyIInv ==
  ASSUME NEW r \in Request, IInv, ReceiveReply(r)
  PROVE  IInv'
<1>. USE DEF IInv
<1>. PICK label \in {"accepted", "declined"} :
       label = (IF reply[r] = "yes" THEN "accepted" ELSE "declined")
  OBVIOUS
<1>1. /\ handler[r] = "waiting" /\ reply[r] # "none" /\ Move(r, label)
      /\ reply' = [reply EXCEPT ![r] = "none"]
      /\ UNCHANGED <<program, startup, accepts, offers, offerAge, prompt, answering,
                     sender, senderAge, said, blocked>>
  BY DEF ReceiveReply, engineVars, senderVars
<1>2. FlagsOK'
  BY DEF FlagsOK, ReceiveReply, engineVars
<1>3. DataOK'
  BY <1>1, Moves DEF DataOK
<1>4. r \notin Queued /\ r \notin offers /\ r # prompt /\ handler[r] \notin {"new", "asking"}
  BY <1>1, DecidedNowhere DEF Untouched
<1>5. /\ handler'[r] = label
      /\ \A q \in Request : q # r => /\ handler'[q] = handler[q]
                                     /\ handlerAge'[q] = handlerAge[q]
  BY <1>1, Moves
<1>6. /\ Queued' = Queued /\ reply'[r] = "none"
      /\ \A q \in Request : q # r => reply'[q] = reply[q] /\ Untouched(q)' = Untouched(q)
  BY <1>1 DEF Queued, Untouched, DataOK
<1>7. NewOK' /\ PromptOK'
  BY <1>1, <1>4, <1>5, <1>6 DEF NewOK, PromptOK
<1>8. QueuedOK' /\ ParkedOK'
  <2>1. \A q \in Queued \cup offers : q \in Request /\ q # r
    BY <1>4, QueuedInRequests DEF DataOK
  <2>. QED
    BY <1>1, <1>5, <1>6, <2>1 DEF QueuedOK, ParkedOK
<1>9. DecisionOK'
  BY <1>1, <1>5, <1>6 DEF DecisionOK
<1>. QED
  BY <1>2, <1>3, <1>7, <1>8, <1>9

\* askAccept gives up.  It never does so on an offer that is parked or still
\* in the channel: those timers are shorter.
LEMMA WaitTimesOutIInv ==
  ASSUME NEW r \in Request, IInv, WaitTimesOut(r)
  PROVE  IInv'
<1>. USE DEF IInv
<1>1. /\ handler[r] = "waiting" /\ handlerAge[r] >= ServerWait /\ Move(r, "declined")
      /\ UNCHANGED <<program, startup, accepts, offers, offerAge, prompt, answering,
                     sender, senderAge, reply, said, blocked>>
  BY DEF WaitTimesOut, WaitOver, engineVars, senderVars
<1>2. FlagsOK'
  BY DEF FlagsOK, WaitTimesOut, engineVars
<1>3. DataOK'
  BY <1>1, Moves DEF DataOK
<1>4. r \notin offers /\ r \notin Queued
  <2>1. offerAge[r] \in 0 .. HoldFor /\ startup \in 0 .. StartupLag
        /\ handlerAge[r] \in 0 .. ServerWait + EnqueueWait
    BY DEF DataOK
  <2>2. r \in offers => handlerAge[r] <= offerAge[r] + StartupLag
    BY DEF ParkedOK
  <2>3. r \in Queued => handlerAge[r] <= startup
    BY DEF QueuedOK
  <2>. QED
    BY <1>1, <2>1, <2>2, <2>3, OffersAssumption
<1>5. Queued' = Queued /\ \A q : Untouched(q)' = Untouched(q)
  BY <1>1 DEF Queued, Untouched
<1>6. handler'[r] = "declined"
      /\ \A q \in Request : q # r => /\ handler'[q] = handler[q]
                                     /\ handlerAge'[q] = handlerAge[q]
  BY <1>1, Moves
<1>7. NewOK' /\ PromptOK' /\ DecisionOK'
  BY <1>1, <1>5, <1>6 DEF NewOK, PromptOK, DecisionOK
<1>8. QueuedOK' /\ ParkedOK'
  <2>1. \A q \in Queued \cup offers : q \in Request /\ q # r
    BY <1>4, QueuedInRequests DEF DataOK
  <2>. QED
    BY <1>1, <1>5, <1>6, <2>1 DEF QueuedOK, ParkedOK
<1>. QED
  BY <1>2, <1>3, <1>7, <1>8

\* The setting, the start of the pump and the sender's side touch no question.
LEMMA QuietIInv ==
  ASSUME IInv,
         \/ SetAutoAccept \/ StartPump \/ UNCHANGED vars
         \/ \E r \in Request : HearAnswer(r) \/ SenderTimesOut(r)
  PROVE  IInv'
<1>. USE DEF IInv
<1>1. UNCHANGED <<program, startup, accepts, offers, offerAge, prompt, answering,
                  handler, handlerAge, senderAge, reply, said, blocked>>
  BY DEF SetAutoAccept, StartPump, HearAnswer, SenderTimesOut, vars, engineVars,
         handlerVars, senderVars
<1>2. FlagsOK'
  <2>1. CASE SetAutoAccept
    BY <2>1 DEF FlagsOK, SetAutoAccept, engineVars
  <2>2. CASE StartPump
    BY <2>2 DEF FlagsOK, StartPump
  <2>3. CASE UNCHANGED vars \/ \E r \in Request : HearAnswer(r) \/ SenderTimesOut(r)
    BY <2>3 DEF FlagsOK, HearAnswer, SenderTimesOut, vars, engineVars
  <2>. QED
    BY <2>1, <2>2, <2>3
<1>3. sender' \in [Request -> {"new", "waiting", "told", "gaveUp"}]
  <2>1. CASE sender' = sender
    BY <2>1 DEF DataOK
  <2>2. CASE \E r \in Request : HearAnswer(r) \/ SenderTimesOut(r)
    <3>. PICK r \in Request : HearAnswer(r) \/ SenderTimesOut(r)
      BY <2>2
    <3>1. \/ sender' = [sender EXCEPT ![r] = "told"]
          \/ sender' = [sender EXCEPT ![r] = "gaveUp"]
      BY DEF HearAnswer, SenderTimesOut
    <3>. QED
      BY <3>1 DEF DataOK
  <2>. QED
    BY <2>1, <2>2 DEF SetAutoAccept, StartPump, vars, senderVars
<1>4. DataOK'
  BY <1>1, <1>3 DEF DataOK
<1>5. Queued' = Queued /\ \A q : Untouched(q)' = Untouched(q)
  BY <1>1 DEF Queued, Untouched
<1>6. NewOK' /\ QueuedOK' /\ ParkedOK' /\ PromptOK' /\ DecisionOK'
  BY <1>1, <1>5 DEF NewOK, QueuedOK, ParkedOK, PromptOK, DecisionOK
<1>. QED
  BY <1>2, <1>4, <1>6

\* The head of the channel is in no other place, before or after it is taken.
LEMMA HeadIsAlone ==
  ASSUME IInv, accepts # <<>>, accepts' = Tail(accepts)
  PROVE  /\ accepts' \in Seq(Request) /\ Len(accepts') <= AcceptCap
         /\ Head(accepts) \in Request /\ Head(accepts) \in Queued
         /\ Head(accepts) \notin Queued' /\ Queued' \subseteq Queued
         /\ \A i, j \in 1 .. Len(accepts') : i # j => accepts'[i] # accepts'[j]
<1>. USE DEF IInv
<1>1. /\ Head(accepts) \in Request
      /\ accepts' \in Seq(Request)
      /\ Len(accepts') = Len(accepts) - 1
      /\ Queued = Queued' \cup {Head(accepts)}
      /\ \A i \in 1 .. Len(accepts') : i + 1 \in 1 .. Len(accepts) /\ accepts'[i] = accepts[i + 1]
  BY QueuedTail DEF DataOK
<1>2. Len(accepts) \in Nat /\ Len(accepts) <= AcceptCap /\ Head(accepts) = accepts[1]
      /\ 1 \in 1 .. Len(accepts)
  <2>1. Len(accepts) \in Nat \ {0} /\ Head(accepts) = accepts[1] /\ Len(accepts) <= AcceptCap
    BY DEF DataOK
  <2>. QED
    BY <2>1
<1>3. \A i, j \in 1 .. Len(accepts') : i # j => accepts'[i] # accepts'[j]
  <2>1. \A i, j \in 1 .. Len(accepts') : i # j => i + 1 # j + 1
    OBVIOUS
  <2>. QED
    BY <1>1, <2>1 DEF QueuedOK
<1>4. Head(accepts) \notin Queued'
  <2>. SUFFICES ASSUME NEW i \in 1 .. Len(accepts') PROVE accepts'[i] # Head(accepts)
    BY DEF Queued
  <2>1. i + 1 # 1
    OBVIOUS
  <2>. QED
    BY <1>1, <1>2, <2>1 DEF QueuedOK
<1>5. Len(accepts') <= AcceptCap
  BY <1>1, <1>2, OffersAssumption
<1>. QED
  BY <1>1, <1>3, <1>4, <1>5

\* holdOffer parks the request or, at the cap, declines it.
LEMMA HoldOfferIInv ==
  ASSUME IInv, HoldOffer
  PROVE  IInv'
<1>. USE DEF IInv
<1>. DEFINE r == Head(accepts)
<1>1. /\ accepts # <<>> /\ accepts' = Tail(accepts)
      /\ UNCHANGED <<program, startup, prompt, answering, handler, handlerAge,
                     sender, senderAge, said, blocked>>
  BY DEF HoldOffer, handlerVars, senderVars
<1>2. /\ accepts' \in Seq(Request) /\ Len(accepts') <= AcceptCap
      /\ r \in Request /\ r \in Queued /\ r \notin Queued' /\ Queued' \subseteq Queued
      /\ \A i, j \in 1 .. Len(accepts') : i # j => accepts'[i] # accepts'[j]
  BY <1>1, HeadIsAlone
<1>3. /\ handler[r] = "waiting" /\ handlerAge[r] <= startup
      /\ r \notin offers /\ r # prompt /\ answering[r] = "none" /\ reply[r] = "none"
  BY <1>2 DEF QueuedOK, Untouched
<1>4. FlagsOK'
  BY DEF FlagsOK, HoldOffer
<1>5. IsFiniteSet(offers) /\ Cardinality(offers) \in Nat
  BY FS_CardinalityType DEF ParkedOK
<1>6. CASE Room
  <2>1. /\ offers' = offers \cup {r}
        /\ offerAge' = [offerAge EXCEPT ![r] = 0]
        /\ reply' = reply
    BY <1>6 DEF HoldOffer
  <2>2. IsFiniteSet(offers') /\ Cardinality(offers') = Cardinality(offers) + 1
    BY <1>3, <1>5, <2>1, FS_AddElement
  <2>3. Cardinality(offers') <= MaxHeld
    BY <1>5, <1>6, <2>2, OffersAssumption DEF Room
  <2>4. offerAge' \in [Request -> 0 .. HoldFor] /\ offerAge'[r] = 0
        /\ \A q \in Request : q # r => offerAge'[q] = offerAge[q]
    BY <1>2, <2>1, OffersAssumption DEF DataOK
  <2>5. DataOK'
    BY <1>1, <1>2, <2>1, <2>3, <2>4 DEF DataOK
  <2>6. \A q : Untouched(q)' = Untouched(q)
    BY <1>1, <2>1 DEF Untouched
  <2>7. NewOK' /\ PromptOK' /\ DecisionOK'
    BY <1>1, <1>2, <1>3, <2>1, <2>6 DEF NewOK, PromptOK, DecisionOK
  <2>8. QueuedOK'
    BY <1>1, <1>2, <2>1, <2>6 DEF QueuedOK
  <2>9. handlerAge[r] <= 0 + StartupLag
    BY <1>2, <1>3, OffersAssumption DEF DataOK
  <2>10. ParkedOK'
    BY <1>1, <1>3, <2>1, <2>2, <2>4, <2>6, <2>9 DEF ParkedOK, DataOK, Untouched
  <2>. QED
    BY <1>4, <2>5, <2>7, <2>8, <2>10
<1>7. CASE ~Room
  <2>1. /\ reply' = [reply EXCEPT ![r] = "no"]
        /\ offers' = offers /\ offerAge' = offerAge
    BY <1>7 DEF HoldOffer
  <2>2. DataOK'
    BY <1>1, <1>2, <2>1 DEF DataOK
  <2>3. /\ reply'[r] = "no"
        /\ \A q \in Request : q # r => reply'[q] = reply[q] /\ Untouched(q)' = Untouched(q)
    BY <1>1, <1>2, <2>1 DEF Untouched, DataOK
  <2>4. NewOK' /\ PromptOK' /\ DecisionOK'
    BY <1>1, <1>2, <1>3, <2>1, <2>3 DEF NewOK, PromptOK, DecisionOK
  <2>5. QueuedOK' /\ ParkedOK'
    BY <1>1, <1>2, <1>3, <2>1, <2>3, QueuedInRequests DEF QueuedOK, ParkedOK, DataOK
  <2>. QED
    BY <1>4, <2>2, <2>4, <2>5
<1>. QED
  BY <1>6, <1>7

\* BridgeServer shows the request, over whatever the prompt showed.
LEMMA ShowPromptIInv ==
  ASSUME IInv, ShowPrompt
  PROVE  IInv'
<1>. USE DEF IInv
<1>1. /\ accepts # <<>> /\ accepts' = Tail(accepts) /\ prompt' = Head(accepts)
      /\ UNCHANGED <<program, startup, offers, offerAge, answering, handler, handlerAge,
                     sender, senderAge, reply, said, blocked>>
  BY DEF ShowPrompt, handlerVars, senderVars
<1>2. /\ accepts' \in Seq(Request) /\ Len(accepts') <= AcceptCap
      /\ prompt' \in Request /\ prompt' \in Queued /\ prompt' \notin Queued'
      /\ Queued' \subseteq Queued
      /\ \A i, j \in 1 .. Len(accepts') : i # j => accepts'[i] # accepts'[j]
  BY <1>1, HeadIsAlone
<1>3. FlagsOK'
  BY DEF FlagsOK, ShowPrompt
<1>4. DataOK'
  BY <1>1, <1>2 DEF DataOK
<1>5. \A q : Untouched(q)' = Untouched(q)
  BY <1>1 DEF Untouched
<1>6. NewOK' /\ QueuedOK' /\ ParkedOK' /\ PromptOK' /\ DecisionOK'
  BY <1>1, <1>2, <1>5 DEF NewOK, QueuedOK, ParkedOK, PromptOK, DecisionOK
<1>. QED
  BY <1>3, <1>4, <1>6

\* A client or the hold timer takes the offer off the table; whoever comes
\* second finds it gone, so the decision under way is the only one.
LEMMA UnparkIInv ==
  ASSUME NEW r \in Request, NEW d \in Decision, IInv,
         ClientAnswers(r, d) \/ (OfferExpires(r) /\ d = "no")
  PROVE  IInv'
<1>. USE DEF IInv
<1>1. /\ r \in offers /\ offers' = offers \ {r}
      /\ answering' = [answering EXCEPT ![r] = d]
      /\ UNCHANGED <<program, startup, accepts, offerAge, prompt, handler, handlerAge,
                     sender, senderAge, reply, blocked>>
  BY DEF ClientAnswers, OfferExpires, HoldOver, Unpark, Decide, handlerVars, senderVars
<1>2. /\ said' \in [Request -> {"nothing", "auto", "yes", "no", "timer"}]
      /\ d = "yes" => said'[r] = "yes"
      /\ \A q \in Request : q # r => said'[q] = said[q]
  <2>1. CASE ClientAnswers(r, d)
    BY <2>1 DEF ClientAnswers, DataOK, Decision
  <2>2. CASE OfferExpires(r) /\ d = "no"
    BY <2>2 DEF OfferExpires, DataOK
  <2>. QED
    BY <2>1, <2>2
<1>3. FlagsOK'
  BY DEF FlagsOK, ClientAnswers, OfferExpires
<1>4. IsFiniteSet(offers') /\ Cardinality(offers') <= MaxHeld
  <2>1. IsFiniteSet(offers') /\ Cardinality(offers') <= Cardinality(offers)
    BY <1>1, FS_Subset DEF ParkedOK
  <2>2. Cardinality(offers) \in Nat /\ Cardinality(offers') \in Nat
    BY <2>1, FS_CardinalityType DEF ParkedOK
  <2>. QED
    BY <2>1, <2>2, OffersAssumption DEF DataOK
<1>5. DataOK'
  BY <1>1, <1>2, <1>4 DEF DataOK, Decision
<1>6. /\ handler[r] = "waiting" /\ r # prompt /\ r \notin Queued /\ reply[r] = "none"
  BY <1>1 DEF ParkedOK, QueuedOK, Untouched
<1>7. /\ Queued' = Queued /\ answering'[r] = d
      /\ \A q \in Request : q # r => answering'[q] = answering[q] /\ Untouched(q)' = Untouched(q)
  BY <1>1 DEF Queued, Untouched, DataOK
<1>8. NewOK' /\ PromptOK'
  BY <1>1, <1>6, <1>7 DEF NewOK, PromptOK
<1>9. QueuedOK' /\ ParkedOK'
  <2>1. /\ \A q \in Queued : q \in Request /\ q # r
        /\ \A q \in offers' : q \in Request /\ q # r /\ q \in offers
    BY <1>1, <1>6, QueuedInRequests DEF DataOK
  <2>. QED
    BY <1>1, <1>4, <1>7, <2>1 DEF QueuedOK, ParkedOK
<1>10. DecisionOK'
  BY <1>1, <1>2, <1>6, <1>7 DEF DecisionOK
<1>. QED
  BY <1>3, <1>5, <1>8, <1>9, <1>10

\* The Reply channel is empty when the decision is sent.
LEMMA ReplyIInv ==
  ASSUME NEW r \in Request, IInv, Reply(r)
  PROVE  IInv'
<1>. USE DEF IInv
<1>1. /\ answering[r] # "none" /\ reply[r] = "none"
      /\ answering' = [answering EXCEPT ![r] = "none"]
      /\ reply' = [reply EXCEPT ![r] = answering[r]]
      /\ UNCHANGED <<program, startup, accepts, offers, offerAge, prompt, handler,
                     handlerAge, sender, senderAge, said, blocked>>
  BY DEF Reply, DecisionOK, handlerVars, senderVars
<1>2. FlagsOK'
  BY DEF FlagsOK, Reply
<1>3. DataOK'
  BY <1>1 DEF DataOK
<1>4. r \notin Queued /\ r \notin offers /\ r # prompt /\ handler[r] \notin {"new", "asking"}
  BY <1>1, DecidedNowhere DEF Untouched
<1>5. /\ Queued' = Queued /\ answering'[r] = "none" /\ reply'[r] = answering[r]
      /\ \A q \in Request : q # r => /\ answering'[q] = answering[q] /\ reply'[q] = reply[q]
                                     /\ Untouched(q)' = Untouched(q)
  BY <1>1 DEF Queued, Untouched, DataOK
<1>6. NewOK' /\ PromptOK'
  BY <1>1, <1>4, <1>5 DEF NewOK, PromptOK
<1>7. QueuedOK' /\ ParkedOK'
  <2>1. \A q \in Queued \cup offers : q \in Request /\ q # r
    BY <1>4, QueuedInRequests DEF DataOK
  <2>. QED
    BY <1>1, <1>5, <2>1 DEF QueuedOK, ParkedOK
<1>8. DecisionOK'
  BY <1>1, <1>5 DEF DecisionOK
<1>. QED
  BY <1>2, <1>3, <1>6, <1>7, <1>8

\* A key answers the prompt and clears it.
LEMMA PromptAnswersIInv ==
  ASSUME NEW d \in Decision, IInv, PromptAnswers(d)
  PROVE  IInv'
<1>. USE DEF IInv
<1>. PICK r \in Request : r = prompt
  BY DEF PromptAnswers, DataOK
<1>1. /\ r = prompt /\ prompt' = NoRequest
      /\ answering' = [answering EXCEPT ![r] = d]
      /\ said' = [said EXCEPT ![r] = d]
      /\ UNCHANGED <<program, startup, accepts, offers, offerAge, handler, handlerAge,
                     sender, senderAge, reply, blocked>>
  BY DEF PromptAnswers, Decide, handlerVars, senderVars
<1>2. FlagsOK'
  BY DEF FlagsOK, PromptAnswers
<1>3. DataOK'
  BY <1>1 DEF DataOK, Decision
<1>4. /\ handler[r] \in {"waiting", "declined"} /\ reply[r] = "none"
      /\ r \notin Queued /\ r \notin offers
  BY <1>1 DEF PromptOK, QueuedOK, ParkedOK, Untouched
<1>5. /\ Queued' = Queued /\ answering'[r] = d /\ said'[r] = d
      /\ \A q \in Request : q # r => /\ answering'[q] = answering[q] /\ said'[q] = said[q]
                                     /\ Untouched(q)' = Untouched(q)
  BY <1>1 DEF Queued, Untouched, DataOK
<1>6. \A q \in Request : q # prompt'
  BY <1>1, OffersAssumption
<1>7. NewOK' /\ PromptOK'
  BY <1>1, <1>4, <1>5, <1>6 DEF NewOK, PromptOK
<1>8. QueuedOK' /\ ParkedOK'
  <2>1. \A q \in Queued \cup offers : q \in Request /\ q # r
    BY <1>4, QueuedInRequests DEF DataOK
  <2>. QED
    BY <1>1, <1>5, <1>6, <2>1 DEF QueuedOK, ParkedOK
<1>9. DecisionOK'
  BY <1>1, <1>4, <1>5 DEF DecisionOK, Decision
<1>. QED
  BY <1>2, <1>3, <1>7, <1>8, <1>9

\* A tick passes: no timer is due, and once the pump runs the channel is empty.
LEMMA TickIInv ==
  ASSUME IInv, Tick
  PROVE  IInv'
<1>. USE DEF IInv
<1>1. /\ UNCHANGED <<program, handler, accepts, offers, prompt, answering, sender, reply,
                     said, blocked>>
      /\ \A r \in Request : ~Due(r)
  BY DEF Tick
<1>2. FlagsOK'
  BY DEF FlagsOK, Tick
<1>3. \A r \in Request :
        /\ handler[r] = "asking" => handlerAge[r] < EnqueueWait
        /\ handler[r] = "waiting" => handlerAge[r] < ServerWait
        /\ r \in offers => offerAge[r] < HoldFor
        /\ sender[r] = "waiting" => senderAge[r] < SenderWait
  BY <1>1, OffersAssumption DEF Due, AskOver, WaitOver, HoldOver, DataOK
<1>4. \A r \in Request :
        handlerAge'[r] = IF handler[r] \in {"asking", "waiting"} THEN handlerAge[r] + 1
                                                                 ELSE handlerAge[r]
  <2>. SUFFICES ASSUME NEW r \in Request
                PROVE  handlerAge'[r] = IF handler[r] \in {"asking", "waiting"}
                                        THEN handlerAge[r] + 1 ELSE handlerAge[r]
    OBVIOUS
  <2>1. handler[r] \in {"asking", "waiting"} => handlerAge[r] < LastTimer
    BY <1>3, OffersAssumption DEF LastTimer, DataOK
  <2>. QED
    BY <2>1 DEF Tick, Aged
<1>5. \A r \in Request :
        offerAge'[r] = IF r \in offers THEN offerAge[r] + 1 ELSE offerAge[r]
  <2>. SUFFICES ASSUME NEW r \in Request
                PROVE  offerAge'[r] = IF r \in offers THEN offerAge[r] + 1 ELSE offerAge[r]
    OBVIOUS
  <2>1. r \in offers => offerAge[r] < LastTimer
    BY <1>3, OffersAssumption DEF LastTimer, DataOK
  <2>. QED
    BY <2>1 DEF Tick, Aged
<1>6. DataOK'
  <2>1. handlerAge' \in [Request -> 0 .. ServerWait + EnqueueWait]
    <3>1. ASSUME NEW r \in Request PROVE handlerAge'[r] \in 0 .. ServerWait + EnqueueWait
      <4>1. handlerAge[r] \in 0 .. ServerWait + EnqueueWait
        BY DEF DataOK
      <4>2. CASE handler[r] \in {"asking", "waiting"}
        <5>1. handlerAge[r] < EnqueueWait \/ handlerAge[r] < ServerWait
          BY <1>3, <4>2
        <5>2. handlerAge'[r] = handlerAge[r] + 1
          BY <1>4, <4>2
        <5>. QED
          BY <4>1, <5>1, <5>2, OffersAssumption
      <4>3. CASE handler[r] \notin {"asking", "waiting"}
        BY <1>4, <4>1, <4>3
      <4>. QED
        BY <4>2, <4>3
    <3>2. handlerAge' = [r \in Request |-> handlerAge'[r]]
      BY DEF Tick, Aged
    <3>. QED
      BY <3>1, <3>2
  <2>2. offerAge' \in [Request -> 0 .. HoldFor]
    <3>1. ASSUME NEW r \in Request PROVE offerAge'[r] \in 0 .. HoldFor
      <4>1. offerAge[r] \in 0 .. HoldFor
        BY DEF DataOK
      <4>2. r \in offers => offerAge[r] < HoldFor
        BY <1>3
      <4>. QED
        BY <1>5, <4>1, <4>2, OffersAssumption
    <3>2. offerAge' = [r \in Request |-> offerAge'[r]]
      BY DEF Tick, Aged
    <3>. QED
      BY <3>1, <3>2
  <2>3. senderAge' \in [Request -> 0 .. SenderWait]
    <3>. SUFFICES ASSUME NEW r \in Request
                  PROVE  (IF r \in {q \in Request : sender[q] = "waiting"}
                             /\ senderAge[r] < LastTimer
                          THEN senderAge[r] + 1 ELSE senderAge[r]) \in 0 .. SenderWait
      BY DEF Tick, Aged
    <3>. QED
      BY <1>3, OffersAssumption DEF DataOK
  <2>4. startup' \in 0 .. StartupLag
    <3>1. startup' = startup \/ (startup' = startup + 1 /\ startup < StartupLag)
      BY DEF Tick
    <3>. QED
      BY <3>1, OffersAssumption DEF DataOK
  <2>. QED
    BY <1>1, <2>1, <2>2, <2>3, <2>4 DEF DataOK
<1>7. Queued' = Queued /\ \A q : Untouched(q)' = Untouched(q)
  BY <1>1 DEF Queued, Untouched
<1>8. NewOK' /\ PromptOK' /\ DecisionOK'
  BY <1>1, <1>7 DEF NewOK, PromptOK, DecisionOK
<1>9. QueuedOK'
  <2>1. CASE pumping
    <3>1. Queued = {}
      BY <2>1 DEF Tick, Queued
    <3>. QED
      BY <1>1, <1>7, <3>1 DEF QueuedOK
  <2>2. CASE ~pumping
    <3>1. startup' = startup + 1
      BY <2>2 DEF Tick
    <3>2. \A q \in Queued : q \in Request /\ handlerAge'[q] = handlerAge[q] + 1
      BY <1>4, QueuedInRequests DEF QueuedOK
    <3>3. \A q \in Queued : handlerAge'[q] <= startup'
      BY <3>1, <3>2, OffersAssumption DEF QueuedOK, DataOK
    <3>. QED
      BY <1>1, <1>7, <3>3 DEF QueuedOK
  <2>. QED
    BY <2>1, <2>2
<1>10. ParkedOK'
  <2>1. ASSUME NEW r \in offers PROVE handlerAge'[r] <= offerAge'[r] + StartupLag
    <3>1. /\ r \in Request /\ handler[r] = "waiting"
          /\ handlerAge[r] <= offerAge[r] + StartupLag
      BY DEF ParkedOK, DataOK
    <3>2. handlerAge'[r] = handlerAge[r] + 1 /\ offerAge'[r] = offerAge[r] + 1
      BY <1>4, <1>5, <3>1
    <3>3. handlerAge[r] \in Nat /\ offerAge[r] \in Nat
      BY <3>1, OffersAssumption DEF DataOK
    <3>. QED
      BY <3>1, <3>2, <3>3, OffersAssumption
  <2>. QED
    BY <1>1, <1>7, <2>1 DEF ParkedOK
<1>. QED
  BY <1>2, <1>6, <1>8, <1>9, <1>10

-----------------------------------------------------------------------------
(* The theorems. *)

\* Every step keeps the invariant.
LEMMA NextIInv == IInv /\ [Next]_vars => IInv'
<1>. SUFFICES ASSUME IInv, [Next]_vars PROVE IInv'
  OBVIOUS
<1>1. CASE Advance
  <2>1. CASE HoldOffer \/ ShowPrompt \/ Tick \/ StartPump
    BY <2>1, HoldOfferIInv, ShowPromptIInv, TickIInv, QuietIInv
  <2>2. ASSUME NEW r \in Request,
               \/ Enqueue(r) \/ AskTimesOut(r) \/ ReceiveReply(r) \/ WaitTimesOut(r)
               \/ OfferExpires(r) \/ Reply(r) \/ HearAnswer(r) \/ SenderTimesOut(r)
        PROVE  IInv'
    BY <2>2, EnqueueIInv, AskTimesOutIInv, ReceiveReplyIInv, WaitTimesOutIInv,
       UnparkIInv, ReplyIInv, QuietIInv DEF Decision
  <2>. QED
    BY <1>1, <2>1, <2>2 DEF Advance
<1>2. CASE SetAutoAccept \/ UNCHANGED vars
  BY <1>2, QuietIInv
<1>3. ASSUME NEW r \in Request, Ask(r) \/ \E d \in Decision : ClientAnswers(r, d)
      PROVE  IInv'
  BY <1>3, AskIInv, UnparkIInv
<1>4. ASSUME NEW d \in Decision, PromptAnswers(d) PROVE IInv'
  BY <1>4, PromptAnswersIInv
<1>. QED
  BY <1>1, <1>2, <1>3, <1>4 DEF Next

\* So it always holds.
LEMMA Invariance == Spec => []IInv
BY InitIInv, NextIInv, PTL DEF Spec

\* Every variable keeps its type: in particular never more than maxHeldOffers
\* requests are parked, and no timer runs past its time.
THEOREM TypeCorrect == Spec => []TypeOK
<1>1. FlagsOK /\ DataOK => TypeOK
  BY DEF FlagsOK, DataOK, TypeOK, Decision
<1>2. IInv => TypeOK
  BY <1>1 DEF IInv
<1>. QED
  BY <1>2, Invariance, PTL

\* resolveOffer answers a parked offer exactly once, whoever races for it:
\* clients, the hold timer, the prompt's keys; nobody finds the reply there.
THEOREM OffersAreAnsweredOnce == Spec => []AnsweredOnce
<1>1. IInv => AnsweredOnce
  BY DEF IInv, AnsweredOnce, ParkedOK, PromptOK, DecisionOK, DataOK, Untouched
<1>. QED
  BY <1>1, Invariance, PTL

\* While an offer is parked its request still waits for the decision: the hold
\* timer undercuts askAccept's, even for a request that came before the pump.
THEOREM OffersStayAnswerable == Spec => []OffersAnswerable
<1>1. IInv => OffersAnswerable
  BY DEF IInv, OffersAnswerable, ParkedOK
<1>. QED
  BY <1>1, Invariance, PTL

\* A request is accepted only by auto-accept as it was when the request came,
\* or by somebody who answered this very request.
THEOREM OnlyUsersAccept == Spec => []AcceptedByUser
<1>1. IInv => AcceptedByUser
  BY DEF IInv, AcceptedByUser, DecisionOK
<1>. QED
  BY <1>1, Invariance, PTL

==============================================================================
