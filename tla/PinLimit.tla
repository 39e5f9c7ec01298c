------------------------------ MODULE PinLimit ------------------------------
(***************************************************************************)
(* The PIN gate of prepare-upload and the limiter behind it                *)
(* (internal/server/pinlimit.go, handlePrepareUpload).                     *)
(*                                                                         *)
(* A request asks whether its source is locked out, compares the PIN       *)
(* without holding anything, and then records the failure or clears the    *)
(* record: two holds of the limiter's lock with a gap between them, and    *)
(* net/http runs any number of requests of one source at once.             *)
(*                                                                         *)
(* Time is counted in ticks.  A source without a record has no strikes:    *)
(* fail never leaves a record with none.  until = 0 is Go's zero time.     *)
(***************************************************************************)
EXTENDS Naturals, FiniteSets

CONSTANTS
  Ip,        \* the sources that send requests
  Handler,   \* goroutines that serve prepare-upload
  NoIp,
  MaxFails,  \* pinMaxFails
  Lockout,   \* pinLockout, in ticks
  Stale,     \* pinStale, in ticks
  MaxEntries,\* pinMaxEntries
  LastTime   \* bound: the clock of the model stops here

ASSUME PinLimitAssumption ==
  /\ NoIp \notin Ip
  /\ IsFiniteSet(Ip) /\ IsFiniteSet(Handler)
  /\ MaxFails \in Nat \ {0} /\ Lockout \in Nat \ {0}
  /\ Stale \in Nat /\ MaxEntries \in Nat /\ LastTime \in Nat

VARIABLES
  now,       \* the clock, from 1
  fails,     \* fails[ip] of the record; 0: no record
  lastFail,  \* lastFail[ip]
  until,     \* until[ip]
  pc,        \* pc[h]: "idle", or "comparing" between the two holds
  src,       \* src[h]: whom h serves
  tries      \* history: wrong PINs a source had recorded in its present run,
             \* which ends with a success, a lockout served or a dropped record

recVars == <<fails, lastFail, until>>
pinVars == <<now, recVars, pc, src, tries>>

Recorded == {ip \in Ip : fails[ip] > 0}
Comparing(ip) == {h \in Handler : pc[h] = "comparing" /\ src[h] = ip}

\* The records stay below their cap; a lockout is in force only where there
\* is a record.
PinTypeOK ==
  /\ now \in Nat \ {0}
  /\ fails \in [Ip -> Nat]
  /\ lastFail \in [Ip -> Nat]
  /\ until \in [Ip -> Nat]
  /\ pc \in [Handler -> {"idle", "comparing"}]
  /\ src \in [Handler -> Ip \cup {NoIp}]
  /\ tries \in [Ip -> Nat]
  /\ \A h \in Handler : pc[h] = "comparing" => src[h] \in Ip
  /\ \A ip \in Ip : fails[ip] = 0 => until[ip] = 0
  /\ Cardinality(Recorded) <= MaxEntries

PinInit ==
  /\ now = 1
  /\ fails = [ip \in Ip |-> 0]
  /\ lastFail = [ip \in Ip |-> 0]
  /\ until = [ip \in Ip |-> 0]
  /\ pc = [h \in Handler |-> "idle"]
  /\ src = [h \in Handler |-> NoIp]
  /\ tries = [ip \in Ip |-> 0]

-----------------------------------------------------------------------------
\* The limiter.

\* locked: now.Before(until).
Locked(ip) == now < until[ip]

\* Fault: a lockout counts as finished from its start.
ServedAtOnce(ip) == until[ip] # 0

\* A finished lockout: now.After(until).  At the very tick a lockout ends its
\* source is neither locked out nor has it served.
Served(ip) == until[ip] # 0 /\ now > until[ip]

\* pruneLocked drops what is neither locked nor recent.
Prunable(ip) == /\ fails[ip] > 0
                /\ ~Locked(ip)
                /\ now - lastFail[ip] > Stale

\* Fault: a full table refuses before it prunes.
NoPrune(ip) == {}

\* The sources whose records fail drops before it makes one for ip.
Pruned(ip) ==
  IF fails[ip] = 0 /\ Cardinality(Recorded) >= MaxEntries
  THEN {x \in Ip : Prunable(x)}
  ELSE {}

\* No room for a record of ip: "table full of live records; the lockouts stand".
NoRoom(ip) == fails[ip] = 0 /\ Cardinality(Recorded \ Pruned(ip)) >= MaxEntries

Strikes(ip) == (IF Served(ip) THEN 0 ELSE fails[ip]) + 1

Deadline(ip) ==
  IF Strikes(ip) >= MaxFails THEN now + Lockout
  ELSE IF Served(ip) THEN 0 ELSE until[ip]

-----------------------------------------------------------------------------
\* handlePrepareUpload, with a PIN configured.

\* Fault: nobody asks whether the source is locked out.
AdmitAnyone(h, ip) ==
  /\ pc[h] = "idle"
  /\ pc' = [pc EXCEPT ![h] = "comparing"]
  /\ src' = [src EXCEPT ![h] = ip]
  /\ UNCHANGED <<now, recVars, tries>>

\* The first hold: a locked-out source is answered 429 (nothing changes),
\* any other goes on to the comparison.
Admit(h, ip) ==
  /\ pc[h] = "idle"
  /\ ~Locked(ip)
  /\ pc' = [pc EXCEPT ![h] = "comparing"]
  /\ src' = [src EXCEPT ![h] = ip]
  /\ UNCHANGED <<now, recVars, tries>>

Answer(h) ==
  /\ pc[h] = "comparing"
  /\ pc' = [pc EXCEPT ![h] = "idle"]
  /\ src' = [src EXCEPT ![h] = NoIp]

\* The PIN was wrong: fail, then 401.
Fail(h) ==
  /\ Answer(h)
  /\ LET ip == src[h]
         gone == Pruned(ip)
         dropped(rec, zero) == [x \in Ip |-> IF x \in gone THEN zero ELSE rec[x]]
     IN  IF NoRoom(ip)
         THEN /\ fails' = dropped(fails, 0)
              /\ lastFail' = dropped(lastFail, 0)
              /\ until' = dropped(until, 0)
              /\ tries' = dropped(tries, 0)
         ELSE /\ fails' = [dropped(fails, 0) EXCEPT ![ip] = Strikes(ip)]
              /\ lastFail' = [dropped(lastFail, 0) EXCEPT ![ip] = now]
              /\ until' = [dropped(until, 0) EXCEPT ![ip] = Deadline(ip)]
              /\ tries' = [dropped(tries, 0) EXCEPT
                             ![ip] = IF until[ip] # 0 /\ ~Locked(ip) THEN 1
                                                                     ELSE @ + 1]
  /\ UNCHANGED now

\* The PIN was right: success deletes the record, whatever it says by now.
Succeed(h) ==
  /\ Answer(h)
  /\ fails' = [fails EXCEPT ![src[h]] = 0]
  /\ lastFail' = [lastFail EXCEPT ![src[h]] = 0]
  /\ until' = [until EXCEPT ![src[h]] = 0]
  /\ tries' = [tries EXCEPT ![src[h]] = 0]
  /\ UNCHANGED now

PinTick ==
  /\ now < LastTime
  /\ now' = now + 1
  /\ UNCHANGED <<recVars, pc, src, tries>>

PinNext ==
  \/ \E h \in Handler :
       \/ \E ip \in Ip : Admit(h, ip)
       \/ Fail(h)
       \/ Succeed(h)
  \/ PinTick

PinSpec == PinInit /\ [][PinNext]_pinVars
-----------------------------------------------------------------------------
(* Properties *)

\* Requests that passed the gate together may each still be compared, so a
\* source gets more than pinMaxFails guesses out of one run; but never more
\* than one for every other goroutine.
GuessesBounded ==
  \A ip \in Ip : tries[ip] <= (MaxFails - 1) + Cardinality(Handler)

LockoutStep ==
  \A ip \in Ip :
    Locked(ip) => \/ until'[ip] >= until[ip]
                  \/ \E h \in Comparing(ip) : Succeed(h)

\* A lockout in force is never cut short, by failures of other sources that
\* prune a full table or by failures of its own; only a right PIN of a
\* request that passed the gate before ends it.
LockoutsStand == [][LockoutStep]_pinVars

UncountedStep ==
  \A h \in Handler :
    Fail(h) /\ fails'[src[h]] = 0
      => \E full \in SUBSET Ip :
           /\ Cardinality(full) = MaxEntries
           /\ \A ip \in full : Locked(ip) \/ now - lastFail[ip] <= Stale

\* A wrong PIN goes uncounted only while as many sources as the table has
\* room for are locked out or failed within pinStale.
UncountedOnlyWhenFull == [][UncountedStep]_pinVars
=============================================================================
