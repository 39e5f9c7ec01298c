---------------------------- MODULE FileDelivery ----------------------------
(***************************************************************************)
(* What accepting a set of files promises, whatever goroutines, locks and  *)
(* channels it takes: while its session is open an offered file may be     *)
(* attempted, by one upload at a time; an attempt either fails, which      *)
(* makes the file available again, or delivers the file, which is final.   *)
(* An attempt under way may still finish after the session is closed, but  *)
(* none begins then.                                                       *)
(***************************************************************************)
CONSTANTS Session, File

VARIABLES
  open,    \* sessions that still take uploads
  status   \* status[s][f]

vars == <<open, status>>

Init ==
  /\ open = {}
  /\ status = [s \in Session |-> [f \in File |-> "absent"]]

Offer(s, fs) ==
  /\ \A f \in File : status[s][f] = "absent"
  /\ open' = open \cup {s}
  /\ status' = [status EXCEPT
                  ![s] = [f \in File |-> IF f \in fs THEN "offered" ELSE "absent"]]

Attempt(s, f) ==
  /\ s \in open
  /\ status[s][f] = "offered"
  /\ status' = [status EXCEPT ![s][f] = "attempted"]
  /\ UNCHANGED open

GiveUp(s, f) ==
  /\ status[s][f] = "attempted"
  /\ status' = [status EXCEPT ![s][f] = "offered"]
  /\ UNCHANGED open

Deliver(s, f) ==
  /\ status[s][f] = "attempted"
  /\ status' = [status EXCEPT ![s][f] = "delivered"]
  /\ UNCHANGED open

\* Several sessions may expire at once.
Close(ss) ==
  /\ open' = open \ ss
  /\ UNCHANGED status

Next ==
  \/ \E s \in Session, fs \in (SUBSET File) \ {{}} : Offer(s, fs)
  \/ \E s \in Session, f \in File : Attempt(s, f) \/ GiveUp(s, f) \/ Deliver(s, f)
  \/ \E ss \in (SUBSET Session) \ {{}} : Close(ss)

Spec == Init /\ [][Next]_vars
=============================================================================
