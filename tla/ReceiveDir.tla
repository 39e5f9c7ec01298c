----------------------------- MODULE ReceiveDir -----------------------------
(***************************************************************************)
(* Where received bytes end up: writeFile, destPath and uniqueAt of        *)
(* internal/server/server.go on a shared receive directory.  Every upload  *)
(* runs on its own goroutine and nothing but the file system orders them:  *)
(* the name is chosen by looking (uniqueAt), the temporary file is created *)
(* exclusively, the rename replaces whatever has the final name by then.   *)
(* The engine may crash at any time and leaves the directory as it is.     *)
(*                                                                         *)
(* A file is identified by the upload that created it.  Names are opaque:  *)
(* Candidates gives the names uniqueAt tries in order, Temp the name with  *)
(* the ".part" suffix.  The walk over the candidates is one step: the only *)
(* names that vanish in between are temporary ones.                        *)
(***************************************************************************)
EXTENDS Naturals, Sequences, FiniteSets

CONSTANTS
  Upload,      \* uploads, each with a body of its own
  None,        \* "no such file", "no name yet"
  Name,        \* names in the receive directory
  Requested,   \* names senders ask for
  Candidates,  \* Candidates[n]: n, then n with " (1)", " (2)", ...
  Temp         \* Temp[n]: n with ".part"

ASSUME ReceiveDirAssumption ==
  /\ None \notin Upload \cup Name
  /\ Requested \subseteq Name
  /\ Candidates \in [Requested -> Seq(Name)]
  /\ \A n \in Requested : Candidates[n] # <<>>
  /\ Temp \in [Name -> Name]
  /\ \A n \in Name : Temp[n] # n

VARIABLES
  disk,    \* disk[n]: the upload whose file has name n, or None
  pc,      \* where the goroutine of an upload is
  dest,    \* the final name it chose
  body,    \* how its body ended
  before   \* history: uploads already in place when it chose its name

vars == <<disk, pc, dest, body, before>>

\* "short": ended cleanly with fewer bytes than declared.  "over": with more.
\* "cut": the connection, the disk or a cancel ended the copy.
Ending == {"short", "full", "over"}

InPlace == {u \in Upload : pc[u] = "done"}

Stored(u) == \E n \in Name : disk[n] = u

Running == {u \in Upload : pc[u] \in {"resolved", "writing", "ended"}}

TypeOK ==
  /\ disk \in [Name -> Upload \cup {None}]
  /\ pc \in [Upload -> {"idle", "resolved", "writing", "ended", "done",
                        "failed", "stuck", "lost"}]
  /\ dest \in [Upload -> Name \cup {None}]
  /\ body \in [Upload -> Ending \cup {"none", "cut"}]
  /\ before \in [Upload -> SUBSET Upload]

Init ==
  /\ disk = [n \in Name |-> None]
  /\ pc = [u \in Upload |-> "idle"]
  /\ dest = [u \in Upload |-> None]
  /\ body = [u \in Upload |-> "none"]
  /\ before = [u \in Upload |-> {}]

-----------------------------------------------------------------------------
\* The faults each property must notice, one operator each: variants of the
\* definitions with the same name that follow, no part of the specification.

\* Fault: the name is not checked.
UniqueAtFirst(n) == Candidates[n][1]

\* Fault: the temporary file is left behind by a failed copy.
RemoveNothing(n) == disk

\* Fault: the error of a cut copy is not noticed.
InterruptUnnoticed(u) ==
  /\ pc[u] = "writing"
  /\ body' = [body EXCEPT ![u] = "cut"]
  /\ pc' = [pc EXCEPT ![u] = "ended"]
  /\ UNCHANGED <<disk, dest, before>>

-----------------------------------------------------------------------------
\* Operations on names and on the directory.

FreeCandidates(n) == {i \in DOMAIN Candidates[n] : disk[Candidates[n][i]] = None}

\* The first candidate that names nothing.
UniqueAt(n) ==
  LET free == FreeCandidates(n)
  IN  Candidates[n][CHOOSE i \in free : \A j \in free : i <= j]

TempName(n) == Temp[n]

\* O_CREATE|O_EXCL succeeds only on a name that is not there.
CanCreate(n) == disk[n] = None

Remove(n) == [disk EXCEPT ![n] = None]

Goto(u, label) == pc' = [pc EXCEPT ![u] = label]

-----------------------------------------------------------------------------
\* The steps of one upload.

\* destPath: the name is settled now, the file is created later.  The code's
\* candidates never run out; the guard bounds the model's.
Resolve(u, n) ==
  /\ pc[u] = "idle"
  /\ FreeCandidates(n) # {}
  /\ dest' = [dest EXCEPT ![u] = UniqueAt(n)]
  /\ before' = [before EXCEPT ![u] = InPlace]
  /\ Goto(u, "resolved")
  /\ UNCHANGED <<disk, body>>

\* destPath failed: the directory is gone or the path leads out of it.
NoDestination(u) ==
  /\ pc[u] = "idle"
  /\ Goto(u, "failed")
  /\ UNCHANGED <<disk, dest, body, before>>

Open(u) ==
  /\ pc[u] = "resolved"
  /\ IF CanCreate(TempName(dest[u]))
     THEN /\ disk' = [disk EXCEPT ![TempName(dest[u])] = u]
          /\ Goto(u, "writing")
     ELSE /\ Goto(u, "failed")
          /\ UNCHANGED disk
  /\ UNCHANGED <<dest, body, before>>

\* io.Copy returned without an error.
EndOfBody(u, how) ==
  /\ pc[u] = "writing"
  /\ body' = [body EXCEPT ![u] = how]
  /\ Goto(u, "ended")
  /\ UNCHANGED <<disk, dest, before>>

\* io.Copy or Close failed: the temporary file is removed, by name.
Interrupt(u) ==
  /\ pc[u] = "writing"
  /\ body' = [body EXCEPT ![u] = "cut"]
  /\ disk' = Remove(TempName(dest[u]))
  /\ Goto(u, "failed")
  /\ UNCHANGED <<dest, before>>

Oversize(u) ==
  /\ pc[u] = "ended"
  /\ body[u] = "over"
  /\ disk' = Remove(TempName(dest[u]))
  /\ Goto(u, "failed")
  /\ UNCHANGED <<dest, body, before>>

\* Rename moves whatever has the temporary name over whatever has the final
\* one; then FileDone is sent.
Rename(u) ==
  LET tmp == TempName(dest[u])
  IN  /\ pc[u] = "ended"
      /\ body[u] # "over"
      /\ disk[tmp] # None
      /\ disk' = [disk EXCEPT ![dest[u]] = disk[tmp],
                              ![tmp] = IF tmp = dest[u] THEN disk[tmp] ELSE None]
      /\ Goto(u, "done")
      /\ UNCHANGED <<dest, body, before>>

\* Rename failed: the temporary file stays, if there is one.
RenameFails(u) ==
  /\ pc[u] = "ended"
  /\ body[u] # "over"
  /\ Goto(u, "stuck")
  /\ UNCHANGED <<disk, dest, body, before>>

\* The engine dies with its goroutines.
Crash ==
  /\ Running # {}
  /\ pc' = [u \in Upload |-> IF u \in Running THEN "lost" ELSE pc[u]]
  /\ UNCHANGED <<disk, dest, body, before>>

Next ==
  \/ \E u \in Upload :
       \/ \E n \in Requested : Resolve(u, n)
       \/ NoDestination(u)
       \/ Open(u)
       \/ \E how \in Ending : EndOfBody(u, how)
       \/ Interrupt(u) \/ Oversize(u) \/ Rename(u) \/ RenameFails(u)
  \/ Crash

Spec == Init /\ [][Next]_vars

-----------------------------------------------------------------------------
(* Properties *)

\* Bytes whose copy did not end cleanly are seen under a temporary name only,
\* never under a final one, whatever other uploads and crashes do: "so partial
\* transfers never masquerade as complete" (comment of writeFile).
InterruptedStaysTemporary ==
  \A n \in Name, u \in Upload :
    disk[n] = u /\ body[u] \in {"none", "cut", "over"} => n = Temp[dest[u]]

\* No upload uses the final name of u for its temporary file.
OwnName(u) == \A v \in Upload : dest[v] # None => Temp[dest[v]] # dest[u]

\* An upload never moves, replaces or removes a file that was in place when
\* it chose its name (comments of uniqueAt and writeFile), unless the name of
\* that file is somebody's temporary one.
EarlierFilesUntouched ==
  [][\A u \in InPlace :
       disk[dest[u]] = u /\ disk'[dest[u]] # u /\ OwnName(u)'
         => \E v \in Upload : pc'[v] # pc[v] /\ u \notin before[v]]_vars

\* While the engine lives, a failed upload leaves nothing behind; temporary
\* files without a goroutine come from a crash or from a rename that failed.
\* (One that stays blocks its name: see the README.)
NoStrayTemporaries ==
  \A u \in Upload : pc[u] = "failed" => ~Stored(u)

\* What "uniquely-named file" and "non-colliding path" (comments of writeFile
\* and destPath) promise: a file reported as received is still there, for the
\* engine deletes nothing it received.
ReceivedStays == \A u \in InPlace : Stored(u)

\* The weaker promise for uploads that were given different final names.
ReceivedStaysUnlessSameName ==
  \A u \in InPlace :
    Stored(u) \/ \E v \in Upload \ {u} : dest[v] = dest[u] /\ pc[v] = "done"

\* What the comment of writeFile promises for a body that ends early without
\* an error: what is reported as received has the declared size.
ReceivedIsWhole == \A u \in InPlace : body[u] = "full"
=============================================================================
