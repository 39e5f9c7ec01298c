----------------------------- MODULE AtomicFile -----------------------------
(***************************************************************************)
(* A file that is replaced by writing a temporary one of a fixed name and  *)
(* renaming it, as Config.Save and saveMessagesLocked do, for programs     *)
(* that may do so at the same time or die in between.                      *)
(*                                                                         *)
(* f = [path, temp, data, held]: the inode under the file's name, the one  *)
(* under the temporary name, what each inode holds, and the inode each     *)
(* program has open.  os.WriteFile opens with O_CREATE and O_TRUNC: two    *)
(* writers share an inode, and a rename may give it the file's name while  *)
(* one of them still writes to it.                                         *)
(***************************************************************************)
EXTENDS Naturals, FiniteSets

CONSTANTS
  Proc,        \* programs
  Ino, NoIno,  \* inodes
  Empty, Torn, \* what a reader cannot parse: truncated, or mixed
  NoFile

ASSUME AtomicFileAssumption ==
  /\ NoIno \notin Ino
  /\ IsFiniteSet(Proc) /\ IsFiniteSet(Ino)
  /\ Cardinality(Ino) >= Cardinality(Proc) + 2
  /\ NoFile \notin {Empty, Torn}

Clean == [path |-> NoIno, temp |-> NoIno, data |-> [i \in Ino |-> Empty],
          held |-> [p \in Proc |-> NoIno]]

FileType(Value) ==
  [path : Ino \cup {NoIno}, temp : Ino \cup {NoIno},
   data : [Ino -> Value \cup {Empty, Torn}], held : [Proc -> Ino \cup {NoIno}]]

Used(f) == {f.path, f.temp} \cup {f.held[p] : p \in Proc}

\* What a reader of the file gets.
Content(f) == IF f.path = NoIno THEN NoFile ELSE f.data[f.path]
Readable(f) == Content(f) \notin {Empty, Torn}

\* An inode nobody can reach is gone.
Reclaimed(f) ==
  [f EXCEPT !.data = [i \in Ino |-> IF i \in Used(f) THEN f.data[i] ELSE Empty]]

\* Fault: the file itself is opened and truncated.
CreatedInPlace(f, p) ==
  LET i == IF f.path # NoIno THEN f.path ELSE CHOOSE x \in Ino : x \notin Used(f)
  IN  [f EXCEPT !.temp = i, !.data[i] = Empty, !.held[p] = i]

Created(f, p) ==
  LET i == IF f.temp # NoIno THEN f.temp ELSE CHOOSE x \in Ino : x \notin Used(f)
  IN  [f EXCEPT !.temp = i, !.data[i] = Empty, !.held[p] = i]

\* A crash, or the close after a write.
Closed(f, p) == Reclaimed([f EXCEPT !.held[p] = NoIno])

\* The outcomes of writing v, from the start of the file on: over another's
\* longer text it leaves a mixture.
Written(f, p, v) ==
  LET i == f.held[p] IN
  {Closed([f EXCEPT !.data[i] = w], p) :
     w \in IF f.data[i] \in {Empty, v} THEN {v} ELSE {v, Torn}}

\* The outcomes of a write that fails, or is cut short by a crash.
HalfWritten(f, p) ==
  {Closed([f EXCEPT !.data[f.held[p]] = w], p) : w \in {Torn, f.data[f.held[p]]}}

\* rename(2) fails if another program has renamed the file already.
CanRename(f) == f.temp # NoIno
Renamed(f) == Reclaimed([f EXCEPT !.path = f.temp, !.temp = NoIno])
=============================================================================
