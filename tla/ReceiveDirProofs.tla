-------------------------- MODULE ReceiveDirProofs --------------------------
(***************************************************************************)
(* Theorems about ReceiveDir, for any number of uploads, any names, and    *)
(* any way in which final, numbered and temporary names coincide.          *)
(***************************************************************************)
EXTENDS ReceiveDir, WellFoundedInduction, TLAPS

-----------------------------------------------------------------------------
(* The inductive invariant. *)

\* The uploads that have made their temporary file and not given it up.
Active == {u \in Upload : pc[u] \in {"writing", "ended"}}

Tmp(u) == Temp[dest[u]]

\* An upload has a name from the moment it chose one, and the end of its body
\* is known from the moment the copy ended.
PlaceOK ==
  \A u \in Upload :
    /\ pc[u] = "idle" => dest[u] = None /\ before[u] = {}
    /\ pc[u] \notin {"idle", "failed"} => dest[u] \in Name
    /\ pc[u] \in {"idle", "resolved", "writing"} => body[u] = "none"
    /\ pc[u] = "ended" => body[u] \in Ending
    /\ pc[u] \in {"done", "stuck"} => body[u] \in {"short", "full"}

\* A temporary name in use is there, even when another upload's file has come
\* to replace the one that was made under it, and belongs to one upload.
TempOK ==
  /\ \A u \in Active :
       /\ disk[Tmp(u)] # None
       /\ disk[Tmp(u)] = u \/ pc[disk[Tmp(u)]] = "done"
  /\ \A u, v \in Active : Tmp(u) = Tmp(v) => u = v

\* A file that was not renamed by its upload has its temporary name; one that
\* was has its final name, unless that is a temporary name of another upload.
FileOK ==
  \A n \in Name, u \in Upload : disk[n] = u =>
    /\ pc[u] \in {"writing", "ended", "done", "stuck", "lost"}
    /\ pc[u] # "done" => n = Tmp(u)
    /\ pc[u] = "done" /\ OwnName(u) => n = dest[u]

\* What was in place when an upload chose its name has another one.
BeforeOK ==
  \A v \in Upload : \A u \in before[v] :
    /\ pc[u] = "done"
    /\ OwnName(u) /\ disk[dest[u]] = u => dest[v] # dest[u]

IInv ==
  /\ TypeOK
  /\ PlaceOK
  /\ TempOK
  /\ FileOK
  /\ BeforeOK

-----------------------------------------------------------------------------
(* Facts about names. *)

\* uniqueAt returns a name in the directory that names nothing.
LEMMA UniqueAtIsFree ==
  ASSUME TypeOK, NEW n \in Requested, FreeCandidates(n) # {}
  PROVE  UniqueAt(n) \in Name /\ disk[UniqueAt(n)] = None
<1>. DEFINE less == OpToRel(<, Nat)
            free == FreeCandidates(n)
<1>1. /\ Candidates[n] \in Seq(Name)
      /\ free \subseteq DOMAIN Candidates[n]
      /\ free \subseteq Nat
  BY ReceiveDirAssumption DEF FreeCandidates
<1>2. \E i \in free : \A j \in free : ~ (<<j, i>> \in less)
  <2>1. IsWellFoundedOn(less, Nat)
    BY NatLessThanWellFounded
  <2>2. free \subseteq Nat /\ free # {}
    BY <1>1
  <2>. HIDE DEF less, free
  <2>. QED BY <2>1, <2>2, WFMin
<1>3. \E i \in free : \A j \in free : i <= j
  <2>1. \A i, j \in Nat : j < i => <<j, i>> \in less
    BY DEF OpToRel
  <2>2. free \subseteq Nat
    BY <1>1
  <2>. HIDE DEF less, free
  <2>3. PICK i \in free : \A j \in free : ~ (<<j, i>> \in less)
    BY <1>2
  <2>4. ASSUME NEW j \in free PROVE i <= j
    <3>1. i \in Nat /\ j \in Nat /\ ~ (j < i)
      BY <2>1, <2>2, <2>3
    <3>. QED BY <3>1
  <2>. QED BY <2>4
<1>. DEFINE k == CHOOSE i \in free : \A j \in free : i <= j
<1>4. k \in free
  BY <1>3
<1>5. UniqueAt(n) = Candidates[n][k]
  BY DEF UniqueAt
<1>6. Candidates[n][k] \in Name
  <2>. HIDE DEF k
  <2>. QED BY <1>1, <1>4
<1>. QED
  BY <1>4, <1>5, <1>6 DEF FreeCandidates

\* A name that nobody uses for a temporary file was not one before.
LEMMA OwnNameStays ==
  ASSUME \A v \in Upload : dest[v] # None => dest'[v] = dest[v],
         NEW u \in Upload, OwnName(u)', dest'[u] = dest[u]
  PROVE  OwnName(u)
BY DEF OwnName

-----------------------------------------------------------------------------
(* One lemma per action. *)

\* An empty directory and no upload.
LEMMA InitIInv == Init => IInv
BY ReceiveDirAssumption DEF Init, IInv, TypeOK, PlaceOK, TempOK, FileOK, BeforeOK, Active

\* The name chosen is free, so it is nobody's who is in place.
LEMMA ResolveIInv ==
  ASSUME IInv, NEW u \in Upload, NEW n \in Requested, Resolve(u, n)
  PROVE  IInv'
<1>. DEFINE name == UniqueAt(n)
<1>1. name \in Name /\ disk[name] = None
  BY UniqueAtIsFree DEF IInv, Resolve
<1>2. /\ pc[u] = "idle" /\ dest[u] = None
      /\ dest' = [dest EXCEPT ![u] = name]
      /\ before' = [before EXCEPT ![u] = InPlace]
      /\ pc' = [pc EXCEPT ![u] = "resolved"]
      /\ disk' = disk /\ body' = body
      /\ TypeOK /\ PlaceOK /\ TempOK /\ FileOK /\ BeforeOK
  BY DEF IInv, Resolve, Goto, PlaceOK
<1>. HIDE DEF name
<1>3. TypeOK'
  BY <1>1, <1>2 DEF TypeOK, InPlace
<1>4. PlaceOK'
  BY <1>1, <1>2, ReceiveDirAssumption DEF PlaceOK, TypeOK
<1>5. Active' = Active /\ \A v \in Upload \ {u} : Tmp(v)' = Tmp(v)
  BY <1>2 DEF Active, TypeOK, Tmp
<1>6. TempOK'
  BY <1>2, <1>5, ReceiveDirAssumption DEF TempOK, Active, TypeOK
<1>7. \A v \in Upload : OwnName(v)' /\ v # u => OwnName(v)
  BY <1>2, OwnNameStays DEF TypeOK
<1>8. FileOK'
  BY <1>2, <1>5, <1>7 DEF FileOK, TypeOK
<1>9. BeforeOK'
  <2>. SUFFICES ASSUME NEW v \in Upload, NEW w \in before'[v]
                PROVE  /\ pc'[w] = "done"
                       /\ OwnName(w)' /\ disk'[dest'[w]] = w => dest'[v] # dest'[w]
    BY DEF BeforeOK
  <2>1. CASE v = u
    <3>1. w \in Upload /\ pc[w] = "done" /\ w # u
      BY <1>2, <2>1 DEF InPlace, TypeOK
    <3>2. dest'[w] = dest[w] /\ pc'[w] = "done" /\ dest'[v] = name
      BY <1>2, <2>1, <3>1 DEF TypeOK
    <3>. QED
      BY <1>1, <1>2, <3>1, <3>2, ReceiveDirAssumption
  <2>2. CASE v # u
    <3>1. w \in before[v] /\ w \in Upload /\ pc[w] = "done"
      BY <1>2, <2>2 DEF TypeOK, BeforeOK
    <3>2. w # u /\ dest'[w] = dest[w] /\ pc'[w] = "done" /\ dest'[v] = dest[v]
      BY <1>2, <2>2, <3>1 DEF TypeOK
    <3>. QED
      BY <1>2, <1>7, <3>1, <3>2 DEF BeforeOK
  <2>. QED
    BY <2>1, <2>2
<1>. QED
  BY <1>3, <1>4, <1>6, <1>8, <1>9 DEF IInv

\* No file moves, and an upload without a file in the directory, or one that
\* has a file and ends its copy or keeps the file, goes on.
LEMMA QuietIInv ==
  ASSUME IInv, UNCHANGED <<disk, dest, before>>, TypeOK', PlaceOK',
         \A u \in Upload :
           /\ pc'[u] \in {"writing", "ended"} => pc[u] \in {"writing", "ended"}
           /\ pc'[u] = "done" <=> pc[u] = "done"
           /\ pc[u] \in {"writing", "ended", "stuck", "lost"}
                => pc'[u] \in {"writing", "ended", "stuck", "lost"}
  PROVE  IInv'
<1>1. TempOK'
  <2>1. Active' \subseteq Active /\ \A u \in Active' : Tmp(u)' = Tmp(u)
    BY DEF Active, Tmp
  <2>2. \A u \in Active : Tmp(u) \in Name
    BY ReceiveDirAssumption DEF IInv, Active, Tmp, PlaceOK
  <2>3. \A u \in Active : disk[Tmp(u)] \in Upload
    BY <2>2 DEF IInv, TypeOK, TempOK
  <2>. QED
    BY <2>1, <2>3 DEF IInv, TempOK
<1>2. FileOK'
  BY DEF IInv, FileOK, Tmp, OwnName, TypeOK
<1>3. BeforeOK'
  BY DEF IInv, BeforeOK, OwnName, TypeOK
<1>. QED
  BY <1>1, <1>2, <1>3 DEF IInv

\* The temporary name was free, so nobody who is active has it.
LEMMA OpenIInv ==
  ASSUME IInv, NEW u \in Upload, Open(u)
  PROVE  IInv'
<1>. TypeOK /\ PlaceOK /\ TempOK /\ FileOK /\ BeforeOK
  BY DEF IInv
<1>1. CASE CanCreate(TempName(dest[u]))
  <2>1. /\ pc[u] = "resolved" /\ dest[u] \in Name /\ Tmp(u) \in Name
        /\ disk[Tmp(u)] = None
        /\ disk' = [disk EXCEPT ![Tmp(u)] = u]
        /\ pc' = [pc EXCEPT ![u] = "writing"]
        /\ dest' = dest /\ body' = body /\ before' = before
    BY <1>1, ReceiveDirAssumption DEF Open, Goto, CanCreate, TempName, Tmp, PlaceOK
  <2>2. TypeOK' /\ PlaceOK'
    BY <2>1 DEF TypeOK, PlaceOK
  <2>3. Active' = Active \cup {u} /\ u \notin Active
        /\ \A v \in Upload : Tmp(v)' = Tmp(v)
    BY <2>1 DEF Active, TypeOK, Tmp
  <2>4. \A v \in Active : Tmp(v) \in Name /\ Tmp(v) # Tmp(u)
    BY <2>1, ReceiveDirAssumption DEF TempOK, Tmp, Active, PlaceOK
  <2>5. \A n \in Name : disk[n] # u
    BY <2>1 DEF FileOK
  <2>6. TempOK'
    <3>1. ASSUME NEW v \in Active, v # u
          PROVE  /\ disk'[Tmp(v)] = disk[Tmp(v)] /\ disk[Tmp(v)] \in Upload
                 /\ pc[disk[Tmp(v)]] = "done" => pc'[disk[Tmp(v)]] = "done"
      BY <2>1, <2>4 DEF TypeOK, TempOK, Active
    <3>2. disk'[Tmp(u)] = u /\ u # None
      BY <2>1, ReceiveDirAssumption DEF TypeOK
    <3>3. \A v \in Active' : /\ disk'[Tmp(v)'] # None
                             /\ disk'[Tmp(v)'] = v \/ pc'[disk'[Tmp(v)']] = "done"
      <4>. SUFFICES ASSUME NEW v \in Active'
                    PROVE  /\ disk'[Tmp(v)'] # None
                           /\ disk'[Tmp(v)'] = v \/ pc'[disk'[Tmp(v)']] = "done"
        OBVIOUS
      <4>1. Tmp(v)' = Tmp(v)
        BY <2>3 DEF Active
      <4>2. CASE v = u
        BY <3>2, <4>1, <4>2
      <4>3. CASE v # u
        BY <2>3, <3>1, <4>1, <4>3, ReceiveDirAssumption DEF TempOK
      <4>. QED
        BY <4>2, <4>3
    <3>4. \A v, w \in Active' : Tmp(v)' = Tmp(w)' => v = w
      BY <2>3, <2>4 DEF TempOK, Active
    <3>. QED
      BY <3>3, <3>4, Zenon DEF TempOK
  <2>7. FileOK'
    BY <2>1, <2>3 DEF FileOK, TypeOK, OwnName
  <2>8. BeforeOK'
    BY <2>1, ReceiveDirAssumption DEF BeforeOK, TypeOK, OwnName, PlaceOK
  <2>. QED
    BY <2>2, <2>6, <2>7, <2>8 DEF IInv
<1>2. CASE ~CanCreate(TempName(dest[u]))
  <2>1. /\ pc[u] = "resolved" /\ pc' = [pc EXCEPT ![u] = "failed"]
        /\ UNCHANGED <<disk, dest, before, body>>
    BY <1>2 DEF Open, Goto
  <2>2. TypeOK' /\ PlaceOK'
    BY <2>1 DEF TypeOK, PlaceOK
  <2>. QED
    BY <2>1, <2>2, QuietIInv DEF TypeOK
<1>. QED
  BY <1>1, <1>2

\* An active upload that fails takes away what has its temporary name: its
\* own file, or one in place under a name it should not have.
LEMMA RemoveIInv ==
  ASSUME IInv, NEW u \in Active,
         disk' = Remove(TempName(dest[u])), Goto(u, "failed"),
         UNCHANGED <<dest, before>>,
         body' \in [Upload -> Ending \cup {"none", "cut"}],
         \A v \in Upload \ {u} : body'[v] = body[v]
  PROVE  IInv'
<1>. TypeOK /\ PlaceOK /\ TempOK /\ FileOK /\ BeforeOK
  BY DEF IInv
<1>1. /\ u \in Upload /\ Tmp(u) \in Name
      /\ disk' = [disk EXCEPT ![Tmp(u)] = None]
      /\ pc' = [pc EXCEPT ![u] = "failed"]
  BY ReceiveDirAssumption DEF Remove, TempName, Tmp, Goto, Active, PlaceOK
<1>2. TypeOK' /\ PlaceOK'
  BY <1>1 DEF TypeOK, PlaceOK
<1>3. Active' = Active \ {u} /\ \A v \in Upload : Tmp(v)' = Tmp(v)
  BY <1>1 DEF Active, TypeOK, Tmp
<1>4. \A v \in Active : Tmp(v) \in Name
  BY ReceiveDirAssumption DEF Tmp, Active, PlaceOK
<1>5. TempOK'
  BY <1>1, <1>3, <1>4, ReceiveDirAssumption DEF TempOK, TypeOK, Active
<1>6. FileOK'
  <2>1. \A n \in Name : disk'[n] = IF n = Tmp(u) THEN None ELSE disk[n]
    BY <1>1 DEF TypeOK
  <2>2. \A v \in Upload : /\ dest'[v] = dest[v]
                          /\ v # u => pc'[v] = pc[v]
                          /\ OwnName(v)' <=> OwnName(v)
    BY <1>1 DEF TypeOK, OwnName
  <2>3. \A n \in Name : disk'[n] # u
    BY <1>1, <2>1, ReceiveDirAssumption DEF FileOK, Active
  <2>4. None \notin Upload
    BY ReceiveDirAssumption
  <2>5. ASSUME NEW n \in Name, NEW v \in Upload, disk'[n] = v
        PROVE  /\ v # u /\ disk[n] = v
               /\ pc'[v] = pc[v] /\ dest'[v] = dest[v]
               /\ OwnName(v)' <=> OwnName(v)
    <3>1. v # u
      BY <2>3, <2>5
    <3>2. disk[n] = v
      BY <2>1, <2>4, <2>5
    <3>3. pc'[v] = pc[v] /\ dest'[v] = dest[v]
      BY <2>2, <3>1
    <3>4. OwnName(v)' <=> OwnName(v)
      BY <2>2
    <3>. QED
      BY <3>1, <3>2, <3>3, <3>4
  <2>. QED
    BY <2>5 DEF FileOK, Tmp
<1>7. BeforeOK'
  BY <1>1, ReceiveDirAssumption DEF BeforeOK, TypeOK, OwnName, Active
<1>. QED
  BY <1>2, <1>5, <1>6, <1>7 DEF IInv

\* Rename: what has the temporary name gets the final one.  Without OwnName
\* that may be a file in place, and the one it replaces may be anybody's.
LEMMA RenameIInv ==
  ASSUME IInv, NEW u \in Upload, Rename(u)
  PROVE  IInv'
<1>. TypeOK /\ PlaceOK /\ TempOK /\ FileOK /\ BeforeOK
  BY DEF IInv
<1>. DEFINE x == disk[Tmp(u)]
<1>1. /\ pc[u] = "ended" /\ u \in Active
      /\ dest[u] \in Name /\ Tmp(u) \in Name /\ Tmp(u) # dest[u]
      /\ body[u] \in {"short", "full"}
      /\ x # None /\ x \in Upload
      /\ pc' = [pc EXCEPT ![u] = "done"]
      /\ dest' = dest /\ body' = body /\ before' = before
  BY ReceiveDirAssumption DEF Rename, Goto, TempName, Tmp, Active, PlaceOK, TypeOK, Ending
<1>2. /\ disk' \in [Name -> Upload \cup {None}]
      /\ disk'[Tmp(u)] = None /\ disk'[dest[u]] = x
      /\ \A n \in Name \ {Tmp(u), dest[u]} : disk'[n] = disk[n]
  BY <1>1 DEF Rename, TempName, Tmp, TypeOK
<1>3. x = u \/ pc[x] = "done"
  BY <1>1 DEF TempOK
<1>4. ASSUME x # u, OwnName(x)
      PROVE  FALSE
  <2>1. Tmp(u) = dest[x]
    BY <1>1, <1>3, <1>4 DEF FileOK
  <2>2. dest[u] # None
    BY <1>1, ReceiveDirAssumption
  <2>. QED
    BY <1>4, <2>1, <2>2 DEF OwnName, Tmp
<1>. HIDE DEF x
<1>5. TypeOK' /\ PlaceOK'
  BY <1>1, <1>2 DEF TypeOK, PlaceOK
<1>6. /\ Active' = Active \ {u}
      /\ \A v \in Upload : /\ Tmp(v)' = Tmp(v)
                           /\ OwnName(v)' <=> OwnName(v)
                           /\ v # u => pc'[v] = pc[v]
      /\ pc'[u] = "done"
  BY <1>1 DEF Active, TypeOK, Tmp, OwnName
<1>7. TempOK'
  <2>1. ASSUME NEW v \in Active, v # u
        PROVE  /\ disk'[Tmp(v)] # None
               /\ disk'[Tmp(v)] = v \/ pc'[disk'[Tmp(v)]] = "done"
    <3>1. v \in Upload /\ Tmp(v) \in Name /\ Tmp(v) # Tmp(u)
      BY <1>1, <2>1, ReceiveDirAssumption DEF TempOK, Tmp, Active, PlaceOK
    <3>2. CASE Tmp(v) = dest[u]
      BY <1>1, <1>2, <1>3, <1>6, <3>2
    <3>3. CASE Tmp(v) # dest[u]
      <4>1. disk'[Tmp(v)] = disk[Tmp(v)] /\ disk[Tmp(v)] \in Upload
        BY <1>2, <2>1, <3>1, <3>3 DEF TypeOK, TempOK
      <4>. QED
        BY <1>6, <2>1, <4>1 DEF TempOK
    <3>. QED
      BY <3>2, <3>3
  <2>2. ASSUME NEW v \in Active', NEW w \in Active'
        PROVE  /\ v \in Active /\ v # u /\ Tmp(v)' = Tmp(v)
               /\ Tmp(v)' = Tmp(w)' => v = w
    BY <1>6 DEF TempOK, Active
  <2>. QED
    BY <2>1, <2>2 DEF TempOK
<1>8. FileOK'
  <2>. SUFFICES ASSUME NEW n \in Name, NEW w \in Upload, disk'[n] = w
                PROVE  /\ pc'[w] \in {"writing", "ended", "done", "stuck", "lost"}
                       /\ pc'[w] # "done" => n = Tmp(w)'
                       /\ pc'[w] = "done" /\ OwnName(w)' => n = dest'[w]
    BY DEF FileOK
  <2>1. n # Tmp(u)
    BY <1>2, ReceiveDirAssumption
  <2>2. CASE n = dest[u]
    BY <1>1, <1>2, <1>3, <1>4, <1>6, <2>2
  <2>3. CASE n # dest[u]
    <3>1. disk[n] = w /\ w # u
      BY <1>1, <1>2, <2>1, <2>3 DEF FileOK
    <3>2. pc'[w] = pc[w] /\ Tmp(w)' = Tmp(w) /\ dest'[w] = dest[w] /\ (OwnName(w)' <=> OwnName(w))
      BY <1>1, <1>6, <3>1
    <3>. QED
      BY <3>1, <3>2 DEF FileOK
  <2>. QED
    BY <2>2, <2>3
<1>9. BeforeOK'
  <2>. SUFFICES ASSUME NEW v \in Upload, NEW w \in before[v]
                PROVE  /\ pc'[w] = "done"
                       /\ OwnName(w)' /\ disk'[dest[w]] = w => dest[v] # dest[w]
    BY <1>1 DEF BeforeOK
  <2>1. w \in Upload /\ pc[w] = "done" /\ w # u /\ dest[w] \in Name
    BY <1>1 DEF TypeOK, BeforeOK, PlaceOK
  <2>2. ASSUME OwnName(w), disk'[dest[w]] = w
        PROVE  disk[dest[w]] = w
    BY <1>2, <1>4, <2>1, <2>2, ReceiveDirAssumption
  <2>. QED
    BY <1>6, <2>1, <2>2 DEF BeforeOK
<1>. QED
  BY <1>5, <1>7, <1>8, <1>9 DEF IInv

-----------------------------------------------------------------------------
(* Every step. *)

\* A step that changes nothing.
LEMMA Stutter == IInv /\ UNCHANGED vars => IInv'
<1>. SUFFICES ASSUME IInv, UNCHANGED vars PROVE IInv'
  OBVIOUS
<1>1. TypeOK' /\ PlaceOK'
  BY DEF IInv, vars, TypeOK, PlaceOK
<1>. QED
  BY <1>1, QuietIInv DEF vars

\* Crash ends every upload that is under way and leaves its file.
LEMMA CrashIInv == IInv /\ Crash => IInv'
<1>. SUFFICES ASSUME IInv, Crash PROVE IInv'
  OBVIOUS
<1>1. /\ UNCHANGED <<disk, dest, body, before>>
      /\ \A u \in Upload :
           pc'[u] = IF pc[u] \in {"resolved", "writing", "ended"} THEN "lost" ELSE pc[u]
  BY DEF Crash, Running
<1>2. TypeOK'
  BY DEF IInv, TypeOK, Crash
<1>3. PlaceOK'
  BY <1>1 DEF IInv, TypeOK, PlaceOK
<1>. QED
  BY <1>1, <1>2, <1>3, QuietIInv

\* Every step of every upload, and a crash.
LEMMA NextIInv == IInv /\ [Next]_vars => IInv'
<1>. SUFFICES ASSUME IInv, Next PROVE IInv'
  BY Stutter
<1>1. ASSUME NEW u \in Upload, NoDestination(u) PROVE IInv'
  <2>1. TypeOK' /\ PlaceOK'
    BY <1>1 DEF IInv, TypeOK, PlaceOK, NoDestination, Goto
  <2>. QED
    BY <1>1, <2>1, QuietIInv DEF IInv, TypeOK, NoDestination, Goto
<1>2. ASSUME NEW u \in Upload, NEW how \in Ending, EndOfBody(u, how) PROVE IInv'
  <2>1. TypeOK' /\ PlaceOK'
    BY <1>2 DEF IInv, TypeOK, PlaceOK, EndOfBody, Goto, Ending
  <2>. QED
    BY <1>2, <2>1, QuietIInv DEF IInv, TypeOK, EndOfBody, Goto
<1>3. ASSUME NEW u \in Upload, RenameFails(u) PROVE IInv'
  <2>1. TypeOK' /\ PlaceOK'
    BY <1>3 DEF IInv, TypeOK, PlaceOK, RenameFails, Goto, Ending
  <2>. QED
    BY <1>3, <2>1, QuietIInv DEF IInv, TypeOK, RenameFails, Goto
<1>4. ASSUME NEW u \in Upload, Interrupt(u) PROVE IInv'
  BY <1>4, RemoveIInv DEF IInv, TypeOK, Interrupt, Active
<1>5. ASSUME NEW u \in Upload, Oversize(u) PROVE IInv'
  BY <1>5, RemoveIInv DEF IInv, TypeOK, Oversize, Active
<1>. QED
  BY <1>1, <1>2, <1>3, <1>4, <1>5, ResolveIInv, OpenIInv, RenameIInv, CrashIInv DEF Next

\* The inductive invariant holds throughout.
LEMMA IInvHolds == Spec => []IInv
BY InitIInv, NextIInv, PTL DEF Spec

-----------------------------------------------------------------------------
(* Theorems *)

\* Every reachable state of the directory and its uploads is well typed.
THEOREM TypeCorrect == Spec => []TypeOK
<1>1. IInv => TypeOK
  BY DEF IInv
<1>. QED
  BY <1>1, IInvHolds, PTL

\* Bytes whose copy did not end, or did not end cleanly, are seen under a
\* temporary name only, whatever other uploads and crashes do.
THEOREM PartialFilesStayTemporary == Spec => []InterruptedStaysTemporary
<1>1. IInv => InterruptedStaysTemporary
  BY DEF IInv, PlaceOK, FileOK, Tmp, InterruptedStaysTemporary
<1>. QED
  BY <1>1, IInvHolds, PTL

\* A failed upload leaves no file behind.
THEOREM FailuresLeaveNothing == Spec => []NoStrayTemporaries
<1>1. IInv => NoStrayTemporaries
  BY DEF IInv, FileOK, Stored, NoStrayTemporaries
<1>. QED
  BY <1>1, IInvHolds, PTL

\* A file in place under a name nobody uses for a temporary file is replaced
\* only by an upload that chose its name before the file was in place.
THEOREM EarlierFilesStay == Spec => EarlierFilesUntouched
<1>. DEFINE Untouched ==
              \A u \in InPlace :
                disk[dest[u]] = u /\ disk'[dest[u]] # u /\ OwnName(u)'
                  => \E v \in Upload : pc'[v] # pc[v] /\ u \notin before[v]
<1>1. IInv /\ [Next]_vars => [Untouched]_vars
  <2>. SUFFICES ASSUME IInv, Next, NEW u \in InPlace,
                       disk[dest[u]] = u, disk'[dest[u]] # u, OwnName(u)'
                PROVE  \E v \in Upload : pc'[v] # pc[v] /\ u \notin before[v]
    OBVIOUS
  <2>. TypeOK /\ PlaceOK /\ BeforeOK
    BY DEF IInv
  <2>1. u \in Upload /\ pc[u] = "done" /\ dest[u] \in Name
    BY DEF InPlace, PlaceOK
  <2>2. /\ ~ (\E v \in Upload, n \in Requested : Resolve(v, n))
        /\ ~ (\E v \in Upload : NoDestination(v) \/ RenameFails(v))
        /\ ~ (\E v \in Upload, how \in Ending : EndOfBody(v, how))
        /\ ~ Crash
    BY DEF Resolve, NoDestination, RenameFails, EndOfBody, Crash
  <2>3. PICK v \in Upload : Open(v) \/ Interrupt(v) \/ Oversize(v) \/ Rename(v)
    BY <2>2 DEF Next
  <2>4. dest' = dest /\ pc[v] # "idle" /\ pc[v] \notin {"done", "failed"} /\ pc'[v] # pc[v]
    BY <2>3 DEF Open, Interrupt, Oversize, Rename, Goto, TypeOK
  <2>5. dest[v] \in Name /\ Tmp(v) \in Name /\ Tmp(v) # dest[u]
    BY <2>1, <2>4, ReceiveDirAssumption DEF PlaceOK, OwnName, Tmp
  <2>6. Rename(v) /\ dest[v] = dest[u]
    BY <2>1, <2>3, <2>5 DEF Open, Interrupt, Oversize, Rename, Remove, TempName, Tmp, TypeOK
  <2>7. OwnName(u)
    BY <2>4 DEF OwnName
  <2>8. u \notin before[v]
    BY <2>6, <2>7 DEF BeforeOK
  <2>. QED
    BY <2>4, <2>8
<1>. QED
  BY <1>1, IInvHolds, PTL DEF Spec, EarlierFilesUntouched
=============================================================================
