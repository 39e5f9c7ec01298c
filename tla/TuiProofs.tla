------------------------------ MODULE TuiProofs ------------------------------
(***************************************************************************)
(* What holds of Tui for every number of devices, paths, received files,   *)
(* directories, sends and messages: what is marked or about to be deleted  *)
(* is listed, files go to the device they were staged for, an answer goes  *)
(* to the question that is drawn, and the quick window closes when all is  *)
(* done and not before.                                                    *)
(***************************************************************************)
EXTENDS Tui, TLAPS

-----------------------------------------------------------------------------
(* The inductive invariant, by the variables it is about *)

FlagsOK == quick \in BOOLEAN /\ quickSend \in BOOLEAN /\ quitPending \in BOOLEAN

WindowOK ==
  /\ errand \in Errands
  /\ screen \in Tabs \cup {"picker"}
  /\ running \in {"yes", "quit", "crashed"}
  /\ inbox \in 0 .. MaxInbox

\* A card is up exactly while what it is about is known.
CardsOK ==
  /\ cards \subseteq Cards
  /\ composeTo \in Device \cup {NoDevice}
  /\ delTargets \subseteq Entry
  /\ asker \in 0 .. MaxSends
  /\ "compose" \in cards <=> composeTo # NoDevice
  /\ "delete" \in cards <=> delTargets # {}
  /\ "pin" \in cards <=> asker # 0

\* While the finder is open, all that is staged was staged in it, for the
\* device it was opened for.
FinderOK ==
  /\ target \in Device \cup {NoDevice}
  /\ staged \subseteq Path
  /\ index \in [root : Root, shown : Root \cup {NoRoot}, walks : SUBSET Root]
  /\ index.shown \in {NoRoot, index.root}
  /\ stagedFor \in [Path -> Device \cup {NoDevice}]
  /\ screen = "picker" => \A x \in staged : stagedFor[x] = target

SendsOK ==
  /\ last \in [to : Device \cup {NoDevice}, paths : SUBSET Path, text : BOOLEAN]
  /\ \E S : sends \in Seq(S)
  /\ Len(sends) <= MaxSends

RowsOK == rows \in [Keys -> {"none", "active", "done", "error", "cancelled"}]

\* The timer is armed whenever a window that is to close has only rows that
\* are done.
TimerOK == quick /\ running = "yes" /\ AllDone(rows) => quitPending

ManageOK ==
  /\ disk \in [Entry -> {"gone", "arriving", "kept"}]
  /\ listed \subseteq Entry
  /\ marked \cup delTargets \subseteq listed

IInv ==
  /\ FlagsOK /\ WindowOK /\ CardsOK /\ FinderOK /\ SendsOK /\ RowsOK /\ TimerOK
  /\ ManageOK

-----------------------------------------------------------------------------
(* Which card gets a key *)

\* Of the cards that are up, the first of an order is the topmost.
LEMMA TopmostIs ==
  ASSUME NEW order, DOMAIN order \in SUBSET (1 .. 7),
         NEW k \in DOMAIN order, order[k] \in cards
  PROVE  \E i \in DOMAIN order :
           /\ order[i] \in cards /\ Topmost(order) = order[i]
           /\ \A j \in DOMAIN order : order[j] \in cards => i <= j
<1>. DEFINE up == {i \in DOMAIN order : order[i] \in cards}
            first == CHOOSE i \in up : \A j \in up : i <= j
<1>1. up \in SUBSET (1 .. 7) /\ up # {}
  OBVIOUS
<1>2. Topmost(order) = order[first]
  BY <1>1 DEF Topmost
<1>. HIDE DEF up
<1>3. \E i \in up : \A j \in up : i <= j
  <2>1. ASSUME NEW n \in 1 .. 7, n \in up, \A j \in 1 .. 7 : j \in up => n <= j
        PROVE  \E i \in up : \A j \in up : i <= j
    BY <1>1, <2>1
  <2>2. \E n \in 1 .. 7 : n \in up /\ \A j \in 1 .. 7 : j \in up => n <= j
    <3>1. 1 \in up \/ 2 \in up \/ 3 \in up \/ 4 \in up \/ 5 \in up \/ 6 \in up \/ 7 \in up
      <4>1. PICK u : u \in up /\ u \in 1 .. 7
        BY <1>1
      <4>2. u = 1 \/ u = 2 \/ u = 3 \/ u = 4 \/ u = 5 \/ u = 6 \/ u = 7
        BY <4>1
      <4>. QED BY <4>1, <4>2
    <3>2. CASE 1 \in up
      BY <3>2
    <3>3. CASE 1 \notin up /\ 2 \in up
      BY <3>3
    <3>4. CASE 1 \notin up /\ 2 \notin up /\ 3 \in up
      BY <3>4
    <3>5. CASE 1 \notin up /\ 2 \notin up /\ 3 \notin up /\ 4 \in up
      BY <3>5
    <3>6. CASE 1 \notin up /\ 2 \notin up /\ 3 \notin up /\ 4 \notin up /\ 5 \in up
      BY <3>6
    <3>7. CASE 1 \notin up /\ 2 \notin up /\ 3 \notin up /\ 4 \notin up /\ 5 \notin up
      BY <3>1, <3>7
    <3>. QED BY <3>2, <3>3, <3>4, <3>5, <3>6, <3>7
  <2>. QED BY <2>1, <2>2
<1>4. first \in up /\ \A j \in up : first <= j
  BY <1>3
<1>. QED
  BY <1>2, <1>4 DEF up

\* The screen gets a key while no card is up, and a card while it is up.
LEMMA FocusIs ==
  ASSUME cards \subseteq Cards
  PROVE  /\ Focus = "screen" => cards = {}
         /\ \A c \in Cards : Focus = c => c \in cards
         /\ Focus = "accept" => cards = {"accept"}
         /\ Focus # "nobody" => running = "yes"
<1>1. CASE running # "yes"
  BY <1>1 DEF Focus, Cards
<1>2. CASE cards = {}
  BY <1>2 DEF Focus, Topmost, Cards
<1>3. CASE cards # {} /\ running = "yes"
  <2>1. /\ DOMAIN KeyOrder = 1 .. 7
        /\ KeyOrder[1] = "compose" /\ KeyOrder[2] = "addPeer" /\ KeyOrder[3] = "read"
        /\ KeyOrder[4] = "pin" /\ KeyOrder[5] = "edit" /\ KeyOrder[6] = "delete"
        /\ KeyOrder[7] = "accept"
    BY DEF KeyOrder
  <2>2. \A c \in Cards : \E i \in 1 .. 7 : KeyOrder[i] = c
    BY <2>1 DEF Cards
  <2>3. PICK k \in 1 .. 7 : KeyOrder[k] \in cards
    BY <1>3, <2>2
  <2>4. PICK i \in 1 .. 7 :
          /\ KeyOrder[i] \in cards /\ Topmost(KeyOrder) = KeyOrder[i]
          /\ \A j \in 1 .. 7 : KeyOrder[j] \in cards => i <= j
    BY <2>1, <2>3, TopmostIs
  <2>5. Focus = KeyOrder[i]
    BY <1>3, <2>4 DEF Focus
  <2>6. KeyOrder[i] \in Cards
    BY <2>4
  <2>7. KeyOrder[i] = "accept" => cards = {"accept"}
    <3>1. SUFFICES ASSUME KeyOrder[i] = "accept", NEW c \in cards PROVE c = "accept"
      BY <2>4
    <3>2. i = 7
      BY <2>1, <3>1
    <3>3. PICK j \in 1 .. 7 : KeyOrder[j] = c
      BY <2>2
    <3>. QED BY <2>1, <2>4, <3>1, <3>2, <3>3
  <2>. QED BY <1>3, <2>4, <2>5, <2>6, <2>7 DEF Cards
<1>. QED
  BY <1>1, <1>2, <1>3

\* An accept question that gets the key is also the card that is drawn.
LEMMA AcceptIsDrawn ==
  ASSUME cards \subseteq Cards, Focus = "accept"
  PROVE  Drawn = "accept"
<1>1. cards = {"accept"}
  BY FocusIs
<1>2. /\ DOMAIN DrawOrder = 1 .. 6
      /\ DrawOrder[1] = "pin" /\ DrawOrder[2] = "accept" /\ DrawOrder[3] = "delete"
      /\ DrawOrder[4] = "compose" /\ DrawOrder[5] = "addPeer" /\ DrawOrder[6] = "read"
  BY DEF DrawOrder
<1>3. DOMAIN DrawOrder \in SUBSET (1 .. 7) /\ 2 \in DOMAIN DrawOrder /\ DrawOrder[2] \in cards
  BY <1>1, <1>2
<1>4. \E i \in DOMAIN DrawOrder : DrawOrder[i] \in cards /\ Topmost(DrawOrder) = DrawOrder[i]
  BY <1>3, TopmostIs
<1>. QED
  BY <1>1, <1>4 DEF Drawn

-----------------------------------------------------------------------------
(* The invariant holds at the start *)

\* Both windows start in it.
LEMMA InitIInv ==
  ASSUME TuiAssumption, Init
  PROVE  IInv
<1>. USE DEF FullWindow, QuickWindow
<1>1. FlagsOK
  BY Zenon DEF Init, FlagsOK
<1>2. WindowOK
  BY DEF Init, WindowOK, Tabs, TuiAssumption
<1>3. CardsOK
  BY DEF Init, CardsOK, TuiAssumption
<1>4. FinderOK
  BY DEF Init, FinderOK, TuiAssumption
<1>5. SendsOK
  BY DEF Init, SendsOK, TuiAssumption
<1>6. RowsOK
  BY DEF Init, RowsOK
<1>7. TimerOK
  <2>1. ~AllDone(rows)
    BY DEF Init, AllDone
  <2>. QED BY <2>1, Zenon DEF TimerOK
<1>8. ManageOK
  BY DEF Init, ManageOK
<1>. QED
  BY <1>1, <1>2, <1>3, <1>4, <1>5, <1>6, <1>7, <1>8 DEF IInv

-----------------------------------------------------------------------------
(* Every step keeps it *)

\* Who changes what, variable by variable; what is not named leaves it alone.

\* The window and the errand stay.
LEMMA ChangeChoice ==
  ASSUME Next
  PROVE  UNCHANGED <<quick, errand>>
BY ZenonT(60) DEF Next, KeyPressed, EventArrives, Cancel, SendComposed, EnterPin, SaveEdit,
                ConfirmDelete, Answer, GoTo, Quit, OpenCompose, QuickSend, OpenFinder,
                OpenAddPeer, OpenEdit, OpenMessage, Open, DeleteMessage, MarkKey, RefreshKey,
                RequestDelete, ClearFinished, LeaveFinder, ClimbUp, SendStaged, Stage, Walked,
                Asked, MessageArrives, Arrives, DiskStep, PinDemanded, Refused, Granted,
                Unreadable, FileStarts, FileEnds, Reports, AutoQuit, seen, still, choice,
                finder, manage

\* Only a sent quick send is forgotten.
LEMMA ChangeQuickSend ==
  ASSUME Next
  PROVE  UNCHANGED quickSend \/ quickSend' = FALSE
BY ZenonT(60) DEF Next, KeyPressed, EventArrives, Cancel, SendComposed, EnterPin, SaveEdit,
                ConfirmDelete, Answer, GoTo, Quit, OpenCompose, QuickSend, OpenFinder,
                OpenAddPeer, OpenEdit, OpenMessage, Open, DeleteMessage, MarkKey, RefreshKey,
                RequestDelete, ClearFinished, LeaveFinder, ClimbUp, SendStaged, Stage, Walked,
                Asked, MessageArrives, Arrives, DiskStep, PinDemanded, Refused, Granted,
                Unreadable, FileStarts, FileEnds, Reports, AutoQuit, seen, still, choice,
                finder, manage

\* The messages of the list.
LEMMA ChangeInbox ==
  ASSUME Next
  PROVE  \/ UNCHANGED inbox
         \/ inbox > 0 /\ inbox' = inbox - 1
         \/ inbox < MaxInbox /\ inbox' = inbox + 1
BY ZenonT(60) DEF Next, KeyPressed, EventArrives, Cancel, SendComposed, EnterPin, SaveEdit,
                ConfirmDelete, Answer, GoTo, Quit, OpenCompose, QuickSend, OpenFinder,
                OpenAddPeer, OpenEdit, OpenMessage, Open, DeleteMessage, MarkKey, RefreshKey,
                RequestDelete, ClearFinished, LeaveFinder, ClimbUp, SendStaged, Stage, Walked,
                Asked, MessageArrives, Arrives, DiskStep, PinDemanded, Refused, Granted,
                Unreadable, FileStarts, FileEnds, Reports, AutoQuit, seen, still, choice,
                finder, manage

\* The screen.
LEMMA ChangeScreen ==
  ASSUME Next
  PROVE  \/ UNCHANGED screen
         \/ screen' \in {"peers", "transfers"}
         \/ \E s \in Tabs : GoTo(s)
         \/ \E d \in Device : OpenFinder(d)
BY ZenonT(60) DEF Next, KeyPressed, EventArrives, Cancel, SendComposed, EnterPin, SaveEdit,
                ConfirmDelete, Answer, GoTo, Quit, OpenCompose, QuickSend, OpenFinder,
                OpenAddPeer, OpenEdit, OpenMessage, Open, DeleteMessage, MarkKey, RefreshKey,
                RequestDelete, ClearFinished, LeaveFinder, ClimbUp, SendStaged, Stage, Walked,
                Asked, MessageArrives, Arrives, DiskStep, PinDemanded, Refused, Granted,
                Unreadable, FileStarts, FileEnds, Reports, AutoQuit, seen, still, choice,
                finder, manage

\* Whether it runs: some keys and the timer end it.
LEMMA ChangeRunning ==
  ASSUME Next
  PROVE  \/ UNCHANGED running
         \/ running' \in {"quit", "crashed"}
         \/ AutoQuit
BY ZenonT(60) DEF Next, KeyPressed, EventArrives, Cancel, SendComposed, EnterPin, SaveEdit,
                ConfirmDelete, Answer, GoTo, Quit, OpenCompose, QuickSend, OpenFinder,
                OpenAddPeer, OpenEdit, OpenMessage, Open, DeleteMessage, MarkKey, RefreshKey,
                RequestDelete, ClearFinished, LeaveFinder, ClimbUp, SendStaged, Stage, Walked,
                Asked, MessageArrives, Arrives, DiskStep, PinDemanded, Refused, Granted,
                Unreadable, FileStarts, FileEnds, Reports, seen, still, choice,
                finder, manage

\* The rows, and the timer with them.
LEMMA ChangeRows ==
  ASSUME Next
  PROVE  \/ UNCHANGED <<rows, quitPending>>
         \/ \E i \in DOMAIN sends :
              \/ Refused(i)
              \/ \E x \in Path : Unreadable(i, x) \/ FileStarts(i, x) \/ FileEnds(i, x)
         \/ ClearFinished \/ AutoQuit
BY ZenonT(60) DEF Next, KeyPressed, EventArrives, Cancel, SendComposed, EnterPin, SaveEdit,
                ConfirmDelete, Answer, GoTo, Quit, OpenCompose, QuickSend, OpenFinder,
                OpenAddPeer, OpenEdit, OpenMessage, Open, DeleteMessage, MarkKey, RefreshKey,
                RequestDelete, LeaveFinder, ClimbUp, SendStaged, Stage, Walked,
                Asked, MessageArrives, Arrives, DiskStep, PinDemanded, Granted,
                Reports, seen, still, choice,
                finder, manage

\* What is sent, and what is remembered of it.
LEMMA ChangeSends ==
  ASSUME Next
  PROVE  \/ UNCHANGED <<sends, last>>
         \/ SendComposed \/ EnterPin \/ SendStaged
         \/ \E d \in Device : QuickSend(d)
         \/ \E i \in DOMAIN sends :
              \/ PinDemanded(i) \/ Refused(i) \/ Granted(i)
              \/ \E x \in Path : Unreadable(i, x) \/ FileStarts(i, x) \/ FileEnds(i, x)
BY ZenonT(60) DEF Next, KeyPressed, EventArrives, Cancel, SaveEdit,
                ConfirmDelete, Answer, GoTo, Quit, OpenCompose, OpenFinder,
                OpenAddPeer, OpenEdit, OpenMessage, Open, DeleteMessage, MarkKey, RefreshKey,
                RequestDelete, ClearFinished, LeaveFinder, ClimbUp, Stage, Walked,
                Asked, MessageArrives, Arrives, DiskStep,
                Reports, AutoQuit, seen, still, choice,
                finder, manage

SendStep(i) ==
  \/ PinDemanded(i) \/ Refused(i) \/ Granted(i)
  \/ \E x \in Path : Unreadable(i, x) \/ FileStarts(i, x) \/ FileEnds(i, x)

\* The events of a send touch neither prompts nor lists, but for the PIN prompt.
LEMMA SendsReport ==
  ASSUME NEW i, SendStep(i)
  PROVE  Reports /\ (PinDemanded(i) \/ UNCHANGED <<cards, asker>>)
<1>1. Refused(i) => Reports /\ UNCHANGED <<cards, asker>>
  BY Zenon DEF Refused
<1>2. Granted(i) => Reports /\ UNCHANGED <<cards, asker>>
  BY Zenon DEF Granted
<1>3. \A x \in Path : Unreadable(i, x) => Reports /\ UNCHANGED <<cards, asker>>
  BY Zenon DEF Unreadable
<1>4. \A x \in Path : FileStarts(i, x) => Reports /\ UNCHANGED <<cards, asker>>
  BY Zenon DEF FileStarts
<1>5. \A x \in Path : FileEnds(i, x) => Reports /\ UNCHANGED <<cards, asker>>
  BY Zenon DEF FileEnds
<1>6. PinDemanded(i) => Reports
  BY Zenon DEF PinDemanded
<1>. QED
  BY <1>1, <1>2, <1>3, <1>4, <1>5, <1>6 DEF SendStep

\* The finder.
LEMMA ChangeFinder ==
  ASSUME Next
  PROVE  \/ UNCHANGED <<target, staged, index, stagedFor>>
         \/ SendStaged \/ ClimbUp
         \/ \E d \in Device : QuickSend(d) \/ OpenFinder(d)
         \/ \E x \in Path : Stage(x)
         \/ \E r \in Root : Walked(r)
<1>1. CASE KeyPressed
  BY <1>1
     DEF KeyPressed, Cancel, SendComposed, EnterPin, SaveEdit, ConfirmDelete,
         Answer, GoTo, Quit, OpenCompose, OpenAddPeer, OpenEdit, OpenMessage,
         Open, DeleteMessage, MarkKey, RefreshKey, RequestDelete, ClearFinished,
         LeaveFinder, seen, still, choice, finder, manage
<1>2. CASE \/ (\E r \in Root : Walked(r)) \/ Asked \/ MessageArrives
           \/ (\E e \in Entry : DiskStep(e)) \/ AutoQuit
  BY <1>2
     DEF Asked, MessageArrives, Arrives, DiskStep, AutoQuit, seen, still,
         choice, finder, manage
<1>3. CASE \E i \in DOMAIN sends : SendStep(i)
  BY <1>3, SendsReport
     DEF Reports, seen, still, choice, finder, manage
<1>. QED
  BY <1>1, <1>2, <1>3 DEF Next, EventArrives, SendStep

\* The received files.
LEMMA ChangeManage ==
  ASSUME Next
  PROVE  \/ UNCHANGED <<disk, listed, marked, delTargets>>
         \/ \E c \in Cards : Cancel(c)
         \/ ConfirmDelete \/ MarkKey \/ RefreshKey \/ RequestDelete
         \/ \E s \in Tabs : GoTo(s)
         \/ \E e \in Entry : DiskStep(e)
<1>1. CASE KeyPressed
  BY <1>1
     DEF KeyPressed, SendComposed, EnterPin, SaveEdit, Answer, Quit,
         OpenCompose, QuickSend, OpenFinder, OpenAddPeer, OpenEdit, OpenMessage,
         Open, DeleteMessage, ClearFinished, LeaveFinder, ClimbUp, SendStaged,
         Stage, seen, still, choice, finder, manage
<1>2. CASE \/ (\E r \in Root : Walked(r)) \/ Asked \/ MessageArrives
           \/ (\E e \in Entry : DiskStep(e)) \/ AutoQuit
  BY <1>2
     DEF Walked, Asked, MessageArrives, Arrives, AutoQuit, seen, still, choice,
         finder, manage
<1>3. CASE \E i \in DOMAIN sends : SendStep(i)
  BY <1>3, SendsReport
     DEF Reports, seen, still, choice, finder, manage
<1>. QED
  BY <1>1, <1>2, <1>3 DEF Next, EventArrives, SendStep

\* The cards and what they are about.
LEMMA ChangeCards ==
  ASSUME Next
  PROVE  \/ UNCHANGED <<cards, composeTo, delTargets, asker>>
         \/ \E c \in Cards : Cancel(c)
         \/ SendComposed \/ EnterPin \/ SaveEdit \/ ConfirmDelete \/ RequestDelete
         \/ OpenAddPeer \/ OpenEdit \/ OpenMessage \/ Asked
         \/ \E accept \in BOOLEAN : Answer(accept)
         \/ \E d \in Device : OpenCompose(d)
         \/ \E i \in DOMAIN sends : PinDemanded(i)
<1>1. CASE KeyPressed
  BY <1>1
     DEF KeyPressed, GoTo, Quit, QuickSend, OpenFinder, DeleteMessage, MarkKey,
         RefreshKey, ClearFinished, LeaveFinder, ClimbUp, SendStaged, Stage,
         seen, still, choice, finder, manage
<1>2. CASE \/ (\E r \in Root : Walked(r)) \/ Asked \/ MessageArrives
           \/ (\E e \in Entry : DiskStep(e)) \/ AutoQuit
  BY <1>2
     DEF Walked, MessageArrives, Arrives, DiskStep, AutoQuit, seen, still,
         choice, finder, manage
<1>3. CASE \E i \in DOMAIN sends : SendStep(i)
  BY <1>3, SendsReport
     DEF Reports, seen, still, choice, finder, manage
<1>. QED
  BY <1>1, <1>2, <1>3 DEF Next, EventArrives, SendStep

\* The flags stay Boolean.
LEMMA FlagsKept ==
  ASSUME FlagsOK, Next
  PROVE  FlagsOK'
<1>1. quick' = quick
  BY ChangeChoice
<1>2. quickSend' = quickSend \/ quickSend' = FALSE
  BY ChangeQuickSend
<1>3. quitPending' = quitPending \/ quitPending' \in BOOLEAN
  <2>1. ASSUME NEW r, Update(r) PROVE quitPending' \in BOOLEAN
    BY <2>1, Zenon DEF Update, Scheduled, FlagsOK, AllDone
  <2>2. ASSUME NEW i \in DOMAIN sends, Refused(i) PROVE \E r : Update(r)
    BY <2>2, Zenon DEF Refused
  <2>3. ASSUME NEW i \in DOMAIN sends, NEW x \in Path,
               Unreadable(i, x) \/ FileStarts(i, x) \/ FileEnds(i, x)
        PROVE  \E r : Update(r)
    BY <2>3, Zenon DEF Unreadable, FileStarts, FileEnds
  <2>4. ClearFinished => quitPending' = quitPending
    BY Zenon DEF ClearFinished
  <2>5. AutoQuit => quitPending' = FALSE
    BY Zenon DEF AutoQuit
  <2>. QED BY <2>1, <2>2, <2>3, <2>4, <2>5, ChangeRows, Zenon
<1>. QED
  BY <1>1, <1>2, <1>3, Zenon DEF FlagsOK

\* The window keeps its type.
LEMMA WindowKept ==
  ASSUME TuiAssumption, WindowOK, Next
  PROVE  WindowOK'
<1>1. errand' = errand
  BY ChangeChoice
<1>2. screen' \in Tabs \cup {"picker"}
  BY ChangeScreen DEF WindowOK, Tabs, GoTo, OpenFinder
<1>3. running' \in {"yes", "quit", "crashed"}
  BY ChangeRunning DEF WindowOK, AutoQuit
<1>4. inbox' \in 0 .. MaxInbox
  BY ChangeInbox DEF WindowOK, TuiAssumption
<1>. QED
  BY <1>1, <1>2, <1>3, <1>4 DEF WindowOK

\* The finder opens with nothing staged, and stages for its device only.
LEMMA FinderKept ==
  ASSUME TuiAssumption, WindowOK, FinderOK, Next
  PROVE  FinderOK'
<1>0. screen' = "picker" => screen = "picker" \/ \E d \in Device : OpenFinder(d)
  BY ChangeScreen DEF GoTo, Tabs
<1>1. CASE UNCHANGED <<target, staged, index, stagedFor>>
  <2>2. CASE \E d \in Device : OpenFinder(d)
    BY <1>1, <2>2 DEF OpenFinder, Stages, FinderOK
  <2>3. CASE ~ \E d \in Device : OpenFinder(d)
    BY <1>0, <1>1, <2>3 DEF FinderOK
  <2>. QED BY <2>2, <2>3
<1>2. ASSUME Stages({}), UNCHANGED index, target' \in Device \cup {NoDevice}
      PROVE  FinderOK'
  <2>1. stagedFor' = [x \in Path |-> IF x \in {} THEN stagedFor[x] ELSE NoDevice] /\ staged' = {}
    BY <1>2 DEF Stages
  <2>. QED BY <1>2, <2>1 DEF FinderOK
<1>3. CASE SendStaged
  BY <1>2, <1>3 DEF SendStaged, FinderOK
<1>4. ASSUME NEW d \in Device, QuickSend(d) PROVE FinderOK'
  BY <1>2, <1>4 DEF QuickSend, FinderOK
<1>5. ASSUME NEW d \in Device, OpenFinder(d) PROVE FinderOK'
  <2>1. /\ target' = d /\ staged' = {}
        /\ stagedFor' = [x \in Path |-> IF x \in {} THEN stagedFor[x] ELSE NoDevice]
        /\ index' = [root |-> 0, shown |-> NoRoot, walks |-> index.walks \cup {0}]
    BY <1>5 DEF OpenFinder, Stages
  <2>. QED BY <2>1 DEF FinderOK, TuiAssumption
<1>6. CASE ClimbUp
  <2>1. UNCHANGED <<screen, target, staged, stagedFor>>
    BY <1>6 DEF ClimbUp
  <2>2. /\ index' = [root |-> index.root + 1, shown |-> NoRoot,
                     walks |-> index.walks \cup {index.root + 1}]
        /\ index.root + 1 \in Root
    BY <1>6 DEF ClimbUp
  <2>. QED BY <2>1, <2>2 DEF FinderOK
<1>7. ASSUME NEW x \in Path, Stage(x) PROVE FinderOK'
  <2>1. UNCHANGED <<screen, target, index>>
    BY <1>7 DEF Stage
  <2>2. /\ staged' = IF x \in staged THEN staged \ {x} ELSE staged \cup {x}
        /\ stagedFor' = [stagedFor EXCEPT ![x] = IF x \in staged THEN NoDevice ELSE target]
    BY <1>7 DEF Stage
  <2>3. stagedFor' \in [Path -> Device \cup {NoDevice}]
    BY <2>2 DEF FinderOK
  <2>4. \A y \in staged' : screen = "picker" => stagedFor'[y] = target
    BY <2>2 DEF FinderOK
  <2>. QED BY <2>1, <2>2, <2>3, <2>4 DEF FinderOK
<1>8. ASSUME NEW r \in Root, Walked(r) PROVE FinderOK'
  <2>1. UNCHANGED <<screen, target, staged, stagedFor>>
    BY <1>8 DEF Walked, Arrives
  <2>2. /\ index'.root = index.root
        /\ index'.shown = IF r = index.root THEN r ELSE index.shown
        /\ index' \in [root : Root, shown : Root \cup {NoRoot}, walks : SUBSET Root]
    BY <1>8 DEF Walked, FinderOK
  <2>. QED BY <2>1, <2>2 DEF FinderOK
<1>. QED
  BY <1>1, <1>3, <1>4, <1>5, <1>6, <1>7, <1>8, ChangeFinder

\* A card goes up with what it is about and down with it.
LEMMA CardsKept ==
  ASSUME TuiAssumption, CardsOK, SendsOK, ManageOK, Next
  PROVE  CardsOK'
<1>. cards \subseteq Cards
  BY DEF CardsOK
<1>0. CASE UNCHANGED <<cards, composeTo, delTargets, asker>>
  BY <1>0 DEF CardsOK
<1>1. ASSUME NEW c \in Cards, Cancel(c) PROVE CardsOK'
  <2>1. /\ c \in cards /\ cards' = cards \ {c}
        /\ composeTo' = IF c = "compose" THEN NoDevice ELSE composeTo
        /\ delTargets' = IF c = "delete" THEN {} ELSE delTargets
        /\ asker' = IF c = "pin" THEN 0 ELSE asker
    BY <1>1, FocusIs DEF Cancel, Lower
  <2>. QED BY <2>1 DEF CardsOK, TuiAssumption
<1>2. CASE SendComposed
  <2>1. /\ cards' = cards \ {"compose"} /\ composeTo' = NoDevice
        /\ UNCHANGED <<delTargets, asker>>
    BY <1>2 DEF SendComposed, Lower, manage
  <2>. QED BY <2>1 DEF CardsOK
<1>3. CASE EnterPin
  <2>1. cards' = cards \ {"pin"} /\ asker' = 0 /\ UNCHANGED <<composeTo, delTargets>>
    BY <1>3 DEF EnterPin, Lower, manage
  <2>. QED BY <2>1 DEF CardsOK, TuiAssumption
<1>4. CASE SaveEdit
  <2>1. /\ cards' = cards \/ cards' = cards \ {"edit"}
        /\ UNCHANGED <<composeTo, delTargets, asker>>
    BY <1>4 DEF SaveEdit, Lower, manage
  <2>. QED BY <2>1 DEF CardsOK
<1>5. CASE ConfirmDelete
  <2>1. /\ cards' = cards \ {"delete"} /\ delTargets' = {}
        /\ UNCHANGED <<composeTo, asker>>
    BY <1>5 DEF ConfirmDelete, Lower
  <2>. QED BY <2>1 DEF CardsOK
<1>6. CASE RequestDelete
  <2>1. /\ cards' = cards \cup {"delete"} /\ delTargets' \in Targets
        /\ UNCHANGED <<composeTo, asker>>
    BY <1>6 DEF RequestDelete, Raise, still
  <2>2. listed \subseteq Entry
    BY DEF ManageOK
  <2>3. \A ts \in Targets : ts # {} /\ ts \subseteq Entry
    BY <2>2 DEF Targets
  <2>. QED BY <2>1, <2>3 DEF CardsOK, Cards
<1>7. ASSUME NEW c \in {"addPeer", "edit", "read", "accept"}, cards' = cards \cup {c},
             UNCHANGED <<composeTo, delTargets, asker>>
      PROVE  CardsOK'
  BY <1>7 DEF CardsOK, Cards
<1>8. CASE OpenAddPeer \/ OpenEdit \/ OpenMessage \/ Asked
  BY <1>7, <1>8 DEF OpenAddPeer, OpenEdit, OpenMessage, Open, Asked, Arrives, Raise, still, manage
<1>9. ASSUME NEW accept \in BOOLEAN, Answer(accept) PROVE CardsOK'
  <2>1. cards' = cards \ {"accept"} /\ UNCHANGED <<composeTo, delTargets, asker>>
    BY <1>9 DEF Answer, Lower
  <2>. QED BY <2>1 DEF CardsOK
<1>10. ASSUME NEW d \in Device, OpenCompose(d) PROVE CardsOK'
  <2>1. /\ cards' = cards \cup {"compose"} /\ composeTo' = d
        /\ UNCHANGED <<delTargets, asker>>
    BY <1>10 DEF OpenCompose, Raise
  <2>. QED BY <2>1 DEF CardsOK, Cards, TuiAssumption
<1>11. ASSUME NEW i \in DOMAIN sends, PinDemanded(i) PROVE CardsOK'
  <2>1. cards' = cards \cup {"pin"} /\ asker' = i
    BY <1>11, Zenon DEF PinDemanded, Raise
  <2>2. UNCHANGED <<composeTo, delTargets>>
    BY <1>11, SendsReport DEF SendStep, Reports, manage
  <2>3. i \in 1 .. MaxSends
    BY DEF SendsOK, TuiAssumption
  <2>. QED BY <2>1, <2>2, <2>3 DEF CardsOK, Cards
<1>. QED
  BY <1>0, <1>1, <1>2, <1>3, <1>4, <1>5, <1>6, <1>8, <1>9, <1>10, <1>11, ChangeCards

\* The list is read again only while no delete prompt is up.
LEMMA ManageKept ==
  ASSUME CardsOK, ManageOK, Next
  PROVE  ManageOK'
<1>. cards \subseteq Cards
  BY DEF CardsOK
<1>0. CASE UNCHANGED <<disk, listed, marked, delTargets>>
  BY <1>0 DEF ManageOK
<1>1. ASSUME NEW d, Refresh(d), Focus = "screen", UNCHANGED <<disk, delTargets>>
      PROVE  ManageOK'
  <2>1. delTargets = {}
    BY <1>1, FocusIs DEF CardsOK
  <2>2. Offered(d) \subseteq Entry
    BY DEF Offered
  <2>3. listed' \subseteq Entry /\ marked' \subseteq listed'
    BY <1>1, <2>2 DEF Refresh
  <2>. QED BY <1>1, <2>1, <2>3 DEF ManageOK
<1>2. ASSUME NEW c \in Cards, Cancel(c) PROVE ManageOK'
  <2>1. /\ UNCHANGED <<disk, listed, marked>>
        /\ delTargets' = IF c = "delete" THEN {} ELSE delTargets
    BY <1>2 DEF Cancel, seen
  <2>. QED BY <2>1 DEF ManageOK
<1>3. CASE ConfirmDelete
  <2>1. PICK gone \in SUBSET delTargets :
          LET left == [e \in Entry |-> IF e \in gone THEN "gone" ELSE disk[e]]
          IN  /\ disk' = left
              /\ \E now \in {Offered(left), {}} :
                   /\ listed' = now
                   /\ marked' = (marked \ gone) \cap now
    BY <1>3 DEF ConfirmDelete
  <2>2. disk' = [e \in Entry |-> IF e \in gone THEN "gone" ELSE disk[e]]
    BY <2>1
  <2>3. \A d : Offered(d) \subseteq Entry
    BY DEF Offered
  <2>4. listed' \subseteq Entry /\ marked' \subseteq listed'
    BY <2>1, <2>3
  <2>5. disk' \in [Entry -> {"gone", "arriving", "kept"}]
    BY <2>2 DEF ManageOK
  <2>. QED BY <1>3, <2>4, <2>5 DEF ManageOK, ConfirmDelete
<1>4. CASE MarkKey
  <2>1. marked' \subseteq marked \cup listed
    BY <1>4 DEF MarkKey, Mark, MarkAll
  <2>2. UNCHANGED <<disk, listed, delTargets>>
    BY <1>4 DEF MarkKey
  <2>. QED BY <2>1, <2>2 DEF ManageOK
<1>5. CASE RefreshKey
  BY <1>1, <1>5 DEF RefreshKey, On
<1>6. CASE RequestDelete
  <2>1. delTargets' \in Targets /\ UNCHANGED <<disk, listed, marked>>
    BY <1>6 DEF RequestDelete
  <2>2. \A ts \in Targets : ts \subseteq listed
    BY DEF Targets
  <2>. QED BY <2>1, <2>2 DEF ManageOK
<1>7. ASSUME NEW s \in Tabs, GoTo(s) PROVE ManageOK'
  <2>1. CASE s = "manage"
    <3>1. PICK d : d = disk
      OBVIOUS
    <3>. QED BY <1>1, <1>7, <2>1, <3>1 DEF GoTo
  <2>2. CASE s # "manage"
    BY <1>7, <2>2 DEF GoTo, ManageOK
  <2>. QED BY <2>1, <2>2
<1>8. ASSUME NEW e \in Entry, DiskStep(e) PROVE ManageOK'
  BY <1>8 DEF DiskStep, ManageOK
<1>. QED
  BY <1>0, <1>2, <1>3, <1>4, <1>5, <1>6, <1>7, <1>8, ChangeManage

\* What is sent stays a sequence within its bound.
LEMMA SendsKept ==
  ASSUME TuiAssumption, CardsOK, FinderOK, SendsOK, Next
  PROVE  SendsOK'
<1>0. CASE UNCHANGED <<sends, last>>
  BY <1>0 DEF SendsOK
<1>1. ASSUME NEW to, NEW paths, NEW text, Call(to, paths, text)
      PROVE  (\E S : sends' \in Seq(S)) /\ Len(sends') <= MaxSends
  <2>1. PICK S : sends \in Seq(S)
    BY DEF SendsOK
  <2>. DEFINE f(i) == [sends[i] EXCEPT !.stopped = @ \/ (~text /\ Superseded(sends[i], to))]
              t == [i \in DOMAIN sends |-> f(i)]
              U == {f(i) : i \in DOMAIN sends} \cup {Begins(to, paths, text)}
  <2>2. sends' = Append(t, Begins(to, paths, text)) /\ Len(sends) < MaxSends
    BY <1>1 DEF Call
  <2>. HIDE DEF f
  <2>3. t \in Seq(U) /\ Len(t) = Len(sends) /\ Len(sends) \in Nat
    BY <2>1
  <2>4. Begins(to, paths, text) \in U
    OBVIOUS
  <2>. HIDE DEF t, U
  <2>5. sends' \in Seq(U) /\ Len(sends') = Len(sends) + 1
    BY <2>2, <2>3, <2>4
  <2>. QED BY <2>2, <2>3, <2>5 DEF TuiAssumption
<1>2. CASE SendComposed
  <2>1. Call(composeTo, {}, TRUE) /\ last' = [to |-> composeTo, paths |-> {}, text |-> TRUE]
    BY <1>2 DEF SendComposed
  <2>2. PICK to : to = composeTo
    OBVIOUS
  <2>3. Call(to, {}, TRUE)
    BY <2>1, <2>2
  <2>4. (\E S : sends' \in Seq(S)) /\ Len(sends') <= MaxSends
    BY <1>1, <2>3
  <2>. QED BY <2>1, <2>4 DEF SendsOK, CardsOK
<1>3. CASE EnterPin
  <2>1. Call(last.to, last.paths, last.text) /\ last' = [last EXCEPT !.text = FALSE]
    BY <1>3 DEF EnterPin
  <2>2. PICK to, paths, text : to = last.to /\ paths = last.paths /\ text = last.text
    OBVIOUS
  <2>3. Call(to, paths, text)
    BY <2>1, <2>2, Zenon
  <2>4. (\E S : sends' \in Seq(S)) /\ Len(sends') <= MaxSends
    BY <1>1, <2>3
  <2>. QED BY <2>1, <2>4 DEF SendsOK
<1>4. ASSUME NEW d \in Device \cup {NoDevice}, Call(d, staged, FALSE),
             last' = [to |-> d, paths |-> staged, text |-> FALSE]
      PROVE  SendsOK'
  <2>1. PICK paths : paths = staged
    OBVIOUS
  <2>2. Call(d, paths, FALSE)
    BY <1>4, <2>1
  <2>3. (\E S : sends' \in Seq(S)) /\ Len(sends') <= MaxSends
    BY <1>1, <2>2
  <2>. QED BY <1>4, <2>3 DEF SendsOK, FinderOK
<1>5. CASE SendStaged
  <2>1. Call(target, staged, FALSE) /\ last' = [to |-> target, paths |-> staged, text |-> FALSE]
    BY <1>5 DEF SendStaged
  <2>2. PICK d \in Device \cup {NoDevice} : d = target
    BY DEF FinderOK
  <2>3. Call(d, staged, FALSE) /\ last' = [to |-> d, paths |-> staged, text |-> FALSE]
    BY <2>1, <2>2
  <2>. QED BY <1>4, <2>3
<1>6. ASSUME NEW d \in Device, QuickSend(d) PROVE SendsOK'
  BY <1>4, <1>6 DEF QuickSend
<1>7. ASSUME NEW i \in DOMAIN sends, NEW s, Becomes(i, s), UNCHANGED last PROVE SendsOK'
  <2>1. PICK S : sends \in Seq(S)
    BY DEF SendsOK
  <2>2. sends' = [sends EXCEPT ![i] = s] /\ DOMAIN sends = 1 .. Len(sends) /\ Len(sends) \in Nat
    BY <1>7, <2>1 DEF Becomes
  <2>3. PICK T : T = S \cup {s}
    OBVIOUS
  <2>4. PICK n \in Nat : n = Len(sends)
    BY <2>2
  <2>5. sends' \in [1 .. n -> T]
    BY <2>1, <2>2, <2>3, <2>4
  <2>6. sends' \in Seq(T) /\ Len(sends') = Len(sends)
    BY <2>4, <2>5
  <2>. QED BY <1>7, <2>6 DEF SendsOK
<1>8. ASSUME NEW i \in DOMAIN sends, SendStep(i) PROVE SendsOK'
  <2>1. PinDemanded(i) => \E s : Becomes(i, s)
    BY ZenonT(60) DEF PinDemanded
  <2>2. Refused(i) => \E s : Becomes(i, s)
    BY ZenonT(60) DEF Refused
  <2>3. Granted(i) => \E s : Becomes(i, s)
    BY ZenonT(60) DEF Granted
  <2>4. ASSUME NEW x \in Path PROVE Unreadable(i, x) => \E s : Becomes(i, s)
    BY ZenonT(60) DEF Unreadable
  <2>5. ASSUME NEW x \in Path PROVE FileStarts(i, x) => \E s : Becomes(i, s)
    BY ZenonT(60) DEF FileStarts
  <2>6. ASSUME NEW x \in Path PROVE FileEnds(i, x) => \E s : Becomes(i, s)
    BY ZenonT(60) DEF FileEnds
  <2>7. \E s : Becomes(i, s)
    BY <1>8, <2>1, <2>2, <2>3, <2>4, <2>5, <2>6, Zenon DEF SendStep
  <2>8. UNCHANGED last
    BY <1>8, SendsReport DEF Reports
  <2>. QED BY <1>7, <2>7, <2>8
<1>. QED
  BY <1>0, <1>2, <1>3, <1>5, <1>6, <1>8, ChangeSends DEF SendStep

\* A step of a send that touches a row arms the timer when all are done.
LEMMA RowSteps ==
  ASSUME RowsOK, SendsOK, TuiAssumption, NEW i \in DOMAIN sends, SendStep(i)
  PROVE  RowsOK' /\ (UNCHANGED <<rows, quitPending>> \/ Update(rows'))
<1>. DEFINE Kinds == {"none", "active", "done", "error", "cancelled"}
<1>0. i \in 1 .. MaxSends /\ \A x \in Path : <<i, x>> \in Keys
  BY DEF SendsOK, TuiAssumption, Keys
<1>1. ASSUME NEW k \in Keys, NEW v \in Kinds, Update([rows EXCEPT ![k] = v])
      PROVE  RowsOK' /\ Update(rows')
  <2>1. rows' = [rows EXCEPT ![k] = v] /\ Update(rows')
    BY <1>1, Zenon DEF Update
  <2>. QED BY <2>1 DEF RowsOK
<1>2. CASE PinDemanded(i) \/ Granted(i)
  <2>1. UNCHANGED <<rows, quitPending>>
    BY <1>2, Zenon DEF PinDemanded, Granted
  <2>. QED BY <2>1 DEF RowsOK
<1>3. CASE Refused(i)
  <2>1. PICK failed : Update([k \in Keys |-> IF k \in failed THEN "error" ELSE rows[k]])
    BY <1>3, Zenon DEF Refused
  <2>2. /\ rows' = [k \in Keys |-> IF k \in failed THEN "error" ELSE rows[k]]
        /\ Update(rows')
    BY <2>1, Zenon DEF Update
  <2>. QED BY <2>2 DEF RowsOK
<1>4. ASSUME NEW x \in Path, Unreadable(i, x) PROVE RowsOK' /\ Update(rows')
  <2>1. Update([rows EXCEPT ![NoKey] = "error"])
    BY <1>4, Zenon DEF Unreadable
  <2>2. NoKey \in Keys
    BY DEF Keys
  <2>. QED BY <1>1, <2>1, <2>2
<1>5. ASSUME NEW x \in Path, FileStarts(i, x) PROVE RowsOK' /\ Update(rows')
  <2>1. \E v \in {"cancelled", "active", "error"} : Update([rows EXCEPT ![<<i, x>>] = v])
    BY <1>5, Zenon DEF FileStarts
  <2>. QED BY <1>0, <1>1, <2>1
<1>6. ASSUME NEW x \in Path, FileEnds(i, x) PROVE RowsOK' /\ Update(rows')
  <2>1. \E v \in {"done", "cancelled", "error"} : Update([rows EXCEPT ![<<i, x>>] = v])
    BY <1>6, Zenon DEF FileEnds
  <2>. QED BY <1>0, <1>1, <2>1
<1>. QED
  BY <1>2, <1>3, <1>4, <1>5, <1>6 DEF SendStep

\* The timer is armed by the step that makes the last row done.
LEMMA RowsKept ==
  ASSUME TuiAssumption, FlagsOK, SendsOK, RowsOK, TimerOK, Next
  PROVE  RowsOK' /\ TimerOK'
<1>1. running' = "yes" => running = "yes"
  <2>1. AutoQuit => running = "yes"
    BY DEF AutoQuit
  <2>. QED BY <2>1, ChangeRunning
<1>2. quick' = quick
  BY ChangeChoice
<1>3. CASE UNCHANGED <<rows, quitPending>>
  <2>1. RowsOK'
    BY <1>3 DEF RowsOK
  <2>2. AllDone(rows)' = AllDone(rows)
    BY <1>3, Zenon DEF AllDone
  <2>. QED BY <1>1, <1>2, <1>3, <2>1, <2>2, Zenon DEF TimerOK
<1>4. ASSUME NEW i \in DOMAIN sends, SendStep(i) PROVE RowsOK' /\ TimerOK'
  <2>1. RowsOK' /\ (UNCHANGED <<rows, quitPending>> \/ Update(rows'))
    BY <1>4, RowSteps
  <2>2. ASSUME Update(rows') PROVE TimerOK'
    BY <1>2, <2>2, Zenon DEF Update, Scheduled, TimerOK, AllDone
  <2>. QED BY <1>3, <2>1, <2>2
<1>5. CASE ClearFinished
  <2>1. rows' = [k \in Keys |-> IF rows[k] = "active" THEN "active" ELSE "none"]
    BY <1>5 DEF ClearFinished
  <2>2. RowsOK'
    BY <2>1 DEF RowsOK
  <2>3. ~AllDone(rows')
    BY <2>1 DEF AllDone
  <2>. QED BY <2>2, <2>3, Zenon DEF TimerOK, AllDone
<1>6. CASE AutoQuit
  <2>1. UNCHANGED rows /\ (running' = "yes" => ~AllDone(rows))
    BY <1>6 DEF AutoQuit
  <2>2. RowsOK'
    BY <2>1 DEF RowsOK
  <2>3. AllDone(rows)' = AllDone(rows)
    BY <2>1, Zenon DEF AllDone
  <2>. QED BY <2>1, <2>2, <2>3, Zenon DEF TimerOK
<1>. QED
  BY <1>3, <1>4, <1>5, <1>6, ChangeRows, Zenon DEF SendStep

-----------------------------------------------------------------------------
(* The theorems *)

\* A step that changes nothing.
LEMMA Stutter ==
  ASSUME IInv, UNCHANGED vars
  PROVE  IInv'
<1>. USE DEF vars, choice, finder, manage
<1>1. FlagsOK'
  BY ZenonT(60) DEF IInv, FlagsOK
<1>2. WindowOK' /\ CardsOK' /\ FinderOK' /\ SendsOK' /\ RowsOK' /\ ManageOK'
  BY DEF IInv, WindowOK, CardsOK, FinderOK, SendsOK, RowsOK, ManageOK
<1>3. TimerOK'
  BY ZenonT(60) DEF IInv, TimerOK, AllDone
<1>. QED
  BY <1>1, <1>2, <1>3 DEF IInv

\* The invariant is inductive.
LEMMA IInvHolds == Spec => []IInv
<1>1. Init => IInv
  BY InitIInv, TuiAssumption
<1>2. IInv /\ [Next]_vars => IInv'
  <2>1. ASSUME IInv, Next PROVE IInv'
    <3>. FlagsOK /\ WindowOK /\ CardsOK /\ FinderOK /\ SendsOK /\ RowsOK /\ TimerOK /\ ManageOK
      BY <2>1 DEF IInv
    <3>1. FlagsOK' /\ WindowOK' /\ CardsOK' /\ FinderOK' /\ SendsOK' /\ ManageOK'
      BY <2>1, FlagsKept, WindowKept, CardsKept, FinderKept, SendsKept, ManageKept, TuiAssumption
    <3>2. RowsOK' /\ TimerOK'
      BY <2>1, RowsKept, TuiAssumption
    <3>. QED BY <3>1, <3>2 DEF IInv
  <2>. QED BY <2>1, Stutter
<1>. QED
  BY <1>1, <1>2, PTL DEF Spec

\* What the variables range over; a prompt is up exactly while the program
\* remembers what it is about.
THEOREM TypeCorrect == Spec => []TypeOK
<1>1. IInv => TypeOK
  <2>1. ASSUME IInv PROVE quick \in BOOLEAN /\ quickSend \in BOOLEAN /\ quitPending \in BOOLEAN
    BY <2>1, Zenon DEF IInv, FlagsOK
  <2>. QED
    BY <2>1 DEF IInv, WindowOK, CardsOK, FinderOK, SendsOK, RowsOK, ManageOK, TypeOK
<1>. QED
  BY <1>1, IInvHolds, PTL

\* What the user has marked, or is asked to confirm the deletion of, is in the
\* list the user sees (refreshManage, requestDelete, doDelete).
THEOREM MarkedIsListed == Spec => []MarksAreListed
<1>1. IInv => MarksAreListed
  BY DEF IInv, ManageOK, MarksAreListed
<1>. QED
  BY <1>1, IInvHolds, PTL

\* The finder sends files to no device but the one they were chosen for
\* (startPicking, the staging of paths, ctrl+s).
THEOREM FilesReachTheirDevice == Spec => FilesGoToTheirDevice
<1>1. IInv /\ [Next]_vars => [SendStaged => \A x \in staged : stagedFor[x] = target]_vars
  BY DEF IInv, FinderOK, SendStaged, InFinder
<1>. QED
  BY <1>1, IInvHolds, PTL DEF Spec, FilesGoToTheirDevice

\* An answer to an offer is given only where the offer is what is drawn
\* (handleKey, View).
THEOREM AnswersReachTheCard == Spec => AnswersTheCard
<1>1. IInv /\ [Next]_vars => [\A accept \in BOOLEAN : Answer(accept) => Drawn = "accept"]_vars
  BY AcceptIsDrawn DEF IInv, CardsOK, Answer
<1>. QED
  BY <1>1, IInvHolds, PTL DEF Spec, AnswersTheCard

\* The window that closes itself: the timer is armed whenever all rows are
\* done, and never ends the program on a file on its way or failed
\* (applyTransfer, maybeScheduleQuit, autoQuitMsg).
THEOREM WindowClosesWhenDone == Spec => ClosesOnlyWhenDone
<1>1. IInv /\ IInv' /\ [Next]_vars => [AutoQuitStep]_vars
  <2>. SUFFICES ASSUME IInv, IInv', Next PROVE AutoQuitStep
    BY DEF AutoQuitStep
  <2>1. quick /\ running' = "yes" /\ AllDone(rows') => quitPending'
    <3>1. quick' = quick
      BY ChangeChoice
    <3>. QED BY <3>1, Zenon DEF IInv, TimerOK, AllDone
  <2>2. ASSUME quitPending, ~quitPending', running' = "quit"
        PROVE  AutoQuit /\ AllDone(rows)
    <3>1. ASSUME NEW i \in DOMAIN sends, SendStep(i) PROVE FALSE
      <4>1. UNCHANGED <<rows, quitPending>> \/ Update(rows')
        BY <3>1, RowSteps, TuiAssumption DEF IInv
      <4>. QED BY <2>2, <4>1, Zenon DEF Update, Scheduled
    <3>2. AutoQuit
      <4>1. ClearFinished => quitPending' = quitPending
        BY ZenonT(60) DEF ClearFinished
      <4>. QED BY <2>2, <3>1, <4>1, ChangeRows, Zenon DEF SendStep
    <3>3. AllDone(rows)
      BY <2>2, <3>2 DEF AutoQuit
    <3>. QED BY <3>2, <3>3
  <2>3. ASSUME AutoQuit, AllDone(rows), NEW i \in DOMAIN sends
        PROVE  /\ sends[i].phase # "moving"
               /\ \A x \in Path : rows[<<i, x>>] \in {"none", "done"}
    <3>1. \A x \in Path : <<i, x>> \in Keys
      BY TuiAssumption DEF IInv, SendsOK, Keys
    <3>2. \A x \in Path : rows[<<i, x>>] \in {"none", "done"}
      BY <2>3, <3>1 DEF AllDone
    <3>3. Uploading(i) = {}
      BY <3>2 DEF Uploading
    <3>. QED BY <2>3, <3>2, <3>3 DEF AutoQuit
  <2>. QED
    BY <2>1, <2>2, <2>3, Zenon DEF AutoQuitStep
<1>. QED
  BY <1>1, IInvHolds, PTL DEF Spec, ClosesOnlyWhenDone

=============================================================================
