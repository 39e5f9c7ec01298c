-------------------------------- MODULE Tui --------------------------------
(***************************************************************************)
(* The terminal program: Model.Update of internal/tui (screens, cards, the *)
(* finder, received files, sending, the PIN retry, the rows of the         *)
(* transfers tab, the window that closes itself), the sends behind it and  *)
(* the received files on disk.                                             *)
(*                                                                         *)
(* Keys are what they mean: one action per effect, whichever keys have it. *)
(* What is typed into a field matters only as being empty or not, and a    *)
(* list's cursor may be on any of its items.  Which devices are listed is  *)
(* Discovery's, the settings file is ConfigStore's, and what becomes of an *)
(* answered offer is Offers'.  The event channels are drained at once.     *)
(***************************************************************************)
EXTENDS Naturals, Sequences, FiniteSets

CONSTANTS
  Device, NoDevice,
  Path, NoPath, \* what the finder lists; each is one file
  Quick,     \* the paths given to the right-click window
  Entry,     \* names in the receive directory
  Folder,    \* those of Entry that are folders
  Root, NoRoot, \* 0 .. n: directories the finder climbs, home first
  Errands,   \* bound: what one user works on: a set of screens, and
             \* "offers" where others offer files meanwhile
  MaxSends,  \* bound: sends in a behaviour
  MaxInbox   \* bound: messages in the list

ASSUME TuiAssumption ==
  /\ NoDevice \notin Device /\ NoPath \notin Path
  /\ 0 \in Root /\ NoRoot \notin Root
  /\ Quick \subseteq Path /\ Quick # {}
  /\ Folder \subseteq Entry
  /\ MaxSends \in Nat /\ MaxInbox \in Nat

VARIABLES
  quick,     \* opened with staged files: no server, and closes by itself
  errand,    \* bound: what this user works on
  screen,
  cards,     \* the prompts that are raised (composing, addingPeer, ...)
  composeTo, \* the device a message is composed to
  inbox,     \* number of messages in the list
  target,    \* the device the finder sends to
  staged,
  quickSend, \* choosing a device sends the staged files
  index,     \* [root, shown, walks]: fzfRoot, the root whose entries are
             \* listed, and the walks in flight
  last,      \* [to, paths, text]: sendPeer, sendPaths, pendingMsg
  sends,     \* what the sender was asked to do, and how far it is
  rows,      \* the rows of the transfers tab, by key; "none": no row
  quitPending,
  running,   \* "yes", "quit", or "crashed"
  disk,      \* disk[e]: "gone", "arriving" or "kept"
  listed, marked, delTargets,
  stagedFor, \* history: the device a path was staged for
  asker      \* history: whose answer raised the PIN prompt that is up; 0: none

choice == <<quick, errand>>
finder == <<target, staged, index, stagedFor>>
manage == <<disk, listed, marked, delTargets>>
vars == <<choice, screen, cards, composeTo, inbox, finder, quickSend, last,
          sends, rows, quitPending, running, manage, asker>>

Tabs == {"peers", "transfers", "manage", "messages", "settings"}
Cards == {"compose", "addPeer", "read", "pin", "edit", "delete", "accept"}
NoKey == <<0, NoPath>>
Keys == ((1 .. MaxSends) \X Path) \cup {NoKey}

TypeOK ==
  /\ quick \in BOOLEAN /\ errand \in Errands
  /\ screen \in Tabs \cup {"picker"}
  /\ cards \subseteq Cards
  /\ composeTo \in Device \cup {NoDevice} /\ target \in Device \cup {NoDevice}
  /\ inbox \in 0 .. MaxInbox
  /\ staged \subseteq Path /\ quickSend \in BOOLEAN
  /\ index \in [root : Root, shown : Root \cup {NoRoot}, walks : SUBSET Root]
  /\ last \in [to : Device \cup {NoDevice}, paths : SUBSET Path, text : BOOLEAN]
  /\ Len(sends) <= MaxSends
  /\ rows \in [Keys -> {"none", "active", "done", "error", "cancelled"}]
  /\ quitPending \in BOOLEAN /\ running \in {"yes", "quit", "crashed"}
  /\ disk \in [Entry -> {"gone", "arriving", "kept"}]
  /\ listed \subseteq Entry /\ marked \subseteq Entry /\ delTargets \subseteq Entry
  /\ stagedFor \in [Path -> Device \cup {NoDevice}]
  /\ asker \in 0 .. MaxSends
  \* The entries listed are those of the directory the finder is in.
  /\ index.shown \in {NoRoot, index.root}
  \* A device is kept exactly while a message is composed to it.
  /\ "compose" \in cards <=> composeTo # NoDevice
  /\ "delete" \in cards <=> delTargets # {}
  /\ "pin" \in cards <=> asker # 0

\* The program with its server, and the one a right-click on files opens.
FullWindow == quick = FALSE /\ staged = {} /\ quickSend = FALSE
QuickWindow == quick = TRUE /\ staged = Quick /\ quickSend = TRUE

Init ==
  /\ FullWindow \/ QuickWindow
  /\ errand \in Errands
  /\ screen = "peers" /\ cards = {} /\ composeTo = NoDevice /\ inbox = 0
  /\ target = NoDevice
  /\ index = [root |-> 0, shown |-> NoRoot, walks |-> {}]
  /\ last = [to |-> NoDevice, paths |-> {}, text |-> FALSE]
  /\ sends = <<>>
  /\ rows = [k \in Keys |-> "none"]
  /\ quitPending = FALSE /\ running = "yes"
  /\ disk \in [Entry -> IF "manage" \in errand THEN {"gone", "kept"} ELSE {"gone"}]
  /\ listed = {} /\ marked = {} /\ delTargets = {}
  /\ stagedFor = [x \in Path |-> NoDevice]
  /\ asker = 0

-----------------------------------------------------------------------------
\* Who gets a key and what is drawn.

\* The first of an order that is raised, or the screen itself.
Topmost(order) ==
  LET up == {i \in DOMAIN order : order[i] \in cards}
  IN  IF up = {} THEN "screen"
      ELSE order[CHOOSE i \in up : \A j \in up : i <= j]

\* Fault: the accept question gets its keys before the PIN prompt.
AcceptFirst == <<"compose", "addPeer", "read", "accept", "pin", "edit", "delete">>

KeyOrder == <<"compose", "addPeer", "read", "pin", "edit", "delete", "accept">>
DrawOrder == <<"pin", "accept", "delete", "compose", "addPeer", "read">>

Focus == IF running = "yes" THEN Topmost(KeyOrder) ELSE "nobody"
Drawn == Topmost(DrawOrder)

\* The paths that are queued to send from now on.
Stages(paths) ==
  /\ staged' = paths
  /\ stagedFor' = [x \in Path |-> IF x \in paths THEN stagedFor[x] ELSE NoDevice]

Lower(c) == cards' = cards \ {c}
Raise(c) == cards' = cards \cup {c}

\* The keys of a screen the user works on.
On(s) == Focus = "screen" /\ screen = s /\ s \in errand

-----------------------------------------------------------------------------
\* Sends as the interface sees them.  Each uploads the files it was granted
\* one by one; a send of files supersedes a running one to the same device.

Message(s) == s.text
Live(s) == s.phase # "over"

\* A send begins: the calls of Send and SendMessage.
Begins(to, paths, text) ==
  [to |-> to, paths |-> paths, text |-> text,
   phase |-> IF text \/ paths # {} THEN "asking" ELSE "over",
   left |-> paths, stopped |-> FALSE]

Superseded(s, to) == ~Message(s) /\ s.to = to

Call(to, paths, text) ==
  /\ Len(sends) < MaxSends
  /\ sends' = Append([i \in DOMAIN sends |->
                        [sends[i] EXCEPT !.stopped = @ \/ (~text /\ Superseded(sends[i], to))]],
                     Begins(to, paths, text))

\* Fault: only failed rows keep the window open.
NoneFailed(r) == /\ \E k \in Keys : r[k] # "none"
                 /\ \A k \in Keys : r[k] \notin {"error", "cancelled"}

\* allSendsDoneOK, for rows r.
AllDone(r) == /\ \E k \in Keys : r[k] # "none"
              /\ \A k \in Keys : r[k] \in {"none", "done"}

\* maybeScheduleQuit.
Scheduled(r) == quitPending \/ (quick /\ AllDone(r))

\* applyTransfer, and the check that follows every event.
Update(r) == rows' = r /\ quitPending' = Scheduled(r)

-----------------------------------------------------------------------------
\* The received files.

\* receivedFiles: a name that ends in ".part" is skipped, at the top level.
Offered(d) == {e \in Entry : d[e] = "kept" \/ (e \in Folder /\ d[e] = "arriving")}

\* Fault: marks of files that are no longer listed stay.
RefreshNoPrune(d) ==
  \E now \in {Offered(d), {}} : listed' = now /\ UNCHANGED marked

\* refreshManage, with the directory as d; the reading may fail.
Refresh(d) ==
  \E now \in {Offered(d), {}} :
    /\ listed' = now
    /\ marked' = marked \cap now

\* requestDelete: the marked files, or the one under the cursor.
Targets == IF listed \cap marked # {} THEN {listed \cap marked}
           ELSE {{e} : e \in listed}

-----------------------------------------------------------------------------
\* Keys of the prompts.

seen == <<choice, disk, sends, rows, quitPending, running>>

\* esc.  A delete prompt forgets its targets, a compose prompt its device.
Cancel(c) ==
  /\ Focus = c /\ c # "accept"
  /\ Lower(c)
  /\ composeTo' = IF c = "compose" THEN NoDevice ELSE composeTo
  /\ delTargets' = IF c = "delete" THEN {} ELSE delTargets
  /\ asker' = IF c = "pin" THEN 0 ELSE asker
  /\ UNCHANGED <<seen, screen, inbox, finder, quickSend, last, listed, marked>>

\* enter with a text: the message is sent, and kept for a PIN prompt.
SendComposed ==
  /\ Focus = "compose"
  /\ Call(composeTo, {}, TRUE)
  /\ last' = [to |-> composeTo, paths |-> {}, text |-> TRUE]
  /\ Lower("compose") /\ composeTo' = NoDevice
  /\ UNCHANGED <<choice, screen, inbox, finder, quickSend, rows, quitPending,
                 running, manage, asker>>

\* enter with a PIN: what was sent last is sent again with it.
EnterPin ==
  /\ Focus = "pin"
  /\ last.to # NoDevice
  /\ Lower("pin")
  /\ Call(last.to, last.paths, last.text)
  /\ last' = [last EXCEPT !.text = FALSE]
  /\ screen' = IF last.text THEN screen ELSE "transfers"
  /\ asker' = 0
  /\ UNCHANGED <<choice, composeTo, inbox, finder, quickSend, rows, quitPending,
                 running, manage>>

\* saveEdit.  Without a server controller.SetAlias dereferences nil.
SaveEdit ==
  /\ Focus = "edit"
  /\ IF quick
     THEN running' = "crashed" /\ UNCHANGED cards
     ELSE Lower("edit") /\ UNCHANGED running
  /\ UNCHANGED <<choice, screen, composeTo, inbox, finder, quickSend, last, sends,
                 rows, quitPending, manage, asker>>

\* y on the delete prompt: doDelete, of which each removal may fail.
ConfirmDelete ==
  /\ Focus = "delete"
  /\ \E gone \in SUBSET delTargets :
       LET left == [e \in Entry |-> IF e \in gone THEN "gone" ELSE disk[e]]
       IN  /\ disk' = left
           /\ \E now \in {Offered(left), {}} :
                /\ listed' = now
                /\ marked' = (marked \ gone) \cap now
  /\ delTargets' = {}
  /\ Lower("delete")
  /\ UNCHANGED <<choice, screen, composeTo, inbox, finder, quickSend, last, sends,
                 rows, quitPending, running, asker>>

Answer(accept) ==
  /\ Focus = "accept"
  /\ Lower("accept")
  /\ screen' = IF accept THEN "transfers" ELSE screen
  /\ UNCHANGED <<seen, asker, composeTo, inbox, finder, quickSend, last, listed,
                 marked, delTargets>>

-----------------------------------------------------------------------------
\* Keys of the screens.

still == <<choice, composeTo, inbox, last, sends, rows, quitPending, running,
           asker>>

\* A digit or tab: any tab but from the finder; the manage tab reloads.
GoTo(s) ==
  /\ Focus = "screen" /\ screen # "picker"
  /\ s \in Tabs /\ s \in errand \cup {"peers", "transfers"}
  /\ screen' = s
  /\ IF s = "manage" THEN Refresh(disk) ELSE UNCHANGED <<listed, marked>>
  /\ UNCHANGED <<still, cards, finder, quickSend, disk, delTargets>>

Quit ==
  /\ Focus \in {"screen", "edit"}
  /\ running' = "quit"
  /\ UNCHANGED <<choice, screen, cards, composeTo, inbox, finder, quickSend, last,
                 sends, rows, quitPending, manage, asker>>

\* m or v on a device: the prompt keeps the device under the cursor.
OpenCompose(d) ==
  /\ On("peers")
  /\ Raise("compose") /\ composeTo' = d
  /\ UNCHANGED <<seen, asker, screen, inbox, finder, quickSend, last, listed,
                 marked, delTargets>>

Open(c) ==
  /\ Raise(c)
  /\ UNCHANGED <<still, screen, finder, quickSend, manage>>

OpenAddPeer == On("peers") /\ Open("addPeer")
OpenEdit == On("settings") /\ Open("edit")
OpenMessage == On("messages") /\ inbox > 0 /\ Open("read")

DeleteMessage ==
  /\ On("messages") /\ inbox > 0
  /\ inbox' = inbox - 1
  /\ UNCHANGED <<seen, asker, screen, cards, composeTo, finder, quickSend, last,
                 listed, marked, delTargets>>

\* enter on a device, with files staged by the right-click.
QuickSend(d) ==
  /\ On("peers")
  /\ quickSend /\ staged # {}
  /\ Call(d, staged, FALSE)
  /\ last' = [to |-> d, paths |-> staged, text |-> FALSE]
  /\ Stages({}) /\ quickSend' = FALSE
  /\ screen' = "transfers"
  /\ UNCHANGED <<choice, cards, composeTo, inbox, target, index, rows, quitPending,
                 running, manage, asker>>

\* Fault: the finder keeps what was staged for another device.
OpenFinderKeepStaged(d) ==
  /\ Focus = "screen" /\ screen = "peers" /\ "picker" \in errand
  /\ ~(quickSend /\ staged # {})
  /\ target' = d
  /\ index' = [root |-> 0, shown |-> NoRoot, walks |-> index.walks \cup {0}]
  /\ screen' = "picker"
  /\ UNCHANGED <<still, cards, quickSend, staged, stagedFor, manage>>

\* enter on a device, otherwise: the finder opens at home for it.
OpenFinder(d) ==
  /\ Focus = "screen" /\ screen = "peers" /\ "picker" \in errand
  /\ ~(quickSend /\ staged # {})
  /\ target' = d /\ Stages({})
  /\ index' = [root |-> 0, shown |-> NoRoot, walks |-> index.walks \cup {0}]
  /\ screen' = "picker"
  /\ UNCHANGED <<still, cards, quickSend, manage>>

Mark(e) == marked' = IF e \in marked THEN marked \ {e} ELSE marked \cup {e}

\* toggleMarkAll.
MarkAll == marked' = IF listed # {} /\ listed \subseteq marked
                     THEN marked \ listed ELSE marked \cup listed

MarkKey ==
  /\ On("manage")
  /\ \/ \E e \in listed : Mark(e)
     \/ MarkAll
  /\ UNCHANGED <<still, screen, cards, finder, quickSend, disk, listed, delTargets>>

RefreshKey ==
  /\ On("manage")
  /\ Refresh(disk)
  /\ UNCHANGED <<still, screen, cards, finder, quickSend, disk, delTargets>>

RequestDelete ==
  /\ On("manage")
  /\ \E ts \in Targets : delTargets' = ts
  /\ Raise("delete")
  /\ UNCHANGED <<still, screen, finder, quickSend, disk, listed, marked>>

ClearFinished ==
  /\ Focus = "screen" /\ screen = "transfers"
  /\ rows' = [k \in Keys |-> IF rows[k] = "active" THEN "active" ELSE "none"]
  /\ UNCHANGED <<choice, screen, cards, composeTo, inbox, finder, quickSend, last,
                 sends, quitPending, running, manage, asker>>

-----------------------------------------------------------------------------
\* Keys of the finder.

InFinder == Focus = "screen" /\ screen = "picker"

LeaveFinder ==
  /\ InFinder
  /\ screen' = "peers"
  /\ UNCHANGED <<still, cards, finder, quickSend, manage>>

\* enter on a match.
Stage(x) ==
  /\ InFinder /\ index.shown # NoRoot
  /\ staged' = IF x \in staged THEN staged \ {x} ELSE staged \cup {x}
  /\ stagedFor' = [stagedFor EXCEPT ![x] = IF x \in staged THEN NoDevice ELSE target]
  /\ UNCHANGED <<still, screen, cards, target, index, quickSend, manage>>

\* ctrl+u.
ClimbUp ==
  /\ InFinder /\ index.root + 1 \in Root /\ "parent" \in errand
  /\ index' = [root |-> index.root + 1, shown |-> NoRoot,
               walks |-> index.walks \cup {index.root + 1}]
  /\ UNCHANGED <<still, screen, cards, target, staged, stagedFor, quickSend, manage>>

\* ctrl+s.
SendStaged ==
  /\ InFinder /\ "parent" \notin errand
  /\ staged # {} /\ target # NoDevice
  /\ Call(target, staged, FALSE)
  /\ last' = [to |-> target, paths |-> staged, text |-> FALSE]
  /\ Stages({})
  /\ screen' = "transfers"
  /\ UNCHANGED <<choice, cards, composeTo, inbox, target, index, quickSend, rows,
                 quitPending, running, manage, asker>>

-----------------------------------------------------------------------------
\* What comes in from outside.

Arrives ==
  /\ running = "yes"
  /\ UNCHANGED <<choice, screen, composeTo, target, staged, stagedFor, quickSend,
                 last, quitPending, running, manage>>

\* fzfIndexedMsg: the walk of another root is dropped.
Walked(r) ==
  /\ r \in index.walks
  /\ index' = [index EXCEPT !.walks = @ \ {r},
                            !.shown = IF r = index.root THEN r ELSE @]
  /\ Arrives
  /\ UNCHANGED <<cards, inbox, sends, rows, asker>>

\* IncomingMsg; a second question replaces the first (Offers).
Asked ==
  /\ ~quick /\ "offers" \in errand
  /\ Raise("accept")
  /\ Arrives
  /\ UNCHANGED <<inbox, index, sends, rows, asker>>

MessageArrives ==
  /\ ~quick /\ inbox < MaxInbox
  /\ inbox' = inbox + 1
  /\ Arrives
  /\ UNCHANGED <<cards, index, sends, rows, asker>>

\* The engine or another program works in the receive directory.
DiskStep(e) ==
  /\ \E next \in {"gone", "arriving", "kept"} :
       /\ next # disk[e]
       /\ disk[e] = "kept" /\ e \notin Folder => next = "gone"
       /\ disk' = [disk EXCEPT ![e] = next]
  /\ running = "yes" /\ "manage" \in errand
  /\ UNCHANGED <<still, screen, cards, finder, quickSend, listed, marked, delTargets>>

-----------------------------------------------------------------------------
\* The sender's goroutines and the events they emit.

Reports ==
  /\ running = "yes"
  /\ UNCHANGED <<choice, screen, composeTo, inbox, finder, quickSend, last, running,
                 manage>>

Becomes(i, s) == sends' = [sends EXCEPT ![i] = s]

\* expand cannot read a path: an error event without an id.
Unreadable(i, x) ==
  LET s == sends[i] IN
  /\ s.phase = "asking" /\ x \in s.left
  /\ Becomes(i, [s EXCEPT !.left = @ \ {x},
                          !.phase = IF s.left = {x} THEN "over" ELSE @])
  /\ Update([rows EXCEPT ![NoKey] = "error"])
  /\ Reports
  /\ UNCHANGED <<cards, asker>>

\* The peer answers that it wants a PIN, or another one.
PinDemanded(i) ==
  /\ sends[i].phase = "asking"
  /\ Becomes(i, [sends[i] EXCEPT !.phase = "over", !.left = {}])
  /\ Raise("pin")
  /\ asker' = i
  /\ Reports
  /\ UNCHANGED <<rows, quitPending>>

\* Prepare-upload fails: an error for each file, or for the message.
Refused(i) ==
  LET s == sends[i]
      failed == IF Message(s) THEN {NoKey} ELSE {<<i, x>> : x \in s.left}
  IN
  /\ s.phase = "asking"
  /\ Becomes(i, [s EXCEPT !.phase = "over", !.left = {}])
  /\ Update([k \in Keys |-> IF k \in failed THEN "error" ELSE rows[k]])
  /\ Reports
  /\ UNCHANGED <<cards, asker>>

\* The peer takes the message, or grants some of the files.
Granted(i) ==
  LET s == sends[i] IN
  /\ s.phase = "asking"
  /\ \E g \in SUBSET s.left :
       Becomes(i, [s EXCEPT !.phase = IF g = {} THEN "over" ELSE "moving", !.left = g])
  /\ Reports
  /\ UNCHANGED <<cards, rows, quitPending, asker>>

Uploading(i) == {x \in Path : rows[<<i, x>>] = "active"}

\* The next file: cancelled when the send is, not readable, or on its way.
FileStarts(i, x) ==
  LET s == sends[i] IN
  /\ s.phase = "moving" /\ x \in s.left /\ Uploading(i) = {}
  /\ \E became \in IF s.stopped THEN {"cancelled"} ELSE {"active", "error"} :
       /\ Update([rows EXCEPT ![<<i, x>>] = became])
       /\ Becomes(i, [s EXCEPT !.left = @ \ {x},
                               !.phase = IF became # "active" /\ s.left = {x}
                                         THEN "over" ELSE @])
  /\ Reports
  /\ UNCHANGED <<cards, asker>>

\* A failed upload stops the rest of its batch.
FileEnds(i, x) ==
  LET s == sends[i] IN
  /\ x \in Uploading(i)
  /\ \E became \in {"done", IF s.stopped THEN "cancelled" ELSE "error"} :
       /\ Update([rows EXCEPT ![<<i, x>>] = became])
       /\ Becomes(i, [s EXCEPT !.stopped = @ \/ became = "error",
                               !.phase = IF s.left = {} THEN "over" ELSE @])
  /\ Reports
  /\ UNCHANGED <<cards, asker>>

\* autoQuitMsg.  Assumed: within the timer's 1.2 seconds a batch gets from
\* the end of one file to the start of the next.
AutoQuit ==
  /\ running = "yes" /\ quitPending
  /\ \A i \in DOMAIN sends : sends[i].phase = "moving" => Uploading(i) # {}
  /\ quitPending' = FALSE
  /\ running' = IF AllDone(rows) THEN "quit" ELSE "yes"
  /\ UNCHANGED <<choice, screen, cards, composeTo, inbox, finder, quickSend, last,
                 sends, rows, manage, asker>>

KeyPressed ==
  \/ \E c \in Cards : Cancel(c)
  \/ SendComposed \/ EnterPin \/ SaveEdit \/ ConfirmDelete
  \/ \E accept \in BOOLEAN : Answer(accept)
  \/ \E s \in Tabs : GoTo(s)
  \/ Quit
  \/ \E d \in Device : OpenCompose(d) \/ QuickSend(d) \/ OpenFinder(d)
  \/ OpenAddPeer \/ OpenEdit \/ OpenMessage
  \/ DeleteMessage \/ MarkKey \/ RefreshKey \/ RequestDelete \/ ClearFinished
  \/ LeaveFinder \/ ClimbUp \/ SendStaged
  \/ \E x \in Path : Stage(x)

EventArrives ==
  \/ \E r \in Root : Walked(r)
  \/ Asked \/ MessageArrives
  \/ \E e \in Entry : DiskStep(e)
  \/ \E i \in DOMAIN sends :
       \/ PinDemanded(i) \/ Refused(i) \/ Granted(i)
       \/ \E x \in Path : Unreadable(i, x) \/ FileStarts(i, x) \/ FileEnds(i, x)
  \/ AutoQuit

Next == KeyPressed \/ EventArrives

Spec == Init /\ [][Next]_vars
-----------------------------------------------------------------------------
(* Properties *)

AutoQuitStep ==
  /\ quick /\ running' = "yes" /\ AllDone(rows') => quitPending'
  /\ quitPending /\ ~quitPending' /\ running' = "quit"
       => \A i \in DOMAIN sends :
            /\ sends[i].phase # "moving"
            /\ \A x \in Path : rows[<<i, x>>] \in {"none", "done"}

\* A window that is to close by itself has its timer armed whenever every row
\* is done; and it never closes by itself on a file that is on its way or has
\* failed: only a send that still waits for its answer can be lost with it.
ClosesOnlyWhenDone == [][AutoQuitStep]_vars

\* An accept question is answered only by a key pressed while it is what
\* the window shows.
AnswersTheCard ==
  [][\A accept \in BOOLEAN : Answer(accept) => Drawn = "accept"]_vars

\* What is marked or about to be deleted is an item of the list, so that the
\* user could see it (refreshManage, toggleMarkAll).  A filter of the list, which
\* hides items from view, is left out.
MarksAreListed == marked \cup delTargets \subseteq listed

\* Files staged in the finder go to the device they were staged for.
FilesGoToTheirDevice ==
  [][SendStaged => \A x \in staged : stagedFor[x] = target]_vars

\* What the comment of Model.pendingMsg says: "so the PIN retry resends the
\* right thing": to the device that asked, the files or the message it asked
\* about.
RetryResendsIt ==
  [][EnterPin =>
       LET s == sends'[Len(sends')] IN
       /\ s.to = sends[asker].to
       /\ s.text = sends[asker].text /\ s.paths = sends[asker].paths]_vars

\* What View's comment says: "Focused prompts take over the window".
KeysGoToWhatIsShown == Drawn # "screen" /\ running = "yes" => Focus = Drawn

\* What the comment of controller says: the setters "no-op when there is no
\* server".
NoCrash == running # "crashed"

\* What receivedFiles' comment says: the list "never offers to delete a file
\* that is still being written".
ArrivingNotOffered ==
  [][RequestDelete => \A e \in delTargets' : disk[e] # "arriving"]_vars

\* "auto-closes the window once the outgoing transfer completes".
AutoQuitLosesNothing ==
  [][quitPending /\ ~quitPending' /\ running' = "quit"
       => \A i \in DOMAIN sends : ~Live(sends[i])]_vars
=============================================================================
