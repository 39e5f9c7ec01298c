# A TLA+ model of omasend

omasend sends and receives files and short messages over the LocalSend
protocol.  A Go daemon, `omasend-engine`, holds the network services and talks
to a desktop shell (QML) over a unix socket; `omasend` is a terminal program
with the same services inside.  This directory models the concurrent core of
both: who may receive which file, where its bytes land, how the user's answer
finds its request, what the clients of the engine are told, which devices are
listed, what a sender reports, how guesses of a PIN are counted, what starts,
crashes and saves leave in the files and under the socket's path, and what the
terminal program does with keys.

Every `.tla` file says in its header which code it models.  `PROJECT.json` maps
each definition to the lines it stands for.

## The system

| Part | State | Operations | Talks to |
|---|---|---|---|
| Session store, `internal/server/session.go` | sessions by id: files with token, done, inflight; active count; lastUsed | create, sweep, claim, endUpload, cancel, complete | called by the HTTP handlers, each on its own goroutine |
| HTTP handlers, `internal/server/server.go` | settings, channels `transfers` (bounded), `accepts`, `messages` | prepare-upload, upload, cancel, register, info | session store, receive directory, PIN limiter, engine |
| Receive directory, `writeFile` | files on disk | choose a name, temporary file, copy, rename | shared by all uploads, survives crashes |
| PIN limiter, `pinlimit.go` | failures by address | locked, fail, success, prune | prepare-upload |
| Message history, `recordMessage` | messages in memory, `messages.json` and its temporary file | load, record, save | engine pump; read by greetings |
| Engine start and end, `prepareSocket`, `main` | the control socket's path, the port | look, dial, remove, bind, listen, shut down | other engines, terminal programs |
| Engine, `cmd/omasend-engine/main.go` | parked offers, message history, configuration, clients with a queue each | pumps, holdOffer, resolveOffer, greeting, broadcast, requests of clients | reads the server's and the sender's channels and discovery's, writes to clients |
| Discovery, `internal/discovery` | table of peers | NotePeer, reap, snapshots, events | multicast, /register and probes in; engine and terminal interface out |
| Sender, `internal/client` | running sends by address | Send, SendFilesSync, SendMessage | a remote server |
| Terminal interface, `internal/tui` | device list, prompts, rows | key and event updates | all services through `cmd/omasend` |
| Shell, `Service.qml` | the engine's state as last told | handleLine, reconnect | engine's socket |
| Configuration, `internal/config` | one JSON file | Load, Save | engine, `omasend` |

What is hard here: `net/http` gives each request a goroutine, so handlers
interleave between any two holds of a lock; uploads end by completion, by an
error, by a cancel or by the expiry of their session; a question to the user is
waited for by three parties with three timers; the engine reads a piece of state
under a lock and broadcasts it after the unlock; channels that are full drop or
block; a crash leaves the receive directory as it is; a superseded send and its
successor clean up the same registry; programs that start together share one
socket path, one port and one temporary name per file; the terminal program has
one prompt of each kind for all that may raise it, and acts on lists and rows
that change between two keys.  `PROJECT.json` lists these hazards at
their lines, with the properties that would notice.

## The modules

### UploadSessions, FileDelivery, UploadSessionsProofs

`UploadSessions` is the session store with the upload, cancel and the accepted
half of the prepare-upload handler.  An action is one hold of the store's lock,
one step of `writeFile`, or one send on the `transfers` channel.  `pc[h]` is the
place of goroutine `h` in `handleUpload` or `handleCancel`; `sessions`, `files`,
`done`, `inflight`, `active`, `idle` are the store; `cancelled` is the sessions
whose context is over.  `landed` and `row` are history: files that got their
final name, and the last event sent under `sessionId:fileId`.

`FileDelivery` is the promise, without goroutines, locks and channels: an
offered file is attempted by one upload at a time, an attempt fails (and the file
is offered again) or delivers (and is final), none begins once the session is
closed.  `UploadSessions` refines it: a file is *attempted* while a goroutine is
between its claim and the rename.

Properties: `SingleReceiver`, `BusyMarkExact`, `CapsHold`, `DoneMeansLanded`,
`SessionsEndForAReason`, `RowsEndOnce`, `ClaimsAreReleased` (liveness),
`DeliversFiles` (refinement).

### ReceiveDir, ReceiveDirProofs

`writeFile`, `destPath`, `uniqueAt` on a shared directory: look for a free name,
create the temporary file exclusively, copy, rename over whatever is there.
A file is identified by the upload that made it; names are opaque, with the two
relations the code uses (the names `uniqueAt` tries in order, and the ".part"
name).  `Crash` ends all goroutines and keeps the directory.

### Offers, PrepareUploadProofs

One question to the user: `askAccept` in the server, the `accepts` channel,
`holdOffer` with its timer and table, `resolveOffer`, and the sender's own
response timeout.  `program` chooses who drains the channel: the engine, or the
terminal program, whose single prompt shows the latest request (an older one
waits until the server gives up on it).  Time advances in ticks; what is due within a tick runs before
the next one.

### EventHub, EventHubProofs

The hub, the goroutine serving a connection and the shell's view.  A client is
registered first and greeted after that; a greeting is read, then queued; all
other goroutines broadcast in between.  `view[c]` folds the lines a client read
the way `handleLine` does, and `ReadAll` those it has still to read.

### Discovery, DiscoveryProofs

The table under its lock, and the events sent after the unlock on a dropping
channel.  `program` says whose table it is.

The terminal program applies the events one by one (`Bridge`).  The engine tells
its clients of the table, and several of its goroutines do: the pump after any
event, the goroutine of an addPeer after its probe, and the one that serves a
client for the greeting and on request.  Each reads the table under one lock
(`Compose`) and queues what it read under the hub's (`Queue`), for all members or
for its own client.  `shown[c]` is the last of these events queued for `c`, which
is what `c` shows when it has read its queue (`EventHub` has the queues); a client
whose queue is full is thrown out by `Drop`.

A line that was read early may be queued late, so a client can end with a table
that was, and nothing corrects it before the next event
(`MCDiscoveryStale.cfg`).  `older` and `late` are history: the goroutines that
read the table before the pump's last read, and the clients that heard one of
them last.  `ClientsSeeTable` and `GoneDevicesVanish` speak of the others: there,
events that are dropped, that overtake each other or that cross a greeting do no
harm.

### Sender, Transfer, SenderProofs

`Sender` is `send` and `SendFilesSync`: registration and supersession, expansion,
prepare-upload, the upload loop with its three kinds of failure, the deferred
clean-up.  `Transfer` puts it together with a receiver that behaves as
`FileDelivery` and a network that loses and delays: an answer of 200 is heard
only if the receiver delivered, a request may arrive after its sender gave up.
That `UploadSessions` is such a receiver is the refinement above.

### PinLimit, PrepareUploadProofs

The gate of prepare-upload and the limiter: `locked` under one hold of its lock,
the comparison under none, `fail` or `success` under another, for any number of
requests of any number of sources.  A source without a record has 0 strikes;
`fail` prunes a full table before it makes a record.  `tries` is history: the
wrong PINs a source had recorded in its present run.

### AtomicFile, ConfigStore, MessageHistory, Engines, EnginesProofs

`AtomicFile` is a file replaced by way of a temporary one of a fixed name, on
inodes: `os.WriteFile` truncates and shares an inode another program has open,
and a rename may give the file's name to an inode that is still being written.
`ConfigStore` is `Load` and `Save` of `config.json` on it, step by step, for
every program that has settings in memory; `MessageHistory` is the engine's
history with its cap, its retention and `messages.json`.

`Engines` composes them with the life of the programs: `Load`, the flags, the
steps of `prepareSocket`, the port, the history, the listener, and the end, by a
signal or at any point by a crash.  `crossed` is history: whether two programs
were starting or saving at the same time (`"start"`), or one while another was
ending (`"stop"`).  The properties say which of the two they tolerate.

### Tui, TuiProofs

`Model.Update` of the terminal program in its two windows, the full one and the
one a right-click on files opens: which prompt gets a key (`KeyOrder`) and which
is drawn (`DrawOrder`), the finder, the received files with their marks, what is
sent and sent again with a PIN, the rows of outgoing transfers and the timer
that closes the quick window.  Behind it run the sends, reduced to what they
report.  A key is what it means; a list's cursor may be on any item.
`stagedFor` and `asker` are history: for which device a path was staged, and
which send raised the PIN prompt.

## The runs

| Run | Question | Bounds |
|---|---|---|
| upload_sessions | exclusive claims, exact busy marks, the session cap, no cut transfers, one end per row | 2 goroutines, 2 ids, 2 files, at most 1 live session, channel of 1 |
| upload_sessions_fair | every claim is released, refinement of `FileDelivery` | 2 goroutines, 2 sessions of 1 file that take turns on a cap of 1 file, channel of 1 |
| receive_dir | unfinished bytes only under temporary names, no strays but after a crash or a failed rename, files in place not touched by later uploads | 3 uploads with colliding, numbered and ".part" names |
| offers | one answer per request, bounded table, the timers' order, acceptance only by the user or auto-accept, offers leave | 2 requests in either program, 1 place parked, 1 in the channel; waits 1, 4, 2 |
| event_hub | no send on a closed queue, no missed prompt, messages reach served clients once | 2 connections, 1 offer, 1 message, 1 settings change, queue of 1 |
| discovery | table bounded, clients not told something older last have the table in the end, only silence evicts, routable addresses kept, a device gone for good vanishes for them | 2 devices for 1 place, 1 of them at 2 addresses, 1 listener and the reaper, channel of 1, 1 client that comes, asks and goes |
| sender | registry exact, a superseded send ends | 3 batches, 1 file |
| transfer | done means delivered, wrong about one file at most, every file reported, no error means all sent | 2 batches, 2 files |
| pin_limit | guesses bounded, lockouts stand, uncounted only when full | 3 sources for 2 records, 2 goroutines, 2 strikes, a lockout shorter than the age of a stale record, 7 ticks |
| tui | marks are listed, the window closes only when done, answers go to the drawn question, files to their device | 2 devices, 2 paths, a file and a folder received, 2 sends, 1 message, 2 finder roots |
| engines | settings whole and of one identity, the engine that is up is reached, saved messages kept | 2 engines, 1 terminal program, 3 starts, 3 messages with a cap of 2 and 2 ticks, 1 change of settings |
| tui_pin | violation: what a PIN prompt sends again | 3 sends |

In the runs of `Offers` and `Discovery` the type invariant holds the bound of
the table.  The type invariants of all modules are proved.

The bounds are the smallest at which the interesting cases meet: two contenders
and one more for a claim, a place or a registration (the third batch is the one
that a wrong clean-up fails to supersede), a cap of one below the demand, a
channel one place short of what can be queued.  A queue of one place in
`event_hub` loses no order: a longer queue delivers the same lines in the same
order, and one place makes every client a slow one.  The run `discovery` has no
addPeer: another goroutine that tells makes ten times the states.
`MCDiscoveryAskers.cfg` has one and checks the same properties but the liveness
one (4,173,793 states, no error), and the theorem about `ClientsSeeTable` is for any
number of them.  In `upload_sessions` the cap on file entries is as large as one
session's files, so that it is `maxSessions` that binds; that both hold together
is the theorem `CapsAreKept`.

Three constants keep unrelated things apart.  `Errands` is what one user of the
terminal program works on: the device list while others offer files, the finder,
climbing in the finder, or the other tabs.  The cards and rows are the same in
all of them, and what two errands share beyond that is the device list, so a
user with all errands interleaves what does not meet.  `Topics` does the same for
the engines: a behaviour records messages, or changes settings, without flags of
the command line or with them; the two use different files.  `Overlaps` says
what may be crossed in which of them; the run has starts that cross, except
with flags, and `MCEnginesDocs.cfg` also ends.  Three starts are two that
race for what a third left behind.  All programs are started with one port, as
the default is; with others they would not meet there.  `MaxSends` allows one
send to supersede or retry another, with a third in `tui_pin`.

`Tui` assumes that a batch gets from the end of one file to the start of the
next within the 1.2 seconds of the closing timer; nothing in the code enforces
it, and a stall there would close the window on the rest of the batch.

Symmetry sets are used in
runs of safety properties only.  Deadlock is not checked where all requests may
have been served.

### Fairness

A goroutine that can run does: weak fairness of its steps.  A send on a full
channel gets strong fairness, since Go's runtime queues blocked senders in
order.  A body that stops arriving is cut by `stallGuard`, so a copy ends.
The engine's pumps range over their channels as long as it lives.  Requests,
clients, users, devices and the answers of peers get none.  In `Sender` a call
returns once its context is over, and that alone: nothing bounds an upload.
In `Discovery` the pump reads and tells, and a line in hand is queued; a client
need not ask.  The clock of `Discovery` is strongly fair, for it waits while a
goroutine holds an entry in hand, and `GoneDevicesVanish` assumes that goroutines are done with
their entries again and again (`[]<>~Busy`): one that never came back would hold
the clock.

## What is proved

### UploadSessionsProofs

`UploadSessionsProofs` proves, for every number of sessions, files and
goroutines and every cap, from `UploadSessionsAssumption` (finitely many files, natural
bounds, a channel with room for one event):

* `TypeCorrect`: the type invariant;
* `SingleReceiverHolds`, `BusyMarkIsExact`, `DoneMeansLandedHolds`;
* `SessionsEndOnlyForAReason` and `RowsEndOnlyOnce`, two properties of steps;
* `CapsAreKept`, the bounds of the store;
* `ImplementsFileDelivery`, the refinement of `FileDelivery`.

None of the invariants is inductive alone.  Two uploads hold different files
because a claim checks `inflight` and `done`, so `inflight` must be known to be
just the files of goroutines that upload; this is `BusyMarkExact`, which in turn
needs that a goroutine's release subtracts a file no other goroutine holds.
`IInv` is their conjunction, with: goroutines that upload work on one file of a
session that exists or existed, ids not in use are blank, what has landed is
done or about to be marked, and each row agrees with the place of the goroutine
that last wrote it.  There is one lemma per action (`ClaimIInv`, ...,
`QuietIInv`), one step per conjunct the action disturbs, and cardinality facts
about the goroutines of a session.

`CapsHold` needs that the sessions and their entries are finite sets, of which
there are as many as `create` counted: it looks and inserts under one hold of the
lock (`CreateCaps`), and all other steps shrink them (`ShrinkCaps`).

For the refinement each step is mapped: a claim is an attempt (`ClaimDelivers`),
the end of an upload a failure or a delivery (`EndDelivers`), `create` an offer
or nothing (`CreateDelivers`), and the rest closes sessions or changes nothing
of what `FileDelivery` sees (`OthersDeliver`).  That the file a goroutine renames
was being attempted, and by nobody else, is `IInv` again (`OnlyAttempt`).

### ReceiveDirProofs

For any number of uploads, any names, and any way in which final, numbered and
temporary names coincide: `TypeCorrect`, `PartialFilesStayTemporary`,
`FailuresLeaveNothing`, `EarlierFilesStay`.  `ReceiveDirAssumption` asks of names
only that a temporary name is not the name it is made from.

A file is removed and renamed by name, so its fate depends on what else has that
name.  `TempOK` says that a temporary name in use is one upload's, though what is
under it may be another upload's finished file, which was renamed to just that
name.  `FileOK` follows each file: it has its temporary name until its upload
renames it.  A failing upload removes its own file or one in place, never
another's partial one; and a rename moves its own file or one in place.  The
property of steps needs, besides, that what was in place when an upload chose
its name is not under that name (`BeforeOK`), and it is where the condition
`OwnName` is needed: a file in place under somebody's temporary name may be
moved away and come back.

### PrepareUploadProofs: the accept question

A prepare-upload meets the PIN gate and then the user, so the theorems about
`PinLimit` and `Offers` are in one module.

For any number of requests, any capacities, and waits with
`HoldFor + StartupLag < ServerWait` (the comment on `holdOffer`'s timer; 55 and 60
seconds in the code): `TypeCorrect`, `OffersAreAnsweredOnce`,
`OffersStayAnswerable`, `OnlyUsersAccept`.

`IInv` says where a request can be: new, in the channel once, parked, in the
prompt, or decided, and in no two of these places.  A request in one of them has
no decision and none on its way (`Untouched`), so the reply that is sent is the
first.  That the server still waits for what is parked is a relation of two
clocks: the goroutine's is ahead of the offer's by no more than the pump was late
(`QueuedOK`, `ParkedOK`).

### PrepareUploadProofs: the PIN gate

For any number of sources and goroutines and any limits, from
`PinLimitAssumption` (finite sets, at least one strike, a lockout of at least a
tick): `PinTypeCorrect`, `GuessesAreBounded`, `LockoutsStandAlways` and
`UncountedOnlyWhenFullAlways`: every property of the run.

`GuessesBounded` is not inductive: that a run of guesses is short says nothing
of the requests still to be counted.  `PinIInv` has `RunOK`, which adds, source by source, that
without a lockout the guesses are the strikes and too few for one, and that
while one is in force the guesses and the goroutines still comparing fit the
bound together; nobody joins them then, for the gate is shut.  It also says that
no lockout reaches further than `pinLockout` from now, which is why another
failure during one does not shorten it (`LockoutsStandAlways`).  `FailSelf` and
`FailOthers` say what a failure does to its own record and to the others, and
`RecordedBounded` that the table stays below its cap.

### EventHubProofs

For any number of connections, offers, messages and changes, and queues of any
length: `TypeCorrect`, `QueuesAreUsedOpen`, `PromptsAreComplete`,
`MessagesReachOnce`.

The last two speak of what a client shows after it has read all that is queued
for it (`Settled`, by way of `ReadAll`, a recursive function).  Three facts about
`ReadAll` are proved by induction on the queue's length: a queue without lines
changes nothing, a line that is queued is the last one read, and a line
that is delivered is the first.  The library's induction rule takes an operator,
so `NatSets` states induction for a set of numbers instead; it follows from the
numbers being well-founded.

`IInv` says what each goroutine has in hand (`HeldOK`): in particular, an offer
whose end is about to be told is not parked and will not be again, so no late
"offerDone" takes a live prompt away.  While a client is greeted, each parked
offer is on its way to it, or still to be replayed, or about to be announced to
all; afterwards it is on its way (`PromptOK`).  A message is on its way to nobody
before it is recorded, and to a client it was recorded under exactly once from
the broadcast on (`MessageOK`).  A queue is closed only as its client leaves the
hub (`HubOK`), which is why no send meets a closed one.

### DiscoveryProofs

For any number of devices, goroutines, clients and addPeer requests and any
capacities, from `DiscoveryAssumption` (a channel with room for one event, a pump
that is none of the others): `TypeCorrect` with the bound of the table,
`ClientsSeeTheTable`, `SilenceEvicts`, `RoutableAddressesStay`.

Events are dropped and overtake each other, so no relation of the events to the
table holds.  What holds is `ViewOK`, device by device: either the pump will read
the table again (`Pending`: an event is in the channel or on its way to it, about
whichever device, or the pump has just taken one), or all is `Fresh`: every line
in hand that was read since the pump's last read has what the table has, and so
has every client served that is not `late`, once the pump has queued its line.
The pump's read makes fresh by definition what it reads itself; what others hold
is older from then on.  An event that is dropped leaves a full channel, which is
why a capacity of one is enough and none would not be.  The bound of the table needs that the devices in it are
finitely many (`TableGrows`); those around need not be.

### SenderProofs

For every number of batches, addresses and files, from `SenderAssumption` (the
three "none" values are not members of their sets): `SenderTypeCorrect`,
`RegistryIsExact`, `OneLiveSendHolds`, `EveryFileIsReported`, `FailsOnlyOnce`,
`SyncOkMeansAllAreDone`.

`RegistryExact` is inductive once a batch that has not begun is known to be
neither cancelled nor registered, and it is what makes one live send: all live
sends to an address are the one the registry names.  The reports need more.
`IInv` adds, batch by batch, that a wanted file is reported, at hand or still to
be handled (`ReportOK`); that a failure leaves its batch cancelled or over, so
that no second file is attempted (`FailureOK`); and that a `SendFilesSync` has
nothing that could cancel it (`SyncOK`).  A step of one batch changes nothing of
another but its context (`Apart`, `ApartOK`), so each action's lemma argues about
one batch, and `RegistryKept` covers the actions that do not register.

About `Transfer`: `DoneFilesAreDelivered`, `SenderIsWrongAboutOne`, and that
neither part does more in the composition than alone (`SenderInTransfer`,
`ReceiverInTransfer`, `ReportsInTransfer`).  `TInv` adds to `IInv` which files were
posted, each at most once (`PostedOK`), and that the receiver attempts only
posted files and has the done ones (`PeerOK`).  Of the posted files that count
as not sent there is at most one, since a failed upload is the last of its batch;
and whatever landed was posted.

### TuiProofs

For any devices, paths, received files, sends and messages: `TypeCorrect`,
`MarkedIsListed`, `FilesReachTheirDevice`, `AnswersReachTheCard`,
`WindowClosesWhenDone`, three of which are properties of steps.

The conjuncts of `IInv` that relate variables are: while the finder is open, what
is staged was staged for the device it was opened for (`FinderOK`); a card is up
exactly while what it is about is known (`CardsOK`); what is marked or to be
deleted is listed (`ManageOK`); the timer of the quick window is armed when all
rows are done (`TimerOK`).  The lemmas `ChangeFinder`, `ChangeRows`, ... say which
actions change a variable at all, so that each conjunct is looked at only for
those.  Which card gets a key and which is drawn are first elements of two
orders (`TopmostIs`): an accept question gets a key only when no other card is up
(`FocusIs`), and then it is what is drawn (`AcceptIsDrawn`), so the difference of
the orders, which `MCTuiDocs.cfg` shows, never reaches it.  `WindowClosesWhenDone`
inherits what `Tui` assumes of the pause between two files of a batch.

### EnginesProofs

For any number of programs, changes, messages and starts, any cap and any
retention: `TypeCorrect`, `SettingsAreSafe`, `UpIsReached`,
`SavedMessagesAreKept`.  The assumptions are that there are finitely many programs
and inodes enough for each to write one (`AtomicFileAssumption`), and that no
settings and no history are what an unreadable or a missing file holds.

The proofs begin with what each operation of `AtomicFile` does to a file of any
content (`CreatedIs`, `WrittenIs`, `HalfWrittenIs`, `RenamedIs`, `ClosedIs`); that
there is an inode to create (`FreshInode`) is a count of those in use.  `FileOK`
is the argument for the temporary file: while one program writes, the inode
under the temporary name is not the file's, and whoever has one open has that
one; `SaveOK` says what is in it at each step of a save.

`IInv` carries them under what happened so far.  While no two programs started
or saved at once, whoever is at a step of `Save` is alone (`CrossOK`), and
`SettingsOK` holds: the file has settings, of the identity that every program
that has loaded it, or is about to save, has in memory.  The history needs less,
because the port keeps engines apart: an engine
loads its history after it has the port, and another can have it only after
the first ended or closed it (`PortOK`).  `HistorySafe` says that a saved message
that is still due (`Due`) is in the file and in the memory of the engine that
records; the cap drops no such message (`NewestKeepsDue`), what is due was due
before (`DueBefore`), and a message's number is new (`RecordIs`, from
`NumbersOK`).  `SocketOK` is `UpIsReachable` with the reason why nobody takes the
socket away: no program is between its dial and its remove, and none is ending.
Each action's step is looked at once for the settings (`SettingsKeep`), once for
the history (`HistoryKeeps`) and once for where the programs are.

### Checked by TLC only

Liveness and everything under fairness (the prover handles neither `ENABLED`
nor fairness): `ClaimsAreReleased`, `OffersLeave`, `GoneDevicesVanish`,
`SupersededEnds`.  All other properties of the runs are theorems, but for the one
of `tui_pin`, which does not hold.

## Where code and words differ

The run `tui_pin` ends in a counterexample, listed under `findings` with the
sentence it contradicts: there is one remembered send for all PIN prompts, so a
prompt raised by a message sends files again when files were sent since.

The following configurations, kept beside the runs, state what is said or would
be expected and is not so; each of their properties is violated.

| Configuration | Property | What the code does |
|---|---|---|
| `MCReceiveDirRace.cfg` | `ReceivedStays` | two uploads of one name may get the same final name, and one received file is replaced |
| `MCReceiveDirPart.cfg` | `ReceivedStaysUnlessSameName` | the temporary name of one file may be the final name of another |
| `MCReceiveDirShort.cfg` | `ReceivedIsWhole` | a body that ends early and cleanly is taken as complete |
| `MCOffersSender.cfg` | `AcceptsGoSomewhere` | a user may accept an offer whose sender gave up 25 seconds before |
| `MCEventHubHistory.cfg` | `MessagesComplete` | a new client may lose a message to an older history |
| `MCEventHubGhost.cfg` | `ToldOfTheEnd` | a new client may keep the prompt of an offer that is gone |
| `MCEventHubStale.cfg` | `StatusFresh` | a client may be left with older settings |
| `MCDiscoveryStale.cfg` | `ClientsEndUpRight` | a client may be left with an older table: its greeting, its request or an addPeer was overtaken by the pump |
| `MCDiscoveryOrder.cfg` | `TuiListsTable` | the interface may drop a device that is there |
| `MCDiscoveryPort.cfg` | `TuiAddressFresh` | the interface may keep a device's old port |
| `MCSenderCancel.cfg` | `CleanCancel` | a send superseded while it asks reports errors, not cancels |
| `MCTuiDocs.cfg` | `KeysGoToWhatIsShown` | "Focused prompts take over the window" (`model.go:895`), but the keys have another order than the cards |
| | `NoCrash` | the controller's setters "no-op when there is no server" (`cmd/omasend/main.go:61`); `SetAlias` dereferences it |
| | `ArrivingNotOffered` | the list "never offers to delete a file that is still being written" (`view_manage.go:31`); a folder that is being received is offered |
| | `AutoQuitLosesNothing` | the window "auto-closes ... once the outgoing transfer completes" (`model.go:144`), also while a second send waits for its answer |
| `MCEnginesDocs.cfg` | `SavesAreWhole` | "Save atomically writes the config" (`config.go:187`): two programs that save at once share the temporary file |
| | `LiveSocketStays` | "never one a live engine is serving" (`omasend-engine/main.go:730`): the socket is dialled first and removed by name later |
| | `OverridesStayOut` | flags override the settings "for this run" (`cmd/omasend/main.go:91`), and are saved with the next change |
| | `ChangesStay` | a program that saves writes all it has in memory, and undoes the change another one saved |

## Not modelled

Tokens (a wrong one changes nothing), name sanitising, HTTP and JSON, TLS and
certificate pinning, multicast sockets, progress figures and the sender's event
channel, drawing.  Of the terminal interface the filters of its lists, the
toggles of the settings tab and the rows of incoming transfers; of the command
line program the wait of a one-shot send for its device; of the engine the path
of its socket, which is an input, and the requests that only forward to another
part.  `SendMessage` is one request and keeps no state.  The reconnect loop of
`Service.qml`, and the panel behind it, are not modelled: `EventHub` has a
client that reads, and how it comes back is the shell's.

## Plan

Written: `UploadSessions` refining `FileDelivery`, `ReceiveDir`, `Offers`,
`EventHub`, `Discovery`, `Sender`, `Transfer`, `PinLimit`, `AtomicFile`,
`ConfigStore`, `MessageHistory`, `Engines`, `Tui`, and the proofs about them.

Left, in order:

1. The reconnect loop of `Service.qml`, with `EventHub`.
2. The wait of a one-shot send for its device, with `Discovery`.
