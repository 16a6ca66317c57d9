# net-map in TLA+

TLA+ models of net-map (`src/src/netmap`), the runs of TLC that check them on
small instances, and theorems that TLAPS proves for every instance. Paths
below are relative to `src/src/netmap` unless they begin with `docs/`; `M2`
stands for `docs/superpowers/specs/2026-05-25-netmap-m2-design.md`, `design`
for `docs/superpowers/specs/2026-05-25-netmap-design.md`.

To repeat: `tlc -config X.cfg M` with the pairs of the table of runs,
`tlapm M.tla` for a module whose name ends in `Proofs`.

## 1. The system

`netmap up` is one process with one asyncio loop. It keeps a SQLite file, scans
the configured subnets periodically and on request, merges what the scanners
report into the file, and tells browsers about changes as they happen.
`netmap scan` is a second, short-lived process on the same file.

| component | state | operations | makes it correct |
|---|---|---|---|
| scan dispatch (`scanner/loop.py`, `server/app.py`, POST in `server/routes.py`) | `in_flight`, `scan` table, tasks, `stop`, `last_default` | `maybe_run`, `_run_scan_work`, `scan_loop`, `post_scan`, lifespan | one task per (mode, targets); no key leaked; every row closed once by its owner; only permitted networks scanned; scans end, stop works |
| event bus and stream (`server/events.py`, `stream` in `server/routes.py`) | one bounded queue per subscriber | `subscribe`, `unsubscribe`, `publish`, the SSE generator | in order, at most once, only the oldest lost and only when full, no queue leaked, publisher never blocked |
| correlation and host store (`correlation.py`, `storage.py`) | `host`, `host_ip`, `port`, `host_snapshot`, `event` tables | `correlate`, `upsert_host`, `upsert_port`, `close_port`, `insert_*` | one row per device; event log, snapshots and tables tell the same story |
| subnet and edge tables (`storage.py`) | `subnet`, `edge` tables | `insert_subnet`, `list_subnets`, `upsert_edge` (no caller) | only accepted networks are stored |
| target safety (`scanner/safety.py`) | none | `validate_target` | denied, public, too large targets refused |
| subnet bootstrap (`server/subnet_bootstrap.py`) | `subnet` table | `run` | override, else keep, else detect |
| command line scan (`cli.py`) | its `scan` row | `scan`, `_run_scan` | as dispatch, without `in_flight` |
| REST reads (`server/routes.py`) | none | GET handlers, in worker threads | an answer is of one moment |
| browser client (`ui/app.js`) | `State` | bootstrap, SSE with backoff and catch-up, reducer, selection | converges to the server's state; shows the host that is selected |
| scanners (`scanner/nmap_scanner.py`, `arp_scanner.py`) | none | `scan` | external processes and packets |
| configuration, privilege check (`config.py`, `server/privilege.py`) | the config file | `load_config`, `check_or_exit` | the policy in force is the one that is applied |
| models, OUI, static UI | none | read once, or records | - |

How they interact. `scan_loop`, its default-scan task and `post_scan` call
`maybe_run`, which checks and fills `in_flight`, opens a row and creates a work
task. The task collects facts, calls `correlate` (no `await` inside), publishes
the events it returns, closes the row and gives its key back. `publish` puts an
event into each subscriber's queue; the generator of each `/stream` request
takes it out. The database file is shared with `netmap scan` processes and, inside
the server, with the threads of GET handlers. The page fetches hosts, details and
missed events from these and follows the stream meanwhile. The configuration file
is read once by each process and may be edited while others run.

What is hard: tasks interleave at awaits; `in_flight` is only memory while rows
persist; any statement can raise (lock, disk), the one that records an error
included; the process can stop or die between two statements; slow and vanishing
clients; two processes in `correlate`. `PROJECT.json` lists these hazards with their lines.

## 2. Modules

| module | models | what a state and a step are |
|---|---|---|
| `ScanDispatch` | scan dispatch | `inFlight`, `scan`, `published`, live tasks `work`, the loop task, the process; as history, what failing statements left behind. One step is what runs between two awaits that really suspend |
| `ScanLedger` | what dispatch promises | a ledger of rows and the active ones; open, refuse, close, lose |
| `EventBus` | bus and stream | queues, and where each generator is suspended |
| `EventWindow` | what the bus promises | positions in the sequence of events, no queues |
| `Correlation` | `correlate` and the storage below it | the host table, the event table, the local variables of each process's call; one step is one SQL statement, or the transaction of `upsert_host` |
| `ScanFacts` | `parse_nmap_xml`, `ArpScanner.scan` and the grouping at the start of `correlate` | functions from reports and replies to groups; extends `Correlation`, whose `Begin` takes any groups |
| `TargetSafety` | `validate_target` and what it uses of `ipaddress` | functions on networks of addresses |
| `Commands` | the commands as processes on one machine: configuration, startup checks, subnet bootstrap, subnet table, scan rows | the two files, one record per process; one step is one statement, or what a process does between two |
| `LiveView` | one browser tab on a server: tables, `correlate`'s writes, GET handlers, stream and `app.js` | tables as change counters, the page's `State`, a queue of requests; one step is a statement, a read, a message or a handler |
| `Lists` | positions put in order, for `ScanFacts` and `LiveView` | |
| `MC...` | values for TLC | model values and, for `Correlation`, the symmetry |
| `ScanDispatchProofs`, `EventBusProofs`, `CorrelationProofs`, `CorrelationAloneProofs`, `ScanFactsProofs`, `CommandsProofs` (with `TargetSafety`), `LiveViewProofs` | theorems | |
| `ListFacts` | lemmas on lists | |

`Commands` extends `TargetSafety`, `ScanFacts` extends `Correlation`, `LiveView`
uses `EventWindow` for the bus: what the bus promises, which `EventBus` is
shown to implement, is what the page is checked against.

**ScanDispatch.** `publish` never suspends (`server/events.py:28`), so
`maybe_run`, a turn of `scan_loop`, `post_scan` up to its answer, and the tail
of `_run_scan_work` after its last scanner are atomic with respect to the
loop; that is exactly what makes check-and-add of `in_flight` safe. `maybe_run`
has three outcomes, the operators `Skipped`, `Started` and `Raised`; each caller
decides what an exception means: it ends the loop (`TickCrash`), goes unnoticed
in the default-scan task (`RunDefault`), becomes a 500 (`PostScan`). Targets
are lists of networks; `_signature`'s sorted text distinguishes them as bags,
which `Signature` is. A text of a subnet row or a request denotes a network
(`Parsed`); the loop parses strictly and drops texts with host bits
(`HostBits`), a request masks them. The policy is the sets `Allowed` and
`Confirmable`. The pre-check of `post_scan` makes the 409 of lines 159-165
unreachable, so it has no action. The loop's default-scan task runs on the next
turn of the event loop, before the loop's own timer can fire (`Awake`).
A stop ends the loop by its flag or by the cancellation after three seconds
(`LoopExit`); work tasks die with the process and leave their rows alone, as
`CancelledError` is not an `Exception`. Two statements can leave something behind:
an INSERT that raises after the key was added leaves the key (`Raised`; history
`leaked`), a `finish_scan` that raises inside the `except` clause leaves the row
running (`FinishStuck`; history `stuck`). A restart empties both, as `in_flight` is
new and the row is of an earlier process.

**EventBus.** `Publish` is atomic over all subscribers. A generator is opened,
waits in `queue.get`, or holds an event in its `yield`; the client may vanish in
each of these, and `Close` is the `finally` clause. A ping changes nothing.

**Correlation.** The connection is in autocommit mode (`storage.py:132`):
each statement outside `upsert_host` commits by itself. A host row is a record
with its addresses, open ports and last snapshot; the parser only reports open
ports. `Begin` takes any batch of groups, in any order, the same MAC at two
addresses included. `Abandon` is a statement that raises or a process that dies.
That a transaction whose read snapshot is out of date is refused is an instance
of it too. Within one process calls do not overlap (`correlate` has no await),
hence one call per process.

**ScanFacts.** A report is an element of nmap's XML with the fields that the
parser looks at; a reply is a MAC and an address. Targets of one scan may
cover the same host, so both scanners can tell of it several times and in
several ways. The groups come out in the order of their first fact.

**TargetSafety.** Addresses are numbers, a CIDR text is an address with the
size of its network, so that host bits, masking, overlap and privacy are
arithmetic and not verdicts given as constants. `Overlaps` compares ends as
`ipaddress` does. `Chokes` is the deny entry with host bits that raises a
`ValueError` instead of a `SafetyError` when it is the first to be reached.

**Commands.** `up` reads the configuration, checks privileges, nmap and the
bind address (`Gates`), opens the database, and then works through
`subnet_bootstrap.run` statement by statement, so that two of them, a `scan` or
an edit of the configuration get in between. `run` is called without a policy
and therefore validates with the built-in one, the loop with that of the
configuration (`Suits` and `TickTargets`). uvicorn runs the lifespan before it
binds: `Ready` starts the loop, `Bind` or `PortTaken` follows. A scan is its row
and its targets, and how it ends differs between the two. In the server the
`except` clause is around all of the task (`TaskFails`), in the command around the
scanners only (`ScannerFails`): an error in `correlate` or the last `finish_scan`
ends the command with its row running (`StatementRaises`). In both the
`finish_scan` of the `except` clause is a statement that may raise too
(`RecordsError`); then the row is abandoned, by a server that goes on (`Abandons`).
`orphans` is history: the rows that say running and that nobody is left to finish.
`Reset` needs every process to be idle.

**LiveView.** A row's content is the number of its changes, which is enough to
tell an old answer from a new one. Not every change is announced. Of a row that is
there only another address is (`correlation.py:85`), while the name, vendor, MAC,
system and `last_seen` are rewritten by every scan; of a port only that it opens or
closes, while the service of an open one is rewritten. So each write of `WriteRow`
and `WritePort` is `Announced` or, where the code allows it, `Unannounced`, and
`told` keeps what the tables said of a host when a change of it was last announced:
that is what the page has to show. That addresses and open ports never change
without an event is what `LogTellsAll` of `Correlation` shows for one process.
The stream stands still while `correlate`
runs (it is the same event loop) but GET handlers read between its statements:
`/hosts/{id}` reads the row, the open ports, the addresses and the newest events,
one after the other. An error in the middle of `correlate` leaves what was written
without its events (`JobRaises`), one after it comes when they are published
(`CloseRaises`), and `scan.error` is missing if the `except` clause raises too.
Answers are handled in the order
of the requests unless one is overtaken, which a bound counts as a fault.
Other processes do not write.
`since`, `lost`, `stale` and `blind` are history: they say which of the losses
that the code allows have happened, and each is set only by the action that
causes it.

Operators whose name begins with `Faulty` are the operator that follows with a
plausible bug. No action uses them; each has been substituted for the real one
to see that the property named in `PROJECT.json` ("mutants") then fails.

## 3. Runs

| run | module, cfg | what it shows |
|---|---|---|
| `dispatch` | `MCScanDispatch`, `dispatch.cfg` | `TypeOK`, `OneTaskPerKey`, `WorkIsRegistered`, `KeysAreOwned`, `RunningIsOwned`, `RowsAreAnnounced`, `ConflictIsTruthful`, `TerminalRowsFrozen`, `LoopQuietAfterStop` with two starts and two failing statements |
| `dispatch_ledger` | `MCScanDispatch`, `dispatch_ledger.cfg` | `NoBypass`, `AcceptedIsLive`, `ImplementsLedger`, `EveryScanEnds`, `StopsWhenAsked`, no failing statement |
| `bus` | `MCEventBus`, `bus.cfg` | `TypeOK`, `QueueIsNewest`, `ReceivedInOrder`, `OnlyLiveSubscribers`, `SkipsOnlyWhenOverrun`, `StreamCatchesUp`, `ImplementsWindow` |
| `corr_log` | `MCCorrelation`, `corr_log.cfg` | one process: `GroupsAreWhatWasSeen`, `RereadFinds`, `LogTellsAll`, `SnapshotIsCurrent` |
| `corr_shared` | `MCCorrelation`, `corr_shared.cfg` | two processes: `TypeOK`, `OneRowPerMac`, `OneBareRowPerIp`, `HistoryIsComplete`, `IdentityIsStable` |
| `commands` | `MCCommands`, `commands.cfg` | two processes: `TypeOK`, `SubnetsAreSound`, `NobodyIsProbedUnasked`, `RunningIsLive`, `RowsKeepTheirIds` |
| `live` | `MCLiveView`, `live.cfg` | `TypeOK`, `CatchUpLosesNothing`, `HostsAreFresh`, `DetailIsFresh`, `EventuallyCurrent` |
| `dispatch_leak` | violation | `FailureFreesKey` (M2:244): a failing INSERT leaks its key |
| `dispatch_orphans` | violation | `NoOrphansAfterStart` (design:611): running rows survive a restart |
| `corr_merge` | violation | `MergedOnMac` (`storage.py:233`): a known MAC does not absorb the bare row at its address |
| `corr_interrupted` | violation | `InterruptedIsConsistent` (design:611): hosts without events |
| `corr_assert` | violation | `RereadFinds` (`storage.py:274`): the assertion fails with a second process |

Bounds, and why they are enough.

- `dispatch`: three rows are the smallest number with a skip between two live
  scans; two starts give rows of an earlier process; two faults can hit any two
  statements, so that a leaked key meets a row that is stuck, or two tasks get stuck.
  `KeysAreOwned`, `RunningIsOwned` and `ConflictIsTruthful` hold all the while: they
  except the very key and row that the failing statement left, not the rest. The
  subnet table and requests range over two texts of one network, one
  with host bits, so that the loop's lists of one and requests of one collide.
  `DefaultEvery = 1` lets a default scan be due on any tick.
- `dispatch_ledger`: four texts (private, the same network with host bits, public,
  unparseable), so that what the loop drops a request accepts and both must refuse the
  public one; requests in one mode, which is also the loop's; and
  two rows, enough for two scans at once or one after the other under a key.
- `bus`: a queue of two and four events let a client be overrun twice; two
  clients suffice as they share nothing but `sent`.
- `corr_log`: two MACs, two addresses and one port allow a swap of addresses, a
  device at two addresses in a batch, a bare row that gets its MAC, a port that
  opens and closes; two facts about the port are the duplicate of overlapping
  targets. Two scans: the first builds a state, the second changes it. Symmetry in
  MACs and addresses is sound as no property orders them.
- `corr_shared`: four scans of one host each and one fault; the races are about
  the identity of rows, so there are no ports. Symmetry is not used with
  liveness anywhere.
- `GroupsAreWhatWasSeen` quantifies over two targets with one reported host and
  one ARP reply each (`MaxRounds = 2`): enough for the same host in both, with
  and without its MAC, and for a MAC at two addresses.
- `commands`: sixteen addresses, half of them private, two of these denied. The
  targets are a network, the same with host bits, one that contains the denied
  addresses and a public one; the settings allow public scans, or deny a network
  that the bootstrap accepts and have an entry with host bits behind it. Two
  processes and three commands give two `up` at once with a `scan` or a reset before
  or after; two rows let the command and the loop scan in turn. With one `--target`
  per command the override list is a list of one; the theorems have no such bound.
- `live`: two hosts, two changes (each a row, a port or a notice; announced or not), a
  broken connection, a fault and two clicks. Two changes are enough for a detail that
  is read half before and half after, for a merge that crosses an event, and for a
  catch-up that meets the events of a scan partly delivered. A queue of three can be
  overrun by two scans with an event and a `scan.ok` each. The catch-up limit of
  two is never exceeded with two changes, so the part of `lost` that stands for
  the limit of 200 is not exercised by TLC; the theorems have any limit. A detail has
  room for one event (`Recent`), so that a second does not fit. Messages and clicks
  come while fewer than two requests are under way, which still lets two be overtaken
  and the selection change while a detail loads.

`MaxScans`, `MaxBoots`, `MaxFaults`, `MaxEvents`, `MaxGroups`, `MaxPortFacts`,
`MaxRounds`, `MaxRequest`, `PostModes`, `MaxTargets`, `MaxCommands` and `MaxEdits`
(`Commands`), and `MaxHosts`, `MaxNotices`, `MaxChanges`, `MaxRequests`, `MaxDrops`,
`MaxFaults` and `MaxSelects` (`LiveView`) bound the model, not the program. Only `bus` checks
deadlock: in the others, when the bounds are used up there is nothing left to do.

Fairness. `ScanDispatch`: the loop's timer fires, a ready task runs, a scanner
returns (nmap has `--host-timeout`, `srp` a timeout), a stopping process exits. A
live scan is never starved, as asyncio's ready queue is first in, first out.
Nothing forces a start, a stop, a request or a fault. `EventBus`: a generator that
can run, runs; nobody has to publish, connect or read to the end, and a client may
vanish for good. `LiveView`: a `correlate` that is under way goes on (it never
suspends), and of bootstrap, reconnect, message, read and handler some one happens
while one can, in no particular order: the timer of the page fires, the server
accepts and answers. Broken connections, failed requests and scans that raise come
only so many times; nothing forces a scan, a click or a fault. `Correlation` and
`Commands` state no fairness; they have safety properties only.

## 4. Proofs

The assumptions are those named in the modules (`ConstantsAssumption`,
`BusAssumption`, `CorrelationAssumption`, `PrivateAssumption`,
`CommandsAssumption`, `ScanFactsAssumption`, `LiveViewAssumption`): types of the
constants, a built-in deny list without host bits, finitely many CIDR texts for
`ScanDispatch` and finitely many ports for `ScanFacts`, at most as many targets as
`MaxTargets`, a queue of at least one.

- **ScanDispatchProofs.** The inductive invariant is type correctness with the
  registry: every live task has its running row and its key, no two share a
  key. `OneTaskPerKey` is not inductive alone: that a key not in flight has no task
  is what keeps `Started` from doubling it, and that needs every task's key to be in
  flight after others leave, which needs keys to be distinct. From it follow
  `OneTaskPerKeyHolds`, `WorkIsRegisteredHolds` and `RowsFreeze` (only a live task
  closes a row, and it is running). `KeysAreOwnedHolds` and `RunningIsOwnedHolds` come
  from the same induction, for any number of failing statements: a key in flight has a
  task or is leaked and never both, a running row of this process has a task or is stuck
  and never both. A leaked key stays so because what is in flight is skipped, and a stuck
  row because its task is gone. With the registry they give what POST /scans
  answers (`ConflictIsTruthfulHolds`, `AcceptedIsLiveHolds`). `RowsAreAnnouncedHolds`
  and `NoBypassHolds` are invariants of their own; the latter rests on what `Safe`
  and `AllAccepted` put in a signature. `LoopIsQuiet` goes through the ways in which a
  row is opened (`OpenRow`): after stop only `RunDefault` is left. `LedgerImplemented`
  maps each step to a step of `ScanLedger` or a stutter, with `MaxFaults = 0`.
- **EventBusProofs.** The inductive invariant adds to `QueueIsNewest` that what a
  client received is not beyond what was taken. `QueueIsNewest` gives the queue
  in closed form, so that order, loss and `WindowImplemented` reduce to arithmetic
  on `sent` and `taken`.
- **CorrelationProofs.** `Inv` adds to the type invariant that a call that works on
  a host has one, and that events that wait are about existing rows: both are needed
  to type the next step. `SameIdentity` says what every step but the two of
  `upsert_host` leaves alone; `Identities` (one row per MAC, one bare row per
  address) is kept by those because `Identify` looks up both inside the
  transaction. The proof holds for any number of processes: the lookup of
  `correlate` outside the transaction plays no part.
  `HistoryIsCompleteHolds` is also for any number of
  processes. `Known` extends the property to what calls have in memory: the row
  they have updated, the events that wait and the snapshot that is about to be
  written speak only of addresses in the history of their row. `Grows` (histories are
  never cut) keeps that true of a call while others move.
- **CorrelationAloneProofs.** What one process may rely on and two may not (the run
  `corr_assert` refutes the first for two, and TLC the others in the same
  configuration). `RereadFindsAlone`: only the transaction leads to
  the second read, and the row it wrote answers it. `SnapshotIsCurrentAlone`: `Fresh`
  says that at most one row differs from its snapshot, the one of the turn under way;
  that the row read back is the one refreshed follows from `Identities`.
  `LogTellsAllAlone`: events are inserted only after the last host, so in the middle of
  a call it is the inserted events followed by those that wait, read as one log, that
  must tell the tables. They do but for the row of the turn under way, whose event is
  still to be reported, and the invariant says for each place of the call which that
  is. What the lookup outside the transaction found must also be what the transaction
  finds, which is why it holds for one process only. The last two assume that no call
  was cut short, as the properties do.
- **ScanFactsProofs.** `AnyScanIsGrouped` is about scans of any size, so it does not
  come from an invariant but from what each function returns: `ParsedTells`,
  `AnsweredTells` and `CollectedTells` give the set of facts, `GroupsHaveAll` what
  `by_key` makes of any list of facts. `GroupsAreWhatWasSeenHolds` is the case with the
  bounds of the run.
- **CommandsProofs.** First what an accepted target is: `OverlapsIsSharing` shows that
  comparing the ends of two networks finds exactly the case that they share an address.
  `AcceptedIsNotDenied` and `AcceptedIsConsented` follow, for every policy and
  target. `ShownHasNoHostBits` (the network of a text, written out, parses
  strictly) needs that a multiple leaves no remainder, which is proved from
  division because the solver does not know it.
  On top of that, `Sorted` adds to the types that an idle process has nothing,
  one that is not idle has opened the database, a process that stores targets
  has one left, and one has a row exactly while it is in a phase of a scan:
  without these the next step is not well typed. `SubnetSteps` and `RowSteps` sort
  the actions by what they do to the two tables; each theorem then looks at three to
  five cases instead of one for each action. `SubnetTableIsSound` and `IdsAreStable` need
  nothing more. `ScansAreAskedFor` strengthens `NobodyIsProbedUnasked` to
  `AllAsked`: each network of a row is the mask of a text that `validate_target`
  accepted under that row's policy and consent; the address-level claim follows from
  the two theorems on accepted targets. `RunningRowsAreLive` needs `Apart`: no
  two processes have the same row and none has one that was left behind. `Matched` is
  the rest of it, that running and having a process or being an orphan is the same;
  `Ends` sorts the ways in which a scan ends into those that write the row and those
  that abandon it.
- **LiveViewProofs.** `Base` says that messages, tables, requests and the page belong
  together; it gives `TypeCorrect`. The other three theorems say that what the page
  lacks is still to come, each by an invariant of this form. They are about announced
  changes: a write is sorted by `Wrote` and `Rewrote`, and one that no event tells of
  leaves `told` alone, so that all that was good stays good.
  `Mended` is their core: answers overwrite a copy one after the other, so an answer
  that is good, at least as new as what was announced, helps only if every request
  behind it is harmless: not read yet, or read and good. `MendedGrows`, `MendedRead`,
  `MendedHandled` and `MendedStays` keep that for lines of any length; what is good is
  a set, `GoodHost` or `GoodPane`.
  `MapShowsHostTable`: a host is mended in the map, or its change is an event that
  `correlate` still has to publish or that is queued (`Changing`).
  `DetailShowsSelectedHost`: the same of the pane, where an event may also be on its
  way through the catch-up (`Coming`), and a detail is read in four steps, of which
  those that were made must be good. The events of the pane are good only if those that
  announced the changes are among them or do not fit (`Tells`).
  What the two promise has the exceptions that `stale` and `blind` name.
  It needs no condition on the map: in `DetailIsFresh`, `blind` alone says what may be
  missed. `TimelineIsComplete`: until a message has arrived, what is not older than one
  that waits is queued too (`FirstMessage`); from then on each event since is shown or
  on its way (`AllSince`, `OnTheWay`): the cursor is not beyond it as long as a catch-up
  has yet to look at it.
- **ListFacts.** Induction over a set instead of a predicate (`SetInduction`, from the
  library's well-foundedness of the numbers), which the provers can instantiate. With
  it `FlattenHasAll` shows what `FlattenSeq`, a recursive function, yields, and
  `InOrderExists` that positions can be put in order.

Model-checked only: liveness (`EveryScanEnds`, `StopsWhenAsked`, `StreamCatchesUp`,
`EventuallyCurrent`, the fairness of `ScanLedger`), which is out of the prover's
reach. Every invariant and every action property of the passing runs is the subject of
a theorem; `RereadFinds`, `SnapshotIsCurrent` and `LogTellsAll` of one for a single
process, as the second one breaks them. No module uses a RECURSIVE operator.

## 5. Divergences

With a run: the five violations above. Seen while modelling, without a run:

- `scanner/loop.py:172`, `:194`: a database error in the loop's own statements ends
  the loop task; M2:244 says "The loop never crashes." (action `TickCrash`).
- `scanner/loop.py:69`: the key is mode and target list, so two discover scans of
  different lists overlap; M2:107 says one of each mode.
- `correlation.py:186`: a port that two facts report is announced twice; design:359
  says the ports are a set-union.
- `correlation.py:116`: MACs are compared as spelled; nmap prints upper case, scapy
  lower case, so that a device both see has two rows; design:153 says the MAC
  identifies the host.
- `ui/app.js:465`: M2:324 says the catch-up "makes lost events recoverable". It asks
  for what is newer than `lastEventTs`, but a message that arrives while `onopen` awaits
  `api.hosts()` overwrites it (`:447`), the bootstrap does not set it, and at most 200
  events are fetched. `CatchUpLosesNothing` holds outside these cases.
- `server/events.py:32`: M2:109 has lost events trigger a refetch "on next connect";
  nothing tells a connected page that its queue was overrun, so its map may stay old.
- `scanner/loop.py:89`: M2:466 says "every event (including the new `scan.*` kinds)
  writes an `event` row"; `scan.*` are only published. The events of `netmap scan` are
  only inserted, and carry the time at which the command started.
- `correlation.py:85`, `:186`: a changed name, vendor, MAC or system, or another service
  on a port that is open, gives no event, so the page shows it only when something else
  makes it fetch: another event of the host, a click, a reconnect. The properties of
  `LiveView` are therefore about announced changes.
- `ui/app.js:426`, `:446`: answers carry nothing that orders them; one that is overtaken
  leaves the map old until the next `onopen`, or the pane until the next click. The
  properties of `LiveView` exempt that (`stale`, `blind`), they do not catch it.
- `ui/app.js:530`: one boolean for any number of scans; the end of one says that none
  runs. Deselecting while a detail loads shows a detail with nothing selected.
- `server/subnet_bootstrap.py:97`: M2:41 says "When I plug into a different network it
  auto-detects and starts scanning that one instead."; detection does nothing once the
  table has a row. M2:573 says explicit targets override; rows of earlier runs stay
  enabled beside them.
- `server/app.py:79`: the bootstrap is given no policy, so it may store a network that
  the user's deny list forbids; the loop refuses it on each tick. No address is probed
  (`NobodyIsProbedUnasked`).
- `server/app.py:86`: a second `up` on a taken port has changed the subnet table and may
  leave a running row before it goes away.
- `scanner/safety.py:59`: a deny entry with host bits raises `ValueError`, which no caller
  expects; in `scan_loop` it ends the loop. `:53` says production code never sets
  `override_deny`; `cli.py:90` does, on `--allow-loopback`, for every deny entry.
- `cli.py:139`: `correlate` and `finish_scan` are outside the `try`; if a statement raises
  the row stays running. So it does where the `finish_scan` of an `except` clause raises
  (`cli.py:126`, `scanner/loop.py:145`), in a server that goes on as well.
- `storage.py:338`: `/hosts?subnet=` parses strictly and raises for a row with host bits,
  which `--target` may have stored.
- `correlation.py:201`: a default scan probes the usual ports, but closes every open port
  that it did not see, those that only a deep scan finds included.
- `scanner/nmap_scanner.py:56`: a host that is up without MAC, name, system or open port
  gives no fact and is not recorded (part of `GroupsAreWhatWasSeen`).

## 6. Not modelled

- OUI lookup and the static UI have no state that steps interleave on; of the models
  only the records that the modules use are there.
- Of `app.js`: the graph, the rendering, the order and length of the timeline, the scan
  button and `State.scanning`.
- Of the REST reads: `/scans` and `/subnets`, which the page fetches at most once, and
  the filters of `/hosts` and of `/events` other than `since` and `limit`.
- Of the storage: `upsert_edge`, which has no caller, and the column `enabled`, which is
  never cleared. `db reset` under a running server is left out: what SQLite makes of
  a file that is removed while it is open is not the program's doing.
- The inside of nmap, scapy, uvicorn, `ip` and SQLite is external; statements are
  atomic and may raise.

## 7. Plan

Done: `ScanDispatch`, `EventBus`, `Correlation`, `ScanFacts`, `TargetSafety`,
`Commands` and `LiveView`, and the proofs of their safety properties. What would come
next, in order:

1. Time stamps in `Correlation`: scans that overlap, or the command whose `now` is its
   start, apply older facts after newer ones.
2. `LogTellsAll` for two processes, with the duplicates that the lookup outside the
   transaction allows.
3. An abstract map from devices to rows that `Correlation` implements, and an abstract
   copy of a table that `LiveView` implements.
