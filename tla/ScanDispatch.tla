----------------------------- MODULE ScanDispatch -----------------------------
(***************************************************************************)
(* How `netmap up` opens, runs and closes scans: the funnel maybe_run, the *)
(* work task it dispatches, the periodic scan_loop, POST /scans, and the   *)
(* life of the process around them (start, graceful stop, crash).          *)
(*                                                                         *)
(* Everything runs on one asyncio loop.  AsyncBus.publish never suspends,  *)
(* so maybe_run, one turn of scan_loop, post_scan and the tail of          *)
(* _run_scan_work after its last scanner are each one atomic step; the     *)
(* steps of different tasks interleave freely.  Collecting the facts of a  *)
(* scan only touches a local list, so a work task is either live (still    *)
(* collecting) or gone.                                                    *)
(*                                                                         *)
(* An operator whose name starts with Faulty is the one after it with a    *)
(* bug planted; no action uses it.  It shows that a property would notice. *)
(***************************************************************************)
EXTENDS Naturals, Sequences, FiniteSets

CONSTANTS
  Cidr,          \* CIDR texts that a subnet row or a request may hold
  Net,           \* networks
  NotACidr,      \* what an unparseable text denotes
  Parsed,        \* Parsed[c]: the network c denotes, host bits masked
  HostBits,      \* texts with host bits set: the strict parser refuses them
  Allowed,       \* networks that validate_target accepts
  Confirmable,   \* networks that it accepts with confirm=True only
  PostModes,     \* bound: modes that POST bodies ask for
  MaxRequest,    \* bound: length of "targets" in a POST body
  MaxTargets,    \* bound: targets of one scan
  DefaultEvery,  \* default_scan_interval_s, counted in ticks of interval_s
  MaxScans,      \* bound: rows of the scan table
  MaxBoots,      \* bound: starts of the process
  MaxFaults      \* bound: statements on the scan table that raise

ASSUME ConstantsAssumption ==
  /\ IsFiniteSet(Cidr)
  /\ NotACidr \notin Net
  /\ Parsed \in [Cidr -> Net \cup {NotACidr}]
  /\ HostBits \subseteq Cidr
  /\ Allowed \subseteq Net
  /\ Confirmable \subseteq Net
  /\ PostModes \subseteq {"discover", "default", "deep"}
  /\ MaxTargets \in Nat
  /\ MaxRequest \in 0..MaxTargets
  /\ Cardinality(Cidr) <= MaxTargets
  /\ DefaultEvery \in Nat
  /\ MaxScans \in Nat
  /\ MaxBoots \in Nat
  /\ MaxFaults \in Nat

VARIABLES
  proc,       \* the server process: "down", "up", "stopping" (stop is set)
  loop,       \* its scan_loop task: "off", "live", "ended", "crashed"
  pending,    \* TRUE: the loop's default-scan task has not had its turn yet
  age,        \* ticks since last_default, up to DefaultEvery
  enabled,    \* cidr column of the enabled rows of the subnet table
  inFlight,   \* the shared in_flight set of (mode, target signature) pairs
  work,       \* ids of the scans whose _run_scan_work task is live
  scan,       \* the scan table; the id of a row is its position
  published,  \* published[i]: kinds of the scan.* events of scan i, in order
  refused,    \* networks of the scan.error events of the last tick, no scan id
  reply,      \* the answer to POST /scans, if the last step was one
  boot,       \* rows that were in the table when the process started
  boots,      \* starts of the process so far
  leaked,     \* keys in flight whose row could not be inserted
  stuck,      \* running rows whose outcome could not be recorded
  faults      \* database errors so far

tables  == <<scan, published>>
tasks   == <<proc, loop, pending, age>>
history == <<boot, boots>>
damage  == <<leaked, stuck>>
errors  == <<damage, faults>>
vars    == <<tasks, enabled, inFlight, work, tables, refused, reply, history,
             errors>>

Mode   == {"discover", "default", "deep"}
Source == {"loop.discover", "loop.default", "api.post_scan"}
Status == {"running", "ok", "error", "skipped"}
Kind   == {"scan.started", "scan.ok", "scan.error", "scan.skipped"}
Key    == Mode \X [Net -> 0..MaxTargets]
Row    == [key : Key, source : Source, status : Status, ended : BOOLEAN]

(* The sorted, comma-joined target list tells two lists apart exactly when *)
(* they differ as bags; a list is any function whose values are networks.  *)
Signature(targets) ==
  [n \in Net |-> Cardinality({i \in DOMAIN targets : targets[i] = n})]

NoReply == [status |-> "none"]
Reply   == {NoReply}
           \cup [status : {"no_targets", "refused", "failed"}]
           \cup [status : {"conflict"}, key : Key]
           \cup [status : {"accepted"}, key : Key, scan : Nat]

TypeOK ==
  /\ proc \in {"down", "up", "stopping"}
  /\ loop \in {"off", "live", "ended", "crashed"}
  /\ pending \in BOOLEAN
  /\ age \in 0..DefaultEvery
  /\ enabled \in SUBSET Cidr
  /\ inFlight \in SUBSET Key
  /\ work \in SUBSET (1..Len(scan))
  /\ scan \in Seq(Row)
  /\ published \in Seq(Seq(Kind))
  /\ Len(published) = Len(scan)
  /\ refused \in SUBSET Net
  /\ reply \in Reply
  /\ boot \in 0..Len(scan)
  /\ boots \in Nat
  /\ leaked \in SUBSET Key
  /\ stuck \in SUBSET (1..Len(scan))
  /\ faults \in Nat

Init ==
  /\ proc = "down"
  /\ loop = "off"
  /\ pending = FALSE
  /\ age = 0
  /\ enabled \in SUBSET Cidr
  /\ inFlight = {}
  /\ work = {}
  /\ scan = <<>>
  /\ published = <<>>
  /\ refused = {}
  /\ reply = NoReply
  /\ boot = 0
  /\ boots = 0
  /\ leaked = {}
  /\ stuck = {}
  /\ faults = 0

-----------------------------------------------------------------------------
(* maybe_run.  It has three outcomes; the caller decides what they mean.   *)

FaultyOpenRow(key, source, status, ended, kinds) ==    \* publishes nothing
  /\ Len(scan) < MaxScans
  /\ scan' = Append(scan, [key |-> key, source |-> source,
                           status |-> status, ended |-> ended])
  /\ UNCHANGED published

OpenRow(key, source, status, ended, kinds) ==
  /\ Len(scan) < MaxScans
  /\ scan' = Append(scan, [key |-> key, source |-> source,
                           status |-> status, ended |-> ended])
  /\ published' = Append(published, kinds)

DbRaises ==
  /\ faults < MaxFaults
  /\ faults' = faults + 1

(* The key is in flight: a row with status skipped is opened and finished. *)
Skipped(key, source) ==
  /\ key \in inFlight
  /\ OpenRow(key, source, "skipped", TRUE, <<"scan.skipped">>)
  /\ UNCHANGED <<inFlight, work, errors>>

FaultyUnchecked(key, source) ==       \* the membership test is missing
  /\ inFlight' = inFlight \cup {key}
  /\ OpenRow(key, source, "running", FALSE, <<"scan.started">>)
  /\ work' = work \cup {Len(scan) + 1}
  /\ UNCHANGED errors

FaultyUnregistered(key, source) ==    \* the key is never added
  /\ key \notin inFlight
  /\ OpenRow(key, source, "running", FALSE, <<"scan.started">>)
  /\ work' = work \cup {Len(scan) + 1}
  /\ UNCHANGED <<inFlight, errors>>

FaultyUnlaunched(key, source) ==      \* no task is created
  /\ key \notin inFlight
  /\ inFlight' = inFlight \cup {key}
  /\ OpenRow(key, source, "running", FALSE, <<"scan.started">>)
  /\ UNCHANGED <<work, errors>>

(* The key is taken, the row opened, scan.started published and the work   *)
(* task created.                                                           *)
Started(key, source) ==
  /\ key \notin inFlight
  /\ inFlight' = inFlight \cup {key}
  /\ OpenRow(key, source, "running", FALSE, <<"scan.started">>)
  /\ work' = work \cup {Len(scan) + 1}
  /\ UNCHANGED errors

(* A statement raises: on the skip path start_scan or, after it, the       *)
(* finish_scan; else start_scan, when the key has been added already.      *)
Raised(key, source) ==
  /\ DbRaises
  /\ \/ /\ key \in inFlight
        /\ \/ UNCHANGED tables
           \/ OpenRow(key, source, "skipped", FALSE, <<>>)
        /\ UNCHANGED <<inFlight, leaked>>
     \/ /\ key \notin inFlight
        /\ inFlight' = inFlight \cup {key}
        /\ leaked' = leaked \cup {key}
        /\ UNCHANGED tables
  /\ UNCHANGED <<work, stuck>>

-----------------------------------------------------------------------------
(* scan_loop.  One turn, from its wake-up to its next wait, is one step.   *)

Parseable == {c \in enabled : c \notin HostBits /\ Parsed[c] # NotACidr}
FaultySafe == Parseable               \* validate_target is not called
Safe      == {c \in Parseable : Parsed[c] \in Allowed}
LoopTargets    == [c \in Safe |-> Parsed[c]]
LoopKey(mode)  == <<mode, Signature(LoopTargets)>>
RejectedNow    == {Parsed[c] : c \in Parseable \ Safe}

FaultyAwake == proc # "down" /\ loop = "live" /\ ~pending   \* ignores stop

(* The task that the loop created on its last turn runs before the timer   *)
(* of the loop can fire: the ready queue is first in, first out.           *)
Awake ==
  /\ proc = "up"
  /\ loop = "live"
  /\ ~pending

DefaultDue == age = DefaultEvery
Older      == IF age < DefaultEvery THEN age + 1 ELSE age

TickIdle ==
  /\ Awake
  /\ Safe = {}
  /\ refused' = RejectedNow
  /\ age' = Older
  /\ reply' = NoReply
  /\ UNCHANGED <<proc, loop, pending, enabled, inFlight, work, tables,
                 history, errors>>

TickScan ==
  /\ Awake
  /\ Safe # {}
  /\ \/ Skipped(LoopKey("discover"), "loop.discover")
     \/ Started(LoopKey("discover"), "loop.discover")
  /\ pending' = DefaultDue
  /\ age' = IF DefaultDue THEN 0 ELSE Older
  /\ refused' = RejectedNow
  /\ reply' = NoReply
  /\ UNCHANGED <<proc, loop, enabled, history>>

(* list_subnets or maybe_run raises: nothing in the loop catches it.       *)
TickCrash ==
  /\ Awake
  /\ \/ /\ DbRaises
        /\ UNCHANGED <<inFlight, work, tables, refused, damage>>
     \/ /\ Safe # {}
        /\ Raised(LoopKey("discover"), "loop.discover")
        /\ refused' = RejectedNow
  /\ loop' = "crashed"
  /\ reply' = NoReply
  /\ UNCHANGED <<proc, pending, age, enabled, history>>

(* The turn of the default-scan task; its exception would go unnoticed.    *)
RunDefault ==
  /\ proc # "down"
  /\ pending
  /\ pending' = FALSE
  /\ \/ Skipped(LoopKey("default"), "loop.default")
     \/ Started(LoopKey("default"), "loop.default")
     \/ Raised(LoopKey("default"), "loop.default")
  /\ reply' = NoReply
  /\ UNCHANGED <<proc, loop, age, enabled, refused, history>>

-----------------------------------------------------------------------------
(* POST /scans.                                                            *)

Request == UNION {[1..n -> Cidr] : n \in 0..MaxRequest}

Cidrs(req) == IF req = <<>> THEN [c \in enabled |-> c] ELSE req

(* Not strict: host bits are masked.                                       *)
Nets(req) == [i \in DOMAIN Cidrs(req) |-> Parsed[Cidrs(req)[i]]]

Accepts(net, confirm) == net \in Allowed \/ (confirm /\ net \in Confirmable)

AllAccepted(req, confirm) ==
  \A i \in DOMAIN Nets(req) : Accepts(Nets(req)[i], confirm)

PostKey(mode, req) == <<mode, Signature(Nets(req))>>

Answer(r) ==
  /\ proc = "up"
  /\ reply' = r
  /\ UNCHANGED <<tasks, enabled, refused, history>>

PostRejected(req, confirm) ==
  /\ \/ /\ DOMAIN Cidrs(req) = {}
        /\ Answer([status |-> "no_targets"])
     \/ /\ ~AllAccepted(req, confirm)
        /\ Answer([status |-> "refused"])
  /\ UNCHANGED <<inFlight, work, tables, errors>>

PostConflict(mode, req, confirm) ==
  /\ DOMAIN Cidrs(req) # {}
  /\ AllAccepted(req, confirm)
  /\ PostKey(mode, req) \in inFlight
  /\ Answer([status |-> "conflict", key |-> PostKey(mode, req)])
  /\ UNCHANGED <<inFlight, work, tables, errors>>

PostScan(mode, req, confirm) ==
  /\ DOMAIN Cidrs(req) # {}
  /\ AllAccepted(req, confirm)
  /\ PostKey(mode, req) \notin inFlight
  /\ \/ /\ Started(PostKey(mode, req), "api.post_scan")
        /\ Answer([status |-> "accepted", key |-> PostKey(mode, req),
                   scan |-> Len(scan) + 1])
     \/ /\ Raised(PostKey(mode, req), "api.post_scan")
        /\ Answer([status |-> "failed"])

-----------------------------------------------------------------------------
(* _run_scan_work, from the end of its fact collection.                    *)

FaultySilent(i, status, kind) ==      \* the terminal event is not published
  /\ scan' = [scan EXCEPT ![i].status = status, ![i].ended = TRUE]
  /\ UNCHANGED published

FaultyCloseByKey(i, status, kind) ==  \* UPDATE by mode and target, not by id
  /\ scan' = [j \in DOMAIN scan |->
                IF scan[j].key = scan[i].key
                THEN [scan[j] EXCEPT !.status = status, !.ended = TRUE]
                ELSE scan[j]]
  /\ published' = [published EXCEPT ![i] = Append(@, kind)]

CloseRow(i, status, kind) ==
  /\ scan' = [scan EXCEPT ![i].status = status, ![i].ended = TRUE]
  /\ published' = [published EXCEPT ![i] = Append(@, kind)]

FaultyLeave(i) == work' = work \ {i} /\ UNCHANGED inFlight   \* no discard

(* The finally clause: the key is given back and the task is over.         *)
LeaveFlight(i) ==
  /\ work' = work \ {i}
  /\ inFlight' = inFlight \ {scan[i].key}

FinishOk(i) ==
  /\ CloseRow(i, "ok", "scan.ok")
  /\ UNCHANGED errors

FaultyError(i) == UNCHANGED <<tables, errors>>    \* the row is not finished

(* A scanner, correlate or finish_scan raised.                             *)
FinishError(i) ==
  /\ CloseRow(i, "error", "scan.error")
  /\ UNCHANGED errors

(* The finish_scan of the except clause raises as well.                    *)
FinishStuck(i) ==
  /\ DbRaises
  /\ stuck' = stuck \cup {i}
  /\ UNCHANGED <<tables, leaked>>

Finish(i) ==
  /\ i \in work
  /\ \/ FinishOk(i)
     \/ FinishError(i)
     \/ FinishStuck(i)
  /\ LeaveFlight(i)
  /\ reply' = NoReply
  /\ UNCHANGED <<tasks, enabled, refused, history>>

-----------------------------------------------------------------------------
(* The process: run(), the lifespan of the app, and a crash.               *)

(* Bootstrap only ever adds rows to the subnet table.                      *)
Start ==
  /\ proc = "down"
  /\ boots < MaxBoots
  /\ boots' = boots + 1
  /\ boot' = Len(scan)
  /\ proc' = "up"
  /\ loop' = "live"
  /\ age' \in 0..DefaultEvery
  /\ enabled' \in SUBSET Cidr
  /\ enabled \subseteq enabled'
  /\ reply' = NoReply
  /\ UNCHANGED <<pending, inFlight, work, tables, refused, errors>>

Shutdown ==
  /\ proc = "up"
  /\ proc' = "stopping"
  /\ reply' = NoReply
  /\ UNCHANGED <<loop, pending, age, enabled, inFlight, work, tables,
                 refused, history, errors>>

(* The loop sees stop, or the lifespan cancels it after three seconds.     *)
LoopExit ==
  /\ proc = "stopping"
  /\ loop = "live"
  /\ loop' = "ended"
  /\ reply' = NoReply
  /\ UNCHANGED <<proc, pending, age, enabled, inFlight, work, tables,
                 refused, history, errors>>

(* What is in memory is gone.  A cancelled work task does not touch its    *)
(* row: CancelledError is not an Exception.                                *)
Gone ==
  /\ proc' = "down"
  /\ loop' = "off"
  /\ pending' = FALSE
  /\ inFlight' = {}
  /\ work' = {}
  /\ refused' = {}
  /\ leaked' = {}
  /\ stuck' = {}
  /\ reply' = NoReply
  /\ UNCHANGED <<age, enabled, tables, history, faults>>

FaultyProcessExit ==                  \* waits until no row of the table runs
  /\ proc = "stopping"
  /\ loop \in {"ended", "crashed"}
  /\ \A i \in 1..Len(scan) : scan[i].status # "running"
  /\ Gone

ProcessExit ==
  /\ proc = "stopping"
  /\ loop \in {"ended", "crashed"}
  /\ Gone

Crash ==
  /\ proc # "down"
  /\ Gone

-----------------------------------------------------------------------------
Post ==
  \E req \in Request, confirm \in BOOLEAN :
    \/ PostRejected(req, confirm)
    \/ \E mode \in PostModes : \/ PostConflict(mode, req, confirm)
                               \/ PostScan(mode, req, confirm)

Next ==
  \/ TickIdle
  \/ TickScan
  \/ TickCrash
  \/ RunDefault
  \/ Post
  \/ \E i \in work : Finish(i)
  \/ Start
  \/ Shutdown
  \/ LoopExit
  \/ ProcessExit
  \/ Crash

(* The event loop runs what is ready; the timer of the loop fires; every   *)
(* scanner returns (nmap has a host timeout, srp a timeout).  Nobody has   *)
(* to post, to stop or to restart the server, and no statement has to      *)
(* raise.                                                                  *)
Fairness ==
  /\ WF_vars(TickIdle \/ TickScan)
  /\ WF_vars(RunDefault)
  /\ WF_vars(LoopExit)
  /\ WF_vars(ProcessExit)
  /\ \A i \in 1..MaxScans : WF_vars(i \in work /\ Finish(i))

Spec == Init /\ [][Next]_vars /\ Fairness

-----------------------------------------------------------------------------
(* Properties.                                                             *)

(* No two live work tasks scan the same targets in the same mode: the      *)
(* check and the insertion of the key in maybe_run are not separated by an *)
(* await, whoever calls it.                                                *)
OneTaskPerKey ==
  \A i, j \in work : scan[i].key = scan[j].key => i = j

(* A live work task owns a row that is still running, that this process    *)
(* opened, and whose key is in flight: nobody else closes its row or gives *)
(* its key away while it collects facts.                                   *)
WorkIsRegistered ==
  \A i \in work :
    /\ i > boot
    /\ scan[i].status = "running"
    /\ scan[i].key \in inFlight

(* A key in flight has a live work task, which gives it back on every way  *)
(* out of _run_scan_work, the one where the except clause raises included; *)
(* or the INSERT of its row raised, and no task has it before a restart.   *)
KeysAreOwned ==
  /\ leaked \subseteq inFlight
  /\ \A k \in inFlight : k \in leaked <=> ~\E i \in work : scan[i].key = k

(* A row that the present process opened and that is still running has a   *)
(* live work task to close it, or that task has tried and failed.          *)
RunningIsOwned ==
  proc # "down"
    => \A i \in (boot + 1)..Len(scan) :
         scan[i].status = "running" => (i \in work <=> i \notin stuck)

(* What subscribers were told of a scan agrees with its row: started, then *)
(* one terminal event of the status of the row; a skipped scan is one      *)
(* event, or none if its row could not be finished.                        *)
Announced(row, kinds) ==
  /\ row.status = "running" => kinds = <<"scan.started">>
  /\ row.status = "ok"      => kinds = <<"scan.started", "scan.ok">>
  /\ row.status = "error"   => kinds = <<"scan.started", "scan.error">>
  /\ row.status = "skipped" /\ row.ended  => kinds = <<"scan.skipped">>
  /\ row.status = "skipped" /\ ~row.ended => kinds = <<>>

RowsAreAnnounced ==
  \A i \in 1..Len(scan) : Announced(scan[i], published[i])

(* The "scan already running" answer of POST /scans tells the truth: a     *)
(* task with that very mode and signature is live.  It is untrue only of a *)
(* key that was leaked.                                                    *)
ConflictIsTruthful ==
  reply.status = "conflict"
    => reply.key \in leaked \/ \E i \in work : scan[i].key = reply.key

(* The scan id that POST /scans returns is that of a live task on the      *)
(* requested targets, so a client that polls it sees it end.               *)
AcceptedIsLive ==
  reply.status = "accepted"
    => reply.scan \in work /\ scan[reply.scan].key = reply.key

(* "No bypass paths": a scan covers only networks that the policy accepts; *)
(* what needs a confirmation is scanned only for a client that can give    *)
(* one, never for the loop, which re-checks the subnet table every tick.   *)
NoBypass ==
  \A i \in 1..Len(scan), n \in Net :
    scan[i].key[2][n] > 0
      => \/ n \in Allowed
         \/ n \in Confirmable /\ scan[i].source = "api.post_scan"

(* A row that is not running never changes again and no row is removed:    *)
(* finish_scan is an unconditional UPDATE, so only the ownership of rows   *)
(* keeps a late task from rewriting the outcome of a scan.                 *)
TerminalRowsFrozen ==
  [][/\ Len(scan) <= Len(scan')
     /\ \A i \in 1..Len(scan) :
          /\ scan'[i].key = scan[i].key
          /\ scan[i].status # "running" => scan'[i] = scan[i]]_vars

(* Once stop is set the loop opens no scan of its own any more; only the   *)
(* default-scan task that it had created may still do so.                  *)
LoopQuietAfterStop ==
  [][proc # "up" => \A i \in (Len(scan) + 1)..Len(scan') :
                      scan'[i].source = "loop.default"]_vars

(* A scan that was started ends, unless its process goes away first.       *)
EveryScanEnds ==
  \A i \in 1..MaxScans :
    i \in work ~> (i \in 1..Len(scan) /\ scan[i].status \in {"ok", "error"})
                  \/ proc = "down"

(* A stop request ends the process, whatever the scans are doing.          *)
StopsWhenAsked == proc = "stopping" ~> proc = "down"

(* The dispatcher implements the ledger, its live work tasks being the     *)
(* active scans, as long as no statement on the scan table raises: it is   *)
(* checked and proved with MaxFaults = 0.                                  *)
LedgerRows == [i \in 1..Len(scan) |-> [key    |-> scan[i].key,
                                       status |-> scan[i].status]]

Ledger == INSTANCE ScanLedger WITH Keys <- Key, MaxRows <- MaxScans,
                                   rows <- LedgerRows, active <- work

ImplementsLedger == Ledger!Spec

-----------------------------------------------------------------------------
(* What the documents say and the code does not do.                        *)

(* "On exception anywhere in steps 4-8 ... remove from in_flight."         *)
FailureFreesKey == \A k \in inFlight : \E i \in work : scan[i].key = k

(* "its scan row is updated to status='error' on next startup if found in  *)
(* running state": once the process is up, no row of an earlier one runs.  *)
NoOrphansAfterStart ==
  proc = "up" => \A i \in 1..boot : scan[i].status # "running"
=============================================================================
