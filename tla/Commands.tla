------------------------------- MODULE Commands -------------------------------
(***************************************************************************)
(* The commands of netmap as processes on one machine: `up`, `scan`, `db   *)
(* migrate`, `db vacuum`, `db reset` and `config show`.  They share the    *)
(* configuration file and the database file, and nothing else.             *)
(*                                                                         *)
(* Of a server this keeps the bootstrap of the subnet table and the scans  *)
(* of its loop, one at a time: ScanDispatch has the rest.  Of a scan it    *)
(* keeps the row and its targets: Correlation has the facts.  Statements   *)
(* on the database are atomic, processes may stop between any two.         *)
(*                                                                         *)
(* An operator whose name starts with Faulty is the one after it with a    *)
(* bug planted; no action uses it.  It shows that a property would notice. *)
(***************************************************************************)
EXTENDS TargetSafety, FiniteSets

CONSTANTS
  Process,      \* slots for processes that run at the same time
  Target,       \* texts that users pass with --target
  Plug,         \* addresses with prefix that the default route's interface
                \* may have; NotACidr if `ip` tells of none
  BuiltIn,      \* SafetyPolicy(): the defaults in the code
  Setting,      \* [policy, loopback] that a user writes to the config file
  MaxTargets,   \* bound: --target options of one command
  MaxCommands,  \* bound: commands that run
  MaxScans,     \* bound: rows of the scan table
  MaxEdits      \* bound: changes of the config file and of the network

Default == [policy |-> BuiltIn, loopback |-> TRUE]

ASSUME CommandsAssumption ==
  /\ BuiltIn \in Policy
  /\ \A i \in DOMAIN BuiltIn.deny : ~Malformed(BuiltIn.deny[i])
  /\ Setting \subseteq [policy : Policy, loopback : BOOLEAN]
  /\ Target \cup Plug \subseteq Text \cup {NotACidr}
  /\ MaxTargets \in Nat
  /\ MaxCommands \in Nat
  /\ MaxScans \in Nat
  /\ MaxEdits \in Nat

VARIABLES
  config,    \* the config file: "absent", "broken" or "valid", and its content
  plug,      \* what `ip` reports of the interface of the default route
  exists,    \* TRUE: the database file exists
  subnet,    \* the subnet table, in the order of its ids
  scan,      \* the scan table
  proc,      \* proc[p]: the command that p runs, if any
  orphans,   \* rows that say running and that nobody is left to finish
  commands,  \* commands so far that change more than a file
  edits      \* changes of the environment so far

database == <<exists, subnet, scan>>
world    == <<config, plug, edits>>
vars     == <<world, database, proc, orphans, commands>>

CommandTargets == UNION {[1..n -> Target] : n \in 1..MaxTargets}

(* The column source says "config" of every row; via is where it came from. *)
SubnetRow == [cidr : Text, via : {"target", "ip"}]

Row == [source : {"cli", "loop"}, nets : SUBSET Network, policy : Policy,
        confirm : BOOLEAN, override : BOOLEAN,
        status : {"running", "ok", "error"}]

Proc == [pc : {"idle", "override", "check", "detect", "starting", "serving",
               "scanning"},
         policy : Policy,
         todo   : Seq(Target),      \* --target options not inserted yet
         loop   : BOOLEAN,          \* the scan_loop task lives
         row    : Nat,              \* the scan that is running, or 0
         phase  : {"none", "collect", "store"}]

Idle == [pc |-> "idle", policy |-> BuiltIn, todo |-> <<>>, loop |-> FALSE,
         row |-> 0, phase |-> "none"]

TypeOK ==
  /\ config \in [file : {"absent", "broken", "valid"},
                 setting : Setting \cup {Default}]
  /\ plug \in Plug
  /\ exists \in BOOLEAN
  /\ subnet \in Seq(SubnetRow)
  /\ scan \in Seq(Row)
  /\ proc \in [Process -> Proc]
  /\ \A p \in Process : proc[p].row \in 0..Len(scan)
  /\ orphans \in SUBSET (1..Len(scan))
  /\ commands \in 0..MaxCommands
  /\ edits \in 0..MaxEdits
  /\ ~exists => subnet = <<>> /\ scan = <<>>

Init ==
  /\ config = [file |-> "absent", setting |-> Default]
  /\ plug \in Plug
  /\ exists = FALSE
  /\ subnet = <<>>
  /\ scan = <<>>
  /\ proc = [p \in Process |-> Idle]
  /\ orphans = {}
  /\ commands = 0
  /\ edits = 0

-----------------------------------------------------------------------------
(* The environment: the user edits the config file, the machine is plugged *)
(* into another network.                                                   *)
Edit ==
  /\ edits < MaxEdits
  /\ edits' = edits + 1
  /\ \/ /\ \E s \in Setting : config' = [file |-> "valid", setting |-> s]
        /\ UNCHANGED plug
     \/ /\ config' = [file |-> "broken", setting |-> Default]
        /\ UNCHANGED plug
     \/ /\ plug' \in Plug \ {plug}
        /\ UNCHANGED config
  /\ UNCHANGED <<database, proc, orphans, commands>>

-----------------------------------------------------------------------------
(* What every command that is counted begins with.                         *)
Starts(p) ==
  /\ proc[p].pc = "idle"
  /\ commands < MaxCommands
  /\ commands' = commands + 1
  /\ UNCHANGED <<plug, edits>>

(* load_config: creates the file with the defaults, or raises ValueError.  *)
Loads == config.file # "broken"
LoadConfig ==
  config' = IF config.file = "absent"
            THEN [file |-> "valid", setting |-> Default] ELSE config

(* Storage(path) creates the file and its tables where they are missing.   *)
OpenStorage == exists' = TRUE

ConfigShow(p) ==
  /\ proc[p].pc = "idle"
  /\ LoadConfig
  /\ UNCHANGED <<plug, edits, database, proc, orphans, commands>>

(* `db migrate` and `db vacuum`.                                           *)
Migrate(p) ==
  /\ proc[p].pc = "idle"
  /\ OpenStorage
  /\ UNCHANGED <<world, subnet, scan, proc, orphans, commands>>

FaultyReset(p) ==                        \* leaves the -wal file with its tables
  /\ Starts(p)
  /\ \A q \in Process : proc[q].pc = "idle"
  /\ exists' = FALSE
  /\ UNCHANGED <<config, subnet, scan, proc, orphans>>

(* `db reset --yes-really-delete` while no process has the file open; what *)
(* SQLite makes of the other case is not defined.                          *)
Reset(p) ==
  /\ Starts(p)
  /\ \A q \in Process : proc[q].pc = "idle"
  /\ exists' = FALSE
  /\ subnet' = <<>>
  /\ scan' = <<>>
  /\ orphans' = {}
  /\ UNCHANGED <<config, proc>>

-----------------------------------------------------------------------------
(* The life of a scan row: _run_scan of the command, maybe_run and the     *)
(* work task of a server.                                                  *)
OpensRow(p, after, source, nets, confirm, override) ==
  /\ Len(scan) < MaxScans
  /\ scan' = Append(scan, [source |-> source, nets |-> nets,
                           policy |-> after.policy, confirm |-> confirm,
                           override |-> override, status |-> "running"])
  /\ proc' = [proc EXCEPT ![p] = [after EXCEPT !.row = Len(scan) + 1,
                                               !.phase = "collect"]]

(* A `netmap scan` ends with its scan, a server goes on.                   *)
Rest(p) == IF proc[p].pc = "scanning" THEN Idle
           ELSE [proc[p] EXCEPT !.row = 0, !.phase = "none"]

Finishes(p, status) ==
  /\ scan' = [scan EXCEPT ![proc[p].row].status = status]
  /\ proc' = [proc EXCEPT ![p] = Rest(p)]
  /\ UNCHANGED orphans

(* An exception ends the command, or the work task of a server that goes   *)
(* on, and the row stays as it is.                                         *)
Abandons(p) ==
  /\ proc' = [proc EXCEPT ![p] = Rest(p)]
  /\ orphans' = orphans \cup {proc[p].row}
  /\ UNCHANGED scan

(* The finish_scan of an except clause is a statement that may raise too.  *)
RecordsError(p) == Finishes(p, "error") \/ Abandons(p)

(* The scanners have reported; what is left is correlate and finish_scan.  *)
Collect(p) ==
  /\ proc[p].phase = "collect"
  /\ proc' = [proc EXCEPT ![p].phase = "store"]
  /\ UNCHANGED <<world, database, orphans, commands>>

(* In a server the except clause is around all of the task: a scanner, or  *)
(* a statement of correlate or finish_scan, raises.                        *)
TaskFails(p) ==
  /\ proc[p].phase # "none"
  /\ proc[p].pc # "scanning"
  /\ RecordsError(p)
  /\ UNCHANGED <<world, exists, subnet, commands>>

FaultyScannerFails(p) ==                 \* exits without finish_scan
  /\ proc[p].phase = "collect"
  /\ proc[p].pc = "scanning"
  /\ proc' = [proc EXCEPT ![p] = Rest(p)]
  /\ UNCHANGED <<world, database, orphans, commands>>

(* In the command it is around the scanners only; correlate and the last   *)
(* finish_scan come after it.                                              *)
ScannerFails(p) ==
  /\ proc[p].phase = "collect"
  /\ proc[p].pc = "scanning"
  /\ RecordsError(p)
  /\ UNCHANGED <<world, exists, subnet, commands>>

StatementRaises(p) ==
  /\ proc[p].phase = "store"
  /\ proc[p].pc = "scanning"
  /\ Abandons(p)
  /\ UNCHANGED <<world, exists, subnet, commands>>

Finish(p) ==
  /\ proc[p].phase = "store"
  /\ Finishes(p, "ok")
  /\ UNCHANGED <<world, exists, subnet, commands>>

(* `netmap scan`: every target is validated before the database is opened, *)
(* and the first that is not accepted ends the command.                    *)
ScanCommand(p) ==
  /\ Starts(p)
  /\ LoadConfig
  /\ \E targets \in CommandTargets, confirm, override \in BOOLEAN :
       LET policy == config.setting.policy
           valid  == Loads /\ \A i \in DOMAIN targets :
                       Accepts(targets[i], policy, confirm, 0, override)
       IN  \/ /\ valid
              /\ OpenStorage
              /\ OpensRow(p, [Idle EXCEPT !.pc = "scanning", !.policy = policy],
                          "cli", {Masked(targets[i]) : i \in DOMAIN targets},
                          confirm, override)
           \/ /\ ~valid
              /\ UNCHANGED <<exists, scan, proc>>
  /\ UNCHANGED <<subnet, orphans>>

-----------------------------------------------------------------------------
(* check_or_exit: privileges, nmap, and a loopback address, which --bind    *)
(* may have replaced.                                                      *)
Gates(privileged, nmap, bind) ==
  /\ privileged
  /\ nmap
  /\ bind = "loopback" \/ (bind = "config" /\ config.setting.loopback)

(* `netmap up`, up to the server: the configuration, the startup checks,   *)
(* the database, and then the subnet table.                                *)
Up(p) ==
  /\ Starts(p)
  /\ LoadConfig
  /\ \E privileged, nmap \in BOOLEAN, bind \in {"config", "loopback", "other"} :
       \/ /\ Loads /\ Gates(privileged, nmap, bind)
          /\ OpenStorage
          /\ \E targets \in {<<>>} \cup CommandTargets :
               proc' = [proc EXCEPT ![p] =
                          [Idle EXCEPT !.pc = IF targets = <<>> THEN "check"
                                              ELSE "override",
                                       !.policy = config.setting.policy,
                                       !.todo = targets]]
       \/ /\ ~(Loads /\ Gates(privileged, nmap, bind))
          /\ UNCHANGED <<exists, proc>>
  /\ UNCHANGED <<subnet, scan, orphans>>

(* insert_subnet: a text that is there keeps its row.                      *)
FaultyInserted(table, row) ==            \* INSERT OR REPLACE: a new id
  Append(SelectSeq(table, LAMBDA r : r.cidr # row.cidr), row)

Inserted(table, row) ==
  IF \E i \in DOMAIN table : table[i].cidr = row.cidr THEN table
  ELSE Append(table, row)

(* run() is given no policy: it validates with the built-in one.           *)
Suits(text) == Accepts(text, BuiltIn, FALSE, 0, FALSE)

Store(text, via) ==
  subnet' = IF Suits(text) THEN Inserted(subnet, [cidr |-> text, via |-> via])
            ELSE subnet

Ready(p) == [proc[p] EXCEPT !.pc = "starting", !.loop = TRUE]

Override(p) ==
  /\ proc[p].pc = "override"
  /\ Store(Head(proc[p].todo), "target")
  /\ proc' = [proc EXCEPT ![p] = LET rest == Tail(@.todo) IN
                [IF rest = <<>> THEN Ready(p) ELSE @ EXCEPT !.todo = rest]]
  /\ UNCHANGED <<world, exists, scan, orphans, commands>>

CheckEmpty(p) ==
  /\ proc[p].pc = "check"
  /\ proc' = [proc EXCEPT ![p] = IF subnet # <<>> THEN Ready(p)
                                 ELSE [@ EXCEPT !.pc = "detect"]]
  /\ UNCHANGED <<world, database, orphans, commands>>

(* parse_iface_cidr: the network, not the address with its prefix.         *)
FaultyDetected == plug
Detected == IF plug = NotACidr THEN NotACidr ELSE Shown(Masked(plug))

Detect(p) ==
  /\ proc[p].pc = "detect"
  /\ Store(Detected, "ip")
  /\ proc' = [proc EXCEPT ![p] = Ready(p)]
  /\ UNCHANGED <<world, exists, scan, orphans, commands>>

(* uvicorn starts the lifespan, and with it the scan loop, before it binds *)
(* the port; if another server has it, this one goes away again.           *)
Bind(p) ==
  /\ proc[p].pc = "starting"
  /\ \A q \in Process : proc[q].pc # "serving"
  /\ proc' = [proc EXCEPT ![p].pc = "serving"]
  /\ UNCHANGED <<world, database, orphans, commands>>

Leaves(p) ==
  /\ proc' = [proc EXCEPT ![p] = Idle]
  /\ orphans' = orphans \cup ({proc[p].row} \ {0})
  /\ UNCHANGED <<world, database, commands>>

PortTaken(p) ==
  /\ proc[p].pc = "starting"
  /\ \E q \in Process : proc[q].pc = "serving"
  /\ Leaves(p)

(* One turn of scan_loop.  It parses strictly, validates once more, with   *)
(* the policy of the configuration, and no exception but SafetyError is    *)
(* caught.                                                                 *)
Parsable == {t \in {subnet[i].cidr : i \in DOMAIN subnet} : ~HasHostBits(t)}

TickTargets(p) ==
  {t \in Parsable : Accepts(t, proc[p].policy, FALSE, 0, FALSE)}

Tick(p) ==
  /\ proc[p].loop
  /\ proc[p].row = 0
  /\ ~\E t \in Parsable : Raises(t, proc[p].policy, FALSE)
  /\ TickTargets(p) # {}
  /\ OpensRow(p, proc[p], "loop", {Masked(t) : t \in TickTargets(p)}, FALSE, FALSE)
  /\ UNCHANGED <<world, exists, subnet, orphans, commands>>

TickCrash(p) ==
  /\ proc[p].loop
  /\ \E t \in Parsable : Raises(t, proc[p].policy, FALSE)
  /\ proc' = [proc EXCEPT ![p].loop = FALSE]
  /\ UNCHANGED <<world, database, orphans, commands>>

(* Ctrl-C, a signal, the end of the machine's power.                       *)
Quit(p) ==
  /\ proc[p].pc # "idle"
  /\ Leaves(p)

Next ==
  \/ Edit
  \/ \E p \in Process :
       \/ ConfigShow(p) \/ Migrate(p) \/ Reset(p) \/ ScanCommand(p) \/ Up(p)
       \/ Override(p) \/ CheckEmpty(p) \/ Detect(p) \/ Bind(p) \/ PortTaken(p)
       \/ Tick(p) \/ TickCrash(p)
       \/ Collect(p) \/ TaskFails(p) \/ ScannerFails(p) \/ StatementRaises(p)
       \/ Finish(p) \/ Quit(p)

Spec == Init /\ [][Next]_vars

-----------------------------------------------------------------------------
(* Properties.                                                             *)

(* Whatever `up` is given and whatever the machine is plugged into, when   *)
(* the table is empty and several servers start at once: a row of the      *)
(* subnet table is one that the built-in policy accepts, no text has two   *)
(* rows, and one that the loop cannot parse was given with --target.       *)
SubnetsAreSound ==
  /\ \A i \in DOMAIN subnet :
       /\ Suits(subnet[i].cidr)
       /\ HasHostBits(subnet[i].cidr) => subnet[i].via = "target"
  /\ \A i, j \in DOMAIN subnet : subnet[i].cidr = subnet[j].cidr => i = j

(* GET /hosts?subnet= and the UI refer to subnets by id.  A second `up`    *)
(* with the same --target changes no row; only a reset removes one.        *)
RowsKeepTheirIds ==
  [][exists' => \A i \in DOMAIN subnet :
       i \in DOMAIN subnet' /\ subnet'[i] = subnet[i]]_vars

(* "No bypass paths", in terms of addresses: by whatever command a scan    *)
(* was started, it reaches no address of a deny entry of the policy in     *)
(* force unless --allow-loopback was given, and no public address unless   *)
(* the policy allows that and the user confirmed it.  A network that the   *)
(* bootstrap stored under the built-in policy is no exception.             *)
NobodyIsProbedUnasked ==
  \A i \in DOMAIN scan : \A net \in scan[i].nets : \A a \in Addresses(net) :
    /\ scan[i].override
         \/ \A j \in DOMAIN scan[i].policy.deny :
              a \notin Addresses(Masked(scan[i].policy.deny[j]))
    /\ (\E b \in PrivateBlocks : a \in Addresses(b))
         \/ (scan[i].source = "cli" /\ scan[i].confirm /\ scan[i].policy.public)

(* Commands and servers share the scan table without a lock.  A row says   *)
(* running as long as a process runs the scan, and no longer, except where *)
(* nobody was left to finish it: its process went away in the middle, as   *)
(* the one that finds its port taken does and the command whose correlate  *)
(* raises; or the statement raised that was to record an error, which a    *)
(* server outlives.  No row has two processes, or one after it was left.   *)
RunningIsLive ==
  \A i \in DOMAIN scan :
    LET owners == {p \in Process : proc[p].row = i} IN
    /\ scan[i].status = "running" <=> i \in orphans \/ owners # {}
    /\ \A p, q \in owners : p = q /\ i \notin orphans
=============================================================================
