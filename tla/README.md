# A TLA+ model of ceph-mesos

ceph-mesos is a Mesos framework that starts a Ceph cluster in Docker containers:
one MON, then three OSDs, then one RADOSGW, and after that one more OSD for each
instance asked for over a REST interface. This directory holds TLA+ modules that
model the framework, TLC configurations that check them on small instances and
proofs, checked by TLAPS, of what holds for every instance. Paths below are
relative to the repository, which is `src/` here.

Contents: [the system](#the-system), [modules](#modules), [runs](#runs),
[findings](#findings), [proofs](#proofs), [not modelled](#not-modelled),
[plan](#plan).

## The system

| Part | State it keeps | Operations |
| --- | --- | --- |
| `state/StateMachine` | `taskMap`, staging and running counters, tokens, phase, pending OSD ids, host configurations | `addStagingTask`, `updateTaskTo*`, `nextMove`, `decreaseOSDIndex`, `addConfig`, `getInitialMon` |
| `state/HostConfig` | raw disks still to prepare, free partitions, "preparing" flag | `popOSDPartition`, `popJournalPartition`, `updateDiskPartition`, `setDiskPreparation*` |
| `scheduler/CephSchedulerAgent` | none beyond the locals of `resourceOffers` | `resourceOffers`, `statusUpdate`, `frameworkMessage` |
| `scheduler/EventLoop` | `pendingOSD`, the instance counts of requests | `recvData` and `processData`, on a thread of its own |
| `httpserver/RestServer` | a connection's body so far; writes the message queue `flexUp`, which outlives the process | `POST /api/cluster/flexup`, a thread per connection |
| `executor/CephExecutor` | the container it started, its disks, its task id | `launchTask`, `frameworkMessage`, `shutdown` |
| `executor/DiskExecutor` | disks that failed | `launchTask` |
| `httpserver/FileServer` | none | serves binaries (scheduler) and Ceph configuration (MON executor) |
| `common/Config` | none; reads `cephmesos.yml` and a file per host | `get_config`, `get_config_by_hostname` |
| `common/*` | none; string, network, HTTP and JSON helpers | pure functions and I/O |

How they interact. The Mesos driver calls the scheduler's callbacks one at a
time. `resourceOffers` first hands pending OSD ids to waiting OSD executors
(`LAUNCH_OSD`), then goes through its offers: it may launch the disk executor on
one, decline it, or launch a Ceph task. For every OSD it launches it sends
`REGISTER_OSD` to the executor of the first MON, which runs `ceph osd create` and
answers with an id. Executors report `TASK_STARTING` (an OSD that waits for its
id), `TASK_RUNNING` and `TASK_FAILED`; the disk executor reports
`TASK_FINISHED`. Executors fetch Ceph's configuration files from the file server
in the first MON's executor. The event loop's thread appends flex-up requests to
a vector that `resourceOffers` counts down; it gets them from connection threads
of the REST server through a queue in shared memory. The executors of a host share
its configuration directory, its container names and its disks, and those of a
stopped scheduler meet those of the next one there.

What is hard here: the scheduler decides from counters that lag behind the
executors; updates may be repeated and messages lost; an executor may die at any
step; an OSD id crosses four asynchronous hops; `resourceOffers` keeps a copy of
the phase and a flag from one offer to the next; a handler of an executor is a
dozen shell commands between which other executors run theirs; the scheduler
persists nothing, but the message queue, containers and directories survive it.
The list with the lines is `hazards` in `PROJECT.json`.

What makes each part correct:

- StateMachine: the counters bound the cluster (`ClusterBounded`), the phase is
  what the tasks say (`PhaseHonest`), tokens are unique (`TokenUnique`).
- HostConfig: a partition has one owner (`PartitionExclusive`), disks are used
  before the system disk (`DisksBeforeSystemDisk`), failed disks are not used
  (`FailedDiskUnused`).
- CephSchedulerAgent: OSD ids are unique and given once (`OSDIdUnique`,
  `OneIdPerTask`), one task per offer (`OneTaskPerOffer`), only the first MON is
  initial (`OnlyFirstMonInitial`), registrations go to it
  (`RegisterGoesToInitialMon`), and a callback throws only when that MON's container
  is gone (`CrashNeedsLostMon`).
- Flex-up: requests are conserved and served by a complete cluster only
  (`RequestsConserved`, `GrantOnlyWhenComplete`), and are served (`FlexUpServed`).
- RestServer and EventLoop: an accepted instance is served once or lost with the
  process (`ImplementsFlexUpService`), a request is answered
  (`EveryPostAnswered`), what was accepted arrives (`InFlightDrains`), and nothing
  is granted that was not asked for (`NoUnaskedOSD`).
- CephExecutor: `TASK_RUNNING` means that the task's container runs
  (`RunningHasContainer`); handlers return (`HandlerReturns`); executors do not
  make each other fail (`NoFaultNoFailure`); what was shut down is gone
  (`ShutdownRemoves`); old data is not used (`DataCleared`).
- DiskExecutor: partitions fit (`PartitionsFit`), the scheduler understands the
  report (`ReportRead`).
- Config: each setting has the value that the file or flag with the last word on
  it gives (`HostSettingsWin`). StringUtil: an address is matched with its network
  (`MonInPublicNetwork`).
- Together: the cluster comes up (`Bootstrapped`) and every step of it is one that
  a simple description of the cluster allows (`ImplementsClusterService`).

## Modules

```
StateMachine <- Mesos <- CephSchedulerAgent <- CephMesos <- CephMesosRefinement <- MCCephMesos (runs)
                      <- CephExecutor       <-

ClusterService   implemented by CephMesos       (CephMesosRefinement)
FlexUpService    implemented by CephMesos       (CephMesosRefinement)
                 and by FlexUp                  (FlexUp)
CephExecutor     implemented by ExecutorHost    (ExecutorRefinement)

FlexUp           <- MCFlexUp (run)
PendingOSDVector (run)
ExecutorHost     <- ExecutorRefinement <- MCExecutorHost (run)

Config                          <- HostSetup <- MCHostSetup (run)
StringUtil    <- DiskExecutor   <-
              <- PublicNetwork  <-

Proofs:
CephMesos <- CephMesosProofs <- ClusterProofs <- MessageProofs
                             <- DiskProofs    <- RefinementProofs -> CephMesosRefinement
ExecutorRefinement <- ExecutorHostProofs
HostSetup          <- HostSetupProofs
FlexUp             <- FlexUpProofs
```

The first two lines are the whole framework at the level of callbacks, messages and
updates. The others look into one part each, at the level of its threads, shell
commands or texts.

`StateMachine` models `src/src/state/`. A task id is the record of type, token
and host that the code's string `<type><token>.<host>.<slave>` spells out; the
counters are functions on task types. The number of OSDs of the bootstrap, 3 in
the code, is the constant `OSDNum`, so that failures can be checked with a
smaller cluster and theorems hold for all sizes.

`Mesos` is what lies between scheduler and executors. It is not code of the
repository. A task's updates are a queue (in order, at least once); framework
messages are delivered at most once; `node[t]` is what the executor of `t` was
told and whether its container runs. A task is over (`dead`) once its executor
sent a terminal update or died.

`CephExecutor` has one action per outcome of `launchTask` and
`frameworkMessage`. The shell commands in them succeed or fail as a whole.

`CephSchedulerAgent` has the callbacks. `statusUpdate` and `frameworkMessage`
are one step each, since the driver serialises callbacks. `resourceOffers` is a
step per OSD id assigned and a step per offer, because executors and the event
loop run while it sends messages and launches tasks: `pc`, `offers`,
`phaseSeen` and `isInitialMonNode` are where it is and its locals. Its per-offer
steps are the code's outcomes: `DeclineWrongRole`, `DeclineNotNow`,
`DeclineNotEnough`, `DeclineNoRequest`, `AcceptOffer`. An unordered map's
iteration order is a nondeterministic choice (`getInitialMon`,
`getWaitingOSDTask`), and so is which free partition is popped. `granted` counts
the flex-up instances consumed; it exists for the properties only.

`CephMesos` composes them, adds the environment (offers, requests, deliveries,
faults) and states the properties. `Faults` is the set of fault kinds of an
instance:

| Kind | What happens |
| --- | --- |
| `launchFails` | `launchTask` takes an early return, or `ceph mon stat` fails in the container |
| `startFails` | `LAUNCH_OSD` ends with `TASK_FAILED` |
| `executorFails`, `executorLost` | an executor dies; Mesos reports `TASK_FAILED` or `TASK_LOST` |
| `containerDies` | a container stops; its executor does not notice. An OSD that was sent two `LAUNCH_OSD` may get it back, from the docker run that waited for the name (`ContainerReturns`) |
| `repeatUpdate` | a status update is delivered once more |
| `loseMessage` | a framework message is lost |
| `diskDies`, `badDisk` | the disk executor dies, or reports a disk it could not prepare |

An offer that is too small counts as a fault, too, since it burns a token.

`ClusterService` says what the framework promises with three variables: daemons
launched and not over, daemons known to run, requests served. A daemon is launched
only when the ones it needs are known to run and only up to the number wanted.
`CephMesosRefinement` maps `taskMap`, `node` and `granted` to them.
`FlexUpService` says that accepted instances are served once each and lost only
when the scheduler stops. Both levels implement it: in `CephMesos` it is the path
from `processData` to `AcceptOffer`, in `FlexUp` that from the REST server to
`fetchPendingRESTfulRequest`.

`FlexUp` has the threads of the connections, the shared queue with its capacity
(`MaxMsgs`) and its message size (`MaxMsgSize`), the event loop's thread with its
buffer, and the vector. A request is a record of what `rest_request` and
`jsonCheck` tell apart: method, URL, whether the body is JSON with fields of the
right types, instances, profile, length. `die` is what an exception that leaves a
handler does (`CheckThrows`), and so does `Kill`; `Restart` is the next process,
which finds the queue with its messages. What follows a message in the
uninitialised buffer is a choice from `Leftover`; that it does no harm is because
the JSON reader stops after the value.

`PendingOSDVector` looks into the one place where `FlexUp` and `CephMesos` take two
threads for one step at a time: `push_back` and the fetch, as loads and stores of
the vector's end and elements, with reallocation. Memory is sequentially
consistent and freed blocks stay readable, so it shows less than undefined
behaviour permits.

`ExecutorHost` has the executors of one host, a step per shell command.
`pc[e]` is where the driver's thread of `e` is; `asked[e]` counts the `LAUNCH_OSD`
it was sent, `forked[e]` the `docker run` it forked and `starting[e]` those of them
that docker has not got to; `dir`, `container` and `mounted` are shared. A
`LAUNCH_OSD` is handled in full however many came before it, as in
`frameworkMessage`: it mounts once more, on the mount point that its id names, and
forks `docker run` once more. Then `docker ps` may show the container of the one
before, and the new `docker run` ends when it finds the name taken, or gets it if
that container is gone by then. `Task` is a constant
because a `TaskInfo` does not change. `SchedulerStops` ends a run; from then on
executors of that run are shut down when their driver is free (`shutdown`), or
killed (`GraceExpires`) when they are inside a handler. `monHere` says whether the
MONs of the run are on this host, so that the others find their files there, or
elsewhere, so that the directory may be new. `Grep` says which container names
contain which. Its faults are `noContainer` (docker run fails), `exits` (a container
stops), `noAnswer` (`ceph mon stat` fails or times out), `mountFails`, `dies`, and
`repeatUpdate`, after which the scheduler sends one more `LAUNCH_OSD`.
`ExecutorRefinement` shows that its handlers implement the one-step actions of
`CephExecutor`: the updates sent so far and the container give the state of the
task there. The `LAUNCH_OSD` of an executor are numbered, because only that their ids
are different matters. Updates count up to the first `TASK_FAILED`, with which the
task is over for Mesos, although its executor goes on and may answer another
`LAUNCH_OSD` with `TASK_RUNNING`.

`HostSetup` follows a host from the configuration files to its first MON:
`Config` gives the disks, the partition count and the network, `DiskExecutor`
prepares the disks and reports, `PublicNetwork` picks the MON's address. `Config`
has one field for each way a field is treated, and 0 for the value that the code
takes for "not given"; `DiskLists`, `PartCounts` and `Networks` say what the values
stand for. `DiskExecutor` prepares disk by disk and builds the text of the report,
which `statusUpdate` takes apart again with `explode`; texts are sequences of
numbers, of which the negative ones are punctuation (`StringUtil`). `explode` says
where the tokens that `getline` reads begin and end, rather than reading them.
`PublicNetwork` runs `matchIPToCIDR` on texts of scaled-down addresses and
`MonInPublicNetwork` compares it with a definition on bits.

A definition named `<Name>_<what>` is `<Name>` with a plausible mistake in it.
No specification uses it; it shows that the properties notice the mistake.

## Runs

Run `tlc -config <run>.cfg <module>`.

| Run | Module | Checks | Instance |
| --- | --- | --- | --- |
| `failures` | `MCCephMesos` | `TypeOK`, `ClusterBounded`, `PhaseHonest`, `OneIdPerTask` | 1 host, 2 OSDs, any 2 of launch/start failures, failed or lost executors |
| `delivery` | `MCCephMesos` | `ClusterBounded`, `PhaseHonest`, `OSDIdUnique`, `RegisterGoesToInitialMon`, `CrashNeedsLostMon`, `TokenUnique`, `GrantOnlyWhenComplete`, `ImplementsClusterService`, `ImplementsFlexUpService` | 1 host, 1 OSD and requests of 1 or 2 at any time, any 2 of repeated updates, lost messages, stopped containers, failed executors, small offers |
| `disks` | `MCCephMesos` | `OnlyFirstMonInitial`, `PartitionExclusive`, `DisksBeforeSystemDisk`, `OneTaskPerOffer` | 2 hosts, two offers per batch, an OSD disk and a journal disk of 2 partitions, 1 request, 1 fault of 5 kinds |
| `live` | `MCCephMesos` | `RequestsConserved`, `Bootstrapped`, `FlexUpServed` | fair; 1 host, 2 OSDs and 2 requested, 1 launch failure of an OSD or RADOSGW |
| `requests` | `MCFlexUp` | `TypeOK`, `ImplementsFlexUpService`, `EveryPostAnswered`, `InFlightDrains` | fair; 3 connections with any of 6 kinds of requests, a queue of 1, any leftover text, 1 kill |
| `executor` | `MCExecutorHost` | `TypeOK`, `ShutdownRemoves`, `NoFaultNoFailure`, `RunningHasContainer`, `DataCleared`, `ImplementsCephExecutor` | mon0, osd1 (with a disk) and osd10, the MON here or elsewhere, old data or none, the end of the run, any 2 of 6 kinds of faults |
| `host_setup` | `MCHostSetup` | `HostSettingsWin`, `PartitionsFit`, `ReportRead`, `MonInPublicNetwork` | three families of cases, see below; the default file is edited or removed once |
| `late_failure` | `MCCephMesos` | `Bootstrapped` is violated | fair; 3 OSDs, one fails after it got its id |
| `repeated_starting` | `MCCephMesos` | `OneIdPerTask` is violated | 3 OSDs, one repeated update |
| `failed_disk` | `MCCephMesos` | `FailedDiskUnused` is violated | 3 OSDs, one disk that cannot be prepared |
| `vector_race` | `PendingOSDVector` | `NoUnaskedOSD` is violated | 3 requests of 1 or 2 instances |
| `poll_forever` | `MCExecutorHost` | `HandlerReturns` is violated | fair; the same three executors, one docker run that fails |

The cases of `host_setup` are those of `MCHostSetup`: default files, host files and
command lines that give any of several sets of fields, with values that include the
ones taken for "not given"; two OSD disks and two journal disks of 1, 3, 4 or 7
partitions of which any may fail at any step, on hosts with a short or a qualified
name; and every network of two octets of two bits with every pair of addresses.

Bounds. `MaxFaults`, `MaxRequested` and `MaxToken` bound the behaviours, and
`Tokens` in `MCCephMesos` is chosen so that tokens never run out: one for every
task of the bootstrap, every fault and every request, plus the one that
`resourceOffers` takes before it finds no request. `OSDNum = 2` is enough for
two OSDs to be in different stages of their start while a third one might be
launched by mistake; the runs in which the number three itself matters use 3.
`delivery` has one OSD of the bootstrap and two that are requested, so that up to
three are in different stages while four kinds of faults and small offers meet.
One host is enough where tasks interact through the scheduler's counters only
(a host may run several tasks); `disks` has two, because a batch holds one
offer per host. Two faults let a failure meet the replacement of an earlier one.

`FlexUp`: three connections are two that compete for the last place in the queue
and one that is elsewhere; a queue of one message is full at once; `maxInstances`
is 2, so that both its sides and a request of several instances occur; after a
kill and a restart the queue holds a message of the process before.
`ExecutorHost`: two executors are enough for each pair of steps to interleave; the
third has a name that contains another one's. A RADOSGW takes the MON's steps and
the OSD's copying of files and is not an executor of its own there. Two faults
let a second `LAUNCH_OSD` meet a container that stopped or did not start; how often
an executor is sent `LAUNCH_OSD` has no bound in the proofs. One scheduler run may
stop (`MaxRun`). `DiskExecutor`: 3 and 7 do not divide 100.

Deadlock is checked in all runs of `MCCephMesos` except `delivery`, where the
scheduler may crash (see `CrashNeedsLostMon`) and everything stops. The other
modules describe work that ends: all requests made, all tasks launched, one
report, one configuration.

Fairness (`FairSpec`). Weak fairness for the thread that runs `resourceOffers`,
for executors and for disk executors: they are processes that Mesos and the
operating system schedule. Strong fairness for a good offer from each host, for
updates, `DISK_READY` and answers of the MON: each waits until the driver's
thread is idle, which happens again and again; Mesos offers free resources again
after the refusal timeout and repeats updates until acknowledged. A framework
message that is not lost is delivered. No fairness for faults or requests.

Fairness of `FlexUp`: weak for each connection's thread, the event loop's thread,
the driver's thread that takes instances (Mesos offers again and again) and for a
restart after a death; strong for `Send`, because boost's queue wakes a waiting
sender when there is room and another connection may be faster, which fills the
queue again only as often as there are connections. Fairness of `ExecutorHost`:
weak for each executor's handler and for docker; none for faults, Mesos, or the
scheduler.

What the runs show. Despite the lagging counters the cluster never exceeds its
bound and the phase never runs ahead, under every fault, including the repeated
`TASK_STARTING` that makes `osdStagingNum` wrong. Ids stay unique under every
fault although a task may get two of them. A MON whose container is gone answers
with an empty text, `lexical_cast` throws out of the callback and the scheduler ends;
`CrashNeedsLostMon` says that nothing else does that. A small offer may burn the
token 0 of the MONs, and `getInitialMon` then returns any task at all; but without a
mon0 no MON gets configuration files, no OSD is launched, and nobody is asked to
register one (`RegisterGoesToInitialMon`). Such a cluster never comes up.

The refinement runs show more than their parts. `ImplementsClusterService` relates
what is launched to what is known at that moment, over all interleavings, and
`ImplementsCephExecutor` justifies that `CephMesos` takes a handler of an executor
for one step: it sends exactly one update, at its end. Its early returns, the race
for the directory and the check after the poll are the abstract failures. What it
leaves out is what outlives a task: containers that come up late or are left
behind.

Where a property has a condition, the model has behaviours outside it, and the
property fails there. What the code does in them:

- `ShutdownRemoves`: the container of an executor that is killed when Mesos's grace
  period ends stays, and so does one that comes up after its executor took another
  container, whose name contains its own, for it (`CephExecutor.cpp:248`). So may the
  container of a second `LAUNCH_OSD`: its handler sees the first container and
  returns, and its own docker run, forked at `CephExecutor.cpp:451`, comes up after the
  `docker rm -f` of `shutdown` (`CephExecutor.cpp:496`).
- `NoFaultNoFailure`: on a host without the initial MON executors that start at
  once compete in `mkdir` (without `-p`, `CephExecutor.cpp:95`) and all but one fail.
- `DataCleared`: only the initial MON clears the directory of its host
  (`CephExecutor.cpp:561`); on other hosts executors go on with the data of an
  earlier run.
- `FlexUpServed`: an instance whose OSD fails is not made up for.
- `EveryPostAnswered`: for another URL the handler returns 404 as if it were a
  result code, and the connection never gets an answer. A request that comes before
  the event loop has created the queue, or one whose body is too long, ends the
  process (`CheckThrows`); one for a MON is answered `[success]` and dropped.
- `HostSettingsWin`: a host's file cannot say "no disks" or "4 partitions" when the
  default file says otherwise (`src/src/common/Config.cpp:163-167`).
- `ReportRead`: the names of two failed journal disks run together
  (`src/src/executor/DiskExecutor.cpp:185`), and a host whose name has a dot stays in
  preparation for ever, if the scheduler survives reading past the end of a vector
  (`src/src/scheduler/CephSchedulerAgent.hpp:227`).
- `MonInPublicNetwork`: of a netmask that ends inside an octet the last bits are not
  looked at (`src/src/common/StringUtil.hpp:60`).

## Findings

- `late_failure`: `updateCounters` (`src/src/state/StateMachine.cpp:94`) takes a
  failed task out of the staging counter only if its status is `STAGING`. An OSD
  that fails as `WAITING_OSDID` or `STARTING` keeps its place; the bootstrap
  waits for ever for an OSD that it does not launch.
- `repeated_starting`: `updateTaskToWaitingOSDID` overwrites any status, so a
  repeated `TASK_STARTING` makes `handleWaitingOSDTasks` assign a second id,
  which the comment at `src/src/scheduler/CephSchedulerAgent.hpp:489` rules out.
- `failed_disk`: the failed disks are parsed into a variable that hides the one
  passed on (`src/src/scheduler/CephSchedulerAgent.hpp:231-236`).
- `vector_race`: `pendingOSD` has no lock; torn updates grant OSDs nobody asked for
  (`src/src/scheduler/EventLoop.cpp:62`).
- `poll_forever`: `block_until_started` is to poll "until timeout"
  (`src/src/executor/CephExecutor.cpp:244`), but reads the clock once, before its loop
  (lines 242 and 247). When docker run ends without a container the handler never
  returns and `TASK_FAILED` is never sent.

## Proofs

Run `tlapm <module>.tla`. All theorems hold for every value of the constants: every
set of hosts, disks, executors and connections, every `OSDNum`, every choice of
offers, requests and faults. None uses a bound. They rest on the named assumptions
of the modules (`StateMachineAssumption`, `CephMesosAssumption`,
`ExecutorHostAssumption`, `HostSetupAssumption`, `FlexUpAssumption`), which say of
the constants what their comments say and which TLC evaluates in the runs; further
hypotheses are part of a theorem's statement and named here. What
`HostSetupAssumption` says of the files: every value given in one has a meaning, a
partition count is between 1 and 100, no disk is listed twice for a host, and a host
name is made of words and dots, so that it has no colon or comma of its own.

| Theorem | States | Module | Hypotheses |
| --- | --- | --- | --- |
| `TypeCorrect` | `TypeOK` | `CephMesosProofs` | |
| `OSDIdsUnique` | `OSDIdUnique` | `CephMesosProofs` | |
| `TokensUnique` | `TokenUnique` | `CephMesosProofs` | |
| `ClusterNeverTooBig` | `ClusterBounded` | `ClusterProofs` | |
| `PhaseAlwaysHonest` | `PhaseHonest` | `ClusterProofs` | |
| `GrantsOnlyWhenComplete` | `GrantOnlyWhenComplete` | `ClusterProofs` | |
| `PartitionsExclusive` | `PartitionExclusive` | `DiskProofs` | |
| `SystemDiskLast` | `DisksBeforeSystemDisk` | `DiskProofs` | |
| `OneTaskAnOffer` | `OneTaskPerOffer` | `DiskProofs` | |
| `InitialMonIsFirst` | `OnlyFirstMonInitial` | `MessageProofs` | |
| `RegisterReachesInitialMon` | `RegisterGoesToInitialMon` | `MessageProofs` | |
| `OnlyLostMonThrows` | `CrashNeedsLostMon` | `MessageProofs` | |
| `OneIdForEachTask` | `OneIdPerTask` | `MessageProofs` | no `repeatUpdate` in `Faults` |
| `ImplementsCluster` | `ImplementsClusterService` | `RefinementProofs` | |
| `RequestsNeverLost` | `RequestsConserved` | `RefinementProofs` | |
| `ImplementsFlexUp` | `ImplementsFlexUpService` of `CephMesos` | `RefinementProofs` | |
| `FlexUpTypeCorrect` | `TypeOK` of `FlexUp` | `FlexUpProofs` | |
| `ImplementsFlexUpPath` | `ImplementsFlexUpService` of `FlexUp` | `FlexUpProofs` | |
| `HostTypeCorrect` | `TypeOK` of `ExecutorHost` | `ExecutorHostProofs` | |
| `DataAlwaysCleared` | `DataCleared` | `ExecutorHostProofs` | |
| `RunningMeansContainer` | `RunningHasContainer` | `ExecutorHostProofs` | `DistinctNames` |
| `ShutdownLeavesNothing` | `ShutdownRemoves` | `ExecutorHostProofs` | `DistinctNames` |
| `NothingFailsByItself` | `NoFaultNoFailure` | `ExecutorHostProofs` | `DistinctNames`, `OneInitial` |
| `HandlersAreAtomic` | `ImplementsCephExecutor` | `ExecutorHostProofs` | `DistinctNames`, `DistinctTasks` |
| `HostSettingsAlwaysWin` | `HostSettingsWin` | `HostSetupProofs` | |
| `PartitionsAlwaysFit` | `PartitionsFit` | `HostSetupProofs` | |
| `ReportAlwaysRead` | `ReportRead` | `HostSetupProofs` | |
| `MonAlwaysInPublicNetwork` | `MonInPublicNetwork` | `HostSetupProofs` | |

What the hypotheses are, and why they are there:

- Without `repeatUpdate`: with it `OneIdPerTask` is false, as the run
  `repeated_starting` shows.
- `DistinctNames`, `DistinctTasks`: container names and task ids, made of type and
  token, are different. `TokensUnique` proves this of the tasks of one run; tasks of
  two runs that meet on a host may share both, and are left out here.
- `OneInitial`: a run has one initial task at most, by `InitialMonIsFirst`.

The arguments:

`CephMesosProofs`. `TypeOK` alone is not inductive: when `resourceOffers` finds no
request it decrements the OSD index, and that this undoes the increment of the same
step needs `PhaseSeenFresh`, the copy of the phase being up to date while offers are
gone through. That holds because callbacks do not overlap. For `OSDIdUnique` the
strengthening `IdsBelow` says that every id in any of the four places is below the
number of ids handed out, so a new one is different from all of them; each other step
moves one id from one place to the next or moves none. `TokenUnique` is inductive
given the types: a task gets the token its index stands at, and no step moves an
index backwards.

`ClusterProofs`. The core of `ClusterInv` is `CountInv`: the sum of the staging and
the running counter of a type covers the tasks not known as `FAILED` and keeps within
the bound, no running counter exceeds the tasks known as `RUNNING`, and the phase is
the one the running counters call for. The counters cannot be characterised one by
one: after a repeated `TASK_STARTING` a task that runs is still counted as staging,
and when it fails it is taken out of the running counter. Only the sum, and only as
an inequality, survives that. It needs `UpdateOrder`: `TASK_STARTING` is the first
update of a task and `TASK_FAILED` the last one, and a task known as failed is over;
without it a late update could bring a task back that has lost its place.

`DiskProofs`. `DiskInv` adds to the two properties `DisksSettled`: a host that runs a
task has no disk left to partition, so that its free partitions only become fewer.
The first offers of a host go to the disk executor, and a repeated report finds no
pending disks and adds nothing.

`MessageProofs`. `FlagHarmless` says that while `isInitialMonNode` is set the counters
already hold the first MON, so that `nextMove` refuses the other offers of the batch.
`RegisterInv` goes back from a MON that has started to mon0 (`FirstMonKnown`): a MON
starts as the initial one, which is mon0, or with files that a MON served which had
started before. With `CountInv` a MON is known to run before an OSD is launched, so
mon0 is in `taskMap` and `getInitialMon` finds it, whatever tokens were burnt.
`AnswerInv` says that an answer that is no number comes from a mon0 whose container
is gone, and that this container never comes back: only an OSD's docker run is
repeated. `IdOnce` says that a task with an id is past `WAITING_OSDID`, and that an
undelivered `TASK_STARTING` belongs to a task still known as `STAGING`, so that it
cannot go back there.

`RefinementProofs`. The initial states map to initial states, and each step to a
step of the abstract specification or to a stuttering step: `AcceptOffer` to a
launch, whose guard follows from `CountInv` and `PhaseSeenFresh`, an update to
`RUNNING` or `FAILED`, the end of an executor to the end of a daemon. `QueueInv`
says what is left in `pendingOSD` with a witness, the sums of its tails, which
`processData` and `fetchPendingRESTfulRequest` change element by element.

`FlexUpProofs`. What is in flight is a sum over the vector and the queue. Its
properties (it grows with an append, shrinks with a removal) are proved by induction
over the length, which the provers cannot instantiate from the library's induction
rule; `LeastElement` gets it from the well-foundedness of the natural numbers and
the set of lengths for which the claim fails. `FlexInv` says that what is in the
queue and in the buffer was accepted, and that the buffer holds a message only while
it is processed.

`ExecutorHostProofs`. `HostInv` says what has been sent, by where an executor is
(`Order`), and that a container has the name of the executor whose `docker run` is
attached to it (`ContainerOwned`). `Seen`: an executor between handlers that forked
`docker run` once has seen it succeed or end, so that `shutdown` leaves nothing that
could still start. `CalmInv`: as long as nothing fails, the initial MON makes the directory
before any other task looks for it, and its container fills it before any other task
is launched. For the refinement, `Told` says which update is the last one that Mesos
forwards, and `Life` what the updates and the `docker run` of an executor have to do
with where it is: an OSD has forked `docker run` for some of the `LAUNCH_OSD` it was
sent and has answered all of these but the one it is at, every other task forks once,
and a task that runs on a single `docker run` has none that could still start. So the
container of a running task comes back only after two `LAUNCH_OSD`. Each step that
sends an update is then the one-step handler, or is not forwarded because the task is
over, and every other one stutters, except that `LAUNCH_OSD` is sent and containers
stop and come back.

`HostSetupProofs`. The merges are followed field by field; `PartitionsFit` comes down
to `n * (100 \div n) <= 100` and to the partitions made so far being those of a prefix.

For `ReportRead`, `ReportInv` says at every step of the disk executor that the lists
of failed disks hold, each once, exactly the disks tried so far that have fewer file
systems than they should (`Progress`), and that the message is the text of these
lists once the last disk is done. That needs the assumption that no disk is listed
twice: a disk that fails the first time and is prepared the second time would be
reported although it is usable. The rest is about texts. `explode` is defined by
positions: a token begins at the first position and after each delimiter. `Exploded`
says that a text cut at increasing positions with delimiters there and nowhere else
has exactly these tokens, because the n-th beginning is the one with n beginnings up
to it; `TwoTokens` and `EvenTokens` are the two shapes that occur, one delimiter and
one at every w-th position. `ReadBack` puts them together: splitting at dots, colon
and commas undoes `prepareReturnValue`.

For `MonInPublicNetwork`, `IpsTokens` and `AddressNumbers` say that splitting the
output of `hostname -I`, an address and a CIDR gives back the addresses, octets and
netmask, so that `matchIPToCIDR` compares the first octets (`MatchIs`). The property
compares numbers, the octets as digits to the base `2^OctetBits` shifted right.
Dropping the last octet is a division by the base (`DropOctets`), and two numbers
of k digits are equal only if all digits are (`SameOctets`), so both comparisons agree
(`InNetworkIs`). Powers of two and the number of an address are recursive functions:
`HornerExists` and `HornerUnique` show that their recursion has one solution, and
`InductionUpTo` is the induction rule for what they compute, with the set of values
for which the claim holds in the place of an operator.

TLC checked each inductive invariant, or the parts of it that are new, before it was
proved.

Only model-checked:

- liveness under fairness, which is outside the prover's reach: `Bootstrapped`,
  `FlexUpServed`, `EveryPostAnswered`, `InFlightDrains`;
- the five runs that expect a violation.

Every invariant, action property and refinement that a passing run checks is stated
by a theorem.

## Not modelled

- A restart of the scheduler inside `CephMesos`: nothing of its state is persisted,
  so a new run starts from `Init`. Where runs do meet, `FlexUp` has the queue with
  the messages of the process before, and `ExecutorHost` the directory of the run
  before and the end of a run, but not the executors of two runs at once.
- What `FlexUp` leaves out: the inside of boost's queue (a process killed while it
  holds the queue's mutex), bodies that arrive in several pieces, the process going
  on with its REST server when the driver has stopped.
- What `ExecutorHost` leaves out: downloading the image, `parseHostConfig` (the
  labels are there), `REGISTER_OSD` (it is in `CephExecutor`), a file that is
  fetched while it is being copied.
- `launchTask` of the disk executor without labels, which the scheduler never sends.
- The lists of failed disks in `HostConfig`, which nothing reads, and `reload`,
  which is empty.
- `NetUtil`, `CurlHttp`, the HTTP handling of `FileServer`, YAML and JSON parsing,
  the creation of the driver in `framework`: I/O and libraries.

## Plan

1. Done: the framework (`CephMesos`), its parts in detail (`FlexUp`,
   `PendingOSDVector`, `ExecutorHost`, `HostSetup`),
   the abstract specifications and the refinements, model-checked.
2. Done: proofs of every safety property that the passing runs check, of the four
   refinements, and of what the text functions compute.
3. Left: executors of two runs on a host at once, which share container names.
