------------------------------ MODULE CephMesos -----------------------------
(***************************************************************************)
(* The framework as a whole: the scheduler, the executors of the tasks it  *)
(* launched, and a Mesos cluster in between that makes offers, delivers    *)
(* updates and messages, and may fail in the ways listed in Faults, at     *)
(* most MaxFaults times.                                                   *)
(***************************************************************************)
EXTENDS CephSchedulerAgent, CephExecutor

CONSTANTS
  Batches,       \* the batches of offers that the master may send
  Instances,     \* the instance counts of flex-up requests
  Faults,        \* the kinds of faults that happen
  FaultyType,    \* the types of task they happen to
  MaxFaults,     \* bound: how many faults happen
  MaxToken,      \* bound: tokens handed out per task type
  MaxRequested   \* bound: OSD instances asked for in all

FaultKind == {"launchFails",    \* launchTask ends with TASK_FAILED
              "startFails",     \* LAUNCH_OSD ends with TASK_FAILED
              "executorFails",  \* an executor dies, reported as TASK_FAILED
              "executorLost",   \* an executor dies, reported as TASK_LOST
              "containerDies",  \* a container stops, its executor does not
              "repeatUpdate",   \* a status update is delivered once more
              "loseMessage",    \* a framework message is lost
              "diskDies",       \* a disk executor dies
              "badDisk"}        \* a disk cannot be partitioned

ASSUME CephMesosAssumption ==
  /\ Batches \subseteq Seq(Offer) \ {<< >>}
  /\ Instances \subseteq Nat \ {0}
  /\ Faults \subseteq FaultKind
  /\ FaultyType \subseteq TaskType
  /\ MaxFaults \in Nat
  /\ MaxToken \in [TaskType -> Nat]
  /\ MaxRequested \in Nat

VARIABLES
  faults,    \* how many faults have happened
  requested  \* how many OSD instances have been asked for

vars == <<schedulerVars, execVars, faults, requested>>

Init ==
  /\ StateMachineInit
  /\ MesosInit
  /\ AgentInit
  /\ osdCreated = 0
  /\ faults = 0
  /\ requested = 0

TypeOK ==
  /\ StateMachineTypeOK
  /\ MesosTypeOK
  /\ AgentTypeOK
  /\ osdCreated \in Nat
  /\ faults \in Nat
  /\ requested \in Nat

-----------------------------------------------------------------------------
(* What Mesos and the event loop's thread make the scheduler do.           *)

smallOffers(batch) ==
  {i \in DOMAIN batch : batch[i].role /\ ~ batch[i].enough}

(* Offers arrive.  Those with our role could take a token each.            *)
ReceiveOffers(batch) ==
  /\ faults' = faults + Cardinality(smallOffers(batch))
  /\ faults' <= MaxFaults
  /\ (\E i \in DOMAIN batch : batch[i].role) =>
       index[nextMoveType] + Len(batch) <= MaxToken[nextMoveType]
  /\ resourceOffers(batch)
  /\ UNCHANGED <<osdCreated, requested>>

(* One more step of resourceOffers.                                        *)
AgentStep ==
  /\ \/ \E t \in DOMAIN taskMap : AssignOSDID(t)
     \/ AssignDone
     \/ DeclineWrongRole
     \/ DeclineNotNow
     \/ DeclineNotEnough
     \/ DeclineNoRequest
     \/ AcceptOffer
  /\ UNCHANGED <<osdCreated, faults, requested>>

DeliverUpdate(t) ==
  /\ updates[t] # << >>
  /\ statusUpdate(t, Head(updates[t]))
  /\ updates' = [updates EXCEPT ![t] = Tail(@)]
  /\ UNCHANGED <<node, toMon, fromMon, toOSD, disk, osdCreated, faults,
                 requested>>

DeliverDiskReady(h) ==
  /\ disk[h].st = "finished"
  /\ statusUpdateDiskReady(h)
  /\ disk' = [disk EXCEPT ![h].st = "acked"]
  /\ UNCHANGED <<node, updates, toMon, fromMon, toOSD, osdCreated, faults,
                 requested>>

DeliverAnswer(m) ==
  /\ frameworkMessage(m)
  /\ fromMon' = fromMon \ {m}
  /\ UNCHANGED <<node, updates, toMon, toOSD, disk, osdCreated, faults,
                 requested>>

ReceiveRequest(n) ==
  /\ pc # "crashed"
  /\ requested + n <= MaxRequested
  /\ requested' = requested + n
  /\ processData(n)
  /\ UNCHANGED <<osdCreated, faults>>

-----------------------------------------------------------------------------
(* The executors when nothing goes wrong with them.                        *)

FetchFailure == {"TASK_FAILED"} \cup
                  (IF "executorLost" \in Faults THEN {"TASK_LOST"} ELSE {})

LaunchTask(t) ==
  /\ \/ LaunchTaskOSD(t)
     \/ LaunchTaskDaemon(t)
     \/ \E u \in FetchFailure : FetchFails(t, u)
  /\ UNCHANGED <<schedulerVars, faults, requested>>

HandleRegisterOSD ==
  /\ RegisterOSD
  /\ UNCHANGED <<schedulerVars, faults, requested>>

HandleLaunchOSD(m) ==
  /\ LaunchOSD(m)
  /\ UNCHANGED <<schedulerVars, faults, requested>>

PrepareDisks(h) ==
  /\ DiskLaunchTask(h, {})
  /\ UNCHANGED <<schedulerVars, faults, requested>>

-----------------------------------------------------------------------------
(* Faults.                                                                 *)

Fault(kind) ==
  /\ kind \in Faults
  /\ faults < MaxFaults
  /\ faults' = faults + 1

LaunchFails(t) ==
  /\ t.type \in FaultyType
  /\ Fault("launchFails")
  /\ LaunchTaskFails(t)
  /\ UNCHANGED <<schedulerVars, requested>>

StartFails(m) ==
  /\ Fault("startFails")
  /\ LaunchOSDFails(m)
  /\ UNCHANGED <<schedulerVars, requested>>

ExecutorDies(t) ==
  /\ t.type \in FaultyType
  /\ node[t].st # "dead"
  /\ SetState(t, "dead")
  /\ \/ Fault("executorFails") /\ sendStatusUpdate(t, "TASK_FAILED")
     \/ Fault("executorLost")  /\ sendStatusUpdate(t, "TASK_LOST")
  /\ UNCHANGED <<schedulerVars, toMon, fromMon, toOSD, disk, osdCreated,
                 requested>>

(* The OSD ids that a task was given.                                      *)
idsOf(t) == node[t].ids \cup {m.id : m \in {n \in toOSD : n.to = t}}

ContainerDies(t) ==
  /\ t.type \in FaultyType
  /\ Fault("containerDies")
  /\ node[t].st = "up"
  /\ SetState(t, "zombie")
  /\ UNCHANGED <<schedulerVars, updates, toMon, fromMon, toOSD, disk,
                 osdCreated, requested>>

(* The docker run that a second LAUNCH_OSD forked gets the name once the    *)
(* container of the first one is gone; no handler waits for that.          *)
ContainerReturns(t) ==
  /\ t.type = "OSD"
  /\ Cardinality(idsOf(t)) > 1
  /\ node[t].st = "zombie"
  /\ SetState(t, "up")
  /\ UNCHANGED <<schedulerVars, updates, toMon, fromMon, toOSD, disk,
                 osdCreated, faults, requested>>

RepeatUpdate(t) ==
  /\ Fault("repeatUpdate")
  /\ updates[t] # << >>
  /\ statusUpdate(t, Head(updates[t]))
  /\ UNCHANGED <<execVars, requested>>

RepeatDiskReady(h) ==
  /\ Fault("repeatUpdate")
  /\ disk[h].st = "finished"
  /\ statusUpdateDiskReady(h)
  /\ UNCHANGED <<execVars, requested>>

LoseMessage ==
  /\ Fault("loseMessage")
  /\ \/ /\ toMon # << >>
        /\ toMon' = Tail(toMon)
        /\ UNCHANGED <<fromMon, toOSD>>
     \/ /\ \E m \in fromMon : fromMon' = fromMon \ {m}
        /\ UNCHANGED <<toMon, toOSD>>
     \/ /\ \E m \in toOSD : toOSD' = toOSD \ {m}
        /\ UNCHANGED <<toMon, fromMon>>
  /\ UNCHANGED <<schedulerVars, node, updates, disk, osdCreated, requested>>

(* The update that Mesos sends for it names no task of taskMap: statusUpdate*)
(* ignores it.                                                             *)
DiskDies(h) ==
  /\ Fault("diskDies")
  /\ disk[h].st = "launched"
  /\ disk' = [disk EXCEPT ![h].st = "dead"]
  /\ UNCHANGED <<schedulerVars, node, updates, toMon, fromMon, toOSD,
                 osdCreated, requested>>

BadDisk(h, d) ==
  /\ Fault("badDisk")
  /\ DiskLaunchTask(h, {d})
  /\ UNCHANGED <<schedulerVars, requested>>

-----------------------------------------------------------------------------
(* The specification.                                                      *)

Next ==
  \/ \E batch \in Batches : ReceiveOffers(batch)
  \/ AgentStep
  \/ \E t \in DOMAIN node : \/ DeliverUpdate(t)
                            \/ LaunchTask(t)
                            \/ LaunchFails(t)
                            \/ ExecutorDies(t)
                            \/ ContainerDies(t)
                            \/ ContainerReturns(t)
                            \/ RepeatUpdate(t)
  \/ \E h \in Host : \/ DeliverDiskReady(h)
                     \/ PrepareDisks(h)
                     \/ RepeatDiskReady(h)
                     \/ DiskDies(h)
                     \/ \E d \in OSDDevs[h] \cup JNLDevs[h] : BadDisk(h, d)
  \/ \E m \in fromMon : DeliverAnswer(m)
  \/ \E m \in toOSD : HandleLaunchOSD(m) \/ StartFails(m)
  \/ HandleRegisterOSD
  \/ LoseMessage
  \/ \E n \in Instances : ReceiveRequest(n)

Spec == Init /\ [][Next]_vars

(* The driver's thread goes on with a callback it has begun; the executors *)
(* and their slaves do what they were asked to.  The master offers the     *)
(* resources of a slave again and again, because a declined offer comes    *)
(* back after the refusal timeout, and an update or a message that is not  *)
(* lost is delivered between two batches of offers: strong fairness, since *)
(* the thread is busy every now and then.                                  *)
Fairness ==
  /\ WF_vars(AgentStep)
  /\ \A h \in Host :
       SF_vars(ReceiveOffers(<<[host |-> h, role |-> TRUE, enough |-> TRUE]>>))
  /\ SF_vars(\E t \in DOMAIN node : DeliverUpdate(t))
  /\ SF_vars(\E h \in Host : DeliverDiskReady(h))
  /\ SF_vars(\E m \in fromMon : DeliverAnswer(m))
  /\ WF_vars(\E t \in DOMAIN node : LaunchTask(t))
  /\ WF_vars(HandleRegisterOSD)
  /\ WF_vars(\E m \in toOSD : HandleLaunchOSD(m))
  /\ WF_vars(\E h \in Host : PrepareDisks(h))

FairSpec == Spec /\ Fairness

-----------------------------------------------------------------------------
(* Safety.                                                                 *)

Tasks(ty) == {t \in DOMAIN taskMap : t.type = ty}
Running(ty) == {t \in Tasks(ty) : taskMap[t] = "RUNNING"}
Alive(ty) == {t \in Tasks(ty) : node[t].st # "dead"}

(* The cluster never grows past what was asked for: at any time at most    *)
(* one MON, one RADOSGW and OSDNum OSDs plus one per granted flex-up        *)
(* instance are launched and not dead, although nextMove sees only its     *)
(* counters, which lag behind the executors.                               *)
ClusterBounded ==
  /\ Cardinality(Alive("MON")) <= 1
  /\ Cardinality(Alive("RADOSGW")) <= 1
  /\ Cardinality(Alive("OSD")) <= OSDNum + granted

(* The phase never runs ahead of the tasks: past BOOTSTRAP_MON a MON is    *)
(* RUNNING in taskMap, past BOOTSTRAP_OSD OSDNum OSDs are too, and in      *)
(* WAINTING_REQUEST a RADOSGW is as well.                                  *)
PhaseHonest ==
  /\ currentPhase # "BOOTSTRAP_MON" => Cardinality(Running("MON")) >= 1
  /\ currentPhase \in {"BOOTSTRAP_RADOSGW", "WAINTING_REQUEST"}
       => Cardinality(Running("OSD")) >= OSDNum
  /\ currentPhase = "WAINTING_REQUEST"
       => Cardinality(Running("RADOSGW")) >= 1

(* An OSD id that "ceph osd create" handed out is in one place only: in an *)
(* answer of the MON, in pendingOSDID, in a LAUNCH_OSD message or with one *)
(* executor.  No two OSDs ever run under the same id.                      *)
OSDIdUnique ==
  /\ \A m \in fromMon, n \in fromMon :
       m.id = n.id /\ m.id # Garbage => m = n
  /\ \A i \in 1 .. Len(pendingOSDID), j \in 1 .. Len(pendingOSDID) :
       pendingOSDID[i] = pendingOSDID[j] => i = j
  /\ \A m \in toOSD, n \in toOSD : m.id = n.id => m = n
  /\ \A t \in DOMAIN node, u \in DOMAIN node :
       node[t].ids \cap node[u].ids # {} => t = u
  /\ \A m \in fromMon, i \in 1 .. Len(pendingOSDID) : m.id # pendingOSDID[i]
  /\ \A m \in fromMon, n \in toOSD : m.id # n.id
  /\ \A m \in fromMon, t \in DOMAIN node : m.id \notin node[t].ids
  /\ \A n \in toOSD, i \in 1 .. Len(pendingOSDID) : n.id # pendingOSDID[i]
  /\ \A n \in toOSD, t \in DOMAIN node : n.id \notin node[t].ids
  /\ \A t \in DOMAIN node, i \in 1 .. Len(pendingOSDID) :
       pendingOSDID[i] \notin node[t].ids

(* handleWaitingOSDTasks gives a task one OSD id: the task counts as       *)
(* STARTING from then on and is not given a second one.                    *)
OneIdPerTask ==
  \A t \in DOMAIN node : Cardinality(idsOf(t)) <= 1

(* Tokens, which name containers and task ids, are not used twice, even    *)
(* though decreaseOSDIndex gives one back in WAINTING_REQUEST.             *)
TokenUnique ==
  \A t \in DOMAIN taskMap :
    /\ t.token < index[t.type]
    /\ \A u \in DOMAIN taskMap : t.type = u.type /\ t.token = u.token => t = u

(* Only the first MON is launched as the initial one, although             *)
(* isInitialMonNode stays set for the rest of its batch: an initial task   *)
(* wipes the configuration directory of its host.                          *)
OnlyFirstMonInitial ==
  \A t \in DOMAIN node : node[t].initial = 1 <=> t.type = "MON" /\ t.token = 0

(* REGISTER_OSD is only ever sent to the first MON, and only once that one *)
(* has started.  When a small offer has burnt token 0, getInitialMon meets *)
(* any task; but then no MON is the initial one, none gets configuration   *)
(* files and no OSD is ever launched to be registered.                     *)
RegisterGoesToInitialMon ==
  \A i \in 1 .. Len(toMon) :
    /\ toMon[i].type = "MON" /\ toMon[i].token = 0
    /\ toMon[i] \in DOMAIN node
    /\ node[toMon[i]].st # "launched"

(* Requests are conserved: what was asked for is what was granted plus     *)
(* what fetchPendingRESTfulRequest has left in the queue.  left[i] is what *)
(* the requests from the i-th on still ask for.                            *)
RequestsConserved ==
  \E left \in [1 .. Len(pendingOSD) + 1 -> 0 .. requested] :
    /\ left[Len(pendingOSD) + 1] = 0
    /\ \A i \in 1 .. Len(pendingOSD) : left[i] = pendingOSD[i] + left[i + 1]
    /\ requested = granted + left[1]

(* lexical_cast throws out of frameworkMessage, which ends the scheduler,  *)
(* only when the container of the first MON is gone.  Every other answer   *)
(* that it takes is a number, whoever else was asked or answers late.      *)
CrashNeedsLostMon ==
  pc = "crashed" =>
    \E t \in Tasks("MON") : t.token = 0 /\ node[t].st \in {"zombie", "dead"}

(* The partitions an OSD was given on a host and those the host has left   *)
(* are all different ones.                                                 *)
PartitionExclusive ==
  \A t \in Tasks("OSD") :
    /\ node[t].osddisk \notin hostConfigMap[t.host].osdPartitions
    /\ node[t].jnldisk \notin hostConfigMap[t.host].jnlPartitions
    /\ \A u \in Tasks("OSD") \ {t} :
         t.host = u.host =>
           /\ node[t].osddisk = node[u].osddisk => node[t].osddisk = SystemDisk
           /\ node[t].jnldisk = node[u].jnldisk => node[t].jnldisk = SystemDisk

(* On a host with OSD disks configured, no OSD lands on the system disk    *)
(* while a disk still waits to be partitioned or a partition is free.      *)
DisksBeforeSystemDisk ==
  \A t \in Tasks("OSD") :
    /\ node[t].osddisk = SystemDisk =>
         /\ hostConfigMap[t.host].osdPartitions = {}
         /\ hostConfigMap[t.host].pendingOSDDevs = {}
    /\ node[t].jnldisk = SystemDisk =>
         /\ hostConfigMap[t.host].jnlPartitions = {}
         /\ hostConfigMap[t.host].pendingJNLDevs = {}

(* No OSD is given a disk that the disk executor reported as failed.       *)
FailedDiskUnused ==
  \A t \in Tasks("OSD") : \A d \in disk[t.host].bad :
    /\ node[t].osddisk # <<d, 1>>
    /\ \A n \in 1 .. JnlParts[t.host] : node[t].jnldisk # <<d, n>>

-----------------------------------------------------------------------------
(* Action properties.                                                      *)

(* One offer launches one task: the disk executor and a Ceph task are      *)
(* never launched in the same round of resourceOffers.                     *)
OneTaskPerOffer == [][disk' = disk \/ DOMAIN node' = DOMAIN node]_vars

(* A flex-up instance is granted only to a complete cluster, whatever has  *)
(* failed since the bootstrap.                                             *)
GrantOnlyWhenComplete ==
  [][granted' # granted => /\ Cardinality(Running("MON")) >= 1
                           /\ Cardinality(Running("OSD")) >= OSDNum
                           /\ Cardinality(Running("RADOSGW")) >= 1]_vars

-----------------------------------------------------------------------------
(* Liveness, under FairSpec.                                               *)

Up(ty) == {t \in DOMAIN node : t.type = ty /\ node[t].st = "up"}

(* The cluster comes up: one MON, OSDNum OSDs and one RADOSGW are running, *)
(* the scheduler knows it, and serves flex-up requests.                    *)
Bootstrapped ==
  <>(/\ currentPhase = "WAINTING_REQUEST"
     /\ Cardinality(Up("MON")) >= 1
     /\ Cardinality(Up("OSD")) >= OSDNum
     /\ Cardinality(Up("RADOSGW")) >= 1)

(* Every OSD instance that was asked for ends up running: without faults   *)
(* exactly those, and a launch that fails costs one instance at most.      *)
FlexUpServed ==
  <>[](LET missing == OSDNum + requested - Cardinality(Up("OSD"))
       IN  missing \in 0 .. faults)
=============================================================================
