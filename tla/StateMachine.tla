---------------------------- MODULE StateMachine ----------------------------
(***************************************************************************)
(* The scheduler's memory: the classes StateMachine, TaskState and         *)
(* HostConfig of src/src/state/.  It is volatile: nothing is persisted.    *)
(*                                                                         *)
(* The four methods updateTaskTo<Status> and addStagingTask are actions on *)
(* the variables of this module; nextMove, the index updates and the       *)
(* methods of HostConfig are operators, because the scheduler's callbacks  *)
(* (module CephSchedulerAgent) chain several of them in one step.          *)
(*                                                                         *)
(* A definition named <Name>_<what> is a plausible mistake in <Name>: TLC  *)
(* shows that the properties notice it.  No specification uses it.         *)
(***************************************************************************)
EXTENDS Integers, Sequences, FiniteSets

CONSTANTS Host,     \* the host names of the Mesos slaves
          Dev,      \* names of raw disks
          OSDDevs,  \* OSDDevs[h]: the osddevs of h's merged configuration
          JNLDevs,  \* JNLDevs[h]: the jnldevs of h's merged configuration
          JnlParts, \* JnlParts[h]: the jnlparts of h's merged configuration
          OSDNum    \* the OSDs of a bootstrapped cluster: 3 in the code

ASSUME StateMachineAssumption ==
  /\ OSDDevs \in [Host -> SUBSET Dev]
  /\ JNLDevs \in [Host -> SUBSET Dev]
  /\ JnlParts \in [Host -> Nat]
  /\ OSDNum \in Nat \ {0}

VARIABLES
  taskMap,       \* task id -> currentStatus, for every task ever staged
  stagingNum,    \* monStagingNum, osdStagingNum, radosgwStagingNum
  runningNum,    \* monRunningNum, osdRunningNum, radosgwRunningNum
  index,         \* monIndex, osdIndex, radosgwIndex: the next token
  currentPhase,
  pendingOSDID,  \* OSD ids received from the initial MON and not yet assigned
  hostConfigMap  \* host -> HostConfig, for every host that sent an offer

smVars == <<taskMap, stagingNum, runningNum, index, currentPhase,
            pendingOSDID, hostConfigMap>>

-----------------------------------------------------------------------------
(* Data.  FINISHED, UNKNOWN and RECONCILING_TASKS are never assigned.      *)

TaskType == {"MON", "OSD", "RADOSGW"}

Status == {"STAGING", "WAITING_OSDID", "STARTING", "RUNNING", "FAILED"}

Phase == {"BOOTSTRAP_MON", "BOOTSTRAP_OSD", "BOOTSTRAP_RADOSGW",
          "WAINTING_REQUEST"}

(* A task id is the string <type><token>.<host>.<slave>; a host runs one   *)
(* slave.  The executor id, <name>.<type>.<token>.<time>, goes with it.    *)
TaskID == [type : TaskType, token : Nat, host : Host]

(* The TaskState a default constructor leaves: no host, no executor.       *)
NoTask == [type |-> "NONE", token |-> -1, host |-> "NONE"]

(* Partition n of disk d; the empty string stands for the system disk.     *)
Partition == Dev \X Nat
SystemDisk == << >>

HostConfig == [preparing      : BOOLEAN,
               pendingOSDDevs : SUBSET Dev,
               pendingJNLDevs : SUBSET Dev,
               osdPartitions  : SUBSET Partition,
               jnlPartitions  : SUBSET Partition]

StateMachineTypeOK ==
  /\ DOMAIN taskMap \subseteq TaskID
  /\ taskMap \in [DOMAIN taskMap -> Status]
  /\ stagingNum \in [TaskType -> Int]
  /\ runningNum \in [TaskType -> Int]
  /\ index \in [TaskType -> Nat]
  /\ currentPhase \in Phase
  /\ pendingOSDID \in Seq(Nat)
  /\ DOMAIN hostConfigMap \subseteq Host
  /\ hostConfigMap \in [DOMAIN hostConfigMap -> HostConfig]

(* The function f with x mapped to v, as map[x] = v does.                  *)
Put(f, x, v) == [y \in DOMAIN f \cup {x} |-> IF y = x THEN v ELSE f[y]]

StateMachineInit ==
  /\ taskMap = [t \in {} |-> "STAGING"]
  /\ stagingNum = [ty \in TaskType |-> 0]
  /\ runningNum = [ty \in TaskType |-> 0]
  /\ index = [ty \in TaskType |-> 0]
  /\ currentPhase = "BOOTSTRAP_MON"
  /\ pendingOSDID = << >>
  /\ hostConfigMap = [h \in {} |-> FALSE]

-----------------------------------------------------------------------------
(* Task life cycle.                                                        *)

addStagingTask_notInMap(t) ==
  /\ UNCHANGED taskMap
  /\ stagingNum' = [stagingNum EXCEPT ![t.type] = @ + 1]

(* A newly launched task enters the map as STAGING.                        *)
addStagingTask(t) ==
  /\ taskMap' = Put(taskMap, t, "STAGING")
  /\ stagingNum' = [stagingNum EXCEPT ![t.type] = @ + 1]

updateCounters_noAbort(ty, old, new) ==
  LET started == old \in {"STAGING", "STARTING"} /\ new = "RUNNING"
      stopped == old = "RUNNING" /\ new = "FAILED"
  IN  /\ stagingNum' = IF started THEN [stagingNum EXCEPT ![ty] = @ - 1]
                                  ELSE stagingNum
      /\ runningNum' = IF started THEN [runningNum EXCEPT ![ty] = @ + 1]
                       ELSE IF stopped THEN [runningNum EXCEPT ![ty] = @ - 1]
                       ELSE runningNum

updateCounters_noStop(ty, old, new) ==
  LET started == old \in {"STAGING", "STARTING"} /\ new = "RUNNING"
      aborted == old = "STAGING" /\ new = "FAILED"
  IN  /\ stagingNum' = IF started \/ aborted
                         THEN [stagingNum EXCEPT ![ty] = @ - 1]
                         ELSE stagingNum
      /\ runningNum' = IF started THEN [runningNum EXCEPT ![ty] = @ + 1]
                                  ELSE runningNum

updateCounters_failedTwice(ty, old, new) ==
  LET started == old \in {"STAGING", "STARTING"} /\ new = "RUNNING"
      aborted == old # "RUNNING" /\ new = "FAILED"
      stopped == old = "RUNNING" /\ new = "FAILED"
  IN  /\ stagingNum' = IF started \/ aborted
                         THEN [stagingNum EXCEPT ![ty] = @ - 1]
                         ELSE stagingNum
      /\ runningNum' = IF started
                         THEN [runningNum EXCEPT ![ty] = @ + 1]
                         ELSE IF stopped
                                THEN [runningNum EXCEPT ![ty] = @ - 1]
                                ELSE runningNum

updateCounters_anyOld(ty, old, new) ==
  /\ stagingNum' = IF new = "RUNNING"
                     THEN [stagingNum EXCEPT ![ty] = @ - 1] ELSE stagingNum
  /\ runningNum' = IF new = "RUNNING"
                     THEN [runningNum EXCEPT ![ty] = @ + 1] ELSE runningNum

(* The counters follow only the transitions STAGING/STARTING -> RUNNING,   *)
(* STAGING -> FAILED and RUNNING -> FAILED; every other one leaves them.   *)
updateCounters(ty, old, new) ==
  LET started == old \in {"STAGING", "STARTING"} /\ new = "RUNNING"
      aborted == old = "STAGING" /\ new = "FAILED"
      stopped == old = "RUNNING" /\ new = "FAILED"
  IN  /\ stagingNum' = IF started \/ aborted
                         THEN [stagingNum EXCEPT ![ty] = @ - 1]
                         ELSE stagingNum
      /\ runningNum' = IF started
                         THEN [runningNum EXCEPT ![ty] = @ + 1]
                         ELSE IF stopped
                                THEN [runningNum EXCEPT ![ty] = @ - 1]
                                ELSE runningNum

(* The phase the running counters call for: 1 MON, then OSDNum OSDs, then 1 *)
(* RADOSGW, then REST requests.                                            *)
PhaseFor(run) ==
  IF run["MON"] < 1 THEN "BOOTSTRAP_MON"
  ELSE IF run["OSD"] < OSDNum THEN "BOOTSTRAP_OSD"
  ELSE IF run["RADOSGW"] < 1 THEN "BOOTSTRAP_RADOSGW"
  ELSE "WAINTING_REQUEST"

(* Recompute the phase from the counters that were just updated.           *)
moveState == currentPhase' = PhaseFor(runningNum')

updateTaskToRunning(t) ==
  /\ updateCounters(t.type, taskMap[t], "RUNNING")
  /\ taskMap' = [taskMap EXCEPT ![t] = "RUNNING"]
  /\ moveState
  /\ UNCHANGED <<index, pendingOSDID, hostConfigMap>>

updateTaskToWaitingOSDID(t) ==
  /\ updateCounters(t.type, taskMap[t], "WAITING_OSDID")
  /\ taskMap' = [taskMap EXCEPT ![t] = "WAITING_OSDID"]
  /\ UNCHANGED <<index, currentPhase, pendingOSDID, hostConfigMap>>

updateTaskToStarting_keepsStatus(t) ==
  /\ updateCounters(t.type, taskMap[t], "STARTING")
  /\ UNCHANGED <<taskMap, index, currentPhase, hostConfigMap>>

(* Called while an OSD id is popped: pendingOSDID is the caller's.         *)
updateTaskToStarting(t) ==
  /\ updateCounters(t.type, taskMap[t], "STARTING")
  /\ taskMap' = [taskMap EXCEPT ![t] = "STARTING"]
  /\ UNCHANGED <<index, currentPhase, hostConfigMap>>

updateTaskToFailed_noMove(t) ==
  /\ updateCounters(t.type, taskMap[t], "FAILED")
  /\ taskMap' = [taskMap EXCEPT ![t] = "FAILED"]
  /\ UNCHANGED <<index, currentPhase, pendingOSDID, hostConfigMap>>

updateTaskToFailed(t) ==
  /\ updateCounters(t.type, taskMap[t], "FAILED")
  /\ taskMap' = [taskMap EXCEPT ![t] = "FAILED"]
  /\ moveState
  /\ UNCHANGED <<index, pendingOSDID, hostConfigMap>>

getInitialMon_anyTask ==
  IF DOMAIN taskMap = {} THEN {NoTask} ELSE DOMAIN taskMap

(* The tasks getInitialMon can return: the one named "mon0" or, when there *)
(* is none, the entry the iteration over the hash map happened to end on,  *)
(* or the default TaskState when the map is empty.                         *)
getInitialMon ==
  LET mon0 == {t \in DOMAIN taskMap : t.type = "MON" /\ t.token = 0}
  IN  IF mon0 # {} THEN mon0
      ELSE IF DOMAIN taskMap = {} THEN {NoTask}
      ELSE DOMAIN taskMap

getWaitingOSDTask ==
  {t \in DOMAIN taskMap : t.type = "OSD" /\ taskMap[t] = "WAITING_OSDID"}

addPendingOSDID(id) == pendingOSDID' = Append(pendingOSDID, id)

-----------------------------------------------------------------------------
(* What to launch next.                                                    *)

(* The task type that the current phase launches.                          *)
nextMoveType ==
  IF currentPhase = "BOOTSTRAP_MON" THEN "MON"
  ELSE IF currentPhase = "BOOTSTRAP_RADOSGW" THEN "RADOSGW"
  ELSE "OSD"

nextMove_stagingOnly(hc) ==
  /\ ~ hc.preparing
  /\ \/ /\ currentPhase = "BOOTSTRAP_MON"
        /\ stagingNum["MON"] < 1
     \/ /\ currentPhase = "BOOTSTRAP_OSD"
        /\ stagingNum["OSD"] < OSDNum
     \/ /\ currentPhase = "BOOTSTRAP_RADOSGW"
        /\ stagingNum["RADOSGW"] < 1
     \/ currentPhase = "WAINTING_REQUEST"

nextMove_whilePreparing(hc) ==
  \/ /\ currentPhase = "BOOTSTRAP_MON"
     /\ stagingNum["MON"] + runningNum["MON"] < 1
  \/ /\ currentPhase = "BOOTSTRAP_OSD"
     /\ stagingNum["OSD"] + runningNum["OSD"] < OSDNum
  \/ /\ currentPhase = "BOOTSTRAP_RADOSGW"
     /\ stagingNum["RADOSGW"] < 1
  \/ currentPhase = "WAINTING_REQUEST"

(* nextMove answers true: the host is not preparing disks and the phase    *)
(* has room for one more task.                                             *)
nextMove(hc) ==
  /\ ~ hc.preparing
  /\ \/ /\ currentPhase = "BOOTSTRAP_MON"
        /\ stagingNum["MON"] < 1
        /\ stagingNum["MON"] + runningNum["MON"] < 1
     \/ /\ currentPhase = "BOOTSTRAP_OSD"
        /\ stagingNum["OSD"] < OSDNum
        /\ stagingNum["OSD"] + runningNum["OSD"] < OSDNum
     \/ /\ currentPhase = "BOOTSTRAP_RADOSGW"
        /\ stagingNum["RADOSGW"] < 1
     \/ currentPhase = "WAINTING_REQUEST"

(* token = <type>Index++                                                   *)
takeToken(idx, ty) == [idx EXCEPT ![ty] = @ + 1]

decreaseOSDIndex_twice(idx) == [idx EXCEPT !["OSD"] = @ - 2]

decreaseOSDIndex(idx) == [idx EXCEPT !["OSD"] = @ - 1]

-----------------------------------------------------------------------------
(* Host configuration and disks.                                           *)

newHostConfig(h) == [preparing      |-> FALSE,
                     pendingOSDDevs |-> OSDDevs[h],
                     pendingJNLDevs |-> JNLDevs[h],
                     osdPartitions  |-> {},
                     jnlPartitions  |-> {}]

(* addConfig followed by getConfig: a known host keeps its configuration   *)
(* (reload works on a copy and does nothing), a new one gets its file's.   *)
addConfig(h) ==
  IF h \in DOMAIN hostConfigMap THEN hostConfigMap[h] ELSE newHostConfig(h)

(* popOSDPartition and popJournalPartition take one partition out of what  *)
(* is there; with none left the task gets the system disk.  The vector's   *)
(* order is abstracted: any free partition may be the last one.            *)
popChoices(parts) == IF parts = {} THEN {SystemDisk} ELSE parts

popPartitions_keepsJournal(hc, p, j) ==
  [hc EXCEPT !.osdPartitions = @ \ {p}]

(* The configuration once p and j are popped.                              *)
popPartitions(hc, p, j) ==
  [hc EXCEPT !.osdPartitions = @ \ {p}, !.jnlPartitions = @ \ {j}]

(* Every disk that is not a failed one becomes one OSD partition, or       *)
(* jnlparts journal partitions, and nothing is pending any more.           *)
updateDiskPartition(hc, failedDevs, jnlPartitionCount) ==
  [hc EXCEPT
     !.osdPartitions = @ \cup ((hc.pendingOSDDevs \ failedDevs) \X {1}),
     !.jnlPartitions = @ \cup ((hc.pendingJNLDevs \ failedDevs)
                                 \X (1 .. jnlPartitionCount)),
     !.pendingOSDDevs = {},
     !.pendingJNLDevs = {}]

setDiskPreparationOnGoing_flagNotSet(hc) == hc

setDiskPreparationOnGoing(hc) == [hc EXCEPT !.preparing = TRUE]

setDiskPreparationDone(hc) == [hc EXCEPT !.preparing = FALSE]
=============================================================================
