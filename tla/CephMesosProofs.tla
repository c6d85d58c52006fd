--------------------------- MODULE CephMesosProofs --------------------------
(***************************************************************************)
(* Theorems about CephMesos, for every set of hosts and disks, every       *)
(* OSDNum and every choice of offers, requests and faults.                 *)
(***************************************************************************)
EXTENDS CephMesos, FiniteSetTheorems, SequenceTheorems, TLAPS

(* resourceOffers' copy of the phase is up to date while it is used.       *)
PhaseSeenFresh == pc = "offers" => phaseSeen = currentPhase

TypeInv == TypeOK /\ PhaseSeenFresh

-----------------------------------------------------------------------------
(* Operators.                                                              *)

(* addConfig gives a host configuration.                                   *)
LEMMA AddConfigType ==
  ASSUME StateMachineTypeOK, NEW h \in Host
  PROVE  addConfig(h) \in HostConfig
BY StateMachineAssumption
   DEF StateMachineTypeOK, addConfig, newHostConfig, HostConfig, Partition

(* The configuration nextMove looks at is a host configuration.             *)
LEMMA HostConfigType ==
  ASSUME StateMachineTypeOK, offer \in Offer
  PROVE  hostConfig \in HostConfig
<1>1. addConfig(offer.host) \in HostConfig
  BY AddConfigType DEF Offer
<1> QED
  BY <1>1 DEF hostConfig, setDiskPreparationOnGoing, HostConfig

(* The counters stay integers; they may become negative.                    *)
LEMMA UpdateCountersType ==
  ASSUME StateMachineTypeOK, NEW ty \in TaskType, NEW old, NEW new,
         updateCounters(ty, old, new)
  PROVE  /\ stagingNum' \in [TaskType -> Int]
         /\ runningNum' \in [TaskType -> Int]
BY DEF StateMachineTypeOK, updateCounters

(* moveState always ends in one of the phases.                             *)
LEMMA PhaseForType == \A run : PhaseFor(run) \in Phase
BY DEF PhaseFor, Phase

-----------------------------------------------------------------------------
(* Type correctness.                                                       *)

(* The initial state is well typed.                                         *)
LEMMA InitType == Init => TypeInv
<1> SUFFICES ASSUME Init PROVE TypeInv
  OBVIOUS
<1> USE DEF Init, StateMachineInit, MesosInit, AgentInit
<1>1. StateMachineTypeOK
  BY DEF StateMachineTypeOK, TaskType, Phase
<1>2. MesosTypeOK
  BY DEF MesosTypeOK, DiskState
<1>3. AgentTypeOK
  BY DEF AgentTypeOK, Phase
<1> QED
  BY <1>1, <1>2, <1>3 DEF TypeInv, TypeOK, PhaseSeenFresh

(* A step that leaves the scheduler alone keeps its part of the types.     *)
LEMMA SchedulerTypeKept ==
  ASSUME TypeInv, UNCHANGED schedulerVars
  PROVE  StateMachineTypeOK' /\ AgentTypeOK' /\ PhaseSeenFresh'
BY DEF TypeInv, TypeOK, StateMachineTypeOK, AgentTypeOK, PhaseSeenFresh,
       schedulerVars, smVars, agentVars

(* The first offer of a batch in progress is an offer.                     *)
LEMMA OfferType ==
  ASSUME AgentTypeOK, nextOffer
  PROVE  /\ offer \in Offer
         /\ offers' \in Seq(Offer)
         /\ pc' \in {"idle", "offers"}
         /\ phaseSeen' = phaseSeen
BY DEF AgentTypeOK, nextOffer, offer

(* Every phase launches a type of task.                                     *)
LEMMA NextMoveTypeType == nextMoveType \in TaskType
BY DEF nextMoveType, TaskType

(* An offer that is considered leaves a host configuration behind.          *)
LEMMA ConsiderOfferType ==
  ASSUME TypeInv, considerOffer, NEW hc \in HostConfig, setHostConfig(hc)
  PROVE  /\ DOMAIN hostConfigMap' \subseteq Host
         /\ hostConfigMap' \in [DOMAIN hostConfigMap' -> HostConfig]
         /\ disk' \in [Host -> [st : DiskState, bad : SUBSET Dev]]
<1>1. offer \in Offer
  BY OfferType DEF TypeInv, TypeOK, considerOffer
<1>2. offer.host \in Host
  BY <1>1 DEF Offer
<1>3. /\ DOMAIN hostConfigMap \subseteq Host
      /\ hostConfigMap \in [DOMAIN hostConfigMap -> HostConfig]
  BY DEF TypeInv, TypeOK, StateMachineTypeOK
<1>4. /\ DOMAIN Put(hostConfigMap, offer.host, hc)
           = DOMAIN hostConfigMap \cup {offer.host}
      /\ Put(hostConfigMap, offer.host, hc)
           \in [DOMAIN hostConfigMap \cup {offer.host} -> HostConfig]
  BY <1>3 DEF Put
<1>5. disk' \in [Host -> [st : DiskState, bad : SUBSET Dev]]
  <2>1. disk \in [Host -> [st : DiskState, bad : SUBSET Dev]]
    BY DEF TypeInv, TypeOK, MesosTypeOK
  <2>2. disk' = disk \/ launchDisk(offer.host)
    BY DEF considerOffer, tryLaunchDiskTask
  <2>3. [st |-> "launched", bad |-> {}] \in [st : DiskState, bad : SUBSET Dev]
    BY DEF DiskState
  <2> QED
    BY <1>2, <2>1, <2>2, <2>3 DEF launchDisk
<1> QED
  BY <1>2, <1>3, <1>4, <1>5 DEF setHostConfig

(* Declining an offer keeps the types.                                      *)
LEMMA DeclineType ==
  ASSUME TypeInv,
         \/ DeclineWrongRole
         \/ DeclineNotNow
         \/ DeclineNotEnough
         \/ DeclineNoRequest
  PROVE  StateMachineTypeOK' /\ MesosTypeOK' /\ AgentTypeOK' /\ PhaseSeenFresh'
<1> USE DEF TypeInv, TypeOK
<1>0. nextOffer
  BY DEF DeclineWrongRole, DeclineNotNow, DeclineNotEnough, DeclineNoRequest,
         considerOffer
<1>1. AgentTypeOK' /\ PhaseSeenFresh'
  <2>1. UNCHANGED <<isInitialMonNode, pendingOSD, granted, currentPhase>>
    BY DEF DeclineWrongRole, DeclineNotNow, DeclineNotEnough,
           DeclineNoRequest, smVars
  <2> QED
    BY <1>0, <2>1, OfferType DEF AgentTypeOK, PhaseSeenFresh, nextOffer
<1>2. CASE DeclineWrongRole
  BY <1>1, <1>2 DEF DeclineWrongRole, smVars, mesosVars, StateMachineTypeOK,
                    MesosTypeOK
<1>3. ASSUME considerOffer, setHostConfig(hostConfig),
             index' \in [TaskType -> Nat],
             UNCHANGED <<taskMap, stagingNum, runningNum, currentPhase,
                         pendingOSDID, node, updates, toMon, fromMon, toOSD>>
      PROVE  StateMachineTypeOK' /\ MesosTypeOK'
  <2>1. hostConfig \in HostConfig
    BY <1>0, OfferType, HostConfigType
  <2>2. /\ DOMAIN hostConfigMap' \subseteq Host
        /\ hostConfigMap' \in [DOMAIN hostConfigMap' -> HostConfig]
        /\ disk' \in [Host -> [st : DiskState, bad : SUBSET Dev]]
    BY <1>3, <2>1, ConsiderOfferType
  <2>3. StateMachineTypeOK'
    BY <1>3, <2>2 DEF StateMachineTypeOK
  <2>4. MesosTypeOK'
    BY <1>3, <2>2 DEF MesosTypeOK
  <2> QED
    BY <2>3, <2>4
<1>4. CASE DeclineNotNow
  <2>1. index' \in [TaskType -> Nat]
    BY <1>4 DEF DeclineNotNow, StateMachineTypeOK
  <2> QED
    BY <1>1, <1>3, <1>4, <2>1 DEF DeclineNotNow
<1>5. CASE DeclineNotEnough
  <2>1. index' \in [TaskType -> Nat]
    BY <1>5, NextMoveTypeType
       DEF DeclineNotEnough, takeToken, StateMachineTypeOK
  <2> QED
    BY <1>1, <1>3, <1>5, <2>1 DEF DeclineNotEnough
<1>6. CASE DeclineNoRequest
  <2>1. nextMoveType = "OSD"
    BY <1>6 DEF DeclineNoRequest, considerOffer, nextOffer, PhaseSeenFresh,
                nextMoveType
  <2>2. index' \in [TaskType -> Nat]
    BY <1>6, <2>1 DEF DeclineNoRequest, takeToken, decreaseOSDIndex,
                      StateMachineTypeOK, TaskType
  <2> QED
    BY <1>1, <1>3, <1>6, <2>2 DEF DeclineNoRequest
<1> QED
  BY <1>2, <1>4, <1>5, <1>6


(* Assigning OSD ids keeps the types.                                       *)
LEMMA AssignType ==
  ASSUME TypeInv,
         AssignDone \/ \E t \in DOMAIN taskMap : AssignOSDID(t)
  PROVE  StateMachineTypeOK' /\ MesosTypeOK' /\ AgentTypeOK' /\ PhaseSeenFresh'
<1> USE DEF TypeInv, TypeOK
<1>1. CASE AssignDone
  BY <1>1 DEF AssignDone, smVars, mesosVars, StateMachineTypeOK, MesosTypeOK,
              AgentTypeOK, PhaseSeenFresh
<1>2. CASE \E t \in DOMAIN taskMap : AssignOSDID(t)
  <2>1. PICK t \in DOMAIN taskMap : AssignOSDID(t)
    BY <1>2
  <2>2. t \in TaskID /\ t.type \in TaskType
    BY DEF StateMachineTypeOK, TaskID
  <2>3. pendingOSDID \in Seq(Nat) /\ Len(pendingOSDID) \in Nat \ {0}
    BY <2>1 DEF AssignOSDID, StateMachineTypeOK
  <2>4. StateMachineTypeOK'
    <3>1. pendingOSDID' \in Seq(Nat)
      BY <2>1, <2>3 DEF AssignOSDID
    <3>2. /\ stagingNum' \in [TaskType -> Int]
          /\ runningNum' \in [TaskType -> Int]
      BY <2>1, <2>2, UpdateCountersType DEF AssignOSDID, updateTaskToStarting
    <3> QED
      BY <2>1, <3>1, <3>2 DEF AssignOSDID, updateTaskToStarting,
                              StateMachineTypeOK, Status
  <2>5. MesosTypeOK'
    <3>1. [to |-> t, id |-> pendingOSDID[Len(pendingOSDID)]]
            \in [to : DOMAIN taskMap, id : Nat]
      BY <2>3
    <3>2. toOSD' \subseteq [to : DOMAIN taskMap, id : Nat]
      BY <2>1, <3>1 DEF AssignOSDID, MesosTypeOK
    <3>3. DOMAIN taskMap' = DOMAIN taskMap
      BY <2>1 DEF AssignOSDID, updateTaskToStarting, StateMachineTypeOK
    <3> QED
      BY <2>1, <3>2, <3>3 DEF AssignOSDID, MesosTypeOK
  <2>6. AgentTypeOK' /\ PhaseSeenFresh'
    BY <2>1 DEF AssignOSDID, updateTaskToStarting, agentVars, AgentTypeOK,
                PhaseSeenFresh
  <2> QED
    BY <2>4, <2>5, <2>6
<1> QED
  BY <1>1, <1>2

(* What getInitialMon returns once there is a task.                        *)
LEMMA GetInitialMonType ==
  /\ \A m \in getInitialMon : m \in DOMAIN taskMap \/ m = NoTask
  /\ DOMAIN taskMap # {} => getInitialMon \subseteq DOMAIN taskMap
BY DEF getInitialMon

(* Counting a flex-up request down never leaves a zero in the queue.        *)
LEMMA FetchRequestType ==
  ASSUME AgentTypeOK, fetchPendingRESTfulRequest
  PROVE  pendingOSD' \in Seq(Nat \ {0}) /\ granted' \in Nat
<1> DEFINE rest == Tail(pendingOSD)
           n    == Head(pendingOSD)
<1>1. n \in Nat \ {0} /\ rest \in Seq(Nat \ {0})
  BY DEF AgentTypeOK, fetchPendingRESTfulRequest
<1>2. CASE n - 1 = 0
  BY <1>1, <1>2 DEF AgentTypeOK, fetchPendingRESTfulRequest
<1>3. CASE n - 1 # 0
  <2>1. <<n - 1>> \in Seq(Nat \ {0})
    BY <1>1, <1>3
  <2>2. <<n - 1>> \o rest \in Seq(Nat \ {0})
    BY <1>1, <2>1
  <2> QED
    BY <1>3, <2>2 DEF AgentTypeOK, fetchPendingRESTfulRequest
<1> QED
  BY <1>2, <1>3

(* Launching a task keeps the types.                                        *)
LEMMA AcceptOfferType ==
  ASSUME TypeInv, AcceptOffer
  PROVE  StateMachineTypeOK' /\ MesosTypeOK' /\ AgentTypeOK' /\ PhaseSeenFresh'
<1> USE DEF TypeInv, TypeOK
<1>1. considerOffer /\ nextOffer
  BY DEF AcceptOffer, considerOffer
<1>2. offer \in Offer /\ offer.host \in Host
  BY <1>1, OfferType DEF Offer
<1>3. /\ newTask \in TaskID
      /\ newTask.type = nextMoveType
      /\ nextMoveType \in TaskType
  BY <1>2, NextMoveTypeType DEF newTask, TaskID, StateMachineTypeOK
<1>4. hostConfig \in HostConfig
  BY <1>2, HostConfigType
<1>5. isInitialMonNode' \in {0, 1}
  BY DEF AcceptOffer, AgentTypeOK
<1>6. PICK source \in createExecutor,
           p \in Partition \cup {SystemDisk},
           j \in Partition \cup {SystemDisk} :
        /\ launchTasks(newTask, isInitialMonNode', source, p, j)
        /\ setHostConfig(popPartitions(hostConfig, p, j))
  <2>1. /\ hostConfig.osdPartitions \subseteq Partition
        /\ hostConfig.jnlPartitions \subseteq Partition
    BY <1>4 DEF HostConfig
  <2>2. \A q \in popChoices(hostConfig.osdPartitions) \cup
                 popChoices(hostConfig.jnlPartitions) \cup {SystemDisk} :
          q \in Partition \cup {SystemDisk}
    BY <2>1 DEF popChoices
  <2> QED
    BY <2>2 DEF AcceptOffer, launchNode, addHostConfig
<1>7. source \in Host \cup {NoTask.host}
  BY GetInitialMonType DEF createExecutor, StateMachineTypeOK, TaskID
<1>8. popPartitions(hostConfig, p, j) \in HostConfig
  BY <1>4 DEF popPartitions, HostConfig
<1>9. /\ DOMAIN hostConfigMap' \subseteq Host
      /\ hostConfigMap' \in [DOMAIN hostConfigMap' -> HostConfig]
      /\ disk' \in [Host -> [st : DiskState, bad : SUBSET Dev]]
  BY <1>1, <1>6, <1>8, ConsiderOfferType
<1>10. /\ DOMAIN taskMap' = DOMAIN taskMap \cup {newTask}
       /\ taskMap' \in [DOMAIN taskMap' -> Status]
  BY DEF AcceptOffer, addStagingTask, Put, StateMachineTypeOK, Status
<1>11. StateMachineTypeOK'
  <2>1. index' \in [TaskType -> Nat]
    BY <1>3 DEF AcceptOffer, takeToken, StateMachineTypeOK
  <2>2. stagingNum' \in [TaskType -> Int]
    BY <1>3 DEF AcceptOffer, addStagingTask, StateMachineTypeOK
  <2> QED
    BY <1>3, <1>9, <1>10, <2>1, <2>2 DEF AcceptOffer, StateMachineTypeOK
<1>12. MesosTypeOK'
  <2>1. [st |-> "launched", initial |-> isInitialMonNode',
         source |-> source, osddisk |-> p, jnldisk |-> j,
         ids |-> {}] \in Node
    BY <1>5, <1>7 DEF Node, NodeState
  <2>2. /\ DOMAIN node' = DOMAIN taskMap'
        /\ node' \in [DOMAIN node' -> Node]
    BY <1>6, <1>10, <2>1 DEF launchTasks, Put, MesosTypeOK
  <2>3. /\ DOMAIN updates' = DOMAIN taskMap'
        /\ updates' \in [DOMAIN updates' -> Seq(TaskUpdate)]
    BY <1>6, <1>10 DEF launchTasks, Put, MesosTypeOK
  <2>4. toMon' \in Seq(TaskID)
    <3>1. CASE \E m \in getInitialMon' : toMon' = Append(toMon, m)
      <4>1. PICK m \in getInitialMon' : toMon' = Append(toMon, m)
        BY <3>1
      <4>2. m \in DOMAIN taskMap'
        BY <1>10 DEF getInitialMon
      <4>3. m \in TaskID
        BY <1>3, <1>10, <4>2 DEF StateMachineTypeOK
      <4> QED
        BY <4>1, <4>3 DEF MesosTypeOK
    <3>2. CASE toMon' = toMon
      BY <3>2 DEF MesosTypeOK
    <3> QED
      BY <3>1, <3>2 DEF AcceptOffer
  <2>5. toOSD' \subseteq [to : DOMAIN taskMap', id : Nat]
    BY <1>10 DEF AcceptOffer, MesosTypeOK
  <2> QED
    BY <1>9, <2>2, <2>3, <2>4, <2>5 DEF AcceptOffer, MesosTypeOK
<1>13. AgentTypeOK' /\ PhaseSeenFresh'
  <2>1. pendingOSD' \in Seq(Nat \ {0}) /\ granted' \in Nat
    BY FetchRequestType DEF AcceptOffer, AgentTypeOK
  <2> QED
    BY <1>1, <1>5, <2>1, OfferType
       DEF AcceptOffer, AgentTypeOK, PhaseSeenFresh, nextOffer
<1> QED
  BY <1>11, <1>12, <1>13


(* A status update of a known task, delivered or repeated.                 *)
LEMMA StatusUpdateType ==
  ASSUME TypeInv, NEW t \in DOMAIN node, NEW u, statusUpdate(t, u)
  PROVE  /\ StateMachineTypeOK' /\ AgentTypeOK' /\ PhaseSeenFresh'
         /\ DOMAIN taskMap' = DOMAIN taskMap
<1> USE DEF TypeInv, TypeOK
<1>1. t \in DOMAIN taskMap /\ t.type \in TaskType
  BY DEF StateMachineTypeOK, MesosTypeOK, TaskID
<1>2. AgentTypeOK' /\ PhaseSeenFresh'
  BY DEF statusUpdate, agentVars, AgentTypeOK, PhaseSeenFresh
<1>3. CASE updateTaskToRunning(t)
  <2>1. stagingNum' \in [TaskType -> Int] /\ runningNum' \in [TaskType -> Int]
    BY <1>1, <1>3, UpdateCountersType DEF updateTaskToRunning
  <2>2. currentPhase' \in Phase
    BY <1>3, PhaseForType DEF updateTaskToRunning, moveState
  <2> QED
    BY <1>2, <1>3, <2>1, <2>2
       DEF updateTaskToRunning, StateMachineTypeOK, Status
<1>4. CASE updateTaskToWaitingOSDID(t)
  <2>1. stagingNum' \in [TaskType -> Int] /\ runningNum' \in [TaskType -> Int]
    BY <1>1, <1>4, UpdateCountersType DEF updateTaskToWaitingOSDID
  <2> QED
    BY <1>2, <1>4, <2>1
       DEF updateTaskToWaitingOSDID, StateMachineTypeOK, Status
<1>5. CASE updateTaskToFailed(t)
  <2>1. stagingNum' \in [TaskType -> Int] /\ runningNum' \in [TaskType -> Int]
    BY <1>1, <1>5, UpdateCountersType DEF updateTaskToFailed
  <2>2. currentPhase' \in Phase
    BY <1>5, PhaseForType DEF updateTaskToFailed, moveState
  <2> QED
    BY <1>2, <1>5, <2>1, <2>2
       DEF updateTaskToFailed, StateMachineTypeOK, Status
<1>6. CASE UNCHANGED smVars
  BY <1>2, <1>6 DEF smVars, StateMachineTypeOK
<1> QED
  BY <1>3, <1>4, <1>5, <1>6 DEF statusUpdate

(* TASK_FINISHED of a disk executor keeps the types.                        *)
LEMMA DiskReadyType ==
  ASSUME TypeInv, NEW h \in Host, statusUpdateDiskReady(h)
  PROVE  /\ StateMachineTypeOK' /\ AgentTypeOK' /\ PhaseSeenFresh'
         /\ DOMAIN taskMap' = DOMAIN taskMap
<1> USE DEF TypeInv, TypeOK
<1> DEFINE hc == setDiskPreparationDone(
                   updateDiskPartition(hostConfigMap[h], {}, JnlParts[h]))
<1>1. AgentTypeOK' /\ PhaseSeenFresh'
  BY DEF statusUpdateDiskReady, agentVars, AgentTypeOK, PhaseSeenFresh
<1>2. h \in DOMAIN hostConfigMap => hc \in HostConfig
  <2> SUFFICES ASSUME h \in DOMAIN hostConfigMap PROVE hc \in HostConfig
    OBVIOUS
  <2> DEFINE old == hostConfigMap[h]
             new == updateDiskPartition(old, {}, JnlParts[h])
  <2>1. old \in HostConfig
    BY DEF StateMachineTypeOK
  <2>2. /\ ((old.pendingOSDDevs \ {}) \X {1}) \subseteq Partition
        /\ ((old.pendingJNLDevs \ {}) \X (1 .. JnlParts[h]))
             \subseteq Partition
    BY <2>1, StateMachineAssumption DEF HostConfig, Partition
  <2>3. new \in HostConfig
    <3> HIDE DEF old
    <3> QED
      BY <2>1, <2>2 DEF updateDiskPartition, HostConfig
  <2> HIDE DEF new
  <2>4. setDiskPreparationDone(new) \in HostConfig
    BY <2>3 DEF setDiskPreparationDone, HostConfig
  <2> QED
    BY <2>4 DEF new
<1>3. hostConfigMap' = [hostConfigMap EXCEPT ![h] = hc]
  BY DEF statusUpdateDiskReady
<1> HIDE DEF hc
<1> QED
  BY <1>1, <1>2, <1>3 DEF statusUpdateDiskReady, StateMachineTypeOK

(* An answer of the MON keeps the types.                                    *)
LEMMA FrameworkMessageType ==
  ASSUME TypeInv, NEW m \in fromMon, frameworkMessage(m)
  PROVE  StateMachineTypeOK' /\ AgentTypeOK' /\ PhaseSeenFresh'
<1> USE DEF TypeInv, TypeOK
<1>1. m.id \in Nat \/ m.id = Garbage
  BY DEF MesosTypeOK
<1>2. pendingOSDID' \in Seq(Nat)
  <2>1. \/ pendingOSDID' = pendingOSDID
        \/ m.id # Garbage /\ pendingOSDID' = Append(pendingOSDID, m.id)
    BY DEF frameworkMessage, addPendingOSDID
  <2>2. pendingOSDID \in Seq(Nat)
    BY DEF StateMachineTypeOK
  <2>3. m.id \in Nat => Append(pendingOSDID, m.id) \in Seq(Nat)
    BY <2>2
  <2> QED
    BY <1>1, <2>1, <2>2, <2>3
<1>3. pc' \in {"idle", "crashed"}
  BY DEF frameworkMessage
<1> QED
  BY <1>2, <1>3 DEF frameworkMessage, StateMachineTypeOK, AgentTypeOK,
                    PhaseSeenFresh

(* An executor's or a slave's step on one task: a new state, maybe an OSD  *)
(* id, maybe an update.                                                    *)
LEMMA NodeStepType ==
  ASSUME TypeInv, NEW t \in DOMAIN node, NEW st \in NodeState,
         NEW ids \in SUBSET Nat,
         \/ node' = [node EXCEPT ![t].st = st, ![t].ids = @ \cup ids]
         \/ node' = [node EXCEPT ![t].st = st]
  PROVE  DOMAIN node' = DOMAIN node /\ node' \in [DOMAIN node -> Node]
<1>1. node \in [DOMAIN node -> Node] /\ node[t] \in Node
  BY DEF TypeInv, TypeOK, MesosTypeOK
<1>2. [node[t] EXCEPT !.st = st] \in Node
  BY <1>1 DEF Node
<1>3. [node[t] EXCEPT !.st = st, !.ids = @ \cup ids] \in Node
  BY <1>1 DEF Node
<1>4. CASE node' = [node EXCEPT ![t].st = st]
  <2>1. node' = [node EXCEPT ![t] = [node[t] EXCEPT !.st = st]]
    BY <1>4
  <2> QED
    BY <1>1, <1>2, <2>1
<1>5. CASE node' = [node EXCEPT ![t].st = st, ![t].ids = @ \cup ids]
  <2>1. node' = [node EXCEPT ![t] =
                   [node[t] EXCEPT !.st = st, !.ids = @ \cup ids]]
    BY <1>1, <1>5
  <2> QED
    BY <1>1, <1>3, <2>1
<1> QED
  BY <1>4, <1>5

(* A new status update keeps the type of the update queues.                 *)
LEMMA SendStatusUpdateType ==
  ASSUME TypeInv, NEW t \in DOMAIN node, NEW u \in TaskUpdate,
         sendStatusUpdate(t, u)
  PROVE  /\ DOMAIN updates' = DOMAIN updates
         /\ updates' \in [DOMAIN updates -> Seq(TaskUpdate)]
BY DEF TypeInv, TypeOK, MesosTypeOK, sendStatusUpdate


(* A step of an executor without a LAUNCH_OSD keeps the types.              *)
LEMMA LaunchTaskType ==
  ASSUME TypeInv, NEW t \in DOMAIN node,
         LaunchTask(t) \/ LaunchFails(t) \/ ExecutorDies(t) \/ ContainerDies(t)
           \/ ContainerReturns(t)
  PROVE  TypeInv'
<1> USE DEF TypeInv, TypeOK
<1>1. UNCHANGED <<schedulerVars, toMon, fromMon, toOSD, disk, osdCreated,
                  requested>>
  BY DEF LaunchTask, LaunchTaskOSD, LaunchTaskDaemon, FetchFails, LaunchFails,
         LaunchTaskFails, ExecutorDies, ContainerDies, ContainerReturns
<1>2. \E st \in NodeState : SetState(t, st)
  BY DEF LaunchTask, LaunchTaskOSD, LaunchTaskDaemon, FetchFails, LaunchFails,
         LaunchTaskFails, ExecutorDies, ContainerDies,
         ContainerReturns, NodeState
<1>3. \/ UNCHANGED updates
      \/ \E u \in TaskUpdate : sendStatusUpdate(t, u)
  BY DEF LaunchTask, LaunchTaskOSD, LaunchTaskDaemon, FetchFails, LaunchFails,
         LaunchTaskFails, ExecutorDies, ContainerDies,
         ContainerReturns, TaskUpdate, FetchFailure
<1>4. faults' \in Nat
  BY DEF LaunchTask, LaunchFails, ExecutorDies, ContainerDies,
         ContainerReturns, Fault
<1>5. DOMAIN node' = DOMAIN node /\ node' \in [DOMAIN node -> Node]
  BY <1>2, NodeStepType DEF SetState
<1>6. /\ DOMAIN updates' = DOMAIN updates
      /\ updates' \in [DOMAIN updates -> Seq(TaskUpdate)]
  BY <1>3, SendStatusUpdateType DEF MesosTypeOK
<1>7. taskMap' = taskMap
  BY <1>1 DEF schedulerVars, smVars
<1>8. MesosTypeOK'
  BY <1>1, <1>5, <1>6, <1>7 DEF MesosTypeOK
<1> QED
  BY <1>1, <1>4, <1>8, SchedulerTypeKept

(* A LAUNCH_OSD keeps the types.                                            *)
LEMMA LaunchOSDType ==
  ASSUME TypeInv, NEW m \in toOSD, HandleLaunchOSD(m) \/ StartFails(m)
  PROVE  TypeInv'
<1> USE DEF TypeInv, TypeOK
<1>1. UNCHANGED <<schedulerVars, toMon, fromMon, disk, osdCreated, requested>>
  BY DEF HandleLaunchOSD, LaunchOSD, StartFails, LaunchOSDFails
<1>2. m.to \in DOMAIN node /\ m.id \in Nat
  BY DEF MesosTypeOK
<1>3. faults' \in Nat
  BY DEF HandleLaunchOSD, StartFails, Fault
<1>4. toOSD' = toOSD \ {m}
  BY DEF HandleLaunchOSD, LaunchOSD, StartFails, LaunchOSDFails
<1>5. \E st \in NodeState :
        node' = [node EXCEPT ![m.to].st = st, ![m.to].ids = @ \cup {m.id}]
  BY DEF HandleLaunchOSD, LaunchOSD, StartFails, LaunchOSDFails, NodeState
<1>6. \E u \in TaskUpdate : sendStatusUpdate(m.to, u)
  BY DEF HandleLaunchOSD, LaunchOSD, StartFails, LaunchOSDFails, TaskUpdate
<1>7. taskMap' = taskMap
  BY <1>1 DEF schedulerVars, smVars
<1>8. /\ DOMAIN node' = DOMAIN node /\ node' \in [DOMAIN node -> Node]
      /\ DOMAIN updates' = DOMAIN updates
      /\ updates' \in [DOMAIN updates -> Seq(TaskUpdate)]
  <2>1. {m.id} \in SUBSET Nat
    BY <1>2
  <2>2. DOMAIN node' = DOMAIN node /\ node' \in [DOMAIN node -> Node]
    BY <1>2, <1>5, <2>1, NodeStepType
  <2> QED
    BY <1>2, <1>6, <2>2, SendStatusUpdateType
<1>9. MesosTypeOK'
  BY <1>1, <1>4, <1>7, <1>8 DEF MesosTypeOK
<1> QED
  BY <1>1, <1>3, <1>9, SchedulerTypeKept

(* REGISTER_OSD and lost messages keep the types.                           *)
LEMMA MessageStepType ==
  ASSUME TypeInv, HandleRegisterOSD \/ LoseMessage
  PROVE  TypeInv'
<1> USE DEF TypeInv, TypeOK
<1>1. UNCHANGED <<schedulerVars, node, updates, disk, requested>>
  BY DEF HandleRegisterOSD, RegisterOSD, LoseMessage
<1>2. toMon' \in Seq(TaskID)
  <2>1. toMon' = toMon \/ (toMon # << >> /\ toMon' = Tail(toMon))
    BY DEF HandleRegisterOSD, RegisterOSD, LoseMessage
  <2>2. toMon \in Seq(TaskID)
    BY DEF MesosTypeOK
  <2> QED
    BY <2>1, <2>2
<1>3. /\ fromMon' \subseteq [from : TaskID, id : Nat \cup {Garbage}]
      /\ osdCreated' \in Nat
  <2>1. CASE HandleRegisterOSD
    <3>1. Head(toMon) \in TaskID
      BY <2>1 DEF HandleRegisterOSD, RegisterOSD, MesosTypeOK
    <3>2. \A id \in Nat \cup {Garbage} :
            [from |-> Head(toMon), id |-> id]
              \in [from : TaskID, id : Nat \cup {Garbage}]
      BY <3>1
    <3> QED
      BY <2>1, <3>2 DEF HandleRegisterOSD, RegisterOSD, MesosTypeOK
  <2>2. CASE LoseMessage
    BY <2>2 DEF LoseMessage, MesosTypeOK
  <2> QED
    BY <2>1, <2>2
<1>4. toOSD' \subseteq [to : DOMAIN taskMap, id : Nat]
  BY DEF HandleRegisterOSD, RegisterOSD, LoseMessage, MesosTypeOK
<1>5. faults' \in Nat
  BY DEF HandleRegisterOSD, LoseMessage, Fault
<1>6. taskMap' = taskMap
  BY <1>1 DEF schedulerVars, smVars
<1>7. MesosTypeOK'
  BY <1>1, <1>2, <1>3, <1>4, <1>6 DEF MesosTypeOK
<1> QED
  BY <1>1, <1>3, <1>5, <1>7, SchedulerTypeKept

(* A step of a disk executor keeps the types.                               *)
LEMMA DiskStepType ==
  ASSUME TypeInv, NEW h \in Host,
         \/ PrepareDisks(h)
         \/ DiskDies(h)
         \/ \E d \in OSDDevs[h] \cup JNLDevs[h] : BadDisk(h, d)
  PROVE  TypeInv'
<1> USE DEF TypeInv, TypeOK
<1>1. UNCHANGED <<schedulerVars, node, updates, toMon, fromMon, toOSD,
                  osdCreated, requested>>
  BY DEF PrepareDisks, DiskDies, BadDisk, DiskLaunchTask
<1>2. faults' \in Nat
  <2>1. faults' = faults \/ faults' = faults + 1
    BY DEF PrepareDisks, DiskDies, BadDisk, Fault
  <2> QED
    BY <2>1
<1>3. disk' \in [Host -> [st : DiskState, bad : SUBSET Dev]]
  <2>1. disk \in [Host -> [st : DiskState, bad : SUBSET Dev]]
    BY DEF MesosTypeOK
  <2>2. CASE DiskDies(h)
    BY <2>1, <2>2 DEF DiskDies, DiskState
  <2>3. CASE \E bad \in SUBSET Dev : DiskLaunchTask(h, bad)
    <3>1. PICK bad \in SUBSET Dev : DiskLaunchTask(h, bad)
      BY <2>3
    <3>2. [st |-> "finished", bad |-> bad]
            \in [st : DiskState, bad : SUBSET Dev]
      BY DEF DiskState
    <3> QED
      BY <2>1, <3>1, <3>2 DEF DiskLaunchTask
  <2>4. OSDDevs[h] \subseteq Dev /\ JNLDevs[h] \subseteq Dev
    BY StateMachineAssumption
  <2> QED
    BY <2>2, <2>3, <2>4 DEF PrepareDisks, BadDisk
<1>4. taskMap' = taskMap
  BY <1>1 DEF schedulerVars, smVars
<1>5. MesosTypeOK'
  BY <1>1, <1>3, <1>4 DEF MesosTypeOK
<1> QED
  BY <1>1, <1>2, <1>5, SchedulerTypeKept


(* A step of resourceOffers keeps the types.                                *)
LEMMA AgentStepType == TypeInv /\ AgentStep => TypeInv'
<1> SUFFICES ASSUME TypeInv, AgentStep PROVE TypeInv'
  OBVIOUS
<1>1. StateMachineTypeOK' /\ MesosTypeOK' /\ AgentTypeOK' /\ PhaseSeenFresh'
  BY AssignType, DeclineType, AcceptOfferType DEF AgentStep
<1> QED
  BY <1>1 DEF TypeInv, TypeOK, AgentStep

(* The callbacks other than resourceOffers, and the event loop.            *)
LEMMA CallbackType ==
  ASSUME TypeInv,
         \/ \E t \in DOMAIN node : DeliverUpdate(t) \/ RepeatUpdate(t)
         \/ \E h \in Host : DeliverDiskReady(h) \/ RepeatDiskReady(h)
         \/ \E m \in fromMon : DeliverAnswer(m)
         \/ \E n \in Instances : ReceiveRequest(n)
         \/ \E batch \in Batches : ReceiveOffers(batch)
  PROVE  TypeInv'
<1> USE DEF TypeInv, TypeOK
<1>1. ASSUME NEW t \in DOMAIN node, DeliverUpdate(t) \/ RepeatUpdate(t)
      PROVE  TypeInv'
  <2>1. \E u : statusUpdate(t, u)
    BY <1>1 DEF DeliverUpdate, RepeatUpdate
  <2>2. /\ StateMachineTypeOK' /\ AgentTypeOK' /\ PhaseSeenFresh'
        /\ DOMAIN taskMap' = DOMAIN taskMap
    BY <2>1, StatusUpdateType
  <2>3. UNCHANGED <<node, toMon, fromMon, toOSD, disk, osdCreated, requested>>
    BY <1>1 DEF DeliverUpdate, RepeatUpdate, execVars, mesosVars
  <2>4. /\ DOMAIN updates' = DOMAIN updates
        /\ updates' \in [DOMAIN updates -> Seq(TaskUpdate)]
    <3>1. \/ updates' = updates
          \/ /\ updates[t] # << >>
             /\ updates' = [updates EXCEPT ![t] = Tail(@)]
      BY <1>1 DEF DeliverUpdate, RepeatUpdate, execVars, mesosVars
    <3>2. updates \in [DOMAIN updates -> Seq(TaskUpdate)]
      BY DEF MesosTypeOK
    <3>3. t \in DOMAIN updates /\ updates[t] \in Seq(TaskUpdate)
      BY <3>2 DEF MesosTypeOK
    <3>4. updates[t] # << >> => Tail(updates[t]) \in Seq(TaskUpdate)
      BY <3>3
    <3> QED
      BY <3>1, <3>2, <3>3, <3>4
  <2>5. MesosTypeOK'
    BY <2>2, <2>3, <2>4 DEF MesosTypeOK
  <2>6. faults' = faults \/ faults' = faults + 1
    BY <1>1 DEF DeliverUpdate, RepeatUpdate, Fault
  <2> QED
    BY <2>2, <2>3, <2>5, <2>6
<1>2. ASSUME NEW h \in Host, DeliverDiskReady(h) \/ RepeatDiskReady(h)
      PROVE  TypeInv'
  <2>1. statusUpdateDiskReady(h)
    BY <1>2 DEF DeliverDiskReady, RepeatDiskReady
  <2>2. /\ StateMachineTypeOK' /\ AgentTypeOK' /\ PhaseSeenFresh'
        /\ DOMAIN taskMap' = DOMAIN taskMap
    BY <2>1, DiskReadyType
  <2>3. UNCHANGED <<node, updates, toMon, fromMon, toOSD, osdCreated,
                    requested>>
    BY <1>2 DEF DeliverDiskReady, RepeatDiskReady, execVars, mesosVars
  <2>4. disk' \in [Host -> [st : DiskState, bad : SUBSET Dev]]
    <3>1. disk' = disk \/ disk' = [disk EXCEPT ![h].st = "acked"]
      BY <1>2 DEF DeliverDiskReady, RepeatDiskReady, execVars, mesosVars
    <3> QED
      BY <3>1 DEF MesosTypeOK, DiskState
  <2>5. MesosTypeOK'
    BY <2>2, <2>3, <2>4 DEF MesosTypeOK
  <2>6. faults' = faults \/ faults' = faults + 1
    BY <1>2 DEF DeliverDiskReady, RepeatDiskReady, Fault
  <2> QED
    BY <2>2, <2>3, <2>5, <2>6
<1>3. ASSUME NEW m \in fromMon, DeliverAnswer(m)
      PROVE  TypeInv'
  <2>1. StateMachineTypeOK' /\ AgentTypeOK' /\ PhaseSeenFresh'
    BY <1>3, FrameworkMessageType DEF DeliverAnswer
  <2>2. taskMap' = taskMap
    BY <1>3 DEF DeliverAnswer, frameworkMessage
  <2>3. MesosTypeOK'
    BY <1>3, <2>2 DEF DeliverAnswer, MesosTypeOK
  <2> QED
    BY <1>3, <2>1, <2>3 DEF DeliverAnswer
<1>4. ASSUME NEW n \in Instances, ReceiveRequest(n)
      PROVE  TypeInv'
  <2>1. n \in Nat \ {0}
    BY CephMesosAssumption
  <2>2. AgentTypeOK' /\ PhaseSeenFresh'
    BY <1>4, <2>1 DEF ReceiveRequest, processData, AgentTypeOK, smVars,
                      PhaseSeenFresh
  <2>3. StateMachineTypeOK' /\ MesosTypeOK'
    BY <1>4 DEF ReceiveRequest, processData, smVars, mesosVars,
                StateMachineTypeOK, MesosTypeOK
  <2>4. requested' \in Nat /\ faults' = faults /\ osdCreated' = osdCreated
    BY <1>4, <2>1 DEF ReceiveRequest
  <2> QED
    BY <2>2, <2>3, <2>4
<1>5. ASSUME NEW batch \in Batches, ReceiveOffers(batch)
      PROVE  TypeInv'
  <2>1. batch \in Seq(Offer)
    BY CephMesosAssumption
  <2>2. AgentTypeOK' /\ PhaseSeenFresh'
    BY <1>5, <2>1 DEF ReceiveOffers, resourceOffers, AgentTypeOK,
                      PhaseSeenFresh
  <2>3. StateMachineTypeOK' /\ MesosTypeOK'
    BY <1>5 DEF ReceiveOffers, resourceOffers, smVars, mesosVars,
                StateMachineTypeOK, MesosTypeOK
  <2>4. faults' \in Nat
    <3>1. IsFiniteSet(smallOffers(batch))
      <4>1. DOMAIN batch = 1 .. Len(batch) /\ Len(batch) \in Nat
        BY <2>1
      <4>2. IsFiniteSet(1 .. Len(batch))
        BY <4>1, FS_Interval
      <4> QED
        BY <4>1, <4>2, FS_Subset DEF smallOffers
    <3>2. Cardinality(smallOffers(batch)) \in Nat
      BY <3>1, FS_CardinalityType
    <3> QED
      BY <1>5, <3>2 DEF ReceiveOffers
  <2>5. requested' = requested /\ osdCreated' = osdCreated
    BY <1>5 DEF ReceiveOffers
  <2> QED
    BY <2>2, <2>3, <2>4, <2>5
<1> QED
  BY <1>1, <1>2, <1>3, <1>4, <1>5

(* Every step keeps the types.                                             *)
LEMMA NextType == TypeInv /\ [Next]_vars => TypeInv'
<1> SUFFICES ASSUME TypeInv, [Next]_vars PROVE TypeInv'
  OBVIOUS
<1>1. CASE Next
  BY <1>1, AgentStepType, CallbackType, LaunchTaskType, LaunchOSDType,
     MessageStepType, DiskStepType DEF Next
<1>2. CASE UNCHANGED vars
  <2>1. UNCHANGED <<schedulerVars, mesosVars, osdCreated, faults, requested>>
    BY <1>2 DEF vars, execVars
  <2>2. UNCHANGED taskMap
    BY <2>1 DEF schedulerVars, smVars
  <2>3. MesosTypeOK'
    BY <2>1, <2>2 DEF mesosVars, MesosTypeOK, TypeInv, TypeOK
  <2> QED
    BY <2>1, <2>3, SchedulerTypeKept DEF TypeInv, TypeOK
<1> QED
  BY <1>1, <1>2

(* Every reachable state is well typed: the token counters stay natural    *)
(* numbers although decreaseOSDIndex runs, the queue of flex-up requests   *)
(* never holds a zero although instances are counted down, and the tasks   *)
(* the scheduler knows are exactly the launched ones.                      *)
THEOREM TypeCorrect == Spec => []TypeOK
<1>1. Spec => []TypeInv
  BY InitType, NextType, PTL DEF Spec
<1>2. TypeInv => TypeOK
  BY DEF TypeInv
<1> QED
  BY <1>1, <1>2, PTL

-----------------------------------------------------------------------------
(* OSD ids.  OSDIdUnique is not inductive alone: a new id must differ from *)
(* every id in use, so all of these stay below the counter they come from. *)

IdsBelow ==
  /\ \A m \in fromMon : m.id < osdCreated
  /\ \A i \in 1 .. Len(pendingOSDID) : pendingOSDID[i] < osdCreated
  /\ \A m \in toOSD : m.id < osdCreated
  /\ \A t \in DOMAIN node : \A id \in node[t].ids : id < osdCreated

IdInv == OSDIdUnique /\ IdsBelow

(* A step that moves no id and creates none, but may drop messages.        *)
LEMMA IdFrame ==
  ASSUME IdInv,
         fromMon' \subseteq fromMon, toOSD' \subseteq toOSD,
         UNCHANGED <<pendingOSDID, osdCreated>>,
         \A t \in DOMAIN node' :
           \/ node'[t].ids = {}
           \/ t \in DOMAIN node /\ node'[t].ids = node[t].ids
  PROVE  IdInv'
<1>1. IdsBelow'
  BY DEF IdInv, IdsBelow
<1>2. OSDIdUnique'
  BY DEF IdInv, OSDIdUnique
<1> QED
  BY <1>1, <1>2 DEF IdInv

(* ceph osd create: a fresh id goes into an answer.                        *)
LEMMA IdRegister ==
  ASSUME TypeInv, IdInv, HandleRegisterOSD
  PROVE  IdInv'
<1> USE DEF TypeInv, TypeOK
<1>1. UNCHANGED <<node, pendingOSDID, toOSD>>
  BY DEF HandleRegisterOSD, RegisterOSD, schedulerVars, smVars
<1>2. PICK a \in [from : TaskID, id : Nat \cup {Garbage}] :
        /\ fromMon' = fromMon \cup {a}
        /\ \/ a.id = osdCreated /\ osdCreated' = osdCreated + 1
           \/ a.id = Garbage /\ osdCreated' = osdCreated
  <2>1. Head(toMon) \in TaskID
    BY DEF HandleRegisterOSD, RegisterOSD, MesosTypeOK
  <2>2. \A id \in Nat \cup {Garbage} :
          /\ [from |-> Head(toMon), id |-> id]
               \in [from : TaskID, id : Nat \cup {Garbage}]
          /\ [from |-> Head(toMon), id |-> id].id = id
    BY <2>1
  <2> QED
    BY <2>2 DEF HandleRegisterOSD, RegisterOSD
<1>3. /\ \A m \in fromMon : m.id \in Nat \cup {Garbage}
      /\ \A i \in 1 .. Len(pendingOSDID) : pendingOSDID[i] \in Nat
      /\ \A m \in toOSD : m.id \in Nat
      /\ \A t \in DOMAIN node : \A id \in node[t].ids : id \in Nat
  BY DEF StateMachineTypeOK, MesosTypeOK, Node
<1>4. IdsBelow'
  BY <1>1, <1>2, <1>3 DEF IdInv, IdsBelow, Garbage
<1>5. OSDIdUnique'
  BY <1>1, <1>2, <1>3 DEF IdInv, IdsBelow, OSDIdUnique, Garbage
<1> QED
  BY <1>4, <1>5 DEF IdInv

(* frameworkMessage: the id moves from an answer to pendingOSDID.          *)
LEMMA IdAnswer ==
  ASSUME TypeInv, IdInv, NEW a \in fromMon, DeliverAnswer(a)
  PROVE  IdInv'
<1> USE DEF TypeInv, TypeOK
<1>1. UNCHANGED <<node, toOSD, osdCreated>> /\ fromMon' = fromMon \ {a}
  BY DEF DeliverAnswer
<1>2. \/ pendingOSDID' = pendingOSDID
      \/ a.id # Garbage /\ pendingOSDID' = Append(pendingOSDID, a.id)
  BY DEF DeliverAnswer, frameworkMessage, addPendingOSDID
<1>3. CASE pendingOSDID' = pendingOSDID
  BY <1>1, <1>3, IdFrame
<1>4. CASE a.id # Garbage /\ pendingOSDID' = Append(pendingOSDID, a.id)
  <2>1. pendingOSDID \in Seq(Nat) /\ a.id \in Nat
    BY <1>4 DEF StateMachineTypeOK, MesosTypeOK
  <2>2. /\ Len(pendingOSDID') = Len(pendingOSDID) + 1
        /\ Len(pendingOSDID) \in Nat
        /\ \A i \in 1 .. Len(pendingOSDID) : pendingOSDID'[i] = pendingOSDID[i]
        /\ pendingOSDID'[Len(pendingOSDID) + 1] = a.id
    BY <1>4, <2>1
  <2>3. \A i \in 1 .. Len(pendingOSDID') :
          \/ i \in 1 .. Len(pendingOSDID) /\ pendingOSDID'[i] = pendingOSDID[i]
          \/ i = Len(pendingOSDID) + 1 /\ pendingOSDID'[i] = a.id
    BY <2>2
  <2>4. IdsBelow'
    BY <1>1, <2>3 DEF IdInv, IdsBelow
  <2>5. OSDIdUnique'
    BY <1>1, <1>4, <2>3 DEF IdInv, OSDIdUnique
  <2> QED
    BY <2>4, <2>5 DEF IdInv
<1> QED
  BY <1>2, <1>3, <1>4

(* What is left of a sequence without its last element.                    *)
LEMMA DropLast ==
  ASSUME NEW s \in Seq(Nat), NEW k \in Nat, Len(s) = k + 1
  PROVE  /\ Len(SubSeq(s, 1, k)) = k
         /\ \A i \in 1 .. k : SubSeq(s, 1, k)[i] = s[i]
  OBVIOUS

(* handleWaitingOSDTasks: the last pending id moves to a LAUNCH_OSD.       *)
LEMMA IdAssign ==
  ASSUME TypeInv, IdInv, osdCreated' = osdCreated,
         NEW t \in DOMAIN taskMap, AssignOSDID(t)
  PROVE  IdInv'
<1> USE DEF TypeInv, TypeOK
<1> DEFINE n == Len(pendingOSDID)
           a == [to |-> t, id |-> pendingOSDID[n]]
<1>1. UNCHANGED <<node, fromMon>> /\ toOSD' = toOSD \cup {a}
  BY DEF AssignOSDID
<1>2. pendingOSDID \in Seq(Nat) /\ n \in Nat \ {0}
  BY DEF AssignOSDID, StateMachineTypeOK
<1>3. /\ Len(pendingOSDID') = n - 1
      /\ \A i \in 1 .. n - 1 : pendingOSDID'[i] = pendingOSDID[i]
  <2>1. pendingOSDID' = SubSeq(pendingOSDID, 1, n - 1)
    BY DEF AssignOSDID
  <2>2. n - 1 \in Nat /\ Len(pendingOSDID) = (n - 1) + 1
    BY <1>2
  <2>3. /\ Len(SubSeq(pendingOSDID, 1, n - 1)) = n - 1
        /\ \A i \in 1 .. n - 1 :
             SubSeq(pendingOSDID, 1, n - 1)[i] = pendingOSDID[i]
    BY <1>2, <2>2, DropLast
  <2> QED
    BY <2>1, <2>3
<1>4. /\ \A i \in 1 .. Len(pendingOSDID') :
           i \in 1 .. n /\ i # n /\ pendingOSDID'[i] = pendingOSDID[i]
      /\ n \in 1 .. n
      /\ a.id = pendingOSDID[n]
  BY <1>2, <1>3
<1> HIDE DEF a
<1>5. IdsBelow'
  BY <1>1, <1>4 DEF IdInv, IdsBelow
<1>6. OSDIdUnique'
  BY <1>1, <1>4 DEF IdInv, OSDIdUnique
<1> QED
  BY <1>5, <1>6 DEF IdInv

(* LAUNCH_OSD arrives: the id moves to the executor.                       *)
LEMMA IdLaunch ==
  ASSUME TypeInv, IdInv, NEW m \in toOSD, HandleLaunchOSD(m) \/ StartFails(m)
  PROVE  IdInv'
<1> USE DEF TypeInv, TypeOK
<1>1. /\ UNCHANGED <<pendingOSDID, fromMon, osdCreated>>
      /\ toOSD' = toOSD \ {m}
  BY DEF HandleLaunchOSD, LaunchOSD, StartFails, LaunchOSDFails,
         schedulerVars, smVars
<1>2. m.to \in DOMAIN node
  BY DEF MesosTypeOK
<1>3. \E st : node' = [node EXCEPT ![m.to].st = st,
                                   ![m.to].ids = @ \cup {m.id}]
  BY DEF HandleLaunchOSD, LaunchOSD, StartFails, LaunchOSDFails
<1>4. /\ DOMAIN node' = DOMAIN node
      /\ node'[m.to].ids = node[m.to].ids \cup {m.id}
      /\ \A t \in DOMAIN node : t # m.to => node'[t].ids = node[t].ids
  BY <1>2, <1>3 DEF MesosTypeOK, Node
<1>5. IdsBelow'
  BY <1>1, <1>2, <1>4 DEF IdInv, IdsBelow
<1>6. OSDIdUnique'
  BY <1>1, <1>2, <1>4 DEF IdInv, OSDIdUnique
<1> QED
  BY <1>5, <1>6 DEF IdInv

(* A step of resourceOffers.                                               *)
LEMMA IdAgentStep ==
  ASSUME TypeInv, IdInv, AgentStep
  PROVE  IdInv'
<1>1. osdCreated' = osdCreated
  BY DEF AgentStep
<1>2. ASSUME NEW t \in DOMAIN taskMap, AssignOSDID(t)
      PROVE  IdInv'
  BY <1>1, <1>2, IdAssign
<1>3. CASE AssignDone \/ DeclineWrongRole \/ DeclineNotNow
           \/ DeclineNotEnough \/ DeclineNoRequest
  <2>1. UNCHANGED <<fromMon, toOSD, pendingOSDID, node>>
    BY <1>3 DEF AssignDone, DeclineWrongRole, DeclineNotNow,
                DeclineNotEnough, DeclineNoRequest, smVars, mesosVars
  <2> QED
    BY <1>1, <2>1, IdFrame
<1>4. CASE AcceptOffer
  <2>1. UNCHANGED <<fromMon, toOSD, pendingOSDID>>
    BY <1>4 DEF AcceptOffer
  <2>2. \E initial, source, p, j : launchTasks(newTask, initial, source, p, j)
    BY <1>4 DEF AcceptOffer, launchNode
  <2>3. /\ DOMAIN node' = DOMAIN node \cup {newTask}
        /\ node'[newTask].ids = {}
        /\ \A t \in DOMAIN node : t # newTask => node'[t] = node[t]
    BY <2>2 DEF launchTasks, Put
  <2> QED
    BY <1>1, <2>1, <2>3, IdFrame
<1> QED
  BY <1>2, <1>3, <1>4 DEF AgentStep

(* A step of an executor or of its slave that handles no LAUNCH_OSD.       *)
LEMMA IdExecutor ==
  ASSUME TypeInv, IdInv, NEW t \in DOMAIN node,
         LaunchTask(t) \/ LaunchFails(t) \/ ExecutorDies(t) \/ ContainerDies(t)
           \/ ContainerReturns(t)
  PROVE  IdInv'
<1>1. UNCHANGED <<fromMon, toOSD, pendingOSDID, osdCreated>>
  BY DEF LaunchTask, LaunchFails, ExecutorDies, ContainerDies,
         ContainerReturns, LaunchTaskOSD,
         LaunchTaskDaemon, FetchFails, LaunchTaskFails, schedulerVars, smVars
<1>2. \E st : SetState(t, st)
  BY DEF LaunchTask, LaunchFails, ExecutorDies, ContainerDies,
         ContainerReturns, LaunchTaskOSD,
         LaunchTaskDaemon, FetchFails, LaunchTaskFails
<1>3. /\ DOMAIN node' = DOMAIN node
      /\ \A u \in DOMAIN node : node'[u].ids = node[u].ids
  BY <1>2 DEF SetState, TypeInv, TypeOK, MesosTypeOK, Node
<1> QED
  BY <1>1, <1>3, IdFrame

(* Every step keeps the ids apart.                                         *)
LEMMA NextId == TypeInv /\ IdInv /\ [Next]_vars => IdInv'
<1> SUFFICES ASSUME TypeInv, IdInv, [Next]_vars PROVE IdInv'
  OBVIOUS
<1>1. ASSUME NEW batch \in Batches, ReceiveOffers(batch)
      PROVE  IdInv'
  <2>1. UNCHANGED <<fromMon, toOSD, pendingOSDID, osdCreated, node>>
    BY <1>1 DEF ReceiveOffers, resourceOffers, smVars, mesosVars
  <2> QED
    BY <2>1, IdFrame
<1>2. ASSUME NEW t \in DOMAIN node, DeliverUpdate(t) \/ RepeatUpdate(t)
      PROVE  IdInv'
  <2>1. UNCHANGED <<fromMon, toOSD, osdCreated, node>>
    BY <1>2 DEF DeliverUpdate, RepeatUpdate, execVars, mesosVars
  <2>2. pendingOSDID' = pendingOSDID
    BY <1>2 DEF DeliverUpdate, RepeatUpdate, statusUpdate,
                updateTaskToRunning, updateTaskToWaitingOSDID,
                updateTaskToFailed, smVars
  <2> QED
    BY <2>1, <2>2, IdFrame
<1>3. ASSUME NEW h \in Host,
             \/ DeliverDiskReady(h)
             \/ RepeatDiskReady(h)
             \/ PrepareDisks(h)
             \/ DiskDies(h)
             \/ \E d \in OSDDevs[h] \cup JNLDevs[h] : BadDisk(h, d)
      PROVE  IdInv'
  <2>1. UNCHANGED <<fromMon, toOSD, pendingOSDID, osdCreated, node>>
    BY <1>3 DEF DeliverDiskReady, RepeatDiskReady, PrepareDisks, DiskDies,
                BadDisk, DiskLaunchTask, statusUpdateDiskReady, schedulerVars,
                smVars, execVars, mesosVars
  <2> QED
    BY <2>1, IdFrame
<1>4. CASE LoseMessage
  <2>1. /\ fromMon' \subseteq fromMon /\ toOSD' \subseteq toOSD
        /\ UNCHANGED <<pendingOSDID, osdCreated, node>>
    BY <1>4 DEF LoseMessage, schedulerVars, smVars
  <2> QED
    BY <2>1, IdFrame
<1>5. ASSUME NEW n \in Instances, ReceiveRequest(n)
      PROVE  IdInv'
  <2>1. UNCHANGED <<fromMon, toOSD, pendingOSDID, osdCreated, node>>
    BY <1>5 DEF ReceiveRequest, processData, smVars, mesosVars
  <2> QED
    BY <2>1, IdFrame
<1>6. CASE UNCHANGED vars
  <2>1. UNCHANGED <<fromMon, toOSD, pendingOSDID, osdCreated, node>>
    BY <1>6 DEF vars, execVars, mesosVars, schedulerVars, smVars
  <2> QED
    BY <2>1, IdFrame
<1> QED
  BY <1>1, <1>2, <1>3, <1>4, <1>5, <1>6, IdAgentStep, IdExecutor, IdRegister,
     IdAnswer, IdLaunch DEF Next

(* Initially there is no OSD id anywhere.                                   *)
LEMMA InitId == Init => IdInv
<1> SUFFICES ASSUME Init PROVE IdInv
  OBVIOUS
<1>1. /\ fromMon = {} /\ toOSD = {} /\ pendingOSDID = << >>
      /\ DOMAIN node = {}
  BY DEF Init, StateMachineInit, MesosInit
<1> QED
  BY <1>1 DEF IdInv, OSDIdUnique, IdsBelow

(* However updates repeat, executors die and messages are lost, an OSD id  *)
(* handed out by "ceph osd create" is never in two places: no two OSD      *)
(* executors get the same id.                                              *)
THEOREM OSDIdsUnique == Spec => []OSDIdUnique
<1>1. TypeInv /\ IdInv /\ [Next]_vars => (TypeInv /\ IdInv)'
  BY NextType, NextId
<1>2. Init => TypeInv /\ IdInv
  BY InitType, InitId
<1>3. IdInv => OSDIdUnique
  BY DEF IdInv
<1> QED
  BY <1>1, <1>2, <1>3, PTL DEF Spec

-----------------------------------------------------------------------------
(* Tokens.  TokenUnique is inductive given the types: a task gets the      *)
(* token the index stands at, and no step moves an index backwards.        *)

(* A step that launches nothing and moves no index backwards.               *)
LEMMA TokenFrame ==
  ASSUME TypeInv, TokenUnique, DOMAIN taskMap' = DOMAIN taskMap,
         index' \in [TaskType -> Nat],
         \A ty \in TaskType : index[ty] <= index'[ty]
  PROVE  TokenUnique'
<1>1. \A t \in DOMAIN taskMap : t.type \in TaskType /\ t.token \in Nat
  BY DEF TypeInv, TypeOK, StateMachineTypeOK, TaskID
<1>2. index \in [TaskType -> Nat]
  BY DEF TypeInv, TypeOK, StateMachineTypeOK
<1>3. \A t \in DOMAIN taskMap : t.token < index'[t.type]
  BY <1>1, <1>2 DEF TokenUnique
<1> QED
  BY <1>3 DEF TokenUnique

(* A step that leaves the tokens and the tasks alone.                      *)
LEMMA TokenKept ==
  ASSUME TypeInv, TokenUnique, DOMAIN taskMap' = DOMAIN taskMap, index' = index
  PROVE  TokenUnique'
<1>1. /\ index' \in [TaskType -> Nat]
      /\ \A ty \in TaskType : index[ty] <= index'[ty]
  BY DEF TypeInv, TypeOK, StateMachineTypeOK
<1> QED
  BY <1>1, TokenFrame

(* The token of a new task is no other task's.                             *)
LEMMA TokenAccept ==
  ASSUME TypeInv, TokenUnique, AcceptOffer
  PROVE  TokenUnique'
<1> DEFINE ty == nextMoveType
<1>1. ty \in TaskType
  BY DEF nextMoveType, TaskType
<1>2. index \in [TaskType -> Nat]
  BY DEF TypeInv, TypeOK, StateMachineTypeOK
<1>3. DOMAIN taskMap' = DOMAIN taskMap \cup {newTask}
  BY DEF AcceptOffer, addStagingTask, Put
<1>4. newTask.type = ty /\ newTask.token = index[ty]
  BY DEF newTask
<1>5. index' = [index EXCEPT ![ty] = @ + 1]
  BY DEF AcceptOffer, takeToken
<1>6. \A t \in DOMAIN taskMap : t.type \in TaskType /\ t.token \in Nat
  BY DEF TypeInv, TypeOK, StateMachineTypeOK, TaskID
<1> HIDE DEF ty
<1>7. \A t \in DOMAIN taskMap : t.token < index'[t.type]
  BY <1>1, <1>2, <1>5, <1>6 DEF TokenUnique
<1>8. newTask.token < index'[newTask.type]
  BY <1>1, <1>2, <1>4, <1>5
<1>9. \A t \in DOMAIN taskMap : t.type = ty => t.token # newTask.token
  BY <1>1, <1>2, <1>4, <1>6 DEF TokenUnique
<1> QED
  BY <1>3, <1>4, <1>7, <1>8, <1>9 DEF TokenUnique

(* Every step keeps the tokens apart.                                      *)
LEMMA NextToken == TypeInv /\ TokenUnique /\ [Next]_vars => TokenUnique'
<1> SUFFICES ASSUME TypeInv, TokenUnique, [Next]_vars PROVE TokenUnique'
  OBVIOUS
<1>1. CASE AgentStep
  <2>1. ASSUME NEW t \in DOMAIN taskMap, AssignOSDID(t)
        PROVE  TokenUnique'
    BY <2>1, TokenKept DEF AssignOSDID, updateTaskToStarting, TypeInv, TypeOK,
                           StateMachineTypeOK
  <2>2. CASE AssignDone \/ DeclineWrongRole \/ DeclineNotNow
    BY <2>2, TokenKept DEF AssignDone, DeclineWrongRole, DeclineNotNow, smVars
  <2>3. CASE DeclineNotEnough \/ DeclineNoRequest
    <3>1. DOMAIN taskMap' = DOMAIN taskMap
      BY <2>3 DEF DeclineNotEnough, DeclineNoRequest
    <3>2. nextMoveType \in TaskType /\ index \in [TaskType -> Nat]
      BY DEF nextMoveType, TaskType, TypeInv, TypeOK, StateMachineTypeOK
    <3>3. CASE DeclineNotEnough
      <4>1. index' = [index EXCEPT ![nextMoveType] = @ + 1]
        BY <3>3 DEF DeclineNotEnough, takeToken
      <4>2. /\ index' \in [TaskType -> Nat]
            /\ \A ty \in TaskType : index[ty] <= index'[ty]
        BY <3>2, <4>1
      <4> QED
        BY <3>1, <4>2, TokenFrame
    <3>4. CASE DeclineNoRequest
      <4>1. index' = [[index EXCEPT ![nextMoveType] = @ + 1]
                        EXCEPT !["OSD"] = @ - 1]
        BY <3>4 DEF DeclineNoRequest, takeToken, decreaseOSDIndex
      <4>2. nextMoveType = "OSD"
        BY <3>4 DEF DeclineNoRequest, considerOffer, nextOffer, TypeInv,
                    PhaseSeenFresh, nextMoveType
      <4>3. index' = index
        BY <3>2, <4>1, <4>2
      <4> QED
        BY <3>1, <4>3, TokenKept
    <3> QED
      BY <2>3, <3>3, <3>4
  <2>4. CASE AcceptOffer
    BY <2>4, TokenAccept
  <2> QED
    BY <1>1, <2>1, <2>2, <2>3, <2>4 DEF AgentStep
<1>2. ASSUME NEW t \in DOMAIN node, DeliverUpdate(t) \/ RepeatUpdate(t)
      PROVE  TokenUnique'
  <2>1. index' = index /\ DOMAIN taskMap' = DOMAIN taskMap
    BY <1>2 DEF DeliverUpdate, RepeatUpdate, statusUpdate,
                updateTaskToRunning, updateTaskToWaitingOSDID,
                updateTaskToFailed, smVars
  <2> QED
    BY <2>1, TokenKept
<1>3. CASE /\ ~ AgentStep
           /\ \A t \in DOMAIN node : ~ DeliverUpdate(t) /\ ~ RepeatUpdate(t)
  <2>1. UNCHANGED <<index, taskMap>>
    BY <1>3 DEF Next, vars, ReceiveOffers, resourceOffers, LaunchTask,
                LaunchFails, ExecutorDies, ContainerDies,
                ContainerReturns, DeliverDiskReady,
                RepeatDiskReady, statusUpdateDiskReady, PrepareDisks, DiskDies,
                BadDisk, DeliverAnswer, frameworkMessage, HandleLaunchOSD,
                StartFails, HandleRegisterOSD, LoseMessage, ReceiveRequest,
                processData, schedulerVars, smVars
  <2> QED
    BY <2>1, TokenKept
<1> QED
  BY <1>1, <1>2, <1>3

(* No two tasks of a type ever share a token, hence a container name,      *)
(* although small offers burn tokens and decreaseOSDIndex gives them back. *)
THEOREM TokensUnique == Spec => []TokenUnique
<1>1. Init => TypeInv /\ TokenUnique
  BY InitType DEF Init, StateMachineInit, TokenUnique
<1>2. TypeInv /\ TokenUnique /\ [Next]_vars => (TypeInv /\ TokenUnique)'
  BY NextType, NextToken
<1> QED
  BY <1>1, <1>2, PTL DEF Spec

-----------------------------------------------------------------------------
(* Labels: what a task was launched with stays with it.                    *)

(* Only AcceptOffer adds a task, and no step changes the flag, the source  *)
(* or the disks of a task that is there.                                   *)
LEMMA LabelsKept ==
  ASSUME TypeInv, [Next]_vars, ~ AcceptOffer
  PROVE  /\ DOMAIN taskMap' = DOMAIN taskMap
         /\ DOMAIN node' = DOMAIN node
         /\ \A t \in DOMAIN node : /\ node'[t].initial = node[t].initial
                                   /\ node'[t].source = node[t].source
                                   /\ node'[t].osddisk = node[t].osddisk
                                   /\ node'[t].jnldisk = node[t].jnldisk
<1> DEFINE Kept(n) == /\ DOMAIN n = DOMAIN node
                      /\ \A t \in DOMAIN node :
                           /\ n[t].initial = node[t].initial
                           /\ n[t].source = node[t].source
                           /\ n[t].osddisk = node[t].osddisk
                           /\ n[t].jnldisk = node[t].jnldisk
<1>1. /\ node \in [DOMAIN node -> Node]
      /\ DOMAIN node = DOMAIN taskMap
      /\ DOMAIN node' = DOMAIN taskMap'
  BY NextType DEF TypeInv, TypeOK, MesosTypeOK
<1>2. ASSUME NEW t \in DOMAIN node,
             LaunchTask(t) \/ LaunchFails(t) \/ ExecutorDies(t)
               \/ ContainerDies(t)
               \/ ContainerReturns(t)
      PROVE  Kept(node')
  <2>1. \E st : node' = [node EXCEPT ![t].st = st]
    BY <1>2 DEF LaunchTask, LaunchFails, ExecutorDies, ContainerDies,
                ContainerReturns,
                LaunchTaskOSD, LaunchTaskDaemon, FetchFails, LaunchTaskFails,
                SetState
  <2> QED
    BY <1>1, <2>1 DEF Node
<1>3. ASSUME NEW m \in toOSD, HandleLaunchOSD(m) \/ StartFails(m)
      PROVE  Kept(node')
  <2>1. \E st : node' = [node EXCEPT ![m.to].st = st,
                                    ![m.to].ids = @ \cup {m.id}]
    BY <1>3 DEF HandleLaunchOSD, LaunchOSD, StartFails, LaunchOSDFails
  <2> QED
    BY <1>1, <2>1 DEF Node
<1>4. CASE /\ \A t \in DOMAIN node :
                ~ (LaunchTask(t) \/ LaunchFails(t) \/ ExecutorDies(t)
                     \/ ContainerDies(t)
                     \/ ContainerReturns(t))
           /\ \A m \in toOSD : ~ (HandleLaunchOSD(m) \/ StartFails(m))
  <2>1. node' = node
    BY <1>4 DEF Next, vars, AgentStep, AssignOSDID, AssignDone,
                DeclineWrongRole, DeclineNotNow, DeclineNotEnough,
                DeclineNoRequest, ReceiveOffers, resourceOffers,
                DeliverUpdate, RepeatUpdate, DeliverDiskReady,
                RepeatDiskReady, PrepareDisks, DiskDies, BadDisk,
                DiskLaunchTask, DeliverAnswer, HandleRegisterOSD,
                RegisterOSD, LoseMessage, ReceiveRequest, processData,
                execVars, mesosVars
  <2> QED
    BY <1>1, <2>1
<1>5. Kept(node')
  BY <1>2, <1>3, <1>4
<1> QED
  BY <1>1, <1>5
=============================================================================
