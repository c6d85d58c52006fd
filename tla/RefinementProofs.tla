-------------------------- MODULE RefinementProofs --------------------------
(***************************************************************************)
(* The framework implements ClusterService and FlexUpService, for every    *)
(* number of hosts, OSDs, requests and faults.                             *)
(***************************************************************************)
EXTENDS ClusterProofs, CephMesosRefinement

(* The two functions that the refinement mapping gives to ClusterService.  *)
Size == [ty \in TaskType |-> Cardinality(Alive(ty))]
Known == [ty \in TaskType |-> Cardinality(Running(ty))]

(* ClusterService speaks of daemons where the scheduler speaks of types.   *)
LEMMA DaemonTypes == Service!Daemon = TaskType
BY DEF Service!Daemon, TaskType

(* The initial states of the framework are initial states of the service.  *)
LEMMA InitService == Init => Service!Init
<1> SUFFICES ASSUME Init PROVE Service!Init
  OBVIOUS
<1>1. DOMAIN taskMap = {} /\ granted = 0
  BY DEF Init, StateMachineInit, AgentInit
<1>2. \A ty : Alive(ty) = {} /\ Running(ty) = {}
  BY <1>1 DEF Alive, Running, Tasks
<1>3. \A ty : Cardinality(Alive(ty)) = 0 /\ Cardinality(Running(ty)) = 0
  BY <1>2, FS_EmptySet
<1> QED
  BY <1>1, <1>3, DaemonTypes DEF Service!Init

(* A step that moves neither count is a stuttering step of the service.    *)
LEMMA ServiceStutters ==
  ASSUME \A ty \in TaskType : /\ Alive(ty)' = Alive(ty)
                              /\ Running(ty)' = Running(ty),
         granted' = granted
  PROVE  UNCHANGED Service!serviceVars
BY DEF Service!serviceVars

(* A status that changes is news about one daemon, or none.                *)
LEMMA LearnStep ==
  ASSUME TypeInv, CountInv, NEW t \in DOMAIN taskMap, NEW new,
         taskMap' = [taskMap EXCEPT ![t] = new],
         node' = node, granted' = granted
  PROVE  [Service!Next]_(Service!serviceVars)
<1>1. t.type \in TaskType
  BY DEF TypeInv, TypeOK, StateMachineTypeOK, TaskID
<1>2. /\ DOMAIN taskMap' = DOMAIN taskMap
      /\ \A v \in DOMAIN taskMap :
           taskMap'[v] = IF v = t THEN new ELSE taskMap[v]
  OBVIOUS
<1>3. \A ty \in TaskType :
        /\ Alive(ty)' = Alive(ty)
        /\ ty # t.type => Running(ty)' = Running(ty)
  BY <1>2 DEF Alive, Running, Tasks
<1> DEFINE r == Running(t.type)
<1>4. IsFiniteSet(r) /\ Cardinality(r) \in Nat
  BY FiniteTasks DEF CountInv
<1>5. CASE new = "RUNNING" /\ taskMap[t] # "RUNNING"
  <2>1. r' = r \cup {t} /\ t \notin r
    BY <1>2, <1>5 DEF Running, Tasks
  <2>2. Cardinality(r') = Cardinality(r) + 1
    BY <1>4, <2>1, FS_AddElement
  <2>3. Known' = [Known EXCEPT ![t.type] = @ + 1]
    BY <1>1, <1>3, <2>2 DEF Known
  <2>4. Service!Learn(t.type, 1)
    BY <1>1, <1>3, <1>4, <2>3 DEF Service!Learn, Known
  <2> QED
    BY <1>1, <2>4, DaemonTypes DEF Service!Next
<1>6. CASE new # "RUNNING" /\ taskMap[t] = "RUNNING"
  <2>1. r' = r \ {t} /\ t \in r
    BY <1>2, <1>6 DEF Running, Tasks
  <2>2. /\ Cardinality(r') = Cardinality(r) - 1
        /\ Cardinality(r') \in Nat
    BY <1>4, <2>1, FS_RemoveElement, FS_CardinalityType
  <2>3. Known' = [Known EXCEPT ![t.type] = @ + (-1)]
    BY <1>1, <1>3, <1>4, <2>2 DEF Known
  <2>4. Service!Learn(t.type, -1)
    BY <1>1, <1>3, <1>4, <2>2, <2>3 DEF Service!Learn, Known
  <2> QED
    BY <1>1, <2>4, DaemonTypes DEF Service!Next
<1>7. CASE (new = "RUNNING") = (taskMap[t] = "RUNNING")
  <2>1. r' = r
    BY <1>2, <1>7 DEF Running, Tasks
  <2> QED
    BY <1>3, <2>1, ServiceStutters
<1> QED
  BY <1>5, <1>6, <1>7

(* An executor that changes its state is gone if it is dead now.           *)
LEMMA GoneStep ==
  ASSUME TypeInv, CountInv, UNCHANGED <<taskMap, granted>>,
         NEW t \in DOMAIN node, DOMAIN node' = DOMAIN node,
         node[t].st # "dead",
         \A v \in DOMAIN node : v # t => node'[v].st = node[v].st
  PROVE  [Service!Next]_(Service!serviceVars)
<1>1. t.type \in TaskType /\ DOMAIN node = DOMAIN taskMap
  BY DEF TypeInv, TypeOK, StateMachineTypeOK, MesosTypeOK, TaskID
<1>2. \A ty \in TaskType :
        /\ Running(ty)' = Running(ty)
        /\ ty # t.type => Alive(ty)' = Alive(ty)
  BY <1>1 DEF Alive, Running, Tasks
<1> DEFINE a == Alive(t.type)
<1>3. IsFiniteSet(a) /\ Cardinality(a) \in Nat
  BY FiniteTasks DEF CountInv
<1>4. CASE node'[t].st = "dead"
  <2>1. a' = a \ {t} /\ t \in a
    BY <1>1, <1>4 DEF Alive, Tasks
  <2>2. /\ Cardinality(a') = Cardinality(a) - 1
        /\ Cardinality(a') \in Nat
    BY <1>3, <2>1, FS_RemoveElement, FS_CardinalityType
  <2>3. Size' = [Size EXCEPT ![t.type] = @ - 1]
    BY <1>1, <1>2, <2>2 DEF Size
  <2>4. Service!Gone(t.type)
    BY <1>1, <1>2, <1>3, <2>2, <2>3 DEF Service!Gone, Size
  <2> QED
    BY <1>1, <2>4, DaemonTypes DEF Service!Next
<1>5. CASE node'[t].st # "dead"
  <2>1. a' = a
    BY <1>1, <1>5 DEF Alive, Tasks
  <2> QED
    BY <1>2, <2>1, ServiceStutters
<1> QED
  BY <1>4, <1>5

(* A task that resourceOffers launches is a daemon whose prerequisites run *)
(* and for which there is room, or one that serves a flex-up request of a  *)
(* complete cluster.                                                       *)
LEMMA LaunchStep ==
  ASSUME ClusterInv, AcceptOffer
  PROVE  Service!Next
<1> USE DEF ClusterInv
<1>0. PICK nt : nt = newTask
  OBVIOUS
<1>1. nt.type = nextMoveType /\ nt.token = index[nextMoveType]
  BY <1>0 DEF newTask
<1>2. /\ nt.type \in TaskType /\ index[nt.type] \in Nat
      /\ granted \in Nat /\ OSDNum \in Nat \ {0}
      /\ stagingNum[nt.type] + runningNum[nt.type] \in Int
  BY <1>1, NextMoveTypeType, StateMachineAssumption
     DEF TypeInv, TypeOK, StateMachineTypeOK, AgentTypeOK
<1>3. nt \notin DOMAIN taskMap /\ DOMAIN node = DOMAIN taskMap
  BY <1>1, <1>2 DEF TokenUnique, TypeInv, TypeOK, MesosTypeOK
<1>4. /\ DOMAIN taskMap' = DOMAIN taskMap \cup {nt}
      /\ taskMap'[nt] = "STAGING"
      /\ \A v \in DOMAIN taskMap : taskMap'[v] = taskMap[v]
  BY <1>0, <1>3 DEF AcceptOffer, addStagingTask, Put
<1>5. /\ node'[nt].st = "launched"
      /\ \A v \in DOMAIN taskMap : node'[v] = node[v]
  <2>1. \E initial, source, p, j : launchTasks(nt, initial, source, p, j)
    BY <1>0 DEF AcceptOffer, launchNode
  <2> QED
    BY <1>3, <2>1 DEF launchTasks, Put
<1> DEFINE a == Alive(nt.type)
<1>6. /\ \A ty \in TaskType :
           /\ Running(ty)' = Running(ty)
           /\ ty # nt.type => Alive(ty)' = Alive(ty)
      /\ a' = a \cup {nt} /\ nt \notin a
  BY <1>3, <1>4, <1>5 DEF Running, Alive, Tasks
<1>7. /\ IsFiniteSet(a) /\ Cardinality(a) \in Nat
      /\ Cardinality(a') = Cardinality(a) + 1
  <2>1. IsFiniteSet(a) /\ Cardinality(a) \in Nat
    BY FiniteTasks DEF CountInv
  <2>2. a' = a \cup {nt} /\ nt \notin a
    BY <1>6
  <2> HIDE DEF a
  <2> QED
    BY <2>1, <2>2, FS_AddElement
<1>8. /\ Size' = [Size EXCEPT ![nt.type] = @ + 1]
      /\ Known' = Known
  BY <1>2, <1>6, <1>7 DEF Size, Known
<1>9. /\ PhaseHonest
      /\ \A ty \in TaskType : Cardinality(Running(ty)) \in Nat
  BY ClusterInvHonest, FiniteTasks DEF CountInv
<1>10. /\ nextMove(hostConfig)
       /\ phaseSeen = currentPhase
       /\ \/ phaseSeen # "WAINTING_REQUEST" /\ granted' = granted
          \/ phaseSeen = "WAINTING_REQUEST" /\ granted' = granted + 1
  BY DEF AcceptOffer, considerOffer, nextOffer, TypeInv, PhaseSeenFresh,
         fetchPendingRESTfulRequest
<1>11. CASE currentPhase = "WAINTING_REQUEST"
  <2>1. nt.type = "OSD" /\ granted' = granted + 1
    BY <1>1, <1>10, <1>11 DEF nextMoveType
  <2>2. /\ Known["MON"] >= 1 /\ Known["OSD"] >= OSDNum /\ Known["OSD"] >= 1
        /\ Known["RADOSGW"] >= 1
    BY <1>2, <1>9, <1>11 DEF PhaseHonest, Known, TaskType
  <2>3. Service!Complete
    BY <2>2 DEF Service!Complete, Service!Ready, Service!Daemon, Known
  <2>4. Service!Serve
    BY <1>8, <2>1, <2>3 DEF Service!Serve, Size, Known
  <2> QED
    BY <2>4 DEF Service!Next
<1>12. CASE currentPhase # "WAINTING_REQUEST"
  <2>1. granted' = granted
    BY <1>10, <1>12
  <2>2. LET sum == stagingNum[nt.type] + runningNum[nt.type]
        IN  \/ nt.type # "OSD" /\ sum < 1
            \/ nt.type = "OSD" /\ sum < OSDNum
    BY <1>1, <1>10, <1>12, NextMoveRoom
  <2>3. Cardinality(a) <= stagingNum[nt.type] + runningNum[nt.type]
    <3>1. a \subseteq Counted(nt.type)
      BY <1>3 DEF Alive, Counted, Tasks, UpdateOrder, TaskOrder
    <3>2. /\ Cardinality(a) <= Cardinality(Counted(nt.type))
          /\ Cardinality(Counted(nt.type)) \in Nat
      BY <3>1, FiniteTasks, FS_Subset DEF CountInv
    <3>3. Cardinality(Counted(nt.type))
            <= stagingNum[nt.type] + runningNum[nt.type]
      BY <1>2 DEF CountInv
    <3> QED
      BY <1>2, <1>7, <3>2, <3>3
  <2>4. Size[nt.type] < IF nt.type = "OSD" THEN OSDNum + granted ELSE 1
    BY <1>2, <1>7, <2>2, <2>3 DEF Size
  <2>5. /\ nt.type \in {"OSD", "RADOSGW"} => Known["MON"] >= 1
        /\ nt.type = "RADOSGW" => Known["OSD"] >= OSDNum
    BY <1>1, <1>9 DEF PhaseHonest, nextMoveType, Known, TaskType
  <2>6. Service!Launch(nt.type)
    BY <1>8, <2>1, <2>4, <2>5
       DEF Service!Launch, Service!Ready, Service!Wanted, Size, Known
  <2> QED
    BY <1>2, <2>6, DaemonTypes DEF Service!Next
<1> QED
  BY <1>11, <1>12

(* Every step of the framework is a step of the service or none.           *)
LEMMA NextService ==
  ClusterInv /\ [Next]_vars => [Service!Next]_(Service!serviceVars)
<1> SUFFICES ASSUME ClusterInv, [Next]_vars
             PROVE  [Service!Next]_(Service!serviceVars)
  OBVIOUS
<1> USE DEF ClusterInv
<1>0. /\ DOMAIN node = DOMAIN taskMap /\ node \in [DOMAIN node -> Node]
      /\ \A m \in toOSD : m.to \in DOMAIN node
  BY DEF TypeInv, TypeOK, MesosTypeOK
<1>1. ASSUME NEW t \in DOMAIN node, DeliverUpdate(t) \/ RepeatUpdate(t)
      PROVE  [Service!Next]_(Service!serviceVars)
  <2>1. /\ updates[t] # << >> /\ statusUpdate(t, Head(updates[t]))
        /\ UNCHANGED <<node, granted>>
    BY <1>1 DEF DeliverUpdate, RepeatUpdate, statusUpdate, agentVars,
                execVars, mesosVars
  <2>2. \/ taskMap' = taskMap
        \/ \E new : taskMap' = [taskMap EXCEPT ![t] = new]
    BY <2>1, StatusAfter DEF smVars
  <2>3. CASE taskMap' = taskMap
    BY <2>1, <2>3, ServiceStutters DEF Alive, Running, Tasks
  <2> QED
    BY <1>0, <2>1, <2>2, <2>3, LearnStep
<1>2. ASSUME NEW t \in DOMAIN taskMap, AssignOSDID(t)
      PROVE  [Service!Next]_(Service!serviceVars)
  <2>1. /\ taskMap' = [taskMap EXCEPT ![t] = "STARTING"]
        /\ UNCHANGED <<node, granted>>
    BY <1>2 DEF AssignOSDID, updateTaskToStarting, agentVars
  <2> QED
    BY <2>1, LearnStep
<1>3. ASSUME NEW t \in DOMAIN node,
             LaunchTask(t) \/ LaunchFails(t) \/ ExecutorDies(t)
               \/ ContainerDies(t)
               \/ ContainerReturns(t)
      PROVE  [Service!Next]_(Service!serviceVars)
  <2>1. /\ node[t].st # "dead"
        /\ \E st : node' = [node EXCEPT ![t].st = st]
    BY <1>3 DEF LaunchTask, LaunchFails, ExecutorDies, ContainerDies,
                ContainerReturns,
                LaunchTaskOSD, LaunchTaskDaemon, FetchFails, LaunchTaskFails,
                SetState
  <2>2. UNCHANGED <<taskMap, granted>>
    BY <1>3 DEF LaunchTask, LaunchFails, ExecutorDies, ContainerDies,
                ContainerReturns,
                schedulerVars, smVars, agentVars
  <2>3. /\ DOMAIN node' = DOMAIN node
        /\ \A v \in DOMAIN node : v # t => node'[v] = node[v]
    BY <1>0, <2>1
  <2> QED
    BY <2>1, <2>2, <2>3, GoneStep
<1>4. ASSUME NEW m \in toOSD, HandleLaunchOSD(m) \/ StartFails(m)
      PROVE  [Service!Next]_(Service!serviceVars)
  <2>1. /\ node[m.to].st # "dead"
        /\ \E st : node' = [node EXCEPT ![m.to].st = st,
                                        ![m.to].ids = @ \cup {m.id}]
    BY <1>4 DEF HandleLaunchOSD, LaunchOSD, StartFails, LaunchOSDFails
  <2>2. UNCHANGED <<taskMap, granted>>
    BY <1>4 DEF HandleLaunchOSD, StartFails, schedulerVars, smVars, agentVars
  <2>3. /\ DOMAIN node' = DOMAIN node
        /\ \A v \in DOMAIN node : v # m.to => node'[v] = node[v]
    BY <1>0, <2>1
  <2> QED
    BY <1>0, <2>1, <2>2, <2>3, GoneStep
<1>5. CASE \/ \E batch \in Batches : ReceiveOffers(batch)
           \/ AssignDone \/ DeclineWrongRole \/ DeclineNotNow
           \/ DeclineNotEnough \/ DeclineNoRequest
           \/ \E h \in Host : \/ DeliverDiskReady(h)
                              \/ PrepareDisks(h)
                              \/ RepeatDiskReady(h)
                              \/ DiskDies(h)
                              \/ \E d \in OSDDevs[h] \cup JNLDevs[h] :
                                   BadDisk(h, d)
           \/ \E m \in fromMon : DeliverAnswer(m)
           \/ HandleRegisterOSD
           \/ LoseMessage
           \/ \E n \in Instances : ReceiveRequest(n)
           \/ UNCHANGED vars
  <2>1. UNCHANGED <<taskMap, node, granted>>
    BY <1>5 DEF ReceiveOffers, resourceOffers, AssignDone, DeclineWrongRole,
                DeclineNotNow, DeclineNotEnough, DeclineNoRequest,
                DeliverDiskReady, statusUpdateDiskReady, PrepareDisks,
                RepeatDiskReady, DiskDies, BadDisk, DiskLaunchTask,
                DeliverAnswer, frameworkMessage, HandleRegisterOSD,
                RegisterOSD, LoseMessage, ReceiveRequest, processData, vars,
                execVars, mesosVars, schedulerVars, smVars, agentVars
  <2> QED
    BY <2>1, ServiceStutters DEF Alive, Running, Tasks
<1> QED
  BY <1>1, <1>2, <1>3, <1>4, <1>5, LaunchStep DEF Next, AgentStep

(* The framework implements ClusterService: whatever fails, is repeated or *)
(* lost, it launches a daemon only when those it needs are known to run,   *)
(* only up to the number wanted, and more OSDs only for requests and only  *)
(* with a complete cluster.                                                *)
THEOREM ImplementsCluster == Spec => ImplementsClusterService
BY InitService, NextService, InitCluster, NextCluster, PTL
   DEF Spec, ImplementsClusterService, Service!Spec

-----------------------------------------------------------------------------
(* Flex-up requests.  The sums of the queue are strictly decreasing, since *)
(* no request in it is empty: that bounds them, and leaves something for   *)
(* fetchPendingRESTfulRequest to take.                                     *)

Remaining(left) ==
  /\ left[Len(pendingOSD) + 1] = 0
  /\ \A i \in 1 .. Len(pendingOSD) : left[i] = pendingOSD[i] + left[i + 1]
  /\ \A i \in 1 .. Len(pendingOSD) + 1, j \in 1 .. Len(pendingOSD) + 1 :
       i < j => left[j] < left[i]
  /\ requested = granted + left[1]

QueueInv == \E left \in [1 .. Len(pendingOSD) + 1 -> Nat] : Remaining(left)

(* A request that is queued is added to every sum.                         *)
LEMMA QueueAppend ==
  ASSUME TypeInv, QueueInv, NEW n \in Nat \ {0}, granted' = granted,
         requested' = requested + n, pendingOSD' = Append(pendingOSD, n)
  PROVE  QueueInv'
<1>0. PICK len : len = Len(pendingOSD)
  OBVIOUS
<1>1. /\ pendingOSD \in Seq(Nat \ {0}) /\ len \in Nat
      /\ requested \in Nat /\ granted \in Nat
  BY <1>0 DEF TypeInv, TypeOK, AgentTypeOK
<1>2. PICK left \in [1 .. len + 1 -> Nat] : Remaining(left)
  BY <1>0 DEF QueueInv
<1>3. /\ Len(pendingOSD') = len + 1
      /\ \A i \in 1 .. len : pendingOSD'[i] = pendingOSD[i]
      /\ pendingOSD'[len + 1] = n
      /\ \A i \in 1 .. len : pendingOSD[i] \in Nat
  BY <1>0, <1>1
<1>4. /\ left[len + 1] = 0
      /\ \A i \in 1 .. len : left[i] = pendingOSD[i] + left[i + 1]
      /\ \A i \in 1 .. len + 1, j \in 1 .. len + 1 :
           i < j => left[j] < left[i]
      /\ requested = granted + left[1]
  BY <1>0, <1>2 DEF Remaining
<1>5. \A i \in 1 .. len + 1 : left[i] \in Nat
  BY <1>2
<1>6. PICK new \in [1 .. len + 2 -> Nat] :
        /\ new[len + 2] = 0
        /\ \A i \in 1 .. len + 1 : new[i] = left[i] + n
  <2> DEFINE f == [i \in 1 .. len + 2 |->
                     IF i = len + 2 THEN 0 ELSE left[i] + n]
  <2>1. f \in [1 .. len + 2 -> Nat]
    BY <1>1, <1>5
  <2>2. f[len + 2] = 0 /\ \A i \in 1 .. len + 1 : f[i] = left[i] + n
    BY <1>1
  <2> QED
    BY <2>1, <2>2
<1>7. \A i \in 1 .. len + 1 : new[i] = pendingOSD'[i] + new[i + 1]
  <2> TAKE i \in 1 .. len + 1
  <2>1. CASE i = len + 1
    BY <1>1, <1>3, <1>4, <1>6, <2>1
  <2>2. CASE i # len + 1
    <3>1. i \in 1 .. len /\ i + 1 \in 1 .. len + 1
      BY <1>1, <2>2
    <3>2. new[i] = left[i] + n /\ new[i + 1] = left[i + 1] + n
      BY <1>6, <3>1
    <3>3. /\ left[i] = pendingOSD[i] + left[i + 1]
          /\ left[i + 1] \in Nat /\ pendingOSD[i] \in Nat
      BY <1>3, <1>4, <1>5, <3>1
    <3> QED
      BY <1>3, <3>1, <3>2, <3>3
  <2> QED
    BY <2>1, <2>2
<1>8. \A i \in 1 .. len + 2, j \in 1 .. len + 2 : i < j => new[j] < new[i]
  <2> TAKE i \in 1 .. len + 2, j \in 1 .. len + 2
  <2> HAVE i < j
  <2>1. i \in 1 .. len + 1 /\ left[i] \in Nat /\ new[i] = left[i] + n
    BY <1>1, <1>5, <1>6
  <2>2. CASE j = len + 2
    BY <1>6, <2>1, <2>2
  <2>3. CASE j # len + 2
    <3>1. j \in 1 .. len + 1 /\ left[j] \in Nat /\ new[j] = left[j] + n
      BY <1>1, <1>5, <1>6, <2>3
    <3>2. left[j] < left[i]
      BY <1>4, <2>1, <3>1
    <3> QED
      BY <2>1, <3>1, <3>2
  <2> QED
    BY <2>2, <2>3
<1>9. requested' = granted' + new[1]
  BY <1>1, <1>4, <1>5, <1>6
<1>10. Len(pendingOSD') + 1 = len + 2
  BY <1>1, <1>3
<1>11. Remaining(new)'
  BY <1>3, <1>6, <1>7, <1>8, <1>9, <1>10 DEF Remaining
<1> QED
  BY <1>10, <1>11 DEF QueueInv

(* fetchPendingRESTfulRequest takes one instance, and there is one.        *)
LEMMA QueueFetch ==
  ASSUME TypeInv, QueueInv, requested' = requested,
         fetchPendingRESTfulRequest
  PROVE  QueueInv' /\ granted + 1 <= requested
<1>0. PICK len : len = Len(pendingOSD)
  OBVIOUS
<1>1. /\ pendingOSD \in Seq(Nat \ {0}) /\ len \in Nat \ {0}
      /\ requested \in Nat /\ granted \in Nat /\ granted' = granted + 1
  BY <1>0 DEF TypeInv, TypeOK, AgentTypeOK, fetchPendingRESTfulRequest
<1>2. PICK left \in [1 .. len + 1 -> Nat] : Remaining(left)
  BY <1>0 DEF QueueInv
<1>3. /\ left[len + 1] = 0
      /\ \A i \in 1 .. len : left[i] = pendingOSD[i] + left[i + 1]
      /\ \A i \in 1 .. len + 1, j \in 1 .. len + 1 :
           i < j => left[j] < left[i]
      /\ requested = granted + left[1]
  BY <1>0, <1>2 DEF Remaining
<1>4. /\ Head(pendingOSD) = pendingOSD[1]
      /\ \A i \in 1 .. len : pendingOSD[i] \in Nat \ {0}
      /\ \A i \in 1 .. len + 1 : left[i] \in Nat
  BY <1>0, <1>1, <1>2
<1>5. left[1] = pendingOSD[1] + left[2] /\ left[1] \in Nat /\ left[2] \in Nat
  BY <1>1, <1>3, <1>4
<1>6. granted + 1 <= requested
  BY <1>1, <1>3, <1>4, <1>5
<1>7. CASE pendingOSD[1] - 1 = 0
  <2>1. /\ Len(pendingOSD') = len - 1
        /\ \A i \in 1 .. len - 1 : pendingOSD'[i] = pendingOSD[i + 1]
    BY <1>0, <1>1, <1>4, <1>7 DEF fetchPendingRESTfulRequest
  <2>2. PICK new \in [1 .. len -> Nat] :
          \A i \in 1 .. len : new[i] = left[i + 1]
    <3>1. [i \in 1 .. len |-> left[i + 1]] \in [1 .. len -> Nat]
      BY <1>1, <1>4
    <3> QED
      BY <3>1
  <2>3. \A i \in 1 .. len - 1 : new[i] = pendingOSD'[i] + new[i + 1]
    <3> TAKE i \in 1 .. len - 1
    <3>1. i \in 1 .. len /\ i + 1 \in 1 .. len
      BY <1>1
    <3>2. left[i + 1] = pendingOSD[i + 1] + left[(i + 1) + 1]
      BY <1>3, <3>1
    <3> QED
      BY <2>1, <2>2, <3>1, <3>2
  <2>4. \A i \in 1 .. len, j \in 1 .. len : i < j => new[j] < new[i]
    <3> TAKE i \in 1 .. len, j \in 1 .. len
    <3> HAVE i < j
    <3>1. i + 1 \in 1 .. len + 1 /\ j + 1 \in 1 .. len + 1 /\ i + 1 < j + 1
      BY <1>1
    <3> QED
      BY <1>3, <2>2, <3>1
  <2>5. new[len] = 0 /\ requested' = granted' + new[1]
    BY <1>1, <1>3, <1>5, <1>7, <2>2
  <2>6. Remaining(new)'
    BY <1>1, <2>1, <2>3, <2>4, <2>5 DEF Remaining
  <2>7. Len(pendingOSD') + 1 = len
    BY <1>1, <2>1
  <2> QED
    BY <1>6, <2>6, <2>7 DEF QueueInv
<1>8. CASE pendingOSD[1] - 1 # 0
  <2>1. /\ Len(pendingOSD') = len
        /\ pendingOSD'[1] = pendingOSD[1] - 1
        /\ \A i \in 2 .. len : pendingOSD'[i] = pendingOSD[i]
    BY <1>0, <1>1, <1>4, <1>8 DEF fetchPendingRESTfulRequest
  <2>2. /\ left[1] - 1 \in Nat /\ left[2] < left[1] - 1
    BY <1>1, <1>4, <1>5, <1>8
  <2>3. PICK new \in [1 .. len + 1 -> Nat] :
          /\ new[1] = left[1] - 1
          /\ \A i \in 2 .. len + 1 : new[i] = left[i]
    <3> DEFINE f == [i \in 1 .. len + 1 |->
                       IF i = 1 THEN left[1] - 1 ELSE left[i]]
    <3>1. f \in [1 .. len + 1 -> Nat]
      BY <1>1, <1>4, <2>2
    <3>2. f[1] = left[1] - 1 /\ \A i \in 2 .. len + 1 : f[i] = left[i]
      BY <1>1
    <3> QED
      BY <3>1, <3>2
  <2>4. \A i \in 1 .. len : new[i] = pendingOSD'[i] + new[i + 1]
    <3> TAKE i \in 1 .. len
    <3>1. i + 1 \in 2 .. len + 1 /\ new[i + 1] = left[i + 1]
      BY <1>1, <2>3
    <3>2. CASE i = 1
      BY <1>4, <1>5, <2>1, <2>3, <3>1, <3>2
    <3>3. CASE i # 1
      <4>1. i \in 2 .. len /\ i \in 2 .. len + 1
        BY <1>1, <3>3
      <4> QED
        BY <1>3, <2>1, <2>3, <3>1, <4>1
    <3> QED
      BY <3>2, <3>3
  <2>5. \A i \in 1 .. len + 1, j \in 1 .. len + 1 : i < j => new[j] < new[i]
    <3> TAKE i \in 1 .. len + 1, j \in 1 .. len + 1
    <3> HAVE i < j
    <3>1. j \in 2 .. len + 1 /\ new[j] = left[j] /\ left[j] \in Nat
      BY <1>1, <1>4, <2>3
    <3>2. CASE i = 1
      <4>1. left[j] <= left[2]
        <5>1. CASE j = 2
          BY <3>1, <5>1
        <5>2. CASE j # 2
          <6>1. 2 \in 1 .. len + 1 /\ 2 < j
            BY <1>1, <3>1, <5>2
          <6>2. left[j] < left[2]
            BY <1>3, <6>1
          <6> QED
            BY <1>5, <3>1, <6>2
        <5> QED
          BY <5>1, <5>2
      <4> QED
        BY <1>5, <2>2, <2>3, <3>1, <3>2, <4>1
    <3>3. CASE i # 1
      BY <1>1, <1>3, <2>3, <3>1, <3>3
    <3> QED
      BY <3>2, <3>3
  <2>6. new[len + 1] = 0 /\ requested' = granted' + new[1]
    BY <1>1, <1>3, <1>5, <2>3
  <2>7. Remaining(new)'
    BY <1>1, <2>1, <2>4, <2>5, <2>6 DEF Remaining
  <2> QED
    BY <1>1, <1>6, <2>1, <2>7 DEF QueueInv
<1> QED
  BY <1>7, <1>8

(* What is granted was asked for.                                          *)
LEMMA GrantedBounded ==
  TypeInv /\ QueueInv => granted \in Nat /\ requested - granted \in Nat
<1> SUFFICES ASSUME TypeInv, QueueInv
             PROVE  granted \in Nat /\ requested - granted \in Nat
  OBVIOUS
<1>1. Len(pendingOSD) \in Nat /\ granted \in Nat
  BY DEF TypeInv, TypeOK, AgentTypeOK
<1>2. PICK left \in [1 .. Len(pendingOSD) + 1 -> Nat] : Remaining(left)
  BY DEF QueueInv
<1>3. left[1] \in Nat /\ requested = granted + left[1]
  BY <1>1, <1>2 DEF Remaining
<1> QED
  BY <1>1, <1>3

(* The steps of the flex-up path: a request is queued, an instance of the  *)
(* first one is taken, a callback throws, or nothing happens to it.        *)
LEMMA QueueSteps ==
  ASSUME [Next]_vars
  PROVE  \/ /\ \E n \in Instances :
                 /\ requested' = requested + n
                 /\ pendingOSD' = Append(pendingOSD, n)
            /\ pc # "crashed" /\ UNCHANGED <<pc, granted>>
         \/ /\ fetchPendingRESTfulRequest
            /\ pc # "crashed" /\ pc' # "crashed"
            /\ UNCHANGED requested
         \/ /\ pc = "idle" /\ pc' = "crashed"
            /\ UNCHANGED <<requested, granted, pendingOSD>>
         \/ /\ pc' = "crashed" <=> pc = "crashed"
            /\ UNCHANGED <<requested, granted, pendingOSD>>
<1>1. ASSUME NEW n \in Instances, ReceiveRequest(n)
      PROVE  /\ requested' = requested + n
             /\ pendingOSD' = Append(pendingOSD, n)
             /\ pc # "crashed" /\ UNCHANGED <<pc, granted>>
  BY <1>1 DEF ReceiveRequest, processData
<1>2. CASE AgentStep
  <2>1. UNCHANGED requested /\ pc \in {"assign", "offers"}
    BY <1>2 DEF AgentStep, AssignOSDID, AssignDone, DeclineWrongRole,
                DeclineNotNow, DeclineNotEnough, DeclineNoRequest,
                AcceptOffer, considerOffer, nextOffer
  <2>2. /\ pc' # "crashed"
        /\ fetchPendingRESTfulRequest \/ UNCHANGED <<granted, pendingOSD>>
    BY <1>2 DEF AgentStep, AssignOSDID, AssignDone, DeclineWrongRole,
                DeclineNotNow, DeclineNotEnough, DeclineNoRequest,
                AcceptOffer, considerOffer, nextOffer, agentVars
  <2> QED
    BY <2>1, <2>2
<1>3. ASSUME NEW m \in fromMon, DeliverAnswer(m)
      PROVE  /\ pc = "idle" /\ pc' \in {"idle", "crashed"}
             /\ UNCHANGED <<requested, granted, pendingOSD>>
  BY <1>3 DEF DeliverAnswer, frameworkMessage
<1>4. ASSUME NEW batch \in Batches, ReceiveOffers(batch)
      PROVE  /\ pc = "idle" /\ pc' = "assign"
             /\ UNCHANGED <<requested, granted, pendingOSD>>
  BY <1>4 DEF ReceiveOffers, resourceOffers
<1>5. CASE \/ \E t \in DOMAIN node : \/ DeliverUpdate(t)
                                     \/ LaunchTask(t)
                                     \/ LaunchFails(t)
                                     \/ ExecutorDies(t)
                                     \/ ContainerDies(t)
                                     \/ ContainerReturns(t)
                                     \/ RepeatUpdate(t)
           \/ \E h \in Host : \/ DeliverDiskReady(h)
                              \/ PrepareDisks(h)
                              \/ RepeatDiskReady(h)
                              \/ DiskDies(h)
                              \/ \E d \in OSDDevs[h] \cup JNLDevs[h] :
                                   BadDisk(h, d)
           \/ \E m \in toOSD : HandleLaunchOSD(m) \/ StartFails(m)
           \/ HandleRegisterOSD
           \/ LoseMessage
           \/ UNCHANGED vars
  <2>1. UNCHANGED <<pc, requested, granted, pendingOSD>>
    BY <1>5 DEF DeliverUpdate, RepeatUpdate, statusUpdate, LaunchTask,
                LaunchFails, ExecutorDies, ContainerDies,
                ContainerReturns, DeliverDiskReady,
                RepeatDiskReady, statusUpdateDiskReady, PrepareDisks,
                DiskDies, BadDisk, HandleLaunchOSD, StartFails,
                HandleRegisterOSD, LoseMessage, vars, schedulerVars,
                agentVars
  <2> QED
    BY <2>1
<1> QED
  BY <1>1, <1>2, <1>3, <1>4, <1>5 DEF Next

(* The sums of the queue are kept.                                         *)
LEMMA NextQueue == TypeInv /\ QueueInv /\ [Next]_vars => QueueInv'
<1> SUFFICES ASSUME TypeInv, QueueInv, [Next]_vars PROVE QueueInv'
  OBVIOUS
<1>1. ASSUME NEW n \in Instances, requested' = requested + n,
             pendingOSD' = Append(pendingOSD, n), granted' = granted
      PROVE  QueueInv'
  BY <1>1, QueueAppend, CephMesosAssumption
<1>2. CASE fetchPendingRESTfulRequest /\ UNCHANGED requested
  BY <1>2, QueueFetch
<1>3. CASE UNCHANGED <<requested, granted, pendingOSD>>
  BY <1>3 DEF QueueInv, Remaining
<1> QED
  BY <1>1, <1>2, <1>3, QueueSteps

(* Initially nothing is queued.                                            *)
LEMMA InitQueue == Init => QueueInv
<1> SUFFICES ASSUME Init PROVE QueueInv
  OBVIOUS
<1>1. pendingOSD = << >> /\ granted = 0 /\ requested = 0
  BY DEF Init, AgentInit
<1>2. Len(pendingOSD) = 0
  BY <1>1
<1>3. PICK left \in [1 .. 1 -> Nat] : left = [i \in 1 .. 1 |-> 0]
  OBVIOUS
<1>4. Remaining(left)
  BY <1>1, <1>2, <1>3 DEF Remaining
<1> QED
  BY <1>2, <1>4 DEF QueueInv

(* No flex-up instance is lost or granted twice between processData and    *)
(* AcceptOffer, for any requests, failures and interleavings.              *)
THEOREM RequestsNeverLost == Spec => []RequestsConserved
<1>1. TypeInv /\ QueueInv => RequestsConserved
  <2> SUFFICES ASSUME TypeInv, QueueInv PROVE RequestsConserved
    OBVIOUS
  <2>0. PICK len : len = Len(pendingOSD)
    OBVIOUS
  <2>1. len \in Nat /\ granted \in Nat /\ requested \in Nat
    BY <2>0 DEF TypeInv, TypeOK, AgentTypeOK
  <2>2. PICK left \in [1 .. len + 1 -> Nat] : Remaining(left)
    BY <2>0 DEF QueueInv
  <2>3. /\ left[len + 1] = 0
        /\ \A i \in 1 .. len : left[i] = pendingOSD[i] + left[i + 1]
        /\ \A i \in 1 .. len + 1, j \in 1 .. len + 1 :
             i < j => left[j] < left[i]
        /\ requested = granted + left[1]
    BY <2>0, <2>2 DEF Remaining
  <2>4. ASSUME NEW i \in 1 .. len + 1
        PROVE  left[i] \in 0 .. requested
    <3>1. left[i] \in Nat /\ left[1] \in Nat /\ 1 \in 1 .. len + 1
      BY <2>1, <2>2
    <3>2. left[i] <= left[1]
      BY <2>3, <3>1
    <3> QED
      BY <2>1, <2>3, <3>1, <3>2
  <2>5. left \in [1 .. len + 1 -> 0 .. requested]
    BY <2>2, <2>4
  <2> QED
    BY <2>0, <2>3, <2>5 DEF RequestsConserved
<1> QED
  BY <1>1, InitType, NextType, InitQueue, NextQueue, PTL DEF Spec

(* The way of a request through the scheduler implements FlexUpService:    *)
(* instances are accepted, then served once each, and only an exception in *)
(* a callback loses those that are left.                                   *)
THEOREM ImplementsFlexUp == Spec => ImplementsFlexUpService
<1>1. Init => FlexUpPath!Init
  BY DEF Init, AgentInit, FlexUpPath!Init
<1>2. TypeInv /\ QueueInv /\ [Next]_vars
        => [FlexUpPath!Next]_(FlexUpPath!flexUpVars)
  <2> SUFFICES ASSUME TypeInv, QueueInv, [Next]_vars
               PROVE  [FlexUpPath!Next]_(FlexUpPath!flexUpVars)
    OBVIOUS
  <2>1. granted \in Nat /\ requested - granted \in Nat /\ requested \in Nat
    BY GrantedBounded DEF TypeInv, TypeOK
  <2>2. ASSUME NEW n \in Instances, requested' = requested + n,
               pc # "crashed", UNCHANGED <<pc, granted>>
        PROVE  FlexUpPath!Next
    <3>1. n \in Nat \ {0}
      BY CephMesosAssumption
    <3>2. requested' \in Nat /\ requested' > requested
      BY <2>1, <2>2, <3>1
    <3>3. FlexUpPath!Accept
      BY <2>2, <3>2 DEF FlexUpPath!Accept
    <3> QED
      BY <3>3 DEF FlexUpPath!Next
  <2>3. CASE /\ fetchPendingRESTfulRequest
             /\ pc # "crashed" /\ pc' # "crashed" /\ UNCHANGED requested
    <3>1. granted' = granted + 1 /\ granted + 1 <= requested
      BY <2>3, QueueFetch DEF fetchPendingRESTfulRequest
    <3>2. granted' + 0 <= requested
      BY <2>1, <3>1
    <3>3. FlexUpPath!Serve
      BY <2>3, <3>1, <3>2 DEF FlexUpPath!Serve
    <3> QED
      BY <3>3 DEF FlexUpPath!Next
  <2>4. CASE /\ pc = "idle" /\ pc' = "crashed"
             /\ UNCHANGED <<requested, granted, pendingOSD>>
    <3>1. requested - granted \in 0 .. (requested - granted)
      BY <2>1
    <3>2. FlexUpPath!Stop
      BY <2>4, <3>1 DEF FlexUpPath!Stop
    <3> QED
      BY <3>2 DEF FlexUpPath!Next
  <2>5. CASE /\ pc' = "crashed" <=> pc = "crashed"
             /\ UNCHANGED <<requested, granted, pendingOSD>>
    BY <2>5 DEF FlexUpPath!flexUpVars
  <2> QED
    BY <2>2, <2>3, <2>4, <2>5, QueueSteps
<1> QED
  BY <1>1, <1>2, InitType, NextType, InitQueue, NextQueue, PTL
     DEF Spec, ImplementsFlexUpService, FlexUpPath!Spec
=============================================================================
