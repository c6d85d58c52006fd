---------------------------- MODULE ClusterProofs ---------------------------
(***************************************************************************)
(* The size of the cluster and the honesty of the phase, for every number  *)
(* of hosts, OSDs, faults and requests.  Both rest on what the counters of *)
(* StateMachine count, and that rests on the order in which the updates of *)
(* one task arrive.                                                        *)
(***************************************************************************)
EXTENDS CephMesosProofs

(* A task that has not been launched sent nothing.  TASK_STARTING is the   *)
(* first update of a task and TASK_FAILED its last, so that no update      *)
(* takes a task back from RUNNING to waiting or out of FAILED.             *)
TaskOrder(t) ==
  /\ node[t].st = "launched" => updates[t] = << >> /\ taskMap[t] = "STAGING"
  /\ taskMap[t] = "FAILED" => node[t].st = "dead"
  /\ \A i \in 1 .. Len(updates[t]) :
       /\ updates[t][i] = "TASK_STARTING" => i = 1 /\ taskMap[t] # "RUNNING"
       /\ updates[t][i] = "TASK_FAILED"
            => i = Len(updates[t]) /\ node[t].st = "dead"
       /\ taskMap[t] = "FAILED" => updates[t][i] = "TASK_FAILED"

UpdateOrder == \A t \in DOMAIN node : TaskOrder(t)

(* The tasks that still have a place in the counters, or lost it wrongly.  *)
Counted(ty) == {t \in Tasks(ty) : taskMap[t] # "FAILED"}

(* The sum of the counters covers the tasks not known as FAILED, although  *)
(* each counter alone may be wrong, and it keeps within the bound.         *)
CountInv ==
  /\ IsFiniteSet(DOMAIN taskMap)
  /\ currentPhase = PhaseFor(runningNum)
  /\ \A ty \in TaskType :
       /\ Cardinality(Counted(ty)) <= stagingNum[ty] + runningNum[ty]
       /\ runningNum[ty] <= Cardinality(Running(ty))
  /\ stagingNum["MON"] + runningNum["MON"] <= 1
  /\ stagingNum["RADOSGW"] + runningNum["RADOSGW"] <= 1
  /\ stagingNum["OSD"] + runningNum["OSD"] <= OSDNum + granted

ClusterInv == TypeInv /\ TokenUnique /\ UpdateOrder /\ CountInv

-----------------------------------------------------------------------------
(* Order of updates.                                                       *)

(* A step that touches one task only.                                      *)
LEMMA OrderOthers ==
  ASSUME UpdateOrder, NEW t, DOMAIN node' = DOMAIN node,
         \A u \in DOMAIN node :
           u # t => /\ node'[u].st = node[u].st
                    /\ updates'[u] = updates[u]
                    /\ taskMap'[u] = taskMap[u],
         t \in DOMAIN node => TaskOrder(t)'
  PROVE  UpdateOrder'
<1>1. ASSUME NEW u \in DOMAIN node, u # t PROVE TaskOrder(u)'
  BY <1>1 DEF UpdateOrder, TaskOrder
<1> QED
  BY <1>1 DEF UpdateOrder

(* A step that touches no task.                                            *)
LEMMA OrderKept ==
  ASSUME UpdateOrder, UNCHANGED <<taskMap, node, updates>>
  PROVE  UpdateOrder'
BY DEF UpdateOrder, TaskOrder

(* An executor that is not done, or its slave, sends an update.            *)
LEMMA AppendOrder ==
  ASSUME TypeInv, NEW t \in DOMAIN node, TaskOrder(t), node[t].st # "dead",
         NEW u \in TaskUpdate, sendStatusUpdate(t, u), taskMap' = taskMap,
         node'[t].st # "launched",
         u = "TASK_STARTING" => node[t].st = "launched",
         u = "TASK_FAILED" => node'[t].st = "dead"
  PROVE  TaskOrder(t)'
<1> DEFINE s == updates[t]
<1>1. s \in Seq(TaskUpdate) /\ t \in DOMAIN updates
  BY DEF TypeInv, TypeOK, MesosTypeOK
<1>2. updates'[t] = Append(s, u)
  BY <1>1 DEF sendStatusUpdate
<1>3. /\ Len(updates'[t]) = Len(s) + 1 /\ Len(s) \in Nat
      /\ \A i \in 1 .. Len(updates'[t]) :
           \/ i \in 1 .. Len(s) /\ updates'[t][i] = s[i]
           \/ i = Len(s) + 1 /\ updates'[t][i] = u
  BY <1>1, <1>2
<1>4. taskMap[t] # "FAILED"
  BY DEF TaskOrder
<1>5. u = "TASK_STARTING" => s = << >> /\ taskMap[t] # "RUNNING"
  BY DEF TaskOrder
<1>6. \A i \in 1 .. Len(s) :
        /\ s[i] # "TASK_FAILED"
        /\ s[i] = "TASK_STARTING" => i = 1 /\ taskMap[t] # "RUNNING"
  BY DEF TaskOrder
<1> HIDE DEF s
<1>7. \A i \in 1 .. Len(updates'[t]) :
        /\ updates'[t][i] = "TASK_STARTING" => i = 1 /\ taskMap[t] # "RUNNING"
        /\ updates'[t][i] = "TASK_FAILED"
             => i = Len(updates'[t]) /\ node'[t].st = "dead"
  BY <1>3, <1>5, <1>6
<1> QED
  BY <1>4, <1>7 DEF TaskOrder

(* The step of an executor that sends an update and changes nothing else.  *)
LEMMA SendOrder ==
  ASSUME TypeInv, UpdateOrder, NEW t \in DOMAIN node, node[t].st # "dead",
         NEW st, st # "launched", SetState(t, st), taskMap' = taskMap,
         NEW u \in TaskUpdate, sendStatusUpdate(t, u),
         u = "TASK_STARTING" => node[t].st = "launched",
         u = "TASK_FAILED" => st = "dead"
  PROVE  UpdateOrder'
<1>1. /\ DOMAIN node' = DOMAIN node
      /\ node'[t].st = st
      /\ \A v \in DOMAIN node : v # t => node'[v] = node[v]
  BY DEF SetState, TypeInv, TypeOK, MesosTypeOK, Node
<1>2. \A v \in DOMAIN node : v # t => updates'[v] = updates[v]
  BY DEF sendStatusUpdate, TypeInv, TypeOK, MesosTypeOK
<1>3. TaskOrder(t)'
  BY <1>1, AppendOrder DEF UpdateOrder
<1> QED
  BY <1>1, <1>2, <1>3, OrderOthers

(* What the first update of a task does to its status.                     *)
LEMMA StatusAfter ==
  ASSUME TypeInv, UpdateOrder, NEW t \in DOMAIN node, updates[t] # << >>,
         statusUpdate(t, Head(updates[t]))
  PROVE  \/ UNCHANGED smVars /\ Head(updates[t]) = "TASK_LOST"
         \/ \E new \in {"RUNNING", "WAITING_OSDID", "FAILED"} :
              /\ taskMap' = [taskMap EXCEPT ![t] = new]
              /\ updateCounters(t.type, taskMap[t], new)
              /\ \/ new \in {"RUNNING", "FAILED"} /\ moveState
                 \/ new = "WAITING_OSDID" /\ UNCHANGED currentPhase
              /\ taskMap[t] = "FAILED" => new = "FAILED"
              /\ taskMap[t] = "RUNNING" => new \in {"RUNNING", "FAILED"}
              /\ new = "RUNNING" => Head(updates[t]) = "TASK_RUNNING"
              /\ new = "WAITING_OSDID" => Head(updates[t]) = "TASK_STARTING"
              /\ new = "FAILED" => Head(updates[t]) = "TASK_FAILED"
<1> DEFINE u == Head(updates[t])
<1>1. 1 \in 1 .. Len(updates[t]) /\ u = updates[t][1]
  BY DEF TypeInv, TypeOK, MesosTypeOK
<1>2. /\ taskMap[t] = "FAILED" => u = "TASK_FAILED"
      /\ taskMap[t] = "RUNNING" => u # "TASK_STARTING"
  BY <1>1 DEF UpdateOrder, TaskOrder
<1> HIDE DEF u
<1>3. CASE u = "TASK_RUNNING" /\ updateTaskToRunning(t)
  BY <1>2, <1>3 DEF updateTaskToRunning, u
<1>4. CASE u = "TASK_STARTING" /\ updateTaskToWaitingOSDID(t)
  BY <1>2, <1>4 DEF updateTaskToWaitingOSDID, u
<1>5. CASE u = "TASK_FAILED" /\ updateTaskToFailed(t)
  BY <1>2, <1>5 DEF updateTaskToFailed, u
<1>6. CASE u = "TASK_LOST" /\ UNCHANGED smVars
  BY <1>6 DEF u
<1> QED
  BY <1>3, <1>4, <1>5, <1>6 DEF statusUpdate, u

(* An update is delivered, and acknowledged or not.                        *)
LEMMA DeliverOrder ==
  ASSUME TypeInv, UpdateOrder, NEW t \in DOMAIN node, updates[t] # << >>,
         statusUpdate(t, Head(updates[t])), node' = node,
         updates' \in {updates, [updates EXCEPT ![t] = Tail(@)]}
  PROVE  UpdateOrder'
<1> DEFINE s == updates[t]
<1>1. s \in Seq(TaskUpdate) /\ t \in DOMAIN updates /\ t \in DOMAIN taskMap
  BY DEF TypeInv, TypeOK, MesosTypeOK
<1>2. /\ DOMAIN taskMap' = DOMAIN taskMap
      /\ \A v \in DOMAIN node : v # t => taskMap'[v] = taskMap[v]
      /\ \A v \in DOMAIN node : v # t => updates'[v] = updates[v]
      /\ \/ taskMap'[t] = taskMap[t]
         \/ taskMap'[t] = "RUNNING" /\ s[1] = "TASK_RUNNING"
         \/ taskMap'[t] = "WAITING_OSDID" /\ s[1] = "TASK_STARTING"
         \/ taskMap'[t] = "FAILED" /\ s[1] = "TASK_FAILED"
  <2>1. \A v \in DOMAIN node : v # t => updates'[v] = updates[v]
    BY DEF TypeInv, TypeOK, MesosTypeOK
  <2>2. DOMAIN node = DOMAIN taskMap /\ Head(s) = s[1]
    BY <1>1 DEF TypeInv, TypeOK, MesosTypeOK
  <2> QED
    BY <1>1, <2>1, <2>2, StatusAfter DEF smVars
<1>3. Len(s) \in Nat \ {0}
  BY <1>1
<1>4. \/ updates'[t] = s
      \/ /\ Len(updates'[t]) = Len(s) - 1
         /\ \A i \in 1 .. Len(s) - 1 : updates'[t][i] = s[i + 1]
  BY <1>1, <1>3
<1>5. TaskOrder(t)
  BY DEF UpdateOrder
<1>6. node[t].st # "launched"
  BY <1>5 DEF TaskOrder
<1>7. /\ s[1] = "TASK_FAILED" => Len(s) = 1 /\ node[t].st = "dead"
      /\ taskMap[t] = "FAILED" => node[t].st = "dead"
      /\ \A i \in 1 .. Len(s) :
           /\ s[i] = "TASK_STARTING" => i = 1 /\ taskMap[t] # "RUNNING"
           /\ s[i] = "TASK_FAILED" => i = Len(s) /\ node[t].st = "dead"
           /\ taskMap[t] = "FAILED" => s[i] = "TASK_FAILED"
  <2>1. /\ taskMap[t] = "FAILED" => node[t].st = "dead"
        /\ \A i \in 1 .. Len(s) :
             /\ s[i] = "TASK_STARTING" => i = 1 /\ taskMap[t] # "RUNNING"
             /\ s[i] = "TASK_FAILED" => i = Len(s) /\ node[t].st = "dead"
             /\ taskMap[t] = "FAILED" => s[i] = "TASK_FAILED"
    BY <1>5, Zenon DEF TaskOrder
  <2>2. 1 \in 1 .. Len(s)
    BY <1>3
  <2> QED
    BY <2>1, <2>2, Zenon
<1> HIDE DEF s
<1>8. taskMap'[t] = "FAILED" => node[t].st = "dead"
  BY <1>2, <1>7
<1>9. CASE updates'[t] = s
  <2>1. \A i \in 1 .. Len(s) :
          /\ s[i] = "TASK_STARTING" => i = 1 /\ taskMap'[t] # "RUNNING"
          /\ taskMap'[t] = "FAILED" => s[i] = "TASK_FAILED"
    BY <1>2, <1>3, <1>7
  <2>2. TaskOrder(t)'
    BY <1>6, <1>7, <1>8, <1>9, <2>1 DEF TaskOrder
  <2> QED
    BY <1>2, <2>2, OrderOthers
<1>10. CASE /\ Len(updates'[t]) = Len(s) - 1
            /\ \A i \in 1 .. Len(s) - 1 : updates'[t][i] = s[i + 1]
  <2>1. \A i \in 1 .. Len(s) - 1 :
          /\ s[i + 1] # "TASK_STARTING"
          /\ s[i + 1] = "TASK_FAILED" => i = Len(s) - 1 /\ node[t].st = "dead"
          /\ taskMap'[t] = "FAILED" => s[i + 1] = "TASK_FAILED"
    BY <1>2, <1>3, <1>7
  <2>2. TaskOrder(t)'
    BY <1>6, <1>8, <1>10, <2>1 DEF TaskOrder
  <2> QED
    BY <1>2, <2>2, OrderOthers
<1> QED
  BY <1>4, <1>9, <1>10

(* A LAUNCH_OSD reaches its executor.                                      *)
LEMMA LaunchOrder ==
  ASSUME TypeInv, UpdateOrder, NEW m \in toOSD,
         HandleLaunchOSD(m) \/ StartFails(m)
  PROVE  UpdateOrder'
<1> DEFINE t == m.to
<1>1. t \in DOMAIN node
  BY DEF TypeInv, TypeOK, MesosTypeOK
<1>2. /\ node[t].st \in {"waiting", "up", "zombie"}
      /\ taskMap' = taskMap
      /\ \/ /\ node' = [node EXCEPT ![t].st = "up", ![t].ids = @ \cup {m.id}]
            /\ sendStatusUpdate(t, "TASK_RUNNING")
         \/ /\ node' = [node EXCEPT ![t].st = "dead", ![t].ids = @ \cup {m.id}]
            /\ sendStatusUpdate(t, "TASK_FAILED")
  BY DEF HandleLaunchOSD, LaunchOSD, StartFails, LaunchOSDFails,
         schedulerVars, smVars
<1>3. /\ DOMAIN node' = DOMAIN node
      /\ \A v \in DOMAIN node : v # t => node'[v] = node[v]
      /\ \/ node'[t].st = "up" /\ sendStatusUpdate(t, "TASK_RUNNING")
         \/ node'[t].st = "dead" /\ sendStatusUpdate(t, "TASK_FAILED")
  BY <1>1, <1>2 DEF TypeInv, TypeOK, MesosTypeOK, Node
<1>4. \A v \in DOMAIN node : v # t => updates'[v] = updates[v]
  BY <1>3 DEF sendStatusUpdate, TypeInv, TypeOK, MesosTypeOK
<1> HIDE DEF t
<1>5. TaskOrder(t)
  BY <1>1 DEF UpdateOrder
<1>6. TaskOrder(t)'
  BY <1>1, <1>2, <1>3, <1>5, AppendOrder DEF TaskUpdate
<1> QED
  BY <1>2, <1>3, <1>4, <1>6, OrderOthers

(* A step of an executor, or of its slave, without a LAUNCH_OSD.           *)
LEMMA ExecutorOrder ==
  ASSUME TypeInv, UpdateOrder, NEW t \in DOMAIN node,
         LaunchTask(t) \/ LaunchFails(t) \/ ExecutorDies(t) \/ ContainerDies(t)
           \/ ContainerReturns(t)
  PROVE  UpdateOrder'
<1>1. taskMap' = taskMap
  BY DEF LaunchTask, LaunchFails, ExecutorDies, ContainerDies,
         ContainerReturns, schedulerVars,
         smVars
<1>2. CASE LaunchTask(t) \/ LaunchFails(t) \/ ExecutorDies(t)
  <2>1. \E st \in {"waiting", "up", "dead"}, u \in TaskUpdate :
          /\ node[t].st # "dead"
          /\ SetState(t, st)
          /\ sendStatusUpdate(t, u)
          /\ u = "TASK_STARTING" => node[t].st = "launched"
          /\ u = "TASK_FAILED" => st = "dead"
    BY <1>2 DEF LaunchTask, LaunchFails, ExecutorDies, LaunchTaskOSD,
                LaunchTaskDaemon, FetchFails, FetchFailure, LaunchTaskFails,
                TaskUpdate
  <2> QED
    BY <1>1, <2>1, SendOrder
<1>3. CASE ContainerDies(t) \/ ContainerReturns(t)
  <2>1. PICK st \in {"up", "zombie"} :
          /\ SetState(t, st)
          /\ updates' = updates
          /\ node[t].st \in {"up", "zombie"}
    BY <1>3 DEF ContainerDies, ContainerReturns
  <2>2. /\ DOMAIN node' = DOMAIN node
        /\ node'[t].st = st
        /\ \A v \in DOMAIN node : v # t => node'[v] = node[v]
    BY <2>1 DEF SetState, TypeInv, TypeOK, MesosTypeOK, Node
  <2>3. TaskOrder(t)
    BY DEF UpdateOrder
  <2>4. TaskOrder(t)'
    BY <1>1, <2>1, <2>2, <2>3 DEF TaskOrder
  <2> QED
    BY <1>1, <2>1, <2>2, <2>4, OrderOthers
<1> QED
  BY <1>2, <1>3

(* A step of resourceOffers: an id assigned leaves the waiting tasks, and  *)
(* a new task has sent nothing.                                            *)
LEMMA AgentOrder ==
  ASSUME TypeInv, TokenUnique, UpdateOrder, AgentStep
  PROVE  UpdateOrder'
<1>1. ASSUME NEW t \in DOMAIN taskMap, AssignOSDID(t)
      PROVE  UpdateOrder'
  <2>1. /\ UNCHANGED <<node, updates>>
        /\ taskMap' = [taskMap EXCEPT ![t] = "STARTING"]
        /\ taskMap[t] = "WAITING_OSDID"
    BY <1>1 DEF AssignOSDID, updateTaskToStarting, getWaitingOSDTask
  <2>2. t \in DOMAIN node /\ DOMAIN node = DOMAIN taskMap
    BY DEF TypeInv, TypeOK, MesosTypeOK
  <2>3. /\ taskMap'[t] = "STARTING"
        /\ \A v \in DOMAIN node : v # t => taskMap'[v] = taskMap[v]
    BY <2>1, <2>2
  <2>4. TaskOrder(t)
    BY <2>2 DEF UpdateOrder
  <2>5. TaskOrder(t)'
    BY <2>1, <2>3, <2>4 DEF TaskOrder
  <2> QED
    BY <2>1, <2>3, <2>5, OrderOthers
<1>2. CASE AssignDone \/ DeclineWrongRole \/ DeclineNotNow
           \/ DeclineNotEnough \/ DeclineNoRequest
  <2>1. UNCHANGED <<taskMap, node, updates>>
    BY <1>2 DEF AssignDone, DeclineWrongRole, DeclineNotNow,
                DeclineNotEnough, DeclineNoRequest, smVars, mesosVars
  <2> QED
    BY <2>1, OrderKept
<1>3. CASE AcceptOffer
  <2>0. PICK nt : nt = newTask
    OBVIOUS
  <2>1. \E initial, source, p, j : launchTasks(nt, initial, source, p, j)
    BY <1>3, <2>0 DEF AcceptOffer, launchNode
  <2>2. /\ DOMAIN node' = DOMAIN node \cup {nt}
        /\ node'[nt].st = "launched"
        /\ updates'[nt] = << >>
        /\ \A v \in DOMAIN node : v # nt => node'[v] = node[v]
        /\ \A v \in DOMAIN node : v # nt => updates'[v] = updates[v]
    BY <2>1 DEF launchTasks, Put, TypeInv, TypeOK, MesosTypeOK
  <2>3. /\ taskMap'[nt] = "STAGING"
        /\ \A v \in DOMAIN node : v # nt => taskMap'[v] = taskMap[v]
    BY <1>3, <2>0 DEF AcceptOffer, addStagingTask, Put, TypeInv, TypeOK,
                      MesosTypeOK
  <2>4. ASSUME NEW v \in DOMAIN node, v # nt PROVE TaskOrder(v)'
    BY <2>2, <2>3, <2>4 DEF UpdateOrder, TaskOrder
  <2>5. TaskOrder(nt)'
    BY <2>2, <2>3 DEF TaskOrder
  <2> QED
    BY <2>2, <2>4, <2>5 DEF UpdateOrder
<1> QED
  BY <1>1, <1>2, <1>3 DEF AgentStep

(* The steps that do none of the above leave tasks and updates alone.      *)
LEMMA NextOrder == TypeInv /\ TokenUnique /\ UpdateOrder /\ [Next]_vars
                     => UpdateOrder'
<1> SUFFICES ASSUME TypeInv, TokenUnique, UpdateOrder, [Next]_vars
             PROVE  UpdateOrder'
  OBVIOUS
<1>1. ASSUME NEW t \in DOMAIN node, DeliverUpdate(t) \/ RepeatUpdate(t)
      PROVE  UpdateOrder'
  <2>1. /\ updates[t] # << >>
        /\ statusUpdate(t, Head(updates[t]))
        /\ node' = node
        /\ updates' \in {updates, [updates EXCEPT ![t] = Tail(@)]}
    BY <1>1 DEF DeliverUpdate, RepeatUpdate, execVars, mesosVars
  <2> QED
    BY <2>1, DeliverOrder
<1>2. CASE \/ \E batch \in Batches : ReceiveOffers(batch)
           \/ \E h \in Host : \/ DeliverDiskReady(h)
                              \/ PrepareDisks(h)
                              \/ RepeatDiskReady(h)
                              \/ DiskDies(h)
                              \/ \E d \in OSDDevs[h] \cup JNLDevs[h] :
                                   BadDisk(h, d)
           \/ \E m \in fromMon : DeliverAnswer(m)
           \/ HandleRegisterOSD
           \/ LoseMessage
           \/ \E n \in Instances : ReceiveRequest(n)
           \/ UNCHANGED vars
  <2>1. UNCHANGED <<taskMap, node, updates>>
    BY <1>2 DEF ReceiveOffers, resourceOffers, DeliverDiskReady,
                statusUpdateDiskReady, PrepareDisks, RepeatDiskReady, DiskDies,
                BadDisk, DiskLaunchTask, DeliverAnswer, frameworkMessage,
                HandleRegisterOSD, RegisterOSD, LoseMessage, ReceiveRequest,
                processData, vars, execVars, mesosVars, schedulerVars, smVars
  <2> QED
    BY <2>1, OrderKept
<1> QED
  BY <1>1, <1>2, AgentOrder, ExecutorOrder, LaunchOrder DEF Next

-----------------------------------------------------------------------------
(* Counters.                                                               *)

(* The sets of tasks are finite, so that they can be counted.              *)
LEMMA FiniteTasks ==
  ASSUME IsFiniteSet(DOMAIN taskMap), NEW ty
  PROVE  /\ IsFiniteSet(Counted(ty)) /\ Cardinality(Counted(ty)) \in Nat
         /\ IsFiniteSet(Running(ty)) /\ Cardinality(Running(ty)) \in Nat
         /\ IsFiniteSet(Alive(ty)) /\ Cardinality(Alive(ty)) \in Nat
<1>1. /\ Counted(ty) \subseteq DOMAIN taskMap
      /\ Running(ty) \subseteq DOMAIN taskMap
      /\ Alive(ty) \subseteq DOMAIN taskMap
  BY DEF Counted, Running, Alive, Tasks
<1> QED
  BY <1>1, FS_Subset, FS_CardinalityType

(* A step that changes no status and no counter.                           *)
LEMMA CountsKept ==
  ASSUME CountInv,
         UNCHANGED <<taskMap, stagingNum, runningNum, currentPhase, granted>>
  PROVE  CountInv'
BY DEF CountInv, Counted, Running, Tasks

(* A task changes its status, and the counters follow as updateCounters    *)
(* lets them: the sum falls only when the task turns FAILED.               *)
LEMMA ChangeCounts ==
  ASSUME TypeInv, CountInv, NEW t \in DOMAIN taskMap,
         NEW new \in {"RUNNING", "WAITING_OSDID", "STARTING", "FAILED"},
         taskMap' = [taskMap EXCEPT ![t] = new],
         updateCounters(t.type, taskMap[t], new),
         taskMap[t] = "FAILED" => new = "FAILED",
         taskMap[t] = "RUNNING" => new \in {"RUNNING", "FAILED"},
         granted' = granted,
         \/ moveState
         \/ new \in {"WAITING_OSDID", "STARTING"} /\ UNCHANGED currentPhase
  PROVE  CountInv'
<1> DEFINE old == taskMap[t]
           c == Counted(t.type)
           r == Running(t.type)
<1>1. /\ t.type \in TaskType
      /\ stagingNum \in [TaskType -> Int] /\ runningNum \in [TaskType -> Int]
  BY DEF TypeInv, TypeOK, StateMachineTypeOK, TaskID
<1>2. /\ DOMAIN taskMap' = DOMAIN taskMap
      /\ \A v \in DOMAIN taskMap :
           taskMap'[v] = IF v = t THEN new ELSE taskMap[v]
  OBVIOUS
<1>3. IsFiniteSet(DOMAIN taskMap) /\ IsFiniteSet(DOMAIN taskMap')
  BY <1>2 DEF CountInv
<1>4. /\ IsFiniteSet(c) /\ Cardinality(c) \in Nat
      /\ IsFiniteSet(r) /\ Cardinality(r) \in Nat
  BY <1>3, FiniteTasks
<1>5. \A ty \in TaskType : ty # t.type =>
        /\ Counted(ty)' = Counted(ty) /\ Running(ty)' = Running(ty)
        /\ stagingNum'[ty] = stagingNum[ty]
        /\ runningNum'[ty] = runningNum[ty]
  BY <1>1, <1>2 DEF Counted, Running, Tasks, updateCounters
<1>6. Cardinality(c') =
        IF new = "FAILED" /\ old # "FAILED" THEN Cardinality(c) - 1
                                            ELSE Cardinality(c)
  <2>1. CASE new = "FAILED" /\ old # "FAILED"
    <3>1. c' = c \ {t} /\ t \in c
      BY <1>2, <2>1 DEF Counted, Tasks
    <3> QED
      BY <1>4, <2>1, <3>1, FS_RemoveElement
  <2>2. CASE ~ (new = "FAILED" /\ old # "FAILED")
    <3>1. c' = c
      BY <1>2, <2>2 DEF Counted, Tasks
    <3> QED
      BY <2>2, <3>1
  <2> QED
    BY <2>1, <2>2
<1>7. Cardinality(r') =
        IF new = "RUNNING" /\ old # "RUNNING" THEN Cardinality(r) + 1
        ELSE IF new # "RUNNING" /\ old = "RUNNING" THEN Cardinality(r) - 1
        ELSE Cardinality(r)
  <2>1. CASE new = "RUNNING" /\ old # "RUNNING"
    <3>1. r' = r \cup {t} /\ t \notin r
      BY <1>2, <2>1 DEF Running, Tasks
    <3> QED
      BY <1>4, <2>1, <3>1, FS_AddElement
  <2>2. CASE new # "RUNNING" /\ old = "RUNNING"
    <3>1. r' = r \ {t} /\ t \in r
      BY <1>2, <2>2 DEF Running, Tasks
    <3> QED
      BY <1>4, <2>2, <3>1, FS_RemoveElement
  <2>3. CASE (new = "RUNNING") = (old = "RUNNING")
    <3>1. r' = r
      BY <1>2, <2>3 DEF Running, Tasks
    <3> QED
      BY <2>3, <3>1
  <2> QED
    BY <2>1, <2>2, <2>3
<1> HIDE DEF c, r, old
<1>8. /\ stagingNum'[t.type] =
           IF \/ old \in {"STAGING", "STARTING"} /\ new = "RUNNING"
              \/ old = "STAGING" /\ new = "FAILED"
             THEN stagingNum[t.type] - 1 ELSE stagingNum[t.type]
      /\ runningNum'[t.type] =
           IF old \in {"STAGING", "STARTING"} /\ new = "RUNNING"
             THEN runningNum[t.type] + 1
             ELSE IF old = "RUNNING" /\ new = "FAILED"
                    THEN runningNum[t.type] - 1 ELSE runningNum[t.type]
  BY <1>1 DEF updateCounters, old
<1>9. /\ Cardinality(c) <= stagingNum[t.type] + runningNum[t.type]
      /\ runningNum[t.type] <= Cardinality(r)
      /\ stagingNum[t.type] \in Int /\ runningNum[t.type] \in Int
  BY <1>1 DEF CountInv, c, r
<1>10. /\ old = "FAILED" => new = "FAILED"
       /\ old = "RUNNING" => new \in {"RUNNING", "FAILED"}
  BY DEF old
<1>11. /\ Cardinality(c') <= stagingNum'[t.type] + runningNum'[t.type]
       /\ runningNum'[t.type] <= Cardinality(r')
       /\ stagingNum'[t.type] + runningNum'[t.type]
            <= stagingNum[t.type] + runningNum[t.type]
       /\ stagingNum'[t.type] \in Int /\ runningNum'[t.type] \in Int
  BY <1>4, <1>6, <1>7, <1>8, <1>9, <1>10
<1>12. \A ty \in TaskType :
         /\ Cardinality(Counted(ty)') <= stagingNum'[ty] + runningNum'[ty]
         /\ runningNum'[ty] <= Cardinality(Running(ty)')
         /\ stagingNum'[ty] + runningNum'[ty]
              <= stagingNum[ty] + runningNum[ty]
         /\ stagingNum'[ty] + runningNum'[ty] \in Int
         /\ stagingNum[ty] + runningNum[ty] \in Int
  BY <1>1, <1>5, <1>11 DEF CountInv, c, r
<1>13. currentPhase' = PhaseFor(runningNum')
  <2>1. CASE moveState
    BY <2>1 DEF moveState
  <2>2. CASE new \in {"WAITING_OSDID", "STARTING"} /\ UNCHANGED currentPhase
    <3>1. runningNum' = runningNum
      BY <2>2 DEF updateCounters
    <3> QED
      BY <2>2, <3>1 DEF CountInv
  <2> QED
    BY <2>1, <2>2
<1>14. /\ stagingNum'["MON"] + runningNum'["MON"] <= 1
       /\ stagingNum'["RADOSGW"] + runningNum'["RADOSGW"] <= 1
       /\ stagingNum'["OSD"] + runningNum'["OSD"] <= OSDNum + granted'
  <2>1. OSDNum + granted \in Int
    BY StateMachineAssumption DEF TypeInv, TypeOK, AgentTypeOK
  <2> QED
    BY <1>12, <2>1 DEF CountInv, TaskType
<1> QED
  BY <1>3, <1>12, <1>13, <1>14 DEF CountInv

(* nextMove answers true only when there is room for one more task.        *)
LEMMA NextMoveRoom ==
  ASSUME TypeInv, CountInv, NEW hc, nextMove(hc)
  PROVE  LET ty == nextMoveType
             sum == stagingNum[ty] + runningNum[ty]
         IN  \/ ty = "MON" /\ sum < 1
             \/ ty = "RADOSGW" /\ sum < 1
             \/ ty = "OSD" /\ sum < OSDNum
             \/ ty = "OSD" /\ currentPhase = "WAINTING_REQUEST"
<1>1. \A ty \in TaskType : stagingNum[ty] \in Int /\ runningNum[ty] \in Int
  BY DEF TypeInv, TypeOK, StateMachineTypeOK
<1>2. {"MON", "OSD", "RADOSGW"} = TaskType
  BY DEF TaskType
<1>3. CASE currentPhase = "BOOTSTRAP_MON"
  BY <1>3 DEF nextMove, nextMoveType
<1>4. CASE currentPhase = "BOOTSTRAP_OSD"
  BY <1>4 DEF nextMove, nextMoveType
<1>5. CASE currentPhase = "BOOTSTRAP_RADOSGW"
  <2>1. stagingNum["RADOSGW"] < 1 /\ nextMoveType = "RADOSGW"
    BY <1>5 DEF nextMove, nextMoveType
  <2>2. runningNum["RADOSGW"] < 1
    BY <1>5 DEF CountInv, PhaseFor
  <2> QED
    BY <1>1, <1>2, <2>1, <2>2
<1>6. CASE currentPhase = "WAINTING_REQUEST"
  BY <1>6 DEF nextMoveType
<1> QED
  BY <1>3, <1>4, <1>5, <1>6 DEF TypeInv, TypeOK, StateMachineTypeOK, Phase

(* A launched task takes the room that nextMove saw, or that a flex-up     *)
(* request makes.                                                          *)
LEMMA AcceptCounts ==
  ASSUME TypeInv, TokenUnique, CountInv, AcceptOffer
  PROVE  CountInv'
<1>0. PICK nt : nt = newTask
  OBVIOUS
<1>1. nt.type = nextMoveType /\ nt.token = index[nextMoveType]
  BY <1>0 DEF newTask
<1>2. /\ nt.type \in TaskType /\ index[nt.type] \in Nat
      /\ stagingNum \in [TaskType -> Int] /\ runningNum \in [TaskType -> Int]
      /\ granted \in Nat /\ OSDNum \in Nat
  BY <1>1, NextMoveTypeType, StateMachineAssumption
     DEF TypeInv, TypeOK, StateMachineTypeOK, AgentTypeOK
<1>3. nt \notin DOMAIN taskMap
  BY <1>1, <1>2 DEF TokenUnique
<1>4. /\ DOMAIN taskMap' = DOMAIN taskMap \cup {nt}
      /\ taskMap'[nt] = "STAGING"
      /\ \A v \in DOMAIN taskMap : taskMap'[v] = taskMap[v]
      /\ stagingNum' = [stagingNum EXCEPT ![nt.type] = @ + 1]
      /\ UNCHANGED <<runningNum, currentPhase>>
  BY <1>0, <1>3 DEF AcceptOffer, addStagingTask, Put
<1>5. IsFiniteSet(DOMAIN taskMap) /\ IsFiniteSet(DOMAIN taskMap')
  BY <1>3, <1>4, FS_AddElement DEF CountInv
<1>6. \A ty \in TaskType :
        /\ Running(ty)' = Running(ty)
        /\ ty # nt.type => Counted(ty)' = Counted(ty)
  BY <1>3, <1>4 DEF Running, Counted, Tasks
<1>7. /\ Counted(nt.type)' = Counted(nt.type) \cup {nt}
      /\ nt \notin Counted(nt.type)
  BY <1>3, <1>4 DEF Counted, Tasks
<1>8. Cardinality(Counted(nt.type)') = Cardinality(Counted(nt.type)) + 1
  BY <1>5, <1>7, FiniteTasks, FS_AddElement
<1>9. \A ty \in TaskType : Cardinality(Counted(ty)) \in Nat
  BY <1>5, FiniteTasks
<1>10. \A ty \in TaskType :
         /\ Cardinality(Counted(ty)') <= stagingNum'[ty] + runningNum'[ty]
         /\ runningNum'[ty] <= Cardinality(Running(ty)')
  <2> TAKE ty \in TaskType
  <2>1. /\ Cardinality(Counted(ty)) <= stagingNum[ty] + runningNum[ty]
        /\ runningNum[ty] <= Cardinality(Running(ty))
    BY DEF CountInv
  <2>2. CASE ty = nt.type
    BY <1>2, <1>4, <1>6, <1>8, <1>9, <2>1, <2>2
  <2>3. CASE ty # nt.type
    BY <1>2, <1>4, <1>6, <2>1, <2>3
  <2> QED
    BY <2>2, <2>3
<1>11. \/ granted' = granted /\ phaseSeen # "WAINTING_REQUEST"
       \/ granted' = granted + 1
  BY DEF AcceptOffer, fetchPendingRESTfulRequest
<1>12. phaseSeen = currentPhase
  BY DEF AcceptOffer, considerOffer, nextOffer, TypeInv, PhaseSeenFresh
<1>13. LET sum == stagingNum[nt.type] + runningNum[nt.type]
       IN  \/ nt.type = "MON" /\ sum < 1
           \/ nt.type = "RADOSGW" /\ sum < 1
           \/ nt.type = "OSD" /\ sum < OSDNum
           \/ nt.type = "OSD" /\ granted' = granted + 1
  <2>1. nextMove(hostConfig)
    BY DEF AcceptOffer
  <2> QED
    BY <1>1, <1>11, <1>12, <2>1, NextMoveRoom
<1>14. /\ stagingNum'["MON"] + runningNum'["MON"] <= 1
       /\ stagingNum'["RADOSGW"] + runningNum'["RADOSGW"] <= 1
       /\ stagingNum'["OSD"] + runningNum'["OSD"] <= OSDNum + granted'
  <2>1. /\ stagingNum["MON"] + runningNum["MON"] <= 1
        /\ stagingNum["RADOSGW"] + runningNum["RADOSGW"] <= 1
        /\ stagingNum["OSD"] + runningNum["OSD"] <= OSDNum + granted
    BY DEF CountInv
  <2>2. granted' = granted \/ granted' = granted + 1
    BY <1>11
  <2> QED
    BY <1>2, <1>4, <1>13, <2>1, <2>2 DEF TaskType
<1>15. currentPhase' = PhaseFor(runningNum')
  BY <1>4 DEF CountInv
<1> QED
  BY <1>5, <1>10, <1>14, <1>15 DEF CountInv

(* Every step keeps the counters right.                                    *)
LEMMA NextCount == ClusterInv /\ [Next]_vars => CountInv'
<1> SUFFICES ASSUME TypeInv, TokenUnique, UpdateOrder, CountInv, [Next]_vars
             PROVE  CountInv'
  BY DEF ClusterInv
<1>1. ASSUME NEW t \in DOMAIN node, DeliverUpdate(t) \/ RepeatUpdate(t)
      PROVE  CountInv'
  <2>1. updates[t] # << >> /\ statusUpdate(t, Head(updates[t]))
    BY <1>1 DEF DeliverUpdate, RepeatUpdate
  <2>2. granted' = granted /\ t \in DOMAIN taskMap
    BY <2>1 DEF statusUpdate, agentVars, TypeInv, TypeOK, MesosTypeOK
  <2>3. CASE UNCHANGED smVars
    BY <2>2, <2>3, CountsKept DEF smVars
  <2>4. ASSUME NEW new \in {"RUNNING", "WAITING_OSDID", "FAILED"},
               taskMap' = [taskMap EXCEPT ![t] = new],
               updateCounters(t.type, taskMap[t], new),
               \/ new \in {"RUNNING", "FAILED"} /\ moveState
               \/ new = "WAITING_OSDID" /\ UNCHANGED currentPhase,
               taskMap[t] = "FAILED" => new = "FAILED",
               taskMap[t] = "RUNNING" => new \in {"RUNNING", "FAILED"}
        PROVE  CountInv'
    BY <2>2, <2>4, ChangeCounts
  <2> QED
    BY <2>1, <2>3, <2>4, StatusAfter
<1>2. ASSUME NEW t \in DOMAIN taskMap, AssignOSDID(t)
      PROVE  CountInv'
  <2>1. /\ taskMap' = [taskMap EXCEPT ![t] = "STARTING"]
        /\ updateCounters(t.type, taskMap[t], "STARTING")
        /\ taskMap[t] = "WAITING_OSDID"
        /\ UNCHANGED <<granted, currentPhase>>
    BY <1>2 DEF AssignOSDID, updateTaskToStarting, getWaitingOSDTask,
                agentVars
  <2> QED
    BY <2>1, ChangeCounts
<1>3. CASE /\ ~ AcceptOffer
           /\ \A t \in DOMAIN taskMap : ~ AssignOSDID(t)
           /\ \A t \in DOMAIN node : ~ DeliverUpdate(t) /\ ~ RepeatUpdate(t)
  <2>1. UNCHANGED <<taskMap, stagingNum, runningNum, currentPhase, granted>>
    BY <1>3 DEF Next, vars, AgentStep, AssignDone, DeclineWrongRole,
                DeclineNotNow, DeclineNotEnough, DeclineNoRequest,
                ReceiveOffers, resourceOffers, LaunchTask,
                LaunchFails, ExecutorDies, ContainerDies,
                ContainerReturns, DeliverDiskReady,
                RepeatDiskReady, statusUpdateDiskReady, PrepareDisks, DiskDies,
                BadDisk, DeliverAnswer, frameworkMessage, HandleLaunchOSD,
                StartFails, HandleRegisterOSD, LoseMessage, ReceiveRequest,
                processData, schedulerVars, smVars, agentVars
  <2> QED
    BY <2>1, CountsKept
<1> QED
  BY <1>1, <1>2, <1>3, AcceptCounts

-----------------------------------------------------------------------------
(* The theorems.                                                           *)

(* Initially there is no task and nothing is counted.                      *)
LEMMA InitCluster == Init => ClusterInv
<1> SUFFICES ASSUME Init PROVE ClusterInv
  OBVIOUS
<1>1. /\ DOMAIN taskMap = {} /\ DOMAIN node = {} /\ granted = 0
      /\ currentPhase = "BOOTSTRAP_MON"
      /\ stagingNum = [ty \in TaskType |-> 0]
      /\ runningNum = [ty \in TaskType |-> 0]
  BY DEF Init, StateMachineInit, MesosInit, AgentInit
<1>2. IsFiniteSet(DOMAIN taskMap)
  BY <1>1, FS_EmptySet
<1>3. \A ty : Counted(ty) = {} /\ Running(ty) = {}
  BY <1>1 DEF Counted, Running, Tasks
<1>4. \A ty : Cardinality(Counted(ty)) = 0 /\ Cardinality(Running(ty)) = 0
  BY <1>3, FS_EmptySet
<1>5. CountInv
  BY <1>1, <1>2, <1>4, StateMachineAssumption
     DEF CountInv, PhaseFor, TaskType
<1>6. TokenUnique /\ UpdateOrder
  BY <1>1 DEF TokenUnique, UpdateOrder
<1> QED
  BY <1>5, <1>6, InitType DEF ClusterInv

(* The invariant of the cluster is inductive.                              *)
LEMMA NextCluster == ClusterInv /\ [Next]_vars => ClusterInv'
BY NextType, NextToken, NextOrder, NextCount DEF ClusterInv

(* A live task is not known as FAILED, hence counted.                      *)
LEMMA ClusterInvBounded == ClusterInv => ClusterBounded
<1> SUFFICES ASSUME ClusterInv PROVE ClusterBounded
  OBVIOUS
<1> USE DEF ClusterInv
<1>1. \A ty \in TaskType : Alive(ty) \subseteq Counted(ty)
  BY DEF Alive, Counted, Tasks, UpdateOrder, TaskOrder, TypeInv, TypeOK,
         MesosTypeOK
<1>2. \A ty \in TaskType :
        /\ Cardinality(Alive(ty)) <= Cardinality(Counted(ty))
        /\ Cardinality(Alive(ty)) \in Nat /\ Cardinality(Counted(ty)) \in Nat
  BY <1>1, FiniteTasks, FS_Subset DEF CountInv
<1>3. \A ty \in TaskType : stagingNum[ty] + runningNum[ty] \in Int
  BY DEF TypeInv, TypeOK, StateMachineTypeOK
<1>4. OSDNum + granted \in Int
  BY StateMachineAssumption DEF TypeInv, TypeOK, AgentTypeOK
<1> QED
  BY <1>2, <1>3, <1>4 DEF CountInv, ClusterBounded, TaskType

(* What the running counters claim is true of taskMap.                     *)
LEMMA ClusterInvHonest == ClusterInv => PhaseHonest
<1> SUFFICES ASSUME ClusterInv PROVE PhaseHonest
  OBVIOUS
<1> USE DEF ClusterInv
<1>1. \A ty \in TaskType : /\ runningNum[ty] \in Int
                           /\ Cardinality(Running(ty)) \in Nat
                           /\ runningNum[ty] <= Cardinality(Running(ty))
  BY FiniteTasks DEF CountInv, TypeInv, TypeOK, StateMachineTypeOK
<1>2. OSDNum \in Nat
  BY StateMachineAssumption
<1>3. /\ currentPhase # "BOOTSTRAP_MON" => runningNum["MON"] >= 1
      /\ currentPhase \in {"BOOTSTRAP_RADOSGW", "WAINTING_REQUEST"}
           => runningNum["OSD"] >= OSDNum
      /\ currentPhase = "WAINTING_REQUEST" => runningNum["RADOSGW"] >= 1
  BY <1>1, <1>2 DEF CountInv, PhaseFor, TaskType
<1> QED
  BY <1>1, <1>2, <1>3 DEF PhaseHonest, TaskType

(* The cluster never grows past one MON, one RADOSGW and OSDNum OSDs plus  *)
(* one per granted flex-up instance, for any number of failures, repeated  *)
(* updates and lost messages, although nextMove looks at counters that lag *)
(* behind the executors and may each be wrong.                             *)
THEOREM ClusterNeverTooBig == Spec => []ClusterBounded
BY InitCluster, NextCluster, ClusterInvBounded, PTL DEF Spec

(* The phase never runs ahead of the tasks that taskMap knows as RUNNING.  *)
THEOREM PhaseAlwaysHonest == Spec => []PhaseHonest
BY InitCluster, NextCluster, ClusterInvHonest, PTL DEF Spec

(* Only a complete cluster is granted a flex-up instance.                  *)
THEOREM GrantsOnlyWhenComplete == Spec => GrantOnlyWhenComplete
<1> DEFINE Complete == /\ Cardinality(Running("MON")) >= 1
                       /\ Cardinality(Running("OSD")) >= OSDNum
                       /\ Cardinality(Running("RADOSGW")) >= 1
<1>1. ClusterInv /\ [Next]_vars => [granted' # granted => Complete]_vars
  <2> SUFFICES ASSUME ClusterInv, Next, granted' # granted PROVE Complete
    OBVIOUS
  <2>1. AcceptOffer /\ phaseSeen = "WAINTING_REQUEST"
    BY DEF Next, vars, AgentStep, AssignOSDID, AssignDone, DeclineWrongRole,
           DeclineNotNow, DeclineNotEnough, DeclineNoRequest, AcceptOffer,
           ReceiveOffers, resourceOffers, LaunchTask, LaunchFails,
           ExecutorDies, ContainerDies,
           ContainerReturns, DeliverUpdate, RepeatUpdate,
           statusUpdate, DeliverDiskReady, RepeatDiskReady,
           statusUpdateDiskReady, PrepareDisks, DiskDies, BadDisk,
           DeliverAnswer, frameworkMessage, HandleLaunchOSD, StartFails,
           HandleRegisterOSD, LoseMessage, ReceiveRequest, processData,
           schedulerVars, agentVars
  <2>2. currentPhase = "WAINTING_REQUEST"
    BY <2>1 DEF AcceptOffer, considerOffer, nextOffer, ClusterInv, TypeInv,
                PhaseSeenFresh
  <2> QED
    BY <2>2, ClusterInvHonest DEF PhaseHonest
<1> QED
  BY <1>1, InitCluster, NextCluster, PTL DEF Spec, GrantOnlyWhenComplete
=============================================================================
