---------------------------- MODULE MessageProofs ---------------------------
(***************************************************************************)
(* The messages between the scheduler and the executors: which task is     *)
(* told that it is the initial MON, which one REGISTER_OSD is sent to, how *)
(* many ids a task is given and what the scheduler reads in an answer.     *)
(*                                                                         *)
(* Only the last theorem has a hypothesis on the constants, since without  *)
(* it the property fails: a repeated TASK_STARTING makes a task wait for a *)
(* second id.                                                              *)
(***************************************************************************)
EXTENDS ClusterProofs

-----------------------------------------------------------------------------
(* The initial MON.  isInitialMonNode outlives the offer it was set for,   *)
(* and is harmless because nextMove refuses the other offers of the batch: *)
(* the MON just staged fills the phase, and no callback runs in between.   *)

FlagHarmless ==
  /\ pc = "assign" => isInitialMonNode = 0
  /\ pc = "offers" /\ isInitialMonNode = 1
       => /\ currentPhase = "BOOTSTRAP_MON"
          /\ stagingNum["MON"] + runningNum["MON"] >= 1

FlagInv == ClusterInv /\ OnlyFirstMonInitial /\ FlagHarmless

(* An offer is accepted only while the flag is not set.                    *)
LEMMA FlagRefused ==
  ASSUME ClusterInv, FlagHarmless, AcceptOffer
  PROVE  /\ isInitialMonNode = 0
         /\ currentPhase' = currentPhase
         /\ nextMoveType = "MON"
              => /\ currentPhase = "BOOTSTRAP_MON"
                 /\ stagingNum'["MON"] + runningNum'["MON"] >= 1
<1>1. /\ stagingNum \in [TaskType -> Int] /\ runningNum \in [TaskType -> Int]
      /\ isInitialMonNode \in {0, 1}
  BY DEF ClusterInv, TypeInv, TypeOK, StateMachineTypeOK, AgentTypeOK
<1>2. pc = "offers" /\ nextMove(hostConfig) /\ currentPhase' = currentPhase
  BY DEF AcceptOffer, considerOffer, nextOffer
<1>3. currentPhase = "BOOTSTRAP_MON"
        => stagingNum["MON"] + runningNum["MON"] < 1
  BY <1>2 DEF nextMove
<1>4. isInitialMonNode = 0
  BY <1>1, <1>2, <1>3 DEF FlagHarmless, TaskType
<1>5. stagingNum["MON"] + runningNum["MON"] >= 0
  <2>1. /\ Cardinality(Counted("MON")) \in Nat
        /\ Cardinality(Counted("MON")) <= stagingNum["MON"] + runningNum["MON"]
    BY FiniteTasks DEF ClusterInv, CountInv, TaskType
  <2> QED
    BY <1>1, <2>1 DEF TaskType
<1>6. ASSUME nextMoveType = "MON"
      PROVE  /\ currentPhase = "BOOTSTRAP_MON"
             /\ stagingNum'["MON"] + runningNum'["MON"] >= 1
  <2>1. currentPhase = "BOOTSTRAP_MON"
    BY <1>6 DEF nextMoveType
  <2>2. /\ stagingNum' = [stagingNum EXCEPT !["MON"] = @ + 1]
        /\ runningNum' = runningNum
    BY <1>6 DEF AcceptOffer, addStagingTask, newTask
  <2> QED
    BY <1>1, <1>5, <2>1, <2>2 DEF TaskType
<1> QED
  BY <1>2, <1>4, <1>6

(* A task enters with the flag of its own offer.                           *)
LEMMA FlagAccept ==
  ASSUME FlagInv, AcceptOffer
  PROVE  (OnlyFirstMonInitial /\ FlagHarmless)'
<1>0. PICK nt : nt = newTask
  OBVIOUS
<1>1. /\ isInitialMonNode = 0
      /\ currentPhase' = currentPhase
      /\ nextMoveType = "MON"
           => /\ currentPhase = "BOOTSTRAP_MON"
              /\ stagingNum'["MON"] + runningNum'["MON"] >= 1
  BY FlagRefused DEF FlagInv
<1>2. nt.type = nextMoveType
  BY <1>0 DEF newTask
<1>3. /\ isInitialMonNode' = 1 => nt.type = "MON" /\ nt.token = 0
      /\ nt.type = "MON" /\ nt.token = 0 => isInitialMonNode' = 1
  BY <1>0, <1>1 DEF AcceptOffer
<1>4. pc' # "assign"
  BY DEF AcceptOffer, considerOffer, nextOffer
<1>5. FlagHarmless'
  BY <1>1, <1>2, <1>3, <1>4 DEF FlagHarmless
<1>6. \E source, p, j : launchTasks(nt, isInitialMonNode', source, p, j)
  BY <1>0 DEF AcceptOffer, launchNode
<1>7. /\ DOMAIN node' = DOMAIN node \cup {nt}
      /\ node'[nt].initial = isInitialMonNode'
      /\ \A v \in DOMAIN node : v # nt => node'[v] = node[v]
  BY <1>6 DEF launchTasks, Put
<1>8. OnlyFirstMonInitial'
  BY <1>3, <1>7 DEF FlagInv, OnlyFirstMonInitial
<1> QED
  BY <1>5, <1>8

(* The other steps leave the labels alone, and the flag in a batch.        *)
LEMMA NextFlag == FlagInv /\ [Next]_vars => FlagInv'
<1> SUFFICES ASSUME FlagInv, [Next]_vars PROVE FlagInv'
  OBVIOUS
<1>1. ClusterInv'
  BY NextCluster DEF FlagInv
<1>2. CASE AcceptOffer
  BY <1>1, <1>2, FlagAccept DEF FlagInv
<1>3. CASE ~ AcceptOffer
  <2>1. OnlyFirstMonInitial'
    BY <1>3, LabelsKept DEF FlagInv, OnlyFirstMonInitial, ClusterInv
  <2>2. CASE pc' = "offers"
    <3>1. /\ isInitialMonNode' = isInitialMonNode
          /\ UNCHANGED <<currentPhase, stagingNum, runningNum>>
          /\ pc \in {"assign", "offers"}
      BY <1>3, <2>2
         DEF Next, vars, AgentStep, AssignOSDID, AssignDone, updateCounters,
             updateTaskToStarting, getWaitingOSDTask,
             DeclineWrongRole, DeclineNotNow, DeclineNotEnough,
             DeclineNoRequest, considerOffer, nextOffer, ReceiveOffers,
             resourceOffers, LaunchTask, LaunchFails, ExecutorDies,
             ContainerDies,
             ContainerReturns, DeliverUpdate, RepeatUpdate, statusUpdate,
             DeliverDiskReady, RepeatDiskReady, statusUpdateDiskReady,
             PrepareDisks, DiskDies, BadDisk, DeliverAnswer, frameworkMessage,
             HandleLaunchOSD, StartFails, HandleRegisterOSD, LoseMessage,
             ReceiveRequest, processData, schedulerVars, agentVars, smVars
    <3> QED
      BY <1>1, <2>1, <2>2, <3>1 DEF FlagInv, FlagHarmless
  <2>3. CASE pc' = "assign"
    <3>1. \/ isInitialMonNode' = 0
          \/ isInitialMonNode' = isInitialMonNode /\ pc = "assign"
      BY <1>3, <2>3
         DEF Next, vars, AgentStep, AssignOSDID, AssignDone,
             DeclineWrongRole, DeclineNotNow, DeclineNotEnough,
             DeclineNoRequest, considerOffer, nextOffer, ReceiveOffers,
             resourceOffers, LaunchTask, LaunchFails, ExecutorDies,
             ContainerDies,
             ContainerReturns, DeliverUpdate, RepeatUpdate, statusUpdate,
             DeliverDiskReady, RepeatDiskReady, statusUpdateDiskReady,
             PrepareDisks, DiskDies, BadDisk, DeliverAnswer, frameworkMessage,
             HandleLaunchOSD, StartFails, HandleRegisterOSD, LoseMessage,
             ReceiveRequest, processData, schedulerVars, agentVars
    <3> QED
      BY <1>1, <2>1, <2>3, <3>1 DEF FlagInv, FlagHarmless
  <2> QED
    BY <1>1, <2>1, <2>2, <2>3 DEF FlagInv, FlagHarmless
<1> QED
  BY <1>2, <1>3

(* Only the first MON is launched as the initial one and wipes the         *)
(* configuration directory of its host, for every order of offers.         *)
THEOREM InitialMonIsFirst == Spec => []OnlyFirstMonInitial
<1>1. Init => FlagInv
  BY InitCluster DEF Init, MesosInit, AgentInit, FlagInv,
                     OnlyFirstMonInitial, FlagHarmless
<1>2. FlagInv => OnlyFirstMonInitial
  BY DEF FlagInv
<1> QED
  BY <1>1, <1>2, NextFlag, PTL DEF Spec

-----------------------------------------------------------------------------
(* REGISTER_OSD.  getInitialMon finds mon0 only if a MON with token 0 was  *)
(* launched, and a small offer may have burnt that token.  No harm is done *)
(* then: only the initial MON starts without configuration files, and the  *)
(* others get them from a MON that has started.  So every MON that starts  *)
(* goes back to mon0, and without one the phase never leaves               *)
(* BOOTSTRAP_MON and no OSD is launched.                                   *)

IsInitialMon(t) == t.type = "MON" /\ t.token = 0

Ran(t) == \E i \in 1 .. Len(updates[t]) : updates[t][i] = "TASK_RUNNING"

MonStarted(t) ==
  /\ t.type = "MON"
  /\ \/ node[t].st \notin {"launched", "dead"}
     \/ taskMap[t] = "RUNNING"
     \/ Ran(t)

FirstMonKnown ==
  (\E t \in DOMAIN node : MonStarted(t))
    => \E t \in DOMAIN taskMap : IsInitialMon(t)

LaunchToOSD == \A m \in toOSD : m.to.type = "OSD"

RegisterInv ==
  /\ FlagInv
  /\ LaunchToOSD
  /\ FirstMonKnown
  /\ RegisterGoesToInitialMon

(* The task of the offer is a new one.                                     *)
LEMMA NewTaskIsNew ==
  ASSUME TypeInv, TokenUnique
  PROVE  newTask \notin DOMAIN taskMap /\ newTask \notin DOMAIN node
<1>1. index[nextMoveType] \in Nat
  BY NextMoveTypeType DEF TypeInv, TypeOK, StateMachineTypeOK
<1>2. newTask.type = nextMoveType /\ newTask.token = index[nextMoveType]
  BY DEF newTask
<1>3. newTask \notin DOMAIN taskMap
  BY <1>1, <1>2 DEF TokenUnique
<1> QED
  BY <1>3 DEF TypeInv, TypeOK, MesosTypeOK

(* LAUNCH_OSD is sent to OSDs only.                                        *)
LEMMA NextLaunchTo ==
  ASSUME LaunchToOSD, [Next]_vars
  PROVE  LaunchToOSD'
<1>1. ASSUME NEW t \in DOMAIN taskMap, AssignOSDID(t)
      PROVE  LaunchToOSD'
  BY <1>1 DEF AssignOSDID, getWaitingOSDTask, LaunchToOSD
<1>2. CASE \A t \in DOMAIN taskMap : ~ AssignOSDID(t)
  <2>1. toOSD' \subseteq toOSD
    BY <1>2
       DEF Next, vars, AgentStep, AssignDone, DeclineWrongRole,
           DeclineNotNow, DeclineNotEnough, DeclineNoRequest, AcceptOffer,
           ReceiveOffers, resourceOffers, LaunchTask, LaunchTaskOSD,
           LaunchTaskDaemon, FetchFails, LaunchFails, LaunchTaskFails,
           ExecutorDies, ContainerDies, ContainerReturns, DeliverUpdate,
           RepeatUpdate, DeliverDiskReady, RepeatDiskReady, PrepareDisks,
           DiskDies, BadDisk, DiskLaunchTask, DeliverAnswer,
           HandleRegisterOSD, RegisterOSD, HandleLaunchOSD, LaunchOSD,
           StartFails, LaunchOSDFails, LoseMessage, ReceiveRequest,
           processData, execVars, mesosVars
  <2> QED
    BY <2>1 DEF LaunchToOSD
<1> QED
  BY <1>1, <1>2

(* What a step makes of the executor of a MON: it starts with              *)
(* configuration files, its container stops, or it is over.                *)
LEMMA MonAfter ==
  ASSUME TypeInv, TokenUnique, LaunchToOSD, [Next]_vars,
         NEW t \in DOMAIN node, t.type = "MON"
  PROVE  /\ t \in DOMAIN node'
         /\ \/ node'[t].st = node[t].st
            \/ node'[t].st = "dead"
            \/ node[t].st = "launched" /\ node'[t].st = "up" /\ canFetch(t)
            \/ node[t].st = "up" /\ node'[t].st = "zombie"
<1> DEFINE Good(n) ==
      /\ t \in DOMAIN n
      /\ \/ n[t].st = node[t].st
         \/ n[t].st = "dead"
         \/ node[t].st = "launched" /\ n[t].st = "up" /\ canFetch(t)
         \/ node[t].st = "up" /\ n[t].st = "zombie"
<1>0. node \in [DOMAIN node -> Node]
  BY DEF TypeInv, TypeOK, MesosTypeOK
<1>1. ASSUME NEW u \in DOMAIN node,
             LaunchTask(u) \/ LaunchFails(u) \/ ExecutorDies(u)
               \/ ContainerDies(u) \/ ContainerReturns(u)
      PROVE  Good(node')
  <2>1. PICK st :
          /\ node' = [node EXCEPT ![u].st = st]
          /\ \/ st = "dead"
             \/ u.type = "OSD"
             \/ node[u].st = "launched" /\ st = "up" /\ canFetch(u)
             \/ node[u].st = "up" /\ st = "zombie"
    BY <1>1 DEF LaunchTask, LaunchFails, ExecutorDies, ContainerDies,
                ContainerReturns, LaunchTaskOSD, LaunchTaskDaemon,
                FetchFails, LaunchTaskFails, SetState
  <2>2. DOMAIN node' = DOMAIN node /\ (u = t => node'[t].st = st)
    BY <1>0, <2>1 DEF Node
  <2>3. u # t => node'[t] = node[t]
    BY <1>0, <2>1
  <2> QED
    BY <2>1, <2>2, <2>3
<1>2. ASSUME NEW m \in toOSD, HandleLaunchOSD(m) \/ StartFails(m)
      PROVE  Good(node')
  <2>1. \E st :
          node' = [node EXCEPT ![m.to].st = st, ![m.to].ids = @ \cup {m.id}]
    BY <1>2 DEF HandleLaunchOSD, LaunchOSD, StartFails, LaunchOSDFails
  <2>2. m.to # t
    BY DEF LaunchToOSD
  <2> QED
    BY <1>0, <2>1, <2>2
<1>3. CASE AcceptOffer
  <2>0. PICK nt : nt = newTask
    OBVIOUS
  <2>1. \E initial, source, p, j : launchTasks(nt, initial, source, p, j)
    BY <1>3, <2>0 DEF AcceptOffer, launchNode
  <2>2. t # nt
    BY <2>0, NewTaskIsNew
  <2> QED
    BY <2>1, <2>2 DEF launchTasks, Put
<1>4. CASE /\ ~ AcceptOffer
           /\ \A u \in DOMAIN node :
                ~ (LaunchTask(u) \/ LaunchFails(u) \/ ExecutorDies(u)
                     \/ ContainerDies(u) \/ ContainerReturns(u))
           /\ \A m \in toOSD : ~ (HandleLaunchOSD(m) \/ StartFails(m))
  <2>1. node' = node
    BY <1>4 DEF Next, vars, AgentStep, AssignOSDID, AssignDone,
                DeclineWrongRole, DeclineNotNow, DeclineNotEnough,
                DeclineNoRequest, ReceiveOffers, resourceOffers,
                DeliverUpdate, RepeatUpdate, DeliverDiskReady,
                RepeatDiskReady, PrepareDisks, DiskDies, BadDisk,
                DiskLaunchTask, DeliverAnswer, HandleRegisterOSD,
                RegisterOSD, LoseMessage, ReceiveRequest, processData,
                execVars, mesosVars
  <2> QED
    BY <2>1
<1> QED
  BY <1>1, <1>2, <1>3, <1>4

(* A new TASK_RUNNING of a MON comes from launchTask.                      *)
LEMMA RanAfter ==
  ASSUME TypeInv, TokenUnique, LaunchToOSD, [Next]_vars,
         NEW t \in DOMAIN node, t.type = "MON", Ran(t)'
  PROVE  Ran(t) \/ canFetch(t)
<1>0. /\ DOMAIN updates = DOMAIN node
      /\ updates \in [DOMAIN updates -> Seq(TaskUpdate)]
      /\ updates[t] \in Seq(TaskUpdate)
  BY DEF TypeInv, TypeOK, MesosTypeOK
<1>1. ASSUME NEW u, NEW v, u # t \/ v # "TASK_RUNNING",
             sendStatusUpdate(u, v)
      PROVE  Ran(t)
  <2>1. \/ updates'[t] = updates[t]
        \/ updates'[t] = Append(updates[t], v) /\ v # "TASK_RUNNING"
    BY <1>0, <1>1 DEF sendStatusUpdate
  <2>2. CASE updates'[t] = updates[t]
    BY <2>2 DEF Ran
  <2>3. CASE updates'[t] = Append(updates[t], v) /\ v # "TASK_RUNNING"
    <3>1. /\ Len(updates'[t]) = Len(updates[t]) + 1 /\ Len(updates[t]) \in Nat
          /\ updates'[t][Len(updates[t]) + 1] = v
          /\ \A i \in 1 .. Len(updates[t]) : updates'[t][i] = updates[t][i]
      BY <1>0, <2>3
    <3> QED
      BY <2>3, <3>1 DEF Ran
  <2> QED
    BY <2>1, <2>2, <2>3
<1>2. ASSUME NEW u \in DOMAIN node,
             LaunchTask(u) \/ LaunchFails(u) \/ ExecutorDies(u)
      PROVE  Ran(t) \/ canFetch(t)
  <2>1. \E v : /\ sendStatusUpdate(u, v)
               /\ v # "TASK_RUNNING" \/ canFetch(u)
    BY <1>2 DEF LaunchTask, LaunchFails, ExecutorDies, LaunchTaskOSD,
                LaunchTaskDaemon, FetchFails, FetchFailure, LaunchTaskFails
  <2> QED
    BY <1>1, <2>1
<1>3. ASSUME NEW m \in toOSD, HandleLaunchOSD(m) \/ StartFails(m)
      PROVE  Ran(t)
  <2>1. m.to # t /\ \E v : sendStatusUpdate(m.to, v)
    BY <1>3 DEF HandleLaunchOSD, LaunchOSD, StartFails, LaunchOSDFails,
                LaunchToOSD
  <2> QED
    BY <1>1, <2>1
<1>4. ASSUME NEW u \in DOMAIN node, DeliverUpdate(u)
      PROVE  Ran(t)
  <2>1. /\ updates[u] # << >>
        /\ updates' = [updates EXCEPT ![u] = Tail(@)]
    BY <1>4 DEF DeliverUpdate
  <2>2. CASE u # t
    BY <1>0, <2>1, <2>2 DEF Ran
  <2>3. CASE u = t
    <3>1. /\ Len(updates'[t]) = Len(updates[t]) - 1 /\ Len(updates[t]) \in Nat
          /\ \A i \in 1 .. Len(updates'[t]) :
               updates'[t][i] = updates[t][i + 1]
      BY <1>0, <2>1, <2>3
    <3>2. \A i \in 1 .. Len(updates'[t]) : i + 1 \in 1 .. Len(updates[t])
      BY <3>1
    <3> QED
      BY <3>1, <3>2 DEF Ran
  <2> QED
    BY <2>2, <2>3
<1>5. CASE AcceptOffer
  <2>0. PICK nt : nt = newTask
    OBVIOUS
  <2>1. \E initial, source, p, j : launchTasks(nt, initial, source, p, j)
    BY <1>5, <2>0 DEF AcceptOffer, launchNode
  <2>2. t # nt
    BY <2>0, NewTaskIsNew
  <2>3. updates'[t] = updates[t]
    BY <1>0, <2>1, <2>2 DEF launchTasks, Put
  <2> QED
    BY <2>3 DEF Ran
<1>6. CASE /\ ~ AcceptOffer
           /\ \A u \in DOMAIN node :
                ~ (LaunchTask(u) \/ LaunchFails(u) \/ ExecutorDies(u)
                     \/ DeliverUpdate(u))
           /\ \A m \in toOSD : ~ (HandleLaunchOSD(m) \/ StartFails(m))
  <2>1. updates' = updates
    BY <1>6 DEF Next, vars, AgentStep, AssignOSDID, AssignDone,
                DeclineWrongRole, DeclineNotNow, DeclineNotEnough,
                DeclineNoRequest, ReceiveOffers, resourceOffers,
                ContainerDies, ContainerReturns, RepeatUpdate,
                DeliverDiskReady, RepeatDiskReady, PrepareDisks, DiskDies,
                BadDisk, DiskLaunchTask, DeliverAnswer, HandleRegisterOSD,
                RegisterOSD, LoseMessage, ReceiveRequest, processData,
                execVars, mesosVars
  <2> QED
    BY <2>1 DEF Ran
<1> QED
  BY <1>2, <1>3, <1>4, <1>5, <1>6

(* A MON becomes RUNNING in taskMap by its TASK_RUNNING.                   *)
LEMMA RunningAfter ==
  ASSUME ClusterInv, [Next]_vars, NEW t \in DOMAIN node,
         taskMap'[t] = "RUNNING"
  PROVE  taskMap[t] = "RUNNING" \/ Ran(t)
<1>0. /\ DOMAIN taskMap = DOMAIN node
      /\ updates[t] \in Seq(TaskUpdate)
      /\ TypeInv /\ UpdateOrder /\ TokenUnique
  BY DEF ClusterInv, TypeInv, TypeOK, MesosTypeOK
<1>1. ASSUME NEW u \in DOMAIN node, DeliverUpdate(u) \/ RepeatUpdate(u)
      PROVE  taskMap[t] = "RUNNING" \/ Ran(t)
  <2>1. updates[u] # << >> /\ statusUpdate(u, Head(updates[u]))
    BY <1>1 DEF DeliverUpdate, RepeatUpdate
  <2>2. \/ taskMap' = taskMap
        \/ \E new : /\ taskMap' = [taskMap EXCEPT ![u] = new]
                    /\ new = "RUNNING" => Head(updates[u]) = "TASK_RUNNING"
    BY <1>0, <2>1, StatusAfter DEF smVars
  <2>3. CASE u # t
    BY <1>0, <2>2, <2>3
  <2>4. CASE u = t
    <3>1. 1 \in 1 .. Len(updates[t]) /\ Head(updates[t]) = updates[t][1]
      BY <1>0, <2>1, <2>4
    <3> QED
      BY <1>0, <2>2, <2>4, <3>1 DEF Ran
  <2> QED
    BY <2>3, <2>4
<1>2. ASSUME NEW u \in DOMAIN taskMap, AssignOSDID(u)
      PROVE  taskMap[t] = "RUNNING"
  <2>1. taskMap' = [taskMap EXCEPT ![u] = "STARTING"]
    BY <1>2 DEF AssignOSDID, updateTaskToStarting, getWaitingOSDTask
  <2> QED
    BY <1>0, <2>1
<1>3. CASE AcceptOffer
  <2>1. taskMap' = Put(taskMap, newTask, "STAGING") /\ t # newTask
    BY <1>0, <1>3, NewTaskIsNew DEF AcceptOffer, addStagingTask
  <2> QED
    BY <1>0, <2>1 DEF Put
<1>4. CASE /\ ~ AcceptOffer
           /\ \A u \in DOMAIN taskMap : ~ AssignOSDID(u)
           /\ \A u \in DOMAIN node : ~ (DeliverUpdate(u) \/ RepeatUpdate(u))
  <2>1. taskMap' = taskMap
    BY <1>4 DEF Next, vars, AgentStep, AssignDone, DeclineWrongRole,
                DeclineNotNow, DeclineNotEnough, DeclineNoRequest,
                ReceiveOffers, resourceOffers, LaunchTask, LaunchFails,
                ExecutorDies, ContainerDies, ContainerReturns,
                DeliverDiskReady, RepeatDiskReady, statusUpdateDiskReady,
                PrepareDisks, DiskDies, BadDisk, DeliverAnswer,
                frameworkMessage, HandleLaunchOSD, StartFails,
                HandleRegisterOSD, LoseMessage, ReceiveRequest, processData,
                schedulerVars, smVars
  <2> QED
    BY <2>1
<1> QED
  BY <1>1, <1>2, <1>3, <1>4

(* A MON starts when it is the initial one or another has started.         *)
LEMMA NextFirstMon ==
  ASSUME FlagInv, LaunchToOSD, FirstMonKnown, [Next]_vars
  PROVE  FirstMonKnown'
<1>0. TypeInv /\ TokenUnique /\ DOMAIN node = DOMAIN taskMap
  BY DEF FlagInv, ClusterInv, TypeInv, TypeOK, MesosTypeOK
<1>1. DOMAIN taskMap \subseteq DOMAIN taskMap'
  <2>1. CASE AcceptOffer
    BY <2>1 DEF AcceptOffer, addStagingTask, Put
  <2>2. CASE ~ AcceptOffer
    BY <1>0, <2>2, LabelsKept
  <2> QED
    BY <2>1, <2>2
<1>2. ASSUME NEW t \in DOMAIN node', MonStarted(t)'
      PROVE  \E u \in DOMAIN taskMap : IsInitialMon(u)
  <2>1. CASE t \in DOMAIN node
    <3>1. t.type = "MON"
      BY <1>2 DEF MonStarted
    <3>2. \/ node'[t].st = node[t].st
          \/ node'[t].st = "dead"
          \/ canFetch(t)
          \/ node[t].st = "up"
      BY <1>0, <2>1, <3>1, MonAfter
    <3>3. Ran(t)' => Ran(t) \/ canFetch(t)
      BY <1>0, <2>1, <3>1, RanAfter
    <3>4. taskMap'[t] = "RUNNING" => taskMap[t] = "RUNNING" \/ Ran(t)
      BY <2>1, RunningAfter DEF FlagInv
    <3>5. MonStarted(t) \/ canFetch(t)
      BY <1>2, <3>2, <3>3, <3>4 DEF MonStarted
    <3>6. CASE MonStarted(t)
      BY <2>1, <3>6 DEF FirstMonKnown
    <3>7. CASE canFetch(t)
      <4>1. CASE node[t].initial = 1
        BY <1>0, <2>1, <4>1 DEF FlagInv, OnlyFirstMonInitial, IsInitialMon
      <4>2. CASE Serving(node[t].source)
        <5>1. \E m \in DOMAIN node : MonStarted(m)
          BY <4>2 DEF Serving, MonStarted
        <5> QED
          BY <5>1 DEF FirstMonKnown
      <4> QED
        BY <3>7, <4>1, <4>2 DEF canFetch
    <3> QED
      BY <3>5, <3>6, <3>7
  <2>2. CASE t \notin DOMAIN node
    <3>1. AcceptOffer
      BY <1>0, <1>2, <2>2, LabelsKept
    <3>2. PICK nt : nt = newTask
      OBVIOUS
    <3>3. \E initial, source, p, j : launchTasks(nt, initial, source, p, j)
      BY <3>1, <3>2 DEF AcceptOffer, launchNode
    <3>4. /\ t = nt
          /\ node'[t].st = "launched"
          /\ updates'[t] = << >>
      BY <1>2, <2>2, <3>3 DEF launchTasks, Put
    <3>5. taskMap'[t] = "STAGING"
      BY <3>1, <3>2, <3>4 DEF AcceptOffer, addStagingTask, Put
    <3>6. ~ Ran(t)'
      BY <3>4 DEF Ran
    <3> QED
      BY <1>2, <3>4, <3>5, <3>6 DEF MonStarted
  <2> QED
    BY <2>1, <2>2
<1> QED
  BY <1>1, <1>2 DEF FirstMonKnown

(* While an OSD may be launched, the initial MON is there and has started: *)
(* it is the MON that is RUNNING, or it failed.                            *)
LEMMA InitialMonStarted ==
  ASSUME ClusterInv, FirstMonKnown, currentPhase # "BOOTSTRAP_MON"
  PROVE  /\ \E t \in DOMAIN taskMap : IsInitialMon(t)
         /\ \A t \in DOMAIN taskMap :
              IsInitialMon(t) => node[t].st # "launched"
<1> USE DEF ClusterInv
<1>1. Cardinality(Running("MON")) >= 1
  BY ClusterInvHonest DEF PhaseHonest
<1>2. PICK r \in Running("MON") : TRUE
  <2>1. Running("MON") # {}
    BY <1>1, FS_EmptySet
  <2> QED
    BY <2>1
<1>3. r \in DOMAIN taskMap /\ r.type = "MON" /\ taskMap[r] = "RUNNING"
  BY DEF Running, Tasks
<1>4. \E t \in DOMAIN taskMap : IsInitialMon(t)
  <2>1. r \in DOMAIN node /\ MonStarted(r)
    BY <1>3 DEF TypeInv, TypeOK, MesosTypeOK, MonStarted
  <2> QED
    BY <2>1 DEF FirstMonKnown
<1>5. ASSUME NEW t \in DOMAIN taskMap, IsInitialMon(t)
      PROVE  node[t].st # "launched"
  <2>1. t \in DOMAIN node /\ r \in DOMAIN node
    BY <1>3 DEF TypeInv, TypeOK, MesosTypeOK
  <2>2. TaskOrder(t) /\ TaskOrder(r)
    BY <2>1 DEF UpdateOrder
  <2>3. CASE taskMap[t] = "FAILED"
    BY <2>2, <2>3 DEF TaskOrder
  <2>4. CASE taskMap[t] # "FAILED"
    <3>1. t \in Counted("MON") /\ r \in Counted("MON")
      BY <1>3, <1>5, <2>4 DEF Counted, Tasks, IsInitialMon
    <3>2. /\ IsFiniteSet(Counted("MON"))
          /\ Cardinality(Counted("MON")) \in Nat
      BY FiniteTasks DEF CountInv, TaskType
    <3>3. Cardinality(Counted("MON")) <= 1
      <4>1. stagingNum["MON"] \in Int /\ runningNum["MON"] \in Int
        BY DEF TaskType, TypeInv, TypeOK, StateMachineTypeOK
      <4> QED
        BY <3>2, <4>1 DEF CountInv, TaskType
    <3>4. Cardinality(Counted("MON")) = 1
      BY <3>1, <3>2, <3>3, FS_EmptySet
    <3>5. \E x : Counted("MON") = {x}
      BY <3>2, <3>4, FS_Singleton
    <3>6. t = r
      BY <3>1, <3>5
    <3> QED
      BY <1>3, <2>2, <3>6 DEF TaskOrder
  <2> QED
    BY <2>3, <2>4
<1> QED
  BY <1>4, <1>5

(* REGISTER_OSD goes to a MON with token 0 of the map the OSD has entered. *)
LEMMA RegisterAccept ==
  ASSUME RegisterInv, AcceptOffer, newTask.type = "OSD",
         NEW m \in getInitialMon'
  PROVE  IsInitialMon(m) /\ m \in DOMAIN node /\ node[m].st # "launched"
<1> USE DEF RegisterInv, FlagInv, ClusterInv
<1>1. currentPhase # "BOOTSTRAP_MON"
  BY DEF newTask, nextMoveType
<1>2. DOMAIN taskMap' = DOMAIN taskMap \cup {newTask}
  BY DEF AcceptOffer, addStagingTask, Put
<1>3. /\ \E t \in DOMAIN taskMap : IsInitialMon(t)
      /\ \A t \in DOMAIN taskMap : IsInitialMon(t) => node[t].st # "launched"
  BY <1>1, InitialMonStarted
<1>4. m \in DOMAIN taskMap' /\ IsInitialMon(m)
  BY <1>2, <1>3 DEF getInitialMon, IsInitialMon
<1>5. m \in DOMAIN taskMap
  BY <1>2, <1>4 DEF IsInitialMon
<1>6. DOMAIN node = DOMAIN taskMap
  BY DEF TypeInv, TypeOK, MesosTypeOK
<1> QED
  BY <1>3, <1>4, <1>5, <1>6

(* A message stays in place, moves up, or is a new one at the end.         *)
LEMMA NextRegister ==
  ASSUME RegisterInv, [Next]_vars
  PROVE  RegisterInv'
<1> USE DEF RegisterInv
<1>0. TypeInv /\ TokenUnique /\ toMon \in Seq(TaskID)
  BY DEF FlagInv, ClusterInv, TypeInv, TypeOK, MesosTypeOK
<1>1. FlagInv' /\ LaunchToOSD' /\ FirstMonKnown'
  BY NextFlag, NextLaunchTo, NextFirstMon
<1> DEFINE Good(m) ==
      /\ m.type = "MON" /\ m.token = 0
      /\ m \in DOMAIN node
      /\ node[m].st # "launched"
<1>2. ASSUME NEW m, Good(m)
      PROVE  /\ m.type = "MON" /\ m.token = 0
             /\ m \in DOMAIN node' /\ node'[m].st # "launched"
  BY <1>0, <1>2, MonAfter
<1>3. \A i \in 1 .. Len(toMon) : Good(toMon[i])
  BY DEF RegisterGoesToInitialMon
<1>4. \A i \in 1 .. Len(toMon') : Good(toMon'[i])
  <2>1. CASE AcceptOffer
    <3>1. toMon' = toMon \/ \E m : Good(m) /\ toMon' = Append(toMon, m)
      BY <2>1, RegisterAccept DEF AcceptOffer, IsInitialMon
    <3> QED
      BY <1>0, <1>3, <3>1
  <2>2. CASE HandleRegisterOSD \/ LoseMessage
    <3>1. toMon' = toMon \/ (toMon # << >> /\ toMon' = Tail(toMon))
      BY <2>2 DEF HandleRegisterOSD, RegisterOSD, LoseMessage
    <3>2. CASE toMon' = toMon
      BY <1>3, <3>2
    <3>3. CASE toMon # << >> /\ toMon' = Tail(toMon)
      <4>1. /\ Len(toMon') = Len(toMon) - 1 /\ Len(toMon) \in Nat
            /\ \A i \in 1 .. Len(toMon') : toMon'[i] = toMon[i + 1]
        BY <1>0, <3>3
      <4>2. \A i \in 1 .. Len(toMon') : i + 1 \in 1 .. Len(toMon)
        BY <4>1
      <4> QED
        BY <1>3, <4>1, <4>2
    <3> QED
      BY <3>1, <3>2, <3>3
  <2>3. CASE ~ AcceptOffer /\ ~ HandleRegisterOSD /\ ~ LoseMessage
    <3>1. toMon' = toMon
      BY <2>3
         DEF Next, vars, AgentStep, AssignOSDID, AssignDone,
             DeclineWrongRole, DeclineNotNow, DeclineNotEnough,
             DeclineNoRequest, ReceiveOffers, resourceOffers, LaunchTask,
             LaunchTaskOSD, LaunchTaskDaemon, FetchFails, LaunchFails,
             LaunchTaskFails, ExecutorDies, ContainerDies,
             ContainerReturns, DeliverUpdate,
             RepeatUpdate, DeliverDiskReady, RepeatDiskReady, PrepareDisks,
             DiskDies, BadDisk, DiskLaunchTask, DeliverAnswer,
             HandleLaunchOSD, LaunchOSD, StartFails, LaunchOSDFails,
             ReceiveRequest, processData, execVars, mesosVars
    <3> QED
      BY <1>3, <3>1
  <2> QED
    BY <2>1, <2>2, <2>3
<1> HIDE DEF Good
<1>5. RegisterGoesToInitialMon'
  BY <1>2, <1>4 DEF RegisterGoesToInitialMon
<1> QED
  BY <1>1, <1>5

(* Initially there is no message and no task.                              *)
LEMMA InitRegister == Init => RegisterInv
<1> SUFFICES ASSUME Init PROVE RegisterInv
  OBVIOUS
<1>1. toMon = << >> /\ toOSD = {} /\ DOMAIN node = {}
  BY DEF Init, MesosInit
<1>2. FlagInv
  BY <1>1, InitCluster DEF Init, AgentInit, FlagInv, OnlyFirstMonInitial,
                           FlagHarmless
<1> QED
  BY <1>1, <1>2 DEF RegisterInv, LaunchToOSD, FirstMonKnown,
                    RegisterGoesToInitialMon

(* REGISTER_OSD only ever goes to the first MON, and that one has started, *)
(* whatever offers burn tokens and whatever fails, is lost or repeated.    *)
THEOREM RegisterReachesInitialMon == Spec => []RegisterGoesToInitialMon
<1>1. RegisterInv /\ [Next]_vars => RegisterInv'
  BY NextRegister
<1>2. RegisterInv => RegisterGoesToInitialMon
  BY DEF RegisterInv
<1> QED
  BY <1>1, <1>2, InitRegister, PTL DEF Spec

-----------------------------------------------------------------------------
(* Answers.  The MON that REGISTER_OSD reaches has a container to run      *)
(* "ceph osd create" in, unless the container stopped under its executor.  *)
(* That container never comes back: only an OSD's docker run is repeated.  *)

LostMon(t) == /\ t \in DOMAIN node
              /\ IsInitialMon(t)
              /\ node[t].st \in {"zombie", "dead"}

AnswerInv ==
  /\ RegisterInv
  /\ \A t \in DOMAIN node : t.type = "MON" => node[t].st # "waiting"
  /\ \A m \in fromMon : m.id = Garbage => LostMon(m.from)
  /\ pc = "crashed" => \E t : LostMon(t)

(* A MON without its container stays without.                              *)
LEMMA LostForGood ==
  ASSUME RegisterInv, [Next]_vars, NEW t, LostMon(t)
  PROVE  LostMon(t)'
<1>1. TypeInv /\ TokenUnique /\ LaunchToOSD
  BY DEF RegisterInv, FlagInv, ClusterInv
<1>2. t \in DOMAIN node /\ t.type = "MON"
  BY DEF LostMon, IsInitialMon
<1> QED
  BY <1>1, <1>2, MonAfter DEF LostMon

(* A MON does not wait: it gets no LAUNCH_OSD.                             *)
LEMMA MonNeverWaits ==
  ASSUME AnswerInv, [Next]_vars, NEW t \in DOMAIN node', t.type = "MON"
  PROVE  node'[t].st # "waiting"
<1>0. TypeInv /\ TokenUnique /\ LaunchToOSD
  BY DEF AnswerInv, RegisterInv, FlagInv, ClusterInv
<1>1. CASE t \in DOMAIN node
  BY <1>0, <1>1, MonAfter DEF AnswerInv
<1>2. CASE t \notin DOMAIN node
  <2>1. AcceptOffer
    BY <1>0, <1>2, LabelsKept
  <2>2. PICK nt : nt = newTask
    OBVIOUS
  <2>3. \E initial, source, p, j : launchTasks(nt, initial, source, p, j)
    BY <2>1, <2>2 DEF AcceptOffer, launchNode
  <2> QED
    BY <1>2, <2>3 DEF launchTasks, Put
<1> QED
  BY <1>1, <1>2

(* Every step keeps it: an answer that is no number comes from the first   *)
(* MON without its container, and only such an answer ends the scheduler.  *)
LEMMA NextAnswer ==
  ASSUME AnswerInv, [Next]_vars
  PROVE  AnswerInv'
<1> USE DEF AnswerInv
<1>0. TypeInv
  BY DEF RegisterInv, FlagInv, ClusterInv
<1>1. RegisterInv'
  BY NextRegister
<1>2. \A t \in DOMAIN node' : t.type = "MON" => node'[t].st # "waiting"
  BY MonNeverWaits
<1>3. ASSUME NEW m \in fromMon', m.id = Garbage
      PROVE  LostMon(m.from)'
  <2>1. CASE HandleRegisterOSD
    <3>1. toMon # << >> /\ toMon \in Seq(TaskID)
      BY <1>0, <2>1 DEF HandleRegisterOSD, RegisterOSD, TypeInv, TypeOK,
                        MesosTypeOK
    <3>2. /\ Head(toMon) \in DOMAIN node
          /\ IsInitialMon(Head(toMon))
      <4>1. 1 \in 1 .. Len(toMon) /\ Head(toMon) = toMon[1]
        BY <3>1
      <4> QED
        BY <4>1 DEF RegisterInv, RegisterGoesToInitialMon, IsInitialMon
    <3>3. osdCreated # Garbage
      BY <1>0 DEF TypeInv, TypeOK, Garbage
    <3>4. \/ m \in fromMon
          \/ m.from = Head(toMon) /\ node[Head(toMon)].st # "up"
      BY <1>3, <2>1, <3>2, <3>3
         DEF HandleRegisterOSD, RegisterOSD, IsInitialMon
    <3>5. node[Head(toMon)].st \in {"up", "zombie"}
      BY <2>1, <3>2 DEF HandleRegisterOSD, RegisterOSD, IsInitialMon
    <3>6. LostMon(m.from)
      BY <1>3, <3>2, <3>4, <3>5 DEF LostMon
    <3> QED
      BY <3>6, LostForGood
  <2>2. CASE ~ HandleRegisterOSD
    <3>1. fromMon' \subseteq fromMon
      BY <2>2
         DEF Next, vars, AgentStep, AssignOSDID, AssignDone,
             DeclineWrongRole, DeclineNotNow, DeclineNotEnough,
             DeclineNoRequest, AcceptOffer, ReceiveOffers, resourceOffers,
             LaunchTask, LaunchTaskOSD, LaunchTaskDaemon, FetchFails,
             LaunchFails, LaunchTaskFails, ExecutorDies, ContainerDies,
             ContainerReturns, DeliverUpdate, RepeatUpdate,
             DeliverDiskReady, RepeatDiskReady, PrepareDisks, DiskDies,
             BadDisk, DiskLaunchTask, DeliverAnswer, HandleLaunchOSD,
             LaunchOSD, StartFails, LaunchOSDFails, LoseMessage,
             ReceiveRequest, processData, execVars, mesosVars
    <3>2. LostMon(m.from)
      BY <1>3, <3>1
    <3> QED
      BY <3>2, LostForGood
  <2> QED
    BY <2>1, <2>2
<1>4. ASSUME pc' = "crashed"
      PROVE  \E t : LostMon(t)'
  <2>1. ASSUME NEW m \in fromMon, DeliverAnswer(m)
        PROVE  pc = "crashed" \/ LostMon(m.from)
    BY <1>4, <2>1 DEF DeliverAnswer, frameworkMessage
  <2>2. ASSUME \A m \in fromMon : ~ DeliverAnswer(m)
        PROVE  pc = "crashed"
    <3>1. pc' = pc \/ pc' \in {"idle", "assign", "offers"}
      BY <2>2
         DEF Next, vars, AgentStep, AssignOSDID, AssignDone,
             DeclineWrongRole, DeclineNotNow, DeclineNotEnough,
             DeclineNoRequest, AcceptOffer, considerOffer, nextOffer,
             ReceiveOffers, resourceOffers, LaunchTask, LaunchFails,
             ExecutorDies, ContainerDies, ContainerReturns, DeliverUpdate,
             RepeatUpdate, statusUpdate, DeliverDiskReady, RepeatDiskReady,
             statusUpdateDiskReady, PrepareDisks, DiskDies, BadDisk,
             HandleLaunchOSD, StartFails, HandleRegisterOSD, LoseMessage,
             ReceiveRequest, processData, schedulerVars, agentVars
    <3> QED
      BY <1>4, <3>1
  <2>3. \E t : LostMon(t)
    BY <2>1, <2>2
  <2> QED
    BY <2>3, LostForGood
<1> QED
  BY <1>1, <1>2, <1>3, <1>4

(* The scheduler dies of an answer only when the first MON has lost its    *)
(* container, whatever offers, losses, repetitions and failures there are. *)
THEOREM OnlyLostMonThrows == Spec => []CrashNeedsLostMon
<1>1. Init => AnswerInv
  BY InitRegister DEF Init, MesosInit, AgentInit, AnswerInv
<1>2. AnswerInv /\ [Next]_vars => AnswerInv'
  BY NextAnswer
<1>3. AnswerInv => CrashNeedsLostMon
  <2> SUFFICES ASSUME AnswerInv, NEW t, LostMon(t)
               PROVE  \E u \in Tasks("MON") :
                        u.token = 0 /\ node[u].st \in {"zombie", "dead"}
    BY DEF AnswerInv, CrashNeedsLostMon
  <2>1. t \in Tasks("MON")
    BY DEF LostMon, IsInitialMon, Tasks, AnswerInv, RegisterInv, FlagInv,
           ClusterInv, TypeInv, TypeOK, MesosTypeOK
  <2> QED
    BY <2>1 DEF LostMon, IsInitialMon
<1> QED
  BY <1>1, <1>2, <1>3, PTL DEF Spec

-----------------------------------------------------------------------------
(* OSD ids.  A task is given an id when it is WAITING_OSDID and leaves     *)
(* that status for good, because the TASK_STARTING that led to it was its  *)
(* only one.                                                               *)

IdOnce(t) ==
  /\ idsOf(t) # {} => taskMap[t] \notin {"STAGING", "WAITING_OSDID"}
  /\ \A i \in 1 .. Len(updates[t]) :
       updates[t][i] = "TASK_STARTING" => taskMap[t] = "STAGING"
  /\ \A x \in idsOf(t) : \A y \in idsOf(t) : x = y

OneIdInv == ClusterInv /\ \A t \in DOMAIN node : IdOnce(t)

(* A step that touches one task only.                                      *)
LEMMA IdOthers ==
  ASSUME OneIdInv, NEW t, DOMAIN node' = DOMAIN node,
         \A u \in DOMAIN node :
           u # t => /\ idsOf(u)' \subseteq idsOf(u)
                    /\ updates'[u] = updates[u]
                    /\ taskMap'[u] = taskMap[u],
         t \in DOMAIN node => IdOnce(t)'
  PROVE  \A u \in DOMAIN node' : IdOnce(u)'
<1>1. ASSUME NEW u \in DOMAIN node, u # t PROVE IdOnce(u)'
  <2>1. IdOnce(u) /\ idsOf(u)' \subseteq idsOf(u)
    BY <1>1 DEF OneIdInv
  <2>2. updates'[u] = updates[u] /\ taskMap'[u] = taskMap[u]
    BY <1>1
  <2> QED
    BY <2>1, <2>2 DEF IdOnce
<1> QED
  BY <1>1

(* The ids of the tasks only become fewer when messages are lost.          *)
LEMMA TaskIdsKept ==
  ASSUME NEW u, node'[u].ids = node[u].ids, toOSD' \subseteq toOSD
  PROVE  idsOf(u)' \subseteq idsOf(u)
BY DEF idsOf

(* handleWaitingOSDTasks: the task had no id and counts as STARTING now.   *)
LEMMA AssignOnce ==
  ASSUME OneIdInv, NEW t \in DOMAIN taskMap, AssignOSDID(t)
  PROVE  \A u \in DOMAIN node' : IdOnce(u)'
<1>1. PICK a : /\ toOSD' = toOSD \cup {a}
               /\ a = [to |-> t, id |-> pendingOSDID[Len(pendingOSDID)]]
  BY DEF AssignOSDID
<1>2. /\ UNCHANGED <<node, updates>>
      /\ taskMap' = [taskMap EXCEPT ![t] = "STARTING"]
      /\ taskMap[t] = "WAITING_OSDID"
  BY DEF AssignOSDID, updateTaskToStarting, getWaitingOSDTask
<1>3. t \in DOMAIN node /\ DOMAIN node = DOMAIN taskMap
  BY DEF OneIdInv, ClusterInv, TypeInv, TypeOK, MesosTypeOK
<1>4. IdOnce(t)
  BY <1>3 DEF OneIdInv
<1>5. idsOf(t) = {}
  BY <1>2, <1>4 DEF IdOnce
<1>6. idsOf(t)' = {a.id}
  BY <1>1, <1>2, <1>5 DEF idsOf
<1>7. \A u \in DOMAIN node : u # t => idsOf(u)' \subseteq idsOf(u)
  BY <1>1, <1>2 DEF idsOf
<1>8. /\ taskMap'[t] = "STARTING"
      /\ \A u \in DOMAIN node : u # t => taskMap'[u] = taskMap[u]
  BY <1>2, <1>3
<1>9. IdOnce(t)'
  BY <1>2, <1>4, <1>6, <1>8 DEF IdOnce
<1> QED
  BY <1>2, <1>7, <1>8, <1>9, IdOthers

(* LAUNCH_OSD: the id moves from the message to the executor.              *)
LEMMA LaunchOnce ==
  ASSUME OneIdInv, NEW m \in toOSD, HandleLaunchOSD(m) \/ StartFails(m)
  PROVE  \A u \in DOMAIN node' : IdOnce(u)'
<1>0. PICK t : t = m.to
  OBVIOUS
<1>1. /\ t \in DOMAIN node /\ node \in [DOMAIN node -> Node]
      /\ DOMAIN updates = DOMAIN node
      /\ updates \in [DOMAIN updates -> Seq(TaskUpdate)]
  BY <1>0 DEF OneIdInv, ClusterInv, TypeInv, TypeOK, MesosTypeOK
<1>2. /\ toOSD' = toOSD \ {m}
      /\ taskMap' = taskMap
      /\ \E st : node' = [node EXCEPT ![t].st = st,
                                     ![t].ids = @ \cup {m.id}]
  BY <1>0 DEF HandleLaunchOSD, LaunchOSD, StartFails, LaunchOSDFails,
              schedulerVars, smVars
<1>2a. PICK v \in {"TASK_RUNNING", "TASK_FAILED"} : sendStatusUpdate(t, v)
  BY <1>0 DEF HandleLaunchOSD, LaunchOSD, StartFails, LaunchOSDFails
<1>3. /\ DOMAIN node' = DOMAIN node
      /\ node'[t].ids = node[t].ids \cup {m.id}
      /\ \A u \in DOMAIN node : u # t => node'[u] = node[u]
  BY <1>1, <1>2 DEF Node
<1>4. /\ updates'[t] = Append(updates[t], v)
      /\ \A u \in DOMAIN node : u # t => updates'[u] = updates[u]
  BY <1>1, <1>2a DEF sendStatusUpdate
<1>5. \A u \in DOMAIN node : idsOf(u)' \subseteq idsOf(u)
  BY <1>0, <1>2, <1>3 DEF idsOf
<1>6. IdOnce(t)
  BY <1>1 DEF OneIdInv
<1>7. updates[t] \in Seq(TaskUpdate) /\ v # "TASK_STARTING"
  BY <1>1, <1>2a
<1>8. \A i \in 1 .. Len(updates'[t]) :
        updates'[t][i] = "TASK_STARTING" => taskMap[t] = "STAGING"
  <2>1. /\ Len(updates'[t]) = Len(updates[t]) + 1 /\ Len(updates[t]) \in Nat
        /\ updates'[t][Len(updates[t]) + 1] = v
        /\ \A i \in 1 .. Len(updates[t]) : updates'[t][i] = updates[t][i]
    BY <1>4, <1>7
  <2> QED
    BY <1>6, <1>7, <2>1 DEF IdOnce
<1>9. IdOnce(t)'
  BY <1>1, <1>2, <1>5, <1>6, <1>8 DEF IdOnce
<1> QED
  BY <1>2, <1>3, <1>4, <1>5, <1>9, IdOthers

(* An executor that has no id yet reports TASK_STARTING, once.             *)
LEMMA ExecutorOnce ==
  ASSUME OneIdInv, NEW t \in DOMAIN node,
         LaunchTask(t) \/ LaunchFails(t) \/ ExecutorDies(t) \/ ContainerDies(t)
           \/ ContainerReturns(t)
  PROVE  \A u \in DOMAIN node' : IdOnce(u)'
<1>1. /\ node \in [DOMAIN node -> Node]
      /\ DOMAIN updates = DOMAIN node
      /\ updates \in [DOMAIN updates -> Seq(TaskUpdate)]
  BY DEF OneIdInv, ClusterInv, TypeInv, TypeOK, MesosTypeOK
<1>2. /\ taskMap' = taskMap /\ toOSD' = toOSD
      /\ \E st : node' = [node EXCEPT ![t].st = st]
  BY DEF LaunchTask, LaunchFails, ExecutorDies, ContainerDies,
         ContainerReturns, LaunchTaskOSD,
         LaunchTaskDaemon, FetchFails, LaunchTaskFails, SetState,
         schedulerVars, smVars
<1>2a. \/ updates' = updates
      \/ \E v \in TaskUpdate :
           /\ sendStatusUpdate(t, v)
           /\ v = "TASK_STARTING" => node[t].st = "launched"
  BY DEF LaunchTask, LaunchFails, ExecutorDies, ContainerDies,
         ContainerReturns, LaunchTaskOSD,
         LaunchTaskDaemon, FetchFails, FetchFailure, LaunchTaskFails,
         TaskUpdate
<1>3. /\ DOMAIN node' = DOMAIN node
      /\ \A u \in DOMAIN node : node'[u].ids = node[u].ids
  BY <1>1, <1>2 DEF Node
<1>4. \A u \in DOMAIN node : idsOf(u)' \subseteq idsOf(u)
  BY <1>2, <1>3, TaskIdsKept
<1>5. IdOnce(t) /\ TaskOrder(t) /\ updates[t] \in Seq(TaskUpdate)
  BY <1>1 DEF OneIdInv, ClusterInv, UpdateOrder
<1>6. \A u \in DOMAIN node : u # t => updates'[u] = updates[u]
  BY <1>1, <1>2a DEF sendStatusUpdate
<1>7. \A i \in 1 .. Len(updates'[t]) :
        updates'[t][i] = "TASK_STARTING" => taskMap[t] = "STAGING"
  <2>1. CASE updates' = updates
    BY <1>5, <2>1 DEF IdOnce
  <2>2. ASSUME NEW v \in TaskUpdate, sendStatusUpdate(t, v),
               v = "TASK_STARTING" => node[t].st = "launched"
        PROVE  \A i \in 1 .. Len(updates'[t]) :
                 updates'[t][i] = "TASK_STARTING" => taskMap[t] = "STAGING"
    <3>1. updates'[t] = Append(updates[t], v)
      BY <1>1, <2>2 DEF sendStatusUpdate
    <3>2. /\ Len(updates'[t]) = Len(updates[t]) + 1 /\ Len(updates[t]) \in Nat
          /\ updates'[t][Len(updates[t]) + 1] = v
          /\ \A i \in 1 .. Len(updates[t]) : updates'[t][i] = updates[t][i]
      BY <1>5, <3>1
    <3>3. v = "TASK_STARTING" => taskMap[t] = "STAGING"
      BY <1>5, <2>2 DEF TaskOrder
    <3> QED
      BY <1>5, <3>2, <3>3 DEF IdOnce
  <2> QED
    BY <1>2a, <2>1, <2>2
<1>8. IdOnce(t)'
  BY <1>2, <1>4, <1>5, <1>7 DEF IdOnce
<1> QED
  BY <1>2, <1>3, <1>4, <1>6, <1>8, IdOthers

(* An update is delivered once: TASK_STARTING is gone when the task waits. *)
LEMMA DeliverOnce ==
  ASSUME OneIdInv, NEW t \in DOMAIN node, DeliverUpdate(t)
  PROVE  \A u \in DOMAIN node' : IdOnce(u)'
<1> DEFINE s == updates[t]
<1>1. /\ s \in Seq(TaskUpdate) /\ s # << >>
      /\ DOMAIN updates = DOMAIN node /\ DOMAIN taskMap = DOMAIN node
      /\ TypeInv /\ UpdateOrder
  BY DEF DeliverUpdate, OneIdInv, ClusterInv, TypeInv, TypeOK, MesosTypeOK
<1>2. /\ updates' = [updates EXCEPT ![t] = Tail(@)]
      /\ UNCHANGED <<node, toOSD>>
      /\ statusUpdate(t, Head(s))
  BY DEF DeliverUpdate
<1>3. /\ updates'[t] = Tail(s)
      /\ \A u \in DOMAIN node : u # t => updates'[u] = updates[u]
  BY <1>1, <1>2
<1>4. /\ \A u \in DOMAIN node : u # t => taskMap'[u] = taskMap[u]
      /\ \/ taskMap'[t] = taskMap[t] /\ Head(s) = "TASK_LOST"
         \/ taskMap'[t] \in {"RUNNING", "FAILED"}
         \/ taskMap'[t] = "WAITING_OSDID" /\ Head(s) = "TASK_STARTING"
  BY <1>1, <1>2, StatusAfter DEF smVars
<1>5. IdOnce(t) /\ TaskOrder(t)
  BY <1>1 DEF OneIdInv, UpdateOrder
<1>6. \A u \in DOMAIN node : idsOf(u)' = idsOf(u)
  BY <1>2 DEF idsOf
<1>7. /\ Len(s) \in Nat \ {0} /\ Head(s) = s[1]
      /\ Len(updates'[t]) = Len(s) - 1
      /\ \A i \in 1 .. Len(s) - 1 : updates'[t][i] = s[i + 1]
  BY <1>1, <1>3
<1>8. \A i \in 1 .. Len(updates'[t]) : updates'[t][i] # "TASK_STARTING"
  <2>1. \A i \in 1 .. Len(s) : s[i] = "TASK_STARTING" => i = 1
    BY <1>5 DEF TaskOrder
  <2>2. \A i \in 1 .. Len(s) - 1 : i + 1 \in 1 .. Len(s) /\ i + 1 # 1
    BY <1>7
  <2> QED
    BY <1>7, <2>1, <2>2
<1>9. idsOf(t) # {} => taskMap'[t] \notin {"STAGING", "WAITING_OSDID"}
  <2>1. 1 \in 1 .. Len(s)
    BY <1>7
  <2> QED
    BY <1>4, <1>5, <1>7, <2>1 DEF IdOnce
<1>10. IdOnce(t)'
  BY <1>5, <1>6, <1>8, <1>9 DEF IdOnce
<1> QED
  BY <1>2, <1>3, <1>4, <1>6, <1>10, IdOthers

(* A new task has no id and no message.                                    *)
LEMMA AcceptOnce ==
  ASSUME OneIdInv, AcceptOffer
  PROVE  \A u \in DOMAIN node' : IdOnce(u)'
<1>0. PICK nt : nt = newTask
  OBVIOUS
<1>1. \E initial, source, p, j : launchTasks(nt, initial, source, p, j)
  BY <1>0 DEF AcceptOffer, launchNode
<1>2. /\ DOMAIN node = DOMAIN taskMap /\ DOMAIN updates = DOMAIN node
      /\ nt \notin DOMAIN node
      /\ \A m \in toOSD : m.to # nt
  BY <1>0, NewTaskIsNew DEF OneIdInv, ClusterInv, TypeInv, TypeOK, MesosTypeOK
<1>3. /\ DOMAIN node' = DOMAIN node \cup {nt}
      /\ node'[nt].ids = {}
      /\ updates'[nt] = << >>
      /\ \A u \in DOMAIN node : node'[u] = node[u] /\ updates'[u] = updates[u]
  BY <1>1, <1>2 DEF launchTasks, Put
<1>4. /\ \A u \in DOMAIN node : taskMap'[u] = taskMap[u]
      /\ toOSD' = toOSD
  BY <1>0, <1>2 DEF AcceptOffer, addStagingTask, Put
<1>5. idsOf(nt)' = {}
  BY <1>2, <1>3, <1>4 DEF idsOf
<1>6. IdOnce(nt)'
  BY <1>3, <1>5 DEF IdOnce
<1>7. ASSUME NEW u \in DOMAIN node PROVE IdOnce(u)'
  <2>1. idsOf(u)' = idsOf(u)
    BY <1>3, <1>4 DEF idsOf
  <2>2. IdOnce(u)
    BY DEF OneIdInv
  <2> QED
    BY <1>3, <1>4, <2>1, <2>2 DEF IdOnce
<1> QED
  BY <1>3, <1>6, <1>7

(* Every step keeps it, when no update is repeated.                        *)
LEMMA NextOnce ==
  ASSUME "repeatUpdate" \notin Faults, OneIdInv, [Next]_vars
  PROVE  OneIdInv'
<1>1. ClusterInv'
  BY NextCluster DEF OneIdInv
<1>2. CASE \/ \E batch \in Batches : ReceiveOffers(batch)
           \/ AssignDone \/ DeclineWrongRole \/ DeclineNotNow
           \/ DeclineNotEnough \/ DeclineNoRequest
           \/ \E h \in Host : \/ DeliverDiskReady(h)
                              \/ PrepareDisks(h)
                              \/ DiskDies(h)
                              \/ \E d \in OSDDevs[h] \cup JNLDevs[h] :
                                   BadDisk(h, d)
           \/ \E m \in fromMon : DeliverAnswer(m)
           \/ HandleRegisterOSD
           \/ LoseMessage
           \/ \E n \in Instances : ReceiveRequest(n)
           \/ UNCHANGED vars
  <2>1. UNCHANGED <<taskMap, node, updates>> /\ toOSD' \subseteq toOSD
    BY <1>2 DEF ReceiveOffers, resourceOffers, AssignDone, DeclineWrongRole,
                DeclineNotNow, DeclineNotEnough, DeclineNoRequest,
                DeliverDiskReady, statusUpdateDiskReady, PrepareDisks,
                DiskDies, BadDisk, DiskLaunchTask, DeliverAnswer,
                frameworkMessage, HandleRegisterOSD, RegisterOSD,
                LoseMessage, ReceiveRequest, processData, vars, execVars,
                mesosVars, schedulerVars, smVars
  <2>2. \A u \in DOMAIN node : idsOf(u)' \subseteq idsOf(u)
    BY <2>1, TaskIdsKept
  <2>3. ASSUME NEW u \in DOMAIN node PROVE IdOnce(u)'
    <3>1. IdOnce(u) /\ idsOf(u)' \subseteq idsOf(u)
      BY <2>2 DEF OneIdInv
    <3> QED
      BY <2>1, <3>1 DEF IdOnce
  <2> QED
    BY <1>1, <2>1, <2>3 DEF OneIdInv
<1>3. CASE \E t \in DOMAIN taskMap : AssignOSDID(t)
  BY <1>1, <1>3, AssignOnce DEF OneIdInv
<1>4. CASE AcceptOffer
  BY <1>1, <1>4, AcceptOnce DEF OneIdInv
<1>5. CASE \E t \in DOMAIN node : DeliverUpdate(t)
  BY <1>1, <1>5, DeliverOnce DEF OneIdInv
<1>6. CASE \E t \in DOMAIN node : \/ LaunchTask(t) \/ LaunchFails(t)
                                 \/ ExecutorDies(t) \/ ContainerDies(t)
                                   \/ ContainerReturns(t)
  BY <1>1, <1>6, ExecutorOnce DEF OneIdInv
<1>7. CASE \E m \in toOSD : HandleLaunchOSD(m) \/ StartFails(m)
  BY <1>1, <1>7, LaunchOnce DEF OneIdInv
<1>8. /\ \A t \in DOMAIN node : ~ RepeatUpdate(t)
      /\ \A h \in Host : ~ RepeatDiskReady(h)
  BY DEF RepeatUpdate, RepeatDiskReady, Fault
<1> QED
  BY <1>2, <1>3, <1>4, <1>5, <1>6, <1>7, <1>8 DEF Next, AgentStep

(* When no update is repeated, no task is ever given a second OSD id.      *)
THEOREM OneIdForEachTask ==
  ASSUME "repeatUpdate" \notin Faults
  PROVE  Spec => []OneIdPerTask
<1>1. Init => OneIdInv
  BY InitCluster DEF Init, MesosInit, OneIdInv
<1>2. OneIdInv /\ [Next]_vars => OneIdInv'
  BY NextOnce
<1>3. OneIdInv => OneIdPerTask
  <2> SUFFICES ASSUME OneIdInv, NEW t \in DOMAIN node
               PROVE  Cardinality(idsOf(t)) <= 1
    BY DEF OneIdPerTask
  <2>1. idsOf(t) = {} \/ \E x : idsOf(t) = {x}
    <3> SUFFICES ASSUME idsOf(t) # {} PROVE \E x : idsOf(t) = {x}
      OBVIOUS
    <3>1. PICK x \in idsOf(t) : TRUE
      OBVIOUS
    <3>2. \A y \in idsOf(t) : y = x
      BY DEF OneIdInv, IdOnce
    <3>3. idsOf(t) = {x}
      BY <3>2
    <3> QED
      BY <3>3
  <2>2. /\ idsOf(t) = {} => Cardinality(idsOf(t)) = 0
        /\ \A x : idsOf(t) = {x} => Cardinality(idsOf(t)) = 1
    BY FS_EmptySet, FS_Singleton
  <2> QED
    BY <2>1, <2>2
<1> QED
  BY <1>1, <1>2, <1>3, PTL DEF Spec

=============================================================================
