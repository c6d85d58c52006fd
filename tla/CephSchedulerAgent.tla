------------------------- MODULE CephSchedulerAgent -------------------------
(***************************************************************************)
(* The scheduler's callbacks (src/src/scheduler/CephSchedulerAgent.hpp).   *)
(* The driver calls them one at a time, so statusUpdate and                *)
(* frameworkMessage are one step each.  resourceOffers sends messages and  *)
(* launches tasks while it goes through its offers, and executors and the  *)
(* event loop's thread run meanwhile: it is one step per OSD id assigned   *)
(* and one step per offer, and pc, offers, phaseSeen and isInitialMonNode  *)
(* are its locals.  The callbacks with an empty body (reregistered,        *)
(* disconnected, offerRescinded, slaveLost, executorLost, error) do        *)
(* nothing.                                                                *)
(***************************************************************************)
EXTENDS Mesos

VARIABLES
  pc,               \* where the driver's thread is
  offers,           \* the offers of the batch still to be looked at
  phaseSeen,        \* resourceOffers' copy of currentPhase
  isInitialMonNode, \* set for the initial MON, kept for the rest of the batch
  pendingOSD,       \* EventLoop: instance counts of the flex-up requests
  granted           \* history: OSD tasks launched for flex-up requests

agentVars == <<pc, offers, phaseSeen, isInitialMonNode, pendingOSD, granted>>
schedulerVars == <<smVars, agentVars>>

(* role: some resource has the configured role; enough: one cpu and 1024 MB *)
(* of it.                                                                  *)
Offer == [host : Host, role : BOOLEAN, enough : BOOLEAN]

AgentTypeOK ==
  /\ pc \in {"idle", "assign", "offers", "crashed"}
  /\ offers \in Seq(Offer)
  /\ phaseSeen \in Phase
  /\ isInitialMonNode \in {0, 1}
  /\ pendingOSD \in Seq(Nat \ {0})
  /\ granted \in Nat

AgentInit ==
  /\ pc = "idle"
  /\ offers = << >>
  /\ phaseSeen = "BOOTSTRAP_MON"
  /\ isInitialMonNode = 0
  /\ pendingOSD = << >>
  /\ granted = 0

-----------------------------------------------------------------------------
(* resourceOffers                                                          *)

resourceOffers_flagKept(batch) ==
  /\ pc = "idle"
  /\ pc' = "assign"
  /\ offers' = batch
  /\ UNCHANGED <<isInitialMonNode, phaseSeen, pendingOSD, granted, smVars,
                 mesosVars>>

resourceOffers(batch) ==
  /\ pc = "idle"
  /\ pc' = "assign"
  /\ offers' = batch
  /\ isInitialMonNode' = 0
  /\ UNCHANGED <<phaseSeen, pendingOSD, granted, smVars, mesosVars>>

AssignOSDID_noPop(t) ==
  /\ pc = "assign"
  /\ t \in getWaitingOSDTask
  /\ pendingOSDID # << >>
  /\ LET id == pendingOSDID[Len(pendingOSDID)]
     IN  toOSD' = toOSD \cup {[to |-> t, id |-> id]}
  /\ updateTaskToStarting(t)
  /\ UNCHANGED <<pendingOSDID, agentVars, node, updates, toMon, fromMon, disk>>

(* One round of handleWaitingOSDTasks: the last pending id goes to one     *)
(* more of the waiting tasks, which are taken in no particular order.      *)
AssignOSDID(t) ==
  /\ pc = "assign"
  /\ t \in getWaitingOSDTask
  /\ pendingOSDID # << >>
  /\ LET id == pendingOSDID[Len(pendingOSDID)]
     IN  toOSD' = toOSD \cup {[to |-> t, id |-> id]}
  /\ pendingOSDID' = SubSeq(pendingOSDID, 1, Len(pendingOSDID) - 1)
  /\ updateTaskToStarting(t)
  /\ UNCHANGED <<agentVars, node, updates, toMon, fromMon, disk>>

(* No waiting task or no id is left; resourceOffers reads the phase.       *)
AssignDone ==
  /\ pc = "assign"
  /\ getWaitingOSDTask = {} \/ pendingOSDID = << >>
  /\ pc' = "offers"
  /\ phaseSeen' = currentPhase
  /\ UNCHANGED <<offers, isInitialMonNode, pendingOSD, granted, smVars,
                 mesosVars>>

(* On to the next offer, or back to the driver after the last one.         *)
nextOffer ==
  /\ pc = "offers"
  /\ offers # << >>
  /\ offers' = Tail(offers)
  /\ pc' = IF Tail(offers) = << >> THEN "idle" ELSE "offers"
  /\ UNCHANGED phaseSeen

offer == Head(offers)

(* tryLaunchDiskTask launches the disk executor on the offer.              *)
needsDiskTask ==
  LET hc == addConfig(offer.host)
  IN  /\ ~ hc.preparing
      /\ hc.pendingOSDDevs # {} \/ hc.pendingJNLDevs # {}
      /\ offer.enough

tryLaunchDiskTask ==
  IF needsDiskTask THEN launchDisk(offer.host) ELSE UNCHANGED disk

(* The host's configuration when nextMove looks at it: after addConfig and *)
(* tryLaunchDiskTask.                                                      *)
hostConfig ==
  LET hc == addConfig(offer.host)
  IN  IF needsDiskTask THEN setDiskPreparationOnGoing(hc) ELSE hc

setHostConfig(hc) == hostConfigMap' = Put(hostConfigMap, offer.host, hc)

(* The offer has our role, and the disk task had its turn.                 *)
considerOffer ==
  /\ nextOffer
  /\ offer.role
  /\ tryLaunchDiskTask

DeclineWrongRole ==
  /\ nextOffer
  /\ ~ offer.role
  /\ UNCHANGED <<isInitialMonNode, pendingOSD, granted, smVars, mesosVars>>

(* nextMove refuses: the host prepares its disks, perhaps on this very     *)
(* offer, or the phase is full.                                            *)
DeclineNotNow ==
  /\ considerOffer
  /\ ~ nextMove(hostConfig)
  /\ setHostConfig(hostConfig)
  /\ UNCHANGED <<isInitialMonNode, pendingOSD, granted, taskMap, stagingNum,
                 runningNum, index, currentPhase, pendingOSDID,
                 node, updates, toMon, fromMon, toOSD>>

(* nextMove took a token, and the offer is too small: the token is lost.   *)
DeclineNotEnough ==
  /\ considerOffer
  /\ nextMove(hostConfig)
  /\ ~ offer.enough
  /\ setHostConfig(hostConfig)
  /\ index' = takeToken(index, nextMoveType)
  /\ UNCHANGED <<isInitialMonNode, pendingOSD, granted, taskMap, stagingNum,
                 runningNum, currentPhase, pendingOSDID,
                 node, updates, toMon, fromMon, toOSD>>

(* There is no flex-up request to serve: the token is given back.          *)
DeclineNoRequest ==
  /\ considerOffer
  /\ nextMove(hostConfig)
  /\ offer.enough
  /\ phaseSeen = "WAINTING_REQUEST"
  /\ pendingOSD = << >>
  /\ setHostConfig(hostConfig)
  /\ index' = decreaseOSDIndex(takeToken(index, nextMoveType))
  /\ UNCHANGED <<isInitialMonNode, pendingOSD, granted, taskMap, stagingNum,
                 runningNum, currentPhase, pendingOSDID,
                 node, updates, toMon, fromMon, toOSD>>

fetchPendingRESTfulRequest_wholeRequest ==
  /\ pendingOSD # << >>
  /\ pendingOSD' = Tail(pendingOSD)
  /\ granted' = granted + 1

fetchPendingRESTfulRequest_testFirst ==
  /\ pendingOSD # << >>
  /\ pendingOSD' = IF Head(pendingOSD) = 0
                     THEN Tail(pendingOSD)
                     ELSE <<Head(pendingOSD) - 1>> \o Tail(pendingOSD)
  /\ granted' = granted + 1

(* One instance of the first request is consumed.                          *)
fetchPendingRESTfulRequest ==
  /\ pendingOSD # << >>
  /\ pendingOSD' = IF Head(pendingOSD) - 1 = 0
                     THEN Tail(pendingOSD)
                     ELSE <<Head(pendingOSD) - 1>> \o Tail(pendingOSD)
  /\ granted' = granted + 1

(* The task that the offer is used for.                                    *)
newTask == [type  |-> nextMoveType,
            token |-> index[nextMoveType],
            host  |-> offer.host]

(* The hosts that createExecutor may point the configuration URIs at: the  *)
(* one of the initial MON it finds.                                        *)
createExecutor == {mon.host : mon \in getInitialMon}

(* The disks that addHostConfig may put into the labels of the new task:   *)
(* only an OSD takes partitions.                                           *)
addHostConfig(parts) ==
  IF newTask.type = "OSD" THEN popChoices(parts) ELSE {SystemDisk}

launchNode ==
  \E source \in createExecutor,
     p \in addHostConfig(hostConfig.osdPartitions),
     j \in addHostConfig(hostConfig.jnlPartitions) :
    /\ launchTasks(newTask, isInitialMonNode', source, p, j)
    /\ setHostConfig(popPartitions(hostConfig, p, j))

(* The offer is used: launchNode, addStagingTask and, for an OSD,          *)
(* REGISTER_OSD to the initial MON of the map the task has just entered.   *)
AcceptOffer ==
  /\ considerOffer
  /\ nextMove(hostConfig)
  /\ offer.enough
  /\ IF phaseSeen = "WAINTING_REQUEST"
       THEN fetchPendingRESTfulRequest
       ELSE UNCHANGED <<pendingOSD, granted>>
  /\ index' = takeToken(index, nextMoveType)
  /\ isInitialMonNode' = IF newTask.type = "MON" /\ newTask.token = 0
                           THEN 1 ELSE isInitialMonNode
  /\ launchNode
  /\ addStagingTask(newTask)
  /\ IF newTask.type = "OSD" /\ isInitialMonNode' = 0
       THEN \E m \in getInitialMon' : toMon' = Append(toMon, m)
       ELSE UNCHANGED toMon
  /\ UNCHANGED <<currentPhase, runningNum, pendingOSDID, fromMon, toOSD>>

-----------------------------------------------------------------------------
(* statusUpdate                                                            *)

(* The update u of task t.  TASK_LOST and TASK_KILLED have no branch.      *)
statusUpdate(t, u) ==
  /\ pc = "idle"
  /\ \/ u = "TASK_RUNNING"  /\ updateTaskToRunning(t)
     \/ u = "TASK_STARTING" /\ updateTaskToWaitingOSDID(t)
     \/ u = "TASK_FAILED"   /\ updateTaskToFailed(t)
     \/ u = "TASK_LOST"     /\ UNCHANGED smVars
  /\ UNCHANGED agentVars

(* TASK_FINISHED of the disk executor of h.  The failed disks of the       *)
(* message are parsed into a variable that hides the one passed on, so     *)
(* updateDiskPartition is always told that no disk failed.                 *)
statusUpdateDiskReady(h) ==
  /\ pc = "idle"
  /\ LET hc == updateDiskPartition(hostConfigMap[h], {}, JnlParts[h])
     IN  hostConfigMap' = [hostConfigMap EXCEPT
                             ![h] = setDiskPreparationDone(hc)]
  /\ UNCHANGED <<agentVars, taskMap, stagingNum, runningNum, index,
                 currentPhase, pendingOSDID>>

(* frameworkMessage: an answer counts only when it comes from the initial  *)
(* MON.  A text that is no number throws out of the callback.              *)
frameworkMessage(m) ==
  /\ pc = "idle"
  /\ \E mon \in getInitialMon :
       IF mon # m.from
         THEN UNCHANGED <<pc, pendingOSDID>>
         ELSE IF m.id = Garbage
                THEN pc' = "crashed" /\ UNCHANGED pendingOSDID
                ELSE addPendingOSDID(m.id) /\ UNCHANGED pc
  /\ UNCHANGED <<offers, phaseSeen, isInitialMonNode, pendingOSD, granted,
                 taskMap, stagingNum, runningNum, index, currentPhase,
                 hostConfigMap>>

(* EventLoop::processData, on a thread of its own: a flex-up request for n *)
(* OSDs.                                                                   *)
processData(n) ==
  /\ pendingOSD' = Append(pendingOSD, n)
  /\ UNCHANGED <<pc, offers, phaseSeen, isInitialMonNode, granted, smVars,
                 mesosVars>>
=============================================================================
