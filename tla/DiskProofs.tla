----------------------------- MODULE DiskProofs -----------------------------
(***************************************************************************)
(* The disks of the hosts, for every set of hosts, disks and faults: no    *)
(* two OSDs share a partition, and no OSD is put on the system disk of a   *)
(* host that has other disks to give.  Both rest on one fact: no task is   *)
(* launched on a host with disks still to be partitioned.                  *)
(***************************************************************************)
EXTENDS CephMesosProofs

(* A host that runs a task has sent an offer and has no disk left to       *)
(* partition, so that its partitions only become fewer.                    *)
DisksSettled ==
  \A t \in DOMAIN taskMap :
    /\ t.host \in DOMAIN hostConfigMap
    /\ hostConfigMap[t.host].pendingOSDDevs = {}
    /\ hostConfigMap[t.host].pendingJNLDevs = {}

OSDDisks == DisksSettled /\ PartitionExclusive /\ DisksBeforeSystemDisk

DiskInv == TypeInv /\ TokenUnique /\ OSDDisks

-----------------------------------------------------------------------------
(* An offer that is accepted launched no disk executor, and its host has   *)
(* nothing to partition: otherwise the disk executor would have been       *)
(* launched, and nextMove refuses a host that prepares its disks.          *)
LEMMA AcceptSettled ==
  ASSUME AcceptOffer
  PROVE  /\ disk' = disk
         /\ hostConfig = addConfig(offer.host)
         /\ hostConfig.pendingOSDDevs = {}
         /\ hostConfig.pendingJNLDevs = {}
<1>1. ~ hostConfig.preparing /\ offer.enough
  BY DEF AcceptOffer, nextMove
<1>2. ~ needsDiskTask
  <2> SUFFICES ASSUME needsDiskTask PROVE FALSE
    OBVIOUS
  <2>1. hostConfig = setDiskPreparationOnGoing(addConfig(offer.host))
    BY DEF hostConfig
  <2> QED
    BY <1>1, <2>1 DEF setDiskPreparationOnGoing
<1>3. hostConfig = addConfig(offer.host)
  BY <1>2 DEF hostConfig
<1>4. disk' = disk
  BY <1>2 DEF AcceptOffer, considerOffer, tryLaunchDiskTask
<1> QED
  BY <1>1, <1>2, <1>3, <1>4 DEF needsDiskTask

(* A step that launches no task and leaves the partitions of the hosts     *)
(* that run tasks alone.                                                   *)
LEMMA DisksKept ==
  ASSUME OSDDisks,
         DOMAIN taskMap' = DOMAIN taskMap,
         \A t \in DOMAIN taskMap :
           /\ node'[t].osddisk = node[t].osddisk
           /\ node'[t].jnldisk = node[t].jnldisk
           /\ t.host \in DOMAIN hostConfigMap'
           /\ hostConfigMap'[t.host].pendingOSDDevs = {}
           /\ hostConfigMap'[t.host].pendingJNLDevs = {}
           /\ hostConfigMap'[t.host].osdPartitions
                = hostConfigMap[t.host].osdPartitions
           /\ hostConfigMap'[t.host].jnlPartitions
                = hostConfigMap[t.host].jnlPartitions
  PROVE  OSDDisks'
<1> USE DEF OSDDisks
<1>1. Tasks("OSD")' = Tasks("OSD") /\ Tasks("OSD") \subseteq DOMAIN taskMap
  BY DEF Tasks
<1>2. DisksSettled'
  BY DEF DisksSettled
<1>3. PartitionExclusive'
  BY <1>1 DEF PartitionExclusive
<1>4. DisksBeforeSystemDisk'
  BY <1>1 DEF DisksBeforeSystemDisk
<1> QED
  BY <1>2, <1>3, <1>4

(* An offer is declined after its host was looked at.                      *)
LEMMA DeclineDisks ==
  ASSUME TypeInv, OSDDisks, considerOffer, setHostConfig(hostConfig),
         UNCHANGED <<taskMap, node>>
  PROVE  OSDDisks'
<1> DEFINE h  == offer.host
           hc == addConfig(h)
<1>1. offer \in Offer /\ h \in Host
  BY OfferType DEF TypeInv, TypeOK, considerOffer, Offer
<1>2. hc \in HostConfig
  BY <1>1, AddConfigType DEF TypeInv, TypeOK
<1>3. /\ hostConfig.pendingOSDDevs = hc.pendingOSDDevs
      /\ hostConfig.pendingJNLDevs = hc.pendingJNLDevs
      /\ hostConfig.osdPartitions = hc.osdPartitions
      /\ hostConfig.jnlPartitions = hc.jnlPartitions
  BY <1>2 DEF hostConfig, setDiskPreparationOnGoing, HostConfig
<1>4. h \in DOMAIN hostConfigMap => hc = hostConfigMap[h]
  BY DEF addConfig
<1>5. hostConfigMap' = Put(hostConfigMap, h, hostConfig)
  BY DEF setHostConfig
<1> HIDE DEF h, hc
<1>6. /\ DOMAIN hostConfigMap' = DOMAIN hostConfigMap \cup {h}
      /\ hostConfigMap'[h] = hostConfig
      /\ \A g \in DOMAIN hostConfigMap :
           g # h => hostConfigMap'[g] = hostConfigMap[g]
  BY <1>5 DEF Put
<1>7. \A t \in DOMAIN taskMap :
        /\ t.host \in DOMAIN hostConfigMap
        /\ hostConfigMap[t.host].pendingOSDDevs = {}
        /\ hostConfigMap[t.host].pendingJNLDevs = {}
  BY DEF OSDDisks, DisksSettled
<1>8. \A t \in DOMAIN taskMap :
        /\ t.host \in DOMAIN hostConfigMap'
        /\ hostConfigMap'[t.host].pendingOSDDevs = {}
        /\ hostConfigMap'[t.host].pendingJNLDevs = {}
        /\ hostConfigMap'[t.host].osdPartitions
             = hostConfigMap[t.host].osdPartitions
        /\ hostConfigMap'[t.host].jnlPartitions
             = hostConfigMap[t.host].jnlPartitions
  BY <1>3, <1>4, <1>6, <1>7
<1> QED
  BY <1>8, DisksKept

(* TASK_FINISHED of the disk executor of h adds partitions only while      *)
(* disks of h are pending, hence never twice and never under a task.       *)
LEMMA DiskReadyDisks ==
  ASSUME TypeInv, OSDDisks, NEW h \in Host, statusUpdateDiskReady(h),
         UNCHANGED node
  PROVE  OSDDisks'
<1> DEFINE old == hostConfigMap[h]
           new == setDiskPreparationDone(
                    updateDiskPartition(old, {}, JnlParts[h]))
<1>1. hostConfigMap' = [hostConfigMap EXCEPT ![h] = new]
  BY DEF statusUpdateDiskReady
<1>2. ASSUME h \in DOMAIN hostConfigMap,
             old.pendingOSDDevs = {}, old.pendingJNLDevs = {}
      PROVE  /\ new.pendingOSDDevs = {} /\ new.pendingJNLDevs = {}
             /\ new.osdPartitions = old.osdPartitions
             /\ new.jnlPartitions = old.jnlPartitions
  <2>1. old \in HostConfig
    BY <1>2 DEF TypeInv, TypeOK, StateMachineTypeOK
  <2>2. /\ (old.pendingOSDDevs \ {}) \X {1} = {}
        /\ (old.pendingJNLDevs \ {}) \X (1 .. JnlParts[h]) = {}
    BY <1>2
  <2> HIDE DEF old
  <2> QED
    BY <1>2, <2>1, <2>2
       DEF updateDiskPartition, setDiskPreparationDone, HostConfig
<1>3. /\ DOMAIN hostConfigMap' = DOMAIN hostConfigMap
      /\ h \in DOMAIN hostConfigMap => hostConfigMap'[h] = new
      /\ \A g \in DOMAIN hostConfigMap :
           g # h => hostConfigMap'[g] = hostConfigMap[g]
  BY <1>1
<1> HIDE DEF new
<1>4. \A t \in DOMAIN taskMap :
        /\ t.host \in DOMAIN hostConfigMap'
        /\ hostConfigMap'[t.host].pendingOSDDevs = {}
        /\ hostConfigMap'[t.host].pendingJNLDevs = {}
        /\ hostConfigMap'[t.host].osdPartitions
             = hostConfigMap[t.host].osdPartitions
        /\ hostConfigMap'[t.host].jnlPartitions
             = hostConfigMap[t.host].jnlPartitions
  BY <1>2, <1>3 DEF OSDDisks, DisksSettled
<1>5. taskMap' = taskMap
  BY DEF statusUpdateDiskReady
<1> QED
  BY <1>4, <1>5, DisksKept

(* The system disk is no partition.                                        *)
LEMMA SystemDiskApart == SystemDisk \notin Partition
BY DEF SystemDisk, Partition

(* An OSD takes its partitions out of those its host has left, and the     *)
(* system disk only when there are none.                                   *)
LEMMA AcceptDisks ==
  ASSUME TypeInv, TokenUnique, OSDDisks, AcceptOffer
  PROVE  OSDDisks'
<1>0. PICK nt, h, hc : nt = newTask /\ h = offer.host /\ hc = hostConfig
  OBVIOUS
<1>1. offer \in Offer /\ h \in Host
  BY <1>0, OfferType DEF TypeInv, TypeOK, AcceptOffer, considerOffer, Offer
<1>2. /\ hc = addConfig(h) /\ hc \in HostConfig
      /\ hc.pendingOSDDevs = {} /\ hc.pendingJNLDevs = {}
  BY <1>0, <1>1, AcceptSettled, AddConfigType DEF TypeInv, TypeOK
<1>3. h \in DOMAIN hostConfigMap => hc = hostConfigMap[h]
  BY <1>2 DEF addConfig
<1>4. nt.host = h /\ nt \notin DOMAIN taskMap
  <2>1. nt.type \in TaskType /\ nt.token = index[nt.type] /\ nt.host = h
    BY <1>0, NextMoveTypeType DEF newTask
  <2>2. index[nt.type] \in Nat
    BY <2>1 DEF TypeInv, TypeOK, StateMachineTypeOK
  <2> QED
    BY <2>1, <2>2 DEF TokenUnique
<1>5. PICK p, j :
        /\ \E source : launchTasks(nt, isInitialMonNode', source, p, j)
        /\ hostConfigMap' = Put(hostConfigMap, h, popPartitions(hc, p, j))
        /\ nt.type = "OSD" => /\ p \in popChoices(hc.osdPartitions)
                              /\ j \in popChoices(hc.jnlPartitions)
        /\ nt.type # "OSD" => p = SystemDisk /\ j = SystemDisk
  BY <1>0 DEF AcceptOffer, launchNode, addHostConfig, setHostConfig
<1>6. /\ node'[nt].osddisk = p /\ node'[nt].jnldisk = j
      /\ \A u \in DOMAIN taskMap : node'[u] = node[u]
  BY <1>4, <1>5 DEF launchTasks, Put, TypeInv, TypeOK, MesosTypeOK
<1>7. DOMAIN taskMap' = DOMAIN taskMap \cup {nt}
  BY <1>0 DEF AcceptOffer, addStagingTask, Put
<1>8. /\ DOMAIN hostConfigMap' = DOMAIN hostConfigMap \cup {h}
      /\ hostConfigMap'[h].pendingOSDDevs = {}
      /\ hostConfigMap'[h].pendingJNLDevs = {}
      /\ hostConfigMap'[h].osdPartitions = hc.osdPartitions \ {p}
      /\ hostConfigMap'[h].jnlPartitions = hc.jnlPartitions \ {j}
      /\ \A g \in DOMAIN hostConfigMap :
           g # h => hostConfigMap'[g] = hostConfigMap[g]
  BY <1>2, <1>5 DEF Put, popPartitions, HostConfig
<1>9. /\ p = SystemDisk => \/ nt.type # "OSD"
                          \/ hc.osdPartitions = {}
      /\ p # SystemDisk => p \in hc.osdPartitions
      /\ j = SystemDisk => \/ nt.type # "OSD"
                          \/ hc.jnlPartitions = {}
      /\ j # SystemDisk => j \in hc.jnlPartitions
  BY <1>2, <1>5, SystemDiskApart DEF popChoices, HostConfig
<1>10. DisksSettled'
  BY <1>4, <1>7, <1>8 DEF OSDDisks, DisksSettled
<1>11. \A u \in DOMAIN taskMap :
         /\ u.host \in DOMAIN hostConfigMap
         /\ u.host = h => hostConfigMap[u.host] = hc
         /\ u.host # h => hostConfigMap'[u.host] = hostConfigMap[u.host]
  BY <1>3, <1>8 DEF OSDDisks, DisksSettled
<1>12. /\ \A u \in Tasks("OSD") : u \in DOMAIN taskMap
       /\ \A u \in Tasks("OSD")' :
            u \in Tasks("OSD") \/ (u = nt /\ nt.type = "OSD")
  BY <1>7 DEF Tasks
<1>13. \A u \in Tasks("OSD") :
         /\ node'[u].osddisk \notin hostConfigMap'[u.host].osdPartitions
         /\ node'[u].jnldisk \notin hostConfigMap'[u.host].jnlPartitions
         /\ u.host = h =>
              /\ node'[u].osddisk = p => p = SystemDisk
              /\ node'[u].jnldisk = j => j = SystemDisk
  BY <1>6, <1>8, <1>9, <1>11, <1>12 DEF OSDDisks, PartitionExclusive, Tasks
<1>14. PartitionExclusive'
  <2>1. \A t \in Tasks("OSD") : \A u \in Tasks("OSD") \ {t} :
          t.host = u.host =>
            /\ node'[t].osddisk = node'[u].osddisk
                 => node'[t].osddisk = SystemDisk
            /\ node'[t].jnldisk = node'[u].jnldisk
                 => node'[t].jnldisk = SystemDisk
    BY <1>6, <1>12 DEF OSDDisks, PartitionExclusive, Tasks
  <2>2. /\ node'[nt].osddisk \notin hostConfigMap'[nt.host].osdPartitions
        /\ node'[nt].jnldisk \notin hostConfigMap'[nt.host].jnlPartitions
    BY <1>4, <1>6, <1>8
  <2> QED
    BY <1>4, <1>6, <1>12, <1>13, <2>1, <2>2 DEF PartitionExclusive
<1>15. DisksBeforeSystemDisk'
  <2>1. ASSUME NEW u \in Tasks("OSD")
        PROVE  /\ node'[u].osddisk = SystemDisk =>
                    hostConfigMap'[u.host].osdPartitions = {}
               /\ node'[u].jnldisk = SystemDisk =>
                    hostConfigMap'[u.host].jnlPartitions = {}
    BY <1>6, <1>8, <1>11, <1>12 DEF OSDDisks, DisksBeforeSystemDisk, Tasks
  <2>2. nt.type = "OSD" =>
          /\ node'[nt].osddisk = SystemDisk =>
               hostConfigMap'[nt.host].osdPartitions = {}
          /\ node'[nt].jnldisk = SystemDisk =>
               hostConfigMap'[nt.host].jnlPartitions = {}
    BY <1>4, <1>6, <1>8, <1>9
  <2>3. \A u \in Tasks("OSD")' :
          /\ hostConfigMap'[u.host].pendingOSDDevs = {}
          /\ hostConfigMap'[u.host].pendingJNLDevs = {}
    BY <1>10 DEF DisksSettled, Tasks
  <2> QED
    BY <1>12, <2>1, <2>2, <2>3 DEF DisksBeforeSystemDisk
<1> QED
  BY <1>10, <1>14, <1>15 DEF OSDDisks

(* Every step keeps the disks apart.                                       *)
LEMMA NextDisks == DiskInv /\ [Next]_vars => DiskInv'
<1> SUFFICES ASSUME TypeInv, TokenUnique, OSDDisks, [Next]_vars
             PROVE  OSDDisks'
  BY NextType, NextToken DEF DiskInv
<1>1. CASE DeclineNotNow \/ DeclineNotEnough \/ DeclineNoRequest
  <2>1. /\ considerOffer
        /\ setHostConfig(hostConfig)
        /\ UNCHANGED <<taskMap, node>>
    BY <1>1 DEF DeclineNotNow, DeclineNotEnough, DeclineNoRequest
  <2> QED
    BY <2>1, DeclineDisks
<1>2. ASSUME NEW h \in Host, DeliverDiskReady(h) \/ RepeatDiskReady(h)
      PROVE  OSDDisks'
  <2>1. statusUpdateDiskReady(h) /\ UNCHANGED node
    BY <1>2 DEF DeliverDiskReady, RepeatDiskReady, execVars, mesosVars
  <2> QED
    BY <2>1, DiskReadyDisks
<1>3. CASE /\ ~ DeclineNotNow /\ ~ DeclineNotEnough /\ ~ DeclineNoRequest
           /\ ~ AcceptOffer
           /\ \A h \in Host : ~ DeliverDiskReady(h) /\ ~ RepeatDiskReady(h)
  <2>1. hostConfigMap' = hostConfigMap
    BY <1>3 DEF Next, vars, AgentStep, AssignOSDID, AssignDone,
                updateTaskToStarting, DeclineWrongRole, ReceiveOffers,
                resourceOffers, LaunchTask, LaunchFails, ExecutorDies,
                ContainerDies,
                ContainerReturns, DeliverUpdate, RepeatUpdate, statusUpdate,
                updateTaskToRunning, updateTaskToWaitingOSDID,
                updateTaskToFailed, PrepareDisks, DiskDies, BadDisk,
                DeliverAnswer, frameworkMessage, HandleLaunchOSD, StartFails,
                HandleRegisterOSD, LoseMessage, ReceiveRequest, processData,
                schedulerVars, smVars
  <2>2. \A t \in DOMAIN taskMap :
          /\ t.host \in DOMAIN hostConfigMap
          /\ hostConfigMap[t.host].pendingOSDDevs = {}
          /\ hostConfigMap[t.host].pendingJNLDevs = {}
    BY DEF OSDDisks, DisksSettled
  <2>3. DOMAIN node = DOMAIN taskMap
    BY DEF TypeInv, TypeOK, MesosTypeOK
  <2> QED
    BY <1>3, <2>1, <2>2, <2>3, LabelsKept, DisksKept
<1> QED
  BY <1>1, <1>2, <1>3, AcceptDisks

(* Initially no host has sent an offer and no task has a disk.             *)
LEMMA InitDisks == Init => DiskInv
<1> SUFFICES ASSUME Init PROVE DiskInv
  OBVIOUS
<1>1. DOMAIN taskMap = {}
  BY DEF Init, StateMachineInit
<1>2. Tasks("OSD") = {}
  BY <1>1 DEF Tasks
<1> QED
  BY <1>1, <1>2, InitType DEF DiskInv, OSDDisks, DisksSettled,
       PartitionExclusive, DisksBeforeSystemDisk, TokenUnique

-----------------------------------------------------------------------------
(* The theorems.                                                           *)

(* No two OSDs of a host are ever given the same partition, and none that  *)
(* was given away is still on offer, although TASK_FINISHED of the disk    *)
(* executor may be delivered again and again and the disk executor may     *)
(* fail or die.                                                            *)
THEOREM PartitionsExclusive == Spec => []PartitionExclusive
<1>1. DiskInv => PartitionExclusive
  BY DEF DiskInv, OSDDisks
<1> QED
  BY <1>1, InitDisks, NextDisks, PTL DEF Spec

(* An OSD is put on the system disk of its host only when the host has no  *)
(* partition and no disk left.                                             *)
THEOREM SystemDiskLast == Spec => []DisksBeforeSystemDisk
<1>1. DiskInv => DisksBeforeSystemDisk
  BY DEF DiskInv, OSDDisks
<1> QED
  BY <1>1, InitDisks, NextDisks, PTL DEF Spec

(* One offer launches one task: a step that adds a task to those launched  *)
(* launches no disk executor.                                              *)
THEOREM OneTaskAnOffer == Spec => OneTaskPerOffer
<1>1. TypeInv /\ [Next]_vars
        => [disk' = disk \/ DOMAIN node' = DOMAIN node]_vars
  BY AcceptSettled, LabelsKept
<1> QED
  BY <1>1, InitType, NextType, PTL DEF Spec, OneTaskPerOffer
=============================================================================
