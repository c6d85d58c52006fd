---------------------------- MODULE CephExecutor ----------------------------
(***************************************************************************)
(* The executor of one Ceph task (src/src/executor/CephExecutor.cpp) and   *)
(* the disk executor (src/src/executor/DiskExecutor.cpp), as the scheduler *)
(* sees them: each handler is one step, the shell commands it runs succeed *)
(* or fail as a whole.  A failing step belongs to the environment, which   *)
(* decides when it may happen (module CephMesos).                          *)
(***************************************************************************)
EXTENDS Mesos

VARIABLE osdCreated  \* how many ids "ceph osd create" has handed out

execVars == <<mesosVars, osdCreated>>

SetState(t, st) == node' = [node EXCEPT ![t].st = st]

(* The fetcher gets the shared configuration files, and the executor needs *)
(* them, unless the task is the initial MON.                               *)
canFetch(t) == node[t].initial = 1 \/ Serving(node[t].source)

-----------------------------------------------------------------------------
(* launchTask                                                              *)

(* An OSD executor reports TASK_STARTING and waits for its OSD id.         *)
LaunchTaskOSD(t) ==
  /\ t.type = "OSD"
  /\ node[t].st = "launched"
  /\ canFetch(t)
  /\ SetState(t, "waiting")
  /\ sendStatusUpdate(t, "TASK_STARTING")
  /\ UNCHANGED <<toMon, fromMon, toOSD, disk, osdCreated>>

(* A MON or a RADOSGW starts its container; a MON then serves the          *)
(* configuration files.                                                    *)
LaunchTaskDaemon(t) ==
  /\ t.type # "OSD"
  /\ node[t].st = "launched"
  /\ canFetch(t)
  /\ SetState(t, "up")
  /\ sendStatusUpdate(t, "TASK_RUNNING")
  /\ UNCHANGED <<toMon, fromMon, toOSD, disk, osdCreated>>

(* One of the early returns (no configuration directory, no configuration  *)
(* file), or "ceph mon stat" fails in the container.  A container that     *)
(* does not start gives no update: block_until_started polls for ever.     *)
LaunchTaskFails(t) ==
  /\ node[t].st = "launched"
  /\ SetState(t, "dead")
  /\ sendStatusUpdate(t, "TASK_FAILED")
  /\ UNCHANGED <<toMon, fromMon, toOSD, disk, osdCreated>>

(* Without the configuration files the executor never gets to run.         *)
FetchFails(t, u) ==
  /\ node[t].st = "launched"
  /\ ~ canFetch(t)
  /\ SetState(t, "dead")
  /\ sendStatusUpdate(t, u)
  /\ UNCHANGED <<toMon, fromMon, toOSD, disk, osdCreated>>

-----------------------------------------------------------------------------
(* frameworkMessage                                                        *)

(* REGISTER_OSD: "ceph osd create" in the MON's container and its output   *)
(* as the answer; no output when there is no such container.  Only the     *)
(* head of toMon is looked at: it is one scheduler writing to one MON.     *)
RegisterOSD ==
  /\ toMon # << >>
  /\ LET m == Head(toMon)
     IN  /\ m \in DOMAIN node
         /\ node[m].st \in {"waiting", "up", "zombie"}
         /\ IF node[m].st = "up" /\ m.type = "MON"
              THEN /\ fromMon' = fromMon \cup {[from |-> m, id |-> osdCreated]}
                   /\ osdCreated' = osdCreated + 1
              ELSE /\ fromMon' = fromMon \cup {[from |-> m, id |-> Garbage]}
                   /\ UNCHANGED osdCreated
  /\ toMon' = Tail(toMon)
  /\ UNCHANGED <<node, updates, toOSD, disk>>

(* LAUNCH_OSD: mount the disks, run the container under the given id and   *)
(* report TASK_RUNNING.  A second LAUNCH_OSD finds the container of the    *)
(* same name running, or runs it once more when it stopped, and reports    *)
(* TASK_RUNNING again.                                                     *)
LaunchOSD(m) ==
  /\ m \in toOSD
  /\ node[m.to].st \in {"waiting", "up", "zombie"}
  /\ toOSD' = toOSD \ {m}
  /\ node' = [node EXCEPT ![m.to].st = "up", ![m.to].ids = @ \cup {m.id}]
  /\ sendStatusUpdate(m.to, "TASK_RUNNING")
  /\ UNCHANGED <<toMon, fromMon, disk, osdCreated>>

(* "ceph mon stat" fails in the container, or finds none any more.         *)
LaunchOSDFails(m) ==
  /\ m \in toOSD
  /\ node[m.to].st \in {"waiting", "up", "zombie"}
  /\ toOSD' = toOSD \ {m}
  /\ node' = [node EXCEPT ![m.to].st = "dead", ![m.to].ids = @ \cup {m.id}]
  /\ sendStatusUpdate(m.to, "TASK_FAILED")
  /\ UNCHANGED <<toMon, fromMon, disk, osdCreated>>

-----------------------------------------------------------------------------
(* The disk executor's launchTask: partition and format the disks of its   *)
(* labels, report TASK_FINISHED with the disks for which that failed.      *)
DiskLaunchTask(h, bad) ==
  /\ disk[h].st = "launched"
  /\ disk' = [disk EXCEPT ![h] = [st |-> "finished", bad |-> bad]]
  /\ UNCHANGED <<node, updates, toMon, fromMon, toOSD, osdCreated>>
=============================================================================
