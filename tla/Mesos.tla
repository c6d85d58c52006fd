------------------------------- MODULE Mesos --------------------------------
(***************************************************************************)
(* What Mesos holds between the scheduler and the executors, as far as the *)
(* framework can tell.  This is not code of the repository: it is modelled *)
(* from how src/src/scheduler and src/src/executor use the two drivers.    *)
(*                                                                         *)
(*   - launchTasks hands a task to its slave, which fetches the URIs of    *)
(*     the executor and runs it;                                           *)
(*   - the status updates of one task reach the scheduler in order, each   *)
(*     at least once: an update is repeated when its acknowledgement is    *)
(*     lost;                                                               *)
(*   - framework messages are delivered at most once;                      *)
(*   - a task is over when its executor sent a terminal update or died:    *)
(*     Mesos forwards nothing more for it, and what is still on its way to *)
(*     the executor has no effect that the scheduler could see.  What the  *)
(*     executor and its container go on to do on their host is in module   *)
(*     ExecutorHost.                                                       *)
(***************************************************************************)
EXTENDS StateMachine

VARIABLES
  node,     \* launched task -> what its executor knows and does
  updates,  \* launched task -> its status updates not yet acknowledged
  toMon,    \* REGISTER_OSD messages, as the executors they are sent to
  fromMon,  \* answers to them: the sender and the text, as a number
  toOSD,    \* LAUNCH_OSD messages: the executor and the OSD id
  disk      \* host -> its disk executor

mesosVars == <<node, updates, toMon, fromMon, toOSD, disk>>

(* launched: handed to the slave; waiting: an OSD executor that reported   *)
(* TASK_STARTING; up: the container runs; zombie: the container stopped    *)
(* and the executor, which does not watch it, goes on; dead: the task is   *)
(* over.                                                                   *)
NodeState == {"launched", "waiting", "up", "zombie", "dead"}

TaskUpdate == {"TASK_STARTING", "TASK_RUNNING", "TASK_FAILED", "TASK_LOST"}

(* initial is the flag in task.data(), source the host of the config URIs, *)
(* osddisk and jnldisk the labels, ids the OSD ids of LAUNCH_OSD messages. *)
Node == [st      : NodeState,
         initial : {0, 1},
         source  : Host \cup {NoTask.host},
         osddisk : Partition \cup {SystemDisk},
         jnldisk : Partition \cup {SystemDisk},
         ids     : SUBSET Nat]

(* The text of an answer that lexical_cast<int> rejects.                   *)
Garbage == -1

DiskState == {"none", "launched", "finished", "acked", "dead"}

MesosTypeOK ==
  /\ DOMAIN node = DOMAIN taskMap
  /\ node \in [DOMAIN node -> Node]
  /\ DOMAIN updates = DOMAIN taskMap
  /\ updates \in [DOMAIN updates -> Seq(TaskUpdate)]
  /\ toMon \in Seq(TaskID)
  /\ fromMon \subseteq [from : TaskID, id : Nat \cup {Garbage}]
  /\ toOSD \subseteq [to : DOMAIN taskMap, id : Nat]
  /\ disk \in [Host -> [st : DiskState, bad : SUBSET Dev]]

MesosInit ==
  /\ node = [t \in {} |-> FALSE]
  /\ updates = [t \in {} |-> << >>]
  /\ toMon = << >>
  /\ fromMon = {}
  /\ toOSD = {}
  /\ disk = [h \in Host |-> [st |-> "none", bad |-> {}]]

(* driver->launchTasks for a Ceph task.                                    *)
launchTasks(t, initial, source, osddisk, jnldisk) ==
  /\ node' = Put(node, t, [st      |-> "launched",
                           initial |-> initial,
                           source  |-> source,
                           osddisk |-> osddisk,
                           jnldisk |-> jnldisk,
                           ids     |-> {}])
  /\ updates' = Put(updates, t, << >>)

(* driver->launchTasks for the disk executor.                              *)
launchDisk(h) == disk' = [disk EXCEPT ![h] = [st |-> "launched", bad |-> {}]]

(* driver->sendStatusUpdate by the executor of t, or by the slave for it.  *)
sendStatusUpdate(t, u) == updates' = [updates EXCEPT ![t] = Append(@, u)]

(* A file server runs on h: in the executor of a MON that came up there.   *)
Serving(h) ==
  \E m \in DOMAIN node : /\ m.type = "MON"
                         /\ m.host = h
                         /\ node[m].st \in {"up", "zombie"}
=============================================================================
