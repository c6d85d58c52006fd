------------------------- MODULE ExecutorRefinement -------------------------
(***************************************************************************)
(* The executors of one host, step by step, implement the executors of     *)
(* module CephExecutor, whose handlers are one step each.  A task is there *)
(* what the updates sent so far and its container make of it; the steps of *)
(* a handler before its update are stuttering steps.                       *)
(***************************************************************************)
EXTENDS ExecutorHost, FiniteSets

LocalHost == "host"

taskId(e) == [type |-> Task[e].type, token |-> Task[e].token,
              host |-> LocalHost]

execOf(t) == CHOOSE e \in Exec : taskId(e) = t

(* Without a MON on this host the files come from one that runs elsewhere. *)
RemoteMon == [type |-> "MON", token |-> 0, host |-> "remote"]

localTasks == {taskId(e) : e \in Exec}

launchedTasks == localTasks \cup (IF monHere THEN {} ELSE {RemoteMon})

nodeState(e) ==
  CASE Sent(e, "TASK_FAILED") -> "dead"
    [] ~ Sent(e, "TASK_FAILED") /\ Sent(e, "TASK_RUNNING") ->
         IF container[name(e)] = e THEN "up" ELSE "zombie"
    [] ~ Sent(e, "TASK_FAILED") /\ ~ Sent(e, "TASK_RUNNING") ->
         IF Sent(e, "TASK_STARTING") THEN "waiting" ELSE "launched"

(* The last update that Mesos forwards: nothing after TASK_FAILED, with    *)
(* which the task is over, although the executor goes on and may answer    *)
(* further LAUNCH_OSD.  TASK_KILLED, the last one of all, ends the         *)
(* framework and with it what module CephExecutor is about: to the others  *)
(* it is as if the container stopped.                                      *)
forwards(s, n) ==
  /\ \A i \in 1 .. n : s[i] # "TASK_KILLED"
  /\ \A i \in 1 .. n - 1 : s[i] # "TASK_FAILED"

lastForwarded(s) ==
  CHOOSE n \in 0 .. Len(s) : /\ forwards(s, n)
                             /\ n < Len(s) => ~ forwards(s, n + 1)

answers == [e \in Exec |-> SubSeq(sent[e], 1, lastForwarded(sent[e]))]

(* An OSD answers TASK_STARTING first and then every LAUNCH_OSD in turn.   *)
(* The ids that these carry do not matter here: they are numbered.         *)
answeredIds(e) == {k \in 1 .. asked[e] : k < Len(answers[e])}

abstractNode ==
  [t \in launchedTasks |->
     LET e == execOf(t)
         local == t \in localTasks
     IN  [st      |-> IF local THEN nodeState(e) ELSE "up",
          initial |-> IF local /\ ~ Task[e].initial THEN 0 ELSE 1,
          source  |-> IF monHere THEN LocalHost ELSE RemoteMon.host,
          osddisk |-> << >>,
          jnldisk |-> << >>,
          ids     |-> IF local THEN answeredIds(e) ELSE {}]]

abstractUpdates ==
  [t \in launchedTasks |->
     IF t \in localTasks THEN answers[execOf(t)] ELSE << >>]

launchOSD(e, k) == [to |-> taskId(e), id |-> k]

abstractToOSD ==
  UNION {{launchOSD(e, k) : k \in (1 .. asked[e]) \ answeredIds(e)}
           : e \in Exec}

(* The scheduler's own variables take no part.                             *)
Abstract ==
  INSTANCE CephExecutor WITH
    Host <- {LocalHost, RemoteMon.host}, Dev <- {}, OSDNum <- 1,
    OSDDevs <- << >>, JNLDevs <- << >>, JnlParts <- << >>,
    taskMap <- [t \in launchedTasks |-> "STAGING"], stagingNum <- << >>,
    runningNum <- << >>, index <- << >>, currentPhase <- "BOOTSTRAP_MON",
    pendingOSDID <- << >>, hostConfigMap <- << >>,
    node <- abstractNode,
    updates <- abstractUpdates,
    toMon <- << >>,
    fromMon <- {},
    toOSD <- abstractToOSD,
    disk <- << >>,
    osdCreated <- 0

(* The ids of the LAUNCH_OSD that t was sent (idsOf in module CephMesos).  *)
abstractIds(t) ==
  abstractNode[t].ids \cup {m.id : m \in {x \in abstractToOSD : x.to = t}}

(* The steps of the executors in module CephExecutor, and what the         *)
(* environment does to them in module CephMesos: LAUNCH_OSD is sent, a     *)
(* container stops, a container comes back for a further LAUNCH_OSD.       *)
AbstractNext ==
  \/ \E t \in localTasks : \/ Abstract!LaunchTaskOSD(t)
                           \/ Abstract!LaunchTaskDaemon(t)
                           \/ Abstract!LaunchTaskFails(t)
  \/ \E m \in abstractToOSD : \/ Abstract!LaunchOSD(m)
                              \/ Abstract!LaunchOSDFails(m)
  \/ \E e \in Exec :
       /\ abstractNode[taskId(e)].st # "launched"
       /\ asked[e] + 1 \notin abstractIds(taskId(e))
       /\ abstractToOSD' = abstractToOSD \cup {launchOSD(e, asked[e] + 1)}
       /\ UNCHANGED <<abstractNode, answers>>
  \/ \E t \in localTasks :
       /\ abstractNode[t].st = "up"
       /\ abstractNode' = [abstractNode EXCEPT ![t].st = "zombie"]
       /\ UNCHANGED <<abstractToOSD, answers>>
  \/ \E t \in localTasks :
       /\ abstractNode[t].st = "zombie"
       /\ \E i, j \in abstractIds(t) : i # j
       /\ abstractNode' = [abstractNode EXCEPT ![t].st = "up"]
       /\ UNCHANGED <<abstractToOSD, answers>>

(* Every handler, with all that other executors and docker do meanwhile,   *)
(* is one step of CephExecutor: it sends one update, at its end, in the    *)
(* order and under the conditions of that module, and TASK_RUNNING means   *)
(* that the task's own container is up.                                    *)
ImplementsCephExecutor ==
  [][AbstractNext]_<<abstractNode, abstractToOSD, answers>>
=============================================================================
