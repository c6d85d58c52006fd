---------------------------- MODULE ExecutorHost ----------------------------
(***************************************************************************)
(* The executors of one host step by step                                  *)
(* (src/src/executor/CephExecutor.cpp).  Each is a process; a handler of   *)
(* its driver is a sequence of shell commands, and those of two executors  *)
(* interleave.  They share the configuration directory, the names of       *)
(* docker containers and the disks.  When the scheduler stops, Mesos shuts *)
(* the executors of its run down, while a new run may already launch its   *)
(* own.                                                                    *)
(*                                                                         *)
(* A shell command is one step.  The image is there (downloadDockerImage   *)
(* returns at once), and echo ~ and the labels are what they should be.    *)
(***************************************************************************)
EXTENDS Integers, Sequences, Functions

CONSTANTS
  Exec,       \* executors, each with one task
  Task,       \* Task[e]: what the TaskInfo of e says
  Grep,       \* Grep[n]: the container names that "grep n" finds
  HasDisk,    \* executors of OSDs that were given a disk
  Faults,     \* the kinds of faults that happen
  MaxFaults,  \* bound: how many faults happen
  MaxRun,     \* bound: runs of the scheduler that stop
  NoExec      \* nobody

FaultKind == {"noContainer",  \* docker run fails
              "exits",        \* a container stops
              "noAnswer",     \* ceph mon stat fails or times out
              "mountFails",   \* mount fails
              "dies",         \* an executor dies
              "repeatUpdate"} \* TASK_STARTING reaches the scheduler again

Name == {Task[e].name : e \in Exec}

ASSUME ExecutorHostAssumption ==
  /\ Task \in [Exec -> [type : {"MON", "OSD", "RADOSGW"}, token : Nat,
                        name : Name, initial : BOOLEAN, run : Nat]]
  /\ Grep \in [Name -> SUBSET Name] /\ \A n \in Name : n \in Grep[n]
  /\ HasDisk \subseteq {e \in Exec : Task[e].type = "OSD"}
  /\ Faults \subseteq FaultKind
  /\ MaxFaults \in Nat
  /\ MaxRun \in Nat
  /\ NoExec \notin Exec

VARIABLES
  monHere,    \* the MONs of the run are on this host, not on another one
  pc,         \* where the driver's thread of each executor is
  forked,     \* how often each executor forked docker run
  starting,   \* how many of these docker has not got to yet
  sent,       \* the status updates each executor sent
  asked,      \* how many LAUNCH_OSD each executor was sent
  dir,        \* the configuration directory of the host
  oldData,    \* it holds data of an earlier run
  container,  \* name -> the executor whose container has it
  mounted,    \* <<e, k>>: the disk of e, on the k-th mount point of e
  run,        \* the scheduler's run: those before it have stopped
  faults      \* how many faults have happened

docker == <<forked, starting>>

vars == <<monHere, pc, docker, sent, asked, dir, oldData, container, mounted,
          run, faults>>

(* The steps of a handler; idle between handlers, gone when the process is.*)
Handling == {"exists", "mkdir", "copy", "remove", "mount", "poll", "stat"}

Update == {"TASK_STARTING", "TASK_RUNNING", "TASK_FAILED", "TASK_KILLED"}

TypeOK ==
  /\ monHere \in BOOLEAN
  /\ pc \in [Exec -> Handling \cup {"new", "idle", "gone"}]
  /\ forked \in [Exec -> Nat]
  /\ starting \in [Exec -> Nat]
  /\ sent \in [Exec -> Seq(Update)]
  /\ asked \in [Exec -> Nat]
  /\ dir \in {"absent", "empty", "full"}
  /\ oldData \in BOOLEAN
  /\ container \in [Name -> Exec \cup {NoExec}]
  /\ mounted \subseteq HasDisk \X Nat
  /\ run \in Nat
  /\ faults \in 0 .. MaxFaults

(* The directory may be there from an earlier run.                         *)
Init ==
  /\ monHere \in BOOLEAN
  /\ pc = [e \in Exec |-> "new"]
  /\ forked = [e \in Exec |-> 0]
  /\ starting = [e \in Exec |-> 0]
  /\ sent = [e \in Exec |-> << >>]
  /\ asked = [e \in Exec |-> 0]
  /\ dir \in {"absent", "full"}
  /\ oldData = (dir = "full")
  /\ container = [n \in Name |-> NoExec]
  /\ mounted = {}
  /\ run = 1
  /\ faults = 0

-----------------------------------------------------------------------------
Sent(e, u) == u \in Range(sent[e])

name(e) == Task[e].name

Goto(e, step) == pc' = [pc EXCEPT ![e] = step]

(* The handler ends with an update.                                        *)
sendStatusUpdate(e, u) ==
  /\ sent' = [sent EXCEPT ![e] = Append(@, u)]
  /\ Goto(e, "idle")

Fault(kind) ==
  /\ kind \in Faults
  /\ faults < MaxFaults
  /\ faults' = faults + 1

hostVars == <<monHere, asked, dir, oldData, container, mounted, run>>

(* docker rm -f.  A docker run that is on its way is not stopped.          *)
removeContainer(n) == container' = [container EXCEPT ![n] = NoExec]

(* fork; the child becomes docker run.                                     *)
fork(e) ==
  /\ forked' = [forked EXCEPT ![e] = @ + 1]
  /\ starting' = [starting EXCEPT ![e] = @ + 1]

(* docker run of e ends, or goes on as its container.                      *)
dockerGotTo(e) ==
  /\ starting[e] > 0
  /\ starting' = [starting EXCEPT ![e] = @ - 1]
  /\ UNCHANGED forked

-----------------------------------------------------------------------------
(* launchTask                                                              *)

(* The slave has fetched the configuration files: a MON of the run serves  *)
(* them, on this host or on another one.                                   *)
fetched(e) ==
  LET mons == {m \in Exec : Task[m].type = "MON" /\ Task[m].run = Task[e].run}
  IN  \/ Task[e].initial
      \/ ~ monHere
      \/ \E m \in mons : Sent(m, "TASK_RUNNING") /\ pc[m] # "gone"

LaunchTask_keepsDir(e) ==
  /\ pc[e] = "new"
  /\ Task[e].run = run
  /\ Task[e].type = "MON" => monHere
  /\ fetched(e)
  /\ Goto(e, "exists")
  /\ UNCHANGED <<docker, sent, faults, hostVars>>

(* The initial MON deletes what an earlier run has left.                   *)
LaunchTask(e) ==
  /\ pc[e] = "new"
  /\ Task[e].run = run
  /\ Task[e].type = "MON" => monHere
  /\ fetched(e)
  /\ dir' = IF Task[e].initial THEN "absent" ELSE dir
  /\ oldData' = (oldData /\ ~ Task[e].initial)
  /\ Goto(e, "exists")
  /\ UNCHANGED <<monHere, docker, sent, asked, container, mounted, run,
                 faults>>

afterMkdir(e) == IF Task[e].initial THEN "remove" ELSE "copy"

existsConfigFiles_notAsked(e) ==
  /\ pc[e] = "exists"
  /\ Goto(e, "mkdir")
  /\ UNCHANGED <<docker, sent, faults, hostVars>>

existsConfigFiles(e) ==
  /\ pc[e] = "exists"
  /\ Goto(e, IF dir = "full" THEN afterMkdir(e) ELSE "mkdir")
  /\ UNCHANGED <<docker, sent, faults, hostVars>>

(* mkdir fails when the directory is there, with or without files.         *)
createLocalSharedConfigDir(e) ==
  /\ pc[e] = "mkdir"
  /\ \/ /\ dir = "absent"
        /\ dir' = "empty"
        /\ Goto(e, afterMkdir(e))
        /\ UNCHANGED sent
     \/ /\ dir # "absent"
        /\ sendStatusUpdate(e, "TASK_FAILED")
        /\ UNCHANGED dir
  /\ UNCHANGED <<monHere, docker, asked, oldData, container, mounted, run,
                 faults>>

copySharedConfigFiles(e) ==
  /\ pc[e] = "copy"
  /\ \/ /\ dir # "absent"
        /\ dir' = "full"
        /\ Goto(e, "remove")
        /\ UNCHANGED sent
     \/ /\ dir = "absent"
        /\ sendStatusUpdate(e, "TASK_FAILED")
        /\ UNCHANGED dir
  /\ UNCHANGED <<monHere, docker, asked, oldData, container, mounted, run,
                 faults>>

removeExisting_breaks(e) ==
  /\ pc[e] = "remove"
  /\ removeContainer(name(e))
  /\ fork(e)
  /\ Goto(e, "poll")
  /\ sent' = IF Task[e].type = "OSD"
               THEN [sent EXCEPT ![e] = Append(@, "TASK_STARTING")] ELSE sent
  /\ UNCHANGED <<monHere, asked, dir, oldData, mounted, run, faults>>

(* A container of the same name is removed.  Then an OSD waits for its id, *)
(* a MON or a RADOSGW forks docker run.                                    *)
removeExisting(e) ==
  /\ pc[e] = "remove"
  /\ removeContainer(name(e))
  /\ IF Task[e].type = "OSD"
       THEN sendStatusUpdate(e, "TASK_STARTING") /\ UNCHANGED docker
       ELSE fork(e) /\ Goto(e, "poll") /\ UNCHANGED sent
  /\ UNCHANGED <<monHere, asked, dir, oldData, mounted, run, faults>>

-----------------------------------------------------------------------------
(* block_until_started                                                     *)

poll_givesUp(e) ==
  /\ pc[e] = "poll"
  /\ IF \E n \in Grep[name(e)] : container[n] # NoExec
       THEN Goto(e, "stat") /\ UNCHANGED sent
       ELSE sendStatusUpdate(e, "TASK_FAILED")
  /\ UNCHANGED <<docker, faults, hostVars>>

(* docker ps | grep <name>, until it finds a line: current is not advanced *)
(* and the deadline never comes.                                           *)
poll(e) ==
  /\ pc[e] = "poll"
  /\ \E n \in Grep[name(e)] : container[n] # NoExec
  /\ Goto(e, "stat")
  /\ UNCHANGED <<docker, sent, faults, hostVars>>

stat_notAsked(e) ==
  /\ pc[e] = "stat"
  /\ sendStatusUpdate(e, "TASK_RUNNING")
  /\ UNCHANGED <<docker, faults, hostVars>>

(* docker exec <name> ceph mon stat.  After TASK_RUNNING a MON's executor  *)
(* serves its configuration files.                                         *)
stat(e) ==
  /\ pc[e] = "stat"
  /\ IF container[name(e)] # NoExec
       THEN \/ sendStatusUpdate(e, "TASK_RUNNING") /\ UNCHANGED faults
            \/ sendStatusUpdate(e, "TASK_FAILED") /\ Fault("noAnswer")
       ELSE sendStatusUpdate(e, "TASK_FAILED") /\ UNCHANGED faults
  /\ UNCHANGED <<docker, hostVars>>

-----------------------------------------------------------------------------
(* frameworkMessage: LAUNCH_OSD                                            *)

(* The scheduler answers TASK_STARTING with LAUNCH_OSD, and once more when *)
(* the update is repeated: every time with another id.                     *)
SendLaunchOSD(e) ==
  /\ Sent(e, "TASK_STARTING")
  /\ Task[e].run = run
  /\ IF asked[e] = 0 THEN UNCHANGED faults ELSE Fault("repeatUpdate")
  /\ asked' = [asked EXCEPT ![e] = @ + 1]
  /\ UNCHANGED <<monHere, pc, docker, sent, dir, oldData, container, mounted,
                 run>>

(* Every message is handled in full, whatever became of the ones before.   *)
LaunchOSD(e) ==
  /\ pc[e] = "idle"
  /\ forked[e] < asked[e]
  /\ Goto(e, "mount")
  /\ UNCHANGED <<docker, sent, faults, hostVars>>

(* The id in the message gives every docker run a mount point of its own.  *)
mountPoint(e) == <<e, forked[e]>>

prepareDisks_alwaysMounts(e) ==
  /\ pc[e] = "mount"
  /\ dir' = IF dir = "absent" THEN "empty" ELSE dir
  /\ fork(e)
  /\ \/ mounted' = mounted \cup {mountPoint(e)'} /\ UNCHANGED faults
     \/ Fault("mountFails") /\ UNCHANGED mounted
  /\ Goto(e, "poll")
  /\ UNCHANGED <<monHere, sent, asked, oldData, container, run>>

(* prepareDisks makes the mount points and mounts; mountDisk says true     *)
(* whatever mount answers.  Then docker run is forked.                     *)
prepareDisks(e) ==
  /\ pc[e] = "mount"
  /\ dir' = IF dir = "absent" THEN "empty" ELSE dir
  /\ fork(e)
  /\ \/ e \in HasDisk /\ mounted' = mounted \cup {mountPoint(e)'}
        /\ UNCHANGED faults
     \/ e \in HasDisk /\ Fault("mountFails") /\ UNCHANGED mounted
     \/ e \notin HasDisk /\ UNCHANGED <<mounted, faults>>
  /\ Goto(e, "poll")
  /\ UNCHANGED <<monHere, sent, asked, oldData, container, run>>

-----------------------------------------------------------------------------
(* Docker.                                                                 *)

(* The container runs, unless its name is taken.  A MON's makes the        *)
(* configuration files.                                                    *)
dockerRun(e) ==
  /\ dockerGotTo(e)
  /\ IF container[name(e)] = NoExec
       THEN /\ container' = [container EXCEPT ![name(e)] = e]
            /\ dir' = IF Task[e].type = "MON" THEN "full" ELSE dir
       ELSE UNCHANGED <<container, dir>>
  /\ UNCHANGED <<monHere, pc, sent, asked, oldData, mounted, run, faults>>

dockerRunFails(e) ==
  /\ dockerGotTo(e)
  /\ Fault("noContainer")
  /\ UNCHANGED <<pc, sent, hostVars>>

containerExits(n) ==
  /\ container[n] # NoExec
  /\ Fault("exits")
  /\ removeContainer(n)
  /\ UNCHANGED <<monHere, pc, docker, sent, asked, dir, oldData, mounted, run>>

-----------------------------------------------------------------------------
(* The end of a run.                                                       *)

(* The scheduler stops; the next run is a new framework.                   *)
SchedulerStops ==
  /\ run <= MaxRun
  /\ run' = run + 1
  /\ oldData' = (oldData \/ dir # "absent")
  /\ UNCHANGED <<monHere, pc, docker, sent, asked, dir, container, mounted,
                 faults>>

(* containerName is set once launchTask got as far as removeExisting.      *)
named(e) == forked[e] > 0 \/ Sent(e, "TASK_STARTING")

(* Mesos calls shutdown when the executor's driver is free.  Of the mount  *)
(* points only the last one is known.                                      *)
shutdown(e) ==
  /\ Task[e].run < run
  /\ pc[e] = "idle"
  /\ mounted' = mounted \ {mountPoint(e)}
  /\ IF named(e) THEN removeContainer(name(e)) ELSE UNCHANGED container
  /\ sent' = [sent EXCEPT ![e] = Append(@, "TASK_KILLED")]
  /\ Goto(e, "gone")
  /\ UNCHANGED <<monHere, docker, asked, dir, oldData, run, faults>>

(* An executor that is inside a handler gets no shutdown call and is       *)
(* killed when Mesos's grace period is over.                               *)
GraceExpires(e) ==
  /\ Task[e].run < run
  /\ pc[e] \in Handling
  /\ Goto(e, "gone")
  /\ UNCHANGED <<docker, sent, faults, hostVars>>

ExecutorDies(e) ==
  /\ pc[e] \in Handling \cup {"idle"}
  /\ Fault("dies")
  /\ Goto(e, "gone")
  /\ UNCHANGED <<docker, sent, hostVars>>

-----------------------------------------------------------------------------
handler(e) ==
  \/ existsConfigFiles(e)
  \/ createLocalSharedConfigDir(e)
  \/ copySharedConfigFiles(e)
  \/ removeExisting(e)
  \/ poll(e)
  \/ stat(e)
  \/ prepareDisks(e)

Next ==
  \/ \E e \in Exec : \/ LaunchTask(e)
                     \/ handler(e)
                     \/ SendLaunchOSD(e)
                     \/ LaunchOSD(e)
                     \/ dockerRun(e)
                     \/ dockerRunFails(e)
                     \/ shutdown(e)
                     \/ GraceExpires(e)
                     \/ ExecutorDies(e)
  \/ \E n \in Name : containerExits(n)
  \/ SchedulerStops

Spec == Init /\ [][Next]_vars

(* Executors and docker go on with what they do.                           *)
Fairness ==
  \A e \in Exec : WF_vars(handler(e)) /\ WF_vars(dockerRun(e))

FairSpec == Spec /\ Fairness

-----------------------------------------------------------------------------
(* Properties.                                                             *)

(* TASK_RUNNING is sent, the first time and after every further            *)
(* LAUNCH_OSD, only while the task's own container runs, although docker   *)
(* ps is searched for any line with the name in it and the container may   *)
(* stop between the two commands.                                          *)
RunningHasContainer ==
  [][\A e \in Exec : sent'[e] = Append(sent[e], "TASK_RUNNING")
                       => container[name(e)] = e]_vars

exactName(e) == Grep[name(e)] = {name(e)}

(* An executor that was shut down leaves no container behind, even if its  *)
(* docker run was slow: block_until_started does not return before it has  *)
(* seen it, unless it takes another container for it.  After a further     *)
(* LAUNCH_OSD what it sees may be the container of the one before, and the *)
(* further docker run may come after shutdown's docker rm -f.              *)
ShutdownRemoves ==
  \A e \in Exec :
    exactName(e) /\ Sent(e, "TASK_KILLED") /\ container[name(e)] = e
      => forked[e] > 1

(* On the host of the initial MON, which deletes the directory, no         *)
(* container of the run starts on data of an earlier one.                  *)
DataCleared ==
  [][\A e \in Exec : container'[name(e)] = e /\ container[name(e)] # e
                       /\ monHere /\ Task[e].run = run => ~ oldData]_vars

(* Without a fault no task fails on the host of the initial MON, however   *)
(* the executors interleave: the others find its configuration files and   *)
(* never compete to make the directory.                                    *)
NoFaultNoFailure ==
  faults = 0 /\ run = 1 /\ monHere =>
    \A e \in Exec : exactName(e) => ~ Sent(e, "TASK_FAILED")

(* Every handler returns: block_until_started polls "until timeout".       *)
HandlerReturns ==
  \A e \in Exec : pc[e] \in Handling ~> pc[e] \notin Handling
=============================================================================
