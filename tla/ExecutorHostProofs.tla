-------------------------- MODULE ExecutorHostProofs ------------------------
(***************************************************************************)
(* The executors of one host, for every set of executors, every file that  *)
(* an earlier run has left and any number of faults and runs.  What        *)
(* depends on who owns a container is proved for tasks with different      *)
(* names, those of one run; what depends on the configuration directory,   *)
(* for one initial task in a run.  Both are what the scheduler guarantees  *)
(* (TokensUnique, InitialMonIsFirst).  The last part proves that a handler *)
(* of an executor is one step of module CephExecutor.                      *)
(***************************************************************************)
EXTENDS ExecutorRefinement, TLAPS

(* What is assumed of the constants, task by task.                         *)
LEMMA TaskFacts ==
  ASSUME NEW e \in Exec
  PROVE  /\ name(e) \in Name
         /\ Task[e].run \in Nat
         /\ Task[e].initial \in BOOLEAN
         /\ name(e) \in Grep[name(e)]
         /\ Grep[name(e)] \subseteq Name
<1>1. Task[e] \in [type : {"MON", "OSD", "RADOSGW"}, token : Nat,
                   name : Name, initial : BOOLEAN, run : Nat]
  BY ExecutorHostAssumption
<1> QED
  BY <1>1, ExecutorHostAssumption DEF name

(* An update is appended to those of its executor.                         *)
LEMMA SendAfter ==
  ASSUME TypeOK, NEW e \in Exec, NEW u \in Update,
         sent' = [sent EXCEPT ![e] = Append(@, u)]
  PROVE  /\ sent' \in [Exec -> Seq(Update)]
         /\ \A f \in Exec : f # e => sent'[f] = sent[f]
         /\ \A f \in Exec : \A v :
              Sent(f, v)' <=> Sent(f, v) \/ (f = e /\ v = u)
<1>1. sent \in [Exec -> Seq(Update)] /\ sent[e] \in Seq(Update)
  BY DEF TypeOK
<1>2. sent'[e] = Append(sent[e], u) /\ Append(sent[e], u) \in Seq(Update)
  BY <1>1
<1>3. /\ sent' \in [Exec -> Seq(Update)]
      /\ \A f \in Exec : f # e => sent'[f] = sent[f]
  BY <1>1, <1>2
<1>4. \A v : v \in Range(sent'[e]) <=> v \in Range(sent[e]) \/ v = u
  <2>1. /\ DOMAIN sent[e] = 1 .. Len(sent[e]) /\ Len(sent[e]) \in Nat
        /\ DOMAIN sent'[e] = 1 .. Len(sent[e]) + 1
        /\ sent'[e][Len(sent[e]) + 1] = u
        /\ \A i \in 1 .. Len(sent[e]) : sent'[e][i] = sent[e][i]
    BY <1>1, <1>2
  <2>2. \A i \in DOMAIN sent'[e] :
          i \in DOMAIN sent[e] \/ i = Len(sent[e]) + 1
    BY <2>1
  <2>3. /\ Len(sent[e]) + 1 \in DOMAIN sent'[e]
        /\ \A i \in DOMAIN sent[e] : i \in DOMAIN sent'[e]
    BY <2>1
  <2> QED
    BY <2>1, <2>2, <2>3 DEF Range
<1> QED
  BY <1>3, <1>4 DEF Sent

(* An executor that has sent nothing has not sent anything.                *)
LEMMA NothingSent ==
  ASSUME NEW e \in Exec, sent[e] = << >>
  PROVE  \A u : ~ Sent(e, u)
BY DEF Sent, Range

-----------------------------------------------------------------------------
(* What is known of an executor by where it is.                            *)

USE DEF docker

Order(e) ==
  /\ pc[e] = "new" => sent[e] = << >> /\ forked[e] = 0
  /\ pc[e] # "new" => 1 <= Task[e].run /\ Task[e].run <= run
  /\ pc[e] \in {"exists", "mkdir", "copy", "remove"}
       => sent[e] = << >> /\ forked[e] = 0
  /\ starting[e] <= forked[e]

(* A container has the name of the executor it belongs to, one of whose    *)
(* docker runs is no longer starting.                                      *)
ContainerOwned ==
  /\ \A n \in Name : container[n] # NoExec => name(container[n]) = n
  /\ \A e \in Exec : container[name(e)] = e => starting[e] < forked[e]

(* What runs on the host of the MON of the current run came after the      *)
(* initial MON, which deleted the data of earlier ones.                    *)
DataFresh ==
  \A e \in Exec :
    monHere /\ Task[e].run = run /\ pc[e] # "new" => ~ oldData

HostInv ==
  /\ TypeOK
  /\ run # 0
  /\ \A e \in Exec : Order(e)
  /\ ContainerOwned
  /\ DataFresh

(* Initially no executor has done anything.                                *)
LEMMA InitHost == Init => HostInv
<1> SUFFICES ASSUME Init PROVE HostInv
  OBVIOUS
<1>1. TypeOK
  BY ExecutorHostAssumption DEF Init, TypeOK
<1>2. \A e \in Exec : Order(e)
  BY DEF Init, Order
<1>3. ContainerOwned
  BY TaskFacts, ExecutorHostAssumption DEF Init, ContainerOwned
<1> QED
  BY <1>1, <1>2, <1>3 DEF HostInv, Init, DataFresh

(* A step of e's driver that leaves docker and the data alone: at most an  *)
(* update, and the directory.                                              *)
LEMMA HandlerStep ==
  ASSUME HostInv, NEW e \in Exec, pc[e] # "new",
         NEW step \in Handling \cup {"idle", "gone"}, Goto(e, step),
         \/ UNCHANGED sent
         \/ \E u \in Update : sent' = [sent EXCEPT ![e] = Append(@, u)],
         step \in {"exists", "mkdir", "copy", "remove"} =>
           sent' = sent /\ pc[e] \in {"exists", "mkdir", "copy", "remove"},
         dir' \in {"absent", "empty", "full"},
         faults' \in 0 .. MaxFaults,
         UNCHANGED <<monHere, docker, asked, oldData, container, mounted, run>>
  PROVE  HostInv'
<1> USE DEF HostInv
<1>1. pc \in [Exec -> Handling \cup {"new", "idle", "gone"}]
  BY DEF TypeOK
<1>2. /\ pc' \in [Exec -> Handling \cup {"new", "idle", "gone"}]
      /\ pc'[e] = step /\ step # "new"
      /\ \A f \in Exec : f # e => pc'[f] = pc[f]
  BY <1>1 DEF Goto, Handling
<1>3. /\ sent' \in [Exec -> Seq(Update)]
      /\ \A f \in Exec : f # e => sent'[f] = sent[f]
  BY SendAfter DEF TypeOK
<1>4. TypeOK'
  BY <1>2, <1>3 DEF TypeOK
<1>5. ASSUME NEW f \in Exec PROVE Order(f)'
  <2>1. Order(f)
    OBVIOUS
  <2>2. CASE f # e
    BY <1>2, <1>3, <2>1, <2>2 DEF Order
  <2>3. CASE f = e
    BY <1>2, <2>1, <2>3 DEF Order
  <2> QED
    BY <2>2, <2>3
<1>6. ContainerOwned'
  BY DEF ContainerOwned
<1>7. DataFresh'
  BY <1>2 DEF DataFresh
<1> QED
  BY <1>4, <1>5, <1>6, <1>7

(* The steps of a driver's thread that are of that kind.                   *)
LEMMA HandlerHost ==
  ASSUME HostInv, NEW e \in Exec,
         \/ existsConfigFiles(e)
         \/ createLocalSharedConfigDir(e)
         \/ copySharedConfigFiles(e)
         \/ poll(e)
         \/ stat(e)
         \/ LaunchOSD(e)
         \/ GraceExpires(e)
         \/ ExecutorDies(e)
  PROVE  HostInv'
<1> USE DEF Handling, hostVars
<1>1. dir \in {"absent", "empty", "full"} /\ faults \in 0 .. MaxFaults
  BY DEF HostInv, TypeOK
<1>2. \A kind : Fault(kind) => faults' \in 0 .. MaxFaults
  BY <1>1, ExecutorHostAssumption DEF Fault
<1>3. CASE existsConfigFiles(e)
  <2>1. PICK step \in {"mkdir", "copy", "remove"} : Goto(e, step)
    BY <1>3 DEF existsConfigFiles, afterMkdir
  <2> QED
    BY <1>1, <1>3, <2>1, HandlerStep DEF existsConfigFiles
<1>4. CASE createLocalSharedConfigDir(e)
  <2>1. CASE dir = "absent"
    <3>1. PICK step \in {"copy", "remove"} : Goto(e, step)
      BY <1>4, <2>1 DEF createLocalSharedConfigDir, afterMkdir
    <3> QED
      BY <1>1, <1>4, <2>1, <3>1, HandlerStep DEF createLocalSharedConfigDir
  <2>2. CASE dir # "absent"
    BY <1>1, <1>4, <2>2, HandlerStep
       DEF createLocalSharedConfigDir, sendStatusUpdate, Update
  <2> QED
    BY <2>1, <2>2
<1>5. CASE copySharedConfigFiles(e)
  <2>1. CASE dir # "absent"
    BY <1>1, <1>5, <2>1, HandlerStep DEF copySharedConfigFiles
  <2>2. CASE dir = "absent"
    BY <1>1, <1>5, <2>2, HandlerStep
       DEF copySharedConfigFiles, sendStatusUpdate, Update
  <2> QED
    BY <2>1, <2>2
<1>6. CASE poll(e)
  BY <1>1, <1>6, HandlerStep DEF poll
<1>7. CASE stat(e)
  <2>1. \E u \in Update : sendStatusUpdate(e, u)
    BY <1>7 DEF stat, Update
  <2>2. faults' \in 0 .. MaxFaults
    BY <1>1, <1>2, <1>7 DEF stat
  <2> QED
    BY <1>1, <1>7, <2>1, <2>2, HandlerStep DEF stat, sendStatusUpdate
<1>8. CASE LaunchOSD(e)
  BY <1>1, <1>8, HandlerStep DEF LaunchOSD
<1>9. CASE GraceExpires(e)
  BY <1>1, <1>9, HandlerStep DEF GraceExpires
<1>10. CASE ExecutorDies(e)
  BY <1>1, <1>2, <1>10, HandlerStep DEF ExecutorDies
<1> QED
  BY <1>3, <1>4, <1>5, <1>6, <1>7, <1>8, <1>9, <1>10

(* launchTask begins: the initial MON deletes the data, any other task of  *)
(* the run comes after a MON of the run.                                   *)
LEMMA LaunchHost ==
  ASSUME HostInv, NEW e \in Exec, LaunchTask(e)
  PROVE  HostInv'
<1> USE DEF HostInv
<1>1. /\ pc[e] = "new" /\ Task[e].run = run
      /\ UNCHANGED <<monHere, docker, sent, asked, container, mounted, run,
                     faults>>
  BY DEF LaunchTask
<1>2. /\ pc' \in [Exec -> Handling \cup {"new", "idle", "gone"}]
      /\ pc'[e] = "exists"
      /\ \A f \in Exec : f # e => pc'[f] = pc[f]
  BY DEF LaunchTask, Goto, Handling, TypeOK
<1>3. TypeOK'
  <2>1. dir' \in {"absent", "empty", "full"} /\ oldData' \in BOOLEAN
    BY DEF LaunchTask, TypeOK
  <2> QED
    BY <1>1, <1>2, <2>1 DEF TypeOK
<1>4. ASSUME NEW f \in Exec PROVE Order(f)'
  <2>1. Order(f)
    OBVIOUS
  <2>2. CASE f # e
    BY <1>1, <1>2, <2>1, <2>2 DEF Order
  <2>3. CASE f = e
    <3>1. 1 <= run /\ run <= run
      BY DEF TypeOK
    <3> QED
      BY <1>1, <1>2, <2>1, <2>3, <3>1 DEF Order
  <2> QED
    BY <2>2, <2>3
<1>5. ContainerOwned'
  BY <1>1 DEF ContainerOwned
<1>6. DataFresh'
  <2>1. monHere => ~ oldData'
    <3> SUFFICES ASSUME monHere, ~ Task[e].initial PROVE ~ oldData
      BY TaskFacts DEF LaunchTask
    <3>1. PICK m \in Exec : /\ Task[m].run = Task[e].run
                            /\ Sent(m, "TASK_RUNNING")
      BY DEF LaunchTask, fetched
    <3>2. Order(m) /\ sent[m] # << >>
      BY <3>1, NothingSent
    <3>3. pc[m] # "new"
      BY <3>2 DEF Order
    <3> QED
      BY <1>1, <3>1, <3>3 DEF DataFresh
  <2> QED
    BY <1>1, <2>1 DEF DataFresh
<1> QED
  BY <1>1, <1>3, <1>4, <1>5, <1>6

(* docker rm -f takes one container away.                                  *)
LEMMA RemoveOwned ==
  ASSUME TypeOK, ContainerOwned, NEW n \in Name, removeContainer(n)
  PROVE  /\ container' \in [Name -> Exec \cup {NoExec}]
         /\ container'[n] = NoExec
         /\ \A k \in Name : k # n => container'[k] = container[k]
         /\ \A k \in Name :
              container'[k] # NoExec => name(container'[k]) = k
         /\ \A f \in Exec :
              container'[name(f)] = f => container[name(f)] = f
<1>1. /\ container' \in [Name -> Exec \cup {NoExec}]
      /\ container'[n] = NoExec
      /\ \A k \in Name : k # n => container'[k] = container[k]
  BY DEF removeContainer, TypeOK
<1>2. \A f \in Exec : name(f) \in Name /\ f # NoExec
  BY TaskFacts, ExecutorHostAssumption
<1> QED
  BY <1>1, <1>2 DEF ContainerOwned

(* What a step may do to an executor other than the one that makes it:     *)
(* take its container away.                                                *)
Left(f) ==
  /\ pc'[f] = pc[f] /\ sent'[f] = sent[f]
  /\ forked'[f] = forked[f] /\ starting'[f] = starting[f]
  /\ container'[name(f)] = f => container[name(f)] = f

(* A step that leaves the run and the data alone.                          *)
LEMMA OthersKept ==
  ASSUME HostInv, UNCHANGED <<monHere, oldData, run>>, NEW e,
         \A f \in Exec : f # e => Left(f),
         e \in Exec => /\ Order(e)' /\ (pc'[e] # "new" => pc[e] # "new")
                       /\ container'[name(e)] = e => starting'[e] < forked'[e],
         \A n \in Name : container'[n] # NoExec => name(container'[n]) = n,
         TypeOK'
  PROVE  HostInv'
<1> USE DEF HostInv
<1>1. ASSUME NEW f \in Exec, f # e PROVE Order(f)'
  BY <1>1 DEF Order, Left
<1>2. DataFresh'
  BY DEF DataFresh, Left
<1>3. ContainerOwned'
  BY DEF ContainerOwned, Left
<1> QED
  BY <1>1, <1>2, <1>3

(* fork counts one more docker run of the executor.                        *)
LEMMA ForkAfter ==
  ASSUME TypeOK, NEW e \in Exec, fork(e)
  PROVE  /\ forked' \in [Exec -> Nat] /\ starting' \in [Exec -> Nat]
         /\ forked'[e] = forked[e] + 1 /\ starting'[e] = starting[e] + 1
         /\ \A f \in Exec : f # e => /\ forked'[f] = forked[f]
                                     /\ starting'[f] = starting[f]
BY DEF fork, TypeOK

(* docker gets to one of the docker runs of the executor.                  *)
LEMMA GotToAfter ==
  ASSUME TypeOK, NEW e \in Exec, dockerGotTo(e)
  PROVE  /\ forked' = forked /\ starting' \in [Exec -> Nat]
         /\ starting[e] > 0 /\ starting'[e] = starting[e] - 1
         /\ \A f \in Exec : f # e => starting'[f] = starting[f]
<1>1. starting[e] \in Nat /\ starting[e] > 0 /\ starting \in [Exec -> Nat]
  BY DEF dockerGotTo, TypeOK
<1>2. starting[e] - 1 \in Nat
  BY <1>1
<1> QED
  BY <1>1, <1>2 DEF dockerGotTo

(* A container of the name is removed; then an OSD waits and any other     *)
(* task forks docker run.                                                  *)
LEMMA RemoveHost ==
  ASSUME HostInv, NEW e \in Exec, removeExisting(e)
  PROVE  HostInv'
<1> USE DEF HostInv
<1>1. /\ UNCHANGED <<monHere, asked, dir, oldData, mounted, run, faults>>
      /\ pc[e] = "remove" /\ forked[e] = 0 /\ name(e) \in Name
      /\ Order(e) /\ removeContainer(name(e)) /\ e # NoExec
      /\ forked[e] \in Nat /\ starting[e] \in Nat
  BY TaskFacts, ExecutorHostAssumption DEF removeExisting, Order, TypeOK
<1>2. /\ container' \in [Name -> Exec \cup {NoExec}]
      /\ container'[name(e)] = NoExec
      /\ \A n \in Name : container'[n] # NoExec => name(container'[n]) = n
      /\ \A f \in Exec : container'[name(f)] = f => container[name(f)] = f
  BY <1>1, RemoveOwned
<1>3. CASE Task[e].type = "OSD"
  <2>1. sendStatusUpdate(e, "TASK_STARTING") /\ UNCHANGED docker
    BY <1>3 DEF removeExisting
  <2>2. /\ pc' \in [Exec -> Handling \cup {"new", "idle", "gone"}]
        /\ pc'[e] = "idle"
        /\ \A f \in Exec : f # e => pc'[f] = pc[f]
    BY <2>1 DEF sendStatusUpdate, Goto, TypeOK
  <2>3. /\ sent' \in [Exec -> Seq(Update)]
        /\ \A f \in Exec : f # e => sent'[f] = sent[f]
    BY <2>1, SendAfter DEF sendStatusUpdate, Update
  <2>4. TypeOK'
    BY <1>1, <1>2, <2>1, <2>2, <2>3 DEF TypeOK
  <2>5. Order(e)'
    BY <1>1, <2>1, <2>2 DEF Order
  <2> QED
    BY <1>1, <1>2, <2>1, <2>2, <2>3, <2>4, <2>5, OthersKept DEF Left
<1>4. CASE Task[e].type # "OSD"
  <2>1. fork(e) /\ Goto(e, "poll") /\ UNCHANGED sent
    BY <1>4 DEF removeExisting
  <2>2. /\ pc' \in [Exec -> Handling \cup {"new", "idle", "gone"}]
        /\ pc'[e] = "poll"
        /\ \A f \in Exec : f # e => pc'[f] = pc[f]
    BY <2>1 DEF Goto, TypeOK, Handling
  <2>3. /\ forked' \in [Exec -> Nat] /\ starting' \in [Exec -> Nat]
        /\ forked'[e] = forked[e] + 1 /\ starting'[e] = starting[e] + 1
        /\ \A f \in Exec : f # e => /\ forked'[f] = forked[f]
                                    /\ starting'[f] = starting[f]
    BY <2>1, ForkAfter
  <2>4. TypeOK'
    BY <1>1, <1>2, <2>1, <2>2, <2>3 DEF TypeOK
  <2>5. Order(e)'
    BY <1>1, <2>1, <2>2, <2>3 DEF Order
  <2> QED
    BY <1>1, <1>2, <2>1, <2>2, <2>3, <2>4, <2>5, OthersKept DEF Left
<1> QED
  BY <1>3, <1>4

(* LAUNCH_OSD goes on to fork docker run.                                  *)
LEMMA PrepareHost ==
  ASSUME HostInv, NEW e \in Exec, prepareDisks(e)
  PROVE  HostInv'
<1> USE DEF HostInv
<1>1. /\ UNCHANGED <<monHere, sent, asked, oldData, container, run>>
      /\ pc[e] = "mount" /\ Order(e) /\ fork(e)
      /\ forked[e] \in Nat /\ starting[e] \in Nat
  BY DEF prepareDisks, TypeOK
<1>2. /\ pc' \in [Exec -> Handling \cup {"new", "idle", "gone"}]
      /\ pc'[e] = "poll"
      /\ \A f \in Exec : f # e => pc'[f] = pc[f]
  BY DEF prepareDisks, Goto, TypeOK, Handling
<1>3. /\ forked' \in [Exec -> Nat] /\ starting' \in [Exec -> Nat]
      /\ forked'[e] = forked[e] + 1 /\ starting'[e] = starting[e] + 1
      /\ \A f \in Exec : f # e => /\ forked'[f] = forked[f]
                                  /\ starting'[f] = starting[f]
  BY <1>1, ForkAfter
<1>4. TypeOK'
  <2>1. dir' \in {"absent", "empty", "full"}
    BY DEF prepareDisks, TypeOK
  <2>2. mounted' \subseteq HasDisk \X Nat
    <3>1. e \in HasDisk => mountPoint(e)' \in HasDisk \X Nat
      BY <1>3 DEF mountPoint
    <3> QED
      BY <3>1 DEF prepareDisks, TypeOK
  <2>3. faults' \in 0 .. MaxFaults
    BY ExecutorHostAssumption DEF prepareDisks, Fault, TypeOK
  <2> QED
    BY <1>1, <1>2, <1>3, <2>1, <2>2, <2>3 DEF TypeOK
<1>5. container[name(e)] = e => starting'[e] < forked'[e]
  BY <1>1, <1>3 DEF ContainerOwned
<1>6. Order(e)'
  BY <1>1, <1>2, <1>3 DEF Order
<1>7. \A n \in Name : container'[n] # NoExec => name(container'[n]) = n
  BY <1>1 DEF ContainerOwned
<1> QED
  BY <1>1, <1>2, <1>3, <1>4, <1>5, <1>6, <1>7, OthersKept DEF Left

(* docker run gets the name, or ends.                                      *)
LEMMA DockerHost ==
  ASSUME HostInv, NEW e \in Exec, dockerRun(e) \/ dockerRunFails(e)
  PROVE  HostInv'
<1> USE DEF HostInv
<1>1. /\ UNCHANGED <<monHere, pc, sent, asked, oldData, mounted, run>>
      /\ dockerGotTo(e) /\ Order(e) /\ name(e) \in Name /\ e # NoExec
      /\ forked[e] \in Nat /\ starting[e] \in Nat
  BY TaskFacts, ExecutorHostAssumption
     DEF dockerRun, dockerRunFails, hostVars, TypeOK
<1>2. \/ /\ container[name(e)] = NoExec
         /\ container' = [container EXCEPT ![name(e)] = e]
      \/ UNCHANGED container
  BY DEF dockerRun, dockerRunFails, hostVars
<1>3. /\ forked' = forked /\ starting' \in [Exec -> Nat]
      /\ starting[e] > 0 /\ starting'[e] = starting[e] - 1
      /\ \A f \in Exec : f # e => starting'[f] = starting[f]
  BY <1>1, GotToAfter
<1>4. /\ container' \in [Name -> Exec \cup {NoExec}]
      /\ \A n \in Name : container'[n] # NoExec => name(container'[n]) = n
      /\ \A f \in Exec : f # e /\ container'[name(f)] = f
                          => container[name(f)] = f
  <2>1. /\ container \in [Name -> Exec \cup {NoExec}]
        /\ \A n \in Name : container[n] # NoExec => name(container[n]) = n
        /\ \A f \in Exec : name(f) \in Name
    BY TaskFacts DEF TypeOK, ContainerOwned
  <2> QED
    BY <1>1, <1>2, <2>1
<1>5. TypeOK'
  <2>1. dir' \in {"absent", "empty", "full"}
    BY DEF dockerRun, dockerRunFails, hostVars, TypeOK
  <2>2. faults' \in 0 .. MaxFaults
    BY ExecutorHostAssumption DEF dockerRun, dockerRunFails, Fault, TypeOK
  <2> QED
    BY <1>1, <1>3, <1>4, <2>1, <2>2 DEF TypeOK
<1>6. Order(e)' /\ starting'[e] < forked'[e]
  BY <1>1, <1>3 DEF Order
<1> QED
  BY <1>1, <1>3, <1>4, <1>5, <1>6, OthersKept DEF Left

(* A container stops.                                                      *)
LEMMA ExitHost ==
  ASSUME HostInv, NEW n \in Name, containerExits(n)
  PROVE  HostInv'
<1> USE DEF HostInv
<1>1. /\ UNCHANGED <<monHere, pc, docker, sent, asked, dir, oldData, mounted,
                     run>>
      /\ removeContainer(n)
  BY DEF containerExits
<1>2. /\ container' \in [Name -> Exec \cup {NoExec}]
      /\ \A k \in Name : container'[k] # NoExec => name(container'[k]) = k
      /\ \A f \in Exec : container'[name(f)] = f => container[name(f)] = f
  BY <1>1, RemoveOwned
<1>3. TypeOK'
  <2>1. faults' \in 0 .. MaxFaults
    BY ExecutorHostAssumption DEF containerExits, Fault, TypeOK
  <2> QED
    BY <1>1, <1>2, <2>1 DEF TypeOK
<1>4. \A f \in Exec : Left(f)
  BY <1>1, <1>2 DEF Left
<1>5. NoExec \notin Exec
  BY ExecutorHostAssumption
<1> QED
  BY <1>1, <1>2, <1>3, <1>4, <1>5, OthersKept

(* shutdown removes the container of the executor's name.                  *)
LEMMA ShutdownHost ==
  ASSUME HostInv, NEW e \in Exec, shutdown(e)
  PROVE  HostInv'
<1> USE DEF HostInv
<1>1. /\ UNCHANGED <<monHere, docker, asked, dir, oldData, run, faults>>
      /\ pc[e] = "idle" /\ Order(e) /\ name(e) \in Name
      /\ removeContainer(name(e)) \/ UNCHANGED container
  BY TaskFacts DEF shutdown
<1>2. /\ container' \in [Name -> Exec \cup {NoExec}]
      /\ \A k \in Name : container'[k] # NoExec => name(container'[k]) = k
      /\ \A f \in Exec : container'[name(f)] = f => container[name(f)] = f
  <2>1. CASE removeContainer(name(e))
    BY <1>1, <2>1, RemoveOwned
  <2>2. CASE UNCHANGED container
    BY <2>2 DEF TypeOK, ContainerOwned
  <2> QED
    BY <1>1, <2>1, <2>2
<1>3. /\ sent' \in [Exec -> Seq(Update)]
      /\ \A f \in Exec : f # e => sent'[f] = sent[f]
  BY SendAfter DEF shutdown, Update
<1>4. /\ pc' \in [Exec -> Handling \cup {"new", "idle", "gone"}]
      /\ pc'[e] = "gone"
      /\ \A f \in Exec : f # e => pc'[f] = pc[f]
  BY DEF shutdown, Goto, TypeOK
<1>5. TypeOK'
  <2>1. mounted' \subseteq HasDisk \X Nat
    BY DEF TypeOK, shutdown
  <2> QED
    BY <1>1, <1>2, <1>3, <1>4, <2>1 DEF TypeOK
<1>6. Order(e)'
  BY <1>1, <1>4 DEF Order
<1>7. container'[name(e)] = e => starting'[e] < forked'[e]
  BY <1>1, <1>2 DEF ContainerOwned
<1> QED
  BY <1>1, <1>2, <1>3, <1>4, <1>5, <1>6, <1>7, OthersKept DEF Left

(* LAUNCH_OSD is counted.                                                  *)
LEMMA SendHost ==
  ASSUME HostInv, NEW e \in Exec, SendLaunchOSD(e)
  PROVE  HostInv'
<1> USE DEF HostInv
<1>1. /\ UNCHANGED <<monHere, pc, docker, sent, dir, oldData, container,
                     mounted, run>>
      /\ asked' = [asked EXCEPT ![e] = @ + 1]
  BY DEF SendLaunchOSD
<1>2. asked' \in [Exec -> Nat]
  BY <1>1 DEF TypeOK
<1>3. faults' \in 0 .. MaxFaults
  BY ExecutorHostAssumption DEF SendLaunchOSD, Fault, TypeOK
<1>4. TypeOK'
  BY <1>1, <1>2, <1>3 DEF TypeOK
<1> QED
  BY <1>1, <1>4 DEF Order, ContainerOwned, DataFresh

(* Every step keeps the invariant of the host.                             *)
LEMMA NextHost == HostInv /\ [Next]_vars => HostInv'
<1> SUFFICES ASSUME HostInv, [Next]_vars PROVE HostInv'
  OBVIOUS
<1>1. CASE SchedulerStops
  <2>1. /\ run' = run + 1 /\ run \in Nat /\ oldData' \in BOOLEAN
        /\ UNCHANGED <<monHere, pc, docker, sent, asked, dir, container,
                       mounted, faults>>
    BY <1>1 DEF SchedulerStops, HostInv, TypeOK
  <2>2. TypeOK' /\ ContainerOwned' /\ run' # 0
    BY <2>1 DEF HostInv, TypeOK, ContainerOwned
  <2>3. ASSUME NEW f \in Exec
        PROVE  Order(f)' /\ (pc'[f] # "new" => Task[f].run # run')
    BY <2>1, TaskFacts DEF HostInv, Order
  <2> QED
    BY <2>2, <2>3 DEF HostInv, DataFresh
<1>2. CASE UNCHANGED vars
  BY <1>2 DEF vars, HostInv, TypeOK, Order, ContainerOwned, DataFresh
<1> QED
  BY <1>1, <1>2, HandlerHost, LaunchHost, RemoveHost, PrepareHost, DockerHost,
     ExitHost, ShutdownHost, SendHost DEF Next, handler

(* Every reachable state of the host is well typed.                        *)
THEOREM HostTypeCorrect == Spec => []TypeOK
<1>1. HostInv => TypeOK
  BY DEF HostInv
<1> QED
  BY <1>1, InitHost, NextHost, PTL DEF Spec

(* On the host of the initial MON no container of a run starts on data of  *)
(* an earlier run, for any number of runs and of MONs.                     *)
THEOREM DataAlwaysCleared == Spec => DataCleared
<1> DEFINE Cleared ==
      \A e \in Exec : container'[name(e)] = e /\ container[name(e)] # e
                        /\ monHere /\ Task[e].run = run => ~ oldData
<1>1. HostInv /\ [Next]_vars => [Cleared]_vars
  <2> SUFFICES ASSUME HostInv, Next, NEW e \in Exec, container'[name(e)] = e,
                      container[name(e)] # e, monHere, Task[e].run = run
               PROVE  ~ oldData
    OBVIOUS
  <2>1. starting'[e] < forked'[e]
    BY NextHost DEF HostInv, ContainerOwned
  <2>2. pc'[e] # "new"
    <3>1. Order(e)' /\ starting'[e] \in Nat
      BY NextHost DEF HostInv, TypeOK
    <3> QED
      BY <2>1, <3>1 DEF Order
  <2>3. UNCHANGED <<monHere, run, oldData, pc>>
    <3>1. \E f \in Exec : dockerRun(f)
      <4>1. container' # container
        OBVIOUS
      <4>2. ASSUME NEW n \in Name, removeContainer(n) PROVE FALSE
        BY <4>2, RemoveOwned DEF HostInv
      <4>3. CASE \E f \in Exec : removeExisting(f) \/ shutdown(f)
        BY <4>1, <4>2, <4>3, TaskFacts DEF removeExisting, shutdown
      <4>4. CASE \E n \in Name : containerExits(n)
        BY <4>2, <4>4 DEF containerExits
      <4> QED
        BY <4>1, <4>3, <4>4 DEF Next, handler, LaunchTask, existsConfigFiles,
           createLocalSharedConfigDir, copySharedConfigFiles, poll, stat,
           SendLaunchOSD, LaunchOSD, prepareDisks, dockerRunFails,
           GraceExpires, ExecutorDies, SchedulerStops, hostVars
    <3> QED
      BY <3>1 DEF dockerRun
  <2> QED
    BY <2>2, <2>3 DEF HostInv, DataFresh
<1> QED
  BY <1>1, InitHost, NextHost, PTL DEF Spec, DataCleared

-----------------------------------------------------------------------------
(* Tasks with different names, and what their executors see of docker.     *)

(* The tasks on the host have different names, as those of one run do: the *)
(* name is made of the type and the token.                                 *)
DistinctNames == \A e, f \in Exec : name(e) = name(f) => e = f

(* A step of the executor's own thread or of its docker run.               *)
StepOf(e) ==
  \/ LaunchTask(e) \/ handler(e) \/ SendLaunchOSD(e) \/ LaunchOSD(e)
  \/ dockerRun(e) \/ dockerRunFails(e) \/ shutdown(e) \/ GraceExpires(e)
  \/ ExecutorDies(e)

(* The container of an executor's name is its own.                         *)
LEMMA OwnContainer ==
  ASSUME HostInv, DistinctNames, NEW e \in Exec, container[name(e)] # NoExec
  PROVE  container[name(e)] = e /\ starting[e] < forked[e]
<1>1. container[name(e)] \in Exec /\ name(container[name(e)]) = name(e)
  BY TaskFacts DEF HostInv, TypeOK, ContainerOwned
<1> QED
  BY <1>1 DEF DistinctNames, HostInv, ContainerOwned

(* A step of one executor may take the container of another, no more.      *)
LEMMA OthersLeft ==
  ASSUME HostInv, NEW e \in Exec, StepOf(e), NEW f \in Exec, f # e
  PROVE  Left(f)
<1> USE DEF HostInv, Left, Goto, sendStatusUpdate, hostVars, Fault
<1>1. /\ pc \in [Exec -> Handling \cup {"new", "idle", "gone"}]
      /\ forked \in [Exec -> Nat] /\ starting \in [Exec -> Nat]
      /\ sent \in [Exec -> Seq(Update)]
      /\ container \in [Name -> Exec \cup {NoExec}]
  BY DEF TypeOK
<1>2. name(e) \in Name /\ name(f) \in Name /\ f # NoExec
  BY TaskFacts, ExecutorHostAssumption
<1>3. CASE LaunchTask(e) \/ SendLaunchOSD(e) \/ LaunchOSD(e)
             \/ GraceExpires(e) \/ ExecutorDies(e)
  BY <1>1, <1>3 DEF LaunchTask, SendLaunchOSD, LaunchOSD, GraceExpires,
                    ExecutorDies
<1>4. CASE dockerRun(e) \/ dockerRunFails(e)
  <2>1. forked' = forked /\ starting'[f] = starting[f]
    BY <1>4, GotToAfter DEF dockerRun, dockerRunFails
  <2> QED
    BY <1>1, <1>2, <1>4, <2>1 DEF dockerRun, dockerRunFails
<1>5. CASE shutdown(e)
  BY <1>1, <1>2, <1>5 DEF shutdown, removeContainer
<1>6. CASE existsConfigFiles(e) \/ createLocalSharedConfigDir(e)
             \/ copySharedConfigFiles(e)
  BY <1>1, <1>6 DEF existsConfigFiles, createLocalSharedConfigDir,
                    copySharedConfigFiles
<1>7. CASE removeExisting(e)
  <2>1. forked'[f] = forked[f] /\ starting'[f] = starting[f]
    BY <1>7, ForkAfter DEF removeExisting
  <2> QED
    BY <1>1, <1>2, <1>7, <2>1 DEF removeExisting, removeContainer
<1>8. CASE poll(e) \/ stat(e)
  BY <1>1, <1>8 DEF poll, stat
<1>9. CASE prepareDisks(e)
  <2>1. forked'[f] = forked[f] /\ starting'[f] = starting[f]
    BY <1>9, ForkAfter DEF prepareDisks
  <2> QED
    BY <1>1, <1>9, <2>1 DEF prepareDisks
<1> QED
  BY <1>3, <1>4, <1>5, <1>6, <1>7, <1>8, <1>9 DEF StepOf, handler

(* So may the other steps.                                                 *)
LEMMA EnvironmentLeft ==
  ASSUME HostInv, NEW f \in Exec,
         \/ \E n \in Name : containerExits(n)
         \/ SchedulerStops
         \/ UNCHANGED vars
  PROVE  Left(f)
<1> USE DEF Left
<1>1. CASE \E n \in Name : containerExits(n)
  <2>1. PICK n \in Name : containerExits(n)
    BY <1>1
  <2>2. container'[name(f)] = f => container[name(f)] = f
    BY <2>1, RemoveOwned DEF containerExits, HostInv
  <2> QED
    BY <2>1, <2>2 DEF containerExits
<1> QED
  BY <1>1 DEF SchedulerStops, vars

(* Any step but its own leaves an executor so.                             *)
LEMMA NotMyStep ==
  ASSUME HostInv, [Next]_vars, NEW e \in Exec, ~ StepOf(e)
  PROVE  Left(e)
<1>1. CASE \E f \in Exec : StepOf(f)
  BY <1>1, OthersLeft
<1>2. CASE ~ \E f \in Exec : StepOf(f)
  BY <1>2, EnvironmentLeft DEF Next, StepOf
<1> QED
  BY <1>1, <1>2

(* Who sends an update, and when.                                          *)
LEMMA SentBy ==
  ASSUME HostInv, [Next]_vars, NEW e \in Exec, sent'[e] # sent[e]
  PROVE  \E u \in Update :
           /\ sent' = [sent EXCEPT ![e] = Append(@, u)]
           /\ \/ u = "TASK_FAILED" /\ createLocalSharedConfigDir(e)
                   /\ dir # "absent"
              \/ u = "TASK_FAILED" /\ copySharedConfigFiles(e)
                   /\ dir = "absent"
              \/ u = "TASK_STARTING" /\ removeExisting(e)
              \/ /\ u \in {"TASK_RUNNING", "TASK_FAILED"} /\ stat(e)
                 /\ u = "TASK_RUNNING" => container[name(e)] # NoExec
                 /\ u = "TASK_FAILED" =>
                      container[name(e)] = NoExec \/ faults' = faults + 1
              \/ u = "TASK_KILLED" /\ shutdown(e)
<1> USE DEF Update
<1>1. StepOf(e)
  BY NotMyStep DEF Left
<1>2. CASE createLocalSharedConfigDir(e)
  BY <1>2 DEF createLocalSharedConfigDir, sendStatusUpdate
<1>3. CASE copySharedConfigFiles(e)
  BY <1>3 DEF copySharedConfigFiles, sendStatusUpdate
<1>4. CASE removeExisting(e)
  BY <1>4 DEF removeExisting, sendStatusUpdate
<1>5. CASE stat(e)
  BY <1>5 DEF stat, sendStatusUpdate, Fault
<1>6. CASE shutdown(e)
  BY <1>6 DEF shutdown
<1>7. CASE \/ LaunchTask(e) \/ existsConfigFiles(e) \/ poll(e)
           \/ prepareDisks(e) \/ SendLaunchOSD(e) \/ LaunchOSD(e)
           \/ dockerRun(e) \/ dockerRunFails(e) \/ GraceExpires(e)
           \/ ExecutorDies(e)
  BY <1>7 DEF LaunchTask, existsConfigFiles, poll, prepareDisks,
     SendLaunchOSD, LaunchOSD, dockerRun, dockerRunFails, GraceExpires,
     ExecutorDies
<1> QED
  BY <1>1, <1>2, <1>3, <1>4, <1>5, <1>6, <1>7 DEF StepOf, handler

(* So an update that was not there before is the one just sent.            *)
LEMMA NewlySent ==
  ASSUME HostInv, [Next]_vars, NEW e \in Exec, NEW v, Sent(e, v)',
         ~ Sent(e, v)
  PROVE  \/ v = "TASK_FAILED" /\ createLocalSharedConfigDir(e)
              /\ dir # "absent"
         \/ v = "TASK_FAILED" /\ copySharedConfigFiles(e) /\ dir = "absent"
         \/ v = "TASK_STARTING" /\ removeExisting(e)
         \/ /\ v \in {"TASK_RUNNING", "TASK_FAILED"} /\ stat(e)
            /\ v = "TASK_RUNNING" => container[name(e)] # NoExec
            /\ v = "TASK_FAILED" =>
                 container[name(e)] = NoExec \/ faults' = faults + 1
         \/ v = "TASK_KILLED" /\ shutdown(e)
<1>1. sent'[e] # sent[e]
  BY DEF Sent
<1>2. ASSUME NEW u \in Update, sent' = [sent EXCEPT ![e] = Append(@, u)]
      PROVE  v = u
  BY <1>2, SendAfter DEF HostInv
<1> QED
  BY <1>1, <1>2, SentBy

(* An executor says TASK_RUNNING only while its own container runs, after  *)
(* every LAUNCH_OSD anew.                                                  *)
THEOREM RunningMeansContainer ==
  ASSUME DistinctNames PROVE Spec => RunningHasContainer
<1> DEFINE Owned ==
      \A e \in Exec : sent'[e] = Append(sent[e], "TASK_RUNNING")
                        => container[name(e)] = e
<1>1. HostInv /\ [Next]_vars => [Owned]_vars
  <2> SUFFICES ASSUME HostInv, Next, NEW e \in Exec,
                      sent'[e] = Append(sent[e], "TASK_RUNNING")
               PROVE  container[name(e)] = e
    OBVIOUS
  <2>1. /\ sent[e] \in Seq(Update) /\ Len(sent[e]) \in Nat
        /\ sent \in [Exec -> Seq(Update)] /\ "TASK_RUNNING" \in Update
    BY DEF HostInv, TypeOK, Update
  <2>2. Len(sent'[e]) = Len(sent[e]) + 1
    BY <2>1
  <2>3. PICK u \in Update :
          /\ sent' = [sent EXCEPT ![e] = Append(@, u)]
          /\ u = "TASK_RUNNING" => container[name(e)] # NoExec
    BY <2>1, <2>2, SentBy
  <2>4. Append(sent[e], u)[Len(sent[e]) + 1] = u
    BY <2>1
  <2>5. Append(sent[e], "TASK_RUNNING")[Len(sent[e]) + 1] = "TASK_RUNNING"
    BY <2>1
  <2>6. u = "TASK_RUNNING"
    BY <2>1, <2>3, <2>4, <2>5
  <2> QED
    BY <2>3, <2>6, OwnContainer
<1> QED
  BY <1>1, InitHost, NextHost, PTL DEF Spec, RunningHasContainer

-----------------------------------------------------------------------------
(* An executor between handlers whose only docker run it is has seen it    *)
(* succeed or end, unless another container answered for it; so shutdown,  *)
(* which removes the container, leaves nothing that could still start.     *)

Seen(e) ==
  exactName(e) /\ forked[e] <= 1 =>
    /\ pc[e] \in {"stat", "idle", "mount"} => starting[e] = 0
    /\ Sent(e, "TASK_KILLED") =>
         pc[e] = "gone" /\ starting[e] = 0 /\ container[name(e)] # e

ShutdownInv == HostInv /\ \A e \in Exec : Seen(e)

(* What the executor's own steps make of this.                             *)
LEMMA SeenStep ==
  ASSUME HostInv, DistinctNames, NEW e \in Exec, Seen(e), [Next]_vars,
         StepOf(e)
  PROVE  Seen(e)'
<1> SUFFICES ASSUME exactName(e), forked'[e] <= 1 PROVE Seen(e)'
  BY DEF Seen, exactName
<1> USE DEF HostInv, Goto, sendStatusUpdate, hostVars, Fault
<1>1. /\ pc \in [Exec -> Handling \cup {"new", "idle", "gone"}]
      /\ forked[e] \in Nat /\ starting[e] \in Nat
      /\ starting'[e] \in Nat /\ forked'[e] \in Nat
      /\ Order(e) /\ name(e) \in Name /\ e # NoExec
      /\ container \in [Name -> Exec \cup {NoExec}]
      /\ container[name(e)] = e => starting[e] < forked[e]
  BY NextHost, TaskFacts, ExecutorHostAssumption DEF TypeOK, ContainerOwned
<1>2. Sent(e, "TASK_KILLED")' => Sent(e, "TASK_KILLED") \/ shutdown(e)
  BY NewlySent
<1>3. forked[e] <= 1
  <2>1. CASE fork(e)
    BY <1>1, <2>1, ForkAfter
  <2>2. CASE ~ fork(e)
    <3>1. forked'[e] = forked[e]
      BY <2>2 DEF StepOf, handler, LaunchTask, SendLaunchOSD, LaunchOSD,
         GraceExpires, ExecutorDies, dockerRun, dockerRunFails, dockerGotTo,
         existsConfigFiles, createLocalSharedConfigDir, shutdown,
         copySharedConfigFiles, removeExisting, poll, stat, prepareDisks
    <3> QED
      BY <3>1
  <2> QED
    BY <2>1, <2>2
<1>4. /\ pc[e] \in {"stat", "idle", "mount"} => starting[e] = 0
      /\ Sent(e, "TASK_KILLED") =>
           pc[e] = "gone" /\ starting[e] = 0 /\ container[name(e)] # e
  BY <1>3 DEF Seen
<1> SUFFICES /\ pc'[e] \in {"stat", "idle", "mount"} => starting'[e] = 0
             /\ Sent(e, "TASK_KILLED") \/ shutdown(e) =>
                  /\ pc'[e] = "gone" /\ starting'[e] = 0
                  /\ container'[name(e)] # e
  BY <1>2 DEF Seen
<1>5. CASE shutdown(e)
  <2>1. pc[e] = "idle" /\ pc'[e] = "gone" /\ starting'[e] = starting[e]
    BY <1>1, <1>5 DEF shutdown
  <2>2. CASE named(e)
    BY <1>1, <1>4, <1>5, <2>1, <2>2 DEF shutdown, removeContainer
  <2>3. CASE ~ named(e)
    <3>1. forked[e] = 0 /\ container' = container
      BY <1>1, <1>5, <2>3 DEF shutdown, named
    <3> QED
      BY <1>1, <1>4, <2>1, <3>1
  <2> QED
    BY <2>2, <2>3
<1>6. CASE ~ shutdown(e) /\ Sent(e, "TASK_KILLED")
  <2>1. pc[e] = "gone" /\ ~ starting[e] > 0
    BY <1>4, <1>6
  <2>2. UNCHANGED <<pc, docker, container>>
    BY <1>6, <2>1 DEF StepOf, handler, LaunchTask, SendLaunchOSD, LaunchOSD,
       GraceExpires, ExecutorDies, dockerRun, dockerRunFails, dockerGotTo,
       existsConfigFiles, createLocalSharedConfigDir, copySharedConfigFiles,
       removeExisting, poll, stat, prepareDisks, Handling
  <2> QED
    BY <1>4, <1>6, <2>2
<1>7. CASE ~ shutdown(e) /\ ~ Sent(e, "TASK_KILLED")
  <2> SUFFICES pc'[e] \in {"stat", "idle", "mount"} => starting'[e] = 0
    BY <1>7
  <2>1. CASE poll(e)
    <3>1. container[name(e)] # NoExec
      BY <2>1 DEF poll, exactName
    <3>2. starting[e] < forked[e]
      BY <3>1, OwnContainer
    <3> QED
      BY <1>1, <1>3, <2>1, <3>2 DEF poll
  <2>2. CASE removeExisting(e)
    BY <1>1, <2>2 DEF removeExisting, Order
  <2>3. CASE LaunchTask(e) \/ SendLaunchOSD(e) \/ LaunchOSD(e)
               \/ GraceExpires(e) \/ ExecutorDies(e)
    BY <1>1, <1>4, <2>3 DEF LaunchTask, SendLaunchOSD, LaunchOSD,
       GraceExpires, ExecutorDies
  <2>4. CASE \/ existsConfigFiles(e) \/ createLocalSharedConfigDir(e)
             \/ copySharedConfigFiles(e) \/ stat(e) \/ prepareDisks(e)
    BY <1>1, <1>4, <2>4 DEF existsConfigFiles, createLocalSharedConfigDir,
       copySharedConfigFiles, stat, prepareDisks, Order, afterMkdir
  <2>5. CASE dockerRun(e) \/ dockerRunFails(e)
    <3>1. pc'[e] = pc[e] /\ starting[e] > 0
      BY <2>5 DEF dockerRun, dockerRunFails, dockerGotTo
    <3> QED
      BY <1>4, <3>1
  <2> QED
    BY <1>7, <2>1, <2>2, <2>3, <2>4, <2>5 DEF StepOf, handler
<1> QED
  BY <1>5, <1>6, <1>7

(* A step that takes its container away at most leaves it as it is.        *)
LEMMA SeenKept ==
  ASSUME NEW e \in Exec, Seen(e), Left(e)
  PROVE  Seen(e)'
<1>1. /\ pc'[e] = pc[e] /\ (Sent(e, "TASK_KILLED")' <=> Sent(e, "TASK_KILLED"))
      /\ forked'[e] = forked[e] /\ starting'[e] = starting[e]
      /\ container'[name(e)] = e => container[name(e)] = e
  BY DEF Left, Sent
<1> QED
  BY <1>1 DEF Seen, exactName

(* An executor that was shut down leaves no container, however slow its    *)
(* docker run was and whatever failed: one that comes up afterwards was    *)
(* forked for a further LAUNCH_OSD.                                        *)
THEOREM ShutdownLeavesNothing ==
  ASSUME DistinctNames PROVE Spec => []ShutdownRemoves
<1>1. Init => ShutdownInv
  BY InitHost, NothingSent DEF Init, ShutdownInv, Seen
<1>2. ShutdownInv /\ [Next]_vars => ShutdownInv'
  <2> SUFFICES ASSUME ShutdownInv, [Next]_vars PROVE ShutdownInv'
    OBVIOUS
  <2>1. HostInv /\ HostInv'
    BY NextHost DEF ShutdownInv
  <2>2. ASSUME NEW e \in Exec PROVE Seen(e)'
    <3>1. Seen(e)
      BY DEF ShutdownInv
    <3>2. CASE StepOf(e)
      BY <2>1, <3>1, <3>2, SeenStep
    <3>3. CASE ~ StepOf(e)
      BY <2>1, <3>1, <3>3, NotMyStep, SeenKept
    <3> QED
      BY <3>2, <3>3
  <2> QED
    BY <2>1, <2>2 DEF ShutdownInv
<1>3. ShutdownInv => ShutdownRemoves
  <2> SUFFICES ASSUME ShutdownInv, NEW e \in Exec, exactName(e),
                      Sent(e, "TASK_KILLED"), container[name(e)] = e
               PROVE  forked[e] > 1
    BY DEF ShutdownRemoves
  <2>1. Seen(e) /\ forked[e] \in Nat
    BY DEF ShutdownInv, HostInv, TypeOK
  <2> QED
    BY <2>1 DEF Seen
<1> QED
  BY <1>1, <1>2, <1>3, PTL DEF Spec

-----------------------------------------------------------------------------
(* The first run on the host of its MONs, as long as nothing fails.  The   *)
(* initial MON makes the directory before any other task looks for it, and *)
(* its container fills it.                                                 *)

Calm == faults = 0 /\ run = 1 /\ monHere

(* A run has one initial task.                                             *)
OneInitial ==
  \A e, f \in Exec :
    Task[e].initial /\ Task[f].initial /\ Task[e].run = Task[f].run => e = f

(* A MON whose container runs or ran has filled the directory.             *)
MonFillsDir ==
  \A m \in Exec :
    Task[m].type = "MON" /\ (container[name(m)] = m \/ Sent(m, "TASK_RUNNING"))
      => dir = "full"

InitialFirst(e) ==
  Task[e].initial =>
    /\ pc[e] = "new" /\ Task[e].run = 1 => \A f \in Exec : pc[f] = "new"
    /\ pc[e] \in {"exists", "mkdir"} =>
         dir = "absent" /\ \A f \in Exec : f # e => pc[f] = "new"
    /\ pc[e] # "copy"

FindsFiles(e) ==
  ~ Task[e].initial => pc[e] # "mkdir" /\ (pc[e] # "new" => dir = "full")

Unfailed(e) ==
  exactName(e) => /\ pc[e] = "stat" => container[name(e)] = e
                  /\ ~ Sent(e, "TASK_FAILED")

CalmHost ==
  /\ MonFillsDir
  /\ \A e \in Exec : InitialFirst(e) /\ FindsFiles(e) /\ Unfailed(e)

CalmInv == HostInv /\ (Calm => CalmHost)

(* Nothing has failed before, and no executor of the first run is shut     *)
(* down.                                                                   *)
LEMMA CalmBefore ==
  ASSUME HostInv, [Next]_vars, Calm'
  PROVE  /\ Calm /\ UNCHANGED <<faults, run, monHere>>
         /\ \A e \in Exec : ~ shutdown(e) /\ ~ GraceExpires(e)
                              /\ ~ dockerRunFails(e) /\ ~ ExecutorDies(e)
         /\ \A n \in Name : ~ containerExits(n)
<1>1. faults \in Nat /\ run \in Nat /\ monHere \in BOOLEAN /\ run # 0
  BY ExecutorHostAssumption DEF HostInv, TypeOK
<1>2. \A kind : ~ Fault(kind)
  BY <1>1 DEF Fault, Calm
<1>3. ~ SchedulerStops
  <2>1. run' = 1
    BY DEF Calm
  <2>2. SchedulerStops => run' = run + 1
    BY DEF SchedulerStops
  <2> QED
    BY <1>1, <2>1, <2>2
<1>4. UNCHANGED <<faults, run, monHere>>
  BY <1>2, <1>3 DEF Next, handler, LaunchTask, existsConfigFiles,
     createLocalSharedConfigDir, copySharedConfigFiles, removeExisting,
     poll, stat, SendLaunchOSD, LaunchOSD, prepareDisks, dockerRun,
     dockerRunFails, containerExits, shutdown, GraceExpires, ExecutorDies,
     hostVars, vars
<1>5. \A e \in Exec : pc[e] # "new" => ~ Task[e].run < run
  BY <1>1, <1>4, TaskFacts DEF HostInv, Order, Calm
<1> QED
  BY <1>2, <1>4, <1>5 DEF Calm, shutdown, GraceExpires, dockerRunFails,
     ExecutorDies, containerExits, Handling

(* Who is launched first, and after whom.                                  *)
LEMMA CalmLaunch ==
  ASSUME HostInv, Calm, CalmHost, OneInitial, NEW e \in Exec, LaunchTask(e)
  PROVE  /\ Task[e].run = 1
         /\ Task[e].initial => \A f \in Exec : pc[f] = "new"
         /\ ~ Task[e].initial =>
              \E m \in Exec : /\ Task[m].type = "MON"
                              /\ Sent(m, "TASK_RUNNING")
                              /\ pc[m] \notin {"new", "exists", "mkdir"}
<1>1. pc[e] = "new" /\ Task[e].run = 1 /\ fetched(e)
  BY DEF LaunchTask, Calm
<1>2. Task[e].initial => \A f \in Exec : pc[f] = "new"
  BY <1>1 DEF CalmHost, InitialFirst
<1>3. ASSUME ~ Task[e].initial
      PROVE  \E m \in Exec : /\ Task[m].type = "MON"
                             /\ Sent(m, "TASK_RUNNING")
                             /\ pc[m] \notin {"new", "exists", "mkdir"}
  <2>1. PICK m \in Exec : Task[m].type = "MON" /\ Sent(m, "TASK_RUNNING")
    BY <1>1, <1>3 DEF fetched, Calm
  <2>2. sent[m] # << >> /\ Order(m)
    BY <2>1, NothingSent DEF HostInv
  <2> QED
    BY <2>1, <2>2 DEF Order
<1> QED
  BY <1>1, <1>2, <1>3

(* Once the directory is full, only an initial MON that is launched        *)
(* deletes it, and then nothing else has been launched.                    *)
LEMMA CalmDir ==
  ASSUME HostInv, CalmHost, OneInitial, [Next]_vars, Calm'
  PROVE  dir = "full" =>
           \/ dir' = "full"
           \/ \A f \in Exec : pc[f] = "new"
<1>1. Calm
  BY CalmBefore
<1>2. CASE \E e \in Exec : LaunchTask(e)
  BY <1>1, <1>2, CalmLaunch DEF LaunchTask
<1>3. CASE ~ \E e \in Exec : LaunchTask(e)
  BY <1>3 DEF Next, handler, existsConfigFiles,
     createLocalSharedConfigDir, copySharedConfigFiles, removeExisting,
     poll, stat, SendLaunchOSD, LaunchOSD, prepareDisks, dockerRun,
     dockerRunFails, containerExits, shutdown, GraceExpires, ExecutorDies,
     SchedulerStops, hostVars, vars
<1> QED
  BY <1>2, <1>3

(* Where a step takes an executor to.                                      *)
LEMMA CalmMoves ==
  ASSUME HostInv, [Next]_vars, Calm', NEW e \in Exec
  PROVE  /\ pc'[e] = "new" => pc[e] = "new"
         /\ pc[e] = "new" /\ pc'[e] # "new" => LaunchTask(e)
         /\ pc'[e] = "exists" => pc[e] = "exists" \/ LaunchTask(e)
         /\ pc'[e] \in {"mkdir", "copy"} =>
              \/ pc[e] = pc'[e]
              \/ existsConfigFiles(e)
              \/ createLocalSharedConfigDir(e)
         /\ pc'[e] = "stat" => pc[e] = "stat" \/ poll(e)
         /\ container'[name(e)] = e =>
              container[name(e)] = e \/ (dockerRun(e) /\ UNCHANGED sent)
<1> USE DEF Goto, sendStatusUpdate
<1>1. /\ pc \in [Exec -> Handling \cup {"new", "idle", "gone"}]
      /\ container \in [Name -> Exec \cup {NoExec}]
      /\ name(e) \in Name /\ e # NoExec
  BY TaskFacts, ExecutorHostAssumption DEF HostInv, TypeOK
<1>2. CASE ~ StepOf(e)
  BY <1>2, NotMyStep DEF Left
<1>3. CASE LaunchTask(e)
  BY <1>1, <1>3 DEF LaunchTask
<1>4. CASE existsConfigFiles(e) \/ createLocalSharedConfigDir(e)
             \/ copySharedConfigFiles(e)
  BY <1>1, <1>4 DEF existsConfigFiles, createLocalSharedConfigDir,
     copySharedConfigFiles, afterMkdir, hostVars
<1>5. CASE removeExisting(e)
  BY <1>1, <1>5 DEF removeExisting, removeContainer
<1>6. CASE poll(e) \/ stat(e) \/ prepareDisks(e)
  BY <1>1, <1>6 DEF poll, stat, prepareDisks, hostVars
<1>7. CASE SendLaunchOSD(e) \/ LaunchOSD(e) \/ dockerRun(e)
  BY <1>1, <1>7 DEF SendLaunchOSD, LaunchOSD, dockerRun, hostVars
<1> QED
  BY <1>2, <1>3, <1>4, <1>5, <1>6, <1>7, CalmBefore DEF StepOf, handler

(* The directory stays full while a MON runs.                              *)
LEMMA MonFillsNext ==
  ASSUME HostInv, CalmHost, OneInitial, DistinctNames, [Next]_vars, Calm'
  PROVE  MonFillsDir'
<1> SUFFICES ASSUME NEW m \in Exec, Task[m].type = "MON",
                    container'[name(m)] = m \/ Sent(m, "TASK_RUNNING")'
             PROVE  dir' = "full"
  BY DEF MonFillsDir, name
<1>1. /\ Order(m) /\ starting[m] \in Nat
      /\ container[name(m)] = m => starting[m] < forked[m]
  BY DEF HostInv, TypeOK, ContainerOwned
<1>2. CASE container[name(m)] = m \/ Sent(m, "TASK_RUNNING")
  <2>1. dir = "full" /\ pc[m] # "new"
    BY <1>1, <1>2, NothingSent DEF CalmHost, MonFillsDir, Order
  <2> QED
    BY <2>1, CalmDir
<1>3. CASE container[name(m)] # m /\ container'[name(m)] = m
  <2>1. dockerRun(m)
    BY <1>3, CalmMoves
  <2> QED
    BY <1>3, <2>1 DEF dockerRun
<1>4. CASE ~ Sent(m, "TASK_RUNNING") /\ Sent(m, "TASK_RUNNING")'
  <2>1. stat(m) /\ container[name(m)] # NoExec
    BY <1>4, NewlySent
  <2>2. dir = "full"
    BY <2>1, OwnContainer DEF CalmHost, MonFillsDir
  <2> QED
    BY <2>1, <2>2 DEF stat, hostVars
<1> QED
  BY <1>2, <1>3, <1>4

(* The initial task stays ahead of the others.                             *)
LEMMA InitialFirstNext ==
  ASSUME HostInv, CalmHost, OneInitial, [Next]_vars, Calm', NEW e \in Exec
  PROVE  InitialFirst(e)'
<1> SUFFICES ASSUME Task[e].initial PROVE InitialFirst(e)'
  BY DEF InitialFirst
<1>0. Calm /\ InitialFirst(e) /\ Order(e) /\ Task[e].run \in Nat
  BY CalmBefore, TaskFacts DEF CalmHost, HostInv
<1>1. ASSUME pc'[e] = "new", Task[e].run = 1, NEW f \in Exec
      PROVE  pc'[f] = "new"
  <2>1. \A k \in Exec : pc[k] = "new"
    BY <1>0, <1>1, CalmMoves DEF InitialFirst
  <2>2. ~ LaunchTask(f)
    <3> SUFFICES ASSUME LaunchTask(f) PROVE FALSE
      OBVIOUS
    <3>1. Task[f].initial /\ Task[f].run = 1
      BY <1>0, <2>1, CalmLaunch
    <3>2. f = e
      BY <1>1, <3>1 DEF OneInitial
    <3> QED
      BY <1>1, <3>2 DEF LaunchTask, Goto, HostInv, TypeOK
  <2> QED
    BY <2>1, <2>2, CalmMoves
<1>2. ASSUME pc'[e] \in {"exists", "mkdir"}
      PROVE  dir' = "absent" /\ \A f \in Exec : f # e => pc'[f] = "new"
  <2>1. CASE LaunchTask(e)
    <3>1. \A f \in Exec : pc[f] = "new"
      BY <1>0, <2>1, CalmLaunch
    <3> QED
      BY <2>1, <3>1 DEF LaunchTask, Goto
  <2>2. CASE ~ LaunchTask(e)
    <3>1. pc[e] \in {"exists", "mkdir"}
      BY <1>2, <2>2, CalmMoves
         DEF existsConfigFiles, createLocalSharedConfigDir
    <3>2. /\ dir = "absent" /\ \A f \in Exec : f # e => pc[f] = "new"
          /\ Task[e].run = 1
      BY <1>0, <3>1 DEF InitialFirst, Order, Calm
    <3>3. ASSUME NEW f \in Exec PROVE ~ LaunchTask(f)
      BY <1>0, <2>2, <3>1, <3>2, CalmLaunch DEF OneInitial
    <3>4. \A f \in Exec : f # e => pc'[f] = "new"
      BY <3>2, <3>3, CalmMoves
    <3>5. ASSUME NEW f \in Exec PROVE ~ starting[f] > 0
      <4>1. Order(f) /\ starting[f] \in Nat
        BY DEF HostInv, TypeOK
      <4> QED
        BY <3>1, <3>2, <4>1 DEF Order
    <3>6. dir' = "absent"
      <4>1. CASE createLocalSharedConfigDir(e)
        BY <1>0, <1>2, <3>2, <4>1
           DEF createLocalSharedConfigDir, Goto, afterMkdir, HostInv, TypeOK
      <4>2. CASE existsConfigFiles(e)
        BY <3>2, <4>2 DEF existsConfigFiles, hostVars
      <4>3. CASE \/ \E f \in Exec :
                      \/ copySharedConfigFiles(f)
                      \/ createLocalSharedConfigDir(f) /\ f # e
                      \/ existsConfigFiles(f) /\ f # e
                      \/ prepareDisks(f)
                      \/ dockerRun(f)
        BY <3>1, <3>2, <3>5, <4>3 DEF copySharedConfigFiles, prepareDisks,
           createLocalSharedConfigDir, existsConfigFiles, dockerRun,
           dockerGotTo
      <4>4. CASE \/ \E f \in Exec : \/ removeExisting(f) \/ poll(f)
                                    \/ stat(f) \/ SendLaunchOSD(f)
                                    \/ LaunchOSD(f) \/ dockerRunFails(f)
                                    \/ shutdown(f) \/ GraceExpires(f)
                                    \/ ExecutorDies(f)
                 \/ \E n \in Name : containerExits(n)
                 \/ SchedulerStops
                 \/ UNCHANGED vars
        BY <3>2, <4>4 DEF removeExisting, poll, stat, SendLaunchOSD,
           LaunchOSD, dockerRunFails, shutdown, GraceExpires, ExecutorDies,
           containerExits, SchedulerStops, hostVars, vars
      <4> QED
        BY <3>3, <4>1, <4>2, <4>3, <4>4 DEF Next, handler
    <3> QED
      BY <3>4, <3>6
  <2> QED
    BY <2>1, <2>2
<1>3. pc'[e] # "copy"
  BY <1>0, CalmMoves DEF InitialFirst, existsConfigFiles, Goto, HostInv,
     createLocalSharedConfigDir, sendStatusUpdate, afterMkdir, TypeOK
<1> QED
  BY <1>1, <1>2, <1>3 DEF InitialFirst

(* The others find the files there.                                        *)
LEMMA FindsFilesNext ==
  ASSUME HostInv, CalmHost, OneInitial, [Next]_vars, Calm', NEW e \in Exec
  PROVE  FindsFiles(e)'
<1> SUFFICES ASSUME ~ Task[e].initial PROVE FindsFiles(e)'
  BY DEF FindsFiles
<1>1. Calm /\ FindsFiles(e)
  BY CalmBefore DEF CalmHost
<1>2. CASE pc[e] = "new"
  <2>1. CASE pc'[e] = "new"
    BY <2>1 DEF FindsFiles
  <2>2. CASE pc'[e] # "new"
    <3>1. LaunchTask(e)
      BY <1>2, <2>2, CalmMoves
    <3>2. dir = "full"
      BY <1>1, <3>1, CalmLaunch DEF CalmHost, MonFillsDir
    <3> QED
      BY <3>1, <3>2 DEF LaunchTask, FindsFiles, Goto, HostInv, TypeOK
  <2> QED
    BY <2>1, <2>2
<1>3. CASE pc[e] # "new"
  <2>1. dir = "full" /\ pc[e] # "mkdir"
    BY <1>1, <1>3 DEF FindsFiles
  <2>2. dir' = "full"
    BY <1>3, <2>1, CalmDir
  <2>3. pc'[e] # "mkdir"
    BY <2>1, CalmMoves DEF existsConfigFiles, createLocalSharedConfigDir,
       Goto, afterMkdir, HostInv, TypeOK
  <2> QED
    BY <2>2, <2>3 DEF FindsFiles
<1> QED
  BY <1>2, <1>3

(* None of them fails.                                                     *)
LEMMA UnfailedNext ==
  ASSUME HostInv, CalmHost, OneInitial, DistinctNames, [Next]_vars, Calm',
         NEW e \in Exec
  PROVE  Unfailed(e)'
<1> SUFFICES ASSUME exactName(e) PROVE Unfailed(e)'
  BY DEF Unfailed, exactName
<1>1. Unfailed(e) /\ InitialFirst(e) /\ FindsFiles(e)
  BY DEF CalmHost
<1>2. ASSUME pc'[e] = "stat" PROVE container'[name(e)] = e
  <2>1. container[name(e)] = e
    <3>1. CASE pc[e] = "stat"
      BY <1>1, <3>1 DEF Unfailed
    <3>2. CASE poll(e)
      BY <3>2, OwnContainer DEF poll, exactName
    <3> QED
      BY <1>2, <3>1, <3>2, CalmMoves
  <2>2. pc[e] \in {"poll", "stat"}
    BY <1>2, CalmMoves DEF poll
  <2>3. /\ container \in [Name -> Exec \cup {NoExec}]
        /\ \A f \in Exec : name(f) \in Name /\ f # NoExec
    BY TaskFacts, ExecutorHostAssumption DEF HostInv, TypeOK
  <2>4. CASE \E f \in Exec : removeExisting(f)
    <3>1. PICK f \in Exec : removeExisting(f)
      BY <2>4
    <3>2. name(f) # name(e)
      BY <2>2, <3>1 DEF removeExisting, DistinctNames
    <3> QED
      BY <2>1, <2>3, <3>1, <3>2 DEF removeExisting, removeContainer
  <2>5. CASE \E f \in Exec : dockerRun(f)
    BY <2>1, <2>3, <2>5 DEF dockerRun
  <2>6. CASE ~ \E f \in Exec : removeExisting(f) \/ dockerRun(f)
    <3>1. UNCHANGED container
      BY <2>6, CalmBefore DEF Next, handler, LaunchTask, existsConfigFiles,
         createLocalSharedConfigDir, poll, stat, copySharedConfigFiles,
         SendLaunchOSD, LaunchOSD, prepareDisks, SchedulerStops, hostVars,
         vars
    <3> QED
      BY <2>1, <3>1
  <2> QED
    BY <2>4, <2>5, <2>6
<1>3. ~ Sent(e, "TASK_FAILED")'
  <2> SUFFICES ASSUME Sent(e, "TASK_FAILED")' PROVE FALSE
    OBVIOUS
  <2>1. ~ Sent(e, "TASK_FAILED")
    BY <1>1 DEF Unfailed
  <2>2. CASE createLocalSharedConfigDir(e) /\ dir # "absent"
    BY <1>1, <2>2 DEF createLocalSharedConfigDir, InitialFirst, FindsFiles
  <2>3. CASE copySharedConfigFiles(e) /\ dir = "absent"
    BY <1>1, <2>3 DEF copySharedConfigFiles, InitialFirst, FindsFiles
  <2>4. CASE stat(e) /\ (container[name(e)] = NoExec \/ faults' = faults + 1)
    <3>1. container[name(e)] = e /\ e # NoExec
      BY <1>1, <2>4, ExecutorHostAssumption DEF stat, Unfailed
    <3>2. faults' = faults /\ faults = 0
      BY CalmBefore DEF Calm
    <3> QED
      BY <2>4, <3>1, <3>2
  <2> QED
    BY <2>1, <2>2, <2>3, <2>4, NewlySent
<1> QED
  BY <1>2, <1>3 DEF Unfailed

(* Without a fault no task of the first run fails on the host of its MONs, *)
(* however many executors there are and however their commands interleave. *)
THEOREM NothingFailsByItself ==
  ASSUME DistinctNames, OneInitial PROVE Spec => []NoFaultNoFailure
<1>1. Init => CalmInv
  <2> SUFFICES ASSUME Init PROVE CalmInv
    OBVIOUS
  <2>1. \A e \in Exec : /\ pc[e] = "new" /\ sent[e] = << >>
                        /\ container[name(e)] # e
    BY TaskFacts, ExecutorHostAssumption DEF Init
  <2>2. \A e \in Exec : \A u : ~ Sent(e, u)
    BY <2>1, NothingSent
  <2> QED
    BY <2>1, <2>2, InitHost DEF CalmInv, CalmHost, MonFillsDir, InitialFirst,
       FindsFiles, Unfailed
<1>2. CalmInv /\ [Next]_vars => CalmInv'
  <2> SUFFICES ASSUME CalmInv, [Next]_vars, Calm' PROVE CalmHost'
    BY NextHost DEF CalmInv
  <2>1. HostInv /\ CalmHost
    BY CalmBefore DEF CalmInv
  <2>2. MonFillsDir'
    BY <2>1, MonFillsNext
  <2>3. ASSUME NEW e \in Exec
        PROVE  InitialFirst(e)' /\ FindsFiles(e)' /\ Unfailed(e)'
    BY <2>1, InitialFirstNext, FindsFilesNext, UnfailedNext
  <2> QED
    BY <2>2, <2>3 DEF CalmHost
<1>3. CalmInv => NoFaultNoFailure
  BY DEF CalmInv, Calm, CalmHost, Unfailed, NoFaultNoFailure
<1> QED
  BY <1>1, <1>2, <1>3, PTL DEF Spec

-----------------------------------------------------------------------------
(* What Mesos forwards of a sequence of updates.                           *)

IsLast(s, n) ==
  /\ n \in 0 .. Len(s)
  /\ forwards(s, n)
  /\ n < Len(s) => ~ forwards(s, n + 1)

(* There is one last update at most.                                       *)
LEMMA LastIs ==
  ASSUME NEW s \in Seq(Update), NEW n, IsLast(s, n)
  PROVE  lastForwarded(s) = n
<1>1. n \in Nat /\ Len(s) \in Nat /\ n <= Len(s)
  BY DEF IsLast
<1>2. PICK m : m = lastForwarded(s)
  OBVIOUS
<1>3. /\ m \in 0 .. Len(s) /\ forwards(s, m)
      /\ m < Len(s) => ~ forwards(s, m + 1)
  BY <1>2 DEF IsLast, lastForwarded
<1>4. ASSUME NEW i \in Nat, NEW j \in Nat, i < j, forwards(s, j)
      PROVE  forwards(s, i + 1)
  BY <1>4 DEF forwards
<1>5. ~ m < n
  BY <1>1, <1>3, <1>4 DEF IsLast
<1>6. ~ n < m
  BY <1>1, <1>3, <1>4 DEF IsLast
<1> QED
  BY <1>1, <1>2, <1>3, <1>5, <1>6

(* Another update is forwarded, unless the task was over or it is the last *)
(* one of all.                                                             *)
LEMMA LastAfter ==
  ASSUME NEW s \in Seq(Update), NEW u \in Update, NEW n, IsLast(s, n),
         NEW over \in BOOLEAN,
         over <=> \/ u = "TASK_KILLED"
                  \/ \E i \in 1 .. Len(s) :
                       s[i] \in {"TASK_FAILED", "TASK_KILLED"}
  PROVE  /\ ~ over => n = Len(s) /\ IsLast(Append(s, u), n + 1)
         /\ over => IsLast(Append(s, u), n)
<1> DEFINE r == Append(s, u)
<1>1. /\ n \in Nat /\ Len(s) \in Nat /\ n <= Len(s) /\ Len(r) = Len(s) + 1
      /\ r[Len(s) + 1] = u
      /\ \A i \in 1 .. Len(s) : r[i] = s[i]
  BY DEF IsLast
<1> HIDE DEF r
<1>2. CASE ~ over
  <2>1. \A i \in 1 .. Len(s) : s[i] # "TASK_FAILED" /\ s[i] # "TASK_KILLED"
    BY <1>2
  <2>2. n = Len(s)
    <3> SUFFICES ASSUME n < Len(s) PROVE forwards(s, n + 1)
      BY <1>1 DEF IsLast
    <3> QED
      BY <1>1, <2>1 DEF forwards
  <2>3. forwards(r, n + 1)
    <3>1. ASSUME NEW i \in 1 .. n + 1 PROVE r[i] # "TASK_KILLED"
      <4>1. i \in 1 .. Len(s) \/ i = Len(s) + 1
        BY <1>1, <2>2
      <4> QED
        BY <1>1, <1>2, <2>1, <4>1
    <3>2. ASSUME NEW i \in 1 .. (n + 1) - 1 PROVE r[i] # "TASK_FAILED"
      BY <1>1, <2>1, <2>2
    <3> QED
      BY <3>1, <3>2 DEF forwards
  <2> QED
    BY <1>1, <1>2, <2>2, <2>3 DEF IsLast, r
<1>3. CASE over
  <2>1. forwards(r, n)
    BY <1>1 DEF IsLast, forwards
  <2>2. ~ forwards(r, n + 1)
    <3> SUFFICES ASSUME forwards(r, n + 1) PROVE FALSE
      OBVIOUS
    <3>1. CASE n < Len(s)
      <4>1. forwards(s, n + 1)
        BY <1>1, <3>1 DEF forwards
      <4> QED
        BY <3>1, <4>1 DEF IsLast
    <3>2. CASE n = Len(s)
      <4>1. u # "TASK_KILLED"
        BY <1>1, <3>2 DEF forwards
      <4>2. PICK i \in 1 .. Len(s) : s[i] \in {"TASK_FAILED", "TASK_KILLED"}
        BY <1>3, <4>1
      <4>3. i \in 1 .. n + 1 /\ i \in 1 .. (n + 1) - 1 /\ r[i] = s[i]
        BY <1>1, <3>2
      <4> QED
        BY <4>2, <4>3 DEF forwards
    <3> QED
      BY <1>1, <3>1, <3>2
  <2> QED
    BY <1>1, <1>3, <2>1, <2>2 DEF IsLast, r
<1> QED
  BY <1>2, <1>3

(* The last update of an executor that Mesos forwards is known, and it has *)
(* not answered more than it was asked.                                    *)
Told(e) ==
  /\ \E n : IsLast(sent[e], n)
  /\ Len(answers[e]) <= asked[e] + 1

(* An executor that sends nothing has answered what it had.                *)
LEMMA SameAnswers ==
  ASSUME NEW f \in Exec, sent'[f] = sent[f]
  PROVE  answers'[f] = answers[f]
<1>1. /\ answers[f] = SubSeq(sent[f], 1, lastForwarded(sent[f]))
      /\ answers'[f] = SubSeq(sent'[f], 1, lastForwarded(sent'[f]))
  BY DEF answers, lastForwarded
<1> QED
  BY <1>1

(* What an update adds to the answers of its executor.                     *)
LEMMA Answered ==
  ASSUME TypeOK, NEW e \in Exec, Told(e), NEW u \in Update,
         sent' = [sent EXCEPT ![e] = Append(@, u)]
  PROVE  /\ \E n : IsLast(sent'[e], n)
         /\ \/ /\ u # "TASK_KILLED" /\ ~ Sent(e, "TASK_FAILED")
               /\ ~ Sent(e, "TASK_KILLED")
               /\ answers[e] = sent[e]
               /\ answers'[e] = Append(answers[e], u)
            \/ /\ \/ u = "TASK_KILLED" \/ Sent(e, "TASK_FAILED")
                  \/ Sent(e, "TASK_KILLED")
               /\ answers'[e] = answers[e]
<1>1. /\ sent[e] \in Seq(Update) /\ sent'[e] = Append(sent[e], u)
      /\ sent'[e] \in Seq(Update) /\ Len(sent[e]) \in Nat
  BY DEF TypeOK
<1>2. PICK n : IsLast(sent[e], n)
  BY DEF Told
<1>3. n \in Nat /\ n <= Len(sent[e])
  BY <1>1, <1>2 DEF IsLast
<1>4. /\ answers[e] = SubSeq(sent[e], 1, lastForwarded(sent[e]))
      /\ answers'[e] = SubSeq(sent'[e], 1, lastForwarded(sent'[e]))
  BY DEF answers, lastForwarded
<1>5. lastForwarded(sent[e]) = n
  BY <1>1, <1>2, LastIs
<1>6. PICK over \in BOOLEAN :
        over <=> \/ u = "TASK_KILLED"
                 \/ \E i \in 1 .. Len(sent[e]) :
                      sent[e][i] \in {"TASK_FAILED", "TASK_KILLED"}
  OBVIOUS
<1>7. /\ ~ over => n = Len(sent[e]) /\ IsLast(sent'[e], n + 1)
      /\ over => IsLast(sent'[e], n)
  BY <1>1, <1>2, <1>6, LastAfter
<1>8. over <=> \/ u = "TASK_KILLED" \/ Sent(e, "TASK_FAILED")
               \/ Sent(e, "TASK_KILLED")
  <2>1. DOMAIN sent[e] = 1 .. Len(sent[e])
    BY <1>1
  <2> QED
    BY <1>6, <2>1 DEF Sent, Range
<1>9. CASE ~ over
  <2>1. lastForwarded(sent'[e]) = n + 1
    BY <1>1, <1>7, <1>9, LastIs
  <2>2. n = Len(sent[e]) /\ Len(sent'[e]) = n + 1
    BY <1>1, <1>7, <1>9
  <2>3. answers[e] = sent[e]
    BY <1>1, <1>4, <1>5, <2>2
  <2>4. answers'[e] = sent'[e]
    BY <1>1, <1>3, <1>4, <2>1, <2>2
  <2> QED
    BY <1>1, <1>7, <1>8, <1>9, <2>3, <2>4
<1>10. CASE over
  <2>1. lastForwarded(sent'[e]) = n
    BY <1>1, <1>7, <1>10, LastIs
  <2>2. SubSeq(Append(sent[e], u), 1, n) = SubSeq(sent[e], 1, n)
    BY <1>1, <1>3
  <2> QED
    BY <1>1, <1>4, <1>5, <1>7, <1>8, <1>10, <2>1, <2>2
<1> QED
  BY <1>9, <1>10

-----------------------------------------------------------------------------
(* A handler with all its commands is one step of module CephExecutor.     *)
(* First, what its updates and its docker runs say of where an executor    *)
(* is.                                                                     *)

(* A MON of this host has come up, unless there is no need of one.         *)
mayFetch(e) ==
  \/ Task[e].initial
  \/ ~ monHere
  \/ \E m \in Exec : Task[m].type = "MON" /\ Sent(m, "TASK_RUNNING")

(* An OSD has forked docker run for some of the LAUNCH_OSD it was sent and *)
(* answered all of these, but for the one it is at; the others do so once. *)
Life(e) ==
  /\ pc[e] # "new" => mayFetch(e)
  /\ pc[e] = "mount" => Sent(e, "TASK_STARTING") /\ forked[e] < asked[e]
  /\ pc[e] \in {"poll", "stat"} =>
       IF Task[e].type = "OSD" THEN Sent(e, "TASK_STARTING")
       ELSE sent[e] = << >>
  /\ asked[e] > 0 => Sent(e, "TASK_STARTING")
  /\ Sent(e, "TASK_STARTING") =>
       /\ Task[e].type = "OSD"
       /\ pc[e] \in {"poll", "stat"} => Len(sent[e]) = forked[e]
       /\ pc[e] \in {"idle", "mount"} => Len(sent[e]) = forked[e] + 1
  /\ Task[e].type = "OSD" => forked[e] <= asked[e]
  /\ Task[e].type # "OSD" =>
       /\ forked[e] <= 1
       /\ ~ (Sent(e, "TASK_RUNNING") /\ Sent(e, "TASK_FAILED"))
  /\ Sent(e, "TASK_RUNNING") =>
       /\ forked[e] > 0
       /\ forked[e] = 1 => starting[e] = 0
  /\ Sent(e, "TASK_KILLED") => pc[e] = "gone"

LifeInv == HostInv /\ \A e \in Exec : Life(e) /\ Told(e)

(* Updates are not taken back, and the MONs stay where they are.           *)
LEMMA SentStays ==
  ASSUME HostInv, [Next]_vars, NEW e \in Exec
  PROVE  /\ monHere' = monHere
         /\ \A v : Sent(e, v) => Sent(e, v)'
         /\ mayFetch(e) => mayFetch(e)'
<1> USE DEF HostInv
<1>1. monHere' = monHere
  BY DEF Next, handler, LaunchTask, existsConfigFiles,
         createLocalSharedConfigDir, copySharedConfigFiles, removeExisting,
         poll, stat, SendLaunchOSD, LaunchOSD, hostVars, prepareDisks,
         dockerRun, dockerRunFails, containerExits, SchedulerStops, shutdown,
         GraceExpires, ExecutorDies, vars
<1>2. ASSUME NEW f \in Exec, NEW v, Sent(f, v) PROVE Sent(f, v)'
  <2>1. CASE sent'[f] = sent[f]
    BY <1>2, <2>1 DEF Sent
  <2>2. CASE sent'[f] # sent[f]
    <3>1. PICK u \in Update : sent' = [sent EXCEPT ![f] = Append(@, u)]
      BY <2>2, SentBy
    <3> QED
      BY <1>2, <3>1, SendAfter
  <2> QED
    BY <2>1, <2>2
<1> QED
  BY <1>1, <1>2 DEF mayFetch

(* LAUNCH_OSD is sent to one executor at a time.                           *)
LEMMA AskedBy ==
  ASSUME TypeOK, [Next]_vars, NEW e \in Exec, ~ SendLaunchOSD(e)
  PROVE  asked'[e] = asked[e]
<1>1. CASE \E f \in Exec : SendLaunchOSD(f)
  BY <1>1 DEF SendLaunchOSD, TypeOK
<1>2. CASE ~ \E f \in Exec : SendLaunchOSD(f)
  BY <1>2 DEF Next, handler, LaunchTask, existsConfigFiles, hostVars, vars,
     createLocalSharedConfigDir, copySharedConfigFiles, removeExisting, poll,
     stat, LaunchOSD, prepareDisks, dockerRun, dockerRunFails,
     containerExits, SchedulerStops, shutdown, GraceExpires, ExecutorDies
<1> QED
  BY <1>1, <1>2

(* The steps of others leave an executor's life as it is.                  *)
LEMMA LifeKept ==
  ASSUME HostInv, [Next]_vars, NEW e \in Exec, Life(e), ~ StepOf(e)
  PROVE  Life(e)'
<1>1. /\ pc'[e] = pc[e] /\ sent'[e] = sent[e] /\ forked'[e] = forked[e]
      /\ starting'[e] = starting[e]
  BY NotMyStep DEF Left
<1>2. asked'[e] = asked[e]
  BY AskedBy DEF StepOf, HostInv
<1>3. \A v : Sent(e, v)' <=> Sent(e, v)
  BY <1>1 DEF Sent
<1>4. mayFetch(e) => mayFetch(e)'
  BY SentStays
<1> QED
  BY <1>1, <1>2, <1>3, <1>4 DEF Life

(* Neither do the executor's own steps break it.                           *)
LEMMA LifeStep ==
  ASSUME HostInv, DistinctNames, [Next]_vars, NEW e \in Exec, Life(e),
         StepOf(e)
  PROVE  Life(e)'
<1> USE DEF HostInv, Goto, sendStatusUpdate, hostVars
<1>1. /\ pc \in [Exec -> Handling \cup {"new", "idle", "gone"}]
      /\ Order(e) /\ TypeOK
  BY DEF TypeOK
<1>2. /\ forked[e] \in Nat /\ starting[e] \in Nat /\ asked[e] \in Nat
      /\ sent[e] \in Seq(Update) /\ Len(sent[e]) \in Nat
  BY DEF TypeOK
<1>3. mayFetch(e) => mayFetch(e)'
  BY SentStays
<1>4. ASSUME sent' = sent PROVE \A v : Sent(e, v)' <=> Sent(e, v)
  BY <1>4 DEF Sent
<1>5. ASSUME NEW u \in Update, sent' = [sent EXCEPT ![e] = Append(@, u)]
      PROVE  /\ \A v : Sent(e, v)' <=> Sent(e, v) \/ v = u
             /\ Len(sent'[e]) = Len(sent[e]) + 1
  <2>1. sent'[e] = Append(sent[e], u)
    BY <1>5 DEF TypeOK
  <2>2. Len(sent'[e]) = Len(sent[e]) + 1
    BY <1>2, <2>1
  <2> QED
    BY <1>1, <1>5, <2>2, SendAfter
<1>6. sent[e] = << >> => Len(sent[e]) = 0 /\ \A v : ~ Sent(e, v)
  BY NothingSent
<1>7. ~ SendLaunchOSD(e) => asked'[e] = asked[e]
  BY AskedBy
<1>8. CASE LaunchTask(e)
  <2>1. mayFetch(e)
    BY <1>8 DEF LaunchTask, fetched, mayFetch
  <2>2. /\ pc[e] = "new" /\ pc'[e] = "exists" /\ sent' = sent
        /\ forked' = forked /\ starting' = starting /\ asked' = asked
    BY <1>1, <1>8 DEF LaunchTask
  <2> QED
    BY <1>1, <1>2, <1>3, <1>4, <1>6, <2>1, <2>2 DEF Life, Order
<1>9. CASE SendLaunchOSD(e)
  <2>1. asked'[e] = asked[e] + 1 /\ Sent(e, "TASK_STARTING")
    BY <1>1, <1>9 DEF SendLaunchOSD, TypeOK
  <2>2. UNCHANGED <<pc, docker, sent, monHere>>
    BY <1>9 DEF SendLaunchOSD
  <2> QED
    BY <1>2, <1>3, <1>4, <2>1, <2>2 DEF Life
<1>10. CASE LaunchOSD(e)
  <2>1. /\ pc[e] = "idle" /\ pc'[e] = "mount" /\ sent' = sent
        /\ forked' = forked /\ starting' = starting /\ asked' = asked
        /\ forked[e] < asked[e]
    BY <1>1, <1>10 DEF LaunchOSD
  <2> QED
    BY <1>2, <1>3, <1>4, <2>1 DEF Life
<1>11. CASE GraceExpires(e) \/ ExecutorDies(e)
  <2>1. /\ pc[e] # "new" /\ pc'[e] = "gone" /\ sent' = sent
        /\ forked' = forked /\ starting' = starting /\ asked' = asked
    BY <1>1, <1>11 DEF GraceExpires, ExecutorDies, Handling
  <2> QED
    BY <1>2, <1>3, <1>4, <2>1 DEF Life
<1>12. CASE dockerRun(e) \/ dockerRunFails(e)
  <2>1. /\ pc' = pc /\ sent' = sent /\ asked' = asked
    BY <1>12 DEF dockerRun, dockerRunFails
  <2>2. /\ forked' = forked /\ starting[e] > 0
        /\ starting'[e] = starting[e] - 1
    BY <1>1, <1>12, GotToAfter DEF dockerRun, dockerRunFails
  <2> QED
    BY <1>2, <1>3, <1>4, <2>1, <2>2 DEF Life
<1>13. CASE shutdown(e)
  <2>1. /\ sent' = [sent EXCEPT ![e] = Append(@, "TASK_KILLED")]
        /\ "TASK_KILLED" \in Update
    BY <1>13 DEF shutdown, Update
  <2>2. /\ pc[e] = "idle" /\ pc'[e] = "gone" /\ asked' = asked
        /\ forked' = forked /\ starting' = starting
    BY <1>1, <1>13 DEF shutdown
  <2>3. \A v : Sent(e, v)' <=> Sent(e, v) \/ v = "TASK_KILLED"
    BY <2>1, <1>5
  <2> QED
    BY <1>2, <1>3, <2>2, <2>3 DEF Life
<1>14. CASE existsConfigFiles(e)
  <2>1. /\ pc[e] = "exists" /\ pc'[e] \in {"mkdir", "copy", "remove"}
        /\ UNCHANGED <<sent, forked, starting, asked>>
    BY <1>1, <1>14 DEF existsConfigFiles, afterMkdir
  <2> QED
    BY <1>1, <1>2, <1>3, <1>4, <2>1 DEF Life
<1>15. CASE createLocalSharedConfigDir(e) \/ copySharedConfigFiles(e)
  <2>1. /\ pc[e] \in {"mkdir", "copy"} /\ sent[e] = << >>
        /\ pc'[e] \in {"copy", "remove", "idle"}
        /\ UNCHANGED <<forked, starting, asked>>
    BY <1>1, <1>15 DEF createLocalSharedConfigDir, copySharedConfigFiles,
                       afterMkdir, Order
  <2>2. CASE sent' = sent
    BY <1>2, <1>3, <1>4, <1>6, <2>1, <2>2 DEF Life
  <2>3. CASE sent' # sent
    <3>1. sent' = [sent EXCEPT ![e] = Append(@, "TASK_FAILED")]
      BY <1>15, <2>3 DEF createLocalSharedConfigDir, copySharedConfigFiles
    <3>2. \A v : Sent(e, v)' <=> v = "TASK_FAILED"
      BY <1>5, <1>6, <2>1, <3>1 DEF Update
    <3>3. pc'[e] = "idle"
      BY <1>1, <1>15, <2>3
         DEF createLocalSharedConfigDir, copySharedConfigFiles
    <3> QED
      BY <1>2, <1>3, <1>6, <2>1, <3>2, <3>3 DEF Life
  <2> QED
    BY <2>2, <2>3
<1>16. CASE removeExisting(e)
  <2>1. pc[e] = "remove" /\ sent[e] = << >> /\ forked[e] = 0 /\ asked' = asked
    BY <1>1, <1>16 DEF removeExisting, Order
  <2>2. CASE Task[e].type = "OSD"
    <3>1. /\ sent' = [sent EXCEPT ![e] = Append(@, "TASK_STARTING")]
          /\ pc'[e] = "idle" /\ forked'[e] = 0
      BY <1>1, <1>16, <2>1, <2>2 DEF removeExisting
    <3>2. /\ \A v : Sent(e, v)' <=> v = "TASK_STARTING"
          /\ Len(sent'[e]) = 1
      BY <1>5, <1>6, <2>1, <3>1 DEF Update
    <3>3. mayFetch(e)'
      BY <1>3, <2>1 DEF Life
    <3>4. asked'[e] \in Nat
      BY <1>2, <2>1
    <3> QED
      BY <2>2, <3>1, <3>2, <3>3, <3>4 DEF Life
  <2>3. CASE Task[e].type # "OSD"
    <3>1. sent' = sent /\ pc'[e] = "poll" /\ fork(e)
      BY <1>1, <1>16, <2>3 DEF removeExisting
    <3>2. forked'[e] = 1
      BY <1>1, <2>1, <3>1, ForkAfter
    <3> QED
      BY <1>2, <1>3, <1>4, <1>6, <2>1, <2>3, <3>1, <3>2 DEF Life
  <2> QED
    BY <2>2, <2>3
<1>17. CASE poll(e)
  <2>1. /\ pc[e] = "poll" /\ pc'[e] = "stat"
        /\ UNCHANGED <<sent, forked, starting, asked>>
    BY <1>1, <1>17 DEF poll
  <2> QED
    BY <1>2, <1>3, <1>4, <2>1 DEF Life
<1>18. CASE stat(e)
  <2>1. PICK u \in {"TASK_RUNNING", "TASK_FAILED"} :
          /\ sent' = [sent EXCEPT ![e] = Append(@, u)]
          /\ u = "TASK_RUNNING" => container[name(e)] # NoExec
    BY <1>18 DEF stat
  <2>2. /\ pc[e] = "stat" /\ pc'[e] = "idle"
        /\ UNCHANGED <<forked, starting, asked>>
    BY <1>1, <1>18 DEF stat
  <2>3. u = "TASK_RUNNING" => starting[e] < forked[e]
    BY <2>1, OwnContainer
  <2>4. /\ \A v : Sent(e, v)' <=> Sent(e, v) \/ v = u
        /\ Len(sent'[e]) = Len(sent[e]) + 1
    BY <1>5, <2>1 DEF Update
  <2>5. CASE Task[e].type = "OSD"
    BY <1>2, <1>3, <2>1, <2>2, <2>3, <2>4, <2>5 DEF Life
  <2>6. CASE Task[e].type # "OSD"
    BY <1>2, <1>3, <1>6, <2>1, <2>2, <2>3, <2>4, <2>6 DEF Life
  <2> QED
    BY <2>5, <2>6
<1>19. CASE prepareDisks(e)
  <2>1. /\ sent' = sent /\ pc'[e] = "poll" /\ asked' = asked
        /\ pc[e] = "mount" /\ fork(e)
    BY <1>1, <1>19 DEF prepareDisks
  <2>2. forked'[e] = forked[e] + 1
    BY <1>1, <2>1, ForkAfter
  <2> QED
    BY <1>2, <1>3, <1>4, <2>1, <2>2 DEF Life
<1> QED
  BY <1>8, <1>9, <1>10, <1>11, <1>12, <1>13, <1>14, <1>15, <1>16, <1>17,
     <1>18, <1>19 DEF StepOf, handler

(* An executor answers once for every message and once for its start.      *)
LEMMA ToldStep ==
  ASSUME HostInv, [Next]_vars, NEW e \in Exec, Life(e), Told(e)
  PROVE  Told(e)'
<1>1. /\ asked[e] \in Nat /\ forked[e] \in Nat /\ sent[e] \in Seq(Update)
      /\ Len(sent[e]) \in Nat /\ TypeOK /\ Order(e)
  BY DEF HostInv, TypeOK
<1>2. asked'[e] = asked[e] \/ asked'[e] = asked[e] + 1
  <2>1. CASE SendLaunchOSD(e)
    BY <2>1 DEF SendLaunchOSD, HostInv, TypeOK
  <2> QED
    BY <1>1, <2>1, AskedBy
<1>3. CASE sent'[e] = sent[e]
  <2>1. answers'[e] = answers[e]
    BY <1>3, SameAnswers
  <2>2. Len(answers[e]) \in Nat
    <3>1. PICK n : IsLast(sent[e], n)
      BY DEF Told
    <3>2. lastForwarded(sent[e]) = n /\ n \in Nat /\ n <= Len(sent[e])
      BY <1>1, <3>1, LastIs DEF IsLast
    <3> QED
      BY <1>1, <3>2 DEF answers
  <2> QED
    BY <1>1, <1>2, <1>3, <2>1, <2>2 DEF Told
<1>4. CASE sent'[e] # sent[e]
  <2>1. PICK u \in Update :
          /\ sent' = [sent EXCEPT ![e] = Append(@, u)]
          /\ \/ pc[e] \in {"mkdir", "copy", "remove", "stat"}
             \/ u = "TASK_KILLED"
    BY <1>4, SentBy DEF createLocalSharedConfigDir, copySharedConfigFiles,
                        removeExisting, stat
  <2>2. /\ \E n : IsLast(sent'[e], n)
        /\ \/ /\ u # "TASK_KILLED" /\ answers[e] = sent[e]
              /\ answers'[e] = Append(answers[e], u)
           \/ answers'[e] = answers[e]
    BY <1>1, <2>1, Answered
  <2>3. CASE answers'[e] = answers[e]
    <3>1. Len(answers'[e]) <= asked[e] + 1 /\ Len(answers[e]) \in Nat
      <4>1. PICK n : IsLast(sent[e], n)
        BY DEF Told
      <4>2. lastForwarded(sent[e]) = n /\ n \in Nat /\ n <= Len(sent[e])
        BY <1>1, <4>1, LastIs DEF IsLast
      <4>3. Len(answers[e]) = n
        BY <1>1, <4>2 DEF answers
      <4> QED
        BY <2>3, <4>2, <4>3 DEF Told
    <3> QED
      BY <1>1, <1>2, <2>2, <2>3, <3>1 DEF Told
  <2>4. CASE /\ u # "TASK_KILLED" /\ answers[e] = sent[e]
             /\ answers'[e] = Append(answers[e], u)
    <3>1. Len(answers'[e]) = Len(sent[e]) + 1
      BY <1>1, <2>4
    <3>2. Len(sent[e]) <= asked[e]
      <4>1. sent[e] = << >> => Len(sent[e]) = 0
        OBVIOUS
      <4> QED
        BY <1>1, <2>1, <2>4, <4>1 DEF Life, Order
    <3> QED
      BY <1>1, <1>2, <2>2, <3>1, <3>2 DEF Told
  <2> QED
    BY <2>2, <2>3, <2>4
<1> QED
  BY <1>3, <1>4

(* So both hold from the beginning to the end.                             *)
LEMMA LifeAlways == ASSUME DistinctNames PROVE Spec => []LifeInv
<1>1. Init => LifeInv
  <2> SUFFICES ASSUME Init PROVE LifeInv
    OBVIOUS
  <2>1. \A e \in Exec : pc[e] = "new" /\ forked[e] = 0 /\ sent[e] = << >>
                          /\ asked[e] = 0
    BY DEF Init
  <2>2. \A e \in Exec : \A u : ~ Sent(e, u)
    BY <2>1, NothingSent
  <2>3. ASSUME NEW e \in Exec PROVE Told(e)
    <3>1. sent[e] \in Seq(Update) /\ Len(sent[e]) = 0
      BY <2>1, InitHost DEF HostInv, TypeOK
    <3>2. IsLast(sent[e], 0)
      BY <3>1 DEF IsLast, forwards
    <3>3. Len(answers[e]) = 0
      BY <3>1, <3>2, LastIs DEF answers
    <3> QED
      BY <2>1, <3>2, <3>3 DEF Told
  <2> QED
    BY <2>1, <2>2, <2>3, InitHost DEF LifeInv, Life
<1>2. LifeInv /\ [Next]_vars => LifeInv'
  <2> SUFFICES ASSUME LifeInv, [Next]_vars PROVE LifeInv'
    OBVIOUS
  <2>1. HostInv /\ HostInv' /\ \A e \in Exec : Life(e) /\ Told(e)
    BY NextHost DEF LifeInv
  <2>2. ASSUME NEW e \in Exec PROVE Life(e)' /\ Told(e)'
    BY <2>1, LifeStep, LifeKept, ToldStep
  <2> QED
    BY <2>1, <2>2 DEF LifeInv
<1> QED
  BY <1>1, <1>2, PTL DEF Spec

-----------------------------------------------------------------------------
(* The refinement.  The task of an executor is found by its id.            *)

DistinctTasks == \A e, f \in Exec : taskId(e) = taskId(f) => e = f

(* The id is one of this host's, and no other executor's.                  *)
LEMMA TaskIdFacts ==
  ASSUME DistinctTasks, NEW e \in Exec
  PROVE  /\ execOf(taskId(e)) = e
         /\ taskId(e) \in localTasks
         /\ taskId(e) # RemoteMon
         /\ taskId(e).type = Task[e].type /\ taskId(e).host = LocalHost
<1>1. execOf(taskId(e)) \in Exec /\ taskId(execOf(taskId(e))) = taskId(e)
  BY DEF execOf
<1> QED
  BY <1>1 DEF DistinctTasks, taskId, localTasks, RemoteMon, LocalHost

(* What module CephExecutor knows of the task of one executor.             *)
NodeRecord(st, initial, src, disks, ids) ==
  [st |-> st, initial |-> initial, source |-> src, osddisk |-> disks,
   jnldisk |-> disks, ids |-> ids]

initialOf(e) == IF Task[e].initial THEN 1 ELSE 0

source == IF monHere THEN LocalHost ELSE RemoteMon.host

NodeOf(e) ==
  NodeRecord(nodeState(e), initialOf(e), source, << >>, answeredIds(e))

(* The LAUNCH_OSD on their way to it.                                      *)
Open(e) == (1 .. asked[e]) \ answeredIds(e)

(* How module CephExecutor changes such a record.                          *)
LEMMA StateUpdate ==
  ASSUME NEW st, NEW initial, NEW src, NEW disks, NEW ids, NEW new
  PROVE  [NodeRecord(st, initial, src, disks, ids) EXCEPT !.st = new]
           = NodeRecord(new, initial, src, disks, ids)
BY DEF NodeRecord

(* How LaunchOSD does.                                                     *)
LEMMA IdUpdate ==
  ASSUME NEW st, NEW initial, NEW src, NEW disks, NEW ids, NEW new
  PROVE  [NodeRecord(st, initial, src, disks, ids) EXCEPT !.ids = new]
           = NodeRecord(st, initial, src, disks, new)
BY DEF NodeRecord

(* The refinement mapping gives each task the record of its executor.      *)
LEMMA NodeFacts ==
  ASSUME DistinctTasks
  PROVE  /\ \A e \in Exec : /\ taskId(e) \in launchedTasks
                            /\ abstractNode[taskId(e)] = NodeOf(e)
                            /\ abstractUpdates[taskId(e)] = answers[e]
         /\ abstractNode = [t \in launchedTasks |-> abstractNode[t]]
         /\ abstractUpdates = [t \in launchedTasks |-> abstractUpdates[t]]
         /\ \A t \in launchedTasks :
              t \in localTasks \/ (t = RemoteMon /\ ~ monHere)
         /\ \A t \in localTasks : \E e \in Exec : t = taskId(e)
<1>1. \A e \in Exec : taskId(e) \in launchedTasks
  BY DEF launchedTasks, localTasks
<1>2. ASSUME NEW e \in Exec PROVE abstractNode[taskId(e)] = NodeOf(e)
  BY <1>1, TaskIdFacts
       DEF abstractNode, NodeOf, NodeRecord, initialOf, source
<1>3. ASSUME NEW e \in Exec PROVE abstractUpdates[taskId(e)] = answers[e]
  BY <1>1, TaskIdFacts DEF abstractUpdates
<1>4. /\ abstractNode = [t \in launchedTasks |-> abstractNode[t]]
      /\ abstractUpdates = [t \in launchedTasks |-> abstractUpdates[t]]
  BY DEF abstractNode, abstractUpdates
<1> QED
  BY <1>1, <1>2, <1>3, <1>4 DEF launchedTasks, localTasks

(* Messages to different tasks, and with different ids, are different.     *)
LEMMA MessageFacts ==
  ASSUME DistinctTasks
  PROVE  /\ \A m : m \in abstractToOSD <=>
                     \E f \in Exec : \E k \in Open(f) : m = launchOSD(f, k)
         /\ \A e, f \in Exec : \A k, l :
              launchOSD(e, k) = launchOSD(f, l) => e = f /\ k = l
<1>1. ASSUME NEW m
      PROVE  m \in abstractToOSD <=>
               \E f \in Exec : \E k \in Open(f) : m = launchOSD(f, k)
  BY DEF abstractToOSD, Open
<1>2. ASSUME NEW e \in Exec, NEW f \in Exec, NEW k, NEW l,
             launchOSD(e, k) = launchOSD(f, l)
      PROVE  e = f /\ k = l
  <2>1. /\ launchOSD(e, k).to = taskId(e) /\ launchOSD(e, k).id = k
        /\ launchOSD(f, l).to = taskId(f) /\ launchOSD(f, l).id = l
    BY DEF launchOSD
  <2> QED
    BY <1>2, <2>1 DEF DistinctTasks
<1> QED
  BY <1>1, <1>2

(* The ids that a task was sent are as many as the LAUNCH_OSD.             *)
LEMMA IdsFacts ==
  ASSUME DistinctTasks, NEW e \in Exec
  PROVE  abstractIds(taskId(e)) = 1 .. asked[e]
<1>1. abstractNode[taskId(e)].ids = answeredIds(e)
  <2>1. abstractNode[taskId(e)] = NodeOf(e)
    BY NodeFacts
  <2> QED
    BY <2>1 DEF NodeOf, NodeRecord
<1>2. {m.id : m \in {x \in abstractToOSD : x.to = taskId(e)}} = Open(e)
  <2>1. \A f \in Exec : \A k :
          launchOSD(f, k).id = k /\ launchOSD(f, k).to = taskId(f)
    BY DEF launchOSD
  <2>2. \A x \in abstractToOSD : x.to = taskId(e) => x.id \in Open(e)
    BY <2>1, MessageFacts DEF DistinctTasks
  <2>3. \A k \in Open(e) : /\ launchOSD(e, k) \in abstractToOSD
                           /\ launchOSD(e, k).to = taskId(e)
                           /\ launchOSD(e, k).id = k
    BY <2>1, MessageFacts
  <2> QED
    BY <2>2, <2>3
<1>3. answeredIds(e) \subseteq 1 .. asked[e]
  BY DEF answeredIds
<1> QED
  BY <1>1, <1>2, <1>3 DEF abstractIds, Open

(* What a step leaves alone of an executor, seen from there.               *)
Kept(f) ==
  /\ NodeOf(f)' = NodeOf(f)
  /\ answers'[f] = answers[f]
  /\ Open(f)' = Open(f)

(* A step in which one executor moves changes the state there at its task. *)
LEMMA OneMoves ==
  ASSUME DistinctTasks, monHere' = monHere, NEW e \in Exec,
         \A f \in Exec : f # e => Kept(f)
  PROVE  /\ abstractNode' = [abstractNode EXCEPT ![taskId(e)] = NodeOf(e)']
         /\ abstractUpdates' =
              [abstractUpdates EXCEPT ![taskId(e)] = answers'[e]]
         /\ answers' = [answers EXCEPT ![e] = answers'[e]]
         /\ Open(e)' = Open(e) => abstractToOSD' = abstractToOSD
         /\ \A k : Open(e)' = Open(e) \cup {k} =>
              abstractToOSD' = abstractToOSD \cup {launchOSD(e, k)}
         /\ \A k : Open(e)' = Open(e) \ {k} =>
              abstractToOSD' = abstractToOSD \ {launchOSD(e, k)}
<1>1. /\ launchedTasks' = launchedTasks
      /\ \A f \in Exec : taskId(f) \in launchedTasks
      /\ \A t \in launchedTasks :
           (t = RemoteMon /\ ~ monHere) \/ \E f \in Exec : t = taskId(f)
  BY DEF launchedTasks, localTasks
<1>2. ASSUME NEW f \in Exec
      PROVE  /\ abstractNode[taskId(f)] = NodeOf(f)
             /\ abstractNode'[taskId(f)] = NodeOf(f)'
             /\ abstractUpdates[taskId(f)] = answers[f]
             /\ abstractUpdates'[taskId(f)] = answers'[f]
  <2>1. /\ abstractNode[taskId(f)] = NodeOf(f)
        /\ abstractUpdates[taskId(f)] = answers[f]
    BY NodeFacts
  <2>2. abstractNode'[taskId(f)] = NodeOf(f)'
    BY <1>1, TaskIdFacts
       DEF abstractNode, NodeOf, NodeRecord, initialOf, source
  <2>3. abstractUpdates'[taskId(f)] = answers'[f]
    BY <1>1, TaskIdFacts DEF abstractUpdates
  <2> QED
    BY <2>1, <2>2, <2>3
<1>3. ASSUME ~ monHere
      PROVE  /\ abstractNode'[RemoteMon] = abstractNode[RemoteMon]
             /\ abstractUpdates'[RemoteMon] = abstractUpdates[RemoteMon]
  <2>1. RemoteMon \in launchedTasks /\ RemoteMon \notin localTasks
    BY <1>3, TaskIdFacts DEF launchedTasks, localTasks
  <2> QED
    BY <1>1, <1>3, <2>1 DEF abstractNode, abstractUpdates
<1>4. ASSUME NEW t \in launchedTasks, t # taskId(e)
      PROVE  /\ abstractNode'[t] = abstractNode[t]
             /\ abstractUpdates'[t] = abstractUpdates[t]
  <2>1. CASE \E f \in Exec : t = taskId(f)
    BY <1>2, <1>4, <2>1 DEF Kept
  <2> QED
    BY <1>1, <1>3, <2>1
<1>5. abstractNode' = [abstractNode EXCEPT ![taskId(e)] = NodeOf(e)']
  <2>1. /\ abstractNode = [t \in launchedTasks |-> abstractNode[t]]
        /\ abstractNode' = [t \in launchedTasks |-> abstractNode'[t]]
    BY <1>1 DEF abstractNode
  <2> QED
    BY <1>1, <1>2, <1>4, <2>1
<1>6. abstractUpdates' = [abstractUpdates EXCEPT ![taskId(e)] = answers'[e]]
  <2>1. /\ abstractUpdates = [t \in launchedTasks |-> abstractUpdates[t]]
        /\ abstractUpdates' = [t \in launchedTasks |-> abstractUpdates'[t]]
    BY <1>1 DEF abstractUpdates
  <2> QED
    BY <1>1, <1>2, <1>4, <2>1
<1>7. answers' = [answers EXCEPT ![e] = answers'[e]]
  <2>1. /\ answers = [f \in Exec |-> answers[f]]
        /\ answers' = [f \in Exec |-> answers'[f]]
    BY DEF answers
  <2> QED
    BY <2>1 DEF Kept
<1>8. /\ \A m : m \in abstractToOSD <=>
                  \E f \in Exec : \E k \in Open(f) : m = launchOSD(f, k)
      /\ \A f \in Exec : \A k, l :
           launchOSD(e, k) = launchOSD(f, l) => e = f /\ k = l
  BY MessageFacts
<1>9. \A m : m \in abstractToOSD' <=>
               \E f \in Exec : \E k \in Open(f)' : m = launchOSD(f, k)
  BY DEF abstractToOSD, Open
<1>10. \A f \in Exec : f # e => Open(f)' = Open(f)
  BY DEF Kept
<1>11. ASSUME Open(e)' = Open(e) PROVE abstractToOSD' = abstractToOSD
  <2>1. \A f \in Exec : Open(f)' = Open(f)
    BY <1>10, <1>11
  <2> QED
    BY <1>8, <1>9, <2>1
<1>12. ASSUME NEW k, Open(e)' = Open(e) \cup {k}
       PROVE  abstractToOSD' = abstractToOSD \cup {launchOSD(e, k)}
  <2>1. ASSUME NEW m
        PROVE  m \in abstractToOSD' <=>
                 m \in abstractToOSD \/ m = launchOSD(e, k)
    BY <1>8, <1>9, <1>10, <1>12
  <2> QED
    BY <2>1
<1>13. ASSUME NEW k, Open(e)' = Open(e) \ {k}
       PROVE  abstractToOSD' = abstractToOSD \ {launchOSD(e, k)}
  <2>1. ASSUME NEW m
        PROVE  m \in abstractToOSD' <=>
                 m \in abstractToOSD /\ m # launchOSD(e, k)
    BY <1>8, <1>9, <1>10, <1>13
  <2> QED
    BY <2>1
<1> QED
  BY <1>5, <1>6, <1>7, <1>11, <1>12, <1>13

(* What that makes of the task's record.                                   *)
LEMMA NodeMoves ==
  ASSUME DistinctTasks, monHere' = monHere, NEW e \in Exec,
         \A f \in Exec : f # e => Kept(f),
         NEW st, st = nodeState(e)'
  PROVE  /\ abstractNode[taskId(e)].st = nodeState(e)
         /\ abstractNode[taskId(e)].ids = answeredIds(e)
         /\ answeredIds(e)' = answeredIds(e) =>
              abstractNode' = [abstractNode EXCEPT ![taskId(e)].st = st]
         /\ \A k : answeredIds(e)' = answeredIds(e) \cup {k} =>
              abstractNode' = [abstractNode EXCEPT
                                 ![taskId(e)].st = st,
                                 ![taskId(e)].ids = @ \cup {k}]
<1> DEFINE t == taskId(e)
<1>1. /\ abstractNode[t] = NodeOf(e) /\ t \in launchedTasks
      /\ abstractNode = [k \in launchedTasks |-> abstractNode[k]]
  BY NodeFacts
<1>2. abstractNode' = [abstractNode EXCEPT ![t] = NodeOf(e)']
  BY OneMoves
<1>3. NodeOf(e).st = nodeState(e) /\ NodeOf(e).ids = answeredIds(e)
  BY DEF NodeOf, NodeRecord
<1>4. PICK old, ids, src, init : /\ old = nodeState(e) /\ ids = answeredIds(e)
                                 /\ src = source /\ init = initialOf(e)
  OBVIOUS
<1>5. NodeOf(e) = NodeRecord(old, init, src, << >>, ids)
  BY <1>4 DEF NodeOf
<1>6. PICK new : new = answeredIds(e)'
  OBVIOUS
<1>7. NodeOf(e)' = NodeRecord(st, init, src, << >>, new)
  BY <1>4, <1>6 DEF NodeOf, NodeRecord, initialOf, source, LocalHost,
                    RemoteMon
<1>8. [NodeOf(e) EXCEPT !.st = st] = NodeRecord(st, init, src, << >>, ids)
  BY <1>5, StateUpdate
<1>9. [[NodeOf(e) EXCEPT !.st = st] EXCEPT !.ids = new]
        = NodeRecord(st, init, src, << >>, new)
  <2>1. [NodeRecord(st, init, src, << >>, ids) EXCEPT !.ids = new]
          = NodeRecord(st, init, src, << >>, new)
    BY IdUpdate
  <2> QED
    BY <1>8, <2>1
<1>10. [NodeOf(e) EXCEPT !.st = st, !.ids = new] = NodeOf(e)'
  BY <1>7, <1>9
<1>11. ASSUME new = ids
       PROVE  abstractNode' = [abstractNode EXCEPT ![t].st = st]
  <2>1. NodeOf(e)' = [NodeOf(e) EXCEPT !.st = st]
    BY <1>7, <1>8, <1>11
  <2> QED
    BY <1>1, <1>2, <2>1
<1>12. ASSUME NEW k, new = ids \cup {k}
       PROVE  abstractNode' = [abstractNode EXCEPT ![t].st = st,
                                                   ![t].ids = @ \cup {k}]
  <2>1. abstractNode' = [abstractNode EXCEPT ![t].st = st, ![t].ids = new]
    BY <1>1, <1>2, <1>10
  <2>2. abstractNode[t].ids \cup {k} = new
    BY <1>1, <1>3, <1>4, <1>12
  <2> QED
    BY <2>1, <2>2
<1> QED
  BY <1>1, <1>3, <1>4, <1>6, <1>11, <1>12

(* Before the handler has sent its update the configuration files are      *)
(* served, and they stay so.                                               *)
LEMMA FetchMapped ==
  ASSUME DistinctTasks, LifeInv, NEW e \in Exec, pc[e] # "new"
  PROVE  Abstract!canFetch(taskId(e))
<1>1. mayFetch(e)
  BY DEF LifeInv, Life
<1>2. /\ abstractNode[taskId(e)] = NodeOf(e)
      /\ DOMAIN abstractNode = launchedTasks
  BY NodeFacts DEF abstractNode
<1>3. CASE Task[e].initial
  BY <1>2, <1>3 DEF Abstract!canFetch, NodeOf, NodeRecord, initialOf
<1>4. CASE ~ monHere
  <2>1. RemoteMon \in launchedTasks /\ RemoteMon \notin localTasks
    BY <1>4, TaskIdFacts DEF launchedTasks, localTasks
  <2>2. /\ abstractNode[RemoteMon].st = "up" /\ RemoteMon.type = "MON"
        /\ NodeOf(e).source = RemoteMon.host
    BY <1>4, <2>1 DEF abstractNode, NodeOf, NodeRecord, source, RemoteMon
  <2>3. Abstract!Serving(RemoteMon.host)
    BY <1>2, <2>1, <2>2 DEF Abstract!Serving
  <2> QED
    BY <1>2, <2>2, <2>3 DEF Abstract!canFetch
<1>5. CASE monHere /\ \E m \in Exec :
             Task[m].type = "MON" /\ Sent(m, "TASK_RUNNING")
  <2>1. PICK m \in Exec : Task[m].type = "MON" /\ Sent(m, "TASK_RUNNING")
    BY <1>5
  <2>2. ~ Sent(m, "TASK_FAILED")
    BY <2>1 DEF LifeInv, Life
  <2>3. nodeState(m) \in {"up", "zombie"}
    BY <2>1, <2>2 DEF nodeState
  <2>4. /\ abstractNode[taskId(m)].st \in {"up", "zombie"}
        /\ taskId(m) \in launchedTasks /\ taskId(m).type = "MON"
        /\ taskId(m).host = LocalHost
    <3>1. abstractNode[taskId(m)] = NodeOf(m) /\ taskId(m) \in launchedTasks
      BY NodeFacts
    <3> QED
      BY <2>1, <2>3, <3>1, TaskIdFacts DEF NodeOf, NodeRecord
  <2>5. Abstract!Serving(LocalHost)
    BY <1>2, <2>4 DEF Abstract!Serving
  <2>6. NodeOf(e).source = LocalHost
    BY <1>5 DEF NodeOf, NodeRecord, source
  <2> QED
    BY <1>2, <2>5, <2>6 DEF Abstract!canFetch
<1> QED
  BY <1>1, <1>3, <1>4, <1>5 DEF mayFetch

(* An executor stays what it is there if its answers and the messages to   *)
(* it do, and the container of one that has only succeeded.                *)
LEMMA KeptIf ==
  ASSUME NEW f \in Exec, monHere' = monHere, answers'[f] = answers[f],
         asked'[f] = asked[f], nodeState(f)' = nodeState(f)
  PROVE  Kept(f)
<1>1. answeredIds(f)' = answeredIds(f)
  BY DEF answeredIds
<1>2. Open(f)' = Open(f)
  BY <1>1 DEF Open
<1> QED
  BY <1>1, <1>2 DEF Kept, NodeOf, NodeRecord, initialOf, source

(* The state of a task depends on the updates and the container.           *)
LEMMA SameState ==
  ASSUME NEW f \in Exec,
         \A v \in Update \ {"TASK_KILLED"} : Sent(f, v)' <=> Sent(f, v),
         Sent(f, "TASK_RUNNING") /\ ~ Sent(f, "TASK_FAILED") =>
           (container'[name(f)] = f <=> container[name(f)] = f)
  PROVE  nodeState(f)' = nodeState(f)
<1>1. /\ Sent(f, "TASK_STARTING")' <=> Sent(f, "TASK_STARTING")
      /\ Sent(f, "TASK_RUNNING")' <=> Sent(f, "TASK_RUNNING")
      /\ Sent(f, "TASK_FAILED")' <=> Sent(f, "TASK_FAILED")
  BY DEF Update
<1> QED
  BY <1>1 DEF nodeState, name

(* If all stay what they are, the step is a stuttering step.               *)
LEMMA AllKept ==
  ASSUME DistinctTasks, monHere' = monHere, NEW e \in Exec,
         \A f \in Exec : Kept(f)
  PROVE  UNCHANGED <<abstractNode, abstractToOSD, answers>>
<1>1. /\ abstractNode' = [abstractNode EXCEPT ![taskId(e)] = NodeOf(e)']
      /\ answers' = [answers EXCEPT ![e] = answers'[e]]
      /\ abstractToOSD' = abstractToOSD
  BY OneMoves DEF Kept
<1>2. abstractNode' = abstractNode
  <2>1. /\ abstractNode = [t \in launchedTasks |-> abstractNode[t]]
        /\ abstractNode[taskId(e)] = NodeOf(e)
    BY NodeFacts
  <2> QED
    BY <1>1, <2>1 DEF Kept
<1>3. answers' = answers
  <2>1. answers = [f \in Exec |-> answers[f]]
    BY DEF answers
  <2> QED
    BY <1>1, <2>1 DEF Kept
<1> QED
  BY <1>1, <1>2, <1>3

(* The step of an executor is none of the others.                          *)
LEMMA OthersKeep ==
  ASSUME HostInv, DistinctNames, [Next]_vars, NEW e \in Exec, StepOf(e),
         NEW f \in Exec, f # e
  PROVE  Kept(f)
<1>1. sent'[f] = sent[f]
  BY OthersLeft DEF Left
<1>2. monHere' = monHere
  BY SentStays
<1>3. /\ container \in [Name -> Exec \cup {NoExec}]
      /\ name(e) \in Name /\ name(f) \in Name /\ name(e) # name(f)
  BY TaskFacts DEF HostInv, TypeOK, DistinctNames
<1>4. container'[name(f)] = container[name(f)]
  BY <1>3 DEF StepOf, handler, LaunchTask, existsConfigFiles, hostVars,
     createLocalSharedConfigDir, copySharedConfigFiles, removeExisting,
     removeContainer, poll, stat, SendLaunchOSD, LaunchOSD, prepareDisks,
     dockerRun, dockerRunFails, shutdown, GraceExpires, ExecutorDies
<1>5. asked'[f] = asked[f]
  BY DEF StepOf, handler, LaunchTask, existsConfigFiles, hostVars, HostInv,
     createLocalSharedConfigDir, copySharedConfigFiles, removeExisting,
     poll, stat, SendLaunchOSD, LaunchOSD, prepareDisks, dockerRun,
     dockerRunFails, shutdown, GraceExpires, ExecutorDies, TypeOK
<1>6. nodeState(f)' = nodeState(f)
  <2>1. \A v : Sent(f, v)' <=> Sent(f, v)
    BY <1>1 DEF Sent
  <2> QED
    BY <1>4, <2>1, SameState
<1>7. answers'[f] = answers[f]
  BY <1>1, SameAnswers
<1> QED
  BY <1>2, <1>5, <1>6, <1>7, KeptIf

(* The end of launchTask.                                                  *)
LEMMA LaunchTaskEnds ==
  ASSUME LifeInv, DistinctNames, DistinctTasks, [Next]_vars, NEW e \in Exec,
         StepOf(e), pc[e] # "new", sent[e] = << >>, asked' = asked,
         NEW u \in {"TASK_STARTING", "TASK_RUNNING", "TASK_FAILED"},
         sent' = [sent EXCEPT ![e] = Append(@, u)],
         u = "TASK_STARTING" => Task[e].type = "OSD",
         u = "TASK_RUNNING" =>
           Task[e].type # "OSD" /\ container'[name(e)] = e
  PROVE  AbstractNext
<1> DEFINE t == taskId(e)
<1>1. HostInv /\ TypeOK /\ Life(e) /\ Told(e) /\ monHere' = monHere
  BY SentStays DEF LifeInv, HostInv
<1>2. u \in Update /\ u # "TASK_KILLED"
  BY DEF Update
<1>3. \A v : ~ Sent(e, v) /\ (Sent(e, v)' <=> v = u)
  BY <1>1, <1>2, SendAfter, NothingSent
<1>4. answers'[e] = Append(answers[e], u)
  BY <1>1, <1>2, <1>3, Answered
<1>5. \A f \in Exec : f # e => Kept(f)
  BY <1>1, OthersKeep
<1>6. asked[e] = 0 /\ asked'[e] = 0
  <2>1. asked[e] \in Nat
    BY <1>1 DEF TypeOK
  <2> QED
    BY <1>1, <1>3, <2>1 DEF Life
<1>7. answeredIds(e) = {} /\ answeredIds(e)' = {}
  BY <1>6 DEF answeredIds
<1>8. Open(e) = {} /\ Open(e)' = {}
  BY <1>6 DEF Open
<1>9. /\ abstractUpdates' = [abstractUpdates EXCEPT ![t] = answers'[e]]
      /\ abstractToOSD' = abstractToOSD
  BY <1>1, <1>5, <1>8, OneMoves
<1>10. nodeState(e) = "launched"
  BY <1>3 DEF nodeState
<1> PICK s : s = nodeState(e)'
  OBVIOUS
<1>11. s = CASE u = "TASK_STARTING" -> "waiting"
             [] u = "TASK_RUNNING" -> "up"
             [] u = "TASK_FAILED" -> "dead"
  BY <1>3 DEF nodeState, name
<1>12. /\ abstractNode[t].st = "launched"
       /\ abstractNode' = [abstractNode EXCEPT ![t].st = s]
  BY <1>1, <1>5, <1>7, <1>10, NodeMoves
<1>13. /\ abstractUpdates[t] = answers[e] /\ t \in launchedTasks
       /\ t \in localTasks /\ t.type = Task[e].type
  BY NodeFacts, TaskIdFacts
<1>14. abstractUpdates' = [abstractUpdates EXCEPT ![t] = Append(@, u)]
  BY <1>4, <1>9, <1>13 DEF abstractUpdates
<1>15. Abstract!canFetch(t)
  BY FetchMapped
<1>16. CASE u = "TASK_STARTING"
  <2>1. Abstract!LaunchTaskOSD(t)
    BY <1>9, <1>11, <1>12, <1>13, <1>14, <1>15, <1>16
       DEF Abstract!LaunchTaskOSD, Abstract!SetState,
           Abstract!sendStatusUpdate
  <2> QED
    BY <1>13, <2>1 DEF AbstractNext
<1>17. CASE u = "TASK_RUNNING"
  <2>1. Abstract!LaunchTaskDaemon(t)
    BY <1>9, <1>11, <1>12, <1>13, <1>14, <1>15, <1>17
       DEF Abstract!LaunchTaskDaemon, Abstract!SetState,
           Abstract!sendStatusUpdate
  <2> QED
    BY <1>13, <2>1 DEF AbstractNext
<1>18. CASE u = "TASK_FAILED"
  <2>1. Abstract!LaunchTaskFails(t)
    BY <1>9, <1>11, <1>12, <1>14, <1>18
       DEF Abstract!LaunchTaskFails, Abstract!SetState,
           Abstract!sendStatusUpdate
  <2> QED
    BY <1>13, <2>1 DEF AbstractNext
<1> QED
  BY <1>16, <1>17, <1>18

(* The end of the handler of LAUNCH_OSD: it answers the message with the   *)
(* number of its docker run.  Nobody hears of it after TASK_FAILED.        *)
LEMMA LaunchOSDEnds ==
  ASSUME LifeInv, DistinctNames, DistinctTasks, [Next]_vars, NEW e \in Exec,
         StepOf(e), pc[e] = "stat", Task[e].type = "OSD",
         asked' = asked, NEW u \in {"TASK_RUNNING", "TASK_FAILED"},
         sent' = [sent EXCEPT ![e] = Append(@, u)],
         u = "TASK_RUNNING" => container'[name(e)] = e
  PROVE  AbstractNext \/ UNCHANGED <<abstractNode, abstractToOSD, answers>>
<1>0. PICK k : k = forked[e]
  OBVIOUS
<1> DEFINE t == taskId(e)
           m == launchOSD(e, k)
<1>1. HostInv /\ TypeOK /\ Life(e) /\ Told(e) /\ monHere' = monHere
  BY SentStays DEF LifeInv, HostInv
<1>2. u \in Update /\ u # "TASK_KILLED"
  BY DEF Update
<1>3. \A v : Sent(e, v)' <=> Sent(e, v) \/ v = u
  <2>1. \A f \in Exec : \A v :
          Sent(f, v)' <=> Sent(f, v) \/ (f = e /\ v = u)
    BY <1>1, <1>2, SendAfter
  <2> QED
    BY <2>1
<1>4. /\ Sent(e, "TASK_STARTING") /\ ~ Sent(e, "TASK_KILLED")
      /\ Len(sent[e]) = k /\ k <= asked[e]
  BY <1>0, <1>1 DEF Life
<1>5. /\ sent[e] \in Seq(Update) /\ k \in Nat /\ asked[e] \in Nat
      /\ asked'[e] = asked[e]
  BY <1>0, <1>1 DEF TypeOK
<1>6. k \in 1 .. asked[e]
  <2>1. sent[e] # << >>
    BY <1>4, NothingSent
  <2>2. Len(sent[e]) # 0
    BY <1>5, <2>1
  <2> QED
    BY <1>4, <1>5, <2>2
<1>7. \A f \in Exec : f # e => Kept(f)
  BY <1>1, OthersKeep
<1>8. CASE Sent(e, "TASK_FAILED")
  <2>1. answers'[e] = answers[e]
    BY <1>1, <1>2, <1>8, Answered
  <2>2. nodeState(e)' = "dead" /\ nodeState(e) = "dead"
    BY <1>3, <1>8 DEF nodeState
  <2>3. Kept(e)
    BY <1>1, <1>5, <2>1, <2>2, KeptIf
  <2> QED
    BY <1>1, <1>7, <2>3, AllKept
<1>9. CASE ~ Sent(e, "TASK_FAILED")
  <2>1. answers[e] = sent[e] /\ answers'[e] = Append(answers[e], u)
    BY <1>1, <1>2, <1>4, <1>9, Answered
  <2>2. Len(answers[e]) = k /\ Len(answers'[e]) = k + 1
    BY <1>4, <1>5, <2>1
  <2>3. answeredIds(e)' = answeredIds(e) \cup {k}
    <3>1. answeredIds(e) = {i \in 1 .. asked[e] : i < k}
      BY <2>2 DEF answeredIds
    <3>2. answeredIds(e)' = {i \in 1 .. asked[e] : i < k + 1}
      BY <1>5, <2>2 DEF answeredIds
    <3>3. \A i \in 1 .. asked[e] : i < k + 1 <=> i < k \/ i = k
      BY <1>5
    <3> QED
      BY <1>6, <3>1, <3>2, <3>3
  <2>4. Open(e)' = Open(e) \ {k}
    BY <1>5, <2>3 DEF Open
  <2>5. m \in abstractToOSD /\ m.to = t /\ m.id = k
    <3>1. k \in Open(e)
      BY <1>5, <1>6, <2>2 DEF Open, answeredIds
    <3> QED
      BY <3>1, MessageFacts DEF launchOSD
  <2>6. /\ abstractUpdates' = [abstractUpdates EXCEPT ![t] = answers'[e]]
        /\ abstractToOSD' = abstractToOSD \ {m}
    BY <1>1, <1>7, <2>4, OneMoves
  <2>7. nodeState(e) \in {"waiting", "up", "zombie"}
    BY <1>4, <1>9 DEF nodeState
  <2> PICK s : s = nodeState(e)'
    OBVIOUS
  <2>8. s = IF u = "TASK_RUNNING" THEN "up" ELSE "dead"
    BY <1>3, <1>9 DEF nodeState, name
  <2>9. /\ abstractNode[t].st \in {"waiting", "up", "zombie"}
        /\ abstractNode' = [abstractNode EXCEPT ![t].st = s,
                                                ![t].ids = @ \cup {k}]
    <3>1. /\ abstractNode[t].st = nodeState(e)
          /\ \A i : answeredIds(e)' = answeredIds(e) \cup {i} =>
               abstractNode' = [abstractNode EXCEPT ![t].st = s,
                                                    ![t].ids = @ \cup {i}]
      BY <1>1, <1>7, NodeMoves
    <3> QED
      BY <2>3, <2>7, <3>1
  <2>10. abstractUpdates[t] = answers[e] /\ t \in launchedTasks
    BY NodeFacts
  <2>11. abstractUpdates' = [abstractUpdates EXCEPT ![t] = Append(@, u)]
    BY <2>1, <2>6, <2>10 DEF abstractUpdates
  <2>12. CASE u = "TASK_RUNNING"
    <3>1. Abstract!LaunchOSD(m)
      BY <2>5, <2>6, <2>8, <2>9, <2>11, <2>12
         DEF Abstract!LaunchOSD, Abstract!sendStatusUpdate
    <3> QED
      BY <2>5, <3>1 DEF AbstractNext
  <2>13. CASE u = "TASK_FAILED"
    <3>1. Abstract!LaunchOSDFails(m)
      BY <2>5, <2>6, <2>8, <2>9, <2>11, <2>13
         DEF Abstract!LaunchOSDFails, Abstract!sendStatusUpdate
    <3> QED
      BY <2>5, <3>1 DEF AbstractNext
  <2> QED
    BY <2>12, <2>13
<1> QED
  BY <1>8, <1>9

(* A container of a task that runs stops, or is removed with the           *)
(* executor's TASK_KILLED; or it comes back, after a further LAUNCH_OSD.   *)
LEMMA ContainerMoves ==
  ASSUME DistinctTasks, monHere' = monHere, NEW e \in Exec,
         \A f \in Exec : f # e => Kept(f),
         asked'[e] = asked[e], asked[e] \in Nat, answers'[e] = answers[e],
         \A v \in Update \ {"TASK_KILLED"} : Sent(e, v)' <=> Sent(e, v),
         Sent(e, "TASK_RUNNING") /\ container'[name(e)] = e
           => container[name(e)] = e \/ asked[e] >= 2
  PROVE  AbstractNext \/ UNCHANGED <<abstractNode, abstractToOSD, answers>>
<1> DEFINE t == taskId(e)
<1>1. CASE nodeState(e)' = nodeState(e)
  <2>1. Kept(e)
    BY <1>1, KeptIf
  <2> QED
    BY <2>1, AllKept
<1>2. CASE nodeState(e)' # nodeState(e)
  <2>1. /\ Sent(e, "TASK_RUNNING") /\ ~ Sent(e, "TASK_FAILED")
        /\ ~ (container'[name(e)] = e <=> container[name(e)] = e)
    BY <1>2, SameState
  <2>2. Sent(e, "TASK_RUNNING")' /\ ~ Sent(e, "TASK_FAILED")'
    BY <2>1 DEF Update
  <2>3. /\ nodeState(e) = IF container[name(e)] = e THEN "up" ELSE "zombie"
        /\ nodeState(e)' = IF container'[name(e)] = e THEN "up" ELSE "zombie"
    BY <2>1, <2>2 DEF nodeState, name
  <2> PICK s : s = nodeState(e)'
    OBVIOUS
  <2>4. answeredIds(e)' = answeredIds(e)
    BY DEF answeredIds
  <2>5. Open(e)' = Open(e)
    BY <2>4 DEF Open
  <2>6. /\ abstractNode[t].st = nodeState(e)
        /\ abstractNode' = [abstractNode EXCEPT ![t].st = s]
    BY <2>4, NodeMoves
  <2>7. /\ abstractToOSD' = abstractToOSD
        /\ answers' = [answers EXCEPT ![e] = answers'[e]]
    BY <2>5, OneMoves
  <2>8. answers' = answers
    BY <2>7 DEF answers
  <2>9. t \in localTasks
    BY TaskIdFacts
  <2>10. CASE container[name(e)] = e
    BY <2>1, <2>3, <2>6, <2>7, <2>8, <2>9, <2>10 DEF AbstractNext
  <2>11. CASE container[name(e)] # e
    <3>1. \E i, j \in abstractIds(t) : i # j
      <4>1. 1 \in 1 .. asked[e] /\ 2 \in 1 .. asked[e]
        BY <2>1, <2>11
      <4>2. abstractIds(t) = 1 .. asked[e]
        BY IdsFacts
      <4> QED
        BY <4>1, <4>2
    <3>2. /\ abstractNode[t].st = "zombie"
          /\ abstractNode' = [abstractNode EXCEPT ![t].st = "up"]
      BY <2>1, <2>3, <2>6, <2>11
    <3> QED
      BY <2>7, <2>8, <2>9, <3>1, <3>2 DEF AbstractNext
  <2> QED
    BY <2>10, <2>11
<1> QED
  BY <1>1, <1>2

(* LAUNCH_OSD is sent to an OSD that has said TASK_STARTING, with an id    *)
(* that it was not sent before.                                            *)
LEMMA LaunchOSDSent ==
  ASSUME LifeInv, DistinctNames, DistinctTasks, [Next]_vars, NEW e \in Exec,
         SendLaunchOSD(e)
  PROVE  AbstractNext
<1> DEFINE t == taskId(e)
<1>1. /\ HostInv /\ Told(e) /\ UNCHANGED <<monHere, sent, container>>
      /\ Sent(e, "TASK_STARTING") /\ asked[e] \in Nat
      /\ asked'[e] = asked[e] + 1 /\ sent[e] \in Seq(Update)
  BY DEF LifeInv, HostInv, TypeOK, SendLaunchOSD
<1>2. answers'[e] = answers[e]
  BY <1>1, SameAnswers
<1>3. Len(answers[e]) \in Nat /\ Len(answers[e]) <= asked[e] + 1
  <2>1. PICK n : IsLast(sent[e], n)
    BY <1>1 DEF Told
  <2>2. lastForwarded(sent[e]) = n /\ n \in Nat /\ n <= Len(sent[e])
    BY <1>1, <2>1, LastIs DEF IsLast
  <2> QED
    BY <1>1, <2>2 DEF answers, Told
<1>4. answeredIds(e)' = answeredIds(e)
  <2>1. answeredIds(e)' = {k \in 1 .. asked[e] + 1 : k < Len(answers[e])}
    BY <1>1, <1>2 DEF answeredIds
  <2>2. \A k : k \in 1 .. asked[e] + 1 /\ k < Len(answers[e])
               <=> k \in 1 .. asked[e] /\ k < Len(answers[e])
    BY <1>1, <1>3
  <2> QED
    BY <2>1, <2>2 DEF answeredIds
<1>5. Open(e)' = Open(e) \cup {asked[e] + 1}
  <2>1. 1 .. asked[e] + 1 = (1 .. asked[e]) \cup {asked[e] + 1}
    BY <1>1
  <2>2. asked[e] + 1 \notin answeredIds(e)
    BY <1>1 DEF answeredIds
  <2> QED
    BY <1>1, <1>4, <2>1, <2>2 DEF Open
<1>6. \A v : Sent(e, v)' <=> Sent(e, v)
  BY <1>1 DEF Sent
<1>7. nodeState(e)' = nodeState(e) /\ nodeState(e) # "launched"
  <2>1. nodeState(e)' = nodeState(e)
    BY <1>1, <1>6, SameState
  <2> QED
    BY <1>1, <2>1 DEF nodeState
<1>8. \A f \in Exec : f # e => Kept(f)
  BY <1>1, OthersKeep DEF StepOf
<1>9. /\ abstractToOSD' = abstractToOSD \cup {launchOSD(e, asked[e] + 1)}
      /\ answers' = [answers EXCEPT ![e] = answers'[e]]
  BY <1>1, <1>5, <1>8, OneMoves
<1>10. answers' = answers
  BY <1>2, <1>9 DEF answers
<1>11. /\ abstractNode[t].st = nodeState(e)
       /\ abstractNode' = [abstractNode EXCEPT ![t].st = nodeState(e)]
  <2> PICK s : s = nodeState(e)'
    OBVIOUS
  <2>1. /\ abstractNode[t].st = nodeState(e)
        /\ abstractNode' = [abstractNode EXCEPT ![t].st = s]
    BY <1>1, <1>4, <1>8, NodeMoves
  <2> QED
    BY <1>7, <2>1
<1>12. abstractNode' = abstractNode
  <2>1. /\ abstractNode[t] = NodeOf(e) /\ t \in launchedTasks
        /\ abstractNode = [k \in launchedTasks |-> abstractNode[k]]
    BY NodeFacts
  <2>2. [NodeOf(e) EXCEPT !.st = nodeState(e)] = NodeOf(e)
    BY StateUpdate DEF NodeOf
  <2> QED
    BY <1>11, <2>1, <2>2
<1>13. asked[e] + 1 \notin abstractIds(t)
  <2>1. abstractIds(t) = 1 .. asked[e]
    BY IdsFacts
  <2> QED
    BY <1>1, <2>1
<1> QED
  BY <1>7, <1>9, <1>10, <1>11, <1>12, <1>13 DEF AbstractNext

(* A step of an executor that sends nothing is not seen, but for docker    *)
(* run getting to the container of a task that runs.                       *)
LEMMA SilentStep ==
  ASSUME LifeInv, DistinctNames, DistinctTasks, [Next]_vars, NEW e \in Exec,
         StepOf(e), ~ SendLaunchOSD(e), ~ shutdown(e), sent'[e] = sent[e]
  PROVE  AbstractNext \/ UNCHANGED <<abstractNode, abstractToOSD, answers>>
<1>1. HostInv /\ TypeOK /\ Life(e) /\ monHere' = monHere
  BY SentStays DEF LifeInv, HostInv
<1>2. asked'[e] = asked[e] /\ asked[e] \in Nat
  BY <1>1, AskedBy DEF TypeOK
<1>3. answers'[e] = answers[e]
  BY SameAnswers
<1>4. \A v : Sent(e, v)' <=> Sent(e, v)
  BY DEF Sent
<1>5. ASSUME Sent(e, "TASK_RUNNING"), container'[name(e)] = e,
             container[name(e)] # e
      PROVE  asked[e] >= 2
  <2>1. container' # container
    BY <1>5
  <2>2. ~ removeExisting(e)
    BY <1>5, <1>1, RemoveOwned, TaskFacts DEF removeExisting, HostInv
  <2>3. dockerRun(e)
    BY <2>1, <2>2 DEF StepOf, handler, LaunchTask, existsConfigFiles,
       createLocalSharedConfigDir, copySharedConfigFiles, poll, stat,
       LaunchOSD, prepareDisks, dockerRunFails, GraceExpires, ExecutorDies,
       hostVars
  <2>4. starting[e] > 0
    BY <1>1, <2>3, GotToAfter DEF dockerRun
  <2>5. forked[e] \in Nat /\ starting[e] \in Nat
    BY <1>1 DEF TypeOK
  <2> QED
    BY <1>1, <1>2, <1>5, <2>4, <2>5 DEF Life
<1>6. \A f \in Exec : f # e => Kept(f)
  BY <1>1, OthersKeep
<1> QED
  BY <1>1, <1>2, <1>3, <1>4, <1>5, <1>6, ContainerMoves

(* The step that ends a handler is the step of module CephExecutor.        *)
LEMMA StepRefines ==
  ASSUME LifeInv, DistinctNames, DistinctTasks, [Next]_vars, NEW e \in Exec,
         StepOf(e)
  PROVE  AbstractNext \/ UNCHANGED <<abstractNode, abstractToOSD, answers>>
<1> USE DEF sendStatusUpdate, Goto
<1>1. /\ HostInv /\ Life(e) /\ Told(e) /\ Order(e) /\ monHere' = monHere
      /\ sent \in [Exec -> Seq(Update)] /\ TypeOK
  BY SentStays DEF LifeInv, HostInv, TypeOK
<1>2. CASE createLocalSharedConfigDir(e) \/ copySharedConfigFiles(e)
  <2>1. /\ pc[e] \in {"mkdir", "copy"} /\ asked' = asked
        /\ \/ sent' = sent
           \/ sent' = [sent EXCEPT ![e] = Append(@, "TASK_FAILED")]
    BY <1>2 DEF createLocalSharedConfigDir, copySharedConfigFiles
  <2>2. sent[e] = << >>
    BY <1>1, <2>1 DEF Order
  <2>3. CASE sent' = [sent EXCEPT ![e] = Append(@, "TASK_FAILED")]
    BY <2>1, <2>2, <2>3, LaunchTaskEnds
  <2>4. CASE sent' = sent
    <3>1. ~ SendLaunchOSD(e) /\ ~ shutdown(e)
      BY <1>1, <2>1, <2>2, NothingSent DEF SendLaunchOSD, shutdown
    <3> QED
      BY <2>4, <3>1, SilentStep
  <2> QED
    BY <2>1, <2>3, <2>4
<1>3. CASE removeExisting(e)
  <2>1. pc[e] = "remove" /\ asked' = asked /\ sent[e] = << >>
    BY <1>1, <1>3 DEF removeExisting, Order
  <2>2. CASE Task[e].type = "OSD"
    <3>1. sent' = [sent EXCEPT ![e] = Append(@, "TASK_STARTING")]
      BY <1>3, <2>2 DEF removeExisting
    <3> QED
      BY <2>1, <2>2, <3>1, LaunchTaskEnds
  <2>3. CASE Task[e].type # "OSD"
    <3>1. sent' = sent
      BY <1>3, <2>3 DEF removeExisting
    <3>2. ~ SendLaunchOSD(e) /\ ~ shutdown(e)
      BY <2>1, NothingSent DEF SendLaunchOSD, shutdown
    <3> QED
      BY <3>1, <3>2, SilentStep
  <2> QED
    BY <2>2, <2>3
<1>4. CASE stat(e)
  <2>1. PICK u \in {"TASK_RUNNING", "TASK_FAILED"} :
          /\ sent' = [sent EXCEPT ![e] = Append(@, u)]
          /\ u = "TASK_RUNNING" => container[name(e)] # NoExec
    BY <1>4 DEF stat
  <2>2. pc[e] = "stat" /\ asked' = asked /\ container' = container
    BY <1>4 DEF stat, hostVars
  <2>3. u = "TASK_RUNNING" => container'[name(e)] = e
    BY <1>1, <2>1, <2>2, OwnContainer
  <2>4. CASE Task[e].type = "OSD"
    BY <2>1, <2>2, <2>3, <2>4, LaunchOSDEnds
  <2>5. CASE Task[e].type # "OSD"
    <3>1. sent[e] = << >>
      BY <1>1, <2>2, <2>5 DEF Life
    <3> QED
      BY <2>1, <2>2, <2>3, <2>5, <3>1, LaunchTaskEnds
  <2> QED
    BY <2>4, <2>5
<1>5. CASE shutdown(e)
  <2>1. /\ sent' = [sent EXCEPT ![e] = Append(@, "TASK_KILLED")]
        /\ asked' = asked /\ "TASK_KILLED" \in Update
    BY <1>5 DEF shutdown, Update
  <2>2. \A v \in Update \ {"TASK_KILLED"} : Sent(e, v)' <=> Sent(e, v)
    BY <1>1, <2>1, SendAfter
  <2>3. answers'[e] = answers[e]
    BY <1>1, <2>1, Answered
  <2>4. container'[name(e)] = e => container[name(e)] = e
    BY <1>1, <1>5, RemoveOwned, TaskFacts DEF shutdown, HostInv
  <2>5. \A f \in Exec : f # e => Kept(f)
    BY <1>1, OthersKeep
  <2>6. asked'[e] = asked[e] /\ asked[e] \in Nat
    BY <1>1, <2>1 DEF TypeOK
  <2> QED
    BY <1>1, <2>2, <2>3, <2>4, <2>5, <2>6, ContainerMoves
<1>6. CASE SendLaunchOSD(e)
  BY <1>6, LaunchOSDSent
<1>7. CASE /\ ~ SendLaunchOSD(e) /\ ~ shutdown(e)
           /\ \/ LaunchTask(e) \/ LaunchOSD(e) \/ GraceExpires(e)
              \/ ExecutorDies(e) \/ dockerRun(e) \/ dockerRunFails(e)
              \/ existsConfigFiles(e) \/ poll(e) \/ prepareDisks(e)
  <2>1. sent' = sent
    BY <1>7 DEF LaunchTask, LaunchOSD, GraceExpires, ExecutorDies, dockerRun,
       dockerRunFails, existsConfigFiles, poll, prepareDisks
  <2> QED
    BY <1>7, <2>1, SilentStep
<1> QED
  BY <1>2, <1>3, <1>4, <1>5, <1>6, <1>7 DEF StepOf, handler

(* The executors of a host, whose handlers are sequences of shell commands *)
(* that interleave, implement the executors of module CephExecutor, whose  *)
(* handlers are one step: for any number of executors, runs, faults and    *)
(* LAUNCH_OSD to the same executor.                                        *)
THEOREM HandlersAreAtomic ==
  ASSUME DistinctNames, DistinctTasks PROVE Spec => ImplementsCephExecutor
<1>1. LifeInv /\ [Next]_vars
        => [AbstractNext]_<<abstractNode, abstractToOSD, answers>>
  <2> SUFFICES ASSUME LifeInv, [Next]_vars
               PROVE  \/ AbstractNext
                      \/ UNCHANGED <<abstractNode, abstractToOSD, answers>>
    OBVIOUS
  <2>1. CASE \E e \in Exec : StepOf(e)
    BY <2>1, StepRefines
  <2>2. CASE \E n \in Name : containerExits(n)
    <3>1. PICK n \in Name : containerExits(n)
      BY <2>2
    <3>2. PICK e \in Exec : name(e) = n
      BY DEF Name, name
    <3>3. UNCHANGED <<monHere, sent, asked>> /\ removeContainer(n)
      BY <3>1 DEF containerExits
    <3>4. /\ container \in [Name -> Exec \cup {NoExec}]
          /\ asked \in [Exec -> Nat] /\ ContainerOwned /\ TypeOK
      BY DEF LifeInv, HostInv, TypeOK
    <3>5. ASSUME NEW f \in Exec
          PROVE  /\ \A v : Sent(f, v)' <=> Sent(f, v)
                 /\ answers'[f] = answers[f]
      BY <3>3, SameAnswers DEF Sent
    <3>6. ASSUME NEW f \in Exec, f # e PROVE Kept(f)
      <4>1. name(f) # n /\ name(f) \in Name
        BY <3>2, <3>6, TaskFacts DEF DistinctNames
      <4>2. container'[name(f)] = container[name(f)]
        BY <3>3, <3>4, <4>1 DEF removeContainer
      <4>3. nodeState(f)' = nodeState(f)
        BY <3>5, <4>2, SameState
      <4> QED
        BY <3>3, <3>5, <4>3, KeptIf
    <3>7. container'[name(e)] = e => container[name(e)] = e
      BY <3>3, <3>4, RemoveOwned
    <3> QED
      BY <3>3, <3>4, <3>5, <3>6, <3>7, ContainerMoves
  <2>3. CASE SchedulerStops \/ UNCHANGED vars
    <3>1. UNCHANGED <<monHere, sent, asked, container>>
      BY <2>3 DEF SchedulerStops, vars
    <3>2. answers' = answers
      BY <3>1 DEF answers, lastForwarded
    <3>3. \A e \in Exec : answeredIds(e)' = answeredIds(e)
      BY <3>1, <3>2 DEF answeredIds
    <3> QED
      BY <3>1, <3>2, <3>3 DEF abstractNode, abstractToOSD, nodeState, Sent,
                              launchedTasks, answeredIds
  <2> QED
    BY <2>1, <2>2, <2>3 DEF Next, StepOf
<1> QED
  BY <1>1, LifeAlways, PTL DEF ImplementsCephExecutor, Spec
=============================================================================
