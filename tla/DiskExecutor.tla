---------------------------- MODULE DiskExecutor ----------------------------
(***************************************************************************)
(* The disk executor (src/src/executor/DiskExecutor.cpp) disk by disk: the *)
(* partitions it makes and formats, the report it sends and what the       *)
(* scheduler reads in it (statusUpdate in                                  *)
(* src/src/scheduler/CephSchedulerAgent.hpp).                              *)
(***************************************************************************)
EXTENDS StringUtil

CONSTANT Disks  \* the disks of the host; a disk is a number

ASSUME DiskExecutorAssumption == Disks \subseteq Nat

VARIABLES
  myHostname,    \* the name of the slave, as a text
  mayFail,       \* disks that may fail while they are prepared
  task,          \* the labels of the task: [osd, jnl, parts], or NoTask
  step,          \* new, preparing, finished
  pending,       \* [osd, jnl]: the disks still to be prepared
  failed,        \* [osd, jnl]: failedOSDDevs and failedJNLDevs
  table,         \* disk -> the partitions made on it, in percent
  formatted,     \* disk -> how many of them have a file system
  message,       \* the text of TASK_FINISHED, << >> before that
  read,          \* the scheduler has got the message
  report         \* what it read in it

diskVars == <<myHostname, mayFail, task, step, pending, failed, table,
              formatted, message, read, report>>

NoDisks == [osd |-> << >>, jnl |-> << >>]
NoTask == [osd |-> << >>, jnl |-> << >>, parts |-> 0]
NotRead == [host |-> << >>, devs |-> {}]

diskInit(name, bad) ==
  /\ myHostname = name
  /\ mayFail = bad
  /\ task = NoTask
  /\ step = "new"
  /\ pending = NoDisks
  /\ failed = NoDisks
  /\ table = [d \in Disks |-> << >>]
  /\ formatted = [d \in Disks |-> 0]
  /\ message = << >>
  /\ read = FALSE
  /\ report = NotRead

-----------------------------------------------------------------------------
(* launchTask                                                              *)

addPendingDisks ==
  /\ step = "new"
  /\ task # NoTask
  /\ pending' = [osd |-> task.osd, jnl |-> task.jnl]
  /\ step' = "preparing"
  /\ UNCHANGED <<myHostname, mayFail, task, failed, table, formatted, message,
                 read, report>>

partitionCount(kind) == IF kind = "osd" THEN 1 ELSE task.parts

partitionDisk_roundedUp(n) ==
  [i \in 1 .. n |-> [start |-> (i - 1) * ((99 + n) \div n),
                     end   |-> i * ((99 + n) \div n)]]

(* start = end; end = start + 100/partitionCount.  The first one starts at *)
(* one megabyte, which counts as no percent.                               *)
partitionDisk(n) ==
  [i \in 1 .. n |-> [start |-> (i - 1) * (100 \div n),
                     end   |-> i * (100 \div n)]]

(* OSD disks come first.                                                   *)
current == IF pending.osd # << >> THEN "osd" ELSE "jnl"

checkSuccess_partitionsOnly(n, parts, fs) == parts = n

(* What counts is what the partition table says afterwards.                *)
checkSuccess(n, parts, fs) == parts = n /\ fs = n

(* Partitions are made and formatted.  On a disk that fails, both stop     *)
(* early; the results of the commands are not looked at.                   *)
prepareDisk ==
  /\ step = "preparing"
  /\ pending[current] # << >>
  /\ LET d == Head(pending[current])
         n == partitionCount(current)
     IN  \E parts \in 0 .. n : \E fs \in 0 .. parts :
           /\ parts < n \/ fs < n => d \in mayFail
           /\ table' = [table EXCEPT ![d] = SubSeq(partitionDisk(n), 1, parts)]
           /\ formatted' = [formatted EXCEPT ![d] = fs]
           /\ failed' = IF checkSuccess(n, parts, fs) THEN failed
                        ELSE [failed EXCEPT ![current] = Append(@, d)]
  /\ pending' = [pending EXCEPT ![current] = Tail(@)]
  /\ UNCHANGED <<myHostname, mayFail, task, step, message, read,
                 report>>

DISK_READY == 2

(* A comma after each of some disks.                                       *)
commas(devs) == [i \in 1 .. 2 * Len(devs) |->
                   IF i % 2 = 1 THEN devs[i \div 2 + 1] ELSE Comma]

(* A comma follows each failed OSD disk, but only the last of the failed   *)
(* journal disks.                                                          *)
prepareReturnValue ==
  LET jnl == failed.jnl \o (IF failed.jnl = << >> THEN << >> ELSE <<Comma>>)
      tmp == commas(failed.osd) \o jnl
  IN  <<DISK_READY, Dot>> \o myHostname
        \o <<Colon>> \o (IF tmp = << >> THEN <<Dash>> ELSE tmp)

(* TASK_FINISHED                                                           *)
launchTaskEnds ==
  /\ step = "preparing"
  /\ pending = NoDisks
  /\ message' = prepareReturnValue
  /\ step' = "finished"
  /\ UNCHANGED <<myHostname, mayFail, task, pending, failed, table, formatted,
                 read, report>>

-----------------------------------------------------------------------------
(* The scheduler splits at dots, colons and commas.  Without a second part *)
(* after the colon it reads past the end of the vector.  devs is the       *)
(* vector of that name inside the if, which hides the one that is used     *)
(* afterwards (run failed_disk).                                           *)
diskReady(text) ==
  LET failedDevs == explode(explode(text, Dot)[2], Colon)
  IN  IF Len(failedDevs) < 2 THEN NotRead
      ELSE [host |-> failedDevs[1],
            devs |-> IF failedDevs[2] = <<Dash>> THEN {}
                     ELSE Range(explode(failedDevs[2], Comma))]

statusUpdate ==
  /\ message # << >>
  /\ ~ read
  /\ read' = TRUE
  /\ report' = diskReady(message)
  /\ UNCHANGED <<myHostname, mayFail, task, step, pending, failed, table,
                 formatted, message>>

(* Only the host that the report names is done with its preparation.       *)
haveDoneDiskPreparation == report.host = myHostname

-----------------------------------------------------------------------------
(* Properties.                                                             *)

(* The partitions of a disk do not overlap, are not empty and end on the   *)
(* disk, whatever 100/partitionCount rounds to.                            *)
PartitionsFit ==
  \A d \in Disks : \A i, j \in DOMAIN table[d] :
    /\ table[d][i].start < table[d][i].end
    /\ table[d][i].end <= 100
    /\ i < j => table[d][i].end <= table[d][j].start
=============================================================================
