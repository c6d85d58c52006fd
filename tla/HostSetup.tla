----------------------------- MODULE HostSetup ------------------------------
(***************************************************************************)
(* What happens to a host before its first MON: the scheduler reads its    *)
(* configuration (Config), the first offer of the host makes it read the   *)
(* host's configuration and launch the disk executor (DiskExecutor), whose *)
(* report it waits for, and then the MON takes its address from the        *)
(* network that was configured (PublicNetwork).                            *)
(***************************************************************************)
EXTENDS Config, DiskExecutor, PublicNetwork

CONSTANTS Cases,      \* [flags, file, host, name, bad, ips]: what is given
          DiskLists,  \* value of osddevs -> [osd, jnl]: lists of disks
          PartCounts, \* value of jnlparts -> the count
          Networks    \* value of mgmtdev -> the network

(* A flag or a file says nothing of a field, or a value with a meaning.    *)
meaningful(given) ==
  /\ "osddevs" \in DOMAIN given => given["osddevs"] \in DOMAIN DiskLists
  /\ "jnlparts" \in DOMAIN given => given["jnlparts"] \in DOMAIN PartCounts
  /\ "mgmtdev" \in DOMAIN given => given["mgmtdev"] \in DOMAIN Networks

(* No disk is listed twice, and a host name is words and dots.             *)
ASSUME HostSetupAssumption ==
  /\ DiskLists[0] = NoDisks
  /\ \A v \in DOMAIN DiskLists :
       LET devs == DiskLists[v]
       IN  /\ devs \in [osd : Seq(Disks), jnl : Seq(Disks)]
           /\ IsInjective(devs.osd) /\ IsInjective(devs.jnl)
           /\ Range(devs.osd) \cap Range(devs.jnl) = {}
  /\ PartCounts[0] = 4
  /\ \A v \in DOMAIN PartCounts : PartCounts[v] \in 1 .. 100
  /\ Networks[0] = NoNetwork
  /\ \A v \in DOMAIN Networks \ {0} : Networks[v] \in Network
  /\ EditValues \cup {0} \subseteq
       DOMAIN DiskLists \cap DOMAIN PartCounts \cap DOMAIN Networks
  /\ \A c \in Cases :
       /\ meaningful(c.flags) /\ meaningful(c.file) /\ meaningful(c.host)
       /\ c.name \in Seq(Nat \cup {Dot})
       /\ c.ips \in Seq(Address)

vars == <<configVars, diskVars, netVars>>

Init ==
  \E c \in Cases : /\ configInit(c.flags, c.file, c.host)
                   /\ diskInit(c.name, c.bad)
                   /\ netInit(c.ips)

-----------------------------------------------------------------------------
(* main                                                                    *)
GetConfig == get_config /\ UNCHANGED <<diskVars, netVars>>

(* The labels osddevs, jnldevs and the count; without disks no task.       *)
tryLaunchDiskTask(hostconfig) ==
  LET devs == DiskLists[hostconfig.osddevs]
  IN  IF devs = NoDisks THEN NoTask
      ELSE [osd |-> devs.osd, jnl |-> devs.jnl,
            parts |-> PartCounts[hostconfig.jnlparts]]

(* resourceOffers: addConfig, and then the disk task.                      *)
FirstOffer ==
  /\ get_config_by_hostname
  /\ task' = IF pc' = "known" THEN tryLaunchDiskTask(hostConfig') ELSE NoTask
  /\ UNCHANGED <<myHostname, mayFail, step, pending, failed, table, formatted,
                 message, read, report, netVars>>

AddPendingDisks == addPendingDisks /\ UNCHANGED <<configVars, netVars>>
PrepareDisk == prepareDisk /\ UNCHANGED <<configVars, netVars>>
LaunchTaskEnds == launchTaskEnds /\ UNCHANGED <<configVars, netVars>>
StatusUpdate == statusUpdate /\ UNCHANGED <<configVars, netVars>>

isPreparingDisk == task # NoTask /\ ~ haveDoneDiskPreparation

(* A MON is launched with the label mgmtdev, not while disks are prepared. *)
LaunchMon ==
  /\ pc = "known"
  /\ ~ isPreparingDisk
  /\ constructMonCommand(Networks[hostConfig.mgmtdev])
  /\ UNCHANGED <<configVars, diskVars>>

EditFile == EditDefaultFile /\ UNCHANGED <<diskVars, netVars>>

Next ==
  \/ GetConfig
  \/ EditFile
  \/ FirstOffer
  \/ AddPendingDisks
  \/ PrepareDisk
  \/ LaunchTaskEnds
  \/ StatusUpdate
  \/ LaunchMon

Spec == Init /\ [][Next]_vars

-----------------------------------------------------------------------------
(* Properties, besides those of Config and DiskExecutor.                   *)

(* The disks that are configured for the host and are not prepared.        *)
NotPrepared ==
  LET devs == DiskLists[hostConfig.osddevs]
      n == PartCounts[hostConfig.jnlparts]
  IN  [osd |-> {d \in Range(devs.osd) : formatted[d] < 1},
       jnl |-> {d \in Range(devs.jnl) : formatted[d] < n}]

(* From the report the scheduler reads the host's name and exactly the     *)
(* disks of its configuration that are not fully partitioned and           *)
(* formatted, unless two journal disks failed, whose names run together,   *)
(* or the host's name has a dot, where it is cut.                          *)
ReportRead ==
  read /\ (\A d, e \in NotPrepared.jnl : d = e) /\ Dot \notin Range(myHostname)
    => /\ report.host = myHostname
       /\ report.devs = {<<d>> : d \in NotPrepared.osd \cup NotPrepared.jnl}

(* The MON listens on the first address of the host in the network that is *)
(* configured for the host, if there is one and its netmask ends at an     *)
(* octet, although only whole octets of the texts are compared.            *)
MonInPublicNetwork ==
  LET network == Networks[hostConfig.mgmtdev]
      inside == {i \in DOMAIN addresses : InNetwork(addresses[i], network)}
  IN  MON_IP # NoIP /\ network # NoNetwork /\ network[2] % OctetBits = 0 =>
        MON_IP = octetText(IF inside = {} THEN HostnameIP
                                          ELSE addresses[Min(inside)])
=============================================================================
