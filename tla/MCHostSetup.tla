---------------------------- MODULE MCHostSetup -----------------------------
EXTENDS HostSetup

(* Disks 11 and 12 for OSDs, 21 and 22 for journals.                       *)
MCDisks == {11, 12, 21, 22}
MCDiskLists ==
  [v \in 0 .. 2 |-> CASE v = 0 -> NoDisks
                      [] v = 1 -> [osd |-> <<11>>, jnl |-> << >>]
                      [] v = 2 -> [osd |-> <<11, 12>>, jnl |-> <<21, 22>>]]
MCPartCounts == [v \in 0 .. 3 |-> CASE v = 0 -> 4 [] v = 1 -> 1
                                    [] v = 2 -> 3 [] v = 3 -> 7]

(* Every network has a number above 0.                                     *)
MaskLengths == OctetBits * Octets + 1
AddressOf(k) ==
  [i \in 1 .. Octets |->
     (k \div 2 ^ (OctetBits * (Octets - i))) % 2 ^ OctetBits]
MCNetworks ==
  [v \in 0 .. 2 ^ (OctetBits * Octets) * MaskLengths |->
     IF v = 0 THEN NoNetwork
     ELSE <<AddressOf((v - 1) \div MaskLengths), (v - 1) % MaskLengths>>]

ShortName == <<7>>
FullName == <<7, Dot, 8>>
OneAddress == << AddressOf(1) >>

Files(fields, values) ==
  {[f \in fields |-> IF f \in Required THEN 1 ELSE g[f]] :
     g \in [fields -> values]}

(* Many files and command lines, and disks that do not fail.               *)
ConfigCases ==
  [flags : {<< >>, [zookeeper |-> 2, restport |-> 2],
            [id |-> 2, jnlparts |-> 2]},
   file  : UNION {Files(s, 0 .. 2) :
                    s \in {Field, Required, Required \cup {"mgmtdev"},
                           HostField \cup {"id"}}} \cup {NoFile},
   host  : UNION {Files(s, 0 .. 2) :
                    s \in {{}, {"jnlparts"}, {"mgmtdev", "osddevs"},
                           HostField}},
   name  : {ShortName}, bad : {{}}, ips : {OneAddress}]

(* Every way that disks may fail, for each count of partitions.            *)
DiskCases ==
  [flags : {<< >>}, host : {<< >>}, ips : {OneAddress},
   file  : {[f \in Field |-> CASE f = "osddevs" -> 2 [] f = "jnlparts" -> v
                               [] OTHER -> 1] : v \in 0 .. 3},
   name  : {ShortName, FullName},
   bad   : SUBSET {12, 21, 22}]

(* Every host with one or two addresses in every network.                  *)
NetworkCases ==
  [flags : {<< >>}, host : {<< >>}, name : {ShortName}, bad : {{}},
   file  : {[f \in Field |-> CASE f = "mgmtdev" -> v [] f = "osddevs" -> 0
                               [] OTHER -> 1] :
              v \in DOMAIN MCNetworks \ {0}},
   ips   : UNION {[1 .. n -> Address] : n \in 1 .. 2}]

MCCases == ConfigCases \cup DiskCases \cup NetworkCases
=============================================================================
