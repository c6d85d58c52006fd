--------------------------- MODULE HostSetupProofs --------------------------
(***************************************************************************)
(* The configuration and the partitions of a host, for every command line, *)
(* all files, edits and lists of disks and every way that disks fail.      *)
(***************************************************************************)
EXTENDS HostSetup, FiniteSetTheorems, WellFoundedInduction, TLAPS

-----------------------------------------------------------------------------
(* What is given and what the scheduler and the host make of it.           *)

(* The steps after the configuration leave it alone.                       *)
LEMMA ConfigKept ==
  ASSUME [Next]_vars
  PROVE  GetConfig \/ EditFile \/ FirstOffer \/ UNCHANGED configVars
BY DEF Next, vars, AddPendingDisks, PrepareDisk, LaunchTaskEnds, StatusUpdate,
       LaunchMon

(* A host's configuration is what its file, the command line and the       *)
(* default file say, in this order, for all of them and all edits.         *)
THEOREM HostSettingsAlwaysWin == Spec => []HostSettingsWin
<1>1. Init => HostSettingsWin
  BY DEF Init, configInit, HostSettingsWin
<1>2. HostSettingsWin /\ [Next]_vars => HostSettingsWin'
  <2> SUFFICES ASSUME HostSettingsWin, [Next]_vars, pc' = "known",
                      NEW f \in HostField,
                      f \in DOMAIN hostFile' => hostFile'[f] # 0
               PROVE  hostConfig'[f] = Given(f)'
    BY DEF HostSettingsWin
  <2>1. CASE FirstOffer
    <3>1. /\ UNCHANGED <<FLAGS, defaultFile, hostFile>>
          /\ hostConfig' = merge_config(parse_config_string(defaultFile),
                                        parse_config_string(hostFile))
      BY <2>1 DEF FirstOffer, get_config_by_hostname
    <3>2. f \in Field /\ f \notin {"id", "zookeeper", "restport"}
      BY DEF HostField, Field
    <3>3. hostConfig'[f] = IF parse_config_string(hostFile)[f] = 0
                             THEN parse_config_string(defaultFile)[f]
                             ELSE parse_config_string(hostFile)[f]
      BY <3>1, <3>2 DEF merge_config
    <3>4. \A file : parse_config_string(file)[f] =
                      IF f \in DOMAIN file THEN file[f]
                      ELSE IF f \in Flagged THEN FLAGS[f] ELSE 0
      BY <3>2 DEF parse_config_string
    <3> QED
      BY <3>1, <3>3, <3>4 DEF Given
  <2>2. CASE UNCHANGED configVars
    BY <2>2 DEF configVars, HostSettingsWin, Given
  <2>3. CASE GetConfig \/ EditFile
    BY <2>3 DEF GetConfig, get_config, EditFile, EditDefaultFile
  <2> QED
    BY <2>1, <2>2, <2>3, ConfigKept
<1> QED
  BY <1>1, <1>2, PTL DEF Spec

-----------------------------------------------------------------------------
(* The partitions of a disk.                                               *)

Fits(parts) ==
  \A i, j \in DOMAIN parts :
    /\ parts[i].start < parts[i].end
    /\ parts[i].end <= 100
    /\ i < j => parts[i].end <= parts[j].start

(* 100/n rounds down to at least one percent, and n of them fit.           *)
LEMMA Rounding ==
  ASSUME NEW n \in 1 .. 100
  PROVE  100 \div n \in Nat \ {0} /\ n * (100 \div n) <= 100
<1>1. 100 \div n \in Int /\ 100 \div n >= 1
  OBVIOUS
<1> QED
  BY <1>1

(* A longer run of partitions ends no earlier.                             *)
LEMMA Monotone ==
  ASSUME NEW w \in Nat, NEW i \in Nat, NEW j \in Nat, i <= j
  PROVE  i * w \in Nat /\ j * w \in Nat /\ i * w <= j * w
OBVIOUS

(* What partitionDisk makes fits, also when it stops early.                *)
LEMMA PartitionFits ==
  ASSUME NEW n \in 1 .. 100, NEW p \in 0 .. n
  PROVE  Fits(SubSeq(partitionDisk(n), 1, p))
<1>1. PICK w \in Nat \ {0} : w = 100 \div n /\ n * w <= 100
  BY Rounding
<1>2. PICK s : s = SubSeq(partitionDisk(n), 1, p)
  OBVIOUS
<1>3. DOMAIN s = 1 .. p
  BY <1>2
<1>4. ASSUME NEW i \in 1 .. p
      PROVE  s[i].start = (i - 1) * w /\ s[i].end = i * w
  BY <1>1, <1>2 DEF partitionDisk
<1>5. ASSUME NEW i \in 1 .. p, NEW j \in 1 .. p
      PROVE  /\ s[i].start < s[i].end
             /\ s[i].end <= 100
             /\ i < j => s[i].end <= s[j].start
  <2>1. (i - 1) * w < i * w
    OBVIOUS
  <2>2. i * w <= n * w /\ i * w \in Nat /\ n * w \in Nat
    BY Monotone
  <2>3. i < j => i * w <= (j - 1) * w
    <3>1. j - 1 \in Nat /\ (i < j => i <= j - 1)
      OBVIOUS
    <3> QED
      BY <3>1, Monotone
  <2>4. i * w <= 100
    BY <1>1, <2>2
  <2>5. /\ s[i].start = (i - 1) * w /\ s[i].end = i * w
        /\ s[j].start = (j - 1) * w
    BY <1>4
  <2> QED
    BY <2>1, <2>3, <2>4, <2>5
<1> QED
  BY <1>2, <1>3, <1>5 DEF Fits

(* The count of partitions that the executor is given is one the           *)
(* configuration knows, and it prepares disks only for a task.             *)
DiskInv ==
  /\ "jnlparts" \in DOMAIN FLAGS
  /\ meaningful(FLAGS) /\ meaningful(defaultFile) /\ meaningful(hostFile)
  /\ pc # "known" => task = NoTask
  /\ step # "new" => task # NoTask
  /\ task # NoTask => task.parts \in 1 .. 100
  /\ table \in [Disks -> Seq([start : Int, end : Int])]
  /\ PartitionsFit

(* Initially there is no task.                                             *)
LEMMA InitDisks == Init => DiskInv
<1> SUFFICES ASSUME Init PROVE DiskInv
  OBVIOUS
<1>1. PICK c \in Cases : configInit(c.flags, c.file, c.host)
                           /\ diskInit(c.name, c.bad)
  BY DEF Init
<1>2. /\ FLAGS = [f \in Flagged |->
                    IF f \in DOMAIN c.flags THEN c.flags[f] ELSE 0]
      /\ defaultFile = c.file /\ hostFile = c.host /\ pc = "start"
  BY <1>1 DEF configInit
<1>3. "jnlparts" \in DOMAIN FLAGS /\ meaningful(FLAGS)
  BY <1>2, HostSetupAssumption DEF Flagged, meaningful
<1>4. meaningful(defaultFile) /\ meaningful(hostFile)
  BY <1>2, HostSetupAssumption
<1>5. task = NoTask /\ step = "new" /\ table = [d \in Disks |-> << >>]
  BY <1>1 DEF diskInit
<1> QED
  BY <1>2, <1>3, <1>4, <1>5 DEF DiskInv, PartitionsFit

(* The first offer makes the task.                                         *)
LEMMA FirstOfferDisks ==
  ASSUME DiskInv, FirstOffer
  PROVE  DiskInv'
<1>1. /\ pc = "running" /\ task = NoTask /\ step = "new"
      /\ UNCHANGED <<FLAGS, defaultFile, hostFile, step, table>>
  BY DEF DiskInv, FirstOffer, get_config_by_hostname
<1>2. CASE pc' # "known"
  BY <1>1, <1>2 DEF DiskInv, FirstOffer, meaningful, PartitionsFit
<1>3. CASE pc' = "known"
  <2>1. hostConfig' = merge_config(parse_config_string(defaultFile),
                                   parse_config_string(hostFile))
    BY <1>3 DEF FirstOffer, get_config_by_hostname
  <2>2. \A file : meaningful(file) =>
          parse_config_string(file).jnlparts \in DOMAIN PartCounts
    BY HostSetupAssumption
       DEF DiskInv, meaningful, parse_config_string, Field, Flagged
  <2>3. hostConfig'.jnlparts \in DOMAIN PartCounts
    BY <2>1, <2>2 DEF merge_config, Field, DiskInv
  <2>4. PartCounts[hostConfig'.jnlparts] \in 1 .. 100
    BY <2>3, HostSetupAssumption
  <2>5. task' = tryLaunchDiskTask(hostConfig')
    BY <1>3 DEF FirstOffer
  <2>6. task' # NoTask => task'.parts = PartCounts[hostConfig'.jnlparts]
    BY <2>5 DEF tryLaunchDiskTask
  <2>7. PartitionsFit'
    BY <1>1 DEF DiskInv, PartitionsFit
  <2>8. (meaningful(FLAGS) /\ meaningful(defaultFile)
           /\ meaningful(hostFile))'
    BY <1>1 DEF DiskInv, meaningful
  <2>9. task' # NoTask => task'.parts \in 1 .. 100
    BY <2>4, <2>6
  <2> QED
    BY <1>1, <1>3, <2>7, <2>8, <2>9 DEF DiskInv
<1> QED
  BY <1>2, <1>3

(* A disk is partitioned.                                                  *)
LEMMA PrepareDisks ==
  ASSUME DiskInv, PrepareDisk
  PROVE  DiskInv'
<1>1. /\ step = "preparing" /\ task # NoTask
      /\ UNCHANGED <<configVars, task, step>>
  BY DEF DiskInv, PrepareDisk, prepareDisk
<1>2. PICK n \in 1 .. 100 : n = partitionCount(current)
  BY <1>1 DEF DiskInv, partitionCount
<1>3. PICK d : d = Head(pending[current])
  OBVIOUS
<1>4. PICK p \in 0 .. n :
        table' = [table EXCEPT ![d] = SubSeq(partitionDisk(n), 1, p)]
  BY <1>2, <1>3 DEF PrepareDisk, prepareDisk
<1>5. PICK s : s = SubSeq(partitionDisk(n), 1, p)
  OBVIOUS
<1>6. Fits(s)
  BY <1>5, PartitionFits
<1>7. s \in Seq([start : Int, end : Int])
  <2>1. 100 \div n \in Int
    BY Rounding
  <2>2. partitionDisk(n) \in [1 .. n -> [start : Int, end : Int]]
    BY <2>1 DEF partitionDisk
  <2> QED
    BY <1>5, <2>2
<1>8. /\ table' \in [Disks -> Seq([start : Int, end : Int])]
      /\ \A e \in Disks : table'[e] = IF e = d THEN s ELSE table[e]
  BY <1>4, <1>5, <1>7 DEF DiskInv
<1>9. PartitionsFit'
  <2>1. \A e \in Disks : Fits(table[e])
    BY DEF DiskInv, PartitionsFit, Fits
  <2>2. \A e \in Disks : Fits(table'[e])
    BY <1>6, <1>8, <2>1
  <2> QED
    BY <2>2 DEF PartitionsFit, Fits
<1> QED
  BY <1>1, <1>8, <1>9 DEF DiskInv, meaningful, configVars

(* Every step keeps this.                                                  *)
LEMMA NextDisks == DiskInv /\ [Next]_vars => DiskInv'
<1> SUFFICES ASSUME DiskInv, [Next]_vars PROVE DiskInv'
  OBVIOUS
<1>1. CASE GetConfig
  BY <1>1 DEF GetConfig, get_config, diskVars, DiskInv, meaningful,
     PartitionsFit
<1>2. CASE EditFile
  <2>1. UNCHANGED <<FLAGS, hostFile, pc, task, step, table>>
    BY <1>2 DEF EditFile, EditDefaultFile, diskVars
  <2>2. meaningful(defaultFile')
    BY <1>2, HostSetupAssumption
       DEF EditFile, EditDefaultFile, DiskInv, meaningful, NoFile
  <2> QED
    BY <2>1, <2>2 DEF DiskInv, meaningful, PartitionsFit
<1>3. CASE AddPendingDisks
  BY <1>3 DEF AddPendingDisks, addPendingDisks, configVars, DiskInv,
     meaningful, PartitionsFit
<1>4. CASE LaunchTaskEnds
  <2>1. UNCHANGED <<configVars, task, table>> /\ step = "preparing"
    BY <1>4 DEF LaunchTaskEnds, launchTaskEnds
  <2> QED
    BY <2>1 DEF configVars, DiskInv, meaningful, PartitionsFit
<1>5. CASE StatusUpdate \/ LaunchMon \/ UNCHANGED vars
  <2>1. UNCHANGED <<configVars, task, step, table>>
    BY <1>5 DEF StatusUpdate, statusUpdate, LaunchMon, vars, diskVars
  <2> QED
    BY <2>1 DEF configVars, DiskInv, meaningful, PartitionsFit
<1> QED
  BY <1>1, <1>2, <1>3, <1>4, <1>5, FirstOfferDisks, PrepareDisks DEF Next

(* The partitions of every disk fit, for every count of partitions up to   *)
(* 100 and wherever the preparation of a disk stops.                       *)
THEOREM PartitionsAlwaysFit == Spec => []PartitionsFit
<1>1. DiskInv => PartitionsFit
  BY DEF DiskInv
<1> QED
  BY <1>1, InitDisks, NextDisks, PTL DEF Spec

-----------------------------------------------------------------------------
(* Texts: where explode cuts them.                                         *)

(* Multiples of w are at least w apart.                                    *)
LEMMA NextMultiple ==
  ASSUME NEW w \in Nat, NEW i \in Nat, NEW j \in Nat, i < j
  PROVE  i * w \in Nat /\ j * w \in Nat /\ i * w + w <= j * w
<1>1. (i + 1) * w <= j * w
  <2>1. i + 1 \in Nat /\ i + 1 <= j
    OBVIOUS
  <2> QED
    BY <2>1, Monotone
<1> QED
  BY <1>1

(* A number without remainder is a multiple.                               *)
LEMMA NoRemainder ==
  ASSUME NEW w \in Nat, w # 0, NEW i \in Nat, i % w = 0
  PROVE  \E k \in Nat : i = k * w
<1>1. i \div w \in Int /\ i = (i \div w) * w + (i % w) /\ i \div w >= 0
  OBVIOUS
<1> QED
  BY <1>1

(* A least element of a set of numbers is its minimum.                     *)
LEMMA MinIs ==
  ASSUME NEW S, S \subseteq Int, NEW m \in S, \A k \in S : m <= k
  PROVE  Min(S) = m
<1>1. \A x \in S : (\A y \in S : x <= y) => x = m
  OBVIOUS
<1>2. Min(S) \in S /\ \A y \in S : Min(S) <= y
  BY DEF Min
<1> QED
  BY <1>1, <1>2

(* The first k values of an increasing function are k numbers.             *)
LEMMA FirstValues ==
  ASSUME NEW n \in Nat, NEW b \in [1 .. n -> Nat],
         \A i, j \in 1 .. n : i < j => b[i] < b[j],
         NEW k \in 0 .. n
  PROVE  Cardinality({b[i] : i \in 1 .. k}) = k
<1>1. PICK f : f = [i \in 1 .. k |-> b[i]]
  OBVIOUS
<1>2. PICK T : T = {b[i] : i \in 1 .. k}
  OBVIOUS
<1>3. \A i, j \in 1 .. k : f[i] = f[j] => i = j
  <2> SUFFICES ASSUME NEW i \in 1 .. k, NEW j \in 1 .. k, f[i] = f[j], i # j
               PROVE  FALSE
    OBVIOUS
  <2>1. i \in 1 .. n /\ j \in 1 .. n /\ b[i] = b[j]
    BY <1>1
  <2>2. i < j \/ j < i
    OBVIOUS
  <2>3. b[i] \in Nat /\ b[j] \in Nat /\ (b[i] < b[j] \/ b[j] < b[i])
    BY <2>1, <2>2
  <2> QED
    BY <2>1, <2>3
<1>4. f \in [1 .. k -> T] /\ \A t \in T : \E i \in 1 .. k : f[i] = t
  BY <1>1, <1>2
<1>5. f \in Bijection(1 .. k, T)
  BY <1>3, <1>4 DEF Bijection, Injection, Surjection, IsInjective
<1>6. ExistsBijection(1 .. k, T)
  BY <1>5 DEF ExistsBijection
<1>7. IsFiniteSet(1 .. k) /\ Cardinality(1 .. k) = k
  <2>1. 1 \in Int /\ k \in Int
    OBVIOUS
  <2>2. IsFiniteSet(1 .. k)
        /\ Cardinality(1 .. k) = IF 1 > k THEN 0 ELSE k - 1 + 1
    BY <2>1, FS_Interval
  <2> QED
    BY <2>2
<1>8. Cardinality(T) = Cardinality(1 .. k)
  BY <1>6, <1>7, FS_Bijection
<1> QED
  BY <1>2, <1>7, <1>8

(* S is the set of the n values of the increasing function b.              *)
Listed(S, b, n) ==
  /\ b \in [1 .. n -> Nat]
  /\ \A i, j \in 1 .. n : i < j => b[i] < b[j]
  /\ S = {b[i] : i \in 1 .. n}

(* Its k-th element is the k-th value.                                     *)
LEMMA NthIs ==
  ASSUME NEW n \in Nat, NEW b, NEW S, Listed(S, b, n)
  PROVE  Cardinality(S) = n /\ \A k \in 1 .. n : nth(S, k) = b[k]
<1> SUFFICES ASSUME b \in [1 .. n -> Nat],
                    \A i, j \in 1 .. n : i < j => b[i] < b[j],
                    S = {b[i] : i \in 1 .. n}
             PROVE  Cardinality(S) = n /\ \A k \in 1 .. n : nth(S, k) = b[k]
  BY DEF Listed
<1>1. Cardinality(S) = n
  BY FirstValues
<1>2. ASSUME NEW k \in 1 .. n
      PROVE  Cardinality({j \in S : j <= b[k]}) = k
  <2>1. \A i \in 1 .. n : b[i] <= b[k] <=> i <= k
    <3> SUFFICES ASSUME NEW i \in 1 .. n PROVE b[i] <= b[k] <=> i <= k
      OBVIOUS
    <3>1. b[i] \in Nat /\ b[k] \in Nat
      OBVIOUS
    <3>2. i < k \/ i = k \/ k < i
      OBVIOUS
    <3>3. CASE i < k
      BY <3>1, <3>3
    <3>4. CASE i = k
      BY <3>1, <3>4
    <3>5. CASE k < i
      BY <3>1, <3>5
    <3> QED
      BY <3>2, <3>3, <3>4, <3>5
  <2>2. {j \in S : j <= b[k]} = {b[i] : i \in 1 .. k}
    BY <2>1
  <2>3. k \in 0 .. n
    OBVIOUS
  <2> QED
    BY <2>2, <2>3, FirstValues
<1>3. ASSUME NEW k \in 1 .. n PROVE nth(S, k) = b[k]
  <2>1. b[k] \in S /\ Cardinality({j \in S : j <= b[k]}) = k
    BY <1>2
  <2>2. PICK x : x = nth(S, k)
    OBVIOUS
  <2>3. x \in S /\ Cardinality({j \in S : j <= x}) = k
    BY <2>1, <2>2 DEF nth
  <2>4. PICK m \in 1 .. n : x = b[m]
    BY <2>3
  <2>5. m = k
    BY <1>2, <2>3, <2>4
  <2> QED
    BY <2>2, <2>4, <2>5
<1> QED
  BY <1>1, <1>3

(* A text is cut at b and e, where its tokens start and where the next     *)
(* delimiter or the end of the text is.                                    *)
CutAt(s, d, n, b, e) ==
  /\ Listed(starts(s, d), b, n)
  /\ e \in [1 .. n -> Nat]
  /\ \A k \in 1 .. n : /\ b[k] <= e[k] /\ e[k] <= Len(s) + 1
                       /\ \A j \in b[k] .. e[k] - 1 : s[j] # d
                       /\ e[k] = Len(s) + 1 \/ s[e[k]] = d

(* explode returns the pieces.                                             *)
LEMMA Exploded ==
  ASSUME NEW s \in Seq(Int), NEW d, NEW n \in Nat, NEW b, NEW e,
         CutAt(s, d, n, b, e)
  PROVE  explode(s, d) = [k \in 1 .. n |-> SubSeq(s, b[k], e[k] - 1)]
<1>1. /\ Cardinality(starts(s, d)) = n
      /\ \A k \in 1 .. n : nth(starts(s, d), k) = b[k]
  BY NthIs DEF CutAt
<1>2. ASSUME NEW k \in 1 .. n PROVE stop(s, d, b[k]) = e[k]
  <2>1. /\ b[k] \in Nat /\ e[k] \in Nat /\ b[k] <= e[k] /\ e[k] <= Len(s) + 1
        /\ \A j \in b[k] .. e[k] - 1 : s[j] # d
        /\ e[k] = Len(s) + 1 \/ s[e[k]] = d
    BY DEF CutAt, Listed
  <2>2. PICK S : S = {j \in b[k] .. Len(s) : s[j] = d} \cup {Len(s) + 1}
    OBVIOUS
  <2>3. Len(s) \in Nat
    OBVIOUS
  <2>4. S \subseteq Int /\ e[k] \in S
    BY <2>1, <2>2, <2>3
  <2>5. \A j \in S : e[k] <= j
    BY <2>1, <2>2, <2>3
  <2>6. Min(S) = e[k]
    BY <2>4, <2>5, MinIs
  <2> QED
    BY <2>2, <2>6 DEF stop
<1>3. explode(s, d) =
        [k \in 1 .. Cardinality(starts(s, d)) |->
           SubSeq(s, nth(starts(s, d), k),
                  stop(s, d, nth(starts(s, d), k)) - 1)]
  BY DEF explode
<1> QED
  BY <1>1, <1>2, <1>3

(* A piece of a text, from where it is.                                    *)
LEMMA SubSeqIs ==
  ASSUME NEW s \in Seq(Int), NEW x \in Seq(Int), NEW a \in Nat,
         a + Len(x) <= Len(s), \A i \in 1 .. Len(x) : s[a + i] = x[i]
  PROVE  SubSeq(s, a + 1, a + Len(x)) = x
<1>1. PICK t : t = SubSeq(s, a + 1, a + Len(x))
  OBVIOUS
<1>2. Len(x) \in Nat /\ Len(s) \in Nat
  OBVIOUS
<1>3. t \in Seq(Int) /\ Len(t) = Len(x)
  BY <1>1, <1>2
<1>4. ASSUME NEW i \in 1 .. Len(x) PROVE t[i] = x[i]
  <2>1. t[i] = s[a + i]
    BY <1>1, <1>2
  <2> QED
    BY <2>1
<1> QED
  BY <1>1, <1>3, <1>4

(* A symbol that is not in a text is at no place of it.                    *)
LEMMA NotInText ==
  ASSUME NEW x \in Seq(Int), NEW d, d \notin Range(x)
  PROVE  \A i \in 1 .. Len(x) : x[i] # d
<1>1. DOMAIN x = 1 .. Len(x)
  OBVIOUS
<1> QED
  BY <1>1, Zenon DEF Range

(* A text with one delimiter that is not its last symbol has two tokens.   *)
LEMMA TwoTokens ==
  ASSUME NEW x \in Seq(Int), NEW y \in Seq(Int), NEW d \in Int,
         d \notin Range(x), d \notin Range(y), y # << >>
  PROVE  LET t == explode(x \o <<d>> \o y, d)
         IN  Len(t) = 2 /\ t[1] = x /\ t[2] = y
<1>1. PICK s : s = x \o <<d>> \o y
  OBVIOUS
<1>2. PICK m \in Nat : m = Len(x)
  OBVIOUS
<1>3. PICK l \in Nat \ {0} : l = Len(y)
  OBVIOUS
<1>4. /\ s \in Seq(Int) /\ Len(s) = m + 1 + l
      /\ \A i \in 1 .. m : s[i] = x[i]
      /\ s[m + 1] = d
      /\ \A i \in 1 .. l : s[m + 1 + i] = y[i]
  BY <1>1, <1>2, <1>3
<1>5. /\ \A i \in 1 .. m : s[i] # d
      /\ \A i \in m + 2 .. m + 1 + l : s[i] # d
  <2>1. /\ \A i \in 1 .. m : x[i] # d
        /\ \A i \in 1 .. l : y[i] # d
    BY <1>2, <1>3, NotInText
  <2>2. ASSUME NEW i \in m + 2 .. m + 1 + l PROVE s[i] # d
    <3>1. PICK j \in 1 .. l : i = m + 1 + j
      <4>1. i - (m + 1) \in 1 .. l /\ i = m + 1 + (i - (m + 1))
        OBVIOUS
      <4> QED
        BY <4>1
    <3> QED
      BY <1>4, <2>1, <3>1
  <2> QED
    BY <1>4, <2>1, <2>2
<1>6. PICK b : b = [k \in 1 .. 2 |-> IF k = 1 THEN 1 ELSE m + 2]
  OBVIOUS
<1>7. PICK e : e = [k \in 1 .. 2 |-> IF k = 1 THEN m + 1 ELSE m + l + 2]
  OBVIOUS
<1>8. CutAt(s, d, 2, b, e)
  <2>1. b \in [1 .. 2 -> Nat] /\ e \in [1 .. 2 -> Nat]
    BY <1>6, <1>7
  <2>2. \A i, j \in 1 .. 2 : i < j => b[i] < b[j]
    BY <1>6
  <2>3. starts(s, d) = {1, m + 2}
    <3>1. ASSUME NEW i \in 1 .. Len(s)
          PROVE  (i = 1 \/ s[i - 1] = d) <=> i \in {1, m + 2}
      <4>1. CASE i = 1
        BY <4>1
      <4>2. CASE i # 1
        <5>1. i - 1 \in 1 .. m + l
          BY <1>4, <4>2
        <5>2. s[i - 1] = d <=> i - 1 = m + 1
          BY <1>4, <1>5, <5>1
        <5> QED
          BY <4>2, <5>1, <5>2
      <4> QED
        BY <4>1, <4>2
    <3>2. 1 \in 1 .. Len(s) /\ m + 2 \in 1 .. Len(s)
      BY <1>4
    <3> QED
      BY <3>1, <3>2 DEF starts
  <2>4. {b[i] : i \in 1 .. 2} = {1, m + 2}
    BY <1>6
  <2>5. ASSUME NEW k \in 1 .. 2
        PROVE  /\ b[k] <= e[k] /\ e[k] <= Len(s) + 1
               /\ \A j \in b[k] .. e[k] - 1 : s[j] # d
               /\ e[k] = Len(s) + 1 \/ s[e[k]] = d
    <3>1. CASE k = 1
      BY <1>4, <1>5, <1>6, <1>7, <3>1
    <3>2. CASE k = 2
      BY <1>4, <1>5, <1>6, <1>7, <3>2
    <3> QED
      BY <3>1, <3>2
  <2> QED
    BY <2>1, <2>2, <2>3, <2>4, <2>5 DEF CutAt, Listed
<1>9. explode(s, d) = [k \in 1 .. 2 |-> SubSeq(s, b[k], e[k] - 1)]
  <2>1. PICK n \in Nat : n = 2
    OBVIOUS
  <2>2. CutAt(s, d, n, b, e)
    BY <1>8, <2>1
  <2>3. explode(s, d) = [k \in 1 .. n |-> SubSeq(s, b[k], e[k] - 1)]
    <3>1. s \in Seq(Int)
      BY <1>4
    <3> QED
      BY <2>2, <3>1, Exploded
  <2> QED
    BY <2>1, <2>3
<1>10. SubSeq(s, 1, m) = x /\ SubSeq(s, m + 2, m + l + 1) = y
  <2>1. SubSeq(s, 0 + 1, 0 + Len(x)) = x
    <3>1. 0 + Len(x) <= Len(s) /\ \A i \in 1 .. Len(x) : s[0 + i] = x[i]
      BY <1>2, <1>4
    <3> QED
      BY <1>4, <3>1, SubSeqIs
  <2>2. SubSeq(s, (m + 1) + 1, (m + 1) + Len(y)) = y
    <3>1. m + 1 \in Nat /\ (m + 1) + Len(y) <= Len(s)
          /\ \A i \in 1 .. Len(y) : s[(m + 1) + i] = y[i]
      BY <1>3, <1>4
    <3> QED
      BY <1>4, <3>1, SubSeqIs
  <2>3. /\ 0 + 1 = 1 /\ 0 + Len(x) = m
        /\ (m + 1) + 1 = m + 2 /\ (m + 1) + Len(y) = m + l + 1
    BY <1>2, <1>3
  <2> QED
    BY <2>1, <2>2, <2>3
<1>11. PICK t : t = explode(s, d)
  OBVIOUS
<1>12. /\ t = [k \in 1 .. 2 |-> SubSeq(s, b[k], e[k] - 1)]
       /\ b[1] = 1 /\ e[1] - 1 = m /\ b[2] = m + 2 /\ e[2] - 1 = m + l + 1
  BY <1>6, <1>7, <1>9, <1>11
<1>13. t[1] = x /\ t[2] = y
  <2>1. /\ t[1] = SubSeq(s, b[1], e[1] - 1)
        /\ t[2] = SubSeq(s, b[2], e[2] - 1)
    <3>1. 1 \in 1 .. 2 /\ 2 \in 1 .. 2
      OBVIOUS
    <3> QED
      BY <1>12, <3>1, Zenon
  <2> QED
    BY <1>10, <1>12, <2>1
<1>14. Len(t) = 2
  BY <1>12
<1> QED
  BY <1>1, <1>11, <1>13, <1>14

(* A text with a delimiter after every w - 1 symbols, except perhaps after *)
(* the last ones.                                                          *)
Striped(s, d, w, n) ==
  /\ w >= 2
  /\ Len(s) = n * w \/ Len(s) = n * w - 1
  /\ \A i \in 1 .. Len(s) : s[i] = d <=> i % w = 0

(* Its tokens are the symbols in between.                                  *)
LEMMA EvenTokens ==
  ASSUME NEW s \in Seq(Int), NEW d \in Int, NEW w \in Nat, NEW n \in Nat,
         Striped(s, d, w, n)
  PROVE  explode(s, d) =
           [k \in 1 .. n |-> SubSeq(s, (k - 1) * w + 1, k * w - 1)]
<1>1. /\ w >= 2
      /\ Len(s) = n * w \/ Len(s) = n * w - 1
      /\ \A i \in 1 .. Len(s) : s[i] = d <=> i % w = 0
  BY DEF Striped
<1>2. w >= 2 /\ (Len(s) = n * w \/ Len(s) = n * w - 1)
  BY <1>1
<1>3. w >= 2
  BY <1>1
<1>4. PICK b : b = [k \in 1 .. n |-> (k - 1) * w + 1]
  OBVIOUS
<1>5. PICK e : e = [k \in 1 .. n |-> k * w]
  OBVIOUS
<1>6. n * w \in Nat /\ Len(s) \in Nat
  OBVIOUS
<1>7. ASSUME NEW k \in 1 .. n
      PROVE  /\ (k - 1) * w \in Nat /\ k * w \in Nat
             /\ k * w = (k - 1) * w + w /\ k * w <= n * w
             /\ (k * w) % w = 0
             /\ \A r \in 1 .. w - 1 : ((k - 1) * w + r) % w = r
  BY <1>3
<1>8. ASSUME NEW i \in 1 .. n, NEW j \in 1 .. n, i < j
      PROVE  (i - 1) * w + 1 < (j - 1) * w + 1
  <2>1. i - 1 \in Nat /\ j - 1 \in Nat /\ i - 1 < j - 1
    BY <1>8
  <2>2. /\ (i - 1) * w \in Nat /\ (j - 1) * w \in Nat
        /\ (i - 1) * w + w <= (j - 1) * w
    BY <2>1, NextMultiple
  <2> QED
    BY <1>3, <2>2
<1>9. starts(s, d) = {b[k] : k \in 1 .. n}
  <2>1. ASSUME NEW i \in starts(s, d) PROVE \E k \in 1 .. n : i = b[k]
    <3>1. i \in 1 .. Len(s) /\ (i # 1 => s[i - 1] = d)
      BY DEF starts
    <3>2. i # 1 => (i - 1) % w = 0
      <4>1. i # 1 => i - 1 \in 1 .. Len(s)
        BY <1>6, <3>1
      <4>2. \A j \in 1 .. Len(s) : s[j] = d => j % w = 0
        BY <1>1
      <4> QED
        BY <3>1, <4>1, <4>2
    <3>3. (i - 1) % w = 0
      BY <1>3, <3>1, <3>2
    <3>4. PICK k \in Nat : i - 1 = k * w
      <4>1. i - 1 \in Nat /\ w # 0
        BY <1>2, <3>1
      <4> QED
        BY <3>3, <4>1, NoRemainder
    <3>5. k * w < n * w
      <4>1. PICK N \in Nat : N = n * w
        BY <1>6
      <4>2. PICK q \in Nat : q = k * w
        OBVIOUS
      <4>3. /\ Len(s) = N \/ Len(s) = N - 1
            /\ i \in 1 .. Len(s) /\ i - 1 = q /\ Len(s) \in Nat
        BY <1>2, <1>6, <3>1, <3>4, <4>1, <4>2
      <4>4. q < N
        BY <4>3
      <4> QED
        BY <4>1, <4>2, <4>4
    <3>6. k < n
      BY <3>5
    <3>7. k + 1 \in 1 .. n /\ b[k + 1] = i
      <4>1. k + 1 \in 1 .. n /\ (k + 1) - 1 = k
        BY <3>6
      <4>2. b[k + 1] = ((k + 1) - 1) * w + 1
        BY <1>4, <4>1
      <4> QED
        BY <3>1, <3>4, <4>1, <4>2
    <3> QED
      BY <3>7
  <2>2. ASSUME NEW k \in 1 .. n PROVE b[k] \in starts(s, d)
    <3>1. b[k] = (k - 1) * w + 1 /\ (k - 1) * w \in Nat
          /\ (k - 1) * w + w <= n * w
      BY <1>4, <1>7
    <3>2. b[k] \in 1 .. Len(s)
      <4>1. PICK q \in Nat : q = (k - 1) * w
        BY <3>1
      <4>2. PICK N \in Nat : N = n * w
        BY <1>6
      <4>3. /\ b[k] = q + 1 /\ q + w <= N
            /\ Len(s) = N \/ Len(s) = N - 1
        BY <1>2, <3>1, <4>1, <4>2
      <4> QED
        BY <1>6, <1>2, <4>3
    <3>3. CASE k = 1
      BY <3>1, <3>2, <3>3 DEF starts
    <3>4. CASE k # 1
      <4>1. k - 1 \in 1 .. n
        BY <3>4
      <4>2. ((k - 1) * w) % w = 0 /\ (k - 1) * w = (k - 2) * w + w
            /\ (k - 2) * w \in Nat
        BY <4>1, <1>7
      <4>3. b[k] - 1 \in 1 .. Len(s) /\ (b[k] - 1) % w = 0
        BY <1>3, <3>1, <3>2, <4>2
      <4> QED
        BY <1>1, <3>2, <4>3 DEF starts
    <3> QED
      BY <3>3, <3>4
  <2> QED
    BY <2>1, <2>2
<1>10. ASSUME NEW k \in 1 .. n
       PROVE  /\ b[k] <= e[k] /\ e[k] <= Len(s) + 1
              /\ \A j \in b[k] .. e[k] - 1 : s[j] # d
              /\ e[k] = Len(s) + 1 \/ s[e[k]] = d
  <2>1. PICK q \in Nat : q = (k - 1) * w
    BY <1>7
  <2>2. /\ b[k] = q + 1 /\ e[k] = q + w /\ q + w <= n * w
        /\ (q + w) % w = 0
        /\ \A r \in 1 .. w - 1 : (q + r) % w = r
    BY <1>4, <1>5, <1>7, <2>1
  <2>3. b[k] <= e[k] /\ e[k] <= Len(s) + 1
    BY <1>6, <1>2, <2>2
  <2>4. ASSUME NEW j \in b[k] .. e[k] - 1 PROVE s[j] # d
    <3>1. PICK r \in 1 .. w - 1 : j = q + r
      <4>1. j - q \in 1 .. w - 1 /\ j = q + (j - q)
        BY <2>2
      <4> QED
        BY <4>1
    <3>2. (q + r) % w = r
      BY <2>2
    <3>3. j % w # 0
      BY <3>1, <3>2
    <3>4. j \in 1 .. Len(s)
      BY <2>2, <2>3, <1>6
    <3> QED
      BY <1>1, <3>4, <3>3
  <2>5. e[k] = Len(s) + 1 \/ e[k] \in 1 .. Len(s)
    <3>1. e[k] \in Nat /\ e[k] >= 1
      BY <1>3, <2>2
    <3>2. PICK l \in Nat : l = Len(s)
      BY <1>6
    <3>3. e[k] <= l + 1
      BY <2>3, <3>2
    <3>4. e[k] = l + 1 \/ e[k] \in 1 .. l
      BY <3>1, <3>3
    <3> QED
      BY <3>2, <3>4
  <2>6. e[k] \in 1 .. Len(s) => s[e[k]] = d
    BY <1>1, <2>2
  <2> QED
    BY <2>3, <2>4, <2>5, <2>6
<1>11. b \in [1 .. n -> Nat] /\ e \in [1 .. n -> Nat]
  <2>1. ASSUME NEW k \in 1 .. n
        PROVE  (k - 1) * w + 1 \in Nat /\ k * w \in Nat
    <3>1. (k - 1) * w \in Nat /\ k * w \in Nat
      BY <1>7
    <3> QED
      BY <3>1
  <2> QED
    BY <1>4, <1>5, <2>1
<1>12. \A i, j \in 1 .. n : i < j => b[i] < b[j]
  BY <1>4, <1>8
<1>13. CutAt(s, d, n, b, e)
  BY <1>9, <1>10, <1>11, <1>12 DEF CutAt, Listed
<1>14. explode(s, d) = [k \in 1 .. n |-> SubSeq(s, b[k], e[k] - 1)]
  BY <1>13, Exploded
<1> QED
  BY <1>4, <1>5, <1>14

-----------------------------------------------------------------------------
(* The report.                                                             *)

(* What is in two texts.                                                   *)
LEMMA RangeConcat ==
  ASSUME NEW x \in Seq(Int), NEW y \in Seq(Int)
  PROVE  x \o y \in Seq(Int) /\ Range(x \o y) = Range(x) \cup Range(y)
<1>1. PICK s : s = x \o y
  OBVIOUS
<1>2. /\ s \in Seq(Int) /\ Len(s) = Len(x) + Len(y)
      /\ DOMAIN s = 1 .. Len(x) + Len(y)
      /\ DOMAIN x = 1 .. Len(x) /\ DOMAIN y = 1 .. Len(y)
      /\ Len(x) \in Nat /\ Len(y) \in Nat
  BY <1>1
<1>3. /\ \A i \in 1 .. Len(x) : s[i] = x[i]
      /\ \A i \in 1 .. Len(y) : s[Len(x) + i] = y[i]
  BY <1>1
<1>4. ASSUME NEW i \in DOMAIN s PROVE s[i] \in Range(x) \cup Range(y)
  <2>1. CASE i <= Len(x)
    BY <1>2, <1>3, <2>1 DEF Range
  <2>2. CASE i > Len(x)
    <3>1. PICK j \in 1 .. Len(y) : i = Len(x) + j
      <4>1. i - Len(x) \in 1 .. Len(y) /\ i = Len(x) + (i - Len(x))
        BY <1>2, <2>2
      <4> QED
        BY <4>1
    <3> QED
      BY <1>2, <1>3, <3>1 DEF Range
  <2> QED
    BY <1>2, <2>1, <2>2
<1>5. ASSUME NEW i \in DOMAIN x PROVE x[i] \in Range(s)
  <2>1. i \in DOMAIN s /\ s[i] = x[i]
    BY <1>2, <1>3
  <2> QED
    BY <2>1 DEF Range
<1>6. ASSUME NEW i \in DOMAIN y PROVE y[i] \in Range(s)
  <2>1. Len(x) + i \in DOMAIN s /\ s[Len(x) + i] = y[i]
    BY <1>2, <1>3
  <2> QED
    BY <2>1 DEF Range
<1>7. Range(s) \subseteq Range(x) \cup Range(y)
  BY <1>4, Zenon DEF Range
<1>8. Range(x) \subseteq Range(s) /\ Range(y) \subseteq Range(s)
  <2>1. \A v \in Range(x) : \E i \in DOMAIN x : v = x[i]
    BY Zenon DEF Range
  <2>2. \A v \in Range(y) : \E i \in DOMAIN y : v = y[i]
    BY Zenon DEF Range
  <2> QED
    BY <1>5, <1>6, <2>1, <2>2
<1>9. Range(s) = Range(x) \cup Range(y)
  BY <1>7, <1>8
<1> QED
  BY <1>1, <1>2, <1>9

(* Texts are joined in any order.                                          *)
LEMMA Associative ==
  ASSUME NEW x \in Seq(Int), NEW y \in Seq(Int), NEW z \in Seq(Int)
  PROVE  (x \o y) \o z = x \o (y \o z)
<1>1. PICK u : u = (x \o y) \o z
  OBVIOUS
<1>2. PICK v : v = x \o (y \o z)
  OBVIOUS
<1>3. PICK n \in Nat : n = Len(x) + Len(y) + Len(z)
  OBVIOUS
<1>4. u \in Seq(Int) /\ v \in Seq(Int) /\ Len(u) = n /\ Len(v) = n
  BY <1>1, <1>2, <1>3
<1>5. ASSUME NEW i \in 1 .. n PROVE u[i] = v[i]
  BY <1>1, <1>2, <1>3
<1>6. DOMAIN u = 1 .. n /\ DOMAIN v = 1 .. n
  BY <1>4
<1>7. u = v
  BY <1>4, <1>5, <1>6
<1> QED
  BY <1>1, <1>2, <1>7

(* What is in a text of one symbol.                                        *)
LEMMA RangeOne ==
  ASSUME NEW c \in Int
  PROVE  <<c>> \in Seq(Int) /\ Range(<<c>>) = {c}
<1>1. DOMAIN <<c>> = {1} /\ <<c>>[1] = c
  OBVIOUS
<1> QED
  BY <1>1 DEF Range

(* A piece of one symbol.                                                  *)
LEMMA OneSymbol ==
  ASSUME NEW s \in Seq(Int), NEW m \in 1 .. Len(s)
  PROVE  SubSeq(s, m, m) = <<s[m]>>
<1>1. PICK x : x = <<s[m]>>
  OBVIOUS
<1>2. PICK a \in Nat : a = m - 1
  OBVIOUS
<1>3. x \in Seq(Int) /\ Len(x) = 1 /\ x[1] = s[m]
  BY <1>1
<1>4. a + Len(x) <= Len(s) /\ \A i \in 1 .. Len(x) : s[a + i] = x[i]
  BY <1>2, <1>3
<1>5. SubSeq(s, a + 1, a + Len(x)) = x
  BY <1>3, <1>4, SubSeqIs
<1>6. a + 1 = m /\ a + Len(x) = m
  BY <1>2, <1>3
<1> QED
  BY <1>1, <1>5, <1>6

(* The scheduler gets the name and the rest of a report apart.             *)
LEMMA ReportSplit ==
  ASSUME NEW name \in Seq(Nat), NEW tmp \in Seq(Int), tmp # << >>,
         Dot \notin Range(tmp), Colon \notin Range(tmp)
  PROVE  LET t == explode(explode(<<DISK_READY, Dot>> \o name \o <<Colon>>
                                    \o tmp, Dot)[2], Colon)
         IN  Len(t) = 2 /\ t[1] = name /\ t[2] = tmp
<1>1. /\ Dot \in Int /\ Colon \in Int /\ DISK_READY \in Int /\ Dot # Colon
      /\ Dot # DISK_READY /\ Dot \notin Nat /\ Colon \notin Nat
  BY DEF Dot, Colon, DISK_READY
<1>2. name \in Seq(Int) /\ Dot \notin Range(name) /\ Colon \notin Range(name)
  <2>1. name \in Seq(Int) /\ \A i \in DOMAIN name : name[i] \in Nat
    OBVIOUS
  <2> QED
    BY <1>1, <2>1 DEF Range
<1>3. PICK rest : rest = name \o <<Colon>> \o tmp
  OBVIOUS
<1>4. rest \in Seq(Int) /\ Dot \notin Range(rest) /\ rest # << >>
  <2>1. PICK c : c = <<Colon>>
    OBVIOUS
  <2>2. c \in Seq(Int) /\ Len(c) = 1
    BY <1>1, <2>1
  <2>3. Range(c) = {Colon}
    BY <1>1, <2>1, RangeOne
  <2>4. PICK t : t = name \o c
    OBVIOUS
  <2>5. t \in Seq(Int) /\ Range(t) = Range(name) \cup Range(c)
    BY <1>2, <2>2, <2>4, RangeConcat
  <2>6. rest = t \o tmp
    BY <1>3, <2>1, <2>4
  <2>7. rest \in Seq(Int) /\ Range(rest) = Range(t) \cup Range(tmp)
    BY <2>5, <2>6, RangeConcat
  <2>8. Dot \notin Range(rest)
    BY <1>1, <1>2, <2>3, <2>5, <2>7
  <2>9. rest # << >>
    <3>1. Len(rest) = Len(t) + Len(tmp)
      BY <2>5, <2>6
    <3>2. Len(t) \in Nat /\ Len(tmp) \in Nat /\ Len(tmp) # 0
      BY <2>5
    <3> QED
      BY <3>1, <3>2
  <2> QED
    BY <2>7, <2>8, <2>9
<1>5. <<DISK_READY, Dot>> \o name \o <<Colon>> \o tmp
        = <<DISK_READY>> \o <<Dot>> \o rest
  <2>1. PICK p : p = <<DISK_READY, Dot>>
    OBVIOUS
  <2>2. p \in Seq(Int) /\ p = <<DISK_READY>> \o <<Dot>>
    BY <1>1, <2>1
  <2>3. PICK c : c = <<Colon>>
    OBVIOUS
  <2>4. c \in Seq(Int) /\ name \o c \in Seq(Int)
    BY <1>1, <1>2, <2>3
  <2>5. ((p \o name) \o c) = p \o (name \o c)
    BY <1>2, <2>2, <2>4, Associative
  <2>6. (p \o (name \o c)) \o tmp = p \o ((name \o c) \o tmp)
    BY <2>2, <2>4, Associative
  <2> QED
    BY <1>3, <2>1, <2>2, <2>3, <2>5, <2>6
<1>6. explode(<<DISK_READY>> \o <<Dot>> \o rest, Dot)[2] = rest
  <2>1. PICK x : x = <<DISK_READY>>
    OBVIOUS
  <2>2. x \in Seq(Int) /\ Dot \notin Range(x)
    BY <1>1, <2>1, RangeOne
  <2>3. explode(x \o <<Dot>> \o rest, Dot)[2] = rest
    BY <1>1, <1>4, <2>2, TwoTokens
  <2> QED
    BY <2>1, <2>3
<1>7. PICK t : t = explode(name \o <<Colon>> \o tmp, Colon)
  OBVIOUS
<1>8. Len(t) = 2 /\ t[1] = name /\ t[2] = tmp
  BY <1>1, <1>2, <1>7, TwoTokens
<1> QED
  BY <1>3, <1>5, <1>6, <1>7, <1>8

(* Disks with a comma after each are read as these disks.                  *)
LEMMA CommasRead ==
  ASSUME NEW devs \in Seq(Disks)
  PROVE  /\ commas(devs) \in Seq(Nat \cup {Comma})
         /\ Len(commas(devs)) = 2 * Len(devs)
         /\ Range(explode(commas(devs), Comma)) = {<<d>> : d \in Range(devs)}
<1>1. PICK n \in Nat : n = Len(devs)
  OBVIOUS
<1>2. PICK s : s = commas(devs)
  OBVIOUS
<1>3. /\ \A k \in 1 .. n : devs[k] \in Nat
      /\ DOMAIN devs = 1 .. n
  <2>1. DOMAIN devs = 1 .. n /\ \A k \in 1 .. n : devs[k] \in Disks
    BY <1>1
  <2> QED
    BY <2>1, DiskExecutorAssumption
<1>4. /\ Comma \in Int /\ Comma \notin Nat
  BY DEF Comma
<1>5. ASSUME NEW k \in 1 .. n
      PROVE  /\ 2 * k - 1 \in 1 .. 2 * n /\ 2 * k \in 1 .. 2 * n
             /\ (2 * k - 1) % 2 = 1 /\ (2 * k - 1) \div 2 + 1 = k
             /\ (2 * k) % 2 = 0
  OBVIOUS
<1>6. s = [i \in 1 .. 2 * n |-> IF i % 2 = 1 THEN devs[i \div 2 + 1]
                                ELSE Comma]
  BY <1>1, <1>2 DEF commas
<1>7. ASSUME NEW i \in 1 .. 2 * n
      PROVE  /\ s[i] \in Nat \cup {Comma}
             /\ s[i] = Comma <=> i % 2 = 0
  <2>1. i % 2 = 1 => i \div 2 + 1 \in 1 .. n
    OBVIOUS
  <2>2. i % 2 = 0 \/ i % 2 = 1
    OBVIOUS
  <2>3. s[i] = IF i % 2 = 1 THEN devs[i \div 2 + 1] ELSE Comma
    BY <1>6
  <2>4. CASE i % 2 = 1
    BY <1>3, <1>4, <2>1, <2>3, <2>4
  <2>5. CASE i % 2 = 0
    BY <2>3, <2>5
  <2> QED
    BY <2>2, <2>4, <2>5
<1>8. s \in Seq(Nat \cup {Comma}) /\ Len(s) = 2 * n
  <2>1. \A S : s \in [1 .. 2 * n -> S] => s \in Seq(S) /\ Len(s) = 2 * n
    <3>1. 2 * n \in Nat
      OBVIOUS
    <3> QED
      BY <3>1
  <2>2. s \in [1 .. 2 * n -> Nat \cup {Comma}]
    BY <1>6, <1>7
  <2> QED
    BY <2>1, <2>2
<1>9. explode(s, Comma) =
        [k \in 1 .. n |-> SubSeq(s, (k - 1) * 2 + 1, k * 2 - 1)]
  <2>1. s \in Seq(Int)
    BY <1>4, <1>8
  <2>2. PICK w \in Nat : w = 2
    OBVIOUS
  <2>3. w >= 2 /\ Len(s) = n * w
    BY <1>8, <2>2
  <2>4. Striped(s, Comma, w, n)
    BY <1>7, <1>8, <2>2, <2>3 DEF Striped
  <2>5. explode(s, Comma) =
          [k \in 1 .. n |-> SubSeq(s, (k - 1) * w + 1, k * w - 1)]
    BY <1>4, <2>1, <2>4, EvenTokens
  <2> QED
    BY <2>2, <2>5
<1>10. ASSUME NEW k \in 1 .. n
       PROVE  SubSeq(s, (k - 1) * 2 + 1, k * 2 - 1) = <<devs[k]>>
  <2>1. (k - 1) * 2 + 1 = 2 * k - 1 /\ k * 2 - 1 = 2 * k - 1
    OBVIOUS
  <2>2. s[2 * k - 1] = devs[k]
    BY <1>5, <1>6
  <2>3. PICK m \in 1 .. 2 * n : m = 2 * k - 1
    BY <1>5
  <2>4. SubSeq(s, m, m) = <<s[m]>>
    <3>1. s \in Seq(Int) /\ s[m] \in Int /\ m \in 1 .. Len(s)
      BY <1>4, <1>8
    <3> QED
      BY <3>1, OneSymbol
  <2> QED
    BY <2>1, <2>2, <2>3, <2>4
<1>11. explode(s, Comma) = [k \in 1 .. n |-> <<devs[k]>>]
  BY <1>9, <1>10
<1>12. Range(explode(s, Comma)) = {<<devs[k]>> : k \in 1 .. n}
  BY <1>11, Zenon DEF Range
<1>13. Range(devs) = {devs[k] : k \in 1 .. n}
  BY <1>3, Zenon DEF Range
<1>14. {<<devs[k]>> : k \in 1 .. n} = {<<d>> : d \in {devs[k] : k \in 1 .. n}}
  OBVIOUS
<1> QED
  BY <1>1, <1>2, <1>8, <1>12, <1>13, <1>14

(* Texts joined, symbol by symbol.                                         *)
LEMMA Joined ==
  ASSUME NEW S, NEW x \in Seq(S), NEW y \in Seq(S)
  PROVE  /\ x \o y \in Seq(S) /\ Len(x \o y) = Len(x) + Len(y)
         /\ \A i \in 1 .. Len(x) : (x \o y)[i] = x[i]
         /\ \A i \in 1 .. Len(y) : (x \o y)[Len(x) + i] = y[i]
OBVIOUS

(* A sequence over a set is one over a larger set.                         *)
LEMMA WiderSeq ==
  ASSUME NEW S, NEW T, S \subseteq T, NEW x \in Seq(S)
  PROVE  x \in Seq(T)
<1>1. PICK n \in Nat : n = Len(x)
  OBVIOUS
<1>2. x \in [1 .. n -> S]
  BY <1>1
<1>3. x \in [1 .. n -> T]
  BY <1>2
<1> QED
  BY <1>3

(* Two symbols joined.                                                     *)
LEMMA TwoSymbols ==
  ASSUME NEW c \in Int, NEW d \in Int
  PROVE  <<c>> \o <<d>> = <<c, d>>
<1>1. PICK x : x = <<c>>
  OBVIOUS
<1>2. PICK y : y = <<d>>
  OBVIOUS
<1>3. /\ x \in Seq(Int) /\ Len(x) = 1 /\ x[1] = c
      /\ y \in Seq(Int) /\ Len(y) = 1 /\ y[1] = d
  BY <1>1, <1>2
<1>4. PICK u : u = x \o y
  OBVIOUS
<1>5. /\ u \in Seq(Int) /\ Len(u) = Len(x) + Len(y)
      /\ \A i \in 1 .. Len(x) : u[i] = x[i]
      /\ \A i \in 1 .. Len(y) : u[Len(x) + i] = y[i]
  <2>1. x \in Seq(Int) /\ y \in Seq(Int)
    BY <1>3
  <2> QED
    BY <1>4, <2>1, Joined
<1>6. u \in Seq(Int) /\ Len(u) = 2 /\ u[1] = c /\ u[2] = d
  BY <1>3, <1>5
<1>7. u = <<c, d>>
  BY <1>6
<1> QED
  BY <1>1, <1>2, <1>4, <1>7

(* A list of one journal disk is written like one of OSD disks.            *)
LEMMA OneJournal ==
  ASSUME NEW osd \in Seq(Disks), NEW jnl \in Seq(Disks), Len(jnl) <= 1
  PROVE  commas(osd) \o (jnl \o (IF jnl = << >> THEN << >> ELSE <<Comma>>))
           = commas(osd \o jnl)
<1>1. PICK n \in Nat : n = Len(osd)
  OBVIOUS
<1>2. PICK s : s = commas(osd)
  OBVIOUS
<1>3. s = [i \in 1 .. 2 * n |-> IF i % 2 = 1 THEN osd[i \div 2 + 1]
                                ELSE Comma]
  BY <1>1, <1>2 DEF commas
<1>4. s \in Seq(Nat \cup {Comma}) /\ Len(s) = 2 * n
  BY <1>1, <1>2, CommasRead
<1>5. CASE jnl = << >>
  <2>1. osd \o jnl = osd /\ jnl \o << >> = << >>
    BY <1>5
  <2>2. s \o << >> = s
    BY <1>4
  <2> QED
    BY <1>2, <1>5, <2>1, <2>2
<1>6. CASE jnl # << >>
  <2>1. PICK d : d = jnl[1]
    OBVIOUS
  <2>2. Len(jnl) = 1 /\ d \in Disks /\ d \in Nat
    <3>1. Len(jnl) \in Nat /\ Len(jnl) # 0
      BY <1>6
    <3>2. jnl[1] \in Disks
      BY <3>1
    <3>3. Len(jnl) = 1
      <4>1. PICK l : l = Len(jnl)
        OBVIOUS
      <4>2. l \in Nat /\ l # 0 /\ l <= 1
        BY <3>1, <4>1
      <4> QED
        BY <4>1, <4>2
    <3>4. jnl[1] \in Nat
      BY <3>2, DiskExecutorAssumption
    <3> QED
      BY <2>1, <3>2, <3>3, <3>4
  <2>3. jnl \o <<Comma>> = <<d, Comma>>
    <3>1. d \in Int /\ Comma \in Int
      BY <2>2 DEF Comma
    <3>2. jnl = <<d>>
      BY <2>1, <2>2
    <3>3. <<d>> \o <<Comma>> = <<d, Comma>>
      BY <3>1, TwoSymbols
    <3> QED
      BY <3>2, <3>3
  <2>4. PICK all : all = osd \o jnl
    OBVIOUS
  <2>5. /\ all \in Seq(Disks) /\ Len(all) = n + 1 /\ all[n + 1] = d
        /\ \A i \in 1 .. n : all[i] = osd[i]
    <3>1. /\ all \in Seq(Disks) /\ Len(all) = Len(osd) + Len(jnl)
          /\ \A i \in 1 .. Len(osd) : all[i] = osd[i]
          /\ \A i \in 1 .. Len(jnl) : all[Len(osd) + i] = jnl[i]
      BY <2>4, Joined
    <3> QED
      BY <1>1, <2>1, <2>2, <3>1
  <2>6. PICK u : u = s \o <<d, Comma>>
    OBVIOUS
  <2>7. /\ u \in Seq(Nat \cup {Comma}) /\ Len(u) = 2 * n + 2
        /\ u[2 * n + 1] = d /\ u[2 * n + 2] = Comma
        /\ \A i \in 1 .. 2 * n : u[i] = s[i]
    <3>1. PICK S : S = Nat \cup {Comma}
      OBVIOUS
    <3>2. d \in S /\ Comma \in S /\ s \in Seq(S)
      BY <1>4, <2>2, <3>1
    <3>3. /\ u \in Seq(S) /\ Len(u) = 2 * n + 2
          /\ u[2 * n + 1] = d /\ u[2 * n + 2] = Comma
          /\ \A i \in 1 .. 2 * n : u[i] = s[i]
      <4>1. PICK p : p = <<d, Comma>>
        OBVIOUS
      <4>2. p \in Seq(S) /\ Len(p) = 2 /\ p[1] = d /\ p[2] = Comma
        BY <3>2, <4>1
      <4>3. /\ u \in Seq(S) /\ Len(u) = Len(s) + Len(p)
            /\ \A i \in 1 .. Len(s) : u[i] = s[i]
            /\ \A i \in 1 .. Len(p) : u[Len(s) + i] = p[i]
        BY <2>6, <3>2, <4>1, <4>2, Joined
      <4> QED
        BY <1>4, <4>2, <4>3
    <3> QED
      BY <3>1, <3>3
  <2>8. PICK v : v = commas(all)
    OBVIOUS
  <2>9. v \in Seq(Nat \cup {Comma}) /\ Len(v) = 2 * n + 2
    <3>1. Len(v) = 2 * Len(all) /\ v \in Seq(Nat \cup {Comma})
      BY <2>5, <2>8, CommasRead
    <3> QED
      BY <2>5, <3>1
  <2>10. ASSUME NEW i \in 1 .. 2 * n + 2 PROVE u[i] = v[i]
    <3>1. v[i] = IF i % 2 = 1 THEN all[i \div 2 + 1] ELSE Comma
      <4>1. i \in 1 .. 2 * Len(all)
        BY <2>5
      <4> QED
        BY <2>8, <4>1 DEF commas
    <3>2. CASE i \in 1 .. 2 * n
      <4>1. u[i] = IF i % 2 = 1 THEN osd[i \div 2 + 1] ELSE Comma
        BY <1>3, <2>7, <3>2
      <4>2. i % 2 = 1 => i \div 2 + 1 \in 1 .. n
        BY <3>2
      <4> QED
        BY <2>5, <3>1, <4>1, <4>2
    <3>3. CASE i = 2 * n + 1
      <4>1. i % 2 = 1 /\ i \div 2 + 1 = n + 1
        BY <3>3
      <4> QED
        BY <2>5, <2>7, <3>1, <3>3, <4>1
    <3>4. CASE i = 2 * n + 2
      <4>1. i % 2 = 0
        BY <3>4
      <4> QED
        BY <2>7, <3>1, <3>4, <4>1
    <3> QED
      BY <3>2, <3>3, <3>4
  <2>11. DOMAIN u = 1 .. 2 * n + 2 /\ DOMAIN v = 1 .. 2 * n + 2
    <3>1. DOMAIN u = 1 .. Len(u) /\ DOMAIN v = 1 .. Len(v)
      BY <2>7, <2>9
    <3> QED
      BY <2>7, <2>9, <3>1
  <2>12. u = v
    BY <2>7, <2>9, <2>10, <2>11
  <2> QED
    BY <1>2, <1>6, <2>3, <2>4, <2>6, <2>8, <2>12
<1> QED
  BY <1>5, <1>6

(* The scheduler reads in a report what the executor wrote into it, unless *)
(* two journal disks failed or the name has a dot.                         *)
LEMMA ReadBack ==
  ASSUME myHostname \in Seq(Nat \cup {Dot}), Dot \notin Range(myHostname),
         failed.osd \in Seq(Disks), failed.jnl \in Seq(Disks),
         Len(failed.jnl) <= 1
  PROVE  /\ diskReady(prepareReturnValue).host = myHostname
         /\ diskReady(prepareReturnValue).devs =
              {<<d>> : d \in Range(failed.osd) \cup Range(failed.jnl)}
<1>1. PICK name : name = myHostname
  OBVIOUS
<1>2. PICK osd : osd = failed.osd
  OBVIOUS
<1>3. PICK jnl : jnl = failed.jnl
  OBVIOUS
<1>4. name \in Seq(Nat)
  <2>1. PICK n \in Nat : n = Len(name)
    BY <1>1
  <2>2. DOMAIN name = 1 .. n /\ name \in [1 .. n -> Nat \cup {Dot}]
    BY <1>1, <2>1
  <2>3. \A i \in 1 .. n : name[i] # Dot
    BY <1>1, <2>2 DEF Range
  <2>4. name \in [1 .. n -> Nat]
    BY <2>2, <2>3
  <2> QED
    BY <2>4
<1>5. osd \in Seq(Disks) /\ jnl \in Seq(Disks) /\ Len(jnl) <= 1
  BY <1>2, <1>3
<1>6. PICK all : all = osd \o jnl
  OBVIOUS
<1>7. all \in Seq(Disks) /\ Range(all) = Range(osd) \cup Range(jnl)
  <2>1. osd \in Seq(Int) /\ jnl \in Seq(Int)
    <3>1. Disks \subseteq Int
      BY DiskExecutorAssumption
    <3> QED
      BY <1>5, <3>1, WiderSeq
  <2> QED
    BY <1>5, <1>6, <2>1, RangeConcat
<1>8. PICK list : list = commas(all)
  OBVIOUS
<1>9. /\ list \in Seq(Nat \cup {Comma}) /\ Len(list) = 2 * Len(all)
      /\ Range(explode(list, Comma)) = {<<d>> : d \in Range(all)}
  BY <1>7, <1>8, CommasRead
<1>10. PICK tmp : tmp = IF list = << >> THEN <<Dash>> ELSE list
  OBVIOUS
<1>11. prepareReturnValue = <<DISK_READY, Dot>> \o name \o <<Colon>> \o tmp
  <2>1. list = commas(osd)
                 \o (jnl \o (IF jnl = << >> THEN << >> ELSE <<Comma>>))
    BY <1>5, <1>6, <1>8, OneJournal
  <2> QED
    BY <1>1, <1>2, <1>3, <1>10, <2>1 DEF prepareReturnValue
<1>12. /\ tmp \in Seq(Int) /\ tmp # << >>
       /\ Dot \notin Range(tmp) /\ Colon \notin Range(tmp)
  <2>1. /\ Dot \notin Nat \cup {Comma, Dash} /\ Dash \in Int /\ Comma \in Int
        /\ Colon \notin Nat \cup {Comma, Dash}
    BY DEF Dot, Comma, Dash, Colon
  <2>2. CASE list = << >>
    <3>1. tmp = <<Dash>>
      BY <1>10, <2>2
    <3>2. tmp \in Seq(Int) /\ Range(tmp) = {Dash} /\ tmp # << >>
      BY <2>1, <3>1, RangeOne
    <3> QED
      BY <2>1, <3>2
  <2>3. CASE list # << >>
    <3>1. tmp = list
      BY <1>10, <2>3
    <3>2. \A i \in DOMAIN list : list[i] \in Nat \cup {Comma}
      BY <1>9
    <3>3. Range(list) \subseteq Nat \cup {Comma}
      BY <3>2 DEF Range
    <3>4. list \in Seq(Int)
      BY <1>9, <2>1
    <3> QED
      BY <2>1, <2>3, <3>1, <3>3, <3>4
  <2> QED
    BY <2>2, <2>3
<1>13. PICK t : t = explode(explode(<<DISK_READY, Dot>> \o name \o <<Colon>>
                                      \o tmp, Dot)[2], Colon)
  OBVIOUS
<1>14. Len(t) = 2 /\ t[1] = name /\ t[2] = tmp
  BY <1>4, <1>12, <1>13, ReportSplit
<1>15. PICK x : x = diskReady(prepareReturnValue)
  OBVIOUS
<1>16. /\ x.host = t[1]
       /\ x.devs = IF t[2] = <<Dash>> THEN {} ELSE Range(explode(t[2], Comma))
  <2>1. ~ (Len(t) < 2)
    BY <1>14
  <2>2. x = IF Len(t) < 2 THEN NotRead
            ELSE [host |-> t[1],
                  devs |-> IF t[2] = <<Dash>> THEN {}
                           ELSE Range(explode(t[2], Comma))]
    BY <1>11, <1>13, <1>15 DEF diskReady
  <2> QED
    BY <2>1, <2>2
<1>17. x.devs = {<<d>> : d \in Range(all)}
  <2>1. CASE list = << >>
    <3>1. tmp = <<Dash>> /\ Len(list) = 0
      BY <1>10, <2>1
    <3>2. Len(all) \in Nat /\ Len(all) = 0
      <4>1. Len(all) \in Nat
        BY <1>7
      <4>2. 2 * Len(all) = 0
        BY <1>9, <3>1
      <4> QED
        BY <4>1, <4>2
    <3>3. all = << >>
      BY <1>7, <3>2
    <3>4. Range(all) = {}
      BY <3>3 DEF Range
    <3> QED
      BY <1>14, <1>16, <3>1, <3>4
  <2>2. CASE list # << >>
    <3>1. tmp = list
      BY <1>10, <2>2
    <3>2. list # <<Dash>>
      <4>1. Len(all) \in Nat /\ 2 * Len(all) # 1
        BY <1>7
      <4>2. Len(<<Dash>>) = 1
        OBVIOUS
      <4> QED
        BY <1>9, <4>1, <4>2
    <3> QED
      BY <1>9, <1>14, <1>16, <3>1, <3>2
  <2> QED
    BY <2>1, <2>2
<1> QED
  BY <1>1, <1>2, <1>3, <1>7, <1>14, <1>15, <1>16, <1>17

-----------------------------------------------------------------------------
(* The report and the disks it is about.                                   *)

(* Of the disks all, todo are left, and bad are those of the others with   *)
(* fewer than n file systems; none is listed twice.                        *)
Progress(all, todo, bad, fmt, n) ==
  /\ todo \in Seq(Disks) /\ bad \in Seq(Disks)
  /\ IsInjective(todo) /\ IsInjective(bad)
  /\ Range(todo) \subseteq Range(all)
  /\ Range(bad) = {d \in Range(all) \ Range(todo) : fmt[d] < n}

(* The disks after the first of a list without repetitions.                *)
LEMMA TailRange ==
  ASSUME NEW S, NEW s \in Seq(S), s # << >>, IsInjective(s)
  PROVE  /\ Tail(s) \in Seq(S) /\ IsInjective(Tail(s))
         /\ Head(s) \in Range(s)
         /\ Range(Tail(s)) = Range(s) \ {Head(s)}
<1>1. PICK n \in Nat \ {0} : n = Len(s)
  OBVIOUS
<1>2. PICK t : t = Tail(s)
  OBVIOUS
<1>3. /\ t \in Seq(S) /\ DOMAIN t = 1 .. n - 1 /\ DOMAIN s = 1 .. n
      /\ \A i \in 1 .. n - 1 : t[i] = s[i + 1]
      /\ Head(s) = s[1]
  BY <1>1, <1>2
<1>4. \A i, j \in 1 .. n : s[i] = s[j] => i = j
  BY <1>3 DEF IsInjective
<1>5. IsInjective(t)
  <2> SUFFICES ASSUME NEW i \in 1 .. n - 1, NEW j \in 1 .. n - 1, t[i] = t[j]
               PROVE  i = j
    BY <1>3 DEF IsInjective
  <2>1. i + 1 \in 1 .. n /\ j + 1 \in 1 .. n /\ s[i + 1] = s[j + 1]
    BY <1>3
  <2>2. i + 1 = j + 1
    BY <1>4, <2>1
  <2> QED
    BY <2>2
<1>6. ASSUME NEW i \in 1 .. n - 1 PROVE t[i] \in Range(s) \ {Head(s)}
  <2>1. i + 1 \in 1 .. n /\ 1 \in 1 .. n /\ i + 1 # 1 /\ t[i] = s[i + 1]
    BY <1>3
  <2>2. s[i + 1] # s[1]
    BY <1>4, <2>1
  <2> QED
    BY <1>3, <2>1, <2>2 DEF Range
<1>7. ASSUME NEW i \in 1 .. n, s[i] # Head(s) PROVE s[i] \in Range(t)
  <2>1. i # 1
    BY <1>3, <1>7
  <2>2. PICK j \in 1 .. n - 1 : i = j + 1
    <3>1. i - 1 \in 1 .. n - 1 /\ i = (i - 1) + 1
      BY <2>1
    <3> QED
      BY <3>1
  <2> QED
    BY <1>3, <2>2 DEF Range
<1>8. Range(t) \subseteq Range(s) \ {Head(s)}
  BY <1>3, <1>6 DEF Range
<1>9. Range(s) \ {Head(s)} \subseteq Range(t)
  <2>1. \A v \in Range(s) : \E i \in 1 .. n : v = s[i]
    BY <1>3 DEF Range
  <2> QED
    BY <1>7, <2>1
<1>10. Head(s) \in Range(s)
  BY <1>1, <1>3 DEF Range
<1> QED
  BY <1>2, <1>3, <1>5, <1>8, <1>9, <1>10

(* A disk at the end of a list that it is not in.                          *)
LEMMA AppendRange ==
  ASSUME NEW S, NEW s \in Seq(S), NEW d \in S, d \notin Range(s),
         IsInjective(s)
  PROVE  /\ Append(s, d) \in Seq(S) /\ IsInjective(Append(s, d))
         /\ Range(Append(s, d)) = Range(s) \cup {d}
<1>1. PICK n \in Nat : n = Len(s)
  OBVIOUS
<1>2. PICK t : t = Append(s, d)
  OBVIOUS
<1>3. /\ t \in Seq(S) /\ DOMAIN t = 1 .. n + 1 /\ DOMAIN s = 1 .. n
      /\ \A i \in 1 .. n : t[i] = s[i]
      /\ t[n + 1] = d
  BY <1>1, <1>2
<1>4. /\ \A i, j \in 1 .. n : s[i] = s[j] => i = j
      /\ \A i \in 1 .. n : s[i] # d
  BY <1>3 DEF IsInjective, Range
<1>5. \A i \in 1 .. n + 1 : i \in 1 .. n \/ i = n + 1
  OBVIOUS
<1>6. IsInjective(t)
  BY <1>3, <1>4, <1>5 DEF IsInjective
<1>7. Range(t) = Range(s) \cup {d}
  <2>1. \A v \in Range(t) : v \in Range(s) \cup {d}
    BY <1>3, <1>5 DEF Range
  <2>2. \A v \in Range(s) \cup {d} : v \in Range(t)
    <3>1. n + 1 \in 1 .. n + 1 /\ \A i \in 1 .. n : i \in 1 .. n + 1
      OBVIOUS
    <3> QED
      BY <1>3, <3>1 DEF Range
  <2> QED
    BY <2>1, <2>2
<1> QED
  BY <1>2, <1>3, <1>6, <1>7

(* A disk is prepared: it fails exactly when a file system is missing.     *)
LEMMA OneMore ==
  ASSUME NEW all, NEW todo, NEW bad, NEW fmt \in [Disks -> Nat], NEW n \in Nat,
         Progress(all, todo, bad, fmt, n), todo # << >>,
         NEW fs \in 0 .. n
  PROVE  Progress(all, Tail(todo),
                  IF fs = n THEN bad ELSE Append(bad, Head(todo)),
                  [fmt EXCEPT ![Head(todo)] = fs], n)
<1>1. PICK d : d = Head(todo)
  OBVIOUS
<1>2. /\ todo \in Seq(Disks) /\ bad \in Seq(Disks)
      /\ IsInjective(todo) /\ IsInjective(bad)
      /\ Range(todo) \subseteq Range(all)
      /\ Range(bad) = {x \in Range(all) \ Range(todo) : fmt[x] < n}
  BY DEF Progress
<1>3. PICK rest : rest = Tail(todo)
  OBVIOUS
<1>4. /\ rest \in Seq(Disks) /\ IsInjective(rest) /\ d \in Range(todo)
      /\ Range(rest) = Range(todo) \ {d}
  BY <1>1, <1>2, <1>3, TailRange
<1>5. d \in Disks /\ d \in Range(all) /\ d \notin Range(bad)
  <2>1. d \in Disks
    BY <1>1, <1>2
  <2> QED
    BY <1>2, <1>4, <2>1
<1>6. PICK g : g = [fmt EXCEPT ![d] = fs]
  OBVIOUS
<1>7. g[d] = fs /\ \A x : x # d => g[x] = fmt[x]
  <2>1. \A x : x # d => g[x] = fmt[x]
    BY <1>6
  <2> QED
    BY <1>5, <1>6, <2>1
<1>8. CASE fs = n
  <2>1. ~ (fs < n)
    BY <1>8
  <2>2. Range(bad) = {x \in Range(all) \ Range(rest) : g[x] < n}
    BY <1>2, <1>4, <1>5, <1>7, <2>1
  <2>3. Progress(all, rest, bad, g, n)
    BY <1>2, <1>4, <2>2 DEF Progress
  <2> QED
    BY <1>1, <1>3, <1>6, <1>8, <2>3
<1>9. CASE fs # n
  <2>1. fs < n
    BY <1>9
  <2>2. PICK more : more = Append(bad, d)
    OBVIOUS
  <2>3. /\ more \in Seq(Disks) /\ IsInjective(more)
        /\ Range(more) = Range(bad) \cup {d}
    BY <1>2, <1>5, <2>2, AppendRange
  <2>4. Range(more) = {x \in Range(all) \ Range(rest) : g[x] < n}
    BY <1>2, <1>4, <1>5, <1>7, <2>1, <2>3
  <2>5. Progress(all, rest, more, g, n)
    BY <1>2, <1>4, <2>3, <2>4 DEF Progress
  <2> QED
    BY <1>1, <1>3, <1>6, <1>9, <2>2, <2>5
<1> QED
  BY <1>8, <1>9

(* A disk of the other kind.                                               *)
LEMMA OtherDisk ==
  ASSUME NEW all, NEW todo, NEW bad, NEW fmt \in [Disks -> Nat], NEW n,
         Progress(all, todo, bad, fmt, n), NEW d, d \notin Range(all), NEW fs
  PROVE  Progress(all, todo, bad, [fmt EXCEPT ![d] = fs], n)
<1>1. PICK g : g = [fmt EXCEPT ![d] = fs]
  OBVIOUS
<1>2. \A x : x # d => g[x] = fmt[x]
  BY <1>1
<1>3. \A x \in Range(all) : g[x] = fmt[x]
  BY <1>2
<1>4. {x \in Range(all) \ Range(todo) : fmt[x] < n} =
        {x \in Range(all) \ Range(todo) : g[x] < n}
  BY <1>3
<1> QED
  BY <1>1, <1>4 DEF Progress

(* What is configured for the host has a meaning.                          *)
HostKnown ==
  /\ hostConfig.osddevs \in DOMAIN DiskLists
  /\ hostConfig.jnlparts \in DOMAIN PartCounts
  /\ hostConfig.mgmtdev \in DOMAIN Networks

(* The task is what is configured.                                         *)
TaskConfigured ==
  /\ pc = "known"
  /\ task.osd = DiskLists[hostConfig.osddevs].osd
  /\ task.jnl = DiskLists[hostConfig.osddevs].jnl
  /\ task.parts = PartCounts[hostConfig.jnlparts]

(* The failed disks are those that were tried and are not prepared, and    *)
(* the message says which they were when the last disk was done.           *)
ReportInv ==
  /\ myHostname \in Seq(Nat \cup {Dot})
  /\ pc = "known" => HostKnown
  /\ task # NoTask => TaskConfigured
  /\ DOMAIN pending = {"osd", "jnl"} /\ DOMAIN failed = {"osd", "jnl"}
  /\ formatted \in [Disks -> Nat]
  /\ step = "new" => failed = NoDisks
  /\ step # "new" =>
       /\ Progress(task.osd, pending.osd, failed.osd, formatted, 1)
       /\ Progress(task.jnl, pending.jnl, failed.jnl, formatted, task.parts)
  /\ step # "finished" => message = << >> /\ ~ read
  /\ step = "finished" => pending = NoDisks /\ message = prepareReturnValue
  /\ read => report = diskReady(message)

(* Initially nothing is tried.                                             *)
LEMMA InitReport == Init => ReportInv
<1> SUFFICES ASSUME Init PROVE ReportInv
  OBVIOUS
<1>1. PICK c \in Cases : configInit(c.flags, c.file, c.host)
                           /\ diskInit(c.name, c.bad)
  BY DEF Init
<1>2. pc = "start"
  BY <1>1 DEF configInit
<1>3. /\ myHostname = c.name /\ task = NoTask /\ step = "new"
      /\ pending = NoDisks /\ failed = NoDisks
      /\ formatted = [d \in Disks |-> 0] /\ message = << >> /\ ~ read
  BY <1>1 DEF diskInit
<1>4. myHostname \in Seq(Nat \cup {Dot})
  BY <1>3, HostSetupAssumption
<1>5. DOMAIN pending = {"osd", "jnl"} /\ DOMAIN failed = {"osd", "jnl"}
  BY <1>3 DEF NoDisks
<1> QED
  BY <1>2, <1>3, <1>4, <1>5 DEF ReportInv

(* The first offer configures the host and the task.                       *)
LEMMA FirstOfferReport ==
  ASSUME DiskInv, ReportInv, FirstOffer
  PROVE  ReportInv'
<1>1. /\ pc = "running" /\ task = NoTask /\ step = "new"
      /\ UNCHANGED <<FLAGS, defaultFile, hostFile, myHostname, mayFail, step,
                     pending, failed, table, formatted, message, read, report>>
  BY DEF DiskInv, FirstOffer, get_config_by_hostname
<1>2. CASE pc' # "known"
  <2>1. task' = NoTask
    BY <1>2 DEF FirstOffer
  <2> QED
    BY <1>1, <1>2, <2>1 DEF ReportInv
<1>3. CASE pc' = "known"
  <2>1. hostConfig' = merge_config(parse_config_string(defaultFile),
                                   parse_config_string(hostFile))
    BY <1>3 DEF FirstOffer, get_config_by_hostname
  <2>2. /\ 0 \in DOMAIN DiskLists /\ 0 \in DOMAIN PartCounts
        /\ 0 \in DOMAIN Networks
    BY HostSetupAssumption
  <2>3. \A file : meaningful(file) =>
          /\ parse_config_string(file).osddevs \in DOMAIN DiskLists
          /\ parse_config_string(file).jnlparts \in DOMAIN PartCounts
          /\ parse_config_string(file).mgmtdev \in DOMAIN Networks
    BY <2>2 DEF DiskInv, meaningful, parse_config_string, Field, Flagged
  <2>4. meaningful(defaultFile) /\ meaningful(hostFile)
    BY DEF DiskInv
  <2>5. HostKnown'
    BY <2>1, <2>3, <2>4 DEF merge_config, Field, HostKnown
  <2>6. task' = tryLaunchDiskTask(hostConfig')
    BY <1>3 DEF FirstOffer
  <2>7. task' # NoTask => TaskConfigured'
    BY <1>3, <2>6 DEF tryLaunchDiskTask, TaskConfigured
  <2> QED
    BY <1>1, <2>5, <2>7 DEF ReportInv
<1> QED
  BY <1>2, <1>3

(* The lists of a host: no disk is listed twice.                           *)
LEMMA ListsDistinct ==
  ASSUME NEW v \in DOMAIN DiskLists
  PROVE  LET devs == DiskLists[v]
         IN  /\ devs.osd \in Seq(Disks) /\ devs.jnl \in Seq(Disks)
             /\ IsInjective(devs.osd) /\ IsInjective(devs.jnl)
             /\ Range(devs.osd) \cap Range(devs.jnl) = {}
<1>1. PICK devs : devs = DiskLists[v]
  OBVIOUS
<1>2. /\ devs \in [osd : Seq(Disks), jnl : Seq(Disks)]
      /\ IsInjective(devs.osd) /\ IsInjective(devs.jnl)
      /\ Range(devs.osd) \cap Range(devs.jnl) = {}
  BY <1>1, HostSetupAssumption
<1>3. devs.osd \in Seq(Disks) /\ devs.jnl \in Seq(Disks)
  BY <1>2
<1> QED
  BY <1>1, <1>2, <1>3

(* Before the first disk all are left.                                     *)
LEMMA NoneTried ==
  ASSUME NEW all \in Seq(Disks), IsInjective(all), NEW fmt, NEW n
  PROVE  Progress(all, all, << >>, fmt, n)
<1>1. << >> \in Seq(Disks) /\ IsInjective(<< >>) /\ Range(<< >>) = {}
  BY DEF IsInjective, Range
<1> QED
  BY <1>1 DEF Progress

(* The disks become pending.                                               *)
LEMMA AddPendingReport ==
  ASSUME DiskInv, ReportInv, AddPendingDisks
  PROVE  ReportInv'
<1>1. /\ step = "new" /\ task # NoTask /\ step' = "preparing"
      /\ pending' = [osd |-> task.osd, jnl |-> task.jnl]
      /\ UNCHANGED <<configVars, myHostname, mayFail, task, failed, table,
                     formatted, message, read, report>>
  BY DEF AddPendingDisks, addPendingDisks
<1>2. UNCHANGED <<pc, hostConfig>>
  BY <1>1 DEF configVars
<1>3. PICK devs : devs = DiskLists[hostConfig.osddevs]
  OBVIOUS
<1>4. task.osd = devs.osd /\ task.jnl = devs.jnl /\ HostKnown
  BY <1>1, <1>3 DEF ReportInv, TaskConfigured
<1>5. /\ devs.osd \in Seq(Disks) /\ devs.jnl \in Seq(Disks)
      /\ IsInjective(devs.osd) /\ IsInjective(devs.jnl)
  BY <1>3, <1>4, ListsDistinct DEF HostKnown
<1>6. failed.osd = << >> /\ failed.jnl = << >>
  BY <1>1 DEF ReportInv, NoDisks
<1>7. /\ Progress(task.osd, task.osd, failed.osd, formatted, 1)
      /\ Progress(task.jnl, task.jnl, failed.jnl, formatted, task.parts)
  BY <1>4, <1>5, <1>6, NoneTried
<1>8. /\ pending'.osd = task.osd /\ pending'.jnl = task.jnl
      /\ DOMAIN pending' = {"osd", "jnl"}
  BY <1>1
<1> QED
  BY <1>1, <1>2, <1>7, <1>8 DEF ReportInv, HostKnown, TaskConfigured

(* A disk is prepared.                                                     *)
LEMMA PrepareReport ==
  ASSUME DiskInv, ReportInv, PrepareDisk
  PROVE  ReportInv'
<1>1. /\ step = "preparing" /\ task # NoTask
      /\ UNCHANGED <<configVars, myHostname, mayFail, task, step, message,
                     read, report>>
  BY DEF DiskInv, PrepareDisk, prepareDisk
<1>2. UNCHANGED <<pc, hostConfig>>
  BY <1>1 DEF configVars
<1>3. PICK k \in {"osd", "jnl"} : k = current
  <2>1. current \in {"osd", "jnl"}
    BY DEF current
  <2> QED
    BY <2>1
<1>4. PICK d : d = Head(pending[k])
  OBVIOUS
<1>5. PICK n \in 1 .. 100 : n = partitionCount(k)
  BY <1>1 DEF DiskInv, partitionCount
<1>6. PICK fs \in 0 .. n :
        /\ formatted' = [formatted EXCEPT ![d] = fs]
        /\ failed' = IF fs = n THEN failed
                     ELSE [failed EXCEPT ![k] = Append(@, d)]
        /\ pending' = [pending EXCEPT ![k] = Tail(@)]
        /\ pending[k] # << >>
  <2>1. PICK parts \in 0 .. n : \E fs \in 0 .. parts :
          /\ formatted' = [formatted EXCEPT ![d] = fs]
          /\ failed' = IF checkSuccess(n, parts, fs) THEN failed
                       ELSE [failed EXCEPT ![k] = Append(@, d)]
    BY <1>3, <1>4, <1>5 DEF PrepareDisk, prepareDisk
  <2>2. PICK fs \in 0 .. parts :
          /\ formatted' = [formatted EXCEPT ![d] = fs]
          /\ failed' = IF checkSuccess(n, parts, fs) THEN failed
                       ELSE [failed EXCEPT ![k] = Append(@, d)]
    BY <2>1
  <2>3. fs \in 0 .. n /\ (checkSuccess(n, parts, fs) <=> fs = n)
    BY DEF checkSuccess
  <2>4. pending' = [pending EXCEPT ![k] = Tail(@)] /\ pending[k] # << >>
    BY <1>3 DEF PrepareDisk, prepareDisk
  <2>5. failed' = IF fs = n THEN failed
                  ELSE [failed EXCEPT ![k] = Append(@, d)]
    BY <2>2, <2>3
  <2> QED
    BY <2>2, <2>3, <2>4, <2>5
<1>7. /\ DOMAIN pending = {"osd", "jnl"} /\ DOMAIN failed = {"osd", "jnl"}
      /\ formatted \in [Disks -> Nat]
  BY DEF ReportInv
<1>8. /\ Progress(task.osd, pending.osd, failed.osd, formatted, 1)
      /\ Progress(task.jnl, pending.jnl, failed.jnl, formatted, task.parts)
  BY <1>1 DEF ReportInv
<1>9. /\ DOMAIN pending' = {"osd", "jnl"} /\ DOMAIN failed' = {"osd", "jnl"}
      /\ formatted' \in [Disks -> Nat]
  <2>1. DOMAIN pending' = {"osd", "jnl"}
    BY <1>6, <1>7
  <2>2. DOMAIN failed' = {"osd", "jnl"}
    BY <1>6, <1>7
  <2>3. fs \in Nat
    OBVIOUS
  <2>4. formatted' \in [Disks -> Nat]
    BY <1>6, <1>7, <2>3
  <2> QED
    BY <2>1, <2>2, <2>4
<1>10. Range(task.osd) \cap Range(task.jnl) = {}
  <2>1. HostKnown /\ TaskConfigured
    BY <1>1 DEF ReportInv, TaskConfigured
  <2>2. PICK devs : devs = DiskLists[hostConfig.osddevs]
    OBVIOUS
  <2>3. Range(devs.osd) \cap Range(devs.jnl) = {}
    BY <2>1, <2>2, ListsDistinct DEF HostKnown
  <2> QED
    BY <2>1, <2>2, <2>3 DEF TaskConfigured
<1>11. /\ Progress(task.osd, pending'.osd, failed'.osd, formatted', 1)
       /\ Progress(task.jnl, pending'.jnl, failed'.jnl, formatted',
                   task.parts)
  <2>1. CASE k = "osd"
    <3>1. n = 1 /\ d = Head(pending.osd) /\ pending.osd # << >>
      BY <1>4, <1>5, <1>6, <2>1 DEF partitionCount
    <3>2. pending'.osd = Tail(pending.osd) /\ pending'.jnl = pending.jnl
      BY <1>6, <1>7, <2>1
    <3>3. /\ failed'.osd = IF fs = 1 THEN failed.osd
                           ELSE Append(failed.osd, d)
          /\ failed'.jnl = failed.jnl
      BY <1>6, <1>7, <2>1, <3>1
    <3>4. Progress(task.osd, pending'.osd, failed'.osd, formatted', 1)
      <4>1. fs \in 0 .. 1 /\ 1 \in Nat
        BY <3>1
      <4>2. Progress(task.osd, Tail(pending.osd),
                     IF fs = 1 THEN failed.osd
                     ELSE Append(failed.osd, Head(pending.osd)),
                     [formatted EXCEPT ![Head(pending.osd)] = fs], 1)
        BY <1>7, <1>8, <3>1, <4>1, OneMore
      <4> QED
        BY <1>6, <3>1, <3>2, <3>3, <4>2
    <3>5. d \notin Range(task.jnl)
      <4>1. d \in Range(task.osd)
        BY <1>8, <3>1, TailRange DEF Progress
      <4> QED
        BY <1>10, <4>1
    <3>6. Progress(task.jnl, pending.jnl, failed.jnl,
                   [formatted EXCEPT ![d] = fs], task.parts)
      BY <1>7, <1>8, <3>5, OtherDisk
    <3> QED
      BY <1>6, <3>2, <3>3, <3>4, <3>6
  <2>2. CASE k = "jnl"
    <3>1. n = task.parts /\ d = Head(pending.jnl) /\ pending.jnl # << >>
      BY <1>4, <1>5, <1>6, <2>2 DEF partitionCount
    <3>2. pending'.jnl = Tail(pending.jnl) /\ pending'.osd = pending.osd
      BY <1>6, <1>7, <2>2
    <3>3. /\ failed'.jnl = IF fs = n THEN failed.jnl
                           ELSE Append(failed.jnl, d)
          /\ failed'.osd = failed.osd
      BY <1>6, <1>7, <2>2
    <3>4. Progress(task.jnl, pending'.jnl, failed'.jnl, formatted', n)
      <4>1. fs \in 0 .. n /\ n \in Nat
        OBVIOUS
      <4>2. Progress(task.jnl, Tail(pending.jnl),
                     IF fs = n THEN failed.jnl
                     ELSE Append(failed.jnl, Head(pending.jnl)),
                     [formatted EXCEPT ![Head(pending.jnl)] = fs], n)
        BY <1>7, <1>8, <3>1, <4>1, OneMore
      <4> QED
        BY <1>6, <3>1, <3>2, <3>3, <4>2
    <3>5. d \notin Range(task.osd)
      <4>1. d \in Range(task.jnl)
        BY <1>8, <3>1, TailRange DEF Progress
      <4> QED
        BY <1>10, <4>1
    <3>6. Progress(task.osd, pending.osd, failed.osd,
                   [formatted EXCEPT ![d] = fs], 1)
      BY <1>7, <1>8, <3>5, OtherDisk
    <3> QED
      BY <1>6, <3>1, <3>2, <3>3, <3>4, <3>6
  <2> QED
    BY <2>1, <2>2
<1> QED
  BY <1>1, <1>2, <1>9, <1>11 DEF ReportInv, HostKnown, TaskConfigured

(* The executor reports, and the scheduler reads it.                       *)
LEMMA EndReport ==
  ASSUME DiskInv, ReportInv, LaunchTaskEnds \/ StatusUpdate
  PROVE  ReportInv'
<1>1. UNCHANGED <<configVars, myHostname, mayFail, task, pending, failed,
                  table, formatted>>
  BY DEF LaunchTaskEnds, launchTaskEnds, StatusUpdate, statusUpdate
<1>2. /\ UNCHANGED <<pc, hostConfig>>
      /\ prepareReturnValue' = prepareReturnValue
  BY <1>1 DEF configVars, prepareReturnValue
<1>3. CASE LaunchTaskEnds
  <2>1. /\ step = "preparing" /\ step' = "finished" /\ pending = NoDisks
        /\ message' = prepareReturnValue /\ UNCHANGED <<read, report>>
    BY <1>3 DEF LaunchTaskEnds, launchTaskEnds
  <2>2. ~ read
    BY <2>1 DEF ReportInv
  <2> QED
    BY <1>1, <1>2, <2>1, <2>2 DEF ReportInv, HostKnown, TaskConfigured
<1>4. CASE StatusUpdate
  <2>1. /\ message # << >> /\ report' = diskReady(message)
        /\ UNCHANGED <<message, step>>
    BY <1>4 DEF StatusUpdate, statusUpdate
  <2>2. step = "finished"
    BY <2>1 DEF ReportInv
  <2> QED
    BY <1>1, <1>2, <2>1, <2>2 DEF ReportInv, HostKnown, TaskConfigured
<1> QED
  BY <1>3, <1>4

(* Every step keeps this.                                                  *)
LEMMA NextReport == DiskInv /\ ReportInv /\ [Next]_vars => ReportInv'
<1> SUFFICES ASSUME DiskInv, ReportInv, [Next]_vars PROVE ReportInv'
  OBVIOUS
<1>1. CASE GetConfig
  <2>1. /\ UNCHANGED diskVars /\ UNCHANGED hostConfig
        /\ pc = "start" /\ pc' \in {"running", "thrown"}
    BY <1>1 DEF GetConfig, get_config
  <2>2. UNCHANGED <<myHostname, mayFail, task, step, pending, failed, table,
                    formatted, message, read, report>>
    BY <2>1 DEF diskVars
  <2>3. task = NoTask
    BY <2>1 DEF DiskInv
  <2> QED
    BY <2>1, <2>2, <2>3 DEF ReportInv, prepareReturnValue
<1>2. CASE EditFile \/ LaunchMon \/ UNCHANGED vars
  <2>1. /\ UNCHANGED diskVars /\ UNCHANGED <<hostConfig, pc>>
    BY <1>2 DEF EditFile, EditDefaultFile, LaunchMon, vars, configVars
  <2>2. UNCHANGED <<myHostname, mayFail, task, step, pending, failed, table,
                    formatted, message, read, report>>
    BY <2>1 DEF diskVars
  <2> QED
    BY <2>1, <2>2 DEF ReportInv, HostKnown, TaskConfigured,
                      prepareReturnValue
<1> QED
  BY <1>1, <1>2, FirstOfferReport, AddPendingReport, PrepareReport, EndReport
     DEF Next

(* At most one journal disk is not prepared: at most one is reported.      *)
LEMMA AtMostOne ==
  ASSUME NEW s \in Seq(Disks), IsInjective(s), \A d, e \in Range(s) : d = e
  PROVE  Len(s) <= 1
<1> SUFFICES ASSUME ~ (Len(s) <= 1) PROVE FALSE
  OBVIOUS
<1>1. 1 \in DOMAIN s /\ 2 \in DOMAIN s
  OBVIOUS
<1>2. s[1] \in Range(s) /\ s[2] \in Range(s)
  BY <1>1 DEF Range
<1>3. 1 = 2
  BY <1>1, <1>2 DEF IsInjective
<1> QED
  BY <1>3

(* From the report the scheduler reads the host's name and exactly the     *)
(* disks that are not prepared, for all lists of disks, counts of          *)
(* partitions and failures, with the exceptions that ReportRead states.    *)
THEOREM ReportAlwaysRead == Spec => []ReportRead
<1>1. DiskInv /\ ReportInv => ReportRead
  <2> SUFFICES ASSUME DiskInv, ReportInv, read,
                      \A d, e \in NotPrepared.jnl : d = e,
                      Dot \notin Range(myHostname)
               PROVE  /\ report.host = myHostname
                      /\ report.devs =
                           {<<d>> : d \in NotPrepared.osd \cup NotPrepared.jnl}
    BY DEF ReportRead
  <2>1. step = "finished" /\ report = diskReady(prepareReturnValue)
    BY DEF ReportInv
  <2>2. task # NoTask /\ TaskConfigured /\ pending = NoDisks
    BY <2>1 DEF DiskInv, ReportInv
  <2>3. /\ Progress(task.osd, << >>, failed.osd, formatted, 1)
        /\ Progress(task.jnl, << >>, failed.jnl, formatted, task.parts)
    BY <2>1, <2>2 DEF ReportInv, NoDisks
  <2>4. Range(<< >>) = {}
    BY DEF Range
  <2>5. /\ Range(failed.osd) = {d \in Range(task.osd) : formatted[d] < 1}
        /\ Range(failed.jnl) =
             {d \in Range(task.jnl) : formatted[d] < task.parts}
        /\ failed.osd \in Seq(Disks) /\ failed.jnl \in Seq(Disks)
        /\ IsInjective(failed.jnl)
    BY <2>3, <2>4 DEF Progress
  <2>6. /\ NotPrepared.osd = Range(failed.osd)
        /\ NotPrepared.jnl = Range(failed.jnl)
    BY <2>2, <2>5 DEF NotPrepared, TaskConfigured
  <2>7. Len(failed.jnl) <= 1
    <3>1. PICK s : s = failed.jnl
      OBVIOUS
    <3>2. s \in Seq(Disks) /\ IsInjective(s) /\ \A d, e \in Range(s) : d = e
      BY <2>5, <2>6, <3>1
    <3> QED
      BY <3>1, <3>2, AtMostOne
  <2>8. myHostname \in Seq(Nat \cup {Dot})
    BY DEF ReportInv
  <2> QED
    BY <2>1, <2>5, <2>6, <2>7, <2>8, ReadBack
<1> QED
  BY <1>1, InitDisks, NextDisks, InitReport, NextReport, PTL DEF Spec

-----------------------------------------------------------------------------
(* The network that an address is in.  Powers and numbers are defined by   *)
(* recursion; facts about them need induction, with a set for the          *)
(* property.                                                               *)

(* A set of natural numbers has a least element.                           *)
LEMMA LeastElement ==
  ASSUME NEW T, T \subseteq Nat, T # {}
  PROVE  \E m \in T : \A k \in T : m <= k
<1>1. PICK R : R = OpToRel(<, Nat)
  OBVIOUS
<1>2. \A x, y \in Nat : <<x, y>> \in R <=> x < y
  BY <1>1 DEF OpToRel
<1>3. IsWellFoundedOn(R, Nat)
  BY <1>1, NatLessThanWellFounded
<1>4. \E m \in T : \A k \in T : ~ (<<k, m>> \in R)
  BY <1>3, WFMin
<1>5. PICK m \in T : \A k \in T : ~ (<<k, m>> \in R)
  BY <1>4
<1>6. ASSUME NEW k \in T PROVE m <= k
  <2>1. m \in Nat /\ k \in Nat /\ ~ (<<k, m>> \in R)
    BY <1>5
  <2> QED
    BY <1>2, <2>1
<1> QED
  BY <1>6

(* A set with 0 and every successor up to N has all numbers up to N.       *)
LEMMA InductionUpTo ==
  ASSUME NEW S, NEW N \in Nat, 0 \in S,
         \A n \in 0 .. N - 1 : n \in S => n + 1 \in S
  PROVE  \A n \in 0 .. N : n \in S
<1> SUFFICES ASSUME NEW x \in 0 .. N, x \notin S PROVE FALSE
  OBVIOUS
<1>1. PICK T : T = {n \in 0 .. N : n \notin S}
  OBVIOUS
<1>2. T \subseteq Nat /\ T # {}
  BY <1>1
<1>3. PICK m \in T : \A k \in T : m <= k
  BY <1>2, LeastElement
<1>4. m \in 0 .. N /\ m # 0 /\ m - 1 \in 0 .. N - 1 /\ m - 1 + 1 = m
  BY <1>1, <1>3
<1>5. m - 1 \in S
  BY <1>1, <1>3, <1>4
<1>6. m \in S
  BY <1>4, <1>5
<1> QED
  BY <1>1, <1>3, <1>6

(* A function that is defined from 0 on by what its value was before:      *)
(* times factor, plus the next element.                                    *)
Horner(f, n, z, factor, a) ==
  /\ f \in [0 .. n -> Nat]
  /\ f[0] = z
  /\ \A i \in 1 .. n : f[i] = f[i - 1] * factor + a[i]

(* There is such a function.                                               *)
LEMMA HornerExists ==
  ASSUME NEW N \in Nat, NEW z \in Nat, NEW factor \in Nat,
         NEW a \in [1 .. N -> Nat]
  PROVE  \E f : Horner(f, N, z, factor, a)
<1>1. PICK S : S = {n \in 0 .. N : \E f : Horner(f, n, z, factor, a)}
  OBVIOUS
<1>2. 0 \in S
  <2>1. PICK f : f = [i \in 0 .. 0 |-> z]
    OBVIOUS
  <2>2. f \in [0 .. 0 -> Nat] /\ f[0] = z
    BY <2>1
  <2>3. \A i \in 1 .. 0 : f[i] = f[i - 1] * factor + a[i]
    OBVIOUS
  <2>4. Horner(f, 0, z, factor, a)
    BY <2>2, <2>3 DEF Horner
  <2> QED
    BY <1>1, <2>4
<1>3. ASSUME NEW n \in 0 .. N - 1, n \in S PROVE n + 1 \in S
  <2>1. PICK f : Horner(f, n, z, factor, a)
    BY <1>1, <1>3
  <2>2. /\ f \in [0 .. n -> Nat] /\ f[0] = z
        /\ \A i \in 1 .. n : f[i] = f[i - 1] * factor + a[i]
    BY <2>1 DEF Horner
  <2>3. PICK v : v = f[n] * factor + a[n + 1]
    OBVIOUS
  <2>4. v \in Nat
    <3>1. f[n] \in Nat /\ a[n + 1] \in Nat
      BY <2>2
    <3> QED
      BY <2>3, <3>1
  <2>5. PICK g : g = [i \in 0 .. n + 1 |-> IF i = n + 1 THEN v ELSE f[i]]
    OBVIOUS
  <2>6. g \in [0 .. n + 1 -> Nat] /\ g[0] = z
    BY <2>2, <2>4, <2>5
  <2>7. ASSUME NEW i \in 1 .. n + 1
        PROVE  g[i] = g[i - 1] * factor + a[i]
    <3>1. CASE i = n + 1
      <4>1. g[i] = v /\ g[i - 1] = f[n]
        BY <2>5, <3>1
      <4> QED
        BY <2>3, <3>1, <4>1
    <3>2. CASE i # n + 1
      <4>1. i \in 1 .. n /\ g[i] = f[i] /\ g[i - 1] = f[i - 1]
        BY <2>5, <3>2
      <4> QED
        BY <2>2, <4>1
    <3> QED
      BY <3>1, <3>2
  <2>8. Horner(g, n + 1, z, factor, a)
    BY <2>6, <2>7 DEF Horner
  <2>9. n + 1 \in 0 .. N
    OBVIOUS
  <2> QED
    BY <1>1, <2>8, <2>9
<1>4. \A n \in 0 .. N - 1 : n \in S => n + 1 \in S
  BY <1>3
<1>5. \A n \in 0 .. N : n \in S
  BY <1>2, <1>4, InductionUpTo
<1>6. N \in S
  BY <1>5
<1> QED
  BY <1>1, <1>6

(* The same, as a recursive definition of a function.                      *)
Recursion(g, n, z, factor, a) ==
  g = [i \in 0 .. n |-> IF i = 0 THEN z ELSE g[i - 1] * factor + a[i]]

(* There is only one.                                                      *)
LEMMA HornerUnique ==
  ASSUME NEW N \in Nat, NEW z \in Nat, NEW factor \in Nat,
         NEW a \in [1 .. N -> Nat],
         NEW f, Horner(f, N, z, factor, a), NEW g,
         Recursion(g, N, z, factor, a)
  PROVE  g = f
<1>1. g = [i \in 0 .. N |-> IF i = 0 THEN z ELSE g[i - 1] * factor + a[i]]
  BY DEF Recursion
<1>2. PICK S : S = {n \in 0 .. N : f[n] = g[n]}
  OBVIOUS
<1>3. /\ f \in [0 .. N -> Nat] /\ f[0] = z
      /\ \A i \in 1 .. N : f[i] = f[i - 1] * factor + a[i]
  BY DEF Horner
<1>4. 0 \in S
  BY <1>2, <1>3, <1>1
<1>5. ASSUME NEW n \in 0 .. N - 1, n \in S PROVE n + 1 \in S
  <2>1. n + 1 \in 1 .. N /\ (n + 1) - 1 = n /\ f[n] = g[n]
    BY <1>2, <1>5
  <2>2. PICK m : m = n + 1
    OBVIOUS
  <2>3. m \in 1 .. N /\ m # 0 /\ m \in 0 .. N /\ m - 1 = n
    BY <2>1, <2>2
  <2>4. f[m] = f[m - 1] * factor + a[m]
    BY <1>3, <2>3
  <2>5. g[m] = g[m - 1] * factor + a[m]
    BY <1>1, <2>3
  <2> QED
    BY <1>2, <2>1, <2>2, <2>3, <2>4, <2>5
<1>6. \A n \in 0 .. N : f[n] = g[n]
  <2>1. \A n \in 0 .. N - 1 : n \in S => n + 1 \in S
    BY <1>5
  <2>2. \A n \in 0 .. N : n \in S
    BY <1>4, <2>1, InductionUpTo
  <2> QED
    BY <1>2, <2>2
<1>7. DOMAIN g = 0 .. N /\ g = [i \in 0 .. N |-> g[i]]
  BY <1>1
<1> QED
  BY <1>3, <1>6, <1>7

(* PowerOf2 is what its recursive definition says.                         *)
LEMMA Powers ==
  /\ \A n \in 0 .. OctetBits * Octets : PowerOf2[n] \in Nat \ {0}
  /\ PowerOf2[0] = 1
  /\ \A n \in 1 .. OctetBits * Octets : PowerOf2[n] = 2 * PowerOf2[n - 1]
<1>1. PICK N \in Nat : N = OctetBits * Octets
  BY PublicNetworkAssumption
<1> DEFINE Rec(h) == h = [n \in 0 .. N |-> IF n = 0 THEN 1 ELSE 2 * h[n - 1]]
<1>2. PowerOf2 = CHOOSE h : Rec(h)
  BY <1>1, Zenon DEF PowerOf2
<1>3. PICK a : a = [i \in 1 .. N |-> 0]
  OBVIOUS
<1>4. a \in [1 .. N -> Nat]
  BY <1>3
<1>5. PICK f : Horner(f, N, 1, 2, a)
  BY <1>4, HornerExists
<1>6. /\ f \in [0 .. N -> Nat] /\ f[0] = 1
      /\ \A i \in 1 .. N : f[i] = 2 * f[i - 1]
  <2>1. /\ f \in [0 .. N -> Nat] /\ f[0] = 1
        /\ \A i \in 1 .. N : f[i] = f[i - 1] * 2 + a[i]
    BY <1>5 DEF Horner
  <2>2. ASSUME NEW i \in 1 .. N PROVE f[i] = 2 * f[i - 1]
    <3>1. f[i] = f[i - 1] * 2 + a[i] /\ a[i] = 0 /\ f[i - 1] \in Nat
      BY <1>3, <2>1
    <3> QED
      BY <3>1
  <2> QED
    BY <2>1, <2>2
<1>7. Rec(f)
  <2>1. \A n \in 0 .. N : f[n] = IF n = 0 THEN 1 ELSE 2 * f[n - 1]
    BY <1>6
  <2> QED
    BY <1>6, <2>1
<1>8. Rec(PowerOf2)
  BY <1>2, <1>7, Zenon
<1>9. PICK h : h = PowerOf2
  OBVIOUS
<1>10. /\ h[0] = 1
       /\ \A n \in 1 .. N : h[n] = 2 * h[n - 1]
  BY <1>8, <1>9
<1>11. \A n \in 0 .. N : h[n] \in Nat \ {0}
  <2>1. PICK S : S = {n \in 0 .. N : h[n] \in Nat \ {0}}
    OBVIOUS
  <2>2. 0 \in S
    BY <1>10, <2>1
  <2>3. ASSUME NEW n \in 0 .. N - 1, n \in S PROVE n + 1 \in S
    <3>1. PICK m : m = n + 1
      OBVIOUS
    <3>2. m \in 1 .. N /\ m - 1 = n /\ h[n] \in Nat \ {0}
      BY <2>1, <2>3, <3>1
    <3>3. h[m] = 2 * h[n]
      BY <1>10, <3>2
    <3> QED
      BY <2>1, <3>1, <3>2, <3>3
  <2>4. \A n \in 0 .. N - 1 : n \in S => n + 1 \in S
    BY <2>3
  <2>5. \A n \in 0 .. N : n \in S
    BY <2>2, <2>4, InductionUpTo
  <2> QED
    BY <2>1, <2>5
<1> QED
  BY <1>1, <1>9, <1>10, <1>11

(* A product of powers.                                                    *)
LEMMA PowerSum ==
  ASSUME NEW x \in Nat, NEW y \in Nat, x + y <= OctetBits * Octets
  PROVE  PowerOf2[x + y] = PowerOf2[x] * PowerOf2[y]
<1>1. PICK N \in Nat : N = OctetBits * Octets
  BY PublicNetworkAssumption
<1>2. PICK h : h = PowerOf2
  OBVIOUS
<1>3. /\ \A n \in 0 .. N : h[n] \in Nat \ {0}
      /\ h[0] = 1
      /\ \A n \in 1 .. N : h[n] = 2 * h[n - 1]
  BY <1>1, <1>2, Powers
<1>4. x + y <= N
  BY <1>1
<1>5. PICK S : S = {n \in 0 .. y : h[x + n] = h[x] * h[n]}
  OBVIOUS
<1>6. 0 \in S
  <2>1. h[x] \in Nat /\ x + 0 = x
    BY <1>3, <1>4
  <2> QED
    BY <1>3, <1>5, <2>1
<1>7. ASSUME NEW n \in 0 .. y - 1, n \in S PROVE n + 1 \in S
  <2>1. PICK m : m = n + 1
    OBVIOUS
  <2>2. PICK k : k = x + m
    OBVIOUS
  <2>3. /\ m \in 1 .. N /\ m - 1 = n /\ k \in 1 .. N /\ k - 1 = x + n
        /\ m \in 0 .. y /\ x \in 0 .. N /\ n \in 0 .. N
    BY <1>4, <2>1, <2>2
  <2>4. h[m] = 2 * h[n] /\ h[k] = 2 * h[x + n] /\ h[x + n] = h[x] * h[n]
    BY <1>3, <1>5, <1>7, <2>3
  <2>5. h[x] \in Nat /\ h[n] \in Nat
    BY <1>3, <2>3
  <2>6. h[k] = h[x] * h[m]
    BY <2>4, <2>5
  <2> QED
    BY <1>5, <2>1, <2>2, <2>3, <2>6
<1>8. \A n \in 0 .. y - 1 : n \in S => n + 1 \in S
  BY <1>7
<1>9. \A n \in 0 .. y : n \in S
  BY <1>6, <1>8, InductionUpTo
<1>10. y \in S
  BY <1>9
<1> QED
  BY <1>2, <1>5, <1>10

(* Number is the last of the values of the first octets.                   *)
LEMMA NumberIs ==
  ASSUME NEW a \in Address, NEW f, Horner(f, Octets, 0, PowerOf2[OctetBits], a)
  PROVE  Number(a) = f[Octets]
<1>1. PICK Q : Q = PowerOf2[OctetBits]
  OBVIOUS
<1>2. Q \in Nat /\ Octets \in Nat
  <2>1. OctetBits \in 0 .. OctetBits * Octets
    BY PublicNetworkAssumption
  <2> QED
    BY <1>1, <2>1, Powers, PublicNetworkAssumption
<1>3. a \in [1 .. Octets -> Nat]
  <2>1. a \in [1 .. Octets -> 0 .. Q - 1]
    BY <1>1 DEF Address
  <2> QED
    BY <1>2, <2>1
<1> DEFINE Rec(h) == h = [i \in 0 .. Octets |->
                            IF i = 0 THEN 0 ELSE h[i - 1] * Q + a[i]]
<1>4. Number(a) = (CHOOSE h : Rec(h))[Octets]
  BY <1>1, Zenon DEF Number
<1>5. Horner(f, Octets, 0, Q, a)
  BY <1>1
<1>6. Rec(f)
  <2>1. /\ f \in [0 .. Octets -> Nat] /\ f[0] = 0
        /\ \A i \in 1 .. Octets : f[i] = f[i - 1] * Q + a[i]
    BY <1>5 DEF Horner
  <2>2. \A i \in 0 .. Octets :
          f[i] = IF i = 0 THEN 0 ELSE f[i - 1] * Q + a[i]
    BY <1>2, <2>1
  <2> QED
    BY <2>1, <2>2
<1>7. PICK g : g = CHOOSE h : Rec(h)
  OBVIOUS
<1>8. Rec(g)
  BY <1>6, <1>7, Zenon
<1>9. g = f
  <2>1. PICK z \in Nat : z = 0
    OBVIOUS
  <2>2. Recursion(g, Octets, z, Q, a)
    BY <1>8, <2>1 DEF Recursion
  <2>3. Horner(f, Octets, z, Q, a)
    BY <1>5, <2>1
  <2> QED
    BY <1>2, <1>3, <2>2, <2>3, HornerUnique
<1> QED
  BY <1>4, <1>7, <1>9

(* Quotient and remainder.                                                 *)
LEMMA QuotientIs ==
  ASSUME NEW k \in Nat, NEW w \in Nat, NEW r \in 0 .. w - 1
  PROVE  (k * w + r) \div w = k /\ (k * w + r) % w = r
OBVIOUS

(* The quotient is the number of whole multiples.                          *)
LEMMA QuotientBetween ==
  ASSUME NEW x \in Nat, NEW w \in Nat \ {0}, NEW v \in Nat,
         v * w <= x, x < v * w + w
  PROVE  x \div w = v
<1>1. PICK p \in Nat : p = v * w
  OBVIOUS
<1>2. PICK r \in 0 .. w - 1 : x = p + r
  <2>1. p <= x /\ x < p + w
    BY <1>1
  <2>2. x - p \in 0 .. w - 1 /\ x = p + (x - p)
    BY <2>1
  <2> QED
    BY <2>2
<1>3. (v * w + r) \div w = v
  BY QuotientIs
<1> QED
  BY <1>1, <1>2, <1>3

(* A quotient is between these multiples.                                  *)
LEMMA QuotientBounds ==
  ASSUME NEW x \in Nat, NEW w \in Nat \ {0}
  PROVE  /\ x \div w \in Nat
         /\ (x \div w) * w <= x
         /\ x < (x \div w) * w + w
OBVIOUS

(* Dividing twice is dividing by the product.                              *)
LEMMA QuotientTwice ==
  ASSUME NEW x \in Nat, NEW D \in Nat \ {0}, NEW Q \in Nat \ {0}
  PROVE  x \div (D * Q) = (x \div D) \div Q
<1>1. PICK u : u = x \div D
  OBVIOUS
<1>2. u \in Nat /\ u * D <= x /\ x < u * D + D
  BY <1>1, QuotientBounds
<1>3. PICK v : v = u \div Q
  OBVIOUS
<1>4. v \in Nat /\ v * Q <= u /\ u < v * Q + Q
  BY <1>2, <1>3, QuotientBounds
<1>5. PICK p \in Nat : p = v * Q
  BY <1>4
<1>6. p * D <= u * D /\ p * D \in Nat /\ u * D \in Nat
  BY <1>2, <1>4, <1>5, Monotone
<1>7. (u + 1) * D <= (p + Q) * D
  <2>1. u + 1 \in Nat /\ p + Q \in Nat /\ u + 1 <= p + Q
    BY <1>2, <1>4, <1>5
  <2> QED
    BY <2>1, Monotone
<1>8. /\ (u + 1) * D = u * D + D
      /\ (p + Q) * D = p * D + D * Q
  BY <1>2, <1>5
<1>9. p * D = v * (D * Q) /\ D * Q \in Nat \ {0}
  <2>1. p * D = (v * Q) * D
    BY <1>5
  <2>2. (v * Q) * D = v * (D * Q)
    BY <1>4
  <2>3. D * Q \in Nat \ {0}
    OBVIOUS
  <2> QED
    BY <2>1, <2>2, <2>3
<1>10. PICK W \in Nat \ {0} : W = D * Q
  BY <1>9
<1>11. v * W <= x /\ x < v * W + W
  <2>1. PICK g \in Nat : g = p * D
    BY <1>6
  <2>2. PICK h \in Nat : h = u * D
    BY <1>6
  <2>3. g <= h /\ h <= x /\ x < h + D /\ h + D <= g + W /\ v * W = g
    BY <1>2, <1>6, <1>7, <1>8, <1>9, <1>10, <2>1, <2>2
  <2> QED
    BY <2>3
<1>12. x \div W = v
  BY <1>4, <1>11, QuotientBetween
<1> QED
  BY <1>1, <1>3, <1>10, <1>12

(* The values of the first octets of an address.                           *)
First(f, a) == Horner(f, Octets, 0, PowerOf2[OctetBits], a)

(* They exist, and an octet is less than PowerOf2[OctetBits].              *)
LEMMA FirstExists ==
  ASSUME NEW a \in Address
  PROVE  /\ \E f : First(f, a)
         /\ PowerOf2[OctetBits] \in Nat \ {0}
         /\ a \in [1 .. Octets -> Nat]
         /\ \A i \in 1 .. Octets : a[i] \in 0 .. PowerOf2[OctetBits] - 1
<1>1. PICK Q : Q = PowerOf2[OctetBits]
  OBVIOUS
<1>2. Q \in Nat \ {0} /\ Octets \in Nat
  <2>1. OctetBits \in 0 .. OctetBits * Octets
    BY PublicNetworkAssumption
  <2> QED
    BY <1>1, <2>1, Powers, PublicNetworkAssumption
<1>3. a \in [1 .. Octets -> 0 .. Q - 1]
  BY <1>1 DEF Address
<1>4. a \in [1 .. Octets -> Nat]
  BY <1>2, <1>3
<1>5. PICK z \in Nat : z = 0
  OBVIOUS
<1>6. \E f : Horner(f, Octets, z, Q, a)
  <2>1. Q \in Nat
    BY <1>2
  <2> QED
    BY <1>2, <1>4, <2>1, HornerExists
<1> QED
  BY <1>1, <1>2, <1>3, <1>4, <1>5, <1>6 DEF First

(* Dropping k octets of an address leaves the value of the others.         *)
LEMMA DropOctets ==
  ASSUME NEW a \in Address, NEW f, First(f, a), NEW k \in 0 .. Octets
  PROVE  Number(a) \div PowerOf2[OctetBits * k] = f[Octets - k]
<1>1. PICK Q : Q = PowerOf2[OctetBits]
  OBVIOUS
<1>2. PICK x : x = Number(a)
  OBVIOUS
<1>3. /\ Q \in Nat \ {0} /\ OctetBits \in Nat \ {0} /\ Octets \in Nat \ {0}
      /\ \A i \in 1 .. Octets : a[i] \in 0 .. Q - 1
  BY <1>1, FirstExists, PublicNetworkAssumption
<1>4. /\ f \in [0 .. Octets -> Nat] /\ f[0] = 0
      /\ \A i \in 1 .. Octets : f[i] = f[i - 1] * Q + a[i]
  BY <1>1 DEF First, Horner
<1>5. x = f[Octets] /\ x \in Nat
  BY <1>2, <1>3, <1>4, NumberIs DEF First
<1>6. PICK S : S = {j \in 0 .. Octets :
                      x \div PowerOf2[OctetBits * j] = f[Octets - j]}
  OBVIOUS
<1>7. 0 \in S
  <2>1. OctetBits * 0 = 0 /\ Octets - 0 = Octets
    BY <1>3
  <2>2. PowerOf2[0] = 1
    BY Powers
  <2>3. x \div 1 = x
    BY <1>5
  <2> QED
    BY <1>3, <1>5, <1>6, <2>1, <2>2, <2>3
<1>8. ASSUME NEW j \in 0 .. Octets - 1, j \in S PROVE j + 1 \in S
  <2>1. PICK i : i = Octets - j
    OBVIOUS
  <2>2. i \in 1 .. Octets /\ Octets - (j + 1) = i - 1
        /\ i - 1 \in 0 .. Octets /\ j + 1 \in 0 .. Octets
    BY <1>3, <2>1
  <2>3. PICK D : D = PowerOf2[OctetBits * j]
    OBVIOUS
  <2>4. /\ OctetBits * j \in Nat
        /\ OctetBits * j + OctetBits = OctetBits * (j + 1)
        /\ OctetBits * j + OctetBits <= OctetBits * Octets
        /\ OctetBits * j \in 0 .. OctetBits * Octets
    <3>1. j + 1 \in Nat /\ j + 1 <= Octets /\ j \in Nat
      BY <1>3
    <3>2. (j + 1) * OctetBits <= Octets * OctetBits
      BY <1>3, <3>1, Monotone
    <3>3. /\ (j + 1) * OctetBits = OctetBits * j + OctetBits
          /\ Octets * OctetBits = OctetBits * Octets
          /\ OctetBits * (j + 1) = (j + 1) * OctetBits
          /\ OctetBits * j \in Nat /\ OctetBits * Octets \in Nat
      BY <1>3, <3>1
    <3> QED
      BY <1>3, <3>2, <3>3
  <2>5. D \in Nat \ {0}
    BY <2>3, <2>4, Powers
  <2>6. PowerOf2[OctetBits * (j + 1)] = D * Q
    <3>1. PowerOf2[OctetBits * j + OctetBits] =
            PowerOf2[OctetBits * j] * PowerOf2[OctetBits]
      BY <1>3, <2>4, PowerSum
    <3> QED
      BY <1>1, <2>3, <2>4, <3>1
  <2>7. x \div (D * Q) = (x \div D) \div Q
    BY <1>3, <1>5, <2>5, QuotientTwice
  <2>8. x \div D = f[i]
    BY <1>6, <1>8, <2>1, <2>3
  <2>9. f[i] \div Q = f[i - 1]
    <3>1. f[i] = f[i - 1] * Q + a[i]
      BY <1>4, <2>2, Zenon
    <3>2. f[i - 1] \in Nat
      BY <1>4, <2>2, Zenon
    <3>3. a[i] \in 0 .. Q - 1 /\ Q \in Nat
      BY <1>3, <2>2
    <3>4. (f[i - 1] * Q + a[i]) \div Q = f[i - 1]
      BY <3>2, <3>3, QuotientIs
    <3> QED
      BY <3>1, <3>4
  <2>10. x \div PowerOf2[OctetBits * (j + 1)] = f[Octets - (j + 1)]
    BY <2>2, <2>6, <2>7, <2>8, <2>9
  <2> QED
    BY <1>6, <2>2, <2>10
<1>9. \A j \in 0 .. Octets - 1 : j \in S => j + 1 \in S
  BY <1>8
<1>10. \A j \in 0 .. Octets : j \in S
  BY <1>3, <1>7, <1>9, InductionUpTo
<1> QED
  BY <1>2, <1>6, <1>10

(* Sums with the same quotient and the same remainder.                     *)
LEMMA SameSum ==
  ASSUME NEW Q \in Nat, NEW x \in Nat, NEW y \in Nat,
         NEW r \in 0 .. Q - 1, NEW s \in 0 .. Q - 1, x * Q + r = y * Q + s
  PROVE  x = y /\ r = s
<1>1. /\ (x * Q + r) \div Q = x /\ (x * Q + r) % Q = r
      /\ (y * Q + s) \div Q = y /\ (y * Q + s) % Q = s
  BY QuotientIs
<1> QED
  BY <1>1

(* Addresses agree in a value exactly when they agree in its octets.       *)
LEMMA SameOctets ==
  ASSUME NEW a \in Address, NEW b \in Address, NEW f, First(f, a),
         NEW g, First(g, b), NEW k \in 0 .. Octets
  PROVE  f[k] = g[k] <=> \A i \in 1 .. k : a[i] = b[i]
<1>1. PICK Q : Q = PowerOf2[OctetBits]
  OBVIOUS
<1>2. /\ Q \in Nat /\ Octets \in Nat
      /\ \A i \in 1 .. Octets : a[i] \in 0 .. Q - 1 /\ b[i] \in 0 .. Q - 1
  BY <1>1, FirstExists, PublicNetworkAssumption
<1>3. /\ f \in [0 .. Octets -> Nat] /\ f[0] = 0
      /\ \A i \in 1 .. Octets : f[i] = f[i - 1] * Q + a[i]
  BY <1>1 DEF First, Horner
<1>4. /\ g \in [0 .. Octets -> Nat] /\ g[0] = 0
      /\ \A i \in 1 .. Octets : g[i] = g[i - 1] * Q + b[i]
  BY <1>1 DEF First, Horner
<1>5. PICK S : S = {j \in 0 .. Octets :
                      f[j] = g[j] <=> \A i \in 1 .. j : a[i] = b[i]}
  OBVIOUS
<1>6. 0 \in S
  BY <1>2, <1>3, <1>4, <1>5
<1>7. ASSUME NEW j \in 0 .. Octets - 1, j \in S PROVE j + 1 \in S
  <2>1. PICK m : m = j + 1
    OBVIOUS
  <2>2. m \in 1 .. Octets /\ m - 1 = j /\ m \in 0 .. Octets
    BY <1>2, <2>1
  <2>3. f[m] = f[j] * Q + a[m] /\ g[m] = g[j] * Q + b[m]
    BY <1>3, <1>4, <2>2
  <2>4. /\ f[j] \in Nat /\ g[j] \in Nat
        /\ a[m] \in 0 .. Q - 1 /\ b[m] \in 0 .. Q - 1
    BY <1>2, <1>3, <1>4, <2>2
  <2>5. f[m] = g[m] <=> f[j] = g[j] /\ a[m] = b[m]
    <3>1. f[j] * Q + a[m] = g[j] * Q + b[m] => f[j] = g[j] /\ a[m] = b[m]
      BY <1>2, <2>4, SameSum
    <3> QED
      BY <2>3, <3>1
  <2>6. f[j] = g[j] <=> \A i \in 1 .. j : a[i] = b[i]
    BY <1>5, <1>7
  <2>7. \A i : i \in 1 .. m <=> i \in 1 .. j \/ i = m
    BY <2>1
  <2>8. f[m] = g[m] <=> \A i \in 1 .. m : a[i] = b[i]
    BY <2>5, <2>6, <2>7
  <2> QED
    BY <1>5, <2>1, <2>2, <2>8
<1>8. \A j \in 0 .. Octets - 1 : j \in S => j + 1 \in S
  BY <1>7
<1>9. \A j \in 0 .. Octets : j \in S
  BY <1>2, <1>6, <1>8, InductionUpTo
<1> QED
  BY <1>5, <1>9

(* An address is in a network whose netmask ends at an octet exactly when  *)
(* it has the octets that the netmask covers.                              *)
LEMMA InNetworkIs ==
  ASSUME NEW a \in Address, NEW network \in Network,
         network[2] % OctetBits = 0
  PROVE  /\ InNetwork(a, network) <=>
              \A i \in 1 .. network[2] \div OctetBits : a[i] = network[1][i]
         /\ network[2] \div OctetBits \in 0 .. Octets
<1>1. PICK b : b = network[1]
  OBVIOUS
<1>2. PICK n : n = network[2]
  OBVIOUS
<1>3. /\ b \in Address /\ n \in 0 .. OctetBits * Octets /\ n % OctetBits = 0
      /\ OctetBits \in Nat \ {0} /\ Octets \in Nat \ {0}
      /\ OctetBits * Octets \in Nat
  BY <1>1, <1>2, PublicNetworkAssumption DEF Network
<1>4. PICK k \in Nat : n = k * OctetBits
  <2>1. n \in Nat /\ OctetBits \in Nat /\ OctetBits # 0
    BY <1>3
  <2>2. n % OctetBits = 0
    BY <1>3
  <2> QED
    BY <2>1, <2>2, NoRemainder
<1>5. n \div OctetBits = k
  <2>1. 0 \in 0 .. OctetBits - 1 /\ OctetBits \in Nat
    BY <1>3
  <2>2. (k * OctetBits + 0) \div OctetBits = k
    BY <2>1, QuotientIs
  <2>3. k * OctetBits + 0 = n
    BY <1>3, <1>4
  <2> QED
    BY <2>2, <2>3
<1>6. k \in 0 .. Octets
  <2> SUFFICES ASSUME Octets < k PROVE FALSE
    BY <1>3
  <2>1. Octets * OctetBits + OctetBits <= k * OctetBits
    BY <1>3, NextMultiple
  <2>2. Octets * OctetBits = OctetBits * Octets
    BY <1>3
  <2> QED
    BY <1>3, <1>4, <2>1, <2>2
<1>7. PICK j : j = Octets - k
  OBVIOUS
<1>8. j \in 0 .. Octets /\ Octets - j = k
  BY <1>3, <1>6, <1>7
<1>9. OctetBits * Octets - n = OctetBits * j
  BY <1>3, <1>4, <1>7
<1>10. PICK f : First(f, a)
  BY FirstExists
<1>11. PICK g : First(g, b)
  BY <1>3, FirstExists
<1>12. Prefix(a, n) = f[k] /\ Prefix(b, n) = g[k]
  <2>1. /\ Number(a) \div PowerOf2[OctetBits * j] = f[Octets - j]
        /\ Number(b) \div PowerOf2[OctetBits * j] = g[Octets - j]
    BY <1>3, <1>8, <1>10, <1>11, DropOctets
  <2> QED
    BY <1>8, <1>9, <2>1 DEF Prefix
<1>13. InNetwork(a, network) <=> f[k] = g[k]
  BY <1>1, <1>2, <1>12 DEF InNetwork
<1>14. f[k] = g[k] <=> \A i \in 1 .. k : a[i] = b[i]
  BY <1>3, <1>6, <1>10, <1>11, SameOctets
<1> QED
  BY <1>1, <1>2, <1>5, <1>6, <1>13, <1>14

-----------------------------------------------------------------------------
(* The address of the MON.                                                 *)

(* The text of an address, octet by octet.                                 *)
LEMMA OctetTokens ==
  ASSUME NEW a \in [1 .. Octets -> Nat]
  PROVE  /\ octetText(a) \in Seq(Nat \cup {Dot})
         /\ Len(octetText(a)) = 2 * Octets - 1
         /\ explode(octetText(a), Dot) = [k \in 1 .. Octets |-> <<a[k]>>]
<1>1. PICK n : n = Octets
  OBVIOUS
<1>2. n \in Nat \ {0}
  BY <1>1, PublicNetworkAssumption
<1>3. PICK s : s = octetText(a)
  OBVIOUS
<1>4. s = [i \in 1 .. 2 * n - 1 |-> IF i % 2 = 1 THEN a[i \div 2 + 1]
                                    ELSE Dot]
  BY <1>1, <1>3 DEF octetText
<1>5. \A k \in 1 .. n : a[k] \in Nat
  BY <1>1
<1>6. Dot \in Int /\ Dot \notin Nat
  BY DEF Dot
<1>7. ASSUME NEW i \in 1 .. 2 * n - 1
      PROVE  /\ s[i] \in Nat \cup {Dot}
             /\ s[i] = Dot <=> i % 2 = 0
  <2>1. i % 2 = 1 => i \div 2 + 1 \in 1 .. n
    BY <1>2
  <2>2. i % 2 = 0 \/ i % 2 = 1
    BY <1>2
  <2>3. s[i] = IF i % 2 = 1 THEN a[i \div 2 + 1] ELSE Dot
    BY <1>4
  <2>4. CASE i % 2 = 1
    BY <1>5, <1>6, <2>1, <2>3, <2>4
  <2>5. CASE i % 2 = 0
    BY <2>3, <2>5
  <2> QED
    BY <2>2, <2>4, <2>5
<1>8. s \in Seq(Nat \cup {Dot}) /\ Len(s) = 2 * n - 1
  <2>1. \A S : s \in [1 .. 2 * n - 1 -> S] =>
                 s \in Seq(S) /\ Len(s) = 2 * n - 1
    <3>1. 2 * n - 1 \in Nat
      BY <1>2
    <3> QED
      BY <3>1
  <2>2. s \in [1 .. 2 * n - 1 -> Nat \cup {Dot}]
    BY <1>4, <1>7
  <2> QED
    BY <2>1, <2>2
<1>9. s \in Seq(Int)
  BY <1>6, <1>8
<1>10. explode(s, Dot) =
         [k \in 1 .. n |-> SubSeq(s, (k - 1) * 2 + 1, k * 2 - 1)]
  <2>1. PICK w \in Nat : w = 2
    OBVIOUS
  <2>2. w >= 2 /\ Len(s) = n * w - 1
    BY <1>2, <1>8, <2>1
  <2>3. Striped(s, Dot, w, n)
    BY <1>7, <1>8, <2>1, <2>2 DEF Striped
  <2>4. explode(s, Dot) =
          [k \in 1 .. n |-> SubSeq(s, (k - 1) * w + 1, k * w - 1)]
    BY <1>2, <1>6, <1>9, <2>3, EvenTokens
  <2> QED
    BY <2>1, <2>4
<1>11. ASSUME NEW k \in 1 .. n
       PROVE  SubSeq(s, (k - 1) * 2 + 1, k * 2 - 1) = <<a[k]>>
  <2>1. PICK m : m = 2 * k - 1
    OBVIOUS
  <2>2. /\ (k - 1) * 2 + 1 = m /\ k * 2 - 1 = m
        /\ m \in 1 .. 2 * n - 1 /\ m % 2 = 1 /\ m \div 2 + 1 = k
    BY <1>2, <2>1
  <2>3. s[m] = a[k]
    BY <1>4, <2>2
  <2>4. m \in 1 .. Len(s)
    BY <1>8, <2>2
  <2>5. SubSeq(s, m, m) = <<s[m]>>
    BY <1>9, <2>4, OneSymbol
  <2> QED
    BY <2>2, <2>3, <2>5
<1>12. explode(s, Dot) = [k \in 1 .. n |-> <<a[k]>>]
  BY <1>10, <1>11
<1> QED
  BY <1>1, <1>3, <1>8, <1>12

(* A symbol that texts are split at is in no text of words and dots.       *)
LEMMA NotInAddress ==
  ASSUME NEW s \in Seq(Nat \cup {Dot}), NEW d \in {Slash, Space}
  PROVE  s \in Seq(Int) /\ d \in Int /\ d \notin Range(s)
<1>1. d \in Int /\ d \notin Nat /\ d # Dot /\ Dot \in Int
  BY DEF Slash, Space, Dot
<1>2. \A i \in DOMAIN s : s[i] \in Nat \cup {Dot}
  OBVIOUS
<1>3. s \in Seq(Int)
  <2>1. PICK S : S = Nat \cup {Dot}
    OBVIOUS
  <2>2. S \subseteq Int /\ s \in Seq(S)
    BY <1>1, <2>1
  <2> QED
    BY <2>2, WiderSeq
<1>4. Range(s) \subseteq Nat \cup {Dot}
  BY <1>2 DEF Range
<1> QED
  BY <1>1, <1>3, <1>4

(* An address is an address of numbers.                                    *)
LEMMA AddressNumbers ==
  ASSUME NEW a \in Address
  PROVE  a \in [1 .. Octets -> Nat]
BY FirstExists

(* matchIPToCIDR compares the octets that the netmask covers.              *)
LEMMA MatchIs ==
  ASSUME NEW a \in Address, NEW network \in Network,
         network[2] \div OctetBits \in 0 .. Octets
  PROVE  matchIPToCIDR(octetText(a), cidrText(network), OctetBits) <=>
           \A i \in 1 .. network[2] \div OctetBits : a[i] = network[1][i]
<1>1. PICK b : b = network[1]
  OBVIOUS
<1>2. PICK n : n = network[2]
  OBVIOUS
<1>3. b \in Address /\ n \in Nat
  <2>1. b \in Address /\ n \in 0 .. OctetBits * Octets
    BY <1>1, <1>2 DEF Network
  <2>2. OctetBits * Octets \in Nat
    BY PublicNetworkAssumption
  <2> QED
    BY <2>1, <2>2
<1>4. a \in [1 .. Octets -> Nat] /\ b \in [1 .. Octets -> Nat]
  BY <1>3, AddressNumbers
<1>5. PICK s : s = octetText(b)
  OBVIOUS
<1>6. PICK t : t = explode(cidrText(network), Slash)
  OBVIOUS
<1>7. t[1] = s /\ t[2] = <<n>>
  <2>1. PICK y : y = <<n>>
    OBVIOUS
  <2>2. y \in Seq(Nat \cup {Dot}) /\ y # << >>
    <3>1. PICK S : S = Nat \cup {Dot}
      OBVIOUS
    <3>2. n \in S
      BY <1>3, <3>1
    <3>3. y \in Seq(S) /\ y # << >>
      BY <2>1, <3>2
    <3> QED
      BY <3>1, <3>3
  <2>3. s \in Seq(Nat \cup {Dot})
    BY <1>4, <1>5, OctetTokens
  <2>4. /\ s \in Seq(Int) /\ y \in Seq(Int) /\ Slash \in Int
        /\ Slash \notin Range(s) /\ Slash \notin Range(y)
    BY <2>2, <2>3, NotInAddress
  <2>5. s \o <<Slash>> \o y = cidrText(network)
    <3>1. PICK x : x = <<Slash>>
      OBVIOUS
    <3>2. x \in Seq(Int)
      BY <2>4, <3>1
    <3>3. (s \o x) \o y = s \o (x \o y)
      BY <2>4, <3>2, Associative
    <3>4. x \o y = <<Slash, n>>
      BY <1>3, <2>1, <2>4, <3>1, TwoSymbols
    <3> QED
      BY <1>1, <1>2, <1>5, <3>1, <3>3, <3>4 DEF cidrText
  <2>6. /\ explode(s \o <<Slash>> \o y, Slash)[1] = s
        /\ explode(s \o <<Slash>> \o y, Slash)[2] = y
    BY <2>2, <2>4, TwoTokens
  <2> QED
    BY <1>6, <2>1, <2>5, <2>6
<1>8. PICK k \in 0 .. Octets : k = n \div OctetBits
  BY <1>2
<1>9. PICK u : u = explode(octetText(a), Dot)
  OBVIOUS
<1>10. PICK v : v = explode(s, Dot)
  OBVIOUS
<1>11. /\ u = [i \in 1 .. Octets |-> <<a[i]>>]
       /\ v = [i \in 1 .. Octets |-> <<b[i]>>]
  BY <1>4, <1>5, <1>9, <1>10, OctetTokens
<1>12. matchIPToCIDR(octetText(a), cidrText(network), OctetBits) <=>
         \A i \in 1 .. k : u[i] = v[i]
  <2>1. t[2][1] = n
    BY <1>7
  <2> QED
    BY <1>6, <1>7, <1>8, <1>9, <1>10, <2>1 DEF matchIPToCIDR
<1>13. ASSUME NEW i \in 1 .. k PROVE u[i] = v[i] <=> a[i] = b[i]
  <2>1. i \in 1 .. Octets
    BY PublicNetworkAssumption
  <2>2. u[i] = <<a[i]>> /\ v[i] = <<b[i]>>
    BY <1>11, <2>1
  <2> QED
    BY <2>2
<1> QED
  BY <1>1, <1>2, <1>8, <1>12, <1>13

(* The list of addresses, one by one.                                      *)
LEMMA IpsTokens ==
  ASSUME NEW s \in Seq(Address)
  PROVE  explode(ipsText(s), Space) = [k \in 1 .. Len(s) |-> octetText(s[k])]
<1>1. PICK w : w = 2 * Octets
  OBVIOUS
<1>2. w \in Nat /\ w >= 2
  BY <1>1, PublicNetworkAssumption
<1>3. PICK n \in Nat : n = Len(s)
  OBVIOUS
<1>4. PICK t : t = ipsText(s)
  OBVIOUS
<1>5. t = [i \in 1 .. n * w |->
             IF i % w = 0 THEN Space ELSE octetText(s[i \div w + 1])[i % w]]
  BY <1>1, <1>3, <1>4 DEF ipsText
<1>6. ASSUME NEW k \in 1 .. n
      PROVE  /\ octetText(s[k]) \in Seq(Nat \cup {Dot})
             /\ octetText(s[k]) \in Seq(Int)
             /\ Len(octetText(s[k])) = w - 1
             /\ \A r \in 1 .. w - 1 : octetText(s[k])[r] \in Nat \cup {Dot}
  <2>1. PICK a : a = s[k]
    OBVIOUS
  <2>2. a \in Address
    BY <1>3, <2>1
  <2>3. a \in [1 .. Octets -> Nat]
    BY <2>2, AddressNumbers
  <2>4. PICK x : x = octetText(a)
    OBVIOUS
  <2>5. x \in Seq(Nat \cup {Dot}) /\ Len(x) = w - 1
    BY <1>1, <2>3, <2>4, OctetTokens
  <2>6. \A r \in 1 .. w - 1 : x[r] \in Nat \cup {Dot}
    BY <2>5
  <2>7. x \in Seq(Int)
    BY <2>5, NotInAddress
  <2> QED
    BY <2>1, <2>4, <2>5, <2>6, <2>7
<1>7. Space \in Int /\ Space \notin Nat \cup {Dot} /\ Dot \in Int
  BY DEF Space, Dot
<1>8. n * w \in Nat
  BY <1>2
<1>9. ASSUME NEW i \in 1 .. n * w, i % w # 0
      PROVE  i \div w + 1 \in 1 .. n /\ i % w \in 1 .. w - 1
  <2>1. i \in Nat /\ w \in Nat \ {0}
    BY <1>2, <1>8
  <2>2. PICK q : q = i \div w
    OBVIOUS
  <2>3. q \in Nat /\ q * w <= i /\ i < q * w + w
    BY <2>1, <2>2, QuotientBounds
  <2>4. i % w \in 0 .. w - 1
    BY <2>1
  <2>5. q < n
    <3> SUFFICES ASSUME n <= q PROVE FALSE
      BY <2>3
    <3>1. n * w <= q * w /\ q * w \in Nat
      BY <1>2, <2>3, Monotone
    <3>2. i = n * w
      BY <1>8, <2>3, <3>1
    <3>3. 0 \in 0 .. w - 1
      BY <1>2
    <3>4. (n * w + 0) % w = 0
      BY <1>2, <3>3, QuotientIs
    <3>5. n * w + 0 = n * w
      BY <1>8
    <3> QED
      BY <1>9, <3>2, <3>4, <3>5
  <2>6. i % w \in 1 .. w - 1
    BY <1>9, <2>4
  <2>7. q + 1 \in 1 .. n
    BY <2>3, <2>5
  <2> QED
    BY <2>2, <2>6, <2>7
<1>10. ASSUME NEW i \in 1 .. n * w
       PROVE  t[i] \in Int /\ (t[i] = Space <=> i % w = 0)
  <2>1. t[i] = IF i % w = 0 THEN Space
               ELSE octetText(s[i \div w + 1])[i % w]
    BY <1>5
  <2>2. CASE i % w = 0
    BY <1>7, <2>1, <2>2
  <2>3. CASE i % w # 0
    <3>1. i \div w + 1 \in 1 .. n /\ i % w \in 1 .. w - 1
      BY <1>9, <2>3
    <3>2. octetText(s[i \div w + 1])[i % w] \in Nat \cup {Dot}
      BY <1>6, <3>1
    <3>3. t[i] \in Nat \cup {Dot}
      BY <2>1, <2>3, <3>2
    <3> QED
      BY <1>7, <2>3, <3>3
  <2> QED
    BY <2>2, <2>3
<1>11. t \in Seq(Int) /\ Len(t) = n * w
  <2>1. PICK N \in Nat : N = n * w
    BY <1>8
  <2>2. t \in [1 .. N -> Int]
    BY <1>5, <1>10, <2>1
  <2>3. t \in Seq(Int) /\ Len(t) = N
    BY <2>2
  <2> QED
    BY <2>1, <2>3
<1>12. Striped(t, Space, w, n)
  BY <1>2, <1>10, <1>11 DEF Striped
<1>13. explode(t, Space) =
         [k \in 1 .. n |-> SubSeq(t, (k - 1) * w + 1, k * w - 1)]
  BY <1>2, <1>7, <1>11, <1>12, EvenTokens
<1>14. ASSUME NEW k \in 1 .. n
       PROVE  SubSeq(t, (k - 1) * w + 1, k * w - 1) = octetText(s[k])
  <2>1. PICK x : x = octetText(s[k])
    OBVIOUS
  <2>2. x \in Seq(Int) /\ Len(x) = w - 1
    BY <1>6, <2>1
  <2>3. PICK q : q = (k - 1) * w
    OBVIOUS
  <2>4. q \in Nat /\ q + w <= n * w /\ k * w = q + w
    <3>1. k - 1 \in Nat /\ k - 1 < n
      OBVIOUS
    <3>2. q \in Nat /\ q + w <= n * w
      BY <1>2, <2>3, <3>1, NextMultiple
    <3>3. k * w = (k - 1) * w + w
      BY <1>2
    <3> QED
      BY <2>3, <3>2, <3>3
  <2>5. ASSUME NEW r \in 1 .. Len(x) PROVE t[q + r] = x[r]
    <3>1. r \in 1 .. w - 1 /\ r \in 0 .. w - 1 /\ k - 1 \in Nat
      BY <2>2
    <3>2. ((k - 1) * w + r) \div w = k - 1 /\ ((k - 1) * w + r) % w = r
      BY <1>2, <3>1, QuotientIs
    <3>3. PICK i : i = q + r
      OBVIOUS
    <3>4. i \in 1 .. n * w
      <4>1. PICK N \in Nat : N = n * w
        BY <1>8
      <4>2. q \in Nat /\ q + w <= N /\ i = q + r
        BY <2>4, <3>3, <4>1
      <4>3. i \in 1 .. N
        BY <1>2, <3>1, <4>2
      <4> QED
        BY <4>1, <4>3
    <3>5. i \div w + 1 = k /\ i % w = r /\ r # 0
      BY <2>3, <3>1, <3>2, <3>3
    <3>6. t[i] = IF i % w = 0 THEN Space
                 ELSE octetText(s[i \div w + 1])[i % w]
      BY <1>5, <3>4
    <3> QED
      BY <2>1, <3>3, <3>5, <3>6
  <2>6. q + Len(x) <= Len(t)
    BY <1>8, <1>11, <2>2, <2>4, <1>2
  <2>7. SubSeq(t, q + 1, q + Len(x)) = x
    BY <1>11, <2>2, <2>4, <2>5, <2>6, SubSeqIs
  <2>8. q + Len(x) = k * w - 1
    BY <1>2, <2>2, <2>4
  <2> QED
    BY <2>1, <2>3, <2>7, <2>8
<1> QED
  BY <1>3, <1>4, <1>13, <1>14

(* The MON takes the first address of the host in the network.             *)
LEMMA PublicIP ==
  ASSUME NEW s \in Seq(Address), NEW network \in Network,
         network[2] % OctetBits = 0
  PROVE  getPublicNetworkIP(ipsText(s), cidrText(network)) =
           LET inside == {i \in DOMAIN s : InNetwork(s[i], network)}
           IN  octetText(IF inside = {} THEN HostnameIP ELSE s[Min(inside)])
<1>1. PICK n \in Nat : n = Len(s)
  OBVIOUS
<1>2. DOMAIN s = 1 .. n /\ \A i \in 1 .. n : s[i] \in Address
  BY <1>1
<1>3. PICK c : c = cidrText(network)
  OBVIOUS
<1>4. PICK tokens : tokens = explode(ipsText(s), Space)
  OBVIOUS
<1>5. tokens = [i \in 1 .. n |-> octetText(s[i])]
  BY <1>1, <1>4, IpsTokens
<1>6. PICK hits : hits = {i \in DOMAIN tokens :
                            matchIPToCIDR(tokens[i], c, OctetBits)}
  OBVIOUS
<1>7. PICK inside : inside = {i \in DOMAIN s : InNetwork(s[i], network)}
  OBVIOUS
<1>8. ASSUME NEW i \in 1 .. n
      PROVE  matchIPToCIDR(tokens[i], c, OctetBits) <=>
               InNetwork(s[i], network)
  <2>1. PICK a : a = s[i]
    OBVIOUS
  <2>2. a \in Address /\ tokens[i] = octetText(a)
    BY <1>2, <1>5, <2>1
  <2>3. InNetwork(a, network) <=>
          \A j \in 1 .. network[2] \div OctetBits : a[j] = network[1][j]
    BY <2>2, InNetworkIs
  <2>4. matchIPToCIDR(octetText(a), cidrText(network), OctetBits) <=>
          \A j \in 1 .. network[2] \div OctetBits : a[j] = network[1][j]
    BY <2>2, InNetworkIs, MatchIs
  <2> QED
    BY <1>3, <2>1, <2>2, <2>3, <2>4
<1>9. hits = inside
  <2>1. DOMAIN tokens = 1 .. n
    BY <1>5
  <2> QED
    BY <1>2, <1>6, <1>7, <1>8, <2>1
<1>10. getPublicNetworkIP(ipsText(s), c) =
         IF hits = {} THEN octetText(HostnameIP) ELSE tokens[Min(hits)]
  BY <1>4, <1>6 DEF getPublicNetworkIP
<1>11. inside # {} => tokens[Min(inside)] = octetText(s[Min(inside)])
  <2> SUFFICES ASSUME inside # {}
               PROVE  tokens[Min(inside)] = octetText(s[Min(inside)])
    OBVIOUS
  <2>1. inside \subseteq 1 .. n /\ inside \subseteq Nat
    BY <1>2, <1>7
  <2>2. PICK m \in inside : \A k \in inside : m <= k
    BY <2>1, LeastElement
  <2>3. Min(inside) = m
    <3>1. inside \subseteq Int
      BY <2>1
    <3> QED
      BY <2>2, <3>1, MinIs
  <2>4. m \in 1 .. n
    BY <2>1
  <2> QED
    BY <1>5, <2>3, <2>4
<1> QED
  BY <1>3, <1>7, <1>9, <1>10, <1>11

(* The address of the MON was taken from the network that is configured.   *)
MonInv ==
  /\ addresses \in Seq(Address)
  /\ MON_IP # NoIP => pc = "known"
  /\ LET network == Networks[hostConfig.mgmtdev]
     IN  MON_IP # NoIP /\ network # NoNetwork =>
           MON_IP = getPublicNetworkIP(ipsText(addresses), cidrText(network))

(* Every step keeps this.                                                  *)
LEMMA NextMon == DiskInv /\ MonInv /\ [Next]_vars => MonInv'
<1> SUFFICES ASSUME DiskInv, MonInv, [Next]_vars PROVE MonInv'
  OBVIOUS
<1>1. CASE LaunchMon
  <2>1. PICK network : network = Networks[hostConfig.mgmtdev]
    OBVIOUS
  <2>2. /\ pc = "known" /\ UNCHANGED <<addresses, pc, hostConfig>>
        /\ MON_IP' = IF network = NoNetwork THEN Crashed
                     ELSE getPublicNetworkIP(ipsText(addresses),
                                             cidrText(network))
    BY <1>1, <2>1 DEF LaunchMon, constructMonCommand, configVars
  <2> QED
    BY <2>1, <2>2 DEF MonInv
<1>2. CASE GetConfig \/ EditFile \/ FirstOffer
  <2>1. pc # "known" /\ UNCHANGED <<addresses, MON_IP>>
    BY <1>2 DEF GetConfig, get_config, EditFile, EditDefaultFile, FirstOffer,
                get_config_by_hostname, netVars
  <2>2. MON_IP = NoIP
    BY <2>1 DEF MonInv
  <2> QED
    BY <2>1, <2>2 DEF MonInv
<1>3. CASE AddPendingDisks \/ PrepareDisk \/ LaunchTaskEnds \/ StatusUpdate
             \/ UNCHANGED vars
  <2>1. UNCHANGED <<addresses, MON_IP, pc, hostConfig>>
    BY <1>3 DEF AddPendingDisks, PrepareDisk, LaunchTaskEnds, StatusUpdate,
                vars, configVars, netVars
  <2> QED
    BY <2>1 DEF MonInv
<1> QED
  BY <1>1, <1>2, <1>3 DEF Next

(* The MON listens on the first address of its host in the network that is *)
(* configured, for every width and number of octets, every network whose   *)
(* netmask ends at an octet and every list of addresses.                   *)
THEOREM MonAlwaysInPublicNetwork == Spec => []MonInPublicNetwork
<1>1. Init => MonInv
  <2> SUFFICES ASSUME Init PROVE MonInv
    OBVIOUS
  <2>1. PICK c \in Cases : netInit(c.ips)
    BY DEF Init
  <2>2. addresses = c.ips /\ MON_IP = NoIP
    BY <2>1 DEF netInit
  <2> QED
    BY <2>2, HostSetupAssumption DEF MonInv
<1>2. ReportInv /\ MonInv => MonInPublicNetwork
  <2> SUFFICES ASSUME ReportInv, MonInv, NEW network,
                      network = Networks[hostConfig.mgmtdev],
                      MON_IP # NoIP, network # NoNetwork,
                      network[2] % OctetBits = 0
               PROVE  LET inside == {i \in DOMAIN addresses :
                                       InNetwork(addresses[i], network)}
                      IN  MON_IP = octetText(IF inside = {} THEN HostnameIP
                                             ELSE addresses[Min(inside)])
    BY DEF MonInPublicNetwork
  <2>1. /\ addresses \in Seq(Address) /\ pc = "known"
        /\ MON_IP = getPublicNetworkIP(ipsText(addresses), cidrText(network))
    BY DEF MonInv
  <2>2. hostConfig.mgmtdev \in DOMAIN Networks
    BY <2>1 DEF ReportInv, HostKnown
  <2>3. network \in Network
    BY <2>2, HostSetupAssumption
  <2>4. PICK s : s = addresses
    OBVIOUS
  <2>5. getPublicNetworkIP(ipsText(s), cidrText(network)) =
          LET inside == {i \in DOMAIN s : InNetwork(s[i], network)}
          IN  octetText(IF inside = {} THEN HostnameIP ELSE s[Min(inside)])
    BY <2>1, <2>3, <2>4, PublicIP
  <2> QED
    BY <2>1, <2>4, <2>5
<1> QED
  BY <1>1, <1>2, InitDisks, NextDisks, InitReport, NextReport, NextMon, PTL
     DEF Spec
=============================================================================
