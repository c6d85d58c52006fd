------------------------------- MODULE Config -------------------------------
(***************************************************************************)
(* The configuration (src/src/common/Config.cpp): get_config reads the     *)
(* default file once, when the scheduler starts; get_config_by_hostname    *)
(* reads the default file and the host's file anew when a host makes its   *)
(* first offer, and merges them.  Somebody may edit the files in between.  *)
(*                                                                         *)
(* One field stands for each way fields are treated: id for role, master   *)
(* and fileroot, restport for fileport, mgmtdev for datadev, osddevs for   *)
(* jnldevs.  A value is a number, and 0 is the one the code takes for "not *)
(* given": the empty text, port 0, no disks, and 4 for jnlparts.           *)
(***************************************************************************)
EXTENDS Integers

CONSTANTS EditValues,  \* the values that an edit may give a field
          MaxEdits     \* bound: edits of the default file

Field == {"id", "zookeeper", "restport", "mgmtdev", "osddevs", "jnlparts"}

(* Fields that have a command line flag.                                   *)
Flagged == {"id", "zookeeper", "restport", "jnlparts"}

ASSUME ConfigAssumption == EditValues \subseteq Nat /\ MaxEdits \in Nat

VARIABLES FLAGS,       \* the flags, 0 when not given
          defaultFile, \* the fields that cephmesos.yml gives, or NoFile
          hostFile,    \* the fields that cephmesos.d/<host>.yml gives
          config,      \* the scheduler's Config
          hostConfig,  \* the host's Config
          pc,          \* start, running, known (the host is), or thrown
          edits        \* how often the default file was edited

configVars == <<FLAGS, defaultFile, hostFile, config, hostConfig, pc, edits>>

(* A file that is not there; an absent host file is like an empty one.     *)
NoFile == [f \in {"absent"} |-> 0]

None == [f \in Field |-> 0]

(* The fields that the command line and the two files give.                *)
configInit(flags, file, host) ==
  /\ FLAGS = [f \in Flagged |-> IF f \in DOMAIN flags THEN flags[f] ELSE 0]
  /\ defaultFile = file
  /\ hostFile = host
  /\ config = None
  /\ hostConfig = None
  /\ pc = "start"
  /\ edits = 0

-----------------------------------------------------------------------------
(* What the file gives, else the flag, else empty.                         *)
parse_config_string(file) ==
  [f \in Field |-> IF f \in DOMAIN file THEN file[f]
                   ELSE IF f \in Flagged THEN FLAGS[f] ELSE 0]

Required == {"id", "zookeeper", "restport"}

(* The flag, else the default file.  Without the file, or without one of   *)
(* the required fields, an exception ends the program.                     *)
get_config ==
  /\ pc = "start"
  /\ LET file == parse_config_string(defaultFile)
     IN  config' = [f \in Field |->
                      IF f \in Flagged /\ FLAGS[f] # 0 THEN FLAGS[f]
                      ELSE file[f]]
  /\ pc' = IF defaultFile # NoFile /\ \A f \in Required : config'[f] # 0
             THEN "running" ELSE "thrown"
  /\ UNCHANGED <<FLAGS, defaultFile, hostFile, hostConfig, edits>>

merge_config_defaultFirst(default, host) ==
  [f \in Field |->
     IF f \in {"id", "zookeeper", "restport"} THEN FLAGS[f]
     ELSE IF default[f] = 0 THEN host[f] ELSE default[f]]

(* The host's value unless it is 0; the scheduler's own fields are those   *)
(* of the command line.                                                    *)
merge_config(default, host) ==
  [f \in Field |->
     IF f \in {"id", "zookeeper", "restport"} THEN FLAGS[f]
     ELSE IF host[f] = 0 THEN default[f] ELSE host[f]]

get_config_by_hostname ==
  /\ pc = "running"
  /\ IF defaultFile = NoFile
       THEN pc' = "thrown" /\ UNCHANGED hostConfig
       ELSE /\ hostConfig' = merge_config(parse_config_string(defaultFile),
                                          parse_config_string(hostFile))
            /\ pc' = "known"
  /\ UNCHANGED <<FLAGS, defaultFile, hostFile, config, edits>>

(* Somebody changes a field of the default file, or removes the file.      *)
EditDefaultFile ==
  /\ pc = "running"
  /\ edits < MaxEdits
  /\ edits' = edits + 1
  /\ \/ defaultFile' = NoFile
     \/ \E f \in DOMAIN defaultFile \cap Field, v \in EditValues :
          defaultFile' = [defaultFile EXCEPT ![f] = v]
  /\ UNCHANGED <<FLAGS, hostFile, config, hostConfig, pc>>

-----------------------------------------------------------------------------
HostField == {"mgmtdev", "osddevs", "jnlparts"}

(* Who says what a field of a host is, first one first.                    *)
Given(f) ==
  CASE f \in DOMAIN hostFile -> hostFile[f]
    [] f \notin DOMAIN hostFile /\ f \in Flagged /\ FLAGS[f] # 0 -> FLAGS[f]
    [] f \notin DOMAIN hostFile /\ (f \in Flagged => FLAGS[f] = 0) ->
         IF f \in DOMAIN defaultFile THEN defaultFile[f] ELSE 0

(* A host's configuration is what its own file says and, where that says   *)
(* nothing, what the command line says or else the default file as it was  *)
(* when the host was first seen, whatever it said when the scheduler       *)
(* started.  A value of the host's file that the code takes for "not       *)
(* given" is none.                                                         *)
HostSettingsWin ==
  pc = "known" =>
    \A f \in HostField : (f \in DOMAIN hostFile => hostFile[f] # 0)
                           => hostConfig[f] = Given(f)
=============================================================================
