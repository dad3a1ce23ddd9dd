--------------------------- MODULE MCPerformanceView ---------------------------
(* Three CPUs, up to two GPUs of each source, a disk, an interface and two *)
(* sensors.  One kind of hardware varies and changes in a behaviour, and   *)
(* its views are used: they share nothing but the number of the GPUs.      *)
(* Nobody looks at the NVIDIA cards before they are counted, so they       *)
(* change from then on; the disk and the interface are there, or not,      *)
(* with the sensors.                                                       *)
EXTENDS PerformanceView

VARIABLE focus

MCInit ==
  /\ Init
  /\ focus \in {"cpus", "gpus", "sensors"}
  /\ focus # "cpus" => online = Cpu!Cpus
  /\ focus # "gpus" => library /\ Cardinality(drm) = 1 /\ nv = {1} /\ silent \cup clockless \cup bare = {}
  /\ focus # "sensors" => \A path \in Paths : sysfs[path] = None

MCNext ==
  /\ Next
  /\ UNCHANGED focus
  /\ focus # "cpus" => UNCHANGED cpu
  /\ focus # "gpus" \/ ~counted => UNCHANGED <<nv, silent, clockless>>
  /\ focus # "sensors" => UNCHANGED sysfs /\ (~counted => UNCHANGED buttons) /\ (step = "done" => UNCHANGED pages)

MCSpec == MCInit /\ [][MCNext]_<<vars, focus>>
=============================================================================
