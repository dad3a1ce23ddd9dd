-------------------------- MODULE PerformanceCPUView --------------------------
(***************************************************************************)
(* PerformanceCPUView (src/ui/views/performance/PerformanceCPUView.cpp):   *)
(* the usage of all CPUs in one graph, or, after a click, that of each     *)
(* logical CPU in a graph of its own.  The number of CPUs that are online  *)
(* is asked for over and over, while the graphs are made once, and CPUs    *)
(* can be taken offline and brought online at any time.  What the usages   *)
(* are is in Samplers.                                                     *)
(***************************************************************************)
EXTENDS Integers, SequencesExt

CONSTANT NumCpus  \* CPUs of the machine, numbered from 0

Cpus == 0..NumCpus - 1
All == -1 \* the large graph

VARIABLES
  online,    \* the CPUs that are online
  cpuGraphs, \* m_CpuGraphs: TRUE for a graph, FALSE for a null pointer
  display,   \* m_DisplayCoreGraphs
  box,       \* the graphs in m_UsageGraphBox
  undefined, \* a null pointer was dereferenced
  changed    \* the number of CPUs has changed since the constructor (history)

TypeOK == /\ online \in (SUBSET Cpus) \ {{}}
          /\ DOMAIN cpuGraphs \subseteq Cpus
          /\ \A id \in DOMAIN cpuGraphs : cpuGraphs[id] \in BOOLEAN
          /\ display \in BOOLEAN
          /\ box \subseteq Cpus \cup {All}
          /\ undefined \in BOOLEAN
          /\ changed \in BOOLEAN

\* The ids of a loop up to GetNumCPUsLogical(): as many as are online, not which.
Loop == 0..Cardinality(online) - 1

\* The constructor.
Init == /\ online \in (SUBSET Cpus) \ {{}}
        /\ cpuGraphs = [id \in Loop |-> TRUE]
        /\ display = FALSE
        /\ box = {All}
        /\ undefined = FALSE
        /\ changed = FALSE

-----------------------------------------------------------------------------

Plug(c) == /\ ~undefined
           /\ \E now \in {online \cup {c}, online \ {c}} \ {online, {}} : online' = now
           /\ changed' = TRUE
           /\ UNCHANGED <<cpuGraphs, display, box, undefined>>

Graph(id) == id \in DOMAIN cpuGraphs /\ cpuGraphs[id]

\* m_CpuGraphs[id] for each id in ids: map::operator[] adds a null pointer for
\* one that is missing, and *m_CpuGraphs[id] is undefined then.
Access(ids) == /\ ~undefined
               /\ cpuGraphs' = [id \in DOMAIN cpuGraphs \cup ids |-> Graph(id)]
               /\ undefined' = (\E id \in ids : ~Graph(id))

\* The dispatch handler adds a point to each graph.
Handler == /\ Access(Loop)
           /\ UNCHANGED <<online, display, box, changed>>

\* Mutant: the large graph stays in the box.
OnGraphClick_Both ==
  /\ Access(Loop)
  /\ box' = IF display THEN (box \ Loop) \cup {All} ELSE box \cup Loop
  /\ display' = ~display
  /\ UNCHANGED <<online, changed>>

\* OnGraphClick with the right button.  To remove a graph that is not in the box
\* changes nothing.
OnGraphClick ==
  /\ Access(Loop)
  /\ box' = IF display THEN (box \ Loop) \cup {All} ELSE (box \ {All}) \cup Loop
  /\ display' = ~display
  /\ UNCHANGED <<online, changed>>

-----------------------------------------------------------------------------
(* Property, checked in PerformanceView. *)

\* As long as the number of CPUs has not changed, every graph that is asked for
\* exists and the box holds either the large graph or those of all CPUs, however
\* often it was clicked; it never holds both kinds, or none, even if CPUs went
\* away while their graphs were on display (OnGraphClick).
BoxMatchesMode == /\ ~changed => ~undefined /\ box = IF display THEN Loop ELSE {All}
                  /\ display # (All \in box)
                  /\ box # {}
=============================================================================
