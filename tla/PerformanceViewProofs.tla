------------------------- MODULE PerformanceViewProofs -------------------------
(***************************************************************************)
(* The Performance page, for any hardware: the graphs of the CPUs, which   *)
(* only their view and the hotplug touch (CpuInv); the views of the GPUs   *)
(* and the cards of their numbers (GpuInv); and the pages that the         *)
(* constructor makes device by device, with their buttons (PagesInv).      *)
(***************************************************************************)
EXTENDS PerformanceView, FiniteSetTheorems, SequenceTheorems, TLAPS

\* As long as the number of CPUs has not changed, the graphs are those of the loop
\* and none of them is a null pointer.
CpuInv ==
  /\ online \in (SUBSET Cpu!Cpus) \ {{}}
  /\ ~cpuChanged => DOMAIN cpuGraphs = Cpu!Loop /\ \A id \in Cpu!Loop : cpuGraphs[id]
  /\ Cpu!BoxMatchesMode

\* As many CPUs as are online, and at least one is.
LEMMA LoopIds ==
  ASSUME NEW now \in (SUBSET Cpu!Cpus) \ {{}}
  PROVE  Cardinality(now) \in Nat \ {0}
  <1>1. IsFiniteSet(Cpu!Cpus)
    BY HardwareAssumption, FS_Interval DEF Cpu!Cpus
  <1>2. IsFiniteSet(now)
    BY <1>1, FS_Subset
  <1> QED
    BY <1>2, FS_CardinalityType, FS_EmptySet

\* The instance names the same operator.
LEMMA SameCardinality == \A S : Cpu!Cardinality(S) = Cardinality(S)
  BY DEF Cpu!Cardinality, Cardinality

\* The large graph has no id of the loop.
LEMMA LoopFacts ==
  ASSUME online \in (SUBSET Cpu!Cpus) \ {{}}
  PROVE  Cpu!Loop # {} /\ Cpu!All \notin Cpu!Loop
  <1>1. 0 \in Cpu!Loop
    BY LoopIds, SameCardinality DEF Cpu!Loop
  <1>2. \A id \in Cpu!Loop : id >= 0
    BY LoopIds, SameCardinality DEF Cpu!Loop
  <1> QED
    BY <1>1, <1>2 DEF Cpu!All

\* The constructor makes the graphs.
LEMMA CpuInit == Cpu!Init => CpuInv
  <1> SUFFICES ASSUME Cpu!Init PROVE CpuInv
    OBVIOUS
  <1>1. Cpu!Loop # {} /\ Cpu!All \notin Cpu!Loop
    BY LoopFacts DEF Cpu!Init
  <1> QED
    BY <1>1 DEF Cpu!Init, CpuInv, Cpu!BoxMatchesMode

\* A CPU goes offline or comes online.
LEMMA PlugStep ==
  ASSUME CpuInv, NEW c \in Cpu!Cpus, Cpu!Plug(c)
  PROVE  CpuInv'
  <1>1. online' \in (SUBSET Cpu!Cpus) \ {{}}
    BY DEF CpuInv, Cpu!Plug
  <1>2. cpuChanged'
    BY DEF Cpu!Plug
  <1>3. UNCHANGED <<display, box, cpuUndefined>>
    BY DEF Cpu!Plug
  <1> QED
    BY <1>1, <1>2, <1>3 DEF CpuInv, Cpu!BoxMatchesMode

\* The graphs after m_CpuGraphs[id] for each id of the loop.
LEMMA AccessStep ==
  ASSUME CpuInv, Cpu!Access(Cpu!Loop), UNCHANGED <<online, cpuChanged>>
  PROVE  ~cpuChanged => /\ DOMAIN cpuGraphs' = Cpu!Loop
                        /\ \A id \in Cpu!Loop : cpuGraphs'[id]
                        /\ ~cpuUndefined'
  <1> SUFFICES ASSUME ~cpuChanged
               PROVE  /\ DOMAIN cpuGraphs' = Cpu!Loop
                      /\ \A id \in Cpu!Loop : cpuGraphs'[id]
                      /\ ~cpuUndefined'
    OBVIOUS
  <1>1. \A id \in Cpu!Loop : Cpu!Graph(id)
    BY DEF CpuInv, Cpu!Graph
  <1>2. cpuGraphs' = [id \in Cpu!Loop |-> Cpu!Graph(id)]
    BY DEF CpuInv, Cpu!Access
  <1>3. ~cpuUndefined'
    BY <1>1 DEF Cpu!Access
  <1> QED
    BY <1>1, <1>2, <1>3

\* The handler and the click.
LEMMA ViewStep ==
  ASSUME CpuInv, Cpu!Handler \/ Cpu!OnGraphClick
  PROVE  CpuInv'
  <1>1. UNCHANGED <<online, cpuChanged>> /\ Cpu!Access(Cpu!Loop)
    BY DEF Cpu!Handler, Cpu!OnGraphClick
  <1>2. Cpu!Loop' = Cpu!Loop
    BY <1>1 DEF Cpu!Loop
  <1>3. Cpu!Loop # {} /\ Cpu!All \notin Cpu!Loop
    BY LoopFacts DEF CpuInv
  <1>4. ~cpuChanged => /\ DOMAIN cpuGraphs' = Cpu!Loop
                       /\ \A id \in Cpu!Loop : cpuGraphs'[id]
                       /\ ~cpuUndefined'
    BY <1>1, AccessStep
  <1>5. ASSUME Cpu!OnGraphClick
        PROVE  /\ ~cpuChanged => box' = IF display' THEN Cpu!Loop ELSE {Cpu!All}
               /\ display' # (Cpu!All \in box')
               /\ box' # {}
    <2>1. box' = IF display THEN (box \ Cpu!Loop) \cup {Cpu!All} ELSE (box \ {Cpu!All}) \cup Cpu!Loop
      BY <1>5 DEF Cpu!OnGraphClick
    <2>2. display' = ~display
      BY <1>5 DEF Cpu!OnGraphClick
    <2>3. ~cpuChanged => box = IF display THEN Cpu!Loop ELSE {Cpu!All}
      BY DEF CpuInv, Cpu!BoxMatchesMode
    <2>4. CASE display
      BY <2>1, <2>2, <2>3, <2>4, <1>3
    <2>5. CASE ~display
      BY <2>1, <2>2, <2>3, <2>5, <1>3
    <2> QED
      BY <2>4, <2>5
  <1>6. ASSUME Cpu!Handler
        PROVE  UNCHANGED <<display, box>>
    BY <1>6 DEF Cpu!Handler
  <1>7. /\ ~cpuChanged => box' = IF display' THEN Cpu!Loop ELSE {Cpu!All}
        /\ display' # (Cpu!All \in box')
        /\ box' # {}
    BY <1>5, <1>6 DEF CpuInv, Cpu!BoxMatchesMode
  <1>8. Cpu!BoxMatchesMode'
    BY <1>1, <1>2, <1>4, <1>7 DEF Cpu!BoxMatchesMode, Cpu!All
  <1> QED
    BY <1>1, <1>2, <1>4, <1>8 DEF CpuInv

\* The other steps of the page leave the graphs of the CPUs alone.
LEMMA StepInv == CpuInv /\ [Next]_vars => CpuInv'
  <1> SUFFICES ASSUME CpuInv, [Next]_vars PROVE CpuInv'
    OBVIOUS
  <1>1. CASE CpuHandler \/ CpuClick
    BY <1>1, ViewStep DEF CpuHandler, CpuClick
  <1>2. CASE \E c \in Cpu!Cpus : PlugCpu(c)
    BY <1>2, PlugStep DEF PlugCpu
  <1>3. CASE UNCHANGED cpu
    <2>1. UNCHANGED <<online, cpuGraphs, display, box, cpuUndefined, cpuChanged>>
      BY <1>3 DEF cpu
    <2> QED
      BY <2>1 DEF CpuInv, Cpu!BoxMatchesMode, Cpu!Loop, Cpu!All, Cpu!Cpus
  <1>4. CpuHandler \/ CpuClick \/ (\E c \in Cpu!Cpus : PlugCpu(c)) \/ UNCHANGED cpu
    BY DEF Next, vars, MakePages, CountGPUs, MakeGpuView, GpuHandler, ProcessInfo, Press, PlugGpu, PlugSensor
  <1> QED
    BY <1>1, <1>2, <1>3, <1>4

\* The box on the page of the CPUs holds the large graph or those of the CPUs, never
\* both or none, and as long as the number of CPUs stays the same exactly these and
\* no null pointer (OnGraphClick, the handler of PerformanceCPUView).
THEOREM BoxMatches == Spec => []BoxMatchesMode
  <1>1. Init => CpuInv
    BY CpuInit DEF Init
  <1>2. CpuInv => BoxMatchesMode
    BY DEF CpuInv, BoxMatchesMode
  <1> QED
    BY <1>1, <1>2, StepInv, PTL DEF Spec

-----------------------------------------------------------------------------
(* The cards. *)

\* A view has the name of the card of g_DrmGpuMap with its number, or that of the
\* NVIDIA card that was at its place in the list of the driver: as many cards were
\* listed up to this one as its place says.
NamesInv ==
  \A id \in DOMAIN views :
    IF id <= numDrm THEN views[id] = drmMap[id]
    ELSE views[id] # None =>
           /\ views[id] \in seen[id]
           /\ Cardinality(Gpu!UpTo(seen[id], views[id])) = id - numDrm

\* What the code does not define happens only as ViewsShowTheirCard says.
UndefinedInv ==
  /\ gpuUndefined = "bounds" =>
       Cardinality(nv) < numGpus - numDrm \/ (numGpus = 0 /\ nv = {})
  /\ gpuUndefined = "temperature" =>
       bare # {} \/ \E c, d \in nv : c \in silent /\ c < d

GpuInv ==
  /\ Gpu!TypeOK
  /\ \A m, n \in DOMAIN drmMap : drmMap[m] = drmMap[n] => m = n
  /\ NamesInv
  /\ UndefinedInv

-----------------------------------------------------------------------------
(* The pages. *)

\* Each button has the next id, and so has its view.
ButtonsInv ==
  /\ buttons # <<>>
  /\ \A n \in DOMAIN buttons : buttons[n] = n - 1
  /\ step # "thrown" => DOMAIN subViews = 0..Len(buttons) - 1
  /\ step = "done" => \E button \in ToSet(buttons) : selected = {button} /\ panel = {button}

\* The paths that were listed, each once; those of devices that stayed are among them.
PathsInv ==
  /\ \A m, n \in DOMAIN hwMonMap : hwMonMap[m] = hwMonMap[n] => m = n
  /\ \A path \in stayed : sysfs[path] # None /\ \E n \in DOMAIN hwMonMap : hwMonMap[n] = path
  /\ step \in {"disks", "interfaces", "gpus"} => i = 1 /\ hwMonMap = <<>>
  /\ step = "input" => i <= Len(hwMonMap)
  /\ step \in {"end", "done"} => i > Len(hwMonMap)
  /\ step = "thrown" => hwMonMap[i] \notin stayed

IsPsuPage(id, path) == subViews[id] = [kind |-> "psu", device |-> path]

\* The paths before i have one page each, if they are those of power supplies, and
\* no others have one.
PsusInv ==
  /\ \A id \in DOMAIN subViews : \A path \in Paths : IsPsuPage(id, path) =>
       /\ \E n \in 1..i - 1 : hwMonMap[n] = path
       /\ \A other \in DOMAIN subViews : IsPsuPage(other, path) => other = id
  /\ \A n \in 1..i - 1 : hwMonMap[n] \in stayed /\ sysfs[hwMonMap[n]] \in Psus =>
       \E id \in DOMAIN subViews : IsPsuPage(id, hwMonMap[n])

PagesInv == Pages!TypeOK /\ ButtonsInv /\ PathsInv /\ PsusInv

-----------------------------------------------------------------------------
(* The list of the driver. *)

\* A finite set of numbers can be listed in ascending order: a number is listed at
\* the place that says how many are not above it.
LEMMA SortedListing ==
  ASSUME NEW S, S \subseteq Nat, IsFiniteSet(S)
  PROVE  \E list \in [1..Cardinality(S) -> S] :
           \A m, n \in 1..Cardinality(S) : m < n => list[m] < list[n]
  <1> DEFINE UpTo(c) == {d \in S : d <= c}
             rank == [c \in S |-> Cardinality(UpTo(c))]
             places == 1..Cardinality(S)
  <1>1. Cardinality(S) \in Nat
    BY FS_CardinalityType
  <1>2. ASSUME NEW c \in S PROVE IsFiniteSet(UpTo(c)) /\ Cardinality(UpTo(c)) \in places
    <2>1. IsFiniteSet(UpTo(c)) /\ Cardinality(UpTo(c)) <= Cardinality(S)
      BY FS_Subset
    <2>2. c \in UpTo(c)
      OBVIOUS
    <2>3. Cardinality(UpTo(c)) \in Nat \ {0}
      BY <2>1, <2>2, FS_CardinalityType, FS_EmptySet
    <2> QED
      BY <1>1, <2>1, <2>3
  <1>3. ASSUME NEW c \in S, NEW d \in S, c < d PROVE rank[c] < rank[d]
    <2>3. c \in Int /\ d \in Int /\ \A e \in S : e \in Int
      OBVIOUS
    <2>4. UpTo(c) \subseteq UpTo(d)
      <3> SUFFICES ASSUME NEW e \in S, e <= c PROVE e <= d
        OBVIOUS
      <3> QED
        BY <1>3, <2>3
    <2>1. UpTo(c) \subseteq UpTo(d) /\ d \in UpTo(d) /\ d \notin UpTo(c)
      BY <1>3, <2>3, <2>4
    <2>2. Cardinality(UpTo(c)) < Cardinality(UpTo(d))
      <3>1. Cardinality(UpTo(c)) <= Cardinality(UpTo(d))
        BY <1>2, <2>1, FS_Subset
      <3>2. Cardinality(UpTo(c)) # Cardinality(UpTo(d))
        BY <1>2, <2>1, FS_Subset
      <3>3. Cardinality(UpTo(c)) \in Int /\ Cardinality(UpTo(d)) \in Int
        BY <1>1, <1>2
      <3> QED
        BY <3>1, <3>2, <3>3
    <2> QED
      BY <2>2
  <1>4. rank \in [S -> places]
    BY <1>2
  <1>5. \A c, d \in S : rank[c] = rank[d] => c = d
    <2> SUFFICES ASSUME NEW c \in S, NEW d \in S, rank[c] = rank[d] PROVE c = d
      OBVIOUS
    <2>1. rank[c] \in Int /\ c \in Int /\ d \in Int
      BY <1>1, <1>4
    <2>2. ~(c < d) /\ ~(d < c)
      BY <1>3, <2>1
    <2> QED
      BY <2>1, <2>2
  <1>6. rank \in Injection(S, places)
    BY <1>4, <1>5 DEF Injection, IsInjective
  <1>7. IsFiniteSet(places) /\ Cardinality(places) = Cardinality(S)
    BY <1>1, FS_Interval
  <1>8. rank \in Surjection(S, places)
    BY <1>6, <1>7, FS_Injection
  <1>9. \A n \in places : \E c \in S : rank[c] = n
    BY <1>8 DEF Surjection
  <1> DEFINE list == [n \in places |-> CHOOSE c \in S : rank[c] = n]
  <1>10. \A n \in places : list[n] \in S /\ rank[list[n]] = n
    BY <1>9
  <1>11. ASSUME NEW m \in places, NEW n \in places, m < n PROVE list[m] < list[n]
    <2> HIDE DEF rank, list
    <2>1. list[m] \in S /\ list[n] \in S /\ rank[list[m]] = m /\ rank[list[n]] = n
      BY <1>10
    <2>5. \A e \in S : e \in Int
      OBVIOUS
    <2>6. m \in Int /\ n \in Int
      BY <1>1
    <2>2. list[m] \in Int /\ list[n] \in Int /\ m \in Int /\ n \in Int
      BY <2>1, <2>5, <2>6
    <2>3. list[m] # list[n]
      BY <1>11, <2>1, <2>2
    <2>4. ~(list[n] < list[m])
      BY <1>3, <1>11, <2>1, <2>2
    <2> QED
      BY <2>2, <2>3, <2>4
  <1>12. list \in [places -> S]
    BY <1>10
  <1> QED
    BY <1>11, <1>12

\* The list of the driver is ascending.
LEMMA Devinfos ==
  ASSUME nv \subseteq NvCards
  PROVE  /\ Cardinality(nv) \in Nat
         /\ Gpu!devinfos \in [1..Cardinality(nv) -> nv]
         /\ \A m, n \in DOMAIN Gpu!devinfos : m < n => Gpu!devinfos[m] < Gpu!devinfos[n]
  <1>1. nv \subseteq Nat /\ IsFiniteSet(nv)
    BY HardwareAssumption, FS_Subset
  <1> DEFINE places == 1..Cardinality(nv)
  <1>2. PICK sorted \in [places -> nv] : \A m, n \in places : m < n => sorted[m] < sorted[n]
    BY <1>1, SortedListing
  <1>3. \A S : Gpu!Cardinality(S) = Cardinality(S)
    BY DEF Gpu!Cardinality, Cardinality
  <1>4. Cardinality(nv) \in Nat
    BY <1>1, FS_CardinalityType
  <1>7. ASSUME NEW m \in places, NEW n \in places, m # n PROVE sorted[m] # sorted[n]
    <2>3. m \in Int /\ n \in Int
      BY <1>4
    <2>4. sorted[m] \in nv /\ sorted[n] \in nv
      BY <1>2
    <2>5. \A e \in nv : e \in Int
      BY <1>1
    <2>1. m \in Int /\ n \in Int /\ sorted[m] \in Int /\ sorted[n] \in Int
      BY <2>3, <2>4, <2>5
    <2>2. m < n \/ n < m
      BY <1>7, <2>1
    <2> QED
      BY <1>2, <2>1, <2>2
  <1>5. sorted \in Gpu!SetToSeqs(nv)
    BY <1>3, <1>7 DEF Gpu!SetToSeqs
  <1>8. \A m, n \in DOMAIN sorted : m < n => sorted[m] < sorted[n]
    BY <1>2
  <1>6. /\ Gpu!devinfos \in Gpu!SetToSeqs(nv)
        /\ \A m, n \in DOMAIN Gpu!devinfos : m < n => Gpu!devinfos[m] < Gpu!devinfos[n]
    BY <1>5, <1>8 DEF Gpu!devinfos
  <1> QED
    BY <1>3, <1>4, <1>6 DEF Gpu!SetToSeqs

\* A card is at the place in this list that says how many cards there are up to it.
LEMMA PlaceInDevinfos ==
  ASSUME nv \subseteq NvCards
  PROVE  /\ \A n \in DOMAIN Gpu!devinfos : Cardinality(Gpu!UpTo(nv, Gpu!devinfos[n])) = n
         /\ \A c \in nv : \E n \in DOMAIN Gpu!devinfos : Gpu!devinfos[n] = c
  <1>1. nv \subseteq Nat /\ IsFiniteSet(nv)
    BY HardwareAssumption, FS_Subset
  <1> DEFINE places == 1..Cardinality(nv)
  <1>2. PICK list \in [places -> nv] :
          list = Gpu!devinfos /\ \A m, n \in places : m < n => list[m] < list[n]
    BY Devinfos
  <1>3. Cardinality(nv) \in Nat /\ IsFiniteSet(places) /\ Cardinality(places) = Cardinality(nv)
    BY <1>1, FS_CardinalityType, FS_Interval
  <1>4. \A m, n \in places : m \in Int /\ n \in Int /\ list[m] \in Int /\ list[n] \in Int
    <2>1. \A n \in places : n \in Int
      BY <1>3
    <2>2. \A n \in places : list[n] \in nv
      BY <1>2
    <2>3. \A c \in nv : c \in Int
      BY <1>1
    <2> HIDE DEF places
    <2> QED
      BY <2>1, <2>2, <2>3
  <1>5. \A m, n \in places : list[m] = list[n] => m = n
    <2> SUFFICES ASSUME NEW m \in places, NEW n \in places, m # n PROVE list[m] # list[n]
      OBVIOUS
    <2>1. m < n \/ n < m
      BY <1>4
    <2> QED
      BY <1>2, <1>4, <2>1
  <1>6. list \in Injection(places, nv)
    BY <1>2, <1>5 DEF Injection, IsInjective
  <1>7. list \in Surjection(places, nv)
    BY <1>1, <1>3, <1>6, FS_Injection
  <1>8. \A c \in nv : \E n \in places : list[n] = c
    BY <1>7 DEF Surjection
  <1>9. ASSUME NEW n \in places PROVE Cardinality(Gpu!UpTo(nv, list[n])) = n
    <2> DEFINE first == [m \in 1..n |-> list[m]]
    <2>1. n \in Nat /\ 1..n \subseteq places
      BY <1>3
    <2>2. \A m \in places : list[m] <= list[n] <=> m <= n
      BY <1>2, <1>4, <1>5
    <2>3. \A m \in 1..n : list[m] \in Gpu!UpTo(nv, list[n])
      BY <1>2, <2>1, <2>2 DEF Gpu!UpTo
    <2>4. ASSUME NEW c \in Gpu!UpTo(nv, list[n]) PROVE \E m \in 1..n : list[m] = c
      <3>1. PICK m \in places : list[m] = c
        BY <1>8 DEF Gpu!UpTo
      <3>2. m <= n
        BY <2>2, <3>1 DEF Gpu!UpTo
      <3> QED
        BY <1>3, <3>1, <3>2
    <2>5. first \in Injection(1..n, Gpu!UpTo(nv, list[n]))
      <3>1. first \in [1..n -> Gpu!UpTo(nv, list[n])]
        BY <2>3
      <3>2. \A k, m \in 1..n : first[k] = first[m] => k = m
        BY <1>5, <2>1
      <3> QED
        BY <3>1, <3>2 DEF Injection, IsInjective
    <2>6. first \in Surjection(1..n, Gpu!UpTo(nv, list[n]))
      <3>1. first \in [1..n -> Gpu!UpTo(nv, list[n])]
        BY <2>3
      <3>2. \A c \in Gpu!UpTo(nv, list[n]) : \E m \in 1..n : first[m] = c
        BY <2>4
      <3> QED
        BY <3>1, <3>2 DEF Surjection
    <2>7. ExistsBijection(1..n, Gpu!UpTo(nv, list[n]))
      BY <2>5, <2>6 DEF ExistsBijection, Bijection
    <2>8. IsFiniteSet(1..n) /\ Cardinality(1..n) = n
      BY <2>1, FS_Interval
    <2> QED
      BY <2>7, <2>8, FS_Bijection
  <1> QED
    BY <1>2, <1>8, <1>9

\* A listing of a finite set of devices is an injective sequence of them.
LEMMA GpuListing ==
  ASSUME drm \subseteq DrmCards, NEW order \in Gpu!SetToSeqs(drm)
  PROVE  /\ order \in Seq(drm)
         /\ \A m, n \in DOMAIN order : order[m] = order[n] => m = n
  <1>1. \A S : Gpu!Cardinality(S) = Cardinality(S)
    BY DEF Gpu!Cardinality, Cardinality
  <1>2. Cardinality(drm) \in Nat
    BY HardwareAssumption, FS_Subset, FS_CardinalityType
  <1> QED
    BY <1>1, <1>2 DEF Gpu!SetToSeqs

\* The instance names the same operator.
LEMMA SameCardinalityOfCards == \A S : Gpu!Cardinality(S) = Cardinality(S)
  BY DEF Gpu!Cardinality, Cardinality

LEMMA GpuInit == Gpu!Init => GpuInv
  <1> SUFFICES ASSUME Gpu!Init PROVE GpuInv
    OBVIOUS
  <1>1. /\ views = <<>> /\ drmMap = <<>> /\ seen = <<>> /\ numDrm = 0 /\ numGpus = 0
        /\ gpuUndefined = "nothing"
    BY DEF Gpu!Init
  <1>2. Gpu!TypeOK
    <2>1. /\ drmMap \in Seq(DrmCards) /\ numDrm = Len(drmMap)
          /\ views \in Seq(DrmCards \cup NvCards \cup {None}) /\ Len(views) <= numGpus
          /\ seen \in Seq(SUBSET NvCards) /\ Len(seen) = Len(views)
      BY <1>1
    <2>2. library \in BOOLEAN /\ hasError \in BOOLEAN /\ counted \in BOOLEAN
      BY DEF Gpu!Init
    <2> QED
      BY <1>1, <2>1, <2>2 DEF Gpu!Init, Gpu!TypeOK
  <1> QED
    BY <1>1, <1>2 DEF GpuInv, NamesInv, UndefinedInv

\* What a call on a number within those counted can ask: a card of g_DrmGpuMap, the
\* card of the driver at its place, or nothing; if the place is out of the bounds of
\* devinfos, there are fewer NVIDIA cards than were counted.
LEMMA CardFacts ==
  ASSUME GpuInv, NEW id \in 1..numGpus
  PROVE  /\ id <= numDrm => Gpu!CardAt(id) = drmMap[id] /\ Gpu!CardAt(id) \in DrmCards
         /\ id > numDrm /\ Gpu!CardAt(id) \notin {None, Undefined} =>
              /\ Gpu!HasInfo
              /\ id - numDrm \in DOMAIN Gpu!devinfos
              /\ Gpu!CardAt(id) = Gpu!devinfos[id - numDrm]
              /\ Gpu!CardAt(id) \in nv
         /\ Gpu!CardAt(id) = Undefined => Cardinality(nv) < numGpus - numDrm
  <1>1. /\ nv \subseteq NvCards /\ numGpus \in Nat
        /\ numDrm = Len(drmMap) /\ drmMap \in Seq(DrmCards) /\ numDrm \in Nat
    BY DEF GpuInv, Gpu!TypeOK
  <1>2. Cardinality(nv) \in Nat /\ Gpu!devinfos \in [1..Cardinality(nv) -> nv]
    BY <1>1, Devinfos
  <1>3. ASSUME id <= numDrm PROVE Gpu!CardAt(id) = drmMap[id] /\ Gpu!CardAt(id) \in DrmCards
    BY <1>1, <1>3 DEF Gpu!CardAt
  <1>4. ASSUME id > numDrm, Gpu!CardAt(id) \notin {None, Undefined}
        PROVE  /\ Gpu!HasInfo
               /\ id - numDrm \in DOMAIN Gpu!devinfos
               /\ Gpu!CardAt(id) = Gpu!devinfos[id - numDrm]
               /\ Gpu!CardAt(id) \in nv
    <2>1. ~(id <= numDrm)
      BY <1>1, <1>4
    <2>2. Gpu!HasInfo /\ id - numDrm \in DOMAIN Gpu!devinfos
      BY <1>4, <2>1 DEF Gpu!CardAt
    <2>3. Gpu!CardAt(id) = Gpu!devinfos[id - numDrm]
      BY <2>1, <2>2 DEF Gpu!CardAt
    <2> QED
      BY <1>2, <2>2, <2>3
  <1>5. ASSUME Gpu!CardAt(id) = Undefined PROVE Cardinality(nv) < numGpus - numDrm
    <2>1. ~(id <= numDrm)
      BY <1>3, <1>5, HardwareAssumption
    <2>2. id - numDrm \notin DOMAIN Gpu!devinfos
      <3>1. ASSUME id - numDrm \in DOMAIN Gpu!devinfos
            PROVE  Gpu!CardAt(id) = None \/ Gpu!CardAt(id) = Gpu!devinfos[id - numDrm]
        BY <2>1, <3>1 DEF Gpu!CardAt
      <3>2. ASSUME id - numDrm \in DOMAIN Gpu!devinfos PROVE Gpu!devinfos[id - numDrm] \in NvCards
        BY <1>1, <1>2, <3>2
      <3> QED
        BY <1>5, <3>1, <3>2, HardwareAssumption
    <2>3. id - numDrm \notin 1..Cardinality(nv)
      BY <1>2, <2>2
    <2> QED
      BY <1>1, <1>2, <2>1, <2>3
  <1> QED
    BY <1>3, <1>4, <1>5

\* The GPUs are counted before any view has a name.
LEMMA CountStep ==
  ASSUME GpuInv, Gpu!CountGPUs
  PROVE  GpuInv'
  <1> USE DEF Gpu!CountGPUs, Gpu!hardware
  <1>1. /\ drmMap' \in Seq(drm) /\ numDrm' = Len(drmMap') /\ drm \subseteq DrmCards
        /\ \A m, n \in DOMAIN drmMap' : drmMap'[m] = drmMap'[n] => m = n
    BY GpuListing DEF GpuInv, Gpu!TypeOK
  <1>2. Cardinality(nv) \in Nat /\ Gpu!devinfos \in [1..Cardinality(nv) -> nv]
    BY Devinfos DEF GpuInv, Gpu!TypeOK
  <1>3. Len(Gpu!devinfos) = Cardinality(nv)
    BY <1>2
  <1>4. numGpus' \in Nat
    <2>1. Len(drmMap') \in Nat
      BY <1>1
    <2> QED
      BY <1>1, <1>2, <1>3, <2>1
  <1>5. Len(views) = 0 /\ DOMAIN views = {}
    <2>1. views \in Seq(DrmCards \cup NvCards \cup {None}) /\ Len(views) <= 0
      BY DEF GpuInv, Gpu!TypeOK
    <2> QED
      BY <2>1
  <1>6. Gpu!TypeOK'
    <2>1. drmMap' \in Seq(DrmCards)
      BY <1>1
    <2>2. hasError' \in BOOLEAN
      BY DEF Gpu!GetInfo, GpuInv, Gpu!TypeOK
    <2>3. Len(views) <= numGpus'
      BY <1>4, <1>5
    <2> QED
      BY <1>1, <1>4, <2>1, <2>2, <2>3 DEF GpuInv, Gpu!TypeOK
  <1>7. NamesInv' /\ UndefinedInv'
    BY <1>5 DEF NamesInv, UndefinedInv
  <1> QED
    BY <1>1, <1>6, <1>7 DEF GpuInv

\* The next view is given its name, or the name is read out of the bounds.
LEMMA NameStep ==
  ASSUME GpuInv, Gpu!NameGPU
  PROVE  GpuInv'
  <1> USE DEF Gpu!NameGPU, Gpu!hardware, Gpu!numbers
  <1> DEFINE id == Len(views) + 1
             card == Gpu!CardAt(id)
             listed == IF id <= numDrm THEN {} ELSE nv
             Cards == DrmCards \cup NvCards \cup {None}
  <1>1. /\ views \in Seq(Cards) /\ Len(views) \in Nat /\ Len(views) <= numGpus
        /\ seen \in Seq(SUBSET NvCards) /\ Len(seen) = Len(views)
        /\ numGpus \in Nat /\ numDrm \in Nat /\ nv \subseteq NvCards
    BY DEF GpuInv, Gpu!TypeOK
  <1>2. id \in 1..numGpus
    BY <1>1
  <1>3. hasError' \in BOOLEAN
    BY DEF Gpu!Ask, Gpu!GetInfo, GpuInv, Gpu!TypeOK
  <1>4. CASE card = Undefined
    <2>1. gpuUndefined' = "bounds" /\ UNCHANGED <<views, seen>>
      BY <1>4
    <2>2. Gpu!TypeOK'
      BY <1>3, <2>1 DEF GpuInv, Gpu!TypeOK
    <2>3. Cardinality(nv) < numGpus - numDrm
      BY <1>2, <1>4, CardFacts
    <2>4. NamesInv' /\ UndefinedInv'
      BY <2>1, <2>3 DEF GpuInv, NamesInv, UndefinedInv
    <2> QED
      BY <2>2, <2>4 DEF GpuInv
  <1>5. CASE card # Undefined
    <2>1. views' = Append(views, card) /\ seen' = Append(seen, listed) /\ UNCHANGED gpuUndefined
      BY <1>5
    <2>2. card \in Cards /\ listed \in SUBSET NvCards
      BY <1>1, <1>2, <1>5, CardFacts
    <2> HIDE DEF card, listed, Cards
    <2>3. /\ views' \in Seq(Cards) /\ seen' \in Seq(SUBSET NvCards)
          /\ Len(views') = id /\ Len(seen') = id
          /\ DOMAIN views' = DOMAIN views \cup {id}
          /\ \A n \in DOMAIN views : views'[n] = views[n] /\ seen'[n] = seen[n]
          /\ views'[id] = card /\ seen'[id] = listed
      BY <1>1, <2>1, <2>2
    <2>4. Gpu!TypeOK'
      BY <1>2, <1>3, <2>1, <2>3 DEF GpuInv, Gpu!TypeOK, Cards
    <2>5. /\ id <= numDrm => card = drmMap[id]
          /\ id > numDrm /\ card # None =>
               card \in listed /\ Cardinality(Gpu!UpTo(listed, card)) = id - numDrm
      <3>1. id \in Int /\ (id <= numDrm \/ id > numDrm)
        BY <1>1
      <3>2. ASSUME id > numDrm, card # None
            PROVE  card \in listed /\ Cardinality(Gpu!UpTo(listed, card)) = id - numDrm
        <4>1. listed = nv
          BY <1>1, <3>2 DEF listed
        <4>2. id - numDrm \in DOMAIN Gpu!devinfos /\ card = Gpu!devinfos[id - numDrm] /\ card \in nv
          BY <1>2, <1>5, <3>2, CardFacts DEF card
        <4> QED
          BY <1>1, <4>1, <4>2, PlaceInDevinfos
      <3> QED
        BY <1>2, <3>2, CardFacts DEF card
    <2>6. NamesInv'
      <3> SUFFICES ASSUME NEW n \in DOMAIN views'
                   PROVE  IF n <= numDrm THEN views'[n] = drmMap[n]
                          ELSE views'[n] # None =>
                                 /\ views'[n] \in seen'[n]
                                 /\ Cardinality(Gpu!UpTo(seen'[n], views'[n])) = n - numDrm
        BY DEF NamesInv, Gpu!UpTo
      <3>1. CASE n \in DOMAIN views
        BY <2>3, <3>1 DEF GpuInv, NamesInv
      <3>2. CASE n = id
        <4>1. id > numDrm \/ id <= numDrm
          BY <1>1
        <4>2. id > numDrm => ~(id <= numDrm)
          BY <1>1
        <4> HIDE DEF id
        <4> QED
          BY <2>3, <2>5, <3>2, <4>1, <4>2
      <3> QED
        BY <2>3, <3>1, <3>2
    <2>7. UndefinedInv'
      BY <2>1 DEF UndefinedInv
    <2> QED
      BY <2>4, <2>6, <2>7 DEF GpuInv
  <1> QED
    BY <1>4, <1>5

\* What no later call changes.
LEMMA AskStep ==
  ASSUME GpuInv, hasError' \in BOOLEAN,
         gpuUndefined' \in {"nothing", "bounds", "clock", "temperature"}, UndefinedInv',
         UNCHANGED <<drm, nv, silent, clockless, bare, library, numDrm, drmMap, counted,
                     numGpus, views, seen>>
  PROVE  GpuInv'
  <1>1. Gpu!TypeOK'
    BY DEF GpuInv, Gpu!TypeOK
  <1>2. NamesInv'
    BY DEF GpuInv, NamesInv, Gpu!UpTo
  <1> QED
    BY <1>1, <1>2 DEF GpuInv

LEMMA GpuHandlerStep ==
  ASSUME GpuInv, NEW id \in DOMAIN views, Gpu!Handler(id)
  PROVE  GpuInv'
  <1> USE DEF Gpu!Handler, Gpu!hardware, Gpu!numbers
  <1> DEFINE card == Gpu!CardAt(id)
  <1>1. id \in 1..numGpus /\ id \in Int /\ numDrm \in Int
        /\ nv \subseteq NvCards /\ bare \subseteq DrmCards /\ silent \subseteq NvCards
    BY DEF GpuInv, Gpu!TypeOK
  <1>2. gpuUndefined' = IF card = Undefined THEN "bounds"
                        ELSE IF card \in clockless THEN "clock"
                        ELSE IF Gpu!NoTemperature(card) THEN "temperature"
                        ELSE "nothing"
    OBVIOUS
  <1>3. ASSUME gpuUndefined' = "bounds" PROVE Cardinality(nv) < numGpus - numDrm
    BY <1>1, <1>2, <1>3, CardFacts
  <1>4. ASSUME gpuUndefined' = "temperature", bare = {} PROVE \E c, d \in nv : c \in silent /\ c < d
    <2>1. card # Undefined /\ card \in silent
      BY <1>2, <1>4 DEF Gpu!NoTemperature
    <2>2. card \in NvCards /\ card # None
      BY <1>1, <2>1, HardwareAssumption
    <2>3. id > numDrm
      BY <1>1, <2>2, CardFacts, HardwareAssumption
    <2> DEFINE places == 1..Cardinality(nv)
               n == id - numDrm
    <2>4. Gpu!HasInfo /\ n \in DOMAIN Gpu!devinfos /\ card = Gpu!devinfos[n] /\ card \in nv
      BY <1>1, <2>1, <2>2, <2>3, CardFacts
    <2>5. /\ Cardinality(nv) \in Nat
          /\ Gpu!devinfos \in [places -> nv]
          /\ \A m, k \in DOMAIN Gpu!devinfos : m < k => Gpu!devinfos[m] < Gpu!devinfos[k]
      BY <1>1, Devinfos
    <2>6. Gpu!Last(Gpu!devinfos) = Gpu!devinfos[Cardinality(nv)] /\ Gpu!Last(Gpu!devinfos) \notin silent
      BY <2>4, <2>5 DEF Gpu!HasInfo, Gpu!Last
    <2>7. n \in places /\ Cardinality(nv) \in places /\ n # Cardinality(nv)
      BY <2>1, <2>4, <2>5, <2>6
    <2>8. n < Cardinality(nv)
      BY <2>5, <2>7
    <2>9. card < Gpu!devinfos[Cardinality(nv)] /\ Gpu!devinfos[Cardinality(nv)] \in nv
      BY <2>4, <2>5, <2>7, <2>8
    <2> QED
      BY <2>1, <2>4, <2>9
  <1>5. UndefinedInv'
    BY <1>3, <1>4 DEF UndefinedInv
  <1>6. hasError' \in BOOLEAN
    BY DEF Gpu!Ask, Gpu!GetInfo, GpuInv, Gpu!TypeOK
  <1>7. gpuUndefined' \in {"nothing", "bounds", "clock", "temperature"}
    BY <1>2
  <1> QED
    BY <1>5, <1>6, <1>7, AskStep

\* The first of the numbers may be that of no GPU at all.
LEMMA ProcessInfoStep ==
  ASSUME GpuInv, Gpu!ProcessInfo
  PROVE  GpuInv'
  <1> USE DEF Gpu!ProcessInfo, Gpu!hardware, Gpu!numbers
  <1>1. numDrm = Len(drmMap) /\ drmMap \in Seq(DrmCards) /\ numDrm \in Nat /\ numGpus \in Nat
        /\ nv \subseteq NvCards
    BY DEF GpuInv, Gpu!TypeOK
  <1>2. ASSUME gpuUndefined' = "bounds"
        PROVE  Cardinality(nv) < numGpus - numDrm \/ (numGpus = 0 /\ nv = {})
    <2>1. Gpu!HasInfo /\ Gpu!CardAt(1) = Undefined
      BY <1>2
    <2>2. CASE numGpus # 0
      BY <1>1, <2>1, <2>2, CardFacts
    <2>3. CASE numGpus = 0
      <3>1. Cardinality(nv) \in Nat /\ Gpu!devinfos \in [1..Cardinality(nv) -> nv]
        BY <1>1, Devinfos
      <3>2. ~(1 <= numDrm)
        <4>1. ASSUME 1 <= numDrm PROVE drmMap[1] \in DrmCards
          BY <1>1, <4>1
        <4> QED
          BY <2>1, <4>1, HardwareAssumption DEF Gpu!CardAt
      <3>3. 1 \notin 1..Cardinality(nv)
        <4>1. numDrm = 0
          BY <1>1, <3>2
        <4>2. ASSUME 1 \in 1..Cardinality(nv) PROVE Gpu!devinfos[1] \in NvCards
          BY <1>1, <3>1, <4>2
        <4>3. ASSUME 1 \in 1..Cardinality(nv) PROVE Gpu!CardAt(1) = Gpu!devinfos[1]
          BY <2>1, <3>1, <4>1, <4>3 DEF Gpu!CardAt
        <4> QED
          BY <2>1, <4>2, <4>3, HardwareAssumption
      <3>4. Cardinality(nv) = 0
        BY <3>1, <3>3
      <3>5. IsFiniteSet(nv)
        BY <1>1, HardwareAssumption, FS_Subset
      <3> QED
        BY <2>3, <3>4, <3>5, FS_EmptySet
    <2> QED
      BY <2>2, <2>3
  <1>3. gpuUndefined' \in {"nothing", "bounds"}
    OBVIOUS
  <1>4. UndefinedInv'
    BY <1>2, <1>3 DEF UndefinedInv
  <1>5. hasError' \in BOOLEAN
    BY DEF Gpu!GetInfo, GpuInv, Gpu!TypeOK
  <1> QED
    BY <1>3, <1>4, <1>5, AskStep

LEMMA PlugGpuStep ==
  ASSUME GpuInv, NEW card \in NvCards, Gpu!Plug(card)
  PROVE  GpuInv'
  <1> USE DEF Gpu!Plug, Gpu!numbers
  <1>1. \A cards \in SUBSET NvCards : Gpu!Toggle(cards, card) \subseteq NvCards
    BY DEF Gpu!Toggle
  <1>2. Gpu!TypeOK'
    BY <1>1 DEF GpuInv, Gpu!TypeOK
  <1>3. NamesInv'
    BY DEF GpuInv, NamesInv, Gpu!UpTo
  <1>4. UndefinedInv'
    BY DEF UndefinedInv
  <1> QED
    BY <1>2, <1>3, <1>4 DEF GpuInv

\* The other steps of the page leave the cards alone.
LEMMA GpuStep == GpuInv /\ [Next]_vars => GpuInv'
  <1> SUFFICES ASSUME GpuInv, [Next]_vars PROVE GpuInv'
    OBVIOUS
  <1>1. CASE UNCHANGED gpu
    BY <1>1 DEF gpu, GpuInv, NamesInv, UndefinedInv, Gpu!TypeOK, Gpu!UpTo
  <1>2. CASE CountGPUs
    BY <1>2, CountStep DEF CountGPUs
  <1>3. CASE MakeGpuView
    BY <1>3, NameStep DEF MakeGpuView
  <1>4. ASSUME NEW id \in DOMAIN views, GpuHandler(id) PROVE GpuInv'
    BY <1>4, GpuHandlerStep DEF GpuHandler
  <1>5. CASE ProcessInfo
    BY <1>5, ProcessInfoStep DEF ProcessInfo
  <1>6. ASSUME NEW card \in NvCards, PlugGpu(card) PROVE GpuInv'
    BY <1>6, PlugGpuStep DEF PlugGpu
  <1> QED
    BY <1>1, <1>2, <1>3, <1>4, <1>5, <1>6
    DEF Next, vars, MakePages, CpuHandler, CpuClick, Press, PlugCpu, PlugSensor

LEMMA GpuInvImplies == GpuInv => ViewsShowTheirCard
  <1> SUFFICES ASSUME GpuInv PROVE Gpu!ViewsShowTheirCard
    BY DEF ViewsShowTheirCard
  <1>1. /\ views \in Seq(DrmCards \cup NvCards \cup {None}) /\ DOMAIN views \subseteq 1..numGpus
        /\ drmMap \in Seq(DrmCards) /\ numDrm = Len(drmMap) /\ numDrm \in Nat /\ numGpus \in Nat
        /\ nv \subseteq NvCards
    BY DEF GpuInv, Gpu!TypeOK
  <1>2. /\ Cardinality(nv) \in Nat
        /\ Gpu!devinfos \in [1..Cardinality(nv) -> nv]
    BY <1>1, Devinfos
  <1>3. \A id \in DOMAIN views : id \in Int /\ id >= 1 /\ id <= numGpus
    BY <1>1
  <1>4. ASSUME NEW id \in DOMAIN views, views[id] \in DrmCards PROVE Gpu!CardAt(id) = views[id]
    <2>1. CASE id <= numDrm
      BY <1>1, <2>1, CardFacts DEF GpuInv, NamesInv
    <2>2. CASE ~(id <= numDrm)
      <3>1. views[id] # None
        BY <1>4, HardwareAssumption
      <3>2. views[id] \in seen[id]
        BY <2>2, <3>1 DEF GpuInv, NamesInv
      <3>3. seen[id] \subseteq NvCards
        BY <1>1 DEF GpuInv, Gpu!TypeOK
      <3> QED
        BY <1>4, <3>2, <3>3, HardwareAssumption
    <2> QED
      BY <2>1, <2>2
  <1>5. ASSUME NEW id \in DOMAIN views, views[id] \in NvCards,
               Gpu!UpTo(nv, views[id]) = Gpu!UpTo(seen[id], views[id])
        PROVE  Gpu!CardAt(id) \in {views[id], None}
    <2>1. ~(id <= numDrm)
      <3>1. ASSUME id <= numDrm PROVE views[id] \in DrmCards
        BY <1>1, <3>1, CardFacts DEF GpuInv, NamesInv
      <3> QED
        BY <1>5, <3>1, HardwareAssumption
    <2>2. views[id] # None
      BY <1>5, HardwareAssumption
    <2>3. views[id] \in seen[id] /\ Cardinality(Gpu!UpTo(seen[id], views[id])) = id - numDrm
      BY <2>1, <2>2 DEF GpuInv, NamesInv
    <2>4. views[id] \in Nat
      BY <1>5, HardwareAssumption
    <2>5. views[id] \in nv
      <3>1. views[id] \in Gpu!UpTo(seen[id], views[id])
        BY <2>3, <2>4 DEF Gpu!UpTo
      <3> QED
        BY <1>5, <3>1 DEF Gpu!UpTo
    <2>6. PICK n \in DOMAIN Gpu!devinfos : Gpu!devinfos[n] = views[id]
      BY <1>1, <2>5, PlaceInDevinfos
    <2>7. n = id - numDrm
      BY <1>1, <1>5, <2>3, <2>6, PlaceInDevinfos
    <2> QED
      BY <2>1, <2>6, <2>7 DEF Gpu!CardAt
  <1>6. ASSUME NEW m \in DOMAIN views, NEW n \in DOMAIN views, Gpu!CardAt(m) = Gpu!CardAt(n),
               Gpu!CardAt(m) \notin {None, Undefined}
        PROVE  m = n
    <2>1. m \in 1..numGpus /\ n \in 1..numGpus
      BY <1>1
    <2>2. m <= numDrm <=> n <= numDrm
      <3>1. \A id \in {m, n} : IF id <= numDrm THEN Gpu!CardAt(id) \in DrmCards ELSE Gpu!CardAt(id) \in nv
        <4> SUFFICES ASSUME NEW id \in {m, n}
                     PROVE  IF id <= numDrm THEN Gpu!CardAt(id) \in DrmCards ELSE Gpu!CardAt(id) \in nv
          OBVIOUS
        <4>1. id \in 1..numGpus /\ Gpu!CardAt(id) \notin {None, Undefined}
              /\ (id <= numDrm \/ id > numDrm)
          BY <1>1, <1>6, <2>1
        <4> QED
          BY <4>1, CardFacts
      <3> QED
        BY <1>1, <1>6, <3>1, HardwareAssumption
    <2>3. CASE m <= numDrm
      <3>1. drmMap[m] = drmMap[n] /\ m \in DOMAIN drmMap /\ n \in DOMAIN drmMap
        BY <1>1, <1>6, <2>1, <2>2, <2>3, CardFacts
      <3> QED
        BY <3>1 DEF GpuInv
    <2>4. CASE ~(m <= numDrm)
      <3>1. m > numDrm /\ n > numDrm
        BY <1>1, <2>1, <2>2, <2>4
      <3>2. /\ m - numDrm \in DOMAIN Gpu!devinfos /\ n - numDrm \in DOMAIN Gpu!devinfos
            /\ Gpu!devinfos[m - numDrm] = Gpu!devinfos[n - numDrm]
        <4>1. m - numDrm \in DOMAIN Gpu!devinfos /\ Gpu!CardAt(m) = Gpu!devinfos[m - numDrm]
          BY <1>6, <2>1, <3>1, CardFacts
        <4>2. n - numDrm \in DOMAIN Gpu!devinfos /\ Gpu!CardAt(n) = Gpu!devinfos[n - numDrm]
          BY <1>6, <2>1, <3>1, CardFacts
        <4> QED
          BY <1>6, <4>1, <4>2
      <3>3. m - numDrm = n - numDrm
        BY <1>1, <3>2, PlaceInDevinfos, Zenon
      <3> QED
        BY <1>1, <2>1, <3>3
    <2> QED
      BY <2>3, <2>4
  <1>7. gpuUndefined = "bounds" => Gpu!Cardinality(nv) < numGpus - numDrm \/ (numGpus = 0 /\ nv = {})
    BY SameCardinalityOfCards DEF GpuInv, UndefinedInv
  <1>8. gpuUndefined = "temperature" => bare # {} \/ \E c, d \in nv : c \in silent /\ c < d
    BY DEF GpuInv, UndefinedInv
  <1> QED
    BY <1>4, <1>5, <1>6, <1>7, <1>8 DEF Gpu!ViewsShowTheirCard

\* Whichever NVIDIA cards come, go and fail while the views are made and afterwards,
\* a view shows the card it is named after unless a card up to that one has come or
\* gone, no two views show one card, and what the code does not define is read only
\* as ViewsShowTheirCard says (GetNumGPUs, GetGPUName, the handler of
\* PerformanceGPUView, GetGPUProcessInfo).
THEOREM ViewsShowCards == Spec => []ViewsShowTheirCard
  <1>1. Init => GpuInv
    BY GpuInit DEF Init
  <1> QED
    BY <1>1, GpuStep, GpuInvImplies, PTL DEF Spec

-----------------------------------------------------------------------------
(* The steps of the constructor and the clicks. *)

\* A listing of a finite set has each of its members once.
LEMMA PagesListing ==
  ASSUME NEW devices, IsFiniteSet(devices), NEW there, there \subseteq devices,
         NEW list \in Pages!SetToSeqs(there)
  PROVE  /\ list \in Seq(there) /\ list \in Seq(devices)
         /\ \A m, n \in DOMAIN list : list[m] = list[n] => m = n
         /\ \A d \in there : \E n \in DOMAIN list : list[n] = d
  <1>1. \A S : Pages!Cardinality(S) = Cardinality(S)
    BY DEF Pages!Cardinality, Cardinality
  <1>2. IsFiniteSet(there) /\ Cardinality(there) \in Nat
    BY FS_Subset, FS_CardinalityType
  <1> DEFINE places == 1..Cardinality(there)
  <1>3. list \in [places -> there] /\ \A m, n \in places : m # n => list[m] # list[n]
    BY <1>1 DEF Pages!SetToSeqs
  <1>4. list \in Injection(places, there)
    BY <1>3 DEF Injection, IsInjective
  <1>5. Cardinality(places) = Cardinality(there)
    BY <1>2, FS_Interval
  <1>6. list \in Surjection(places, there)
    BY <1>2, <1>4, <1>5, FS_Injection
  <1>7. list \in Seq(there) /\ list \in Seq(devices)
    BY <1>2, <1>3
  <1> QED
    BY <1>3, <1>6, <1>7 DEF Surjection

\* A sequence of ids goes on with the next ones.
LEMMA NextIds ==
  ASSUME NEW s \in Seq(Nat), \A n \in DOMAIN s : s[n] = n - 1,
         NEW t \in Seq(Nat), \A n \in DOMAIN t : t[n] = Len(s) + n - 1
  PROVE  /\ s \o t \in Seq(Nat)
         /\ Len(s \o t) = Len(s) + Len(t)
         /\ \A n \in DOMAIN (s \o t) : (s \o t)[n] = n - 1
         /\ ToSet(s) \subseteq ToSet(s \o t)
  <1>1. /\ s \o t \in Seq(Nat)
        /\ Len(s \o t) = Len(s) + Len(t)
        /\ DOMAIN (s \o t) = 1..Len(s) + Len(t)
        /\ Len(s) \in Nat /\ Len(t) \in Nat
    OBVIOUS
  <1>2. \A n \in 1..Len(s) + Len(t) : (s \o t)[n] = IF n <= Len(s) THEN s[n] ELSE t[n - Len(s)]
    BY ConcatProperties, Zenon
  <1>3. ASSUME NEW n \in 1..Len(s) + Len(t) PROVE (s \o t)[n] = n - 1
    <2>1. CASE n <= Len(s)
      <3>1. n \in DOMAIN s
        BY <1>1, <2>1
      <3> QED
        BY <1>2, <2>1, <3>1
    <2>2. CASE ~(n <= Len(s))
      <3>1. n - Len(s) \in DOMAIN t
        BY <1>1, <2>2
      <3>2. (s \o t)[n] = Len(s) + (n - Len(s)) - 1
        BY <1>2, <2>2, <3>1
      <3> QED
        BY <1>1, <3>2
    <2> QED
      BY <2>1, <2>2
  <1>4. \A n \in DOMAIN s : n \in DOMAIN (s \o t) /\ (s \o t)[n] = s[n]
    BY <1>1, <1>2
  <1> QED
    BY <1>1, <1>3, <1>4 DEF ToSet

\* The ids of the buttons do.
LEMMA NewButtons ==
  ASSUME buttons \in Seq(Nat), \A n \in DOMAIN buttons : buttons[n] = n - 1,
         NEW S, NEW pageViews \in Seq(S), Pages!CreateButtons(pageViews)
  PROVE  /\ buttons' \in Seq(Nat)
         /\ Len(buttons') = Len(buttons) + Len(pageViews)
         /\ \A n \in DOMAIN buttons' : buttons'[n] = n - 1
         /\ ToSet(buttons) \subseteq ToSet(buttons')
  <1>1. PICK added : added = [n \in DOMAIN pageViews |-> Len(buttons) + n - 1]
    OBVIOUS
  <1>2. buttons' = buttons \o added
    BY <1>1 DEF Pages!CreateButtons, Pages!NextViewId
  <1>3. \A n \in 1..Len(pageViews) : Len(buttons) + n - 1 \in Nat
    OBVIOUS
  <1>4. added \in Seq(Nat) /\ Len(added) = Len(pageViews)
    BY <1>1, <1>3
  <1>5. \A n \in DOMAIN added : added[n] = Len(buttons) + n - 1
    BY <1>1
  <1>6. /\ buttons \o added \in Seq(Nat)
        /\ Len(buttons \o added) = Len(buttons) + Len(added)
        /\ \A n \in DOMAIN (buttons \o added) : (buttons \o added)[n] = n - 1
        /\ ToSet(buttons) \subseteq ToSet(buttons \o added)
    BY <1>4, <1>5, NextIds
  <1> QED
    BY <1>2, <1>4, <1>6

\* So do the ids of the views.
LEMMA NewViews ==
  ASSUME buttons \in Seq(Nat), DOMAIN subViews = 0..Len(buttons) - 1,
         NEW S, NEW pageViews \in Seq(S), Pages!CreateViews(pageViews)
  PROVE  /\ DOMAIN subViews' = 0..Len(buttons) + Len(pageViews) - 1
         /\ \A id \in DOMAIN subViews : subViews'[id] = subViews[id]
         /\ \A id \in DOMAIN subViews' \ DOMAIN subViews :
              /\ id - Len(buttons) + 1 \in DOMAIN pageViews
              /\ subViews'[id] = pageViews[id - Len(buttons) + 1]
  <1> DEFINE new == {Len(buttons) + n - 1 : n \in DOMAIN pageViews}
  <1>1. subViews' = [id \in DOMAIN subViews \cup new |->
                       IF id \in new THEN pageViews[id - Len(buttons) + 1] ELSE subViews[id]]
    BY DEF Pages!CreateViews, Pages!NextViewId
  <1>2. new = Len(buttons)..Len(buttons) + Len(pageViews) - 1
    <2>1. \A n \in 1..Len(pageViews) : Len(buttons) + n - 1 \in Len(buttons)..Len(buttons) + Len(pageViews) - 1
      OBVIOUS
    <2>2. \A id \in Len(buttons)..Len(buttons) + Len(pageViews) - 1 :
            id - Len(buttons) + 1 \in 1..Len(pageViews) /\ id = Len(buttons) + (id - Len(buttons) + 1) - 1
      OBVIOUS
    <2>3. Len(buttons)..Len(buttons) + Len(pageViews) - 1 \subseteq new
      <3> SUFFICES ASSUME NEW id \in Len(buttons)..Len(buttons) + Len(pageViews) - 1
                   PROVE  \E n \in DOMAIN pageViews : id = Len(buttons) + n - 1
        OBVIOUS
      <3>1. id - Len(buttons) + 1 \in DOMAIN pageViews
        BY <2>2
      <3> QED
        BY <2>2, <3>1
    <2> QED
      BY <2>1, <2>3
  <1>3. DOMAIN subViews \cup new = 0..Len(buttons) + Len(pageViews) - 1 /\ DOMAIN subViews \cap new = {}
    BY <1>2
  <1>4. \A id \in new : id - Len(buttons) + 1 \in DOMAIN pageViews
    BY <1>2
  <1> HIDE DEF new
  <1> QED
    BY <1>1, <1>3, <1>4

\* The pages of disks, interfaces and GPUs.
LEMMA OtherPages ==
  ASSUME PagesInv, NEW from \in {"disks", "interfaces", "gpus"}, NEW to \in {"interfaces", "gpus"},
         NEW pageViews \in Seq(Pages!Views), \A n \in DOMAIN pageViews : pageViews[n].kind # "psu",
         Pages!MakePages(from, to, pageViews)
  PROVE  PagesInv'
  <1> USE DEF Pages!MakePages
  <1>1. buttons \in Seq(Nat) /\ Len(buttons) \in Nat /\ \A n \in DOMAIN buttons : buttons[n] = n - 1
    BY DEF PagesInv, Pages!TypeOK, ButtonsInv
  <1>2. DOMAIN subViews = 0..Len(buttons) - 1
    BY DEF PagesInv, ButtonsInv
  <1>3. /\ buttons' \in Seq(Nat)
        /\ Len(buttons') = Len(buttons) + Len(pageViews)
        /\ \A n \in DOMAIN buttons' : buttons'[n] = n - 1
        /\ ToSet(buttons) \subseteq ToSet(buttons')
    BY <1>1, NewButtons
  <1>4. /\ DOMAIN subViews' = 0..Len(buttons) + Len(pageViews) - 1
        /\ \A id \in DOMAIN subViews : subViews'[id] = subViews[id]
        /\ \A id \in DOMAIN subViews' \ DOMAIN subViews :
             /\ id - Len(buttons) + 1 \in DOMAIN pageViews
             /\ subViews'[id] = pageViews[id - Len(buttons) + 1]
    BY <1>1, <1>2, NewViews
  <1>5. i = 1 /\ hwMonMap = <<>> /\ step' \notin {"thrown", "done", "input", "end"}
    BY DEF PagesInv, PathsInv
  <1>6. Pages!TypeOK'
    <2>1. \A id \in DOMAIN subViews' : subViews'[id] \in Pages!Views
      BY <1>4 DEF PagesInv, Pages!TypeOK
    <2>2. DOMAIN subViews' \subseteq Nat
      BY <1>1, <1>4
    <2>3. step' \in Pages!Steps
      BY DEF Pages!Steps
    <2>4. selected' \subseteq Pages!ToSet(buttons') /\ panel' \subseteq Pages!ToSet(buttons')
      BY <1>3 DEF PagesInv, Pages!TypeOK, Pages!ToSet, ToSet
    <2> QED
      BY <1>3, <2>1, <2>2, <2>3, <2>4 DEF PagesInv, Pages!TypeOK, Pages!Views
  <1>7. ButtonsInv'
    <2>1. buttons # <<>>
      BY DEF PagesInv, ButtonsInv
    <2>2. buttons' # <<>>
      BY <1>1, <1>3, <2>1
    <2> QED
      BY <1>3, <1>4, <1>5, <2>2 DEF ButtonsInv
  <1>8. PathsInv'
    BY <1>5 DEF PagesInv, PathsInv
  <1>9. PsusInv'
    <2>1. \A id \in DOMAIN subViews : \A path \in Paths : ~IsPsuPage(id, path)
      BY <1>5 DEF PagesInv, PsusInv
    <2>2. \A id \in DOMAIN subViews' : \A path \in Paths : ~IsPsuPage(id, path)'
      BY <1>4, <2>1 DEF IsPsuPage
    <2> QED
      BY <1>5, <2>2 DEF PsusInv
  <1> QED
    BY <1>6, <1>7, <1>8, <1>9 DEF PagesInv

\* Pages of a kind for a listing.
LEMMA PagesOfKind ==
  ASSUME NEW kind \in {"disk", "network", "gpu", "psu"},
         NEW devices \in Seq(Disks \cup Interfaces \cup Paths \cup {None})
  PROVE  /\ Pages!Pages(kind, devices) \in Seq(Pages!Views)
         /\ DOMAIN Pages!Pages(kind, devices) = DOMAIN devices
         /\ \A n \in DOMAIN devices :
              Pages!Pages(kind, devices)[n] = [kind |-> kind, device |-> devices[n]]
  <1>1. \A n \in 1..Len(devices) : [kind |-> kind, device |-> devices[n]] \in Pages!Views
    BY DEF Pages!Views
  <1> QED
    BY <1>1 DEF Pages!Pages

LEMMA OtherDevicesStep ==
  ASSUME PagesInv, Pages!MakeDisks \/ Pages!MakeInterfaces \/ Pages!MakeGpu
  PROVE  PagesInv'
  <1> DEFINE Things == Disks \cup Interfaces \cup Paths \cup {None}
  <1>1. ASSUME NEW devices \in {Disks, Interfaces}, NEW listing \in Pages!Listings(devices)
        PROVE  listing \in Seq(Things)
    <2>1. IsFiniteSet(devices)
      BY HardwareAssumption
    <2>2. PICK there \in SUBSET devices : listing \in Pages!SetToSeqs(there)
      BY <1>1 DEF Pages!Listings
    <2>3. listing \in Seq(devices)
      BY <2>1, <2>2, PagesListing
    <2> QED
      BY <2>3
  <1>5. ASSUME NEW kind \in {"disk", "network", "gpu"}, NEW devices \in Seq(Things),
               NEW from \in {"disks", "interfaces", "gpus"}, NEW to \in {"interfaces", "gpus"},
               Pages!MakePages(from, to, Pages!Pages(kind, devices))
        PROVE  PagesInv'
    <2>1. /\ Pages!Pages(kind, devices) \in Seq(Pages!Views)
          /\ DOMAIN Pages!Pages(kind, devices) = DOMAIN devices
          /\ \A n \in DOMAIN devices :
               Pages!Pages(kind, devices)[n] = [kind |-> kind, device |-> devices[n]]
      BY PagesOfKind
    <2>2. PICK pageViews \in Seq(Pages!Views) : pageViews = Pages!Pages(kind, devices)
      BY <2>1
    <2>3. \A n \in DOMAIN pageViews : pageViews[n].kind # "psu"
      BY <2>1, <2>2
    <2> QED
      BY <1>5, <2>2, <2>3, OtherPages
  <1> HIDE DEF Things
  <1>2. CASE Pages!MakeDisks
    <2>1. PICK disks \in Pages!Listings(Disks) :
            Pages!MakePages("disks", "interfaces", Pages!Pages("disk", disks))
      BY <1>2 DEF Pages!MakeDisks
    <2>2. disks \in Seq(Things)
      BY <1>1
    <2> QED
      BY <1>5, <2>1, <2>2
  <1>3. CASE Pages!MakeInterfaces
    <2>1. PICK interfaces \in Pages!Listings(Interfaces) :
            Pages!MakePages("interfaces", "gpus", Pages!Pages("network", interfaces))
      BY <1>3 DEF Pages!MakeInterfaces
    <2>2. interfaces \in Seq(Things)
      BY <1>1
    <2> QED
      BY <1>5, <2>1, <2>2
  <1>4. CASE Pages!MakeGpu
    <2>1. <<None>> \in Seq(Things)
      BY DEF Things
    <2>2. Pages!MakePages("gpus", "gpus", Pages!Pages("gpu", <<None>>))
      BY <1>4 DEF Pages!MakeGpu
    <2> QED
      BY <1>5, <2>1, <2>2
  <1> QED
    BY <1>2, <1>3, <1>4

LEMMA ListSensorsStep ==
  ASSUME PagesInv, Pages!ListSensors
  PROVE  PagesInv'
  <1> USE DEF Pages!ListSensors
  <1>1. stayed' \subseteq Paths /\ \A path \in stayed' : sysfs[path] # None
    OBVIOUS
  <1>2. /\ hwMonMap' \in Seq(Paths)
        /\ \A m, n \in DOMAIN hwMonMap' : hwMonMap'[m] = hwMonMap'[n] => m = n
        /\ \A path \in stayed' : \E n \in DOMAIN hwMonMap' : hwMonMap'[n] = path
    <2>1. IsFiniteSet(Paths) /\ hwMonMap' \in Pages!SetToSeqs(stayed')
      BY HardwareAssumption
    <2> QED
      BY <1>1, <2>1, PagesListing
  <1>3. i = 1 /\ i' = 1
    BY DEF PagesInv, PathsInv
  <1>4. Len(hwMonMap') \in Nat
    BY <1>2
  <1>5. Pages!TypeOK'
    <2>1. step' \in Pages!Steps /\ i' \in 1..Len(hwMonMap') + 1
      BY <1>3, <1>4 DEF Pages!Steps
    <2> QED
      BY <1>1, <1>2, <2>1 DEF PagesInv, Pages!TypeOK, Pages!Views, Pages!ToSet
  <1>6. ButtonsInv'
    BY DEF PagesInv, ButtonsInv
  <1>7. PathsInv'
    BY <1>1, <1>2 DEF PathsInv
  <1>8. PsusInv'
    BY <1>3 DEF PagesInv, PsusInv, IsPsuPage
  <1> QED
    BY <1>5, <1>6, <1>7, <1>8 DEF PagesInv

LEMMA ReadNameStep ==
  ASSUME PagesInv, Pages!ReadName
  PROVE  PagesInv'
  <1> USE DEF Pages!ReadName
  <1>1. /\ i \in 1..Len(hwMonMap) + 1 /\ Len(hwMonMap) \in Nat
        /\ hwMonMap \in Seq(Paths) /\ sysfs \in [Paths -> Sensors \cup {None}]
    BY DEF PagesInv, Pages!TypeOK
  <1>2. \/ i > Len(hwMonMap) /\ step' = "end" /\ i' = i
        \/ i <= Len(hwMonMap) /\ step' = "input" /\ i' = i
        \/ i <= Len(hwMonMap) /\ step' = "name" /\ i' = i + 1 /\ sysfs[hwMonMap[i]] \notin Psus
    BY <1>1
  <1>3. i' \in 1..Len(hwMonMap) + 1
    BY <1>1, <1>2
  <1>4. Pages!TypeOK'
    <2>1. step' \in Pages!Steps
      BY <1>2 DEF Pages!Steps
    <2> QED
      BY <1>3, <2>1 DEF PagesInv, Pages!TypeOK, Pages!Views, Pages!ToSet
  <1>5. ButtonsInv'
    BY <1>2 DEF PagesInv, ButtonsInv
  <1>6. PathsInv'
    BY <1>2 DEF PagesInv, PathsInv
  <1>7. PsusInv'
    <2>1. CASE i' = i
      BY <2>1 DEF PagesInv, PsusInv, IsPsuPage
    <2>2. CASE i' = i + 1 /\ sysfs[hwMonMap[i]] \notin Psus
      <3>1. 1..i - 1 \subseteq 1..i' - 1 /\ \A n \in 1..i' - 1 : n \in 1..i - 1 \/ n = i
        BY <1>1, <2>2
      <3> QED
        BY <2>2, <3>1 DEF PagesInv, PsusInv, IsPsuPage
    <2> QED
      BY <1>2, <2>1, <2>2
  <1> QED
    BY <1>4, <1>5, <1>6, <1>7 DEF PagesInv

\* The directory of the sensor is gone: the button was made, the view was not.
LEMMA ThrowStep ==
  ASSUME PagesInv, Pages!FindInput, sysfs[hwMonMap[i]] = None
  PROVE  PagesInv'
  <1> USE DEF Pages!FindInput
  <1>1. /\ i \in 1..Len(hwMonMap) + 1 /\ hwMonMap \in Seq(Paths)
        /\ buttons \in Seq(Nat) /\ \A n \in DOMAIN buttons : buttons[n] = n - 1
    BY DEF PagesInv, Pages!TypeOK, ButtonsInv
  <1>2. i \in DOMAIN hwMonMap
    BY <1>1 DEF PagesInv, PathsInv
  <1>10. <<hwMonMap[i]>> \in Seq(Paths)
    BY <1>1, <1>2
  <1>3. PICK page \in Seq(Paths) : page = <<hwMonMap[i]>> /\ Len(page) = 1
    BY <1>10
  <1>9. Pages!CreateButtons(page)
    BY <1>3
  <1>4. /\ buttons' \in Seq(Nat)
        /\ Len(buttons') = Len(buttons) + 1
        /\ \A n \in DOMAIN buttons' : buttons'[n] = n - 1
        /\ ToSet(buttons) \subseteq ToSet(buttons')
    BY <1>1, <1>3, <1>9, NewButtons
  <1>5. Pages!TypeOK'
    <2>1. selected' \subseteq Pages!ToSet(buttons') /\ panel' \subseteq Pages!ToSet(buttons')
      BY <1>4 DEF PagesInv, Pages!TypeOK, Pages!ToSet, ToSet
    <2> QED
      BY <1>4, <2>1 DEF PagesInv, Pages!TypeOK, Pages!Views, Pages!Steps
  <1>6. ButtonsInv'
    <2>1. buttons' # <<>>
      BY <1>1, <1>4
    <2> QED
      BY <1>4, <2>1 DEF ButtonsInv
  <1>7. PathsInv'
    BY DEF PagesInv, PathsInv
  <1>8. PsusInv'
    BY DEF PagesInv, PsusInv, IsPsuPage
  <1> QED
    BY <1>5, <1>6, <1>7, <1>8 DEF PagesInv

\* The first page of the power supply at i.
LEMMA FindInputStep ==
  ASSUME PagesInv, Pages!FindInput, sysfs[hwMonMap[i]] # None
  PROVE  PagesInv'
  <1> USE DEF Pages!FindInput
  <1> DEFINE device == hwMonMap[i]
             page == [kind |-> "psu", device |-> device]
  <1>1. /\ i \in 1..Len(hwMonMap) + 1 /\ i \in Nat /\ hwMonMap \in Seq(Paths) /\ Len(hwMonMap) \in Nat
        /\ buttons \in Seq(Nat) /\ Len(buttons) \in Nat /\ \A n \in DOMAIN buttons : buttons[n] = n - 1
        /\ DOMAIN subViews = 0..Len(buttons) - 1
    BY DEF PagesInv, Pages!TypeOK, ButtonsInv
  <1>2. i \in DOMAIN hwMonMap /\ i' = i + 1 /\ step' = "name" /\ device \in Paths
    BY <1>1 DEF PagesInv, PathsInv
  <1>3. <<device>> \in Seq(Paths) /\ <<device>> \in Seq(Disks \cup Interfaces \cup Paths \cup {None})
    BY <1>1, <1>2
  <1>4. /\ buttons' \in Seq(Nat)
        /\ Len(buttons') = Len(buttons) + 1
        /\ \A n \in DOMAIN buttons' : buttons'[n] = n - 1
        /\ ToSet(buttons) \subseteq ToSet(buttons')
    <2>1. PICK path \in Seq(Paths) : path = <<device>> /\ Len(path) = 1
      BY <1>3
    <2>2. Pages!CreateButtons(path)
      BY <2>1
    <2> QED
      BY <1>1, <2>1, <2>2, NewButtons
  <1>5. /\ Pages!Pages("psu", <<device>>) \in Seq(Pages!Views)
        /\ DOMAIN Pages!Pages("psu", <<device>>) = {1}
        /\ Pages!Pages("psu", <<device>>)[1] = page
        /\ Len(Pages!Pages("psu", <<device>>)) = 1
    <2>1. DOMAIN <<device>> = {1} /\ <<device>>[1] = device
      OBVIOUS
    <2> QED
      BY <1>3, <2>1, PagesOfKind
  <1>6. /\ DOMAIN subViews' = 0..Len(buttons)
        /\ \A id \in DOMAIN subViews : subViews'[id] = subViews[id]
        /\ subViews'[Len(buttons)] = page
    <2>1. Pages!CreateViews(Pages!Pages("psu", <<device>>))
      BY DEF Pages!FindInput
    <2> HIDE DEF device, page
    <2>2. /\ DOMAIN subViews' = 0..Len(buttons) + 1 - 1
          /\ \A id \in DOMAIN subViews : subViews'[id] = subViews[id]
          /\ \A id \in DOMAIN subViews' \ DOMAIN subViews :
               subViews'[id] = Pages!Pages("psu", <<device>>)[id - Len(buttons) + 1]
      BY <1>1, <1>5, <2>1, NewViews
    <2>3. Len(buttons) \in DOMAIN subViews' \ DOMAIN subViews /\ Len(buttons) - Len(buttons) + 1 = 1
      BY <1>1, <2>2
    <2>4. subViews'[Len(buttons)] = page
      BY <1>5, <2>2, <2>3
    <2>5. 0..Len(buttons) + 1 - 1 = 0..Len(buttons)
      BY <1>1
    <2> QED
      BY <2>2, <2>4, <2>5
  <1>7. Pages!TypeOK'
    <2>1. \A id \in DOMAIN subViews' : subViews'[id] \in Pages!Views
      <3>1. page \in Pages!Views
        BY <1>2 DEF Pages!Views
      <3>2. \A id \in DOMAIN subViews' : id \in DOMAIN subViews \/ id = Len(buttons)
        BY <1>1, <1>6
      <3> HIDE DEF page
      <3> QED
        BY <1>6, <3>1, <3>2 DEF PagesInv, Pages!TypeOK
    <2>2. DOMAIN subViews' \subseteq Nat
      BY <1>1, <1>6
    <2>3. step' \in Pages!Steps /\ i' \in 1..Len(hwMonMap) + 1
      BY <1>1, <1>2 DEF Pages!Steps
    <2>4. selected' \subseteq Pages!ToSet(buttons') /\ panel' \subseteq Pages!ToSet(buttons')
      BY <1>4 DEF PagesInv, Pages!TypeOK, Pages!ToSet, ToSet
    <2> QED
      BY <1>4, <2>1, <2>2, <2>3, <2>4 DEF PagesInv, Pages!TypeOK, Pages!Views
  <1>8. ButtonsInv'
    <2>1. buttons' # <<>> /\ Len(buttons') - 1 = Len(buttons)
      BY <1>1, <1>4
    <2> QED
      BY <1>2, <1>4, <1>6, <2>1 DEF ButtonsInv
  <1>9. PathsInv'
    BY <1>2 DEF PagesInv, PathsInv
  <1>10. PsusInv'
    <2>1. 1..i' - 1 = (1..i - 1) \cup {i}
      BY <1>1, <1>2
    <2>2. \A id \in DOMAIN subViews : id # Len(buttons) /\ id \in DOMAIN subViews'
      BY <1>1, <1>6
    <2>3. \A id \in DOMAIN subViews' : id \in DOMAIN subViews \/ id = Len(buttons)
      BY <1>1, <1>6
    <2>4. \A id \in DOMAIN subViews : \A path \in Paths : IsPsuPage(id, path)' <=> IsPsuPage(id, path)
      BY <1>6 DEF IsPsuPage
    <2>5. ASSUME NEW path \in Paths
          PROVE  subViews'[Len(buttons)] = [kind |-> "psu", device |-> path] <=> path = device
      BY <1>6
    <2>6. \A id \in DOMAIN subViews : ~IsPsuPage(id, device)
      <3>1. \A n \in 1..i - 1 : n \in DOMAIN hwMonMap /\ n # i
        BY <1>1
      <3> QED
        BY <1>2, <3>1 DEF PagesInv, PathsInv, PsusInv
    <2>7. ASSUME NEW id \in DOMAIN subViews', NEW path \in Paths, IsPsuPage(id, path)'
          PROVE  /\ \E n \in 1..i' - 1 : hwMonMap'[n] = path
                 /\ \A other \in DOMAIN subViews' : IsPsuPage(other, path)' => other = id
      <3>1. CASE path = device
        <4>1. id = Len(buttons)
          BY <2>3, <2>4, <2>6, <2>7, <3>1
        <4>2. \A other \in DOMAIN subViews' : IsPsuPage(other, path)' => other = Len(buttons)
          BY <2>3, <2>4, <2>6, <3>1
        <4> QED
          BY <2>1, <3>1, <4>1, <4>2
      <3>2. CASE path # device
        <4>1. id \in DOMAIN subViews /\ IsPsuPage(id, path)
          BY <2>3, <2>4, <2>5, <2>7, <3>2 DEF IsPsuPage
        <4>2. \A other \in DOMAIN subViews' : IsPsuPage(other, path)' =>
                other \in DOMAIN subViews /\ IsPsuPage(other, path)
          BY <2>3, <2>4, <2>5, <3>2 DEF IsPsuPage
        <4> QED
          BY <2>1, <4>1, <4>2 DEF PagesInv, PsusInv
      <3> QED
        BY <3>1, <3>2
    <2>8. ASSUME NEW n \in 1..i' - 1, hwMonMap'[n] \in stayed' /\ sysfs'[hwMonMap'[n]] \in Psus
          PROVE  \E id \in DOMAIN subViews' : IsPsuPage(id, hwMonMap[n])'
      <3>1. CASE n = i
        <4>1. Len(buttons) \in DOMAIN subViews'
          BY <1>1, <1>6
        <4> QED
          BY <1>6, <3>1, <4>1 DEF IsPsuPage
      <3>2. CASE n \in 1..i - 1
        <4>1. hwMonMap[n] \in stayed /\ sysfs[hwMonMap[n]] \in Psus
          BY <2>8
        <4>2. PICK id \in DOMAIN subViews : IsPsuPage(id, hwMonMap[n])
          BY <3>2, <4>1 DEF PagesInv, PsusInv
        <4>3. subViews'[id] = subViews[id] /\ id \in DOMAIN subViews'
          BY <1>6, <2>2
        <4> QED
          BY <4>2, <4>3 DEF IsPsuPage
      <3> QED
        BY <2>1, <3>1, <3>2
    <2> QED
      BY <2>7, <2>8 DEF PsusInv
  <1> QED
    BY <1>7, <1>8, <1>9, <1>10 DEF PagesInv

\* The page is complete; the button of the CPUs is the first.
LEMMA EndStep ==
  ASSUME PagesInv, Pages!End
  PROVE  PagesInv'
  <1> USE DEF Pages!End, Pages!SetView, Pages!set_selected
  <1>1. buttons \in Seq(Nat) /\ 1 \in DOMAIN buttons /\ Head(buttons) = buttons[1]
    BY DEF PagesInv, Pages!TypeOK, ButtonsInv
  <1>2. Head(buttons) = 0 /\ 0 \in ToSet(buttons) /\ 0 \in Pages!ToSet(buttons)
    BY <1>1 DEF PagesInv, ButtonsInv, ToSet, Pages!ToSet
  <1>3. Pages!TypeOK'
    BY <1>2 DEF PagesInv, Pages!TypeOK, Pages!Views, Pages!ToSet, Pages!Steps
  <1>4. ButtonsInv'
    BY <1>2 DEF PagesInv, ButtonsInv
  <1>5. PathsInv' /\ PsusInv'
    BY DEF PagesInv, PathsInv, PsusInv, IsPsuPage
  <1> QED
    BY <1>3, <1>4, <1>5 DEF PagesInv

LEMMA PressStep ==
  ASSUME PagesInv, NEW button \in ToSet(buttons), Pages!Press(button)
  PROVE  PagesInv'
  <1> USE DEF Pages!Press, Pages!SetView, Pages!set_selected
  <1>1. button \in Pages!ToSet(buttons)
    BY DEF ToSet, Pages!ToSet
  <1>2. Pages!TypeOK'
    BY <1>1 DEF PagesInv, Pages!TypeOK, Pages!Views, Pages!ToSet
  <1>3. ButtonsInv' /\ PathsInv' /\ PsusInv'
    BY DEF PagesInv, ButtonsInv, PathsInv, PsusInv, IsPsuPage
  <1> QED
    BY <1>2, <1>3 DEF PagesInv

\* A path whose device changes is none of those that have stayed.
LEMMA PlugSensorStep ==
  ASSUME PagesInv, NEW path \in Paths, Pages!Plug(path)
  PROVE  PagesInv'
  <1> USE DEF Pages!Plug
  <1>1. PICK new \in Sensors \cup {None} : sysfs' = [sysfs EXCEPT ![path] = new]
    OBVIOUS
  <1>2. /\ sysfs' \in [Paths -> Sensors \cup {None}]
        /\ \A other \in Paths \ {path} : sysfs'[other] = sysfs[other]
    BY <1>1 DEF PagesInv, Pages!TypeOK
  <1>3. stayed \subseteq Paths
    BY DEF PagesInv, Pages!TypeOK
  <1>4. Pages!TypeOK'
    BY <1>2, <1>3 DEF PagesInv, Pages!TypeOK, Pages!Views, Pages!ToSet
  <1>5. ButtonsInv'
    BY DEF PagesInv, ButtonsInv
  <1>6. PathsInv'
    BY <1>2, <1>3 DEF PagesInv, PathsInv
  <1>7. PsusInv'
    BY <1>2, <1>3 DEF PagesInv, PsusInv, IsPsuPage
  <1> QED
    BY <1>4, <1>5, <1>6, <1>7 DEF PagesInv

LEMMA PagesInit == Pages!Init => PagesInv
  <1> SUFFICES ASSUME Pages!Init PROVE PagesInv
    OBVIOUS
  <1> USE DEF Pages!Init
  <1>1. /\ buttons = <<0, 1>> /\ hwMonMap = <<>> /\ i = 1 /\ step = "disks"
        /\ stayed = {} /\ selected = {} /\ panel = {}
    OBVIOUS
  <1>2. buttons \in Seq(Nat) /\ Len(buttons) = 2 /\ \A n \in DOMAIN buttons : buttons[n] = n - 1
    BY <1>1
  <1>3. /\ DOMAIN subViews = {0, 1}
        /\ \A id \in {0, 1} : subViews[id] = [kind |-> IF id = 0 THEN "cpu" ELSE "ram", device |-> None]
    OBVIOUS
  <1>4. \A id \in {0, 1} : subViews[id] \in Pages!Views /\ subViews[id].kind # "psu"
    <2>1. subViews[0] = [kind |-> "cpu", device |-> None] /\ subViews[1] = [kind |-> "ram", device |-> None]
      BY <1>3
    <2>2. subViews[0] \in Pages!Views /\ subViews[1] \in Pages!Views
      BY <2>1 DEF Pages!Views
    <2> QED
      BY <2>1, <2>2
  <1>5. Pages!TypeOK
    <2>1. sysfs \in [Paths -> Sensors \cup {None}]
      OBVIOUS
    <2>2. hwMonMap \in Seq(Paths) /\ i \in 1..Len(hwMonMap) + 1 /\ step \in Pages!Steps
      BY <1>1 DEF Pages!Steps
    <2> QED
      BY <1>1, <1>2, <1>3, <1>4, <2>1, <2>2 DEF Pages!TypeOK
  <1>6. ButtonsInv
    <2>1. DOMAIN subViews = 0..Len(buttons) - 1
      BY <1>2, <1>3
    <2> QED
      BY <1>1, <1>2, <2>1 DEF ButtonsInv
  <1>7. PathsInv
    BY <1>1 DEF PathsInv
  <1>8. PsusInv
    <2>1. \A id \in DOMAIN subViews : \A path \in Paths : ~IsPsuPage(id, path)
      BY <1>3, <1>4 DEF IsPsuPage
    <2> QED
      BY <1>1, <2>1 DEF PsusInv
  <1> QED
    BY <1>5, <1>6, <1>7, <1>8 DEF PagesInv

\* The handlers of the views leave the pages alone, and so do CPUs and GPUs.
LEMMA PagesStep == PagesInv /\ [Next]_vars => PagesInv'
  <1> SUFFICES ASSUME PagesInv, [Next]_vars PROVE PagesInv'
    OBVIOUS
  <1>1. CASE UNCHANGED pages
    <2>1. UNCHANGED <<sysfs, step, hwMonMap, i, buttons, subViews, selected, panel, stayed>>
      BY <1>1 DEF pages
    <2>2. Pages!TypeOK'
      BY <2>1 DEF PagesInv, Pages!TypeOK, Pages!Views, Pages!ToSet, Pages!Steps
    <2>3. ButtonsInv' /\ PathsInv' /\ PsusInv'
      BY <2>1 DEF PagesInv, ButtonsInv, PathsInv, PsusInv, IsPsuPage
    <2> QED
      BY <2>2, <2>3 DEF PagesInv
  <1>2. CASE MakeGpuView
    BY <1>2, OtherDevicesStep DEF MakeGpuView
  <1>3. CASE MakePages
    <2>1. CASE Pages!FindInput
      BY <2>1, ThrowStep, FindInputStep
    <2> QED
      BY <1>3, <2>1, OtherDevicesStep, ListSensorsStep, ReadNameStep, EndStep DEF MakePages
  <1>4. ASSUME NEW button \in ToSet(buttons), Press(button) PROVE PagesInv'
    BY <1>4, PressStep DEF Press
  <1>5. ASSUME NEW path \in Paths, PlugSensor(path) PROVE PagesInv'
    BY <1>5, PlugSensorStep DEF PlugSensor
  <1> QED
    BY <1>1, <1>2, <1>3, <1>4, <1>5
    DEF Next, vars, CountGPUs, CpuHandler, CpuClick, GpuHandler, ProcessInfo, PlugCpu, PlugGpu

LEMMA PagesInvImplies == PagesInv => PagesMeetDevices
  <1> SUFFICES ASSUME PagesInv PROVE Pages!PagesMeetDevices
    BY DEF PagesMeetDevices
  <1>1. buttons \in Seq(Nat) /\ Len(buttons) \in Nat /\ \A n \in DOMAIN buttons : buttons[n] = n - 1
    BY DEF PagesInv, Pages!TypeOK, ButtonsInv
  <1>2. step = "thrown" => hwMonMap[i] \notin stayed
    BY DEF PagesInv, PathsInv
  <1>3. Pages!IsInjective(buttons)
    BY <1>1 DEF Pages!IsInjective
  <1>4. ASSUME step \in {"end", "done"} PROVE Pages!ToSet(buttons) = DOMAIN subViews
    <2>1. DOMAIN subViews = 0..Len(buttons) - 1
      BY <1>4 DEF PagesInv, ButtonsInv
    <2>2. \A id \in 0..Len(buttons) - 1 : id + 1 \in DOMAIN buttons /\ buttons[id + 1] = id
      BY <1>1
    <2>3. \A n \in DOMAIN buttons : buttons[n] \in 0..Len(buttons) - 1
      BY <1>1
    <2> QED
      BY <2>1, <2>2, <2>3 DEF Pages!ToSet
  <1>5. ASSUME step \in {"end", "done"}, NEW path \in stayed, sysfs[path] \in Psus
        PROVE  Pages!Cardinality({id \in DOMAIN subViews :
                                    subViews[id] = [kind |-> "psu", device |-> path]}) = 1
    <2>1. path \in Paths /\ i > Len(hwMonMap) /\ hwMonMap \in Seq(Paths) /\ i \in Int
      BY <1>5 DEF PagesInv, Pages!TypeOK, PathsInv
    <2>2. PICK n \in DOMAIN hwMonMap : hwMonMap[n] = path
      BY DEF PagesInv, PathsInv
    <2>3. n \in 1..i - 1
      BY <2>1
    <2>4. PICK id \in DOMAIN subViews : IsPsuPage(id, path)
      BY <1>5, <2>2, <2>3 DEF PagesInv, PsusInv
    <2>5. \A other \in DOMAIN subViews : IsPsuPage(other, path) => other = id
      BY <2>1, <2>4 DEF PagesInv, PsusInv
    <2>6. {other \in DOMAIN subViews : subViews[other] = [kind |-> "psu", device |-> path]} = {id}
      BY <2>4, <2>5 DEF IsPsuPage
    <2>7. \A S : Pages!Cardinality(S) = Cardinality(S)
      BY DEF Pages!Cardinality, Cardinality
    <2> QED
      BY <2>6, <2>7, FS_Singleton
  <1>6. step = "done" => \E button \in Pages!ToSet(buttons) : selected = {button} /\ panel = {button}
    BY DEF PagesInv, ButtonsInv, ToSet, Pages!ToSet
  <1> QED
    BY <1>2, <1>3, <1>4, <1>5, <1>6 DEF Pages!PagesMeetDevices

LEMMA PagesInvariant == Spec => [](GpuInv /\ PagesInv)
  <1>1. Init => GpuInv /\ PagesInv
    BY GpuInit, PagesInit DEF Init
  <1>2. GpuInv /\ PagesInv /\ [Next]_vars => (GpuInv /\ PagesInv)'
    BY GpuStep, PagesStep
  <1> QED
    BY <1>1, <1>2, PTL DEF Spec

\* Each power supply that stays during the constructor of the page gets one page,
\* the constructor fails only if a sensor it listed was unplugged meanwhile, and
\* from then on one button is selected and its view is shown (CreateButton,
\* CreateView, FindInputPath, set_selected, SetView).
THEOREM PagesMeet == Spec => []PagesMeetDevices
BY PagesInvariant, PagesInvImplies, PTL

-----------------------------------------------------------------------------
(* Types. *)

\* There are no more CPUs online than the machine has.
LEMMA LoopIsOfCpus ==
  ASSUME online \in (SUBSET Cpu!Cpus) \ {{}}
  PROVE  Cpu!Loop \subseteq Cpu!Cpus
  <1>1. Cpu!Cpus = 0..NumCpus - 1 /\ IsFiniteSet(Cpu!Cpus) /\ Cardinality(Cpu!Cpus) = NumCpus
    BY HardwareAssumption, FS_Interval DEF Cpu!Cpus
  <1>2. Cardinality(online) <= NumCpus
    BY <1>1, FS_Subset
  <1>3. Cardinality(online) \in Nat /\ NumCpus \in Nat
    BY LoopIds, HardwareAssumption
  <1> QED
    BY <1>1, <1>2, <1>3, SameCardinality DEF Cpu!Loop

LEMMA CpuTypeInit == Cpu!Init => Cpu!TypeOK
  <1> SUFFICES ASSUME Cpu!Init PROVE Cpu!TypeOK
    OBVIOUS
  <1>1. Cpu!Loop \subseteq Cpu!Cpus
    BY LoopIsOfCpus DEF Cpu!Init
  <1>2. \A id \in DOMAIN cpuGraphs : cpuGraphs[id] \in BOOLEAN
    BY DEF Cpu!Init
  <1>3. display \in BOOLEAN /\ cpuUndefined \in BOOLEAN /\ cpuChanged \in BOOLEAN
    BY DEF Cpu!Init
  <1> QED
    BY <1>1, <1>2, <1>3 DEF Cpu!Init, Cpu!TypeOK

LEMMA CpuViewType ==
  ASSUME Cpu!TypeOK, Cpu!Handler \/ Cpu!OnGraphClick
  PROVE  Cpu!TypeOK'
  <1>1. Cpu!Access(Cpu!Loop) /\ UNCHANGED <<online, cpuChanged>>
    BY DEF Cpu!Handler, Cpu!OnGraphClick
  <1>2. Cpu!Loop \subseteq Cpu!Cpus
    BY LoopIsOfCpus DEF Cpu!TypeOK
  <1>3. cpuGraphs' = [id \in DOMAIN cpuGraphs \cup Cpu!Loop |-> Cpu!Graph(id)]
    BY <1>1 DEF Cpu!Access
  <1>4. \A id : Cpu!Graph(id) \in BOOLEAN
    BY DEF Cpu!Graph, Cpu!TypeOK
  <1>5. DOMAIN cpuGraphs' \subseteq Cpu!Cpus /\ \A id \in DOMAIN cpuGraphs' : cpuGraphs'[id] \in BOOLEAN
    BY <1>2, <1>3, <1>4 DEF Cpu!TypeOK
  <1>6. cpuUndefined' \in BOOLEAN
    BY <1>1 DEF Cpu!Access
  <1>7. box' \subseteq Cpu!Cpus \cup {Cpu!All}
    BY <1>2 DEF Cpu!Handler, Cpu!OnGraphClick, Cpu!TypeOK
  <1>8. display' \in BOOLEAN
    BY DEF Cpu!Handler, Cpu!OnGraphClick, Cpu!TypeOK
  <1> QED
    BY <1>1, <1>5, <1>6, <1>7, <1>8 DEF Cpu!TypeOK, Cpu!Cpus, Cpu!All

LEMMA CpuTypeStep == Cpu!TypeOK /\ [Next]_vars => Cpu!TypeOK'
  <1> SUFFICES ASSUME Cpu!TypeOK, [Next]_vars PROVE Cpu!TypeOK'
    OBVIOUS
  <1>1. CASE CpuHandler \/ CpuClick
    BY <1>1, CpuViewType DEF CpuHandler, CpuClick
  <1>2. ASSUME NEW c \in Cpu!Cpus, PlugCpu(c) PROVE Cpu!TypeOK'
    <2>1. Cpu!Plug(c)
      BY <1>2 DEF PlugCpu
    <2>2. online' \in (SUBSET Cpu!Cpus) \ {{}}
      BY <2>1 DEF Cpu!Plug, Cpu!TypeOK
    <2>3. cpuChanged' \in BOOLEAN
      BY <2>1 DEF Cpu!Plug
    <2>4. UNCHANGED <<cpuGraphs, display, box, cpuUndefined>>
      BY <2>1 DEF Cpu!Plug
    <2> QED
      BY <2>2, <2>3, <2>4 DEF Cpu!TypeOK, Cpu!Cpus, Cpu!All
  <1>3. CASE UNCHANGED cpu
    BY <1>3 DEF cpu, Cpu!TypeOK, Cpu!Cpus, Cpu!All
  <1>4. CpuHandler \/ CpuClick \/ (\E c \in Cpu!Cpus : PlugCpu(c)) \/ UNCHANGED cpu
    BY DEF Next, vars, MakePages, CountGPUs, MakeGpuView, GpuHandler, ProcessInfo, Press, PlugGpu, PlugSensor
  <1> QED
    BY <1>1, <1>2, <1>3, <1>4

\* The state of the three kinds of views is of its types.
THEOREM TypeCorrect == Spec => []TypeOK
  <1>1. Init => Cpu!TypeOK
    BY CpuTypeInit DEF Init
  <1>2. Cpu!TypeOK /\ GpuInv /\ PagesInv => TypeOK
    BY DEF TypeOK, GpuInv, PagesInv
  <1> QED
    BY <1>1, <1>2, CpuTypeStep, PagesInvariant, PTL DEF Spec
=============================================================================
