---------------------------- MODULE PerformanceView ----------------------------
(***************************************************************************)
(* PerformanceView (src/ui/views/PerformanceView.cpp) makes the views of   *)
(* the CPUs, the GPUs and other devices once, in its constructor, from     *)
(* hardware that may change meanwhile and afterwards, while their handlers *)
(* and clicks go on, all of them on the main loop.  The update thread of   *)
(* the process list asks for a GPU in between.                             *)
(***************************************************************************)
EXTENDS Integers, SequencesExt

CONSTANTS NumCpus,                         \* that of PerformanceCPUView
          DrmCards, NvCards, None, Undefined, \* those of GpuApi
          Disks, Interfaces, Sensors, Psus, Paths \* those of DevicePages

ASSUME HardwareAssumption == /\ NumCpus \in Nat \ {0}
                             /\ DrmCards \cap NvCards = {}
                             /\ {None, Undefined} \cap (DrmCards \cup NvCards) = {}
                             /\ None # Undefined
                             /\ None \notin Disks \cup Interfaces \cup Sensors \cup Paths
                             /\ Psus \subseteq Sensors
                             /\ NvCards \subseteq Nat
                             /\ \A devices \in {DrmCards, NvCards, Disks, Interfaces, Paths} :
                                  IsFiniteSet(devices)

VARIABLES
  online, cpuGraphs, display, box, cpuUndefined, cpuChanged, \* PerformanceCPUView
  drm, nv, silent, clockless, bare, library, hasError, numDrm, drmMap, counted,
  numGpus, views, gpuUndefined, seen,                        \* GpuApi
  sysfs, step, hwMonMap, i, buttons, subViews, selected, panel, stayed \* DevicePages

cpu == <<online, cpuGraphs, display, box, cpuUndefined, cpuChanged>>
gpu == <<drm, nv, silent, clockless, bare, library, hasError, numDrm, drmMap, counted,
         numGpus, views, gpuUndefined, seen>>
pages == <<sysfs, step, hwMonMap, i, buttons, subViews, selected, panel, stayed>>
vars == <<cpu, gpu, pages>>

Cpu == INSTANCE PerformanceCPUView WITH undefined <- cpuUndefined, changed <- cpuChanged
Gpu == INSTANCE GpuApi WITH undefined <- gpuUndefined
Pages == INSTANCE DevicePages WITH Nobody <- None

TypeOK == Cpu!TypeOK /\ Gpu!TypeOK /\ Pages!TypeOK

Init == Cpu!Init /\ Gpu!Init /\ Pages!Init

-----------------------------------------------------------------------------

\* Nothing is known of the program after something undefined, and an exception
\* ends it.
Defined == ~cpuUndefined /\ gpuUndefined = "nothing" /\ step # "thrown"

\* The constructor makes the view of the CPUs and those of the other devices; CPUs,
\* GPUs and sensors may come and go in between.
MakePages ==
  /\ \/ Pages!MakeDisks
     \/ Pages!MakeInterfaces
     \/ Gpu!AllNamed /\ Pages!ListSensors
     \/ Pages!ReadName
     \/ Pages!FindInput
     \/ Pages!End
  /\ UNCHANGED <<cpu, gpu>>

CountGPUs == step = "gpus" /\ Gpu!CountGPUs /\ UNCHANGED <<cpu, pages>>

\* The next of the GPUs that were counted gets its button and its view.
MakeGpuView == Gpu!NameGPU /\ Pages!MakeGpu /\ UNCHANGED cpu

\* The handlers run, and buttons and graphs are clicked, when the window has been
\* built.
Built == step = "done"

CpuHandler == Built /\ Cpu!Handler /\ UNCHANGED <<gpu, pages>>
CpuClick == Built /\ Cpu!OnGraphClick /\ UNCHANGED <<gpu, pages>>
GpuHandler(id) == Built /\ Gpu!Handler(id) /\ UNCHANGED <<cpu, pages>>
ProcessInfo == Built /\ Gpu!ProcessInfo /\ UNCHANGED <<cpu, pages>>
Press(button) == Pages!Press(button) /\ UNCHANGED <<cpu, gpu>>

PlugCpu(c) == Cpu!Plug(c) /\ UNCHANGED <<gpu, pages>>
PlugGpu(card) == Gpu!Plug(card) /\ UNCHANGED <<cpu, pages>>
PlugSensor(path) == Pages!Plug(path) /\ UNCHANGED <<cpu, gpu>>

Next == /\ Defined
        /\ \/ MakePages
           \/ CountGPUs
           \/ MakeGpuView
           \/ CpuHandler
           \/ CpuClick
           \/ \E id \in DOMAIN views : GpuHandler(id)
           \/ ProcessInfo
           \/ \E button \in ToSet(buttons) : Press(button)
           \/ \E c \in Cpu!Cpus : PlugCpu(c)
           \/ \E card \in NvCards : PlugGpu(card)
           \/ \E path \in Paths : PlugSensor(path)

Spec == Init /\ [][Next]_vars

-----------------------------------------------------------------------------
(* Properties. *)

\* The clicks on the graphs of the CPUs (see PerformanceCPUView).
BoxMatchesMode == Cpu!BoxMatchesMode

\* The numbering of the GPUs (see GpuApi).
ViewsShowTheirCard == Gpu!ViewsShowTheirCard

\* The pages and their buttons (see DevicePages).
PagesMeetDevices == Pages!PagesMeetDevices
=============================================================================
