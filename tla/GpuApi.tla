-------------------------------- MODULE GpuApi --------------------------------
(***************************************************************************)
(* GPUApi (src/api/linux/GPUApi.cpp) numbers the GPUs of two sources: the  *)
(* cards of other vendors that DrmGpuApi finds come first, and those of    *)
(* NVIDIA that NvGpuApi asks the driver for follow.  The constructor of    *)
(* PerformanceView counts the GPUs once and makes a view for each number,  *)
(* which asks for its name; every one of these calls, and every call of    *)
(* the handlers later, lists the NVIDIA cards anew.  ProcessManager asks   *)
(* for GPU 0 from the update thread of the process list.                   *)
(***************************************************************************)
EXTENDS Integers, SequencesExt

CONSTANTS DrmCards, \* cards of other vendors
          NvCards,  \* numbers of the NVIDIA cards, in the order of the driver
          None,     \* no card
          Undefined \* what is read out of the bounds of devinfos

VARIABLES
  drm,       \* the cards in /sys/class/drm that are not from NVIDIA
  nv,        \* the NVIDIA cards that the driver lists
  silent,    \* NVIDIA cards whose temperature the driver cannot read
  clockless, \* NVIDIA cards whose clock it cannot read
  bare,      \* cards of other vendors with a directory hwmon that has no temp1_input
  library,   \* libnvidia-ml can be loaded
  hasError,  \* g_NvHasError
  numDrm,    \* g_NumDrmGpus
  drmMap,    \* g_DrmGpuMap, as the sequence of its values
  counted,   \* the constructor of PerformanceView has counted the GPUs
  numGpus,   \* how many it has counted
  views,     \* the card whose name each view was given, None for an empty name
  undefined, \* what the code does not define: an index out of "bounds", a "clock"
             \* or a "temperature" that has no value; "nothing" so far
  seen       \* the NVIDIA cards that were listed for the name of each view (history)

hardware == <<drm, nv, silent, clockless, bare, library>>
numbers == <<numDrm, drmMap, counted, numGpus>>
vars == <<hardware, hasError, numbers, views, undefined, seen>>

TypeOK == /\ drm \subseteq DrmCards
          /\ nv \subseteq NvCards
          /\ silent \subseteq NvCards
          /\ clockless \subseteq NvCards
          /\ bare \subseteq DrmCards
          /\ library \in BOOLEAN
          /\ hasError \in BOOLEAN
          /\ numDrm = Len(drmMap)
          /\ drmMap \in Seq(DrmCards)
          /\ counted \in BOOLEAN
          /\ numGpus \in Nat
          /\ views \in Seq(DrmCards \cup NvCards \cup {None})
          /\ Len(views) <= numGpus
          /\ ~counted => drmMap = <<>> /\ numGpus = 0
          /\ undefined \in {"nothing", "bounds", "clock", "temperature"}
          /\ seen \in Seq(SUBSET NvCards)
          /\ Len(seen) = Len(views)

Init == /\ drm \in SUBSET DrmCards
        /\ nv \in SUBSET NvCards
        /\ silent \in SUBSET NvCards
        /\ clockless \in SUBSET NvCards
        /\ bare \in SUBSET drm
        /\ library \in BOOLEAN
        /\ hasError = FALSE
        /\ numDrm = 0
        /\ drmMap = <<>>
        /\ counted = FALSE
        /\ numGpus = 0
        /\ views = <<>>
        /\ undefined = "nothing"
        /\ seen = <<>>

-----------------------------------------------------------------------------

\* The list of the driver, in the order of its numbers.
devinfos == CHOOSE list \in SetToSeqs(nv) : \A m, n \in DOMAIN list : m < n => list[m] < list[n]

\* Mutant: NvGpuApi::GetInfo does not look at the result of nvgpu_get_info.
HasInfo_AnyResult == library /\ ~hasError

\* NvGpuApi::GetInfo returns a value: nvgpu_get_info returns the result of its
\* last call, which asks the last card for its temperature.
HasInfo == library /\ ~hasError /\ (nv # {} => Last(devinfos) \notin silent)

\* GetInfo looks for the library once.
GetInfo == hasError' = (hasError \/ ~library)

\* Mutant: the numbers of the NVIDIA cards start at 0.
CardAt_NoOffset(id) ==
  IF id <= numDrm /\ id \in DOMAIN drmMap THEN drmMap[id]
  ELSE IF ~HasInfo THEN None
  ELSE IF id \in DOMAIN devinfos THEN devinfos[id] ELSE Undefined

\* GetGPUName, GetGPUUsagePercent and their siblings on the GPU with the number id,
\* counted from 1: the card that is asked, None when all that is known of it is 0 or
\* an empty name.
CardAt(id) ==
  IF id <= numDrm THEN drmMap[id]
  ELSE IF ~HasInfo THEN None
  ELSE IF id - numDrm \in DOMAIN devinfos THEN devinfos[id - numDrm] ELSE Undefined

\* They ask the driver for the GPUs that are not in g_DrmGpuMap only.
Ask(id) == IF id <= numDrm THEN UNCHANGED hasError ELSE GetInfo

\* Mutant: DrmGpuApi does not look at the vendor.
CountGPUs_AnyVendor ==
  /\ ~counted
  /\ undefined = "nothing"
  /\ GetInfo
  /\ drmMap' \in SetToSeqs(drm \cup nv)
  /\ numDrm' = Len(drmMap')
  /\ numGpus' = numDrm' + IF HasInfo THEN Len(devinfos) ELSE 0
  /\ counted' = TRUE
  /\ UNCHANGED <<hardware, views, undefined, seen>>

\* GetNumGPUs: the cards of DrmGpuApi are kept, those of NVIDIA are only counted.
CountGPUs ==
  /\ ~counted
  /\ undefined = "nothing"
  /\ GetInfo
  /\ drmMap' \in SetToSeqs(drm)
  /\ numDrm' = Len(drmMap')
  /\ numGpus' = numDrm' + IF HasInfo THEN Len(devinfos) ELSE 0
  /\ counted' = TRUE
  /\ UNCHANGED <<hardware, views, undefined, seen>>

\* The constructor of the next PerformanceGPUView asks for the name of its GPU.
NameGPU ==
  /\ Len(views) < numGpus
  /\ undefined = "nothing"
  /\ LET id == Len(views) + 1
     IN  /\ Ask(id)
         /\ IF CardAt(id) = Undefined
            THEN undefined' = "bounds" /\ UNCHANGED <<views, seen>>
            ELSE /\ views' = Append(views, CardAt(id))
                 /\ seen' = Append(seen, IF id <= numDrm THEN {} ELSE nv)
                 /\ UNCHANGED undefined
  /\ UNCHANGED <<hardware, numbers>>

\* Every GPU that was counted has its view.
AllNamed == counted /\ Len(views) = numGpus

\* DrmGpuApi::GetGPUTemperature ends without a return for a card in bare.  An NVIDIA
\* card in silent leaves gpuTemperature without a value, and is known nevertheless
\* unless it is the last one.
NoTemperature(card) == card \in bare \cup silent

\* The handler of the view with the number id, in PerformanceGPUView: it asks for
\* the clock first and for the temperature last.
Handler(id) ==
  /\ undefined = "nothing"
  /\ Ask(id)
  /\ LET card == CardAt(id)
     IN  undefined' = IF card = Undefined THEN "bounds"
                      ELSE IF card \in clockless THEN "clock"
                      ELSE IF NoTemperature(card) THEN "temperature"
                      ELSE "nothing"
  /\ UNCHANGED <<hardware, numbers, views, seen>>

\* GetGPUProcessInfo of GPU 0, for every process that is listed.  The thread of
\* the process list is started when the window is shown, after its views were made.
ProcessInfo ==
  /\ AllNamed
  /\ undefined = "nothing"
  /\ GetInfo
  /\ undefined' = IF HasInfo /\ CardAt(1) = Undefined THEN "bounds" ELSE "nothing"
  /\ UNCHANGED <<hardware, numbers, views, seen>>

Toggle(cards, card) == IF card \in cards THEN cards \ {card} ELSE cards \cup {card}

\* An NVIDIA card is plugged or unplugged, or its temperature or clock can be read
\* from now on, or no more.
Plug(card) ==
  /\ undefined = "nothing"
  /\ \/ nv' = Toggle(nv, card) /\ UNCHANGED <<silent, clockless>>
     \/ silent' = Toggle(silent, card) /\ UNCHANGED <<nv, clockless>>
     \/ clockless' = Toggle(clockless, card) /\ UNCHANGED <<nv, silent>>
  /\ UNCHANGED <<drm, bare, library, hasError, numbers, views, undefined, seen>>

-----------------------------------------------------------------------------
(* Property, checked in PerformanceView. *)

\* The cards up to a number, which are before it in devinfos.
UpTo(cards, card) == {c \in cards : c <= card}

\* Whichever NVIDIA cards come and go and fail while the views are made and after-
\* wards, a view with the name of a card of g_DrmGpuMap shows that card; one with the
\* name of an NVIDIA card shows it, or nothing while the driver does not answer, as
\* long as no card up to its number has come or gone since it was named; no two views
\* show one card, those without a name included.  devinfos is read out of its bounds
\* only if it has fewer cards than were counted, or there is no GPU at all and the
\* process list asks for the first; and a temperature without a value is shown only
\* of a card in bare or of an NVIDIA card that another one follows (GetNumGPUs,
\* GetGPUName, the handlers, GetGPUProcessInfo).
ViewsShowTheirCard ==
  /\ \A id \in DOMAIN views :
       /\ views[id] \in DrmCards => CardAt(id) = views[id]
       /\ views[id] \in NvCards /\ UpTo(nv, views[id]) = UpTo(seen[id], views[id]) =>
            CardAt(id) \in {views[id], None}
       /\ \A other \in DOMAIN views :
            CardAt(id) = CardAt(other) => id = other \/ CardAt(id) \in {None, Undefined}
  /\ undefined = "bounds" => Cardinality(nv) < numGpus - numDrm \/ (numGpus = 0 /\ nv = {})
  /\ undefined = "temperature" => bare # {} \/ \E c, d \in nv : c \in silent /\ c < d
=============================================================================
