----------------------------- MODULE DevicePages -----------------------------
(***************************************************************************)
(* The pages of PerformanceView (src/ui/views/PerformanceView.cpp).  Its   *)
(* constructor makes a button and a view for the CPUs, the memory, and     *)
(* each disk, interface, GPU and power supply, one after the other; a      *)
(* click on a button (PerformanceButton.cpp) selects it and shows its      *)
(* view.  HwMonApi lists the sensors by the paths they have at the time,   *)
(* and sensors come and go while the constructor looks at one path after   *)
(* the other.                                                              *)
(***************************************************************************)
EXTENDS Integers, SequencesExt

CONSTANTS Disks, Interfaces,
          Sensors, Psus, \* devices of hwmon, and those that are a "corsairpsu"
          Paths,         \* entries of /sys/class/hwmon
          Nobody         \* no device

VARIABLES
  sysfs,    \* the device at each path
  step,     \* where the constructor is; "thrown" when it ended with an exception
  hwMonMap, \* g_HwMonMap, as the sequence of its values
  i,        \* the loop over them is at hwMonMap[i]
  buttons,  \* m_Buttons, as the ids of their views
  subViews, \* m_Views: what the view with an id is of
  selected, \* the buttons with m_IsSelected
  panel,    \* the views in m_SplitPanel, below the buttons
  stayed    \* paths whose device has stayed since they were listed (history)

vars == <<sysfs, step, hwMonMap, i, buttons, subViews, selected, panel, stayed>>

\* The steps; "name" and "input" are those of the path at i.
Steps == {"disks", "interfaces", "gpus", "name", "input", "end", "done", "thrown"}

Views == [kind : {"cpu", "ram", "disk", "network", "gpu", "psu"},
          device : Disks \cup Interfaces \cup Paths \cup {Nobody}]

TypeOK == /\ sysfs \in [Paths -> Sensors \cup {Nobody}]
          /\ step \in Steps
          /\ hwMonMap \in Seq(Paths)
          /\ i \in 1..Len(hwMonMap) + 1
          /\ buttons \in Seq(Nat)
          /\ DOMAIN subViews \subseteq Nat
          /\ \A id \in DOMAIN subViews : subViews[id] \in Views
          /\ selected \subseteq ToSet(buttons)
          /\ panel \subseteq ToSet(buttons)
          /\ stayed \subseteq Paths

-----------------------------------------------------------------------------

\* NextViewId, for the n-th button from now on: every id is used for a button.
NextViewId(n) == Len(buttons) + n - 1

\* CreateButton, for each in a sequence of views
CreateButtons(views) == buttons' = buttons \o [n \in DOMAIN views |-> NextViewId(n)]

\* CreateView
CreateViews(views) ==
  LET new == {NextViewId(n) : n \in DOMAIN views}
  IN  subViews' = [id \in DOMAIN subViews \cup new |->
                     IF id \in new THEN views[id - Len(buttons) + 1] ELSE subViews[id]]

Pages(kind, devices) == [n \in DOMAIN devices |-> [kind |-> kind, device |-> devices[n]]]

\* A directory is listed: the devices that are there, in any order.
Listings(devices) == UNION {SetToSeqs(there) : there \in SUBSET devices}

Init == /\ sysfs \in {at \in [Paths -> Sensors \cup {Nobody}] :
                        \A p, q \in Paths : p # q /\ at[p] = at[q] => at[p] = Nobody}
        /\ step = "disks"
        /\ hwMonMap = <<>>
        /\ i = 1
        /\ buttons = <<0, 1>>
        /\ subViews = [id \in {0, 1} |-> [kind |-> IF id = 0 THEN "cpu" ELSE "ram", device |-> Nobody]]
        /\ selected = {}
        /\ panel = {}
        /\ stayed = {}

\* A sensor is plugged or unplugged; one that is new takes a path that is free.  A
\* view that is made only reads the file whose path it has got.
Plug(path) ==
  /\ step \notin {"done", "thrown"}
  /\ \E new \in ((Sensors \ {sysfs[p] : p \in Paths}) \cup {Nobody}) \ {sysfs[path]} :
       /\ Nobody \in {new, sysfs[path]}
       /\ sysfs' = [sysfs EXCEPT ![path] = new]
  /\ stayed' = stayed \ {path}
  /\ UNCHANGED <<step, hwMonMap, i, buttons, subViews, selected, panel>>

MakePages(from, to, views) ==
  /\ step = from
  /\ step' = to
  /\ CreateButtons(views)
  /\ CreateViews(views)
  /\ UNCHANGED <<sysfs, hwMonMap, i, selected, panel, stayed>>

\* GetNumDisks and GetNumInterfaces list the devices; to read a file of one that
\* has gone is no error.
MakeDisks == \E disks \in Listings(Disks) : MakePages("disks", "interfaces", Pages("disk", disks))

MakeInterfaces ==
  \E interfaces \in Listings(Interfaces) : MakePages("interfaces", "gpus", Pages("network", interfaces))

\* The page of the next GPU; how many there are, and what they show, is in GpuApi.
MakeGpu == MakePages("gpus", "gpus", Pages("gpu", <<Nobody>>))

\* HwMonApi::GetNumDevices, after the last GPU.
ListSensors ==
  /\ step = "gpus"
  /\ stayed' = {path \in Paths : sysfs[path] # Nobody}
  /\ hwMonMap' \in SetToSeqs(stayed')
  /\ step' = "name"
  /\ UNCHANGED <<sysfs, i, buttons, subViews, selected, panel>>

\* Mutant: a sensor of another kind ends the loop.
ReadName_Break ==
  /\ step = "name"
  /\ IF i <= Len(hwMonMap) /\ sysfs[hwMonMap[i]] \in Psus THEN step' = "input" ELSE step' = "end"
  /\ UNCHANGED <<sysfs, hwMonMap, i, buttons, subViews, selected, panel, stayed>>

\* The loop goes on with the next path when GetDeviceName is not "corsairpsu",
\* as it is not for a sensor that has gone.
ReadName ==
  /\ step = "name"
  /\ IF i > Len(hwMonMap) THEN step' = "end" /\ UNCHANGED i
     ELSE IF sysfs[hwMonMap[i]] \in Psus THEN step' = "input" /\ UNCHANGED i
     ELSE i' = i + 1 /\ UNCHANGED step
  /\ UNCHANGED <<sysfs, hwMonMap, buttons, subViews, selected, panel, stayed>>

\* The button and the view; FindInputPath lists the directory of the sensor, which
\* throws when it is gone.  Another sensor that has taken the path has no input of
\* that name, so the view shows 0 W.
FindInput ==
  /\ step = "input"
  /\ CreateButtons(<<hwMonMap[i]>>)
  /\ IF sysfs[hwMonMap[i]] = Nobody
     THEN /\ step' = "thrown"
          /\ UNCHANGED <<i, subViews>>
     ELSE /\ CreateViews(Pages("psu", <<hwMonMap[i]>>))
          /\ i' = i + 1
          /\ step' = "name"
  /\ UNCHANGED <<sysfs, hwMonMap, selected, panel, stayed>>

-----------------------------------------------------------------------------

\* PerformanceButton::set_selected(true), when set_other_buttons has made the
\* buttons known to each other.
set_selected(button) == selected' = {button}

\* SetView
SetView(id) == panel' = {id}

\* set_other_buttons, SetView(0) and set_selected(true) on the button of the CPUs
End ==
  /\ step = "end"
  /\ step' = "done"
  /\ SetView(0)
  /\ set_selected(Head(buttons))
  /\ UNCHANGED <<sysfs, hwMonMap, i, buttons, subViews, stayed>>

\* on_button_press_event of the button, and OnButtonClick
Press(button) ==
  /\ step = "done"
  /\ set_selected(button)
  /\ SetView(button)
  /\ UNCHANGED <<sysfs, step, hwMonMap, i, buttons, subViews, stayed>>

-----------------------------------------------------------------------------
(* Property, checked in PerformanceView. *)

\* Whatever devices there are, and whichever sensors come and go meanwhile, the
\* constructor gives each power supply that stays one page, and fails only if one
\* of those it has listed was unplugged in that time; then every button has a view
\* of its own, and it is the view of the one selected button that is shown, however
\* often they are clicked (PerformanceView, FindInputPath, set_selected, SetView).
PagesMeetDevices ==
  /\ step = "thrown" => hwMonMap[i] \notin stayed
  /\ step \in {"end", "done"} =>
       /\ IsInjective(buttons)
       /\ ToSet(buttons) = DOMAIN subViews
       /\ \A path \in stayed : sysfs[path] \in Psus =>
            Cardinality({id \in DOMAIN subViews : subViews[id] = [kind |-> "psu", device |-> path]}) = 1
  /\ step = "done" => \E button \in ToSet(buttons) : selected = {button} /\ panel = {button}
=============================================================================
