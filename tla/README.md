# TLA+ models of WSysMon

WSysMon is a task manager for Linux, written in C++ with gtkmm. This directory
holds TLA+ models of it, the configurations that check them with TLC on small
instances, and proofs that TLAPS checks. Paths below are those of the
repository, without the leading `src/`.

1. [The system](#the-system)
2. [Modules](#modules)
3. [Runs](#runs)
4. [What the runs found](#what-the-runs-found)
5. [Fairness](#fairness)
6. [Proofs](#proofs)
7. [Abstractions](#abstractions)
8. [Not modelled](#not-modelled)
9. [Plan](#plan)

## The system

One GTK main loop runs all handlers of events. Each page that shows live data
owns a `DispatcherThread`: a worker that runs a loop function and, through a
`Glib::Dispatcher`, makes the main loop run a handler. Nothing else runs
concurrently; there is one mutex in each `DispatcherThread` and none elsewhere.

| Component | State | Operations | Interacts with | Hard behaviour | What makes it correct |
|---|---|---|---|---|---|
| `DispatcherThread` (`utils/`) | `m_Running`, `m_Thread`, `m_Mutex`, the pipe of the dispatcher | `Start`, `Stop(join)`, `Dispatch`, the loop, the handler | the views that own one; the main loop | one thread locks the mutex, another unlocks it; `Stop(false)` detaches a thread that goes on for a while; `Start` overtakes it; the main loop ends at any moment | one dispatch at a time, the token comes back, published data is stable, `join` returns, no `std::terminate` |
| `ProcessesView`, its life (`ui/views/`) | the four tree pointers, `m_TreeDirty`, the sort column; the display of `X11Utils` | loop function, handler, show, hide, toggles, properties of a row, destructor | `MainWindow` and `main` (calls), `ProcessManager` (static state), its `DispatcherThread` | trees are freed by the worker and read by the handler; toggles in the middle of a refresh; `main` closes the display before the thread is stopped | the handler reads live trees, caches are not raced, rows follow the setting |
| `ProcessesView`, its rows | the `Gtk::TreeStore`, the selection, the kill button | remove dead rows, update or insert rows, clear; end a process by button or action | `ProcessNode` trees, `ProcessManager::KillByPid` | rows that exist are not moved; erasing a row erases its children and moves the selection | one row for each process, sorted, in place; signals meet processes |
| `ProcessManager` (`api/process/`) | static caches of nodes, categories, CPU and IO snapshots | `ClearCache`, `GetAllProcesses`, `GetProcessesByCategory`, `GetProcessTreeByCategory`, lookups | `ProcessesApi`, `X11Utils`, `GPUApi`, `AppSettings` | manual ownership of nodes that are copied between lists; categories that subtract each other recursively; snapshots by pid | the categories partition the processes, nodes are freed once |
| `ProcessNode` | parent, children, usages | `BuildTree`, `BuildPackedFlatTree`, `FlatTree`, sums, `Reduce` | `ProcessManager` | parents that are missing | trees are complete, sums count each process once |
| `ProcessesApi` (`api/linux/`) | none | the scan of `/proc` | the kernel | processes end and pids are used again between two files | survivors are listed once; parents form no cycle |
| `AppSettings` (`storage/`) | the JSON file, a static cache | `Get`, `Save` | every thread | `Save` empties the file before it writes; `Get` saves defaults; kills | settings are kept |
| `MainWindow`, `main` | the page that is shown | page switch, menu, close, destructor | all views | order of show, hide and close | updates run on their page |
| Performance views (`ui/views/`) | two graphs each, a `DispatcherThread`, a button; the page makes the views once and shows one of them | loop, handler, destructor, click on a button; the CPU view also swaps its graphs | the samplers, `GraphWidget`, `UnitConverter` | a late main loop; CPUs, cards and sensors that come and go, in the constructor too | samples are apart, graphs agree, graphs exist, a button shows its page |
| `GraphWidget` (`ui/widgets/`) | points, axis | `AddPoint`, draw, resize | the views | points are removed by drawing only; doubles | nothing in range is lost, nothing out of range stays |
| `NetworkApi`, `DiskApi`, `SystemInfoApi` | a snapshot for each counter | sample | the kernel | devices that vanish, a clock that is set back | a report covers what was moved |
| `GPUApi`, `DrmGpuApi`, `NvGpuApi` | the number of cards, paths, an error flag | count, ask card *n*, usage of a process | views and `ProcessManager` | two numberings in one; a list that is read anew in each call, between the count and the names too; one result for all cards | a view shows the card it was named for; bounds; values that were never given |
| `HwMonApi` (`api/linux/`) | none | list the sensors, read a name, find an input | `PerformanceView`, `PerformancePSUView` | sensors are unplugged between two reads, and their paths taken by others | one page for each power supply that stays |
| `UnitConverter` (`utils/`) | none | the best unit of bytes or bits | the views | the units run out | the text tells the bytes |
| `AutostartApi`, `AutostartView` | files, rows, selection, button | load, select, toggle | other programs | the directory changes between two steps | a click does what the button says |
| `ServicesApi`, `ServicesView`, `DetailsWindow`, X11 and cgroup queries, macOS | none that changes | read once, or labels | | | see [Not modelled](#not-modelled) |

`PROJECT.json` lists the hazards of this code line by line, with the properties
that would catch each of them.

## Modules

`PROJECT.json` maps every definition that models code to its lines.

**`Handoff`** is the abstract specification of a publication that travels from
one producer to a consumer and back: a slot with stages *free, held, posted,
consuming* and an owner.

**`DispatcherThread`** is the detailed one. Each lock, unlock, check of
`m_Running`, emit and call is an action of the worker `w` (`CheckRunning`,
`GateLock`, `GateUnlock`, `LoopFunction`, `DispatchLock`, `DispatchEmit`,
`LoopReturn`); `Start`, `StopDetach`, `StopJoin`, `Join`, `BeginHandler`,
`EndHandler`, `Quit` and `Delete` are those of the main thread. Its instance `H`
of `Handoff` is the refinement mapping.

**`ProcessesUpdater`** composes `DispatcherThread` with `MainWindow`,
`ProcessesView` and the static state of `ProcessManager`: the loop function is
refined into its calls (`ClearCache`, then one `GetTree` for each category,
`LoopEnd`), the handler into `UpdateRows`, and `ShowProcesses`, `HideProcesses`,
`ToggleLayout`, `SortBy`, `Close` and `DeleteView` say when the thread is started
and stopped. `Properties` is the look-up of a row's process in the caches, by the main
thread (`asking` while it lasts), and `Dispose` the way `main` closes the display of
X (`display`) before the window is deleted. A data race on the caches (`WorkersRace`,
`HandlerRace`, `LookupRace`, `TeardownRace`) or on the display (`DisplayRace`) is a
state in which the behaviour stops, because nothing is known of a program after one.

**`ProcessTree`** has the pure functions of `ProcessNode` on a tree given as a
function from pid to parent; **`ProcessManager`** one refresh of the caches, call
by call, with the heap of nodes made explicit (a node is named by the list that
made it and its pid). `Root`, the pid of root nodes and labels and the parent of who has
none, is no pid of a process. **`ProcessesView`** has the rows of one category as a
function from a row to the sequence of rows below it, the phases of a refresh
(`BeginUpdate`, `RemoveDead`, one `UpdateCategoryProcess` for each process while the walk
goes down the tree, `EndUpdate`), the selection with the kill button (`Select`,
`OnRowSelected`, `KeepSelection`), and the two ways to end a process (`OnKillClick`,
`OnActionEndTask`); `signal` is what `KillByPid` was called with. Its specification is
`RowsSpec`.

**`ProcessesApi`** has the scan of `/proc`, one action for each file, while the kernel
forks, ends and adopts processes and uses pids again. Its specification is `ScanSpec`,
so that a module can extend it together with `ProcessManager`, which takes its list, and
`ProcessesView`, which shows it.

**`AppSettings`** has the file (absent, emptied or settings), the cache and
program counters inside `Get` and `Save` for the main thread and the workers,
over sessions that end by `Exit` or `Kill`.

**`GraphWidget`** has the points of a curve and its axis: `AddPoint`, `Draw`,
`Resize`. **`PerformanceSubView`** composes `DispatcherThread`, refined by a sleep in
the loop function (`FallAsleep`, `WakeUp`) and a sample in the handler, with two
instances of `GraphWidget`, the one of the view and the one of its button, and
two clocks, one that only runs and one that may be set back.

**`Samplers`** has what is sampled: one counter, of bytes, of a disk's busy time, of a
CPU, or of the time or the bytes of a process, with its snapshot and the report
made of the two. A handler reads a counter and reports at once (`Sample`); a process
is read in the scan of `/proc` (`Scan`) and sampled later in the refresh
(`SampleProcess`). **`UnitConverter`**, which `Samplers` uses, has the units of the texts.

**`PerformanceCPUView`** has the box of graphs of the CPUs and the clicks on it,
**`GpuApi`** the numbering of the cards: the count (`CountGPUs`), then a name for each view
(`NameGPU`), then the handlers and the process list, each with a list of NVIDIA cards of
its own. **`DevicePages`** has the constructor of the Performance page step by step (disks,
interfaces, one GPU after the other, then for each sensor its name and its input), the
views and buttons it makes, and the clicks that show them. **`PerformanceView`** composes
the three, since one constructor makes the views from hardware that goes on changing
meanwhile, and handlers and clicks follow when it is done; `MakeGpuView` is the name
of a GPU and its page in one.

**`Autostart`** has the autostart page and its directory.

`<Module>Proofs` has the theorems of `<Module>`, `ProcessListProofs` those of `ProcessesApi`,
`ProcessManager` and `ProcessesView`, which follow a list of processes from `/proc` to its
rows, and `MC<Module>` with its `.cfg` an instance for TLC. The operators whose comment begins with "Mutant" are changed
versions of the definition after the underscore's prefix; no specification uses
them. They are what `PROJECT.json` lists under "mutants": put in the place of the
original, each makes TLC report the property named with it, which shows that the
property depends on that piece of code.

## Runs

| Run | Instance | What it shows |
|---|---|---|
| `dispatcher_thread` | 3 threads | all safety and liveness properties of the handoff, and the refinement of `Handoff` |
| `processes_updater` | 2 threads, 2 of the 4 categories | the list over its life, to the closing of the display and the window; look-ups |
| `process_manager` | all tables of 3 or 4 processes with 4 kinds of names | partition, ownership, trees, lookup over refreshes |
| `processes_view` | 3 pids, 2 values of the sort column | the rows of a category, the selection and the signals |
| `processes_api` | 3 pids, 4 processes, 3 kinds of programs | the scan |
| `app_settings` | main thread and 2 workers, 2 sizes, any number of sessions | loss of settings |
| `performance_sub_view` | 1 thread, sleeps of 2 ticks, times 0 to 5, set back once; 2 samples of -1, 0, 150 or NaN in a span of 2; widths 480 and 481 | samples are apart, both graphs keep what they should and nothing else |
| `samplers` | one counter of each of 5 kinds, 7 ticks, 2 disturbances, a lag of 1 tick; divisors 2 and 3 for 1000 and 1024 | rates, shares and their texts |
| `performance_view` | 3 CPUs, up to 2 + 2 cards, a disk, an interface, 3 sensors on 2 paths | the box of CPU graphs under hotplug, the numbering of cards that come, go and fail, the pages of devices |
| `autostart` | 2 entries, 2 contents | the autostart page |

Each of these ends without an error. Why the bounds are enough:

- *Threads.* A defect of the handoff needs a thread that was stopped, one that was
  started after it and a third one for the start after that; two are enough in
  `ProcessesUpdater`, where the property of interest is whether two overlap. In
  `PerformanceSubView` the thread is never stopped before the end, so there is one.
  `DispatcherThreadProofs` and `ProcessesUpdaterProofs` cover any number.
- *Categories.* The worker treats them alike; two show a change of the settings
  between two calls. The proofs cover any sequence of categories.
- *Processes.* Four make a table with a chain, with siblings below a process of
  the user, and with a parent that is missing; three pids make rows that lose
  their parent and are inserted again. Three pids with four lives are enough for
  the cycle of ppids that a reused pid can cause: without the premise `~reused`,
  `ParentsFormNoCycle` fails in this instance. Two values of the sort column make
  equal and different neighbours.
- *Settings.* Two workers can both be inside `Get`; two sizes tell the user's
  last value from the one before and from the defaults.
- *Clocks.* In `samplers`, `Second = 3` and `Sleep = 2` put samples below, at and above
  one second, and seven ticks hold three samples beside two disturbances. The rates
  are in terms of a difference, so two gains are enough. In
  `performance_sub_view` a sample can leave the span while the other is in it, and the
  clock can be set back below both.
- *Graphs.* The sizes 481 and 218 are such that 60 * (481 / 60.) > 481 and
  100 * (218 / 100.) > 218 in doubles, 480 and 219 are not; `Overshoots` is that
  table, computed outside of TLA+. The samples lie below the axis, on its bound and
  above its limit, and one is not a number.
- *Units.* The counter starts at 40, so that totals and rates go up and down through
  all units of the divisor 2 and past the last of them (2^5), and reach 8 times as
  many bits.
- *CPUs, cards and sensors.* Three CPUs leave two online of which one has the id 2; two
  cards of each source make offsets within a list and across the two; three sensors
  on two paths let a sensor take the path of another. In a behaviour of
  `MCPerformanceView` one kind of hardware varies and changes, and its views are used: the
  views share nothing but the number of GPUs, which the other kinds meet as it is.
  The NVIDIA cards change from the count on, before which nobody asks for them, and
  start in every state; two of them are enough for one that is silent and
  followed by another, and for a name that is read when the last is silent.

The type invariants of `DispatcherThread`, `ProcessesUpdater`, `AppSettings`, `Samplers` and
`Autostart` are in no run: they are proved.

`CHECK_DEADLOCK FALSE` stands where the system really stops: the program ends
(`DispatcherThread`, `ProcessesUpdater`, `PerformanceSubView`), it does something
undefined (`ProcessesUpdater`, `ProcessesView`, `PerformanceView`), an exception ends it
(`Autostart`, `DevicePages`), or a bounded clock or supply runs out (`Samplers`, `ProcessesApi`).

## What the runs found

Two runs are expected to end with a violation. Each one compares the code with
a sentence of its comments or labels; the counterexample that TLC prints
is the argument.

| Run | The text | What the code does |
|---|---|---|
| `display_as_list` | the menu item "Display as list" | A toggle during a refresh is lost: the handler resets `m_TreeDirty` for trees of the old layout, and under the sort by name rows are never moved afterwards. |
| `remove_dead` | `// Remove dead` | Erasing the row of a dead process erases the rows of its live children, whose iterators are used next. |

Other things a reader of the models may want to know, which have no run of their own:

- A process whose name in `stat` has a space is never listed (`parse_stat` reads it
  with `%s`).
- A pid that is used again during a scan can make the parents of the list a
  cycle, on which `FlatTree` would not return.
- The window is destroyed after the main loop has returned, so no handler runs any more,
  and `Stop(true)` waits for ever if the worker waits for the mutex at the top of its
  loop with its dispatch in the pipe, whether that was emitted before the main loop
  ended or after. `JoinReturns` says that this is the only state from which `join`
  does not return, and that from it `join` never does; without it, it returns.
- When a page is shown again within one refresh of being hidden, the thread that
  was stopped goes on and two of them use the caches (`RacesNeedOvertaking` says
  that this is the only way).
- A look-up for the properties window uses the caches of `ProcessManager` while the
  worker may be clearing them, without any overtaking (`LookupRace`).
- `main` closes the display of X, and only then deletes the window and stops its
  thread: a worker in the middle of a refresh uses a display that is gone
  (`DisplayRace`). `PostedCloseIsSafe` says when it cannot happen.
- Sorted by usage, each refresh clears the rows, so the selection moves, perhaps to
  the label of a category. The button looks whether the pid is a process; the actions
  "End task" and "Kill" do not, and kill(0) signals the program's own group: the
  exception in `SignalsMeetProcesses`.
- Snapshots of a process are kept by pid. One that has the pid of another is compared
  with that one in its first report, which may be negative. What a
  process waits for adds all time of its child at once, and from the scan to the
  sample time goes by, so that a share may pass 100 %: `disturbed` and `late` in
  `UsageIsShare`.
- A DRM card without a `temp1_input` in the directory that is searched has the
  temperature of a function that ends without a return (`NoTemperature` in `GpuApi`).
- The result of the last call for the last NVIDIA card decides whether any of them is known.
  A card before it whose temperature cannot be read is shown with a temperature that
  was never given a value (`silent`), and a clock that cannot be read is never given one
  either (`clockless`). If the last card fails while a view asks for its name, the name
  stays empty and the view shows its card later nevertheless.
- A power supply that is unplugged between the listing and `FindInputPath` throws in
  the constructor of the page, which nothing catches (`thrown` in `DevicePages`).
- Past TB, `UnitConverter` counts into the units of the other kind: 1000^5 bytes are
  shown as plain bytes, 1000^6 in KiB.
- `DiskApi::GetDiskTotalRead` multiplies sectors by 1024.
- A worker's `Get` can meet the settings file while `Save` has emptied it and save the
  defaults over the new size of the window: the premise `~torn` of `KeptUnlessTorn`.
- At some widths rounding puts the newest point of a graph off the edge, so each draw
  empties the graph, and a NaN is never equal to itself, so it is never removed:
  the exceptions in `HistoryKept` and `DrawLeavesRange`.
- The rates shown as `/s` are a difference times 1 + dt, not divided by dt: `Rate` in
  `Samplers`.
- The README says that only NVIDIA GPUs are detected; all other cards of
  `/sys/class/drm` are counted too: `CountGPUs` in `GpuApi`.
- The usage of a CPU that stays offline is 0 / 0.
- With a driver that lists no card, `GetGPUProcessInfo` reads element 0 of an empty
  list, and so do the views when a card is gone.

## Fairness

Liveness is checked in `DispatcherThread` and `ProcessesUpdater`, under fairness of four
things: each worker's next step (the operating system schedules every
thread that can run; waiting for a mutex is not being able to run), the beginning of
a handler while a dispatch is in the pipe (the main loop polls the pipe with
every other source), its end (the handlers have no unbounded loop), and the return of
`join` when the thread has ended. It is weak but for the handler in `ProcessesUpdater`:
there the main thread may be in a look-up again and again, which interrupts the
handler's being possible; the main loop serves all sources that are ready, of one
priority, in turn, so that a dispatch in the pipe is not passed over for ever, which is
strong fairness. A look-up ends, so `Properties` is weakly fair while it
lasts. Nothing is assumed of the user, of `Start` or
`Stop`, or of the mutex's order: it is enough that the token's holder goes on.
Strong fairness for the mutex is not needed for the properties, since in each of
them at most one thread that is not stopped waits for it for ever.

## Proofs

Proved for every value of the constants:

| Module | Theorem | Statement |
|---|---|---|
| `DispatcherThreadProofs` | `TypeCorrect` | `Spec => []TypeOK` |
| | `HandoffSafe` | `Spec => [](OneHandoff /\ TokenNotLost)` |
| | `PublishedDataStable` | `Spec => []OwnDataStable` |
| | `Exclusion` | `Spec => []HandlerExcludesLoop` |
| | `NeverTerminates` | `Spec => []NoTerminate` |
| | `JoinedThreadsAreGone` | `Spec => []OnlyDetachedOutlive` |
| | `Refinement` | `Spec => HandoffSpec` |
| `ProcessesUpdaterProofs` | `RacesOnlyWhenOvertaken` | `Spec => []RacesNeedOvertaking` |
| | `HandlerReads` | `Spec => []HandlerReadsLiveTrees` |
| | `CloseIsSafe` | `Spec => []CloseOnPageIsSafe` |
| | `RunsOnPage` | `Spec => []RunsOnItsPage` |
| | `LookupSees` | `Spec => []LookupSeesRefresh` |
| | `PostedClose` | `Spec => []PostedCloseIsSafe` |
| | `TypeCorrect` | `Spec => []TypeOK` |
| `AppSettingsProofs` | `TypeCorrect` | `Spec => []TypeOK` |
| | `SettingsKept` | `Spec => []KeptUnlessTorn` |
| | `LaterSaves` | `Spec => []LaterSavesAreSafe` |
| | `OneWriter` | `Spec => []WritersExclude` |
| `SamplersProofs` | `ReportsCover` | `Spec => []ReportsCoverMoved` |
| | `UsageShare` | `Spec => []UsageIsShare` |
| | `TextsTell` | `Spec => []TextsTellBytes` |
| | `TypeCorrect` | `Spec => []TypeOK` |
| `PerformanceSubViewProofs` | `SamplesAreApart` | `Spec => []SamplesApart` |
| | `OneThread` | `Spec => []OnceInv` |
| | `HistoryIsKept` | `Spec => []HistoryKept` |
| | `DrawsLeaveRange` | `Spec => DrawLeavesRange` |
| | `TypeCorrect` | `Spec => []TypeOK` |
| `PerformanceViewProofs` | `BoxMatches` | `Spec => []BoxMatchesMode` |
| | `ViewsShowCards` | `Spec => []ViewsShowTheirCard` |
| | `PagesMeet` | `Spec => []PagesMeetDevices` |
| | `TypeCorrect` | `Spec => []TypeOK` |
| `ProcessListProofs` | `Survivors` | `ScanSpec => []SurvivorsAreListed` |
| | `NoCycle` | `ScanSpec => []ParentsFormNoCycle` |
| | `ScanTypeCorrect` | `ScanSpec => []ScanTypeOK` |
| | `HeapOwned` | `Spec => []HeapIsOwned` |
| | `CategoriesPartition` | `Spec => []Partition` |
| | `CachesTypeCorrect` | `Spec => []TypeOK` |
| | `TreesComplete` | `Spec => [](NoLoops(all) => TreesAreComplete)` |
| | `ScansMakeTrees` | `ScanSpec => [](~reused =>` both trees of any list of what was found reach all of it `)` |
| | `RowsTypeCorrect` | `RowsSpec => []RowsTypeOK` |
| | `OneRow` | `RowsSpec => []OneRowEach` |
| | `ClearedRows` | `RowsSpec => []ClearedRowsFollowTree` |
| | `SiblingsSorted` | `RowsSpec => []SiblingsAreSorted` |
| | `SignalsMeet` | `RowsSpec => []SignalsMeetProcesses` |
| `AutostartProofs` | `LabelTells` | `Spec => ClickDoesWhatLabelSays` |
| | `EntriesKept` | `Spec => ClickKeepsEntries` |
| | `TypeCorrect` | `Spec => []TypeOK` |

`OneHandoff`, `TokenNotLost`, `OwnDataStable`, `RunsOnItsPage` and `WritersExclude` have no run:
they hold for every value of the constants, which the proofs show.

The assumptions are those of the modules: `None` is not a thread, the states of
the settings file that are not settings are no settings, the main thread is no
worker, bounds, gains and sleeps are natural numbers, the sleep and the second of `Samplers` are not 0, there is a
CPU, there are finitely many devices, the cards of the driver are numbers and what stands for
no device is none, samples, bounds and times of graphs are integers, the divisors of units are
numbers above 1, pids are numbers above 0 and init has one, and each table of processes has a
process and is finite. `RowsAssumption` says that what
the sort column shows is ordered like integers and that each tree a refresh brings to the
rows reaches all of its processes from its root; the latter is what `TreesComplete` and
`ScansMakeTrees` prove of the trees there are. TLC evaluates the assumptions in the runs.

*`DispatcherThread`.* `OneHandoff`, `TokenNotLost` and `OwnDataStable` are inductive only
together and with the knowledge that a thread between its lock and its unlock or
emit owns the mutex (`TokenInv`). `NoTerminate` needs to know which thread
`m_Thread` names while `m_Running` holds, and that every live thread is either that
one or detached (`ThreadInv`). `HandlerExcludesLoop` does not follow from these: what
keeps the only thread out of the loop function while its dispatch is outstanding is
that no other thread is alive, which `SoleInv` says as long as no `Start` has overtaken
a stopped thread. `NextInv` has one lemma for the workers and one for each group of
the main thread's actions. `Refinement` maps each step to a step of `Handoff` or to a
stutter, and uses the invariant to know who owns the token.

*`ProcessesUpdater`.* Its actions are made of those of `DispatcherThread` and leave its
variables alone otherwise, so the invariant of that module holds here as well (the lemma
`UsesThread`).
`PageInv` ties the page to `m_Running`. `BuildInv` says for each call of the loop
function which trees exist then, and that trees are complete whenever no worker is
between `ClearCache` and `LoopEnd`; with `SoleInv` the handler never runs then.
`LookupSees` follows from it as well: without a worker in the caches they are built
for every row. `PostedClose` needs that the only thread alive is past its emit while
its dispatch is in the pipe.

*`AppSettings`.* `SessionInv` says what threads may be doing in each phase of a session
and when there is a file at all. `KeptInv` extends `KeptUnlessTorn` to the middle of a
`Save`: what is in hand, in the file and in the cache at each program counter.
`AloneInv` does the same for a `Save` that meets a filled cache.

*`Samplers`.* Neither property is inductive, since both only speak of the moment of a
report. `DeviceInv` says at any moment after an undisturbed sample that the counter is
the snapshot and what moved, and that no more busy time has moved than time went by.
For a process the time splits at the scan: `UnlistedInv` up to it, `BeforeScanInv` for
what was read there, `SinceScanInv` for what came after; the lag of a sample is what the
next report may be too high by. `ApartInv` keeps the denominator above 0. `TextsTell` needs
of the machine only that what is shown is a number; the rest is about the loop of
`UnitConverter`. `Divisions` is a recursive function over all integers, so it has to be
shown first that there is one. `Divided` says what a run of the loop goes through;
each number has exactly one such run, since a least number that had none, or two, would have
a quotient that is less and has the same (`LoopEnds`). The lengths of the runs solve the
equation of `Divisions` (`DivisionsOf`), and a further least counterexample shows that any
solution counts in natural numbers. A quotient reaches `x` just where the number reaches `d`
times `x` (`QuotientReaches`), whatever the division cuts off, so each step of the loop
is one unit (`NextUnit`, `DivisionsTellUnit`).

*`PerformanceSubView`.* The invariant of `DispatcherThread` holds of the view's thread, as in
`ProcessesUpdater`. `OnceInv` says that this thread is the only one the view ever has;
then `RestInv` follows what it has slept: that much has passed since the last sample,
and all of the sleep before a dispatch is on its way. `HistoryKept` is not inductive: a
sample can be outside of the span now and in it after a smaller one. `GraphInv` says of each
graph that the axis reaches all samples, that points are in the order of their times as long
as the clock was not set back, so that the last one is the newest, and that a sample in the
span is among the points unless rounding interfered. It is stated of the values of one
graph, so that its lemmas (`AddToGraph`, `DrawOfGraph`, `GraphTime`) serve both; a draw
keeps a point it should because the point is in range of the newest (`DrawOfGraph`).

*`PerformanceView`.* Only the CPU view and the hotplug touch the graphs of the CPUs.
`CpuInv` adds to `BoxMatchesMode` that no graph of the loop is a null pointer while the
number of CPUs is that of the constructor. For the GPUs, a card's place in the list of the driver
is one more than the number of cards before it (`PlaceInDevinfos`), so it does not depend
on those after it. `NamesInv` says that a view beyond `g_DrmGpuMap` was given an empty name
or that of the card that had its place among those then `seen`: the card is still there
and shown as long as no card up to it has come or gone. `UndefinedInv` keeps the
reason for a value that is not defined. For the pages,
`PathsInv` says that the listing has each path once and those of the devices that stayed
among them, `PsusInv` that a power supply has a page when the loop has passed its path
and not before, and `ButtonsInv` that buttons and views are numbered alike.

*`ProcessesApi`.* `FamilyInv` says that a process is younger than its parent; orphans go to
init, the oldest. As long as no pid was used again, an entry still names the process it was
read from or none (`StillNames`), so among the entries a parent is older than its child
(`Older`), whenever each was read: the oldest entry of a cycle would have an older parent.
`SteadyInv` follows a process that lives throughout to its entry, and `OrderInv` says that the
entries ascend like the directory, so that there is one.

*`ProcessManager`.* A category subtracts those before it, which it computes first:
`PriorityInv` says that these are in the cache then, and `FilteredInv` that a category is
what its filter finds less these. Hence two categories share nothing, and `background` and
`system`, whose filters find all of the processes of the user and of the others, cover
everything. `HeapIsOwned` is inductive with the types: a node is freed exactly where
the list that owns it gives it up. `RootReachesAll` shows that a tree whose table has no loop is reached from its root:
of the pids that are not, a loop could be made, since each has its parent among them.
For the sums, `SumsOfTree` compares what `CalculateSums` computes with the sizes of the
subtrees. The sizes solve its equation: the subtrees of two children share nothing
(`ChildrenApart`), so the sizes of the children add up to that of the node without itself
(`SumOfSizes`, `SumAtNode`). No other function solves it: where one differs at a node it
differs at a child, whose subtree is smaller. So `CalculateSums` is the sizes, whatever
order the children come in.
`TreesComplete` has no assumption about the tables there may be: trees are made of the last
scan only, and if its parents form no loop they are complete until the caches are cleared.
`ScansMakeTrees` joins this with the scan, whose list has no loop.

*`ProcessesView`.* The properties speak of the time between two refreshes; `RowsInv` says
what holds inside of one. `Unique` needs only that `AddProcess` looks for a row first
(`AddedRow`) and that erasing keeps what it leaves apart (`ErasedRows`). `LoopInv` says
that the rows include the processes the walk has been at and, once the dead rows are gone, no
process outside of the tree: when the walk can go no further, the processes it has been
at are closed under children, so they are all that the root reaches (`EndUpdateStep`).
That is why it does no harm that the rows of live processes are erased with the row of
their dead parent. `PlacedInv` follows a parent's row through a walk that began with no rows;
`SortedInv` compares only siblings that are in the tree, since rows of the dead have no
value in the sort column before they are erased, and rests on the order being total
(`OrderOfKeys`, `SortedRow`). `SelectionInv` ties the button to the selected row and what is
selected to what the user chose.

*`Autostart`.* Both action properties follow from `LabelInv`: the label of a button that
can be clicked is that of the selected row, and stays so until the file is renamed.

Only model-checked: all liveness (`JoinReturns`, `UpdatesKeepComing`,
`SortedRowsFollowLayout`), since neither fairness nor `ENABLED` is
in the prover's reach. Every other property of a run that passes is also a theorem. The
premise of `TreesComplete` is what `ParentsFormNoCycle` says of a scan (`NoCycleNoLoops`);
with a pid that is used again during a scan it can fail, and the instance for TLC has no
such table.

## Abstractions

- The read of `m_Running` is atomic in `DispatcherThread`; the variable is a plain `bool`,
  so by the letter of the language its reads race with `Start` and `Stop`.
- Data races on the caches of `ProcessManager` and uses of a closed display end a
  behaviour in `ProcessesUpdater`. The display is used for the category of apps only,
  and is "none" from the start where there is no X server. In
  `AppSettings` a racing read of the cache may mix the fields of two settings
  (`CacheReads`).
- `ProcessNode::GetDepth` walks from nodes of the cache into the root that
  `GetAllProcesses` has deleted. `Depth` counts from a node's topmost parent; the code
  uses differences of depths only.
- The order of children is left out of `ProcessTree`; it does not decide anything in
  `ProcessManager`.
- The settings file is written in one step after it was emptied, and failures of
  writes are left out. Of the five settings two are kept.
- A sampler reads its counter and the clock in one step. Time and bytes are small
  integers; a share is kept as numerator and denominator so that 0 / 0 shows.
- In `ProcessesView` one value stands for what the sort column shows of a process; the
  other columns decide nothing. The walk down the tree takes children in any order, and
  may go on elsewhere before it comes to a process's children. GTK moves the selection from an erased row to any
  row beside it.
- `Samplers` follows one counter: those of different devices and directions do not
  depend on each other.
- Death and wait are one step in `ProcessesApi`, and init adopts all orphans. The
  directory of `/proc` lists pids in ascending order, and those that exist
  throughout for certain.
- In `GpuApi` the count and each name are steps of their own. A handler asks the driver
  once for each of its labels, which is one step here: cards change between two handlers.
  The temperature or a clock of a card may stop answering at any time; the string of
  the driver that a constructor asks for after the name is left out. The DRM cards are those of the start, as they are soldered or
  plugged inside; NVIDIA's list depends on the driver.
- `DevicePages` lists the disks and the interfaces in one step each, and the directory
  of sensors in another. A sensor that goes away between the check that its
  directory exists and its iteration is left out.
- Texts in `UnitConverter` are fractions; the cut to two digits is left out.
- The rename in `Autostart` and the load of the rows after it are one step.

## Not modelled

`ServicesApi` and `ServicesView` read once, when the window is made, and keep no state
that changes. `DetailsWindow` clears and fills labels in one handler; what the look-up
before it reads is in `ProcessesUpdater`. `X11Utils` and `CGUtils` are queries of other
programs: the pids with windows are an arbitrary set in `ProcessManager`. What a device
or the system says of itself (names, sizes, clocks, temperatures, memory) is read
anew in each call or once, is shown and kept nowhere, and is left out, as is
everything that is only painted or formatted (`GpuApi` has whether the clocks and
temperatures of cards have a value at all); `PROJECT.json` says it for each component.
The macOS sources are another platform and mostly stubs; `deps` is vendored.

## Plan

Done, in this order: the handoff and its proofs; the life of the process list and
its proofs; trees, categories and rows; the settings and their proofs; the
performance page (`GraphWidget`, `PerformanceSubView`, `Samplers`, `PerformanceView`);
`Autostart` and its proofs; the scan of `/proc`; the usage of processes as kinds of
`Samplers` and the proofs about it; selection, signals, look-ups and the display; the
pages of devices; units; the proofs about the performance page, the scan, the caches and the rows of processes;
those about the sums in the trees and about the units.

To come: a composition of `ProcessesView` with the refreshes of `ProcessesUpdater`, so that
rows, layouts and trees are one state. It would need smaller instances of both.
