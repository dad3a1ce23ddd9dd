--------------------------- MODULE AppSettingsProofs ---------------------------
(***************************************************************************)
(* The safety properties of AppSettings for any number of workers and any  *)
(* sizes of the window, from one inductive invariant:                      *)
(*   - SessionInv ties the session to what its threads may be doing, and   *)
(*     says that there is a file once the constructor of MainWindow is     *)
(*     done;                                                               *)
(*   - KeptInv is KeptUnlessTorn with what holds in the middle of a Save;  *)
(*   - AloneInv is LaterSavesAreSafe with the same.                        *)
(***************************************************************************)
EXTENDS AppSettings, TLAPS

SessionInv ==
  /\ Off => cache = NoSettings /\ \A t \in Threads : pc[t] = "idle"
  /\ session = "starting" => cache = NoSettings \/ pc[Main] = "got"
  /\ session = "starting" => \A w \in Workers : pc[w] = "idle"
  /\ file = Absent => /\ Off \/ session = "starting"
                      /\ pc[Main] \in {"idle", "read", "open"}
                      /\ cache = NoSettings
                      /\ wanted = Defaults

KeptInv ==
  ~torn => /\ \A w \in Workers : pc[w] \in {"idle", "read", "got"}
           /\ pc[Main] \in {"open", "write", "cache", "got"} => hand[Main] = wanted
           /\ pc[Main] = "write" => file = Emptied
           /\ pc[Main] = "cache" => file = wanted
           /\ pc[Main] = "open" => session = "starting"
           /\ file \in Settings => file = wanted
           /\ cache # NoSettings /\ pc[Main] \notin {"open", "write", "cache"} =>
                cache = wanted

AloneInv ==
  alone /\ ~Off =>
    /\ session # "starting"
    /\ cache # NoSettings
    /\ \A w \in Workers : pc[w] \in {"idle", "got"}
    /\ pc[Main] \in {"idle", "got", "write", "cache"}
    /\ pc[Main] \in {"idle", "got"} => file = cache
    /\ pc[Main] = "cache" => file = hand[Main]

Inv == TypeOK /\ SessionInv /\ KeptInv /\ AloneInv

\* A read of the cache returns settings; it returns none only when the cache is
\* empty.
LEMMA CacheReadsType ==
  ASSUME TypeOK, NEW t \in Threads, NEW value \in CacheReads(t)
  PROVE  \/ value \in Settings
         \/ value = NoSettings /\ cache = NoSettings
  BY DEF TypeOK, CacheReads, Settings

\* While no other thread assigns to the cache, a read of it returns its value.
LEMMA CacheReadsExact ==
  ASSUME TypeOK, NEW t \in Threads, NEW value \in CacheReads(t),
         \A u \in Threads \ {t} : pc[u] # "cache"
  PROVE  value = cache
  <1>1. CASE cache = NoSettings
    BY <1>1, NoSettingsAssumption DEF CacheReads
  <1>2. CASE cache \in Settings
    BY <1>2, NoSettingsAssumption DEF CacheReads, Settings
  <1> QED
    BY <1>1, <1>2 DEF TypeOK

\* The initial state satisfies the inductive invariant.
LEMMA InitInv == Init => Inv
  <1> SUFFICES ASSUME Init PROVE Inv
    OBVIOUS
  <1> USE ThreadsAssumption, NoSettingsAssumption DEF Init
  <1>1. Defaults \in Settings
    BY DEF Defaults, Settings
  <1>2. TypeOK
    BY <1>1 DEF TypeOK, Sessions, PCs
  <1>3. SessionInv /\ KeptInv /\ AloneInv
    BY <1>1 DEF SessionInv, KeptInv, AloneInv, Off, Threads
  <1> QED
    BY <1>2, <1>3 DEF Inv

\* Every step preserves the types.
LEMMA TypeInv == ASSUME TypeOK, Next PROVE TypeOK'
  <1> USE DEF TypeOK, Sessions, PCs, Goto
  <1>1. Defaults \in Settings /\ Main \in Threads
    BY DEF Defaults, Settings, Threads
  <1>2. CASE StartUp
    BY <1>1, <1>2, CacheReadsType DEF StartUp, CheckCache
  <1>3. CASE \E t \in Threads : Refresh(t)
    BY <1>3, CacheReadsType DEF Refresh, CheckCache
  <1>4. CASE \E t \in Threads : Call(t)
    <2>1. PICK t \in Threads : Call(t)
      BY <1>4
    <2>2. CASE ReadFile(t)
      BY <1>1, <2>2 DEF ReadFile
    <2>3. CASE OpenFile(t) \/ WriteFile(t) \/ SetCache(t)
      BY <1>1, <2>3 DEF OpenFile, WriteFile, SetCache
    <2>4. CASE Return(t)
      BY <1>1, <2>4 DEF Return
    <2> QED
      BY <2>1, <2>2, <2>3, <2>4 DEF Call
  <1>5. CASE ToggleProcList
    BY <1>1, <1>5 DEF ToggleProcList, SaveChange, Settings
  <1>6. CASE \E size \in Sizes : CloseWindow(size)
    BY <1>1, <1>6 DEF CloseWindow, SaveChange, Settings
  <1>7. CASE Exit \/ Kill
    BY <1>1, <1>7 DEF Exit, Kill, End
  <1> QED
    BY <1>2, <1>3, <1>4, <1>5, <1>6, <1>7 DEF Next

\* A Get that begins preserves the inductive invariant.
LEMMA CheckInv == ASSUME Inv, Next, StartUp \/ \E t \in Threads : Refresh(t) PROVE Inv'
  <1> USE ThreadsAssumption, NoSettingsAssumption DEF Goto, Off, Threads
  <1>1. TypeOK /\ TypeOK'
    BY TypeInv DEF Inv
  <1>2. CASE StartUp
    <2>1. PICK value \in CacheReads(Main) :
            \/ value = NoSettings /\ Goto(Main, "idle", "read") /\ UNCHANGED hand
            \/ /\ value # NoSettings
               /\ Goto(Main, "idle", "got")
               /\ hand' = [hand EXCEPT ![Main] = value]
      BY <1>2 DEF StartUp, CheckCache
    <2>2. cache = NoSettings /\ value = NoSettings
      BY <1>1, <1>2, <2>1, CacheReadsExact DEF Inv, SessionInv, StartUp
    <2> QED
      BY <1>1, <1>2, <2>1, <2>2
         DEF Inv, TypeOK, StartUp, SessionInv, KeptInv, AloneInv
  <1>3. CASE \E t \in Threads : Refresh(t)
    <2>1. PICK t \in Threads : Refresh(t)
      BY <1>3
    <2>2. PICK value \in CacheReads(t) :
            \/ value = NoSettings /\ Goto(t, "idle", "read") /\ UNCHANGED hand
            \/ /\ value # NoSettings
               /\ Goto(t, "idle", "got")
               /\ hand' = [hand EXCEPT ![t] = value]
      BY <2>1 DEF Refresh, CheckCache
    <2>3. /\ value \in Settings \/ (value = NoSettings /\ cache = NoSettings)
          /\ ~torn /\ t = Main => value = cache
      BY <1>1, <2>2, CacheReadsType, CacheReadsExact DEF Inv, KeptInv
    <2>4. SessionInv'
      BY <1>1, <2>1, <2>2, <2>3 DEF Inv, TypeOK, Refresh, SessionInv
    <2>5. KeptInv'
      BY <1>1, <2>1, <2>2, <2>3 DEF Inv, TypeOK, Refresh, KeptInv
    <2>6. AloneInv'
      BY <1>1, <2>1, <2>2, <2>3 DEF Inv, TypeOK, Refresh, AloneInv
    <2> QED
      BY <1>1, <2>4, <2>5, <2>6 DEF Inv
  <1> QED
    BY <1>2, <1>3

\* The steps of Get and Save preserve the inductive invariant.
LEMMA CallInv == ASSUME Inv, Next, NEW t \in Threads, Call(t) PROVE Inv'
  <1> USE ThreadsAssumption, NoSettingsAssumption
      DEF Goto, Off, Threads, Inv, TypeOK, SessionInv, KeptInv, AloneInv
  <1>1. TypeOK'
    BY TypeInv
  <1>2. CASE ReadFile(t)
    BY <1>1, <1>2 DEF ReadFile
  <1>3. CASE OpenFile(t)
    BY <1>1, <1>3 DEF OpenFile
  <1>4. CASE WriteFile(t)
    BY <1>1, <1>4 DEF WriteFile
  <1>5. CASE SetCache(t)
    BY <1>1, <1>5 DEF SetCache
  <1>6. CASE Return(t)
    BY <1>1, <1>6 DEF Return
  <1> QED
    BY <1>2, <1>3, <1>4, <1>5, <1>6 DEF Call

\* A change by the user preserves the inductive invariant.
LEMMA ChangeInv ==
  ASSUME Inv, Next, NEW change \in [Settings -> Settings], SaveChange(change),
         session' \in {"on", "closing"}
  PROVE  Inv'
  <1> USE ThreadsAssumption, NoSettingsAssumption
      DEF SaveChange, Goto, Off, Threads, Inv, TypeOK, SessionInv, KeptInv, AloneInv
  <1>1. TypeOK'
    BY TypeInv
  <1> QED
    BY <1>1

\* The end of the process preserves the inductive invariant.
LEMMA EndInv == ASSUME Inv, Next, Exit \/ Kill PROVE Inv'
  <1> USE ThreadsAssumption, NoSettingsAssumption
      DEF Exit, Kill, End, Off, Threads, Inv, TypeOK, SessionInv, KeptInv, AloneInv
  <1>1. TypeOK'
    BY TypeInv
  <1> QED
    BY <1>1

\* Every step preserves the inductive invariant.
LEMMA NextInv == Inv /\ [Next]_vars => Inv'
  <1> SUFFICES ASSUME Inv, [Next]_vars PROVE Inv'
    OBVIOUS
  <1>1. CASE UNCHANGED vars
    BY <1>1 DEF vars, Inv, TypeOK, SessionInv, KeptInv, AloneInv, Off
  <1>2. CASE ToggleProcList
    <2>1. [s \in Settings |-> [s EXCEPT !.displayProcList = ~@]] \in [Settings -> Settings]
      BY DEF Settings
    <2>2. session' = "on"
      BY <1>2 DEF ToggleProcList, SaveChange
    <2> QED
      BY <1>2, <2>1, <2>2, ChangeInv DEF ToggleProcList, Next
  <1>3. CASE \E size \in Sizes : CloseWindow(size)
    <2>1. PICK size \in Sizes : CloseWindow(size)
      BY <1>3
    <2>2. [s \in Settings |-> [s EXCEPT !.window = size]] \in [Settings -> Settings]
      BY DEF Settings
    <2>3. session' = "closing"
      BY <2>1 DEF CloseWindow
    <2> QED
      BY <1>3, <2>1, <2>2, <2>3, ChangeInv DEF CloseWindow, Next
  <1> QED
    BY <1>1, <1>2, <1>3, CheckInv, CallInv, EndInv DEF Next

\* The inductive invariant holds in every reachable state; the theorems below
\* are its consequences.
THEOREM Invariance == Spec => []Inv
  BY InitInv, NextInv, PTL DEF Spec

\* Every Get returns settings, never what an unreadable file or an empty cache
\* stands for.
THEOREM TypeCorrect == Spec => []TypeOK
  BY Invariance, PTL DEF Inv

\* The user's settings are lost only to a Get that finds the file emptied by an
\* unfinished Save.
THEOREM SettingsKept == Spec => []KeptUnlessTorn
  <1>1. Inv => KeptUnlessTorn
    BY DEF Inv, TypeOK, SessionInv, KeptInv, KeptUnlessTorn, Saving, Current, Threads
  <1> QED
    BY <1>1, Invariance, PTL

\* A Save that begins when the cache is filled and no Get is under way leaves
\* file and cache equal.
THEOREM LaterSaves == Spec => []LaterSavesAreSafe
  <1>1. Inv => LaterSavesAreSafe
    BY DEF Inv, AloneInv, LaterSavesAreSafe
  <1> QED
    BY <1>1, Invariance, PTL

\* No two threads write the file at once before one has found it emptied.
THEOREM OneWriter == Spec => []WritersExclude
  <1>1. Inv => WritersExclude
    BY DEF Inv, KeptInv, WritersExclude, Threads
  <1> QED
    BY <1>1, Invariance, PTL
================================================================================
