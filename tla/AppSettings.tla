------------------------------ MODULE AppSettings ------------------------------
(***************************************************************************)
(* The settings of the program (src/storage/AppSettings.cpp): a JSON file, *)
(* a static cache of it, and the two functions Get and Save, which every   *)
(* thread calls without a lock.  Get does not fill the cache: only Save    *)
(* does, so the file is read again until the first Save of a session.  A   *)
(* file that cannot be read is replaced by the defaults.                   *)
(*                                                                         *)
(* The callers are MainWindow (src/ui/MainWindow.cpp) on the main thread,  *)
(* which reads the settings when it starts, changes one of them in its     *)
(* menu, and saves the size of the window when it is closed, and the       *)
(* workers of the views, which read them for every refresh.  Of the five   *)
(* settings two are kept: one of the menu and the size.                    *)
(***************************************************************************)
EXTENDS Naturals

CONSTANTS Main,     \* the main thread
          Workers,  \* the workers of the views
          Sizes,    \* the sizes a window can have; 0 stands for no size saved
          Absent, Emptied,  \* files that cannot be read
          NoSettings        \* an empty cache

Settings == [displayProcList : BOOLEAN, window : Sizes \cup {0}]
Defaults == [displayProcList |-> FALSE, window |-> 0]
Threads == Workers \cup {Main}

ASSUME ThreadsAssumption == Main \notin Workers
ASSUME SizesAssumption == 0 \notin Sizes
ASSUME NoSettingsAssumption == /\ Absent # Emptied
                               /\ {Absent, Emptied, NoSettings} \cap Settings = {}

VARIABLES
  session,  \* the life of the process
  file,     \* settings.json: its settings, or why it cannot be read
  cache,    \* m_SettingsCache
  pc,       \* where each thread is in Get and Save
  hand,     \* the settings each thread returns or saves
  wanted,   \* the settings as the user left them (history)
  torn,     \* a Get has read the file when a Save had emptied it (history)
  alone     \* no worker was in Get when the last change was saved, and the
            \* cache was filled (history)

vars == <<session, file, cache, pc, hand, wanted, torn, alone>>

Sessions == {"off", "starting", "on", "closing", "closed", "killed"}
PCs == {"idle", "read", "open", "write", "cache", "got"}

TypeOK == /\ session \in Sessions
          /\ file \in Settings \cup {Absent, Emptied}
          /\ cache \in Settings \cup {NoSettings}
          /\ pc \in [Threads -> PCs]
          /\ hand \in [Threads -> Settings]
          /\ wanted \in Settings
          /\ torn \in BOOLEAN
          /\ alone \in BOOLEAN

\* A first start finds no file, or one that an older version has written and that
\* lacks a key, or the settings of an earlier session.
Init == /\ session = "off"
        /\ file \in Settings \cup {Absent}
        /\ cache = NoSettings
        /\ pc = [t \in Threads |-> "idle"]
        /\ hand = [t \in Threads |-> Defaults]
        /\ wanted = IF file = Absent THEN Defaults ELSE file
        /\ torn = FALSE
        /\ alone = FALSE

-----------------------------------------------------------------------------
(* Get and Save. *)

Off == session \in {"off", "killed"}

Goto(t, from, to) == /\ pc[t] = from
                     /\ pc' = [pc EXCEPT ![t] = to]

\* What a read of m_SettingsCache can return: while another thread assigns to it,
\* each of its fields is the old or the new one.
CacheReads(t) ==
  LET writing == {u \in Threads \ {t} : pc[u] = "cache"}
      values == ({cache} \cap Settings) \cup {hand[u] : u \in writing}
      mixed == {[displayProcList |-> a.displayProcList, window |-> b.window] :
                  a \in values, b \in values}
  IN  (IF cache = NoSettings THEN {NoSettings} ELSE {}) \cup mixed

\* Mutant: the cache is not looked at.
CheckCache_Ignored(t) ==
  /\ Goto(t, "idle", "read")
  /\ UNCHANGED hand

\* Get: if(m_SettingsCache.has_value()).
CheckCache(t) ==
  \E value \in CacheReads(t) :
    \/ /\ value = NoSettings
       /\ Goto(t, "idle", "read")
       /\ UNCHANGED hand
    \/ /\ value # NoSettings
       /\ Goto(t, "idle", "got")
       /\ hand' = [hand EXCEPT ![t] = value]

\* Get: the file is read; when that fails, the defaults are saved.
ReadFile(t) ==
  /\ \/ /\ file \in Settings
        /\ Goto(t, "read", "got")
        /\ hand' = [hand EXCEPT ![t] = file]
     \/ /\ file \notin Settings
        /\ Goto(t, "read", "open")
        /\ hand' = [hand EXCEPT ![t] = Defaults]
  /\ torn' = (torn \/ file = Emptied)
  /\ UNCHANGED <<session, file, cache, wanted, alone>>

\* Save(def): std::ofstream outFile(m_ConfigPath) empties the file.
OpenFile(t) ==
  /\ Goto(t, "open", "write")
  /\ file' = Emptied
  /\ UNCHANGED <<session, cache, hand, wanted, torn, alone>>

\* Save: the file is short enough to be written at once, when std::endl flushes it.
WriteFile(t) ==
  /\ Goto(t, "write", "cache")
  /\ file' = hand[t]
  /\ UNCHANGED <<session, cache, hand, wanted, torn, alone>>

\* Save: m_SettingsCache = settings.
SetCache(t) ==
  /\ Goto(t, "cache", "got")
  /\ cache' = hand[t]
  /\ UNCHANGED <<session, file, hand, wanted, torn, alone>>

\* The caller has its settings, or has saved them.
Return(t) ==
  /\ Goto(t, "got", "idle")
  /\ session' = CASE t = Main /\ session = "starting" -> "on"
                  [] t = Main /\ session = "closing" -> "closed"
                  [] OTHER -> session
  /\ UNCHANGED <<file, cache, hand, wanted, torn, alone>>

Call(t) == \/ ReadFile(t)
           \/ OpenFile(t)
           \/ WriteFile(t)
           \/ SetCache(t)
           \/ Return(t)

-----------------------------------------------------------------------------
(* The callers. *)

\* The constructor of MainWindow calls Get before there is any other thread.
StartUp ==
  /\ Off
  /\ session' = "starting"
  /\ CheckCache(Main)
  /\ alone' = FALSE
  /\ UNCHANGED <<file, cache, wanted, torn>>

\* A refresh calls Get: a worker, until it is joined or the process exits, or the
\* main thread in UpdateCategoryProcess.
Refresh(t) ==
  /\ \/ session = "on"
     \/ session \in {"closing", "closed"} /\ t # Main
  /\ CheckCache(t)
  /\ UNCHANGED <<session, file, cache, wanted, torn, alone>>

\* What Get has returned to the main thread is changed, and Save opens the file.
SaveChange(change) ==
  /\ session = "on"
  /\ Goto(Main, "got", "write")
  /\ hand' = [hand EXCEPT ![Main] = change[@]]
  /\ wanted' = change[wanted]
  /\ file' = Emptied
  /\ alone' = (cache # NoSettings /\ \A w \in Workers : pc[w] = "idle")
  /\ UNCHANGED <<cache, torn>>

\* "Display as list"; the other entries of the menu do the same with theirs.
ToggleProcList ==
  /\ SaveChange([s \in Settings |-> [s EXCEPT !.displayProcList = ~@]])
  /\ UNCHANGED session

\* Mutant: the settings to save are not those Get returns.
CloseWindow_NoGet(size) ==
  /\ session = "on"
  /\ Goto(Main, "got", "write")
  /\ hand' = [hand EXCEPT ![Main] = [Defaults EXCEPT !.window = size]]
  /\ wanted' = [wanted EXCEPT !.window = size]
  /\ file' = Emptied
  /\ alone' = (cache # NoSettings /\ \A w \in Workers : pc[w] = "idle")
  /\ session' = "closing"
  /\ UNCHANGED <<cache, torn>>

\* The handler of signal_delete_event: "Save window size on exit".
CloseWindow(size) ==
  /\ SaveChange([s \in Settings |-> [s EXCEPT !.window = size]])
  /\ session' = "closing"

End == /\ pc' = [t \in Threads |-> "idle"]
       /\ hand' = [t \in Threads |-> Defaults]
       /\ cache' = NoSettings
       /\ UNCHANGED <<file, wanted, torn, alone>>

\* main returns: no worker is left that was joined; one that was detached is
\* ended wherever it is.
Exit == /\ session = "closed"
        /\ session' = "off"
        /\ End

\* The process is killed.
Kill == /\ ~Off
        /\ session' = "killed"
        /\ End

Next == \/ StartUp
        \/ \E t \in Threads : Refresh(t) \/ Call(t)
        \/ ToggleProcList
        \/ \E size \in Sizes : CloseWindow(size)
        \/ Exit
        \/ Kill

Spec == Init /\ [][Next]_vars

-----------------------------------------------------------------------------
(* Properties. *)

\* The settings the next Get returns.
Current == IF cache # NoSettings THEN cache
           ELSE IF file \in Settings THEN file ELSE Defaults

Saving == \E t \in Threads : pc[t] \in {"open", "write", "cache"}

\* The user's settings are lost in one way only, within a session and from one to
\* the next, however threads interleave and whenever the process is killed: a Get
\* that finds the file emptied by an unfinished Save.
KeptUnlessTorn == ~torn /\ ~Saving /\ file # Emptied => Current = wanted

\* Only the first Save of a session can go wrong.  A later one, when no Get from
\* before is under way, meets no other writer: every Get then takes the cache,
\* so the file and the cache end up equal and as saved.
LaterSavesAreSafe ==
  alone /\ ~Off =>
    /\ \A w \in Workers : pc[w] \in {"idle", "got"}
    /\ pc[Main] \in {"idle", "got"} => file = cache

\* No two threads write the file at once, unless one of them writes the defaults
\* because it found the file emptied.
WritersExclude ==
  ~torn => \A t, u \in Threads :
             pc[t] \in {"open", "write"} /\ pc[u] \in {"open", "write"} => t = u
=============================================================================
