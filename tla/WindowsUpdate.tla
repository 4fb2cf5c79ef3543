--------------------------- MODULE WindowsUpdate ---------------------------
(***************************************************************************)
(* The processes of the agent on Windows and the update of their one       *)
(* executable (_swap_windows and its neighbours in                         *)
(* src/common/os_replacer.py, src/common/daemon_ota.py, and main,          *)
(* watchdog_process and the daemon's loop in src/sentinel_agent.py).       *)
(*                                                                         *)
(* Daemon, watchdog and GUI are processes of the same image. A running     *)
(* image may be renamed but neither removed nor overwritten, so an update  *)
(* renames the executable to a backup and copies the new one to its name.  *)
(* Daemon and GUI both update, through the same staging file and without a *)
(* lock; whoever starts next removes the backups that no process runs      *)
(* from, and a watchdog that sees the daemon gone waits for the            *)
(* replacement.                                                            *)
(*                                                                         *)
(* What a daemon does between two heartbeats is in DaemonLoop.             *)
(***************************************************************************)
EXTENDS Integers, FiniteSets

CONSTANTS
    Daemon,         \* daemon processes that may exist at a time
    Watchdog,       \* watchdog processes that may exist at a time
    Stamp,          \* names of timestamped backups
    AtLogon,        \* the logon task has just started a daemon, at first
    MaxVersion,     \* bound on releases
    MaxEvents       \* bound on downloads and faults: kills, failing calls, ...

GUI == "gui"

ASSUME ProcessAssumption ==
    /\ Daemon # {} /\ Watchdog # {}
    /\ Daemon \intersect Watchdog = {} /\ GUI \notin Daemon \union Watchdog
    /\ Stamp \intersect {"exe", "bak", "new"} = {}
ASSUME StartAssumption == AtLogon \in BOOLEAN
ASSUME BoundAssumption ==
    MaxVersion \in Nat \ {0} /\ MaxEvents \in Nat

VARIABLES
    file,           \* contents of each path
    pc,             \* where each process is
    at,             \* path of the image each process runs from
    parent,         \* the process a new daemon waits for (--restart-wait-pid)
    signal,         \* shutdown.signal
    task,           \* the logon task or Run key is registered
    latest,         \* the version published last
    broken,         \* published versions that die before they reach Python
    upd,            \* where the update thread of each updater is
    got,            \* the version it has downloaded and verified
    aside,          \* the backup it renamed the executable to
    restart,        \* ota_shutdown of each daemon
    hadBak,         \* has_bak of the waiting watchdog
    events,         \* downloads and faults so far
    harm            \* history: what happened that may leave no daemon

updVars == <<upd, got, aside>>
worldVars == <<latest, broken, events>>
vars == <<file, pc, at, parent, signal, task, worldVars, updVars, restart, hadBak,
          harm>>

-----------------------------------------------------------------------------
(* Files and images                                                        *)

Absent == 0
Torn == -1
Version == 1 .. MaxVersion
Backup == {"bak"} \union Stamp
Path == {"exe", "new"} \union Backup
Updater == Daemon \union {GUI}
Proc == Updater \union Watchdog

Up(p) == pc[p] # "off"

\* Mutant of InUse: only daemons and watchdogs are thought of.
InUseByAgent(f) == \E p \in Daemon \union Watchdog : Up(p) /\ at[p] = f

\* The image of a running process can be neither removed nor overwritten.
InUse(f) == \E p \in Proc : Up(p) /\ at[p] = f
Image(p) == file[at[p]]
Works(v) == v \in Version \ broken

\* The daemon mutex and the watchdog mutex are held.
Alive == \E d \in Daemon : pc[d] = "run"
Guarded == \E w \in Watchdog : pc[w] \in {"watch", "await"}

\* os.rename: the target must not exist; a running image moves along.
Renamed(from, to) ==
    /\ file[from] # Absent /\ file[to] = Absent
    /\ file' = [file EXCEPT ![to] = file[from], ![from] = Absent]
    /\ at' = [p \in Proc |-> IF Up(p) /\ at[p] = from THEN to ELSE at[p]]

\* startup_bak_cleanup: every backup that is not the image of a process
Cleaned == [f \in Path |-> IF f \in Backup /\ ~InUse(f) THEN Absent ELSE file[f]]

\* CreateProcess refuses a missing image and may refuse a torn one.
Accepts == file["exe"] # Absent /\ ~\E u \in Updater : upd[u] = "placing"
Refuses == ~Accepts \/ file["exe"] = Torn

FreeDaemon == {d \in Daemon : ~Up(d)}
FreeWatchdog == {w \in Watchdog : ~Up(w)}

\* A slot for a new process, none if all are taken or the image is refused.
OneOf(S) == IF S = {} \/ ~Accepts THEN {} ELSE {CHOOSE p \in S : TRUE}

\* The end of its process may cut an update short when no executable, or only a
\* torn one, has its name.
Cut(stopped) == IF \E u \in stopped \intersect Updater : upd[u] \in {"aside", "placing"}
                THEN {"cut"} ELSE {}

\* The processes in stopped end, with their threads; those in started are
\* created from the executable, daemons among them waiting for process par.
Processes(stopped, started, par) ==
    /\ pc' = [p \in Proc |-> IF p \in started THEN "boot"
                             ELSE IF p \in stopped THEN "off" ELSE pc[p]]
    /\ at' = [p \in Proc |-> IF p \in started \union stopped THEN "exe" ELSE at[p]]
    /\ parent' = [d \in Daemon |-> IF d \in started THEN par
                                   ELSE IF d \in stopped \/ parent[d] \in stopped
                                        THEN "none" ELSE parent[d]]
    /\ upd' = [u \in Updater |-> IF u \in stopped THEN "idle" ELSE upd[u]]
    /\ got' = [u \in Updater |-> IF u \in stopped THEN Absent ELSE got[u]]
    /\ aside' = [u \in Updater |-> IF u \in stopped THEN "bak" ELSE aside[u]]
    /\ restart' = [d \in Daemon |-> d \notin stopped /\ restart[d]]
    /\ hadBak' = (hadBak /\ \E w \in Watchdog \ stopped : pc[w] = "await")

procVars == <<pc, at, parent, updVars, restart, hadBak>>

\* Process p goes on.
Goes(p, s) == /\ pc' = [pc EXCEPT ![p] = s]
              /\ UNCHANGED <<at, parent, updVars, restart, hadBak>>

Event == events < MaxEvents /\ events' = events + 1 /\ UNCHANGED <<latest, broken>>

\* One daemon runs the first version, guarded by a watchdog, or has just been
\* started.
Init ==
    /\ file = [f \in Path |-> IF f = "exe" THEN 1 ELSE Absent]
    /\ LET d == CHOOSE d \in Daemon : TRUE
           w == CHOOSE w \in Watchdog : TRUE
       IN  pc = [p \in Proc |-> IF p = d THEN (IF AtLogon THEN "boot" ELSE "run")
                                ELSE IF p = w /\ ~AtLogon THEN "watch" ELSE "off"]
    /\ at = [p \in Proc |-> "exe"]
    /\ parent = [d \in Daemon |-> "none"]
    /\ signal = "none" /\ task = TRUE
    /\ latest = 1 /\ broken = {} /\ events = 0
    /\ upd = [u \in Updater |-> "idle"]
    /\ got = [u \in Updater |-> Absent]
    /\ aside = [u \in Updater |-> "bak"]
    /\ restart = [d \in Daemon |-> FALSE]
    /\ hadBak = FALSE
    /\ harm = {}

-----------------------------------------------------------------------------
(* The world                                                               *)

Release ==
    /\ latest < MaxVersion
    /\ latest' = latest + 1
    /\ broken' \in {broken, broken \union {latest'}}
    /\ UNCHANGED <<file, procVars, signal, task, events, harm>>

\* The administrator disables the agent.
RequestStop ==
    /\ Event
    /\ signal' = "stop"
    /\ harm' = harm \union {"stop"}
    /\ UNCHANGED <<file, procVars, task>>

Kill(p) ==
    /\ Event /\ Up(p)
    /\ Processes({p}, {}, "none")
    /\ harm' = harm \union {"killed"} \union Cut({p})
    /\ UNCHANGED <<file, signal, task>>

\* After a reboot, or the next logon, the task starts the daemon.
Reboot ==
    /\ Event
    /\ LET one == CHOOSE d \in Daemon : TRUE
       IN  Processes(Proc, IF task /\ Accepts THEN {one} ELSE {}, "none")
    /\ harm' = harm \union Cut(Proc) \union IF task THEN {} ELSE {"killed"}
    /\ UNCHANGED <<file, signal, task>>

-----------------------------------------------------------------------------
(* main(): what every process does first                                   *)

\* _wait_for_restart_parent gives up after 30 s.
ParentTimeout(d) ==
    /\ pc[d] = "boot" /\ parent[d] # "none"
    /\ parent' = [parent EXCEPT ![d] = "none"]
    /\ harm' = harm \union {"late"}
    /\ UNCHANGED <<file, pc, at, updVars, restart, hadBak, signal, task, worldVars>>

\* The image never reaches Python.
BootDies(p) ==
    /\ pc[p] = "boot" /\ ~Works(Image(p))
    /\ Processes({p}, {}, "none")
    /\ harm' = harm \union {"broken"}
    /\ UNCHANGED <<file, signal, task, worldVars>>

\* Backups are removed and a shutdown signal is consumed, whoever it was for.
MainStarts ==
    /\ file' = Cleaned
    /\ signal' = "none"
    /\ UNCHANGED <<task, worldVars, harm>>

\* Mutant of DaemonBoot: the replacement does not wait for its parent.
DaemonBootAtOnce(d) ==
    /\ pc[d] = "boot" /\ Works(Image(d))
    /\ MainStarts /\ pc' = [pc EXCEPT ![d] = "claim"]
    /\ parent' = [parent EXCEPT ![d] = "none"]
    /\ UNCHANGED <<at, updVars, restart, hadBak>>

DaemonBoot(d) ==
    /\ pc[d] = "boot" /\ parent[d] = "none" /\ Works(Image(d))
    /\ MainStarts /\ Goes(d, "claim")

WatchdogBoot(w) ==
    /\ pc[w] = "boot" /\ Works(Image(w))
    /\ MainStarts /\ Goes(w, "claim")

\* Startup persistence is registered again, and a daemon started if none runs
\* (_auto_bootstrap_background_agent).
Bootstrap == IF Alive THEN {} ELSE OneOf(FreeDaemon)

GuiBoot ==
    /\ pc[GUI] = "boot" /\ Works(Image(GUI))
    /\ file' = Cleaned /\ signal' = "none" /\ task' = TRUE
    /\ pc' = [p \in Proc |-> IF p = GUI THEN "open"
                             ELSE IF p \in Bootstrap THEN "boot" ELSE pc[p]]
    /\ UNCHANGED <<at, parent, updVars, restart, hadBak, worldVars, harm>>

\* The retries of startup_bak_cleanup, within two minutes of a start.
RetryCleanup(p) ==
    /\ pc[p] \notin {"off", "boot"}
    /\ Cleaned # file
    /\ file' = Cleaned
    /\ UNCHANGED <<procVars, signal, task, worldVars, harm>>

-----------------------------------------------------------------------------
(* The daemon                                                              *)

\* enforce_single_daemon_instance, then the watchdog and the logon task.
Claim(d) ==
    /\ pc[d] = "claim" /\ ~Alive /\ Accepts
    /\ pc' = [p \in Proc |-> IF p = d THEN "run"
                             ELSE IF p \in OneOf(FreeWatchdog) THEN "boot" ELSE pc[p]]
    /\ task' = TRUE
    /\ UNCHANGED <<at, parent, updVars, restart, hadBak, file, signal, worldVars, harm>>

ClaimFails(d) ==
    /\ pc[d] = "claim" /\ Alive
    /\ Processes({d}, {}, "none")
    /\ UNCHANGED <<file, signal, task, worldVars, harm>>

\* Start-up raises, for want of an executable to start the watchdog from or for
\* another reason. main() calls main_agent again, which finds the mutex the
\* first call never released and takes it for another daemon's.
StartupRaises(d) ==
    /\ pc[d] = "claim" /\ ~Alive
    /\ \/ Event
       \/ ~Accepts /\ UNCHANGED worldVars
    /\ Processes({d}, {}, "none")
    /\ harm' = harm \union {"raised"}
    /\ UNCHANGED <<file, signal, task>>

\* The update has been applied: the main loop tells the watchdog and leaves.
RestartForUpdate(d) ==
    /\ pc[d] = "run" /\ restart[d]
    /\ signal' = "ota"
    /\ Processes({d}, {}, "none")
    /\ harm' = harm \union Cut({d})
    /\ UNCHANGED <<file, task, worldVars>>

\* Any signal ends the daemon; at the top of the loop, not in its sleep, the
\* daemon also removes its startup persistence.
ObeySignal(d) ==
    /\ pc[d] = "run" /\ ~restart[d] /\ signal # "none"
    /\ signal' = "none"
    /\ task' \in {task, FALSE}
    /\ Processes({d}, {}, "none")
    /\ harm' = harm \union Cut({d})
    /\ UNCHANGED <<file, worldVars>>

\* The watchdogs that terminating the stale ones finds: all of them.
Stale == {w \in Watchdog : Up(w)}

\* Mutant of Heartbeat: watchdogs are left alone.
HeartbeatKeeps(d) ==
    /\ pc[d] = "run" /\ Cleaned # file
    /\ file' = Cleaned
    /\ UNCHANGED <<procVars, signal, task, worldVars, harm>>

\* After a heartbeat that succeeded: watchdogs are terminated if the plain
\* backup exists, one is started for those that were, backups are removed.
Heartbeat(d) ==
    /\ pc[d] = "run" /\ \E f \in Backup : file[f] # Absent
    /\ LET old == IF file["bak"] = Absent THEN {} ELSE Stale
           new == IF old = {} THEN {} ELSE OneOf(old)
       IN  /\ Processes(old, new, "none")
           /\ file' = [f \in Path |->
                 IF /\ f \in Backup
                    /\ ~\E p \in Proc \ old : Up(p) /\ at[p] = f
                    /\ old = {} \/ Accepts
                 THEN Absent ELSE file[f]]
    /\ UNCHANGED <<signal, task, worldVars, harm>>

-----------------------------------------------------------------------------
(* The update thread of a daemon or the GUI                                *)

\* What the steps of the swap leave alone.
SwapOnly == UNCHANGED <<parent, restart, hadBak, signal, task>>
Thread(u, s) == upd' = [upd EXCEPT ![u] = s]

\* The thread is through, and forgets.
Through(u, s) == /\ Thread(u, s)
                 /\ got' = [got EXCEPT ![u] = Absent]
                 /\ aside' = [aside EXCEPT ![u] = "bak"]

\* Another updater has the staging file open.
Opened(u) == \E v \in Updater \ {u} : upd[v] \in {"staging", "placing"}
Shares(u) == IF \E v \in Updater \ {u} : upd[v] \notin {"idle", "got"}
             THEN {"overlap"} ELSE {}
DropStaged(u) == IF Opened(u) THEN file["new"] ELSE Absent

\* Mutant of Download: the version is not compared.
DownloadAny(u) ==
    /\ pc[u] \in {"run", "open"} /\ upd[u] = "idle"
    /\ Event
    /\ Thread(u, "got") /\ got' = [got EXCEPT ![u] = latest]
    /\ UNCHANGED <<file, pc, at, aside, harm>> /\ SwapOnly

\* check_for_update: newer than the updater's own image. The download is from
\* the latest release and its hash must agree.
Download(u) ==
    /\ pc[u] \in {"run", "open"} /\ upd[u] = "idle" /\ latest > Image(u)
    /\ Event
    /\ Thread(u, "got") /\ got' = [got EXCEPT ![u] = latest]
    /\ UNCHANGED <<file, pc, at, aside, harm>> /\ SwapOnly

\* The new binary is copied to the staging file.
StageBegin(u) ==
    /\ upd[u] = "got"
    /\ \/ /\ Thread(u, "staging") /\ file' = [file EXCEPT !["new"] = Torn]
          /\ UNCHANGED <<got, aside>>
       \/ Opened(u) /\ Through(u, "idle") /\ UNCHANGED file
    /\ harm' = harm \union Shares(u)
    /\ UNCHANGED <<pc, at, worldVars>> /\ SwapOnly

StageEnd(u) ==
    /\ upd[u] = "staging"
    /\ Thread(u, "staged") /\ file' = [file EXCEPT !["new"] = got[u]]
    /\ UNCHANGED <<pc, at, got, aside, worldVars, harm>> /\ SwapOnly

\* Mutant of Target: any name that is free.
TargetAnywhere == {f \in Path : file[f] = Absent}

\* A backup left over is removed or, in use, avoided.
Target == IF InUse("bak") /\ file["bak"] # Absent
          THEN {s \in Stamp : file[s] = Absent} ELSE {"bak"}

\* The executable is renamed to the backup.
SetAside(u) ==
    /\ upd[u] = "staged"
    /\ file["exe"] # Absent /\ ~\E v \in Updater : upd[v] = "placing"
    /\ \E t \in Target :
         /\ file' = [file EXCEPT ![t] = file["exe"], !["exe"] = Absent]
         /\ at' = [p \in Proc |-> IF Up(p) /\ at[p] = "exe" THEN t ELSE at[p]]
         /\ aside' = [aside EXCEPT ![u] = t]
    /\ Thread(u, "aside")
    /\ UNCHANGED <<pc, got, worldVars, harm>> /\ SwapOnly

SetAsideFails(u) ==
    /\ upd[u] = "staged"
    /\ file["exe"] = Absent \/ Target = {} \/ \E v \in Updater : upd[v] = "placing"
    /\ Through(u, "idle")
    /\ file' = [file EXCEPT !["new"] = DropStaged(u)]
    /\ UNCHANGED <<pc, at, worldVars, harm>> /\ SwapOnly

\* The staging file is copied to the executable's name.
Placeable(u) == file["new"] # Absent /\ ~InUse("exe")

PlaceBegin(u) ==
    /\ upd[u] = "aside" /\ Placeable(u)
    /\ Thread(u, "placing") /\ file' = [file EXCEPT !["exe"] = Torn]
    /\ UNCHANGED <<pc, at, got, aside, worldVars, harm>> /\ SwapOnly

\* The copy fails: the backup is renamed back, which Windows refuses while a
\* file of that name exists.
PlaceFails(u) ==
    /\ \/ upd[u] = "aside" /\ ~Placeable(u) /\ UNCHANGED <<worldVars, harm>>
       \/ /\ upd[u] \in {"aside", "placing"} /\ Event
          /\ harm' = harm \union {"failed"}
    /\ Through(u, "idle")
    /\ \/ Renamed(aside[u], "exe")
       \/ (file["exe"] # Absent \/ file[aside[u]] = Absent) /\ UNCHANGED <<file, at>>
    /\ UNCHANGED pc /\ SwapOnly

\* The copy is complete. The staging file is removed; should another updater
\* have it open, that counts as a failed installation.
PlaceEnd(u) ==
    /\ upd[u] = "placing"
    /\ file' = [file EXCEPT !["exe"] = file["new"], !["new"] = DropStaged(u)]
    /\ Through(u, IF Opened(u) \/ u = GUI THEN "idle" ELSE "placed")
    /\ pc' = IF u = GUI /\ ~Opened(u) THEN [pc EXCEPT ![u] = "ask"] ELSE pc
    /\ UNCHANGED <<at, worldVars, harm>> /\ SwapOnly

\* The daemon starts its replacement, which waits for it to end; if that fails
\* the task is triggered. Either way the daemon ends. The slot of a replacement
\* that is on its way out is waited for.
Relaunch(d) ==
    /\ upd[d] = "placed" /\ FreeDaemon # {}
    /\ \E new \in {OneOf(FreeDaemon), {}} :
         /\ \/ Accepts /\ new # {} /\ UNCHANGED <<worldVars, harm>>
               /\ parent' = [e \in Daemon |-> IF e \in new THEN d ELSE parent[e]]
            \/ Refuses /\ new = {} /\ UNCHANGED <<worldVars, harm, parent>>
            \/ Event /\ harm' = harm \union {"failed"}
               /\ (new # {} => task) /\ UNCHANGED parent
         /\ pc' = [p \in Proc |-> IF p \in new THEN "boot" ELSE pc[p]]
    /\ Thread(d, "idle")
    /\ restart' = [restart EXCEPT ![d] = TRUE]
    /\ UNCHANGED <<at, got, aside, hadBak, file, signal, task>>

-----------------------------------------------------------------------------
(* The GUI                                                                 *)

GuiOpen ==
    /\ ~Up(GUI) /\ Accepts
    /\ Processes({}, {GUI}, "none")
    /\ UNCHANGED <<file, signal, task, worldVars, harm>>

GuiClose ==
    /\ pc[GUI] = "open"
    /\ Processes({GUI}, Bootstrap, "none")
    /\ task' = TRUE
    /\ harm' = harm \union Cut({GUI})
    /\ UNCHANGED <<file, signal, worldVars>>

\* The user declines or confirms the restart; for the latter daemon and
\* watchdog are asked to end.
GuiDecline ==
    /\ pc[GUI] = "ask" /\ Goes(GUI, "open")
    /\ UNCHANGED <<file, signal, task, worldVars, harm>>

GuiConfirm ==
    /\ pc[GUI] = "ask" /\ Goes(GUI, "signalled")
    /\ signal' = "ota"
    /\ UNCHANGED <<file, task, worldVars, harm>>

\* After at most 10 s the GUI starts its replacement and ends, or takes the
\* signal back.
GuiRelaunch ==
    /\ pc[GUI] = "signalled"
    /\ \/ /\ Accepts /\ Processes({}, {GUI}, "none")
          /\ UNCHANGED <<signal, worldVars, harm>>
       \/ /\ Refuses /\ Goes(GUI, "open") /\ signal' = "none"
          /\ UNCHANGED <<worldVars, harm>>
       \/ /\ Event /\ Goes(GUI, "open") /\ signal' = "none"
          /\ harm' = harm \union {"failed"}
    /\ UNCHANGED <<file, task>>

-----------------------------------------------------------------------------
(* The watchdog                                                            *)

\* It first sleeps for as long as a waiting watchdog takes to see the daemon.
WatchdogClaim(w) ==
    /\ pc[w] = "claim"
    /\ ~(Alive /\ \E v \in Watchdog : pc[v] = "await")
    /\ IF Guarded THEN Processes({w}, {}, "none") ELSE Goes(w, "watch")
    /\ UNCHANGED <<file, signal, task, worldVars, harm>>

\* The daemon is gone: because of an update, by request, or killed.
Look(w) ==
    /\ pc[w] = "watch" /\ ~Alive
    /\ signal' = "none"
    /\ IF signal # "stop" /\ (signal = "ota" \/ file["bak"] # Absent)
       THEN /\ pc' = [pc EXCEPT ![w] = "await"]
            /\ hadBak' = (file["bak"] # Absent)
            /\ UNCHANGED <<at, parent, updVars, restart>>
       ELSE Processes({w}, {}, "none")
    /\ UNCHANGED <<file, task, worldVars, harm>>

\* The replacement runs, or a new signal has come.
Awaited(w) ==
    /\ pc[w] = "await" /\ (Alive \/ signal # "none")
    /\ Processes({w}, {}, "none")
    /\ UNCHANGED <<file, signal, task, worldVars, harm>>

\* Five minutes, longer than a start, without a daemon: the executable is
\* started; refused, it is overwritten with the backup and started again.
GiveUp(w) ==
    /\ pc[w] = "await" /\ ~Alive /\ signal = "none"
    /\ ~\E d \in Daemon : pc[d] \in {"boot", "claim"}
    /\ \/ /\ Accepts /\ UNCHANGED <<file, worldVars, harm>>
          /\ Processes({w}, OneOf(FreeDaemon), "none")
       \/ /\ \/ Refuses /\ UNCHANGED <<worldVars, harm>>
             \/ Event /\ harm' = harm \union {"failed"}
          /\ IF /\ hadBak /\ file["bak"] # Absent /\ ~InUse("exe")
                /\ ~\E u \in Updater : upd[u] = "placing"
             THEN /\ file' = [file EXCEPT !["exe"] = file["bak"]]
                  /\ \E d \in FreeDaemon : Processes({w}, {d}, "none")
             ELSE /\ UNCHANGED file /\ Processes({w}, {}, "none")
    /\ UNCHANGED <<signal, task>>

-----------------------------------------------------------------------------
UpdateThread(u) == \/ StageBegin(u) \/ StageEnd(u) \/ SetAside(u) \/ SetAsideFails(u)
                   \/ PlaceBegin(u) \/ PlaceFails(u) \/ PlaceEnd(u)
DaemonStep(d) == \/ BootDies(d) \/ DaemonBoot(d) \/ Claim(d) \/ ClaimFails(d)
                 \/ StartupRaises(d) \/ RestartForUpdate(d) \/ ObeySignal(d)
WatchdogStep(w) == \/ BootDies(w) \/ WatchdogBoot(w) \/ WatchdogClaim(w)
                   \/ Look(w) \/ Awaited(w) \/ GiveUp(w)
GuiStep == BootDies(GUI) \/ GuiBoot \/ GuiRelaunch

Next ==
    \/ Release \/ RequestStop \/ Reboot \/ \E p \in Proc : Kill(p) \/ RetryCleanup(p)
    \/ \E d \in Daemon : DaemonStep(d) \/ ParentTimeout(d) \/ Heartbeat(d) \/ Relaunch(d)
    \/ \E u \in Updater : Download(u) \/ UpdateThread(u)
    \/ \E w \in Watchdog : WatchdogStep(w)
    \/ GuiStep \/ GuiOpen \/ GuiClose \/ GuiDecline \/ GuiConfirm

\* Processes and their threads run; a wait ends at its limit. Nothing is
\* assumed of user, releases and faults.
Fairness ==
    /\ \A d \in Daemon : /\ WF_vars(DaemonStep(d)) /\ WF_vars(Relaunch(d))
                         /\ WF_vars(ParentTimeout(d))
    /\ \A u \in Updater : WF_vars(UpdateThread(u))
    /\ \A w \in Watchdog : WF_vars(WatchdogStep(w))
    /\ WF_vars(GuiStep)

Spec == Init /\ [][Next]_vars /\ Fairness

-----------------------------------------------------------------------------
(* Properties                                                              *)

TypeOK ==
    /\ file \in [Path -> {Absent, Torn} \union Version]
    /\ pc \in [Proc -> {"off", "boot", "claim", "run", "open", "ask", "signalled",
                        "watch", "await"}]
    /\ at \in [Proc -> Path]
    /\ parent \in [Daemon -> Daemon \union {"none"}]
    /\ signal \in {"none", "ota", "stop"} /\ task \in BOOLEAN
    /\ latest \in Version /\ broken \subseteq Version /\ events \in 0 .. MaxEvents
    /\ upd \in [Updater -> {"idle", "got", "staging", "staged", "aside", "placing",
                            "placed"}]
    /\ got \in [Updater -> {Absent} \union Version] /\ aside \in [Updater -> Backup]
    /\ restart \in [Daemon -> BOOLEAN] /\ hadBak \in BOOLEAN
    /\ harm \subseteq {"stop", "killed", "late", "broken", "raised", "cut", "overlap",
                       "failed"}

\* The disk always holds an image that was once verified, under some name.
ImageSurvives == \E f \in Path \ {"new"} : file[f] \in Version

\* The update keeps the promise of ReleaseChannel: whatever processes are started,
\* killed or raced, the executable changes only to a version that an updater below
\* it has found, or to a backup, or is missing or torn (check_for_update,
\* _swap_windows, watchdog_process).
Channel == INSTANCE ReleaseChannel WITH
    Damaged <- Torn, published <- latest,
    image <- IF file["exe"] \in Version THEN file["exe"] ELSE Torn,
    kept <- {file[f] : f \in Backup} \ {Absent},
    running <- {Image(p) : p \in {q \in Proc : Up(q)}} \intersect Version,
    approved <- ({got[u] : u \in Updater} \union {file["new"]}) \ {Absent, Torn},
    alone <- "overlap" \notin harm
ImplementsChannel == Channel!Spec

\* Alone, a completed update has installed a newer version than the updater's own.
NoDowngrade ==
    [][\A u \in Updater :
         upd[u] = "placing" /\ upd'[u] # "placing" /\ pc'[u] # "off"
         /\ file'["exe"] # Torn /\ "overlap" \notin harm
            => file'["exe"] > Image(u)]_vars

\* The update implements ReleaseChannel and, what that cannot say since it does not
\* know which process updates, an updater alone installs a version above its own
\* (check_for_update, _swap_windows).
PromiseKept == ImplementsChannel /\ NoDowngrade

\* Once the daemon is gone another one runs.
DaemonComesBack == ~Alive ~> (Alive \/ harm # {})

\* An update ends with a daemon newer than the one that applied it.
UpdateTakesOver ==
    \A v \in Version :
        (\E d \in Daemon : restart[d] /\ Image(d) = v)
            ~> \/ \E d \in Daemon : pc[d] = "run" /\ ~restart[d] /\ Image(d) > v
               \/ harm # {}

\* Where heartbeats go on to succeed no backup stays, but for the image of a
\* daemon or a GUI, and a timestamped one that a watchdog runs from: watchdogs
\* are terminated for the plain backup only (6721-6742).
BackupsGo ==
    (\A d \in Daemon : WF_vars(Heartbeat(d)))
        => \A f \in Backup :
             []<>(\/ file[f] = Absent \/ ~Alive
                  \/ \E p \in Updater : Up(p) /\ at[p] = f
                  \/ /\ f # "bak" /\ file["bak"] = Absent
                     /\ \E w \in Watchdog : Up(w) /\ at[w] = f)

=============================================================================
