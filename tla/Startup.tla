-------------------------------- MODULE Startup --------------------------------
(***************************************************************************)
(* Who starts the Linux and macOS daemon, who keeps a second one out, and  *)
(* what unlinking, disabling and uninstalling leave behind.                *)
(*                                                                         *)
(* A daemon is started by the machine's service ("system"), by the user's  *)
(* own service ("user"), by the window ("gui") or by hand ("hand").  systemd*)
(* and launchd are the supervisors: they owe a start to the services in    *)
(* "due".  Single instances rest on an flock of .zerowatch.lock, a file    *)
(* that a wipe of the state directory removes while it is held.            *)
(***************************************************************************)
EXTENDS Integers, FiniteSets

CONSTANT MaxIncidents   \* bound: kills, stops, failures, wipes, reboots, ...

ASSUME StartupAssumption == MaxIncidents \in Nat

VARIABLES machine,  \* platform, and who runs the window and the daemon by hand
          open,     \* macOS: the shared state directory is there for everyone
          unit,     \* service -> its unit or plist is on disk; is enabled or loaded
          due,      \* the services the supervisor still has to start
          dir,      \* state directory -> the lock file in it, and who may start
          proc,     \* daemon process -> its local state
          gui,      \* the window
          early,    \* the machine was booted less than the cooldown ago
          lost,     \* why the last request for a daemon may have come to nothing
          incidents

startupVars == <<machine, open, unit, due, dir, proc, gui, early, lost, incidents>>

Services == {"system", "user"}
Procs == Services \cup {"gui", "hand"}
Users == {"root", "user"}
Paths == Users \cup {"shared"}

linux == machine.platform = "linux"
Uid(p) == CASE p = "system" -> "root"
            [] p = "user" -> "user"
            [] OTHER -> machine[p]
Service(u) == IF u = "root" THEN "system" ELSE "user"

\* The state directory, and with it the lock, the token and the consent.
Path(u) == IF linux THEN u ELSE "shared"

Off == [pc |-> "off", ino |-> 0, lock |-> FALSE, gone |-> FALSE]
None == [file |-> FALSE, on |-> FALSE]
Alive == {p \in Procs : proc[p].pc # "off"}

StartupInit ==
    /\ machine \in [platform : {"linux", "macos"}, gui : Users, hand : Users]
    /\ ~linux => machine.gui = "user"
    /\ open = FALSE /\ due = {}
    /\ unit = [s \in Services |-> None]
    /\ dir = [d \in Paths |-> [ino |-> 0, last |-> 0, pid |-> "none", may |-> FALSE]]
    /\ proc = [p \in Procs |-> Off]
    /\ gui = [pc |-> "off", closing |-> FALSE, cool |-> FALSE]
    /\ early = FALSE /\ lost = {} /\ incidents = 0

Incident == /\ incidents < MaxIncidents /\ incidents' = incidents + 1
            /\ lost' = lost \cup {"incident"}
NoIncident == UNCHANGED <<incidents, lost>>
-----------------------------------------------------------------------------
(***************************************************************************)
(* The supervisors.                                                        *)
(***************************************************************************)
\* Restart=on-failure, and a unit whose file is gone is not restarted;
\* KeepAlive whatever the status, as long as the job is loaded.
Restarts(p, status) ==
    /\ p \in Services
    /\ IF linux THEN unit[p].file /\ status = "failure" ELSE unit[p].on

Owed(p, status) == IF Restarts(p, status) THEN due \cup {p} ELSE due

\* The lock goes with the process; what it wrote in the lock file stays.
Left(ps) == [d \in Paths |->
    IF \E p \in ps : Path(Uid(p)) = d /\ proc[p].lock /\ proc[p].ino = dir[d].ino
                     /\ dir[d].pid = "live"
    THEN [dir[d] EXCEPT !.pid = "stale"] ELSE dir[d]]

Ends(ps) == [p \in Procs |-> IF p \in ps THEN Off ELSE proc[p]]

Exit(p, status) ==
    /\ proc' = Ends({p})
    /\ dir' = Left({p})
    /\ due' = Owed(p, status)

Supervise(s) ==
    /\ s \in due /\ proc[s].pc = "off"
    /\ due' = due \ {s}
    /\ proc' = [proc EXCEPT ![s].pc = "start"]
    /\ UNCHANGED <<machine, open, unit, dir, gui, early>> /\ NoIncident

\* At boot systemd starts what is enabled, and launchd loads what it finds.
Reboot ==
    /\ Incident
    /\ proc' = Ends(Procs)
    /\ dir' = Left(Procs)
    /\ gui' = [gui EXCEPT !.pc = "off"]
    /\ early' = TRUE
    /\ unit' = IF linux THEN unit
             ELSE [s \in Services |-> [file |-> unit[s].file, on |-> unit[s].file]]
    /\ due' = {s \in Services : unit[s].file /\ unit'[s].on}
    /\ UNCHANGED <<machine, open>>

Later == /\ early /\ early' = FALSE
         /\ UNCHANGED <<machine, open, unit, due, dir, proc, gui>> /\ NoIncident
-----------------------------------------------------------------------------
(***************************************************************************)
(* Registering and unregistering, by a process of user u.                  *)
(***************************************************************************)
\* A machine-wide unit displaces the user's own.
Displaced(u) == u = "user" /\ unit["system"].file

\* launchctl bootout stops the job's process; systemctl disable does not.
BootedOut(s) == IF linux THEN {} ELSE {s}

\* The unit file is there, whether or not there was one before.
WriteUnit(s) == [unit EXCEPT ![s].file = TRUE]

\* systemd starts an enabled unit at the next boot; "enable" may fail.
RegisterUnit(u) ==
    LET s == Service(u) IN
    /\ \/ unit' = [WriteUnit(s) EXCEPT ![s].on = TRUE] /\ NoIncident
       \/ ~unit[s].on /\ unit' = WriteUnit(s) /\ Incident
    /\ UNCHANGED due

\* launchd starts what is bootstrapped.
RegisterPlist(u) ==
    LET s == Service(u) IN
    /\ unit' = [unit EXCEPT ![s] = [file |-> TRUE, on |-> TRUE]]
    /\ due' = IF unit[s].on THEN due ELSE due \cup {s}
    /\ NoIncident

BootstrapFails(u) ==
    LET s == Service(u) IN
    /\ ~unit[s].on
    /\ unit' = [unit EXCEPT ![s].file = TRUE]
    /\ UNCHANGED due
    /\ Incident

\* The plist of the user cannot be written: nothing is registered.
PlistNotWritten(u) ==
    /\ u = "user" /\ Incident
    /\ UNCHANGED <<unit, due>>

RegisterStartup(u) ==
    IF Displaced(u)
    THEN /\ unit' = [unit EXCEPT !["user"] = None]
         /\ due' = due \ {"user"}
         /\ NoIncident
    ELSE \/ linux /\ RegisterUnit(u)
         \/ ~linux /\ (RegisterPlist(u) \/ BootstrapFails(u) \/ PlistNotWritten(u))

\* The file is all that is looked at, and of user services only the own one.
PersistenceActive(u) == unit["system"].file \/ (u = "user" /\ unit["user"].file)

\* A user may remove neither the machine's unit nor its plist, and on macOS
\* returns there, before the own plist.
RemainingUnits(u) == [unit EXCEPT ![Service(u)] = None]
RemainingPlists(u) ==
    [unit EXCEPT ![Service(u)].on = FALSE,
                 !["system"].file = @ /\ u # "root",
                 !["user"].file = @ /\ (u = "root" \/ unit["system"].file)]
Remaining(u) == IF linux THEN RemainingUnits(u) ELSE RemainingPlists(u)

UnregisterStartup(u) ==
    /\ unit' = Remaining(u)
    /\ due' = due \ {Service(u)}

\* clear_device_state: token, consent and lock file go, whoever holds it.
Wiped(at, d) == [at EXCEPT ![d].ino = 0, ![d].pid = "none", ![d].may = FALSE]
Orphaned(ps, d) == [p \in Procs |->
    IF Path(Uid(p)) = d /\ ps[p].ino # 0 THEN [ps[p] EXCEPT !.gone = TRUE] ELSE ps[p]]
-----------------------------------------------------------------------------
(***************************************************************************)
(* The daemon, from main to its loop.                                      *)
(***************************************************************************)
\* Without token or consent the daemon ends at once, successfully.
Start(p) ==
    /\ proc[p].pc = "start"
    /\ open' = (open \/ Uid(p) = "root")
    /\ IF dir[Path(Uid(p))].may
       THEN proc' = [proc EXCEPT ![p].pc = "lock"] /\ UNCHANGED <<dir, due>>
       ELSE Exit(p, "success")
    /\ UNCHANGED <<machine, unit, gui, early>> /\ NoIncident

\* Mutant: a lock file that is there is taken for a stale one and removed.
OpenLockAfresh(p) ==
    LET d == Path(Uid(p))
        ino == IF dir[d].last > MaxIncidents THEN dir[d].ino ELSE dir[d].last + 1
        last == IF ino > dir[d].last THEN ino ELSE dir[d].last
    IN
    /\ proc[p].pc = "lock" /\ (linux \/ open)
    /\ dir' = [dir EXCEPT ![d].ino = ino, ![d].last = last, ![d].pid = "none"]
    /\ proc' = [proc EXCEPT ![p].pc = "opened", ![p].ino = ino]
    /\ UNCHANGED <<machine, open, unit, due, gui, early>> /\ NoIncident

\* The lock file is created, or the one that is there is truncated.
OpenLock(p) ==
    LET d == Path(Uid(p))
        ino == IF dir[d].ino = 0 THEN dir[d].last + 1 ELSE dir[d].ino
        last == IF ino > dir[d].last THEN ino ELSE dir[d].last
    IN
    /\ proc[p].pc = "lock" /\ (linux \/ open)
    /\ dir' = [dir EXCEPT ![d].ino = ino, ![d].last = last, ![d].pid = "none"]
    /\ proc' = [proc EXCEPT ![p].pc = "opened", ![p].ino = ino]
    /\ UNCHANGED <<machine, open, unit, due, gui, early>> /\ NoIncident

\* Why there is no lock: macOS has no directory to create the file in, or, on
\* both, the file is not opened or its file system has no flock.
NoLock(p) == \/ proc[p].pc = "lock" /\ ~linux /\ ~open /\ NoIncident
             \/ proc[p].pc \in {"lock", "opened"} /\ Incident

\* Mutant: a daemon that could not open the file believes it holds the lock.
LocklessHolds(p) ==
    /\ NoLock(p)
    /\ proc' = [proc EXCEPT ![p].pc = "held", ![p].lock = TRUE]
    /\ UNCHANGED <<machine, open, unit, due, dir, gui, early>>

\* Any OSError but "would block": the daemon goes on without a lock.
Lockless(p) ==
    /\ NoLock(p)
    /\ proc' = [proc EXCEPT ![p].pc = "held"]
    /\ UNCHANGED <<machine, open, unit, due, dir, gui, early>>

\* flock: the inode counts, not the name and not the pid written in the file.
Held(p) == \E q \in Procs \ {p} :
              /\ Path(Uid(q)) = Path(Uid(p))
              /\ proc[q].lock /\ proc[q].ino = proc[p].ino

Flock(p) ==
    LET d == Path(Uid(p)) IN
    /\ proc[p].pc = "opened"
    /\ IF Held(p) THEN Exit(p, "failure")
       ELSE /\ proc' = [proc EXCEPT ![p].pc = "held", ![p].lock = TRUE]
            /\ dir' = IF dir[d].ino = proc[p].ino THEN [dir EXCEPT ![d].pid = "live"] ELSE dir
            /\ UNCHANGED due
    /\ UNCHANGED <<machine, open, unit, gui, early>> /\ NoIncident

\* Every start registers the service again when its file is gone.
RegisterSelf(p) ==
    /\ proc[p].pc = "held"
    /\ IF PersistenceActive(Uid(p)) THEN UNCHANGED <<unit, due>> /\ NoIncident
       ELSE RegisterStartup(Uid(p))
    /\ proc' = [proc EXCEPT ![p].pc = "run"]
    /\ UNCHANGED <<machine, open, dir, gui, early>>

Kill(p) == /\ proc[p].pc # "off" /\ Incident
           /\ Exit(p, "failure")
           /\ UNCHANGED <<machine, open, unit, gui, early>>

\* SIGTERM sets the shutdown event; the process ends successfully.
Stop(p) == /\ proc[p].pc \in {"run", "linger"} /\ Incident
           /\ Exit(p, "success")
           /\ UNCHANGED <<machine, open, unit, gui, early>>

\* The backend says the device is unlinked.  When a monitor thread of Linux
\* hears it, that thread ends and the process lingers.
Unlinked(p) ==
    /\ proc[p].pc = "run" /\ Incident
    /\ dir' = Wiped(dir, Path(Uid(p)))
    /\ \E pc \in {"run"} \cup (IF linux THEN {"linger"} ELSE {}) :
          proc' = [Orphaned(proc, Path(Uid(p))) EXCEPT ![p].pc = pc]
    /\ UNCHANGED <<machine, open, unit, due, gui, early>>
-----------------------------------------------------------------------------
(***************************************************************************)
(* The window.                                                             *)
(***************************************************************************)
Home == Path(machine.gui)

\* Whoever declines sees no window.
Consented(at) == [at EXCEPT ![Home].may = TRUE]

\* It asks for consent, or finds a token.
OpenWindow ==
    /\ gui.pc = "off"
    /\ gui' = [pc |-> "open", closing |-> FALSE, cool |-> early]
    /\ dir' = Consented(dir)
    /\ open' = (open \/ machine.gui = "root")
    /\ UNCHANGED <<machine, unit, due, proc, early>> /\ NoIncident

\* sudo on macOS: registers the machine's service, then hands over to the user.
OpenWithSudo ==
    /\ gui.pc = "off" /\ ~linux /\ ~PersistenceActive("root")
    /\ RegisterStartup("root")
    /\ UNCHANGED <<machine, open, dir, proc, gui, early>>

\* An approval, or a new enrolment after an unlink, brings a token.
EnrolInWindow ==
    /\ gui.pc = "open" /\ ~dir[Home].may
    /\ dir' = [dir EXCEPT ![Home].may = TRUE]
    /\ UNCHANGED <<machine, open, unit, due, proc, gui, early>> /\ NoIncident

\* _auto_bootstrap_background_agent: register, look for a daemon, start one.
Bootstrap ==
    LET out == IF Displaced(machine.gui) THEN BootedOut("user") ELSE {} IN
    /\ gui.pc = "open"
    /\ RegisterStartup(machine.gui)
    /\ proc' = Ends(out)
    /\ dir' = Left(out)
    /\ gui' \in {[gui EXCEPT !.pc = "probe"]}
                \cup (IF linux THEN {[gui EXCEPT !.pc = "probe", !.closing = TRUE]} ELSE {})
    /\ UNCHANGED <<machine, open, early>>

\* A pid in a lock file that another process has by now.
Reused == dir[Home].pid = "stale" \/ (linux /\ dir["root"].pid = "stale")

\* A process that is, or soon will be, in its loop.
Fit(p) == \/ proc[p].pc \in {"held", "run"}
          \/ proc[p].pc \in {"start", "lock"} /\ dir[Path(Uid(p))].may
          \/ proc[p].pc = "opened" /\ ~Held(p)

Turn(pc) == gui' = IF gui.closing THEN [gui EXCEPT !.pc = "off"] ELSE [gui EXCEPT !.pc = pc]

\* Mutant: a pid in the lock file is enough, whether it answers or not.
ProbeByFile ==
    /\ gui.pc = "probe"
    /\ \/ /\ dir[Home].pid = "none" /\ ~gui.cool
          /\ gui' = [gui EXCEPT !.pc = "spawn"] /\ lost' = {}
       \/ /\ dir[Home].pid = "none" /\ gui.cool
          /\ Turn("open") /\ lost' = {"cooldown"}
       \/ /\ dir[Home].pid # "none"
          /\ Turn("open") /\ lost' = {}
    /\ UNCHANGED <<machine, open, unit, due, dir, proc, early, incidents>>

\* _is_daemon_running: a pid that answers, or a --daemon in the process list.
Probe ==
    /\ gui.pc = "probe"
    /\ \/ /\ Alive = {} /\ ~gui.cool
          /\ gui' = [gui EXCEPT !.pc = "spawn"] /\ lost' = {}
       \/ /\ Alive = {} /\ gui.cool
          /\ Turn("open") /\ lost' = {"cooldown"}
       \/ /\ Alive # {}
          /\ Turn("open") /\ lost' = IF \E p \in Alive : Fit(p) THEN {} ELSE {"unfit"}
       \/ /\ Alive = {} /\ Reused
          /\ Turn("open") /\ lost' = {"reused"}
    /\ UNCHANGED <<machine, open, unit, due, dir, proc, early, incidents>>

Spawn ==
    /\ gui.pc = "spawn"
    /\ proc' = [proc EXCEPT !["gui"].pc = "start"]
    /\ gui' = IF gui.closing THEN [gui EXCEPT !.pc = "off", !.cool = TRUE]
              ELSE [gui EXCEPT !.pc = "open", !.cool = TRUE]
    /\ UNCHANGED <<machine, open, unit, due, dir, early>> /\ NoIncident

Warm == /\ gui.cool /\ gui' = [gui EXCEPT !.cool = FALSE]
        /\ UNCHANGED <<machine, open, unit, due, dir, proc, early>> /\ NoIncident

\* macOS leaves without another look.
CloseWindow ==
    /\ gui.pc = "open" /\ ~linux
    /\ gui' = [gui EXCEPT !.pc = "off"]
    /\ UNCHANGED <<machine, open, unit, due, dir, proc, early>> /\ NoIncident

KillWindow ==
    /\ gui.pc # "off" /\ Incident
    /\ gui' = [gui EXCEPT !.pc = "off"]
    /\ UNCHANGED <<machine, open, unit, due, dir, proc, early>>

UnlinkInWindow ==
    /\ gui.pc = "open" /\ Incident
    /\ dir' = Wiped(dir, Home)
    /\ proc' = Orphaned(proc, Home)
    /\ UNCHANGED <<machine, open, unit, due, gui, early>>

\* The switch in the settings; macOS asks for an administrator.
SwitchOn ==
    /\ gui.pc = "open" /\ ~linux /\ Incident
    /\ unit' = [unit EXCEPT !["system"] = [file |-> TRUE, on |-> TRUE], !["user"] = None]
    /\ proc' = Ends({"user"}) /\ dir' = Left({"user"})
    /\ due' = (due \ {"user"}) \cup (IF unit["system"].on THEN {} ELSE {"system"})
    /\ UNCHANGED <<machine, open, gui, early>>

AuthorizedOff ==
    /\ unit' = [s \in Services |-> None]
    /\ proc' = Ends(Services) /\ dir' = Left(Services)
    /\ due' = {}

SwitchOff ==
    /\ gui.pc = "open" /\ Incident
    /\ IF linux THEN UnregisterStartup(machine.gui) /\ UNCHANGED <<proc, dir>>
             ELSE AuthorizedOff
    /\ UNCHANGED <<machine, open, gui, early>>
-----------------------------------------------------------------------------
(***************************************************************************)
(* The command line.                                                       *)
(***************************************************************************)
\* From a terminal or a script; on macOS a child goes on in a session of its own.
StartByHand ==
    /\ proc["hand"].pc = "off" /\ Incident
    /\ proc' = [proc EXCEPT !["hand"].pc = "start"]
    /\ UNCHANGED <<machine, open, unit, due, dir, gui, early>>

\* With the termination password. The shutdown signal it leaves is read by no
\* Linux or macOS daemon.
Disable(u) ==
    /\ Incident
    /\ UnregisterStartup(u)
    /\ proc' = Ends(BootedOut(Service(u)))
    /\ dir' = Left(BootedOut(Service(u)))
    /\ UNCHANGED <<machine, open, gui, early>>

Uninstall(u) ==
    /\ Incident
    /\ UnregisterStartup(u)
    /\ proc' = Orphaned(Ends(BootedOut(Service(u))), Path(u))
    /\ dir' = Wiped(Left(BootedOut(Service(u))), Path(u))
    /\ UNCHANGED <<machine, open, gui, early>>
-----------------------------------------------------------------------------
Daemon(p) == \/ Start(p) \/ OpenLock(p) \/ Lockless(p) \/ Flock(p) \/ RegisterSelf(p)

Window == \/ OpenWindow \/ OpenWithSudo \/ EnrolInWindow \/ Bootstrap \/ Probe \/ Spawn \/ Warm
          \/ CloseWindow \/ KillWindow \/ UnlinkInWindow \/ SwitchOn \/ SwitchOff

StartupNext == \/ \E s \in Services : Supervise(s)
               \/ \E p \in Procs : Daemon(p) \/ Kill(p) \/ Stop(p) \/ Unlinked(p)
               \/ \E u \in Users : Disable(u) \/ Uninstall(u)
               \/ Window \/ StartByHand \/ Reboot \/ Later

\* The supervisors do what they owe, and what was begun goes on.
StartupFairness == /\ \A s \in Services : WF_startupVars(Supervise(s))
                   /\ \A p \in Procs : WF_startupVars(Daemon(p))
                   /\ WF_startupVars(Probe) /\ WF_startupVars(Spawn)

StartupSpec == StartupInit /\ [][StartupNext]_startupVars /\ StartupFairness
-----------------------------------------------------------------------------
(***************************************************************************)
(* The state's types.  A lock is held on a file that was opened.           *)
(***************************************************************************)
StartupTypeOK ==
    /\ unit \in [Services -> [file : BOOLEAN, on : BOOLEAN]]
    /\ due \subseteq Services
    /\ dir \in [Paths -> [ino : 0..MaxIncidents + 1, last : 0..MaxIncidents + 1,
                          pid : {"none", "live", "stale"}, may : BOOLEAN]]
    /\ proc \in [Procs -> [pc : {"off", "start", "lock", "opened", "held", "run", "linger"},
                           ino : 0..MaxIncidents + 1, lock : BOOLEAN, gone : BOOLEAN]]
    /\ \A p \in Procs : proc[p].lock => proc[p].ino # 0
    /\ gui \in [pc : {"off", "open", "probe", "spawn"}, closing : BOOLEAN, cool : BOOLEAN]
    /\ open \in BOOLEAN /\ early \in BOOLEAN
    /\ lost \subseteq {"incident", "cooldown", "unfit", "reused"}
    /\ incidents \in 0..MaxIncidents

(***************************************************************************)
(* Two daemons of one state directory never both get past the lock, however*)
(* they were started, killed and restarted.  What lets two run are only    *)
(* the named ways: different directories (Linux, root and user), an        *)
(* OSError for which one of them went on without a lock, or a wipe that    *)
(* removed the lock file of one of them.                                   *)
(***************************************************************************)
Past(p) == proc[p].pc \in {"held", "run", "linger"}
OneDaemon ==
    \A p, q \in Procs :
        p # q /\ Past(p) /\ Past(q) /\ Path(Uid(p)) = Path(Uid(q))
        => \/ proc[p].gone \/ proc[q].gone
           \/ ~proc[p].lock \/ ~proc[q].lock

(***************************************************************************)
(* Whoever asks for a daemon gets one: after the window has looked for one,*)
(* and once a supervisor owes a start, with a token or a consent in the    *)
(* directory, a daemon comes to run.  Excepted are an incident (a kill, a  *)
(* wipe, ...), a pid that was given to another process, a daemon that      *)
(* lingers or will end at once, and a cooldown that does not ask whether   *)
(* the daemon it started is still there.                                   *)
(***************************************************************************)
Running == \E p \in Procs : proc[p].pc = "run"
Asked == \/ gui.pc = "probe" /\ dir[Home].may
         \/ \E s \in due : dir[Path(Uid(s))].may
AskedRuns == Asked ~> (Running \/ lost # {})
=============================================================================
