---------------------------- MODULE PosixUpdate -----------------------------
(***************************************************************************)
(* Over-the-air updates on Linux and macOS: the verification of the        *)
(* release metadata and the download (common/updater.py), the swap of the  *)
(* executable (common/os_replacer.py), the daemon's update thread          *)
(* (common/daemon_ota.py) and the GUI's, the restart by systemd or launchd *)
(* and the recovery and the commit of the next start.                      *)
(*                                                                         *)
(* A release is its version number. A download is the sequence of the two  *)
(* halves received, each named by the release it came from: the asset's    *)
(* address is that of the latest release, whatever the manifest says.      *)
(* A file that is being copied is Torn until the copy is complete. A check *)
(* that finds no update changes no state and is no action.                 *)
(***************************************************************************)
EXTENDS Integers, Sequences, Functions

CONSTANTS
    MaxVersion,     \* bound on the number of releases
    Kinds,          \* the releases that may be published
    MaxEvents,      \* bound on faults and on what users do
    None, Torn      \* no file, a file not completely written

\* health: "good" sends heartbeats, "unhealthy" ends before it does, "dead"
\* does not even reach Python. min: min_required_version. sound: the targets
\* have all their fields and match the snapshot hash.
Release == [health : {"good", "unhealthy", "dead"}, min : 0..MaxVersion, sound : BOOLEAN]
First == [health |-> "good", min |-> 0, sound |-> TRUE]

ASSUME BoundAssumption == MaxVersion \in Nat \ {0} /\ MaxEvents \in Nat
ASSUME KindAssumption == Kinds \subseteq Release
ASSUME FileAssumption == {None, Torn} \cap Int = {} /\ None # Torn

VARIABLES
    platform,       \* "linux" or "macos"
    releases,       \* the releases published, oldest first
    expired,        \* versions whose manifest is over three days old
    exe, bak, new,  \* the executable, its .bak and, on Linux, its .new
    marker,         \* .ota-pending: "none", "young" or "old" (120 s)
    proc,           \* the daemon and the GUI
    upd,            \* the update thread of each
    exit,           \* how the daemon ended last
    restart,        \* systemd has accepted to restart the daemon
    confirmed,      \* history: the executable whose heartbeat was accepted while
                    \* nothing replaced it, or 0
    harm,           \* history: what may have damaged an image
    events

diskVars == <<exe, bak, new, marker>>
superVars == <<exit, restart>>
vars == <<platform, releases, expired, diskVars, proc, upd, superVars, confirmed, harm,
          events>>

-----------------------------------------------------------------------------
Processes == {"daemon", "gui"}
Versions == 1..MaxVersion
Published == 1..Len(releases)
Latest == Len(releases)
Linux == platform = "linux"
Image == Versions \cup {Torn}

Idle == [pc |-> "idle", info |-> 0, part |-> <<>>, held |-> None]
Off == [pc |-> "off", ver |-> 0]
Event == events < MaxEvents /\ events' = events + 1

\* Between its backup and its restart request an updater changes the files.
Swapping(p) == upd[p].pc \in {"backup", "stage", "staged", "replace", "restore", "authorize",
                              "copy", "replaced", "marked"}
At(p, where) == proc[p].pc \in {"start", "run"} /\ upd[p].pc = where
To(p, where) == upd' = [upd EXCEPT ![p].pc = where]
Quit(p) == upd' = [upd EXCEPT ![p] = Idle]

Starts(image) == image \in Published /\ releases[image].health # "dead"

Init ==
    /\ platform \in {"linux", "macos"}
    /\ releases = <<First>> /\ expired = {}
    /\ exe = 1 /\ bak = None /\ new = None /\ marker = "none"
    /\ proc = [p \in Processes |-> Off]
    /\ upd = [p \in Processes |-> Idle]
    /\ exit = "failure" /\ restart = FALSE
    /\ confirmed = 0 /\ harm = {} /\ events = 0

-----------------------------------------------------------------------------
(* Releases, time and users                                                *)

Publish ==
    /\ Len(releases) < MaxVersion
    /\ \E r \in Kinds : releases' = Append(releases, r)
    /\ UNCHANGED <<platform, expired, diskVars, proc, upd, superVars, confirmed, harm, events>>

Expire ==
    /\ Event
    /\ \E v \in Published \ expired : expired' = expired \cup {v}
    /\ UNCHANGED <<platform, releases, diskVars, proc, upd, superVars, confirmed, harm>>

\* A restart that was asked for takes less than that, or it is a fault.
Age ==
    /\ marker = "young"
    /\ IF /\ proc["daemon"].pc # "off" \/ exit = "failure"
          /\ \A p \in Processes : upd[p].pc # "marked"
       THEN UNCHANGED events ELSE Event
    /\ marker' = "old"
    /\ UNCHANGED <<platform, releases, expired, exe, bak, new, proc, upd, superVars, confirmed,
                   harm>>

-----------------------------------------------------------------------------
(* Metadata and download (updater.py)                                      *)

\* The signature covers the manifest's bytes: both must be of one release.
VerifyRoot(m, s) == m = s
VerifyTimestamp(m) == m \notin expired
VerifySnapshot(m) == releases[m].sound
\* Mutant: any other version is an update.
VerifyTargetsDiffer(m, v) == m # v /\ releases[m].min <= v
VerifyTargets(m, v) == m > v /\ releases[m].min <= v
Verified(m, s, v) == /\ VerifyRoot(m, s) /\ VerifyTimestamp(m) /\ VerifySnapshot(m)
                     /\ VerifyTargets(m, v)

\* The daemon applies what it finds, the GUI offers it.
Found(p) == IF p = "daemon" THEN "load" ELSE "offer"

UpdUnchanged == UNCHANGED <<platform, releases, expired, diskVars, proc, superVars, confirmed,
                            harm>>

\* Manifest and signature are two requests; a cache may answer either with an
\* older release.
Check(p) ==
    /\ proc[p].pc = "run" /\ upd[p].pc \in {"idle", "offer"}
    /\ \E m, s \in Published :
         /\ Verified(m, s, proc[p].ver)
         /\ upd' = [upd EXCEPT ![p] =
                      [pc |-> Found(p), info |-> m, part |-> <<>>, held |-> None]]
         /\ IF m = Latest THEN UNCHANGED events ELSE Event
    /\ upd' # upd
    /\ UpdUnchanged

\* "Update now" in the GUI downloads what the last check found.
Click ==
    /\ At("gui", "offer")
    /\ Event
    /\ To("gui", "load")
    /\ UpdUnchanged

Receive(p) ==
    /\ \E b \in Published :
         /\ upd' = [upd EXCEPT ![p].part = Append(@, b)]
         /\ IF b \in {Latest} \cup Range(upd[p].part) THEN UNCHANGED events ELSE Event
    /\ UpdUnchanged

\* Mutant: it goes on after the last byte.
FetchOn(p) == At(p, "load") /\ Len(upd[p].part) < 4 /\ Receive(p)

Fetch(p) == At(p, "load") /\ Len(upd[p].part) < 2 /\ Receive(p)

\* A connection lost half-way is resumed with a Range header; a server that
\* ignores it sends the whole again, which is appended.
FetchWhole(p) ==
    /\ At(p, "load") /\ Len(upd[p].part) = 1
    /\ Event
    /\ upd' = [upd EXCEPT ![p].part = @ \o <<Latest, Latest>>]
    /\ UpdUnchanged

DownloadFails(p) ==
    /\ At(p, "load")
    /\ Event
    /\ Quit(p)
    /\ UpdUnchanged

\* Mutant: only the length is compared.
IntactLength(u) == Len(u.part) = 2
\* The hash of the manifest and the signature of the binary.
Intact(u) == u.part = <<u.info, u.info>>

\* What the downloaded file is: a release, or a mixture that does not run.
Content(u) == IF u.part[1] = u.part[2] THEN u.part[1] ELSE Torn

VerifyBinary(p) ==
    /\ At(p, "load") /\ Len(upd[p].part) >= 2
    /\ IF Intact(upd[p]) THEN To(p, "ready") ELSE Quit(p)
    /\ UNCHANGED events /\ UpdUnchanged

\* The update thread: a check at start-up and one each interval.
Updating(p) == Check(p) \/ Fetch(p) \/ FetchWhole(p) \/ DownloadFails(p) \/ VerifyBinary(p)

-----------------------------------------------------------------------------
(* The swap (os_replacer.py)                                               *)

SwapUnchanged == UNCHANGED <<platform, releases, expired, proc, superVars>>
                 /\ confirmed' = IF exe' = exe THEN confirmed ELSE 0

\* copy2 of the executable to .bak
BackupBegins(p) ==
    /\ At(p, "ready")
    /\ bak' = Torn
    /\ upd' = [upd EXCEPT ![p].pc = "backup", ![p].held = exe]
    /\ harm' = IF \E q \in Processes \ {p} : Swapping(q) THEN harm \cup {"overlap"} ELSE harm
    /\ UNCHANGED <<exe, new, marker, events>> /\ SwapUnchanged

BackupEnds(p) ==
    /\ At(p, "backup")
    /\ bak' = upd[p].held
    /\ To(p, IF Linux THEN "stage" ELSE "replace")
    /\ UNCHANGED <<exe, new, marker, harm, events>> /\ SwapUnchanged

BackupFails(p) ==
    /\ At(p, "ready") \/ At(p, "backup")
    /\ Event
    /\ Quit(p)
    /\ UNCHANGED <<diskVars, harm>> /\ SwapUnchanged

\* Linux: the download is copied beside the executable, flushed and renamed.
StageBegins(p) ==
    /\ At(p, "stage")
    /\ new' = Torn
    /\ To(p, "staged")
    /\ UNCHANGED <<exe, bak, marker, harm, events>> /\ SwapUnchanged

\* Another updater may have renamed the file that is being written.
StageEnds(p) ==
    /\ At(p, "staged")
    /\ To(p, "replace")
    /\ IF new = Torn THEN new' = Content(upd[p]) /\ UNCHANGED exe
       ELSE /\ exe' = IF exe = Torn THEN Content(upd[p]) ELSE exe
            /\ UNCHANGED new
    /\ UNCHANGED <<bak, marker, harm, events>> /\ SwapUnchanged

Replace(p) ==
    /\ At(p, "replace")
    /\ To(p, "replaced")
    /\ IF Linux THEN new # None /\ exe' = new /\ new' = None
                ELSE exe' = Content(upd[p]) /\ UNCHANGED new
    /\ UNCHANGED <<bak, marker, harm, events>> /\ SwapUnchanged

\* A process that runs the executable keeps Linux from writing to it.
Busy == Linux /\ \E p \in Processes : proc[p].pc # "off" /\ proc[p].ver = exe

\* The rename failed: .bak is copied over the executable.
ReplaceFails(p) ==
    /\ At(p, "replace") \/ At(p, "staged")
    /\ IF Linux /\ new = None THEN UNCHANGED events ELSE Event
    /\ new' = None
    /\ IF Busy \/ bak = None
       THEN /\ upd' = [upd EXCEPT ![p] = IF Linux THEN Idle ELSE [@ EXCEPT !.pc = "authorize"]]
            /\ UNCHANGED exe
       ELSE /\ exe' = Torn
            /\ upd' = [upd EXCEPT ![p].pc = "restore", ![p].held = bak]
    /\ UNCHANGED <<bak, marker, harm>> /\ SwapUnchanged

RestoreEnds(p) ==
    /\ At(p, "restore")
    /\ exe' = upd[p].held
    /\ harm' = IF upd[p].held = Torn THEN harm \cup {"badBackup"} ELSE harm
    /\ upd' = [upd EXCEPT ![p] = IF Linux THEN Idle ELSE [@ EXCEPT !.pc = "authorize"]]
    /\ UNCHANGED <<bak, new, marker, events>> /\ SwapUnchanged

\* macOS: cp with administrator rights, if the user grants them. The exit
\* status is that of the last command, whatever became of the copies.
Refuse(p) ==
    /\ At(p, "authorize")
    /\ Quit(p)
    /\ UNCHANGED <<diskVars, harm, events>> /\ SwapUnchanged

Authorize(p) ==
    /\ At(p, "authorize")
    /\ bak' = exe /\ exe' = Torn
    /\ To(p, "copy")
    /\ UNCHANGED <<new, marker, harm, events>> /\ SwapUnchanged

CopyEnds(p) ==
    /\ At(p, "copy")
    /\ To(p, "done")
    /\ \/ exe' = Content(upd[p]) /\ UNCHANGED <<harm, events>>
       \/ Event /\ harm' = harm \cup {"badCopy"} /\ UNCHANGED exe
    /\ UNCHANGED <<bak, new, marker>> /\ SwapUnchanged

\* _restore_macos_backup
RestoreBackup == /\ exe' = IF bak = None THEN exe ELSE bak
                 /\ bak' = None /\ marker' = "none"
                 /\ harm' = IF bak = Torn THEN harm \cup {"badBackup"} ELSE harm
                 /\ UNCHANGED new

Mark(p) ==
    /\ At(p, "replaced") /\ ~Linux
    /\ marker' = "young"
    /\ To(p, "marked")
    /\ UNCHANGED <<exe, bak, new, harm, events>> /\ SwapUnchanged

MarkFails(p) ==
    /\ At(p, "replaced") /\ ~Linux
    /\ Event
    /\ RestoreBackup
    /\ Quit(p)
    /\ SwapUnchanged

\* systemctl restart, launchctl kickstart -k: the daemon ends.
RestartDaemon(p) ==
    /\ \/ At(p, "replaced") /\ Linux
       \/ At(p, "marked")
    /\ proc' = [proc EXCEPT !["daemon"] = Off]
    /\ exit' = "clean" /\ restart' = Linux
    /\ upd' = [upd EXCEPT !["daemon"] = Idle, ![p] = Idle]
    /\ harm' = IF upd["daemon"].pc \in {"restore", "copy"} THEN harm \cup {"cut"} ELSE harm
    /\ UNCHANGED <<platform, releases, expired, diskVars, confirmed, events>>

\* Linux goes on without the restart, macOS takes the update back.
RestartFails(p) ==
    /\ Event
    /\ \/ /\ At(p, "replaced") /\ Linux
          /\ To(p, "done")
          /\ UNCHANGED <<diskVars, harm>>
       \/ /\ At(p, "marked")
          /\ RestoreBackup
          /\ Quit(p)
    /\ SwapUnchanged

\* launchctl restarts the daemon, but too late for the GUI's time limit.
RestartLate ==
    /\ Event
    /\ At("gui", "marked")
    /\ proc' = [proc EXCEPT !["daemon"] = Off]
    /\ exit' = "clean"
    /\ upd' = [upd EXCEPT !["daemon"] = Idle, !["gui"].pc = "late"]
    /\ harm' = IF upd["daemon"].pc \in {"restore", "copy"} THEN harm \cup {"cut"} ELSE harm
    /\ UNCHANGED <<platform, releases, expired, diskVars, restart, confirmed>>

TakeBack ==
    /\ At("gui", "late")
    /\ RestoreBackup
    /\ Quit("gui")
    /\ UNCHANGED events /\ SwapUnchanged

\* The daemon ends by its shutdown event, the GUI stays.
Done(p) ==
    /\ At(p, "done")
    /\ Quit(p)
    /\ IF p = "daemon" THEN proc' = [proc EXCEPT ![p] = Off] /\ exit' = "clean"
                       ELSE UNCHANGED <<proc, exit>>
    /\ UNCHANGED <<platform, releases, expired, diskVars, restart, confirmed, harm, events>>

Swap(p) == BackupBegins(p) \/ BackupEnds(p) \/ BackupFails(p) \/ StageBegins(p) \/ StageEnds(p)
           \/ Replace(p) \/ ReplaceFails(p) \/ RestoreEnds(p) \/ Refuse(p) \/ Authorize(p)
           \/ CopyEnds(p) \/ Mark(p) \/ MarkFails(p) \/ RestartDaemon(p) \/ RestartFails(p)
           \/ Done(p)

-----------------------------------------------------------------------------
(* Starts, heartbeats and ends                                             *)

\* Mutant: the age is compared the wrong way round.
OverdueYoung == ~Linux /\ marker = "young" /\ bak # None
\* recover_macos_update
Overdue == ~Linux /\ marker = "old" /\ bak # None

Supervised(p) == p = "daemon" /\ (Linux => restart \/ exit = "failure")

StartUnchanged == UNCHANGED <<platform, releases, expired, new, upd, confirmed>>

\* The supervisor starts the daemon, or somebody a process of either kind.
\* startup_bak_cleanup: Linux removes .bak; macOS puts it back in place when
\* the marker is overdue, and the process ends.
Start(p) ==
    /\ proc[p].pc = "off" /\ Starts(exe)
    /\ IF p = "gui" \/ Supervised(p) THEN UNCHANGED events ELSE Event
    /\ restart' = IF p = "daemon" THEN FALSE ELSE restart
    /\ IF Overdue
       THEN /\ exe' = bak /\ bak' = None /\ marker' = "none"
            /\ harm' = IF bak = Torn THEN harm \cup {"badBackup"} ELSE harm
            /\ exit' = IF p = "daemon" THEN "clean" ELSE exit
            /\ UNCHANGED proc
       ELSE /\ proc' = [proc EXCEPT ![p] =
                          [pc |-> IF p = "daemon" THEN "start" ELSE "run", ver |-> exe]]
            /\ bak' = IF Linux THEN None ELSE bak
            /\ UNCHANGED <<exe, marker, harm, exit>>
    /\ StartUnchanged

\* Mutant: nothing is committed.
BeatUncommitted ==
    /\ proc["daemon"].pc = "start"
    /\ releases[proc["daemon"].ver].health = "good"
    /\ proc' = [proc EXCEPT !["daemon"].pc = "run"]
    /\ confirmed' = IF proc["daemon"].ver = exe THEN exe ELSE 0
    /\ UNCHANGED <<platform, releases, expired, diskVars, upd, superVars, harm, events>>

\* The first heartbeat is accepted: macOS removes .bak, then the marker.
Beat ==
    /\ proc["daemon"].pc = "start"
    /\ releases[proc["daemon"].ver].health = "good"
    /\ proc' = [proc EXCEPT !["daemon"].pc = IF Linux THEN "run" ELSE "commit"]
    /\ bak' = IF Linux THEN bak ELSE None
    /\ UNCHANGED <<exe, marker, superVars, harm, events>> /\ StartUnchanged

Commit ==
    /\ proc["daemon"].pc = "commit"
    /\ marker' = "none"
    /\ confirmed' = IF proc["daemon"].ver = exe /\ ~\E p \in Processes : Swapping(p)
                  THEN exe ELSE 0
    /\ proc' = [proc EXCEPT !["daemon"].pc = "run"]
    /\ UNCHANGED <<platform, releases, expired, exe, bak, new, upd, superVars, harm, events>>

\* Only the first heartbeat commits: the daemon goes on without.
BeatFails ==
    /\ proc["daemon"].pc = "start"
    /\ releases[proc["daemon"].ver].health = "good"
    /\ Event
    /\ proc' = [proc EXCEPT !["daemon"].pc = "run"]
    /\ UNCHANGED <<exe, bak, marker, superVars, harm>> /\ StartUnchanged

Ends(p) ==
    /\ proc' = [proc EXCEPT ![p] = Off]
    /\ upd' = [upd EXCEPT ![p] = Idle]
    /\ exit' = IF p = "daemon" THEN "failure" ELSE exit
    /\ harm' = IF upd[p].pc \in {"restore", "copy"} THEN harm \cup {"cut"} ELSE harm
    /\ UNCHANGED <<platform, releases, expired, diskVars, restart, confirmed>>

Unhealthy ==
    /\ proc["daemon"].pc = "start"
    /\ releases[proc["daemon"].ver].health = "unhealthy"
    /\ Ends("daemon") /\ UNCHANGED events

\* Killed, powered off, or, the GUI, closed.
Stop(p) ==
    /\ proc[p].pc # "off"
    /\ Event
    /\ Ends(p)

Daemon == Start("daemon") \/ Beat \/ Commit \/ Unhealthy

Next == \/ Publish \/ Expire \/ Age \/ Click \/ RestartLate \/ TakeBack \/ BeatFails
        \/ Daemon \/ Start("gui")
        \/ \E p \in Processes : Updating(p) \/ Swap(p) \/ Stop(p)

\* The supervisor and the update threads go on, time passes; users need not
\* act and releases need not be made.
Fairness == /\ WF_vars(Daemon) /\ WF_vars(Age)
            /\ WF_vars(Updating("daemon"))
            /\ WF_vars(Swap("daemon")) /\ WF_vars(Swap("gui") \/ TakeBack)

Spec == Init /\ [][Next]_vars /\ Fairness

-----------------------------------------------------------------------------
TypeOK ==
    /\ platform \in {"linux", "macos"}
    /\ releases \in Seq(Release) /\ Len(releases) \in Versions
    /\ expired \subseteq Published
    /\ exe \in Image /\ {bak, new} \subseteq Image \cup {None}
    /\ marker \in {"none", "young", "old"}
    /\ proc \in [Processes -> [pc : {"off", "start", "commit", "run"}, ver : 0..MaxVersion]]
    /\ upd \in [Processes ->
                   [pc : {"idle", "offer", "load", "ready", "backup", "stage", "staged",
                          "replace", "restore", "authorize", "copy", "replaced", "marked",
                          "late", "done"},
                    info : 0..MaxVersion, part : Seq(Versions), held : Image \cup {None}]]
    /\ \A p \in Processes : Len(upd[p].part) \in 0..3
    /\ exit \in {"clean", "failure"} /\ restart \in BOOLEAN
    /\ confirmed \in 0..MaxVersion
    /\ harm \subseteq {"overlap", "cut", "badBackup", "badCopy"}
    /\ events \in 0..MaxEvents

-----------------------------------------------------------------------------
(* Properties                                                              *)

\* The update keeps the promise of ReleaseChannel: whatever is cached, mixed,
\* cut short or raced, the executable changes only to a version that an
\* updater below it has found, or to a copy kept of it, or is torn.
Channel == INSTANCE ReleaseChannel WITH
    Damaged <- Torn, published <- Latest, image <- exe,
    kept <- ({bak} \cup {upd[p].held : p \in Processes}) \ {None},
    running <- {proc[p].ver : p \in {q \in Processes : proc[q].pc # "off"}},
    approved <- ({upd[p].info : p \in Processes} \cup {new}) \ {0, None, Torn},
    alone <- "overlap" \notin harm
ImplementsChannel == Channel!Spec

\* The executable is torn only while a failed swap, or macOS's authorized
\* one, copies over it, or after such a copy was cut short or failed, its
\* backup was torn, or two updaters overlapped: a swap that succeeds, a crash
\* at any of its steps and a recovery leave a complete executable.
ImageIntact ==
    exe = Torn => harm # {} \/ \E p \in Processes : upd[p].pc \in {"restore", "copy"}

\* macOS: a version whose heartbeat was accepted is not rolled back: the
\* executable it runs from is replaced only by an updater at work, or by a
\* backup that a cut-short copy left torn under a left-over marker.
ConfirmedStays ==
    [][~Linux /\ exe = confirmed /\ exe' # exe =>
         \/ \E p \in Processes : Swapping(p) \/ upd[p].pc = "late"
         \/ bak = Torn]_vars

\* A sound, healthy release that stays the latest one reaches the daemon,
\* after unhealthy ones too. Excused: an executable that cannot start, an
\* unhealthy one that nothing will replace, and a Linux daemon that ended
\* cleanly after its restart was refused or that nobody starts.
Wanted == /\ releases[Latest].health = "good" /\ releases[Latest].sound
          /\ releases[Latest].min = 0 /\ Latest \notin expired
Stranded == \/ ~Starts(exe)
            \/ /\ releases[exe].health = "unhealthy"
               /\ Linux \/ marker = "none" \/ bak = None
            \/ Linux /\ proc["daemon"].pc = "off" /\ exit = "clean" /\ ~restart
UpdateArrives ==
    <>[]Wanted => []<>(proc["daemon"] = [pc |-> "run", ver |-> Latest] \/ Stranded)
=============================================================================
