------------------------ MODULE WindowsUpdate_proofs ------------------------
(***************************************************************************)
(* WindowsUpdate keeps its types, a verified image stays on the disk, an   *)
(* update that is alone goes up, and WindowsUpdate implements              *)
(* ReleaseChannel, whatever the number of processes, versions and faults.  *)
(***************************************************************************)
EXTENDS WindowsUpdate, TLAPS

-----------------------------------------------------------------------------
(* The inductive invariant                                                 *)

\* A slot that is free is not bound to a file.
OffAtExe == \A p \in Proc : ~Up(p) => at[p] = "exe"

\* A process that has come as far as Python keeps its image on the disk.
Running ==
    \A p \in Proc : Up(p) => /\ at[p] # "new"
                             /\ pc[p] # "boot" => Image(p) \in Version

\* An update thread belongs to a process that runs. While it copies, the
\* source is there and nobody can start from the target.
Updating ==
    \A u \in Updater :
        /\ upd[u] # "idle" => pc[u] \in {"run", "open"}
        /\ upd[u] \in {"got", "staging"} => got[u] \in Version
        /\ upd[u] = "placing" => /\ file["exe"] # Absent /\ file["new"] # Absent
                                 /\ ~InUse("exe")

IInv == TypeOK /\ OffAtExe /\ Running /\ Updating /\ ImageSurvives

\* The parts of TypeOK.
Content == {Absent, Torn} \union Version
State == {"off", "boot", "claim", "run", "open", "ask", "signalled", "watch", "await"}

ProcTypes ==
    /\ pc \in [Proc -> State] /\ at \in [Proc -> Path]
    /\ parent \in [Daemon -> Daemon \union {"none"}]
    /\ upd \in [Updater -> {"idle", "got", "staging", "staged", "aside", "placing",
                            "placed"}]
    /\ got \in [Updater -> {Absent} \union Version] /\ aside \in [Updater -> Backup]
    /\ restart \in [Daemon -> BOOLEAN] /\ hadBak \in BOOLEAN

WorldTypes ==
    /\ signal \in {"none", "ota", "stop"} /\ task \in BOOLEAN
    /\ latest \in Version /\ broken \subseteq Version /\ events \in 0 .. MaxEvents
    /\ harm \subseteq {"stop", "killed", "late", "broken", "raised", "cut", "overlap",
                       "failed"}

LEMMA TypeParts == TypeOK <=> file \in [Path -> Content] /\ ProcTypes /\ WorldTypes
BY Zenon DEF TypeOK, ProcTypes, WorldTypes, Content, State

LEMMA TypePartsNext ==
    TypeOK' <=> file' \in [Path -> Content] /\ ProcTypes' /\ WorldTypes'
BY Zenon DEF TypeOK, ProcTypes, WorldTypes, Content, State

-----------------------------------------------------------------------------
(* Names, slots and bounds                                                 *)

LEMMA Names ==
    /\ "exe" \in Path /\ "new" \in Path /\ "bak" \in Backup
    /\ "exe" \notin Backup /\ "new" \notin Backup
    /\ Backup \subseteq Path /\ Stamp \subseteq Backup /\ "bak" \notin Stamp
    /\ \A f \in Path : f \in Backup \/ f = "exe" \/ f = "new"
BY ProcessAssumption DEF Path, Backup

LEMMA Slots ==
    /\ GUI \in Updater /\ Daemon \subseteq Updater /\ Updater \subseteq Proc
    /\ Watchdog \subseteq Proc /\ Daemon \subseteq Proc /\ GUI \in Proc
    /\ \A w \in Watchdog : w \notin Updater
    /\ GUI \notin Daemon
BY ProcessAssumption DEF Updater, Proc

LEMMA Contents ==
    /\ Absent \notin Version /\ Torn \notin Version /\ Absent # Torn
    /\ Absent \in Content /\ Torn \in Content /\ Version \subseteq Content
    /\ 1 \in Version
BY BoundAssumption DEF Absent, Torn, Version, Content

LEMMA OneOfType ==
    ASSUME NEW S
    PROVE  OneOf(S) \subseteq S /\ (OneOf(S) # {} => Accepts)
<1>1. CASE S = {} \/ ~Accepts
    BY <1>1 DEF OneOf
<1>2. CASE S # {} /\ Accepts
    <2>1. (CHOOSE p \in S : TRUE) \in S
        BY <1>2
    <2> QED
        BY <1>2, <2>1 DEF OneOf
<1> QED
    BY <1>1, <1>2

LEMMA EventType ==
    ASSUME WorldTypes, Event
    PROVE  events' \in 0 .. MaxEvents /\ latest' = latest /\ broken' = broken
BY BoundAssumption DEF WorldTypes, Event

\* The image of a process past its boot is a survivor.
LEMMA Survivor ==
    ASSUME IInv, NEW p \in Proc, Up(p), pc[p] # "boot" \/ Image(p) \in Version
    PROVE  at[p] \in Path \ {"new"} /\ file[at[p]] \in Version
<1>1. at[p] \in Path
    BY TypeParts DEF IInv, ProcTypes
<1> QED
    BY <1>1 DEF IInv, Running, Image

-----------------------------------------------------------------------------
(* What processes do                                                       *)

\* Nobody copies to the executable's name.
NoCopy == \A u \in Updater : upd[u] # "placing"

LEMMA AcceptsNoCopy == Accepts => NoCopy
BY DEF Accepts, NoCopy

\* What a step that starts or ends processes may do to the files.
Undisturbed(S) ==
    /\ \A p \in S : Up(p) => file'[at[p]] = file[at[p]]
    /\ file'["new"] = file["new"]
    /\ file'["exe"] = file["exe"] \/ NoCopy

LEMMA ProcessesTyped ==
    ASSUME ProcTypes, NEW stopped \in SUBSET Proc, NEW started \in SUBSET Proc,
           NEW par \in Daemon \union {"none"}, Processes(stopped, started, par)
    PROVE  ProcTypes'
<1>1. pc' \in [Proc -> State] /\ at' \in [Proc -> Path]
    BY Names DEF ProcTypes, Processes, State
<1>2. parent' \in [Daemon -> Daemon \union {"none"}]
    BY DEF ProcTypes, Processes
<1>3. upd' \in [Updater -> {"idle", "got", "staging", "staged", "aside", "placing",
                            "placed"}]
    BY DEF ProcTypes, Processes
<1>4. /\ got' \in [Updater -> {Absent} \union Version] /\ aside' \in [Updater -> Backup]
    BY Names DEF ProcTypes, Processes
<1>5. restart' \in [Daemon -> BOOLEAN]
    BY DEF ProcTypes, Processes
<1>6. hadBak' \in BOOLEAN
    BY DEF ProcTypes, Processes
<1> QED
    BY <1>1, <1>2, <1>3, <1>4, <1>5, <1>6 DEF ProcTypes

LEMMA ProcessesSafe ==
    ASSUME IInv, NEW stopped \in SUBSET Proc, NEW started \in SUBSET Proc,
           NEW par \in Daemon \union {"none"}, Processes(stopped, started, par),
           started # {} => NoCopy,
           \A u \in Updater : u \in started => u \in stopped \/ upd[u] = "idle",
           Undisturbed(Proc \ stopped)
    PROVE  OffAtExe' /\ Running' /\ Updating'
<1> USE Slots
<1>1. \A p \in Proc :
         /\ pc'[p] = IF p \in started THEN "boot"
                     ELSE IF p \in stopped THEN "off" ELSE pc[p]
         /\ at'[p] = IF p \in started \union stopped THEN "exe" ELSE at[p]
    BY DEF Processes
<1>2. \A u \in Updater : /\ upd'[u] = IF u \in stopped THEN "idle" ELSE upd[u]
                         /\ got'[u] = IF u \in stopped THEN Absent ELSE got[u]
    BY DEF Processes
<1>3. OffAtExe'
    BY <1>1 DEF IInv, OffAtExe, Up
<1>4. Running'
    <2> SUFFICES ASSUME NEW p \in Proc, pc'[p] # "off"
                 PROVE  at'[p] # "new" /\ (pc'[p] # "boot" => file'[at'[p]] \in Version)
        BY DEF Running, Up, Image
    <2>1. CASE p \in started
        BY <1>1, <2>1
    <2>2. CASE p \notin started
        BY <1>1, <2>2 DEF IInv, Running, Up, Image, Undisturbed
    <2> QED
        BY <2>1, <2>2
<1>5. Updating'
    <2> SUFFICES ASSUME NEW u \in Updater, upd'[u] # "idle"
                 PROVE  /\ pc'[u] \in {"run", "open"}
                        /\ upd'[u] \in {"got", "staging"} => got'[u] \in Version
                        /\ upd'[u] = "placing" => /\ file'["exe"] # Absent
                                                  /\ file'["new"] # Absent
                                                  /\ ~InUse("exe")'
        BY DEF Updating
    <2>1. u \notin stopped /\ u \notin started /\ upd'[u] = upd[u] /\ got'[u] = got[u]
        BY <1>2
    <2>2. pc'[u] \in {"run", "open"} /\ (upd'[u] \in {"got", "staging"} => got'[u] \in Version)
        BY <1>1, <2>1 DEF IInv, Updating
    <2>3. ASSUME upd'[u] = "placing"
          PROVE  file'["exe"] # Absent /\ file'["new"] # Absent /\ ~InUse("exe")'
        <3>1. started = {}
            BY <2>1, <2>3 DEF NoCopy
        <3>2. file["exe"] # Absent /\ file["new"] # Absent /\ ~InUse("exe")
            BY <2>1, <2>3 DEF IInv, Updating
        <3>3. file'["exe"] = file["exe"] /\ file'["new"] = file["new"]
            BY <2>1, <2>3 DEF Undisturbed, NoCopy
        <3>4. ~InUse("exe")'
            BY <1>1, <3>1, <3>2 DEF InUse, Up
        <3> QED
            BY <3>2, <3>3, <3>4
    <2> QED
        BY <2>2, <2>3
<1> QED
    BY <1>3, <1>4, <1>5

\* The steps that leave the files alone.
LEMMA ProcessesKeep ==
    ASSUME IInv, NEW stopped \in SUBSET Proc, NEW started \in SUBSET Proc,
           NEW par \in Daemon \union {"none"}, Processes(stopped, started, par),
           started # {} => Accepts,
           \A u \in Updater : u \in started => u \in stopped \/ upd[u] = "idle",
           file' = file, WorldTypes'
    PROVE  IInv'
<1>1. Undisturbed(Proc \ stopped)
    BY DEF Undisturbed
<1>2. OffAtExe' /\ Running' /\ Updating'
    BY <1>1, AcceptsNoCopy, ProcessesSafe
<1>3. TypeOK'
    BY ProcessesTyped, TypeParts, TypePartsNext DEF IInv
<1>4. ImageSurvives'
    BY DEF IInv, ImageSurvives
<1> QED
    BY <1>2, <1>3, <1>4 DEF IInv

\* A process that is off has an idle update thread.
LEMMA FreeIdle ==
    ASSUME IInv
    PROVE  \A u \in Updater : pc[u] \notin {"run", "open"} => upd[u] = "idle"
BY DEF IInv, Updating

\* Steps in which processes go on, or start in a slot that is free.
LEMMA GoingOn ==
    ASSUME IInv, at' = at,
           \A p \in Proc : \/ pc'[p] = pc[p]
                           \/ pc[p] = "off" /\ pc'[p] = "boot" /\ Accepts
                           \/ /\ pc[p] \notin {"off", "run", "open"}
                              /\ pc'[p] \notin {"off", "boot"}
                              /\ Image(p) \in Version,
           \A u \in Updater : upd'[u] = upd[u] \/ upd'[u] = "idle",
           got' = got,
           Undisturbed(Proc), file'["exe"] = file["exe"]
    PROVE  OffAtExe' /\ Running' /\ Updating'
<1> USE Slots
<1>1. OffAtExe'
    BY DEF IInv, OffAtExe, Up
<1>2. Running'
    <2> SUFFICES ASSUME NEW p \in Proc, pc'[p] # "off"
                 PROVE  at[p] # "new" /\ (pc'[p] # "boot" => file'[at[p]] \in Version)
        BY DEF Running, Up, Image
    <2>1. CASE pc'[p] = pc[p]
        BY <2>1 DEF IInv, Running, Up, Image, Undisturbed
    <2>2. CASE pc[p] = "off" /\ pc'[p] = "boot"
        BY <2>2, Names DEF IInv, OffAtExe, Up
    <2>3. CASE pc[p] # "off" /\ Image(p) \in Version
        BY <2>3 DEF IInv, Running, Up, Image, Undisturbed
    <2> QED
        BY <2>1, <2>2, <2>3
<1>3. Updating'
    <2> SUFFICES ASSUME NEW u \in Updater, upd'[u] # "idle"
                 PROVE  /\ pc'[u] \in {"run", "open"}
                        /\ upd'[u] \in {"got", "staging"} => got'[u] \in Version
                        /\ upd'[u] = "placing" => /\ file'["exe"] # Absent
                                                  /\ file'["new"] # Absent
                                                  /\ ~InUse("exe")'
        BY DEF Updating
    <2>1. upd'[u] = upd[u] /\ pc[u] \in {"run", "open"}
        BY DEF IInv, Updating
    <2>2. pc'[u] \in {"run", "open"} /\ (upd'[u] \in {"got", "staging"} => got'[u] \in Version)
        BY <2>1 DEF IInv, Updating
    <2>3. ASSUME upd'[u] = "placing"
          PROVE  file'["exe"] # Absent /\ file'["new"] # Absent /\ ~InUse("exe")'
        <3>1. ~Accepts
            BY <2>1, <2>3 DEF Accepts
        <3>2. file["exe"] # Absent /\ file["new"] # Absent /\ ~InUse("exe")
            BY <2>1, <2>3 DEF IInv, Updating
        <3>3. ~InUse("exe")'
            BY <3>1, <3>2 DEF InUse, Up
        <3> QED
            BY <3>2, <3>3 DEF Undisturbed
    <2> QED
        BY <2>2, <2>3
<1> QED
    BY <1>1, <1>2, <1>3

\* The same where the files stay as they are.
LEMMA GoesKeeps ==
    ASSUME IInv, NEW p \in Proc, NEW s \in State \ {"off", "boot"}, Goes(p, s),
           pc[p] \notin {"off", "run", "open"}, Image(p) \in Version,
           file' = file, WorldTypes'
    PROVE  IInv'
<1>1. pc \in [Proc -> State]
    BY TypeParts DEF IInv, ProcTypes
<1>2. /\ pc' = [pc EXCEPT ![p] = s] /\ at' = at /\ upd' = upd /\ got' = got
    BY DEF Goes, updVars
<1>3. OffAtExe' /\ Running' /\ Updating'
    BY <1>1, <1>2, GoingOn DEF Undisturbed
<1>4. pc' \in [Proc -> State]
    BY <1>1, <1>2
<1>5. ProcTypes'
    BY <1>4, TypeParts DEF IInv, ProcTypes, Goes, updVars
<1>6. TypeOK'
    BY <1>5, TypeParts, TypePartsNext DEF IInv
<1>7. ImageSurvives'
    BY DEF IInv, ImageSurvives
<1> QED
    BY <1>3, <1>6, <1>7 DEF IInv

\* Cleaning up spares what some process runs from.
LEMMA CleanedSpares ==
    ASSUME IInv, NEW p \in Proc, Up(p), pc[p] # "boot" \/ Image(p) \in Version,
           file' = Cleaned
    PROVE  /\ file' \in [Path -> Content] /\ ImageSurvives'
           /\ Undisturbed(Proc) /\ file'["exe"] = file["exe"]
<1>1. file \in [Path -> Content] /\ at \in [Proc -> Path]
    BY TypeParts DEF IInv, ProcTypes
<1>2. file' \in [Path -> Content]
    BY <1>1, Contents DEF Cleaned
<1>3. \A f \in Path : f \notin Backup \/ InUse(f) => file'[f] = file[f]
    BY DEF Cleaned
<1>4. \A q \in Proc : Up(q) => file'[at[q]] = file[at[q]]
    BY <1>1, <1>3 DEF InUse
<1>5. file'["exe"] = file["exe"] /\ file'["new"] = file["new"]
    BY <1>3, Names
<1>6. ImageSurvives'
    BY <1>4, Survivor DEF ImageSurvives
<1> QED
    BY <1>2, <1>4, <1>5, <1>6 DEF Undisturbed

-----------------------------------------------------------------------------
(* The world                                                               *)

LEMMA WorldKeeps ==
    ASSUME IInv, Release \/ RequestStop
    PROVE  IInv'
<1>1. WorldTypes
    BY TypeParts DEF IInv
<1>2. WorldTypes'
    <2>1. CASE Release
        BY <1>1, <2>1, BoundAssumption DEF Release, WorldTypes, Version
    <2>2. CASE RequestStop
        BY <1>1, <2>2, EventType DEF RequestStop, WorldTypes
    <2> QED
        BY <2>1, <2>2
<1>3. file' = file /\ UNCHANGED procVars
    BY DEF Release, RequestStop
<1>4. OffAtExe' /\ Running' /\ Updating' /\ ImageSurvives'
    BY <1>3 DEF IInv, OffAtExe, Running, Updating, ImageSurvives, InUse, Up, Image,
                procVars, updVars
<1>5. ProcTypes'
    BY <1>3, TypeParts DEF IInv, ProcTypes, procVars, updVars
<1> QED
    BY <1>2, <1>3, <1>4, <1>5, TypeParts, TypePartsNext DEF IInv

LEMMA KillKeeps ==
    ASSUME IInv, NEW p \in Proc, Kill(p) \/ BootDies(p)
    PROVE  IInv'
<1>1. WorldTypes
    BY TypeParts DEF IInv
<1>2. WorldTypes'
    <2>1. CASE Kill(p)
        BY <1>1, <2>1, EventType DEF Kill, WorldTypes, Cut
    <2>2. CASE BootDies(p)
        BY <1>1, <2>2 DEF BootDies, WorldTypes, worldVars
    <2> QED
        BY <2>1, <2>2
<1>3. Processes({p}, {}, "none") /\ file' = file
    BY DEF Kill, BootDies
<1> QED
    BY <1>2, <1>3, ProcessesKeep

LEMMA RebootKeeps ==
    ASSUME IInv, Reboot
    PROVE  IInv'
<1>1. WorldTypes'
    BY TypeParts, EventType DEF IInv, Reboot, WorldTypes, Cut
<1>2. (CHOOSE d \in Daemon : TRUE) \in Daemon
    BY ProcessAssumption
<1>3. PICK started \in SUBSET Daemon : /\ started # {} => Accepts
                                       /\ Processes(Proc, started, "none")
    BY <1>2 DEF Reboot
<1>4. file' = file
    BY DEF Reboot
<1>5. started \in SUBSET Proc /\ \A u \in Updater : u \in started => u \in Proc
    BY <1>3, Slots
<1> QED
    BY <1>1, <1>3, <1>4, <1>5, ProcessesKeep

-----------------------------------------------------------------------------
(* main()                                                                  *)

LEMMA ParentTimeoutKeeps ==
    ASSUME IInv, NEW d \in Daemon, ParentTimeout(d)
    PROVE  IInv'
<1>1. WorldTypes'
    BY TypeParts DEF IInv, WorldTypes, ParentTimeout, worldVars
<1>2. /\ file' = file /\ pc' = pc /\ at' = at /\ UNCHANGED <<updVars, restart, hadBak>>
      /\ parent' = [parent EXCEPT ![d] = "none"]
    BY DEF ParentTimeout
<1>3. OffAtExe' /\ Running' /\ Updating' /\ ImageSurvives'
    BY <1>2 DEF IInv, OffAtExe, Running, Updating, ImageSurvives, InUse, Up, Image, updVars
<1>4. ProcTypes'
    BY <1>2, TypeParts DEF IInv, ProcTypes, updVars
<1> QED
    BY <1>1, <1>2, <1>3, <1>4, TypeParts, TypePartsNext DEF IInv

LEMMA BootKeeps ==
    ASSUME IInv, NEW p \in Proc, pc[p] = "boot", Works(Image(p)), MainStarts,
           Goes(p, "claim")
    PROVE  IInv'
<1>1. Image(p) \in Version /\ Up(p)
    BY DEF Works, Up
<1>2. /\ file' \in [Path -> Content] /\ ImageSurvives'
      /\ Undisturbed(Proc) /\ file'["exe"] = file["exe"]
    BY <1>1, CleanedSpares DEF MainStarts
<1>3. pc \in [Proc -> State]
    BY TypeParts DEF IInv, ProcTypes
<1>4. pc' = [pc EXCEPT ![p] = "claim"] /\ at' = at /\ upd' = upd /\ got' = got
    BY DEF Goes, updVars
<1>5. OffAtExe' /\ Running' /\ Updating'
    BY <1>1, <1>2, <1>3, <1>4, GoingOn
<1>6. pc' \in [Proc -> State]
    BY <1>3, <1>4 DEF State
<1>7. ProcTypes'
    BY <1>6, TypeParts DEF IInv, ProcTypes, Goes, updVars
<1>8. WorldTypes'
    BY TypeParts DEF IInv, WorldTypes, MainStarts, worldVars
<1> QED
    BY <1>2, <1>5, <1>7, <1>8, TypePartsNext DEF IInv

LEMMA BootstrapType ==
    ASSUME IInv
    PROVE  /\ Bootstrap \subseteq Daemon /\ (Bootstrap # {} => Accepts)
           /\ \A d \in Bootstrap : pc[d] = "off" /\ upd[d] = "idle"
<1>1. Bootstrap \subseteq FreeDaemon /\ (Bootstrap # {} => Accepts)
    BY OneOfType DEF Bootstrap
<1>2. \A d \in FreeDaemon : d \in Daemon /\ pc[d] = "off"
    BY DEF FreeDaemon, Up
<1> QED
    BY <1>1, <1>2, FreeIdle, Slots

LEMMA GuiBootKeeps ==
    ASSUME IInv, GuiBoot
    PROVE  IInv'
<1> USE Slots
<1>1. Image(GUI) \in Version /\ Up(GUI) /\ pc[GUI] = "boot"
    BY DEF GuiBoot, Works, Up
<1>2. /\ file' \in [Path -> Content] /\ ImageSurvives'
      /\ Undisturbed(Proc) /\ file'["exe"] = file["exe"]
    BY <1>1, CleanedSpares DEF GuiBoot
<1>3. pc \in [Proc -> State]
    BY TypeParts DEF IInv, ProcTypes
<1>4. /\ pc' = [p \in Proc |-> IF p = GUI THEN "open"
                               ELSE IF p \in Bootstrap THEN "boot" ELSE pc[p]]
      /\ at' = at /\ upd' = upd /\ got' = got
    BY DEF GuiBoot, updVars
<1>5. \A p \in Proc : \/ pc'[p] = pc[p]
                      \/ pc[p] = "off" /\ pc'[p] = "boot" /\ Accepts
                      \/ /\ pc[p] \notin {"off", "run", "open"}
                         /\ pc'[p] \notin {"off", "boot"}
                         /\ Image(p) \in Version
    BY <1>1, <1>4, BootstrapType
<1>6. OffAtExe' /\ Running' /\ Updating'
    BY <1>2, <1>4, <1>5, GoingOn
<1>7. pc' \in [Proc -> State]
    BY <1>3, <1>4 DEF State
<1>8. ProcTypes'
    BY <1>7, TypeParts DEF IInv, ProcTypes, GuiBoot, updVars
<1>9. WorldTypes'
    BY TypeParts DEF IInv, WorldTypes, GuiBoot, worldVars
<1> QED
    BY <1>2, <1>6, <1>8, <1>9, TypePartsNext DEF IInv

LEMMA RetryCleanupKeeps ==
    ASSUME IInv, NEW p \in Proc, RetryCleanup(p)
    PROVE  IInv'
<1>1. Up(p) /\ pc[p] # "boot" /\ file' = Cleaned
    BY DEF RetryCleanup, Up
<1>2. /\ file' \in [Path -> Content] /\ ImageSurvives'
      /\ Undisturbed(Proc) /\ file'["exe"] = file["exe"]
    BY <1>1, CleanedSpares
<1>3. UNCHANGED procVars
    BY DEF RetryCleanup
<1>4. OffAtExe' /\ Running' /\ Updating'
    BY <1>2, <1>3, GoingOn DEF procVars, updVars
<1>5. ProcTypes'
    BY <1>3, TypeParts DEF IInv, ProcTypes, procVars, updVars
<1>6. WorldTypes'
    BY TypeParts DEF IInv, WorldTypes, RetryCleanup, worldVars
<1> QED
    BY <1>2, <1>4, <1>5, <1>6, TypePartsNext DEF IInv

-----------------------------------------------------------------------------
(* The daemon                                                              *)

LEMMA ClaimKeeps ==
    ASSUME IInv, NEW d \in Daemon, Claim(d)
    PROVE  IInv'
<1> USE Slots
<1>1. pc \in [Proc -> State]
    BY TypeParts DEF IInv, ProcTypes
<1>2. /\ pc' = [p \in Proc |-> IF p = d THEN "run"
                               ELSE IF p \in OneOf(FreeWatchdog) THEN "boot" ELSE pc[p]]
      /\ at' = at /\ upd' = upd /\ got' = got /\ file' = file
    BY DEF Claim, updVars
<1>3. pc[d] = "claim" /\ Image(d) \in Version
    BY DEF IInv, Running, Up, Claim
<1>4. \A p \in OneOf(FreeWatchdog) : pc[p] = "off" /\ Accepts
    BY OneOfType DEF FreeWatchdog, Up
<1>5. \A p \in Proc : \/ pc'[p] = pc[p]
                      \/ pc[p] = "off" /\ pc'[p] = "boot" /\ Accepts
                      \/ /\ pc[p] \notin {"off", "run", "open"}
                         /\ pc'[p] \notin {"off", "boot"}
                         /\ Image(p) \in Version
    BY <1>2, <1>3, <1>4
<1>6. OffAtExe' /\ Running' /\ Updating'
    BY <1>2, <1>5, GoingOn DEF Undisturbed
<1>7. pc' \in [Proc -> State]
    BY <1>1, <1>2 DEF State
<1>8. ProcTypes'
    BY <1>7, TypeParts DEF IInv, ProcTypes, Claim, updVars
<1>9. WorldTypes'
    BY TypeParts DEF IInv, WorldTypes, Claim, worldVars
<1>10. ImageSurvives'
    BY <1>2 DEF IInv, ImageSurvives
<1>11. file' \in [Path -> Content]
    BY <1>2, TypeParts DEF IInv
<1> QED
    BY <1>6, <1>8, <1>9, <1>10, <1>11, TypePartsNext DEF IInv

LEMMA DaemonEndsKeeps ==
    ASSUME IInv, NEW d \in Daemon,
           ClaimFails(d) \/ StartupRaises(d) \/ RestartForUpdate(d) \/ ObeySignal(d)
    PROVE  IInv'
<1>1. WorldTypes
    BY TypeParts DEF IInv
<1>2. WorldTypes'
    <2>1. CASE ClaimFails(d)
        BY <1>1, <2>1 DEF ClaimFails, WorldTypes, worldVars
    <2>2. CASE StartupRaises(d)
        BY <1>1, <2>2, EventType DEF StartupRaises, WorldTypes, worldVars
    <2>3. CASE RestartForUpdate(d)
        BY <1>1, <2>3 DEF RestartForUpdate, WorldTypes, worldVars, Cut
    <2>4. CASE ObeySignal(d)
        BY <1>1, <2>4 DEF ObeySignal, WorldTypes, worldVars, Cut
    <2> QED
        BY <2>1, <2>2, <2>3, <2>4
<1>3. Processes({d}, {}, "none") /\ file' = file
    BY DEF ClaimFails, StartupRaises, RestartForUpdate, ObeySignal
<1>4. {d} \in SUBSET Proc
    BY Slots
<1> QED
    BY <1>2, <1>3, <1>4, ProcessesKeep

LEMMA HeartbeatShape ==
    ASSUME NEW d \in Daemon, Heartbeat(d)
    PROVE  \E old \in SUBSET Watchdog, new \in SUBSET Watchdog :
             /\ new \subseteq old /\ (new # {} => Accepts)
             /\ Processes(old, new, "none")
             /\ file' = [f \in Path |->
                   IF /\ f \in Backup
                      /\ ~\E p \in Proc \ old : Up(p) /\ at[p] = f
                      /\ old = {} \/ Accepts
                   THEN Absent ELSE file[f]]
<1> DEFINE old == IF file["bak"] = Absent THEN {} ELSE Stale
           new == IF old = {} THEN {} ELSE OneOf(old)
<1>1. old \in SUBSET Watchdog
    BY DEF Stale
<1>2. new \subseteq old /\ (new # {} => Accepts)
    BY OneOfType
<1>3. /\ Processes(old, new, "none")
      /\ file' = [f \in Path |->
            IF /\ f \in Backup
               /\ ~\E p \in Proc \ old : Up(p) /\ at[p] = f
               /\ old = {} \/ Accepts
            THEN Absent ELSE file[f]]
    BY Zenon DEF Heartbeat
<1> QED
    BY <1>1, <1>2, <1>3

LEMMA HeartbeatSafe ==
    ASSUME IInv, NEW d \in Daemon, Heartbeat(d)
    PROVE  IInv'
<1> USE Slots
<1>1. PICK old \in SUBSET Watchdog, new \in SUBSET Watchdog :
        /\ new \subseteq old /\ (new # {} => Accepts)
        /\ Processes(old, new, "none")
        /\ file' = [f \in Path |->
              IF /\ f \in Backup
                 /\ ~\E p \in Proc \ old : Up(p) /\ at[p] = f
                 /\ old = {} \/ Accepts
              THEN Absent ELSE file[f]]
    BY HeartbeatShape
<1>2. file \in [Path -> Content] /\ at \in [Proc -> Path]
    BY TypeParts DEF IInv, ProcTypes
<1>3. file' \in [Path -> Content]
    BY <1>1, <1>2, Contents
<1>4. \A p \in Proc \ old : Up(p) => file'[at[p]] = file[at[p]]
    BY <1>1, <1>2
<1>5. file'["exe"] = file["exe"] /\ file'["new"] = file["new"]
    BY <1>1, Names
<1>6. OffAtExe' /\ Running' /\ Updating'
    BY <1>1, <1>4, <1>5, AcceptsNoCopy, ProcessesSafe DEF Undisturbed
<1>7. ProcTypes'
    BY <1>1, ProcessesTyped, TypeParts DEF IInv
<1>8. WorldTypes'
    BY TypeParts DEF IInv, WorldTypes, Heartbeat, worldVars
<1>9. ImageSurvives'
    <2>1. d \in Proc \ old /\ Up(d) /\ pc[d] # "boot"
        BY <1>1 DEF Heartbeat, Up
    <2>2. at[d] \in Path \ {"new"} /\ file[at[d]] \in Version
        BY <2>1, Survivor
    <2> QED
        BY <1>4, <2>1, <2>2 DEF ImageSurvives
<1> QED
    BY <1>3, <1>6, <1>7, <1>8, <1>9, TypePartsNext DEF IInv

-----------------------------------------------------------------------------
(* The update thread                                                       *)

\* A step of an update thread is safe if it spares the images in use, and
\* copies that are under way.
CopiesGoOn ==
    \A v \in Updater :
        upd'[v] = "placing" => /\ file'["exe"] # Absent /\ file'["new"] # Absent
                               /\ ~InUse("exe")'

ImagesKept ==
    \A p \in Proc :
        /\ ~Up(p) => at'[p] = at[p]
        /\ Up(p) => at'[p] # "new"
        /\ Up(p) /\ pc[p] # "boot" => file'[at'[p]] = file[at[p]]

LEMMA SwapSafe ==
    ASSUME IInv, NEW u \in Updater, pc[u] \in {"run", "open"}, at' \in [Proc -> Path],
           \/ pc' = pc
           \/ pc' = [pc EXCEPT ![u] = "ask"] /\ upd'[u] = "idle",
           ImagesKept, CopiesGoOn,
           \A v \in Updater \ {u} : upd'[v] = upd[v] /\ got'[v] = got[v],
           upd'[u] \in {"got", "staging"} => got'[u] \in Version
    PROVE  OffAtExe' /\ Running' /\ Updating' /\ ImageSurvives'
<1> USE Slots
<1>1. pc \in [Proc -> State]
    BY TypeParts DEF IInv, ProcTypes
<1>2. \A p \in Proc : /\ pc'[p] = pc[p] \/ (p = u /\ pc'[u] = "ask")
                      /\ Up(p) <=> pc'[p] # "off"
                      /\ pc'[p] = "boot" <=> pc[p] = "boot"
    <2>1. CASE pc' = pc
        BY <2>1 DEF Up
    <2>2. CASE pc' = [pc EXCEPT ![u] = "ask"]
        BY <1>1, <2>2 DEF Up
    <2> QED
        BY <2>1, <2>2
<1>3. OffAtExe'
    BY <1>2 DEF IInv, OffAtExe, ImagesKept, Up
<1>4. Running'
    BY <1>2 DEF IInv, Running, ImagesKept, Up, Image
<1>5. Updating'
    <2> SUFFICES ASSUME NEW v \in Updater, upd'[v] # "idle"
                 PROVE  /\ pc'[v] \in {"run", "open"}
                        /\ upd'[v] \in {"got", "staging"} => got'[v] \in Version
        BY DEF Updating, CopiesGoOn
    <2>1. CASE v = u
        BY <1>1, <2>1
    <2>2. CASE v # u
        BY <1>2, <2>2 DEF IInv, Updating
    <2> QED
        BY <2>1, <2>2
<1>6. ImageSurvives'
    <2>1. at'[u] \in Path \ {"new"} /\ file'[at'[u]] = file[at[u]] /\ file[at[u]] \in Version
        BY DEF IInv, Running, Up, Image, ImagesKept
    <2> QED
        BY <2>1 DEF ImageSurvives
<1> QED
    BY <1>3, <1>4, <1>5, <1>6

\* What a thread notes of itself.
Notes(u, s, v, b) ==
    /\ s \in {"idle", "got", "staging", "staged", "aside", "placing", "placed"}
    /\ v \in {Absent} \union Version /\ b \in Backup
    /\ s \in {"got", "staging"} => v \in Version
    /\ upd' = [upd EXCEPT ![u] = s] /\ got' = [got EXCEPT ![u] = v]
    /\ aside' = [aside EXCEPT ![u] = b]

\* Putting the parts of a step together.
LEMMA SwapKeeps ==
    ASSUME IInv, NEW u \in Updater, pc[u] \in {"run", "open"}, at' \in [Proc -> Path],
           \/ pc' = pc
           \/ pc' = [pc EXCEPT ![u] = "ask"] /\ upd'[u] = "idle",
           ImagesKept, CopiesGoOn, SwapOnly,
           NEW s, NEW v, NEW b, Notes(u, s, v, b),
           file' \in [Path -> Content], WorldTypes'
    PROVE  IInv'
<1>1. ProcTypes
    BY TypeParts DEF IInv
<1>2. /\ \A w \in Updater \ {u} : upd'[w] = upd[w] /\ got'[w] = got[w]
      /\ upd'[u] = s /\ got'[u] = v
      /\ s \in {"got", "staging"} => v \in Version
    BY <1>1 DEF ProcTypes, Notes
<1>3. OffAtExe' /\ Running' /\ Updating' /\ ImageSurvives'
    BY <1>2, SwapSafe
<1>4. pc' \in [Proc -> State]
    BY <1>1 DEF ProcTypes, State
<1>5. /\ upd' \in [Updater -> {"idle", "got", "staging", "staged", "aside", "placing",
                               "placed"}]
      /\ got' \in [Updater -> {Absent} \union Version] /\ aside' \in [Updater -> Backup]
    BY <1>1 DEF ProcTypes, Notes
<1>6. ProcTypes'
    BY <1>1, <1>4, <1>5 DEF ProcTypes, SwapOnly
<1> QED
    BY <1>3, <1>6, TypePartsNext DEF IInv

\* What the steps of a thread start from.
LEMMA ThreadFacts ==
    ASSUME IInv, NEW u \in Updater
    PROVE  /\ upd[u] # "idle" => pc[u] \in {"run", "open"}
           /\ upd[u] \in {"idle", "got", "staging", "staged", "aside", "placing", "placed"}
           /\ got[u] \in {Absent} \union Version /\ aside[u] \in Backup
           /\ at \in [Proc -> Path] /\ file \in [Path -> Content]
           /\ upd = [upd EXCEPT ![u] = upd[u]] /\ got = [got EXCEPT ![u] = got[u]]
           /\ aside = [aside EXCEPT ![u] = aside[u]]
<1>1. ProcTypes /\ file \in [Path -> Content]
    BY TypeParts DEF IInv
<1> QED
    BY <1>1 DEF IInv, Updating, ProcTypes

\* Without a change but to the staging file, images are kept.
LEMMA StagingKeepsImages ==
    ASSUME IInv, at' = at, NEW v, file' = [file EXCEPT !["new"] = v]
    PROVE  ImagesKept
<1>1. file \in [Path -> Content] /\ at \in [Proc -> Path]
    BY TypeParts DEF IInv, ProcTypes
<1> QED
    BY <1>1 DEF IInv, Running, ImagesKept

LEMMA DownloadKeeps ==
    ASSUME IInv, NEW u \in Updater, Download(u)
    PROVE  IInv'
<1>1. WorldTypes /\ latest \in {Absent} \union Version /\ latest \in Version
    BY TypeParts DEF IInv, WorldTypes
<1>2. WorldTypes'
    BY <1>1, EventType DEF Download, SwapOnly, WorldTypes
<1>3. /\ pc[u] \in {"run", "open"} /\ SwapOnly /\ pc' = pc /\ at' = at /\ file' = file
      /\ upd' = [upd EXCEPT ![u] = "got"] /\ got' = [got EXCEPT ![u] = latest]
      /\ aside' = aside
    BY DEF Download, Thread
<1>4. ImagesKept
    BY <1>3 DEF IInv, Running, ImagesKept
<1>5. CopiesGoOn
    BY <1>3, ThreadFacts DEF IInv, Updating, CopiesGoOn, InUse, Up
<1>6. Notes(u, "got", latest, aside[u])
    BY <1>1, <1>3, ThreadFacts DEF Notes
<1>7. at' \in [Proc -> Path] /\ file' \in [Path -> Content]
    BY <1>3, ThreadFacts
<1> QED
    BY <1>1, <1>2, <1>3, <1>4, <1>5, <1>6, <1>7, SwapKeeps

\* The end of a thread's work.
LEMMA ThroughKeeps ==
    ASSUME IInv, NEW u \in Updater, pc[u] \in {"run", "open"}, at' \in [Proc -> Path],
           NEW s \in {"idle", "placed"}, Through(u, s),
           \/ pc' = pc
           \/ pc' = [pc EXCEPT ![u] = "ask"] /\ s = "idle",
           ImagesKept, CopiesGoOn, SwapOnly,
           file' \in [Path -> Content], WorldTypes'
    PROVE  IInv'
<1>1. Notes(u, s, Absent, "bak")
    BY Names DEF Notes, Through, Thread
<1>2. upd'[u] = s
    BY <1>1, TypeParts DEF IInv, ProcTypes, Notes
<1> QED
    BY <1>1, <1>2, SwapKeeps

LEMMA StageBeginKeeps ==
    ASSUME IInv, NEW u \in Updater, StageBegin(u)
    PROVE  IInv'
<1>1. WorldTypes'
    BY TypeParts DEF IInv, WorldTypes, StageBegin, SwapOnly, worldVars, Shares
<1>2. /\ upd[u] = "got" /\ pc[u] \in {"run", "open"} /\ SwapOnly /\ pc' = pc /\ at' = at
      /\ at \in [Proc -> Path] /\ file \in [Path -> Content]
    BY ThreadFacts DEF StageBegin
<1>3. CASE /\ Thread(u, "staging") /\ file' = [file EXCEPT !["new"] = Torn]
           /\ UNCHANGED <<got, aside>>
    <2>1. upd' = [upd EXCEPT ![u] = "staging"] /\ got' = got /\ aside' = aside
        BY <1>3 DEF Thread
    <2>2. ImagesKept
        BY <1>2, <1>3, StagingKeepsImages
    <2>3. file' \in [Path -> Content]
        BY <1>2, <1>3, Contents
    <2>4. CopiesGoOn
        <3> SUFFICES ASSUME NEW v \in Updater, upd'[v] = "placing"
                     PROVE  file'["exe"] # Absent /\ file'["new"] # Absent /\ ~InUse("exe")'
            BY DEF CopiesGoOn
        <3>1. upd[v] = "placing"
            BY <2>1, ThreadFacts
        <3>2. file["exe"] # Absent /\ ~InUse("exe")
            BY <3>1 DEF IInv, Updating
        <3> QED
            BY <1>2, <1>3, <3>2, Names, Contents DEF InUse, Up
    <2>5. got[u] \in Version
        BY <1>2 DEF IInv, Updating
    <2>6. Notes(u, "staging", got[u], aside[u])
        BY <2>1, <2>5, ThreadFacts DEF Notes
    <2> QED
        BY <1>1, <1>2, <2>2, <2>3, <2>4, <2>6, SwapKeeps
<1>4. CASE Opened(u) /\ Through(u, "idle") /\ UNCHANGED file
    <2>1. ImagesKept
        BY <1>2, <1>4 DEF IInv, Running, ImagesKept
    <2>2. CopiesGoOn
        BY <1>2, <1>4, ThreadFacts DEF IInv, Updating, CopiesGoOn, InUse, Up, Through, Thread
    <2> QED
        BY <1>1, <1>2, <1>4, <2>1, <2>2, ThroughKeeps
<1> QED
    BY <1>3, <1>4 DEF StageBegin

LEMMA StageEndKeeps ==
    ASSUME IInv, NEW u \in Updater, StageEnd(u)
    PROVE  IInv'
<1>1. WorldTypes'
    BY TypeParts DEF IInv, WorldTypes, StageEnd, SwapOnly, worldVars
<1>2. /\ upd[u] = "staging" /\ pc[u] \in {"run", "open"} /\ SwapOnly /\ pc' = pc /\ at' = at
      /\ at \in [Proc -> Path] /\ file \in [Path -> Content]
    BY ThreadFacts DEF StageEnd
<1>3. /\ upd' = [upd EXCEPT ![u] = "staged"] /\ got' = got /\ aside' = aside
      /\ file' = [file EXCEPT !["new"] = got[u]]
    BY DEF StageEnd, Thread
<1>4. got[u] \in Version
    BY <1>2 DEF IInv, Updating
<1>5. ImagesKept
    BY <1>2, <1>3, StagingKeepsImages
<1>6. file' \in [Path -> Content]
    BY <1>2, <1>3, <1>4, Contents
<1>7. CopiesGoOn
    <2> SUFFICES ASSUME NEW v \in Updater, upd'[v] = "placing"
                 PROVE  file'["exe"] # Absent /\ file'["new"] # Absent /\ ~InUse("exe")'
        BY DEF CopiesGoOn
    <2>1. upd[v] = "placing"
        BY <1>3, ThreadFacts
    <2>2. file["exe"] # Absent /\ ~InUse("exe")
        BY <2>1 DEF IInv, Updating
    <2> QED
        BY <1>2, <1>3, <1>4, <2>2, Names, Contents DEF InUse, Up
<1>8. Notes(u, "staged", got[u], aside[u])
    BY <1>3, <1>4, ThreadFacts DEF Notes
<1> QED
    BY <1>1, <1>2, <1>5, <1>6, <1>7, <1>8, SwapKeeps

LEMMA SetAsideImages ==
    ASSUME IInv, NEW u \in Updater, SetAside(u)
    PROVE  /\ ImagesKept /\ file'["new"] = file["new"]
           /\ at' \in [Proc -> Path] /\ file' \in [Path -> Content]
<1> USE Slots
<1>1. at \in [Proc -> Path] /\ file \in [Path -> Content]
    BY ThreadFacts
<1>2. PICK t \in Target :
        /\ file' = [file EXCEPT ![t] = file["exe"], !["exe"] = Absent]
        /\ at' = [p \in Proc |-> IF Up(p) /\ at[p] = "exe" THEN t ELSE at[p]]
    BY Zenon DEF SetAside
<1>3. t \in Backup /\ t # "new" /\ t # "exe" /\ t \in Path
    BY Names DEF Target
<1>4. InUse(t) => file[t] = Absent
    BY DEF Target
<1>5. ImagesKept
    <2> SUFFICES ASSUME NEW p \in Proc, Up(p)
                 PROVE  /\ at'[p] # "new"
                        /\ pc[p] # "boot" => file'[at'[p]] = file[at[p]]
        BY <1>2 DEF ImagesKept
    <2>1. at[p] # "new" /\ (pc[p] # "boot" => file[at[p]] \in Version) /\ at[p] \in Path
        BY <1>1 DEF IInv, Running, Image
    <2>2. CASE at[p] = "exe"
        BY <1>1, <1>2, <1>3, <2>1, <2>2
    <2>3. CASE at[p] = t
        <3>1. file[t] = Absent
            BY <1>4, <2>3 DEF InUse
        <3>2. pc[p] = "boot"
            BY <2>1, <2>3, <3>1, Contents
        <3> QED
            BY <1>2, <1>3, <2>3, <3>2
    <2>4. CASE at[p] # "exe" /\ at[p] # t
        BY <1>1, <1>2, <1>3, <2>1, <2>4
    <2> QED
        BY <2>2, <2>3, <2>4
<1> QED
    BY <1>1, <1>2, <1>3, <1>5, Names, Contents

LEMMA SetAsideKeeps ==
    ASSUME IInv, NEW u \in Updater, SetAside(u)
    PROVE  IInv'
<1>1. WorldTypes'
    BY TypeParts DEF IInv, WorldTypes, SetAside, SwapOnly, worldVars
<1>2. /\ upd[u] = "staged" /\ pc[u] \in {"run", "open"} /\ SwapOnly /\ pc' = pc
      /\ \A v \in Updater : upd[v] # "placing"
    BY ThreadFacts DEF SetAside
<1>3. PICK t \in Target : aside' = [aside EXCEPT ![u] = t]
    BY Zenon DEF SetAside
<1>4. t \in Backup
    BY Names DEF Target
<1>5. Notes(u, "aside", got[u], t)
    BY <1>3, <1>4, ThreadFacts DEF Notes, SetAside, Thread
<1>6. CopiesGoOn
    BY <1>2, <1>5, ThreadFacts DEF CopiesGoOn, Notes
<1> QED
    BY <1>1, <1>2, <1>5, <1>6, SetAsideImages, SwapKeeps

LEMMA SetAsideFailsKeeps ==
    ASSUME IInv, NEW u \in Updater, SetAsideFails(u)
    PROVE  IInv'
<1>1. WorldTypes'
    BY TypeParts DEF IInv, WorldTypes, SetAsideFails, SwapOnly, worldVars
<1>2. /\ upd[u] = "staged" /\ pc[u] \in {"run", "open"} /\ SwapOnly /\ pc' = pc /\ at' = at
      /\ at \in [Proc -> Path] /\ file \in [Path -> Content] /\ Through(u, "idle")
      /\ file' = [file EXCEPT !["new"] = DropStaged(u)]
    BY ThreadFacts DEF SetAsideFails
<1>3. ImagesKept
    BY <1>2, StagingKeepsImages
<1>4. file' \in [Path -> Content]
    BY <1>2, Names, Contents DEF DropStaged
<1>5. CopiesGoOn
    <2> SUFFICES ASSUME NEW v \in Updater, upd'[v] = "placing"
                 PROVE  file'["exe"] # Absent /\ file'["new"] # Absent /\ ~InUse("exe")'
        BY DEF CopiesGoOn
    <2>1. upd[v] = "placing" /\ v # u
        BY <1>2, ThreadFacts DEF Through, Thread
    <2>2. file["exe"] # Absent /\ file["new"] # Absent /\ ~InUse("exe")
        BY <2>1 DEF IInv, Updating
    <2>3. DropStaged(u) = file["new"]
        BY <2>1 DEF DropStaged, Opened
    <2> QED
        BY <1>2, <2>2, <2>3, Names DEF InUse, Up
<1> QED
    BY <1>1, <1>2, <1>3, <1>4, <1>5, ThroughKeeps

LEMMA PlaceBeginKeeps ==
    ASSUME IInv, NEW u \in Updater, PlaceBegin(u)
    PROVE  IInv'
<1>1. WorldTypes'
    BY TypeParts DEF IInv, WorldTypes, PlaceBegin, SwapOnly, worldVars
<1>2. /\ upd[u] = "aside" /\ pc[u] \in {"run", "open"} /\ SwapOnly /\ pc' = pc /\ at' = at
      /\ at \in [Proc -> Path] /\ file \in [Path -> Content]
      /\ file' = [file EXCEPT !["exe"] = Torn] /\ file["new"] # Absent /\ ~InUse("exe")
    BY ThreadFacts DEF PlaceBegin, Placeable
<1>3. ImagesKept
    BY <1>2 DEF IInv, Running, ImagesKept, InUse
<1>4. file' \in [Path -> Content]
    BY <1>2, Names, Contents
<1>5. CopiesGoOn
    BY <1>2, Names, Contents DEF CopiesGoOn, InUse, Up
<1>6. Notes(u, "placing", got[u], aside[u])
    BY ThreadFacts DEF Notes, PlaceBegin, Thread
<1> QED
    BY <1>1, <1>2, <1>3, <1>4, <1>5, <1>6, SwapKeeps

LEMMA RestoreImages ==
    ASSUME IInv, NEW b \in Backup, Renamed(b, "exe")
    PROVE  ImagesKept /\ at' \in [Proc -> Path] /\ file' \in [Path -> Content]
<1> USE Slots
<1>1. /\ file["exe"] = Absent
      /\ file' = [file EXCEPT !["exe"] = file[b], ![b] = Absent]
      /\ at' = [p \in Proc |-> IF Up(p) /\ at[p] = b THEN "exe" ELSE at[p]]
    BY DEF Renamed
<1>2. at \in [Proc -> Path] /\ file \in [Path -> Content]
    BY TypeParts DEF IInv, ProcTypes
<1>3. b \in Path /\ b # "exe" /\ b # "new"
    BY Names
<1>4. ImagesKept
    <2> SUFFICES ASSUME NEW p \in Proc, Up(p)
                 PROVE  /\ at'[p] # "new"
                        /\ pc[p] # "boot" => file'[at'[p]] = file[at[p]]
        BY <1>1 DEF ImagesKept
    <2>1. at[p] # "new" /\ (pc[p] # "boot" => file[at[p]] \in Version) /\ at[p] \in Path
        BY <1>2 DEF IInv, Running, Image
    <2>2. CASE at[p] = b
        BY <1>1, <1>2, <1>3, <2>1, <2>2, Names
    <2>3. CASE at[p] # b
        BY <1>1, <1>2, <1>3, <2>1, <2>3, Names, Contents
    <2> QED
        BY <2>2, <2>3
<1> QED
    BY <1>1, <1>2, <1>3, <1>4, Names, Contents

LEMMA PlaceFailsKeeps ==
    ASSUME IInv, NEW u \in Updater, PlaceFails(u)
    PROVE  IInv'
<1>1. WorldTypes'
    BY TypeParts, EventType DEF IInv, WorldTypes, PlaceFails, SwapOnly, worldVars
<1>2. /\ pc[u] \in {"run", "open"} /\ SwapOnly /\ pc' = pc /\ Through(u, "idle")
      /\ at \in [Proc -> Path] /\ file \in [Path -> Content] /\ aside[u] \in Backup
    BY ThreadFacts DEF PlaceFails
<1>3. \A v \in Updater : upd'[v] = "placing" => upd[v] = "placing"
    BY <1>2, ThreadFacts DEF Through, Thread
<1>4. CASE Renamed(aside[u], "exe")
    <2>1. CopiesGoOn
        BY <1>3, <1>4 DEF IInv, Updating, CopiesGoOn, Renamed
    <2> QED
        BY <1>1, <1>2, <1>4, <2>1, RestoreImages, ThroughKeeps
<1>5. CASE UNCHANGED <<file, at>>
    <2>1. ImagesKept
        BY <1>5 DEF IInv, Running, ImagesKept
    <2>2. CopiesGoOn
        BY <1>2, <1>3, <1>5 DEF IInv, Updating, CopiesGoOn, InUse, Up
    <2> QED
        BY <1>1, <1>2, <1>5, <2>1, <2>2, ThroughKeeps
<1> QED
    BY <1>4, <1>5 DEF PlaceFails

LEMMA PlaceEndKeeps ==
    ASSUME IInv, NEW u \in Updater, PlaceEnd(u)
    PROVE  IInv'
<1> USE Slots
<1>1. WorldTypes'
    BY TypeParts DEF IInv, WorldTypes, PlaceEnd, SwapOnly, worldVars
<1>2. /\ pc[u] \in {"run", "open"} /\ SwapOnly /\ at' = at
      /\ at \in [Proc -> Path] /\ file \in [Path -> Content]
      /\ upd[u] = "placing"
      /\ file' = [file EXCEPT !["exe"] = file["new"], !["new"] = DropStaged(u)]
    BY ThreadFacts DEF PlaceEnd
<1>3. file["new"] # Absent /\ ~InUse("exe")
    BY <1>2 DEF IInv, Updating
<1>4. PICK s \in {"idle", "placed"} :
        /\ Through(u, s)
        /\ \/ pc' = pc
           \/ pc' = [pc EXCEPT ![u] = "ask"] /\ s = "idle"
    <2>1. CASE u = GUI /\ ~Opened(u)
        <3>1. Through(u, "idle") /\ pc' = [pc EXCEPT ![u] = "ask"]
            BY <2>1 DEF PlaceEnd
        <3> QED
            BY <3>1
    <2>2. CASE ~(u = GUI /\ ~Opened(u))
        <3>1. pc' = pc
            BY <2>2 DEF PlaceEnd
        <3>2. Through(u, "idle") \/ Through(u, "placed")
            BY DEF PlaceEnd
        <3> QED
            BY <3>1, <3>2
    <2> QED
        BY <2>1, <2>2
<1>5. ImagesKept
    BY <1>2, <1>3 DEF IInv, Running, ImagesKept, InUse
<1>6. file' \in [Path -> Content]
    BY <1>2, Names, Contents DEF DropStaged
<1>7. CopiesGoOn
    <2> SUFFICES ASSUME NEW v \in Updater, upd'[v] = "placing"
                 PROVE  file'["exe"] # Absent /\ file'["new"] # Absent /\ ~InUse("exe")'
        BY DEF CopiesGoOn
    <2>1. upd[v] = "placing" /\ v # u
        <3>1. upd' = [upd EXCEPT ![u] = s] /\ s # "placing"
            BY <1>4 DEF Through, Thread
        <3>2. upd \in [Updater -> {"idle", "got", "staging", "staged", "aside", "placing",
                                  "placed"}]
            BY TypeParts DEF IInv, ProcTypes
        <3> QED
            BY <3>1, <3>2
    <2>2. DropStaged(u) = file["new"]
        BY <2>1 DEF DropStaged, Opened
    <2>3. file'["exe"] = file["new"] /\ file'["new"] = file["new"]
        BY <1>2, <2>2, Names
    <2>4. \A p \in Proc : Up(p)' => Up(p)
        <3>1. pc \in [Proc -> State]
            BY TypeParts DEF IInv, ProcTypes
        <3>2. CASE pc' = pc
            BY <3>2 DEF Up
        <3>3. CASE pc' = [pc EXCEPT ![u] = "ask"]
            BY <1>2, <3>1, <3>3 DEF Up
        <3> QED
            BY <1>4, <3>2, <3>3
    <2> QED
        BY <1>2, <1>3, <2>3, <2>4 DEF InUse
<1> QED
    BY <1>1, <1>2, <1>4, <1>5, <1>6, <1>7, ThroughKeeps

LEMMA RelaunchKeeps ==
    ASSUME IInv, NEW d \in Daemon, Relaunch(d)
    PROVE  IInv'
<1> USE Slots
<1>1. WorldTypes'
    BY TypeParts, EventType DEF IInv, WorldTypes, Relaunch, worldVars
<1>2. PICK new \in SUBSET FreeDaemon :
        /\ new # {} => Accepts
        /\ parent' = [e \in Daemon |-> IF e \in new THEN d ELSE parent[e]] \/ parent' = parent
        /\ pc' = [p \in Proc |-> IF p \in new THEN "boot" ELSE pc[p]]
    BY OneOfType DEF Relaunch
<1>3. /\ at' = at /\ got' = got /\ aside' = aside /\ hadBak' = hadBak /\ file' = file
      /\ upd' = [upd EXCEPT ![d] = "idle"] /\ restart' = [restart EXCEPT ![d] = TRUE]
    BY DEF Relaunch, Thread
<1>4. ProcTypes
    BY TypeParts DEF IInv
<1>5. \A p \in new : pc[p] = "off"
    BY DEF FreeDaemon, Up
<1>6. \A u \in Updater : upd'[u] = upd[u] \/ upd'[u] = "idle"
    BY <1>3, <1>4 DEF ProcTypes
<1>7. \A p \in Proc : pc'[p] = pc[p] \/ (pc[p] = "off" /\ pc'[p] = "boot" /\ Accepts)
    BY <1>2, <1>5
<1>8. OffAtExe' /\ Running' /\ Updating'
    BY <1>3, <1>6, <1>7, GoingOn DEF Undisturbed
<1>9. pc' \in [Proc -> State] /\ parent' \in [Daemon -> Daemon \union {"none"}]
    BY <1>2, <1>4 DEF ProcTypes, State
<1>10. ProcTypes'
    BY <1>3, <1>4, <1>9 DEF ProcTypes
<1>11. ImageSurvives' /\ file' \in [Path -> Content]
    BY <1>3, TypeParts DEF IInv, ImageSurvives
<1> QED
    BY <1>1, <1>8, <1>10, <1>11, TypePartsNext DEF IInv

-----------------------------------------------------------------------------
(* The GUI                                                                 *)

LEMMA GuiProcessesKeep ==
    ASSUME IInv, GuiOpen \/ GuiClose
    PROVE  IInv'
<1> USE Slots
<1>1. WorldTypes'
    BY TypeParts DEF IInv, WorldTypes, GuiOpen, GuiClose, worldVars, Cut
<1>2. CASE GuiOpen
    <2>1. upd[GUI] = "idle"
        BY <1>2, FreeIdle DEF GuiOpen, Up
    <2>2. Processes({}, {GUI}, "none") /\ Accepts /\ file' = file
        BY <1>2 DEF GuiOpen
    <2>3. {GUI} \in SUBSET Proc /\ \A u \in Updater : u \in {GUI} => upd[u] = "idle"
        BY <2>1
    <2> QED
        BY <1>1, <2>2, <2>3, ProcessesKeep
<1>3. CASE GuiClose
    <2>1. Processes({GUI}, Bootstrap, "none") /\ file' = file
        BY <1>3 DEF GuiClose
    <2>2. /\ Bootstrap \in SUBSET Proc /\ (Bootstrap # {} => Accepts)
          /\ \A u \in Updater : u \in Bootstrap => upd[u] = "idle"
        BY BootstrapType
    <2> QED
        BY <1>1, <2>1, <2>2, ProcessesKeep
<1> QED
    BY <1>2, <1>3

LEMMA GuiAnswerKeeps ==
    ASSUME IInv, GuiDecline \/ GuiConfirm \/ GuiRelaunch
    PROVE  IInv'
<1> USE Slots
<1>1. WorldTypes'
    BY TypeParts, EventType DEF IInv, WorldTypes, GuiDecline, GuiConfirm, GuiRelaunch, worldVars
<1>2. file' = file /\ pc[GUI] \in {"ask", "signalled"}
    BY DEF GuiDecline, GuiConfirm, GuiRelaunch
<1>3. Image(GUI) \in Version
    BY <1>2 DEF IInv, Running, Up
<1>4. CASE Goes(GUI, "open") \/ Goes(GUI, "signalled")
    BY <1>1, <1>2, <1>3, <1>4, GoesKeeps DEF State
<1>5. CASE Processes({}, {GUI}, "none") /\ Accepts
    <2>1. {GUI} \in SUBSET Proc /\ \A u \in Updater : u \in {GUI} => upd[u] = "idle"
        BY <1>2, FreeIdle
    <2> QED
        BY <1>1, <1>2, <1>5, <2>1, ProcessesKeep
<1> QED
    BY <1>4, <1>5 DEF GuiDecline, GuiConfirm, GuiRelaunch

-----------------------------------------------------------------------------
(* The watchdog                                                            *)

LEMMA WatchdogEnds ==
    ASSUME IInv, NEW w \in Watchdog, Processes({w}, {}, "none"), file' = file, WorldTypes'
    PROVE  IInv'
<1>1. {w} \in SUBSET Proc
    BY Slots
<1> QED
    BY <1>1, ProcessesKeep

LEMMA WatchdogClaimKeeps ==
    ASSUME IInv, NEW w \in Watchdog, WatchdogClaim(w) \/ Awaited(w)
    PROVE  IInv'
<1> USE Slots
<1>1. WorldTypes' /\ file' = file
    BY TypeParts DEF IInv, WorldTypes, WatchdogClaim, Awaited, worldVars
<1>2. CASE Processes({w}, {}, "none")
    BY <1>1, <1>2, WatchdogEnds
<1>3. CASE Goes(w, "watch") /\ pc[w] = "claim"
    <2>1. Image(w) \in Version
        BY <1>3 DEF IInv, Running, Up
    <2> QED
        BY <1>1, <1>3, <2>1, GoesKeeps DEF State
<1> QED
    BY <1>2, <1>3 DEF WatchdogClaim, Awaited

LEMMA LookKeeps ==
    ASSUME IInv, NEW w \in Watchdog, Look(w)
    PROVE  IInv'
<1> USE Slots
<1>1. WorldTypes' /\ file' = file /\ pc[w] = "watch"
    BY TypeParts DEF IInv, WorldTypes, Look, worldVars
<1>2. CASE Processes({w}, {}, "none")
    BY <1>1, <1>2, WatchdogEnds
<1>3. CASE /\ pc' = [pc EXCEPT ![w] = "await"]
           /\ hadBak' = (file["bak"] # Absent)
           /\ UNCHANGED <<at, parent, updVars, restart>>
    <2>1. ProcTypes /\ Image(w) \in Version
        BY <1>1, TypeParts DEF IInv, Running, Up
    <2>2. \A p \in Proc : \/ pc'[p] = pc[p]
                          \/ /\ pc[p] \notin {"off", "run", "open"}
                             /\ pc'[p] \notin {"off", "boot"}
                             /\ Image(p) \in Version
        BY <1>1, <1>3, <2>1 DEF ProcTypes
    <2>3. OffAtExe' /\ Running' /\ Updating'
        BY <1>1, <1>3, <2>2, GoingOn DEF Undisturbed, updVars
    <2>4. pc' \in [Proc -> State] /\ hadBak' \in BOOLEAN
        BY <1>3, <2>1 DEF ProcTypes, State
    <2>5. ProcTypes'
        BY <1>3, <2>1, <2>4 DEF ProcTypes, updVars
    <2>6. ImageSurvives' /\ file' \in [Path -> Content]
        BY <1>1, TypeParts DEF IInv, ImageSurvives
    <2> QED
        BY <1>1, <2>3, <2>5, <2>6, TypePartsNext DEF IInv
<1> QED
    BY <1>2, <1>3 DEF Look

\* The backup is copied over an executable that nobody runs: the watchdog's own
\* image survives.
LEMMA RollbackKeeps ==
    ASSUME IInv, NEW w \in Watchdog, pc[w] = "await", WorldTypes',
           ~InUse("exe"), NoCopy,
           file' = [file EXCEPT !["exe"] = file["bak"]],
           NEW d \in FreeDaemon, Processes({w}, {d}, "none")
    PROVE  IInv'
<1> USE Slots
<1>1. file \in [Path -> Content] /\ at \in [Proc -> Path]
    BY TypeParts DEF IInv, ProcTypes
<1>2. d \in Daemon /\ upd[d] = "idle"
    BY FreeIdle DEF FreeDaemon, Up
<1>3. \A p \in Proc : Up(p) => file'[at[p]] = file[at[p]]
    BY <1>1 DEF InUse
<1>4. file' \in [Path -> Content] /\ file'["new"] = file["new"]
    BY <1>1, Names
<1>5. {w} \in SUBSET Proc /\ {d} \in SUBSET Proc
    BY <1>2
<1>6. Undisturbed(Proc \ {w})
    BY <1>3, <1>4 DEF Undisturbed
<1>7. OffAtExe' /\ Running' /\ Updating'
    BY <1>2, <1>5, <1>6, ProcessesSafe
<1>8. ProcTypes'
    BY <1>5, ProcessesTyped, TypeParts DEF IInv
<1>9. ImageSurvives'
    <2>1. at[w] \in Path \ {"new"} /\ file[at[w]] \in Version
        BY Survivor DEF Up
    <2> QED
        BY <1>3, <2>1 DEF ImageSurvives, Up
<1> QED
    BY <1>4, <1>7, <1>8, <1>9, TypePartsNext DEF IInv

LEMMA GiveUpKeeps ==
    ASSUME IInv, NEW w \in Watchdog, GiveUp(w)
    PROVE  IInv'
<1> USE Slots
<1>1. WorldTypes'
    BY TypeParts, EventType DEF IInv, WorldTypes, GiveUp, worldVars
<1>2. CASE file' = file /\ Processes({w}, {}, "none")
    BY <1>1, <1>2, WatchdogEnds
<1>3. CASE file' = file /\ Processes({w}, OneOf(FreeDaemon), "none")
    <2>1. /\ OneOf(FreeDaemon) \in SUBSET Proc /\ (OneOf(FreeDaemon) # {} => Accepts)
          /\ \A u \in Updater : u \in OneOf(FreeDaemon) => upd[u] = "idle"
        BY OneOfType, FreeIdle DEF FreeDaemon, Up
    <2>2. {w} \in SUBSET Proc
        OBVIOUS
    <2> QED
        BY <1>1, <1>3, <2>1, <2>2, ProcessesKeep
<1>4. CASE /\ ~InUse("exe") /\ NoCopy
           /\ file' = [file EXCEPT !["exe"] = file["bak"]]
           /\ \E d \in FreeDaemon : Processes({w}, {d}, "none")
    BY <1>1, <1>4, RollbackKeeps DEF GiveUp
<1> QED
    BY <1>2, <1>3, <1>4 DEF GiveUp, NoCopy

-----------------------------------------------------------------------------
(* The theorems                                                            *)

LEMMA Initially == Init => IInv
<1> USE Slots
<1> SUFFICES ASSUME Init
             PROVE  IInv
    OBVIOUS
<1>1. /\ file = [f \in Path |-> IF f = "exe" THEN 1 ELSE Absent]
      /\ at = [p \in Proc |-> "exe"] /\ upd = [u \in Updater |-> "idle"]
    BY DEF Init
<1>2. pc \in [Proc -> State]
    BY DEF Init, State
<1>3. ProcTypes
    BY <1>2, Names DEF Init, ProcTypes
<1>4. WorldTypes
    BY BoundAssumption DEF Init, WorldTypes, Version
<1>5. file \in [Path -> Content]
    BY <1>1, Contents
<1>6. OffAtExe /\ Updating
    BY <1>1 DEF OffAtExe, Updating
<1>7. Running
    BY <1>1, Names, Contents DEF Running, Image
<1>8. ImageSurvives
    BY <1>1, Names, Contents DEF ImageSurvives
<1> QED
    BY <1>3, <1>4, <1>5, <1>6, <1>7, <1>8, TypeParts DEF IInv

LEMMA Step == IInv /\ [Next]_vars => IInv'
<1> USE Slots
<1> SUFFICES ASSUME IInv, [Next]_vars
             PROVE  IInv'
    OBVIOUS
<1>1. CASE Release \/ RequestStop
    BY <1>1, WorldKeeps
<1>2. CASE Reboot
    BY <1>2, RebootKeeps
<1>3. ASSUME NEW p \in Proc, Kill(p) \/ BootDies(p) \/ RetryCleanup(p)
      PROVE  IInv'
    BY <1>3, KillKeeps, RetryCleanupKeeps
<1>4. ASSUME NEW d \in Daemon, DaemonStep(d) \/ ParentTimeout(d) \/ Heartbeat(d) \/ Relaunch(d)
      PROVE  IInv'
    <2>1. CASE DaemonBoot(d)
        BY <2>1, BootKeeps DEF DaemonBoot
    <2>2. CASE BootDies(d) \/ Claim(d) \/ ClaimFails(d) \/ StartupRaises(d)
               \/ RestartForUpdate(d) \/ ObeySignal(d)
        BY <1>3, <2>2, ClaimKeeps, DaemonEndsKeeps
    <2>3. CASE ParentTimeout(d) \/ Heartbeat(d) \/ Relaunch(d)
        BY <2>3, ParentTimeoutKeeps, HeartbeatSafe, RelaunchKeeps
    <2> QED
        BY <1>4, <2>1, <2>2, <2>3 DEF DaemonStep
<1>5. ASSUME NEW u \in Updater, Download(u) \/ UpdateThread(u)
      PROVE  IInv'
    BY <1>5, DownloadKeeps, StageBeginKeeps, StageEndKeeps, SetAsideKeeps, SetAsideFailsKeeps,
       PlaceBeginKeeps, PlaceFailsKeeps, PlaceEndKeeps DEF UpdateThread
<1>6. ASSUME NEW w \in Watchdog, WatchdogStep(w)
      PROVE  IInv'
    <2>1. CASE WatchdogBoot(w)
        BY <2>1, BootKeeps DEF WatchdogBoot
    <2>2. CASE BootDies(w) \/ WatchdogClaim(w) \/ Look(w) \/ Awaited(w) \/ GiveUp(w)
        BY <1>3, <2>2, WatchdogClaimKeeps, LookKeeps, GiveUpKeeps
    <2> QED
        BY <1>6, <2>1, <2>2 DEF WatchdogStep
<1>7. CASE GuiStep \/ GuiOpen \/ GuiClose \/ GuiDecline \/ GuiConfirm
    BY <1>3, <1>7, GuiBootKeeps, GuiProcessesKeep, GuiAnswerKeeps DEF GuiStep
<1>8. CASE UNCHANGED vars
    <2>1. /\ file' = file /\ UNCHANGED procVars /\ signal' = signal /\ task' = task
          /\ harm' = harm /\ UNCHANGED worldVars
        BY <1>8 DEF vars, procVars
    <2>2. OffAtExe' /\ Running' /\ Updating' /\ ImageSurvives'
        BY <2>1 DEF IInv, OffAtExe, Running, Updating, ImageSurvives, InUse, Up, Image,
                    procVars, updVars
    <2>3. ProcTypes' /\ WorldTypes' /\ file' \in [Path -> Content]
        BY <2>1, TypeParts DEF IInv, ProcTypes, WorldTypes, procVars, updVars, worldVars
    <2> QED
        BY <2>2, <2>3, TypePartsNext DEF IInv
<1> QED
    BY <1>1, <1>2, <1>3, <1>4, <1>5, <1>6, <1>7, <1>8 DEF Next

\* Every variable keeps its type: in particular, backups and staging file get
\* contents that some release, or a torn copy of one, accounts for (_swap_windows).
THEOREM TypeCorrect == Spec => []TypeOK
<1>1. IInv => TypeOK
    BY DEF IInv
<1> QED
    BY <1>1, Initially, Step, PTL DEF Spec

\* Whatever processes are started, killed or interrupted in the middle of a swap,
\* some verified image stays on the disk (_swap_windows, startup_bak_cleanup,
\* watchdog_process).
THEOREM ImageNeverLost == Spec => []ImageSurvives
<1>1. IInv => ImageSurvives
    BY DEF IInv
<1> QED
    BY <1>1, Initially, Step, PTL DEF Spec

-----------------------------------------------------------------------------
(* Updates go up                                                           *)

\* A thread works for a version above its own image.
Newer == \A u \in Updater : upd[u] \notin {"idle", "placed"} => got[u] > Image(u)

\* The part of the thread's work that is done on shared files.
Busy == {"staging", "staged", "aside", "placing", "placed"}

\* A thread that is busy alone finds what it left.
Alone ==
    "overlap" \notin harm =>
        \A u \in Updater :
            /\ upd[u] \in Busy => \A v \in Updater \ {u} : upd[v] \notin Busy
            /\ upd[u] \in {"staged", "aside", "placing"} => file["new"] = got[u]
            /\ upd[u] = "placing" => file["exe"] = Torn

\* The step of NoDowngrade.
Rises ==
    \A u \in Updater :
        upd[u] = "placing" /\ upd'[u] # "placing" /\ pc'[u] # "off"
        /\ file'["exe"] # Torn /\ "overlap" \notin harm
           => file'["exe"] > Image(u)

\* Steps that leave the update threads alone, or end them.
Quiet ==
    /\ \A u \in Updater : \/ upd'[u] = "idle"
                          \/ upd'[u] = upd[u] /\ got'[u] = got[u] /\ Image(u)' = Image(u)
    /\ file'["new"] = file["new"]
    /\ file'["exe"] = file["exe"] \/ NoCopy

LEMMA QuietRises ==
    ASSUME Newer, Alone, Quiet, harm \subseteq harm'
    PROVE  Newer' /\ Alone' /\ Rises
<1>1. Newer'
    BY DEF Newer, Quiet
<1>2. Alone'
    <2> SUFFICES ASSUME "overlap" \notin harm, NEW u \in Updater, upd'[u] # "idle"
                 PROVE  /\ upd'[u] \in Busy => \A v \in Updater \ {u} : upd'[v] \notin Busy
                        /\ upd'[u] \in {"staged", "aside", "placing"} => file'["new"] = got'[u]
                        /\ upd'[u] = "placing" => file'["exe"] = Torn
        BY DEF Alone, Busy
    <2>1. upd'[u] = upd[u] /\ got'[u] = got[u]
        BY DEF Quiet
    <2>2. ASSUME NEW v \in Updater \ {u}, upd'[u] \in Busy
          PROVE  upd'[v] \notin Busy
        BY <2>1, <2>2 DEF Alone, Quiet, Busy
    <2>3. upd'[u] \in {"staged", "aside", "placing"} => file'["new"] = got'[u]
        BY <2>1 DEF Alone, Quiet
    <2>4. upd'[u] = "placing" => file'["exe"] = Torn
        BY <2>1 DEF Alone, Quiet, NoCopy
    <2> QED
        BY <2>2, <2>3, <2>4
<1>3. Rises
    BY DEF Alone, Quiet, NoCopy, Rises
<1> QED
    BY <1>1, <1>2, <1>3

LEMMA ProcessesQuiet ==
    ASSUME IInv, NEW stopped \in SUBSET Proc, NEW started \in SUBSET Proc,
           NEW par \in Daemon \union {"none"}, Processes(stopped, started, par),
           \A u \in Updater : u \in started => u \in stopped \/ upd[u] = "idle",
           Undisturbed(Proc \ stopped)
    PROVE  Quiet
<1> USE Slots
<1> SUFFICES ASSUME NEW u \in Updater, upd'[u] # "idle"
             PROVE  upd'[u] = upd[u] /\ got'[u] = got[u] /\ Image(u)' = Image(u)
    BY DEF Quiet, Undisturbed
<1>1. /\ u \notin stopped /\ u \notin started /\ upd'[u] = upd[u] /\ got'[u] = got[u]
      /\ at'[u] = at[u]
    BY DEF Processes
<1>2. Up(u)
    BY <1>1 DEF IInv, Updating, Up
<1> QED
    BY <1>1, <1>2 DEF Image, Undisturbed

LEMMA GoingOnQuiet ==
    ASSUME IInv, at' = at, got' = got, Undisturbed(Proc),
           \A u \in Updater : upd'[u] = upd[u] \/ upd'[u] = "idle"
    PROVE  Quiet
<1> USE Slots
<1> SUFFICES ASSUME NEW u \in Updater, upd'[u] # "idle"
             PROVE  upd'[u] = upd[u] /\ got'[u] = got[u] /\ Image(u)' = Image(u)
    BY DEF Quiet, Undisturbed
<1>1. Up(u)
    BY DEF IInv, Updating, Up
<1> QED
    BY <1>1 DEF Image, Undisturbed

\* Steps of one process that leave the files alone.
LEMMA EndQuiet ==
    ASSUME IInv, NEW p \in Proc, Processes({p}, {}, "none"), file' = file
    PROVE  Quiet
BY ProcessesQuiet DEF Undisturbed

LEMMA GoesQuiet ==
    ASSUME IInv, NEW p \in Proc, NEW s, Goes(p, s), file' = file
    PROVE  Quiet
BY GoingOnQuiet DEF Goes, updVars, Undisturbed

LEMMA StillQuiet ==
    ASSUME IInv, UNCHANGED <<at, updVars>>, file' = file
    PROVE  Quiet
BY GoingOnQuiet DEF updVars, Undisturbed

LEMMA WorldQuiet ==
    ASSUME IInv,
           \/ Release \/ RequestStop \/ Reboot
           \/ \E p \in Proc : Kill(p) \/ BootDies(p) \/ RetryCleanup(p)
    PROVE  Quiet /\ harm \subseteq harm'
<1>1. CASE Release \/ RequestStop
    BY <1>1, StillQuiet DEF Release, RequestStop, procVars
<1>2. CASE Reboot
    <2>1. (CHOOSE d \in Daemon : TRUE) \in Daemon
        BY ProcessAssumption
    <2>2. PICK started \in SUBSET Daemon : Processes(Proc, started, "none")
        BY <1>2, <2>1 DEF Reboot
    <2>3. started \in SUBSET Proc /\ \A u \in Updater : u \in started => u \in Proc
        BY <2>2, Slots
    <2>4. Quiet
        BY <1>2, <2>2, <2>3, ProcessesQuiet DEF Undisturbed, Reboot
    <2> QED
        BY <1>2, <2>4 DEF Reboot
<1>3. ASSUME NEW p \in Proc, Kill(p) \/ BootDies(p)
      PROVE  Quiet /\ harm \subseteq harm'
    BY <1>3, EndQuiet DEF Kill, BootDies
<1>4. ASSUME NEW p \in Proc, RetryCleanup(p)
      PROVE  Quiet /\ harm \subseteq harm'
    <2>1. Up(p) /\ pc[p] # "boot" /\ file' = Cleaned
        BY <1>4 DEF RetryCleanup, Up
    <2> QED
        BY <1>4, <2>1, CleanedSpares, GoingOnQuiet DEF RetryCleanup, procVars, updVars
<1> QED
    BY <1>1, <1>2, <1>3, <1>4

LEMMA DaemonQuiet ==
    ASSUME IInv, NEW d \in Daemon,
           DaemonStep(d) \/ ParentTimeout(d) \/ Heartbeat(d) \/ Relaunch(d)
    PROVE  Quiet /\ harm \subseteq harm'
<1> USE Slots
<1>1. CASE BootDies(d)
    BY <1>1, WorldQuiet
<1>2. CASE DaemonBoot(d)
    <2>1. Up(d) /\ Image(d) \in Version /\ file' = Cleaned
        BY <1>2 DEF DaemonBoot, Works, Up, MainStarts
    <2> QED
        BY <1>2, <2>1, CleanedSpares, GoingOnQuiet DEF DaemonBoot, MainStarts, Goes, updVars
<1>3. CASE Claim(d) \/ ParentTimeout(d)
    BY <1>3, StillQuiet DEF Claim, ParentTimeout
<1>4. CASE ClaimFails(d) \/ StartupRaises(d) \/ RestartForUpdate(d) \/ ObeySignal(d)
    BY <1>4, EndQuiet DEF ClaimFails, StartupRaises, RestartForUpdate, ObeySignal
<1>5. CASE Heartbeat(d)
    <2>1. PICK old \in SUBSET Watchdog, new \in SUBSET Watchdog :
            /\ Processes(old, new, "none")
            /\ file' = [f \in Path |->
                  IF /\ f \in Backup
                     /\ ~\E p \in Proc \ old : Up(p) /\ at[p] = f
                     /\ old = {} \/ Accepts
                  THEN Absent ELSE file[f]]
        BY <1>5, HeartbeatShape
    <2>2. at \in [Proc -> Path]
        BY TypeParts DEF IInv, ProcTypes
    <2>3. Undisturbed(Proc \ old)
        BY <2>1, <2>2, Names DEF Undisturbed
    <2> QED
        BY <1>5, <2>1, <2>3, ProcessesQuiet DEF Heartbeat
<1>6. CASE Relaunch(d)
    <2>1. upd' = [upd EXCEPT ![d] = "idle"] /\ upd = [upd EXCEPT ![d] = upd[d]]
        BY <1>6, ThreadFacts DEF Relaunch, Thread
    <2>2. \A u \in Updater : upd'[u] = upd[u] \/ upd'[u] = "idle"
        BY <2>1
    <2> QED
        BY <1>6, <2>2, GoingOnQuiet DEF Relaunch, Undisturbed
<1> QED
    BY <1>1, <1>2, <1>3, <1>4, <1>5, <1>6 DEF DaemonStep

LEMMA GuiQuiet ==
    ASSUME IInv, GuiStep \/ GuiOpen \/ GuiClose \/ GuiDecline \/ GuiConfirm
    PROVE  Quiet /\ harm \subseteq harm'
<1> USE Slots
<1>1. CASE BootDies(GUI)
    BY <1>1, WorldQuiet
<1>2. CASE GuiBoot
    <2>1. Up(GUI) /\ Image(GUI) \in Version /\ file' = Cleaned
        BY <1>2 DEF GuiBoot, Works, Up
    <2> QED
        BY <1>2, <2>1, CleanedSpares, GoingOnQuiet DEF GuiBoot, updVars
<1>3. CASE GuiClose
    <2>1. /\ Bootstrap \in SUBSET Proc
          /\ \A u \in Updater : u \in Bootstrap => upd[u] = "idle"
        BY BootstrapType
    <2> QED
        BY <1>3, <2>1, ProcessesQuiet DEF GuiClose, Undisturbed
<1>4. CASE GuiDecline \/ GuiConfirm
    BY <1>4, GoesQuiet DEF GuiDecline, GuiConfirm
<1>5. ASSUME Processes({}, {GUI}, "none"), file' = file, pc[GUI] \notin {"run", "open"}
      PROVE  Quiet
    <2>1. {GUI} \in SUBSET Proc /\ \A u \in Updater : u \in {GUI} => upd[u] = "idle"
        BY <1>5, FreeIdle
    <2> QED
        BY <1>5, <2>1, ProcessesQuiet DEF Undisturbed
<1>6. CASE GuiOpen
    BY <1>5, <1>6 DEF GuiOpen, Up
<1>7. CASE GuiRelaunch
    BY <1>5, <1>7, GoesQuiet DEF GuiRelaunch
<1> QED
    BY <1>1, <1>2, <1>3, <1>4, <1>6, <1>7 DEF GuiStep

LEMMA WatchdogQuiet ==
    ASSUME IInv, NEW w \in Watchdog, WatchdogStep(w)
    PROVE  Quiet /\ harm \subseteq harm'
<1> USE Slots
<1>1. CASE BootDies(w)
    BY <1>1, WorldQuiet
<1>2. CASE WatchdogBoot(w)
    <2>1. Up(w) /\ Image(w) \in Version /\ file' = Cleaned
        BY <1>2 DEF WatchdogBoot, Works, Up, MainStarts
    <2> QED
        BY <1>2, <2>1, CleanedSpares, GoingOnQuiet DEF WatchdogBoot, MainStarts, Goes, updVars
<1>3. CASE WatchdogClaim(w) \/ Awaited(w)
    BY <1>3, EndQuiet, GoesQuiet DEF WatchdogClaim, Awaited
<1>4. CASE Look(w)
    BY <1>4, EndQuiet, StillQuiet DEF Look
<1>5. CASE GiveUp(w)
    <2>1. harm \subseteq harm'
        BY <1>5 DEF GiveUp
    <2>2. CASE file' = file /\ Processes({w}, {}, "none")
        BY <2>1, <2>2, EndQuiet
    <2>3. ASSUME NEW started \in SUBSET FreeDaemon, Processes({w}, started, "none"),
                 Undisturbed(Proc \ {w})
          PROVE  Quiet
        <3>1. \A u \in Updater : u \in started => upd[u] = "idle"
            BY FreeIdle DEF FreeDaemon, Up
        <3>2. started \in SUBSET Proc /\ {w} \in SUBSET Proc
            BY DEF FreeDaemon
        <3> QED
            BY <2>3, <3>1, <3>2, ProcessesQuiet
    <2>4. CASE file' = file /\ Processes({w}, OneOf(FreeDaemon), "none")
        <3>1. OneOf(FreeDaemon) \in SUBSET FreeDaemon /\ Undisturbed(Proc \ {w})
            BY <2>4, OneOfType DEF Undisturbed
        <3> QED
            BY <2>1, <2>3, <2>4, <3>1
    <2>5. CASE /\ ~InUse("exe") /\ NoCopy
               /\ file' = [file EXCEPT !["exe"] = file["bak"]]
               /\ \E d \in FreeDaemon : Processes({w}, {d}, "none")
        <3>1. file \in [Path -> Content] /\ at \in [Proc -> Path]
            BY TypeParts DEF IInv, ProcTypes
        <3>2. Undisturbed(Proc \ {w})
            BY <2>5, <3>1, Names DEF Undisturbed, InUse
        <3>3. PICK d \in FreeDaemon : Processes({w}, {d}, "none")
            BY <2>5
        <3> QED
            BY <2>1, <2>3, <3>2, <3>3
    <2> QED
        BY <1>5, <2>2, <2>4, <2>5 DEF GiveUp, NoCopy
<1> QED
    BY <1>1, <1>2, <1>3, <1>4, <1>5 DEF WatchdogStep

\* What a step of an update thread respects.
Deed(u) ==
    /\ ImagesKept /\ harm \subseteq harm'
    /\ \A v \in Updater \ {u} : upd'[v] = upd[v] /\ got'[v] = got[v]
    /\ upd'[u] \notin {"idle", "placed"} =>
          got'[u] > Image(u) /\ (upd[u] = "idle" => Image(u)' = Image(u))
    /\ upd[u] \notin Busy /\ upd'[u] \in Busy =>
          "overlap" \in harm' \/ \A v \in Updater \ {u} : upd[v] \notin Busy
    /\ upd[u] \notin Busy /\ upd'[u] \notin Busy => file' = file
    /\ "overlap" \notin harm =>
          /\ upd'[u] \in {"staged", "aside", "placing"} => file'["new"] = got'[u]
          /\ upd'[u] = "placing" => file'["exe"] = Torn
          /\ upd[u] = "placing" /\ file'["exe"] # Torn => file'["exe"] > Image(u)

LEMMA SwapRises ==
    ASSUME IInv, Newer, Alone, NEW u \in Updater, Deed(u)
    PROVE  Newer' /\ Alone' /\ Rises
<1> USE Slots DEF Deed
<1>1. \A v \in Updater : upd[v] # "idle" => Image(v)' = Image(v)
    BY DEF IInv, Updating, Up, Image, ImagesKept
<1>2. Newer'
    <2> SUFFICES ASSUME NEW v \in Updater, upd'[v] \notin {"idle", "placed"}
                 PROVE  got'[v] > Image(v)'
        BY DEF Newer
    <2>1. CASE v # u
        <3>1. upd'[v] = upd[v] /\ got'[v] = got[v]
            BY <2>1
        <3> QED
            BY <1>1, <3>1 DEF Newer
    <2>2. CASE v = u
        BY <1>1, <2>2
    <2> QED
        BY <2>1, <2>2
<1>3. Alone'
    <2> SUFFICES ASSUME "overlap" \notin harm', NEW w \in Updater
                 PROVE  /\ upd'[w] \in Busy => \A v \in Updater \ {w} : upd'[v] \notin Busy
                        /\ upd'[w] \in {"staged", "aside", "placing"} => file'["new"] = got'[w]
                        /\ upd'[w] = "placing" => file'["exe"] = Torn
        BY DEF Alone, Busy
    <2>1. "overlap" \notin harm
        OBVIOUS
    <2>2. CASE w = u
        <3>1. upd'[u] \in Busy => \A v \in Updater \ {u} : upd'[v] \notin Busy
            BY <2>1 DEF Alone
        <3> QED
            BY <2>1, <2>2, <3>1
    <2>3. CASE w # u /\ upd'[w] \in Busy
        <3>1. upd[w] \in Busy /\ upd'[w] = upd[w] /\ got'[w] = got[w]
            BY <2>3
        <3>2. \A v \in Updater \ {w} : upd[v] \notin Busy
            BY <2>1, <3>1 DEF Alone
        <3>3. upd[u] \notin Busy /\ upd'[u] \notin Busy
            BY <2>3, <3>1, <3>2
        <3>4. \A v \in Updater \ {w} : upd'[v] \notin Busy
            BY <3>2, <3>3
        <3> QED
            BY <2>1, <3>1, <3>3, <3>4 DEF Alone
    <2>4. CASE w # u /\ upd'[w] \notin Busy
        BY <2>4 DEF Busy
    <2> QED
        BY <2>2, <2>3, <2>4
<1>4. Rises
    <2> SUFFICES ASSUME NEW v \in Updater, upd[v] = "placing", upd'[v] # "placing",
                        file'["exe"] # Torn, "overlap" \notin harm
                 PROVE  file'["exe"] > Image(v)
        BY DEF Rises
    <2>1. v = u
        OBVIOUS
    <2> QED
        BY <2>1
<1> QED
    BY <1>2, <1>3, <1>4

LEMMA ThreadTypes ==
    ASSUME IInv
    PROVE  /\ upd \in [Updater -> {"idle", "got", "staging", "staged", "aside", "placing",
                                   "placed"}]
           /\ got \in [Updater -> {Absent} \union Version]
           /\ at \in [Proc -> Path] /\ file \in [Path -> Content]
BY TypeParts DEF IInv, ProcTypes

LEMMA DownloadDeed ==
    ASSUME IInv, NEW u \in Updater, Download(u)
    PROVE  Deed(u)
<1>1. /\ file' = file /\ at' = at /\ harm' = harm /\ upd[u] = "idle"
      /\ upd' = [upd EXCEPT ![u] = "got"] /\ got' = [got EXCEPT ![u] = latest]
      /\ latest > Image(u)
    BY DEF Download, Thread
<1>2. \A v \in Updater \ {u} : upd'[v] = upd[v] /\ got'[v] = got[v]
    BY <1>1
<1>3. upd'[u] = "got" /\ got'[u] = latest /\ Image(u)' = Image(u)
    BY <1>1, ThreadTypes DEF Image
<1>4. ImagesKept
    BY <1>1 DEF IInv, Running, ImagesKept
<1> QED
    BY <1>1, <1>2, <1>3, <1>4 DEF Deed, Busy

LEMMA StageBeginDeed ==
    ASSUME IInv, Newer, NEW u \in Updater, StageBegin(u)
    PROVE  Deed(u)
<1>1. /\ at' = at /\ harm' = harm \union Shares(u) /\ upd[u] = "got" /\ got[u] > Image(u)
    BY DEF StageBegin, Newer
<1>2. CASE /\ Thread(u, "staging") /\ file' = [file EXCEPT !["new"] = Torn]
           /\ UNCHANGED <<got, aside>>
    <2>1. /\ \A v \in Updater \ {u} : upd'[v] = upd[v] /\ got'[v] = got[v]
          /\ upd'[u] = "staging" /\ got'[u] = got[u]
        BY <1>2, ThreadTypes DEF Thread
    <2>2. "overlap" \in harm' \/ \A v \in Updater \ {u} : upd[v] \notin Busy
        BY <1>1 DEF Shares, Busy
    <2>3. ImagesKept
        BY <1>1, <1>2, StagingKeepsImages
    <2> QED
        BY <1>1, <2>1, <2>2, <2>3 DEF Deed, Busy
<1>3. CASE Through(u, "idle") /\ UNCHANGED file
    <2>1. /\ \A v \in Updater \ {u} : upd'[v] = upd[v] /\ got'[v] = got[v]
          /\ upd'[u] = "idle"
        BY <1>3, ThreadTypes DEF Through, Thread
    <2>2. ImagesKept
        BY <1>1, <1>3 DEF IInv, Running, ImagesKept
    <2> QED
        BY <1>1, <1>3, <2>1, <2>2 DEF Deed, Busy
<1> QED
    BY <1>2, <1>3 DEF StageBegin

LEMMA StageEndDeed ==
    ASSUME IInv, Newer, NEW u \in Updater, StageEnd(u)
    PROVE  Deed(u)
<1>1. /\ at' = at /\ harm' = harm /\ upd[u] = "staging" /\ got[u] > Image(u) /\ got' = got
      /\ upd' = [upd EXCEPT ![u] = "staged"] /\ file' = [file EXCEPT !["new"] = got[u]]
    BY DEF StageEnd, Newer, Thread
<1>2. \A v \in Updater \ {u} : upd'[v] = upd[v] /\ got'[v] = got[v]
    BY <1>1
<1>3. upd'[u] = "staged" /\ got'[u] = got[u] /\ file'["new"] = got[u]
    BY <1>1, ThreadTypes, Names
<1>4. ImagesKept
    BY <1>1, StagingKeepsImages
<1> QED
    BY <1>1, <1>2, <1>3, <1>4 DEF Deed, Busy

LEMMA SetAsideDeed ==
    ASSUME IInv, Newer, Alone, NEW u \in Updater, SetAside(u) \/ SetAsideFails(u)
    PROVE  Deed(u)
<1>1. upd[u] = "staged" /\ got[u] > Image(u) /\ harm' = harm
    BY DEF SetAside, SetAsideFails, Newer
<1>2. CASE SetAside(u)
    <2>1. /\ \A v \in Updater \ {u} : upd'[v] = upd[v] /\ got'[v] = got[v]
          /\ upd'[u] = "aside" /\ got'[u] = got[u]
        BY <1>2, ThreadTypes DEF SetAside, Thread
    <2>2. "overlap" \notin harm => file["new"] = got[u]
        BY <1>1 DEF Alone
    <2> QED
        BY <1>1, <1>2, <2>1, <2>2, SetAsideImages DEF Deed, Busy
<1>3. CASE SetAsideFails(u)
    <2>1. /\ \A v \in Updater \ {u} : upd'[v] = upd[v] /\ got'[v] = got[v]
          /\ upd'[u] = "idle"
        BY <1>3, ThreadTypes DEF SetAsideFails, Through, Thread
    <2>2. ImagesKept
        BY <1>3, StagingKeepsImages DEF SetAsideFails
    <2> QED
        BY <1>1, <2>1, <2>2 DEF Deed, Busy
<1> QED
    BY <1>2, <1>3

LEMMA PlaceBeginDeed ==
    ASSUME IInv, Newer, Alone, NEW u \in Updater, PlaceBegin(u)
    PROVE  Deed(u)
<1>1. /\ upd[u] = "aside" /\ got[u] > Image(u) /\ harm' = harm /\ got' = got /\ at' = at
      /\ upd' = [upd EXCEPT ![u] = "placing"] /\ file' = [file EXCEPT !["exe"] = Torn]
      /\ ~InUse("exe")
    BY DEF PlaceBegin, Newer, Thread, Placeable
<1>2. \A v \in Updater \ {u} : upd'[v] = upd[v] /\ got'[v] = got[v]
    BY <1>1
<1>3. upd'[u] = "placing" /\ got'[u] = got[u] /\ file'["exe"] = Torn /\ file'["new"] = file["new"]
    BY <1>1, ThreadTypes, Names
<1>4. "overlap" \notin harm => file["new"] = got[u]
    BY <1>1 DEF Alone
<1>5. ImagesKept
    BY <1>1, ThreadTypes DEF IInv, Running, ImagesKept, InUse
<1> QED
    BY <1>1, <1>2, <1>3, <1>4, <1>5 DEF Deed, Busy

\* Alone, a copy that fails leaves a torn executable, which stays in the way of
\* the backup.
LEMMA PlaceFailsDeed ==
    ASSUME IInv, Newer, Alone, NEW u \in Updater, PlaceFails(u)
    PROVE  Deed(u)
<1>1. upd[u] \in {"aside", "placing"} /\ harm \subseteq harm' /\ Through(u, "idle")
    BY DEF PlaceFails
<1>2. /\ \A v \in Updater \ {u} : upd'[v] = upd[v] /\ got'[v] = got[v]
      /\ upd'[u] = "idle"
    BY <1>1, ThreadTypes DEF Through, Thread
<1>3. CASE Renamed(aside[u], "exe")
    <2>1. ImagesKept
        BY <1>3, ThreadFacts, RestoreImages
    <2>2. "overlap" \notin harm => upd[u] # "placing"
        BY <1>3, Contents DEF Alone, Renamed
    <2> QED
        BY <1>1, <1>2, <2>1, <2>2 DEF Deed, Busy
<1>4. CASE UNCHANGED <<file, at>>
    <2>1. ImagesKept
        BY <1>4 DEF IInv, Running, ImagesKept
    <2>2. "overlap" \notin harm /\ upd[u] = "placing" => file'["exe"] = Torn
        BY <1>4 DEF Alone
    <2> QED
        BY <1>1, <1>2, <2>1, <2>2 DEF Deed, Busy
<1> QED
    BY <1>3, <1>4 DEF PlaceFails

LEMMA PlaceEndDeed ==
    ASSUME IInv, Newer, Alone, NEW u \in Updater, PlaceEnd(u)
    PROVE  Deed(u)
<1>1. /\ upd[u] = "placing" /\ got[u] > Image(u) /\ harm' = harm /\ at' = at
      /\ file' = [file EXCEPT !["exe"] = file["new"], !["new"] = DropStaged(u)]
      /\ Through(u, "idle") \/ Through(u, "placed")
    BY DEF PlaceEnd, Newer
<1>2. /\ \A v \in Updater \ {u} : upd'[v] = upd[v] /\ got'[v] = got[v]
      /\ upd'[u] \in {"idle", "placed"}
    BY <1>1, ThreadTypes DEF Through, Thread
<1>3. file'["exe"] = file["new"]
    BY <1>1, ThreadTypes, Names
<1>4. "overlap" \notin harm => file["new"] = got[u]
    BY <1>1 DEF Alone
<1>5. ImagesKept
    BY <1>1, ThreadTypes DEF IInv, Running, Updating, ImagesKept, InUse
<1> QED
    BY <1>1, <1>2, <1>3, <1>4, <1>5 DEF Deed, Busy

LEMMA StepRises ==
    ASSUME IInv, Newer, Alone, [Next]_vars
    PROVE  Newer' /\ Alone' /\ (Rises \/ UNCHANGED vars)
<1>1. CASE Quiet /\ harm \subseteq harm'
    BY <1>1, QuietRises
<1>2. ASSUME NEW u \in Updater, Download(u) \/ UpdateThread(u)
      PROVE  Newer' /\ Alone' /\ Rises
    <2>1. Deed(u)
        BY <1>2, DownloadDeed, StageBeginDeed, StageEndDeed, SetAsideDeed, PlaceBeginDeed,
           PlaceFailsDeed, PlaceEndDeed DEF UpdateThread
    <2> QED
        BY <2>1, SwapRises
<1>3. CASE UNCHANGED vars
    <2>1. UNCHANGED <<at, updVars>> /\ file' = file /\ harm' = harm
        BY <1>3 DEF vars
    <2> QED
        BY <1>1, <2>1, StillQuiet
<1> QED
    BY <1>1, <1>2, <1>3, WorldQuiet, DaemonQuiet, GuiQuiet, WatchdogQuiet DEF Next

\* Whatever the releases and the faults, an update that is alone and completes has
\* put a version above the updater's own in place (check_for_update, _swap_windows).
THEOREM UpdatesGoUp == Spec => NoDowngrade
<1>1. Init => Newer /\ Alone
    <2> SUFFICES ASSUME Init
                 PROVE  \A u \in Updater : upd[u] = "idle"
        BY DEF Newer, Alone, Busy
    <2> QED
        BY DEF Init
<1>2. IInv /\ Newer /\ Alone /\ [Next]_vars => Newer' /\ Alone' /\ [Rises]_vars
    BY StepRises
<1>3. Spec => [][Rises]_vars
    BY <1>1, <1>2, Initially, Step, PTL DEF Spec
<1>4. NoDowngrade <=> [][Rises]_vars
    BY DEF NoDowngrade, Rises
<1> QED
    BY <1>3, <1>4

-----------------------------------------------------------------------------
(* The update keeps the promise of ReleaseChannel                          *)

\* A process has an image, if only a torn one.
Imaged == \A p \in Proc : Up(p) => Image(p) # Absent

\* The abstract state, as the mapping of Channel reads it off the concrete one.
ExeImage == IF file["exe"] \in Version THEN file["exe"] ELSE Torn
Kept == {file[f] : f \in Backup} \ {Absent}
Runs == {Image(p) : p \in {q \in Proc : Up(q)}} \intersect Version
Approved == ({got[u] : u \in Updater} \union {file["new"]}) \ {Absent, Torn}
Single == "overlap" \notin harm
FoundNow == {v \in 1 .. latest : \E r \in Runs : r < v}

LEMMA WorkMaps ==
    ASSUME latest' = latest, ExeImage' = ExeImage,
           Kept' \subseteq Kept \union {ExeImage, Torn},
           Runs' \subseteq Runs \union {ExeImage},
           Approved' \subseteq Approved \union FoundNow, Single' => Single
    PROVE  Channel!Next
<1> SUFFICES Channel!Work
    BY DEF Channel!Next
<1> QED
    BY Zenon DEF Channel!Work, Channel!Updates, ExeImage, Kept, Runs, Approved, Single, FoundNow

LEMMA PublishMaps ==
    ASSUME latest' = latest + 1, ExeImage' = ExeImage, Kept' = Kept, Runs' = Runs,
           Approved' = Approved, Single' = Single
    PROVE  Channel!Next
<1> SUFFICES Channel!Publish
    BY DEF Channel!Next
<1> QED
    BY Zenon DEF Channel!Publish, ExeImage, Kept, Runs, Approved, Single

LEMMA RevertMaps ==
    ASSUME latest' = latest, ExeImage' \in Kept,
           Kept' \subseteq Kept \union {ExeImage, Torn},
           Runs' \subseteq Runs \union {ExeImage'},
           Approved' \subseteq Approved, Single' = Single
    PROVE  Channel!Next
<1> SUFFICES Channel!Revert
    BY DEF Channel!Next
<1> QED
    BY Zenon DEF Channel!Revert, Channel!Files, ExeImage, Kept, Runs, Approved, Single

\* What a swap does to the abstract state, image apart.
Replaces ==
    /\ latest' = latest /\ Kept' \subseteq Kept \union {ExeImage, Torn}
    /\ Runs' = Runs /\ Approved' \subseteq Approved /\ Single' = Single

LEMMA ReplaceMaps ==
    ASSUME Replaces,
           \/ ExeImage' = Torn
           \/ ExeImage' \in Approved /\ (Single => \E r \in Runs : r < ExeImage')
    PROVE  Channel!Next
<1>1. Channel!Replacing
    BY Zenon DEF Replaces, ExeImage, Kept, Runs, Approved, Single, Channel!Replacing,
       Channel!Files
<1>2. CASE ExeImage' = Torn
    <2>1. Channel!Damage
        BY <1>1, <1>2, Zenon DEF Channel!Damage, ExeImage
    <2> QED
        BY <2>1 DEF Channel!Next
<1>3. CASE ExeImage' \in Approved /\ (Single => \E r \in Runs : r < ExeImage')
    <2>1. Channel!Install
        BY <1>1, <1>3, Zenon DEF Channel!Install, ExeImage, Approved, Single, Runs
    <2> QED
        BY <2>1 DEF Channel!Next
<1> QED
    BY <1>2, <1>3

-----------------------------------------------------------------------------
(* Steps that leave executable and staging file alone                       *)

\* Processes go on, end, or start from the executable, backups are removed,
\* and threads forget.
Calm ==
    /\ \A p \in Proc : pc'[p] # "off" =>
          \/ Up(p) /\ Image(p)' = Image(p)
          \/ at'[p] = "exe" /\ file'["exe"] # Absent
    /\ \A f \in Backup : file'[f] \in {file[f], Absent}
    /\ file'["new"] = file["new"]
    /\ \A u \in Updater : got'[u] \in {got[u], Absent}

LEMMA CalmImaged ==
    ASSUME Imaged, Calm
    PROVE  Imaged'
BY DEF Imaged, Calm, Up, Image

\* What Calm means for the abstract state.
LEMMA CalmParts ==
    ASSUME IInv, Calm
    PROVE  /\ Kept' \subseteq Kept /\ Approved' \subseteq Approved
           /\ Runs' \subseteq Runs \union {ExeImage'}
<1>1. Kept' \subseteq Kept
    BY DEF Calm, Kept
<1>2. Approved' \subseteq Approved
    BY DEF Calm, Approved
<1>3. Runs' \subseteq Runs \union {ExeImage'}
    <2> SUFFICES ASSUME NEW p \in Proc, pc'[p] # "off", Image(p)' \in Version
                 PROVE  Image(p)' \in Runs \union {ExeImage'}
        BY DEF Runs, Up
    <2>1. CASE Up(p) /\ Image(p)' = Image(p)
        BY <2>1 DEF Runs
    <2>2. CASE at'[p] = "exe"
        BY <2>2 DEF Image, ExeImage
    <2> QED
        BY <2>1, <2>2 DEF Calm
<1> QED
    BY <1>1, <1>2, <1>3

\* The step of a process, or of the user.
Ordinary ==
    /\ Calm /\ file'["exe"] = file["exe"] /\ latest' = latest /\ harm \subseteq harm'

LEMMA OrdinaryMaps ==
    ASSUME IInv, Imaged, Ordinary
    PROVE  Imaged' /\ Channel!Next
<1>1. ExeImage' = ExeImage
    BY DEF Ordinary, ExeImage
<1>2. Single' => Single
    BY DEF Ordinary, Single
<1> QED
    BY <1>1, <1>2, CalmImaged, CalmParts, WorkMaps DEF Ordinary

LEMMA ProcessesCalm ==
    ASSUME IInv, NEW stopped \in SUBSET Proc, NEW started \in SUBSET Proc,
           NEW par, Processes(stopped, started, par),
           started # {} => file'["exe"] # Absent,
           Undisturbed(Proc \ stopped),
           \A f \in Backup : file'[f] \in {file[f], Absent}
    PROVE  Calm
<1> USE Slots
<1>1. \A p \in Proc :
         /\ pc'[p] = IF p \in started THEN "boot"
                     ELSE IF p \in stopped THEN "off" ELSE pc[p]
         /\ at'[p] = IF p \in started \union stopped THEN "exe" ELSE at[p]
    BY DEF Processes
<1>2. \A u \in Updater : got'[u] \in {got[u], Absent}
    BY DEF Processes
<1>3. \A p \in Proc : pc'[p] # "off" =>
          \/ Up(p) /\ Image(p)' = Image(p)
          \/ at'[p] = "exe" /\ file'["exe"] # Absent
    <2> SUFFICES ASSUME NEW p \in Proc, pc'[p] # "off", p \notin started
                 PROVE  Up(p) /\ Image(p)' = Image(p)
        BY <1>1
    <2>1. p \in Proc \ stopped /\ Up(p) /\ at'[p] = at[p]
        BY <1>1 DEF Up
    <2> QED
        BY <2>1 DEF Image, Undisturbed
<1> QED
    BY <1>2, <1>3 DEF Calm, Undisturbed

LEMMA GoingOnCalm ==
    ASSUME IInv, at' = at, got' = got, Undisturbed(Proc),
           \A p \in Proc : pc'[p] # "off" /\ ~Up(p) => file'["exe"] # Absent,
           \A f \in Backup : file'[f] \in {file[f], Absent}
    PROVE  Calm
<1>1. \A p \in Proc : pc'[p] # "off" =>
          \/ Up(p) /\ Image(p)' = Image(p)
          \/ at'[p] = "exe" /\ file'["exe"] # Absent
    BY DEF IInv, OffAtExe, Undisturbed, Image
<1> QED
    BY <1>1 DEF Calm, Undisturbed

\* The steps of one process that leave the files alone.
LEMMA EndCalm ==
    ASSUME IInv, NEW p \in Proc, Processes({p}, {}, "none"), file' = file
    PROVE  Calm
BY ProcessesCalm DEF Undisturbed

LEMMA GoesCalm ==
    ASSUME IInv, NEW p \in Proc, Up(p), NEW s, Goes(p, s), file' = file
    PROVE  Calm
<1>1. pc \in [Proc -> State]
    BY TypeParts DEF IInv, ProcTypes
<1>2. \A q \in Proc : pc'[q] # "off" => Up(q)
    BY <1>1 DEF Goes, Up
<1> QED
    BY <1>2, GoingOnCalm DEF Goes, updVars, Undisturbed

LEMMA StillCalm ==
    ASSUME IInv, UNCHANGED <<pc, at, got>>, file' = file
    PROVE  Calm
BY GoingOnCalm DEF Undisturbed, Up

\* Cleaning up removes backups only.
LEMMA CleanedCalm ==
    ASSUME IInv, NEW p \in Proc, Up(p), pc[p] # "boot" \/ Image(p) \in Version,
           file' = Cleaned, at' = at, got' = got,
           \A q \in Proc : pc'[q] # "off" /\ ~Up(q) => Accepts
    PROVE  Calm /\ file'["exe"] = file["exe"]
<1>1. Undisturbed(Proc) /\ file'["exe"] = file["exe"]
    BY CleanedSpares
<1>2. \A f \in Backup : file'[f] \in {file[f], Absent}
    BY Names DEF Cleaned
<1> QED
    BY <1>1, <1>2, GoingOnCalm DEF Accepts

LEMMA WorldOrdinary ==
    ASSUME IInv,
           \/ RequestStop \/ Reboot
           \/ \E p \in Proc : Kill(p) \/ BootDies(p) \/ RetryCleanup(p)
    PROVE  Ordinary
<1> USE DEF Ordinary
<1>1. harm \subseteq harm'
    BY WorldQuiet
<1>2. CASE RequestStop
    BY <1>1, <1>2, StillCalm DEF RequestStop, procVars, updVars, Event
<1>3. CASE Reboot
    <2>1. PICK started \in SUBSET Proc :
            Processes(Proc, started, "none") /\ (started # {} => Accepts)
        <3>1. (CHOOSE d \in Daemon : TRUE) \in Proc
            BY ProcessAssumption, Slots
        <3> QED
            BY <1>3, <3>1 DEF Reboot
    <2>2. file' = file /\ latest' = latest
        BY <1>3 DEF Reboot, Event
    <2>3. Calm
        BY <2>1, <2>2, ProcessesCalm DEF Undisturbed, Accepts
    <2> QED
        BY <1>1, <2>2, <2>3
<1>4. ASSUME NEW p \in Proc, Kill(p) \/ BootDies(p)
      PROVE  Ordinary
    BY <1>1, <1>4, EndCalm DEF Kill, BootDies, Event, worldVars
<1>5. ASSUME NEW p \in Proc, RetryCleanup(p)
      PROVE  Ordinary
    <2>1. Up(p) /\ pc[p] # "boot" /\ file' = Cleaned /\ pc' = pc /\ at' = at /\ got' = got
          /\ latest' = latest
        BY <1>5 DEF RetryCleanup, Up, procVars, updVars, worldVars
    <2> QED
        BY <1>1, <2>1, CleanedCalm DEF Up
<1> QED
    BY <1>2, <1>3, <1>4, <1>5

\* What main() does first, in a process that then goes on.
LEMMA StartOrdinary ==
    ASSUME IInv, NEW p \in Proc, pc[p] = "boot", Works(Image(p)), MainStarts, NEW s, Goes(p, s)
    PROVE  Ordinary
<1>1. Up(p) /\ Image(p) \in Version /\ file' = Cleaned /\ at' = at /\ got' = got
      /\ latest' = latest /\ harm' = harm
    BY DEF Works, Up, MainStarts, Goes, updVars, worldVars
<1>2. pc \in [Proc -> State]
    BY TypeParts DEF IInv, ProcTypes
<1>3. \A q \in Proc : pc'[q] # "off" => Up(q)
    BY <1>1, <1>2 DEF Goes, Up
<1> QED
    BY <1>1, <1>3, CleanedCalm DEF Ordinary

\* A free slot that is taken: processes are started from the executable.
LEMMA SlotsCalm ==
    ASSUME IInv, at' = at, got' = got, file' = file,
           \A p \in Proc : pc'[p] # "off" /\ ~Up(p) => Accepts
    PROVE  Calm
BY GoingOnCalm DEF Accepts, Undisturbed

LEMMA DaemonOrdinary ==
    ASSUME IInv, NEW d \in Daemon,
           DaemonStep(d) \/ ParentTimeout(d) \/ Heartbeat(d) \/ Relaunch(d)
    PROVE  Ordinary
<1> USE Slots DEF Ordinary
<1>1. harm \subseteq harm'
    BY DaemonQuiet
<1>2. CASE BootDies(d)
    BY <1>2, WorldOrdinary
<1>3. CASE DaemonBoot(d)
    BY <1>3, StartOrdinary DEF DaemonBoot
<1>4. CASE ParentTimeout(d)
    BY <1>1, <1>4, StillCalm DEF ParentTimeout, updVars, worldVars
<1>5. CASE Claim(d)
    <2>1. \A p \in Proc : pc'[p] # "off" /\ ~Up(p) => Accepts
        BY <1>5 DEF Claim
    <2> QED
        BY <1>1, <1>5, <2>1, SlotsCalm DEF Claim, updVars, worldVars
<1>6. CASE ClaimFails(d) \/ StartupRaises(d) \/ RestartForUpdate(d) \/ ObeySignal(d)
    BY <1>1, <1>6, EndCalm
    DEF ClaimFails, StartupRaises, RestartForUpdate, ObeySignal, Event, worldVars
<1>7. CASE Heartbeat(d)
    <2>1. PICK old \in SUBSET Watchdog, new \in SUBSET Watchdog :
            /\ new # {} => Accepts
            /\ Processes(old, new, "none")
            /\ file' = [f \in Path |->
                  IF /\ f \in Backup
                     /\ ~\E p \in Proc \ old : Up(p) /\ at[p] = f
                     /\ old = {} \/ Accepts
                  THEN Absent ELSE file[f]]
        BY <1>7, HeartbeatShape
    <2>2. at \in [Proc -> Path]
        BY TypeParts DEF IInv, ProcTypes
    <2>3. Undisturbed(Proc \ old) /\ file'["exe"] = file["exe"]
        BY <2>1, <2>2, Names DEF Undisturbed
    <2>4. \A f \in Backup : file'[f] \in {file[f], Absent}
        BY <2>1, Names
    <2>5. Calm
        BY <2>1, <2>3, <2>4, ProcessesCalm DEF Accepts
    <2> QED
        BY <1>1, <1>7, <2>3, <2>5 DEF Heartbeat, worldVars
<1>8. CASE Relaunch(d)
    <2>1. \A p \in Proc : pc'[p] # "off" /\ ~Up(p) => Accepts
        <3>1. PICK new \in {OneOf(FreeDaemon), {}} :
                pc' = [p \in Proc |-> IF p \in new THEN "boot" ELSE pc[p]]
            BY <1>8, Zenon DEF Relaunch
        <3> QED
            BY <3>1, OneOfType DEF Up
    <2>2. latest' = latest
        BY <1>8 DEF Relaunch, Event, worldVars
    <2> QED
        BY <1>1, <1>8, <2>1, <2>2, SlotsCalm DEF Relaunch
<1> QED
    BY <1>2, <1>3, <1>4, <1>5, <1>6, <1>7, <1>8 DEF DaemonStep

LEMMA GuiOrdinary ==
    ASSUME IInv, GuiStep \/ GuiOpen \/ GuiClose \/ GuiDecline \/ GuiConfirm
    PROVE  Ordinary
<1> USE Slots DEF Ordinary
<1>1. harm \subseteq harm'
    BY GuiQuiet
<1>2. CASE BootDies(GUI)
    BY <1>2, WorldOrdinary
<1>3. Bootstrap \in SUBSET Proc /\ (Bootstrap # {} => Accepts)
    BY BootstrapType, OneOfType DEF Bootstrap
<1>4. CASE GuiBoot
    <2>1. Up(GUI) /\ Image(GUI) \in Version /\ file' = Cleaned /\ at' = at /\ got' = got
          /\ latest' = latest
        BY <1>4 DEF GuiBoot, Works, Up, updVars, worldVars
    <2>2. \A p \in Proc : pc'[p] # "off" /\ ~Up(p) => Accepts
        BY <1>3, <1>4, <2>1 DEF GuiBoot, Up
    <2> QED
        BY <1>1, <2>1, <2>2, CleanedCalm
<1>5. CASE GuiClose
    <2>1. Processes({GUI}, Bootstrap, "none") /\ file' = file /\ latest' = latest
        BY <1>5 DEF GuiClose, worldVars
    <2> QED
        BY <1>1, <1>3, <2>1, ProcessesCalm DEF Undisturbed, Accepts
<1>6. CASE GuiDecline \/ GuiConfirm
    BY <1>1, <1>6, GoesCalm DEF GuiDecline, GuiConfirm, Up, worldVars
<1>7. ASSUME Accepts, Processes({}, {GUI}, "none"), file' = file
      PROVE  Calm
    BY <1>7, ProcessesCalm DEF Undisturbed, Accepts
<1>8. CASE GuiOpen
    BY <1>1, <1>7, <1>8 DEF GuiOpen, worldVars
<1>9. CASE GuiRelaunch
    BY <1>1, <1>7, <1>9, GoesCalm DEF GuiRelaunch, Event, worldVars, Up
<1> QED
    BY <1>2, <1>4, <1>5, <1>6, <1>8, <1>9 DEF GuiStep

\* The watchdog puts the backup back and starts a daemon from it.
LEMMA RollbackMaps ==
    ASSUME IInv, Imaged, NEW w \in Watchdog, NEW d \in FreeDaemon,
           Processes({w}, {d}, "none"), file["bak"] # Absent, ~InUse("exe"), NoCopy,
           file' = [file EXCEPT !["exe"] = file["bak"]], latest' = latest, Single' = Single
    PROVE  Imaged' /\ Channel!Next
<1> USE Slots
<1>1. at \in [Proc -> Path] /\ file \in [Path -> Content]
    BY TypeParts DEF IInv, ProcTypes
<1>2. file'["exe"] = file["bak"] /\ \A f \in Path \ {"exe"} : file'[f] = file[f]
    BY <1>1, Names
<1>3. Undisturbed(Proc \ {w})
    BY <1>1, <1>2, Names DEF Undisturbed, InUse
<1>4. \A f \in Backup : file'[f] \in {file[f], Absent}
    BY <1>2, Names
<1>5. {w} \in SUBSET Proc /\ {d} \in SUBSET Proc
    BY DEF FreeDaemon
<1>6. Calm
    BY <1>2, <1>3, <1>4, <1>5, ProcessesCalm
<1>7. ExeImage' = file["bak"] /\ ExeImage' \in Kept
    BY <1>1, <1>2, Names DEF Content, ExeImage, Kept
<1> QED
    BY <1>6, <1>7, CalmImaged, CalmParts, RevertMaps

LEMMA WatchdogMaps ==
    ASSUME IInv, Imaged, NEW w \in Watchdog, WatchdogStep(w)
    PROVE  Imaged' /\ Channel!Next
<1> USE Slots
<1>1. harm \subseteq harm'
    BY WatchdogQuiet
<1>2. CASE BootDies(w)
    BY <1>2, WorldOrdinary, OrdinaryMaps
<1>3. CASE WatchdogBoot(w)
    BY <1>3, StartOrdinary, OrdinaryMaps DEF WatchdogBoot
<1>4. CASE WatchdogClaim(w) \/ Awaited(w)
    <2>1. Calm /\ file' = file /\ latest' = latest
        BY <1>4, EndCalm, GoesCalm DEF WatchdogClaim, Awaited, Up, worldVars
    <2> QED
        BY <1>1, <2>1, OrdinaryMaps DEF Ordinary
<1>5. CASE Look(w)
    <2>1. file' = file /\ latest' = latest
        BY <1>5 DEF Look, worldVars
    <2>2. CASE Processes({w}, {}, "none")
        BY <1>1, <2>1, <2>2, EndCalm, OrdinaryMaps DEF Ordinary
    <2>3. CASE pc' = [pc EXCEPT ![w] = "await"] /\ UNCHANGED <<at, parent, updVars, restart>>
        <3>1. pc \in [Proc -> State] /\ Up(w)
            BY <1>5, TypeParts DEF IInv, ProcTypes, Look, Up
        <3>2. \A p \in Proc : pc'[p] # "off" => Up(p)
            BY <2>3, <3>1 DEF Up
        <3>3. Calm
            BY <2>1, <2>3, <3>2, SlotsCalm DEF updVars
        <3> QED
            BY <1>1, <2>1, <3>3, OrdinaryMaps DEF Ordinary
    <2> QED
        BY <1>5, <2>2, <2>3 DEF Look
<1>6. CASE GiveUp(w)
    <2>1. latest' = latest /\ Single' = Single
        BY <1>6 DEF GiveUp, Event, worldVars, Single
    <2>2. CASE file' = file /\ Processes({w}, {}, "none")
        BY <1>1, <2>1, <2>2, EndCalm, OrdinaryMaps DEF Ordinary
    <2>3. CASE Accepts /\ file' = file /\ Processes({w}, OneOf(FreeDaemon), "none")
        <3>1. OneOf(FreeDaemon) \in SUBSET Proc
            BY OneOfType DEF FreeDaemon
        <3>2. Calm
            BY <2>3, <3>1, ProcessesCalm DEF Undisturbed, Accepts
        <3> QED
            BY <1>1, <2>1, <2>3, <3>2, OrdinaryMaps DEF Ordinary
    <2>4. CASE /\ file["bak"] # Absent /\ ~InUse("exe") /\ NoCopy
               /\ file' = [file EXCEPT !["exe"] = file["bak"]]
               /\ \E d \in FreeDaemon : Processes({w}, {d}, "none")
        BY <2>1, <2>4, RollbackMaps
    <2> QED
        BY <1>6, <2>2, <2>3, <2>4 DEF GiveUp, NoCopy
<1> QED
    BY <1>2, <1>3, <1>4, <1>5, <1>6 DEF WatchdogStep

LEMMA ReleaseMaps ==
    ASSUME IInv, Imaged, Release
    PROVE  Imaged' /\ Channel!Next
<1>1. UNCHANGED <<file, pc, at, got, harm>> /\ latest' = latest + 1
    BY DEF Release, procVars, updVars
<1>2. /\ ExeImage' = ExeImage /\ Kept' = Kept /\ Runs' = Runs /\ Approved' = Approved
      /\ Single' = Single /\ Imaged'
    BY <1>1 DEF ExeImage, Kept, Runs, Approved, Single, Imaged, Up, Image
<1> QED
    BY <1>1, <1>2, PublishMaps

-----------------------------------------------------------------------------
(* Steps of the swap                                                       *)

\* A swap leaves to every process the image it runs from.
Spared ==
    \A p \in Proc : /\ pc'[p] # "off" <=> Up(p)
                    /\ Up(p) => Image(p)' = Image(p)

LEMMA SparedRuns ==
    ASSUME Imaged, Spared
    PROVE  Imaged' /\ Runs' = Runs
BY DEF Imaged, Spared, Runs, Up

\* The threads' notes: nothing is added to what was found.
LEMMA ThroughForgets ==
    ASSUME IInv, NEW u \in Updater, NEW s, Through(u, s)
    PROVE  \A v \in Updater : got'[v] \in {got[v], Absent}
BY ThreadTypes DEF Through

LEMMA ApprovedKept ==
    ASSUME \A v \in Updater : got'[v] \in {got[v], Absent},
           file'["new"] \in {file["new"], Absent, Torn} \union {got[v] : v \in Updater}
    PROVE  Approved' \subseteq Approved
BY DEF Approved

\* Only the staging file changes.
LEMMA StagingMaps ==
    ASSUME IInv, Imaged, NEW u \in Updater, NEW c,
           UNCHANGED <<pc, at, latest>>, harm \subseteq harm',
           file' = file \/ file' = [file EXCEPT !["new"] = c],
           \A v \in Updater : got'[v] \in {got[v], Absent},
           c \in {file["new"], Absent, Torn} \union {got[v] : v \in Updater}
    PROVE  Imaged' /\ Channel!Next
<1>1. at \in [Proc -> Path] /\ file \in [Path -> Content]
    BY ThreadTypes
<1>2. \A f \in Path \ {"new"} : file'[f] = file[f]
    BY <1>1
<1>3. Spared
    BY <1>1, <1>2 DEF Spared, IInv, Running, Up, Image
<1>4. Kept' = Kept /\ ExeImage' = ExeImage
    BY <1>2, Names DEF Kept, ExeImage
<1>5. file'["new"] = file["new"] \/ file'["new"] = c
    BY <1>1, Names
<1>6. Approved' \subseteq Approved
    BY <1>5, ApprovedKept
<1>7. Single' => Single
    BY DEF Single
<1> QED
    BY <1>3, <1>4, <1>6, <1>7, SparedRuns, WorkMaps

LEMMA DownloadMaps ==
    ASSUME IInv, Imaged, NEW u \in Updater, Download(u)
    PROVE  Imaged' /\ Channel!Next
<1> USE Slots
<1>1. /\ UNCHANGED <<file, pc, at, harm, latest>> /\ pc[u] \in {"run", "open"}
      /\ got' = [got EXCEPT ![u] = latest] /\ latest > Image(u)
    BY DEF Download, Event
<1>2. Image(u) \in Runs
    BY <1>1 DEF IInv, Running, Up, Runs
<1>3. latest \in 1 .. latest
    BY TypeParts, BoundAssumption DEF IInv, WorldTypes, Version
<1>4. Image(u) < latest
    BY <1>1, <1>2, <1>3 DEF Runs, Version
<1>5. latest \in FoundNow
    BY <1>2, <1>3, <1>4 DEF FoundNow
<1>6. Approved' \subseteq Approved \union FoundNow
    <2>1. \A v \in Updater : got'[v] = got[v] \/ got'[v] \in FoundNow
        BY <1>1, <1>5, ThreadTypes
    <2> QED
        BY <1>1, <2>1 DEF Approved
<1>7. /\ ExeImage' = ExeImage /\ Kept' = Kept /\ Runs' = Runs
      /\ Single' = Single /\ Imaged'
    BY <1>1 DEF ExeImage, Kept, Runs, Single, Imaged, Up, Image
<1> QED
    BY <1>1, <1>6, <1>7, WorkMaps

LEMMA StageMaps ==
    ASSUME IInv, Imaged, NEW u \in Updater,
           StageBegin(u) \/ StageEnd(u) \/ SetAsideFails(u)
    PROVE  Imaged' /\ Channel!Next
<1>1. UNCHANGED <<pc, at, latest>> /\ harm \subseteq harm'
    BY DEF StageBegin, StageEnd, SetAsideFails, worldVars
<1>2. CASE StageBegin(u)
    <2>1. \A v \in Updater : got'[v] \in {got[v], Absent}
        BY <1>2, ThroughForgets DEF StageBegin
    <2>2. file' = file \/ file' = [file EXCEPT !["new"] = Torn]
        BY <1>2 DEF StageBegin
    <2> QED
        BY <1>1, <2>1, <2>2, StagingMaps
<1>3. CASE StageEnd(u)
    <2>1. got' = got /\ file' = [file EXCEPT !["new"] = got[u]]
        BY <1>3 DEF StageEnd
    <2>2. got[u] \in {file["new"], Absent, Torn} \union {got[v] : v \in Updater}
        OBVIOUS
    <2> QED
        BY <1>1, <2>1, <2>2, StagingMaps
<1>4. CASE SetAsideFails(u)
    <2>1. \A v \in Updater : got'[v] \in {got[v], Absent}
        BY <1>4, ThroughForgets DEF SetAsideFails
    <2>2. file' = [file EXCEPT !["new"] = DropStaged(u)] /\ DropStaged(u) \in {file["new"], Absent}
        BY <1>4 DEF SetAsideFails, DropStaged
    <2> QED
        BY <1>1, <2>1, <2>2, StagingMaps
<1> QED
    BY <1>2, <1>3, <1>4

LEMMA SetAsideMaps ==
    ASSUME IInv, Imaged, NEW u \in Updater, SetAside(u)
    PROVE  Imaged' /\ Channel!Next
<1> USE Slots
<1>1. at \in [Proc -> Path] /\ file \in [Path -> Content] /\ file["exe"] # Absent
    BY ThreadTypes DEF SetAside
<1>2. PICK t \in Target :
        /\ file' = [file EXCEPT ![t] = file["exe"], !["exe"] = Absent]
        /\ at' = [p \in Proc |-> IF Up(p) /\ at[p] = "exe" THEN t ELSE at[p]]
    BY Zenon DEF SetAside
<1>3. t \in Backup /\ t # "new" /\ t # "exe" /\ t \in Path
    BY Names DEF Target
<1>4. /\ file'[t] = file["exe"] /\ file'["exe"] = Absent /\ file'["new"] = file["new"]
      /\ \A f \in Path \ {"exe", t} : file'[f] = file[f]
    BY <1>1, <1>2, <1>3, Names
<1>5. ~InUse(t)
    <2>1. InUse(t) => file[t] = Absent
        BY DEF Target
    <2> QED
        BY <2>1 DEF Imaged, InUse, Image
<1>6. UNCHANGED <<pc, got, harm, latest>>
    BY DEF SetAside, worldVars
<1>7. Spared
    <2> SUFFICES ASSUME NEW p \in Proc, Up(p)
                 PROVE  file'[at'[p]] = file[at[p]]
        BY <1>6 DEF Spared, Up, Image
    <2>1. CASE at[p] = "exe"
        BY <1>2, <1>4, <2>1
    <2>2. CASE at[p] # "exe"
        BY <1>1, <1>2, <1>4, <1>5, <2>2 DEF InUse
    <2> QED
        BY <2>1, <2>2
<1>8. Kept' \subseteq Kept \union {ExeImage, Torn}
    <2>1. file["exe"] \in {ExeImage, Torn}
        BY <1>1, Names DEF ExeImage, Content
    <2>2. \A f \in Backup : file'[f] \in {file[f], ExeImage, Torn}
        BY <1>4, <2>1, Names
    <2> QED
        BY <2>2 DEF Kept
<1>9. ExeImage' = Torn
    BY <1>4, Contents DEF ExeImage
<1>10. Approved' \subseteq Approved
    BY <1>4, <1>6, ApprovedKept
<1> QED
    BY <1>6, <1>7, <1>8, <1>9, <1>10, SparedRuns, ReplaceMaps DEF Replaces, Single

LEMMA PlaceBeginMaps ==
    ASSUME IInv, Imaged, NEW u \in Updater, PlaceBegin(u)
    PROVE  Imaged' /\ Channel!Next
<1>1. /\ UNCHANGED <<pc, at, got, harm, latest>> /\ ~InUse("exe")
      /\ file' = [file EXCEPT !["exe"] = Torn]
      /\ at \in [Proc -> Path] /\ file \in [Path -> Content]
    BY ThreadTypes DEF PlaceBegin, Placeable, worldVars
<1>2. file'["exe"] = Torn /\ \A f \in Path \ {"exe"} : file'[f] = file[f]
    BY <1>1, Names
<1>3. Spared
    BY <1>1, <1>2 DEF Spared, Up, Image, InUse
<1>4. Kept' = Kept /\ ExeImage' = Torn
    BY <1>2, Names, Contents DEF Kept, ExeImage
<1>5. Approved' \subseteq Approved
    BY <1>1, <1>2, Names, ApprovedKept
<1> QED
    BY <1>1, <1>3, <1>4, <1>5, SparedRuns, ReplaceMaps DEF Replaces, Single

\* The executable is missing while its backup is renamed back.
LEMMA RestoreMaps ==
    ASSUME IInv, Imaged, NEW b \in Backup, Renamed(b, "exe"),
           pc' = pc, latest' = latest, Single' = Single,
           \A v \in Updater : got'[v] \in {got[v], Absent}
    PROVE  Imaged' /\ Channel!Next
<1>1. /\ file["exe"] = Absent /\ file[b] # Absent
      /\ file' = [file EXCEPT !["exe"] = file[b], ![b] = Absent]
      /\ at' = [p \in Proc |-> IF Up(p) /\ at[p] = b THEN "exe" ELSE at[p]]
      /\ at \in [Proc -> Path] /\ file \in [Path -> Content]
    BY ThreadTypes DEF Renamed
<1>2. b \in Path /\ b # "exe" /\ b # "new"
    BY Names
<1>3. /\ file'["exe"] = file[b] /\ file'[b] = Absent
      /\ \A f \in Path \ {"exe", b} : file'[f] = file[f]
    BY <1>1, <1>2, Names
<1>4. Spared
    <2> SUFFICES ASSUME NEW p \in Proc, Up(p)
                 PROVE  file'[at'[p]] = file[at[p]]
        BY DEF Spared, Up, Image
    <2>1. CASE at[p] = b
        BY <1>1, <1>3, <2>1
    <2>2. CASE at[p] # b
        BY <1>1, <1>3, <2>2 DEF Imaged, Image
    <2> QED
        BY <2>1, <2>2
<1>5. Kept' \subseteq Kept
    BY <1>3, Names DEF Kept
<1>6. ExeImage' \in Kept
    BY <1>1, <1>2, <1>3 DEF Kept, ExeImage, Content
<1>7. Approved' \subseteq Approved
    BY <1>2, <1>3, Names, ApprovedKept
<1> QED
    BY <1>4, <1>5, <1>6, <1>7, SparedRuns, RevertMaps

LEMMA PlaceFailsMaps ==
    ASSUME IInv, Imaged, NEW u \in Updater, PlaceFails(u)
    PROVE  Imaged' /\ Channel!Next
<1>1. /\ pc' = pc /\ latest' = latest /\ harm \subseteq harm' /\ Single' = Single
      /\ Through(u, "idle")
    BY DEF PlaceFails, Event, worldVars, Single
<1>2. \A v \in Updater : got'[v] \in {got[v], Absent}
    BY <1>1, ThroughForgets
<1>3. CASE Renamed(aside[u], "exe")
    BY <1>1, <1>2, <1>3, ThreadFacts, RestoreMaps
<1>4. CASE UNCHANGED <<file, at>>
    <2>1. file' = file /\ at' = at /\ file["new"] \in {file["new"], Absent, Torn}
        BY <1>4
    <2> QED
        BY <1>1, <1>2, <2>1, StagingMaps
<1> QED
    BY <1>3, <1>4 DEF PlaceFails

\* What is put in place was found by some updater; alone, by this one.
LEMMA PlaceEndMaps ==
    ASSUME IInv, Imaged, Newer, Alone, NEW u \in Updater, PlaceEnd(u)
    PROVE  Imaged' /\ Channel!Next
<1> USE Slots
<1>1. /\ upd[u] = "placing" /\ UNCHANGED <<at, harm, latest>>
      /\ file' = [file EXCEPT !["exe"] = file["new"], !["new"] = DropStaged(u)]
      /\ at \in [Proc -> Path] /\ file \in [Path -> Content]
    BY ThreadTypes DEF PlaceEnd, worldVars
<1>2. pc[u] \in {"run", "open"} /\ file["new"] # Absent /\ ~InUse("exe")
    BY <1>1 DEF IInv, Updating
<1>3. pc' = pc \/ pc' = [pc EXCEPT ![u] = "ask"]
    BY DEF PlaceEnd
<1>4. /\ file'["exe"] = file["new"] /\ file'["new"] \in {file["new"], Absent}
      /\ \A f \in Path \ {"exe", "new"} : file'[f] = file[f]
    BY <1>1, Names DEF DropStaged
<1>5. Spared
    <2>1. pc \in [Proc -> State]
        BY TypeParts DEF IInv, ProcTypes
    <2>2. \A p \in Proc : pc'[p] # "off" <=> Up(p)
        BY <1>2, <1>3, <2>1 DEF Up
    <2>3. \A p \in Proc : Up(p) => file'[at[p]] = file[at[p]]
        BY <1>1, <1>2, <1>4 DEF IInv, Running, InUse
    <2> QED
        BY <1>1, <2>2, <2>3 DEF Spared, Image
<1>6. Kept' = Kept
    BY <1>4, Names DEF Kept
<1>7. \A v \in Updater : got'[v] \in {got[v], Absent}
    BY ThroughForgets DEF PlaceEnd
<1>8. Approved' \subseteq Approved
    BY <1>4, <1>7, ApprovedKept
<1>9. CASE file["new"] = Torn
    <2>1. ExeImage' = Torn
        BY <1>4, <1>9, Contents DEF ExeImage
    <2> QED
        BY <1>1, <1>5, <1>6, <1>8, <2>1, SparedRuns, ReplaceMaps DEF Replaces, Single
<1>10. CASE file["new"] # Torn
    <2>1. file["new"] \in Version
        BY <1>1, <1>2, <1>10, Names DEF Content
    <2>2. ExeImage' = file["new"] /\ ExeImage' \in Approved
        BY <1>2, <1>4, <1>10, <2>1 DEF ExeImage, Approved
    <2>3. Single => \E r \in Runs : r < ExeImage'
        <3> SUFFICES ASSUME Single
                     PROVE  \E r \in Runs : r < ExeImage'
            OBVIOUS
        <3>1. file["new"] = got[u] /\ got[u] > Image(u)
            BY <1>1 DEF Single, Alone, Newer
        <3>2. Image(u) \in Runs /\ Image(u) \in Version
            BY <1>2 DEF IInv, Running, Up, Runs
        <3>3. Image(u) < ExeImage'
            BY <2>1, <2>2, <3>1, <3>2 DEF Version
        <3> QED
            BY <3>2, <3>3
    <2> QED
        BY <1>1, <1>5, <1>6, <1>8, <2>2, <2>3, SparedRuns, ReplaceMaps DEF Replaces, Single
<1> QED
    BY <1>9, <1>10

-----------------------------------------------------------------------------
(* The refinement                                                          *)

LEMMA StepMaps ==
    ASSUME IInv, Imaged, Newer, Alone, Next
    PROVE  Imaged' /\ Channel!Next
<1> USE Slots
<1>1. CASE Ordinary
    BY <1>1, OrdinaryMaps
<1>2. CASE Release
    BY <1>2, ReleaseMaps
<1>3. ASSUME NEW u \in Updater, Download(u) \/ UpdateThread(u)
      PROVE  Imaged' /\ Channel!Next
    BY <1>3, DownloadMaps, StageMaps, SetAsideMaps, PlaceBeginMaps, PlaceFailsMaps,
       PlaceEndMaps DEF UpdateThread
<1>4. ASSUME NEW w \in Watchdog, WatchdogStep(w)
      PROVE  Imaged' /\ Channel!Next
    BY <1>4, WatchdogMaps
<1> QED
    BY <1>1, <1>2, <1>3, <1>4, WorldOrdinary, DaemonOrdinary, GuiOrdinary DEF Next

LEMMA InitMaps == Init => Imaged /\ Channel!Init
<1> USE Slots
<1> SUFFICES ASSUME Init
             PROVE  Imaged /\ Channel!Init
    OBVIOUS
<1>1. /\ file["exe"] = 1 /\ file["new"] = Absent /\ \A f \in Backup : file[f] = Absent
      /\ \A p \in Proc : at[p] = "exe"
      /\ \A u \in Updater : got[u] = Absent
      /\ latest = 1 /\ harm = {}
    BY Names DEF Init
<1>2. Imaged
    BY <1>1, Contents DEF Imaged, Image
<1>3. ExeImage = 1 /\ Kept = {} /\ Approved = {} /\ Single = TRUE
    BY <1>1, Contents DEF ExeImage, Kept, Approved, Single
<1>4. Runs \subseteq {ExeImage}
    BY <1>1, <1>3 DEF Runs, Image
<1> QED
    BY <1>1, <1>2, <1>3, <1>4, Zenon DEF Channel!Init, ExeImage, Kept, Runs, Approved, Single

\* Whatever processes are started, killed or raced, the executable changes only to
\* a version that an updater below it has found, or to a backup, or is missing or
\* torn: every step is one of ReleaseChannel's, or a stutter (check_for_update,
\* _swap_windows, watchdog_process).
THEOREM UpdateImplementsChannel == Spec => ImplementsChannel
<1>1. Init => Newer /\ Alone
    BY DEF Init, Newer, Alone, Busy
<1>2. IInv /\ Newer /\ Alone /\ [Next]_vars => Newer' /\ Alone'
    BY StepRises
<1>3. IInv /\ Imaged /\ Newer /\ Alone /\ [Next]_vars
        => Imaged' /\ [Channel!Next]_(Channel!vars)
    <2>1. ASSUME UNCHANGED vars
          PROVE  UNCHANGED Channel!vars /\ (Imaged => Imaged')
        BY <2>1 DEF vars, procVars, updVars, worldVars, Channel!vars, Imaged, Image, Up
    <2> QED
        BY <2>1, StepMaps
<1> QED
    BY <1>1, <1>2, <1>3, InitMaps, Initially, Step, PTL
    DEF Spec, ImplementsChannel, Channel!Spec

\* The update keeps the promise of ReleaseChannel, and what an update that is alone
\* puts in place is above the version of the process that applied it
\* (check_for_update, _swap_windows, watchdog_process).
THEOREM UpdateKeepsPromise == Spec => PromiseKept
BY UpdateImplementsChannel, UpdatesGoUp DEF PromiseKept
=============================================================================
