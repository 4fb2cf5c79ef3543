---------------------------- MODULE InventoryScan ----------------------------
(***************************************************************************)
(* ScanOrchestrator (src/scanner/orchestrator.py) with the threads of the  *)
(* daemon that drive it (src/sentinel_agent.py), and the inventory the     *)
(* backend ends up with.                                                   *)
(*                                                                         *)
(* Two threads share the snapshot: the scanner (start-up scan, periodic    *)
(* priority and deep scans, re-enrolment scan, one after the other) and    *)
(* the change monitor (run_registry_delta). The scanner alone owns the     *)
(* cache. Each of them changes the snapshot under the lock and sends the   *)
(* delta after it has released it.                                         *)
(*                                                                         *)
(* Software is named by its dedup_key. Layer 0 (registry, store, drivers,  *)
(* OS) lists the keys in L0Key; a file holds one key of FileKey. The two   *)
(* sets may share keys: a driver and the pe_sys file it was loaded from    *)
(* have the same one.                                                      *)
(***************************************************************************)
EXTENDS Integers, FiniteSets

CONSTANTS
    L0Key,          \* keys Layer 0 can list
    FileKey,        \* keys a file can hold
    Path,           \* files a drive walk can find
    Priority,       \* those under get_priority_scan_dirs
    NoFile,         \* content of a path with no file; no cache row
    MaxChanges,     \* bound on installs, uninstalls and file changes
    MaxRestarts,    \* bound on restarts of the daemon
    MaxReenrol,     \* bound on _run_post_enrollment_scan
    MaxLost,        \* bound on deltas that are given up
    MaxMishaps,     \* bound on restarts, re-enrolments and lost deltas together
    InPlace,        \* whether a file may be replaced by another version
    MayStop         \* whether stop_periodic_scans may cut a scan short

ASSUME PathAssumption == Priority \subseteq Path
ASSUME NoFileAssumption == NoFile \notin FileKey
ASSUME BoundAssumption == /\ MaxChanges \in Nat
                          /\ MaxRestarts \in Nat
                          /\ MaxReenrol \in Nat
                          /\ MaxLost \in Nat
                          /\ MaxMishaps \in Nat
                          /\ InPlace \in BOOLEAN
                          /\ MayStop \in BOOLEAN

VARIABLES
    \* the machine
    installed,      \* what Layer 0 lists now
    disk,           \* what each path holds now
    \* the orchestrator
    cache,          \* ScanCache: the key stored for each path
    snapshot,       \* _last_snapshot: the kind of source of each key, or "none"
    \* the scanner thread
    scanPc,         \* where it is
    kind,           \* the scan it runs
    todo,           \* paths the walk has still to come to
    seen,           \* seen_paths
    found,          \* new_items
    l0,             \* Layer 0 as this scan collected it
    out,            \* the delta or payload it is about to send
    onDelta,        \* whether start_periodic_scans was given a callback
    stopping,       \* _bg_stop is set
    \* the monitor thread
    monPc,
    monL0,
    monOut,
    monStale,       \* history: the snapshot was replaced since monOut was computed
    \* the daemon and the backend
    approved,       \* approval_sync_complete
    reenrol,        \* a post-enrolment scan has been asked for
    server,         \* the backend's inventory of this device
    \* history
    escaped,        \* entries of server the agent has lost sight of
    unsent,         \* keys of files found, and never to be reported to the backend
    changes, restarts, reenrols, lost

machineVars == <<installed, disk, changes>>
scanVars == <<scanPc, kind, todo, seen, found, l0, out>>
monVars == <<monPc, monL0, monOut, monStale>>
daemonVars == <<onDelta, stopping, approved, reenrol>>
sightVars == <<escaped, unsent>>
countVars == <<restarts, reenrols, lost>>
vars == <<machineVars, cache, snapshot, scanVars, monVars, daemonVars,
          server, sightVars, countVars>>

MayHappen == restarts + reenrols + lost < MaxMishaps

-----------------------------------------------------------------------------
Key == L0Key \cup FileKey

Source == {"none", "l0", "fs"}

Kinds == {"startup", "priority", "deep", "initial", "full"}

Delta == [add : SUBSET Key, del : SUBSET Key]

NoDelta == [add |-> {}, del |-> {}]

\* Mutant: a path without a row counts as software.
KeysInRaw(content, paths) == {content[p] : p \in paths}

\* The keys of all_cached_items, over a set of paths.
KeysIn(content, paths) == {content[p] : p \in paths} \ {NoFile}

CachedKeys == KeysIn(cache, Path)

\* walk_specified_dirs on the priority directories, or the drives.
Scope(k) == IF k \in {"deep", "full"} THEN Path ELSE Priority

\* Keys the snapshot holds from Layer 0.
TrackedL0 == {k \in Key : snapshot[k] = "l0"}

\* _deduplicate, then one entry for each key: Layer 0 wins over a file.
Dedup(fromL0, fromFiles) ==
    [k \in Key |-> IF k \in fromL0 THEN "l0"
                   ELSE IF k \in fromFiles THEN "fs" ELSE "none"]

Init ==
    /\ installed \in SUBSET L0Key
    /\ disk \in [Path -> FileKey \cup {NoFile}]
    /\ changes = 0
    /\ cache = [p \in Path |-> NoFile]
    /\ snapshot = [k \in Key |-> "none"]
    /\ scanPc = "boot" /\ kind = "startup"
    /\ todo = {} /\ seen = {} /\ found = {} /\ l0 = {} /\ out = NoDelta
    /\ onDelta = FALSE /\ stopping = FALSE /\ approved = FALSE /\ reenrol = FALSE
    /\ monPc = "off" /\ monL0 = {} /\ monOut = NoDelta /\ monStale = FALSE
    /\ server = {} /\ escaped = {} /\ unsent = {}
    /\ restarts = 0 /\ reenrols = 0 /\ lost = 0

-----------------------------------------------------------------------------
(* The machine                                                             *)

Change ==
    /\ changes < MaxChanges
    /\ changes' = changes + 1
    /\ UNCHANGED <<cache, snapshot, scanVars, monVars, daemonVars, server,
                   sightVars, countVars>>

Install(k) ==
    /\ Change
    /\ k \notin installed
    /\ installed' = installed \cup {k}
    /\ UNCHANGED disk

Uninstall(k) ==
    /\ Change
    /\ k \in installed
    /\ installed' = installed \ {k}
    /\ UNCHANGED disk

PutFile(p, c) ==
    /\ Change
    /\ c # disk[p]
    /\ disk[p] # NoFile => InPlace
    /\ disk' = [disk EXCEPT ![p] = c]
    /\ UNCHANGED installed

DeleteFile(p) ==
    /\ Change
    /\ disk[p] # NoFile
    /\ disk' = [disk EXCEPT ![p] = NoFile]
    /\ UNCHANGED installed

-----------------------------------------------------------------------------
(* Start of the daemon                                                     *)

\* load_snapshot_from_cache, and what main_agent starts: with the approval
\* sync complete the periodic scans resume without a callback and the monitor
\* at once; otherwise the Layer 0 baseline goes to the backend first and the
\* start-up scan follows. An empty cache leaves the (new) snapshot empty.
Boot ==
    /\ scanPc = "boot"
    /\ snapshot' = Dedup({}, CachedKeys)
    /\ IF approved
       THEN /\ scanPc' = "idle"
            /\ monPc' = "idle"
            /\ onDelta' = FALSE
            /\ UNCHANGED server
       ELSE /\ scanPc' = "begin"
            /\ server' = IF installed # {} THEN installed ELSE server
            /\ UNCHANGED <<monPc, onDelta>>
    /\ kind' = "startup"
    /\ UNCHANGED <<machineVars, cache, todo, seen, found, l0, out, monL0, monOut,
                   monStale, stopping, approved, reenrol, sightVars, countVars>>

-----------------------------------------------------------------------------
(* A scan of the file system: _run_incremental_scan, _run_full_drive_scan   *)

\* run_startup_scan and run_full_scan collect Layer 0 first.
Begin ==
    /\ scanPc = "begin"
    /\ scanPc' = "walk"
    /\ todo' = Scope(kind)
    /\ seen' = {} /\ found' = {}
    /\ l0' = IF kind \in {"startup", "full"} THEN installed ELSE {}
    /\ UNCHANGED <<machineVars, cache, snapshot, kind, out, monVars, daemonVars,
                   server, sightVars, countVars>>

\* Mutant: what was parsed does not reach the cache.
VisitUncached(p) ==
    /\ scanPc = "walk"
    /\ p \in todo
    /\ todo' = todo \ {p}
    /\ IF disk[p] = NoFile
       THEN UNCHANGED <<seen, found>>
       ELSE /\ seen' = seen \cup {p}
            /\ found' = found \cup {disk[p]}
    /\ UNCHANGED <<machineVars, cache, snapshot, scanPc, kind, l0, out, monVars,
                   daemonVars, server, sightVars, countVars>>

\* The workers parse a batch and store what they found.
Stored(p) == [cache EXCEPT ![p] = disk[p]]

\* A drive scan reports every file, the others what is new to the cache.
Reported(p) == IF cache[p] # disk[p] \/ kind \in {"deep", "full"} THEN {disk[p]} ELSE {}

\* The walk comes to p. A file whose stat equals the cached one is not parsed
\* again.
Visit(p) ==
    /\ scanPc = "walk"
    /\ p \in todo
    /\ todo' = todo \ {p}
    /\ IF disk[p] = NoFile
       THEN UNCHANGED <<seen, found, cache, escaped>>
       ELSE /\ seen' = seen \cup {p}
            /\ cache' = Stored(p)
            /\ found' = found \cup Reported(p)
            /\ escaped' = IF cache[p] \notin {NoFile, disk[p]}
                          THEN escaped \cup {cache[p]} ELSE escaped
    /\ UNCHANGED <<machineVars, snapshot, scanPc, kind, l0, out, monVars,
                   daemonVars, server, unsent, countVars>>

\* The periodic scans look at their stop event before every path.
Abort ==
    /\ scanPc = "walk"
    /\ stopping
    /\ kind \in {"priority", "deep"}
    /\ todo # {}
    /\ todo' = {}
    /\ UNCHANGED <<machineVars, cache, snapshot, scanPc, kind, seen, found, l0,
                   out, monVars, daemonVars, server, sightVars, countVars>>

\* Mutant: paths outside the scope of the scan are taken for deleted.
UnseenAnywhere == {p \in Path \ seen : cache[p] # NoFile}

\* Deletion detection: the cached paths of the scope the walk did not yield.
Unseen == {p \in Scope(kind) \ seen : cache[p] # NoFile}

RemovedKeys == KeysIn(cache, Unseen)

Evicted == [p \in Path |-> IF p \in Unseen THEN NoFile ELSE cache[p]]

\* _emit_fs_delta on the result of a priority, deep or initial scan.
Emit ==
    /\ scanPc = "walk"
    /\ todo = {}
    /\ kind \in {"priority", "deep", "initial"}
    /\ cache' = Evicted
    /\ LET added == {k \in found : snapshot[k] = "none"}
           kept == [k \in Key |-> IF k \in added THEN "fs" ELSE snapshot[k]]
       IN  /\ snapshot' = [k \in Key |-> IF k \in RemovedKeys /\ kept[k] = "fs"
                                         THEN "none" ELSE kept[k]]
           /\ out' = [add |-> added, del |-> RemovedKeys]
    /\ scanPc' = "sendDelta"
    /\ seen' = {} /\ found' = {}
    /\ UNCHANGED <<machineVars, kind, todo, l0, monVars, daemonVars, server,
                   sightVars, countVars>>

\* The end of run_startup_scan and run_full_scan: the result replaces the
\* snapshot and becomes the payload; what deletion detection found is dropped.
Replace ==
    /\ scanPc = "walk"
    /\ todo = {}
    /\ kind \in {"startup", "full"}
    /\ cache' = Evicted
    /\ LET files == IF kind = "startup" THEN found \cup KeysIn(Evicted, Path) ELSE found
       IN  /\ snapshot' = Dedup(l0, files)
           /\ out' = [add |-> l0 \cup files, del |-> {}]
    /\ scanPc' = "sendFull"
    /\ monStale' = (monPc = "send")
    /\ seen' = {} /\ found' = {}
    /\ UNCHANGED <<machineVars, kind, todo, l0, monPc, monL0, monOut, daemonVars,
                   server, sightVars, countVars>>

-----------------------------------------------------------------------------
(* What the scanner sends, and what it does next                           *)

\* The backend applies a delta. Which of the two lists it applies last when a
\* key is in both is the backend's choice.
Apply(d) == \/ server' = (server \cup d.add) \ d.del
            \/ server' = (server \ d.del) \cup d.add

AfterDelta ==
    /\ IF kind = "initial"
       THEN scanPc' = "begin" /\ kind' = "full"
       ELSE scanPc' = "idle" /\ UNCHANGED kind
    /\ out' = NoDelta

\* on_delta is called when there is something to tell and a callback to call.
\* Scans resumed after a restart have none (main_agent): what they find is in
\* the snapshot and the cache by now, and is not found again.
SendDelta ==
    /\ scanPc = "sendDelta"
    /\ IF onDelta \/ kind = "initial"
       THEN Apply(out) /\ unsent' = unsent \ out.add /\ UNCHANGED escaped
       ELSE /\ server' = server
            /\ escaped' = escaped \cup out.del
            /\ unsent' = unsent \cup out.add
    /\ AfterDelta
    /\ UNCHANGED <<machineVars, cache, snapshot, todo, seen, found, l0, monVars,
                   daemonVars, countVars>>

\* The delta is given up: the license is inactive, or an exception that is not
\* a connection error. (One that is queued instead is the offline queue's.)
LoseDelta ==
    /\ scanPc = "sendDelta"
    /\ MayHappen /\ lost < MaxLost
    /\ lost' = lost + 1
    /\ escaped' = escaped \cup out.del
    /\ unsent' = unsent \cup out.add
    /\ AfterDelta
    /\ UNCHANGED <<machineVars, cache, snapshot, todo, seen, found, l0, monVars,
                   daemonVars, server, restarts, reenrols>>

\* sync_complete_inventory: the full endpoint replaces what it had. Then the
\* approval sync is finished, the periodic scans start with a callback, and
\* after the start-up scan the monitor starts.
SendFull ==
    /\ scanPc = "sendFull"
    /\ server' = out.add
    /\ escaped' = {} /\ unsent' = {}
    /\ approved' = TRUE
    /\ onDelta' = TRUE
    /\ stopping' = FALSE
    /\ monPc' = IF monPc = "off" THEN "idle" ELSE monPc
    /\ scanPc' = "idle"
    /\ out' = NoDelta /\ l0' = {}
    /\ UNCHANGED <<machineVars, cache, snapshot, kind, todo, seen, found, monL0,
                   monOut, monStale, reenrol, countVars>>

\* The complete inventory is given up: the approval sync is not complete, but
\* the periodic scans and the monitor start all the same.
LoseFull ==
    /\ scanPc = "sendFull"
    /\ MayHappen /\ lost < MaxLost
    /\ lost' = lost + 1
    /\ escaped' = escaped \cup (server \ (l0 \cup CachedKeys))
    /\ unsent' = unsent \cup (CachedKeys \ server)
    /\ onDelta' = TRUE
    /\ stopping' = FALSE
    /\ monPc' = IF monPc = "off" THEN "idle" ELSE monPc
    /\ scanPc' = "idle"
    /\ out' = NoDelta /\ l0' = {}
    /\ UNCHANGED <<machineVars, cache, snapshot, kind, todo, seen, found, monL0,
                   monOut, monStale, approved, reenrol, server, restarts, reenrols>>

\* _periodic_worker starts a scan when its stop event is not set.
StartPeriodic(k) ==
    /\ scanPc = "idle"
    /\ ~stopping
    /\ k \in {"priority", "deep"}
    /\ scanPc' = "begin"
    /\ kind' = k
    /\ UNCHANGED <<machineVars, cache, snapshot, todo, seen, found, l0, out,
                   monVars, daemonVars, server, sightVars, countVars>>

\* _run_post_enrollment_scan (license renewed, or enrolled again): the main
\* thread sends the Layer 0 baseline and tells the periodic worker to stop.
Reenrol ==
    /\ approved
    /\ ~reenrol
    /\ \/ scanPc = "idle"
       \/ /\ MayStop
          /\ scanPc \in {"begin", "walk", "sendDelta"}
          /\ kind \in {"priority", "deep"}
    /\ MayHappen /\ reenrols < MaxReenrol
    /\ reenrols' = reenrols + 1
    /\ reenrol' = TRUE
    /\ stopping' = TRUE
    /\ server' = installed
    /\ UNCHANGED <<machineVars, cache, snapshot, scanVars, monVars, onDelta,
                   approved, sightVars, restarts, lost>>

\* The periodic worker has exited; run_priority_scan and run_full_scan follow.
StartReenrol ==
    /\ scanPc = "idle"
    /\ reenrol
    /\ reenrol' = FALSE
    /\ stopping' = FALSE
    /\ scanPc' = "begin"
    /\ kind' = "initial"
    /\ UNCHANGED <<machineVars, cache, snapshot, todo, seen, found, l0, out,
                   monVars, onDelta, approved, server, sightVars, countVars>>

-----------------------------------------------------------------------------
(* monitor_system_changes and run_registry_delta                           *)

MonitorCollect ==
    /\ monPc = "idle"
    /\ monL0' = installed
    /\ monPc' = "delta"
    /\ UNCHANGED <<machineVars, cache, snapshot, scanVars, monOut, monStale,
                   daemonVars, server, sightVars, countVars>>

\* Mutant: keys that are gone leave the snapshot at once.
MonitorDeltaForgets ==
    /\ monPc = "delta"
    /\ monOut' = [add |-> monL0 \ TrackedL0, del |-> TrackedL0 \ monL0]
    /\ snapshot' = [k \in Key |-> IF k \in monL0 THEN "l0"
                                  ELSE IF snapshot[k] = "l0" THEN "none" ELSE snapshot[k]]
    /\ monPc' = IF monOut' = NoDelta THEN "idle" ELSE "send"
    /\ monStale' = FALSE
    /\ monL0' = {}
    /\ escaped' = escaped \ monL0
    /\ UNCHANGED <<machineVars, cache, scanVars, daemonVars, server, unsent,
                   countVars>>

\* Under the lock: compare with the Layer 0 keys of the snapshot and merge the
\* new ones in. Keys that are gone are reported but stay in the snapshot; those
\* that are there are in sight again.
MonitorDelta ==
    /\ monPc = "delta"
    /\ monOut' = [add |-> monL0 \ TrackedL0, del |-> TrackedL0 \ monL0]
    /\ snapshot' = [k \in Key |-> IF k \in monL0 THEN "l0" ELSE snapshot[k]]
    /\ monPc' = IF monOut' = NoDelta THEN "idle" ELSE "send"
    /\ monStale' = FALSE
    /\ monL0' = {}
    /\ escaped' = escaped \ monL0
    /\ UNCHANGED <<machineVars, cache, scanVars, daemonVars, server, unsent,
                   countVars>>

MonitorSend ==
    /\ monPc = "send"
    /\ Apply(monOut)
    /\ escaped' = IF monStale THEN escaped \cup monOut.add ELSE escaped
    /\ monPc' = "idle"
    /\ monOut' = NoDelta
    /\ monStale' = FALSE
    /\ UNCHANGED <<machineVars, cache, snapshot, scanVars, monL0, daemonVars,
                   unsent, countVars>>

MonitorLose ==
    /\ monPc = "send"
    /\ MayHappen /\ lost < MaxLost
    /\ lost' = lost + 1
    /\ monPc' = "idle"
    /\ monOut' = NoDelta
    /\ monStale' = FALSE
    /\ UNCHANGED <<machineVars, cache, snapshot, scanVars, monL0, daemonVars,
                   server, sightVars, restarts, reenrols>>

-----------------------------------------------------------------------------
\* The scan cache is emptied when another version of the agent opens it, and
\* replaced by an empty one in memory when its files are read-only.
Invalidated == [p \in Path |-> NoFile]
OpenCache == cache' = cache \/ cache' = Invalidated

\* The daemon dies and is started again, the same version or an updated one. Of
\* the orchestrator at most the cache survives, so once the approval sync is
\* complete the entries of the backend that are not in it are out of sight, and
\* what is in it already but was not sent yet is not found again.
Restart ==
    /\ MayHappen /\ restarts < MaxRestarts
    /\ restarts' = restarts + 1
    /\ scanPc' = "boot" /\ kind' = "startup"
    /\ todo' = {} /\ seen' = {} /\ found' = {} /\ l0' = {} /\ out' = NoDelta
    /\ monPc' = "off" /\ monL0' = {} /\ monOut' = NoDelta /\ monStale' = FALSE
    /\ snapshot' = [k \in Key |-> "none"]
    /\ onDelta' = FALSE /\ stopping' = FALSE /\ reenrol' = FALSE
    /\ OpenCache
    /\ escaped' = escaped \cup (server \ CachedKeys')
    /\ unsent' = unsent \cup (CachedKeys' \ server)
    /\ UNCHANGED <<machineVars, approved, server, reenrols, lost>>

Monitor == MonitorCollect \/ MonitorDelta \/ MonitorSend

Scan == \/ Boot
        \/ Begin
        \/ \E p \in Path : Visit(p)
        \/ Abort
        \/ Emit
        \/ Replace
        \/ SendDelta
        \/ SendFull
        \/ StartReenrol

Machine == \/ \E k \in L0Key : Install(k) \/ Uninstall(k)
           \/ \E p \in Path : DeleteFile(p) \/ \E c \in FileKey : PutFile(p, c)

Next == \/ Machine
        \/ Scan
        \/ \E k \in {"priority", "deep"} : StartPeriodic(k)
        \/ Monitor
        \/ LoseDelta
        \/ LoseFull
        \/ MonitorLose
        \/ Reenrol
        \/ Restart

\* The threads of the daemon go on, and the interval of _periodic_worker brings
\* the deep scan round again and again; the priority scan may or may not run.
Fairness == /\ WF_vars(Scan)
            /\ WF_vars(Monitor)
            /\ SF_vars(StartPeriodic("deep"))

Spec == Init /\ [][Next]_vars /\ Fairness

-----------------------------------------------------------------------------
TypeOK ==
    /\ installed \subseteq L0Key
    /\ disk \in [Path -> FileKey \cup {NoFile}]
    /\ cache \in [Path -> FileKey \cup {NoFile}]
    /\ snapshot \in [Key -> Source]
    /\ scanPc \in {"boot", "begin", "walk", "sendDelta", "sendFull", "idle"}
    /\ kind \in Kinds
    /\ todo \subseteq Path /\ seen \subseteq Path
    /\ found \subseteq FileKey /\ l0 \subseteq L0Key
    /\ out \in Delta /\ monOut \in Delta
    /\ monPc \in {"off", "idle", "delta", "send"}
    /\ monL0 \subseteq L0Key
    /\ onDelta \in BOOLEAN /\ stopping \in BOOLEAN /\ approved \in BOOLEAN
    /\ reenrol \in BOOLEAN /\ monStale \in BOOLEAN
    /\ server \subseteq Key /\ escaped \subseteq Key /\ unsent \subseteq Key
    /\ changes \in 0..MaxChanges /\ restarts \in 0..MaxRestarts
    /\ reenrols \in 0..MaxReenrol /\ lost \in 0..MaxLost

-----------------------------------------------------------------------------
(* Properties                                                              *)

\* The next full inventory the scanner sends replaces whatever is there now.
FullComing == \/ ~approved
              \/ reenrol
              \/ scanPc # "idle" /\ kind \in {"initial", "full"}
              \/ scanPc = "sendFull"

\* The agent will report k as removed once it is gone: run_registry_delta finds
\* it in the snapshot, deletion detection finds it in the cache, or its
\* removal is on the way.
Tracked(k) == \/ snapshot[k] = "l0"
              \/ k \in CachedKeys
              \/ scanPc = "sendDelta" /\ k \in out.del

\* The backend lists nothing the agent has lost sight of, whatever the order
\* in which the scanner and the monitor change the snapshot and send, except
\* entries that escaped in one of the ways recorded in escaped: a file replaced
\* in place, a removal that was given up, a restart, or a monitor delta
\* computed before a full scan replaced the snapshot and sent after it.
ServerTracked == FullComing \/ \A k \in server : Tracked(k) \/ k \in escaped

\* A key of Layer 0 that is neither installed nor in a file any more leaves the
\* backend in the end, even when the delta that said so was given up: removed
\* keys stay in the snapshot and are reported again every cycle
\* (run_registry_delta).
UninstallReported ==
    <>[](\A k \in L0Key :
            k \in server => k \in installed \cup KeysIn(disk, Path) \cup escaped)

\* Once the disk stops changing, the backend lists a file's software exactly
\* when a file holds it: created and deleted files are reported, a scan cut short
\* is repaired by a later deep scan, and so is a copy whose twin was deleted
\* (_emit_fs_delta, deletion detection). Excepted are, on the one side, what
\* escaped as above, and on the other what is in unsent until a complete
\* inventory goes out: additions found by scans that were resumed after a restart
\* without a callback, that were given up, or that a restart kept from being sent.
FilesConverge ==
    <>[](\A k \in FileKey \ L0Key :
            /\ k \in server => k \in KeysIn(disk, Path) \cup escaped
            /\ k \in KeysIn(disk, Path) => k \in server \cup unsent)

\* "The periodic scan will then emit only deltas (additions and removals) as it
\* discovers changes since the last run" (load_snapshot_from_cache): what a scan
\* adds to the snapshot reaches the backend, also after a warm start. Expected to
\* fail.
AdditionsEmitted ==
    [][scanPc = "sendDelta" /\ scanPc' \in {"idle", "begin"} =>
          out.add \ out.del \subseteq server']_vars
=============================================================================
