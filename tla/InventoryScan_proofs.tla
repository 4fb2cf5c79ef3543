------------------------ MODULE InventoryScan_proofs ------------------------
(***************************************************************************)
(* InventoryScan keeps its types, and the backend lists nothing the agent  *)
(* has lost sight of, for every value of the constants.                    *)
(***************************************************************************)
EXTENDS InventoryScan, TLAPS

-----------------------------------------------------------------------------
(* The inductive invariant                                                 *)

\* Before the orchestrator is set up, the monitor does not run and the
\* snapshot is empty.
BootFresh == scanPc = "boot" => /\ kind = "startup"
                                /\ monPc = "off"
                                /\ TrackedL0 = {}

\* What a walk has reported is in the cache at a path the walk has passed.
FoundCached == scanPc = "walk" => /\ todo \cap seen = {}
                                  /\ \A c \in found : \E p \in seen : cache[p] = c

\* What a file-system delta adds is in the cache.
DeltaCached == scanPc = "sendDelta" => /\ kind \in {"priority", "deep", "initial"}
                                       /\ out.add \subseteq CachedKeys

\* What a complete inventory lists is in the snapshot or in the cache.
FullKnown == scanPc = "sendFull" => /\ l0 \subseteq TrackedL0
                                    /\ out.add \subseteq l0 \cup CachedKeys

\* What a monitor delta adds is in the snapshot it was computed against.
MonitorKnown == monPc = "send" /\ ~monStale => monOut.add \subseteq TrackedL0

Known == BootFresh /\ FoundCached /\ DeltaCached /\ FullKnown /\ MonitorKnown

-----------------------------------------------------------------------------
(* Types                                                                   *)

\* KeysIn returns software keys only: a path without a row has none.
LEMMA KeysInType ==
    ASSUME NEW content \in [Path -> FileKey \cup {NoFile}], NEW paths \in SUBSET Path
    PROVE  KeysIn(content, paths) \subseteq FileKey
BY DEF KeysIn

\* A rebuilt snapshot gives each key one kind of source.
LEMMA DedupType ==
    ASSUME NEW fromL0, NEW fromFiles
    PROVE  Dedup(fromL0, fromFiles) \in [Key -> Source]
BY DEF Dedup, Source

LEMMA InitType == Init => TypeOK
<1> SUFFICES ASSUME Init
             PROVE  TypeOK
    OBVIOUS
<1>1. NoDelta \in Delta
    BY DEF NoDelta, Delta
<1>2. snapshot \in [Key -> Source] /\ cache \in [Path -> FileKey \cup {NoFile}]
    BY DEF Init, Source
<1>3. /\ installed \subseteq L0Key /\ disk \in [Path -> FileKey \cup {NoFile}]
      /\ scanPc = "boot" /\ kind \in Kinds /\ monPc = "off"
      /\ todo = {} /\ seen = {} /\ found = {} /\ l0 = {} /\ monL0 = {}
      /\ server = {} /\ escaped = {} /\ unsent = {}
    BY DEF Init, Kinds
<1>4. /\ onDelta \in BOOLEAN /\ stopping \in BOOLEAN /\ approved \in BOOLEAN
      /\ reenrol \in BOOLEAN /\ monStale \in BOOLEAN
    BY DEF Init
<1>5. /\ changes \in 0..MaxChanges /\ restarts \in 0..MaxRestarts
      /\ reenrols \in 0..MaxReenrol /\ lost \in 0..MaxLost
    BY BoundAssumption DEF Init
<1>6. out \in Delta /\ monOut \in Delta
    BY <1>1 DEF Init
<1> QED BY <1>2, <1>3, <1>4, <1>5, <1>6 DEF TypeOK

LEMMA StepType == TypeOK /\ [Next]_vars => TypeOK'
<1> SUFFICES ASSUME TypeOK, [Next]_vars
             PROVE  TypeOK'
    OBVIOUS
<1> USE DEF TypeOK, machineVars, scanVars, monVars, daemonVars, sightVars, countVars
<1>k. FileKey \subseteq Key /\ L0Key \subseteq Key
    BY DEF Key
<1>n. NoDelta \in Delta
    BY DEF NoDelta, Delta
<1>1. CASE Machine
    <2>1. ASSUME NEW k \in L0Key, Install(k) \/ Uninstall(k)
          PROVE  TypeOK'
        BY <2>1, BoundAssumption DEF Install, Uninstall, Change
    <2>2. ASSUME NEW p \in Path, DeleteFile(p)
          PROVE  TypeOK'
        BY <2>2, BoundAssumption DEF DeleteFile, Change
    <2>3. ASSUME NEW p \in Path, NEW c \in FileKey, PutFile(p, c)
          PROVE  TypeOK'
        BY <2>3, BoundAssumption DEF PutFile, Change
    <2> QED BY <1>1, <2>1, <2>2, <2>3 DEF Machine
<1>2. CASE Boot
    <2>1. snapshot' \in [Key -> Source]
        BY <1>2, DedupType DEF Boot
    <2>2. server' \subseteq Key
        BY <1>2, <1>k DEF Boot
    <2> QED BY <1>2, <2>1, <2>2 DEF Boot, Kinds
<1>3. CASE Begin
    BY <1>3, PathAssumption DEF Begin, Scope
<1>4. ASSUME NEW p \in Path, Visit(p)
      PROVE  TypeOK'
    <2>1. disk[p] # NoFile => disk[p] \in FileKey
        OBVIOUS
    <2>2. cache' \in [Path -> FileKey \cup {NoFile}]
        BY <1>4 DEF Visit, Stored, Reported
    <2>3. escaped' \subseteq Key
        BY <1>4, <1>k DEF Visit, Stored, Reported
    <2>4. todo' \subseteq Path /\ seen' \subseteq Path /\ found' \subseteq FileKey
        BY <1>4, <2>1 DEF Visit, Stored, Reported
    <2> QED BY <1>4, <2>2, <2>3, <2>4 DEF Visit, Stored, Reported
<1>5. CASE Abort
    BY <1>5 DEF Abort
<1>e. Evicted \in [Path -> FileKey \cup {NoFile}] /\ RemovedKeys \subseteq FileKey
    <2>1. Unseen \subseteq Path
        BY PathAssumption DEF Unseen, Scope
    <2> QED BY <2>1, KeysInType DEF Evicted, RemovedKeys
<1>6. CASE Emit
    <2>1. snapshot' \in [Key -> Source]
        BY <1>6 DEF Emit, Source
    <2>2. out' \in Delta
        BY <1>6, <1>e, <1>k DEF Emit, Delta
    <2> QED BY <1>6, <1>e, <2>1, <2>2 DEF Emit
<1>7. CASE Replace
    <2> DEFINE files == IF kind = "startup" THEN found \cup KeysIn(Evicted, Path) ELSE found
    <2>1. files \subseteq FileKey
        BY <1>e, KeysInType
    <2>2. snapshot' \in [Key -> Source]
        BY <1>7, DedupType DEF Replace
    <2>3. out' \in Delta
        <3>1. out' = [add |-> l0 \cup files, del |-> {}]
            BY <1>7 DEF Replace
        <3> QED BY <3>1, <2>1, <1>k DEF Delta
    <2> QED BY <1>7, <1>e, <2>2, <2>3 DEF Replace
<1>8. CASE SendDelta
    BY <1>8, <1>n DEF SendDelta, Apply, AfterDelta, Delta, Kinds
<1>9. CASE SendFull
    BY <1>9, <1>n DEF SendFull, Delta
<1>10. CASE StartReenrol
    BY <1>10 DEF StartReenrol, Kinds
<1>11. ASSUME NEW k \in {"priority", "deep"}, StartPeriodic(k)
       PROVE  TypeOK'
    BY <1>11 DEF StartPeriodic, Kinds
<1>12. CASE MonitorCollect
    BY <1>12 DEF MonitorCollect
<1>13. CASE MonitorDelta
    <2>1. monOut' \in Delta
        BY <1>13, <1>k DEF MonitorDelta, Delta, TrackedL0
    <2>2. snapshot' \in [Key -> Source]
        BY <1>13 DEF MonitorDelta, Source
    <2> QED BY <1>13, <2>1, <2>2 DEF MonitorDelta
<1>14. CASE MonitorSend
    BY <1>14, <1>n DEF MonitorSend, Apply, Delta
<1>15. CASE LoseDelta
    BY <1>15, <1>n, BoundAssumption DEF LoseDelta, AfterDelta, Delta, Kinds
<1>16. CASE LoseFull
    <2>1. lost' \in 0..MaxLost
        BY <1>16, BoundAssumption DEF LoseFull
    <2>2. escaped' \subseteq Key /\ out' \in Delta
        BY <1>16, <1>n DEF LoseFull
    <2>3. CachedKeys \subseteq Key
        BY KeysInType, <1>k DEF CachedKeys
    <2>4. unsent' \subseteq Key
        BY <1>16, <2>3 DEF LoseFull
    <2> QED BY <1>16, <2>1, <2>2, <2>4 DEF LoseFull
<1>17. CASE MonitorLose
    <2>1. lost' \in 0..MaxLost
        BY <1>17, BoundAssumption DEF MonitorLose
    <2>2. monOut' \in Delta
        BY <1>17, <1>n DEF MonitorLose
    <2> QED BY <1>17, <2>1, <2>2 DEF MonitorLose
<1>18. CASE Reenrol
    BY <1>18, <1>k, BoundAssumption DEF Reenrol
<1>19. CASE Restart
    <2>1. restarts' \in 0..MaxRestarts
        BY <1>19, BoundAssumption DEF Restart
    <2>2. escaped' \subseteq Key /\ out' \in Delta /\ monOut' \in Delta
        BY <1>19, <1>n DEF Restart
    <2>3. snapshot' \in [Key -> Source] /\ kind' \in Kinds
        BY <1>19 DEF Restart, Source, Kinds
    <2>4. cache' \in [Path -> FileKey \cup {NoFile}]
        BY <1>19 DEF Restart, OpenCache, Invalidated
    <2>5. CachedKeys' \subseteq Key
        BY <2>4, <1>k DEF CachedKeys, KeysIn
    <2>6. unsent' \subseteq Key
        BY <1>19, <2>5 DEF Restart
    <2> QED BY <1>19, <2>1, <2>2, <2>3, <2>4, <2>6 DEF Restart
<1>20. CASE UNCHANGED vars
    BY <1>20 DEF vars
<1> QED
    BY <1>1, <1>2, <1>3, <1>4, <1>5, <1>6, <1>7, <1>8, <1>9, <1>10, <1>11, <1>12,
       <1>13, <1>14, <1>15, <1>16, <1>17, <1>18, <1>19, <1>20
       DEF Next, Scan, Monitor

\* Every variable of the scanner, the monitor and the backend keeps its type,
\* whatever the sets of software and files and the bounds are.
THEOREM TypeCorrect == Spec => []TypeOK
<1>1. Init => TypeOK
    BY InitType
<1>2. TypeOK /\ [Next]_vars => TypeOK'
    BY StepType
<1> QED BY <1>1, <1>2, PTL DEF Spec

-----------------------------------------------------------------------------
(* What evicting the unseen paths keeps                                    *)

\* A walk's findings stay in the cache: their paths were seen.
LEMMA FoundKept ==
    ASSUME TypeOK, FoundCached, scanPc = "walk"
    PROVE  found \subseteq KeysIn(Evicted, Path)
<1>1. ASSUME NEW c \in found
      PROVE  c \in KeysIn(Evicted, Path)
    <2>1. PICK p \in seen : cache[p] = c
        BY DEF FoundCached
    <2>2. p \in Path /\ Evicted[p] = c
        BY <2>1 DEF TypeOK, Evicted, Unseen
    <2>3. c # NoFile
        BY NoFileAssumption DEF TypeOK
    <2> QED BY <2>2, <2>3 DEF KeysIn
<1> QED BY <1>1

\* A key that leaves the cache is one deletion detection reports.
LEMMA EvictedReported ==
    ASSUME TypeOK, NEW k \in CachedKeys
    PROVE  k \in KeysIn(Evicted, Path) \cup RemovedKeys
<1>1. PICK p \in Path : cache[p] = k /\ k # NoFile
    BY DEF CachedKeys, KeysIn
<1>2. CASE p \in Unseen
    BY <1>1, <1>2 DEF RemovedKeys, KeysIn
<1>3. CASE p \notin Unseen
    BY <1>1, <1>3 DEF Evicted, KeysIn
<1> QED BY <1>2, <1>3

\* Parsing a file can only take the key it held before out of the cache.
LEMMA VisitKeeps ==
    ASSUME TypeOK, NEW p \in Path, Visit(p), NEW k \in CachedKeys
    PROVE  k \in CachedKeys' \cup escaped'
<1>1. PICK q \in Path : cache[q] = k /\ k # NoFile
    BY DEF CachedKeys, KeysIn
<1>2. CASE cache'[q] = k
    BY <1>1, <1>2 DEF CachedKeys, KeysIn
<1>3. CASE cache'[q] # k
    <2>1. q = p /\ cache' = [cache EXCEPT ![p] = disk[p]] /\ disk[p] # NoFile
        BY <1>1, <1>3 DEF Visit, Stored, Reported, TypeOK
    <2>2. cache[p] \notin {NoFile, disk[p]}
        BY <1>1, <1>3, <2>1 DEF TypeOK
    <2> QED BY <1>1, <2>1, <2>2 DEF Visit, Stored, Reported
<1> QED BY <1>2, <1>3

-----------------------------------------------------------------------------
(* The inductive step: what the scanner and the monitor know               *)

LEMMA InitKnown == Init => Known
BY DEF Init, Known, BootFresh, FoundCached, DeltaCached, FullKnown, MonitorKnown, TrackedL0

LEMMA StepKnown == TypeOK /\ Known /\ [Next]_vars => Known'
<1> SUFFICES ASSUME TypeOK, Known, [Next]_vars
             PROVE  Known'
    OBVIOUS
<1> USE DEF Known, machineVars, scanVars, monVars, daemonVars, sightVars, countVars
<1>0. ASSUME UNCHANGED <<cache, snapshot, scanVars, monVars>>
      PROVE  Known'
    BY <1>0 DEF BootFresh, FoundCached, DeltaCached, FullKnown, MonitorKnown,
                TrackedL0, CachedKeys, KeysIn
<1>1. CASE Machine
    BY <1>1, <1>0 DEF Machine, Install, Uninstall, PutFile, DeleteFile, Change
<1>2. CASE Boot
    <2>1. scanPc' \in {"idle", "begin"} /\ monPc' \in {"off", "idle"}
        BY <1>2 DEF Boot, BootFresh
    <2> QED BY <2>1 DEF BootFresh, FoundCached, DeltaCached, FullKnown, MonitorKnown
<1>3. CASE Begin
    <2>1. scanPc' = "walk" /\ seen' = {} /\ found' = {}
        BY <1>3 DEF Begin
    <2>2. MonitorKnown'
        BY <1>3 DEF Begin, MonitorKnown, TrackedL0
    <2> QED BY <2>1, <2>2 DEF BootFresh, FoundCached, DeltaCached, FullKnown
<1>4. ASSUME NEW p \in Path, Visit(p)
      PROVE  Known'
    <2>1. scanPc' = "walk" /\ p \in todo /\ p \notin seen
        BY <1>4 DEF Visit, Stored, Reported, FoundCached
    <2>2. FoundCached'
        <3>1. (todo \cap seen)' = {}
            BY <1>4, <2>1 DEF Visit, Stored, Reported, FoundCached
        <3>2. ASSUME NEW c \in found'
              PROVE  \E q \in seen' : cache'[q] = c
            <4>1. CASE c \in found
                <5>1. PICK q \in seen : cache[q] = c
                    BY <4>1, <1>4 DEF Visit, Stored, Reported, FoundCached
                <5>2. q \in seen' /\ cache'[q] = c
                    BY <1>4, <2>1, <5>1 DEF Visit, Stored, Reported, TypeOK
                <5> QED BY <5>2
            <4>2. CASE c \notin found
                <5>1. p \in seen' /\ cache'[p] = c
                    BY <1>4, <4>2 DEF Visit, Stored, Reported, TypeOK
                <5> QED BY <5>1
            <4> QED BY <4>1, <4>2
        <3> QED BY <3>1, <3>2 DEF FoundCached
    <2>3. MonitorKnown'
        BY <1>4 DEF Visit, Stored, Reported, MonitorKnown, TrackedL0
    <2> QED BY <2>1, <2>2, <2>3 DEF BootFresh, DeltaCached, FullKnown
<1>5. CASE Abort
    <2>1. MonitorKnown'
        BY <1>5 DEF Abort, MonitorKnown, TrackedL0
    <2> QED BY <1>5, <2>1 DEF Abort, BootFresh, FoundCached, DeltaCached, FullKnown
<1>6. CASE Emit
    <2>1. DeltaCached'
        <3>1. out'.add \subseteq found
            BY <1>6 DEF Emit
        <3> QED BY <1>6, <3>1, FoundKept DEF Emit, DeltaCached, CachedKeys
    <2>2. MonitorKnown'
        <3>1. ASSUME NEW k \in TrackedL0
              PROVE  k \in TrackedL0'
            BY <1>6 DEF Emit, TrackedL0
        <3> QED BY <1>6, <3>1 DEF Emit, MonitorKnown
    <2> QED BY <1>6, <2>1, <2>2 DEF Emit, BootFresh, FoundCached, FullKnown
<1>7. CASE Replace
    <2>1. FullKnown'
        <3>1. l0' \subseteq TrackedL0'
            BY <1>7 DEF Replace, Dedup, TrackedL0, TypeOK, Key
        <3>2. out'.add \subseteq l0' \cup CachedKeys'
            BY <1>7, FoundKept DEF Replace, CachedKeys
        <3> QED BY <3>1, <3>2 DEF FullKnown
    <2> QED BY <1>7, <2>1 DEF Replace, BootFresh, FoundCached, DeltaCached, MonitorKnown
<1>8. CASE SendDelta \/ LoseDelta
    <2>1. scanPc' \in {"idle", "begin"}
        BY <1>8 DEF SendDelta, LoseDelta, AfterDelta
    <2>2. MonitorKnown'
        BY <1>8 DEF SendDelta, LoseDelta, MonitorKnown, TrackedL0
    <2> QED BY <2>1, <2>2 DEF BootFresh, FoundCached, DeltaCached, FullKnown
<1>9. CASE SendFull \/ LoseFull
    <2>1. scanPc' = "idle"
        BY <1>9 DEF SendFull, LoseFull
    <2>2. MonitorKnown'
        BY <1>9 DEF SendFull, LoseFull, MonitorKnown, TrackedL0
    <2> QED BY <2>1, <2>2 DEF BootFresh, FoundCached, DeltaCached, FullKnown
<1>10. ASSUME StartReenrol \/ \E k \in {"priority", "deep"} : StartPeriodic(k)
       PROVE  Known'
    <2>1. scanPc' = "begin"
        BY <1>10 DEF StartReenrol, StartPeriodic
    <2>2. MonitorKnown'
        BY <1>10 DEF StartReenrol, StartPeriodic, MonitorKnown, TrackedL0
    <2> QED BY <2>1, <2>2 DEF BootFresh, FoundCached, DeltaCached, FullKnown
<1>11. ASSUME MonitorCollect \/ MonitorSend \/ MonitorLose
       PROVE  Known'
    <2>1. monPc # "off" /\ monPc' \in {"delta", "idle"}
        BY <1>11 DEF MonitorCollect, MonitorSend, MonitorLose
    <2> QED BY <1>11, <2>1
            DEF MonitorCollect, MonitorSend, MonitorLose, BootFresh, FoundCached,
                DeltaCached, FullKnown, MonitorKnown, TrackedL0, CachedKeys, KeysIn
<1>12. CASE MonitorDelta
    <2>1. ASSUME NEW k \in TrackedL0
          PROVE  k \in TrackedL0'
        BY <1>12 DEF MonitorDelta, TrackedL0, TypeOK
    <2>2. monL0 \subseteq TrackedL0'
        BY <1>12 DEF MonitorDelta, TrackedL0, TypeOK, Key
    <2>3. MonitorKnown'
        BY <1>12, <2>2 DEF MonitorDelta, MonitorKnown
    <2>4. BootFresh' /\ FoundCached' /\ DeltaCached'
        BY <1>12 DEF MonitorDelta, BootFresh, FoundCached, DeltaCached, CachedKeys, KeysIn
    <2>5. FullKnown'
        BY <1>12, <2>1 DEF MonitorDelta, FullKnown, CachedKeys, KeysIn
    <2> QED BY <2>3, <2>4, <2>5
<1>13. CASE Reenrol
    BY <1>13, <1>0 DEF Reenrol
<1>14. CASE Restart
    BY <1>14 DEF Restart, BootFresh, FoundCached, DeltaCached, FullKnown,
                 MonitorKnown, TrackedL0
<1>15. CASE UNCHANGED vars
    BY <1>15, <1>0 DEF vars
<1> QED
    BY <1>1, <1>2, <1>3, <1>4, <1>5, <1>6, <1>7, <1>8, <1>9, <1>10, <1>11, <1>12,
       <1>13, <1>14, <1>15
       DEF Next, Scan, Monitor

-----------------------------------------------------------------------------
(* The inductive step: nothing on the backend is lost sight of             *)

\* A step that keeps the backend, the cache, Layer 0's part of the snapshot and
\* the delta on its way keeps what they imply.
LEMMA StillTracked ==
    ASSUME TypeOK, ServerTracked, FullComing => FullComing',
           server' \subseteq server,
           TrackedL0 \subseteq TrackedL0',
           CachedKeys \subseteq CachedKeys' \cup escaped',
           escaped \subseteq escaped' \cup TrackedL0',
           scanPc = "sendDelta" => out.del \subseteq escaped' \/ (scanPc' = scanPc /\ out' = out)
    PROVE  ServerTracked'
<1>1. ASSUME NEW k \in server', ~FullComing
      PROVE  Tracked(k)' \/ k \in escaped'
    <2>1. Tracked(k) \/ k \in escaped
        BY <1>1 DEF ServerTracked
    <2>2. snapshot[k] = "l0" => snapshot'[k] = "l0"
        BY <1>1 DEF TrackedL0, TypeOK
    <2> QED BY <2>1, <2>2 DEF Tracked, TrackedL0
<1> QED BY <1>1 DEF ServerTracked

LEMMA StepTracked == TypeOK /\ Known /\ ServerTracked /\ [Next]_vars => ServerTracked'
<1> SUFFICES ASSUME TypeOK, Known, ServerTracked, [Next]_vars
             PROVE  ServerTracked'
    OBVIOUS
<1> USE DEF machineVars, scanVars, monVars, daemonVars, sightVars, countVars
<1>0. ASSUME UNCHANGED <<cache, snapshot, scanVars, approved, reenrol, server, escaped>>
      PROVE  ServerTracked'
    BY <1>0, StillTracked DEF FullComing, TrackedL0, CachedKeys, KeysIn
<1>1. CASE Machine
    BY <1>1, <1>0 DEF Machine, Install, Uninstall, PutFile, DeleteFile, Change
<1>2. CASE Boot
    <2>1. CASE ~approved
        BY <1>2, <2>1 DEF Boot, ServerTracked, FullComing
    <2>2. CASE approved
        <3>1. ASSUME NEW k \in server', ~FullComing'
              PROVE  Tracked(k)' \/ k \in escaped'
            <4>1. k \in server /\ ~FullComing
                BY <1>2, <2>2, <3>1 DEF Boot, FullComing, Known, BootFresh
            <4>2. snapshot[k] # "l0" /\ scanPc # "sendDelta"
                BY <1>2, <4>1 DEF Boot, Known, BootFresh, TrackedL0, TypeOK
            <4>3. k \in CachedKeys \/ k \in escaped
                BY <4>1, <4>2 DEF ServerTracked, Tracked
            <4> QED BY <1>2, <4>3 DEF Boot, Tracked, CachedKeys, KeysIn
        <3> QED BY <3>1 DEF ServerTracked
    <2> QED BY <2>1, <2>2
<1>3. CASE Begin
    BY <1>3, StillTracked DEF Begin, FullComing, TrackedL0, CachedKeys, KeysIn
<1>4. ASSUME NEW p \in Path, Visit(p)
      PROVE  ServerTracked'
    <2>1. CachedKeys \subseteq CachedKeys' \cup escaped'
        BY <1>4, VisitKeeps
    <2>2. escaped \subseteq escaped' /\ server' = server /\ TrackedL0' = TrackedL0
        BY <1>4 DEF Visit, Stored, Reported, TrackedL0
    <2>3. scanPc = "walk" /\ (FullComing => FullComing')
        BY <1>4 DEF Visit, Stored, Reported, FullComing
    <2> QED BY <2>1, <2>2, <2>3, StillTracked
<1>5. CASE Abort
    BY <1>5, StillTracked DEF Abort, FullComing, TrackedL0, CachedKeys, KeysIn
<1>6. CASE Emit
    <2>1. ASSUME NEW k \in server', ~FullComing'
          PROVE  Tracked(k)' \/ k \in escaped'
        <3>1. k \in server /\ ~FullComing /\ scanPc = "walk"
            BY <1>6, <2>1 DEF Emit, FullComing
        <3>2. CASE snapshot[k] = "l0"
            <4>1. k \in Key
                BY <3>1 DEF TypeOK
            <4> QED BY <1>6, <3>2, <4>1 DEF Emit, Tracked
        <3>3. CASE k \in CachedKeys
            <4>1. k \in CachedKeys' \/ k \in out'.del
                BY <1>6, <3>3, EvictedReported DEF Emit, CachedKeys
            <4> QED BY <1>6, <4>1 DEF Emit, Tracked
        <3>4. CASE k \in escaped
            BY <1>6, <3>4 DEF Emit
        <3> QED BY <3>1, <3>2, <3>3, <3>4 DEF ServerTracked, Tracked
    <2> QED BY <2>1 DEF ServerTracked
<1>7. CASE Replace
    BY <1>7 DEF Replace, ServerTracked, FullComing
<1>8. CASE SendDelta
    <2>1. ASSUME NEW k \in server', ~FullComing'
          PROVE  Tracked(k)' \/ k \in escaped'
        <3>1. ~FullComing /\ kind # "initial"
            BY <1>8, <2>1 DEF SendDelta, AfterDelta, FullComing, Known, DeltaCached
        <3>2. CASE k \in out.add
            <4>1. onDelta => k \in CachedKeys
                BY <1>8, <3>2 DEF SendDelta, Known, DeltaCached
            <4>2. ~onDelta => k \in server /\ out.del \subseteq escaped'
                BY <1>8, <2>1, <3>1 DEF SendDelta
            <4>3. k \in CachedKeys => Tracked(k)'
                BY <1>8 DEF SendDelta, Tracked, CachedKeys, KeysIn
            <4>4. k \in server => k \in out.del \/ Tracked(k)' \/ k \in escaped'
                BY <1>8, <3>1, <4>3 DEF SendDelta, ServerTracked, Tracked
            <4> QED BY <4>1, <4>2, <4>3, <4>4
        <3>3. CASE k \notin out.add
            <4>1. k \in server
                BY <1>8, <2>1, <3>3 DEF SendDelta, Apply
            <4>2. k \in out.del => k \in escaped'
                BY <1>8, <2>1, <3>1, <3>3 DEF SendDelta, Apply
            <4>3. Tracked(k) \/ k \in escaped
                BY <3>1, <4>1 DEF ServerTracked
            <4> QED BY <1>8, <4>2, <4>3 DEF SendDelta, Tracked, CachedKeys, KeysIn
        <3> QED BY <3>2, <3>3
    <2> QED BY <2>1 DEF ServerTracked
<1>9. CASE LoseDelta
    <2>1. FullComing => FullComing'
        BY <1>9 DEF LoseDelta, AfterDelta, FullComing, Known, DeltaCached
    <2> QED BY <1>9, <2>1, StillTracked
            DEF LoseDelta, TrackedL0, CachedKeys, KeysIn
<1>10. CASE SendFull
    <2>1. ASSUME NEW k \in server'
          PROVE  Tracked(k)'
        <3>1. k \in TrackedL0 \/ k \in CachedKeys
            BY <1>10, <2>1 DEF SendFull, Known, FullKnown
        <3> QED BY <1>10, <3>1 DEF SendFull, Tracked, TrackedL0, CachedKeys, KeysIn
    <2> QED BY <2>1 DEF ServerTracked
<1>11. CASE LoseFull
    <2>1. ASSUME NEW k \in server'
          PROVE  Tracked(k)' \/ k \in escaped'
        <3>1. k \in escaped' \/ k \in TrackedL0 \/ k \in CachedKeys
            BY <1>11, <2>1 DEF LoseFull, Known, FullKnown
        <3> QED BY <1>11, <3>1 DEF LoseFull, Tracked, TrackedL0, CachedKeys, KeysIn
    <2> QED BY <2>1 DEF ServerTracked
<1>12. ASSUME NEW k \in {"priority", "deep"}, StartPeriodic(k)
       PROVE  ServerTracked'
    <2>1. scanPc = "idle" /\ (FullComing => FullComing')
        BY <1>12 DEF StartPeriodic, FullComing
    <2> QED BY <1>12, <2>1, StillTracked DEF StartPeriodic, TrackedL0, CachedKeys, KeysIn
<1>13. CASE StartReenrol
    BY <1>13 DEF StartReenrol, ServerTracked, FullComing
<1>14. CASE Reenrol
    BY <1>14 DEF Reenrol, ServerTracked, FullComing
<1>15. CASE MonitorCollect
    BY <1>15, <1>0 DEF MonitorCollect
<1>16. CASE MonitorDelta
    <2>1. TrackedL0 \subseteq TrackedL0' /\ escaped \subseteq escaped' \cup TrackedL0'
        BY <1>16 DEF MonitorDelta, TrackedL0, TypeOK, Key
    <2> QED BY <1>16, <2>1, StillTracked DEF MonitorDelta, FullComing, CachedKeys, KeysIn
<1>17. CASE MonitorSend
    <2>1. FullComing' = FullComing
        BY <1>17 DEF MonitorSend, FullComing
    <2>2. ASSUME NEW k \in server', ~FullComing
          PROVE  Tracked(k)' \/ k \in escaped'
        <3>1. k \in server \/ k \in monOut.add
            BY <1>17, <2>2 DEF MonitorSend, Apply
        <3>2. k \in monOut.add => k \in TrackedL0 \/ k \in escaped'
            BY <1>17 DEF MonitorSend, Known, MonitorKnown
        <3>3. k \in server => Tracked(k) \/ k \in escaped
            BY <2>2 DEF ServerTracked
        <3> QED BY <1>17, <3>1, <3>2, <3>3
                DEF MonitorSend, Tracked, TrackedL0, CachedKeys, KeysIn
    <2> QED BY <2>1, <2>2 DEF ServerTracked
<1>18. CASE MonitorLose
    BY <1>18, <1>0 DEF MonitorLose
<1>19. CASE Restart
    <2>1. ASSUME NEW k \in server'
          PROVE  Tracked(k)' \/ k \in escaped'
        BY <1>19, <2>1 DEF Restart, Tracked, CachedKeys, KeysIn
    <2> QED BY <2>1 DEF ServerTracked
<1>20. CASE UNCHANGED vars
    BY <1>20, <1>0 DEF vars
<1> QED
    BY <1>1, <1>2, <1>3, <1>4, <1>5, <1>6, <1>7, <1>8, <1>9, <1>10, <1>11, <1>12,
       <1>13, <1>14, <1>15, <1>16, <1>17, <1>18, <1>19, <1>20
       DEF Next, Scan, Monitor

\* ServerTracked is not inductive alone: a delta or a complete inventory may
\* put on the backend only what the snapshot or the cache holds at the time it
\* arrives, which is what Known says of each message on its way.
LEMMA Inductive == Spec => [](TypeOK /\ Known /\ ServerTracked)
<1>1. Init => TypeOK /\ Known /\ ServerTracked
    BY InitType, InitKnown DEF Init, ServerTracked, FullComing
<1>2. TypeOK /\ Known /\ ServerTracked /\ [Next]_vars
      => (TypeOK /\ Known /\ ServerTracked)'
    BY StepType, StepKnown, StepTracked
<1> QED BY <1>1, <1>2, PTL DEF Spec

\* However the scanner and the monitor interleave, the backend lists nothing
\* the agent has lost sight of, for any software, files and bounds.
THEOREM NothingLostSight == Spec => []ServerTracked
BY Inductive, PTL

=============================================================================
