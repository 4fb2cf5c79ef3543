------------------------- MODULE PosixUpdate_proofs -------------------------
(***************************************************************************)
(* PosixUpdate keeps its types, implements ReleaseChannel, leaves a whole  *)
(* executable and does not take back what was confirmed, whatever the      *)
(* number of releases, of faults and of users' actions.                    *)
(***************************************************************************)
EXTENDS PosixUpdate, SequenceTheorems, TLAPS

-----------------------------------------------------------------------------
(* Types                                                                   *)

Control == {"idle", "offer", "load", "ready", "backup", "stage", "staged", "replace",
            "restore", "authorize", "copy", "replaced", "marked", "late", "done"}
Thread == [pc : Control, info : 0..MaxVersion, part : Seq(Versions),
           held : Image \cup {None}]
Local == [pc : {"off", "start", "commit", "run"}, ver : 0..MaxVersion]
Harms == {"overlap", "cut", "badBackup", "badCopy"}

\* The parts of TypeOK.
ThreadsOK == /\ upd \in [Processes -> Thread]
             /\ \A p \in Processes : Len(upd[p].part) \in 0..3
ReleasesOK == /\ releases \in Seq(Release) /\ Len(releases) \in Versions
              /\ expired \subseteq Published
DiskOK == exe \in Image /\ {bak, new} \subseteq Image \cup {None}
SmallOK == /\ platform \in {"linux", "macos"}
           /\ marker \in {"none", "young", "old"}
           /\ exit \in {"clean", "failure"} /\ restart \in BOOLEAN
           /\ confirmed \in 0..MaxVersion
           /\ harm \subseteq Harms
           /\ events \in 0..MaxEvents
ProcOK == proc \in [Processes -> Local]

LEMMA TypeParts ==
    TypeOK <=> ThreadsOK /\ ReleasesOK /\ DiskOK /\ SmallOK /\ ProcOK
BY Zenon DEF TypeOK, ThreadsOK, ReleasesOK, DiskOK, SmallOK, ProcOK, Thread, Control, Local,
             Harms

LEMMA TypePartsNext ==
    TypeOK' <=> ThreadsOK' /\ ReleasesOK' /\ DiskOK' /\ SmallOK' /\ ProcOK'
BY Zenon DEF TypeOK, ThreadsOK, ReleasesOK, DiskOK, SmallOK, ProcOK, Thread, Control, Local,
             Harms

LEMMA Values ==
    /\ None \notin Int /\ Torn \notin Int /\ None # Torn
    /\ Torn \in Image /\ Versions \subseteq Image /\ None \notin Image
    /\ Versions \subseteq 0..MaxVersion /\ Versions \subseteq Nat /\ 1 \in Versions
    /\ "daemon" \in Processes /\ "gui" \in Processes
BY FileAssumption, BoundAssumption DEF Image, Versions, Processes

LEMMA IdleThread == Idle \in Thread /\ Len(Idle.part) \in 0..3
BY BoundAssumption DEF Idle, Thread, Control

LEMMA Releases ==
    ASSUME ReleasesOK
    PROVE  /\ Latest \in Versions /\ Latest \in Nat /\ Latest \in Published
           /\ Published \subseteq Versions
           /\ \A v \in Published : releases[v] \in Release
BY BoundAssumption DEF ReleasesOK, Latest, Published, Versions

\* What a step does to the update threads: one moves on, perhaps with another
\* held image, or is idle again.
Others(p) == \A q \in Processes \ {p} : upd'[q] = upd[q]
Moves(p, pc, held) ==
    /\ upd'[p].pc = pc /\ upd'[p].held = held
    /\ upd'[p].info = upd[p].info /\ upd'[p].part = upd[p].part
    /\ Others(p)
Rests(p) == upd'[p] = Idle /\ Others(p)

LEMMA MoveHeld ==
    ASSUME ThreadsOK, NEW p \in Processes,
           NEW pc \in Control, NEW held \in Image \cup {None},
           upd' = [upd EXCEPT ![p].pc = pc, ![p].held = held]
    PROVE  ThreadsOK' /\ Moves(p, pc, held)
BY DEF ThreadsOK, Thread, Moves, Others

LEMMA Move ==
    ASSUME ThreadsOK, NEW p \in Processes, NEW pc \in Control, To(p, pc)
    PROVE  ThreadsOK' /\ Moves(p, pc, upd[p].held)
BY DEF ThreadsOK, Thread, Moves, Others, To

LEMMA Rest ==
    ASSUME ThreadsOK, NEW p \in Processes, Quit(p)
    PROVE  ThreadsOK' /\ Rests(p)
BY IdleThread DEF ThreadsOK, Rests, Others, Quit

LEMMA BothRest ==
    ASSUME ThreadsOK, NEW p \in Processes,
           upd' = [upd EXCEPT !["daemon"] = Idle, ![p] = Idle]
    PROVE  /\ ThreadsOK' /\ upd'["daemon"] = Idle /\ upd'[p] = Idle
           /\ \A q \in Processes \ {"daemon", p} : upd'[q] = upd[q]
BY IdleThread, Values DEF ThreadsOK

LEMMA GainsPart ==
    ASSUME ThreadsOK, NEW p \in Processes, NEW s \in Seq(Versions), Len(s) \in 0..3,
           upd' = [upd EXCEPT ![p].part = s]
    PROVE  /\ ThreadsOK' /\ Others(p) /\ upd'[p].part = s /\ upd'[p].pc = upd[p].pc
           /\ upd'[p].info = upd[p].info /\ upd'[p].held = upd[p].held
BY DEF ThreadsOK, Thread, Others

LEMMA Finds ==
    ASSUME ThreadsOK, NEW p \in Processes, NEW m \in Versions, NEW pc \in Control,
           upd' = [upd EXCEPT ![p] = [pc |-> pc, info |-> m, part |-> <<>>, held |-> None]]
    PROVE  /\ ThreadsOK' /\ Others(p) /\ upd'[p].pc = pc /\ upd'[p].info = m
           /\ upd'[p].held = None /\ upd'[p].part = <<>>
<1> DEFINE t == [pc |-> pc, info |-> m, part |-> <<>>, held |-> None]
<1>1. t \in Thread
    BY Values DEF Thread
<1>2. Len(t.part) \in 0..3 /\ t.pc = pc /\ t.info = m /\ t.held = None /\ t.part = <<>>
    OBVIOUS
<1>3. upd' = [upd EXCEPT ![p] = t]
    OBVIOUS
<1> HIDE DEF t
<1>4. upd'[p] = t
    BY <1>3 DEF ThreadsOK
<1>5. upd' \in [Processes -> Thread] /\ Others(p)
    BY <1>1, <1>3 DEF ThreadsOK, Others
<1>6. \A q \in Processes : Len(upd'[q].part) \in 0..3
    BY <1>2, <1>4, <1>5 DEF ThreadsOK, Others
<1> QED
    BY <1>2, <1>4, <1>5, <1>6 DEF ThreadsOK

-----------------------------------------------------------------------------
(* What each action does to the update threads                             *)

LEMMA BackupMoves ==
    ASSUME ThreadsOK, DiskOK, NEW p \in Processes
    PROVE  /\ BackupBegins(p) => ThreadsOK' /\ Moves(p, "backup", exe)
           /\ BackupEnds(p) => /\ ThreadsOK'
                               /\ \E pc \in {"stage", "replace"} : Moves(p, pc, upd[p].held)
           /\ BackupFails(p) => ThreadsOK' /\ Rests(p)
<1>1. ASSUME BackupBegins(p)
      PROVE  ThreadsOK' /\ Moves(p, "backup", exe)
    <2>1. upd' = [upd EXCEPT ![p].pc = "backup", ![p].held = exe]
        BY <1>1 DEF BackupBegins
    <2> QED
        BY <2>1, MoveHeld DEF DiskOK, Control
<1>2. ASSUME BackupEnds(p)
      PROVE  ThreadsOK' /\ \E pc \in {"stage", "replace"} : Moves(p, pc, upd[p].held)
    <2>1. PICK pc \in {"stage", "replace"} : To(p, pc)
        BY <1>2 DEF BackupEnds
    <2>2. pc \in Control
        BY DEF Control
    <2> QED
        BY <2>1, <2>2, Move
<1>3. ASSUME BackupFails(p)
      PROVE  ThreadsOK' /\ Rests(p)
    BY <1>3, Rest DEF BackupFails
<1> QED
    BY <1>1, <1>2, <1>3

LEMMA StageMoves ==
    ASSUME ThreadsOK, NEW p \in Processes
    PROVE  /\ StageBegins(p) => ThreadsOK' /\ Moves(p, "staged", upd[p].held)
           /\ StageEnds(p) => ThreadsOK' /\ Moves(p, "replace", upd[p].held)
           /\ Replace(p) => ThreadsOK' /\ Moves(p, "replaced", upd[p].held)
BY Move DEF StageBegins, StageEnds, Replace, Control

\* On macOS a swap that failed goes on with the user's authorization.
GivesUp(p) == Rests(p) \/ Moves(p, "authorize", upd[p].held)

LEMMA Yields ==
    ASSUME ThreadsOK, NEW p \in Processes,
           upd' = [upd EXCEPT ![p] = IF Linux THEN Idle ELSE [@ EXCEPT !.pc = "authorize"]]
    PROVE  ThreadsOK' /\ GivesUp(p)
<1>1. CASE Linux
    BY <1>1, Rest DEF Quit, GivesUp
<1>2. CASE ~Linux
    <2>1. To(p, "authorize")
        BY <1>2 DEF To
    <2> QED
        BY <2>1, Move DEF GivesUp, Control
<1> QED
    BY <1>1, <1>2

LEMMA RestoreMoves ==
    ASSUME ThreadsOK, DiskOK, NEW p \in Processes
    PROVE  /\ ReplaceFails(p) =>
                /\ ThreadsOK'
                /\ \/ GivesUp(p) /\ exe' = exe
                   \/ Moves(p, "restore", bak) /\ bak # None /\ exe' = Torn
           /\ RestoreEnds(p) => ThreadsOK' /\ GivesUp(p)
<1>1. ASSUME ReplaceFails(p), Busy \/ bak = None
      PROVE  ThreadsOK' /\ GivesUp(p) /\ exe' = exe
    BY <1>1, Yields DEF ReplaceFails
<1>2. ASSUME ReplaceFails(p), ~(Busy \/ bak = None)
      PROVE  ThreadsOK' /\ Moves(p, "restore", bak) /\ bak # None /\ exe' = Torn
    <2>1. upd' = [upd EXCEPT ![p].pc = "restore", ![p].held = bak] /\ exe' = Torn
        BY <1>2 DEF ReplaceFails
    <2> QED
        BY <1>2, <2>1, MoveHeld DEF DiskOK, Control
<1>3. ASSUME RestoreEnds(p)
      PROVE  ThreadsOK' /\ GivesUp(p)
    BY <1>3, Yields DEF RestoreEnds
<1> QED
    BY <1>1, <1>2, <1>3

LEMMA EndMoves ==
    ASSUME ThreadsOK, NEW p \in Processes
    PROVE  /\ Refuse(p) \/ MarkFails(p) \/ Done(p) => ThreadsOK' /\ Rests(p)
           /\ Authorize(p) => ThreadsOK' /\ Moves(p, "copy", upd[p].held)
           /\ CopyEnds(p) => ThreadsOK' /\ Moves(p, "done", upd[p].held)
           /\ Mark(p) => ThreadsOK' /\ Moves(p, "marked", upd[p].held)
           /\ RestartFails(p) =>
                /\ ThreadsOK'
                /\ \/ Rests(p) /\ RestoreBackup
                   \/ Moves(p, "done", upd[p].held) /\ UNCHANGED diskVars
           /\ TakeBack => ThreadsOK' /\ Rests("gui")
<1>1. /\ Refuse(p) \/ MarkFails(p) \/ Done(p) => ThreadsOK' /\ Rests(p)
      /\ TakeBack => ThreadsOK' /\ Rests("gui")
    BY Rest, Values DEF Refuse, MarkFails, Done, TakeBack
<1>2. /\ Authorize(p) => ThreadsOK' /\ Moves(p, "copy", upd[p].held)
      /\ CopyEnds(p) => ThreadsOK' /\ Moves(p, "done", upd[p].held)
      /\ Mark(p) => ThreadsOK' /\ Moves(p, "marked", upd[p].held)
    BY Move DEF Authorize, CopyEnds, Mark, Control
<1>3. RestartFails(p) => /\ ThreadsOK'
                         /\ \/ Rests(p) /\ RestoreBackup
                            \/ Moves(p, "done", upd[p].held) /\ UNCHANGED diskVars
    BY Move, Rest DEF RestartFails, Control
<1> QED
    BY <1>1, <1>2, <1>3

\* A thread receives, until it has a release, which it verifies.
Receives(p, s) ==
    /\ Others(p) /\ upd'[p].part = s /\ upd'[p].pc = upd[p].pc
    /\ upd'[p].info = upd[p].info /\ upd'[p].held = upd[p].held

LEMMA FetchMoves ==
    ASSUME ThreadsOK, ReleasesOK, NEW p \in Processes
    PROVE  /\ Fetch(p) \/ FetchWhole(p) => ThreadsOK' /\ \E s \in Seq(Versions) : Receives(p, s)
           /\ DownloadFails(p) => ThreadsOK' /\ Rests(p)
           /\ VerifyBinary(p) =>
                /\ ThreadsOK'
                /\ \/ Rests(p)
                   \/ Moves(p, "ready", upd[p].held) /\ Intact(upd[p])
           /\ Click => ThreadsOK' /\ Moves("gui", "load", upd["gui"].held)
<1>1. upd[p].part \in Seq(Versions) /\ Len(upd[p].part) \in 0..3
    BY DEF ThreadsOK, Thread
<1>2. ASSUME Fetch(p)
      PROVE  ThreadsOK' /\ \E s \in Seq(Versions) : Receives(p, s)
    <2>1. PICK b \in Published : upd' = [upd EXCEPT ![p].part = Append(upd[p].part, b)]
        BY <1>2 DEF Fetch, Receive, ThreadsOK
    <2> DEFINE s == Append(upd[p].part, b)
    <2>2. s \in Seq(Versions) /\ Len(s) \in 0..3
        BY <1>1, <1>2, <2>1, Releases DEF Fetch
    <2>3. upd' = [upd EXCEPT ![p].part = s]
        BY <2>1
    <2> HIDE DEF s
    <2> QED
        BY <2>2, <2>3, GainsPart DEF Receives
<1>3. ASSUME FetchWhole(p)
      PROVE  ThreadsOK' /\ \E s \in Seq(Versions) : Receives(p, s)
    <2> DEFINE s == upd[p].part \o <<Latest, Latest>>
    <2>1. s \in Seq(Versions) /\ Len(s) \in 0..3
        <3> DEFINE whole == <<Latest, Latest>>
        <3>1. whole \in Seq(Versions) /\ Len(whole) = 2
            BY Releases
        <3>2. Len(upd[p].part) = 1
            BY <1>3 DEF FetchWhole
        <3>3. s = upd[p].part \o whole
            OBVIOUS
        <3> HIDE DEF whole, s
        <3>4. s \in Seq(Versions) /\ Len(s) = Len(upd[p].part) + Len(whole)
            BY <1>1, <3>1, <3>3, ConcatProperties
        <3> QED
            BY <3>1, <3>2, <3>4
    <2>2. upd' = [upd EXCEPT ![p].part = s]
        BY <1>3 DEF FetchWhole, ThreadsOK
    <2> HIDE DEF s
    <2> QED
        BY <2>1, <2>2, GainsPart DEF Receives
<1>4. /\ DownloadFails(p) => ThreadsOK' /\ Rests(p)
      /\ VerifyBinary(p) => /\ ThreadsOK'
                            /\ \/ Rests(p)
                               \/ Moves(p, "ready", upd[p].held) /\ Intact(upd[p])
      /\ Click => ThreadsOK' /\ Moves("gui", "load", upd["gui"].held)
    BY Move, Rest, Values DEF DownloadFails, VerifyBinary, Click, Control
<1> QED
    BY <1>2, <1>3, <1>4

LEMMA CheckFinds ==
    ASSUME ThreadsOK, ReleasesOK, NEW p \in Processes, Check(p)
    PROVE  /\ ThreadsOK' /\ Others(p) /\ proc[p].pc = "run"
           /\ upd'[p].pc \in {"load", "offer"} /\ upd'[p].held = None
           /\ upd'[p].info \in Published /\ proc[p].ver < upd'[p].info
<1>1. PICK m \in Published :
        /\ VerifyTargets(m, proc[p].ver)
        /\ upd' = [upd EXCEPT ![p] =
                     [pc |-> Found(p), info |-> m, part |-> <<>>, held |-> None]]
    BY DEF Check, Verified
<1>2. Found(p) \in Control /\ Found(p) \in {"load", "offer"} /\ m \in Versions
    BY Releases DEF Found, Control
<1> HIDE DEF Found
<1>3. /\ ThreadsOK' /\ Others(p) /\ upd'[p].pc = Found(p) /\ upd'[p].info = m
      /\ upd'[p].held = None
    BY <1>1, <1>2, Finds
<1>4. m > proc[p].ver /\ proc[p].pc = "run"
    BY <1>1 DEF VerifyTargets, Check
<1> QED
    BY <1>1, <1>2, <1>3, <1>4, Releases DEF Versions

\* The daemon ends and its update thread with it.
LEMMA RestartMoves ==
    ASSUME ThreadsOK, NEW p \in Processes
    PROVE  /\ RestartDaemon(p) => /\ ThreadsOK' /\ upd'["daemon"] = Idle /\ upd'[p] = Idle
                                  /\ \A q \in Processes \ {"daemon", p} : upd'[q] = upd[q]
           /\ RestartLate => /\ ThreadsOK' /\ upd'["daemon"] = Idle
                             /\ upd'["gui"].pc = "late"
                             /\ upd'["gui"].info = upd["gui"].info
                             /\ upd'["gui"].part = upd["gui"].part
                             /\ upd'["gui"].held = upd["gui"].held
           /\ Ends(p) => ThreadsOK' /\ Rests(p)
<1>1. RestartDaemon(p) => /\ ThreadsOK' /\ upd'["daemon"] = Idle /\ upd'[p] = Idle
                          /\ \A q \in Processes \ {"daemon", p} : upd'[q] = upd[q]
    BY BothRest DEF RestartDaemon
<1>2. ASSUME RestartLate
      PROVE  /\ ThreadsOK' /\ upd'["daemon"] = Idle
             /\ upd'["gui"].pc = "late"
             /\ upd'["gui"].info = upd["gui"].info
             /\ upd'["gui"].part = upd["gui"].part
             /\ upd'["gui"].held = upd["gui"].held
    <2>1. upd' = [upd EXCEPT !["daemon"] = Idle, !["gui"].pc = "late"]
        BY <1>2 DEF RestartLate
    <2>2. upd'["daemon"] = Idle /\ upd'["gui"] = [upd["gui"] EXCEPT !.pc = "late"]
        BY <2>1, Values DEF ThreadsOK
    <2>3. upd["gui"] \in Thread /\ "late" \in Control
        BY Values DEF ThreadsOK, Control
    <2>4. ASSUME NEW t \in Thread, NEW pc \in Control
          PROVE  LET r == [t EXCEPT !.pc = pc]
                 IN  /\ r \in Thread /\ r.pc = pc
                     /\ r.info = t.info /\ r.part = t.part /\ r.held = t.held
        BY DEF Thread
    <2>5. /\ upd'["gui"] \in Thread /\ upd'["gui"].pc = "late"
          /\ upd'["gui"].info = upd["gui"].info /\ upd'["gui"].part = upd["gui"].part
          /\ upd'["gui"].held = upd["gui"].held
        BY <2>2, <2>3, <2>4
    <2>6. \A q \in Processes : upd'[q] \in Thread /\ Len(upd'[q].part) \in 0..3
        <3>1. upd'["daemon"] \in Thread /\ Len(upd'["daemon"].part) \in 0..3
            BY <2>2, IdleThread, Zenon
        <3>2. Len(upd'["gui"].part) \in 0..3
            BY <2>5, Values DEF ThreadsOK
        <3> QED
            BY <2>5, <3>1, <3>2 DEF Processes
    <2>7. DOMAIN upd' = Processes /\ upd' = [q \in Processes |-> upd'[q]]
        BY <2>1 DEF ThreadsOK
    <2>8. upd' \in [Processes -> Thread]
        BY <2>6, <2>7
    <2> QED
        BY <2>2, <2>5, <2>6, <2>8 DEF ThreadsOK
<1>3. Ends(p) => ThreadsOK' /\ Rests(p)
    BY Rest DEF Ends, Quit
<1> QED
    BY <1>1, <1>2, <1>3

-----------------------------------------------------------------------------
(* The update threads                                                      *)

\* An update thread that has found something belongs to a process that runs a
\* version below it; one that was told to install it has the whole of it. A
\* copy is put back only where there is one.
Verifying == {"idle", "offer", "load"}
Found1(p) == /\ proc[p].pc = "run"
             /\ upd[p].info \in Published /\ proc[p].ver < upd[p].info
Updater(p) ==
    /\ upd[p].pc # "idle" => Found1(p)
    /\ upd[p].pc \notin Verifying => upd[p].part = <<upd[p].info, upd[p].info>>
    /\ upd[p].pc = "restore" => upd[p].held # None
Updaters == \A p \in Processes : Updater(p)

Types == TypeOK /\ Updaters

LEMMA Downloaded ==
    ASSUME Updaters, NEW p \in Processes, upd[p].pc \notin Verifying
    PROVE  /\ Content(upd[p]) = upd[p].info /\ upd[p].info \in Published
           /\ proc[p].pc = "run" /\ proc[p].ver < upd[p].info
BY DEF Updaters, Updater, Found1, Content, Verifying

\* What it installs is a version.
LEMMA DownloadedVersion ==
    ASSUME Types, NEW p \in Processes, upd[p].pc \notin Verifying
    PROVE  /\ Content(upd[p]) = upd[p].info /\ upd[p].info \in Versions
           /\ upd[p].info \notin {Torn, None, 0}
<1>1. Content(upd[p]) = upd[p].info /\ upd[p].info \in Published
    BY Downloaded DEF Types
<1>2. Published \subseteq Versions
    BY Releases, TypeParts DEF Types
<1>3. \A v \in Versions : v \notin {Torn, None, 0}
    BY Values DEF Versions
<1> QED
    BY <1>1, <1>2, <1>3

LEMMA SwapDisk ==
    ASSUME Types, NEW p \in Processes, Swap(p) \/ TakeBack
    PROVE  DiskOK' /\ UNCHANGED <<platform, releases, expired>>
<1> USE TypeParts, Values, Releases DEF Types, DiskOK, diskVars, SwapUnchanged
<1>1. upd[p].pc \notin Verifying => Content(upd[p]) \in Image
    BY Downloaded
<1>2. upd[p].held \in Image \cup {None}
    BY DEF ThreadsOK, Thread
<1>3. CASE BackupBegins(p) \/ BackupEnds(p) \/ BackupFails(p)
    BY <1>2, <1>3 DEF BackupBegins, BackupEnds, BackupFails
<1>4. CASE StageBegins(p) \/ StageEnds(p) \/ Replace(p)
    BY <1>1, <1>4 DEF StageBegins, StageEnds, Replace, At, Verifying
<1>5. CASE ReplaceFails(p) \/ Refuse(p) \/ Authorize(p) \/ CopyEnds(p)
    BY <1>1, <1>5 DEF ReplaceFails, Refuse, Authorize, CopyEnds, At, Verifying
<1>6. CASE RestoreEnds(p)
    BY <1>2, <1>6 DEF RestoreEnds, At, Updaters, Updater
<1>7. CASE Mark(p) \/ MarkFails(p) \/ RestartFails(p) \/ Done(p) \/ TakeBack
    BY <1>7 DEF Mark, MarkFails, RestartFails, Done, TakeBack, RestoreBackup
<1>8. CASE RestartDaemon(p)
    BY <1>8 DEF RestartDaemon
<1> QED
    BY <1>3, <1>4, <1>5, <1>6, <1>7, <1>8 DEF Swap

LEMMA SwapSmall ==
    ASSUME Types, NEW p \in Processes, Swap(p) \/ TakeBack
    PROVE  SmallOK' /\ ProcOK'
<1> USE TypeParts, Values, Releases DEF Types, SmallOK, Harms, diskVars, SwapUnchanged, Event,
        superVars
<1> USE DEF ProcOK
<1>1. Off \in Local
    BY BoundAssumption DEF Off, Local
<1>2. CASE BackupBegins(p)
    <2>1. /\ harm' \in {harm, harm \cup {"overlap"}}
          /\ UNCHANGED <<exe, marker, events>> /\ SwapUnchanged
        BY <1>2, Zenon DEF BackupBegins
    <2> QED
        BY <2>1
<1>3. CASE BackupEnds(p) \/ BackupFails(p)
    BY <1>3 DEF BackupEnds, BackupFails
<1>4. CASE StageBegins(p) \/ StageEnds(p) \/ Replace(p)
    BY <1>4 DEF StageBegins, StageEnds, Replace
<1>5. CASE ReplaceFails(p)
    <2>1. UNCHANGED events \/ Event
        BY <1>5, Zenon DEF ReplaceFails
    <2>2. UNCHANGED <<bak, marker, harm>> /\ SwapUnchanged
        BY <1>5, Zenon DEF ReplaceFails
    <2> QED
        BY <2>1, <2>2
<1>6. CASE RestoreEnds(p)
    <2>1. /\ harm' \in {harm, harm \cup {"badBackup"}}
          /\ UNCHANGED <<marker, events>> /\ SwapUnchanged
        BY <1>6, Zenon DEF RestoreEnds
    <2> QED
        BY <2>1
<1>7. CASE Refuse(p) \/ Authorize(p) \/ CopyEnds(p)
    BY <1>7 DEF Refuse, Authorize, CopyEnds
<1>8. CASE Mark(p) \/ MarkFails(p) \/ RestartFails(p) \/ TakeBack
    BY <1>8 DEF Mark, MarkFails, RestartFails, Done, TakeBack, RestoreBackup
<1>9. CASE RestartDaemon(p) \/ Done(p)
    BY <1>1, <1>9 DEF RestartDaemon, Done
<1> QED
    BY <1>2, <1>3, <1>4, <1>5, <1>6, <1>7, <1>8, <1>9 DEF Swap

LEMMA SwapThreads ==
    ASSUME Types, NEW p \in Processes, Swap(p)
    PROVE  ThreadsOK'
<1> USE TypeParts DEF Types
<1>1. CASE BackupBegins(p) \/ BackupEnds(p) \/ BackupFails(p)
    BY <1>1, BackupMoves
<1>2. CASE StageBegins(p) \/ StageEnds(p) \/ Replace(p)
    BY <1>2, StageMoves
<1>3. CASE ReplaceFails(p) \/ RestoreEnds(p)
    BY <1>3, RestoreMoves
<1>4. CASE \/ Refuse(p) \/ Authorize(p) \/ CopyEnds(p) \/ Mark(p) \/ MarkFails(p)
           \/ RestartFails(p) \/ Done(p)
    BY <1>4, EndMoves
<1>5. CASE RestartDaemon(p)
    BY <1>5, RestartMoves
<1> QED
    BY <1>1, <1>2, <1>3, <1>4, <1>5 DEF Swap

\* A swap keeps the types.
LEMMA SwapTypes ==
    ASSUME Types, NEW p \in Processes, Swap(p) \/ TakeBack
    PROVE  TypeOK'
<1>1. ThreadsOK'
    <2>1. CASE Swap(p)
        BY <2>1, SwapThreads
    <2>2. CASE TakeBack
        BY <2>2, EndMoves, TypeParts DEF Types
    <2> QED
        BY <2>1, <2>2
<1>2. ReleasesOK'
    BY SwapDisk, TypeParts DEF Types, ReleasesOK, Published
<1> QED
    BY <1>1, <1>2, SwapDisk, SwapSmall, TypePartsNext

\* The actions that change no file.
LEMMA ReleaseTypes ==
    ASSUME Types, Publish \/ Expire \/ Age
    PROVE  TypeOK'
<1> USE DEF diskVars, superVars, Event
<1>1. ThreadsOK' /\ ProcOK' /\ DiskOK'
    BY TypeParts DEF Types, ThreadsOK, ProcOK, DiskOK, Publish, Expire, Age
<1>2. SmallOK'
    BY BoundAssumption, TypeParts DEF Types, SmallOK, Publish, Expire, Age
<1>3. ReleasesOK'
    <2>1. CASE Publish
        <3>1. PICK r \in Kinds : releases' = Append(releases, r)
            BY <2>1 DEF Publish
        <3>2. r \in Release /\ releases \in Seq(Release) /\ Len(releases) \in Versions
            BY KindAssumption, TypeParts DEF Types, ReleasesOK
        <3>3. releases' \in Seq(Release) /\ Len(releases') = Len(releases) + 1
            BY <3>1, <3>2, AppendProperties
        <3>4. Len(releases) < MaxVersion /\ expired' = expired
            BY <2>1 DEF Publish
        <3> QED
            BY <3>2, <3>3, <3>4, BoundAssumption, TypeParts
            DEF Types, ReleasesOK, Versions, Published
    <2>2. CASE Expire \/ Age
        BY <2>2, TypeParts DEF Types, ReleasesOK, Published, Expire, Age
    <2> QED
        BY <2>1, <2>2
<1> QED
    BY <1>1, <1>2, <1>3, TypePartsNext

LEMMA UpdateTypes ==
    ASSUME Types, NEW p \in Processes, Updating(p) \/ Click
    PROVE  TypeOK'
<1> USE TypeParts DEF Types, diskVars, superVars, Event, UpdUnchanged
<1>1. ThreadsOK'
    BY FetchMoves, CheckFinds DEF Updating
<1>2. /\ UpdUnchanged /\ (UNCHANGED events \/ Event)
    BY Zenon DEF Updating, Click, Check, Fetch, Receive, FetchWhole, DownloadFails,
                 VerifyBinary
<1>3. DiskOK' /\ ProcOK' /\ ReleasesOK'
    BY <1>2 DEF DiskOK, ProcOK, ReleasesOK, Published
<1>4. SmallOK'
    BY <1>2, BoundAssumption DEF SmallOK
<1> QED
    BY <1>1, <1>3, <1>4, TypePartsNext

LEMMA StartTypes ==
    ASSUME Types, NEW p \in Processes, Start(p)
    PROVE  TypeOK'
<1> USE TypeParts, Values, Releases DEF Types, diskVars, superVars, Event, StartUnchanged
<1>1. ThreadsOK' /\ ReleasesOK'
    BY DEF ThreadsOK, ReleasesOK, Published, Start
<1>2. DiskOK'
    BY DEF DiskOK, Start, Overdue
<1>3. SmallOK'
    BY DEF SmallOK, Harms, Start
<1>4. ProcOK'
    <2>1. exe \in 0..MaxVersion
        BY DEF Start, Starts
    <2> QED
        BY <2>1 DEF ProcOK, Local, Start
<1> QED
    BY <1>1, <1>2, <1>3, <1>4, TypePartsNext

\* A process of the daemon goes on.
LEMMA BeatTypes ==
    ASSUME Types, Beat \/ Commit \/ BeatFails
    PROVE  TypeOK'
<1> USE TypeParts, Values, Releases DEF Types, diskVars, superVars, Event, StartUnchanged
<1>1. ThreadsOK' /\ ReleasesOK'
    BY DEF ThreadsOK, ReleasesOK, Published, Beat, Commit, BeatFails
<1>2. DiskOK'
    BY DEF DiskOK, Beat, Commit, BeatFails
<1>3. ProcOK'
    BY DEF ProcOK, Local, Beat, Commit, BeatFails
<1>4. SmallOK'
    <2>1. CASE Beat \/ BeatFails
        BY <2>1, BoundAssumption DEF SmallOK, Beat, BeatFails
    <2>2. CASE Commit
        <3>1. proc["daemon"].ver \in 0..MaxVersion
            BY DEF ProcOK, Local
        <3>2. /\ confirmed' \in {proc["daemon"].ver, 0} /\ marker' = "none"
              /\ UNCHANGED <<platform, superVars, harm, events>>
            BY <2>2, Zenon DEF Commit
        <3> QED
            BY <3>1, <3>2, BoundAssumption DEF SmallOK
    <2> QED
        BY <2>1, <2>2
<1> QED
    BY <1>1, <1>2, <1>3, <1>4, TypePartsNext

LEMMA EndTypes ==
    ASSUME Types, NEW p \in Processes, Ends(p), UNCHANGED events \/ Event
    PROVE  TypeOK'
<1> USE TypeParts, Values DEF Types, diskVars, superVars, Event
<1>1. ThreadsOK'
    BY RestartMoves
<1>2. ReleasesOK' /\ DiskOK'
    BY DEF DiskOK, ReleasesOK, Published, Ends
<1>3. ProcOK'
    BY BoundAssumption DEF ProcOK, Local, Off, Ends
<1>4. SmallOK'
    BY DEF SmallOK, Harms, Ends
<1> QED
    BY <1>1, <1>2, <1>3, <1>4, TypePartsNext

LEMMA LateTypes ==
    ASSUME Types, RestartLate
    PROVE  TypeOK'
<1> USE TypeParts, Values DEF Types, diskVars, superVars, Event
<1>1. ThreadsOK'
    BY RestartMoves
<1>2. /\ proc' = [proc EXCEPT !["daemon"] = Off] /\ exit' = "clean"
      /\ harm' \in {harm, harm \cup {"cut"}} /\ Event
      /\ UNCHANGED <<platform, releases, expired, diskVars, restart, confirmed>>
    BY Zenon DEF RestartLate
<1>3. ReleasesOK' /\ DiskOK'
    BY <1>2 DEF DiskOK, ReleasesOK, Published
<1>4. ProcOK'
    BY <1>2, BoundAssumption DEF ProcOK, Local, Off
<1>5. SmallOK'
    BY <1>2 DEF SmallOK, Harms
<1> QED
    BY <1>1, <1>3, <1>4, <1>5, TypePartsNext

-----------------------------------------------------------------------------
(* Every step keeps Updaters                                               *)

LEMMA UpdaterStays ==
    ASSUME NEW p \in Processes, Updater(p), upd'[p] = upd[p],
           upd[p].pc = "idle" \/ proc'[p] = proc[p], Published \subseteq Published'
    PROVE  Updater(p)'
BY DEF Updater, Found1, Verifying

LEMMA UpdaterRests ==
    ASSUME NEW p \in Processes, upd'[p] = Idle
    PROVE  Updater(p)'
BY DEF Updater, Verifying, Idle

LEMMA UpdaterMoves ==
    ASSUME NEW p \in Processes, Updater(p), NEW pc, NEW held,
           Moves(p, pc, held), upd[p].pc # "idle", pc = "restore" => held # None,
           pc \in Verifying \/ upd[p].pc \notin Verifying \/ Intact(upd[p]),
           proc'[p] = proc[p], Published \subseteq Published'
    PROVE  Updater(p)'
BY DEF Updater, Found1, Verifying, Moves, Intact

\* One thread does what it may, the process of the other goes on.
LEMMA SwapUpdaters ==
    ASSUME Types, NEW p \in Processes, Swap(p) \/ TakeBack
    PROVE  Updaters'
<1> USE TypeParts, Values DEF Types
<1>1. Published \subseteq Published'
    BY SwapDisk DEF Published
<1>2. ASSUME NEW r \in Processes, Others(r), \A q \in Processes \ {r} : proc'[q] = proc[q],
             Updater(r)'
      PROVE  Updaters'
    BY <1>1, <1>2, UpdaterStays DEF Updaters, Others
<1>3. ASSUME NEW r \in Processes, Rests(r), \A q \in Processes \ {r} : proc'[q] = proc[q]
      PROVE  Updaters'
    BY <1>2, <1>3, UpdaterRests DEF Rests
<1>4. ASSUME NEW r \in Processes, NEW pc, NEW held, Moves(r, pc, held),
             upd[r].pc \notin Verifying, pc = "restore" => held # None, proc' = proc
      PROVE  Updaters'
    <2>1. Updater(r)'
        BY <1>1, <1>4, UpdaterMoves DEF Updaters, Verifying
    <2> QED
        BY <1>2, <1>4, <2>1 DEF Moves
<1>5. CASE BackupBegins(p) \/ BackupEnds(p) \/ BackupFails(p)
    <2>1. proc' = proc
        BY <1>5, Zenon DEF BackupBegins, BackupEnds, BackupFails, SwapUnchanged
    <2>2. upd[p].pc \notin Verifying
        BY <1>5 DEF BackupBegins, BackupEnds, BackupFails, At, Verifying
    <2> QED
        BY <1>3, <1>4, <1>5, <2>1, <2>2, BackupMoves
<1>6. CASE StageBegins(p) \/ StageEnds(p) \/ Replace(p)
    <2>1. proc' = proc
        BY <1>6, Zenon DEF StageBegins, StageEnds, Replace, SwapUnchanged
    <2>2. upd[p].pc \notin Verifying
        BY <1>6, Zenon DEF StageBegins, StageEnds, Replace, At, Verifying
    <2> QED
        BY <1>4, <1>6, <2>1, <2>2, StageMoves
<1>7. CASE ReplaceFails(p) \/ RestoreEnds(p)
    <2>1. proc' = proc
        BY <1>7, Zenon DEF ReplaceFails, RestoreEnds, SwapUnchanged
    <2>2. upd[p].pc \notin Verifying
        BY <1>7, Zenon DEF ReplaceFails, RestoreEnds, At, Verifying
    <2> QED
        BY <1>3, <1>4, <1>7, <2>1, <2>2, RestoreMoves DEF GivesUp
<1>8. CASE Refuse(p) \/ Authorize(p) \/ CopyEnds(p) \/ Mark(p)
    <2>1. proc' = proc
        BY <1>8, Zenon DEF Refuse, Authorize, CopyEnds, Mark, SwapUnchanged
    <2>2. upd[p].pc \notin Verifying
        BY <1>8, Zenon DEF Refuse, Authorize, CopyEnds, Mark, At, Verifying
    <2> QED
        BY <1>3, <1>4, <1>8, <2>1, <2>2, EndMoves
<1>9. CASE MarkFails(p) \/ RestartFails(p) \/ TakeBack
    <2>1. proc' = proc
        BY <1>9, Zenon DEF MarkFails, RestartFails, TakeBack, SwapUnchanged
    <2>2. RestartFails(p) => upd[p].pc \notin Verifying
        BY Zenon DEF RestartFails, At, Verifying
    <2> QED
        BY <1>3, <1>4, <1>9, <2>1, <2>2, EndMoves
<1>10. CASE Done(p)
    <2>1. \A q \in Processes \ {p} : proc'[q] = proc[q]
        BY <1>10 DEF Done, ProcOK
    <2> QED
        BY <1>3, <1>10, <2>1, EndMoves
<1>11. CASE RestartDaemon(p)
    <2>1. \A q \in Processes \ {"daemon"} : proc'[q] = proc[q]
        BY <1>11 DEF RestartDaemon, ProcOK
    <2>2. /\ upd'["daemon"] = Idle /\ upd'[p] = Idle
          /\ \A q \in Processes \ {"daemon", p} : upd'[q] = upd[q]
        BY <1>11, RestartMoves
    <2> QED
        BY <1>1, <2>1, <2>2, UpdaterRests, UpdaterStays DEF Updaters
<1> QED
    BY <1>5, <1>6, <1>7, <1>8, <1>9, <1>10, <1>11 DEF Swap

LEMMA UpdateUpdaters ==
    ASSUME Types, NEW p \in Processes, Updating(p) \/ Click
    PROVE  Updaters'
<1> USE TypeParts, Values DEF Types
<1>1. /\ proc' = proc /\ releases' = releases /\ Published = Published'
    BY Zenon DEF Updating, Click, Check, Fetch, Receive, FetchWhole, DownloadFails,
                 VerifyBinary, UpdUnchanged, Published
<1>2. ASSUME NEW r \in Processes, Others(r), Updater(r)'
      PROVE  Updaters'
    BY <1>1, <1>2, UpdaterStays DEF Updaters, Others
<1>3. CASE Check(p)
    <2>1. Updater(p)'
        BY <1>1, <1>3, CheckFinds DEF Updater, Found1, Verifying
    <2> QED
        BY <1>2, <1>3, <2>1, CheckFinds
<1>4. CASE Fetch(p) \/ FetchWhole(p)
    <2>1. PICK s \in Seq(Versions) : Receives(p, s)
        BY <1>4, FetchMoves
    <2>2. upd[p].pc = "load"
        BY <1>4 DEF Fetch, FetchWhole, At
    <2>3. Updater(p)'
        BY <1>1, <2>1, <2>2 DEF Receives, Updaters, Updater, Found1, Verifying
    <2> QED
        BY <1>2, <2>1, <2>3 DEF Receives
<1>5. CASE DownloadFails(p) \/ VerifyBinary(p)
    <2>1. upd[p].pc # "idle"
        BY <1>5 DEF DownloadFails, VerifyBinary, At
    <2>2. CASE Rests(p)
        BY <1>2, <2>2, UpdaterRests DEF Rests
    <2>3. CASE Moves(p, "ready", upd[p].held) /\ Intact(upd[p])
        <3>1. Updater(p)'
            BY <1>1, <2>1, <2>3, UpdaterMoves DEF Updaters
        <3> QED
            BY <1>2, <2>3, <3>1 DEF Moves
    <2> QED
        BY <1>5, <2>2, <2>3, FetchMoves
<1>6. CASE Click
    <2>1. Moves("gui", "load", upd["gui"].held) /\ upd["gui"].pc # "idle"
        BY <1>6, FetchMoves DEF Click, At
    <2>2. Updater("gui")'
        BY <1>1, <2>1, UpdaterMoves DEF Updaters, Verifying
    <2> QED
        BY <1>2, <2>1, <2>2 DEF Moves
<1> QED
    BY <1>3, <1>4, <1>5, <1>6 DEF Updating

LEMMA OtherUpdaters ==
    ASSUME Types, \/ Publish \/ Expire \/ Age \/ Beat \/ Commit \/ BeatFails
                  \/ \E p \in Processes : Start(p)
    PROVE  Updaters'
<1> USE TypeParts, Values DEF Types
<1>1. upd' = upd
    BY Zenon DEF Publish, Expire, Age, Beat, Commit, BeatFails, Start, StartUnchanged
<1>2. Published \subseteq Published'
    <2>1. CASE Publish
        <3>1. Len(releases') = Len(releases) + 1
            BY <2>1, KindAssumption, AppendProperties DEF Publish, ReleasesOK
        <3> QED
            BY <3>1, Releases DEF Published, Latest
    <2>2. CASE UNCHANGED releases
        BY <2>2 DEF Published
    <2> QED
        BY <2>1, <2>2 DEF Expire, Age, Beat, Commit, BeatFails, Start, StartUnchanged
<1>3. \A p \in Processes : proc[p].pc = "run" => proc'[p] = proc[p]
    BY DEF Publish, Expire, Age, Beat, Commit, BeatFails, Start, ProcOK
<1>4. \A p \in Processes : upd[p].pc = "idle" \/ proc'[p] = proc[p]
    BY <1>3 DEF Updaters, Updater, Found1
<1> QED
    BY <1>1, <1>2, <1>4, UpdaterStays DEF Updaters

LEMMA EndUpdaters ==
    ASSUME Types, NEW p \in Processes, Ends(p) \/ RestartLate
    PROVE  Updaters'
<1> USE TypeParts, Values DEF Types
<1>1. Published \subseteq Published'
    BY DEF Published, Ends, RestartLate
<1>2. CASE Ends(p)
    <2>1. \A q \in Processes \ {p} : proc'[q] = proc[q]
        BY <1>2 DEF Ends, ProcOK
    <2>2. Rests(p)
        BY <1>2, RestartMoves
    <2> QED
        BY <1>1, <2>1, <2>2, UpdaterRests, UpdaterStays DEF Updaters, Rests, Others
<1>3. CASE RestartLate
    <2>1. proc'["gui"] = proc["gui"]
        BY <1>3 DEF RestartLate, ProcOK
    <2>2. Updater("daemon")'
        BY <1>3, RestartMoves, UpdaterRests
    <2>3. Updater("gui")'
        BY <1>1, <1>3, <2>1, RestartMoves
        DEF RestartLate, At, Updaters, Updater, Found1, Verifying
    <2> QED
        BY <2>2, <2>3 DEF Updaters, Processes
<1> QED
    BY <1>2, <1>3

-----------------------------------------------------------------------------
LEMMA InitTypes == Init => Types
<1> SUFFICES ASSUME Init PROVE Types
    OBVIOUS
<1> USE BoundAssumption, Values
<1>1. First \in Release
    BY DEF First, Release
<1>2. ReleasesOK
    BY <1>1 DEF Init, ReleasesOK, Versions, Published
<1>3. DiskOK /\ SmallOK
    BY DEF Init, DiskOK, SmallOK, Harms
<1>4. ProcOK
    BY DEF Init, ProcOK, Local, Off
<1>5. ThreadsOK
    BY IdleThread DEF Init, ThreadsOK
<1>6. Updaters
    <2>1. \A p \in Processes : upd[p].pc = "idle"
        BY DEF Init, Idle
    <2> QED
        BY <2>1 DEF Updaters, Updater, Verifying
<1> QED
    BY <1>2, <1>3, <1>4, <1>5, <1>6, TypeParts DEF Types

\* The disjuncts of Next, as the proofs take them.
LEMMA Steps ==
    ASSUME Next
    PROVE  \/ Publish \/ Expire \/ Age \/ Click \/ RestartLate \/ TakeBack
           \/ Beat \/ Commit \/ BeatFails
           \/ \E p \in Processes : \/ Start(p) \/ Updating(p) \/ Swap(p)
                                   \/ Ends(p) /\ (UNCHANGED events \/ Event)
BY Values, Zenon DEF Next, Daemon, Unhealthy, Stop

LEMMA NextTypes ==
    ASSUME Types, [Next]_vars
    PROVE  Types'
<1>1. CASE UNCHANGED vars
    BY <1>1 DEF Types, TypeOK, Updaters, Updater, Found1, Published, Latest, vars, diskVars,
                superVars
<1>2. CASE Next
    <2>1. TypeOK'
        BY <1>2, Steps, ReleaseTypes, UpdateTypes, LateTypes, SwapTypes, BeatTypes,
           StartTypes, EndTypes, Values
    <2>2. Updaters'
        BY <1>2, Steps, OtherUpdaters, UpdateUpdaters, EndUpdaters, SwapUpdaters, Values
    <2> QED
        BY <2>1, <2>2 DEF Types
<1> QED
    BY <1>1, <1>2

\* Every variable keeps its type: whatever is cached, resumed or sent twice,
\* a download never grows beyond the three halves of an append to one half.
THEOREM TypesHold == Spec => []TypeOK
<1>1. Types => TypeOK
    BY DEF Types
<1> QED
    BY <1>1, InitTypes, NextTypes, PTL DEF Spec

-----------------------------------------------------------------------------
(* Updaters that swap                                                      *)

\* As long as no two updaters overlapped, one at most swaps, and nobody
\* touches the file it stages: that is what it renames.
Sole == "overlap" \notin harm =>
    \A p, q \in Processes : Swapping(p) /\ Swapping(q) => p = q
Staging == "overlap" \notin harm =>
    \A p \in Processes : /\ upd[p].pc = "staged" => new = Torn
                         /\ upd[p].pc = "replace" /\ Linux => new = upd[p].info

\* Steps outside a swap begin none and stage nothing.
LEMMA Outside ==
    ASSUME Types, Next, \A p \in Processes : ~Swap(p)
    PROVE  /\ harm \subseteq harm' /\ ("overlap" \in harm' => "overlap" \in harm)
           /\ new' = new /\ platform' = platform
           /\ \A q \in Processes : Swapping(q)' => upd'[q] = upd[q]
<1> USE TypeParts, Values DEF Types
<1>1. CASE Publish \/ Expire \/ Age \/ Beat \/ Commit \/ BeatFails
    BY <1>1, Zenon DEF Publish, Expire, Age, Beat, Commit, BeatFails, StartUnchanged, diskVars
<1>6. CASE \E p \in Processes : Start(p)
    <2>1. /\ harm' \in {harm, harm \cup {"badBackup"}}
          /\ new' = new /\ platform' = platform /\ upd' = upd
        BY <1>6, Zenon DEF Start, StartUnchanged
    <2> QED
        BY <2>1
<1>2. CASE Click \/ \E p \in Processes : Updating(p)
    <2>1. UpdUnchanged
        BY <1>2, Zenon DEF Updating, Click, Check, Fetch, Receive, FetchWhole,
                           DownloadFails, VerifyBinary
    <2>2. PICK p \in Processes : Updating(p) \/ (Click /\ p = "gui")
        <3>1. CASE Click
            BY <3>1, Values
        <3>2. CASE \E p \in Processes : Updating(p)
            BY <3>2
        <3> QED
            BY <1>2, <3>1, <3>2
    <2>3. Others(p) /\ ~Swapping(p)'
        <3>1. CASE Check(p)
            BY <3>1, CheckFinds DEF Swapping
        <3>2. CASE Fetch(p) \/ FetchWhole(p)
            BY <3>2, FetchMoves DEF Receives, Swapping, Fetch, FetchWhole, At
        <3>3. CASE DownloadFails(p) \/ VerifyBinary(p) \/ (Click /\ p = "gui")
            BY <3>3, FetchMoves DEF Rests, Moves, Swapping, Idle
        <3> QED
            BY <2>2, <3>1, <3>2, <3>3 DEF Updating
    <2> QED
        BY <2>1, <2>3, Zenon DEF UpdUnchanged, diskVars, Others
<1>3. CASE TakeBack
    <2>1. /\ harm' \in {harm, harm \cup {"badBackup"}}
          /\ new' = new /\ platform' = platform
        BY <1>3, Zenon DEF TakeBack, RestoreBackup, SwapUnchanged
    <2>2. Rests("gui")
        BY <1>3, EndMoves
    <2> QED
        BY <2>1, <2>2 DEF Rests, Others, Swapping, Idle
<1>4. CASE RestartLate
    <2>1. /\ harm' \in {harm, harm \cup {"cut"}}
          /\ new' = new /\ platform' = platform
        BY <1>4, Zenon DEF RestartLate, diskVars
    <2>2. upd'["daemon"] = Idle /\ upd'["gui"].pc = "late"
        BY <1>4, RestartMoves
    <2> QED
        BY <2>1, <2>2 DEF Processes, Swapping, Idle
<1>5. CASE \E p \in Processes : Ends(p)
    <2>1. PICK p \in Processes : Ends(p)
        BY <1>5
    <2>2. /\ harm' \in {harm, harm \cup {"cut"}}
          /\ new' = new /\ platform' = platform
        BY <2>1, Zenon DEF Ends, diskVars
    <2>3. Rests(p)
        BY <2>1, RestartMoves
    <2> QED
        BY <2>2, <2>3 DEF Rests, Others, Swapping, Idle
<1> QED
    BY <1>1, <1>2, <1>3, <1>4, <1>5, <1>6, Steps, Zenon

\* A swap is a matter of one thread, unless it ends the daemon.
LEMMA Inside ==
    ASSUME Types, NEW p \in Processes, Swap(p)
    PROVE  /\ harm \subseteq harm'
           /\ \A q \in Processes \ {p} : upd'[q] = upd[q] \/ upd'[q] = Idle
           /\ Swapping(p) \/ BackupBegins(p) \/ BackupFails(p) \/ Done(p)
<1> USE TypeParts DEF Types
<1>1. harm \subseteq harm'
    <2>1. CASE BackupBegins(p) \/ RestoreEnds(p) \/ CopyEnds(p) \/ RestartDaemon(p)
        <3>1. harm' \in {harm, harm \cup {"overlap"}, harm \cup {"badBackup"},
                         harm \cup {"badCopy"}, harm \cup {"cut"}}
            BY <2>1, Zenon DEF BackupBegins, RestoreEnds, CopyEnds, RestartDaemon
        <3> QED
            BY <3>1
    <2>2. CASE \/ BackupEnds(p) \/ BackupFails(p) \/ StageBegins(p) \/ StageEnds(p)
               \/ Replace(p) \/ ReplaceFails(p) \/ Refuse(p) \/ Authorize(p) \/ Mark(p)
               \/ Done(p)
        BY <2>2, Zenon DEF BackupEnds, BackupFails, StageBegins, StageEnds, Replace,
                           ReplaceFails, Refuse, Authorize, Mark, Done
    <2>3. CASE MarkFails(p) \/ RestartFails(p)
        <3>1. harm' \in {harm, harm \cup {"badBackup"}}
            BY <2>3, Zenon DEF MarkFails, RestartFails, RestoreBackup
        <3> QED
            BY <3>1
    <2> QED
        BY <2>1, <2>2, <2>3 DEF Swap
<1>2. \A q \in Processes \ {p} : upd'[q] = upd[q] \/ upd'[q] = Idle
    <2>1. Others(p) \/ RestartDaemon(p)
        <3>1. CASE BackupBegins(p) \/ BackupEnds(p) \/ BackupFails(p)
            BY <3>1, BackupMoves DEF Moves, Rests
        <3>2. CASE StageBegins(p) \/ StageEnds(p) \/ Replace(p)
            BY <3>2, StageMoves DEF Moves
        <3>3. CASE ReplaceFails(p) \/ RestoreEnds(p)
            BY <3>3, RestoreMoves DEF GivesUp, Moves, Rests
        <3>4. CASE \/ Refuse(p) \/ Authorize(p) \/ CopyEnds(p) \/ Mark(p) \/ MarkFails(p)
                   \/ RestartFails(p) \/ Done(p)
            BY <3>4, EndMoves DEF Moves, Rests
        <3> QED
            BY <3>1, <3>2, <3>3, <3>4 DEF Swap
    <2> QED
        BY <2>1, RestartMoves DEF Others
<1>3. Swapping(p) \/ BackupBegins(p) \/ BackupFails(p) \/ Done(p)
    BY Zenon DEF Swap, Swapping, BackupEnds, StageBegins, StageEnds, Replace, ReplaceFails,
                 RestoreEnds, Refuse, Authorize, CopyEnds, Mark, MarkFails, RestartDaemon,
                 RestartFails, At
<1> QED
    BY <1>1, <1>2, <1>3

LEMMA NextSole ==
    ASSUME Types, Sole, Next
    PROVE  Sole'
<1> SUFFICES ASSUME "overlap" \notin harm', NEW p \in Processes, NEW q \in Processes,
                    Swapping(p)', Swapping(q)', p # q
             PROVE  FALSE
    BY DEF Sole, Swapping
<1>1. ~Swapping(p) \/ ~Swapping(q) \/ "overlap" \in harm
    BY DEF Sole
<1>2. CASE \A r \in Processes : ~Swap(r)
    BY <1>1, <1>2, Outside DEF Swapping
<1>3. ASSUME NEW r \in Processes, NEW o \in Processes, Swap(r), r # o,
             Swapping(r)', Swapping(o)'
      PROVE  FALSE
    <2>1. harm \subseteq harm' /\ upd'[o] = upd[o]
        BY <1>3, Inside DEF Swapping, Idle
    <2>2. Swapping(o) /\ ~Swapping(r)
        BY <1>3, <2>1 DEF Swapping, Sole
    <2>3. ~BackupBegins(r)
        BY <1>3, <2>2, Zenon DEF BackupBegins
    <2>4. BackupFails(r) \/ Done(r)
        BY <1>3, <2>2, <2>3, Inside
    <2> QED
        BY <1>3, <2>4, BackupMoves, EndMoves, TypeParts DEF Types, Rests, Idle, Swapping
<1>4. CASE \E r \in Processes : Swap(r)
    <2>1. PICK r \in Processes : Swap(r)
        BY <1>4
    <2>2. r = p \/ r = q
        BY <2>1, Values DEF Processes
    <2> QED
        BY <1>3, <2>1, <2>2
<1> QED
    BY <1>2, <1>4

LEMMA NextStaging ==
    ASSUME Types, Sole, Staging, Next
    PROVE  Staging'
<1> USE TypeParts DEF Types
<1> SUFFICES ASSUME "overlap" \notin harm', NEW q \in Processes,
                    upd'[q].pc \in {"staged", "replace"}
             PROVE  /\ upd'[q].pc = "staged" => new' = Torn
                    /\ upd'[q].pc = "replace" /\ Linux' => new' = upd'[q].info
    BY DEF Staging
<1>1. Swapping(q)'
    BY DEF Swapping
<1>2. CASE \A r \in Processes : ~Swap(r)
    BY <1>1, <1>2, Outside DEF Staging, Linux
<1>3. ASSUME NEW p \in Processes, Swap(p), p # q
      PROVE  new' = new /\ upd'[q] = upd[q] /\ platform' = platform /\ "overlap" \notin harm
    <2>1. harm \subseteq harm' /\ upd'[q] = upd[q] /\ platform' = platform
        BY <1>3, Inside, SwapDisk DEF Idle
    <2>2. Swapping(q) /\ ~Swapping(p)
        BY <1>1, <1>3, <2>1 DEF Swapping, Sole
    <2>3. ~BackupBegins(p)
        BY <1>3, <2>2, Zenon DEF BackupBegins
    <2>4. BackupFails(p) \/ Done(p)
        BY <1>3, <2>2, <2>3, Inside
    <2>5. new' = new
        BY <2>4, Zenon DEF BackupFails, Done, diskVars
    <2> QED
        BY <2>1, <2>5
<1>4. ASSUME Swap(q)
      PROVE  /\ upd'[q].pc = "staged" => new' = Torn
             /\ upd'[q].pc = "replace" /\ Linux' => new' = upd'[q].info
    <2>1. "overlap" \notin harm /\ platform' = platform
        BY <1>4, Inside, SwapDisk
    <2>2. CASE BackupBegins(q) \/ BackupEnds(q) \/ BackupFails(q)
        <3>1. BackupEnds(q) => To(q, IF Linux THEN "stage" ELSE "replace")
            BY Zenon DEF BackupEnds
        <3>2. Linux /\ BackupEnds(q) => Moves(q, "stage", upd[q].held)
            BY <3>1, Move DEF Control
        <3> QED
            BY <2>1, <2>2, <3>2, BackupMoves DEF Moves, Rests, Idle, Linux
    <2>3. CASE StageBegins(q)
        BY <2>3, StageMoves DEF Moves, StageBegins
    <2>4. CASE StageEnds(q)
        <3>1. upd[q].pc = "staged" /\ upd[q].pc \notin Verifying
            BY <2>4 DEF StageEnds, At, Verifying
        <3>2. new = Torn /\ Content(upd[q]) = upd[q].info
            BY <2>1, <3>1, Downloaded DEF Staging
        <3>3. new' = upd[q].info
            BY <2>4, <3>2, Zenon DEF StageEnds
        <3> QED
            BY <2>4, <3>3, StageMoves DEF Moves
    <2>5. CASE Replace(q)
        BY <2>5, StageMoves DEF Moves
    <2>6. CASE ReplaceFails(q) \/ RestoreEnds(q)
        BY <2>6, RestoreMoves DEF GivesUp, Moves, Rests, Idle
    <2>7. CASE \/ Refuse(q) \/ Authorize(q) \/ CopyEnds(q) \/ Mark(q) \/ MarkFails(q)
               \/ RestartFails(q) \/ Done(q)
        BY <2>7, EndMoves DEF Moves, Rests, Idle
    <2>8. CASE RestartDaemon(q)
        BY <2>8, RestartMoves DEF Idle
    <2> QED
        BY <1>4, <2>2, <2>3, <2>4, <2>5, <2>6, <2>7, <2>8 DEF Swap
<1> QED
    BY <1>2, <1>3, <1>4 DEF Staging, Linux

-----------------------------------------------------------------------------
(* The executable is whole                                                 *)

Copying(p) == upd[p].pc \in {"restore", "copy"}

\* What a backup put back does to the executable.
LEMMA BackupRestored ==
    ASSUME RestoreBackup, exe' = Torn, harm' = {}
    PROVE  exe = Torn
BY DEF RestoreBackup

\* A copy under way goes on, ends whole, or leaves its trace in harm.
LEMMA CopyGoesOn ==
    ASSUME Types, Next, exe' = Torn, harm' = {},
           NEW q \in Processes, Copying(q)
    PROVE  Copying(q)'
<1> USE TypeParts, Values DEF Types
<1>1. ~Swap(q)
    <2>1. ~RestoreEnds(q) /\ ~CopyEnds(q)
        <3>1. ASSUME RestoreEnds(q)
              PROVE  FALSE
            <4>1. exe' = upd[q].held /\ (upd[q].held = Torn => "badBackup" \in harm')
                BY <3>1, Zenon DEF RestoreEnds
            <4> QED
                BY <4>1
        <3>2. ASSUME CopyEnds(q)
              PROVE  FALSE
            <4>1. exe' = Content(upd[q]) \/ "badCopy" \in harm'
                BY <3>2 DEF CopyEnds
            <4>2. Content(upd[q]) # Torn
                BY DownloadedVersion DEF Copying, Verifying
            <4> QED
                BY <4>1, <4>2
        <3> QED
            BY <3>1, <3>2
    <2> QED
        BY <2>1, Zenon DEF Copying, Swap, BackupBegins, BackupEnds, BackupFails, StageBegins,
           StageEnds, Replace, ReplaceFails, Refuse, Authorize, Mark, MarkFails,
           RestartDaemon, RestartFails, Done, At
<1>2. ASSUME NEW p \in Processes, Swap(p)
      PROVE  upd'[q] = upd[q]
    <2>1. p # q
        BY <1>1, <1>2
    <2>2. Others(p) \/ RestartDaemon(p)
        <3>1. CASE BackupBegins(p) \/ BackupEnds(p) \/ BackupFails(p)
            BY <3>1, BackupMoves DEF Moves, Rests
        <3>2. CASE StageBegins(p) \/ StageEnds(p) \/ Replace(p)
            BY <3>2, StageMoves DEF Moves
        <3>3. CASE ReplaceFails(p) \/ RestoreEnds(p)
            BY <3>3, RestoreMoves DEF GivesUp, Moves, Rests
        <3>4. CASE \/ Refuse(p) \/ Authorize(p) \/ CopyEnds(p) \/ Mark(p) \/ MarkFails(p)
                   \/ RestartFails(p) \/ Done(p)
            BY <3>4, EndMoves DEF Moves, Rests
        <3> QED
            BY <1>2, <3>1, <3>2, <3>3, <3>4 DEF Swap
    <2>3. RestartDaemon(p) => q # "daemon"
        <3>1. RestartDaemon(p) =>
                 (upd["daemon"].pc \in {"restore", "copy"} => "cut" \in harm')
            BY Zenon DEF RestartDaemon
        <3> QED
            BY <3>1 DEF Copying
    <2> QED
        BY <2>1, <2>2, <2>3, RestartMoves DEF Others
<1>3. CASE \E p \in Processes : Updating(p)
    <2>1. PICK p \in Processes : Updating(p)
        BY <1>3
    <2>2. p # q
        BY <2>1, Zenon DEF Copying, Updating, Check, Fetch, FetchWhole, DownloadFails,
                           VerifyBinary, At
    <2> QED
        BY <2>1, <2>2, FetchMoves, CheckFinds
        DEF Updating, Receives, Moves, Rests, Others, Copying
<1>4. CASE Click \/ TakeBack
    <2>1. Others("gui") /\ q # "gui"
        BY <1>4, FetchMoves, EndMoves DEF Moves, Rests, Copying, Click, TakeBack, At
    <2> QED
        BY <2>1 DEF Others, Copying
<1>5. CASE RestartLate
    <2>1. upd["daemon"].pc \in {"restore", "copy"} => "cut" \in harm'
        BY <1>5, Zenon DEF RestartLate
    <2>2. upd["gui"].pc = "marked"
        BY <1>5 DEF RestartLate, At
    <2> QED
        BY <2>1, <2>2 DEF Processes, Copying
<1>6. CASE \E p \in Processes : Ends(p)
    <2>1. PICK p \in Processes : Ends(p)
        BY <1>6
    <2>2. upd[p].pc \in {"restore", "copy"} => "cut" \in harm'
        BY <2>1, Zenon DEF Ends
    <2> QED
        BY <2>1, <2>2, RestartMoves DEF Rests, Others, Copying
<1>7. CASE Publish \/ Expire \/ Age \/ Beat \/ Commit \/ BeatFails
           \/ \E p \in Processes : Start(p)
    <2>1. upd' = upd
        BY <1>7, Zenon DEF Publish, Expire, Age, Beat, Commit, BeatFails, Start,
                           StartUnchanged
    <2> QED
        BY <2>1 DEF Copying
<1>8. CASE \E p \in Processes : Swap(p)
    BY <1>2, <1>8 DEF Copying
<1> QED
    BY <1>3, <1>4, <1>5, <1>6, <1>7, <1>8, Steps, Zenon

\* A swap that tears the executable goes on to copy over it.
LEMMA SwapTears ==
    ASSUME Types, Staging, NEW p \in Processes, Swap(p) \/ TakeBack, exe' = Torn, harm' = {}
    PROVE  exe = Torn \/ Copying(p)'
<1> USE TypeParts, Values DEF Types, diskVars
<1>1. CASE Replace(p) \/ StageEnds(p)
    <2>1. upd[p].info # Torn /\ Content(upd[p]) = upd[p].info /\ "overlap" \notin harm
        <3>1. harm = harm' /\ upd[p].pc \notin Verifying
            BY <1>1, Zenon DEF Replace, StageEnds, At, Verifying
        <3> QED
            BY <3>1, DownloadedVersion
    <2>2. CASE StageEnds(p)
        <3>1. new = Torn
            BY <2>1, <2>2, Zenon DEF StageEnds, At, Staging
        <3>2. new = Torn => exe' = exe
            BY <2>2, Zenon DEF StageEnds
        <3> QED
            BY <3>1, <3>2
    <2>3. CASE Replace(p)
        BY <2>1, <2>3, Zenon DEF Replace, At, Staging
    <2> QED
        BY <1>1, <2>2, <2>3
<1>2. CASE ReplaceFails(p)
    BY <1>2, RestoreMoves DEF Moves, Copying
<1>3. CASE Authorize(p)
    BY <1>3, EndMoves DEF Moves, Copying
<1>4. CASE RestoreEnds(p)
    <2>1. exe' = upd[p].held /\ (upd[p].held = Torn => "badBackup" \in harm')
        BY <1>4, Zenon DEF RestoreEnds
    <2> QED
        BY <2>1
<1>5. CASE CopyEnds(p)
    <2>1. exe' = Content(upd[p]) \/ "badCopy" \in harm'
        BY <1>5 DEF CopyEnds
    <2>2. upd[p].pc \notin Verifying
        BY <1>5, Zenon DEF CopyEnds, At, Verifying
    <2>3. Content(upd[p]) # Torn
        BY <2>2, DownloadedVersion
    <2> QED
        BY <2>1, <2>3
<1>6. CASE MarkFails(p) \/ TakeBack
    BY <1>6, BackupRestored, Zenon DEF MarkFails, TakeBack
<1>7. CASE RestartFails(p)
    BY <1>7, BackupRestored, Zenon DEF RestartFails
<1>8. CASE \/ BackupBegins(p) \/ BackupEnds(p) \/ BackupFails(p) \/ StageBegins(p)
           \/ Refuse(p) \/ Mark(p) \/ RestartDaemon(p) \/ Done(p)
    BY <1>8, Zenon DEF BackupBegins, BackupEnds, BackupFails, StageBegins, Refuse, Mark,
                       RestartDaemon, Done
<1> QED
    BY <1>1, <1>2, <1>3, <1>4, <1>5, <1>6, <1>7, <1>8, Zenon DEF Swap

LEMMA StartTears ==
    ASSUME NEW p \in Processes, Start(p), exe' = Torn, harm' = {}
    PROVE  exe = Torn
<1>1. exe' = exe \/ (exe' = bak /\ (bak = Torn => "badBackup" \in harm'))
    BY Zenon DEF Start
<1> QED
    BY <1>1

LEMMA NextIntact ==
    ASSUME Types, Sole, Staging, ImageIntact, Next
    PROVE  ImageIntact'
<1> USE Values
<1> SUFFICES ASSUME exe' = Torn, harm' = {}
             PROVE  \E p \in Processes : Copying(p)'
    BY DEF ImageIntact, Copying
<1>1. harm = {}
    BY Outside, Inside
<1>2. exe = Torn \/ \E p \in Processes : Copying(p)'
    <2>1. CASE TakeBack \/ \E p \in Processes : Swap(p)
        BY <2>1, SwapTears
    <2>2. CASE \E p \in Processes : Start(p)
        BY <2>2, StartTears
    <2>3. CASE \/ Publish \/ Expire \/ Age \/ Click \/ RestartLate \/ Beat \/ Commit
               \/ BeatFails \/ \E p \in Processes : Updating(p) \/ Ends(p)
        <3>1. exe' = exe
            BY <2>3, Zenon DEF Publish, Expire, Age, Click, RestartLate, Beat, Commit,
               BeatFails, Updating, Ends, Check, Fetch, Receive, FetchWhole, DownloadFails,
               VerifyBinary, UpdUnchanged, diskVars
        <3> QED
            BY <3>1
    <2> QED
        BY <2>1, <2>2, <2>3, Steps, Zenon
<1> QED
    BY <1>1, <1>2, CopyGoesOn DEF ImageIntact, Copying

Whole == Types /\ Sole /\ Staging /\ ImageIntact

LEMMA InitWhole == Init => Whole
<1> SUFFICES ASSUME Init PROVE Whole
    OBVIOUS
<1>1. \A p \in Processes : upd[p].pc = "idle"
    BY DEF Init, Idle
<1>2. Sole /\ Staging
    BY <1>1 DEF Sole, Staging, Swapping
<1>3. ImageIntact
    BY Values DEF Init, ImageIntact
<1> QED
    BY <1>2, <1>3, InitTypes DEF Whole

LEMMA NextWhole ==
    ASSUME Whole, [Next]_vars
    PROVE  Whole'
<1>1. CASE UNCHANGED vars
    BY <1>1, NextTypes DEF Whole, Sole, Staging, ImageIntact, Swapping, Linux, vars, diskVars,
                           superVars
<1>2. CASE Next
    BY <1>2, NextTypes, NextSole, NextStaging, NextIntact DEF Whole
<1> QED
    BY <1>1, <1>2

\* Whatever is mixed, cut short or raced, the executable is torn only while a
\* swap copies over it or after one of the mishaps that harm records: a
\* download that was verified is what is renamed or copied into place.
THEOREM ImageStaysIntact == Spec => []ImageIntact
<1>1. Whole => ImageIntact
    BY DEF Whole
<1> QED
    BY <1>1, InitWhole, NextWhole, PTL DEF Spec

-----------------------------------------------------------------------------
(* What was confirmed stays (macOS)                                        *)

\* An executable that was confirmed is in place, or torn. While a marker or an
\* updater may bring a copy back, it is a copy of what was confirmed, or torn.
Kept == {confirmed, Torn}
Confirmed ==
    ~Linux /\ confirmed # 0 =>
        /\ exe \in Kept
        /\ marker # "none" \/ (\E p \in Processes : Swapping(p)) => bak \in Kept \cup {None}
        /\ \A p \in Processes : upd[p].pc = "backup" => upd[p].held \in Kept

\* A swap begins with a backup.
LEMMA SwapBegins ==
    ASSUME Types, NEW p \in Processes, Swap(p) \/ TakeBack, ~BackupBegins(p),
           NEW q \in Processes, Swapping(q)'
    PROVE  Swapping(q) /\ (upd'[q].pc = "backup" => upd'[q] = upd[q])
<1> USE TypeParts DEF Types
<1>1. CASE TakeBack
    BY <1>1, EndMoves, Values DEF Rests, Others, Swapping, Idle
<1>2. CASE Swap(p) /\ p # q
    BY <1>2, Inside DEF Swapping, Idle
<1>3. CASE Swap(p) /\ p = q
    <2>1. CASE BackupEnds(q) \/ BackupFails(q)
        BY <1>3, <2>1, BackupMoves DEF BackupEnds, At, Moves, Rests, Swapping, Idle
    <2>2. CASE StageBegins(q) \/ StageEnds(q) \/ Replace(q)
        <3>1. Swapping(q)
            BY <2>2, Zenon DEF StageBegins, StageEnds, Replace, At, Swapping
        <3> QED
            BY <2>2, <3>1, StageMoves DEF Moves
    <2>3. CASE ReplaceFails(q) \/ RestoreEnds(q)
        <3>1. Swapping(q)
            BY <2>3, Zenon DEF ReplaceFails, RestoreEnds, At, Swapping
        <3> QED
            BY <2>3, <3>1, RestoreMoves DEF GivesUp, Moves, Rests, Swapping, Idle
    <2>4. CASE \/ Refuse(q) \/ Authorize(q) \/ CopyEnds(q) \/ Mark(q) \/ MarkFails(q)
               \/ RestartFails(q) \/ Done(q)
        <3>1. Swapping(q) \/ Done(q)
            BY <2>4, Zenon DEF Refuse, Authorize, CopyEnds, Mark, MarkFails, RestartFails, At,
                               Swapping
        <3> QED
            BY <2>4, <3>1, EndMoves DEF Moves, Rests, Swapping, Idle
    <2>5. CASE RestartDaemon(q)
        BY <2>5, RestartMoves DEF Swapping, Idle
    <2> QED
        BY <1>3, <2>1, <2>2, <2>3, <2>4, <2>5 DEF Swap
<1> QED
    BY <1>1, <1>2, <1>3

\* A swap forgets what was confirmed when it changes the executable.
LEMMA SwapForgets ==
    ASSUME NEW p \in Processes, Swap(p) \/ TakeBack
    PROVE  \/ confirmed' = 0
           \/ confirmed' = confirmed /\ exe' = exe
<1>1. SwapUnchanged \/ (confirmed' = confirmed /\ exe' = exe)
    BY Zenon DEF Swap, TakeBack, BackupBegins, BackupEnds, BackupFails, StageBegins,
       StageEnds, Replace, ReplaceFails, RestoreEnds, Refuse, Authorize, CopyEnds, Mark,
       MarkFails, RestartDaemon, RestartFails, Done, diskVars
<1> QED
    BY <1>1 DEF SwapUnchanged

\* What a swap does to the backup and to the marker, on macOS.
LEMMA SwapBacksUp ==
    ASSUME NEW p \in Processes, Swap(p) \/ TakeBack
    PROVE  \/ bak' = Torn
           \/ upd[p].pc = "backup" /\ bak' = upd[p].held
           \/ bak' = exe
           \/ bak' = None
           \/ bak' = bak /\ (marker' = marker \/ Swapping(p))
BY Zenon DEF Swap, TakeBack, BackupBegins, BackupEnds, BackupFails, StageBegins, StageEnds,
   Replace, ReplaceFails, RestoreEnds, Refuse, Authorize, CopyEnds, Mark, MarkFails,
   RestartDaemon, RestartFails, Done, RestoreBackup, diskVars, At, Swapping

LEMMA SwapConfirmed ==
    ASSUME Types, Confirmed, NEW p \in Processes, Swap(p) \/ TakeBack
    PROVE  Confirmed'
<1> USE TypeParts DEF Types
<1> SUFFICES ASSUME ~Linux', confirmed' # 0
             PROVE  /\ exe' \in Kept'
                    /\ marker' # "none" \/ (\E q \in Processes : Swapping(q)') =>
                         bak' \in Kept' \cup {None}
                    /\ \A q \in Processes : upd'[q].pc = "backup" => upd'[q].held \in Kept'
    BY DEF Confirmed
<1>1. ~Linux /\ confirmed # 0 /\ Kept' = Kept /\ exe' = exe
    BY SwapForgets, SwapDisk DEF Linux, Kept
<1>2. exe \in Kept /\ Torn \in Kept
    BY <1>1 DEF Confirmed, Kept
<1>3. ASSUME marker' # "none" \/ \E q \in Processes : Swapping(q)'
      PROVE  bak' \in Kept' \cup {None}
    <2>1. CASE upd[p].pc = "backup" /\ bak' = upd[p].held
        BY <1>1, <2>1 DEF Confirmed
    <2>2. CASE bak' \in {Torn, exe, None}
        BY <1>1, <1>2, <2>2
    <2>3. CASE bak' = bak /\ (marker' = marker \/ Swapping(p))
        <3>1. BackupBegins(p) => bak' = Torn
            BY Zenon DEF BackupBegins
        <3>2. CASE ~BackupBegins(p)
            <4>1. marker # "none" \/ \E q \in Processes : Swapping(q)
                BY <1>3, <2>3, <3>2, SwapBegins
            <4> QED
                BY <1>1, <2>3, <4>1 DEF Confirmed
        <3> QED
            BY <1>1, <1>2, <3>1, <3>2
    <2> QED
        BY <2>1, <2>2, <2>3, SwapBacksUp
<1>4. ASSUME NEW q \in Processes, upd'[q].pc = "backup"
      PROVE  upd'[q].held \in Kept'
    <2>1. CASE BackupBegins(p)
        <3>1. Moves(p, "backup", exe)
            BY <2>1, BackupMoves
        <3> QED
            BY <1>1, <1>2, <1>4, <3>1 DEF Moves, Others, Confirmed
    <2>2. CASE ~BackupBegins(p)
        <3>1. Swapping(q)'
            BY <1>4 DEF Swapping
        <3>2. upd'[q] = upd[q]
            BY <1>4, <2>2, <3>1, SwapBegins
        <3> QED
            BY <1>1, <1>4, <3>2 DEF Confirmed
    <2> QED
        BY <2>1, <2>2
<1> QED
    BY <1>1, <1>2, <1>3, <1>4

\* Outside a swap only the commit confirms, and only a start that takes an
\* overdue update back changes the executable.
LEMMA OutsideConfirmed ==
    ASSUME Types, Confirmed, Next, \A p \in Processes : ~Swap(p), ~TakeBack
    PROVE  Confirmed'
<1> USE TypeParts, Values DEF Types
<1> SUFFICES ASSUME ~Linux', confirmed' # 0
             PROVE  /\ exe' \in Kept'
                    /\ marker' # "none" \/ (\E q \in Processes : Swapping(q)') =>
                         bak' \in Kept' \cup {None}
                    /\ \A q \in Processes : upd'[q].pc = "backup" => upd'[q].held \in Kept'
    BY DEF Confirmed
<1>1. /\ ~Linux
      /\ \A q \in Processes : Swapping(q)' => upd'[q] = upd[q] /\ Swapping(q)
    BY Outside DEF Linux, Swapping
<1>2. \A q \in Processes : upd'[q].pc = "backup" => upd'[q] = upd[q] /\ Swapping(q)
    BY <1>1 DEF Swapping
<1>3. CASE Commit
    <2>1. /\ confirmed' = exe /\ ~\E p \in Processes : Swapping(p)
          /\ marker' = "none" /\ exe' = exe
        BY <1>3, Zenon DEF Commit
    <2> QED
        BY <1>1, <1>2, <2>1 DEF Kept
<1>4. CASE confirmed' = confirmed /\ exe' = exe /\ bak' \in {bak, None}
           /\ (marker' = marker \/ marker # "none")
    <2>1. Kept' = Kept
        BY <1>4 DEF Kept
    <2> QED
        BY <1>1, <1>2, <1>4, <2>1 DEF Confirmed
<1>5. CASE \E p \in Processes : Start(p)
    <2>1. confirmed' = confirmed
        BY <1>5, Zenon DEF Start, StartUnchanged
    <2>2. CASE Overdue
        <3>1. exe' = bak /\ bak' = None /\ marker # "none" /\ bak # None
            BY <1>5, <2>2, Zenon DEF Start, Overdue
        <3>2. bak \in Kept /\ Kept' = Kept
            BY <1>1, <2>1, <3>1 DEF Confirmed, Kept
        <3> QED
            BY <1>1, <1>2, <2>1, <3>1, <3>2 DEF Confirmed
    <2>3. CASE ~Overdue
        <3>1. exe' = exe /\ bak' = bak /\ marker' = marker
            BY <1>1, <1>5, <2>3, Zenon DEF Start
        <3> QED
            BY <1>4, <2>1, <3>1
    <2> QED
        BY <2>2, <2>3
<1>6. CASE Age \/ Beat
    <2>1. confirmed' = confirmed /\ exe' = exe /\ bak' \in {bak, None}
          /\ (marker' = marker \/ marker # "none")
        BY <1>1, <1>6 DEF Age, Beat, StartUnchanged
    <2> QED
        BY <1>4, <2>1
<1>7. CASE \/ Publish \/ Expire \/ Click \/ RestartLate \/ BeatFails
           \/ \E p \in Processes : Updating(p) \/ Ends(p)
    <2>1. confirmed' = confirmed /\ exe' = exe /\ bak' = bak /\ marker' = marker
        BY <1>7, Zenon DEF Publish, Expire, Click, RestartLate, BeatFails, StartUnchanged,
           Updating, Ends, Check, Fetch, Receive, FetchWhole, DownloadFails,
           VerifyBinary, UpdUnchanged, diskVars
    <2> QED
        BY <1>4, <2>1
<1> QED
    BY <1>3, <1>5, <1>6, <1>7, Steps, Zenon

LEMMA NextConfirmed ==
    ASSUME Types, Confirmed, [Next]_vars
    PROVE  Confirmed'
<1>1. CASE UNCHANGED vars
    BY <1>1 DEF Confirmed, Kept, Swapping, Linux, vars, diskVars
<1>2. CASE Next
    BY <1>2, SwapConfirmed, OutsideConfirmed, Values
<1> QED
    BY <1>1, <1>2

\* macOS: a version whose heartbeat was accepted is replaced only by an
\* updater at work, or by a torn backup.
THEOREM WhatWasConfirmedStays == Spec => ConfirmedStays
<1> DEFINE Step == ~Linux /\ exe = confirmed /\ exe' # exe =>
                       \/ \E p \in Processes : Swapping(p) \/ upd[p].pc = "late"
                       \/ bak = Torn
<1>1. Init => Types /\ Confirmed
    BY InitTypes DEF Init, Confirmed
<1>2. Types /\ Confirmed /\ [Next]_vars => (Types /\ Confirmed)'
    BY NextTypes, NextConfirmed
<1>3. Types /\ Confirmed /\ [Next]_vars => [Step]_vars
    <2> SUFFICES ASSUME Types, Confirmed, Next, ~Linux, exe = confirmed, exe' # exe
                 PROVE  \/ \E p \in Processes : Swapping(p) \/ upd[p].pc = "late"
                        \/ bak = Torn
        BY DEF vars, diskVars
    <2> USE TypeParts, Values DEF Types
    <2>1. CASE \E p \in Processes : Swap(p)
        <3>1. PICK p \in Processes : Swap(p)
            BY <2>1
        <3>2. ~BackupBegins(p) /\ ~BackupFails(p) /\ ~Done(p)
            BY Zenon DEF BackupBegins, BackupFails, Done, diskVars
        <3> QED
            BY <3>1, <3>2, Inside
    <2>2. CASE TakeBack
        BY <2>2 DEF TakeBack, At
    <2>3. CASE \E p \in Processes : Start(p)
        <3>1. Overdue /\ exe' = bak
            BY <2>3, Zenon DEF Start
        <3>2. confirmed # 0
            BY DEF DiskOK, Image, Versions
        <3> QED
            BY <3>1, <3>2 DEF Confirmed, Kept, Overdue
    <2>4. CASE \/ Publish \/ Expire \/ Age \/ Click \/ RestartLate \/ Beat \/ Commit
               \/ BeatFails \/ \E p \in Processes : Updating(p) \/ Ends(p)
        BY <2>4, Zenon DEF Publish, Expire, Age, Click, RestartLate, Beat, Commit,
           BeatFails, Updating, Ends, Check, Fetch, Receive, FetchWhole, DownloadFails,
           VerifyBinary, UpdUnchanged, diskVars
    <2> QED
        BY <2>1, <2>2, <2>3, <2>4, Steps, Zenon
<1> QED
    BY <1>1, <1>2, <1>3, PTL DEF Spec, ConfirmedStays

-----------------------------------------------------------------------------
(* The update keeps the promise of ReleaseChannel                          *)

\* The abstract state, as the mapping of Channel reads it off the concrete one.
Running == {proc[p].ver : p \in {q \in Processes : proc[q].pc # "off"}}
Copies == ({bak} \cup {upd[p].held : p \in Processes}) \ {None}
Approved == ({upd[p].info : p \in Processes} \cup {new}) \ {0, None, Torn}
Alone == "overlap" \notin harm
FoundNow == {v \in 1..Latest : \E r \in Running : r < v}

\* What a step of the update does to the abstract state, image apart.
KeepsCopies == Copies' \subseteq Copies \cup {exe, Torn}
Swaps == KeepsCopies /\ Approved' \subseteq Approved
         /\ Latest' = Latest /\ Running' = Running /\ Alone' = Alone

LEMMA WorkMaps ==
    ASSUME Latest' = Latest, exe' = exe, KeepsCopies,
           Running' \subseteq Running \cup {exe},
           Approved' \subseteq Approved \cup FoundNow, Alone' => Alone
    PROVE  Channel!Next
<1> SUFFICES Channel!Work
    BY DEF Channel!Next
<1> QED
    BY Zenon DEF Channel!Work, Channel!Updates, KeepsCopies, Running, Copies, Approved, Alone, FoundNow

LEMMA ImageMaps ==
    ASSUME Swaps
    PROVE  /\ exe' \in Approved /\ (Alone => \E r \in Running : r < exe') => Channel!Next
           /\ exe' \in Copies => Channel!Next
           /\ exe' = Torn => Channel!Next
<1>1. Channel!Replacing
    BY Zenon DEF Swaps, KeepsCopies, Running, Copies, Approved, Alone, Channel!Replacing, Channel!Files
<1>2. exe' \in Approved /\ (Alone => \E r \in Running : r < exe') => Channel!Install
    BY <1>1, Zenon DEF Running, Approved, Alone, Channel!Install
<1>3. exe' \in Copies => Channel!Revert
    BY <1>1, Zenon DEF Copies, Channel!Revert, Channel!Replacing
<1>4. exe' = Torn => Channel!Damage
    BY <1>1, Zenon DEF Channel!Damage
<1> QED
    BY <1>2, <1>3, <1>4 DEF Channel!Next

LEMMA PublishMaps ==
    ASSUME Latest' = Latest + 1, exe' = exe, Copies' = Copies, Running' = Running,
           Approved' = Approved, Alone' = Alone
    PROVE  Channel!Next
<1> SUFFICES Channel!Publish
    BY DEF Channel!Next
<1> QED
    BY Zenon DEF Running, Copies, Approved, Alone, Channel!Publish

\* The abstract state, thread by thread.
LEMMA CopiesKept ==
    ASSUME \A q \in Processes : upd'[q].held \in {upd[q].held, None, exe, bak},
           bak' \in {bak, None, Torn, exe} \cup {upd[q].held : q \in Processes}
    PROVE  KeepsCopies
BY DEF KeepsCopies, Copies

LEMMA ApprovedKept ==
    ASSUME \A q \in Processes : upd'[q].info \in {upd[q].info, 0},
           new' \in {new, None, Torn} \cup {upd[q].info : q \in Processes}
    PROVE  Approved' \subseteq Approved
BY DEF Approved

LEMMA RunningKept ==
    ASSUME \A q \in Processes : proc'[q].pc # "off" =>
               proc[q].pc # "off" /\ proc'[q].ver = proc[q].ver
    PROVE  Running' \subseteq Running
BY DEF Running

LEMMA RunsBelow ==
    ASSUME Types, NEW p \in Processes, upd[p].pc \notin Verifying
    PROVE  /\ upd[p].info \in Approved
           /\ \E r \in Running : r < upd[p].info
<1>1. proc[p].ver \in Running
    BY Downloaded DEF Types, Running
<1> QED
    BY <1>1, Downloaded, DownloadedVersion DEF Types, Approved

\* What a swap does to the threads, to the copies and to the processes.
LEMMA SwapHolds ==
    ASSUME Types, NEW p \in Processes, Swap(p) \/ TakeBack
    PROVE  \A q \in Processes : /\ upd'[q].info \in {upd[q].info, 0}
                                /\ upd'[q].held \in {upd[q].held, None, exe, bak}
<1> USE TypeParts, Values DEF Types
<1>1. ASSUME NEW r \in Processes, NEW pc, NEW held \in {upd[r].held, exe, bak},
             Rests(r) \/ Moves(r, pc, held)
      PROVE  \A q \in Processes : /\ upd'[q].info \in {upd[q].info, 0}
                                  /\ upd'[q].held \in {upd[q].held, None, exe, bak}
    BY <1>1 DEF Rests, Moves, Others, Idle
<1>2. CASE BackupBegins(p) \/ BackupEnds(p) \/ BackupFails(p)
    BY <1>1, <1>2, BackupMoves
<1>3. CASE StageBegins(p) \/ StageEnds(p) \/ Replace(p)
    BY <1>1, <1>3, StageMoves
<1>4. CASE ReplaceFails(p) \/ RestoreEnds(p)
    BY <1>1, <1>4, RestoreMoves DEF GivesUp
<1>5. CASE \/ Refuse(p) \/ Authorize(p) \/ CopyEnds(p) \/ Mark(p) \/ MarkFails(p)
           \/ RestartFails(p) \/ Done(p) \/ TakeBack
    BY <1>1, <1>5, EndMoves
<1>6. CASE RestartDaemon(p)
    BY <1>6, RestartMoves DEF Idle
<1> QED
    BY <1>2, <1>3, <1>4, <1>5, <1>6 DEF Swap

LEMMA SwapKeeps ==
    ASSUME Types, NEW p \in Processes, Swap(p) \/ TakeBack
    PROVE  KeepsCopies /\ Approved' \subseteq Approved /\ Latest' = Latest
<1>1. bak' \in {bak, None, Torn, exe} \cup {upd[q].held : q \in Processes}
    BY SwapBacksUp
<1>2. new' \in {new, None, Torn} \cup {upd[q].info : q \in Processes}
    <2>1. CASE StageEnds(p)
        <3>1. upd[p].pc \notin Verifying
            BY <2>1, Zenon DEF StageEnds, At, Verifying
        <3>2. new' \in {new, Content(upd[p])}
            BY <2>1, Zenon DEF StageEnds
        <3> QED
            BY <3>1, <3>2, DownloadedVersion
    <2>2. CASE ~StageEnds(p)
        <3>1. new' \in {new, None, Torn}
            BY <2>2, Zenon DEF Swap, TakeBack, BackupBegins, BackupEnds, BackupFails,
               StageBegins, Replace, ReplaceFails, RestoreEnds, Refuse, Authorize, CopyEnds,
               Mark, MarkFails, RestartDaemon, RestartFails, Done, RestoreBackup, diskVars
        <3> QED
            BY <3>1
    <2> QED
        BY <2>1, <2>2
<1> QED
    BY <1>1, <1>2, SwapHolds, SwapDisk, CopiesKept, ApprovedKept DEF Latest

LEMMA SwapRuns ==
    ASSUME Types, NEW p \in Processes, Swap(p) \/ TakeBack
    PROVE  /\ Running' \subseteq Running
           /\ Running' = Running \/ exe' = exe
<1>1. CASE RestartDaemon(p)
    <2>1. exe' = exe
        BY <1>1, Zenon DEF RestartDaemon, diskVars
    <2>2. \A q \in Processes : proc'[q].pc # "off" => proc'[q] = proc[q]
        BY <1>1, TypeParts DEF Types, RestartDaemon, ProcOK, Off
    <2> QED
        BY <2>1, <2>2, RunningKept
<1>2. CASE Done(p)
    <2>1. exe' = exe
        BY <1>2, Zenon DEF Done, diskVars
    <2>2. \A q \in Processes : proc'[q].pc # "off" => proc'[q] = proc[q]
        BY <1>2, TypeParts DEF Types, Done, ProcOK, Off
    <2> QED
        BY <2>1, <2>2, RunningKept
<1>3. CASE ~RestartDaemon(p) /\ ~Done(p)
    <2>1. proc' = proc
        BY <1>3, Zenon DEF Swap, TakeBack, BackupBegins, BackupEnds, BackupFails,
           StageBegins, StageEnds, Replace, ReplaceFails, RestoreEnds, Refuse, Authorize,
           CopyEnds, Mark, MarkFails, RestartFails, SwapUnchanged
    <2> QED
        BY <2>1 DEF Running
<1> QED
    BY <1>1, <1>2, <1>3

LEMMA SwapAlone ==
    ASSUME Types, NEW p \in Processes, Swap(p) \/ TakeBack
    PROVE  /\ Alone' => Alone
           /\ Alone' = Alone \/ exe' = exe
<1>1. CASE BackupBegins(p)
    <2>1. exe' = exe
        BY <1>1, Zenon DEF BackupBegins
    <2>2. harm \subseteq harm'
        BY <1>1, Inside DEF Swap
    <2> QED
        BY <2>1, <2>2 DEF Alone
<1>2. CASE ~BackupBegins(p)
    <2>1. harm' \in {harm, harm \cup {"badBackup"}, harm \cup {"badCopy"}, harm \cup {"cut"}}
        BY <1>2, Zenon DEF Swap, TakeBack, BackupEnds, BackupFails, StageBegins, StageEnds,
           Replace, ReplaceFails, RestoreEnds, Refuse, Authorize, CopyEnds, Mark, MarkFails,
           RestartDaemon, RestartFails, Done, RestoreBackup
    <2> QED
        BY <2>1 DEF Alone
<1> QED
    BY <1>1, <1>2

\* What a swap does to the executable.
LEMMA SwapImage ==
    ASSUME Types, Staging, NEW p \in Processes, Swap(p) \/ TakeBack
    PROVE  \/ exe' \in {exe, Torn} \cup Copies
           \/ exe' \in Approved /\ (Alone => \E r \in Running : r < exe')
<1> USE TypeParts, Values DEF Types
<1>1. CASE StageEnds(p) \/ CopyEnds(p)
    <2>1. exe' \in {exe, Content(upd[p])} /\ upd[p].pc \notin Verifying
        BY <1>1, Zenon DEF StageEnds, CopyEnds, At, Verifying
    <2> QED
        BY <2>1, DownloadedVersion, RunsBelow
<1>2. CASE Replace(p)
    <2>1. upd[p].pc = "replace" /\ upd[p].pc \notin Verifying
        BY <1>2, Zenon DEF Replace, At, Verifying
    <2>2. CASE Linux
        <3>1. exe' = new /\ new # None
            BY <1>2, <2>2, Zenon DEF Replace
        <3>2. Alone => new = upd[p].info
            BY <2>1, <2>2 DEF Staging, Alone
        <3>3. new = Torn \/ new \in Approved
            BY <3>1, FileAssumption DEF DiskOK, Image, Versions, Approved
        <3> QED
            BY <2>1, <3>1, <3>2, <3>3, RunsBelow
    <2>3. CASE ~Linux
        <3>1. exe' = Content(upd[p])
            BY <1>2, <2>3, Zenon DEF Replace
        <3> QED
            BY <2>1, <3>1, DownloadedVersion, RunsBelow
    <2> QED
        BY <2>2, <2>3
<1>3. CASE ReplaceFails(p)
    BY <1>3, RestoreMoves
<1>4. CASE RestoreEnds(p)
    <2>1. exe' = upd[p].held /\ upd[p].pc = "restore"
        BY <1>4, Zenon DEF RestoreEnds, At
    <2>2. upd[p].held # None
        BY <2>1 DEF Updaters, Updater
    <2> QED
        BY <2>1, <2>2 DEF Copies
<1>5. CASE MarkFails(p) \/ RestartFails(p) \/ TakeBack
    <2>1. exe' = exe \/ (exe' = bak /\ bak # None)
        BY <1>5, Zenon DEF MarkFails, RestartFails, TakeBack, RestoreBackup, diskVars
    <2> QED
        BY <2>1 DEF Copies
<1>6. CASE \/ BackupBegins(p) \/ BackupEnds(p) \/ BackupFails(p) \/ StageBegins(p)
           \/ Refuse(p) \/ Authorize(p) \/ Mark(p) \/ RestartDaemon(p) \/ Done(p)
    <2>1. exe' \in {exe, Torn}
        BY <1>6, Zenon DEF BackupBegins, BackupEnds, BackupFails, StageBegins, Refuse,
           Authorize, Mark, RestartDaemon, Done, diskVars
    <2> QED
        BY <2>1
<1> QED
    BY <1>1, <1>2, <1>3, <1>4, <1>5, <1>6, Zenon DEF Swap

LEMMA SwapMaps ==
    ASSUME Types, Staging, NEW p \in Processes, Swap(p) \/ TakeBack
    PROVE  Channel!Next
<1>1. CASE exe' = exe
    BY <1>1, SwapKeeps, SwapRuns, SwapAlone, WorkMaps
<1>2. CASE exe' # exe
    <2>1. Swaps
        BY <1>2, SwapKeeps, SwapRuns, SwapAlone DEF Swaps
    <2> QED
        BY <1>2, <2>1, SwapImage, ImageMaps
<1> QED
    BY <1>1, <1>2

\* The other steps.
LEMMA UpdateMaps ==
    ASSUME Types, NEW p \in Processes, Updating(p) \/ Click
    PROVE  Channel!Next
<1> USE TypeParts, Values DEF Types
<1>1. UpdUnchanged
    BY Zenon DEF Updating, Click, Check, Fetch, Receive, FetchWhole, DownloadFails,
                 VerifyBinary
<1>2. /\ Latest' = Latest /\ exe' = exe /\ bak' = bak /\ new' = new
      /\ Running' = Running /\ Alone' = Alone
    BY <1>1, Zenon DEF UpdUnchanged, diskVars, Latest, Running, Alone
<1>3. ASSUME \A q \in Processes : /\ upd'[q].held \in {upd[q].held, None, exe, bak}
                                  /\ upd'[q].info \in {upd[q].info, 0} \cup FoundNow
      PROVE  Channel!Next
    <2>1. KeepsCopies
        BY <1>2, <1>3, CopiesKept
    <2>2. Approved' \subseteq Approved \cup FoundNow
        BY <1>2, <1>3 DEF Approved
    <2> QED
        BY <1>2, <2>1, <2>2, WorkMaps
<1>4. CASE Check(p)
    <2>1. upd'[p].info \in FoundNow
        <3>1. proc[p].ver \in Running /\ Published = 1..Latest
            BY <1>4, CheckFinds DEF Running, Published, Latest
        <3> QED
            BY <1>4, <3>1, CheckFinds DEF FoundNow
    <2> QED
        BY <1>3, <1>4, <2>1, CheckFinds DEF Others
<1>5. CASE Fetch(p) \/ FetchWhole(p)
    BY <1>3, <1>5, FetchMoves DEF Receives, Others
<1>6. CASE DownloadFails(p) \/ VerifyBinary(p)
    BY <1>3, <1>6, FetchMoves DEF Rests, Moves, Others, Idle
<1>7. CASE Click
    BY <1>3, <1>7, FetchMoves DEF Moves, Others
<1> QED
    BY <1>4, <1>5, <1>6, <1>7 DEF Updating

LEMMA ReleaseMaps ==
    ASSUME Types, Publish \/ Expire \/ Age
    PROVE  Channel!Next
<1>1. /\ exe' = exe /\ Copies' = Copies /\ Running' = Running /\ Approved' = Approved
      /\ Alone' = Alone
    BY Zenon DEF Publish, Expire, Age, diskVars, Copies, Running, Approved, Alone
<1>2. Latest' = Latest \/ Latest' = Latest + 1
    <2>1. CASE Publish
        BY <2>1, KindAssumption, AppendProperties, TypeParts
        DEF Types, ReleasesOK, Publish, Latest
    <2>2. CASE Expire \/ Age
        BY <2>2 DEF Expire, Age, Latest
    <2> QED
        BY <2>1, <2>2
<1>3. KeepsCopies
    BY <1>1 DEF KeepsCopies
<1> QED
    BY <1>1, <1>2, <1>3, WorkMaps, PublishMaps

LEMMA StartMaps ==
    ASSUME Types, NEW p \in Processes, Start(p)
    PROVE  Channel!Next
<1> USE TypeParts DEF Types
<1>1. upd' = upd /\ new' = new /\ Latest' = Latest /\ Approved' = Approved
    BY Zenon DEF Start, StartUnchanged, Latest, Approved
<1>2. bak' \in {bak, None}
    BY Zenon DEF Start
<1>3. KeepsCopies
    BY <1>1, <1>2, CopiesKept
<1>4. Alone' = Alone
    <2>1. harm' \in {harm, harm \cup {"badBackup"}}
        BY Zenon DEF Start
    <2> QED
        BY <2>1 DEF Alone
<1>5. CASE Overdue
    <2>1. proc' = proc /\ exe' = bak /\ bak # None
        BY <1>5, Zenon DEF Start, Overdue
    <2>2. Swaps /\ exe' \in Copies
        BY <1>1, <1>3, <1>4, <2>1 DEF Swaps, Running, Copies
    <2> QED
        BY <2>2, ImageMaps
<1>6. CASE ~Overdue
    <2>1. /\ exe' = exe
          /\ proc' = [proc EXCEPT ![p] =
                        [pc |-> IF p = "daemon" THEN "start" ELSE "run", ver |-> exe]]
        BY <1>6, Zenon DEF Start
    <2>2. Running' \subseteq Running \cup {exe}
        BY <2>1 DEF Running, ProcOK
    <2> QED
        BY <1>1, <1>3, <1>4, <2>1, <2>2, WorkMaps
<1> QED
    BY <1>5, <1>6

LEMMA BeatMaps ==
    ASSUME Types, Beat \/ Commit \/ BeatFails
    PROVE  Channel!Next
<1> USE TypeParts, Values DEF Types
<1>1. /\ upd' = upd /\ new' = new /\ exe' = exe /\ Latest' = Latest /\ Approved' = Approved
      /\ Alone' = Alone
    <2>1. UNCHANGED <<upd, new, exe, releases, harm>>
        BY DEF Beat, Commit, BeatFails, StartUnchanged
    <2> QED
        BY <2>1, Zenon DEF Latest, Approved, Alone
<1>2. bak' \in {bak, None}
    BY Zenon DEF Beat, Commit, BeatFails
<1>3. KeepsCopies
    BY <1>1, <1>2, CopiesKept
<1>4. PICK pc \in {"run", "commit"} :
        proc' = [proc EXCEPT !["daemon"].pc = pc] /\ proc["daemon"].pc # "off"
    <2>1. proc["daemon"].pc # "off"
        BY DEF Beat, Commit, BeatFails
    <2>2. CASE Beat
        <3>1. proc' = [proc EXCEPT !["daemon"].pc = IF Linux THEN "run" ELSE "commit"]
            BY <2>2 DEF Beat
        <3> QED
            BY <2>1, <3>1, Zenon
    <2>3. CASE Commit \/ BeatFails
        BY <2>1, <2>3, Zenon DEF Commit, BeatFails
    <2> QED
        BY <2>2, <2>3
<1>5. Running' \subseteq Running
    BY <1>4, RunningKept DEF ProcOK, Local
<1> QED
    BY <1>1, <1>3, <1>5, WorkMaps

LEMMA EndMaps ==
    ASSUME Types, NEW p \in Processes, Ends(p) \/ RestartLate
    PROVE  Channel!Next
<1> USE TypeParts, Values DEF Types
<1>1. bak' = bak /\ new' = new /\ exe' = exe /\ Latest' = Latest
    BY Zenon DEF Ends, RestartLate, diskVars, Latest
<1>2. Alone' = Alone
    <2>1. harm' \in {harm, harm \cup {"cut"}}
        BY Zenon DEF Ends, RestartLate
    <2> QED
        BY <2>1 DEF Alone
<1>3. \A q \in Processes : /\ upd'[q].info \in {upd[q].info, 0}
                           /\ upd'[q].held \in {upd[q].held, None, exe, bak}
    <2>1. CASE Ends(p)
        BY <2>1, RestartMoves DEF Rests, Others, Idle
    <2>2. CASE RestartLate
        BY <2>2, RestartMoves DEF Processes, Idle
    <2> QED
        BY <2>1, <2>2
<1>4. PICK r \in Processes : proc' = [proc EXCEPT ![r] = Off]
    BY DEF Ends, RestartLate
<1>5. Running' \subseteq Running
    BY <1>4, RunningKept DEF ProcOK, Off
<1> QED
    BY <1>1, <1>2, <1>3, <1>5, CopiesKept, ApprovedKept, WorkMaps

LEMMA InitMaps == Init => Channel!Init
<1> SUFFICES ASSUME Init PROVE Channel!Init
    OBVIOUS
<1>1. \A q \in Processes : upd[q].held = None /\ upd[q].info = 0 /\ proc[q].pc = "off"
    BY DEF Init, Idle, Off
<1>2. Latest = 1 /\ exe = 1
    BY DEF Init, Latest
<1>3. Copies = {} /\ Running = {} /\ Approved = {} /\ Alone = TRUE
    BY <1>1 DEF Init, Copies, Running, Approved, Alone
<1> QED
    BY <1>2, <1>3, Zenon DEF Channel!Init, Copies, Running, Approved, Alone

\* Whatever is cached, mixed, cut short or raced, the executable changes only
\* to a version that an updater below it has found, or to a copy that was
\* kept, or is torn: every step is one of ReleaseChannel's, or a stutter.
THEOREM UpdateImplementsChannel == Spec => ImplementsChannel
<1>1. Init => Channel!Init
    BY InitMaps
<1>2. Whole /\ [Next]_vars => [Channel!Next]_(Channel!vars)
    <2>1. ASSUME Whole, Next
          PROVE  Channel!Next
        BY <2>1, Steps, UpdateMaps, ReleaseMaps, StartMaps, BeatMaps, EndMaps, SwapMaps, Values
        DEF Whole
    <2>2. ASSUME UNCHANGED vars
          PROVE  UNCHANGED Channel!vars
        BY <2>2 DEF vars, diskVars, Channel!vars, Latest
    <2> QED
        BY <2>1, <2>2
<1> QED
    BY <1>1, <1>2, InitWhole, NextWhole, PTL DEF Spec, ImplementsChannel, Channel!Spec
=============================================================================
