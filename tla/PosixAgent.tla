----------------------------- MODULE PosixAgent -----------------------------
(***************************************************************************)
(* The background agents of Linux and macOS (src/sentinel_agent_linux.py,  *)
(* src/sentinel_agent_macos.py): authentication from the persisted token   *)
(* and join state, the approval-sync slot, the initial scan and its        *)
(* upload in one or in several requests, and the monitor thread.           *)
(*                                                                         *)
(* Both programs have the same control; platform, chosen in Init, selects  *)
(* the branches where they differ. Unlike the Windows daemon they keep no  *)
(* offline queue: an upload that is not acknowledged is simply lost,       *)
(* except that macOS keeps its first complete inventory and retries it.    *)
(*                                                                         *)
(* The daemon keeps its join state in join_state.json and copies it to     *)
(* zw_team_join_state.dat, the only one the GUI knows. A poll of the join  *)
(* status that brings nothing new changes no state and is no action.       *)
(***************************************************************************)
EXTENDS Integers, FiniteSets

CONSTANTS
    Packages,       \* items of layer 0, the package managers
    Files,          \* items of layers 1 and 2, the file system
    Attempts,       \* uploads _sync_full_with_retry tries: 3
    Chunk,          \* items a Linux agent sends in one request at most: 399
    MaxEvents       \* bound on the outside events of a behaviour

ASSUME ItemsAssumption == /\ Packages \cap Files = {}
                          /\ IsFiniteSet(Packages \cup Files)
ASSUME BoundAssumption == /\ Attempts \in Nat \ {0}
                          /\ Chunk \in Nat \ {0}
                          /\ MaxEvents \in Nat

VARIABLES
    platform,       \* "linux" or "macos"
    code,           \* the enrolment code in the environment
    limit,          \* items the backend takes in one request (HTTP 413 beyond)
    srv,            \* the backend: the device's latest request and its status
    stored,         \* the backend's inventory of the device
    delivered,      \* requests under which a complete inventory was acknowledged
    own,            \* join_state.json
    shared,         \* zw_team_join_state.dat
    tok,            \* the token files: the request the token came with, or 0
    mem,            \* the token in memory, or 0
    pc,             \* the main thread
    mon,            \* the monitor thread
    scanner,        \* the initial-scan thread
    exit,           \* how the process ended last
    stopping,       \* the shutdown event
    fresh,          \* main: the join state it is about to write
    claimed,        \* approval_sync_claimed
    installed,      \* what is on the machine
    scan,           \* startup_items
    snap,           \* the packages in the orchestrator's snapshot
    full,           \* the upload of a full inventory under way
    pend,           \* macOS: _pending_full_inventory and _pending_full_approval
    outbox,         \* monitor: the delta about to be sent
    erased,         \* history: the request whose only trace, its token, an error erased
    events

backendVars == <<srv, stored, delivered>>
fileVars == <<own, shared, tok>>
threadVars == <<pc, mon, scanner, exit, stopping>>
enrolVars == <<fresh, claimed>>
scanVars == <<scan, snap>>
uploadVars == <<full, pend, outbox>>
vars == <<platform, code, limit, backendVars, fileVars, mem, threadVars,
          enrolVars, installed, scanVars, uploadVars, erased, events>>

-----------------------------------------------------------------------------
Items == Packages \cup Files
Req == 0..(MaxEvents + 1)
Linux == platform = "linux"

Join == [st : {"none", "pending", "approved"}, req : Req,
         sync : {"none", "in_progress", "complete", "failed"}, syncReq : Req]
NoJoin == [st |-> "none", req |-> 0, sync |-> "none", syncReq |-> 0]

\* load_join_state: the daemon's own file first.
Loaded == IF own # NoJoin THEN own ELSE shared

\* save_join_state
SaveJoin(j) == own' = j /\ shared' = j

\* clear_device_state and clear_jwt
WipeFiles == own' = NoJoin /\ shared' = NoJoin /\ tok' = 0

Accepted == mem # 0 /\ srv = [req |-> mem, status |-> "approved"]

NoUpload == [phase |-> "off", by |-> "main", left |-> 0, items |-> {}, rest |-> {},
             fallback |-> FALSE]
\* Mutant: one attempt too many.
UploadOnceMore(who, items, fallback) ==
    [phase |-> "pause", by |-> who, left |-> Attempts + 1, items |-> items, rest |-> {},
     fallback |-> fallback]

Upload(who, items, fallback) ==
    [phase |-> "pause", by |-> who, left |-> Attempts, items |-> items, rest |-> {},
     fallback |-> fallback]
NothingPending == [on |-> FALSE, items |-> {}, approval |-> FALSE]
NoDelta == [add |-> {}, del |-> {}]

\* Something happens that the agent does not control.
Event == events < MaxEvents /\ events' = events + 1

Reset == /\ mem' = 0 /\ mon' = "off" /\ scanner' = "idle" /\ stopping' = FALSE
         /\ fresh' = NoJoin /\ claimed' = FALSE
         /\ scan' = {} /\ snap' = {}
         /\ full' = NoUpload /\ pend' = NothingPending /\ outbox' = NoDelta

Init ==
    /\ platform \in {"linux", "macos"}
    /\ code \in {"none", "team", "individual"}
    /\ limit \in 1..Cardinality(Items)
    /\ srv = [req |-> 0, status |-> "none"]
    /\ stored = {} /\ delivered = {}
    /\ own = NoJoin /\ shared = NoJoin /\ tok = 0
    /\ mem = 0 /\ pc = "auth" /\ mon = "off" /\ scanner = "idle"
    /\ exit = "none" /\ stopping = FALSE
    /\ fresh = NoJoin /\ claimed = FALSE
    /\ installed = Items /\ scan = {} /\ snap = {}
    /\ full = NoUpload /\ pend = NothingPending /\ outbox = NoDelta
    /\ erased = 0 /\ events = 0

-----------------------------------------------------------------------------
(* The machine, the administrator and the GUI                              *)

OutsideUnchanged == UNCHANGED <<platform, code, limit, delivered, mem, pc, mon, scanner,
                                exit, enrolVars, scanVars, uploadVars>>

Install ==
    /\ Event
    /\ \E i \in Packages : \/ i \in installed /\ installed' = installed \ {i}
                           \/ i \notin installed /\ installed' = installed \cup {i}
    /\ UNCHANGED <<srv, stored, fileVars, stopping, erased>> /\ OutsideUnchanged

Approve ==
    /\ srv.status = "pending"
    /\ srv' = [srv EXCEPT !.status = "approved"]
    /\ UNCHANGED <<stored, fileVars, stopping, installed, erased, events>>
    /\ OutsideUnchanged

\* The backend keeps the inventory of a device that it unlinks.
Deny ==
    /\ Event
    /\ \/ srv.status = "pending" /\ srv' = [srv EXCEPT !.status = "denied"]
       \/ srv.status = "approved" /\ srv' = [srv EXCEPT !.status = "unlinked"]
    /\ UNCHANGED <<stored, fileVars, stopping, installed, erased>> /\ OutsideUnchanged

\* request_join in the GUI: the request may be lost on its way.
GuiRequest ==
    /\ Event
    /\ srv.status # "approved"
    /\ \/ /\ srv' = [req |-> srv.req + 1, status |-> "pending"]
          /\ shared' = [NoJoin EXCEPT !.st = "pending", !.req = srv.req + 1]
       \/ /\ shared' = [NoJoin EXCEPT !.st = "pending"]
          /\ UNCHANGED srv
    /\ UNCHANGED <<stored, own, tok, stopping, installed, erased>> /\ OutsideUnchanged

\* request_individual_join in the GUI: the answer brings a token at once or is
\* awaited by polling. No join state is written.
GuiIndividual ==
    /\ Event
    /\ srv.status # "approved"
    /\ \/ srv' = [req |-> srv.req + 1, status |-> "approved"] /\ tok' = srv.req + 1
       \/ srv' = [req |-> srv.req + 1, status |-> "pending"] /\ UNCHANGED tok
    /\ UNCHANGED <<stored, own, shared, stopping, installed, erased>> /\ OutsideUnchanged

\* refresh_join_status_once in the GUI, whose enrolment screen polls whether or
\* not a join state says that something is pending.
GuiApproved ==
    /\ shared.st # "approved"
    /\ srv.status = "approved"
    /\ tok' = srv.req
    /\ shared' = [shared EXCEPT !.st = "approved", !.req = srv.req]
    /\ erased' = 0
    /\ UNCHANGED <<srv, stored, own, stopping, installed, events>> /\ OutsideUnchanged

\* clear_local_state in the GUI, after it learnt of the unlink
GuiWipe ==
    /\ srv.status = "unlinked"
    /\ tok # 0 \/ Loaded # NoJoin
    /\ WipeFiles
    /\ UNCHANGED <<srv, stored, stopping, installed, erased, events>> /\ OutsideUnchanged

\* SIGTERM or SIGINT
Signal ==
    /\ Event
    /\ pc # "off" /\ ~stopping
    /\ stopping' = TRUE
    /\ UNCHANGED <<srv, stored, fileVars, installed, erased>> /\ OutsideUnchanged

Outside == \/ Install \/ Approve \/ Deny \/ Signal
           \/ GuiRequest \/ GuiIndividual \/ GuiApproved \/ GuiWipe

-----------------------------------------------------------------------------
(* The process                                                             *)

Crash ==
    /\ Event
    /\ pc # "off"
    /\ pc' = "off" /\ exit' = "failure"
    /\ Reset
    /\ UNCHANGED <<platform, code, limit, backendVars, fileVars, installed, erased>>

\* launchd keeps the daemon alive; systemd restarts it after a failure only.
Respawn ==
    /\ pc = "off"
    /\ Linux => exit = "failure"
    /\ pc' = "auth"
    /\ UNCHANGED <<platform, code, limit, backendVars, fileVars, mem, mon, scanner, exit,
                   stopping, enrolVars, installed, scanVars, uploadVars, erased, events>>

\* A boot, an operator or the GUI starts the Linux daemon again.
StartAgain ==
    /\ Event
    /\ Linux /\ pc = "off" /\ exit = "clean"
    /\ pc' = "auth"
    /\ UNCHANGED <<platform, code, limit, backendVars, fileVars, mem, mon, scanner, exit,
                   stopping, enrolVars, installed, scanVars, uploadVars, erased>>

\* run returns once the shutdown event is seen.
Leave ==
    /\ stopping
    /\ pc \in {"poll", "joinPoll", "wait", "retry", "running"}
    /\ pc' = "off" /\ exit' = "clean"
    /\ Reset
    /\ UNCHANGED <<platform, code, limit, backendVars, fileVars, installed, erased,
                   events>>

-----------------------------------------------------------------------------
(* _register_or_authenticate                                               *)

EnrolUnchanged == UNCHANGED <<platform, code, limit, stored, delivered, mon, scanner,
                              stopping, claimed, installed, scanVars, uploadVars>>

\* GET /agent/info with the token from disk. Any answer but 200 and 404, and
\* any exception, erase the token; with no join state to resume and no code,
\* the device's enrolment is then forgotten here, whatever the backend holds.
AuthValid ==
    /\ pc = "auth"
    /\ tok # 0 /\ srv = [req |-> tok, status |-> "approved"]
    /\ mem' = tok /\ pc' = "beat"
    /\ UNCHANGED <<srv, fileVars, exit, fresh, erased, events>> /\ EnrolUnchanged

AuthUnlinked ==
    /\ pc = "auth"
    /\ tok # 0 /\ srv.status # "approved"
    /\ WipeFiles
    /\ mem' = 0 /\ pc' = "resume"
    /\ UNCHANGED <<srv, exit, fresh, erased, events>> /\ EnrolUnchanged

AuthRejected ==
    /\ pc = "auth"
    /\ tok # 0
    /\ \/ srv.status = "approved" /\ srv.req # tok /\ UNCHANGED <<erased, events>>
       \/ Event /\ erased' = IF Loaded.st = "none" /\ code = "none" THEN tok ELSE erased
    /\ tok' = 0
    /\ mem' = 0 /\ pc' = "resume"
    /\ UNCHANGED <<srv, own, shared, exit, fresh>> /\ EnrolUnchanged

NoToken ==
    /\ pc = "auth"
    /\ tok = 0
    /\ pc' = "resume"
    /\ UNCHANGED <<srv, fileVars, mem, exit, fresh, erased, events>> /\ EnrolUnchanged

\* Mutant: an approved request counts as done.
ResumePending ==
    /\ pc = "resume"
    /\ pc' = IF Loaded.st = "pending" THEN "poll"
             ELSE IF code = "none" THEN "wait" ELSE "enrol"
    /\ UNCHANGED <<srv, fileVars, mem, exit, fresh, erased, events>> /\ EnrolUnchanged

\* A persisted enrolment is polled; else the code in the environment is used.
Resume ==
    /\ pc = "resume"
    /\ pc' = IF Loaded.st \in {"pending", "approved"} THEN "poll"
             ELSE IF code = "none" THEN "wait" ELSE "enrol"
    /\ UNCHANGED <<srv, fileVars, mem, exit, fresh, erased, events>> /\ EnrolUnchanged

\* GET /agent/join-status: approved. Linux then merges the join state it has
\* just loaded with the answer.
PollApproved ==
    /\ pc \in {"poll", "joinPoll"}
    /\ srv.status = "approved"
    /\ tok' = srv.req /\ mem' = srv.req
    /\ IF Linux
       THEN /\ fresh' = [Loaded EXCEPT !.st = "approved", !.req = srv.req]
            /\ pc' = "merge"
       ELSE /\ pc' = "beat"
            /\ UNCHANGED fresh
    /\ UNCHANGED <<srv, own, shared, exit, erased, events>> /\ EnrolUnchanged

Merge ==
    /\ pc = "merge"
    /\ SaveJoin(fresh)
    /\ fresh' = NoJoin
    /\ pc' = "beat"
    /\ UNCHANGED <<srv, tok, mem, exit, erased, events>> /\ EnrolUnchanged

\* Denied, or (401, 403, 404) no such request: only Linux, and only for a
\* resumed enrolment, clears the state.
PollRefused ==
    /\ pc \in {"poll", "joinPoll"}
    /\ srv.status \in {"none", "denied", "unlinked"}
    /\ pc' = "retry"
    /\ IF Linux /\ pc = "poll" /\ srv.status # "denied"
       THEN WipeFiles ELSE UNCHANGED fileVars
    /\ UNCHANGED <<srv, mem, exit, fresh, erased, events>> /\ EnrolUnchanged

\* Without a code in the environment: Linux watches the files for the GUI's
\* enrolment, macOS only its own environment.
WaitOver ==
    /\ pc = "wait"
    /\ Linux
    /\ tok # 0 \/ Loaded.st \in {"pending", "approved"}
    /\ pc' = "retry"
    /\ UNCHANGED <<srv, fileVars, mem, exit, fresh, erased, events>> /\ EnrolUnchanged

\* POST /agent/join-request and /agent/individual-enroll: a device the
\* backend knows as approved, or whose code needs no approval, gets its token
\* at once.
Enrol ==
    /\ pc = "enrol"
    /\ \/ /\ srv.status = "approved" \/ code = "individual"
          /\ srv' = IF srv.status = "approved" THEN srv
                    ELSE [req |-> srv.req + 1, status |-> "approved"]
          /\ tok' = srv'.req /\ mem' = srv'.req
          /\ pc' = "beat"
       \/ /\ srv.status # "approved" /\ code = "team"
          /\ srv' = [req |-> IF srv.status = "pending" THEN srv.req ELSE srv.req + 1,
                     status |-> "pending"]
          /\ pc' = "joinPoll"
          /\ UNCHANGED <<tok, mem>>
    /\ UNCHANGED <<own, shared, exit, fresh, erased, events>> /\ EnrolUnchanged

EnrolFails ==
    /\ pc = "enrol"
    /\ Event
    /\ pc' = "retry"
    /\ UNCHANGED <<srv, fileVars, mem, exit, fresh, erased>> /\ EnrolUnchanged

Retry ==
    /\ pc = "retry" /\ ~stopping
    /\ pc' = "auth"
    /\ UNCHANGED <<srv, fileVars, mem, exit, fresh, erased, events>> /\ EnrolUnchanged

Authenticate ==
    \/ AuthValid \/ AuthUnlinked \/ AuthRejected \/ NoToken \/ Resume
    \/ PollApproved \/ Merge \/ PollRefused \/ WaitOver \/ Enrol \/ EnrolFails \/ Retry

-----------------------------------------------------------------------------
(* run: the first heartbeat, the claim and the initial scan                *)

RunUnchanged == UNCHANGED <<platform, code, limit, srv, stopping, installed, erased>>

\* The heartbeat after authentication. Only Linux handles "404": the main
\* thread wipes the state and ends the process with exit code 0.
FirstBeat ==
    /\ pc = "beat"
    /\ IF Linux /\ srv.status # "approved"
       THEN /\ WipeFiles
            /\ pc' = "off" /\ exit' = "clean"
            /\ Reset
       ELSE /\ pc' = "claim" /\ mon' = "run"
            /\ UNCHANGED <<fileVars, mem, scanner, exit, enrolVars, scanVars, uploadVars>>
    /\ UNCHANGED <<platform, code, limit, srv, stored, delivered, installed, erased, events>>
    /\ pc' # "off" => UNCHANGED stopping

BeatUnanswered ==
    /\ pc = "beat"
    /\ Event
    /\ pc' = "claim" /\ mon' = "run"
    /\ UNCHANGED <<stored, delivered, fileVars, mem, scanner, exit, enrolVars, scanVars,
                   uploadVars>> /\ RunUnchanged

\* _claim_approval_sync: not when this request's sync is complete, nor when
\* one is in progress, be it a dead process's.
Claimable(j) == /\ j.st = "approved"
                /\ j.sync # "in_progress"
                /\ ~(j.sync = "complete" /\ j.syncReq = (IF j.req # 0 THEN j.req ELSE j.syncReq))

Claim ==
    /\ pc = "claim"
    /\ claimed' = Claimable(Loaded)
    /\ IF claimed'
       THEN SaveJoin([Loaded EXCEPT !.sync = "in_progress",
                                    !.syncReq = IF Loaded.req # 0 THEN Loaded.req
                                                ELSE Loaded.syncReq])
       ELSE UNCHANGED <<own, shared>>
    /\ pc' = "scan"
    /\ UNCHANGED <<stored, delivered, tok, mem, mon, scanner, exit, fresh, scanVars,
                   uploadVars, events>> /\ RunUnchanged

\* Mutant: the upload's outcome is ignored.
FinishBlindly(ok) ==
    IF Loaded.st = "approved"
    THEN SaveJoin([Loaded EXCEPT !.sync = "complete"])
    ELSE UNCHANGED <<own, shared>>

\* _finish_approval_sync
Finish(ok) ==
    IF Loaded.st = "approved"
    THEN SaveJoin([Loaded EXCEPT !.sync = IF ok THEN "complete" ELSE "failed"])
    ELSE UNCHANGED <<own, shared>>

\* The scan thread collects layer 0 first and walks the disk then.
ScanStart ==
    /\ pc = "scan"
    /\ scanner' = "running" /\ scan' = installed
    /\ pc' = "scanWait"
    /\ UNCHANGED <<stored, delivered, fileVars, mem, mon, exit, enrolVars, snap,
                   uploadVars, events>> /\ RunUnchanged

\* Only at its end the scan replaces the snapshot.
ScanEnd ==
    /\ scanner = "running"
    /\ scanner' = "done"
    /\ snap' = scan \cap Packages
    /\ UNCHANGED <<stored, delivered, fileVars, mem, pc, mon, exit, enrolVars, scan,
                   uploadVars, events>> /\ RunUnchanged

ScanError ==
    /\ scanner = "running"
    /\ Event
    /\ scanner' = "error"
    /\ UNCHANGED <<stored, delivered, fileVars, mem, pc, mon, exit, enrolVars, scanVars,
                   uploadVars>> /\ RunUnchanged

\* In time and without error: the complete inventory is sent.
ScanSeen ==
    /\ pc = "scanWait" /\ scanner = "done"
    /\ full' = Upload("main", scan, FALSE)
    /\ pc' = "upload"
    /\ UNCHANGED <<stored, delivered, fileVars, mem, mon, scanner, exit, enrolVars, scanVars,
                   pend, outbox, events>> /\ RunUnchanged

\* Else layer 0 alone. Linux waits 90 seconds for the scan, macOS for ever.
Fallback ==
    /\ pc = "scanWait"
    /\ \/ scanner = "error" /\ UNCHANGED events
       \/ Linux /\ scanner = "running" /\ Event
    /\ full' = Upload("main", installed \cap Packages, TRUE)
    /\ pc' = "upload"
    /\ UNCHANGED <<stored, delivered, fileVars, mem, mon, scanner, exit, enrolVars, scanVars,
                   pend, outbox>> /\ RunUnchanged

\* Collecting layer 0 raises, too: nothing is sent, and a claim stays in
\* progress for good.
FallbackFails ==
    /\ pc = "scanWait" /\ scanner = "error"
    /\ Event
    /\ pc' = "settle"
    /\ UNCHANGED <<stored, delivered, fileVars, mem, mon, scanner, exit, enrolVars, scanVars,
                   uploadVars>> /\ RunUnchanged

\* _sync_full_with_retry has returned. macOS keeps a complete inventory that
\* was not acknowledged; Linux seeds the snapshot with its fallback.
UploadOver ==
    /\ pc = "upload" /\ full.phase \in {"ok", "failed"}
    /\ pend' = IF Linux \/ full.fallback THEN pend
               ELSE IF full.phase = "ok" THEN NothingPending
               ELSE [on |-> TRUE, items |-> full.items, approval |-> claimed]
    /\ snap' = IF Linux /\ full.fallback THEN snap \cup full.items ELSE snap
    /\ pc' = IF full.phase = "ok" /\ ~full.fallback THEN "finishOk" ELSE "finishFailed"
    /\ full' = NoUpload
    /\ UNCHANGED <<stored, delivered, fileVars, mem, mon, scanner, exit, enrolVars, scan,
                   outbox, events>> /\ RunUnchanged

FinishInitial ==
    /\ pc \in {"finishOk", "finishFailed"}
    /\ IF claimed THEN Finish(pc = "finishOk") ELSE UNCHANGED <<own, shared>>
    /\ pc' = "settle"
    /\ UNCHANGED <<stored, delivered, tok, mem, mon, scanner, exit, enrolVars, scanVars,
                   uploadVars, events>> /\ RunUnchanged

\* The periodic scans and the OTA monitor start after the initial scan.
Settle ==
    /\ pc = "settle" /\ scanner # "running"
    /\ scanner' = "idle" /\ scan' = {}
    /\ pc' = "running"
    /\ UNCHANGED <<stored, delivered, fileVars, mem, mon, exit, enrolVars, snap,
                   uploadVars, events>> /\ RunUnchanged

RunInitial == FirstBeat \/ BeatUnanswered \/ Claim \/ ScanStart \/ ScanSeen \/ Fallback
              \/ FallbackFails \/ UploadOver \/ FinishInitial \/ Settle

-----------------------------------------------------------------------------
(* _sync_full_with_retry and _sync_complete_inventory                      *)

\* Mutant: the scope is dropped.
ReplacedAlways(items) == items

\* The full request replaces the inventory, unless it says it is partial.
\* Linux never says so: its _sync_full_with_retry ignores inventory_scope.
Replaced(items) == IF full.fallback /\ ~Linux THEN stored \cup items ELSE items

AttemptFails == full' = [full EXCEPT !.phase = "pause", !.left = @ - 1, !.rest = {}]
AttemptSucceeds == /\ full' = [full EXCEPT !.phase = "ok", !.rest = {}]
                   /\ delivered' = IF full.fallback THEN delivered
                                   ELSE delivered \cup {mem}

UploadUnchanged == UNCHANGED <<fileVars, mem, pc, mon, scanner, exit, enrolVars, scanVars,
                               pend, outbox>> /\ RunUnchanged

\* One of the attempts starts, unless the agent stops. Linux sends a large
\* inventory in pieces at once and an empty one never.
Attempt ==
    /\ full.phase = "pause"
    /\ full' = IF stopping \/ full.left = 0 THEN [full EXCEPT !.phase = "failed"]
               ELSE IF Linux /\ full.items = {} THEN [full EXCEPT !.left = @ - 1]
               ELSE IF Linux /\ Cardinality(full.items) > Chunk
               THEN [full EXCEPT !.phase = "first", !.rest = full.items]
               ELSE [full EXCEPT !.phase = "whole"]
    /\ UNCHANGED <<stored, delivered, events>> /\ UploadUnchanged

SendWhole ==
    /\ full.phase = "whole"
    /\ IF ~Accepted THEN AttemptFails /\ UNCHANGED <<stored, delivered>>
       ELSE IF Cardinality(full.items) > limit
       THEN /\ full' = [full EXCEPT !.phase = "first", !.rest = full.items]
            /\ UNCHANGED <<stored, delivered>>
       ELSE AttemptSucceeds /\ stored' = Replaced(full.items)
    /\ UNCHANGED events /\ UploadUnchanged

\* No answer: the backend may have applied it. Linux takes status 0 for a
\* request that was too large.
WholeUnanswered ==
    /\ full.phase = "whole"
    /\ Event
    /\ IF Linux THEN full' = [full EXCEPT !.phase = "first", !.rest = full.items]
                ELSE AttemptFails
    /\ \/ Accepted /\ Cardinality(full.items) <= limit /\ stored' = Replaced(full.items)
       \/ UNCHANGED stored
    /\ UNCHANGED delivered /\ UploadUnchanged

\* The first piece replaces the inventory, the rest follows as deltas.
Pieces == IF Cardinality(full.rest) <= limit THEN {full.rest}
          ELSE {p \in SUBSET full.rest : Cardinality(p) = limit}

SendPiece ==
    /\ full.phase \in {"first", "rest"}
    /\ IF ~Accepted THEN AttemptFails /\ UNCHANGED <<stored, delivered>>
       ELSE \E p \in Pieces :
              /\ stored' = IF full.phase = "first" THEN Replaced(p) ELSE stored \cup p
              /\ IF p = full.rest THEN AttemptSucceeds
                 ELSE /\ full' = [full EXCEPT !.phase = "rest", !.rest = @ \ p]
                      /\ UNCHANGED delivered
    /\ UNCHANGED events /\ UploadUnchanged

PieceUnanswered ==
    /\ full.phase \in {"first", "rest"}
    /\ Event
    /\ AttemptFails
    /\ \/ /\ Accepted
          /\ \E p \in Pieces :
                stored' = IF full.phase = "first" THEN Replaced(p) ELSE stored \cup p
       \/ UNCHANGED stored
    /\ UNCHANGED delivered /\ UploadUnchanged

Uploading == Attempt \/ SendWhole \/ WholeUnanswered \/ SendPiece \/ PieceUnanswered

-----------------------------------------------------------------------------
(* _monitor_loop                                                           *)

MonitorUnchanged == UNCHANGED <<platform, code, limit, srv, delivered, pc, scanner, exit,
                                stopping, enrolVars, installed, scan, erased>>

\* Mutant: a delta does not wait for the upload.
Unlocked == FALSE

\* _inventory_sync_lock of macOS: held while an attempt is under way.
Locked == ~Linux /\ full.phase \in {"whole", "first", "rest"}

\* macOS: the complete inventory of the initial scan is sent again.
MonitorRetries ==
    /\ mon = "run" /\ pend.on /\ full.phase = "off" /\ ~stopping
    /\ full' = Upload("monitor", pend.items, FALSE)
    /\ mon' = "retry"
    /\ UNCHANGED <<stored, fileVars, mem, snap, pend, outbox, events>> /\ MonitorUnchanged

MonitorRetried ==
    /\ mon = "retry" /\ full.phase \in {"ok", "failed"}
    /\ full' = NoUpload
    /\ mon' = "run"
    /\ IF full.phase = "ok"
       THEN /\ pend' = NothingPending
            /\ IF pend.approval THEN Finish(TRUE) ELSE UNCHANGED <<own, shared>>
       ELSE UNCHANGED <<pend, own, shared>>
    /\ UNCHANGED <<stored, tok, mem, snap, outbox, events>> /\ MonitorUnchanged

\* _heartbeat and _handle_unlinked: sys.exit ends the monitor thread only.
MonitorUnlinked ==
    /\ mon = "run" /\ Linux /\ srv.status # "approved" /\ ~stopping
    /\ WipeFiles
    /\ mem' = 0
    /\ mon' = "dead"
    /\ UNCHANGED <<stored, snap, uploadVars, events>> /\ MonitorUnchanged

\* run_registry_delta: new packages enter the snapshot, removed ones stay.
MonitorScans ==
    /\ mon = "run" /\ ~stopping
    /\ LET now == installed \cap Packages
       IN  /\ outbox' = [add |-> now \ snap, del |-> snap \ now]
           /\ snap' = snap \cup now
    /\ outbox' # NoDelta
    /\ mon' = "send"
    /\ UNCHANGED <<stored, fileVars, mem, full, pend, events>> /\ MonitorUnchanged

\* _sync_delta: whatever comes of it, the delta is forgotten.
MonitorSends ==
    /\ mon = "send" /\ ~Locked
    /\ \/ /\ stored' = IF Accepted THEN (stored \ outbox.del) \cup outbox.add ELSE stored
          /\ UNCHANGED events
       \/ /\ Event
          /\ UNCHANGED stored
    /\ outbox' = NoDelta
    /\ mon' = "run"
    /\ UNCHANGED <<fileVars, mem, snap, full, pend>> /\ MonitorUnchanged

Monitor == MonitorRetries \/ MonitorRetried \/ MonitorUnlinked \/ MonitorScans \/ MonitorSends

-----------------------------------------------------------------------------
Scanner == ScanEnd \/ ScanError

Next == Outside \/ Crash \/ Respawn \/ StartAgain \/ Leave \/ Authenticate \/ RunInitial
        \/ Uploading \/ Scanner \/ Monitor

\* The threads go on, a service manager does its work; the administrator, the
\* user and the network need not.
Fairness == /\ WF_vars(Authenticate) /\ WF_vars(RunInitial) /\ WF_vars(Uploading)
            /\ WF_vars(Scanner) /\ WF_vars(Monitor)
            /\ WF_vars(Leave) /\ WF_vars(Respawn)

Spec == Init /\ [][Next]_vars /\ Fairness

-----------------------------------------------------------------------------
TypeOK ==
    /\ platform \in {"linux", "macos"} /\ code \in {"none", "team", "individual"}
    /\ limit \in 1..Cardinality(Items)
    /\ srv \in [req : Req, status : {"none", "pending", "approved", "denied", "unlinked"}]
    /\ {stored, installed, scan} \subseteq SUBSET Items /\ snap \subseteq Packages
    /\ delivered \subseteq Req
    /\ {own, shared, fresh} \subseteq Join /\ {tok, mem} \subseteq Req
    /\ pc \in {"off", "auth", "resume", "poll", "merge", "wait", "enrol", "joinPoll", "retry",
               "beat", "claim", "scan", "scanWait", "upload", "finishOk", "finishFailed",
               "settle", "running"}
    /\ mon \in {"off", "run", "retry", "send", "dead"}
    /\ scanner \in {"idle", "running", "done", "error"}
    /\ exit \in {"none", "clean", "failure"}
    /\ {stopping, claimed} \subseteq BOOLEAN
    /\ full \in [phase : {"off", "pause", "whole", "first", "rest", "ok", "failed"},
                 by : {"main", "monitor"}, left : 0..Attempts, items : SUBSET Items,
                 rest : SUBSET Items, fallback : BOOLEAN]
    /\ pend \in [on : BOOLEAN, items : SUBSET Items, approval : BOOLEAN]
    /\ outbox \in [add : SUBSET Packages, del : SUBSET Packages]
    /\ erased \in Req /\ events \in 0..MaxEvents

-----------------------------------------------------------------------------
(* Properties                                                              *)

\* A join state that the daemon would not claim again because its sync is
\* complete speaks the truth: a complete inventory was acknowledged under that
\* request or a later enrolment, whatever the monitor's retry, the GUI and
\* restarts did meanwhile.
CompleteMeansAcknowledged ==
    Loaded.sync = "complete" /\ Loaded.syncReq # 0 =>
        \E r \in delivered : r >= Loaded.syncReq

\* macOS: while a complete inventory is sent in pieces, nothing else changes
\* what the backend holds, so the last piece leaves exactly the scanned items
\* there (_inventory_sync_lock). Linux has no such lock.
PiecesMakeTheWhole ==
    [][~Linux /\ full.phase = "rest" /\ full'.phase = "ok" /\ ~full.fallback
         => stored' = full.items]_vars

\* macOS: the partial inventory of a failed scan takes nothing away from what
\* the backend holds, in one request or in several.
PartialKeepsTheRest ==
    [][Locked /\ full.fallback => stored \subseteq stored']_vars

\* A device whose approved enrolment is on disk when the daemon authenticates
\* gets its token, through denied polls, lost answers and a restart of the
\* process, unless the enrolment is taken back or the agent stopped. On macOS
\* a daemon that already waits for a code in its environment never looks, nor
\* does one that found neither token nor join state and is about to wait. The
\* exception the code makes, on both: the GUI's individual enrolment leaves a
\* token only, an unanswered request at the daemon's start erases it, and
\* without a join state or a code the daemon waits, though approved, until the
\* GUI writes the token again.
Seeking == {"auth", "resume", "poll", "joinPoll", "retry"}
               \cup (IF Linux THEN {"wait"} ELSE {})
EnrolmentReachesDaemon ==
    /\ pc \in Seeking
    /\ srv.status = "approved"
    /\ \/ Loaded.st \in {"pending", "approved"}
       \/ tok = srv.req /\ (Linux \/ pc # "resume")
    ~> mem = srv.req \/ srv.status # "approved" \/ pc = "off" \/ erased = srv.req
=============================================================================
