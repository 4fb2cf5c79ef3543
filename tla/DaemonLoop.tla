----------------------------- MODULE DaemonLoop -----------------------------
(***************************************************************************)
(* The daemon's main loop (main_agent, src/sentinel_agent.py) and the      *)
(* threads that share its ZeroWatchClient: the pre-scan heartbeat, the     *)
(* change monitor, the workers of the initial and the post-enrolment scan. *)
(* Every answer of the backend, to whichever thread, sets                  *)
(* last_server_status and the license flag of the one client; the main     *)
(* loop reads both before and after its heartbeat and decides whether to   *)
(* scan again, to count an authentication failure, or to wipe the          *)
(* enrolment.                                                              *)
(*                                                                         *)
(* The join state, the unlink signal and the GUI's half of the enrolment   *)
(* are in Enrollment, the queue file in OfflineQueue, what a scan finds in *)
(* InventoryScan. Here the token file is there or not, the queue holds a   *)
(* useful complete snapshot or not, the backend lacks something or not.    *)
(***************************************************************************)
EXTENDS Integers, FiniteSets

CONSTANTS
    Post,           \* workers of the post-enrolment scan that may run at a time
    MaxChanges      \* bound on changes of the backend, shutdown requests, restarts

ASSUME BoundAssumption == MaxChanges \in Nat

VARIABLES
    backend,        \* how the backend answers this device
    limited,        \* a proxy in between answers 413 to a complete inventory
    changes,        \* changes of the backend, shutdown requests and restarts so far
    missing,        \* the backend's inventory lacks something
    tok,            \* the token file exists
    marker,         \* approval_sync_complete: what the join-state file says
    signal,         \* shutdown.signal exists
    jwt,            \* zw_client.jwt
    license,        \* zw_client.license_active
    status,         \* zw_client.last_server_status
    latch,          \* zw_client.auth_failure_count
    queued,         \* the queue holds a complete inventory that lacks nothing
    main,           \* where the main thread is
    was,            \* license_was_active
    result,         \* result of the heartbeat
    work,           \* where each worker is
    covers,         \* workers whose collected inventory lacks nothing
    rejections,     \* history: 401 and 403 answers since the latch was reset
    healed,         \* history: a heartbeat succeeded since the latch left 0
    eaten,          \* history: a shutdown signal was removed and not obeyed
    excuse          \* history: the ways in which an inventory was given up

serverVars == <<backend, limited, changes>>
clientVars == <<jwt, license, status>>
beatVars == <<was, result>>
workVars == <<work, covers>>
signalVars == <<signal, eaten>>
fileVars == <<tok, marker>>
vars == <<serverVars, missing, fileVars, signalVars, clientVars, latch, queued, main,
          beatVars, workVars, rejections, healed, excuse>>

-----------------------------------------------------------------------------
(* Answers, and what hearing one does to the client                        *)

Backend == {"ok", "down", "error", "refuse", "reject", "forbidden", "expired",
            "unlinked"}
Status == {"401", "403", "413", "other"}
Excuse == {"overheard", "overwritten", "cut", "oversized", "overtaken", "marked"}
Worker == {"initial"} \union Post
MainStep == {"enrol", "wait", "retry", "first", "baseline", "sleep", "body",
             "reload", "flush", "connect", "beat", "handle", "relink", "relatch",
             "rescan", "stopped"}
WorkStep == {"idle", "collect", "upload", "large", "first", "rest", "finish", "done"}

Reply(s, lic) == [status |-> s, license |-> lic]

Answered == backend # "down"

\* The backend's answer; an answer of the proxy carries no license field.
Answer(big) ==
    CASE big /\ limited -> Reply("413", "silent")
      [] backend = "reject" -> Reply("401", "silent")
      [] backend = "forbidden" -> Reply("403", "silent")
      [] backend = "expired" -> Reply("403", "inactive")
      [] backend = "ok" -> Reply("other", "active")
      [] OTHER -> Reply("other", "silent")

Unlinked(big) == backend = "unlinked" /\ ~(big /\ limited)
Accepted(big) == backend = "ok" /\ ~(big /\ limited)

\* The license flag once answer r has been parsed
\* (_extract_license_status, _apply_license_status).
LicenseAfter(r) == (license /\ r.license # "inactive") \/ r.license = "active"

\* A rejection counts, whoever receives it.
Counted(r) == IF r.status \in {"401", "403"} /\ rejections < 3
              THEN rejections + 1 ELSE rejections

\* The license comes back in this step and no heartbeat that began without it
\* is under way: the main loop, which compares the flag before and after its
\* heartbeat, cannot tell.
Overheard == IF ~license /\ license' /\ jwt' /\ ~(main = "beat" /\ ~was)
             THEN {"overheard"} ELSE {}

\* clear_local_state: token, queue and every other state file are removed,
\* a shutdown signal among them; the client forgets.
Wipe ==
    /\ jwt' = FALSE /\ license' = TRUE /\ status' = "other"
    /\ tok' = FALSE /\ marker' = FALSE /\ queued' = FALSE
    /\ missing' = TRUE /\ covers' = {}
    /\ signal' = FALSE /\ eaten' = (eaten \/ signal)

\* What is in the inventories under way and in the queue no longer suffices.
Drop == missing' = TRUE /\ covers' = {} /\ queued' = FALSE
Keep == UNCHANGED <<missing, covers, queued>>

\* A partial inventory replaces what the backend had, and is newer than an
\* inventory still queued.
Partial == /\ missing' = TRUE /\ queued' = FALSE
           /\ covers' = {w \in covers : work[w] # "rest"}

\* The client hears the answer to a request that is not an unlink
\* (_parse_server_payload).
Hear(big) ==
    /\ ~Unlinked(big)
    /\ LET r == Answer(big)
       IN  /\ status' = IF Answered THEN r.status ELSE status
           /\ license' = IF Answered THEN LicenseAfter(r) ELSE license
           /\ rejections' = IF Answered THEN Counted(r) ELSE rejections
    /\ UNCHANGED <<jwt, fileVars, signal, eaten>>

\* _handle_unlinked_response, which every request ends in
HearUnlinked(big) == Unlinked(big) /\ Wipe /\ UNCHANGED rejections

Forget == was' = TRUE /\ result' = "none"

\* What a request without inventory ends in, for the shared state.
Chat == \/ Hear(FALSE) /\ Keep
        \/ HearUnlinked(FALSE)

\* sync_full with the Layer 0 software, at once after an enrolment.
Baseline ==
    \/ ~jwt /\ Keep /\ UNCHANGED <<clientVars, fileVars, signal, eaten, rejections>>
    \/ jwt /\ HearUnlinked(FALSE)
    \/ jwt /\ Hear(FALSE) /\ IF Accepted(FALSE) THEN Partial ELSE Keep

Alive == main # "stopped"

\* The threads start with the main loop's start-up: the pre-scan heartbeat
\* beside the baseline, the monitor once the initial scan is over.
Init ==
    /\ backend \in {"ok", "down"} /\ limited \in BOOLEAN /\ changes = 0
    /\ tok \in BOOLEAN /\ jwt = tok
    /\ missing \in BOOLEAN /\ marker \in BOOLEAN /\ (~tok => missing /\ ~marker)
    /\ signal = FALSE /\ eaten = FALSE
    /\ license = TRUE /\ status = "other" /\ latch = 0
    /\ queued = FALSE
    /\ main = "enrol" /\ was = TRUE /\ result = "none"
    /\ work = [w \in Worker |-> "idle"] /\ covers = {}
    /\ rejections = 0 /\ healed = FALSE /\ excuse = {}

-----------------------------------------------------------------------------
(* The world                                                               *)

BackendChange ==
    /\ changes < MaxChanges
    /\ changes' = changes + 1
    /\ backend' \in Backend \ {backend}
    /\ UNCHANGED <<limited, missing, fileVars, signalVars, clientVars, latch, queued,
                   main, beatVars, workVars, rejections, healed, excuse>>

\* The user enrols the device again; the GUI saves the token.
Enroll ==
    /\ ~tok
    /\ tok' = TRUE
    /\ UNCHANGED <<serverVars, missing, marker, signalVars, clientVars, latch, queued,
                   main, beatVars, workVars, rejections, healed, excuse>>

\* request_shutdown_signal: disable, uninstall.
RequestShutdown ==
    /\ changes < MaxChanges
    /\ changes' = changes + 1
    /\ signal' = TRUE
    /\ UNCHANGED <<backend, limited, missing, fileVars, eaten, clientVars, latch, queued,
                   main, beatVars, workVars, rejections, healed, excuse>>

\* main() of any process of the agent removes a leftover signal when it starts.
OtherConsumes ==
    /\ signal /\ Alive
    /\ signal' = FALSE /\ eaten' = TRUE
    /\ UNCHANGED <<serverVars, missing, fileVars, clientVars, latch, queued,
                   main, beatVars, workVars, rejections, healed, excuse>>

\* The daemon ends, wherever it is, and is started again: the files are what it
\* left, and main() removes a signal that is still there.
Restart ==
    /\ changes < MaxChanges
    /\ changes' = changes + 1
    /\ jwt' = tok /\ license' = TRUE /\ status' = "other" /\ latch' = 0
    /\ signal' = FALSE /\ eaten' = (eaten \/ signal)
    /\ main' = "enrol" /\ Forget
    /\ work' = [w \in Worker |-> "idle"] /\ covers' = {}
    /\ rejections' = 0 /\ healed' = FALSE
    /\ UNCHANGED <<backend, limited, missing, fileVars, queued, excuse>>

-----------------------------------------------------------------------------
(* The main thread: start-up                                               *)

\* What the steps of the main thread that send nothing leave alone.
Quiet == UNCHANGED <<serverVars, missing, fileVars, clientVars, queued, workVars, excuse>>

\* consume_shutdown_signal
Consume == signal /\ signal' = FALSE
NoSignal == ~signal /\ UNCHANGED <<signal>>

\* The loop around _wait_for_enrollment: a signal ends it, and without a
\* token main_agent then returns.
EnrolStart ==
    /\ main = "enrol"
    /\ \/ jwt /\ main' = "first" /\ UNCHANGED signal
       \/ ~jwt /\ Consume /\ main' = "stopped"
       \/ ~jwt /\ NoSignal /\ main' = "wait"
    /\ Quiet /\ UNCHANGED <<eaten, latch, beatVars, rejections, healed>>

\* _wait_for_enrollment takes the signal and returns FALSE; its caller does
\* not know why and tries again.
WaitSignal ==
    /\ main = "wait"
    /\ Consume /\ eaten' = TRUE
    /\ main' = "retry"
    /\ Quiet /\ UNCHANGED <<latch, beatVars, rejections, healed>>

\* One turn of the wait: the token file is read again.
WaitLoad ==
    /\ main = "wait" /\ NoSignal
    /\ tok /\ jwt' = TRUE
    /\ main' = "first"
    /\ UNCHANGED <<serverVars, missing, fileVars, eaten, license, status,
                   queued, workVars, excuse, latch, beatVars, rejections, healed>>

Retry ==
    /\ main = "retry"
    /\ main' = "enrol"
    /\ Quiet /\ UNCHANGED <<signal, eaten, latch, beatVars, rejections, healed>>

\* The immediate heartbeat, whose result is only logged.
FirstHeartbeat ==
    /\ main = "first"
    /\ Chat
    /\ main' = "baseline"
    /\ UNCHANGED <<serverVars, latch, beatVars, work, healed, excuse>>

\* The baseline and the initial scan, unless the join state says the approval
\* is synced already: then nothing is sent, whatever the backend lacks.
Startup ==
    /\ main = "baseline"
    /\ IF marker
       THEN /\ work' = [work EXCEPT !["initial"] = "done"]
            /\ excuse' = IF missing THEN excuse \union {"marked"} ELSE excuse
            /\ Keep /\ UNCHANGED <<clientVars, fileVars, signal, eaten, rejections>>
       ELSE /\ Baseline
            /\ work' = [work EXCEPT !["initial"] = "collect"]
            /\ excuse' = Overheard
    /\ main' = "sleep"
    /\ UNCHANGED <<serverVars, latch, beatVars, healed>>

-----------------------------------------------------------------------------
(* The main thread: one turn of the loop                                   *)

\* The signal is polled at the top of the turn and every two seconds of the
\* sleep that follows.
LoopSignal ==
    /\ main = "sleep"
    /\ Consume
    /\ main' = "stopped"
    /\ Quiet /\ UNCHANGED <<eaten, latch, beatVars, rejections, healed>>

LoopSleep ==
    /\ main = "sleep" /\ NoSignal
    /\ main' = "body"
    /\ Quiet /\ UNCHANGED <<eaten, latch, beatVars, rejections, healed>>

\* Without a token in memory the file is read; a new one means a new
\* enrolment. Otherwise the turn goes on with the queue and the heartbeat.
Reload ==
    /\ main = "body"
    /\ jwt' = (jwt \/ tok)
    /\ main' = CASE jwt -> "flush" [] ~jwt /\ tok -> "reload" [] OTHER -> "sleep"
    /\ UNCHANGED <<serverVars, missing, fileVars, signalVars, license, status, latch,
                   queued, beatVars, workVars, rejections, healed, excuse>>

\* The head of the queue is sent; a complete inventory among it arrives.
FlushSends ==
    \/ HearUnlinked(FALSE)
    \/ Hear(queued) /\ missing' = (missing /\ ~(queued /\ Accepted(TRUE)))
                    /\ queued' = (queued /\ ~Accepted(TRUE))
                    /\ UNCHANGED covers

\* check_backend_connectivity and flush_offline_queue; a pass may find nothing
\* that is due, unless an inventory is waiting.
Flush ==
    /\ main = "flush"
    /\ \/ jwt /\ license /\ Answered /\ FlushSends
       \/ /\ ~(jwt /\ license /\ Answered /\ queued)
          /\ Keep /\ UNCHANGED <<clientVars, fileVars, signal, eaten, rejections>>
    /\ main' = "connect"
    /\ excuse' = IF missing /\ ~missing' THEN {} ELSE excuse \union Overheard
    /\ UNCHANGED <<serverVars, latch, beatVars, work, healed>>

HeartbeatStart ==
    /\ main = "connect"
    /\ was' = license
    /\ main' = "beat"
    /\ Quiet /\ UNCHANGED <<signal, eaten, latch, result, rejections, healed>>

\* heartbeat
HeartbeatAnswer ==
    /\ main = "beat"
    /\ \/ /\ ~jwt /\ result' = "false"
          /\ Keep /\ UNCHANGED <<clientVars, fileVars, signal, eaten, rejections>>
       \/ jwt /\ HearUnlinked(FALSE) /\ result' = "unlinked"
       \/ /\ jwt /\ Hear(FALSE) /\ Keep
          /\ result' = CASE backend \in {"down", "error"} -> "none"
                         [] backend = "ok" -> "true"
                         [] OTHER -> "false"
    /\ main' = "handle"
    /\ excuse' = excuse \union Overheard
    /\ UNCHANGED <<serverVars, latch, was, work, healed>>

-----------------------------------------------------------------------------
(* The main thread: what the heartbeat's result leads to                   *)

Renewed == ~was /\ license
Lapsed == was /\ ~license
\* Mutant: any failure is taken for a rejection.
RejectedAny == result = "false"

Rejected == result = "false" /\ status \in {"401", "403"}

\* Offline, or the license just lapsed, or nothing to do.
HandleQuiet ==
    /\ main = "handle"
    /\ \/ result = "none"
       \/ Lapsed
       \/ ~Renewed /\ result = "true"
       \/ ~Renewed /\ result = "false" /\ ~Rejected
    /\ healed' = (healed \/ (result = "true" /\ latch > 0))
    /\ excuse' = IF result = "none" /\ Renewed
                 THEN excuse \union {"overheard"} ELSE excuse
    /\ main' = "sleep" /\ Forget
    /\ UNCHANGED <<serverVars, missing, fileVars, signalVars, clientVars, latch, queued,
                   workVars, rejections>>

\* Mutant: a renewed license resumes the heartbeats and nothing else.
HandleRenewedOnly ==
    /\ main = "handle" /\ result # "none" /\ Renewed
    /\ healed' = (healed \/ (result = "true" /\ latch > 0))
    /\ main' = "sleep" /\ Forget
    /\ Quiet /\ UNCHANGED <<signal, eaten, latch, rejections>>

\* The license is back: scan again.
HandleRenewed ==
    /\ main = "handle" /\ result # "none" /\ Renewed
    /\ healed' = (healed \/ (result = "true" /\ latch > 0))
    /\ main' = "rescan" /\ Forget
    /\ Quiet /\ UNCHANGED <<signal, eaten, latch, rejections>>

\* The device was unlinked: wipe once more and wait for a new enrolment.
HandleUnlinked ==
    /\ main = "handle" /\ result = "unlinked" /\ ~Renewed /\ ~Lapsed
    /\ Wipe
    /\ main' = "relink" /\ Forget
    /\ UNCHANGED <<serverVars, latch, work, rejections, healed, excuse>>

\* A rejection while the license is known to be inactive keeps the enrolment.
HandleLicense ==
    /\ main = "handle" /\ Rejected /\ ~Renewed /\ ~Lapsed
    /\ status = "403" /\ ~license
    /\ latch' = 0 /\ rejections' = 0 /\ healed' = FALSE
    /\ main' = "sleep" /\ Forget
    /\ Quiet /\ UNCHANGED <<signal, eaten>>

\* The safety latch counts a rejection; at the limit it wipes.
CountRejection(limit) ==
    /\ main = "handle" /\ Rejected /\ ~Renewed /\ ~Lapsed
    /\ ~(status = "403" /\ ~license)
    /\ latch' = latch + 1
    /\ IF latch' >= limit
       THEN Wipe /\ main' = "relatch"
       ELSE /\ main' = "sleep" /\ Keep
            /\ UNCHANGED <<clientVars, fileVars, signal, eaten>>
    /\ Forget
    /\ UNCHANGED <<serverVars, work, rejections, healed, excuse>>

\* Mutant: the comparison is off by one.
HandleRejectedLate == CountRejection(4)

\* Any other rejection; the third one wipes.
HandleRejected == CountRejection(3)

\* Mutant: the wait in the loop takes the signal and goes on waiting.
RelinkSignalIgnored ==
    /\ main \in {"relink", "relatch"}
    /\ Consume
    /\ Quiet /\ UNCHANGED <<main, eaten, latch, beatVars, rejections, healed>>

\* _wait_for_enrollment from the loop: here a signal does stop the daemon.
RelinkSignal ==
    /\ main \in {"relink", "relatch"}
    /\ Consume
    /\ main' = "stopped"
    /\ Quiet /\ UNCHANGED <<eaten, latch, beatVars, rejections, healed>>

RelinkLoad ==
    /\ main \in {"relink", "relatch"} /\ NoSignal
    /\ tok /\ jwt' = TRUE
    /\ IF main = "relatch" THEN latch' = 0 /\ rejections' = 0 /\ healed' = FALSE
                           ELSE UNCHANGED <<latch, rejections, healed>>
    /\ main' = "rescan"
    /\ UNCHANGED <<serverVars, missing, fileVars, eaten, license, status,
                   queued, beatVars, workVars, excuse>>

\* _run_post_enrollment_scan: the baseline, then a worker of its own.
Rescan ==
    /\ main \in {"rescan", "reload"}
    /\ \E w \in Post :
          /\ work[w] = "idle"
          /\ work' = [work EXCEPT ![w] = "collect"]
    /\ Baseline
    /\ main' = IF main = "rescan" THEN "sleep" ELSE "flush"
    /\ excuse' = excuse \union Overheard
    /\ UNCHANGED <<serverVars, latch, beatVars, healed>>

-----------------------------------------------------------------------------
(* The other threads                                                       *)

Running == main \notin {"enrol", "wait", "retry", "first", "stopped"}
Looping == Running /\ main # "baseline"

\* What a request of another thread leaves alone.
OtherThread == UNCHANGED <<serverVars, latch, main, beatVars, healed>>

\* The pre-scan heartbeat beside the baseline, and log_event in any thread.
PreScanHeartbeat ==
    /\ main = "baseline" /\ jwt
    /\ Chat
    /\ excuse' = excuse \union Overheard
    /\ OtherThread /\ UNCHANGED work

LogEvent ==
    /\ Looping /\ jwt /\ license
    /\ Chat
    /\ OtherThread /\ UNCHANGED <<work, excuse>>

\* monitor_system_changes: a delta is sent, queued or dropped; nobody keeps a
\* delta that was dropped.
MonitorReport ==
    /\ Looping /\ work["initial"] = "done"
    /\ \/ ~jwt /\ Drop /\ UNCHANGED <<clientVars, fileVars, signal, eaten, rejections>>
       \/ jwt /\ HearUnlinked(FALSE)
       \/ /\ jwt /\ Hear(FALSE)
          /\ IF ~Answered \/ Accepted(FALSE) \/ license' THEN Keep ELSE Drop
    /\ excuse' = excuse \union Overheard
    /\ OtherThread /\ UNCHANGED work

WorkerOff(w) == IF w = "initial" THEN "done" ELSE "idle"
Synced(w) == IF w = "initial" THEN "finish" ELSE "idle"
Step(w, here, there) == work[w] = here /\ work' = [work EXCEPT ![w] = there]

\* The scan itself: from here on its inventory misses what is dropped.
Collect(w) ==
    /\ Running /\ Step(w, "collect", "upload")
    /\ covers' = covers \union {w}
    /\ OtherThread
    /\ UNCHANGED <<missing, fileVars, signal, eaten, clientVars, queued, rejections, excuse>>

\* The inventory of w has arrived, perhaps after a better one.
Delivered(w) ==
    /\ missing' = (w \notin covers)
    /\ covers' = covers \ {w} /\ UNCHANGED queued
    /\ excuse' = IF w \in covers THEN {}
                 ELSE excuse \union Overheard
                             \union IF missing THEN {} ELSE {"overtaken"}

\* sync_full, scope complete: without a license a refused inventory is dropped,
\* otherwise it is queued, unless it was too large.
Upload(w) ==
    /\ Running
    /\ \/ /\ Step(w, "upload", Synced(w))
          /\ jwt /\ Hear(TRUE) /\ Accepted(TRUE) /\ Delivered(w)
       \/ /\ Step(w, "upload", WorkerOff(w))
          /\ \/ /\ ~jwt
                /\ Keep /\ UNCHANGED <<clientVars, fileVars, signal, eaten, rejections, excuse>>
             \/ jwt /\ HearUnlinked(TRUE) /\ UNCHANGED excuse
             \/ /\ jwt /\ Hear(TRUE) /\ ~Accepted(TRUE) /\ ~(Answered /\ limited)
                /\ queued' = (queued \/ (w \in covers /\ (~Answered \/ license')))
                /\ covers' = covers \ {w} /\ UNCHANGED missing
                /\ excuse' = excuse \union Overheard
                     \union IF limited /\ queued' THEN {"oversized"} ELSE {}
       \/ /\ Step(w, "upload", "large")
          /\ jwt /\ Answered /\ limited /\ Hear(TRUE) /\ Keep /\ UNCHANGED excuse
    /\ OtherThread

\* sync_complete_inventory looks at the status of the shared client, which is
\* by now that of whichever request was answered last.
LargeCheck(w) ==
    /\ Running
    /\ \/ /\ status = "413" /\ Step(w, "large", "first")
          /\ UNCHANGED <<covers, excuse>>
       \/ /\ status # "413" /\ Step(w, "large", WorkerOff(w))
          /\ covers' = covers \ {w}
          /\ excuse' = excuse \union {"overwritten"}
    /\ OtherThread
    /\ UNCHANGED <<missing, fileVars, signal, eaten, clientVars, queued, rejections>>

\* The chunks: a partial inventory, then the rest as deltas. The first one
\* that is not accepted ends it, and what was to follow is in no queue.
Chunk(w) ==
    /\ Running
    /\ \/ /\ jwt /\ Hear(FALSE) /\ Accepted(FALSE)
          /\ \/ /\ Step(w, "first", "rest") /\ Partial
                /\ excuse' = excuse \union Overheard
                     \union IF covers' # covers \/ (w \notin covers /\ ~missing)
                            THEN {"overtaken"} ELSE {}
             \/ Step(w, "rest", Synced(w)) /\ Delivered(w)
       \/ /\ work[w] \in {"first", "rest"} /\ Step(w, work[w], WorkerOff(w))
          /\ \/ HearUnlinked(FALSE) /\ jwt
             \/ /\ covers' = covers \ {w} /\ UNCHANGED <<missing, queued>>
                /\ \/ jwt /\ Hear(FALSE) /\ ~Accepted(FALSE)
                   \/ ~jwt /\ UNCHANGED <<clientVars, fileVars, signal, eaten, rejections>>
          /\ excuse' = excuse \union {"cut"}
    /\ OtherThread

\* finish_approval_sync(True), when this daemon claimed the approval and the join
\* state still holds one. (After a failure the marker stays as it was: not set.)
Finish ==
    /\ Running /\ Step("initial", "finish", "done")
    /\ marker' \in {marker, tok}
    /\ OtherThread
    /\ UNCHANGED <<missing, tok, signalVars, clientVars, queued, covers, rejections, excuse>>

-----------------------------------------------------------------------------
EnrolStep == EnrolStart \/ WaitSignal \/ WaitLoad \/ Retry \/ FirstHeartbeat \/ Startup
HandleStep == HandleQuiet \/ HandleRenewed \/ HandleUnlinked \/ HandleLicense \/ HandleRejected
MainThread == \/ EnrolStep
              \/ LoopSignal \/ LoopSleep \/ Reload \/ Flush
              \/ HeartbeatStart \/ HeartbeatAnswer \/ HandleStep
              \/ RelinkSignal \/ RelinkLoad \/ Rescan
WorkThread(w) == \/ Collect(w) \/ Upload(w) \/ LargeCheck(w) \/ Chunk(w)
                 \/ w = "initial" /\ Finish

Next == \/ BackendChange \/ Enroll \/ RequestShutdown \/ OtherConsumes \/ Restart
        \/ MainThread
        \/ PreScanHeartbeat \/ LogEvent \/ MonitorReport
        \/ \E w \in Worker : WorkThread(w)

\* The threads run: none of them waits for another one, and a request ends
\* with an answer or a timeout. Nothing is assumed of user and backend.
Fairness == /\ WF_vars(MainThread)
            /\ \A w \in Worker : WF_vars(WorkThread(w))

Spec == Init /\ [][Next]_vars /\ Fairness

-----------------------------------------------------------------------------
(* Properties                                                              *)

TypeOK ==
    /\ backend \in Backend /\ limited \in BOOLEAN /\ changes \in 0..MaxChanges
    /\ missing \in BOOLEAN /\ tok \in BOOLEAN /\ marker \in BOOLEAN /\ jwt \in BOOLEAN
    /\ signal \in BOOLEAN /\ eaten \in BOOLEAN
    /\ license \in BOOLEAN /\ status \in Status
    /\ latch \in 0..3 /\ rejections \in 0..3 /\ healed \in BOOLEAN
    /\ queued \in BOOLEAN
    /\ main \in MainStep /\ was \in BOOLEAN
    /\ result \in {"none", "true", "false", "unlinked"}
    /\ work \in [Worker -> WorkStep] /\ covers \subseteq Worker
    /\ excuse \subseteq Excuse

\* The enrolment goes only when the backend says the device is unlinked, or
\* after three rejections received by some thread since the latch was reset
\* (6759-6778).
WipeJustified ==
    [][tok /\ ~tok' => backend = "unlinked" \/ rejections = 3 \/ result = "unlinked"]_vars

\* What a lapsed license, an unlink or an oversized upload has kept from the
\* backend arrives once the backend is well and the device enrolled for good,
\* also over restarts, but for the six ways in excuse. One of them is a restart
\* after a delta was dropped: the join state says the approval is synced, and the
\* start sends nothing (6206, 6243, 6292; 6699-6716, 5218-5306, 2298-2345).
InventoryArrives ==
    <>[](backend = "ok" /\ tok)
        => (missing ~> (~missing \/ excuse # {} \/ main = "stopped"))

\* A shutdown request stops the daemon, unless somebody else took it (6562-6611).
DisableStops == signal ~> (main = "stopped" \/ eaten)

\* "Only clear state if failure is persistent": no heartbeat succeeded while
\* the failures were counted (6764, 6783).
LatchMeansPersistent ==
    [][main = "handle" /\ main' = "relatch" => ~healed]_vars
=============================================================================
