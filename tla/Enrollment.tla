----------------------------- MODULE Enrollment -----------------------------
(***************************************************************************)
(* Enrolment of a device, as the GUI process and the daemon carry it out   *)
(* together (src/sentinel_agent.py): the join-state file and the token     *)
(* file they share, the approval-sync marker in the join state, and the    *)
(* inventory upload that an approval must lead to.                         *)
(*                                                                         *)
(* Threads: main is the daemon's main loop, scan its initial-scan thread,  *)
(* post the thread of _run_post_enrollment_scan, gui the GUI process.      *)
(* The join-state file is replaced atomically, but every change of it is a *)
(* load, some work, and a replacement, and no lock spans the processes.    *)
(***************************************************************************)
EXTENDS Integers, FiniteSets

CONSTANTS
    MaxReq,         \* bound on join requests
    MaxStops,       \* bound on stops of the daemon
    MaxCancels      \* bound on requests the user cancels

ASSUME BoundAssumption == /\ MaxReq \in Nat \ {0}
                          /\ MaxStops \in Nat /\ MaxCancels \in Nat

VARIABLES
    srv,            \* the backend: the device's latest request and its status
    delivered,      \* requests for which a complete inventory has arrived
    join,           \* the join-state file
    tok,            \* the token file: the request whose approval it came with, or 0
    signal,         \* unlink.signal exists
    pc,             \* where each thread is
    resp,           \* per process: the join status it has received
    buf,            \* per thread: the join state it is about to write
    djwt,           \* jwt of the daemon's client
    gjwt,           \* jwt of the GUI's client
    quiet,          \* the GUI's polling was ended by a cancellation
    cancelling,     \* a cancellation is on its way to the backend
    dmem,           \* status in join_state of the daemon's client; "none": not loaded
    started,        \* the daemon has passed its first enrolment
    claimed,        \* approval_sync_claimed
    synced,         \* scan: the request its claimed upload went to, 0 if it failed
    misstamped,     \* history: requests marked complete after another one's upload
    skipped,        \* history: requests whose scan another one's marker prevented
    abandoned,      \* history: the request that stands, if this daemon gave its inventory up
    withdrawn,      \* history: requests the user of the open GUI cancelled
    stops

srvVars == <<srv, delivered>>
fileVars == <<join, tok, signal>>
bufVars == <<resp, buf>>
daemonVars == <<djwt, dmem, started, claimed, synced>>
histVars == <<misstamped, skipped, abandoned>>
cancelVars == <<quiet, cancelling, withdrawn>>
vars == <<srvVars, fileVars, pc, bufVars, daemonVars, gjwt, histVars, stops, cancelVars>>

-----------------------------------------------------------------------------
Req == 0..MaxReq
Thread == {"main", "scan", "post", "gui"}
SyncStatus == {"none", "in_progress", "complete", "failed"}
\* A state that is not approved carries no marker (_build_join_state).
Join == {j \in [st : {"none", "pending", "approved", "denied"}, req : Req,
                sync : SyncStatus, syncReq : Req] :
           j.st # "approved" => j.sync = "none" /\ j.syncReq = 0}

NoAnswer == [req |-> 0, status |-> "none"]

NoJoin == [st |-> "none", req |-> 0, sync |-> "none", syncReq |-> 0]

Unmarked(status, r) == [st |-> status, req |-> r, sync |-> "none", syncReq |-> 0]

\* Mutant: a claim that nobody finished counts as a sync.
SyncClaimed(j) == j.st = "approved" /\ j.sync \in {"in_progress", "complete"} /\ j.syncReq = j.req

\* Mutant: the marker of any request will do.
SyncOfAnyRequest(j) == j.st = "approved" /\ j.sync = "complete" /\ j.req # 0

\* approval_sync_complete
SyncComplete(j) == /\ j.st = "approved"
                   /\ j.sync = "complete"
                   /\ j.req # 0
                   /\ j.syncReq = j.req

\* requestId, else approvalSyncRequestId (claim and finish)
RequestOf(j) == IF j.req # 0 THEN j.req ELSE j.syncReq

\* The backend takes the token for the enrolment it came with.
Accepts(t) == t # 0 /\ srv.status = "approved" /\ srv.req = t

RequestUnlinkSignal == signal' = TRUE
ConsumeUnlinkSignal == signal /\ signal' = FALSE

At(t, here) == pc[t] = here
Go(t, there) == pc' = [pc EXCEPT ![t] = there]

Init ==
    /\ srv = NoAnswer
    /\ delivered = {}
    /\ join = NoJoin /\ tok = 0 /\ signal = FALSE
    /\ pc = [t \in Thread |-> CASE t = "main" -> "wait"
                                [] t = "gui" -> "open"
                                [] OTHER -> "idle"]
    /\ resp = [t \in {"main", "gui"} |-> NoAnswer]
    /\ buf = [t \in Thread |-> NoJoin]
    /\ djwt = 0 /\ gjwt = 0 /\ dmem = "none"
    /\ started = FALSE /\ claimed = FALSE /\ synced = 0
    /\ misstamped = {} /\ skipped = {} /\ abandoned = {} /\ withdrawn = {} /\ stops = 0
    /\ quiet = FALSE /\ cancelling = FALSE

-----------------------------------------------------------------------------
(* The administrator                                                       *)

Decide ==
    /\ \/ srv.status = "pending" /\ srv' = [srv EXCEPT !.status = "approved"]
       \/ srv.status = "pending" /\ srv' = [srv EXCEPT !.status = "denied"]
       \/ srv.status = "approved" /\ srv' = [srv EXCEPT !.status = "unlinked"]
    /\ abandoned' = {}
    /\ UNCHANGED <<delivered, fileVars, pc, bufVars, daemonVars, gjwt,
                   misstamped, skipped, stops, cancelVars>>

-----------------------------------------------------------------------------
(* refresh_join_status_once, in the daemon's wait loop and in the GUI      *)

Idle(t) == IF t = "main" THEN "wait" ELSE "open"

\* has_pending_join: the state in memory when there is one, else the file.
HasPending == (IF dmem # "none" THEN dmem ELSE join.st) = "pending"

\* The request reaches the backend; its answer is under way.
Ask(t) ==
    /\ At(t, Idle(t))
    /\ IF t = "main" THEN djwt = 0 /\ HasPending ELSE ~quiet
    /\ srv.status \in {"pending", "approved", "denied"}
    /\ resp' = [resp EXCEPT ![t] = srv]
    /\ Go(t, "asked")
    /\ dmem' = IF t = "main" THEN "pending" ELSE dmem
    /\ UNCHANGED <<srvVars, fileVars, buf, djwt, started, claimed, synced, gjwt,
                   histVars, stops, cancelVars>>

\* The answer has arrived: load the file; on approval save the token. The
\* marker is dropped when the request is another one than the file's.
Answered(t) ==
    /\ At(t, "asked")
    /\ LET r == resp[t].req
           changed == join.req # 0 /\ join.req # r
           keep == resp[t].status = "approved" /\ ~changed
       IN  buf' = [buf EXCEPT ![t] =
                     [st |-> resp[t].status, req |-> r,
                      sync |-> IF keep THEN join.sync ELSE "none",
                      syncReq |-> IF keep THEN join.syncReq ELSE 0]]
    /\ IF resp[t].status = "approved"
       THEN /\ tok' = resp[t].req
            /\ IF t = "main" THEN djwt' = resp[t].req /\ UNCHANGED gjwt
                             ELSE gjwt' = resp[t].req /\ UNCHANGED djwt
       ELSE UNCHANGED <<tok, djwt, gjwt>>
    /\ Go(t, "build")
    /\ resp' = [resp EXCEPT ![t] = NoAnswer]
    /\ UNCHANGED <<srvVars, join, signal, dmem, started, claimed, synced,
                   histVars, stops, cancelVars>>

\* Mutant: the marker is filled in whatever the status.
BuildAny(t) ==
    /\ At(t, "build")
    /\ buf' = [buf EXCEPT ![t].sync = IF @ = "none" THEN join.sync ELSE @,
                          ![t].syncReq = IF @ = 0 THEN join.syncReq ELSE @]
    /\ Go(t, "write")
    /\ UNCHANGED <<srvVars, fileVars, resp, daemonVars, gjwt, histVars, stops, cancelVars>>

\* _build_join_state reads the file once more: what is missing in the marker
\* of an approved state is filled in from it.
Build(t) ==
    /\ At(t, "build")
    /\ buf' = IF buf[t].st = "approved"
              THEN [buf EXCEPT ![t].sync = IF @ = "none" THEN join.sync ELSE @,
                               ![t].syncReq = IF @ = 0 THEN join.syncReq ELSE @]
              ELSE buf
    /\ Go(t, "write")
    /\ UNCHANGED <<srvVars, fileVars, resp, daemonVars, gjwt, histVars, stops, cancelVars>>

\* os.replace. A denial makes the daemon's wait loop clear the join state.
WriteRefreshed(t) ==
    /\ At(t, "write")
    /\ join' = IF t = "main" /\ buf[t].st = "denied" THEN NoJoin ELSE buf[t]
    /\ dmem' = IF t # "main" THEN dmem
               ELSE IF buf[t].st = "denied" THEN "none" ELSE buf[t].st
    /\ buf' = [buf EXCEPT ![t] = NoJoin]
    /\ Go(t, Idle(t))
    /\ UNCHANGED <<srvVars, tok, signal, resp, djwt, started, claimed, synced,
                   gjwt, histVars, stops, cancelVars>>

-----------------------------------------------------------------------------
(* The GUI                                                                 *)

\* The enrolment screen is shown while the GUI has no token.
MayRequest ==
    /\ At("gui", "open")
    /\ gjwt = 0
    /\ srv.req < MaxReq
    /\ srv.status \in {"none", "denied", "unlinked"} \/ srv.req \in withdrawn

\* request_join: clear the join state, save "pending", post the request.
RequestJoin ==
    /\ MayRequest
    /\ join' = Unmarked("pending", 0)
    /\ Go("gui", "post")
    /\ UNCHANGED <<srvVars, tok, signal, bufVars, daemonVars, gjwt, histVars, stops, cancelVars>>

\* The backend registers it, and may approve it at once; or the call fails.
PostJoin ==
    /\ At("gui", "post")
    /\ \/ \E status \in {"pending", "approved"} :
            /\ srv' = [req |-> srv.req + 1, status |-> status]
            /\ buf' = [buf EXCEPT !["gui"] = Unmarked(status, srv.req + 1)]
            /\ IF status = "approved"
               THEN tok' = srv.req + 1 /\ gjwt' = srv.req + 1
               ELSE UNCHANGED <<tok, gjwt>>
            /\ quiet' = FALSE
            /\ abandoned' = {}
            /\ Go("gui", "build")
       \/ Go("gui", "open") /\ UNCHANGED <<srv, buf, tok, gjwt, quiet, abandoned>>
    /\ UNCHANGED <<delivered, join, signal, resp, daemonVars, misstamped, skipped, stops,
                   cancelling, withdrawn>>

\* request_individual_join: the answer brings a token at once or is awaited by
\* polling. The join state is not written: what it says is of before.
RequestIndividual ==
    /\ MayRequest
    /\ \E status \in {"pending", "approved"} :
         /\ srv' = [req |-> srv.req + 1, status |-> status]
         /\ IF status = "approved"
            THEN tok' = srv.req + 1 /\ gjwt' = srv.req + 1
            ELSE UNCHANGED <<tok, gjwt>>
    /\ quiet' = FALSE
    /\ abandoned' = {}
    /\ UNCHANGED <<delivered, join, signal, pc, bufVars, daemonVars, misstamped, skipped,
                   stops, cancelling, withdrawn>>

\* "Cancel Request" on the pending screen: the join state is cleared, the
\* polling ends, a poll under way goes on, and a thread tells the backend.
Cancel ==
    /\ pc["gui"] \in {"open", "asked"} /\ gjwt = 0 /\ ~quiet
    /\ srv.req # 0 /\ "pending" \in {srv.status, join.st}
    /\ Cardinality(withdrawn) < MaxCancels
    /\ join' = NoJoin
    /\ quiet' = TRUE /\ cancelling' = TRUE
    /\ withdrawn' = withdrawn \cup {srv.req}
    /\ UNCHANGED <<srvVars, tok, signal, pc, bufVars, daemonVars, gjwt, histVars, stops>>

\* Whatever is pending for the device by then is removed, or the call failed.
CancelArrives ==
    /\ cancelling
    /\ cancelling' = FALSE
    /\ \/ srv.status = "pending" /\ srv' = [srv EXCEPT !.status = "none"]
       \/ UNCHANGED srv
    /\ UNCHANGED <<delivered, fileVars, pc, bufVars, daemonVars, gjwt, histVars, stops,
                   quiet, withdrawn>>

\* unlink_self, or an answer that says the device is unlinked: the signal file
\* is written first, and 2.5 s later everything is removed, the signal too.
GuiUnlink ==
    /\ At("gui", "open")
    /\ tok # 0 \/ gjwt # 0
    /\ srv.status = "unlinked" \/ (srv.status = "approved" /\ gjwt = srv.req)
    /\ srv' = [srv EXCEPT !.status = "unlinked"]
    /\ RequestUnlinkSignal
    /\ Go("gui", "wipe")
    /\ abandoned' = {}
    /\ UNCHANGED <<delivered, join, tok, bufVars, daemonVars, gjwt, misstamped, skipped,
                   stops, cancelVars>>

GuiWipe ==
    /\ At("gui", "wipe")
    /\ join' = NoJoin /\ tok' = 0 /\ signal' = FALSE /\ gjwt' = 0
    /\ Go("gui", "open")
    /\ UNCHANGED <<srvVars, bufVars, daemonVars, histVars, stops, cancelVars>>

\* The user closes the GUI, whatever its threads are doing: they end with it.
GuiClose ==
    /\ ~At("gui", "closed")
    /\ Go("gui", "closed")
    /\ buf' = [buf EXCEPT !["gui"] = NoJoin]
    /\ resp' = [resp EXCEPT !["gui"] = NoAnswer]
    /\ gjwt' = 0 /\ quiet' = FALSE /\ cancelling' = FALSE /\ withdrawn' = {}
    /\ UNCHANGED <<srvVars, fileVars, daemonVars, histVars, stops>>

-----------------------------------------------------------------------------
(* The daemon                                                              *)

\* has_pending_join keeps the state it has loaded, whatever its status.
Remember ==
    /\ At("main", "wait")
    /\ djwt = 0
    /\ dmem = "none" /\ join.st # "none"
    /\ dmem' = join.st
    /\ UNCHANGED <<srvVars, fileVars, pc, bufVars, djwt, started, claimed, synced,
                   gjwt, histVars, stops, cancelVars>>

\* A turn of the wait loop ends with loading the token file.
Reread ==
    /\ At("main", "wait")
    /\ djwt # 0 /\ tok = 0
    /\ djwt' = 0
    /\ UNCHANGED <<srvVars, fileVars, pc, bufVars, dmem, started, claimed, synced,
                   gjwt, histVars, stops, cancelVars>>

\* There is a token: the wait loop ends, either before the daemon's first
\* claim or after an unlink it noticed itself. The refresh that precedes the
\* loop does not load the file again.
Enrolled ==
    /\ At("main", "wait")
    /\ djwt # 0 \/ tok # 0
    /\ djwt' = IF tok # 0 THEN tok ELSE djwt
    /\ IF started
       THEN /\ pc' = [pc EXCEPT !["main"] = "loop", !["post"] = "scan"]
            /\ UNCHANGED started
       ELSE /\ Go("main", "claim")
            /\ started' = TRUE
    /\ UNCHANGED <<srvVars, fileVars, bufVars, dmem, claimed, synced, gjwt,
                   histVars, stops, cancelVars>>

\* Mutant: the token file is left behind.
DaemonWipeKeepsToken == /\ join' = NoJoin /\ signal' = FALSE /\ UNCHANGED tok
                        /\ djwt' = 0 /\ dmem' = "none"

\* clear_local_state in the daemon.
DaemonWipe == /\ join' = NoJoin /\ tok' = 0 /\ signal' = FALSE
              /\ djwt' = 0 /\ dmem' = "none"

\* The heartbeat that precedes the claim is answered with "unlinked": the local
\* state is wiped, and the start goes on without a token.
FirstHeartbeatUnlinked ==
    /\ At("main", "claim")
    /\ djwt # 0
    /\ ~Accepts(djwt)
    /\ DaemonWipe
    /\ UNCHANGED <<srvVars, pc, bufVars, started, claimed, synced, gjwt, histVars, stops,
                   cancelVars>>

\* claim_approval_sync up to the save.
Claim ==
    /\ At("main", "claim")
    /\ IF join.st = "approved" /\ ~(join.sync = "complete" /\ join.syncReq = RequestOf(join))
       THEN /\ buf' = [buf EXCEPT !["main"] =
                         [join EXCEPT !.sync = "in_progress", !.syncReq = RequestOf(join)]]
            /\ claimed' = TRUE
            /\ Go("main", "claimWrite")
       ELSE /\ claimed' = FALSE
            /\ Go("main", "start")
            /\ UNCHANGED buf
    /\ UNCHANGED <<srvVars, fileVars, resp, djwt, dmem, started, synced, gjwt,
                   histVars, stops, cancelVars>>

ClaimWrite ==
    /\ At("main", "claimWrite")
    /\ join' = buf["main"]
    /\ dmem' = "approved"
    /\ buf' = [buf EXCEPT !["main"] = NoJoin]
    /\ Go("main", "start")
    /\ UNCHANGED <<srvVars, tok, signal, resp, djwt, started, claimed, synced,
                   gjwt, histVars, stops, cancelVars>>

\* approval_sync_complete decides whether the initial scan runs at all.
StartScan ==
    /\ At("main", "start")
    /\ pc' = [pc EXCEPT !["main"] = "loop",
                        !["scan"] = IF SyncComplete(join) THEN "idle" ELSE "scan"]
    /\ skipped' = IF SyncComplete(join) /\ join.req # djwt
                  THEN skipped \cup {djwt} ELSE skipped
    /\ UNCHANGED <<srvVars, fileVars, bufVars, daemonVars, gjwt, misstamped, abandoned,
                   stops, cancelVars>>

\* sync_complete_inventory of a scan thread, with the token of that moment. An
\* answer that says "unlinked" wipes the local state. An inventory may also be
\* given up, neither delivered nor queued: there is no scanner, the scan or the
\* request raised something that is not a connection error, the license is
\* inactive, or the inventory is too large and a chunk of it failed.
Upload(t, next) ==
    /\ At(t, "scan")
    /\ \/ /\ Accepts(djwt)
          /\ delivered' = delivered \cup {djwt}
          /\ synced' = IF t = "scan" /\ claimed THEN djwt ELSE synced
          /\ UNCHANGED <<fileVars, djwt, dmem, abandoned>>
       \/ /\ Accepts(djwt)          \* queued: the offline queue delivers it
          /\ t = "scan"
          /\ delivered' = delivered \cup {djwt}
          /\ synced' = 0
          /\ UNCHANGED <<fileVars, djwt, dmem, abandoned>>
       \/ /\ djwt # 0               \* given up
          /\ abandoned' = IF Accepts(djwt) THEN {djwt} \ delivered ELSE abandoned
          /\ synced' = IF t = "scan" THEN 0 ELSE synced
          /\ UNCHANGED <<delivered, fileVars, djwt, dmem>>
       \/ /\ djwt # 0 /\ ~Accepts(djwt)
          /\ DaemonWipe
          /\ synced' = IF t = "scan" THEN 0 ELSE synced
          /\ UNCHANGED <<delivered, abandoned>>
       \/ /\ djwt = 0
          /\ synced' = IF t = "scan" THEN 0 ELSE synced
          /\ UNCHANGED <<delivered, fileVars, djwt, dmem, abandoned>>
    /\ Go(t, next)
    /\ UNCHANGED <<srv, bufVars, started, claimed, gjwt, misstamped, skipped, stops,
                   cancelVars>>

ScanUpload == Upload("scan", IF claimed THEN "finish" ELSE "idle")

PostUpload == Upload("post", "idle")

\* finish_approval_sync up to the save: the request of the state just loaded.
Finish ==
    /\ At("scan", "finish")
    /\ IF join.st = "approved"
       THEN /\ buf' = [buf EXCEPT !["scan"] =
                         [join EXCEPT !.sync = IF synced # 0 THEN "complete" ELSE "failed",
                                      !.syncReq = RequestOf(join)]]
            /\ misstamped' = IF synced \notin {0, RequestOf(join)}
                             THEN misstamped \cup {RequestOf(join)} ELSE misstamped
            /\ Go("scan", "finishWrite")
            /\ UNCHANGED <<claimed, synced>>
       ELSE /\ Go("scan", "idle")
            /\ synced' = 0 /\ claimed' = FALSE
            /\ UNCHANGED <<buf, misstamped>>
    /\ UNCHANGED <<srvVars, fileVars, resp, djwt, dmem, started, gjwt, skipped, abandoned,
                   stops, cancelVars>>

FinishWrite ==
    /\ At("scan", "finishWrite")
    /\ join' = buf["scan"]
    /\ dmem' = "approved"
    /\ buf' = [buf EXCEPT !["scan"] = NoJoin]
    /\ synced' = 0 /\ claimed' = FALSE
    /\ Go("scan", "idle")
    /\ UNCHANGED <<srvVars, tok, signal, resp, djwt, started,
                   gjwt, histVars, stops, cancelVars>>

\* The main loop finds the unlink signal during its sleep: it drops the token
\* in memory and waits for another one to appear on disk.
SeeSignal ==
    /\ At("main", "loop")
    /\ ConsumeUnlinkSignal
    /\ djwt' = 0
    /\ UNCHANGED <<srvVars, join, tok, pc, bufVars, dmem, started, claimed,
                   synced, gjwt, histVars, stops, cancelVars>>

\* No token in memory: only the token file is looked at.
Reload ==
    /\ At("main", "loop")
    /\ djwt = 0
    /\ tok # 0
    /\ djwt' = tok
    /\ pc' = [pc EXCEPT !["post"] = "scan"]
    /\ UNCHANGED <<srvVars, fileVars, bufVars, dmem, started, claimed, synced,
                   gjwt, histVars, stops, cancelVars>>

\* The heartbeat is answered with "unlinked": wipe, then _wait_for_enrollment.
HeartbeatUnlinked ==
    /\ At("main", "loop")
    /\ djwt # 0
    /\ ~Accepts(djwt)
    /\ DaemonWipe
    /\ Go("main", "wait")
    /\ UNCHANGED <<srvVars, bufVars, started, claimed, synced, gjwt, histVars, stops, cancelVars>>

Stop ==
    /\ stops < MaxStops
    /\ ~At("main", "off")
    /\ stops' = stops + 1
    /\ pc' = [pc EXCEPT !["main"] = "off", !["scan"] = "idle", !["post"] = "idle"]
    /\ buf' = [buf EXCEPT !["main"] = NoJoin, !["scan"] = NoJoin, !["post"] = NoJoin]
    /\ resp' = [resp EXCEPT !["main"] = NoAnswer]
    /\ djwt' = 0 /\ dmem' = "none" /\ started' = FALSE /\ claimed' = FALSE /\ synced' = 0
    /\ UNCHANGED <<srvVars, fileVars, gjwt, histVars, cancelVars>>

\* The client loads both files; with a token, no enrolment is waited for. A sync
\* left "failed" or in progress is taken up again: nothing is given up yet.
Start ==
    /\ At("main", "off")
    /\ djwt' = tok
    /\ dmem' = join.st
    /\ IF tok # 0
       THEN Go("main", "claim") /\ started' = TRUE
       ELSE Go("main", "wait") /\ started' = FALSE
    /\ abandoned' = {}
    /\ UNCHANGED <<srvVars, fileVars, bufVars, claimed, synced, gjwt, misstamped, skipped,
                   stops, cancelVars>>

-----------------------------------------------------------------------------
Refresh(t) == Ask(t) \/ Answered(t) \/ Build(t) \/ WriteRefreshed(t)

Main == \/ Refresh("main") \/ Remember \/ Reread \/ Enrolled \/ FirstHeartbeatUnlinked
        \/ Claim \/ ClaimWrite \/ StartScan
        \/ SeeSignal \/ Reload \/ HeartbeatUnlinked \/ Start

Scan == ScanUpload \/ Finish \/ FinishWrite

Gui == Refresh("gui") \/ PostJoin \/ GuiWipe

Next == \/ Main \/ Scan \/ PostUpload \/ Gui
        \/ RequestJoin \/ RequestIndividual \/ Cancel \/ CancelArrives \/ GuiUnlink \/ GuiClose
        \/ Decide \/ Stop

\* Each thread goes on; the daemon that stopped is started again (scheduled
\* task, service, watchdog). The user and the administrator may do nothing.
Fairness == WF_vars(Main) /\ WF_vars(Scan) /\ WF_vars(PostUpload) /\ WF_vars(Gui)

Spec == Init /\ [][Next]_vars /\ Fairness

-----------------------------------------------------------------------------
TypeOK ==
    /\ srv \in [req : Req, status : {"none", "pending", "approved", "denied", "unlinked"}]
    /\ delivered \subseteq Req
    /\ join \in Join /\ tok \in Req /\ signal \in BOOLEAN
    /\ pc \in [Thread -> {"off", "wait", "asked", "build", "write", "claim",
                          "claimWrite", "start", "loop", "idle", "scan", "finish",
                          "finishWrite", "open", "closed", "post", "wipe"}]
    /\ resp \in [{"main", "gui"} ->
                   [req : Req, status : {"none", "pending", "approved", "denied", "unlinked"}]]
    /\ buf \in [Thread -> Join]
    /\ djwt \in Req /\ gjwt \in Req
    /\ dmem \in {"none", "pending", "approved", "denied"}
    /\ {started, claimed} \subseteq BOOLEAN
    /\ synced \in Req
    /\ misstamped \subseteq Req /\ skipped \subseteq Req
    /\ abandoned \subseteq Req /\ withdrawn \subseteq Req
    /\ {quiet, cancelling} \subseteq BOOLEAN
    /\ stops \in 0..MaxStops

-----------------------------------------------------------------------------
(* Properties                                                              *)

\* A join state that says the approval sync of its request is complete speaks
\* the truth: a complete inventory arrived under that request, however the GUI
\* and the daemon interleave and wherever the daemon stops. The exception is a
\* request approved between another one's upload and finish_approval_sync.
CompleteMeansSynced ==
    SyncComplete(join) => join.req \in delivered \cup misstamped

\* An approval that stands leads to a complete inventory at the backend while
\* the GUI stays open, through stops of the daemon at any point: claims left
\* in progress are taken up again, and the marker of an earlier request never
\* passes for the new one's. The exceptions are a request stamped complete
\* after another one's upload, and one whose daemon started between the GUI's
\* saving the token and its replacing another request's join state; and one
\* whose inventory the running daemon gave up: finish_approval_sync writes
\* "failed", nothing tries again before the next start, and the next start does.
\* A request the user cancelled is approved all the same when the cancellation is
\* lost or late: nobody polls for it any more, so nothing is promised for it.
ApprovalIsSynced ==
    \A r \in 1..MaxReq :
        <>[](srv = [req |-> r, status |-> "approved"] /\ ~At("gui", "closed")) =>
            <>(r \in delivered \cup misstamped \cup skipped \cup abandoned \cup withdrawn)

\* A device that stays unlinked forgets its enrolment: no token is left in
\* the daemon or on disk, whoever noticed the unlink first.
UnlinkIsNoticed ==
    <>[](srv.status = "unlinked") => <>[](djwt = 0 /\ tok = 0)
=============================================================================
