------------------------- MODULE PosixDaemon_proofs -------------------------
(***************************************************************************)
(* The daemons of Linux and macOS.                                         *)
(*                                                                         *)
(* PosixAgent: a join state says that an approval sync is complete only    *)
(* when an inventory was acknowledged, and an inventory sent in pieces     *)
(* arrives whole, for any packages, files, limits, attempts and events.    *)
(*                                                                         *)
(* Startup: two daemons of one state directory run only in the ways that   *)
(* OneDaemon names, whatever the number of kills, stops, wipes, reboots    *)
(* and failures.                                                           *)
(***************************************************************************)
EXTENDS PosixAgent, Startup, TLAPS

-----------------------------------------------------------------------------
(* PosixAgent: the invariant                                               *)

Statuses == {"none", "pending", "approved", "denied", "unlinked"}
Settled == {"none", "denied", "unlinked"}
Before == {"off", "auth", "resume", "poll", "merge", "wait", "enrol", "joinPoll", "retry",
           "beat", "claim", "scan", "scanWait"}
After == {"finishOk", "finishFailed", "settle", "running"}
Sending == {"whole", "first", "rest"}
UploadType == [phase : Sending \cup {"off", "pause", "ok", "failed"},
               by : {"main", "monitor"}, left : 0..Attempts, items : SUBSET Items,
               rest : SUBSET Items, fallback : BOOLEAN]
Issued == 0..srv.req

\* A request is numbered at the cost of an event, but for the one that the
\* daemon makes after the start, a denial or an unlink.
BackendOK == /\ srv \in [req : Nat, status : Statuses]
             /\ srv.req <= events + 1
             /\ srv.status \in Settled \/ (srv.status = "pending" /\ code = "individual") =>
                    srv.req <= events
             /\ events \in 0..MaxEvents
             /\ delivered \subseteq Req

\* The files and the threads know of no request that was not made.
Known(j) == j \in Join /\ j.req \in Issued /\ j.syncReq \in Issued
FilesOK == /\ Known(own) /\ Known(shared) /\ Known(fresh)
           /\ tok \in Issued /\ mem \in Issued

ThreadsOK == /\ pc \in Before \cup {"upload"} \cup After
             /\ mon \in {"off", "run", "retry", "send", "dead"}
             /\ scanner \in {"idle", "running", "done", "error"}
             /\ exit \in {"none", "clean", "failure"}
             /\ stopping \in BOOLEAN /\ claimed \in BOOLEAN
SettingsOK == /\ platform \in {"linux", "macos"} /\ code \in {"none", "team", "individual"}
              /\ limit \in 1..Cardinality(Items)
StoredOK == /\ stored \subseteq Items /\ installed \subseteq Items /\ scan \subseteq Items
            /\ snap \subseteq Packages
UploadOK == /\ full \in UploadType
            /\ pend \in [on : BOOLEAN, items : SUBSET Items, approval : BOOLEAN]
            /\ outbox \in [add : SUBSET Packages, del : SUBSET Packages]

\* One thread uploads at a time, the monitor only after the initial scan.
Turns == /\ pc = "upload" => full.phase # "off" /\ mon # "retry"
         /\ mon = "retry" => pc \in After /\ full.phase # "off" /\ ~full.fallback
         /\ pend.on => pc \in After
         /\ full.phase # "off" => pc = "upload" \/ mon = "retry"

\* An upload: a request is part of an attempt, a fallback is of packages, and
\* what was sent in pieces so far is what the backend has.
Sends == /\ full.phase \in Sending => full.left # 0
         /\ full.fallback => full.items \subseteq Packages
         /\ full.phase = "first" => full.rest = full.items
         /\ full.phase = "rest" /\ ~Linux /\ ~full.fallback =>
                stored \cup full.rest = full.items

\* A completion speaks the truth. A complete inventory that was acknowledged is
\* acknowledged for whatever request a claim was made for.
Sound(j) == j.sync = "complete" /\ j.syncReq # 0 => \E r \in delivered : r >= j.syncReq
Acknowledged == \E r \in delivered : r >= own.syncReq /\ r >= shared.syncReq
Truth == /\ Sound(own) /\ Sound(shared) /\ Sound(fresh)
         /\ full.phase = "ok" /\ ~full.fallback => Acknowledged
         /\ pc = "finishOk" => Acknowledged

Types == /\ SettingsOK /\ BackendOK /\ FilesOK /\ ThreadsOK /\ StoredOK /\ UploadOK
IInv == Types /\ Turns /\ Sends /\ Truth

-----------------------------------------------------------------------------
(* Requests, join states and acknowledgements                              *)

LEMMA Numbers == ASSUME BackendOK
                 PROVE  /\ srv.req \in Nat /\ events \in Nat /\ MaxEvents \in Nat
                        /\ Issued \subseteq Req /\ Issued \subseteq Nat /\ 0 \in Issued
                        /\ srv.req \in Issued
BY BoundAssumption DEF BackendOK, Issued, Req

LEMMA NoJoinKnown == ASSUME BackendOK PROVE Known(NoJoin) /\ Sound(NoJoin)
BY Numbers DEF Known, NoJoin, Join, Req, Sound

\* What the GUI writes when it has made a request, or has tried to.
LEMMA Requested ==
    ASSUME NEW n, NEW j,
           j = [NoJoin EXCEPT !.st = "pending", !.req = n] \/
               (n = 0 /\ j = [NoJoin EXCEPT !.st = "pending"])
    PROVE  j = [st |-> "pending", req |-> n, sync |-> "none", syncReq |-> 0]
BY DEF NoJoin

LEMMA LoadedKnown == ASSUME FilesOK PROVE Known(Loaded) /\ Loaded \in {own, shared}
BY DEF FilesOK, Loaded

\* Requests are made one after the other, and nothing is forgotten.
LEMMA KnownGrows ==
    ASSUME BackendOK, srv'.req \in Nat, srv.req <= srv'.req
    PROVE  /\ Issued \subseteq Issued'
           /\ \A j \in Join : j.req \in Issued /\ j.syncReq \in Issued =>
                                  j.req \in Issued' /\ j.syncReq \in Issued'
BY Numbers DEF Issued

LEMMA BackendKept ==
    ASSUME BackendOK, UNCHANGED <<code, srv, delivered>>, UNCHANGED events \/ Event
    PROVE  BackendOK'
BY Numbers DEF BackendOK, Event

LEMMA FilesKept ==
    ASSUME BackendOK, FilesOK, srv'.req \in Nat, srv.req <= srv'.req,
           UNCHANGED <<own, shared, fresh, tok, mem>>
    PROVE  FilesOK'
BY KnownGrows DEF FilesOK, Known

LEMMA TruthKept ==
    ASSUME Truth, UNCHANGED <<own, shared, fresh>>, delivered \subseteq delivered',
           full'.phase = "ok" /\ ~full'.fallback => full.phase = "ok" /\ ~full.fallback,
           pc' = "finishOk" => pc = "finishOk"
    PROVE  Truth'
BY DEF Truth, Sound, Acknowledged

-----------------------------------------------------------------------------
(* The machine, the administrator and the GUI                              *)

LEMMA OutsideInv == ASSUME IInv, Outside PROVE IInv'
<1> USE DEF IInv, Types
<1>1. UNCHANGED <<platform, code, limit, delivered, mem, pc, mon, scanner, exit, fresh,
                  claimed, scan, snap, full, pend, outbox, stored>>
    BY DEF Outside, Install, Approve, Deny, GuiRequest, GuiIndividual, GuiApproved, GuiWipe,
           Signal, OutsideUnchanged, enrolVars, scanVars, uploadVars
<1>2. BackendOK' /\ srv'.req \in Nat /\ srv.req <= srv'.req
    <2>1. CASE Install \/ GuiApproved \/ GuiWipe \/ Signal
        <3>1. UNCHANGED srv /\ (UNCHANGED events \/ Event)
            BY <2>1 DEF Install, GuiApproved, GuiWipe, Signal
        <3> QED BY <1>1, <3>1, BackendKept, Numbers
    <2>2. CASE Approve \/ Deny \/ GuiRequest \/ GuiIndividual
        BY <1>1, <2>2, Numbers
        DEF Approve, Deny, GuiRequest, GuiIndividual, Event, BackendOK, Statuses, Settled
    <2> QED BY <2>1, <2>2 DEF Outside
<1>3. Known(own)' /\ Known(shared)' /\ tok' \in Issued'
    <2>1. Known(own) /\ Known(shared) /\ tok \in Issued /\ Known(NoJoin)
        BY NoJoinKnown DEF FilesOK
    <2>2. CASE UNCHANGED <<own, shared, tok>>
        BY <1>2, <2>1, <2>2, KnownGrows DEF Known
    <2>3. CASE GuiRequest
        <3>1. UNCHANGED <<own, tok>>
            BY <2>3 DEF GuiRequest
        <3>2. shared' \in Join /\ shared'.req \in Issued' /\ shared'.syncReq \in Issued'
            <4>1. srv'.req \in Req /\ 0 \in Req
                BY <1>2, Numbers DEF BackendOK, Req
            <4>2. PICK n \in {0, srv'.req} :
                      shared' = [st |-> "pending", req |-> n, sync |-> "none", syncReq |-> 0]
                <5>1. CASE /\ shared' = [NoJoin EXCEPT !.st = "pending", !.req = srv.req + 1]
                           /\ srv' = [req |-> srv.req + 1, status |-> "pending"]
                    BY <5>1, Requested
                <5>2. CASE shared' = [NoJoin EXCEPT !.st = "pending"]
                    BY <5>2, Requested
                <5> QED BY <2>3, <5>1, <5>2 DEF GuiRequest
            <4> QED BY <1>2, <4>1, <4>2 DEF Join, Issued
        <3> QED BY <1>2, <2>1, <3>1, <3>2, KnownGrows DEF Known
    <2>4. CASE GuiApproved
        BY <1>2, <2>1, <2>4, Numbers DEF GuiApproved, Known, Join, Issued
    <2>5. CASE GuiWipe
        BY <1>2, <2>1, <2>5, Numbers, NoJoinKnown DEF GuiWipe, WipeFiles, Known, Issued
    <2>6. CASE GuiIndividual
        <3>1. UNCHANGED <<own, shared>> /\ (tok' = tok \/ tok' = srv'.req)
            BY <2>6 DEF GuiIndividual
        <3> QED BY <1>2, <2>1, <3>1, KnownGrows DEF Known, Issued
    <2> QED BY <2>2, <2>3, <2>4, <2>5, <2>6
            DEF Outside, Install, Approve, Deny, Signal, fileVars
<1>4. FilesOK'
    BY <1>1, <1>2, <1>3, KnownGrows DEF FilesOK, Known
<1>5. SettingsOK' /\ ThreadsOK' /\ StoredOK' /\ UploadOK'
    <2>1. stopping' \in BOOLEAN
        BY DEF Outside, Install, Approve, Deny, GuiRequest, GuiIndividual, GuiApproved, GuiWipe,
               Signal, ThreadsOK
    <2>2. installed' \subseteq Items
        BY DEF Outside, Install, Approve, Deny, GuiRequest, GuiIndividual, GuiApproved, GuiWipe,
               Signal, StoredOK, Items
    <2> QED BY <1>1, <2>1, <2>2 DEF SettingsOK, ThreadsOK, StoredOK, UploadOK
<1>6. Turns' /\ Sends'
    BY <1>1 DEF Turns, Sends, Linux
<1>7. Truth'
    <2>1. CASE UNCHANGED <<own, shared>>
        BY <1>1, <2>1, TruthKept
    <2>2. CASE GuiRequest
        <3>1. UNCHANGED own /\ shared'.syncReq = 0
            BY <2>2 DEF GuiRequest, NoJoin
        <3> QED BY <1>1, <3>1, Numbers
                DEF Truth, Sound, Acknowledged, FilesOK, Known, BackendOK, Req
    <2>3. CASE GuiApproved
        BY <1>1, <2>3
        DEF GuiApproved, Truth, Sound, Acknowledged, FilesOK, Known, Join
    <2>4. CASE GuiWipe
        BY <1>1, <2>4, Numbers
        DEF GuiWipe, WipeFiles, Truth, Sound, Acknowledged, NoJoin, FilesOK, Known, BackendOK, Req
    <2> QED BY <2>1, <2>2, <2>3, <2>4
            DEF Outside, Install, Approve, Deny, GuiIndividual, Signal, fileVars
<1> QED BY <1>2, <1>4, <1>5, <1>6, <1>7

-----------------------------------------------------------------------------
(* The process                                                             *)

\* A process that ends leaves the files, wiped or not.
LEMMA ResetInv ==
    ASSUME IInv, Reset, pc' = "off", exit' \in {"clean", "failure"},
           UNCHANGED <<platform, code, limit, srv, stored, delivered, installed>>,
           UNCHANGED events \/ Event, UNCHANGED <<own, shared, tok>> \/ WipeFiles
    PROVE  IInv'
<1> USE DEF IInv, Types
<1>1. BackendOK'
    BY BackendKept
<1>2. FilesOK'
    <2>1. Known(own)' /\ Known(shared)' /\ tok' \in Issued'
        BY NoJoinKnown, Numbers DEF FilesOK, WipeFiles, Known, Issued
    <2>2. Known(fresh)' /\ mem' \in Issued'
        BY NoJoinKnown, Numbers DEF Reset, Known, Issued
    <2> QED BY <2>1, <2>2 DEF FilesOK
<1>3. SettingsOK' /\ ThreadsOK' /\ StoredOK'
    BY DEF Reset, SettingsOK, ThreadsOK, StoredOK, Before
<1>4. UploadOK'
    BY BoundAssumption
    DEF Reset, UploadOK, UploadType, NoUpload, NothingPending, NoDelta, Sending
<1>5. Turns' /\ Sends'
    BY DEF Reset, Turns, Sends, NoUpload, NothingPending, Before, After, Sending
<1>6. Truth'
    BY NoJoinKnown DEF Reset, Truth, Sound, NoUpload, NoJoin, WipeFiles
<1> QED BY <1>1, <1>2, <1>3, <1>4, <1>5, <1>6

\* The main thread goes on with nothing else than its place changed.
LEMMA GoesOn ==
    ASSUME IInv, pc' \in Before, pc \in Before,
           UNCHANGED <<platform, code, limit, srv, stored, delivered, own, shared, tok, mem,
                       mon, scanner, exit, stopping, fresh, claimed, installed, scan, snap,
                       full, pend, outbox>>,
           UNCHANGED events \/ Event
    PROVE  IInv'
<1> USE DEF IInv, Types
<1>1. BackendOK'
    BY BackendKept
<1>2. FilesOK'
    BY FilesKept, Numbers
<1>3. SettingsOK' /\ ThreadsOK' /\ StoredOK' /\ UploadOK'
    BY DEF SettingsOK, ThreadsOK, StoredOK, UploadOK
<1>4. Turns' /\ Sends'
    BY DEF Turns, Sends, Linux, Before, After
<1>5. Truth'
    BY TruthKept DEF Before
<1> QED BY <1>1, <1>2, <1>3, <1>4, <1>5

LEMMA ProcessInv == ASSUME IInv, Crash \/ Respawn \/ StartAgain \/ Leave PROVE IInv'
<1>1. CASE Crash \/ Leave
    <2>1. /\ Reset /\ pc' = "off" /\ exit' \in {"clean", "failure"}
          /\ UNCHANGED <<platform, code, limit, srv, stored, delivered, installed, own, shared,
                         tok>>
          /\ UNCHANGED events \/ Event
        BY <1>1 DEF Crash, Leave, backendVars, fileVars
    <2> QED BY <2>1, ResetInv
<1>2. CASE Respawn \/ StartAgain
    <2>1. /\ pc = "off" /\ pc' = "auth"
          /\ UNCHANGED <<platform, code, limit, srv, stored, delivered, own, shared, tok, mem,
                         mon, scanner, exit, stopping, fresh, claimed, installed, scan, snap,
                         full, pend, outbox>>
          /\ UNCHANGED events \/ Event
        BY <1>2 DEF Respawn, StartAgain, backendVars, fileVars, enrolVars, scanVars, uploadVars
    <2> QED BY <2>1, GoesOn DEF Before
<1> QED BY <1>1, <1>2

-----------------------------------------------------------------------------
(* _register_or_authenticate                                               *)

\* What is written, and what is in memory, was made a request for.
LEMMA Authenticated ==
    ASSUME IInv, pc \in Before, pc' \in Before,
           UNCHANGED <<platform, code, limit, stored, delivered, mon, scanner, stopping,
                       claimed, installed, scan, snap, full, pend, outbox, exit>>,
           BackendOK', FilesOK', Sound(own)', Sound(shared)', Sound(fresh)'
    PROVE  IInv'
<1> USE DEF IInv, Types
<1>1. SettingsOK' /\ ThreadsOK' /\ StoredOK' /\ UploadOK'
    BY DEF SettingsOK, ThreadsOK, StoredOK, UploadOK
<1>2. Turns' /\ Sends'
    BY DEF Turns, Sends, Linux, Before, After
<1>3. Truth'
    BY DEF Truth, Turns, Before, After
<1> QED BY <1>1, <1>2, <1>3

LEMMA AuthenticateInv == ASSUME IInv, Authenticate PROVE IInv'
<1>1. BackendOK /\ FilesOK /\ Truth /\ Known(Loaded) /\ Loaded \in {own, shared}
    BY LoadedKnown DEF IInv, Types
<1>2. CASE NoToken \/ Resume \/ WaitOver \/ EnrolFails \/ Retry
    <2>1. /\ pc \in Before /\ pc' \in Before
          /\ UNCHANGED <<platform, code, limit, srv, stored, delivered, own, shared, tok, mem,
                         mon, scanner, exit, stopping, fresh, claimed, installed, scan, snap,
                         full, pend, outbox>>
          /\ UNCHANGED events \/ Event
        BY <1>2 DEF NoToken, Resume, WaitOver, EnrolFails, Retry, EnrolUnchanged, Before,
                    fileVars, scanVars, uploadVars
    <2> QED BY <2>1, GoesOn
<1>3. ASSUME AuthValid \/ AuthUnlinked \/ AuthRejected \/ PollApproved \/ Merge \/ PollRefused
                       \/ Enrol
      PROVE  /\ pc \in Before /\ pc' \in Before
             /\ UNCHANGED <<platform, code, limit, stored, delivered, mon, scanner, stopping,
                            claimed, installed, scan, snap, full, pend, outbox, exit>>
    <2>1. /\ UNCHANGED <<platform, code, limit, stored, delivered, mon, scanner, stopping,
                         claimed, installed, scan, snap, full, pend, outbox, exit>>
        BY <1>3 DEF AuthValid, AuthUnlinked, AuthRejected, PollApproved, Merge, PollRefused, Enrol,
                    EnrolUnchanged, scanVars, uploadVars
    <2>2. /\ pc \in Before /\ pc' \in Before
        BY <1>3 DEF AuthValid, AuthUnlinked, AuthRejected, PollApproved, Merge, PollRefused, Enrol,
                    Before
    <2> QED BY <2>1, <2>2
<1>4. ASSUME AuthValid \/ AuthUnlinked \/ AuthRejected \/ PollApproved \/ Merge \/ PollRefused
      PROVE  BackendOK' /\ UNCHANGED srv /\ Issued' = Issued
    <2>1. UNCHANGED <<srv, delivered>> /\ (UNCHANGED events \/ Event)
        BY <1>4 DEF AuthValid, AuthUnlinked, AuthRejected, PollApproved, Merge, PollRefused,
                    EnrolUnchanged
    <2> QED BY <1>1, <1>3, <1>4, <2>1, BackendKept DEF Issued
<1>5. CASE AuthValid \/ AuthUnlinked \/ AuthRejected \/ PollRefused
    <2>1. /\ (UNCHANGED <<own, shared>> \/ (own' = NoJoin /\ shared' = NoJoin))
          /\ tok' \in {0, tok} /\ mem' \in {0, mem, tok} /\ UNCHANGED fresh
        BY <1>5 DEF AuthValid, AuthUnlinked, AuthRejected, PollRefused, WipeFiles, fileVars
    <2>2. FilesOK'
        BY <1>1, <1>4, <1>5, <2>1, NoJoinKnown, Numbers DEF FilesOK, Known
    <2>3. Sound(own)' /\ Sound(shared)' /\ Sound(fresh)'
        BY <1>1, <1>3, <1>5, <2>1, NoJoinKnown DEF Truth, Sound
    <2> QED BY <1>3, <1>4, <1>5, <2>2, <2>3, Authenticated
<1>6. CASE PollApproved
    <2>1. /\ UNCHANGED <<own, shared>> /\ tok' = srv.req /\ mem' = srv.req
          /\ fresh' \in {fresh, [Loaded EXCEPT !.st = "approved", !.req = srv.req]}
        BY <1>6 DEF PollApproved
    <2>2. Known(fresh') /\ (fresh' = fresh \/ (fresh'.sync = Loaded.sync
                                                /\ fresh'.syncReq = Loaded.syncReq))
        BY <1>1, <2>1, Numbers DEF FilesOK, Known, Join
    <2>3. FilesOK'
        BY <1>1, <1>4, <1>6, <2>1, <2>2, Numbers DEF FilesOK, Known
    <2>4. Sound(own)' /\ Sound(shared)' /\ Sound(fresh)'
        BY <1>1, <1>3, <1>6, <2>1, <2>2 DEF Truth, Sound
    <2> QED BY <1>3, <1>4, <1>6, <2>3, <2>4, Authenticated
<1>7. CASE Merge
    <2>1. own' = fresh /\ shared' = fresh /\ UNCHANGED <<tok, mem>> /\ fresh' = NoJoin
        BY <1>7 DEF Merge, SaveJoin
    <2>2. FilesOK'
        BY <1>1, <1>4, <1>7, <2>1, NoJoinKnown DEF FilesOK, Known
    <2>3. Sound(own)' /\ Sound(shared)' /\ Sound(fresh)'
        BY <1>1, <1>3, <1>7, <2>1, NoJoinKnown DEF Truth, Sound
    <2> QED BY <1>3, <1>4, <1>7, <2>2, <2>3, Authenticated
<1>8. CASE Enrol
    <2>1. BackendOK' /\ srv'.req \in Nat /\ srv.req <= srv'.req
        BY <1>1, <1>3, <1>8, Numbers DEF Enrol, BackendOK, Statuses, Settled
    <2>2. /\ UNCHANGED <<own, shared, fresh>>
          /\ (tok' = srv'.req /\ mem' = srv'.req) \/ UNCHANGED <<tok, mem>>
        BY <1>8 DEF Enrol
    <2>3. FilesOK'
        BY <1>1, <2>1, <2>2, KnownGrows DEF FilesOK, Known, Issued
    <2>4. Sound(own)' /\ Sound(shared)' /\ Sound(fresh)'
        BY <1>1, <1>3, <1>8, <2>2 DEF Truth, Sound
    <2> QED BY <1>3, <1>8, <2>1, <2>3, <2>4, Authenticated
<1> QED BY <1>2, <1>5, <1>6, <1>7, <1>8 DEF Authenticate

-----------------------------------------------------------------------------
(* run: the first heartbeat, the claim and the initial scan                *)

LEMMA RunKeeps ==
    ASSUME IInv, RunUnchanged, UNCHANGED delivered, UNCHANGED events \/ Event
    PROVE  SettingsOK' /\ BackendOK' /\ Issued' = Issued
BY BackendKept DEF RunUnchanged, IInv, Types, SettingsOK, Issued

\* What leaves the join states and the token alone.
LEMMA RunFiles ==
    ASSUME IInv, RunUnchanged, UNCHANGED <<own, shared, fresh, tok, mem>>
    PROVE  FilesOK'
BY FilesKept, Numbers DEF RunUnchanged, IInv, Types

LEMMA BeatInv == ASSUME IInv, FirstBeat \/ BeatUnanswered PROVE IInv'
<1>1. CASE pc' = "off"
    <2>1. /\ Reset /\ exit' \in {"clean", "failure"} /\ WipeFiles
          /\ UNCHANGED <<platform, code, limit, srv, stored, delivered, installed, events>>
        BY <1>1 DEF FirstBeat, BeatUnanswered
    <2> QED BY <1>1, <2>1, ResetInv
<1>2. CASE pc' # "off"
    <2>1. /\ pc = "beat" /\ pc' = "claim" /\ mon' = "run" /\ RunUnchanged
          /\ UNCHANGED <<stored, delivered, own, shared, tok, mem, scanner, exit, fresh, claimed,
                         scan, snap, full, pend, outbox>>
          /\ UNCHANGED events \/ Event
        BY <1>2 DEF FirstBeat, BeatUnanswered, RunUnchanged, fileVars, enrolVars, scanVars,
                    uploadVars
    <2>2. ThreadsOK' /\ StoredOK' /\ UploadOK'
        BY <2>1 DEF IInv, Types, ThreadsOK, StoredOK, UploadOK, Before, RunUnchanged
    <2>3. Turns' /\ Sends'
        BY <2>1 DEF IInv, Turns, Sends, Linux, RunUnchanged, Before, After
    <2>4. Truth'
        BY <2>1, TruthKept DEF IInv
    <2> QED BY <2>1, <2>2, <2>3, <2>4, RunKeeps, RunFiles DEF IInv, Types
<1> QED BY <1>1, <1>2

LEMMA ClaimInv == ASSUME IInv, Claim PROVE IInv'
<1>1. /\ pc = "claim" /\ pc' = "scan" /\ claimed' \in BOOLEAN /\ RunUnchanged
      /\ UNCHANGED <<stored, delivered, tok, mem, mon, scanner, exit, fresh, scan, snap, full,
                     pend, outbox, events>>
    BY DEF Claim, Claimable, scanVars, uploadVars
<1>2. \/ UNCHANGED <<own, shared>>
      \/ \E r \in {Loaded.req, Loaded.syncReq} :
             /\ own' = [Loaded EXCEPT !.sync = "in_progress", !.syncReq = r]
             /\ shared' = [Loaded EXCEPT !.sync = "in_progress", !.syncReq = r]
    BY DEF Claim, SaveJoin
<1>3. Known(Loaded) /\ FilesOK /\ Issued \subseteq Req
    BY LoadedKnown, Numbers DEF IInv, Types
<1>4. FilesOK'
    BY <1>1, <1>2, <1>3, RunKeeps DEF FilesOK, Known, Join
<1>5. ThreadsOK' /\ StoredOK' /\ UploadOK'
    BY <1>1 DEF IInv, Types, ThreadsOK, StoredOK, UploadOK, Before, RunUnchanged
<1>6. Turns' /\ Sends'
    BY <1>1 DEF IInv, Turns, Sends, Linux, RunUnchanged, Before, After
<1>7. Truth'
    <2>1. \/ Sound(own)' /\ Sound(shared)'
          \/ own'.sync = "in_progress" /\ shared'.sync = "in_progress"
        BY <1>1, <1>2, <1>3 DEF IInv, Truth, Sound, Known, Join
    <2> QED BY <1>1, <2>1 DEF IInv, Truth, Sound, Turns, After
<1> QED BY <1>1, <1>4, <1>5, <1>6, <1>7, RunKeeps DEF IInv, Types

\* The threads of the scan, and the main thread while it waits for it.
LEMMA ScanInv ==
    ASSUME IInv, ScanStart \/ ScanEnd \/ ScanError \/ FallbackFails \/ Settle
    PROVE  IInv'
<1>1. /\ RunUnchanged
      /\ UNCHANGED <<stored, delivered, own, shared, tok, mem, mon, exit, fresh, claimed, full,
                     pend, outbox>>
      /\ UNCHANGED events \/ Event
    BY DEF ScanStart, ScanEnd, ScanError, FallbackFails, Settle, fileVars, enrolVars, uploadVars
<1>2. /\ \/ UNCHANGED pc
         \/ pc \in Before /\ pc' \in Before \cup {"settle"}
         \/ pc = "settle" /\ pc' = "running"
      /\ scanner' \in {"idle", "running", "done", "error"}
    BY DEF ScanStart, ScanEnd, ScanError, FallbackFails, Settle, Before, IInv, Types, ThreadsOK
<1>3. ThreadsOK' /\ UploadOK'
    BY <1>1, <1>2 DEF IInv, Types, ThreadsOK, UploadOK, RunUnchanged, After
<1>4. StoredOK'
    BY <1>1 DEF ScanStart, ScanEnd, ScanError, FallbackFails, Settle, scanVars, IInv, Types,
                StoredOK, RunUnchanged, Items
<1>5. Turns' /\ Sends'
    BY <1>1, <1>2 DEF IInv, Turns, Sends, Linux, RunUnchanged, Before, After
<1>6. Truth'
    BY <1>1, <1>2, TruthKept DEF IInv, Before
<1> QED BY <1>1, <1>3, <1>4, <1>5, <1>6, RunKeeps, RunFiles DEF IInv, Types

\* The complete inventory, or layer 0 alone.
LEMMA UploadBegins ==
    ASSUME IInv, ScanSeen \/ Fallback
    PROVE  IInv'
<1>1. /\ pc = "scanWait" /\ pc' = "upload" /\ RunUnchanged
      /\ UNCHANGED <<stored, delivered, own, shared, tok, mem, mon, scanner, exit, fresh, claimed,
                     scan, snap, pend, outbox>>
      /\ UNCHANGED events \/ Event
    BY DEF ScanSeen, Fallback, fileVars, enrolVars, scanVars
<1>2. PICK items \in SUBSET Items, fallback \in BOOLEAN :
          /\ full' = Upload("main", items, fallback)
          /\ fallback => items \subseteq Packages
    <2>1. CASE ScanSeen
        BY <2>1 DEF ScanSeen, IInv, Types, StoredOK
    <2>2. CASE Fallback
        <3>1. installed \cap Packages \in SUBSET Items
            BY DEF IInv, Types, StoredOK
        <3> QED BY <2>2, <3>1 DEF Fallback
    <2> QED BY <2>1, <2>2
<1>3. ThreadsOK' /\ StoredOK'
    BY <1>1 DEF IInv, Types, ThreadsOK, StoredOK, RunUnchanged
<1>4. UploadOK'
    BY <1>1, <1>2, BoundAssumption DEF Upload, IInv, Types, UploadOK, UploadType
<1>5. Turns' /\ Sends'
    BY <1>1, <1>2 DEF IInv, Turns, Sends, Upload, Sending, Before, After
<1>6. Truth'
    BY <1>1, <1>2, TruthKept DEF IInv, Upload
<1> QED BY <1>1, <1>3, <1>4, <1>5, <1>6, RunKeeps, RunFiles DEF IInv, Types

\* UploadOver and the monitor's retry end an upload; what was acknowledged stays.
LEMMA UploadOverInv == ASSUME IInv, UploadOver PROVE IInv'
<1>1. /\ pc = "upload" /\ full' = NoUpload /\ RunUnchanged
      /\ pc' = IF full.phase = "ok" /\ ~full.fallback THEN "finishOk" ELSE "finishFailed"
      /\ UNCHANGED <<stored, delivered, own, shared, tok, mem, mon, scanner, exit, fresh, claimed,
                     scan, outbox, events>>
    BY DEF UploadOver, fileVars, enrolVars
<1>2. ThreadsOK' /\ StoredOK'
    BY <1>1 DEF UploadOver, IInv, Types, ThreadsOK, StoredOK, UploadOK, UploadType, Sends,
                RunUnchanged, After
<1>3. UploadOK'
    BY <1>1, BoundAssumption
    DEF UploadOver, IInv, Types, UploadOK, UploadType, ThreadsOK, NoUpload, NothingPending, Sending
<1>4. Turns' /\ Sends'
    BY <1>1 DEF UploadOver, IInv, Turns, Sends, NoUpload, Sending, After
<1>5. Truth'
    BY <1>1 DEF IInv, Truth, Sound, Acknowledged, NoUpload
<1> QED BY <1>1, <1>2, <1>3, <1>4, <1>5, RunKeeps, RunFiles DEF IInv, Types

\* _finish_approval_sync stamps what is loaded and keeps its request.
LEMMA Finished ==
    ASSUME FilesOK, NEW ok \in BOOLEAN, Finish(ok) \/ UNCHANGED <<own, shared>>
    PROVE  \/ UNCHANGED <<own, shared>>
           \/ \E j \in {own, shared} : \E s \in {"complete", "failed"} :
                  /\ own' = [j EXCEPT !.sync = s] /\ shared' = [j EXCEPT !.sync = s]
                  /\ own'.sync = s /\ own'.syncReq = j.syncReq /\ own'.req = j.req
                  /\ own' \in Join /\ (s = "complete" <=> ok)
<1>1. Loaded \in {own, shared} /\ Loaded \in Join
    BY LoadedKnown DEF Known
<1>2. CASE Finish(ok) /\ Loaded.st = "approved"
    BY <1>1, <1>2 DEF Finish, SaveJoin, Join
<1>3. CASE Finish(ok) /\ Loaded.st # "approved"
    BY <1>3 DEF Finish
<1> QED BY <1>2, <1>3

LEMMA FinishInv == ASSUME IInv, FinishInitial PROVE IInv'
<1>1. /\ pc \in {"finishOk", "finishFailed"} /\ pc' = "settle" /\ RunUnchanged
      /\ UNCHANGED <<stored, delivered, tok, mem, mon, scanner, exit, fresh, claimed, scan, snap,
                     full, pend, outbox, events>>
      /\ Finish(pc = "finishOk") \/ UNCHANGED <<own, shared>>
    BY DEF FinishInitial, enrolVars, scanVars, uploadVars
<1>2. FilesOK /\ (pc = "finishOk") \in BOOLEAN
    BY DEF IInv, Types
<1>3. \/ UNCHANGED <<own, shared>>
      \/ \E j \in {own, shared} : \E s \in {"complete", "failed"} :
             /\ own' = shared' /\ own'.sync = s /\ own'.syncReq = j.syncReq /\ own'.req = j.req
             /\ own' \in Join /\ (s = "complete" <=> pc = "finishOk")
    BY <1>1, <1>2, Finished
<1>4. FilesOK'
    BY <1>1, <1>2, <1>3, RunKeeps DEF FilesOK, Known
<1>5. ThreadsOK' /\ StoredOK' /\ UploadOK'
    BY <1>1 DEF IInv, Types, ThreadsOK, StoredOK, UploadOK, After, RunUnchanged
<1>6. Turns' /\ Sends'
    BY <1>1 DEF IInv, Turns, Sends, Linux, RunUnchanged, Before, After
<1>7. Truth'
    <2>1. Sound(own)' /\ Sound(shared)' /\ Sound(fresh)'
        BY <1>1, <1>3 DEF IInv, Truth, Sound, Acknowledged
    <2>2. Acknowledged => Acknowledged'
        BY <1>1, <1>3 DEF Acknowledged
    <2> QED BY <1>1, <2>1, <2>2 DEF IInv, Truth
<1> QED BY <1>1, <1>4, <1>5, <1>6, <1>7, RunKeeps DEF IInv, Types

LEMMA RunInv == ASSUME IInv, RunInitial \/ Scanner PROVE IInv'
BY BeatInv, ClaimInv, ScanInv, UploadBegins, UploadOverInv, FinishInv DEF RunInitial, Scanner

-----------------------------------------------------------------------------
(* _sync_full_with_retry and _sync_complete_inventory                      *)

\* What every step of an upload leaves alone.
LEMMA UploadKeeps ==
    ASSUME IInv, UploadUnchanged, full.phase # "off", full' \in UploadType,
           full'.phase # "off", full'.fallback = full.fallback, full'.items = full.items,
           stored' \subseteq Items, delivered' \subseteq Req, UNCHANGED events \/ Event,
           delivered \subseteq delivered', Sends',
           full'.phase = "ok" /\ ~full'.fallback =>
               (full.phase = "ok" /\ ~full.fallback) \/ srv.req \in delivered'
    PROVE  IInv'
<1> USE DEF IInv, Types
<1>1. UNCHANGED <<own, shared, tok, mem, pc, mon, scanner, exit, fresh, claimed, scan, snap,
                  pend, outbox, platform, code, limit, srv, stopping, installed>>
    BY DEF UploadUnchanged, RunUnchanged, fileVars, enrolVars, scanVars
<1>2. SettingsOK' /\ ThreadsOK' /\ StoredOK' /\ UploadOK' /\ FilesOK'
    BY <1>1, FilesKept, Numbers DEF SettingsOK, ThreadsOK, StoredOK, UploadOK
<1>3. BackendOK'
    BY <1>1, Numbers DEF BackendOK, Event
<1>4. Turns'
    BY <1>1 DEF Turns
<1>5. Truth'
    <2>1. Sound(own)' /\ Sound(shared)' /\ Sound(fresh)'
        BY <1>1 DEF Truth, Sound
    <2>2. Acknowledged => Acknowledged'
        BY <1>1 DEF Acknowledged
    <2>3. srv.req \in delivered' => Acknowledged'
        BY <1>1, Numbers DEF Acknowledged, FilesOK, Known, Issued
    <2> QED BY <1>1, <2>1, <2>2, <2>3 DEF Truth
<1> QED BY <1>2, <1>3, <1>4, <1>5

LEMMA FailsShape ==
    ASSUME full \in UploadType, full.left # 0, AttemptFails
    PROVE  /\ full' \in UploadType /\ full'.phase = "pause"
           /\ full'.fallback = full.fallback /\ full'.items = full.items
<1>1. full.left \in 0..Attempts /\ Attempts \in Nat /\ {} \in SUBSET Items
    BY BoundAssumption DEF UploadType
<1>2. full.left - 1 \in 0..Attempts
    BY <1>1
<1>3. full' = [full EXCEPT !.phase = "pause", !.left = full.left - 1, !.rest = {}]
    BY DEF AttemptFails
<1> QED BY <1>1, <1>2, <1>3 DEF UploadType

\* Not acknowledged.
LEMMA FailsInv ==
    ASSUME IInv, UploadUnchanged, full.phase \in Sending, AttemptFails,
           stored' \subseteq Items, UNCHANGED delivered, UNCHANGED events \/ Event
    PROVE  IInv'
<1>1. full \in UploadType /\ full.left # 0 /\ delivered \subseteq Req
    BY DEF IInv, Types, UploadOK, Sends, BackendOK
<1>2. /\ full' \in UploadType /\ full'.phase = "pause"
      /\ full'.fallback = full.fallback /\ full'.items = full.items
    BY <1>1, FailsShape
<1>3. Sends'
    BY <1>2 DEF IInv, Sends, Sending
<1> QED BY <1>1, <1>2, <1>3, UploadKeeps DEF Sending

\* Acknowledged: the backend accepts a request only under its latest number.
LEMMA SucceedsInv ==
    ASSUME IInv, UploadUnchanged, full.phase \in Sending, AttemptSucceeds, Accepted,
           stored' \subseteq Items, UNCHANGED events
    PROVE  IInv'
<1>1. full \in UploadType /\ delivered \subseteq Req /\ mem = srv.req /\ mem \in Req
    BY Numbers DEF IInv, Types, UploadOK, BackendOK, FilesOK, Accepted
<1>2. /\ full' \in UploadType /\ full'.phase = "ok"
      /\ full'.fallback = full.fallback /\ full'.items = full.items
    BY <1>1 DEF AttemptSucceeds, UploadType
<1>3. /\ delivered \subseteq delivered' /\ delivered' \subseteq Req
      /\ ~full.fallback => srv.req \in delivered'
    BY <1>1 DEF AttemptSucceeds
<1>4. Sends'
    BY <1>2 DEF IInv, Sends, Sending
<1> QED BY <1>1, <1>2, <1>3, <1>4, UploadKeeps DEF Sending

LEMMA AttemptInv == ASSUME IInv, Attempt PROVE IInv'
<1>1. /\ full \in UploadType /\ stored \subseteq Items /\ delivered \subseteq Req
      /\ full.phase = "pause" /\ UploadUnchanged /\ UNCHANGED <<stored, delivered, events>>
    BY DEF IInv, Types, UploadOK, StoredOK, BackendOK, Attempt
<1>2. /\ full' \in UploadType /\ full'.phase \notin {"off", "ok", "rest"}
      /\ full'.fallback = full.fallback /\ full'.items = full.items
      /\ full'.phase \in Sending => full'.left # 0
      /\ full'.phase = "first" => full'.rest = full'.items
    <2>1. full.left \in 0..Attempts /\ Attempts \in Nat
        BY <1>1, BoundAssumption DEF UploadType
    <2>2. CASE full' = [full EXCEPT !.phase = "failed"]
        BY <1>1, <2>2 DEF UploadType, Sending
    <2>3. CASE full.left # 0 /\ full' = [full EXCEPT !.left = @ - 1]
        BY <1>1, <2>1, <2>3 DEF UploadType, Sending
    <2>4. CASE full.left # 0 /\ full' = [full EXCEPT !.phase = "first", !.rest = full.items]
        BY <1>1, <2>4 DEF UploadType, Sending
    <2>5. CASE full.left # 0 /\ full' = [full EXCEPT !.phase = "whole"]
        BY <1>1, <2>5 DEF UploadType, Sending
    <2> QED BY <2>2, <2>3, <2>4, <2>5 DEF Attempt
<1>3. Sends'
    BY <1>2 DEF IInv, Sends
<1> QED BY <1>1, <1>2, <1>3, UploadKeeps

\* A request that was too large, or is taken for one, is sent again in pieces.
LEMMA SplitsInv ==
    ASSUME IInv, UploadUnchanged, full.phase = "whole",
           full' = [full EXCEPT !.phase = "first", !.rest = full.items],
           stored' \subseteq Items, UNCHANGED delivered, UNCHANGED events \/ Event
    PROVE  IInv'
<1>1. full \in UploadType /\ delivered \subseteq Req /\ full.left # 0
    BY DEF IInv, Types, UploadOK, BackendOK, Sends, Sending
<1>2. /\ full' \in UploadType /\ full'.phase = "first" /\ full'.left = full.left
      /\ full'.fallback = full.fallback /\ full'.items = full.items /\ full'.rest = full.items
    BY <1>1 DEF UploadType, Sending
<1>3. Sends'
    BY <1>1, <1>2 DEF IInv, Sends
<1> QED BY <1>1, <1>2, <1>3, UploadKeeps

\* What a request may leave behind in the backend.
LEMMA AppliedType ==
    ASSUME IInv, full.phase \in Sending
    PROVE  /\ stored \subseteq Items /\ Replaced(full.items) \subseteq Items
           /\ \A p \in Pieces : /\ p \subseteq full.rest /\ p \subseteq Items
                                /\ Replaced(p) \subseteq Items /\ stored \cup p \subseteq Items
<1>1. stored \subseteq Items /\ full.items \subseteq Items /\ full.rest \subseteq Items
    BY DEF IInv, Types, StoredOK, UploadOK, UploadType
<1>2. \A p \in Pieces : p \subseteq full.rest
    BY DEF Pieces
<1> QED BY <1>1, <1>2 DEF Replaced

LEMMA WholeInv == ASSUME IInv, SendWhole \/ WholeUnanswered PROVE IInv'
<1>1. full.phase = "whole" /\ full.phase \in Sending /\ UploadUnchanged
    BY DEF SendWhole, WholeUnanswered, Sending
<1>2. stored' \subseteq Items /\ (UNCHANGED events \/ Event)
    BY <1>1, AppliedType DEF SendWhole, WholeUnanswered
<1>3. \/ AttemptFails /\ UNCHANGED delivered
      \/ /\ full' = [full EXCEPT !.phase = "first", !.rest = full.items]
         /\ UNCHANGED delivered
      \/ AttemptSucceeds /\ Accepted /\ UNCHANGED events
    BY DEF SendWhole, WholeUnanswered
<1> QED BY <1>1, <1>2, <1>3, FailsInv, SplitsInv, SucceedsInv

LEMMA PieceInv == ASSUME IInv, SendPiece \/ PieceUnanswered PROVE IInv'
<1>1. full.phase \in {"first", "rest"} /\ full.phase \in Sending /\ UploadUnchanged
    BY DEF SendPiece, PieceUnanswered, Sending
<1>2. stored' \subseteq Items /\ (UNCHANGED events \/ Event)
    BY <1>1, AppliedType DEF SendPiece, PieceUnanswered
<1>3. CASE AttemptFails /\ UNCHANGED delivered
    BY <1>1, <1>2, <1>3, FailsInv
<1>4. CASE AttemptSucceeds /\ Accepted /\ UNCHANGED events
    BY <1>1, <1>2, <1>4, SucceedsInv
<1>5. ASSUME NEW p \in Pieces, SendPiece, UNCHANGED <<delivered, events>>,
             stored' = IF full.phase = "first" THEN Replaced(p) ELSE stored \cup p,
             full' = [full EXCEPT !.phase = "rest", !.rest = @ \ p]
      PROVE  IInv'
    <2>1. full \in UploadType /\ delivered \subseteq Req /\ full.left # 0 /\ Sends
        BY <1>1 DEF IInv, Types, UploadOK, BackendOK, Sends
    <2>2. /\ full' \in UploadType /\ full'.phase = "rest" /\ full'.left = full.left
          /\ full'.fallback = full.fallback /\ full'.items = full.items
          /\ full'.rest = full.rest \ p /\ p \subseteq full.rest
        BY <1>1, <1>5, <2>1, AppliedType DEF UploadType, Sending
    <2>3. UNCHANGED platform
        BY <1>1 DEF UploadUnchanged, RunUnchanged
    <2>4. ~Linux /\ ~full.fallback => stored' \cup full'.rest = full'.items
        BY <1>1, <1>5, <2>1, <2>2 DEF Sends, Replaced
    <2>5. Sends'
        BY <2>1, <2>2, <2>3, <2>4 DEF Sends, Linux
    <2> QED BY <1>1, <1>2, <1>5, <2>1, <2>2, <2>5, UploadKeeps
<1> QED BY <1>3, <1>4, <1>5 DEF SendPiece, PieceUnanswered

LEMMA UploadInv == ASSUME IInv, Uploading PROVE IInv'
BY AttemptInv, WholeInv, PieceInv DEF Uploading

-----------------------------------------------------------------------------
(* _monitor_loop                                                           *)

\* What every step of the monitor leaves alone.
LEMMA MonitorKeeps ==
    ASSUME IInv, MonitorUnchanged, UNCHANGED events \/ Event,
           stored' \subseteq Items, snap' \subseteq Packages, UploadOK',
           mon' \in {"run", "retry", "send", "dead"}
    PROVE  SettingsOK' /\ BackendOK' /\ ThreadsOK' /\ StoredOK' /\ UploadOK'
<1> USE DEF IInv, Types
<1>1. UNCHANGED <<platform, code, limit, srv, delivered, pc, scanner, exit, stopping, fresh,
                  claimed, installed, scan>>
    BY DEF MonitorUnchanged, enrolVars
<1> QED BY <1>1, BackendKept DEF SettingsOK, ThreadsOK, StoredOK

LEMMA MonitorRetriesInv == ASSUME IInv, MonitorRetries PROVE IInv'
<1>1. /\ mon = "run" /\ mon' = "retry" /\ pend.on /\ full.phase = "off" /\ MonitorUnchanged
      /\ UNCHANGED <<stored, own, shared, tok, mem, snap, pend, outbox, events>>
      /\ UNCHANGED <<platform, srv, delivered, pc, fresh>>
      /\ full' = Upload("monitor", pend.items, FALSE)
    BY DEF MonitorRetries, MonitorUnchanged, fileVars, enrolVars
<1>2. pend.items \in SUBSET Items /\ stored \subseteq Items /\ snap \subseteq Packages
    BY DEF IInv, Types, UploadOK, StoredOK
<1>3. UploadOK'
    BY <1>1, <1>2, BoundAssumption DEF Upload, IInv, Types, UploadOK, UploadType
<1>4. Turns' /\ Sends'
    BY <1>1 DEF IInv, Turns, Sends, Upload, Sending, After
<1>5. Truth'
    BY <1>1, TruthKept DEF IInv, Upload
<1>6. FilesOK'
    BY <1>1, FilesKept, Numbers DEF IInv, Types
<1> QED BY <1>1, <1>2, <1>3, <1>4, <1>5, <1>6, MonitorKeeps DEF IInv, Types

\* What the retry completes was acknowledged for the request it is written for.
LEMMA MonitorRetriedInv == ASSUME IInv, MonitorRetried PROVE IInv'
<1>1. /\ mon = "retry" /\ mon' = "run" /\ full.phase \in {"ok", "failed"} /\ full' = NoUpload
      /\ MonitorUnchanged
      /\ UNCHANGED <<stored, tok, mem, snap, outbox, events>>
      /\ UNCHANGED <<platform, srv, delivered, pc, fresh>>
      /\ pend' \in {pend, NothingPending}
    BY DEF MonitorRetried, MonitorUnchanged, enrolVars
<1>2. (full.phase = "ok" /\ Finish(TRUE)) \/ UNCHANGED <<own, shared>>
    BY DEF MonitorRetried
<1>3. FilesOK /\ stored \subseteq Items /\ snap \subseteq Packages
    BY DEF IInv, Types, StoredOK
<1>4. \/ UNCHANGED <<own, shared>>
      \/ /\ full.phase = "ok"
         /\ \E j \in {own, shared} :
                /\ own' = shared' /\ own'.syncReq = j.syncReq /\ own'.req = j.req
                /\ own' \in Join
    BY <1>2, <1>3, Finished
<1>5. UploadOK'
    <2>1. NoUpload \in UploadType
        BY BoundAssumption DEF UploadType, NoUpload
    <2>2. NothingPending \in [on : BOOLEAN, items : SUBSET Items, approval : BOOLEAN]
        BY DEF NothingPending
    <2> QED BY <1>1, <2>1, <2>2 DEF IInv, Types, UploadOK
<1>6. FilesOK'
    BY <1>1, <1>3, <1>4 DEF FilesOK, Known, Issued
<1>7. Turns' /\ Sends'
    BY <1>1 DEF IInv, Turns, Sends, NoUpload, NothingPending, Sending, After
<1>8. Truth'
    <2>1. full.phase = "ok" => Acknowledged
        BY <1>1 DEF IInv, Turns, Truth
    <2>2. Sound(own)' /\ Sound(shared)' /\ Sound(fresh)'
        BY <1>1, <1>4, <2>1 DEF IInv, Truth, Sound, Acknowledged
    <2>3. Acknowledged => Acknowledged'
        BY <1>1, <1>4 DEF Acknowledged
    <2> QED BY <1>1, <2>2, <2>3 DEF IInv, Truth, NoUpload
<1> QED BY <1>1, <1>3, <1>5, <1>6, <1>7, <1>8, MonitorKeeps DEF IInv, Types

LEMMA MonitorUnlinkedInv == ASSUME IInv, MonitorUnlinked PROVE IInv'
<1>1. /\ mon = "run" /\ mon' = "dead" /\ MonitorUnchanged
      /\ own' = NoJoin /\ shared' = NoJoin /\ tok' = 0 /\ mem' = 0
      /\ UNCHANGED <<stored, snap, full, pend, outbox, events>>
      /\ UNCHANGED <<platform, srv, delivered, pc, fresh>>
    BY DEF MonitorUnlinked, WipeFiles, MonitorUnchanged, uploadVars, enrolVars
<1>2. stored \subseteq Items /\ snap \subseteq Packages /\ UploadOK'
    BY <1>1 DEF IInv, Types, StoredOK, UploadOK
<1>3. FilesOK'
    BY <1>1, NoJoinKnown, Numbers DEF IInv, Types, FilesOK, Known, Issued
<1>4. Turns' /\ Sends'
    BY <1>1 DEF IInv, Turns, Sends, Linux
<1>5. Truth'
    <2>1. Acknowledged => Acknowledged'
        BY <1>1, Numbers DEF Acknowledged, NoJoin, IInv, Types, BackendOK, FilesOK, Known, Req
    <2> QED BY <1>1, <2>1, NoJoinKnown DEF IInv, Truth, Types, Sound, NoJoin
<1> QED BY <1>1, <1>2, <1>3, <1>4, <1>5, MonitorKeeps DEF IInv, Types

\* A delta waits for the pieces of macOS, and changes no file.
LEMMA DeltaInv == ASSUME IInv, MonitorScans \/ MonitorSends PROVE IInv'
<1>1. /\ mon \in {"run", "send"} /\ mon' \in {"run", "send"} /\ MonitorUnchanged
      /\ UNCHANGED <<own, shared, tok, mem, full, pend>>
      /\ UNCHANGED <<platform, srv, delivered, pc, fresh>>
      /\ UNCHANGED events \/ Event
    BY DEF MonitorScans, MonitorSends, fileVars, MonitorUnchanged, enrolVars
<1>2. /\ stored \subseteq Items /\ snap \subseteq Packages /\ installed \subseteq Items
      /\ outbox \in [add : SUBSET Packages, del : SUBSET Packages]
    BY DEF IInv, Types, StoredOK, UploadOK
<1>3. stored' \subseteq Items /\ snap' \subseteq Packages
    BY <1>1, <1>2 DEF MonitorScans, MonitorSends, Items
<1>4. UploadOK'
    BY <1>1, <1>2 DEF MonitorScans, MonitorSends, NoDelta, IInv, Types, UploadOK
<1>5. FilesOK'
    BY <1>1, FilesKept, Numbers DEF IInv, Types
<1>6. Turns'
    BY <1>1 DEF IInv, Turns
<1>7. Sends'
    BY <1>1 DEF MonitorScans, MonitorSends, Locked, IInv, Sends, Linux
<1>8. Truth'
    BY <1>1, TruthKept DEF IInv
<1> QED BY <1>1, <1>3, <1>4, <1>5, <1>6, <1>7, <1>8, MonitorKeeps DEF IInv, Types

LEMMA MonitorInv == ASSUME IInv, Monitor PROVE IInv'
BY MonitorRetriesInv, MonitorRetriedInv, MonitorUnlinkedInv, DeltaInv DEF Monitor

-----------------------------------------------------------------------------
(* The specification                                                       *)

LEMMA InitInv == Init => IInv
<1> SUFFICES ASSUME Init PROVE IInv
    OBVIOUS
<1>1. SettingsOK /\ ThreadsOK /\ StoredOK
    BY DEF Init, SettingsOK, ThreadsOK, StoredOK, Before
<1>2. BackendOK
    BY BoundAssumption DEF Init, BackendOK, Statuses, Settled
<1>3. FilesOK
    BY <1>2, NoJoinKnown, Numbers DEF Init, FilesOK
<1>4. UploadOK
    BY BoundAssumption DEF Init, UploadOK, UploadType, NoUpload, NothingPending, NoDelta
<1>5. Turns /\ Sends
    BY DEF Init, Turns, Sends, NoUpload, NothingPending, Sending
<1>6. Truth
    BY DEF Init, Truth, Sound, NoUpload, NoJoin
<1> QED BY <1>1, <1>2, <1>3, <1>4, <1>5, <1>6 DEF IInv, Types

LEMMA NextInv == IInv /\ [Next]_vars => IInv'
<1> SUFFICES ASSUME IInv, [Next]_vars PROVE IInv'
    OBVIOUS
<1>1. CASE UNCHANGED vars
    BY <1>1 DEF vars, backendVars, fileVars, threadVars, enrolVars, scanVars, uploadVars, IInv,
                Types, SettingsOK, BackendOK, FilesOK, ThreadsOK, StoredOK, UploadOK, Turns, Sends,
                Truth, Known, Issued, Sound, Acknowledged, Linux
<1>2. CASE Next
    BY <1>2, OutsideInv, ProcessInv, AuthenticateInv, RunInv, UploadInv, MonitorInv DEF Next
<1> QED BY <1>1, <1>2

\* The history of erased tokens holds nothing but what a token was.
LEMMA ErasedNext ==
    ASSUME IInv, [Next]_vars, erased \in Req
    PROVE  erased' \in Req
<1>1. CASE UNCHANGED vars
    BY <1>1 DEF vars
<1>2. CASE GuiApproved
    BY <1>2, Numbers DEF GuiApproved, IInv, Types
<1>3. CASE AuthRejected
    BY <1>3, Numbers DEF AuthRejected, IInv, Types, FilesOK
<1>4. CASE Outside /\ ~GuiApproved
    BY <1>4 DEF Outside, Install, Approve, Deny, GuiRequest, GuiIndividual, GuiWipe, Signal
<1>5. CASE Crash \/ Respawn \/ StartAgain \/ Leave
    BY <1>5 DEF Crash, Respawn, StartAgain, Leave
<1>6. CASE Authenticate /\ ~AuthRejected
    BY <1>6 DEF Authenticate, AuthValid, AuthUnlinked, NoToken, Resume, PollApproved, Merge,
                PollRefused, WaitOver, Enrol, EnrolFails, Retry
<1>7. CASE RunInitial \/ Scanner
    BY <1>7 DEF RunInitial, FirstBeat, BeatUnanswered, Claim, ScanStart, ScanSeen, Fallback,
                FallbackFails, UploadOver, FinishInitial, Settle, Scanner, ScanEnd, ScanError,
                RunUnchanged
<1>8. CASE Uploading
    BY <1>8 DEF Uploading, Attempt, SendWhole, WholeUnanswered, SendPiece, PieceUnanswered,
                UploadUnchanged, RunUnchanged
<1>9. CASE Monitor
    BY <1>9 DEF Monitor, MonitorRetries, MonitorRetried, MonitorUnlinked, MonitorScans,
                MonitorSends, MonitorUnchanged
<1> QED BY <1>1, <1>2, <1>3, <1>4, <1>5, <1>6, <1>7, <1>8, <1>9 DEF Next

LEMMA InvTypes == IInv /\ erased \in Req => TypeOK
<1> SUFFICES ASSUME IInv, erased \in Req PROVE TypeOK
    OBVIOUS
<1> USE DEF IInv, Types
<1>1. srv \in [req : Req, status : {"none", "pending", "approved", "denied", "unlinked"}]
    BY Numbers DEF BackendOK, Statuses
<1>2. {own, shared, fresh} \subseteq Join /\ {tok, mem} \subseteq Req
    BY Numbers DEF FilesOK, Known
<1>3. full \in [phase : {"off", "pause", "whole", "first", "rest", "ok", "failed"},
                by : {"main", "monitor"}, left : 0..Attempts, items : SUBSET Items,
                rest : SUBSET Items, fallback : BOOLEAN]
    BY DEF UploadOK, UploadType, Sending
<1>4. pc \in {"off", "auth", "resume", "poll", "merge", "wait", "enrol", "joinPoll", "retry",
              "beat", "claim", "scan", "scanWait", "upload", "finishOk", "finishFailed",
              "settle", "running"}
    BY DEF ThreadsOK, Before, After
<1> QED BY <1>1, <1>2, <1>3, <1>4 DEF TypeOK, SettingsOK, BackendOK, ThreadsOK, StoredOK, UploadOK

LEMMA InvTruth == IInv => CompleteMeansAcknowledged
BY LoadedKnown DEF IInv, Types, Truth, Sound, CompleteMeansAcknowledged

\* While an attempt is under way the other steps leave it alone or end it, and on
\* macOS none of them changes what the backend holds.
LEMMA Elsewhere ==
    ASSUME Next, ~Uploading, full.phase \in Sending
    PROVE  /\ UNCHANGED full \/ full'.phase \in {"off", "pause"}
           /\ UNCHANGED stored \/ ~Locked
<1>1. CASE Outside
    BY <1>1 DEF Outside, Install, Approve, Deny, GuiRequest, GuiIndividual, GuiApproved, GuiWipe,
                Signal, OutsideUnchanged, uploadVars
<1>2. CASE Crash \/ Respawn \/ StartAgain \/ Leave
    BY <1>2 DEF Crash, Respawn, StartAgain, Leave, Reset, NoUpload, backendVars, uploadVars
<1>3. CASE Authenticate
    BY <1>3 DEF Authenticate, AuthValid, AuthUnlinked, AuthRejected, NoToken, Resume, PollApproved,
                Merge, PollRefused, WaitOver, Enrol, EnrolFails, Retry, EnrolUnchanged, uploadVars
<1>4. CASE RunInitial \/ Scanner
    <2>1. CASE FirstBeat \/ BeatUnanswered \/ Claim
        BY <2>1 DEF FirstBeat, BeatUnanswered, Claim, Reset, NoUpload, uploadVars
    <2>2. CASE ScanStart \/ ScanSeen \/ Fallback \/ FallbackFails \/ UploadOver \/ FinishInitial
               \/ Settle \/ Scanner
        BY <2>2 DEF ScanStart, ScanSeen, Fallback, FallbackFails, UploadOver, FinishInitial, Settle,
                    Scanner, ScanEnd, ScanError, Upload, NoUpload, uploadVars
    <2> QED BY <1>4, <2>1, <2>2 DEF RunInitial
<1>5. CASE Monitor
    BY <1>5 DEF Monitor, MonitorRetries, MonitorRetried, MonitorUnlinked, MonitorScans,
                MonitorSends, Upload, NoUpload, Sending, uploadVars
<1> QED BY <1>1, <1>2, <1>3, <1>4, <1>5 DEF Next

\* Only the last piece of an upload makes it succeed from there.
LEMMA LastPiece ==
    ASSUME IInv, Next, ~Linux, full.phase = "rest", full'.phase = "ok", ~full.fallback
    PROVE  stored' = full.items
<1>1. Uploading
    BY Elsewhere DEF Sending
<1>2. full \in UploadType
    BY DEF IInv, Types, UploadOK
<1>3. AttemptFails => full'.phase = "pause"
    BY <1>2 DEF AttemptFails, UploadType
<1>4. SendPiece
    BY <1>1, <1>3 DEF Uploading, Attempt, SendWhole, WholeUnanswered, PieceUnanswered
<1>5. PICK p \in Pieces :
          /\ stored' = stored \cup p
          /\ p = full.rest \/ full' = [full EXCEPT !.phase = "rest", !.rest = @ \ p]
    BY <1>3, <1>4 DEF SendPiece
<1>6. p = full.rest
    BY <1>2, <1>5 DEF UploadType
<1> QED BY <1>5, <1>6 DEF IInv, Sends

\* On macOS the backend adds what it is sent as a part.
LEMMA PartStep == ASSUME Next, Locked, full.fallback PROVE stored \subseteq stored'
<1>1. CASE Uploading
    <2>1. \A items : stored \subseteq Replaced(items)
        BY DEF Locked, Replaced
    <2> QED BY <1>1, <2>1
            DEF Uploading, Attempt, SendWhole, WholeUnanswered, SendPiece, PieceUnanswered
<1>2. CASE ~Uploading
    BY <1>2, Elsewhere DEF Locked, Sending
<1> QED BY <1>1, <1>2

-----------------------------------------------------------------------------
(* Results                                                                 *)

\* Every variable of the agents keeps its type: in particular no file, thread
\* or token names a request that was never made, and requests are made at most
\* one more often than outside events happen (Req), whatever restarts, lost
\* answers and the GUI do.
THEOREM AgentTypesHold == Spec => []TypeOK
<1>1. Init => IInv /\ erased \in Req
    BY InitInv, BoundAssumption DEF Init, Req
<1>2. IInv /\ erased \in Req /\ [Next]_vars => IInv' /\ erased' \in Req
    BY NextInv, ErasedNext
<1>3. IInv /\ erased \in Req => TypeOK
    BY InvTypes
<1>4. (erased \in Req)' <=> erased' \in Req
    BY DEF Req
<1> QED BY <1>1, <1>2, <1>3, <1>4, PTL DEF Spec

\* A join state whose sync is complete, which the daemon will not claim again,
\* was completed after a complete inventory was acknowledged under its request
\* or a later one (_finish_approval_sync, called by run and by the monitor).
THEOREM CompletionsAreAcknowledged == Spec => []CompleteMeansAcknowledged
<1>1. Init => IInv
    BY InitInv
<1>2. IInv /\ [Next]_vars => IInv'
    BY NextInv
<1>3. IInv => CompleteMeansAcknowledged
    BY InvTruth
<1> QED BY <1>1, <1>2, <1>3, PTL DEF Spec

\* macOS: an inventory acknowledged piece by piece leaves exactly the scanned
\* items in the backend, for every limit and every choice of the pieces: the
\* monitor's deltas wait for _inventory_sync_lock.
THEOREM PiecesAreTheWhole == Spec => PiecesMakeTheWhole
<1>1. Init => IInv
    BY InitInv
<1>2. IInv /\ [Next]_vars => IInv'
    BY NextInv
<1>3. IInv /\ [Next]_vars
      => [~Linux /\ full.phase = "rest" /\ full'.phase = "ok" /\ ~full.fallback
            => stored' = full.items]_vars
    BY LastPiece
<1> QED BY <1>1, <1>2, <1>3, PTL DEF Spec, PiecesMakeTheWhole

\* macOS: while the partial inventory of a failed scan is sent, in one request
\* or in pieces, acknowledged or not, the backend loses nothing
\* (inventory_scope, _inventory_sync_lock).
THEOREM PartialTakesNothing == Spec => PartialKeepsTheRest
<1>1. [Next]_vars => [Locked /\ full.fallback => stored \subseteq stored']_vars
    BY PartStep
<1> QED BY <1>1, PTL DEF Spec, PartialKeepsTheRest

-----------------------------------------------------------------------------
(* Startup: who starts the daemon, and who keeps a second one out          *)

(* Types                                                                   *)

Machine == [platform : {"linux", "macos"}, gui : Users, hand : Users]
Unit == [file : BOOLEAN, on : BOOLEAN]
LockFile == [ino : Nat, last : Nat, pid : {"none", "live", "stale"}, may : BOOLEAN]
Codes == {"off", "start", "lock", "opened", "held", "run", "linger"}
Local == [pc : Codes, ino : Nat, lock : BOOLEAN, gone : BOOLEAN]
Window0 == [pc : {"off", "open", "probe", "spawn"}, closing : BOOLEAN, cool : BOOLEAN]
Reasons == {"incident", "cooldown", "unfit", "reused"}

UnitsOK == unit \in [Services -> Unit] /\ due \subseteq Services
GuiOK == gui \in Window0
RestOK == /\ open \in BOOLEAN /\ early \in BOOLEAN
          /\ lost \subseteq Reasons /\ incidents \in 0..MaxIncidents
MachineOK == machine \in Machine

\* A process has opened no lock file before it comes to that, and holds none
\* that it has not opened.
Fresh == {"off", "start", "lock"}
ProcFits(ps) ==
    /\ ps \in [Procs -> Local]
    /\ \A p \in Procs : /\ ps[p].lock => ps[p].ino # 0
                        /\ ps[p].pc \in Fresh => ps[p].ino = 0 /\ ~ps[p].lock
                        /\ ps[p].pc = "opened" => ps[p].ino # 0

\* Each wipe is one of the n incidents, and a lock file is made anew only after one.
DirFits(at, n) ==
    /\ at \in [Paths -> LockFile]
    /\ \A d \in Paths : /\ at[d].ino <= at[d].last
                        /\ at[d].last <= n + 1
                        /\ at[d].ino = 0 => at[d].last <= n

\* A process has open the lock file of its directory, unless a wipe removed it;
\* no two processes hold the same one.
OpensOwn(at, ps) ==
    \A p \in Procs : /\ ps[p].ino <= at[Path(Uid(p))].last
                     /\ ps[p].ino # 0 /\ ~ps[p].gone => ps[p].ino = at[Path(Uid(p))].ino
HoldsAlone(ps) ==
    \A p, q \in Procs :
        p # q /\ ps[p].lock /\ ps[q].lock /\ Path(Uid(p)) = Path(Uid(q)) =>
            ps[p].ino # ps[q].ino
LocksFit(at, ps) == OpensOwn(at, ps) /\ HoldsAlone(ps)

\* The window starts its daemon after it has seen none.
SpawnsOnce == gui.pc = "spawn" => proc["gui"].pc = "off"

Locks == ProcFits(proc) /\ DirFits(dir, incidents) /\ LocksFit(dir, proc) /\ SpawnsOnce
Settings == MachineOK /\ UnitsOK /\ GuiOK /\ RestOK
StartupInv == Settings /\ Locks

LEMMA PathType == MachineOK => \A p \in Procs : Uid(p) \in Users /\ Path(Uid(p)) \in Paths
BY DEF MachineOK, Machine, Path, Paths, Uid, Procs, Services, Users

LEMMA UserPath == \A u \in Users : Path(u) \in Paths /\ Service(u) \in Services
BY DEF Path, Paths, Service, Services, Users

LEMMA HomeType == MachineOK => machine.gui \in Users /\ Home \in Paths
BY UserPath DEF MachineOK, Machine, Home

LEMMA Names == /\ "system" \in Services /\ "user" \in Services /\ Services \subseteq Procs
               /\ "gui" \in Procs /\ "hand" \in Procs
BY DEF Services, Procs

LEMMA OffType == Off \in Local /\ Off.pc = "off" /\ Off.ino = 0 /\ Off.lock = FALSE
BY DEF Off, Local, Codes

-----------------------------------------------------------------------------
(* What the steps do to lock files and processes                           *)

LEMMA MoreEvents ==
    ASSUME NEW at, NEW n \in Nat, DirFits(at, n)
    PROVE  DirFits(at, n + 1)
BY DEF DirFits, LockFile

\* Processes end.
LEMMA EndsFit ==
    ASSUME Locks, MachineOK, NEW ps
    PROVE  /\ ProcFits(Ends(ps)) /\ DirFits(Left(ps), incidents)
           /\ LocksFit(Left(ps), Ends(ps))
           /\ \A p \in Procs : Ends(ps)[p] \in {Off, proc[p]}
<1> USE DEF Locks
<1>1. \A p \in Procs : Ends(ps)[p] \in {Off, proc[p]}
    BY DEF Ends
<1>2. \A p \in Procs : proc[p] \in Local
    BY DEF ProcFits
<1>3. ProcFits(Ends(ps))
    <2>1. Ends(ps) = [p \in Procs |-> Ends(ps)[p]]
        BY DEF Ends
    <2> QED
        BY <1>1, <1>2, <2>1, OffType DEF ProcFits
<1>4. \A d \in Paths : /\ Left(ps)[d] \in LockFile
                       /\ Left(ps)[d].ino = dir[d].ino /\ Left(ps)[d].last = dir[d].last
    <2> TAKE d \in Paths
    <2>1. dir[d] \in LockFile
        BY DEF DirFits
    <2>2. Left(ps)[d] \in {dir[d], [dir[d] EXCEPT !.pid = "stale"]}
        BY DEF Left
    <2> QED
        BY <2>1, <2>2 DEF LockFile
<1>5. DirFits(Left(ps), incidents)
    <2>1. Left(ps) = [d \in Paths |-> Left(ps)[d]]
        BY DEF Left
    <2> QED
        BY <1>4, <2>1 DEF DirFits
<1>6. OpensOwn(Left(ps), Ends(ps))
    <2> SUFFICES ASSUME NEW p \in Procs
                 PROVE  /\ Ends(ps)[p].ino <= Left(ps)[Path(Uid(p))].last
                        /\ Ends(ps)[p].ino # 0 /\ ~Ends(ps)[p].gone =>
                             Ends(ps)[p].ino = Left(ps)[Path(Uid(p))].ino
        BY DEF OpensOwn
    <2>1. /\ Left(ps)[Path(Uid(p))].ino = dir[Path(Uid(p))].ino
          /\ Left(ps)[Path(Uid(p))].last = dir[Path(Uid(p))].last
          /\ dir[Path(Uid(p))].last \in Nat
        BY <1>4, PathType DEF DirFits, LockFile
    <2>2. CASE Ends(ps)[p] = Off
        BY <2>1, <2>2, OffType
    <2>3. CASE Ends(ps)[p] = proc[p]
        BY <2>1, <2>3 DEF LocksFit, OpensOwn
    <2> QED
        BY <1>1, <2>2, <2>3
<1>7. HoldsAlone(Ends(ps))
    BY <1>1, OffType DEF LocksFit, HoldsAlone
<1> QED
    BY <1>1, <1>3, <1>5, <1>6, <1>7 DEF LocksFit

\* A state directory is wiped, whoever holds its lock file.
LEMMA WipeFits ==
    ASSUME MachineOK, NEW at, NEW ps, NEW n \in Nat, NEW d \in Paths,
           ProcFits(ps), DirFits(at, n), LocksFit(at, ps)
    PROVE  /\ DirFits(Wiped(at, d), n + 1)
           /\ ProcFits(Orphaned(ps, d)) /\ LocksFit(Wiped(at, d), Orphaned(ps, d))
           /\ \A p \in Procs : Orphaned(ps, d)[p].pc = ps[p].pc
<1> DEFINE wiped == Wiped(at, d)
           left == Orphaned(ps, d)
<1>1. \A e \in Paths : at[e] \in LockFile
    BY DEF DirFits
<1>2. wiped \in [Paths -> LockFile] /\ wiped[d].ino = 0 /\ wiped[d].last = at[d].last
      /\ \A e \in Paths \ {d} : wiped[e] = at[e]
    BY <1>1 DEF Wiped, DirFits, LockFile
<1>3. \A p \in Procs : ps[p] \in Local
    BY DEF ProcFits
<1>4. left \in [Procs -> Local]
      /\ \A p \in Procs :
            /\ left[p].pc = ps[p].pc /\ left[p].ino = ps[p].ino /\ left[p].lock = ps[p].lock
            /\ left[p].gone = (ps[p].gone \/ (Path(Uid(p)) = d /\ ps[p].ino # 0))
    <2>1. left = [p \in Procs |-> left[p]]
        BY DEF Orphaned
    <2>2. ASSUME NEW p \in Procs
          PROVE  left[p] = IF Path(Uid(p)) = d /\ ps[p].ino # 0
                           THEN [ps[p] EXCEPT !.gone = TRUE] ELSE ps[p]
        BY DEF Orphaned
    <2>3. ASSUME NEW p \in Procs
          PROVE  /\ left[p] \in Local
                 /\ left[p].pc = ps[p].pc /\ left[p].ino = ps[p].ino
                 /\ left[p].lock = ps[p].lock
                 /\ left[p].gone = (ps[p].gone \/ (Path(Uid(p)) = d /\ ps[p].ino # 0))
        BY <1>3, <2>2 DEF Local
    <2> QED
        BY <2>1, <2>3
<1> HIDE DEF wiped, left
<1>5. DirFits(wiped, n + 1)
    <2>1. ASSUME NEW e \in Paths
          PROVE  /\ wiped[e].ino <= wiped[e].last /\ wiped[e].last <= n + 2
                 /\ wiped[e].ino = 0 => wiped[e].last <= n + 1
        <3>1. at[e].ino \in Nat /\ at[e].last \in Nat /\ at[e].ino <= at[e].last
              /\ at[e].last <= n + 1
            BY <1>1 DEF DirFits, LockFile
        <3> QED
            BY <1>2, <3>1
    <2> QED
        BY <1>2, <2>1 DEF DirFits
<1>6. ProcFits(left)
    BY <1>4 DEF ProcFits
<1>7. OpensOwn(wiped, left)
    BY <1>2, <1>4, PathType DEF LocksFit, OpensOwn
<1>8. HoldsAlone(left)
    BY <1>4 DEF LocksFit, HoldsAlone
<1> QED
    BY <1>4, <1>5, <1>6, <1>7, <1>8 DEF LocksFit, wiped, left

\* A process goes on, and leaves its lock as it is.
Moves(ps, after, p, place) ==
    /\ after \in [Procs -> Local] /\ after[p].pc = place
    /\ \A q \in Procs : /\ after[q].ino = ps[q].ino /\ after[q].lock = ps[q].lock
                        /\ after[q].gone = ps[q].gone
    /\ \A q \in Procs \ {p} : after[q] = ps[q]

LEMMA MoveFits ==
    ASSUME NEW at, NEW ps, NEW after, NEW p \in Procs, NEW place \in Codes \ {"opened"},
           Moves(ps, after, p, place), ProcFits(ps), LocksFit(at, ps),
           place \in Fresh => ps[p].pc \in Fresh
    PROVE  /\ ProcFits(after) /\ LocksFit(at, after)
           /\ after[p].pc = place /\ \A q \in Procs \ {p} : after[q] = ps[q]
<1> USE DEF Moves
<1>2. ProcFits(after)
    BY DEF ProcFits, Fresh
<1>3. OpensOwn(at, after) /\ HoldsAlone(after)
    BY DEF LocksFit, OpensOwn, HoldsAlone
<1> QED
    BY <1>2, <1>3 DEF LocksFit

-----------------------------------------------------------------------------
(* The lock                                                                *)

\* The predicates above are about the next state too: the machine stays.
LEMMA SameMachine ==
    ASSUME UNCHANGED machine
    PROVE  /\ linux' = linux /\ Home' = Home
           /\ \A p \in Procs : Uid(p)' = Uid(p) /\ Path(Uid(p))' = Path(Uid(p))
BY DEF linux, Home, Path, Uid

LEMMA LocksNext ==
    ASSUME UNCHANGED machine, ProcFits(proc'), DirFits(dir', incidents'),
           LocksFit(dir', proc'), SpawnsOnce'
    PROVE  Locks'
BY SameMachine DEF Locks, LocksFit, ProcFits, DirFits, OpensOwn, HoldsAlone

LEMMA Counted ==
    ASSUME RestOK, NEW at, DirFits(at, incidents), Incident \/ NoIncident
    PROVE  DirFits(at, incidents') /\ incidents \in Nat
BY MoreEvents, StartupAssumption DEF RestOK, Incident, NoIncident

\* A window that does not turn to spawn, and a daemon of its own that does not
\* come back, leave SpawnsOnce as it is.
LEMMA SpawnsStill ==
    ASSUME SpawnsOnce, gui'.pc = gui.pc \/ gui'.pc # "spawn",
           proc["gui"].pc = "off" => proc'["gui"].pc = "off"
    PROVE  SpawnsOnce'
BY DEF SpawnsOnce

\* An end, with or without an incident, while nothing else of the lock changes.
LEMMA EndLocks ==
    ASSUME StartupInv, UNCHANGED machine, Incident \/ NoIncident, NEW ps,
           proc' = Ends(ps), dir' = Left(ps), gui'.pc = gui.pc \/ gui'.pc # "spawn"
    PROVE  Locks'
<1>1. ProcFits(proc') /\ DirFits(dir', incidents') /\ LocksFit(dir', proc')
    BY EndsFit, Counted DEF StartupInv, Settings
<1>2. SpawnsOnce'
    BY EndsFit, SpawnsStill, OffType, Names DEF StartupInv, Settings, Locks
<1> QED
    BY <1>1, <1>2, LocksNext

\* Neither the processes nor the lock files change.
LEMMA IdleLocks ==
    ASSUME StartupInv, UNCHANGED <<machine, proc, dir>>, Incident \/ NoIncident,
           gui'.pc = gui.pc \/ gui'.pc # "spawn"
    PROVE  Locks'
<1>1. ProcFits(proc') /\ DirFits(dir', incidents') /\ LocksFit(dir', proc')
    BY Counted DEF StartupInv, Settings, Locks
<1> QED
    BY <1>1, SpawnsStill, LocksNext DEF StartupInv, Locks

\* One process goes on by itself.
LEMMA OneLocks ==
    ASSUME StartupInv, UNCHANGED <<machine, dir>>, Incident \/ NoIncident,
           NEW p \in Procs, NEW place \in Codes \ {"opened"},
           proc' = [proc EXCEPT ![p].pc = place],
           place \in Fresh => proc[p].pc \in Fresh,
           gui' = gui, proc[p].pc # "off" \/ p # "gui"
    PROVE  Locks'
<1>1. /\ ProcFits(proc') /\ LocksFit(dir', proc')
      /\ \A q \in Procs \ {p} : proc'[q] = proc[q]
    <2>1. ProcFits(proc) /\ LocksFit(dir, proc)
        BY DEF StartupInv, Locks
    <2>3. Moves(proc, proc', p, place)
        BY <2>1 DEF Moves, ProcFits, Local
    <2>2. ASSUME NEW after, Moves(proc, after, p, place)
          PROVE  ProcFits(after) /\ LocksFit(dir, after)
        BY <2>1, <2>2, MoveFits, Zenon
    <2>4. ProcFits(proc') /\ LocksFit(dir, proc')
        BY <2>2, <2>3
    <2> QED
        BY <2>3, <2>4 DEF Moves
<1>2. DirFits(dir', incidents')
    BY Counted DEF StartupInv, Settings, Locks
<1>3. SpawnsOnce'
    BY <1>1, SpawnsStill, Names DEF StartupInv, Locks
<1> QED
    BY <1>1, <1>2, <1>3, LocksNext

LEMMA ServiceLocks ==
    ASSUME StartupInv, \/ \E s \in Services : Supervise(s)
                       \/ StartByHand
    PROVE  Locks'
<1>1. CASE \E s \in Services : Supervise(s)
    <2>1. PICK s \in Services : Supervise(s)
        BY <1>1
    <2> QED
        BY <2>1, OneLocks, Names DEF Supervise, Codes, Fresh, Services
<1>2. CASE StartByHand
    BY <1>2, OneLocks, Names DEF StartByHand, Codes, Fresh
<1> QED
    BY <1>1, <1>2

LEMMA OpenLockLocks ==
    ASSUME StartupInv, NEW p \in Procs, OpenLock(p)
    PROVE  Locks'
<1> USE DEF StartupInv, Settings, Locks
<1> DEFINE d == Path(Uid(p))
           ino == IF dir[d].ino = 0 THEN dir[d].last + 1 ELSE dir[d].ino
<1>1. d \in Paths /\ dir[d] \in LockFile /\ proc[p] \in Local
    BY PathType DEF DirFits, ProcFits
<1>2. ino \in Nat /\ ino # 0 /\ incidents \in Nat
    BY <1>1 DEF LockFile, RestOK
<1>3. dir' = [dir EXCEPT ![d].ino = ino,
                         ![d].last = IF ino > dir[d].last THEN ino ELSE dir[d].last,
                         ![d].pid = "none"]
    BY Zenon DEF OpenLock
<1>4. proc' = [proc EXCEPT ![p].pc = "opened", ![p].ino = ino] /\ proc[p].pc = "lock"
    BY Zenon DEF OpenLock
<1>5. UNCHANGED <<machine, gui>> /\ NoIncident /\ incidents' = incidents
    BY Zenon DEF OpenLock, NoIncident
<1>6. dir[d].ino # 0 => dir[d].ino = ino
    OBVIOUS
<1>7. ino <= incidents + 1 /\ dir[d].last <= incidents + 1
    BY <1>1, <1>2 DEF DirFits, LockFile
<1> HIDE DEF d, ino
<1>8. /\ dir' \in [Paths -> LockFile]
      /\ dir'[d].ino = ino /\ dir'[d].last \in {ino, dir[d].last}
      /\ ino <= dir'[d].last /\ dir[d].last <= dir'[d].last
      /\ \A e \in Paths \ {d} : dir'[e] = dir[e]
    <2> DEFINE last == IF ino > dir[d].last THEN ino ELSE dir[d].last
    <2>1. dir' = [dir EXCEPT ![d].ino = ino, ![d].last = last, ![d].pid = "none"]
        BY <1>3
    <2>2. last \in Nat /\ last \in {ino, dir[d].last} /\ ino <= last /\ dir[d].last <= last
        BY <1>1, <1>2 DEF LockFile
    <2> HIDE DEF last
    <2> QED
        BY <1>1, <1>2, <2>1, <2>2 DEF DirFits, LockFile
<1>9. /\ proc' \in [Procs -> Local]
      /\ proc'[p].pc = "opened" /\ proc'[p].ino = ino
      /\ proc'[p].lock = proc[p].lock /\ proc'[p].gone = proc[p].gone
      /\ \A q \in Procs \ {p} : proc'[q] = proc[q]
    BY <1>2, <1>4 DEF ProcFits, Local, Codes
<1>10. ~proc[p].lock
    BY <1>4 DEF ProcFits, Fresh
<1>11. DirFits(dir', incidents')
    <2>1. ASSUME NEW e \in Paths
          PROVE  /\ dir'[e].ino <= dir'[e].last /\ dir'[e].last <= incidents + 1
                 /\ dir'[e].ino = 0 => dir'[e].last <= incidents
        BY <1>2, <1>7, <1>8 DEF DirFits
    <2> QED
        BY <1>5, <1>8, <2>1 DEF DirFits
<1>12. ProcFits(proc')
    BY <1>2, <1>9, <1>10 DEF ProcFits, Fresh
<1>13. OpensOwn(dir', proc')
    <2> SUFFICES ASSUME NEW q \in Procs
                 PROVE  /\ proc'[q].ino <= dir'[Path(Uid(q))].last
                        /\ proc'[q].ino # 0 /\ ~proc'[q].gone =>
                             proc'[q].ino = dir'[Path(Uid(q))].ino
        BY DEF OpensOwn
    <2>1. CASE q = p
        BY <1>8, <1>9, <2>1 DEF d
    <2>2. CASE q # p
        <3>1. proc'[q] = proc[q] /\ Path(Uid(q)) \in Paths
            BY <1>9, <2>2, PathType
        <3>2. /\ proc[q].ino <= dir[Path(Uid(q))].last
              /\ proc[q].ino # 0 /\ ~proc[q].gone => proc[q].ino = dir[Path(Uid(q))].ino
            BY DEF LocksFit, OpensOwn
        <3>3. proc[q].ino \in Nat /\ \A e \in Paths : dir[e].last \in Nat /\ dir'[e].last \in Nat
            BY <1>8 DEF ProcFits, Local, DirFits, LockFile
        <3>4. CASE Path(Uid(q)) = d
            BY <1>6, <1>8, <3>1, <3>2, <3>3, <3>4
        <3>5. CASE Path(Uid(q)) # d
            BY <1>8, <3>1, <3>2, <3>5
        <3> QED
            BY <3>4, <3>5
    <2> QED
        BY <2>1, <2>2
<1>14. HoldsAlone(proc')
    BY <1>9, <1>10 DEF LocksFit, HoldsAlone
<1>15. SpawnsOnce'
    BY <1>4, <1>5, <1>9, SpawnsStill, Names
<1> QED
    BY <1>5, <1>11, <1>12, <1>13, <1>14, <1>15, LocksNext DEF LocksFit

LEMMA FlockLocks ==
    ASSUME StartupInv, NEW p \in Procs, Flock(p)
    PROVE  Locks'
<1> USE DEF StartupInv, Settings, Locks
<1>1. UNCHANGED <<machine, gui>> /\ NoIncident /\ incidents' = incidents /\ proc[p].pc = "opened"
    BY Zenon DEF Flock, NoIncident
<1>2. CASE Held(p)
    <2>1. proc' = Ends({p}) /\ dir' = Left({p})
        BY <1>2, Zenon DEF Flock, Exit
    <2> QED
        BY <1>1, <2>1, EndLocks
<1>3. CASE ~Held(p)
    <2> DEFINE d == Path(Uid(p))
    <2>1. /\ proc' = [proc EXCEPT ![p].pc = "held", ![p].lock = TRUE]
          /\ dir' = IF dir[d].ino = proc[p].ino THEN [dir EXCEPT ![d].pid = "live"] ELSE dir
        BY <1>3, Zenon DEF Flock
    <2>2. d \in Paths
        BY PathType
    <2> HIDE DEF d
    <2>3. /\ dir' \in [Paths -> LockFile]
          /\ \A e \in Paths : dir'[e].ino = dir[e].ino /\ dir'[e].last = dir[e].last
        BY <2>1, <2>2 DEF DirFits, LockFile
    <2>4. /\ proc' \in [Procs -> Local]
          /\ proc'[p].pc = "held" /\ proc'[p].lock
          /\ proc'[p].ino = proc[p].ino /\ proc'[p].gone = proc[p].gone
          /\ \A q \in Procs \ {p} : proc'[q] = proc[q]
        BY <2>1 DEF ProcFits, Local, Codes
    <2>5. DirFits(dir', incidents') /\ OpensOwn(dir', proc')
        BY <1>1, <2>3, <2>4, PathType DEF DirFits, LocksFit, OpensOwn
    <2>6. ProcFits(proc')
        BY <1>1, <2>4 DEF ProcFits, Fresh
    <2>8. HoldsAlone(proc')
        BY <1>3, <2>4 DEF Held, LocksFit, HoldsAlone
    <2>9. SpawnsOnce'
        BY <1>1, <2>4, SpawnsStill, Names
    <2> QED
        BY <1>1, <2>5, <2>6, <2>8, <2>9, LocksNext DEF LocksFit
<1> QED
    BY <1>2, <1>3

LEMMA RegisterCounts ==
    ASSUME NEW u, RegisterStartup(u)
    PROVE  Incident \/ NoIncident
BY Zenon DEF RegisterStartup, RegisterUnit, RegisterPlist, BootstrapFails, PlistNotWritten

LEMMA DaemonLocks ==
    ASSUME StartupInv, NEW p \in Procs,
           Start(p) \/ Lockless(p) \/ RegisterSelf(p) \/ Kill(p) \/ Stop(p)
    PROVE  Locks'
<1>1. CASE Start(p)
    <2>1. UNCHANGED <<machine, gui>> /\ NoIncident /\ proc[p].pc = "start"
        BY <1>1, Zenon DEF Start
    <2>2. CASE dir[Path(Uid(p))].may
        <3>1. proc' = [proc EXCEPT ![p].pc = "lock"] /\ UNCHANGED dir
            BY <1>1, <2>2, Zenon DEF Start
        <3> QED
            BY <2>1, <3>1, OneLocks DEF Codes, Fresh
    <2>3. CASE ~dir[Path(Uid(p))].may
        <3>1. proc' = Ends({p}) /\ dir' = Left({p})
            BY <1>1, <2>3, Zenon DEF Start, Exit
        <3> QED
            BY <2>1, <3>1, EndLocks
    <2> QED
        BY <2>2, <2>3
<1>2. CASE Lockless(p)
    <2>1. /\ UNCHANGED <<machine, gui, dir>> /\ (Incident \/ NoIncident)
          /\ proc' = [proc EXCEPT ![p].pc = "held"] /\ proc[p].pc \in {"lock", "opened"}
        BY <1>2, Zenon DEF Lockless, NoLock
    <2> QED
        BY <2>1, OneLocks DEF Codes, Fresh
<1>3. CASE RegisterSelf(p)
    <2>1. /\ UNCHANGED <<machine, gui, dir>> /\ proc[p].pc = "held"
          /\ proc' = [proc EXCEPT ![p].pc = "run"]
        BY <1>3, Zenon DEF RegisterSelf
    <2>2. Incident \/ NoIncident
        BY <1>3, RegisterCounts, Zenon DEF RegisterSelf
    <2> QED
        BY <2>1, <2>2, OneLocks DEF Codes, Fresh
<1>4. CASE Kill(p) \/ Stop(p)
    BY <1>4, EndLocks DEF Kill, Stop, Exit
<1> QED
    BY <1>1, <1>2, <1>3, <1>4

\* The next locks after a wipe of directory d, during which processes may end.
LEMMA WipeLocks ==
    ASSUME StartupInv, UNCHANGED machine, Incident, NEW ps, NEW d \in Paths,
           dir' = Wiped(Left(ps), d), proc' = Orphaned(Ends(ps), d), gui' = gui
    PROVE  Locks'
<1>1. /\ ProcFits(Ends(ps)) /\ DirFits(Left(ps), incidents) /\ LocksFit(Left(ps), Ends(ps))
      /\ \A p \in Procs : Ends(ps)[p] \in {Off, proc[p]}
    BY EndsFit DEF StartupInv, Settings
<1>2. incidents' = incidents + 1 /\ incidents \in Nat
    BY DEF Incident, StartupInv, Settings, RestOK
<1>3. /\ DirFits(dir', incidents') /\ ProcFits(proc') /\ LocksFit(dir', proc')
      /\ \A p \in Procs : proc'[p].pc = Ends(ps)[p].pc
    BY <1>1, <1>2, WipeFits DEF StartupInv, Settings
<1>4. SpawnsOnce'
    BY <1>1, <1>3, SpawnsStill, OffType, Names DEF StartupInv, Locks
<1> QED
    BY <1>3, <1>4, LocksNext

LEMMA UnlinkLocks ==
    ASSUME StartupInv, \/ \E p \in Procs : Unlinked(p)
                       \/ UnlinkInWindow
                       \/ \E u \in Users : Uninstall(u)
    PROVE  Locks'
<1> USE DEF StartupInv, Settings
<1>1. CASE \E p \in Procs : Unlinked(p)
    <2>1. PICK p \in Procs : Unlinked(p)
        BY <1>1
    <2> DEFINE d == Path(Uid(p))
               left == Orphaned(proc, d)
    <2>2. PICK place \in {"run", "linger"} : proc' = [left EXCEPT ![p].pc = place]
        BY <2>1, Zenon DEF Unlinked
    <2>3. UNCHANGED <<machine, gui>> /\ Incident /\ dir' = Wiped(dir, d) /\ proc[p].pc = "run"
        BY <2>1, Zenon DEF Unlinked
    <2>4. d \in Paths /\ incidents' = incidents + 1 /\ incidents \in Nat
        BY <2>3, PathType DEF Incident, RestOK
    <2> HIDE DEF d, left
    <2>5. /\ DirFits(dir', incidents') /\ ProcFits(left) /\ LocksFit(dir', left)
          /\ \A q \in Procs : left[q].pc = proc[q].pc
        BY <2>3, <2>4, WipeFits DEF Locks, left
    <2>6. Moves(left, proc', p, place)
        BY <2>2, <2>5 DEF Moves, ProcFits, Local, Codes
    <2>7. ProcFits(proc') /\ LocksFit(dir', proc')
        BY <2>3, <2>5, <2>6, MoveFits DEF Codes, Fresh
    <2>8. SpawnsOnce'
        BY <2>3, <2>5, <2>6, SpawnsStill, Names DEF Moves, Locks
    <2> QED
        BY <2>3, <2>5, <2>7, <2>8, LocksNext
<1>2. CASE UnlinkInWindow
    <2>1. /\ UNCHANGED <<machine, gui>> /\ Incident /\ dir' = Wiped(dir, Home)
          /\ proc' = Orphaned(proc, Home)
        BY <1>2, Zenon DEF UnlinkInWindow
    <2>2. Home \in Paths /\ incidents' = incidents + 1 /\ incidents \in Nat
        BY <2>1, HomeType DEF Incident, RestOK
    <2>3. /\ DirFits(dir', incidents') /\ ProcFits(proc') /\ LocksFit(dir', proc')
          /\ \A q \in Procs : proc'[q].pc = proc[q].pc
        BY <2>1, <2>2, WipeFits DEF Locks
    <2> QED
        BY <2>1, <2>3, SpawnsStill, LocksNext, Names DEF Locks
<1>3. CASE \E u \in Users : Uninstall(u)
    BY <1>3, WipeLocks, UserPath DEF Uninstall
<1> QED
    BY <1>1, <1>2, <1>3

LEMMA WindowLocks ==
    ASSUME StartupInv, Window, ~UnlinkInWindow
    PROVE  Locks'
<1> USE DEF StartupInv, Settings
<1>1. CASE OpenWindow \/ EnrolInWindow
    <2>1. /\ UNCHANGED <<machine, proc>> /\ NoIncident
          /\ dir' = [dir EXCEPT ![Home].may = TRUE]
        BY <1>1 DEF OpenWindow, EnrolInWindow, Consented
    <2>2. gui'.pc = gui.pc \/ gui'.pc # "spawn"
        BY <1>1 DEF OpenWindow, EnrolInWindow
    <2>3. DirFits(dir', incidents') /\ LocksFit(dir', proc') /\ ProcFits(proc')
        <3>1. /\ dir' \in [Paths -> LockFile]
              /\ \A e \in Paths : dir'[e].ino = dir[e].ino /\ dir'[e].last = dir[e].last
            BY <2>1, HomeType DEF Locks, DirFits, LockFile
        <3> QED
            BY <2>1, <3>1, PathType DEF NoIncident, Locks, DirFits, LocksFit, OpensOwn
    <2> QED
        BY <2>1, <2>2, <2>3, SpawnsStill, LocksNext DEF Locks
<1>2. CASE OpenWithSudo
    BY <1>2, RegisterCounts, IdleLocks DEF OpenWithSudo
<1>3. CASE Bootstrap
    <2>1. PICK ps : proc' = Ends(ps) /\ dir' = Left(ps)
        BY <1>3 DEF Bootstrap
    <2>2. UNCHANGED machine /\ (Incident \/ NoIncident)
        BY <1>3, RegisterCounts DEF Bootstrap
    <2>3. gui'.pc # "spawn"
        BY <1>3 DEF Bootstrap, GuiOK, Window0
    <2> QED
        BY <2>1, <2>2, <2>3, EndLocks
<1>4. CASE Probe
    <2>1. UNCHANGED <<machine, dir, proc, incidents>>
        BY <1>4, Zenon DEF Probe
    <2>2. gui'.pc = "spawn" => Alive = {}
        BY <1>4 DEF Probe, Turn, GuiOK, Window0
    <2>3. SpawnsOnce'
        BY <2>1, <2>2, Names DEF SpawnsOnce, Alive
    <2> QED
        BY <2>1, <2>3, LocksNext DEF Locks
<1>5. CASE Spawn
    <2>1. /\ UNCHANGED <<machine, dir>> /\ NoIncident /\ gui.pc = "spawn"
          /\ proc' = [proc EXCEPT !["gui"].pc = "start"]
        BY <1>5, Zenon DEF Spawn
    <2>2. gui'.pc # "spawn"
        BY <1>5 DEF Spawn, GuiOK, Window0
    <2>3. Moves(proc, proc', "gui", "start") /\ proc["gui"].pc = "off"
        BY <2>1, Names DEF Moves, Locks, ProcFits, Local, Codes, SpawnsOnce
    <2>4. ProcFits(proc') /\ LocksFit(dir, proc')
        BY <2>3, MoveFits, Names DEF Locks, Codes, Fresh
    <2>5. SpawnsOnce'
        BY <2>2 DEF SpawnsOnce
    <2> QED
        BY <2>1, <2>4, <2>5, LocksNext DEF Locks, NoIncident
<1>6. CASE Warm \/ CloseWindow \/ KillWindow
    <2>1. UNCHANGED <<machine, proc, dir>> /\ (Incident \/ NoIncident)
        BY <1>6, Zenon DEF Warm, CloseWindow, KillWindow
    <2>2. gui'.pc = gui.pc \/ gui'.pc # "spawn"
        BY <1>6 DEF Warm, CloseWindow, KillWindow, GuiOK, Window0
    <2> QED
        BY <2>1, <2>2, IdleLocks
<1>7. CASE SwitchOn
    BY <1>7, EndLocks DEF SwitchOn
<1>8. CASE SwitchOff
    <2>1. UNCHANGED <<machine, gui>> /\ Incident
        BY <1>8, Zenon DEF SwitchOff
    <2>2. UNCHANGED <<proc, dir>> \/ (proc' = Ends(Services) /\ dir' = Left(Services))
        BY <1>8, Zenon DEF SwitchOff, AuthorizedOff
    <2> QED
        BY <2>1, <2>2, IdleLocks, EndLocks
<1> QED
    BY <1>1, <1>2, <1>3, <1>4, <1>5, <1>6, <1>7, <1>8 DEF Window

LEMMA MachineLocks ==
    ASSUME StartupInv, Reboot \/ Later \/ \E u \in Users : Disable(u)
    PROVE  Locks'
<1> USE DEF StartupInv, Settings
<1>1. CASE Reboot
    <2>1. gui'.pc # "spawn"
        BY <1>1 DEF Reboot, GuiOK, Window0
    <2> QED
        BY <1>1, <2>1, EndLocks DEF Reboot
<1>2. CASE Later
    BY <1>2, IdleLocks DEF Later
<1>3. CASE \E u \in Users : Disable(u)
    BY <1>3, EndLocks DEF Disable
<1> QED
    BY <1>1, <1>2, <1>3

-----------------------------------------------------------------------------
(* What does not concern the lock                                          *)

LEMMA NoneType == None \in Unit
BY DEF None, Unit

LEMMA RegisterUnits ==
    ASSUME UnitsOK, NEW u \in Users, RegisterStartup(u)
    PROVE  UnitsOK'
<1> USE UserPath, Names
<1>1. CASE Displaced(u)
    BY <1>1, NoneType DEF RegisterStartup, UnitsOK
<1>2. CASE ~Displaced(u) /\ linux
    BY <1>2 DEF RegisterStartup, RegisterUnit, WriteUnit, UnitsOK, Unit
<1>3. CASE ~Displaced(u) /\ ~linux
    <2>1. CASE RegisterPlist(u)
        <3>1. [file |-> TRUE, on |-> TRUE] \in Unit
            BY DEF Unit
        <3> QED
            BY <2>1, <3>1 DEF RegisterPlist, UnitsOK
    <2>2. CASE BootstrapFails(u) \/ PlistNotWritten(u)
        BY <2>2 DEF BootstrapFails, PlistNotWritten, UnitsOK, Unit
    <2> QED
        BY <1>3, <2>1, <2>2 DEF RegisterStartup
<1> QED
    BY <1>1, <1>2, <1>3

LEMMA UnregisterUnits ==
    ASSUME UnitsOK, NEW u \in Users, UnregisterStartup(u)
    PROVE  UnitsOK'
<1> USE UserPath, Names DEF UnitsOK
<1>1. Remaining(u) \in [Services -> Unit]
    <2>1. CASE linux
        BY <2>1, NoneType DEF Remaining, RemainingUnits
    <2>2. CASE ~linux
        <3> DEFINE s == Service(u)
                   stopped == [unit EXCEPT ![s].on = FALSE]
                   root == stopped["system"].file /\ u # "root"
                   lessSystem == [stopped EXCEPT !["system"].file = root]
                   mine == lessSystem["user"].file /\ (u = "root" \/ unit["system"].file)
                   left == [lessSystem EXCEPT !["user"].file = mine]
        <3>1. ASSUME NEW f \in [Services -> Unit], NEW t \in Services, NEW b \in BOOLEAN
              PROVE  /\ [f EXCEPT ![t].file = b] \in [Services -> Unit]
                     /\ [f EXCEPT ![t].on = b] \in [Services -> Unit]
            BY DEF Unit
        <3>2. stopped \in [Services -> Unit]
            BY <3>1
        <3>3. lessSystem \in [Services -> Unit]
            BY <3>1, <3>2
        <3>4. left \in [Services -> Unit]
            BY <3>1, <3>3
        <3>5. Remaining(u) = left
            BY <2>2 DEF Remaining, RemainingPlists
        <3> QED
            BY <3>4, <3>5
    <2> QED
        BY <2>1, <2>2
<1> QED
    BY <1>1 DEF UnregisterStartup

LEMMA NextUnits ==
    ASSUME StartupInv, StartupNext
    PROVE  UnitsOK'
<1> USE Names DEF StartupInv, Settings
<1>1. CASE UNCHANGED <<unit, due>>
    BY <1>1 DEF UnitsOK
<1>2. CASE unit' = unit /\ \E s \in Procs, status \in {"success", "failure"} :
                                due' \in {Owed(s, status), due \ {s}}
    BY <1>2 DEF UnitsOK, Owed, Restarts
<1>3. CASE \E s \in Services : Supervise(s)
    BY <1>2, <1>3 DEF Supervise
<1>4. ASSUME NEW p \in Procs, Daemon(p) \/ Kill(p) \/ Stop(p) \/ Unlinked(p)
      PROVE  UnitsOK'
    <2>1. CASE Start(p) \/ Flock(p) \/ Kill(p) \/ Stop(p)
        <3>1. unit' = unit
            BY <2>1, Zenon DEF Start, Flock, Kill, Stop
        <3>2. due' \in {due, Owed(p, "success"), Owed(p, "failure")}
            BY <2>1, Zenon DEF Start, Flock, Kill, Stop, Exit
        <3> QED
            BY <1>1, <1>2, <3>1, <3>2
    <2>2. CASE OpenLock(p) \/ Lockless(p) \/ Unlinked(p)
        BY <1>1, <2>2, Zenon DEF OpenLock, Lockless, NoLock, Unlinked
    <2>3. CASE RegisterSelf(p)
        BY <1>1, <2>3, RegisterUnits, PathType DEF RegisterSelf
    <2> QED
        BY <1>4, <2>1, <2>2, <2>3 DEF Daemon
<1>5. CASE \E u \in Users : Disable(u) \/ Uninstall(u)
    BY <1>5, UnregisterUnits DEF Disable, Uninstall
<1>6. CASE Window
    <2>1. CASE OpenWithSudo \/ Bootstrap
        BY <2>1, RegisterUnits, HomeType DEF OpenWithSudo, Bootstrap, Users
    <2>2. CASE SwitchOn
        <3>1. [file |-> TRUE, on |-> TRUE] \in Unit
            BY DEF Unit
        <3> QED
            BY <2>2, <3>1, NoneType DEF SwitchOn, UnitsOK
    <2>3. CASE SwitchOff
        <3>1. UnregisterStartup(machine.gui) \/ AuthorizedOff
            BY <2>3, Zenon DEF SwitchOff
        <3> QED
            BY <3>1, UnregisterUnits, HomeType, NoneType DEF AuthorizedOff, UnitsOK
    <2>4. CASE \/ OpenWindow \/ EnrolInWindow \/ Probe \/ Spawn \/ Warm \/ CloseWindow
               \/ KillWindow \/ UnlinkInWindow
        BY <1>1, <2>4, Zenon DEF OpenWindow, EnrolInWindow, Probe, Spawn, Warm, CloseWindow,
                                 KillWindow, UnlinkInWindow
    <2> QED
        BY <1>6, <2>1, <2>2, <2>3, <2>4 DEF Window
<1>7. CASE StartByHand \/ Later
    BY <1>1, <1>7 DEF StartByHand, Later
<1>8. CASE Reboot
    BY <1>8 DEF Reboot, UnitsOK, Unit
<1> QED
    BY <1>3, <1>4, <1>5, <1>6, <1>7, <1>8 DEF StartupNext

LEMMA NextGui ==
    ASSUME StartupInv, StartupNext
    PROVE  GuiOK'
<1> USE DEF StartupInv, Settings
<1>1. CASE gui' = gui
    BY <1>1 DEF GuiOK
<1>2. CASE Reboot \/ OpenWindow \/ Bootstrap \/ Spawn \/ Warm \/ CloseWindow \/ KillWindow
    <2>1. CASE Reboot \/ Warm \/ CloseWindow \/ KillWindow
        BY <2>1 DEF GuiOK, Window0, Reboot, Warm, CloseWindow, KillWindow
    <2>4. CASE OpenWindow
        BY <2>4 DEF GuiOK, Window0, RestOK, OpenWindow
    <2>2. CASE Bootstrap
        <3>1. \/ gui' = [gui EXCEPT !.pc = "probe"]
              \/ gui' = [gui EXCEPT !.pc = "probe", !.closing = TRUE]
            BY <2>2 DEF Bootstrap
        <3> QED
            BY <3>1 DEF GuiOK, Window0
    <2>3. CASE Spawn
        <3>1. \/ gui' = [gui EXCEPT !.pc = "off", !.cool = TRUE]
              \/ gui' = [gui EXCEPT !.pc = "open", !.cool = TRUE]
            BY <2>3 DEF Spawn
        <3> QED
            BY <3>1 DEF GuiOK, Window0
    <2> QED
        BY <1>2, <2>1, <2>2, <2>3, <2>4
<1>3. CASE Probe
    <2>1. gui' = [gui EXCEPT !.pc = "spawn"] \/ Turn("open")
        BY <1>3, Zenon DEF Probe
    <2> QED
        BY <2>1 DEF GuiOK, Window0, Turn
<1>4. CASE \E s \in Services : Supervise(s)
    BY <1>1, <1>4, Zenon DEF Supervise
<1>5. CASE \E p \in Procs : Daemon(p) \/ Kill(p) \/ Stop(p) \/ Unlinked(p)
    BY <1>1, <1>5, Zenon DEF Daemon, Start, OpenLock, Lockless, NoLock, Flock, RegisterSelf, Kill,
                             Stop, Unlinked
<1>6. CASE \/ \E u \in Users : Disable(u) \/ Uninstall(u)
           \/ StartByHand \/ Later \/ OpenWithSudo \/ EnrolInWindow \/ UnlinkInWindow
           \/ SwitchOn \/ SwitchOff
    BY <1>1, <1>6, Zenon DEF Disable, Uninstall, StartByHand, Later, OpenWithSudo, EnrolInWindow,
                             UnlinkInWindow, SwitchOn, SwitchOff
<1> QED
    BY <1>2, <1>3, <1>4, <1>5, <1>6 DEF StartupNext, Window

LEMMA NextRest ==
    ASSUME StartupInv, StartupNext
    PROVE  RestOK' /\ machine' = machine
<1> USE DEF StartupInv, Settings
<1>1. ASSUME Incident \/ NoIncident, open' \in BOOLEAN, early' \in BOOLEAN
      PROVE  RestOK'
    <2>1. incidents' \in 0..MaxIncidents
        BY <1>1, StartupAssumption DEF RestOK, Incident, NoIncident
    <2>2. lost' \in {lost, lost \cup {"incident"}}
        BY <1>1 DEF Incident, NoIncident
    <2> QED
        BY <1>1, <2>1, <2>2 DEF RestOK, Reasons
<1>2. CASE \E s \in Services : Supervise(s)
    BY <1>1, <1>2 DEF Supervise, RestOK
<1>3. ASSUME NEW p \in Procs, Daemon(p) \/ Kill(p) \/ Stop(p) \/ Unlinked(p)
      PROVE  RestOK' /\ machine' = machine
    <2>1. CASE Start(p)
        BY <1>1, <2>1 DEF Start, RestOK
    <2>2. CASE RegisterSelf(p)
        BY <1>1, <2>2, RegisterCounts DEF RegisterSelf, RestOK
    <2>3. CASE OpenLock(p) \/ Lockless(p) \/ Flock(p) \/ Kill(p) \/ Stop(p) \/ Unlinked(p)
        <3>1. UNCHANGED <<machine, open, early>> /\ (Incident \/ NoIncident)
            BY <2>3, Zenon DEF OpenLock, Lockless, NoLock, Flock, Kill, Stop, Unlinked
        <3> QED
            BY <1>1, <3>1 DEF RestOK
    <2> QED
        BY <1>3, <2>1, <2>2, <2>3 DEF Daemon
<1>4. CASE \E u \in Users : Disable(u) \/ Uninstall(u)
    BY <1>1, <1>4 DEF Disable, Uninstall, RestOK
<1>5. CASE StartByHand \/ Later \/ Reboot
    BY <1>1, <1>5 DEF StartByHand, Later, Reboot, RestOK
<1>6. CASE Window
    <2>1. CASE Probe
        <3>1. UNCHANGED <<machine, open, early, incidents>>
            BY <2>1, Zenon DEF Probe
        <3>2. lost' \in {{}, {"cooldown"}, {"unfit"}, {"reused"}}
            BY <2>1 DEF Probe
        <3> QED
            BY <3>1, <3>2 DEF RestOK, Reasons
    <2>2. CASE OpenWindow
        BY <1>1, <2>2 DEF OpenWindow, RestOK
    <2>3. CASE OpenWithSudo \/ Bootstrap
        BY <1>1, <2>3, RegisterCounts DEF OpenWithSudo, Bootstrap, RestOK
    <2>4. CASE \/ EnrolInWindow \/ Spawn \/ Warm \/ CloseWindow
               \/ KillWindow \/ UnlinkInWindow \/ SwitchOn \/ SwitchOff
        <3>1. UNCHANGED <<machine, open, early>> /\ (Incident \/ NoIncident)
            BY <2>4, Zenon DEF EnrolInWindow, Spawn, Warm, CloseWindow, KillWindow, UnlinkInWindow,
                               SwitchOn, SwitchOff
        <3> QED
            BY <1>1, <3>1 DEF RestOK
    <2> QED
        BY <1>6, <2>1, <2>2, <2>3, <2>4 DEF Window
<1> QED
    BY <1>2, <1>3, <1>4, <1>5, <1>6 DEF StartupNext

-----------------------------------------------------------------------------
LEMMA StartupInitInv == StartupInit => StartupInv
<1> SUFFICES ASSUME StartupInit PROVE StartupInv
    OBVIOUS
<1>1. MachineOK /\ GuiOK
    BY DEF StartupInit, MachineOK, Machine, GuiOK, Window0
<1>2. UnitsOK
    BY NoneType DEF StartupInit, UnitsOK
<1>8. RestOK
    <2>1. open \in BOOLEAN /\ early \in BOOLEAN
        BY Zenon DEF StartupInit
    <2>2. lost = {} /\ incidents = 0
        BY Zenon DEF StartupInit
    <2>3. lost \subseteq Reasons /\ incidents \in 0..MaxIncidents
        BY <2>2, StartupAssumption
    <2> QED
        BY <2>1, <2>3 DEF RestOK
<1>3. \A p \in Procs : proc[p] = Off
    BY DEF StartupInit
<1>4. ProcFits(proc)
    BY <1>3, OffType DEF StartupInit, ProcFits, Fresh
<1>5. DirFits(dir, incidents)
    BY DEF StartupInit, DirFits, LockFile
<1>6. LocksFit(dir, proc)
    <2>1. \A p \in Procs : dir[Path(Uid(p))].last = 0
        BY <1>1, PathType DEF StartupInit
    <2> QED
        BY <1>3, <2>1, OffType DEF LocksFit, OpensOwn, HoldsAlone
<1>7. SpawnsOnce
    BY DEF StartupInit, SpawnsOnce
<1> QED
    BY <1>1, <1>2, <1>4, <1>5, <1>6, <1>7, <1>8 DEF StartupInv, Settings, Locks

LEMMA StartupNextInv ==
    ASSUME StartupInv, [StartupNext]_startupVars
    PROVE  StartupInv'
<1>1. CASE UNCHANGED startupVars
    BY <1>1, SameMachine
    DEF StartupInv, Settings, Locks, MachineOK, UnitsOK, GuiOK, RestOK, ProcFits, DirFits, LocksFit,
        OpensOwn, HoldsAlone, SpawnsOnce, startupVars
<1>2. CASE StartupNext
    <2>1. Locks'
        BY <1>2, ServiceLocks, OpenLockLocks, FlockLocks, DaemonLocks, UnlinkLocks,
           WindowLocks, MachineLocks DEF StartupNext, Daemon
    <2>2. Settings'
        BY <1>2, NextUnits, NextGui, NextRest DEF StartupInv, Settings, MachineOK
    <2> QED
        BY <2>1, <2>2 DEF StartupInv
<1> QED
    BY <1>1, <1>2

LEMMA StartupTypes == StartupInv => StartupTypeOK
<1> SUFFICES ASSUME StartupInv PROVE StartupTypeOK
    OBVIOUS
<1> USE StartupAssumption DEF StartupInv, Settings, Locks
<1> DEFINE Inodes == 0..MaxIncidents + 1
<1>1. \A d \in Paths : dir[d].ino \in Inodes /\ dir[d].last \in Inodes
    BY DEF DirFits, LockFile, RestOK
<1>2. \A p \in Procs : proc[p].ino \in Inodes
    <2> TAKE p \in Procs
    <2>1. /\ proc[p].ino \in Nat /\ proc[p].ino <= dir[Path(Uid(p))].last
          /\ Path(Uid(p)) \in Paths
        BY PathType DEF ProcFits, Local, LocksFit, OpensOwn
    <2> QED
        BY <1>1, <2>1
<1> HIDE DEF Inodes
<1>3. dir \in [Paths -> [ino : Inodes, last : Inodes,
                         pid : {"none", "live", "stale"}, may : BOOLEAN]]
    BY <1>1 DEF DirFits, LockFile
<1>4. /\ proc \in [Procs -> [pc : Codes, ino : Inodes, lock : BOOLEAN, gone : BOOLEAN]]
      /\ \A p \in Procs : proc[p].lock => proc[p].ino # 0
    BY <1>2 DEF ProcFits, Local
<1>5. gui \in Window0
    BY DEF GuiOK
<1>6. /\ unit \in [Services -> Unit] /\ due \subseteq Services
      /\ open \in BOOLEAN /\ early \in BOOLEAN /\ lost \subseteq Reasons
      /\ incidents \in 0..MaxIncidents
    BY DEF UnitsOK, RestOK
<1> QED
    BY <1>3, <1>4, <1>5, <1>6, Zenon DEF StartupTypeOK, Unit, Window0, Reasons, Codes, Inodes

LEMMA InvOne == StartupInv => OneDaemon
<1> SUFFICES ASSUME StartupInv, NEW p \in Procs, NEW q \in Procs, p # q, Past(p), Past(q),
                    Path(Uid(p)) = Path(Uid(q)), ~proc[p].gone, ~proc[q].gone,
                    proc[p].lock, proc[q].lock
             PROVE  FALSE
    BY DEF OneDaemon
<1>1. proc[p].ino = dir[Path(Uid(p))].ino /\ proc[q].ino = dir[Path(Uid(q))].ino
    BY DEF StartupInv, Locks, LocksFit, OpensOwn, ProcFits
<1> QED
    BY <1>1 DEF StartupInv, Locks, LocksFit, HoldsAlone

\* Every variable keeps its type; a lock file is made anew at most once per
\* wipe, so that its number never exceeds that of the incidents by more than one.
THEOREM StartupTypesHold == StartupSpec => []StartupTypeOK
BY StartupInitInv, StartupNextInv, StartupTypes, PTL DEF StartupSpec

\* Two daemons of one state directory never both get past the lock, on either
\* platform, unless one of them met an OSError and went on without a lock, or a
\* wipe removed its lock file while it was held.
THEOREM OneDaemonPerDirectory == StartupSpec => []OneDaemon
BY StartupInitInv, StartupNextInv, InvOne, PTL DEF StartupSpec

=============================================================================
