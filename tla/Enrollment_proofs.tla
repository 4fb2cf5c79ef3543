-------------------------- MODULE Enrollment_proofs --------------------------
(***************************************************************************)
(* Enrollment keeps its types, and its join state never says of a request  *)
(* that its approval sync is complete when it is not, for any number of    *)
(* requests, of stops of the daemon and of cancellations.                  *)
(***************************************************************************)
EXTENDS Enrollment, TLAPS

-----------------------------------------------------------------------------
(* Types                                                                   *)

SrvStatus == {"none", "pending", "approved", "denied", "unlinked"}
JoinStatus == {"none", "pending", "approved", "denied"}
Response == [req : Req, status : SrvStatus]
Codes == {"off", "wait", "asked", "build", "write", "claim", "claimWrite", "start", "loop",
          "idle", "scan", "finish", "finishWrite", "open", "closed", "post", "wipe"}
Refreshing == {"main", "gui"}

\* The parts of TypeOK.
SrvOK == srv \in Response /\ delivered \subseteq Req
FilesOK == join \in Join /\ tok \in Req /\ signal \in BOOLEAN
ThreadsOK == pc \in [Thread -> Codes] /\ buf \in [Thread -> Join]
RespOK == resp \in [Refreshing -> Response]
DaemonOK == /\ djwt \in Req /\ dmem \in JoinStatus
            /\ {started, claimed} \subseteq BOOLEAN /\ synced \in Req
RestOK == /\ gjwt \in Req
          /\ misstamped \subseteq Req /\ skipped \subseteq Req
          /\ abandoned \subseteq Req /\ withdrawn \subseteq Req
          /\ {quiet, cancelling} \subseteq BOOLEAN /\ stops \in 0..MaxStops

LEMMA TypeParts == TypeOK <=> SrvOK /\ FilesOK /\ ThreadsOK /\ RespOK /\ DaemonOK /\ RestOK
BY DEF TypeOK, SrvOK, FilesOK, ThreadsOK, RespOK, DaemonOK, RestOK, SrvStatus, JoinStatus,
       Response, Codes, Refreshing

LEMMA TypePartsNext ==
    TypeOK' <=> SrvOK' /\ FilesOK' /\ ThreadsOK' /\ RespOK' /\ DaemonOK' /\ RestOK'
BY DEF TypeOK, SrvOK, FilesOK, ThreadsOK, RespOK, DaemonOK, RestOK, SrvStatus, JoinStatus,
       Response, Codes, Refreshing

\* What the types rest on: a request the backend has is numbered, and room for
\* the next one was made sure of before the GUI posts it; only an answer that
\* a refresh acts on is under way.
Numbered(a) == a.status # "none" => a.req # 0
Polled == {"pending", "approved", "denied"}
Answers == /\ Numbered(srv)
           /\ \A t \in Refreshing : pc[t] = "asked" => resp[t].status \in Polled
           /\ \A t \in Refreshing : Numbered(resp[t])
RoomToPost == pc["gui"] = "post" => srv.req < MaxReq

(***************************************************************************)
(* A join state that is written or about to be: its marker is whole, an    *)
(* approval names its request, and a completion speaks the truth about the *)
(* request it names, be that the state's own or an earlier one.            *)
(***************************************************************************)
Whole(j) == /\ j.sync = "none" <=> j.syncReq = 0
            /\ j.st = "approved" => j.req # 0
Truthful(j, done) == j.sync = "complete" => j.syncReq \in done
Sound(j, done) == j \in Join /\ Whole(j) /\ Truthful(j, done)

Done == delivered \cup misstamped
JoinSound == Sound(join, Done)
BufSound == \A t \in Thread : Sound(buf[t], Done)
UploadArrived == synced # 0 => synced \in delivered

Types == TypeOK /\ Answers /\ RoomToPost
Markers == JoinSound /\ BufSound /\ UploadArrived
IInv == Types /\ Markers

LEMMA NoJoinSound == ASSUME NEW done PROVE Sound(NoJoin, done)
BY BoundAssumption DEF Sound, Whole, Truthful, NoJoin, Join, Req, SyncStatus

LEMMA UnmarkedSound ==
    ASSUME NEW st \in JoinStatus, NEW r \in Req, st = "approved" => r # 0, NEW done
    PROVE  Sound(Unmarked(st, r), done)
BY BoundAssumption DEF Sound, Whole, Truthful, Unmarked, Join, Req, SyncStatus, JoinStatus

LEMMA SoundStays ==
    ASSUME NEW j, NEW done, Sound(j, done), NEW more, done \subseteq more
    PROVE  Sound(j, more)
BY DEF Sound, Truthful

\* claim_approval_sync and finish_approval_sync: the marker of the state's own
\* request, complete only if that is done.
LEMMA MarkedSound ==
    ASSUME NEW j, NEW done, Sound(j, done), j.st = "approved",
           NEW mark \in SyncStatus \ {"none"}, NEW k, k = [j EXCEPT !.sync = mark, !.syncReq = RequestOf(j)],
           mark = "complete" => RequestOf(j) \in done
    PROVE  Sound(k, done)
<1>1. RequestOf(j) = j.req /\ j.req # 0 /\ j.req \in Req
    BY DEF RequestOf, Sound, Whole, Join
<1>2. k = [st |-> "approved", req |-> j.req, sync |-> mark, syncReq |-> j.req]
    BY <1>1 DEF Sound, Join
<1> HIDE DEF RequestOf
<1>3. k \in Join
    BY <1>1, <1>2 DEF Join
<1> QED BY <1>1, <1>2, <1>3 DEF Sound, Whole, Truthful

\* refresh_join_status_once: the file's marker is kept or dropped as a whole.
LEMMA RefreshedSound ==
    ASSUME NEW j, NEW done, Sound(j, done), NEW st \in JoinStatus, NEW r \in Req,
           st = "approved" => r # 0, NEW keep \in BOOLEAN, keep => st = "approved", NEW k,
           k = [st |-> st, req |-> r, sync |-> IF keep THEN j.sync ELSE "none",
                syncReq |-> IF keep THEN j.syncReq ELSE 0]
    PROVE  Sound(k, done)
<1>1. j.sync \in SyncStatus /\ j.syncReq \in Req /\ 0 \in Req /\ "none" \in SyncStatus
    BY BoundAssumption DEF Sound, Join, Req, SyncStatus
<1>2. k \in Join
    BY <1>1 DEF Join, JoinStatus
<1> QED BY <1>1, <1>2 DEF Sound, Whole, Truthful

\* _build_join_state: and filled in as a whole.
Filled(b, j) == [b EXCEPT !.sync = IF @ = "none" THEN j.sync ELSE @,
                          !.syncReq = IF @ = 0 THEN j.syncReq ELSE @]

LEMMA FilledSound ==
    ASSUME NEW j, NEW b, NEW done, Sound(j, done), Sound(b, done), b.st = "approved"
    PROVE  Sound(Filled(b, j), done)
<1>1. /\ j.sync \in SyncStatus /\ j.syncReq \in Req
      /\ b \in [st : JoinStatus, req : Req, sync : SyncStatus, syncReq : Req]
    BY DEF Sound, Join, JoinStatus
<1> DEFINE m == IF b.sync = "none" THEN j.sync ELSE b.sync
           n == IF b.syncReq = 0 THEN j.syncReq ELSE b.syncReq
<1>2. m \in SyncStatus /\ n \in Req
    BY <1>1
<1>3. Filled(b, j) = [b EXCEPT !.sync = m, !.syncReq = n]
    BY DEF Filled
<1>4. /\ (m = "none" <=> n = 0) /\ (m = "complete" => n \in done)
      /\ b.req # 0
    BY DEF Sound, Whole, Truthful
<1> HIDE DEF m, n
<1>5. Filled(b, j) = [st |-> "approved", req |-> b.req, sync |-> m, syncReq |-> n]
    BY <1>1, <1>3
<1>6. Filled(b, j) \in Join
    BY <1>1, <1>2, <1>5 DEF Join
<1> QED BY <1>4, <1>5, <1>6 DEF Sound, Whole, Truthful

-----------------------------------------------------------------------------
(* Markers                                                                 *)

\* Most steps move a state that is sound, or clear it.
LEMMA MarkersKept ==
    ASSUME Markers, Done \subseteq Done', UploadArrived',
           join' = join \/ join' = NoJoin \/ Sound(join', Done') \/ \E t \in Thread : join' = buf[t],
           \A t \in Thread : buf'[t] = buf[t] \/ buf'[t] = NoJoin \/ Sound(buf'[t], Done')
    PROVE  Markers'
<1>1. Sound(join, Done') /\ \A t \in Thread : Sound(buf[t], Done')
    BY SoundStays DEF Markers, JoinSound, BufSound
<1>2. Sound(NoJoin, Done')
    BY NoJoinSound
<1>3. JoinSound'
    BY <1>1, <1>2 DEF JoinSound
<1>4. BufSound'
    BY <1>1, <1>2 DEF BufSound
<1> QED BY <1>3, <1>4 DEF Markers

LEMMA InitInv == Init => IInv
<1> SUFFICES ASSUME Init PROVE IInv
    OBVIOUS
<1>1. \A t \in Thread : buf[t] = NoJoin
    BY DEF Init
<1>2. Markers
    BY <1>1, NoJoinSound DEF Init, Markers, JoinSound, BufSound, UploadArrived
<1>3. 0 \in Req /\ NoAnswer \in Response /\ MaxReq > 0
    BY BoundAssumption DEF Req, NoAnswer, Response, SrvStatus
<1>4. NoJoin \in Join
    BY <1>2 DEF Init, Markers, JoinSound, Sound
<1>5. TypeOK
    <2>1. /\ {started, claimed} \subseteq BOOLEAN /\ {quiet, cancelling} \subseteq BOOLEAN
          /\ signal \in BOOLEAN
        BY Zenon DEF Init
    <2>5. SrvOK /\ FilesOK /\ DaemonOK /\ RestOK
        BY <1>3, <1>4, <2>1, BoundAssumption
           DEF Init, SrvOK, FilesOK, DaemonOK, RestOK, JoinStatus
    <2>2. \A t \in Thread : pc[t] \in Codes
        BY DEF Init, Codes, Thread
    <2>3. ThreadsOK
        BY <1>4, <2>2 DEF Init, ThreadsOK
    <2>4. RespOK
        BY <1>3 DEF Init, RespOK, Refreshing
    <2> QED BY <2>3, <2>4, <2>5, TypeParts
<1>6. Answers /\ RoomToPost
    BY <1>3 DEF Init, Answers, RoomToPost, Numbered, NoAnswer, Refreshing, Thread
<1> QED BY <1>2, <1>5, <1>6 DEF IInv, Types

LEMMA AnsweredMarkers ==
    ASSUME IInv, NEW t \in Refreshing, Answered(t)
    PROVE  Markers'
<1> DEFINE r == resp[t].req
           st == resp[t].status
           keep == st = "approved" /\ ~(join.req # 0 /\ join.req # r)
           k == [st |-> st, req |-> r, sync |-> IF keep THEN join.sync ELSE "none",
                 syncReq |-> IF keep THEN join.syncReq ELSE 0]
<1>1. st \in JoinStatus /\ r \in Req /\ (st = "approved" => r # 0)
    BY TypeParts DEF IInv, Types, Answers, Numbered, RespOK, Response, Polled, JoinStatus, Answered, At
<1>2. buf' = [buf EXCEPT ![t] = k] /\ UNCHANGED <<join, delivered, misstamped, synced>>
    BY DEF Answered, srvVars, histVars
<1>3. Sound(join, Done) /\ keep \in BOOLEAN /\ (keep => st = "approved")
    BY DEF IInv, Markers, JoinSound
<1> HIDE DEF keep, st, r
<1>4. Sound(k, Done)
    BY <1>1, <1>3, RefreshedSound
<1> HIDE DEF k
<1>5. \A u \in Thread : buf'[u] = buf[u] \/ buf'[u] = k
    BY <1>2, TypeParts DEF IInv, Types, ThreadsOK
<1>6. Done' = Done /\ UploadArrived'
    BY <1>2 DEF Done, IInv, Markers, UploadArrived
<1> QED BY <1>2, <1>4, <1>5, <1>6, MarkersKept DEF IInv

LEMMA BuildMarkers ==
    ASSUME IInv, NEW t \in Refreshing, Build(t)
    PROVE  Markers'
<1>t. t \in Thread /\ buf \in [Thread -> Join]
    BY TypeParts DEF IInv, Types, ThreadsOK, Refreshing, Thread
<1>1. UNCHANGED <<join, delivered, misstamped, synced>>
    BY DEF Build, srvVars, histVars, fileVars, daemonVars
<1>2. Done' = Done /\ UploadArrived'
    BY <1>1 DEF Done, IInv, Markers, UploadArrived
<1>3. Sound(join, Done) /\ Sound(buf[t], Done)
    BY <1>t DEF IInv, Markers, JoinSound, BufSound
<1>4. CASE buf[t].st = "approved"
    <2>1. buf' = [buf EXCEPT ![t].sync = IF @ = "none" THEN join.sync ELSE @,
                             ![t].syncReq = IF @ = 0 THEN join.syncReq ELSE @]
        BY <1>4 DEF Build
    <2>2. buf'[t] = Filled(buf[t], join) /\ \A u \in Thread \ {t} : buf'[u] = buf[u]
        BY <2>1, <1>t DEF Join, Filled
    <2>3. Sound(Filled(buf[t], join), Done)
        BY <1>3, <1>4, FilledSound
    <2> QED BY <1>1, <1>2, <2>2, <2>3, MarkersKept DEF IInv
<1>5. CASE buf[t].st # "approved"
    <2>1. buf' = buf
        BY <1>5 DEF Build
    <2> QED BY <1>1, <1>2, <2>1, MarkersKept DEF IInv
<1> QED BY <1>4, <1>5

LEMMA PostJoinMarkers ==
    ASSUME IInv, PostJoin
    PROVE  Markers'
<1>t. "gui" \in Thread /\ buf \in [Thread -> Join] /\ srv.req + 1 \in Req /\ srv.req + 1 # 0
    BY TypeParts, BoundAssumption
       DEF IInv, Types, ThreadsOK, Thread, SrvOK, Response, Req, RoomToPost, PostJoin, At
<1>1. UNCHANGED <<join, delivered, misstamped, synced>>
    BY DEF PostJoin, histVars, daemonVars
<1>2. Done' = Done /\ UploadArrived'
    BY <1>1 DEF Done, IInv, Markers, UploadArrived
<1>3. \/ buf' = buf
      \/ \E status \in {"pending", "approved"} :
            buf' = [buf EXCEPT !["gui"] = Unmarked(status, srv.req + 1)]
    BY DEF PostJoin
<1>4. \A status \in {"pending", "approved"} : Sound(Unmarked(status, srv.req + 1), Done)
    BY <1>t, UnmarkedSound DEF JoinStatus
<1>5. \A u \in Thread : buf'[u] = buf[u] \/ Sound(buf'[u], Done)
    BY <1>t, <1>3, <1>4
<1> QED BY <1>1, <1>2, <1>5, MarkersKept DEF IInv

LEMMA ClaimMarkers ==
    ASSUME IInv, Claim
    PROVE  Markers'
<1>t. "main" \in Thread /\ buf \in [Thread -> Join]
    BY TypeParts DEF IInv, Types, ThreadsOK, Thread
<1>1. UNCHANGED <<join, delivered, misstamped, synced>>
    BY DEF Claim, srvVars, histVars, fileVars
<1>2. Done' = Done /\ UploadArrived'
    BY <1>1 DEF Done, IInv, Markers, UploadArrived
<1> DEFINE k == [join EXCEPT !.sync = "in_progress", !.syncReq = RequestOf(join)]
<1>3. buf' = buf \/ (join.st = "approved" /\ buf' = [buf EXCEPT !["main"] = k])
    BY DEF Claim
<1>4. join.st = "approved" => Sound(k, Done)
    <2>1. Sound(join, Done) /\ "in_progress" \in SyncStatus \ {"none"}
        BY DEF IInv, Markers, JoinSound, SyncStatus
    <2> QED BY <2>1, MarkedSound
<1> HIDE DEF k
<1>5. \A u \in Thread : buf'[u] = buf[u] \/ Sound(buf'[u], Done)
    BY <1>t, <1>3, <1>4
<1> QED BY <1>1, <1>2, <1>5, MarkersKept DEF IInv

\* finish_approval_sync: the request it stamps is the one that was uploaded for,
\* or recorded as misstamped.
LEMMA FinishMarkers ==
    ASSUME IInv, Finish
    PROVE  Markers'
<1>t. "scan" \in Thread /\ buf \in [Thread -> Join]
    BY TypeParts DEF IInv, Types, ThreadsOK, Thread
<1>1. UNCHANGED <<join, delivered>> /\ synced' \in {synced, 0}
    BY DEF Finish, srvVars, fileVars
<1>2. UploadArrived'
    BY <1>1 DEF IInv, Markers, UploadArrived
<1> DEFINE mark == IF synced # 0 THEN "complete" ELSE "failed"
           k == [join EXCEPT !.sync = mark, !.syncReq = RequestOf(join)]
<1>3. CASE join.st = "approved"
    <2>1. /\ buf' = [buf EXCEPT !["scan"] = k]
          /\ misstamped' = IF synced \notin {0, RequestOf(join)}
                           THEN misstamped \cup {RequestOf(join)} ELSE misstamped
        BY <1>3 DEF Finish
    <2>2. Done \subseteq Done'
        BY <1>1, <2>1 DEF Done
    <2>3. mark = "complete" => RequestOf(join) \in Done'
        BY <1>1, <2>1 DEF Done, IInv, Markers, UploadArrived
    <2>4. Sound(join, Done')
        BY <2>2, SoundStays DEF IInv, Markers, JoinSound
    <2>5. mark \in SyncStatus \ {"none"}
        BY DEF SyncStatus
    <2> HIDE DEF mark
    <2>6. Sound(k, Done')
        BY <1>3, <2>3, <2>4, <2>5, MarkedSound
    <2> HIDE DEF k
    <2>7. \A u \in Thread : buf'[u] = buf[u] \/ Sound(buf'[u], Done')
        BY <1>t, <2>1, <2>6
    <2> QED BY <1>1, <1>2, <2>2, <2>7, MarkersKept DEF IInv
<1>4. CASE join.st # "approved"
    <2>1. buf' = buf /\ misstamped' = misstamped
        BY <1>4 DEF Finish
    <2> QED BY <1>1, <1>2, <2>1, MarkersKept DEF IInv, Done
<1> QED BY <1>3, <1>4

LEMMA UploadMarkers ==
    ASSUME IInv, ScanUpload \/ PostUpload
    PROVE  Markers'
<1>1. /\ misstamped' = misstamped /\ buf' = buf /\ delivered \subseteq delivered'
      /\ join' \in {join, NoJoin}
      /\ synced' \in {synced, 0} \/ synced' \in delivered'
    BY DEF ScanUpload, PostUpload, Upload, histVars, bufVars, fileVars, DaemonWipe
<1>2. Done \subseteq Done' /\ UploadArrived'
    BY <1>1 DEF Done, IInv, Markers, UploadArrived
<1> QED BY <1>1, <1>2, MarkersKept DEF IInv

\* The other steps clear states, put them in place or leave them alone.
LEMMA OtherMarkers ==
    ASSUME IInv, UNCHANGED <<delivered, misstamped>>, synced' \in {synced, 0},
           \/ join' \in {join, NoJoin, Unmarked("pending", 0)}
           \/ \E t \in Thread : join' = buf[t],
           \A t \in Thread : buf'[t] \in {buf[t], NoJoin}
    PROVE  Markers'
<1>1. Done' = Done /\ UploadArrived'
    BY DEF Done, IInv, Markers, UploadArrived
<1>2. Sound(Unmarked("pending", 0), Done')
    BY UnmarkedSound, BoundAssumption DEF JoinStatus, Req
<1> QED BY <1>1, <1>2, MarkersKept DEF IInv

LEMMA StepMarkers == IInv /\ [Next]_vars => Markers'
<1> SUFFICES ASSUME IInv, [Next]_vars PROVE Markers'
    OBVIOUS
<1>t. buf \in [Thread -> Join] /\ Refreshing \subseteq Thread
    BY TypeParts DEF IInv, Types, ThreadsOK, Refreshing, Thread
<1>1. CASE UNCHANGED <<join, buf, delivered, misstamped, synced>>
    BY <1>1, OtherMarkers
<1>2. ASSUME NEW t \in Refreshing, Refresh(t)
      PROVE  Markers'
    <2>1. CASE Ask(t)
        BY <1>1, <2>1 DEF Ask, srvVars, fileVars, histVars
    <2>2. CASE WriteRefreshed(t)
        <3>1. /\ UNCHANGED <<delivered, misstamped, synced>> /\ join' \in {NoJoin, buf[t]}
              /\ buf' = [buf EXCEPT ![t] = NoJoin]
            BY <2>2 DEF WriteRefreshed, srvVars, histVars
        <3> QED BY <1>t, <3>1, OtherMarkers
    <2> QED BY <1>2, <2>1, <2>2, AnsweredMarkers, BuildMarkers DEF Refresh
<1>3. CASE Remember \/ Reread \/ Enrolled \/ StartScan \/ SeeSignal \/ Reload \/ Start
    BY <1>1, <1>3 DEF Remember, Reread, Enrolled, StartScan, SeeSignal, Reload, Start,
                      srvVars, fileVars, bufVars, histVars, daemonVars
<1>4. CASE FirstHeartbeatUnlinked \/ HeartbeatUnlinked
    BY <1>4, OtherMarkers DEF FirstHeartbeatUnlinked, HeartbeatUnlinked, DaemonWipe,
                              srvVars, bufVars, histVars
<1>5. CASE ClaimWrite \/ FinishWrite
    <2>1. PICK t \in {"main", "scan"} :
              /\ join' = buf[t] /\ buf' = [buf EXCEPT ![t] = NoJoin]
              /\ UNCHANGED <<delivered, misstamped>> /\ synced' \in {synced, 0}
        BY <1>5 DEF ClaimWrite, FinishWrite, srvVars, histVars
    <2> QED BY <1>t, <2>1, OtherMarkers DEF Thread
<1>6. CASE GuiWipe \/ RequestJoin \/ Cancel
    BY <1>6, OtherMarkers DEF GuiWipe, RequestJoin, Cancel, srvVars, bufVars, histVars, daemonVars
<1>7. CASE RequestIndividual \/ CancelArrives \/ GuiUnlink \/ Decide
    BY <1>7, <1>1 DEF RequestIndividual, CancelArrives, GuiUnlink, Decide,
                      srvVars, fileVars, bufVars, histVars, daemonVars
<1>8. CASE GuiClose \/ Stop
    <2>1. /\ UNCHANGED <<join, delivered, misstamped>> /\ synced' \in {synced, 0}
          /\ \/ buf' = [buf EXCEPT !["gui"] = NoJoin]
             \/ buf' = [buf EXCEPT !["main"] = NoJoin, !["scan"] = NoJoin, !["post"] = NoJoin]
        BY <1>8 DEF GuiClose, Stop, srvVars, fileVars, histVars, daemonVars
    <2> QED BY <1>t, <2>1, OtherMarkers
<1>9. CASE UNCHANGED vars
    BY <1>9, <1>1 DEF vars, srvVars, fileVars, bufVars, daemonVars, histVars
<1> QED BY <1>2, <1>3, <1>4, <1>5, <1>6, <1>7, <1>8, <1>9, PostJoinMarkers, ClaimMarkers,
           FinishMarkers, UploadMarkers DEF Next, Main, Scan, Gui, Refreshing

-----------------------------------------------------------------------------
(* Steps keep the types                                                    *)

\* What a step does to the threads: one goes on to some point of the code, or
\* the daemon's go together; what they are about to write is sound.
LEMMA ThreadTypes ==
    ASSUME ThreadsOK, Markers',
           \/ pc' = pc
           \/ \E t \in Thread, c \in Codes : pc' = [pc EXCEPT ![t] = c]
           \/ \E t, u \in Thread, c, d \in Codes : pc' = [pc EXCEPT ![t] = c, ![u] = d]
           \/ pc' = [pc EXCEPT !["main"] = "off", !["scan"] = "idle", !["post"] = "idle"],
           DOMAIN buf' = Thread,
           buf' = [t \in Thread |-> buf'[t]]
    PROVE  ThreadsOK'
<1>1. pc' \in [Thread -> Codes]
    <2>1. CASE \E t \in Thread, c \in Codes : pc' = [pc EXCEPT ![t] = c]
        BY <2>1 DEF ThreadsOK
    <2>2. CASE \E t, u \in Thread, c, d \in Codes : pc' = [pc EXCEPT ![t] = c, ![u] = d]
        BY <2>2 DEF ThreadsOK
    <2>3. CASE pc' = [pc EXCEPT !["main"] = "off", !["scan"] = "idle", !["post"] = "idle"]
        BY <2>3 DEF ThreadsOK, Codes
    <2> QED BY <2>1, <2>2, <2>3 DEF ThreadsOK
<1>2. \A t \in Thread : buf'[t] \in Join
    BY DEF Markers, BufSound, Sound
<1> QED BY <1>1, <1>2 DEF ThreadsOK

LEMMA NextRefresh ==
    ASSUME IInv, Markers', NEW t \in Refreshing, Refresh(t)
    PROVE  Types'
<1>t. /\ SrvOK /\ FilesOK /\ ThreadsOK /\ RespOK /\ DaemonOK /\ RestOK
      /\ Answers /\ RoomToPost /\ join' \in Join
      /\ t \in Thread /\ (t = "main" \/ t = "gui")
    BY TypeParts DEF IInv, Types, Markers, JoinSound, Sound, Refreshing, Thread
<1>1. ASSUME Ask(t)
      PROVE  Types'
    <2>1. ThreadsOK' /\ RespOK' /\ resp' = [resp EXCEPT ![t] = srv] /\ srv.status \in Polled
          /\ pc' = [pc EXCEPT ![t] = "asked"]
        BY <1>1, <1>t DEF Ask, Go, ThreadsOK, RespOK, SrvOK, Codes, Polled
    <2>2. SrvOK' /\ FilesOK' /\ DaemonOK' /\ RestOK' /\ srv' = srv
        BY <1>1, <1>t DEF Ask, SrvOK, FilesOK, DaemonOK, RestOK, JoinStatus, srvVars, fileVars,
                          histVars, cancelVars
    <2>3. Answers' /\ RoomToPost'
        BY <1>t, <2>1, <2>2 DEF Answers, RoomToPost, ThreadsOK, RespOK, Refreshing, Numbered
    <2> QED BY <2>1, <2>2, <2>3, TypePartsNext DEF Types
<1>2. ASSUME Answered(t)
      PROVE  Types'
    <2>1. /\ resp[t] \in Response /\ resp' = [resp EXCEPT ![t] = NoAnswer]
          /\ pc' = [pc EXCEPT ![t] = "build"] /\ NoAnswer \in Response
        BY <1>2, <1>t, BoundAssumption
           DEF Answered, Go, RespOK, NoAnswer, Response, SrvStatus, Req, Refreshing
    <2>2. ThreadsOK'
        BY <1>2, <1>t, <2>1, ThreadTypes DEF Answered, ThreadsOK, Codes
    <2>3. RespOK'
        BY <1>t, <2>1 DEF RespOK
    <2>4. SrvOK' /\ FilesOK' /\ DaemonOK' /\ RestOK' /\ srv' = srv
        BY <1>2, <1>t, <2>1 DEF Answered, SrvOK, FilesOK, DaemonOK, RestOK, Response, srvVars,
                                histVars, cancelVars
    <2>5. Answers' /\ RoomToPost'
        BY <1>t, <2>1, <2>4
           DEF Answers, RoomToPost, ThreadsOK, RespOK, Refreshing, Numbered, NoAnswer
    <2> QED BY <2>2, <2>3, <2>4, <2>5, TypePartsNext DEF Types
<1>3. ASSUME Build(t) \/ WriteRefreshed(t)
      PROVE  Types'
    <2>1. /\ \E c \in {"write", "wait", "open"} : pc' = [pc EXCEPT ![t] = c]
          /\ UNCHANGED <<srv, delivered, tok, signal, resp, djwt, started, claimed, synced>>
          /\ UNCHANGED <<gjwt, misstamped, skipped, abandoned, withdrawn, quiet, cancelling,
                         stops>>
          /\ dmem' = dmem \/ dmem' \in {"none", buf[t].st}
        BY <1>3 DEF Build, WriteRefreshed, Go, Idle, srvVars, fileVars, daemonVars, histVars,
                    cancelVars
    <2>2. buf[t].st \in JoinStatus
        BY <1>t DEF ThreadsOK, Join, JoinStatus
    <2>3. ThreadsOK'
        <3>1. DOMAIN buf' = Thread /\ buf' = [u \in Thread |-> buf'[u]]
            BY <1>3, <1>t DEF ThreadsOK, Build, WriteRefreshed
        <3>2. \E c \in Codes : pc' = [pc EXCEPT ![t] = c]
            BY <2>1 DEF Codes
        <3> QED BY <1>t, <3>1, <3>2, ThreadTypes
    <2>4. SrvOK' /\ FilesOK' /\ DaemonOK' /\ RestOK' /\ RespOK'
        BY <1>t, <2>1, <2>2 DEF SrvOK, FilesOK, DaemonOK, RestOK, RespOK, JoinStatus
    <2>5. Answers' /\ RoomToPost'
        BY <1>t, <2>1 DEF Answers, RoomToPost, ThreadsOK, RespOK, Refreshing
    <2> QED BY <2>3, <2>4, <2>5, TypePartsNext DEF Types
<1> QED BY <1>1, <1>2, <1>3 DEF Refresh

\* A step that leaves requests and answers alone keeps what is known of them,
\* unless a thread begins to ask or to post.
LEMMA AnswersKept ==
    ASSUME Answers, RoomToPost, UNCHANGED <<srv, resp>>,
           \A t \in Refreshing : pc'[t] = pc[t] \/ pc'[t] \notin {"asked", "post"}
    PROVE  Answers' /\ RoomToPost'
BY DEF Answers, RoomToPost, Refreshing, Numbered

LEMMA NextDaemon ==
    ASSUME IInv, Markers',
           \/ Remember \/ Reread \/ Enrolled \/ FirstHeartbeatUnlinked \/ Claim \/ ClaimWrite
           \/ StartScan \/ SeeSignal \/ Reload \/ HeartbeatUnlinked \/ Start
           \/ ScanUpload \/ PostUpload \/ Finish \/ FinishWrite
    PROVE  Types'
<1>t. /\ SrvOK /\ FilesOK /\ ThreadsOK /\ RespOK /\ DaemonOK /\ RestOK
      /\ Answers /\ RoomToPost /\ join' \in Join /\ 0 \in Req
    BY TypeParts, BoundAssumption DEF IInv, Types, Markers, JoinSound, Sound, Req
<1> DEFINE Onward == {"off", "wait", "claim", "claimWrite", "start", "loop", "idle", "scan",
                      "finish", "finishWrite"}
<1>1. /\ srv' = srv /\ resp' = resp /\ UNCHANGED <<gjwt, withdrawn, quiet, cancelling, stops>>
      /\ delivered' = delivered \/ delivered' = delivered \cup {djwt}
    BY DEF Remember, Reread, Enrolled, FirstHeartbeatUnlinked, Claim, ClaimWrite, StartScan,
           SeeSignal, Reload, HeartbeatUnlinked, Start, ScanUpload, PostUpload, Upload, Finish,
           FinishWrite, srvVars, bufVars, cancelVars
<1>2. /\ tok' \in {tok, 0} /\ signal' \in {signal, FALSE}
      /\ djwt' \in {djwt, tok, 0} /\ synced' \in {synced, djwt, 0}
      /\ dmem' \in {dmem, "none", "approved", join.st}
    BY DEF Remember, Reread, Enrolled, FirstHeartbeatUnlinked, Claim, ClaimWrite, StartScan,
           SeeSignal, ConsumeUnlinkSignal, Reload, HeartbeatUnlinked, Start, ScanUpload,
           PostUpload, Upload, Finish, FinishWrite, fileVars, daemonVars, DaemonWipe
<1>3. started' \in {started, TRUE, FALSE} /\ claimed' \in {claimed, TRUE, FALSE}
    BY DEF Remember, Reread, Enrolled, FirstHeartbeatUnlinked, Claim, ClaimWrite, StartScan,
           SeeSignal, Reload, HeartbeatUnlinked, Start, ScanUpload, PostUpload, Upload, Finish,
           FinishWrite, daemonVars
<1>4. /\ misstamped' = misstamped \/ misstamped' = misstamped \cup {RequestOf(join)}
      /\ skipped' = skipped \/ skipped' = skipped \cup {djwt}
      /\ abandoned' \in {abandoned, {djwt} \ delivered, {}}
    BY DEF Remember, Reread, Enrolled, FirstHeartbeatUnlinked, Claim, ClaimWrite, StartScan,
           SeeSignal, Reload, HeartbeatUnlinked, Start, ScanUpload, PostUpload, Upload, Finish,
           FinishWrite, histVars
<1>5. \/ pc' = pc
      \/ \E t \in {"main", "scan", "post"}, c \in Onward : pc' = [pc EXCEPT ![t] = c]
      \/ \E t \in {"scan", "post"}, c \in Onward : pc' = [pc EXCEPT !["main"] = "loop", ![t] = c]
    BY DEF Remember, Reread, Enrolled, FirstHeartbeatUnlinked, Claim, ClaimWrite, StartScan,
           SeeSignal, Reload, HeartbeatUnlinked, Start, ScanUpload, PostUpload, Upload, Finish,
           FinishWrite, Go
<1>6. \/ buf' = buf
      \/ \E t \in {"main", "scan"} : \E k : buf' = [buf EXCEPT ![t] = k]
    BY DEF Remember, Reread, Enrolled, FirstHeartbeatUnlinked, Claim, ClaimWrite, StartScan,
           SeeSignal, Reload, HeartbeatUnlinked, Start, ScanUpload, PostUpload, Upload, Finish,
           FinishWrite, bufVars
<1>7. RequestOf(join) \in Req /\ join.st \in JoinStatus
    BY <1>t DEF RequestOf, FilesOK, Join, JoinStatus
<1>8. ThreadsOK'
    <2>1. DOMAIN buf' = Thread /\ buf' = [u \in Thread |-> buf'[u]]
        BY <1>6, <1>t DEF ThreadsOK
    <2>2. Onward \subseteq Codes /\ {"main", "scan", "post"} \subseteq Thread /\ "loop" \in Codes
        BY DEF Codes, Thread
    <2> HIDE DEF Onward
    <2> QED BY <1>t, <1>5, <2>1, <2>2, ThreadTypes
<1>9. \A t \in Refreshing : pc'[t] = pc[t] \/ pc'[t] \notin {"asked", "post"}
    BY <1>t, <1>5 DEF ThreadsOK, Refreshing, Thread
<1>10. Answers' /\ RoomToPost'
    BY <1>t, <1>1, <1>9, AnswersKept
<1>11. SrvOK' /\ RespOK'
    BY <1>t, <1>1 DEF SrvOK, RespOK, DaemonOK
<1>12. signal' \in BOOLEAN /\ {started', claimed'} \subseteq BOOLEAN
    BY <1>t, <1>2, <1>3, Zenon DEF FilesOK, DaemonOK
<1>13. FilesOK' /\ DaemonOK'
    BY <1>t, <1>2, <1>7, <1>12 DEF FilesOK, DaemonOK, JoinStatus
<1>14. RestOK'
    BY <1>t, <1>1, <1>4, <1>7 DEF RestOK, DaemonOK
<1> QED BY <1>8, <1>10, <1>11, <1>13, <1>14, TypePartsNext DEF Types

LEMMA NextGui ==
    ASSUME IInv, Markers', GuiWipe \/ RequestJoin \/ Cancel \/ GuiUnlink \/ GuiClose \/ Stop
    PROVE  Types'
<1>t. /\ SrvOK /\ FilesOK /\ ThreadsOK /\ RespOK /\ DaemonOK /\ RestOK
      /\ Answers /\ RoomToPost /\ join' \in Join /\ 0 \in Req /\ srv.req \in Req
      /\ NoAnswer \in Response
    BY TypeParts, BoundAssumption
       DEF IInv, Types, Markers, JoinSound, Sound, Req, SrvOK, Response, NoAnswer, SrvStatus
<1>1. /\ delivered' = delivered
      /\ srv' = srv \/ (srv' = [srv EXCEPT !.status = "unlinked"] /\ srv.status # "none")
      /\ tok' \in {tok, 0} /\ djwt' \in {djwt, 0} /\ gjwt' \in {gjwt, 0}
      /\ synced' \in {synced, 0} /\ dmem' \in {dmem, "none"}
      /\ UNCHANGED <<misstamped, skipped>> /\ abandoned' \in {abandoned, {}}
      /\ withdrawn' \in {withdrawn, withdrawn \cup {srv.req}, {}}
      /\ stops' = stops \/ (stops < MaxStops /\ stops' = stops + 1)
    BY DEF GuiWipe, RequestJoin, Cancel, GuiUnlink, GuiClose, Stop, srvVars, fileVars, daemonVars,
           histVars, cancelVars
<1>2. /\ signal' \in {signal, TRUE, FALSE}
      /\ started' \in {started, FALSE} /\ claimed' \in {claimed, FALSE}
      /\ quiet' \in {quiet, TRUE, FALSE} /\ cancelling' \in {cancelling, TRUE, FALSE}
    BY DEF GuiWipe, RequestJoin, Cancel, GuiUnlink, GuiClose, Stop, RequestUnlinkSignal,
           fileVars, daemonVars, cancelVars
<1>3. \/ pc' = pc
      \/ \E c \in {"open", "closed", "wipe"} : pc' = [pc EXCEPT !["gui"] = c]
      \/ pc' = [pc EXCEPT !["gui"] = "post"] /\ srv.req < MaxReq
      \/ pc' = [pc EXCEPT !["main"] = "off", !["scan"] = "idle", !["post"] = "idle"]
    BY DEF GuiWipe, RequestJoin, MayRequest, Cancel, GuiUnlink, GuiClose, Stop, Go
<1>4. /\ resp' = resp \/ \E t \in Refreshing : resp' = [resp EXCEPT ![t] = NoAnswer]
      /\ \/ buf' = buf \/ buf' = [buf EXCEPT !["gui"] = NoJoin]
         \/ buf' = [buf EXCEPT !["main"] = NoJoin, !["scan"] = NoJoin, !["post"] = NoJoin]
    BY DEF GuiWipe, RequestJoin, Cancel, GuiUnlink, GuiClose, Stop, bufVars, Refreshing
<1>5. ThreadsOK'
    <2>1. DOMAIN buf' = Thread /\ buf' = [u \in Thread |-> buf'[u]]
        BY <1>4, <1>t DEF ThreadsOK
    <2>2. \/ pc' = pc
          \/ \E t \in Thread, c \in Codes : pc' = [pc EXCEPT ![t] = c]
          \/ pc' = [pc EXCEPT !["main"] = "off", !["scan"] = "idle", !["post"] = "idle"]
        BY <1>3 DEF Codes, Thread
    <2> QED BY <1>t, <2>1, <2>2, ThreadTypes
<1>6. SrvOK' /\ RespOK'
    BY <1>t, <1>1, <1>4 DEF SrvOK, RespOK, Response, SrvStatus
<1>7. {signal', started', claimed', quiet', cancelling'} \subseteq BOOLEAN
    BY <1>t, <1>2, Zenon DEF FilesOK, DaemonOK, RestOK
<1>8. FilesOK' /\ DaemonOK'
    BY <1>t, <1>1, <1>7 DEF FilesOK, DaemonOK, JoinStatus
<1>9. RestOK'
    BY <1>t, <1>1, <1>7, BoundAssumption DEF RestOK
<1>10. Answers'
    <2>1. Numbered(srv')
        BY <1>t, <1>1 DEF Answers, Numbered, SrvOK, Response
    <2>2. \A t \in Refreshing : resp'[t] = resp[t] \/ resp'[t] = NoAnswer
        BY <1>t, <1>4 DEF RespOK
    <2>3. ASSUME NEW t \in Refreshing, pc'[t] = "asked"
          PROVE  resp'[t].status \in Polled
        <3>1. pc[t] = "asked"
            BY <1>t, <1>3, <2>3 DEF ThreadsOK, Refreshing, Thread
        <3>2. \/ resp' = resp
              \/ pc' = [pc EXCEPT !["gui"] = "closed"]
                 /\ resp' = [resp EXCEPT !["gui"] = NoAnswer]
              \/ pc' = [pc EXCEPT !["main"] = "off", !["scan"] = "idle", !["post"] = "idle"]
                 /\ resp' = [resp EXCEPT !["main"] = NoAnswer]
            BY DEF GuiWipe, RequestJoin, Cancel, GuiUnlink, GuiClose, Stop, Go, bufVars
        <3>3. resp'[t] = resp[t]
            BY <1>t, <2>3, <3>2 DEF ThreadsOK, RespOK, Refreshing, Thread
        <3> QED BY <1>t, <3>1, <3>3 DEF Answers
    <2> QED BY <1>t, <2>1, <2>2, <2>3 DEF Answers, Numbered, NoAnswer
<1>11. RoomToPost'
    BY <1>t, <1>1, <1>3 DEF RoomToPost, ThreadsOK, Thread, SrvOK, Response
<1> QED BY <1>5, <1>6, <1>8, <1>9, <1>10, <1>11, TypePartsNext DEF Types

LEMMA NextBackend ==
    ASSUME IInv, Markers', PostJoin \/ RequestIndividual \/ CancelArrives \/ Decide
    PROVE  Types'
<1>t. /\ SrvOK /\ FilesOK /\ ThreadsOK /\ RespOK /\ DaemonOK /\ RestOK
      /\ Answers /\ RoomToPost /\ join' \in Join /\ srv.req \in Nat
    BY TypeParts DEF IInv, Types, Markers, JoinSound, Sound, SrvOK, Response, Req
<1>1. UNCHANGED <<delivered, join, signal, resp, djwt, dmem, started, claimed, synced,
                  misstamped, skipped, withdrawn, stops>>
      /\ abandoned' \in {abandoned, {}}
    BY DEF PostJoin, RequestIndividual, CancelArrives, Decide, srvVars, fileVars, bufVars,
           daemonVars, histVars, cancelVars
<1>2. PostJoin \/ RequestIndividual => srv.req + 1 \in Req
    <2>1. PostJoin \/ RequestIndividual => srv.req < MaxReq
        BY <1>t DEF PostJoin, RequestIndividual, MayRequest, RoomToPost, At
    <2> QED BY <1>t, <2>1, BoundAssumption DEF Req
<1>3. /\ \/ srv' = srv
         \/ \E s \in SrvStatus : srv' = [srv EXCEPT !.status = s] /\ (srv.status # "none" \/ s = "none")
         \/ \E s \in {"pending", "approved"} :
                srv' = [req |-> srv.req + 1, status |-> s] /\ srv.req + 1 \in Req
      /\ tok' = tok \/ (tok' = srv.req + 1 /\ srv.req + 1 \in Req)
      /\ gjwt' = gjwt \/ (gjwt' = srv.req + 1 /\ srv.req + 1 \in Req)
    <2>1. CASE PostJoin \/ RequestIndividual
        BY <1>2, <2>1 DEF PostJoin, RequestIndividual
    <2>2. CASE CancelArrives \/ Decide
        BY <2>2 DEF CancelArrives, Decide, SrvStatus, fileVars
    <2> QED BY <2>1, <2>2
<1>4. quiet' \in BOOLEAN /\ cancelling' \in BOOLEAN
    BY <1>t, Zenon DEF PostJoin, RequestIndividual, CancelArrives, Decide, cancelVars, RestOK
<1>5. \/ pc' = pc
      \/ \E c \in {"build", "open"} : pc' = [pc EXCEPT !["gui"] = c]
    BY DEF PostJoin, RequestIndividual, CancelArrives, Decide, Go
<1>6. ThreadsOK'
    <2>1. buf' = buf \/ \E k : buf' = [buf EXCEPT !["gui"] = k]
        BY DEF PostJoin, RequestIndividual, CancelArrives, Decide, bufVars
    <2>2. DOMAIN buf' = Thread /\ buf' = [u \in Thread |-> buf'[u]]
        BY <2>1, <1>t DEF ThreadsOK
    <2>3. pc' = pc \/ \E t \in Thread, c \in Codes : pc' = [pc EXCEPT ![t] = c]
        BY <1>5 DEF Codes, Thread
    <2> QED BY <1>t, <2>2, <2>3, ThreadTypes
<1>7. SrvOK'
    BY <1>t, <1>1, <1>3 DEF SrvOK, Response, SrvStatus
<1>8. FilesOK' /\ RespOK' /\ DaemonOK'
    BY <1>t, <1>1, <1>3 DEF FilesOK, RespOK, DaemonOK
<1>9. RestOK'
    BY <1>t, <1>1, <1>3, <1>4 DEF RestOK
<1>10. Numbered(srv')
    BY <1>t, <1>3 DEF Answers, Numbered, SrvOK, Response
<1>11. Answers'
    BY <1>t, <1>1, <1>5, <1>10 DEF Answers, Numbered, ThreadsOK, Refreshing, Thread
<1>12. RoomToPost'
    <2>1. CASE PostJoin
        BY <1>t, <2>1 DEF PostJoin, RoomToPost, Go, ThreadsOK, Thread
    <2>2. CASE RequestIndividual
        BY <1>t, <2>2 DEF RequestIndividual, MayRequest, RoomToPost, At
    <2>3. CASE CancelArrives \/ Decide
        BY <1>t, <2>3 DEF CancelArrives, Decide, RoomToPost, SrvOK, Response
    <2> QED BY <2>1, <2>2, <2>3
<1> QED BY <1>6, <1>7, <1>8, <1>9, <1>11, <1>12, TypePartsNext DEF Types

LEMMA StepInv == IInv /\ [Next]_vars => IInv'
<1> SUFFICES ASSUME IInv, [Next]_vars PROVE IInv'
    OBVIOUS
<1>1. Markers'
    BY StepMarkers
<1>2. CASE UNCHANGED vars
    <2>1. Types'
        BY <1>2, TypeParts, TypePartsNext
           DEF IInv, Types, SrvOK, FilesOK, ThreadsOK, RespOK, DaemonOK, RestOK, Answers, Numbered,
               RoomToPost, vars, srvVars, fileVars, bufVars, daemonVars, histVars, cancelVars
    <2> QED BY <1>1, <2>1 DEF IInv
<1>3. CASE Next
    <2>1. Types'
        BY <1>1, <1>3, NextRefresh, NextDaemon, NextGui, NextBackend
           DEF Next, Main, Scan, Gui, Refreshing
    <2> QED BY <1>1, <2>1 DEF IInv
<1> QED BY <1>2, <1>3

\* Every variable of the two processes, of their files and of the backend keeps
\* its type: a state that is not approved never carries a marker, and a request
\* is never numbered beyond what the backend has registered.
THEOREM TypesHold == Spec => []TypeOK
<1>1. IInv => TypeOK
    BY DEF IInv, Types
<1> QED BY <1>1, InitInv, StepInv, PTL DEF Spec

\* A join state that says the approval sync of its request is complete speaks
\* the truth, wherever the GUI's and the daemon's loads, builds and
\* replacements of the file interleave and wherever the daemon stops.
THEOREM CompletionIsTrue == Spec => []CompleteMeansSynced
<1>1. IInv => CompleteMeansSynced
    BY DEF IInv, Markers, JoinSound, Sound, Truthful, Done, CompleteMeansSynced, SyncComplete
<1> QED BY <1>1, InitInv, StepInv, PTL DEF Spec

=============================================================================
