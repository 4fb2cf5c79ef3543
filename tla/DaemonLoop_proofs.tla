------------------------- MODULE DaemonLoop_proofs --------------------------
(***************************************************************************)
(* DaemonLoop keeps its types, and the enrolment is wiped only for cause,  *)
(* whatever the number of workers and of changes.                          *)
(***************************************************************************)
EXTENDS DaemonLoop, TLAPS

USE DEF fileVars

-----------------------------------------------------------------------------
(* The inductive invariant                                                 *)

\* Each failure the latch counts is a rejection some thread received.
LatchCounted ==
    /\ latch <= rejections
    /\ latch = 3 => main \in {"relatch", "stopped"}
    /\ main = "handle" /\ Rejected => latch < rejections

\* A client without a token has heard no rejection, and the first heartbeat
\* has a token.
NoTokenNoStatus ==
    /\ ~jwt => status = "other"
    /\ main = "first" => jwt

IInv == TypeOK /\ LatchCounted /\ NoTokenNoStatus

-----------------------------------------------------------------------------
(* What the answers do                                                     *)

\* A heard answer keeps the enrolment, and a rejection is counted.
LEMMA HearEffect ==
    ASSUME TypeOK, NEW big \in BOOLEAN, Hear(big)
    PROVE  /\ status' \in Status /\ license' \in BOOLEAN /\ rejections' \in 0..3
           /\ jwt' = jwt /\ UNCHANGED fileVars /\ signal' = signal /\ eaten' = eaten
           /\ rejections <= rejections'
           /\ status' \in {"401", "403"} =>
                 \/ rejections' > rejections
                 \/ rejections' = 3
                 \/ ~Answered /\ status' = status
<1> DEFINE r == Answer(big)
<1>1. r.status \in Status
    BY DEF Answer, Reply, Status
<1>2. LicenseAfter(r) \in BOOLEAN
    BY Zenon DEF LicenseAfter
<1>3. /\ Counted(r) \in 0..3 /\ rejections <= Counted(r)
      /\ r.status \in {"401", "403"} => Counted(r) > rejections \/ Counted(r) = 3
    BY DEF TypeOK, Counted
<1>4. /\ status' = IF Answered THEN r.status ELSE status
      /\ license' = IF Answered THEN LicenseAfter(r) ELSE license
      /\ rejections' = IF Answered THEN Counted(r) ELSE rejections
      /\ jwt' = jwt /\ UNCHANGED fileVars /\ signal' = signal /\ eaten' = eaten
    BY Zenon DEF Hear
<1>5. /\ status \in Status /\ license \in BOOLEAN /\ rejections \in 0..3
    BY DEF TypeOK
<1> HIDE DEF r
<1> QED
    BY <1>1, <1>2, <1>3, <1>4, <1>5

\* What any request does to the state the threads share.
InventoryTyped ==
    missing' \in BOOLEAN /\ queued' \in BOOLEAN /\ covers' \in SUBSET Worker

SharedNext ==
    /\ InventoryTyped
    /\ tok' \in BOOLEAN /\ marker' \in BOOLEAN /\ signal' \in BOOLEAN /\ eaten' \in BOOLEAN
    /\ jwt' \in BOOLEAN /\ license' \in BOOLEAN /\ status' \in Status
    /\ rejections' \in 0..3 /\ rejections <= rejections'
    /\ ~jwt' => status' = "other"
    /\ status' \in {"401", "403"} =>
          status' = status \/ rejections' > rejections \/ rejections' = 3

LEMMA InventoryKept ==
    ASSUME TypeOK, Keep \/ Drop \/ Partial
    PROVE  InventoryTyped
BY DEF TypeOK, Keep, Drop, Partial, InventoryTyped

LEMMA HearShared ==
    ASSUME TypeOK, jwt, NEW big \in BOOLEAN, Hear(big), InventoryTyped
    PROVE  SharedNext
<1>1. /\ eaten' \in BOOLEAN /\ signal' \in BOOLEAN /\ jwt' \in BOOLEAN
      /\ tok' \in BOOLEAN /\ marker' \in BOOLEAN
    BY HearEffect DEF TypeOK
<1> QED
    BY <1>1, HearEffect DEF SharedNext

\* clear_local_state, whoever calls it
LEMMA WipeTyped ==
    ASSUME TypeOK, Wipe, rejections' = rejections
    PROVE  SharedNext
<1>1. /\ jwt' = FALSE /\ tok' = FALSE /\ marker' = FALSE /\ license' = TRUE /\ status' = "other"
      /\ missing' = TRUE /\ queued' = FALSE /\ covers' = {} /\ signal' = FALSE
    BY Zenon DEF Wipe
<1>2. (eaten \/ signal) \in BOOLEAN
    BY Zenon
<1>3. eaten' \in BOOLEAN
    BY <1>2, Zenon DEF Wipe
<1>4. InventoryTyped
    BY <1>1 DEF InventoryTyped
<1>5. /\ tok' \in BOOLEAN /\ marker' \in BOOLEAN /\ signal' \in BOOLEAN /\ jwt' \in BOOLEAN
      /\ license' \in BOOLEAN
    BY <1>1
<1>6. status' \in Status /\ status' \notin {"401", "403"}
    BY <1>1 DEF Status
<1>7. rejections' \in 0..3 /\ rejections <= rejections'
    BY DEF TypeOK
<1> QED
    BY <1>1, <1>3, <1>4, <1>5, <1>6, <1>7 DEF SharedNext

LEMMA WipeShared ==
    ASSUME TypeOK, NEW big \in BOOLEAN, HearUnlinked(big)
    PROVE  SharedNext
BY WipeTyped DEF HearUnlinked

LEMMA SilentShared ==
    ASSUME TypeOK, NoTokenNoStatus, InventoryTyped,
           UNCHANGED <<clientVars, fileVars, signal, eaten, rejections>>
    PROVE  SharedNext
BY DEF SharedNext, TypeOK, NoTokenNoStatus, clientVars

LEMMA ChatShared ==
    ASSUME TypeOK, jwt, Chat
    PROVE  SharedNext
BY HearShared, WipeShared, InventoryKept DEF Chat

LEMMA BaselineShared ==
    ASSUME TypeOK, NoTokenNoStatus, Baseline
    PROVE  SharedNext
BY HearShared, WipeShared, SilentShared, InventoryKept DEF Baseline

-----------------------------------------------------------------------------
(* One step of the other threads                                           *)

LEMMA OverheardType == Overheard \subseteq Excuse
BY DEF Overheard, Excuse

\* A request of another thread leaves the main thread where it is.
LEMMA OtherKept ==
    ASSUME IInv, SharedNext, OtherThread, main # "first",
           work' \in [Worker -> WorkStep], excuse' \in SUBSET Excuse
    PROVE  IInv'
<1>1. TypeOK'
    BY DEF IInv, TypeOK, SharedNext, InventoryTyped, OtherThread, serverVars, beatVars
<1>2. LatchCounted'
    BY DEF IInv, TypeOK, SharedNext, OtherThread, beatVars, LatchCounted, Rejected
<1>3. NoTokenNoStatus'
    BY DEF IInv, NoTokenNoStatus, SharedNext, OtherThread
<1> QED
    BY <1>1, <1>2, <1>3 DEF IInv

LEMMA StepType ==
    ASSUME TypeOK, NEW w \in Worker, NEW here, NEW there \in WorkStep, Step(w, here, there)
    PROVE  work' \in [Worker -> WorkStep]
BY DEF TypeOK, Step

LEMMA ChatterKept ==
    ASSUME IInv, PreScanHeartbeat \/ LogEvent
    PROVE  IInv'
<1>1. jwt /\ Chat /\ OtherThread /\ UNCHANGED work /\ main # "first"
    BY DEF PreScanHeartbeat, LogEvent, Looping, Running
<1>2. excuse' \in SUBSET Excuse
    BY OverheardType DEF PreScanHeartbeat, LogEvent, IInv, TypeOK
<1>3. SharedNext
    BY <1>1, ChatShared DEF IInv
<1>4. work' \in [Worker -> WorkStep]
    BY <1>1 DEF IInv, TypeOK
<1> QED
    BY <1>1, <1>2, <1>3, <1>4, OtherKept

LEMMA MonitorKept ==
    ASSUME IInv, MonitorReport
    PROVE  IInv'
<1>1. OtherThread /\ UNCHANGED work /\ main # "first"
    BY DEF MonitorReport, Looping, Running
<1>2. excuse' \in SUBSET Excuse
    BY OverheardType DEF MonitorReport, IInv, TypeOK
<1>3. SharedNext
  <2>1. CASE Drop /\ UNCHANGED <<clientVars, fileVars, signal, eaten, rejections>>
    BY <2>1, InventoryKept, SilentShared DEF IInv
  <2>2. CASE HearUnlinked(FALSE)
    BY <2>2, WipeShared DEF IInv
  <2>3. CASE jwt /\ Hear(FALSE) /\ (Keep \/ Drop)
    BY <2>3, InventoryKept, HearShared DEF IInv
  <2> QED
    BY <2>1, <2>2, <2>3 DEF MonitorReport
<1>4. work' \in [Worker -> WorkStep]
    BY <1>1 DEF IInv, TypeOK
<1> QED
    BY <1>1, <1>2, <1>3, <1>4, OtherKept

LEMMA DeliveredType ==
    ASSUME TypeOK, NEW w \in Worker, Delivered(w)
    PROVE  InventoryTyped /\ excuse' \in SUBSET Excuse
<1>1. (w \notin covers) \in BOOLEAN
    BY Zenon
<1>2. missing' = (w \notin covers) /\ covers' = covers \ {w} /\ queued' = queued
    BY DEF Delivered
<1>3. missing' \in BOOLEAN
    BY <1>1, <1>2, Zenon
<1>4. covers' \in SUBSET Worker /\ queued' \in BOOLEAN
    BY <1>2 DEF TypeOK
<1>5. excuse' \in SUBSET Excuse
    BY OverheardType DEF Delivered, TypeOK, Excuse
<1> QED
    BY <1>3, <1>4, <1>5 DEF InventoryTyped

\* Workers end where their kind ends.
LEMMA OffType == \A w \in Worker : WorkerOff(w) \in WorkStep /\ Synced(w) \in WorkStep
BY DEF WorkerOff, Synced, WorkStep

LEMMA CollectKept ==
    ASSUME IInv, NEW w \in Worker, Collect(w)
    PROVE  IInv'
<1>1. OtherThread /\ main # "first" /\ Step(w, "collect", "upload")
    BY DEF Collect, Running
<1>2. InventoryTyped
    BY DEF Collect, InventoryTyped, IInv, TypeOK
<1>3. SharedNext
    BY <1>2, SilentShared DEF Collect, IInv
<1>4. work' \in [Worker -> WorkStep] /\ excuse' \in SUBSET Excuse
    BY <1>1, StepType DEF Collect, IInv, TypeOK, WorkStep
<1> QED
    BY <1>1, <1>3, <1>4, OtherKept

LEMMA LargeCheckKept ==
    ASSUME IInv, NEW w \in Worker, LargeCheck(w)
    PROVE  IInv'
<1>1. OtherThread /\ main # "first"
    BY DEF LargeCheck, Running
<1>2. InventoryTyped
    BY DEF LargeCheck, InventoryTyped, IInv, TypeOK
<1>3. SharedNext
    BY <1>2, SilentShared DEF LargeCheck, IInv
<1>4. Step(w, "large", "first") \/ Step(w, "large", WorkerOff(w))
    BY DEF LargeCheck
<1>5. work' \in [Worker -> WorkStep]
    BY <1>4, StepType, OffType DEF IInv, WorkStep
<1>6. excuse' \in SUBSET Excuse
    BY DEF LargeCheck, IInv, TypeOK, Excuse
<1> QED
    BY <1>1, <1>3, <1>5, <1>6, OtherKept

\* An upload that ends leaves the worker idle; a refused one may be queued.
LEMMA UploadKept ==
    ASSUME IInv, NEW w \in Worker, Upload(w)
    PROVE  IInv'
<1>1. OtherThread /\ main # "first"
    BY DEF Upload, Running
<1>2. \/ Step(w, "upload", Synced(w)) \/ Step(w, "upload", WorkerOff(w))
      \/ Step(w, "upload", "large")
    BY DEF Upload
<1>3. work' \in [Worker -> WorkStep]
    BY <1>2, StepType, OffType DEF IInv, WorkStep
<1>4. SharedNext /\ excuse' \in SUBSET Excuse
  <2>1. CASE /\ Keep /\ UNCHANGED <<clientVars, fileVars, signal, eaten, rejections, excuse>>
    <3>1. SharedNext
        BY <2>1, InventoryKept, SilentShared DEF IInv
    <3> QED
        BY <2>1, <3>1 DEF IInv, TypeOK
  <2>2. CASE HearUnlinked(TRUE) /\ UNCHANGED excuse
    BY <2>2, WipeShared DEF IInv, TypeOK
  <2>3. CASE jwt /\ Hear(TRUE) /\ Delivered(w)
    BY <2>3, DeliveredType, HearShared DEF IInv
  <2>4. CASE /\ jwt /\ Hear(TRUE)
             /\ queued' = (queued \/ (w \in covers /\ (~Answered \/ license')))
             /\ covers' = covers \ {w} /\ UNCHANGED missing
             /\ excuse' = excuse \union Overheard
                     \union IF limited /\ queued' THEN {"oversized"} ELSE {}
    <3>1. (queued \/ (w \in covers /\ (~Answered \/ license'))) \in BOOLEAN
        BY Zenon
    <3>2. queued' \in BOOLEAN
        BY <2>4, <3>1, Zenon
    <3>3. covers' \in SUBSET Worker /\ missing' \in BOOLEAN
        BY <2>4 DEF IInv, TypeOK
    <3>4. excuse' \in SUBSET Excuse
        BY <2>4, OverheardType DEF IInv, TypeOK, Excuse
    <3>5. InventoryTyped
        BY <3>2, <3>3 DEF InventoryTyped
    <3> QED
        BY <2>4, <3>4, <3>5, HearShared DEF IInv
  <2>5. CASE jwt /\ Hear(TRUE) /\ Keep /\ UNCHANGED excuse
    <3>1. SharedNext
        BY <2>5, InventoryKept, HearShared DEF IInv
    <3> QED
        BY <2>5, <3>1 DEF IInv, TypeOK
  <2> QED
    BY <2>1, <2>2, <2>3, <2>4, <2>5 DEF Upload
<1> QED
    BY <1>1, <1>3, <1>4, OtherKept

LEMMA ChunkKept ==
    ASSUME IInv, NEW w \in Worker, Chunk(w)
    PROVE  IInv'
<1>1. OtherThread /\ main # "first"
    BY DEF Chunk, Running
<1>2. \/ Step(w, "first", "rest") \/ Step(w, "rest", Synced(w))
      \/ Step(w, work[w], WorkerOff(w))
    BY DEF Chunk
<1>3. work' \in [Worker -> WorkStep]
    BY <1>2, StepType, OffType DEF IInv, WorkStep
<1>4. SharedNext /\ excuse' \in SUBSET Excuse
  <2>1. CASE jwt /\ Hear(FALSE) /\ Partial
             /\ excuse' = excuse \union Overheard
                     \union IF covers' # covers \/ (w \notin covers /\ ~missing)
                            THEN {"overtaken"} ELSE {}
    <3>1. SharedNext
        BY <2>1, InventoryKept, HearShared DEF IInv
    <3> QED
        BY <2>1, <3>1, OverheardType DEF IInv, TypeOK, Excuse
  <2>2. CASE jwt /\ Hear(FALSE) /\ Delivered(w)
    BY <2>2, DeliveredType, HearShared DEF IInv
  <2>3. CASE /\ \/ HearUnlinked(FALSE)
                \/ /\ covers' = covers \ {w} /\ UNCHANGED <<missing, queued>>
                   /\ \/ jwt /\ Hear(FALSE)
                      \/ UNCHANGED <<clientVars, fileVars, signal, eaten, rejections>>
             /\ excuse' = excuse \union {"cut"}
    <3>1. excuse' \in SUBSET Excuse
        BY <2>3 DEF IInv, TypeOK, Excuse
    <3>2. CASE covers' = covers \ {w} /\ UNCHANGED <<missing, queued>>
      <4>1. InventoryTyped
        BY <3>2 DEF InventoryTyped, IInv, TypeOK
      <4> QED
        BY <2>3, <3>1, <4>1, HearShared, SilentShared, WipeShared DEF IInv
    <3> QED
        BY <2>3, <3>1, <3>2, WipeShared DEF IInv
  <2> QED
    BY <1>1, <2>1, <2>2, <2>3 DEF Chunk
<1> QED
    BY <1>1, <1>3, <1>4, OtherKept

LEMMA FinishKept ==
    ASSUME IInv, Finish
    PROVE  IInv'
<1>1. OtherThread /\ main # "first" /\ Step("initial", "finish", "done")
    BY DEF Finish, Running
<1>2. InventoryTyped
    BY DEF Finish, InventoryTyped, IInv, TypeOK
<1>3. SharedNext
    BY <1>2 DEF Finish, SharedNext, IInv, TypeOK, NoTokenNoStatus, clientVars, signalVars
<1>4. work' \in [Worker -> WorkStep] /\ excuse' \in SUBSET Excuse
    BY <1>1, StepType DEF Finish, IInv, TypeOK, WorkStep, Worker
<1> QED
    BY <1>1, <1>3, <1>4, OtherKept

-----------------------------------------------------------------------------
(* One step of the main thread                                             *)

\* A step that does not count, and does not end a heartbeat.
LEMMA MainKept ==
    ASSUME IInv, SharedNext, UNCHANGED <<serverVars, latch>>,
           main' \in MainStep \ {"handle"}, main' = "first" => jwt',
           latch = 3 => main' = "stopped",
           was' \in BOOLEAN, result' \in {"none", "true", "false", "unlinked"},
           healed' \in BOOLEAN, work' \in [Worker -> WorkStep],
           excuse' \in SUBSET Excuse
    PROVE  IInv'
<1>1. TypeOK'
    BY DEF IInv, TypeOK, SharedNext, InventoryTyped, serverVars
<1>2. LatchCounted'
    BY DEF IInv, TypeOK, LatchCounted, SharedNext
<1>3. NoTokenNoStatus'
    BY DEF NoTokenNoStatus, SharedNext
<1> QED
    BY <1>1, <1>2, <1>3 DEF IInv

\* The steps that send nothing.
LEMMA QuietShared ==
    ASSUME IInv, Quiet, signal' \in BOOLEAN, eaten' \in BOOLEAN, rejections' = rejections
    PROVE  /\ SharedNext /\ UNCHANGED serverVars
           /\ work' \in [Worker -> WorkStep] /\ excuse' \in SUBSET Excuse
<1>1. InventoryTyped
    BY DEF Quiet, InventoryTyped, IInv, TypeOK, workVars
<1>2. SharedNext
    BY <1>1 DEF Quiet, SharedNext, IInv, TypeOK, NoTokenNoStatus, clientVars
<1> QED
    BY <1>2 DEF Quiet, IInv, TypeOK, workVars

LEMMA QuietKept ==
    ASSUME IInv,
           EnrolStart \/ WaitSignal \/ Retry \/ LoopSignal \/ LoopSleep
             \/ HeartbeatStart \/ RelinkSignal
    PROVE  IInv'
<1>1. Quiet /\ UNCHANGED <<latch, result, healed, rejections>>
    BY DEF EnrolStart, WaitSignal, Retry, LoopSignal, LoopSleep, HeartbeatStart,
           RelinkSignal, beatVars
<1>2. signal' \in BOOLEAN /\ eaten' \in BOOLEAN /\ was' \in BOOLEAN
    BY DEF EnrolStart, WaitSignal, Retry, LoopSignal, LoopSleep, HeartbeatStart,
           RelinkSignal, beatVars, Consume, NoSignal, IInv, TypeOK
<1>3. /\ main' \in MainStep \ {"handle"}
      /\ main' = "first" => jwt'
      /\ latch = 3 => main' = "stopped"
    BY DEF EnrolStart, WaitSignal, Retry, LoopSignal, LoopSleep, HeartbeatStart,
           RelinkSignal, Quiet, clientVars, MainStep, IInv, LatchCounted
<1>4. /\ SharedNext /\ UNCHANGED serverVars
      /\ work' \in [Worker -> WorkStep] /\ excuse' \in SUBSET Excuse
    BY <1>1, <1>2, QuietShared
<1>5. result' \in {"none", "true", "false", "unlinked"} /\ healed' \in BOOLEAN
    BY <1>1 DEF IInv, TypeOK
<1> QED
    BY <1>1, <1>2, <1>3, <1>4, <1>5, MainKept

LEMMA TokenKept ==
    ASSUME IInv, WaitLoad \/ Reload
    PROVE  IInv'
<1>1. InventoryTyped
    BY DEF WaitLoad, Reload, workVars, IInv, TypeOK, InventoryTyped
<1>2. (jwt \/ tok) \in BOOLEAN
    BY Zenon
<1>3. jwt' \in BOOLEAN /\ (jwt => jwt')
    BY <1>2, Zenon DEF WaitLoad, Reload
<1>4. /\ UNCHANGED <<serverVars, fileVars, eaten, license, status, rejections, latch,
                     was, result, healed, work, excuse>>
      /\ signal' = signal
    BY DEF WaitLoad, Reload, signalVars, workVars, beatVars, NoSignal
<1>5. SharedNext
    BY <1>1, <1>3, <1>4 DEF SharedNext, IInv, TypeOK, NoTokenNoStatus
<1>6. /\ main' \in MainStep \ {"handle"}
      /\ main' = "first" => jwt'
      /\ latch = 3 => main' = "stopped"
  <2>1. CASE WaitLoad
    BY <2>1 DEF WaitLoad, MainStep, IInv, LatchCounted
  <2>2. CASE Reload
    BY <2>2 DEF Reload, MainStep, IInv, LatchCounted
  <2> QED
    BY <2>1, <2>2
<1>7. /\ was' \in BOOLEAN /\ result' \in {"none", "true", "false", "unlinked"}
      /\ healed' \in BOOLEAN /\ work' \in [Worker -> WorkStep] /\ excuse' \in SUBSET Excuse
    BY <1>4 DEF IInv, TypeOK
<1> QED
    BY <1>4, <1>5, <1>6, <1>7, MainKept

\* The requests of the main thread outside its heartbeat.
LEMMA RequestKept ==
    ASSUME IInv, FirstHeartbeat \/ Startup \/ Flush \/ Rescan
    PROVE  IInv'
<1>1. UNCHANGED <<serverVars, latch, was, result, healed>>
    BY DEF FirstHeartbeat, Startup, Flush, Rescan, beatVars
<1>2. SharedNext
  <2>1. CASE FirstHeartbeat
    BY <2>1, ChatShared DEF FirstHeartbeat, IInv, NoTokenNoStatus
  <2>2. CASE Startup
    BY <2>2, BaselineShared, SilentShared, InventoryKept DEF Startup, IInv
  <2>3. CASE Flush
    <3>1. CASE HearUnlinked(FALSE)
        BY <3>1, WipeShared DEF IInv
    <3>2. CASE /\ jwt /\ Hear(queued) /\ missing' = (missing /\ ~(queued /\ Accepted(TRUE)))
               /\ queued' = (queued /\ ~Accepted(TRUE)) /\ UNCHANGED covers
      <4>1. /\ (missing /\ ~(queued /\ Accepted(TRUE))) \in BOOLEAN
            /\ (queued /\ ~Accepted(TRUE)) \in BOOLEAN
        BY Zenon
      <4>2. missing' \in BOOLEAN /\ queued' \in BOOLEAN
        BY <3>2, <4>1, Zenon
      <4>3. covers' \in SUBSET Worker /\ queued \in BOOLEAN
        BY <3>2 DEF IInv, TypeOK
      <4> QED
        BY <3>2, <4>2, <4>3, HearShared DEF InventoryTyped, IInv
    <3>3. CASE Keep /\ UNCHANGED <<clientVars, fileVars, signal, eaten, rejections>>
        BY <3>3, InventoryKept, SilentShared DEF IInv
    <3> QED
        BY <2>3, <3>1, <3>2, <3>3 DEF Flush, FlushSends
  <2>4. CASE Rescan
    BY <2>4, BaselineShared DEF Rescan, IInv
  <2> QED
    BY <2>1, <2>2, <2>3, <2>4
<1>3. /\ main' \in MainStep \ {"handle", "first"}
      /\ latch = 3 => main' = "stopped"
    BY DEF FirstHeartbeat, Startup, Flush, Rescan, MainStep, IInv, LatchCounted
<1>4. work' \in [Worker -> WorkStep]
    BY DEF FirstHeartbeat, Startup, Flush, Rescan, IInv, TypeOK, Worker, WorkStep
<1>5. excuse' \in SUBSET Excuse
    BY OverheardType DEF FirstHeartbeat, Startup, Flush, Rescan, IInv, TypeOK, Excuse
<1>6. /\ was' \in BOOLEAN /\ result' \in {"none", "true", "false", "unlinked"}
      /\ healed' \in BOOLEAN
    BY <1>1 DEF IInv, TypeOK
<1> QED
    BY <1>1, <1>2, <1>3, <1>4, <1>5, <1>6, MainKept

\* A rejected heartbeat has just been counted as a rejection.
LEMMA AnswerKept ==
    ASSUME IInv, HeartbeatAnswer
    PROVE  IInv'
<1>1. /\ UNCHANGED <<serverVars, latch, was, work, healed>>
      /\ main = "beat" /\ main' = "handle"
    BY DEF HeartbeatAnswer
<1>2. SharedNext
  <2>1. CASE HearUnlinked(FALSE)
    BY <2>1, WipeShared DEF IInv
  <2>2. CASE jwt /\ Hear(FALSE) /\ Keep
    BY <2>2, HearShared, InventoryKept DEF IInv
  <2>3. CASE Keep /\ UNCHANGED <<clientVars, fileVars, signal, eaten, rejections>>
    BY <2>3, SilentShared, InventoryKept DEF IInv
  <2> QED
    BY <2>1, <2>2, <2>3 DEF HeartbeatAnswer
<1>3. excuse' \in SUBSET Excuse
    BY OverheardType DEF HeartbeatAnswer, IInv, TypeOK
<1>4. result' \in {"none", "true", "false", "unlinked"}
    BY DEF HeartbeatAnswer
<1>5. TypeOK'
    BY <1>1, <1>2, <1>3, <1>4
       DEF IInv, TypeOK, SharedNext, InventoryTyped, serverVars, MainStep
<1>6. latch <= 2 /\ latch <= rejections
    BY <1>1 DEF IInv, TypeOK, LatchCounted
<1>7. result' = "false" /\ status' \in {"401", "403"} => latch < rejections'
  <2>1. CASE ~jwt /\ status' = status
    BY <2>1 DEF IInv, NoTokenNoStatus
  <2>2. CASE result' = "unlinked"
    BY <2>2
  <2>3. CASE jwt /\ Hear(FALSE) /\ (result' = "false" => Answered)
    <3>1. /\ rejections' \in 0..3 /\ rejections <= rejections'
          /\ status' \in {"401", "403"} =>
                rejections' > rejections \/ rejections' = 3 \/ ~Answered
        BY <2>3, HearEffect DEF IInv
    <3>2. latch \in 0..3 /\ rejections \in 0..3
        BY DEF IInv, TypeOK
    <3> QED
        BY <1>6, <2>3, <3>1, <3>2
  <2> QED
    BY <2>1, <2>2, <2>3 DEF HeartbeatAnswer, Answered, clientVars
<1>8. LatchCounted'
    BY <1>1, <1>2, <1>6, <1>7 DEF LatchCounted, Rejected, SharedNext, IInv, TypeOK
<1>9. NoTokenNoStatus'
    BY <1>1, <1>2 DEF NoTokenNoStatus, SharedNext
<1> QED
    BY <1>5, <1>8, <1>9 DEF IInv

\* The branches of the result that neither count nor reset.
LEMMA HandleKept ==
    ASSUME IInv, HandleQuiet \/ HandleRenewed \/ HandleUnlinked
    PROVE  IInv'
<1>1. /\ UNCHANGED <<serverVars, latch>>
      /\ was' = TRUE /\ result' = "none" /\ work' = work /\ main = "handle"
    BY DEF HandleQuiet, HandleRenewed, HandleUnlinked, Forget, Quiet, workVars
<1>2. SharedNext
  <2>1. CASE HandleQuiet
    <3>1. InventoryTyped
        BY <2>1 DEF HandleQuiet, InventoryTyped, workVars, IInv, TypeOK
    <3> QED
        BY <2>1, <3>1, SilentShared DEF HandleQuiet, signalVars, IInv
  <2>2. CASE HandleRenewed
    BY <2>2, QuietShared DEF HandleRenewed, IInv, TypeOK
  <2>3. CASE HandleUnlinked
    <3>1. result = "unlinked" /\ Wipe /\ rejections' = rejections
        BY <2>3 DEF HandleUnlinked
    <3> QED
        BY <3>1, WipeTyped DEF IInv
  <2> QED
    BY <2>1, <2>2, <2>3
<1>3. healed' \in BOOLEAN
  <2>1. (healed \/ (result = "true" /\ latch > 0)) \in BOOLEAN
    BY Zenon
  <2>2. \/ healed' = (healed \/ (result = "true" /\ latch > 0))
        \/ healed' = healed
    BY Zenon DEF HandleQuiet, HandleRenewed, HandleUnlinked
  <2>3. healed \in BOOLEAN
    BY DEF IInv, TypeOK
  <2> QED
    BY <2>1, <2>2, <2>3, Zenon
<1>4. excuse' \in SUBSET Excuse
    BY DEF HandleQuiet, HandleRenewed, HandleUnlinked, Quiet, IInv, TypeOK, Excuse
<1>5. main' \in MainStep \ {"handle", "first"} /\ latch # 3
    BY <1>1 DEF HandleQuiet, HandleRenewed, HandleUnlinked, MainStep, IInv, LatchCounted
<1>6. work' \in [Worker -> WorkStep]
    BY <1>1 DEF IInv, TypeOK
<1> QED
    BY <1>1, <1>2, <1>3, <1>4, <1>5, <1>6, MainKept

\* A rejection under an inactive license resets the latch.
LEMMA LicenseKept ==
    ASSUME IInv, HandleLicense
    PROVE  IInv'
<1>1. /\ Quiet /\ UNCHANGED <<signal, eaten>> /\ main' = "sleep"
      /\ latch' = 0 /\ rejections' = 0 /\ healed' = FALSE
      /\ was' = TRUE /\ result' = "none"
    BY DEF HandleLicense, Forget
<1>2. TypeOK'
  <2>1. UNCHANGED <<backend, limited, changes, missing, fileVars, signal, eaten, jwt, license,
                    status, queued, work, covers, excuse>>
    BY <1>1 DEF Quiet, serverVars, clientVars, workVars
  <2>2. latch' = 0 /\ rejections' = 0
    BY <1>1, Zenon
  <2>3. healed' = FALSE /\ was' = TRUE
    BY <1>1, Zenon
  <2>4. result' = "none" /\ main' = "sleep"
    BY <1>1, Zenon
  <2>5. latch' \in 0..3 /\ rejections' \in 0..3
    BY <2>2
  <2>6. healed' \in BOOLEAN /\ was' \in BOOLEAN
    BY <2>3
  <2>7. result' \in {"none", "true", "false", "unlinked"} /\ main' \in MainStep
    BY <2>4 DEF MainStep
  <2> QED
    BY <2>1, <2>5, <2>6, <2>7 DEF IInv, TypeOK
<1>3. LatchCounted' /\ NoTokenNoStatus'
    BY <1>1 DEF Quiet, IInv, LatchCounted, NoTokenNoStatus, clientVars
<1> QED
    BY <1>2, <1>3 DEF IInv

\* A counted rejection is one that was received, so the latch stays behind.
LEMMA RejectedKept ==
    ASSUME IInv, HandleRejected
    PROVE  IInv'
<1>1. /\ UNCHANGED <<serverVars, work, rejections, healed, excuse>>
      /\ was' = TRUE /\ result' = "none" /\ latch' = latch + 1
      /\ main = "handle" /\ Rejected
    BY DEF HandleRejected, CountRejection, Forget
<1>2. /\ latch < rejections /\ latch # 3
      /\ latch' \in 0..3 /\ latch' <= rejections
    BY <1>1 DEF IInv, TypeOK, LatchCounted
<1>3. SharedNext
  <2>1. CASE Wipe
    BY <1>1, <2>1, WipeTyped DEF IInv
  <2>2. CASE Keep /\ UNCHANGED <<clientVars, fileVars, signal, eaten>>
    BY <1>1, <2>2, InventoryKept, SilentShared DEF IInv
  <2> QED
    BY <2>1, <2>2 DEF HandleRejected, CountRejection
<1>4. main' \in MainStep \ {"handle", "first"} /\ (latch' = 3 => main' = "relatch")
    BY <1>2 DEF HandleRejected, CountRejection, MainStep
<1>5. TypeOK'
    BY <1>1, <1>2, <1>3, <1>4
       DEF IInv, TypeOK, SharedNext, InventoryTyped, serverVars
<1>6. LatchCounted' /\ NoTokenNoStatus'
    BY <1>1, <1>2, <1>3, <1>4 DEF LatchCounted, NoTokenNoStatus, SharedNext
<1> QED
    BY <1>5, <1>6 DEF IInv

LEMMA RelinkLoadKept ==
    ASSUME IInv, RelinkLoad
    PROVE  IInv'
<1>1. /\ UNCHANGED <<serverVars, missing, fileVars, eaten, license, status, queued,
                     beatVars, workVars, excuse>>
      /\ jwt' = TRUE /\ signal' = signal /\ main' = "rescan"
    BY DEF RelinkLoad, NoSignal
<1>2. \/ latch' = 0 /\ rejections' = 0 /\ healed' = FALSE
      \/ UNCHANGED <<latch, rejections, healed>> /\ main = "relink"
    BY DEF RelinkLoad
<1>3. TypeOK'
  <2>1. UNCHANGED <<backend, limited, changes, missing, fileVars, signal, eaten, license,
                    status, queued, was, result, work, covers, excuse>>
    BY <1>1 DEF serverVars, beatVars, workVars
  <2>2. latch' \in 0..3 /\ rejections' \in 0..3 /\ healed' \in BOOLEAN
    <3>1. CASE latch' = 0 /\ rejections' = 0 /\ healed' = FALSE
      <4>1. latch' = 0 /\ rejections' = 0
        BY <3>1, Zenon
      <4>2. healed' \in BOOLEAN
        BY <3>1, Zenon
      <4>3. latch' \in 0..3 /\ rejections' \in 0..3
        BY <4>1
      <4> QED
        BY <4>2, <4>3, Zenon
    <3>2. CASE UNCHANGED <<latch, rejections, healed>>
      BY <3>2 DEF IInv, TypeOK
    <3> QED
      BY <1>2, <3>1, <3>2, Zenon
  <2>3. main' \in MainStep /\ jwt' \in BOOLEAN
    BY <1>1 DEF MainStep
  <2> QED
    BY <2>1, <2>2, <2>3 DEF IInv, TypeOK
<1>4. LatchCounted' /\ NoTokenNoStatus'
    BY <1>1, <1>2 DEF IInv, LatchCounted, NoTokenNoStatus
<1> QED
    BY <1>3, <1>4 DEF IInv

-----------------------------------------------------------------------------
(* The world                                                               *)

LEMMA WorldKept ==
    ASSUME IInv, BackendChange \/ Enroll \/ RequestShutdown \/ OtherConsumes
    PROVE  IInv'
<1>1. UNCHANGED <<limited, missing, clientVars, latch, queued, main, beatVars,
                  workVars, rejections, healed, excuse>>
    BY DEF BackendChange, Enroll, RequestShutdown, OtherConsumes, serverVars
<1>2. backend' \in Backend /\ changes' \in 0..MaxChanges
    BY BoundAssumption
       DEF BackendChange, Enroll, RequestShutdown, OtherConsumes, serverVars, IInv, TypeOK
<1>3. /\ tok' \in BOOLEAN /\ marker' \in BOOLEAN
      /\ signal' \in BOOLEAN /\ eaten' \in BOOLEAN
    BY DEF BackendChange, Enroll, RequestShutdown, OtherConsumes, signalVars, IInv, TypeOK
<1>4. TypeOK'
    BY <1>1, <1>2, <1>3 DEF IInv, TypeOK, clientVars, beatVars, workVars
<1>5. LatchCounted' /\ NoTokenNoStatus'
    BY <1>1 DEF IInv, LatchCounted, NoTokenNoStatus, Rejected, clientVars, beatVars
<1> QED
    BY <1>4, <1>5 DEF IInv

\* A restart finds the files as they are and begins to count anew.
LEMMA RestartKept ==
    ASSUME IInv, Restart
    PROVE  IInv'
<1>1. /\ UNCHANGED <<backend, limited, missing, fileVars, queued, excuse>>
      /\ jwt' = tok /\ license' = TRUE /\ status' = "other" /\ signal' = FALSE
      /\ main' = "enrol" /\ was' = TRUE /\ result' = "none" /\ covers' = {}
      /\ healed' = FALSE /\ work' = [w \in Worker |-> "idle"]
      /\ latch' = 0 /\ rejections' = 0
    BY Zenon DEF Restart, Forget
<1>2. (eaten \/ signal) \in BOOLEAN
    BY Zenon
<1>3. eaten' \in BOOLEAN
    BY <1>2, Zenon DEF Restart
<1>4. changes' \in 0..MaxChanges
    BY BoundAssumption DEF Restart, IInv, TypeOK
<1>5. work' \in [Worker -> WorkStep] /\ main' \in MainStep /\ status' \in Status
    BY <1>1 DEF WorkStep, MainStep, Status
<1>6. /\ license' \in BOOLEAN /\ signal' \in BOOLEAN /\ was' \in BOOLEAN
      /\ healed' \in BOOLEAN
    BY <1>1, Zenon
<1>7. TypeOK'
    BY <1>1, <1>3, <1>4, <1>5, <1>6 DEF IInv, TypeOK
<1>8. LatchCounted' /\ NoTokenNoStatus'
    BY <1>1 DEF LatchCounted, NoTokenNoStatus, Rejected
<1> QED
    BY <1>7, <1>8 DEF IInv

-----------------------------------------------------------------------------
(* The theorems                                                            *)

LEMMA InitHolds == Init => IInv
<1> SUFFICES ASSUME Init
             PROVE  IInv
    OBVIOUS
<1>1. TypeOK
  <2>1. backend \in Backend /\ limited \in BOOLEAN /\ changes \in 0..MaxChanges
    BY BoundAssumption DEF Init, Backend
  <2>2. missing \in BOOLEAN /\ tok \in BOOLEAN /\ marker \in BOOLEAN /\ jwt \in BOOLEAN
    BY DEF Init
  <2>3. /\ signal \in BOOLEAN /\ eaten \in BOOLEAN /\ license \in BOOLEAN
        /\ healed \in BOOLEAN /\ queued \in BOOLEAN /\ was \in BOOLEAN
    BY DEF Init
  <2>4. status \in Status /\ latch \in 0..3 /\ rejections \in 0..3 /\ main \in MainStep
    BY DEF Init, Status, MainStep
  <2>5. /\ result \in {"none", "true", "false", "unlinked"}
        /\ work \in [Worker -> WorkStep] /\ covers \subseteq Worker /\ excuse \subseteq Excuse
    BY DEF Init, WorkStep
  <2> QED
    BY <2>1, <2>2, <2>3, <2>4, <2>5 DEF TypeOK
<1>2. LatchCounted /\ NoTokenNoStatus
    BY DEF Init, LatchCounted, NoTokenNoStatus
<1> QED
    BY <1>1, <1>2 DEF IInv

LEMMA StepKeeps == IInv /\ [Next]_vars => IInv'
<1> SUFFICES ASSUME IInv, [Next]_vars
             PROVE  IInv'
    OBVIOUS
<1>1. CASE BackendChange \/ Enroll \/ RequestShutdown \/ OtherConsumes
    BY <1>1, WorldKept
<1>r. CASE Restart
    BY <1>r, RestartKept
<1>2. CASE PreScanHeartbeat \/ LogEvent
    BY <1>2, ChatterKept
<1>3. CASE MonitorReport
    BY <1>3, MonitorKept
<1>4. CASE \E w \in Worker : WorkThread(w)
    BY <1>4, CollectKept, UploadKept, LargeCheckKept, ChunkKept, FinishKept DEF WorkThread
<1>5. CASE MainThread
  <2>1. CASE EnrolStart \/ WaitSignal \/ Retry \/ LoopSignal \/ LoopSleep
               \/ HeartbeatStart \/ RelinkSignal
    BY <2>1, QuietKept
  <2>2. CASE WaitLoad \/ Reload
    BY <2>2, TokenKept
  <2>3. CASE FirstHeartbeat \/ Startup \/ Flush \/ Rescan
    BY <2>3, RequestKept
  <2>4. CASE HeartbeatAnswer
    BY <2>4, AnswerKept
  <2>5. CASE HandleStep
    BY <2>5, HandleKept, LicenseKept, RejectedKept DEF HandleStep
  <2>6. CASE RelinkLoad
    BY <2>6, RelinkLoadKept
  <2> QED
    BY <1>5, <2>1, <2>2, <2>3, <2>4, <2>5, <2>6 DEF MainThread, EnrolStep
<1>6. CASE UNCHANGED vars
  <2>1. UNCHANGED <<backend, limited, changes, missing, fileVars, signal, eaten, jwt, license,
                    status, latch, queued, main, was, result, work, covers, rejections,
                    healed, excuse>>
    BY <1>6 DEF vars, serverVars, signalVars, clientVars, beatVars, workVars
  <2> QED
    BY <2>1 DEF IInv, TypeOK, LatchCounted, NoTokenNoStatus, Rejected
<1> QED
    BY <1>1, <1>r, <1>2, <1>3, <1>4, <1>5, <1>6 DEF Next

\* Every variable of the loop and of the threads beside it keeps its type; in
\* particular the latch never passes three.
THEOREM TypeCorrect == Spec => []TypeOK
<1>1. IInv => TypeOK
    BY DEF IInv
<1> QED
    BY <1>1, InitHolds, StepKeeps, PTL DEF Spec

\* What can make a request wipe the enrolment.
LEMMA RequestWipes ==
    ASSUME NEW big \in BOOLEAN, HearUnlinked(big)
    PROVE  backend = "unlinked"
BY DEF HearUnlinked, Unlinked

WipeCause == tok /\ ~tok' => backend = "unlinked" \/ rejections = 3 \/ result = "unlinked"

LEMMA WipeStep == IInv /\ [Next]_vars => WipeCause
<1> SUFFICES ASSUME IInv, [Next]_vars, tok, ~tok'
             PROVE  backend = "unlinked" \/ rejections = 3 \/ result = "unlinked"
    BY DEF WipeCause
<1>1. CASE HandleRejected
  <2>1. main = "handle" /\ Rejected /\ latch' = latch + 1
    BY <1>1, Zenon DEF HandleRejected, CountRejection
  <2>2. latch' >= 3 \/ tok' = tok
    BY <1>1, Zenon DEF HandleRejected, CountRejection
  <2>3. latch < rejections /\ latch \in 0..3 /\ rejections \in 0..3
    BY <2>1, Zenon DEF IInv, LatchCounted, TypeOK
  <2>4. latch' >= 3
    BY <2>2, Zenon
  <2>5. latch + 1 >= 3
    BY <2>1, <2>4, Zenon
  <2>6. rejections = 3
    BY <2>3, <2>5
  <2> QED
    BY <2>6, Zenon
<1>2. CASE HandleUnlinked
    BY <1>2 DEF HandleUnlinked
<1>3. CASE \E big \in BOOLEAN : HearUnlinked(big)
    BY <1>3, RequestWipes
<1>4. \/ tok' = tok \/ tok' = TRUE
      \/ HandleRejected \/ HandleUnlinked \/ \E big \in BOOLEAN : HearUnlinked(big)
  <2>1. CASE BackendChange \/ Enroll \/ RequestShutdown \/ OtherConsumes \/ Restart
    BY <2>1 DEF BackendChange, Enroll, RequestShutdown, OtherConsumes, Restart
  <2>2. CASE PreScanHeartbeat \/ LogEvent \/ MonitorReport
    BY <2>2 DEF PreScanHeartbeat, LogEvent, MonitorReport, Chat, Hear
  <2>3. CASE \E w \in Worker : WorkThread(w)
    BY <2>3 DEF WorkThread, Collect, Upload, LargeCheck, Chunk, Finish, Hear
  <2>4. CASE EnrolStep
    BY <2>4 DEF EnrolStep, EnrolStart, WaitSignal, WaitLoad, Retry, FirstHeartbeat,
                Startup, Chat, Baseline, Hear, Quiet
  <2>5. CASE LoopSignal \/ LoopSleep \/ Reload \/ Flush \/ HeartbeatStart \/ HeartbeatAnswer
    BY <2>5 DEF LoopSignal, LoopSleep, Reload, Flush, FlushSends, HeartbeatStart,
                HeartbeatAnswer, Hear, Quiet
  <2>6. CASE HandleStep
    BY <2>6 DEF HandleStep, HandleQuiet, HandleRenewed, HandleLicense, Quiet
  <2>7. CASE RelinkSignal \/ RelinkLoad \/ Rescan
    BY <2>7 DEF RelinkSignal, RelinkLoad, Rescan, Baseline, Hear, Quiet
  <2>8. CASE UNCHANGED vars
    BY <2>8 DEF vars
  <2> QED
    BY <2>1, <2>2, <2>3, <2>4, <2>5, <2>6, <2>7, <2>8 DEF Next, MainThread
<1> QED
    BY <1>1, <1>2, <1>3, <1>4

\* The enrolment is given up only because the backend said the device is
\* unlinked or after three rejections some thread received, whatever the other
\* threads do to the license flag and the status in between.
THEOREM WipedForCause == Spec => WipeJustified
<1>1. IInv /\ [Next]_vars => [WipeCause]_vars
    BY WipeStep
<1> QED
    BY <1>1, InitHolds, StepKeeps, PTL DEF Spec, WipeJustified, WipeCause
=============================================================================
