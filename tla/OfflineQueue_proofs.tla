------------------------ MODULE OfflineQueue_proofs ------------------------
(***************************************************************************)
(* The offline queue keeps its types and its order, and loses a request or *)
(* delivers it twice only in the ways OfflineQueue names, for every number *)
(* of threads, requests and faults and every backoff.                      *)
(***************************************************************************)
EXTENDS OfflineQueue, SequenceTheorems, TLAPS

-----------------------------------------------------------------------------
(* Queues                                                                  *)

LEMMA FreshIsItem == ASSUME NEW r \in Request PROVE Fresh(r) \in Item
BY BoundAssumption DEF Fresh, Item

\* One more failure keeps the counter within its cap, and sets a wait.
LEMMA FailedIsItem ==
    ASSUME NEW x \in Item
    PROVE  /\ Failed(x) \in Item /\ Failed(x).req = x.req
           /\ Failed(x).retry > 0
<1> DEFINE n == IF x.retry < RetryCap THEN x.retry + 1 ELSE RetryCap
<1>1. n \in 1..RetryCap
    BY BoundAssumption DEF Item
<1>2. Backoff[n] \in Nat
    BY <1>1, BackoffAssumption
<1>3. Failed(x) = [x EXCEPT !.retry = n, !.wait = Backoff[n]]
    BY DEF Failed
<1> HIDE DEF n
<1>4. Failed(x) = [req |-> x.req, retry |-> n, wait |-> Backoff[n]]
    BY <1>3 DEF Item
<1>5. x.req \in Request
    BY DEF Item
<1> QED BY <1>1, <1>2, <1>4, <1>5 DEF Item

\* Time changes the waits of a queue and nothing else.
LEMMA LaterItems ==
    ASSUME NEW q \in Seq(Item), NEW n \in Nat
    PROVE  /\ Later(q, n) \in Seq(Item)
           /\ DOMAIN Later(q, n) = DOMAIN q
           /\ \A i \in DOMAIN q : /\ Later(q, n)[i].req = q[i].req
                                  /\ Later(q, n)[i].retry = q[i].retry
                                  /\ Later(q, n)[i].wait > 0 => q[i].wait > 0
<1> DEFINE w(i) == IF q[i].wait > n THEN q[i].wait - n ELSE 0
<1>1. \A i \in DOMAIN q : q[i] \in Item
    BY ElementOfSeq
<1>2. \A i \in DOMAIN q : Later(q, n)[i] = [req |-> q[i].req, retry |-> q[i].retry, wait |-> w(i)]
    BY <1>1 DEF Later, Item
<1>3. \A i \in DOMAIN q : w(i) \in Nat /\ (w(i) > 0 => q[i].wait > 0)
    BY <1>1 DEF Item
<1>4. ASSUME NEW i \in DOMAIN q
      PROVE  Later(q, n)[i] \in Item
    <2>1. /\ q[i].req \in Request /\ q[i].retry \in 0..RetryCap
          /\ Later(q, n)[i] = [req |-> q[i].req, retry |-> q[i].retry, wait |-> w(i)]
          /\ w(i) \in Nat
        BY <1>1, <1>2, <1>3 DEF Item
    <2> HIDE DEF w
    <2> QED BY <2>1 DEF Item
<1>5. DOMAIN Later(q, n) = DOMAIN q /\ Later(q, n) = [i \in DOMAIN q |-> Later(q, n)[i]]
    BY DEF Later
<1>6. Later(q, n) \in Seq(Item)
    <2>1. PICK k \in Nat : DOMAIN q = 1..k
        BY LenProperties
    <2>2. Later(q, n) \in [1..k -> Item]
        BY <2>1, <1>4, <1>5
    <2> QED BY <2>2, SeqDef
<1> HIDE DEF w
<1> QED BY <1>2, <1>3, <1>5, <1>6

LEMMA LaterReqs ==
    ASSUME NEW q \in Seq(Item), NEW n \in Nat
    PROVE  Reqs(Later(q, n)) = Reqs(q)
<1>1. /\ DOMAIN Later(q, n) = DOMAIN q
      /\ \A i \in DOMAIN q : Later(q, n)[i].req = q[i].req
    BY LaterItems
<1> QED BY <1>1 DEF Reqs

\* Appending adds one entry, at the end.
LEMMA AppendItems ==
    ASSUME NEW q \in Seq(Item), NEW x \in Item
    PROVE  /\ Append(q, x) \in Seq(Item)
           /\ Reqs(Append(q, x)) = Reqs(q) \cup {x.req}
           /\ \A i \in DOMAIN q : Append(q, x)[i] = q[i]
           /\ \A i \in DOMAIN Append(q, x) :
                 i \in DOMAIN q \/ Append(q, x)[i] = x
<1>1. /\ DOMAIN q = 1..Len(q) /\ Len(q) \in Nat
      /\ DOMAIN Append(q, x) = 1..Len(q) + 1
    BY LenProperties, AppendProperties
<1>2. /\ \A i \in 1..Len(q) : Append(q, x)[i] = q[i]
      /\ Append(q, x)[Len(q) + 1] = x
      /\ Append(q, x) \in Seq(Item)
    BY AppendProperties
<1> QED BY <1>1, <1>2 DEF Reqs

\* Taking the first entry off.
LEMMA TailItems ==
    ASSUME NEW q \in Seq(Item), q # <<>>
    PROVE  /\ Head(q) \in Item /\ Tail(q) \in Seq(Item)
           /\ Reqs(q) = Reqs(Tail(q)) \cup {Head(q).req}
           /\ 1 \in DOMAIN q /\ Head(q) = q[1]
           /\ \A i \in DOMAIN Tail(q) : i + 1 \in DOMAIN q /\ Tail(q)[i] = q[i + 1]
<1>1. /\ DOMAIN q = 1..Len(q) /\ Len(q) \in Nat \ {0}
      /\ DOMAIN Tail(q) = 1..Len(q) - 1
    BY LenProperties, EmptySeq, HeadTailProperties
<1>2. /\ \A i \in 1..Len(q) - 1 : Tail(q)[i] = q[i + 1]
      /\ Tail(q) \in Seq(Item) /\ Head(q) \in Item
      /\ Head(q) = q[1]
    BY <1>1, HeadTailProperties
<1>3. \A i \in DOMAIN q : i # 1 => i - 1 \in DOMAIN Tail(q) /\ Tail(q)[i - 1] = q[i]
    BY <1>1, <1>2
<1>4. \A i \in DOMAIN Tail(q) : i + 1 \in DOMAIN q /\ Tail(q)[i] = q[i + 1]
    BY <1>1, <1>2
<1>5. 1 \in DOMAIN q
    BY <1>1
<1>6. ASSUME NEW i \in DOMAIN q
      PROVE  q[i].req \in Reqs(Tail(q)) \cup {Head(q).req}
    <2>1. CASE i = 1
        BY <2>1, <1>2
    <2>2. CASE i # 1
        <3>1. i - 1 \in DOMAIN Tail(q) /\ Tail(q)[i - 1].req = q[i].req
            BY <1>3, <2>2
        <3> QED BY <3>1 DEF Reqs
    <2> QED BY <2>1, <2>2
<1>7. Reqs(Tail(q)) \cup {Head(q).req} \subseteq Reqs(q)
    BY <1>2, <1>4, <1>5 DEF Reqs
<1>8. Reqs(q) \subseteq Reqs(Tail(q)) \cup {Head(q).req}
    BY <1>6 DEF Reqs
<1> QED BY <1>2, <1>4, <1>5, <1>7, <1>8

LEMMA NoItems == <<>> \in Seq(Item) /\ DOMAIN <<>> = {} /\ Reqs(<<>>) = {}
<1>1. <<>> \in Seq(Item) /\ Len(<<>>) = 0
    BY EmptySeq
<1>2. DOMAIN <<>> = 1..Len(<<>>)
    BY <1>1, LenProperties
<1>3. DOMAIN <<>> = {}
    BY <1>1, <1>2
<1> QED BY <1>1, <1>3 DEF Reqs

-----------------------------------------------------------------------------
(* Types                                                                   *)

\* TypeOK in four parts, as the actions change them.
Faults == {"stale_save", "torn_save", "failed_load", "unsaved_append", "unsaved_flush"}
QueueOK == /\ file \in Seq(Item)
           /\ pc \in [Thread -> States]
           /\ mem \in [Thread -> Seq(Item)]
           /\ kept \in [Thread -> Seq(Item)]
           /\ elapsed \in [Thread -> Nat]
FlushOK == /\ pass \in [attempted : BOOLEAN, flushed : BOOLEAN]
           /\ gate \in 0..FlushMax
           /\ interval \in 1..FlushMax
EnvOK == /\ linked \subseteq Process
         /\ licensed \subseteq Process
         /\ server \in {"up", "failing", "offline", "unlinked"}
HistoryOK == /\ accepted \in Seq(Request)
             /\ used \subseteq Request
             /\ applied \in [Request -> 0..2]
             /\ unheard \subseteq Request
             /\ wiped \subseteq Request
             /\ stale \subseteq Thread
             /\ faults \subseteq Faults
             /\ budget \in 0..FaultBudget

LEMMA TypeParts == TypeOK <=> QueueOK /\ FlushOK /\ EnvOK /\ HistoryOK
BY DEF TypeOK, QueueOK, FlushOK, EnvOK, HistoryOK, Faults

LEMMA NextTypeParts == QueueOK' /\ FlushOK' /\ EnvOK' /\ HistoryOK' => TypeOK'
BY DEF TypeOK, QueueOK, FlushOK, EnvOK, HistoryOK, Faults

LEMMA InitType == Init => TypeOK
<1> SUFFICES ASSUME Init
             PROVE  TypeOK
    OBVIOUS
<1>1. QueueOK
    BY EmptySeq DEF Init, QueueOK, Unreadable, States
<1>2. FlushOK
    BY BoundAssumption DEF Init, FlushOK
<1>3. EnvOK
    BY DEF Init, EnvOK
<1>4. HistoryOK
    BY EmptySeq, BoundAssumption DEF Init, HistoryOK
<1> QED BY <1>1, <1>2, <1>3, <1>4, TypeParts

LEMMA ReqsAreRequests ==
    ASSUME NEW q \in Seq(Item)
    PROVE  Reqs(q) \subseteq Request
<1>1. \A i \in DOMAIN q : q[i] \in Item
    BY LenProperties, ElementOfSeq
<1> QED BY <1>1 DEF Reqs, Item

LEMMA AppliedType ==
    ASSUME applied \in [Request -> 0..2], NEW r \in Request, NEW n \in 0..2
    PROVE  Applied(r, n) \in [Request -> 0..2]
BY DEF Applied

\* Whatever becomes of a call: some of its sends are applied.
Sent(r) == \E n, m \in 0..2 : Applies(r, n, m)

LEMMA CallSends ==
    ASSUME NEW r
    PROVE  /\ Acknowledges(r) => Sent(r)
           /\ Rejects(r) \/ NoAnswer(r) \/ Unlinked(r) => Unacknowledged(r)
           /\ Unacknowledged(r) => Sent(r)
<1>1. Acknowledges(r) => Sent(r)
    <2> SUFFICES ASSUME NEW n \in 0..1, Applies(r, n + 1, n)
                 PROVE  Sent(r)
        BY DEF Acknowledges
    <2>1. n + 1 \in 0..2 /\ n \in 0..2
        OBVIOUS
    <2> QED BY <2>1 DEF Sent
<1> QED BY <1>1 DEF Rejects, NoAnswer, Unlinked, Unacknowledged, Sent

LEMMA SentElsewhere ==
    ASSUME applied \in [Request -> 0..2], NEW r \in Request, Sent(r)
    PROVE  \A x \in Request \ {r} : applied'[x] = applied[x]
BY DEF Sent, Applies, Applied

LEMMA FlushDoneType ==
    ASSUME FlushOK, NEW t \in Thread, FlushDone(t), pass' = pass
    PROVE  FlushOK'
BY BoundAssumption DEF FlushOK, FlushDone

LEMMA SentType ==
    ASSUME HistoryOK, NEW r \in Request, Sent(r)
    PROVE  applied' \in [Request -> 0..2] /\ unheard' \subseteq Request
<1> PICK n \in 0..2, m \in 0..2 : Applies(r, n, m)
    BY DEF Sent
<1> QED BY AppliedType DEF Applies, HistoryOK

\* What _enqueue_offline is given to append to.
LEMMA EnqueueStep ==
    ASSUME QueueOK, HistoryOK, NEW t \in Thread, NEW r \in Request, Enqueue(t, r)
    PROVE  \E queue \in Seq(Item) :
              /\ Reqs(queue) \subseteq Reqs(file)
              /\ queue = file \/ queue = <<>>
              /\ \/ queue = file /\ faults' = faults
                 \/ "failed_load" \in faults'
              /\ faults \subseteq faults'
              /\ faults' \subseteq Faults /\ budget' \in 0..FaultBudget
              /\ kept' = [kept EXCEPT ![t] = Append(queue, Fresh(r))]
<1>1. PICK queue \in {file, Unreadable} :
         Loads(queue) /\ kept' = [kept EXCEPT ![t] = Append(queue, Fresh(r))]
    BY DEF Enqueue
<1>2. queue \in Seq(Item) /\ Reqs(queue) \subseteq Reqs(file)
    BY <1>1, NoItems DEF QueueOK, Unreadable
<1>3. CASE queue = file /\ UNCHANGED <<faults, budget>>
    BY <1>1, <1>2, <1>3 DEF HistoryOK
<1>4. CASE budget > 0 /\ budget' = budget - 1 /\ faults' = faults \cup {"failed_load"}
    <2>1. budget' \in 0..FaultBudget
        BY <1>4, BoundAssumption DEF HistoryOK
    <2>2. faults' \subseteq Faults /\ faults \subseteq faults' /\ "failed_load" \in faults'
        BY <1>4 DEF HistoryOK, Faults
    <2> QED BY <1>1, <1>2, <2>1, <2>2 DEF Unreadable
<1> QED BY <1>1, <1>3, <1>4 DEF Loads

\* What a queue holds while the flusher looks at it.
LEMMA FlushNextType ==
    ASSUME QueueOK, FlushNext
    PROVE  /\ mem' \in [Thread -> Seq(Item)]
           /\ Head(mem[Flusher]) \in Item /\ Head(mem[Flusher]).req \in Request
<1>1. mem[Flusher] \in Seq(Item) /\ mem[Flusher] # <<>>
    BY ThreadAssumption DEF QueueOK, FlushNext
<1>2. Tail(mem[Flusher]) \in Seq(Item) /\ Head(mem[Flusher]) \in Item
    BY <1>1, TailItems
<1>3. mem' = [mem EXCEPT ![Flusher] = Tail(mem[Flusher])]
    BY DEF FlushNext
<1>4. mem' \in [Thread -> Seq(Item)]
    BY <1>2, <1>3 DEF QueueOK
<1> QED BY <1>2, <1>4 DEF Item

LEMMA KeepType ==
    ASSUME QueueOK, NEW x \in Item, Keep(x)
    PROVE  kept' \in [Thread -> Seq(Item)]
<1>1. Append(kept[Flusher], x) \in Seq(Item)
    BY AppendItems, ThreadAssumption DEF QueueOK
<1>2. kept' = [kept EXCEPT ![Flusher] = Append(kept[Flusher], x)]
    BY DEF Keep
<1> QED BY <1>1, <1>2 DEF QueueOK

LEMMA ReportType ==
    ASSUME TypeOK, NEW t \in Thread, NEW r \in Request, Report(t, r)
    PROVE  TypeOK'
<1>t. QueueOK /\ FlushOK /\ EnvOK /\ HistoryOK
    BY TypeParts
<1>u. used' \subseteq Request
    BY <1>t DEF Report, ReportDelivered, ReportDropped, ReportQueued, ReportUnlinked,
                Produce, HistoryOK
<1>1. CASE ReportDelivered(t, r)
    <2>1. HistoryOK'
        BY <1>1, <1>t, <1>u, CallSends, SentType DEF ReportDelivered, HistoryOK
    <2>2. QueueOK' /\ FlushOK' /\ EnvOK'
        BY <1>1, <1>t DEF ReportDelivered, QueueOK, FlushOK, EnvOK, queueVars, flushVars, envVars
    <2> QED BY <2>1, <2>2, NextTypeParts
<1>2. CASE ReportDropped(t, r)
    <2>1. applied' \in [Request -> 0..2] /\ unheard' \subseteq Request
        BY <1>2, <1>t, CallSends, SentType DEF ReportDropped
    <2> QED BY <1>2, <1>t, <1>u, <2>1, NextTypeParts
            DEF ReportDropped, QueueOK, FlushOK, EnvOK, HistoryOK, queueVars, flushVars, envVars
<1>3. CASE ReportQueued(t, r)
    <2>1. applied' \in [Request -> 0..2] /\ unheard' \subseteq Request
        BY <1>3, <1>t, CallSends, SentType DEF ReportQueued
    <2>e. Enqueue(t, r)
        BY <1>3 DEF ReportQueued
    <2>q. PICK queue \in Seq(Item) :
             /\ faults' \subseteq Faults /\ budget' \in 0..FaultBudget
             /\ kept' = [kept EXCEPT ![t] = Append(queue, Fresh(r))]
        BY <1>t, <2>e, EnqueueStep
    <2>2. accepted' \in Seq(Request)
        BY <1>3, <1>t, AppendProperties DEF ReportQueued, Enqueue, HistoryOK
    <2>3. HistoryOK'
        BY <1>3, <1>t, <1>u, <2>1, <2>2, <2>q DEF ReportQueued, Enqueue, HistoryOK
    <2>4. QueueOK'
        <3>1. Append(queue, Fresh(r)) \in Seq(Item)
            BY FreshIsItem, AppendItems
        <3> QED BY <1>t, <2>e, <2>q, <3>1 DEF Enqueue, QueueOK, States
    <2>5. FlushOK' /\ EnvOK'
        BY <1>3, <1>t DEF ReportQueued, FlushOK, EnvOK, flushVars, envVars
    <2> QED BY <2>3, <2>4, <2>5, NextTypeParts
<1>4. CASE ReportUnlinked(t, r)
    <2>1. applied' \in [Request -> 0..2] /\ unheard' \subseteq Request
        BY <1>4, <1>t, CallSends, SentType DEF ReportUnlinked
    <2> QED BY <1>4, <1>t, <1>u, <2>1, NextTypeParts
            DEF ReportUnlinked, QueueOK, FlushOK, EnvOK, HistoryOK, States, flushVars, envVars
<1> QED BY <1>1, <1>2, <1>3, <1>4 DEF Report

LEMMA FlushType ==
    ASSUME TypeOK, Flush
    PROVE  TypeOK'
<1>t. QueueOK /\ FlushOK /\ EnvOK /\ HistoryOK
    BY TypeParts
<1>f. Flusher \in Thread
    BY ThreadAssumption
<1>1. CASE FlushStart
    <2>1. QueueOK'
        BY <1>1, <1>t, <1>f, EmptySeq DEF FlushStart, QueueOK, States
    <2>2. FlushOK'
        BY <1>1, <1>t DEF FlushStart, FlushOK
    <2>3. EnvOK' /\ HistoryOK'
        BY <1>1, <1>t DEF FlushStart, EnvOK, HistoryOK, envVars
    <2> QED BY <2>1, <2>2, <2>3, NextTypeParts
<1>2. CASE FlushSkip
    <2>1. /\ mem' \in [Thread -> Seq(Item)]
          /\ kept' \in [Thread -> Seq(Item)]
        BY <1>2, <1>t, FlushNextType, KeepType DEF FlushSkip
    <2> QED BY <1>2, <1>t, <2>1, NextTypeParts
            DEF FlushSkip, QueueOK, FlushOK, EnvOK, HistoryOK, flushVars, envVars, historyVars
<1>3. CASE FlushDelivered
    <2>1. mem' \in [Thread -> Seq(Item)] /\ Head(mem[Flusher]).req \in Request
        BY <1>3, <1>t, FlushNextType DEF FlushDelivered
    <2>2. applied' \in [Request -> 0..2] /\ unheard' \subseteq Request
        BY <1>3, <1>t, <2>1, CallSends, SentType DEF FlushDelivered
    <2>3. FlushOK'
        BY <1>3, <1>t DEF FlushDelivered, FlushOK
    <2>4. QueueOK' /\ EnvOK' /\ HistoryOK'
        BY <1>3, <1>t, <2>1, <2>2 DEF FlushDelivered, QueueOK, EnvOK, HistoryOK, envVars
    <2> QED BY <2>3, <2>4, NextTypeParts
<1>4. CASE FlushFailed
    <2> DEFINE x == Head(mem[Flusher])
    <2>1. mem' \in [Thread -> Seq(Item)] /\ x \in Item /\ x.req \in Request
        BY <1>4, <1>t, FlushNextType DEF FlushFailed
    <2>2. Failed(x) \in Item
        BY <2>1, FailedIsItem
    <2>3. kept' \in [Thread -> Seq(Item)]
        BY <1>4, <1>t, <2>2, KeepType DEF FlushFailed
    <2>4. applied' \in [Request -> 0..2] /\ unheard' \subseteq Request
        BY <1>4, <1>t, <2>1, CallSends, SentType DEF FlushFailed
    <2>5. FlushOK'
        BY <1>4, <1>t DEF FlushFailed, FlushOK
    <2>6. QueueOK' /\ EnvOK' /\ HistoryOK'
        BY <1>4, <1>t, <2>1, <2>3, <2>4 DEF FlushFailed, QueueOK, EnvOK, HistoryOK, envVars
    <2> QED BY <2>5, <2>6, NextTypeParts
<1>5. CASE FlushUnlinked
    <2>1. QueueOK'
        BY <1>5, <1>t, <1>f, EmptySeq DEF FlushUnlinked, QueueOK, States
    <2>2. FlushOK'
        BY <1>5, <1>t DEF FlushUnlinked, FlushOK
    <2>3. Head(mem[Flusher]).req \in Request
        <3>1. mem[Flusher] \in Seq(Item) /\ mem[Flusher] # <<>>
            BY <1>5, <1>t, <1>f DEF FlushUnlinked, QueueOK
        <3> QED BY <3>1, TailItems DEF Item
    <2>4. applied' \in [Request -> 0..2] /\ unheard' \subseteq Request
        BY <1>5, <1>t, <2>3, CallSends, SentType DEF FlushUnlinked
    <2>5. EnvOK' /\ HistoryOK'
        BY <1>5, <1>t, <2>4 DEF FlushUnlinked, EnvOK, HistoryOK, envVars
    <2> QED BY <2>1, <2>2, <2>5, NextTypeParts
<1> QED BY <1>1, <1>2, <1>3, <1>4, <1>5 DEF Flush

LEMMA SaveType ==
    ASSUME TypeOK, NEW t \in Thread, Save(t) \/ SaveFails(t) \/ Wipe(t) \/ Unlink(t)
    PROVE  TypeOK'
<1>t. QueueOK /\ FlushOK /\ EnvOK /\ HistoryOK
    BY TypeParts
<1>s. StaleBut(t) \subseteq Thread /\ StaleSave(t) \subseteq Faults
    BY <1>t DEF StaleBut, StaleSave, Faults, HistoryOK
<1>e. <<>> \in Seq(Item)
    BY EmptySeq
<1>1. CASE Truncate(t)
    BY <1>1, <1>t, <1>s, <1>e, NextTypeParts
       DEF Truncate, Unreadable, QueueOK, FlushOK, EnvOK, HistoryOK, States, flushVars, envVars
<1>2. CASE Write(t)
    <2>1. Later(kept[t], elapsed[t]) \in Seq(Item)
        BY <1>t, LaterItems DEF QueueOK
    <2>2. QueueOK'
        BY <1>2, <1>t, <1>e, <2>1 DEF Write, QueueOK, States, Unreadable
    <2>3. FlushOK'
        BY <1>2, <1>t, FlushDoneType DEF Write
    <2>4. EnvOK' /\ HistoryOK'
        BY <1>2, <1>t, <1>s DEF Write, EnvOK, HistoryOK, envVars
    <2> QED BY <2>2, <2>3, <2>4, NextTypeParts
<1>3. CASE SaveFails(t)
    <2>1. QueueOK'
        BY <1>3, <1>t, <1>e DEF SaveFails, QueueOK, States
    <2>2. FlushOK'
        BY <1>3, <1>t, FlushDoneType DEF SaveFails
    <2>3. HistoryOK'
        <3>1. budget' \in 0..FaultBudget
            BY <1>3, <1>t, BoundAssumption DEF SaveFails, HistoryOK
        <3>2. faults' \subseteq Faults
            BY <1>3, <1>t DEF SaveFails, HistoryOK, Faults
        <3> QED BY <1>3, <1>t, <3>1, <3>2 DEF SaveFails, HistoryOK
    <2>4. EnvOK'
        BY <1>3, <1>t DEF SaveFails, EnvOK, envVars
    <2> QED BY <2>1, <2>2, <2>3, <2>4, NextTypeParts
<1>4. CASE Wipe(t)
    <2>1. QueueOK'
        BY <1>4, <1>t, <1>e DEF Wipe, QueueOK, States
    <2>2. wiped' \subseteq Request
        BY <1>4, <1>t, ReqsAreRequests DEF Wipe, QueueOK, HistoryOK
    <2>3. HistoryOK' /\ FlushOK'
        BY <1>4, <1>t, <1>s, <2>2 DEF Wipe, HistoryOK, FlushOK, flushVars
    <2>4. EnvOK'
        BY <1>4, <1>t, ThreadAssumption DEF Wipe, EnvOK
    <2> QED BY <2>1, <2>3, <2>4, NextTypeParts
<1>5. CASE Unlink(t)
    BY <1>5, <1>t, NextTypeParts
       DEF Unlink, QueueOK, FlushOK, EnvOK, HistoryOK, States, flushVars, envVars, historyVars
<1> QED BY <1>1, <1>2, <1>3, <1>4, <1>5 DEF Save

LEMMA CrashType ==
    ASSUME TypeOK, NEW p \in Process, Crash(p)
    PROVE  TypeOK'
<1>t. QueueOK /\ FlushOK /\ EnvOK /\ HistoryOK
    BY TypeParts
<1>1. QueueOK'
    BY <1>t, EmptySeq DEF Crash, QueueOK, States
<1>2. FlushOK'
    BY <1>t, BoundAssumption DEF Crash, FlushOK
<1>3. EnvOK'
    BY <1>t DEF Crash, EnvOK
<1>4. HistoryOK'
    <2>1. budget' \in 0..FaultBudget
        BY <1>t, BoundAssumption DEF Crash, HistoryOK
    <2>2. faults' \subseteq Faults
        BY <1>t DEF Crash, HistoryOK, Faults
    <2> QED BY <1>t, <2>1, <2>2 DEF Crash, HistoryOK
<1> QED BY <1>1, <1>2, <1>3, <1>4, NextTypeParts

LEMMA TickType ==
    ASSUME TypeOK, Tick
    PROVE  TypeOK'
<1>t. QueueOK /\ FlushOK /\ EnvOK /\ HistoryOK
    BY TypeParts
<1>1. file' \in Seq(Item)
    BY <1>t, LaterItems DEF Tick, QueueOK
<1>2. elapsed' \in [Thread -> Nat]
    BY <1>t DEF Tick, QueueOK
<1>3. gate' \in 0..FlushMax
    BY <1>t, BoundAssumption DEF Tick, FlushOK
<1> QED BY <1>t, <1>1, <1>2, <1>3, NextTypeParts
        DEF Tick, QueueOK, FlushOK, EnvOK, HistoryOK, envVars, historyVars

LEMMA StepType == TypeOK /\ [Next]_vars => TypeOK'
<1> SUFFICES ASSUME TypeOK, [Next]_vars
             PROVE  TypeOK'
    OBVIOUS
<1>t. QueueOK /\ FlushOK /\ EnvOK /\ HistoryOK
    BY TypeParts
<1>1. ASSUME NEW t \in Thread, NEW r \in Request, Report(t, r)
      PROVE  TypeOK'
    BY <1>1, ReportType
<1>2. ASSUME NEW t \in Thread, Save(t) \/ SaveFails(t) \/ Wipe(t) \/ Unlink(t)
      PROVE  TypeOK'
    BY <1>2, SaveType
<1>3. CASE Flush
    BY <1>3, FlushType
<1>4. ASSUME NEW p \in Process, Crash(p)
      PROVE  TypeOK'
    BY <1>4, CrashType
<1>5. ASSUME NEW p \in Process, Enroll(p) \/ LicenseChange(p)
      PROVE  TypeOK'
    BY <1>5, <1>t, NextTypeParts
       DEF Enroll, LicenseChange, QueueOK, FlushOK, EnvOK, HistoryOK,
           queueVars, flushVars, historyVars
<1>6. CASE ServerChange
    BY <1>6, <1>t, NextTypeParts
       DEF ServerChange, QueueOK, FlushOK, EnvOK, HistoryOK, queueVars, flushVars, historyVars
<1>7. CASE Tick
    BY <1>7, TickType
<1>8. CASE UNCHANGED vars
    BY <1>8, <1>t, NextTypeParts
       DEF vars, QueueOK, FlushOK, EnvOK, HistoryOK, queueVars, flushVars, envVars, historyVars
<1> QED BY <1>1, <1>2, <1>3, <1>4, <1>5, <1>6, <1>7, <1>8 DEF Next

\* Whatever two processes do to the file, and however often a save is torn or
\* fails, the state keeps its types, and flush_interval stays within
\* OFFLINE_FLUSH_MAX_INTERVAL.
THEOREM TypesHold == Spec => []TypeOK
BY InitType, StepType, PTL DEF Spec

-----------------------------------------------------------------------------
(* Order                                                                   *)

\* Position, for any list of accepted requests.
At(acc, r) == CHOOSE i \in DOMAIN acc : acc[i] = r

Elems(acc) == {acc[i] : i \in DOMAIN acc}
Once(acc) == \A i, j \in DOMAIN acc : acc[i] = acc[j] => i = j

\* A queue of accepted requests, in order, that waits only after a failure.
InOrder(acc, q) ==
    \A i, j \in DOMAIN q : i < j => At(acc, q[i].req) < At(acc, q[j].req)
Waited(q) == \A i \in DOMAIN q : q[i].wait > 0 => q[i].retry > 0
Fits(acc, q) == Reqs(q) \subseteq Elems(acc) /\ InOrder(acc, q) /\ Waited(q)

Precede(acc, p, q) == \A r \in Reqs(p), s \in Reqs(q) : At(acc, r) < At(acc, s)
Retried(q) == \A i \in DOMAIN q : q[i].retry > 0

\* In a pass, what it keeps comes before what it has not looked at yet.
Flushing == {"flush", "wipeInFlush"}
PassFits(acc, k, m) == Fits(acc, m) /\ Precede(acc, k, m) /\ Retried(k)
ThreadFits(acc, p, k, m) == /\ Fits(acc, k)
                            /\ p \in Flushing => PassFits(acc, k, m)
                            /\ p = "wipeInFlush" => m = <<>>

Accounts == Once(accepted) /\ Elems(accepted) \subseteq used
Order == /\ Accounts
         /\ Fits(accepted, file)
         /\ \A t \in Thread : ThreadFits(accepted, pc[t], kept[t], mem[t])

LEMMA PositionOf ==
    ASSUME NEW acc \in Seq(Request), Once(acc), NEW i \in DOMAIN acc
    PROVE  At(acc, acc[i]) = i
BY DEF At, Once

LEMMA PositionType ==
    ASSUME NEW acc \in Seq(Request), Once(acc), NEW r \in Elems(acc)
    PROVE  At(acc, r) \in Nat
<1>1. PICK i \in DOMAIN acc : r = acc[i]
    BY DEF Elems
<1>2. i \in Nat
    BY LenProperties
<1> QED BY <1>1, <1>2, PositionOf

\* acc2 ranks what is in acc as acc does.
Extends(acc2, acc) == /\ Elems(acc) \subseteq Elems(acc2)
                      /\ \A r \in Elems(acc) : At(acc2, r) = At(acc, r)

\* A request taken now comes after all those taken before.
LEMMA TakeOne ==
    ASSUME NEW acc \in Seq(Request), Once(acc), NEW r \in Request, r \notin Elems(acc),
           NEW acc2, acc2 = Append(acc, r)
    PROVE  /\ acc2 \in Seq(Request) /\ Once(acc2)
           /\ Elems(acc2) = Elems(acc) \cup {r}
           /\ Extends(acc2, acc)
           /\ \A s \in Elems(acc) : At(acc2, s) < At(acc2, r)
<1>1. /\ DOMAIN acc = 1..Len(acc) /\ Len(acc) \in Nat
      /\ DOMAIN acc2 = 1..Len(acc) + 1 /\ acc2 \in Seq(Request)
    BY LenProperties, AppendProperties
<1>2. /\ \A i \in DOMAIN acc : acc2[i] = acc[i]
      /\ acc2[Len(acc) + 1] = r
    BY <1>1, AppendProperties
<1>3. \A i \in DOMAIN acc : acc2[i] # r
    BY <1>2 DEF Elems
<1>d. \A i \in DOMAIN acc2 : i \in DOMAIN acc \/ i = Len(acc) + 1
    BY <1>1
<1>4. Once(acc2)
    <2>1. ASSUME NEW i \in DOMAIN acc2, NEW j \in DOMAIN acc2, acc2[i] = acc2[j]
          PROVE  i = j
        <3>1. CASE i \in DOMAIN acc /\ j \in DOMAIN acc
            BY <2>1, <3>1, <1>2 DEF Once
        <3>2. CASE i = Len(acc) + 1
            <4>1. acc2[j] = r
                BY <2>1, <3>2, <1>2
            <4>2. j \notin DOMAIN acc
                BY <4>1, <1>3
            <4> QED BY <2>1, <3>2, <4>2, <1>d
        <3>3. CASE j = Len(acc) + 1
            <4>1. acc2[i] = r
                BY <2>1, <3>3, <1>2
            <4>2. i \notin DOMAIN acc
                BY <4>1, <1>3
            <4> QED BY <2>1, <3>3, <4>2, <1>d
        <3> QED BY <2>1, <1>d, <3>1, <3>2, <3>3
    <2> QED BY <2>1 DEF Once
<1>5. Elems(acc2) = Elems(acc) \cup {r}
    BY <1>1, <1>2 DEF Elems
<1>6. ASSUME NEW s \in Elems(acc)
      PROVE  At(acc2, s) = At(acc, s) /\ At(acc2, s) < At(acc2, r)
    <2>1. PICK i \in DOMAIN acc : s = acc[i]
        BY DEF Elems
    <2>2. At(acc, s) = i
        BY <2>1, PositionOf
    <2>a. i \in DOMAIN acc2 /\ Len(acc) + 1 \in DOMAIN acc2
        BY <1>1
    <2>3. At(acc2, acc2[i]) = i
        BY <1>1, <1>4, <2>a, PositionOf, Zenon
    <2>4. At(acc2, acc2[Len(acc) + 1]) = Len(acc) + 1
        BY <1>1, <1>4, <2>a, PositionOf, Zenon
    <2> QED BY <1>1, <1>2, <2>1, <2>2, <2>3, <2>4
<1> QED BY <1>1, <1>4, <1>5, <1>6 DEF Extends

LEMMA FitsExtends ==
    ASSUME NEW acc2, NEW acc, Extends(acc2, acc), NEW q, Fits(acc, q)
    PROVE  Fits(acc2, q)
<1>1. \A i \in DOMAIN q : q[i].req \in Elems(acc)
    BY DEF Fits, Reqs
<1> QED BY <1>1 DEF Fits, InOrder, Extends

LEMMA ThreadExtends ==
    ASSUME NEW acc2, NEW acc, Extends(acc2, acc), NEW p, NEW k, NEW m,
           ThreadFits(acc, p, k, m)
    PROVE  ThreadFits(acc2, p, k, m)
<1>1. Fits(acc2, k)
    BY FitsExtends DEF ThreadFits
<1>2. p \in Flushing => PassFits(acc2, k, m)
    <2> SUFFICES ASSUME p \in Flushing
                 PROVE  PassFits(acc2, k, m)
        OBVIOUS
    <2>1. Fits(acc, k) /\ Fits(acc, m) /\ Precede(acc, k, m) /\ Retried(k)
        BY DEF ThreadFits, PassFits
    <2>2. Fits(acc2, m)
        BY <2>1, FitsExtends
    <2>3. Precede(acc2, k, m)
        BY <2>1 DEF Fits, Precede, Extends
    <2> QED BY <2>1, <2>2, <2>3 DEF PassFits
<1> QED BY <1>1, <1>2 DEF ThreadFits

\* A new entry with the highest rank goes last.
LEMMA FitsAppend ==
    ASSUME NEW acc, NEW q \in Seq(Item), Fits(acc, q), NEW x \in Item,
           x.req \in Elems(acc), \A s \in Reqs(q) : At(acc, s) < At(acc, x.req),
           x.wait > 0 => x.retry > 0
    PROVE  Fits(acc, Append(q, x))
<1> DEFINE a == Append(q, x)
<1>1. /\ Reqs(a) = Reqs(q) \cup {x.req}
      /\ \A i \in DOMAIN q : a[i] = q[i]
      /\ \A i \in DOMAIN a : i \in DOMAIN q \/ a[i] = x
    BY AppendItems
<1>2. DOMAIN q \subseteq Nat /\ DOMAIN a \subseteq Nat
    <2>1. a \in Seq(Item)
        BY AppendItems
    <2> HIDE DEF a
    <2> QED BY <2>1, LenProperties
<1>l. \A i, j \in DOMAIN a : i < j => i \in DOMAIN q
    <2>1. /\ DOMAIN q = 1..Len(q) /\ Len(q) \in Nat
          /\ DOMAIN a = 1..Len(q) + 1
        BY LenProperties, AppendProperties
    <2> QED BY <2>1
<1> HIDE DEF a
<1>3. Reqs(a) \subseteq Elems(acc)
    BY <1>1 DEF Fits
<1>4. ASSUME NEW i \in DOMAIN a, NEW j \in DOMAIN a, i < j
      PROVE  At(acc, a[i].req) < At(acc, a[j].req)
    <2>1. i \in DOMAIN q /\ a[i] = q[i]
        BY <1>1, <1>2, <1>4, <1>l
    <2>2. CASE j \in DOMAIN q /\ a[j] = q[j]
        BY <1>4, <2>1, <2>2 DEF Fits, InOrder
    <2>3. CASE a[j] = x
        <3>1. q[i].req \in Reqs(q)
            BY <2>1 DEF Reqs
        <3> QED BY <2>1, <2>3, <3>1
    <2> QED BY <1>1, <2>2, <2>3
<1>5. Waited(a)
    BY <1>1 DEF Fits, Waited
<1>6. InOrder(acc, a)
    BY <1>4 DEF InOrder
<1> QED BY <1>3, <1>5, <1>6 DEF Fits, a

LEMMA FitsLater ==
    ASSUME NEW acc, NEW q \in Seq(Item), Fits(acc, q), NEW n \in Nat
    PROVE  Fits(acc, Later(q, n)) /\ Reqs(Later(q, n)) = Reqs(q)
<1>1. /\ DOMAIN Later(q, n) = DOMAIN q
      /\ \A i \in DOMAIN q : /\ Later(q, n)[i].req = q[i].req
                             /\ Later(q, n)[i].retry = q[i].retry
                             /\ Later(q, n)[i].wait > 0 => q[i].wait > 0
    BY LaterItems
<1>2. Reqs(Later(q, n)) = Reqs(q)
    BY LaterReqs
<1>3. InOrder(acc, Later(q, n))
    BY <1>1 DEF Fits, InOrder
<1>4. Waited(Later(q, n))
    BY <1>1 DEF Fits, Waited
<1> QED BY <1>2, <1>3, <1>4 DEF Fits

LEMMA FitsEmpty == ASSUME NEW acc PROVE Fits(acc, <<>>)
BY NoItems DEF Fits, InOrder, Waited

LEMMA ThreadEmpty == ASSUME NEW acc PROVE ThreadFits(acc, "idle", <<>>, <<>>)
BY FitsEmpty DEF ThreadFits, Flushing

\* Outside a pass only what is to be saved matters.
LEMMA ThreadOutside ==
    ASSUME NEW acc, NEW p, p \notin Flushing, NEW k, Fits(acc, k), NEW m
    PROVE  ThreadFits(acc, p, k, m)
BY DEF ThreadFits, Flushing

\* A pass goes on: the first entry is taken off, and dropped or kept.
LEMMA PassDrops ==
    ASSUME NEW acc \in Seq(Request), Once(acc), NEW k \in Seq(Item), NEW m \in Seq(Item),
           m # <<>>, PassFits(acc, k, m)
    PROVE  /\ PassFits(acc, k, Tail(m))
           /\ \A s \in Reqs(Tail(m)) : At(acc, Head(m).req) < At(acc, s)
           /\ Head(m).req \in Elems(acc) /\ Head(m).req \in Reqs(m)
           /\ Head(m).wait > 0 => Head(m).retry > 0
<1>1. /\ Reqs(m) = Reqs(Tail(m)) \cup {Head(m).req}
      /\ 1 \in DOMAIN m /\ Head(m) = m[1]
      /\ \A i \in DOMAIN Tail(m) : i + 1 \in DOMAIN m /\ Tail(m)[i] = m[i + 1]
      /\ Tail(m) \in Seq(Item)
    BY TailItems
<1>2. DOMAIN Tail(m) \subseteq Nat \ {0}
    BY <1>1, LenProperties
<1>3. ASSUME NEW i \in DOMAIN Tail(m), NEW j \in DOMAIN Tail(m), i < j
      PROVE  At(acc, Tail(m)[i].req) < At(acc, Tail(m)[j].req)
    <2>1. i + 1 < j + 1
        BY <1>2, <1>3
    <2> QED BY <1>1, <2>1 DEF PassFits, Fits, InOrder
<1>4. Fits(acc, Tail(m))
    <2>1. Waited(Tail(m)) /\ Reqs(Tail(m)) \subseteq Elems(acc)
        BY <1>1 DEF PassFits, Fits, Waited
    <2> QED BY <2>1, <1>3 DEF Fits, InOrder
<1>5. ASSUME NEW s \in Reqs(Tail(m))
      PROVE  At(acc, Head(m).req) < At(acc, s)
    <2>1. PICK i \in DOMAIN Tail(m) : s = Tail(m)[i].req
        BY DEF Reqs
    <2>2. i + 1 \in DOMAIN m /\ 1 < i + 1 /\ s = m[i + 1].req
        BY <1>1, <1>2, <2>1
    <2> QED BY <1>1, <2>2 DEF PassFits, Fits, InOrder
<1>6. Precede(acc, k, Tail(m))
    BY <1>1 DEF PassFits, Precede
<1>7. /\ Head(m).req \in Elems(acc)
      /\ Head(m).wait > 0 => Head(m).retry > 0
    BY <1>1 DEF PassFits, Fits, Waited
<1> QED BY <1>1, <1>4, <1>5, <1>6, <1>7 DEF PassFits

LEMMA PassKeeps ==
    ASSUME NEW acc \in Seq(Request), Once(acc), NEW k \in Seq(Item), NEW m \in Seq(Item),
           m # <<>>, PassFits(acc, k, m), Fits(acc, k),
           NEW x \in Item, x.req = Head(m).req, x.retry > 0
    PROVE  PassFits(acc, Append(k, x), Tail(m)) /\ Fits(acc, Append(k, x))
<1>1. /\ PassFits(acc, k, Tail(m))
      /\ \A s \in Reqs(Tail(m)) : At(acc, x.req) < At(acc, s)
      /\ x.req \in Elems(acc) /\ x.req \in Reqs(m)
    BY PassDrops
<1>2. \A s \in Reqs(k) : At(acc, s) < At(acc, x.req)
    BY <1>1 DEF PassFits, Precede
<1>3. Fits(acc, Append(k, x))
    BY <1>1, <1>2, FitsAppend
<1>4. /\ Reqs(Append(k, x)) = Reqs(k) \cup {x.req}
      /\ \A i \in DOMAIN k : Append(k, x)[i] = k[i]
      /\ \A i \in DOMAIN Append(k, x) : i \in DOMAIN k \/ Append(k, x)[i] = x
    BY AppendItems
<1>5. Precede(acc, Append(k, x), Tail(m))
    BY <1>1, <1>4 DEF PassFits, Precede
<1>6. Retried(Append(k, x))
    BY <1>4 DEF PassFits, Retried
<1> QED BY <1>1, <1>3, <1>5, <1>6 DEF PassFits

LEMMA InitOrder == Init => Order
<1> SUFFICES ASSUME Init
             PROVE  Order
    OBVIOUS
<1>1. accepted = <<>> /\ file = <<>>
    BY DEF Init, Unreadable
<1>2. Once(accepted) /\ Elems(accepted) = {}
    BY <1>1 DEF Once, Elems
<1>3. Fits(accepted, file)
    BY <1>1, FitsEmpty
<1>4. \A t \in Thread : ThreadFits(accepted, pc[t], kept[t], mem[t])
    BY ThreadEmpty DEF Init
<1> QED BY <1>2, <1>3, <1>4 DEF Order, Accounts

\* Nothing to do with the queue.
LEMMA OrderQuiet ==
    ASSUME Order, UNCHANGED <<file, mem, kept, accepted>>, used \subseteq used',
           \A t \in Thread : pc'[t] = pc[t] \/ pc'[t] = "wipe"
    PROVE  Order'
<1>1. \A t \in Thread : ThreadFits(accepted, pc'[t], kept[t], mem[t])
    <2>1. \A k, m : Fits(accepted, k) => ThreadFits(accepted, "wipe", k, m)
        BY ThreadOutside DEF Flushing
    <2> QED BY <2>1 DEF Order, ThreadFits
<1> QED BY <1>1 DEF Order, Accounts

LEMMA OrderReport ==
    ASSUME TypeOK, Order, NEW t \in Thread, NEW r \in Request, Report(t, r)
    PROVE  Order'
<1>t. QueueOK /\ HistoryOK
    BY TypeParts
<1>1. CASE ReportDelivered(t, r) \/ ReportDropped(t, r) \/ ReportUnlinked(t, r)
    <2>1. /\ UNCHANGED <<file, mem, kept, accepted>> /\ used \subseteq used'
          /\ pc' = pc \/ pc' = [pc EXCEPT ![t] = "wipe"]
        BY <1>1 DEF ReportDelivered, ReportDropped, ReportUnlinked, Produce, queueVars
    <2>2. \A u \in Thread : pc'[u] = pc[u] \/ pc'[u] = "wipe"
        BY <1>t, <2>1 DEF QueueOK
    <2> QED BY <2>1, <2>2, OrderQuiet
<1>2. CASE ReportQueued(t, r)
    <2>q. PICK queue \in Seq(Item) :
             /\ Reqs(queue) \subseteq Reqs(file) /\ (queue = file \/ queue = <<>>)
             /\ kept' = [kept EXCEPT ![t] = Append(queue, Fresh(r))]
        BY <1>2, <1>t, EnqueueStep DEF ReportQueued
    <2>1. /\ r \notin used /\ used' = used \cup {r}
          /\ pc' = [pc EXCEPT ![t] = "append"]
          /\ file' = file /\ mem' = mem /\ accepted' = Append(accepted, r)
        BY <1>2 DEF ReportQueued, Enqueue, Produce
    <2>2. r \notin Elems(accepted) /\ Once(accepted) /\ accepted \in Seq(Request)
        BY <1>t, <2>1 DEF Order, Accounts, HistoryOK
    <2>3. /\ Once(accepted') /\ Elems(accepted') = Elems(accepted) \cup {r}
          /\ Extends(accepted', accepted)
          /\ \A s \in Elems(accepted) : At(accepted', s) < At(accepted', r)
        BY <2>1, <2>2, TakeOne
    <2>4. Accounts'
        BY <2>1, <2>3 DEF Order, Accounts
    <2>5. Fits(accepted', file)
        BY <2>3, FitsExtends DEF Order
    <2>6. Fits(accepted', Append(queue, Fresh(r)))
        <3>1. Fresh(r) \in Item /\ Fresh(r).req = r /\ Fresh(r).wait = 0
            BY FreshIsItem DEF Fresh
        <3>2. \A s \in Reqs(queue) : At(accepted', s) < At(accepted', r)
            BY <2>3, <2>q DEF Order, Fits
        <3>3. Fits(accepted', queue)
            BY <2>5, <2>q, FitsEmpty
        <3> QED BY <2>3, <3>1, <3>2, <3>3, FitsAppend
    <2>7. ASSUME NEW u \in Thread
          PROVE  ThreadFits(accepted', pc'[u], kept'[u], mem'[u])
        <3>1. CASE u = t
            <4>1. pc'[u] = "append" /\ kept'[u] = Append(queue, Fresh(r))
                BY <1>t, <2>1, <2>q, <3>1 DEF QueueOK
            <4> QED BY <2>6, <4>1, ThreadOutside DEF Flushing
        <3>2. CASE u # t
            <4>1. pc'[u] = pc[u] /\ kept'[u] = kept[u] /\ mem'[u] = mem[u]
                BY <1>t, <2>1, <2>q, <3>2 DEF QueueOK
            <4> QED BY <2>3, <4>1, ThreadExtends DEF Order
        <3> QED BY <3>1, <3>2
    <2> QED BY <2>1, <2>4, <2>5, <2>7 DEF Order
<1> QED BY <1>1, <1>2 DEF Report

\* A step of one thread that takes no request.
LEMMA OrderLocal ==
    ASSUME QueueOK, Order, UNCHANGED <<accepted, used>>, Fits(accepted, file'),
           NEW t \in Thread, ThreadFits(accepted, pc'[t], kept'[t], mem'[t]),
           \A u \in Thread \ {t} : /\ pc'[u] = pc[u] /\ kept'[u] = kept[u]
                                   /\ mem'[u] = mem[u]
    PROVE  Order'
<1>1. \A u \in Thread : ThreadFits(accepted, pc'[u], kept'[u], mem'[u])
    BY DEF Order
<1> QED BY <1>1 DEF Order, Accounts

\* What an entry of the pass leaves behind, in the flusher's own state.
LEMMA PassStep ==
    ASSUME QueueOK, FlushNext
    PROVE  /\ pc[Flusher] = "flush" /\ mem[Flusher] # <<>> /\ mem'[Flusher] = Tail(mem[Flusher])
           /\ mem[Flusher] \in Seq(Item) /\ kept[Flusher] \in Seq(Item)
           /\ Head(mem[Flusher]) \in Item
           /\ \A u \in Thread \ {Flusher} : mem'[u] = mem[u]
<1>1. mem' = [mem EXCEPT ![Flusher] = Tail(mem[Flusher])]
    BY DEF FlushNext
<1> QED BY <1>1, ThreadAssumption, FlushNextType DEF QueueOK, FlushNext

LEMMA KeepStep ==
    ASSUME QueueOK, NEW x, Keep(x)
    PROVE  /\ kept'[Flusher] = Append(kept[Flusher], x)
           /\ \A u \in Thread \ {Flusher} : kept'[u] = kept[u]
BY ThreadAssumption DEF QueueOK, Keep

LEMMA OrderFlush ==
    ASSUME TypeOK, Order, Flush
    PROVE  Order'
<1>t. QueueOK /\ HistoryOK
    BY TypeParts
<1>f. Flusher \in Thread /\ Fits(accepted, file) /\ accepted \in Seq(Request) /\ Once(accepted)
    BY <1>t, ThreadAssumption DEF Order, Accounts, HistoryOK
<1>k. ThreadFits(accepted, pc[Flusher], kept[Flusher], mem[Flusher])
    BY <1>f DEF Order
<1>1. CASE FlushStart
    <2>1. /\ pc'[Flusher] = "flush" /\ mem'[Flusher] = file /\ kept'[Flusher] = <<>>
          /\ \A u \in Thread \ {Flusher} : /\ pc'[u] = pc[u] /\ kept'[u] = kept[u]
                                           /\ mem'[u] = mem[u]
        BY <1>1, <1>t, <1>f DEF FlushStart, QueueOK
    <2>2. PassFits(accepted, <<>>, file)
        BY <1>f, NoItems DEF PassFits, Precede, Retried
    <2>3. ThreadFits(accepted, "flush", <<>>, file)
        BY <2>2, FitsEmpty DEF ThreadFits
    <2>4. UNCHANGED <<accepted, used, file>>
        BY <1>1 DEF FlushStart
    <2> QED BY <1>t, <1>f, <2>1, <2>3, <2>4, OrderLocal
<1> DEFINE x == Head(mem[Flusher])
<1>p. ASSUME FlushNext
      PROVE  /\ PassFits(accepted, kept[Flusher], mem[Flusher])
             /\ Fits(accepted, kept[Flusher])
             /\ PassFits(accepted, kept[Flusher], Tail(mem[Flusher]))
             /\ x.wait > 0 => x.retry > 0
    <2>1. /\ PassFits(accepted, kept[Flusher], mem[Flusher])
          /\ Fits(accepted, kept[Flusher])
        BY <1>k, <1>p, <1>t, PassStep DEF ThreadFits, Flushing
    <2> QED BY <2>1, <1>f, <1>t, <1>p, PassStep, PassDrops
<1>2. CASE FlushSkip
    <2>1. FlushNext /\ x.wait > 0 /\ Keep(x) /\ UNCHANGED <<file, pc, accepted, used>>
        BY <1>2 DEF FlushSkip, historyVars
    <2>2. /\ PassFits(accepted, Append(kept[Flusher], x), Tail(mem[Flusher]))
          /\ Fits(accepted, Append(kept[Flusher], x))
        BY <2>1, <1>t, <1>f, <1>p, PassStep, PassKeeps
    <2>3. ThreadFits(accepted, pc'[Flusher], kept'[Flusher], mem'[Flusher])
        BY <2>1, <2>2, <1>t, PassStep, KeepStep DEF ThreadFits
    <2> QED BY <1>t, <1>f, <2>1, <2>3, PassStep, KeepStep, OrderLocal
<1>3. CASE FlushDelivered
    <2>1. FlushNext /\ UNCHANGED <<file, pc, kept, accepted, used>>
        BY <1>3 DEF FlushDelivered
    <2>2. ThreadFits(accepted, pc'[Flusher], kept'[Flusher], mem'[Flusher])
        BY <2>1, <1>t, <1>p, PassStep DEF ThreadFits
    <2> QED BY <1>t, <1>f, <2>1, <2>2, PassStep, OrderLocal
<1>4. CASE FlushFailed
    <2>1. FlushNext /\ Keep(Failed(x)) /\ UNCHANGED <<file, pc, accepted, used>>
        BY <1>4 DEF FlushFailed
    <2>2. Failed(x) \in Item /\ Failed(x).req = x.req /\ Failed(x).retry > 0
        BY <2>1, <1>t, PassStep, FailedIsItem
    <2>3. /\ PassFits(accepted, Append(kept[Flusher], Failed(x)), Tail(mem[Flusher]))
          /\ Fits(accepted, Append(kept[Flusher], Failed(x)))
        BY <2>1, <2>2, <1>t, <1>f, <1>p, PassStep, PassKeeps
    <2>4. ThreadFits(accepted, pc'[Flusher], kept'[Flusher], mem'[Flusher])
        BY <2>1, <2>3, <1>t, PassStep, KeepStep DEF ThreadFits
    <2> QED BY <1>t, <1>f, <2>1, <2>4, PassStep, KeepStep, OrderLocal
<1>5. CASE FlushUnlinked
    <2>1. /\ pc[Flusher] = "flush" /\ mem' = [mem EXCEPT ![Flusher] = <<>>]
          /\ pc' = [pc EXCEPT ![Flusher] = "wipeInFlush"]
          /\ UNCHANGED <<file, kept, accepted, used>>
        BY <1>5 DEF FlushUnlinked
    <2>2. /\ mem'[Flusher] = <<>> /\ pc'[Flusher] = "wipeInFlush"
          /\ \A u \in Thread \ {Flusher} : pc'[u] = pc[u] /\ mem'[u] = mem[u]
        BY <1>t, <1>f, <2>1 DEF QueueOK
    <2>3. Fits(accepted, kept[Flusher]) /\ Retried(kept[Flusher])
        BY <1>k, <2>1 DEF ThreadFits, PassFits, Flushing
    <2>4. PassFits(accepted, kept[Flusher], <<>>)
        BY <2>3, FitsEmpty, NoItems DEF PassFits, Precede
    <2>5. ThreadFits(accepted, "wipeInFlush", kept[Flusher], <<>>)
        BY <2>3, <2>4 DEF ThreadFits
    <2> QED BY <1>t, <1>f, <2>1, <2>2, <2>5, OrderLocal
<1> QED BY <1>1, <1>2, <1>3, <1>4, <1>5 DEF Flush

LEMMA OrderSave ==
    ASSUME TypeOK, Order, NEW t \in Thread, Save(t) \/ SaveFails(t) \/ Wipe(t) \/ Unlink(t)
    PROVE  Order'
<1>t. QueueOK /\ kept[t] \in Seq(Item) /\ elapsed[t] \in Nat
    BY TypeParts DEF QueueOK
<1>k. /\ ThreadFits(accepted, pc[t], kept[t], mem[t])
      /\ Fits(accepted, file) /\ Fits(accepted, <<>>) /\ Fits(accepted, kept[t])
    BY FitsEmpty DEF Order, ThreadFits
<1>1. CASE Truncate(t)
    <2>1. /\ file' = <<>> /\ kept'[t] = kept[t] /\ pc'[t] \in {"appendWrite", "flushWrite"}
          /\ UNCHANGED <<accepted, used>>
          /\ \A u \in Thread \ {t} : /\ pc'[u] = pc[u] /\ kept'[u] = kept[u]
                                     /\ mem'[u] = mem[u]
        BY <1>1, <1>t DEF Truncate, QueueOK, Unreadable
    <2>2. ThreadFits(accepted, pc'[t], kept'[t], mem'[t])
        BY <2>1, <1>k, ThreadOutside DEF Flushing
    <2> QED BY <1>t, <1>k, <2>1, <2>2, OrderLocal
<1>2. CASE Write(t)
    <2>1. /\ file' = Later(kept[t], elapsed[t]) \/ file' = <<>>
          /\ kept'[t] = <<>> /\ pc'[t] = "idle" /\ UNCHANGED <<accepted, used>>
          /\ \A u \in Thread \ {t} : /\ pc'[u] = pc[u] /\ kept'[u] = kept[u]
                                     /\ mem'[u] = mem[u]
        BY <1>2, <1>t DEF Write, QueueOK, Unreadable
    <2>2. Fits(accepted, file')
        BY <2>1, <1>t, <1>k, FitsLater
    <2>3. ThreadFits(accepted, pc'[t], kept'[t], mem'[t])
        BY <2>1, <1>k, ThreadOutside DEF Flushing
    <2> QED BY <1>t, <2>1, <2>2, <2>3, OrderLocal
<1>3. CASE SaveFails(t)
    <2>1. /\ file' = file /\ kept'[t] = <<>> /\ pc'[t] = "idle" /\ UNCHANGED <<accepted, used>>
          /\ \A u \in Thread \ {t} : /\ pc'[u] = pc[u] /\ kept'[u] = kept[u]
                                     /\ mem'[u] = mem[u]
        BY <1>3, <1>t DEF SaveFails, QueueOK
    <2>2. ThreadFits(accepted, pc'[t], kept'[t], mem'[t])
        BY <2>1, <1>k, ThreadOutside DEF Flushing
    <2> QED BY <1>t, <1>k, <2>1, <2>2, OrderLocal
<1>4. CASE Wipe(t)
    <2>1. /\ file' = <<>> /\ kept'[t] = kept[t] /\ mem'[t] = mem[t] /\ UNCHANGED <<accepted, used>>
          /\ \/ pc[t] = "wipe" /\ pc'[t] = "idle"
             \/ pc[t] = "wipeInFlush" /\ pc'[t] = "flush"
          /\ \A u \in Thread \ {t} : /\ pc'[u] = pc[u] /\ kept'[u] = kept[u]
                                     /\ mem'[u] = mem[u]
        BY <1>4, <1>t DEF Wipe, QueueOK
    <2>2. ThreadFits(accepted, pc'[t], kept'[t], mem'[t])
        BY <2>1, <1>k DEF ThreadFits, Flushing
    <2> QED BY <1>t, <1>k, <2>1, <2>2, OrderLocal
<1>5. CASE Unlink(t)
    <2>1. \A u \in Thread : pc'[u] = pc[u] \/ pc'[u] = "wipe"
        BY <1>5, <1>t DEF Unlink, QueueOK
    <2>2. UNCHANGED <<file, mem, kept, accepted, used>>
        BY <1>5 DEF Unlink, historyVars
    <2> QED BY <2>1, <2>2, OrderQuiet
<1> QED BY <1>1, <1>2, <1>3, <1>4, <1>5 DEF Save

\* What a crash leaves of each thread.
LEMMA CrashStep ==
    ASSUME NEW p \in Process, Crash(p)
    PROVE  /\ UNCHANGED <<file, accepted, used, applied, unheard, wiped>>
           /\ stale' = stale \ {t \in Thread : ProcessOf[t] = p}
           /\ \A t \in Thread : ProcessOf[t] = p =>
                 pc'[t] = "idle" /\ kept'[t] = <<>> /\ mem'[t] = <<>>
           /\ \A t \in Thread : ProcessOf[t] # p =>
                 pc'[t] = pc[t] /\ kept'[t] = kept[t] /\ mem'[t] = mem[t]
<1> DEFINE dead == {t \in Thread : ProcessOf[t] = p}
<1>1. /\ pc' = [t \in Thread |-> IF t \in dead THEN "idle" ELSE pc[t]]
      /\ mem' = [t \in Thread |-> IF t \in dead THEN <<>> ELSE mem[t]]
      /\ kept' = [t \in Thread |-> IF t \in dead THEN <<>> ELSE kept[t]]
      /\ stale' = stale \ dead
      /\ UNCHANGED <<file, accepted, used, applied, unheard, wiped>>
    BY Zenon DEF Crash
<1> QED BY <1>1

LEMMA OrderCrash ==
    ASSUME TypeOK, Order, NEW p \in Process, Crash(p)
    PROVE  Order'
<1>1. /\ UNCHANGED <<file, accepted, used>>
      /\ \A t \in Thread : \/ pc'[t] = "idle" /\ kept'[t] = <<>> /\ mem'[t] = <<>>
                           \/ pc'[t] = pc[t] /\ kept'[t] = kept[t] /\ mem'[t] = mem[t]
    BY CrashStep
<1>2. ASSUME NEW t \in Thread
      PROVE  ThreadFits(accepted, pc'[t], kept'[t], mem'[t])
    BY <1>1, ThreadEmpty DEF Order
<1> QED BY <1>1, <1>2 DEF Order, Accounts

LEMMA OrderTick ==
    ASSUME TypeOK, Order, Tick
    PROVE  Order'
<1>1. file' = Later(file, 1) /\ UNCHANGED <<pc, mem, kept, accepted, used>>
    BY DEF Tick, historyVars
<1>2. Fits(accepted, file')
    BY <1>1, FitsLater, TypeParts DEF QueueOK, Order
<1> QED BY <1>1, <1>2 DEF Order, Accounts

LEMMA StepOrder == TypeOK /\ Order /\ [Next]_vars => Order'
<1> SUFFICES ASSUME TypeOK, Order, [Next]_vars
             PROVE  Order'
    OBVIOUS
<1>1. ASSUME NEW p \in Process, Enroll(p) \/ LicenseChange(p)
      PROVE  Order'
    BY <1>1, OrderQuiet DEF Enroll, LicenseChange, queueVars, historyVars
<1>2. CASE ServerChange
    BY <1>2, OrderQuiet DEF ServerChange, queueVars, historyVars
<1>3. CASE UNCHANGED vars
    BY <1>3, OrderQuiet DEF vars, queueVars, historyVars
<1> QED BY <1>1, <1>2, <1>3, OrderReport, OrderFlush, OrderSave, OrderCrash, OrderTick DEF Next

\* Two processes that overlap, a torn or failing save, a pass that ends early:
\* the file still lists each request once, in the order it was accepted.
THEOREM FileStaysInOrder == Spec => []FileKeepsOrder
<1>1. Order => FileKeepsOrder
    BY DEF Order, Fits, InOrder, FileKeepsOrder, Ordered, Position, At
<1> QED BY InitType, StepType, InitOrder, StepOrder, <1>1, PTL DEF Spec

-----------------------------------------------------------------------------
(* No request is lost                                                      *)

Delivered(ap) == {r \in Request : ap[r] > 0}

\* The copy in memory of a thread that nobody has overtaken covers the file:
\* saving it drops what was delivered, and nothing else.
CopyFits(ap, f, p, k, m) ==
    /\ p = "append" => Reqs(f) \subseteq Reqs(k)
    /\ p = "flush" => Reqs(f) \subseteq Delivered(ap) \cup Reqs(k) \cup Reqs(m)
    /\ p \in {"appendWrite", "flushWrite"} => Reqs(f) = {}

Writing == {"append", "appendWrite", "flushWrite"}
HeldIn(f, where, k, r) == \/ r \in Reqs(f)
                          \/ \E t \in Thread : where[t] \in Writing /\ r \in Reqs(k[t])

NothingLost == \A r \in Elems(accepted) : \/ r \in Delivered(applied) \cup wiped
                                          \/ HeldIn(file, pc, kept, r)
CopiesFit == \A t \in Thread \ stale : CopyFits(applied, file, pc[t], kept[t], mem[t])

Safe == LossFault \/ (NothingLost /\ CopiesFit)

LEMMA SentGrows ==
    ASSUME applied \in [Request -> 0..2], NEW r \in Request, Sent(r)
    PROVE  Delivered(applied) \subseteq Delivered(applied')
<1>1. \A s \in Request : applied[s] > 0 => applied'[s] > 0
    BY DEF Sent, Applies, Applied
<1> QED BY <1>1 DEF Delivered

LEMMA AcknowledgedDelivers ==
    ASSUME applied \in [Request -> 0..2], NEW r \in Request, Acknowledges(r)
    PROVE  r \in Delivered(applied')
<1>1. applied'[r] > 0
    BY DEF Acknowledges, Applies, Applied
<1> QED BY <1>1 DEF Delivered

LEMMA CopyOutside ==
    ASSUME NEW p, p \in {"idle", "wipe", "wipeInFlush"}, NEW ap, NEW f, NEW k, NEW m
    PROVE  CopyFits(ap, f, p, k, m)
BY DEF CopyFits

\* A copy of the same file still covers it when more has been delivered.
LEMMA CopyStays ==
    ASSUME NEW ap, NEW ap2, Delivered(ap) \subseteq Delivered(ap2),
           NEW f, NEW f2, Reqs(f2) = Reqs(f), NEW p, NEW k, NEW m, CopyFits(ap, f, p, k, m)
    PROVE  CopyFits(ap2, f2, p, k, m)
BY DEF CopyFits

\* Whoever is not in the middle of a load and a save.
LEMMA Bystanders ==
    ASSUME QueueOK, NEW t \in Thread, NEW u \in Thread \ {t}, u \notin StaleBut(t)
    PROVE  pc[u] \in {"idle", "wipe"}
BY DEF QueueOK, States, StaleBut, InRMW

LEMMA InitSafe == Init => Safe
BY NoItems, CopyOutside DEF Init, Safe, NothingLost, CopiesFit, Elems

\* A step of one thread that leaves the file and the other threads alone.
LEMMA SafeLocal ==
    ASSUME NothingLost, CopiesFit, UNCHANGED <<file, accepted, wiped>>,
           Delivered(applied) \subseteq Delivered(applied'),
           NEW t \in Thread, pc[t] \notin Writing,
           t \notin stale' => CopyFits(applied', file, pc'[t], kept'[t], mem'[t]),
           \A u \in Thread \ {t} : /\ pc'[u] = pc[u] /\ kept'[u] = kept[u]
                                   /\ mem'[u] = mem[u] /\ (u \in stale => u \in stale')
    PROVE  NothingLost' /\ CopiesFit'
<1>1. NothingLost'
    <2>1. ASSUME NEW r, HeldIn(file, pc, kept, r)
          PROVE  HeldIn(file', pc', kept', r)
        BY <2>1 DEF HeldIn
    <2> QED BY <2>1 DEF NothingLost
<1>2. ASSUME NEW u \in Thread \ stale'
      PROVE  CopyFits(applied', file', pc'[u], kept'[u], mem'[u])
    <2>1. CASE u = t
        BY <2>1, <1>2
    <2>2. CASE u # t
        BY <2>2, <1>2, CopyStays DEF CopiesFit
    <2> QED BY <2>1, <2>2
<1> QED BY <1>1, <1>2 DEF CopiesFit

\* Nothing to do with the queue.
LEMMA SafeQuiet ==
    ASSUME Safe, UNCHANGED <<file, mem, kept, accepted, wiped, stale, faults>>,
           Delivered(applied) \subseteq Delivered(applied'),
           \A t \in Thread : pc'[t] = pc[t] \/ (pc[t] = "idle" /\ pc'[t] = "wipe")
    PROVE  Safe'
<1> SUFFICES ASSUME ~LossFault
             PROVE  NothingLost' /\ CopiesFit'
    BY DEF Safe, LossFault
<1>1. NothingLost /\ CopiesFit
    BY DEF Safe
<1>2. NothingLost'
    <2>1. ASSUME NEW r, HeldIn(file, pc, kept, r)
          PROVE  HeldIn(file', pc', kept', r)
        BY <2>1 DEF HeldIn, Writing
    <2> QED BY <1>1, <2>1 DEF NothingLost
<1>3. ASSUME NEW u \in Thread \ stale
      PROVE  CopyFits(applied', file', pc'[u], kept'[u], mem'[u])
    <2>1. CASE pc'[u] = pc[u]
        BY <1>1, <2>1, CopyStays DEF CopiesFit
    <2>2. CASE pc'[u] = "wipe"
        BY <2>2, CopyOutside
    <2> QED BY <2>1, <2>2
<1> QED BY <1>2, <1>3 DEF CopiesFit

LEMMA SafeReport ==
    ASSUME TypeOK, Safe, NEW t \in Thread, NEW r \in Request, Report(t, r)
    PROVE  Safe'
<1>t. QueueOK /\ HistoryOK
    BY TypeParts
<1>1. CASE ReportDelivered(t, r) \/ ReportDropped(t, r) \/ ReportUnlinked(t, r)
    <2>1. /\ UNCHANGED <<file, mem, kept, accepted, wiped, stale, faults>>
          /\ Sent(r)
          /\ pc' = pc \/ (pc[t] = "idle" /\ pc' = [pc EXCEPT ![t] = "wipe"])
        BY <1>1, CallSends DEF ReportDelivered, ReportDropped, ReportUnlinked, Produce, queueVars
    <2>2. \A u \in Thread : pc'[u] = pc[u] \/ (pc[u] = "idle" /\ pc'[u] = "wipe")
        BY <1>t, <2>1 DEF QueueOK
    <2>3. Delivered(applied) \subseteq Delivered(applied')
        BY <1>t, <2>1, SentGrows DEF HistoryOK
    <2> QED BY <2>1, <2>2, <2>3, SafeQuiet
<1>2. CASE ReportQueued(t, r)
    <2>l. CASE "failed_load" \in faults'
        BY <2>l DEF Safe, LossFault
    <2> SUFFICES ASSUME "failed_load" \notin faults'
                 PROVE  Safe'
        BY <2>l
    <2>q. kept' = [kept EXCEPT ![t] = Append(file, Fresh(r))] /\ faults' = faults
        BY <1>2, <1>t, EnqueueStep DEF ReportQueued
    <2>1. /\ pc[t] = "idle" /\ pc' = [pc EXCEPT ![t] = "append"]
          /\ file' = file /\ mem' = mem /\ accepted' = Append(accepted, r)
          /\ stale' = stale \ {t} /\ wiped' = wiped
        BY <1>2 DEF ReportQueued, Enqueue, Produce
    <2>2. /\ pc'[t] = "append" /\ kept'[t] = Append(file, Fresh(r))
          /\ \A u \in Thread \ {t} : /\ pc'[u] = pc[u] /\ kept'[u] = kept[u]
                                     /\ mem'[u] = mem[u]
        BY <1>t, <2>1, <2>q DEF QueueOK
    <2>3. Reqs(kept'[t]) = Reqs(file) \cup {r}
        BY <1>t, <2>2, FreshIsItem, AppendItems DEF QueueOK, Fresh
    <2>4. Elems(accepted') = Elems(accepted) \cup {r}
        <3>1. /\ DOMAIN accepted = 1..Len(accepted) /\ Len(accepted) \in Nat
              /\ DOMAIN accepted' = 1..Len(accepted) + 1
            BY <1>t, <2>1, LenProperties, AppendProperties DEF HistoryOK
        <3>2. /\ \A i \in DOMAIN accepted : accepted'[i] = accepted[i]
              /\ accepted'[Len(accepted) + 1] = r
            BY <1>t, <2>1, <3>1, AppendProperties DEF HistoryOK
        <3> QED BY <3>1, <3>2 DEF Elems
    <2>5. Delivered(applied) \subseteq Delivered(applied')
        BY <1>2, <1>t, CallSends, SentGrows DEF ReportQueued, HistoryOK
    <2> SUFFICES ASSUME NothingLost, CopiesFit
                 PROVE  NothingLost' /\ CopiesFit'
        BY <2>q DEF Safe, LossFault
    <2>6. ASSUME NEW s \in Elems(accepted')
          PROVE  s \in Delivered(applied') \cup wiped' \/ HeldIn(file', pc', kept', s)
        <3>1. CASE s = r
            BY <3>1, <2>2, <2>3 DEF HeldIn, Writing
        <3>2. CASE s \in Elems(accepted) /\ HeldIn(file, pc, kept, s)
            BY <3>2, <2>1, <2>2 DEF HeldIn, Writing
        <3>3. CASE s \in Elems(accepted) /\ s \in Delivered(applied) \cup wiped
            BY <3>3, <2>1, <2>5
        <3> QED BY <2>4, <2>6, <3>1, <3>2, <3>3 DEF NothingLost
    <2>7. ASSUME NEW u \in Thread \ stale'
          PROVE  CopyFits(applied', file', pc'[u], kept'[u], mem'[u])
        <3>1. CASE u = t
            BY <3>1, <2>1, <2>2, <2>3 DEF CopyFits
        <3>2. CASE u # t
            BY <3>2, <2>1, <2>2, <2>5, <2>7, CopyStays DEF CopiesFit
        <3> QED BY <3>1, <3>2
    <2> QED BY <2>6, <2>7 DEF NothingLost, CopiesFit
<1> QED BY <1>1, <1>2 DEF Report

\* An entry leaves the list of the pass for the backend or for what is kept.
LEMMA PassEntry ==
    ASSUME TypeOK, FlushSkip \/ FlushDelivered \/ FlushFailed
    PROVE  /\ Reqs(mem[Flusher]) = Reqs(mem'[Flusher]) \cup {Head(mem[Flusher]).req}
           /\ Delivered(applied) \subseteq Delivered(applied')
           /\ Reqs(kept[Flusher]) \subseteq Reqs(kept'[Flusher])
           /\ Head(mem[Flusher]).req \in Delivered(applied') \cup Reqs(kept'[Flusher])
           /\ \A u \in Thread \ {Flusher} : kept'[u] = kept[u] /\ mem'[u] = mem[u]
<1>t. QueueOK /\ HistoryOK /\ Flusher \in Thread
    BY TypeParts, ThreadAssumption
<1> DEFINE x == Head(mem[Flusher])
<1>1. /\ mem'[Flusher] = Tail(mem[Flusher])
      /\ mem[Flusher] \in Seq(Item) /\ mem[Flusher] # <<>> /\ x \in Item
      /\ kept[Flusher] \in Seq(Item)
      /\ \A u \in Thread \ {Flusher} : mem'[u] = mem[u]
    BY <1>t, PassStep DEF FlushSkip, FlushDelivered, FlushFailed
<1>2. Reqs(mem[Flusher]) = Reqs(mem'[Flusher]) \cup {x.req} /\ x.req \in Request
    BY <1>1, TailItems DEF Item
<1>3. CASE FlushDelivered
    <2>1. Acknowledges(x.req) /\ kept' = kept
        BY <1>3 DEF FlushDelivered
    <2> QED BY <1>t, <1>1, <1>2, <2>1, CallSends, SentGrows, AcknowledgedDelivers DEF HistoryOK
<1>4. ASSUME NEW y \in Item, y.req = x.req, Keep(y),
             Delivered(applied) \subseteq Delivered(applied')
      PROVE  /\ Reqs(kept'[Flusher]) = Reqs(kept[Flusher]) \cup {x.req}
             /\ \A u \in Thread \ {Flusher} : kept'[u] = kept[u]
    <2>1. /\ kept'[Flusher] = Append(kept[Flusher], y)
          /\ \A u \in Thread \ {Flusher} : kept'[u] = kept[u]
        BY <1>t, <1>4, KeepStep
    <2> QED BY <1>1, <1>4, <2>1, AppendItems
<1>5. CASE FlushSkip
    <2>1. Keep(x) /\ applied' = applied
        BY <1>5 DEF FlushSkip, historyVars
    <2> QED BY <1>1, <1>2, <1>4, <2>1
<1>6. CASE FlushFailed
    <2>1. Keep(Failed(x)) /\ Sent(x.req)
        BY <1>6, CallSends DEF FlushFailed
    <2>2. Delivered(applied) \subseteq Delivered(applied')
        BY <1>t, <1>2, <2>1, SentGrows DEF HistoryOK
    <2>3. Failed(x) \in Item /\ Failed(x).req = x.req
        BY <1>1, FailedIsItem
    <2> QED BY <1>1, <1>2, <1>4, <2>1, <2>2, <2>3
<1> QED BY <1>3, <1>5, <1>6

LEMMA SafeFlush ==
    ASSUME TypeOK, Safe, Flush
    PROVE  Safe'
<1>t. QueueOK /\ HistoryOK /\ Flusher \in Thread
    BY TypeParts, ThreadAssumption
<1> DEFINE x == Head(mem[Flusher])
<1>r. faults' = faults /\ UNCHANGED <<file, accepted, wiped>>
    BY DEF Flush, FlushStart, FlushSkip, FlushDelivered, FlushFailed, FlushUnlinked, historyVars
<1> SUFFICES ASSUME NothingLost, CopiesFit
             PROVE  NothingLost' /\ CopiesFit'
    BY <1>r DEF Safe, LossFault
<1>k. Flusher \notin stale => CopyFits(applied, file, pc[Flusher], kept[Flusher], mem[Flusher])
    BY <1>t DEF CopiesFit
<1>1. CASE FlushStart
    <2>1. /\ pc[Flusher] = "idle"
          /\ pc'[Flusher] = "flush" /\ mem'[Flusher] = file /\ kept'[Flusher] = <<>>
          /\ \A u \in Thread \ {Flusher} : /\ pc'[u] = pc[u] /\ kept'[u] = kept[u]
                                           /\ mem'[u] = mem[u]
          /\ stale' = stale \ {Flusher} /\ applied' = applied
        BY <1>1, <1>t DEF FlushStart, QueueOK
    <2>2. CopyFits(applied', file, pc'[Flusher], kept'[Flusher], mem'[Flusher])
        BY <2>1 DEF CopyFits
    <2> QED BY <1>t, <1>r, <2>1, <2>2, SafeLocal DEF Writing
<1>2. CASE FlushSkip \/ FlushDelivered \/ FlushFailed
    <2>1. pc[Flusher] = "flush" /\ UNCHANGED <<pc, stale>>
        BY <1>2 DEF FlushSkip, FlushDelivered, FlushFailed, FlushNext, historyVars
    <2>2. /\ Reqs(mem[Flusher]) = Reqs(mem'[Flusher]) \cup {x.req}
          /\ Delivered(applied) \subseteq Delivered(applied')
          /\ Reqs(kept[Flusher]) \subseteq Reqs(kept'[Flusher])
          /\ x.req \in Delivered(applied') \cup Reqs(kept'[Flusher])
          /\ \A u \in Thread \ {Flusher} : kept'[u] = kept[u] /\ mem'[u] = mem[u]
        BY <1>2, PassEntry
    <2> HIDE DEF x
    <2>3. Flusher \notin stale' => CopyFits(applied', file, pc'[Flusher], kept'[Flusher], mem'[Flusher])
        BY <1>k, <2>1, <2>2 DEF CopyFits
    <2> QED BY <1>t, <1>r, <2>1, <2>2, <2>3, SafeLocal DEF Writing
<1>3. CASE FlushUnlinked
    <2>1. /\ pc[Flusher] = "flush" /\ mem' = [mem EXCEPT ![Flusher] = <<>>]
          /\ pc' = [pc EXCEPT ![Flusher] = "wipeInFlush"]
          /\ UNCHANGED <<kept, stale>>
        BY <1>3 DEF FlushUnlinked
    <2>2. /\ pc'[Flusher] = "wipeInFlush"
          /\ \A u \in Thread \ {Flusher} : pc'[u] = pc[u] /\ mem'[u] = mem[u]
        BY <1>t, <2>1 DEF QueueOK
    <2>d. Delivered(applied) \subseteq Delivered(applied')
        <3>1. mem[Flusher] \in Seq(Item) /\ mem[Flusher] # <<>>
            BY <1>3, <1>t DEF FlushUnlinked, QueueOK
        <3>2. x.req \in Request /\ Sent(x.req)
            BY <1>3, <3>1, TailItems, CallSends DEF FlushUnlinked, Item
        <3> QED BY <1>t, <3>2, SentGrows DEF HistoryOK
    <2>3. CopyFits(applied', file, pc'[Flusher], kept'[Flusher], mem'[Flusher])
        BY <2>2, CopyOutside
    <2> QED BY <1>t, <1>r, <2>1, <2>2, <2>d, <2>3, SafeLocal DEF Writing
<1> QED BY <1>1, <1>2, <1>3 DEF Flush

LEMMA SafeTruncate ==
    ASSUME TypeOK, Safe, NEW t \in Thread, Truncate(t)
    PROVE  Safe'
<1>t. QueueOK
    BY TypeParts
<1>1. /\ file' = <<>> /\ UNCHANGED <<mem, kept, accepted, applied, wiped>>
      /\ pc' = [pc EXCEPT ![t] = IF pc[t] = "append" THEN "appendWrite" ELSE "flushWrite"]
      /\ pc[t] = "append" \/ (pc[t] = "flush" /\ mem[t] = <<>>)
      /\ stale' = StaleBut(t) /\ faults' = faults \cup StaleSave(t)
    BY Zenon DEF Truncate, Saving, Unreadable
<1>2. /\ pc'[t] \in {"appendWrite", "flushWrite"}
      /\ \A u \in Thread \ {t} : pc'[u] = pc[u]
    BY <1>t, <1>1 DEF QueueOK
<1> SUFFICES ASSUME ~LossFault'
             PROVE  NothingLost' /\ CopiesFit'
    BY DEF Safe
<1>3. ~LossFault /\ t \notin stale
    BY <1>1 DEF LossFault, StaleSave
<1>4. NothingLost /\ CopiesFit
    BY <1>3 DEF Safe
<1>5. Reqs(file) \subseteq Delivered(applied) \cup Reqs(kept[t])
    BY <1>1, <1>3, <1>4, NoItems DEF CopiesFit, CopyFits
<1>6. ASSUME NEW r \in Elems(accepted), r \notin Delivered(applied) \cup wiped
      PROVE  HeldIn(file', pc', kept', r)
    <2>1. HeldIn(file, pc, kept, r)
        BY <1>4, <1>6 DEF NothingLost
    <2>2. CASE r \in Reqs(file)
        BY <1>1, <1>2, <1>5, <1>6, <2>2 DEF HeldIn, Writing
    <2>3. ASSUME NEW u \in Thread, pc[u] \in Writing, r \in Reqs(kept[u])
          PROVE  HeldIn(file', pc', kept', r)
        BY <1>1, <1>2, <2>3 DEF HeldIn, Writing
    <2> QED BY <2>1, <2>2, <2>3 DEF HeldIn
<1>7. ASSUME NEW u \in Thread \ stale'
      PROVE  CopyFits(applied', file', pc'[u], kept'[u], mem'[u])
    <2>1. CASE u = t
        BY <1>1, <1>2, <2>1, NoItems DEF CopyFits
    <2>2. CASE u # t
        BY <1>t, <1>1, <1>2, <1>7, <2>2, Bystanders, CopyOutside
    <2> QED BY <2>1, <2>2
<1> QED BY <1>1, <1>6, <1>7 DEF NothingLost, CopiesFit

LEMMA SafeWrite ==
    ASSUME TypeOK, Safe, NEW t \in Thread, Write(t)
    PROVE  Safe'
<1>t. QueueOK /\ kept[t] \in Seq(Item) /\ elapsed[t] \in Nat
    BY TypeParts DEF QueueOK
<1>1. /\ pc[t] \in {"appendWrite", "flushWrite"}
      /\ t \notin stale => file' = Later(kept[t], elapsed[t])
      /\ pc' = [pc EXCEPT ![t] = "idle"] /\ kept' = [kept EXCEPT ![t] = <<>>]
      /\ UNCHANGED <<mem, accepted, applied, wiped>>
      /\ stale' = StaleBut(t) \ {t} /\ faults' = faults \cup StaleSave(t)
    BY Zenon DEF Write
<1>2. /\ pc'[t] = "idle"
      /\ \A u \in Thread \ {t} : pc'[u] = pc[u] /\ kept'[u] = kept[u]
    BY <1>t, <1>1 DEF QueueOK
<1> SUFFICES ASSUME ~LossFault'
             PROVE  NothingLost' /\ CopiesFit'
    BY DEF Safe
<1>3. ~LossFault /\ t \notin stale
    BY <1>1 DEF LossFault, StaleSave
<1>4. NothingLost /\ CopiesFit
    BY <1>3 DEF Safe
<1>5. Reqs(file) = {} /\ Reqs(file') = Reqs(kept[t])
    <2>1. Reqs(file) = {}
        BY <1>1, <1>3, <1>4 DEF CopiesFit, CopyFits
    <2>2. Reqs(Later(kept[t], elapsed[t])) = Reqs(kept[t])
        BY <1>t, LaterReqs
    <2> QED BY <1>1, <1>3, <2>1, <2>2
<1>6. ASSUME NEW r \in Elems(accepted), r \notin Delivered(applied) \cup wiped
      PROVE  HeldIn(file', pc', kept', r)
    <2>1. PICK u \in Thread : pc[u] \in Writing /\ r \in Reqs(kept[u])
        BY <1>4, <1>5, <1>6 DEF NothingLost, HeldIn
    <2>2. CASE u = t
        BY <1>5, <2>1, <2>2 DEF HeldIn
    <2>3. CASE u # t
        BY <1>2, <2>1, <2>3 DEF HeldIn
    <2> QED BY <2>2, <2>3
<1>7. ASSUME NEW u \in Thread \ stale'
      PROVE  CopyFits(applied', file', pc'[u], kept'[u], mem'[u])
    <2>1. CASE u = t
        BY <1>2, <2>1, CopyOutside
    <2>2. CASE u # t
        BY <1>t, <1>1, <1>2, <1>7, <2>2, Bystanders, CopyOutside
    <2> QED BY <2>1, <2>2
<1> QED BY <1>1, <1>6, <1>7 DEF NothingLost, CopiesFit

LEMMA SafeWipe ==
    ASSUME TypeOK, Safe, NEW t \in Thread, Wipe(t)
    PROVE  Safe'
<1>t. QueueOK
    BY TypeParts
<1>1. /\ file' = <<>> /\ wiped' = wiped \cup Reqs(file)
      /\ UNCHANGED <<mem, kept, accepted, applied, faults>> /\ stale' = StaleBut(t)
      /\ pc[t] \in {"wipe", "wipeInFlush"}
      /\ \A u \in Thread \ {t} : pc'[u] = pc[u]
      /\ pc'[t] \in {"idle", "flush"}
    BY <1>t DEF Wipe, QueueOK
<1> SUFFICES ASSUME NothingLost, CopiesFit
             PROVE  NothingLost' /\ CopiesFit'
    BY <1>1 DEF Safe, LossFault
<1>2. ASSUME NEW r \in Elems(accepted), r \notin Delivered(applied) \cup wiped'
      PROVE  HeldIn(file', pc', kept', r)
    <2>1. PICK u \in Thread : pc[u] \in Writing /\ r \in Reqs(kept[u])
        BY <1>1, <1>2 DEF NothingLost, HeldIn
    <2> QED BY <1>1, <2>1 DEF HeldIn, Writing
<1>3. ASSUME NEW u \in Thread \ stale'
      PROVE  CopyFits(applied', file', pc'[u], kept'[u], mem'[u])
    <2>1. CASE u = t
        BY <1>1, <2>1, NoItems DEF CopyFits
    <2>2. CASE u # t
        BY <1>t, <1>1, <1>3, <2>2, Bystanders, CopyOutside
    <2> QED BY <2>1, <2>2
<1> QED BY <1>1, <1>2, <1>3 DEF NothingLost, CopiesFit

LEMMA SafeSaveFails ==
    ASSUME TypeOK, Safe, NEW t \in Thread, SaveFails(t)
    PROVE  Safe'
<1>t. QueueOK
    BY TypeParts
<1>1. /\ UNCHANGED <<file, mem, accepted, applied, wiped>> /\ stale' = stale \ {t}
      /\ pc[t] = "append" \/ pc[t] = "flush"
      /\ faults' = faults \cup {IF pc[t] = "append" THEN "unsaved_append" ELSE "unsaved_flush"}
      /\ pc' = [pc EXCEPT ![t] = "idle"] /\ kept' = [kept EXCEPT ![t] = <<>>]
    BY Zenon DEF SaveFails, Saving
<1>2. /\ pc'[t] = "idle"
      /\ \A u \in Thread \ {t} : /\ pc'[u] = pc[u] /\ kept'[u] = kept[u]
                                 /\ mem'[u] = mem[u] /\ (u \in stale => u \in stale')
    BY <1>t, <1>1 DEF QueueOK
<1> SUFFICES ASSUME ~LossFault'
             PROVE  NothingLost' /\ CopiesFit'
    BY DEF Safe
<1>3. ~LossFault /\ pc[t] = "flush"
    BY <1>1 DEF LossFault
<1>4. NothingLost /\ CopiesFit
    BY <1>3 DEF Safe
<1>5. CopyFits(applied', file, pc'[t], kept'[t], mem'[t])
    BY <1>2, CopyOutside
<1> QED BY <1>1, <1>2, <1>3, <1>4, <1>5, SafeLocal DEF Writing

LEMMA SafeCrash ==
    ASSUME TypeOK, Safe, NEW p \in Process, Crash(p)
    PROVE  Safe'
<1> DEFINE dead == {t \in Thread : ProcessOf[t] = p}
<1>1. /\ UNCHANGED <<file, accepted, applied, wiped>> /\ stale' = stale \ dead
      /\ \A t \in dead : pc'[t] = "idle"
      /\ \A t \in Thread \ dead : pc'[t] = pc[t] /\ kept'[t] = kept[t] /\ mem'[t] = mem[t]
    BY CrashStep
<1>2. faults \subseteq faults' /\ (~LossFault' => \A t \in dead : pc[t] \notin Writing)
    <2> DEFINE Among(states) == \E t \in dead : pc[t] \in states
    <2>1. faults' = faults
             \cup (IF Among({"append"}) THEN {"unsaved_append"} ELSE {})
             \cup (IF Among({"appendWrite", "flushWrite"}) THEN {"torn_save"} ELSE {})
             \cup (IF Among({"flush", "wipeInFlush"}) THEN {"unsaved_flush"} ELSE {})
        BY Zenon DEF Crash
    <2>2. /\ Among({"append"}) => "unsaved_append" \in faults'
          /\ Among({"appendWrite", "flushWrite"}) => "torn_save" \in faults'
        <3> HIDE DEF Among
        <3> QED BY <2>1
    <2> QED BY <2>1, <2>2 DEF LossFault, Writing
<1> SUFFICES ASSUME ~LossFault'
             PROVE  NothingLost' /\ CopiesFit'
    BY DEF Safe
<1>3. ~LossFault /\ \A t \in dead : pc[t] \notin Writing
    BY <1>2 DEF LossFault
<1>4. NothingLost /\ CopiesFit
    BY <1>3 DEF Safe
<1> HIDE DEF dead
<1>5. ASSUME NEW r, HeldIn(file, pc, kept, r)
      PROVE  HeldIn(file', pc', kept', r)
    BY <1>1, <1>3, <1>5 DEF HeldIn
<1>6. ASSUME NEW u \in Thread \ stale'
      PROVE  CopyFits(applied', file', pc'[u], kept'[u], mem'[u])
    <2>1. CASE u \in dead
        BY <1>1, <2>1, CopyOutside
    <2>2. CASE u \notin dead
        BY <1>1, <1>4, <1>6, <2>2 DEF CopiesFit
    <2> QED BY <2>1, <2>2
<1> QED BY <1>1, <1>4, <1>5, <1>6 DEF NothingLost, CopiesFit

LEMMA StepSafe == TypeOK /\ Safe /\ [Next]_vars => Safe'
<1> SUFFICES ASSUME TypeOK, Safe, [Next]_vars
             PROVE  Safe'
    OBVIOUS
<1>t. QueueOK
    BY TypeParts
<1>1. CASE UNCHANGED <<file, pc, mem, kept, accepted, applied, wiped, stale, faults>>
    BY <1>1, SafeQuiet
<1>2. ASSUME NEW p \in Process, Enroll(p) \/ LicenseChange(p)
      PROVE  Safe'
    BY <1>2, <1>1 DEF Enroll, LicenseChange, queueVars, historyVars
<1>3. CASE ServerChange \/ UNCHANGED vars
    BY <1>3, <1>1 DEF ServerChange, vars, queueVars, historyVars
<1>4. ASSUME NEW t \in Thread, Unlink(t)
      PROVE  Safe'
    <2>1. /\ UNCHANGED <<file, mem, kept, accepted, applied, wiped, stale, faults>>
          /\ \A u \in Thread : pc'[u] = pc[u] \/ (pc[u] = "idle" /\ pc'[u] = "wipe")
        BY <1>t, <1>4 DEF Unlink, QueueOK, historyVars
    <2> QED BY <2>1, SafeQuiet
<1>5. CASE Tick
    <2>1. file' = Later(file, 1)
          /\ UNCHANGED <<pc, mem, kept, accepted, applied, wiped, stale, faults>>
        BY <1>5 DEF Tick, historyVars
    <2>2. Reqs(file') = Reqs(file)
        BY <1>t, <2>1, LaterReqs DEF QueueOK
    <2>3. CopiesFit => CopiesFit'
        BY <2>1, <2>2, CopyStays DEF CopiesFit
    <2>4. NothingLost => NothingLost'
        BY <2>1, <2>2 DEF NothingLost, HeldIn
    <2> QED BY <2>1, <2>3, <2>4 DEF Safe, LossFault
<1> QED BY <1>2, <1>3, <1>4, <1>5, SafeReport, SafeFlush, SafeTruncate, SafeWrite,
           SafeSaveFails, SafeWipe, SafeCrash DEF Next, Save

\* A request _enqueue_offline took is delivered, held or wiped by an unlink
\* unless two uses of the file overlapped, a death tore a write, or an append
\* was never written: whatever number of threads share the file.
THEOREM NothingIsLostSilently == Spec => []NoSilentLoss
<1>1. Safe => NoSilentLoss
    BY DEF Safe, NothingLost, HeldIn, NoSilentLoss, Held, Taken, Elems, Delivered, Writing
<1> QED BY InitType, StepType, InitSafe, StepSafe, <1>1, PTL DEF Spec

-----------------------------------------------------------------------------
(* Who flushes, and what has never been sent                               *)

PassStates == {"flush", "flushWrite", "wipeInFlush"}
OnlyFlusher == \A t \in Thread \ {Flusher} : pc[t] \notin PassStates
Unsent == \A r \in Request \ used : applied[r] = 0

LEMMA InitOnlyFlusher == Init => OnlyFlusher
BY DEF Init, OnlyFlusher, PassStates

LEMMA StepOnlyFlusher == TypeOK /\ OnlyFlusher /\ [Next]_vars => OnlyFlusher'
<1> SUFFICES ASSUME TypeOK, OnlyFlusher, [Next]_vars
             PROVE  OnlyFlusher'
    OBVIOUS
<1>t. pc \in [Thread -> States]
    BY DEF TypeOK
<1> USE DEF OnlyFlusher, PassStates
<1>1. CASE pc' = pc
    BY <1>1
<1>2. ASSUME NEW t \in Thread, NEW r \in Request, Report(t, r)
      PROVE  OnlyFlusher'
    <2>1. pc' = pc \/ pc' = [pc EXCEPT ![t] = "wipe"] \/ pc' = [pc EXCEPT ![t] = "append"]
        BY <1>2 DEF Report, ReportDelivered, ReportDropped, ReportQueued, ReportUnlinked,
                    Enqueue, queueVars
    <2> QED BY <1>t, <2>1
<1>3. ASSUME NEW t \in Thread, Truncate(t)
      PROVE  OnlyFlusher'
    BY <1>t, <1>3 DEF Truncate, Saving
<1>4. ASSUME NEW t \in Thread, Write(t) \/ SaveFails(t) \/ Wipe(t) \/ Unlink(t)
      PROVE  OnlyFlusher'
    <2>1. CASE Wipe(t)
        BY <1>t, <2>1 DEF Wipe
    <2>2. CASE ~Wipe(t)
        <3>1. pc' = [pc EXCEPT ![t] = "idle"] \/ pc' = [pc EXCEPT ![t] = "wipe"]
            BY <1>4, <2>2 DEF Write, SaveFails, Unlink
        <3> QED BY <1>t, <3>1
    <2> QED BY <2>1, <2>2
<1>5. CASE Flush
    <2>1. \A u \in Thread \ {Flusher} : pc'[u] = pc[u]
        BY <1>t, <1>5 DEF Flush, FlushStart, FlushSkip, FlushDelivered, FlushFailed, FlushUnlinked
    <2> QED BY <2>1
<1>6. ASSUME NEW p \in Process, Crash(p)
      PROVE  OnlyFlusher'
    BY <1>6, CrashStep
<1> QED BY <1>1, <1>2, <1>3, <1>4, <1>5, <1>6
        DEF Next, Save, Enroll, LicenseChange, ServerChange, Tick, vars, queueVars

LEMMA InitUnsent == Init => Unsent
BY DEF Init, Unsent

LEMMA StepUnsent == TypeOK /\ Order /\ Unsent /\ [Next]_vars => Unsent'
<1> SUFFICES ASSUME TypeOK, Order, Unsent, [Next]_vars
             PROVE  Unsent'
    OBVIOUS
<1>t. QueueOK /\ HistoryOK /\ applied \in [Request -> 0..2] /\ Flusher \in Thread
    BY TypeParts, ThreadAssumption DEF HistoryOK
<1>1. CASE applied' = applied /\ used' = used
    BY <1>1 DEF Unsent
<1>2. ASSUME NEW r \in Request, r \in used', used \subseteq used',
             Sent(r)
      PROVE  Unsent'
    BY <1>t, <1>2, SentElsewhere DEF Unsent
<1>3. ASSUME NEW t \in Thread, NEW r \in Request, Report(t, r)
      PROVE  Unsent'
    <2>1. used' = used \cup {r} /\ Sent(r)
        BY <1>3, CallSends DEF Report, ReportDelivered, ReportDropped, ReportQueued,
                               ReportUnlinked, Produce
    <2> QED BY <1>2, <2>1
<1>4. CASE Flush
    <2>1. CASE FlushStart \/ FlushSkip
        BY <1>1, <2>1 DEF FlushStart, FlushSkip, historyVars
    <2>2. CASE FlushDelivered \/ FlushFailed \/ FlushUnlinked
        <3> DEFINE r == Head(mem[Flusher]).req
        <3>1. used' = used /\ Sent(r) /\ mem[Flusher] # <<>> /\ pc[Flusher] = "flush"
            BY <2>2, CallSends DEF FlushDelivered, FlushFailed, FlushUnlinked, FlushNext
        <3>2. r \in used /\ r \in Request
            <4>1. mem[Flusher] # <<>> /\ mem[Flusher] \in Seq(Item) /\ pc[Flusher] = "flush"
                BY <1>t, <3>1 DEF QueueOK
            <4>2. r \in Reqs(mem[Flusher])
                BY <4>1, TailItems
            <4>3. Reqs(mem[Flusher]) \subseteq Elems(accepted)
                BY <1>t, <4>1 DEF Order, ThreadFits, PassFits, Fits, Flushing
            <4> QED BY <1>t, <4>2, <4>3 DEF Order, Accounts, HistoryOK
        <3> QED BY <1>2, <3>1, <3>2
    <2> QED BY <1>4, <2>1, <2>2 DEF Flush
<1> QED BY <1>1, <1>3, <1>4
        DEF Next, Save, Truncate, Write, SaveFails, Wipe, Unlink, Enroll, LicenseChange,
            ServerChange, Tick, Crash, vars, historyVars

-----------------------------------------------------------------------------
(* No request is applied twice                                             *)

\* Applied, and every send of it that was applied was acknowledged: sending it
\* again is a duplicate.
Done(ap, uh) == {r \in Request : ap[r] > 0 /\ r \notin uh}
DupFault == faults \cap {"stale_save", "unsaved_flush", "torn_save"} # {}

\* What a pass still has to send or to save, it has not delivered.
PassClean(dn, p, k, m) == /\ p \in PassStates => Reqs(k) \cap dn = {}
                          /\ p \in Flushing => Reqs(m) \cap dn = {}

\* Outside a pass nothing delivered is in the file, nor in a copy of the file
\* that nobody has overtaken.
Appending == {"append", "appendWrite"}
FileClean(dn, f, where, k, old) ==
    where[Flusher] \notin Flushing =>
        /\ Reqs(f) \cap dn = {}
        /\ \A u \in Thread \ old : where[u] \in Appending => Reqs(k[u]) \cap dn = {}

Singly(ap, uh) == \A r \in Request : ap[r] = 2 => r \in uh

Clean == /\ Singly(applied, unheard)
         /\ PassClean(Done(applied, unheard), pc[Flusher], kept[Flusher], mem[Flusher])
         /\ FileClean(Done(applied, unheard), file, pc, kept, stale)
NoRedo == DupFault \/ Clean

LEMMA InitClean == Init => NoRedo
<1> SUFFICES ASSUME Init
             PROVE  Clean
    BY DEF NoRedo
<1>1. Done(applied, unheard) = {} /\ Singly(applied, unheard)
    BY DEF Init, Done, Singly
<1> QED BY <1>1 DEF Clean, PassClean, FileClean

\* An acknowledged call: r may now be done, and nothing else is.
LEMMA DoneGrows ==
    ASSUME applied \in [Request -> 0..2], NEW r \in Request, Acknowledges(r),
           Singly(applied, unheard), r \notin Done(applied, unheard)
    PROVE  /\ Done(applied', unheard') \subseteq Done(applied, unheard) \cup {r}
           /\ Singly(applied', unheard')
<1>1. \A s \in Request \ {r} : applied'[s] = applied[s]
    BY CallSends, SentElsewhere
<1>2. PICK n \in 0..1 : Applies(r, n + 1, n)
    BY DEF Acknowledges
<1>3. /\ unheard \subseteq unheard' /\ unheard' \subseteq unheard \cup {r}
      /\ r \in unheard' \/ applied'[r] = 1
    BY <1>2 DEF Done, Applies, Applied
<1> QED BY <1>1, <1>3 DEF Done, Singly

\* No acknowledgement: r may have been applied, and counts as unheard then.
LEMMA DoneUnacknowledged ==
    ASSUME applied \in [Request -> 0..2], NEW r \in Request, Unacknowledged(r),
           Singly(applied, unheard)
    PROVE  /\ Done(applied', unheard') \subseteq Done(applied, unheard)
           /\ Singly(applied', unheard')
           /\ applied[r] = 0 => r \notin Done(applied', unheard')
<1>1. \A s \in Request \ {r} : applied'[s] = applied[s]
    BY CallSends, SentElsewhere
<1>2. PICK n \in 0..2 : Applies(r, n, n)
    BY DEF Unacknowledged
<1>3. /\ unheard \subseteq unheard' /\ unheard' \subseteq unheard \cup {r}
      /\ r \in unheard' \/ applied'[r] = applied[r]
    BY <1>2 DEF Applies, Applied
<1> QED BY <1>1, <1>3 DEF Done, Singly

\* The queue stays as it is, and what is newly delivered is not in it.
LEMMA CleanQuiet ==
    ASSUME Order, NoRedo, Reqs(file') = Reqs(file),
           UNCHANGED <<mem, kept, accepted, stale, faults>>,
           Singly(applied, unheard) => Singly(applied', unheard'),
           Singly(applied, unheard) =>
              \A r \in Done(applied', unheard') \ Done(applied, unheard) : r \notin Elems(accepted),
           \A t \in Thread : pc'[t] = pc[t] \/ (pc[t] = "idle" /\ pc'[t] = "wipe")
    PROVE  NoRedo'
<1> SUFFICES ASSUME Clean
             PROVE  Clean'
    BY DEF NoRedo, DupFault
<1>f. Flusher \in Thread
    BY ThreadAssumption
<1> DEFINE dn == Done(applied, unheard)
           dn2 == Done(applied', unheard')
<1>1. \A r \in dn2 : r \in dn \/ r \notin Elems(accepted)
    BY DEF Clean
<1> HIDE DEF dn, dn2
<1>2. \A q : Reqs(q) \subseteq Elems(accepted) /\ Reqs(q) \cap dn = {} => Reqs(q) \cap dn2 = {}
    BY <1>1
<1>3. /\ Reqs(file) \subseteq Elems(accepted)
      /\ \A t \in Thread : /\ Reqs(kept[t]) \subseteq Elems(accepted)
                           /\ pc[t] \in Flushing => Reqs(mem[t]) \subseteq Elems(accepted)
    BY DEF Order, ThreadFits, PassFits, Fits
<1>c. /\ PassClean(dn, pc[Flusher], kept[Flusher], mem[Flusher])
      /\ FileClean(dn, file, pc, kept, stale) /\ Singly(applied', unheard')
    BY DEF Clean, dn
<1>4. PassClean(dn2, pc'[Flusher], kept'[Flusher], mem'[Flusher])
    BY <1>f, <1>2, <1>3, <1>c DEF PassClean, PassStates, Flushing
<1>5. FileClean(dn2, file', pc', kept', stale')
    <2>1. SUFFICES ASSUME pc'[Flusher] \notin Flushing
                   PROVE  /\ Reqs(file) \cap dn2 = {}
                          /\ \A u \in Thread \ stale : pc'[u] \in Appending => Reqs(kept[u]) \cap dn2 = {}
        BY DEF FileClean
    <2>2. pc[Flusher] \notin Flushing
        BY <1>f, <2>1 DEF Flushing
    <2>3. Reqs(file) \cap dn2 = {}
        BY <1>2, <1>3, <1>c, <2>2 DEF FileClean
    <2>4. ASSUME NEW u \in Thread \ stale, pc'[u] \in Appending
          PROVE  Reqs(kept[u]) \cap dn2 = {}
        <3>1. pc[u] \in Appending
            BY <2>4 DEF Appending
        <3> QED BY <1>2, <1>3, <1>c, <2>2, <3>1 DEF FileClean
    <2> QED BY <2>3, <2>4
<1> QED BY <1>c, <1>4, <1>5 DEF Clean, dn2

LEMMA CleanReport ==
    ASSUME TypeOK, Order, Unsent, NoRedo, NEW t \in Thread, NEW r \in Request, Report(t, r)
    PROVE  NoRedo'
<1>t. QueueOK /\ HistoryOK /\ applied \in [Request -> 0..2] /\ Flusher \in Thread
    BY TypeParts, ThreadAssumption DEF HistoryOK
<1>r. /\ pc[t] = "idle" /\ r \notin used /\ r \notin Elems(accepted) /\ applied[r] = 0
      /\ r \notin Done(applied, unheard)
    BY <1>t DEF Report, ReportDelivered, ReportDropped, ReportQueued, ReportUnlinked, Produce,
                Order, Accounts, Unsent, Done
<1>1. CASE ReportDelivered(t, r) \/ ReportDropped(t, r) \/ ReportUnlinked(t, r)
    <2>1. /\ UNCHANGED <<file, mem, kept, accepted, stale, faults>>
          /\ Acknowledges(r) \/ Unacknowledged(r)
          /\ pc' = pc \/ pc' = [pc EXCEPT ![t] = "wipe"]
        BY <1>1, CallSends DEF ReportDelivered, ReportDropped, ReportUnlinked, queueVars
    <2>2. \A u \in Thread : pc'[u] = pc[u] \/ (pc[u] = "idle" /\ pc'[u] = "wipe")
        BY <1>t, <1>r, <2>1 DEF QueueOK
    <2>3. Singly(applied, unheard) =>
             /\ Singly(applied', unheard')
             /\ Done(applied', unheard') \subseteq Done(applied, unheard) \cup {r}
        BY <1>t, <1>r, <2>1, DoneGrows, DoneUnacknowledged
    <2> QED BY <1>r, <2>1, <2>2, <2>3, CleanQuiet
<1>2. CASE ReportQueued(t, r)
    <2>q. PICK queue \in Seq(Item) :
             /\ Reqs(queue) \subseteq Reqs(file) /\ faults \subseteq faults'
             /\ kept' = [kept EXCEPT ![t] = Append(queue, Fresh(r))]
        BY <1>2, <1>t, EnqueueStep DEF ReportQueued
    <2>1. /\ pc' = [pc EXCEPT ![t] = "append"]
          /\ file' = file /\ mem' = mem
          /\ stale' = stale \ {t}
          /\ Unacknowledged(r)
        BY <1>2, CallSends DEF ReportQueued, Enqueue
    <2>2. /\ pc'[t] = "append" /\ kept'[t] = Append(queue, Fresh(r))
          /\ \A u \in Thread \ {t} : pc'[u] = pc[u] /\ kept'[u] = kept[u]
        BY <1>t, <2>1, <2>q DEF QueueOK
    <2>3. Reqs(kept'[t]) \subseteq Reqs(file) \cup {r}
        BY <2>2, <2>q, FreshIsItem, AppendItems DEF Fresh
    <2> SUFFICES ASSUME Clean
                 PROVE  Clean'
        BY <2>q DEF NoRedo, DupFault
    <2> DEFINE dn == Done(applied, unheard)
               dn2 == Done(applied', unheard')
    <2>4. dn2 \subseteq dn /\ r \notin dn2 /\ Singly(applied', unheard')
        BY <1>t, <1>r, <2>1, DoneUnacknowledged DEF Clean
    <2>c. /\ PassClean(dn, pc[Flusher], kept[Flusher], mem[Flusher])
          /\ FileClean(dn, file, pc, kept, stale)
        BY DEF Clean
    <2> HIDE DEF dn, dn2
    <2>5. PassClean(dn2, pc'[Flusher], kept'[Flusher], mem'[Flusher])
        <3>1. CASE Flusher = t
            BY <2>2, <3>1 DEF PassClean, PassStates, Flushing
        <3>2. CASE Flusher # t
            BY <1>t, <2>1, <2>2, <2>4, <2>c, <3>2 DEF PassClean
        <3> QED BY <3>1, <3>2
    <2>6. FileClean(dn2, file', pc', kept', stale')
        <3>1. SUFFICES ASSUME pc'[Flusher] \notin Flushing
                       PROVE  /\ Reqs(file) \cap dn2 = {}
                              /\ \A u \in Thread \ stale' : pc'[u] \in Appending => Reqs(kept'[u]) \cap dn2 = {}
            BY <2>1 DEF FileClean
        <3>2. pc[Flusher] \notin Flushing
            BY <1>t, <1>r, <2>2, <3>1 DEF Flushing
        <3>3. Reqs(file) \cap dn2 = {}
            BY <2>4, <2>c, <3>2 DEF FileClean
        <3>4. ASSUME NEW u \in Thread \ stale', pc'[u] \in Appending
              PROVE  Reqs(kept'[u]) \cap dn2 = {}
            <4>1. CASE u = t
                BY <2>3, <2>4, <3>3, <4>1
            <4>2. CASE u # t
                BY <2>1, <2>2, <2>4, <2>c, <3>2, <3>4, <4>2 DEF FileClean
            <4> QED BY <4>1, <4>2
        <3> QED BY <3>3, <3>4
    <2> QED BY <2>4, <2>5, <2>6 DEF Clean, dn2
<1> QED BY <1>1, <1>2 DEF Report

LEMMA CleanFlush ==
    ASSUME TypeOK, Order, NoRedo, Flush
    PROVE  NoRedo'
<1>t. /\ QueueOK /\ applied \in [Request -> 0..2] /\ Flusher \in Thread
      /\ accepted \in Seq(Request) /\ Once(accepted)
    BY TypeParts, ThreadAssumption DEF HistoryOK, Order, Accounts
<1> DEFINE x == Head(mem[Flusher])
           dn == Done(applied, unheard)
           dn2 == Done(applied', unheard')
<1>r. faults' = faults /\ file' = file
    BY DEF Flush, FlushStart, FlushSkip, FlushDelivered, FlushFailed, FlushUnlinked, historyVars
<1> SUFFICES ASSUME Clean
             PROVE  Clean'
    BY <1>r DEF NoRedo, DupFault
<1>c. /\ PassClean(dn, pc[Flusher], kept[Flusher], mem[Flusher])
      /\ FileClean(dn, file, pc, kept, stale) /\ Singly(applied, unheard)
    BY DEF Clean
<1>1. CASE FlushStart
    <2>1. /\ pc[Flusher] = "idle" /\ pc'[Flusher] = "flush"
          /\ mem'[Flusher] = file /\ kept'[Flusher] = <<>>
          /\ UNCHANGED <<applied, unheard>>
        BY <1>1, <1>t DEF FlushStart, QueueOK
    <2>2. Reqs(file) \cap dn = {} /\ Reqs(<<>>) = {}
        BY <1>c, <2>1, NoItems DEF FileClean, Flushing
    <2>3. PassClean(dn2, pc'[Flusher], kept'[Flusher], mem'[Flusher])
        BY <2>1, <2>2 DEF PassClean
    <2>4. FileClean(dn2, file', pc', kept', stale')
        BY <2>1 DEF FileClean, Flushing
    <2> QED BY <1>c, <2>1, <2>3, <2>4 DEF Clean
<1>2. CASE FlushNext /\ pc' = pc /\ Flush
    <2>1. /\ pc[Flusher] = "flush" /\ mem'[Flusher] = Tail(mem[Flusher])
          /\ mem[Flusher] \in Seq(Item) /\ mem[Flusher] # <<>> /\ x \in Item
          /\ kept[Flusher] \in Seq(Item)
        BY <1>2, <1>t, PassStep
    <2>2. Reqs(mem[Flusher]) = Reqs(mem'[Flusher]) \cup {x.req} /\ x.req \in Request
        BY <2>1, TailItems DEF Item
    <2>3. Reqs(mem[Flusher]) \cap dn = {} /\ Reqs(kept[Flusher]) \cap dn = {}
        BY <1>c, <2>1 DEF PassClean, PassStates, Flushing
    <2>4. x.req \notin Reqs(mem'[Flusher]) /\ x.req \notin Reqs(kept[Flusher])
        <3>1. PassFits(accepted, kept[Flusher], mem[Flusher])
            BY <1>t, <2>1 DEF Order, ThreadFits, Flushing
        <3>2. /\ x.req \in Elems(accepted) /\ x.req \in Reqs(mem[Flusher])
              /\ \A s \in Reqs(mem'[Flusher]) : At(accepted, x.req) < At(accepted, s)
            BY <1>t, <2>1, <3>1, PassDrops
        <3>3. At(accepted, x.req) \in Nat
            BY <1>t, <3>2, PositionType
        <3> QED BY <3>1, <3>2, <3>3 DEF PassFits, Precede
    <2>5. /\ Singly(applied', unheard')
          /\ Reqs(mem'[Flusher]) \cap dn2 = {} /\ Reqs(kept'[Flusher]) \cap dn2 = {}
        <3>1. CASE FlushSkip
            <4>1. Keep(x) /\ UNCHANGED <<applied, unheard>>
                BY <3>1 DEF FlushSkip, historyVars
            <4>2. Reqs(kept'[Flusher]) = Reqs(kept[Flusher]) \cup {x.req}
                <5>1. kept'[Flusher] = Append(kept[Flusher], x)
                    BY <1>t, <4>1, KeepStep
                <5> QED BY <2>1, <5>1, AppendItems
            <4> QED BY <1>c, <2>2, <2>3, <4>1, <4>2
        <3>2. CASE FlushDelivered
            <4>1. Acknowledges(x.req) /\ UNCHANGED kept
                BY <3>2 DEF FlushDelivered
            <4>2. dn2 \subseteq dn \cup {x.req} /\ Singly(applied', unheard')
                BY <1>t, <1>c, <2>2, <2>3, <4>1, DoneGrows
            <4> HIDE DEF x, dn, dn2
            <4> QED BY <2>2, <2>3, <2>4, <4>1, <4>2
        <3>3. CASE FlushFailed
            <4>1. /\ Keep(Failed(x))
                  /\ Unacknowledged(x.req)
                BY <3>3, CallSends DEF FlushFailed
            <4>2. Failed(x) \in Item /\ Failed(x).req = x.req
                BY <2>1, FailedIsItem
            <4>3. Reqs(kept'[Flusher]) = Reqs(kept[Flusher]) \cup {x.req}
                <5>1. kept'[Flusher] = Append(kept[Flusher], Failed(x))
                    BY <1>t, <4>1, KeepStep
                <5> QED BY <2>1, <4>2, <5>1, AppendItems
            <4>4. dn2 \subseteq dn /\ Singly(applied', unheard')
                BY <1>t, <1>c, <2>2, <4>1, DoneUnacknowledged
            <4> HIDE DEF x, dn, dn2
            <4> QED BY <2>2, <2>3, <4>3, <4>4
        <3>4. ~FlushStart /\ ~FlushUnlinked
            BY <1>2, <2>1, <1>t DEF FlushStart, FlushUnlinked, QueueOK
        <3> QED BY <1>2, <3>1, <3>2, <3>3, <3>4 DEF Flush
    <2>6. PassClean(dn2, pc'[Flusher], kept'[Flusher], mem'[Flusher])
        BY <2>5 DEF PassClean
    <2>7. FileClean(dn2, file', pc', kept', stale')
        BY <1>2, <2>1 DEF FileClean, Flushing
    <2> QED BY <2>5, <2>6, <2>7 DEF Clean
<1>3. CASE FlushUnlinked
    <2>1. /\ pc[Flusher] = "flush" /\ mem' = [mem EXCEPT ![Flusher] = <<>>]
          /\ pc' = [pc EXCEPT ![Flusher] = "wipeInFlush"]
          /\ kept' = kept
        BY <1>3 DEF FlushUnlinked
    <2>2. pc'[Flusher] = "wipeInFlush" /\ mem'[Flusher] = <<>>
        BY <1>t, <2>1 DEF QueueOK
    <2>d. dn2 \subseteq dn /\ Singly(applied', unheard')
        <3>1. mem[Flusher] \in Seq(Item) /\ mem[Flusher] # <<>>
            BY <1>3, <1>t DEF FlushUnlinked, QueueOK
        <3>2. x.req \in Request /\ Unacknowledged(x.req)
            BY <1>3, <3>1, TailItems, CallSends DEF FlushUnlinked, Item
        <3> QED BY <1>t, <1>c, <3>2, DoneUnacknowledged
    <2>3. PassClean(dn2, pc'[Flusher], kept'[Flusher], mem'[Flusher])
        <3> HIDE DEF dn, dn2
        <3> QED BY <1>c, <2>1, <2>2, <2>d, NoItems DEF PassClean, PassStates
    <2>4. FileClean(dn2, file', pc', kept', stale')
        BY <2>2 DEF FileClean, Flushing
    <2> QED BY <2>d, <2>3, <2>4 DEF Clean
<1> QED BY <1>1, <1>2, <1>3 DEF Flush, FlushSkip, FlushDelivered, FlushFailed

LEMMA CleanTruncate ==
    ASSUME TypeOK, OnlyFlusher, NoRedo, NEW t \in Thread, Truncate(t)
    PROVE  NoRedo'
<1>t. QueueOK /\ Flusher \in Thread
    BY TypeParts, ThreadAssumption
<1>1. /\ file' = <<>> /\ UNCHANGED <<mem, kept, applied, unheard>>
      /\ pc' = [pc EXCEPT ![t] = IF pc[t] = "append" THEN "appendWrite" ELSE "flushWrite"]
      /\ pc[t] = "append" \/ pc[t] = "flush"
      /\ stale' = StaleBut(t) /\ faults' = faults \cup StaleSave(t)
    BY Zenon DEF Truncate, Saving, Unreadable
<1>2. /\ pc[t] = "append" => pc'[t] = "appendWrite"
      /\ pc[t] = "flush" => pc'[t] = "flushWrite" /\ t = Flusher
      /\ \A u \in Thread \ {t} : pc'[u] = pc[u]
    BY <1>t, <1>1 DEF QueueOK, OnlyFlusher, PassStates
<1> SUFFICES ASSUME ~DupFault'
             PROVE  Clean'
    BY DEF NoRedo
<1>3. ~DupFault /\ t \notin stale
    BY <1>1 DEF DupFault, StaleSave
<1> DEFINE dn == Done(applied, unheard)
<1>c. /\ PassClean(dn, pc[Flusher], kept[Flusher], mem[Flusher])
      /\ FileClean(dn, file, pc, kept, stale) /\ Singly(applied, unheard)
    BY <1>3 DEF Clean, NoRedo
<1> HIDE DEF dn
<1>4. PassClean(dn, pc'[Flusher], kept[Flusher], mem[Flusher])
    <2>1. CASE t = Flusher
        BY <1>1, <1>2, <1>c, <2>1 DEF PassClean, PassStates, Flushing
    <2>2. CASE t # Flusher
        BY <1>t, <1>2, <1>c, <2>2
    <2> QED BY <2>1, <2>2
<1>5. FileClean(dn, file', pc', kept, stale')
    <2>1. SUFFICES ASSUME pc'[Flusher] \notin Flushing
                   PROVE  /\ Reqs(file') \cap dn = {}
                          /\ \A u \in Thread \ stale' : pc'[u] \in Appending => Reqs(kept[u]) \cap dn = {}
        BY DEF FileClean
    <2>2. ASSUME NEW u \in Thread \ stale', pc'[u] \in Appending
          PROVE  Reqs(kept[u]) \cap dn = {}
        <3>1. u = t
            <4>1. SUFFICES ASSUME u # t
                           PROVE  FALSE
                OBVIOUS
            <4>2. pc[u] \in {"idle", "wipe"}
                BY <1>t, <1>1, <2>2, <4>1, Bystanders
            <4> QED BY <1>2, <2>2, <4>1, <4>2 DEF Appending
        <3>2. pc[t] = "append"
            BY <1>1, <1>2, <2>2, <3>1 DEF Appending
        <3>3. pc[Flusher] \notin Flushing
            BY <1>t, <1>2, <2>1, <3>2 DEF Flushing
        <3> QED BY <1>3, <1>c, <3>1, <3>2, <3>3 DEF FileClean, Appending
    <2> QED BY <1>1, <2>2, NoItems
<1> QED BY <1>1, <1>4, <1>5, <1>c DEF Clean, dn

LEMMA CleanWrite ==
    ASSUME TypeOK, OnlyFlusher, NoRedo, NEW t \in Thread, Write(t)
    PROVE  NoRedo'
<1>t. QueueOK /\ Flusher \in Thread /\ kept[t] \in Seq(Item) /\ elapsed[t] \in Nat
    BY TypeParts, ThreadAssumption DEF QueueOK
<1>1. /\ pc[t] \in {"appendWrite", "flushWrite"}
      /\ t \notin stale => file' = Later(kept[t], elapsed[t])
      /\ pc' = [pc EXCEPT ![t] = "idle"] /\ kept' = [kept EXCEPT ![t] = <<>>]
      /\ UNCHANGED <<mem, applied, unheard>>
      /\ stale' = StaleBut(t) \ {t} /\ faults' = faults \cup StaleSave(t)
    BY Zenon DEF Write
<1>2. /\ pc'[t] = "idle"
      /\ \A u \in Thread \ {t} : pc'[u] = pc[u] /\ kept'[u] = kept[u]
      /\ pc[t] = "flushWrite" => t = Flusher
    BY <1>t, <1>1 DEF QueueOK, OnlyFlusher, PassStates
<1> SUFFICES ASSUME ~DupFault'
             PROVE  Clean'
    BY DEF NoRedo
<1>3. ~DupFault /\ t \notin stale
    BY <1>1 DEF DupFault, StaleSave
<1> DEFINE dn == Done(applied, unheard)
<1>c. /\ PassClean(dn, pc[Flusher], kept[Flusher], mem[Flusher])
      /\ FileClean(dn, file, pc, kept, stale) /\ Singly(applied, unheard)
    BY <1>3 DEF Clean, NoRedo
<1>5. Reqs(file') = Reqs(kept[t])
    BY <1>t, <1>1, <1>3, LaterReqs
<1> HIDE DEF dn
<1>4. PassClean(dn, pc'[Flusher], kept'[Flusher], mem[Flusher])
    <2>1. CASE t = Flusher
        BY <1>2, <2>1 DEF PassClean, PassStates, Flushing
    <2>2. CASE t # Flusher
        BY <1>t, <1>2, <1>c, <2>2
    <2> QED BY <2>1, <2>2
<1>6. FileClean(dn, file', pc', kept', stale')
    <2>1. SUFFICES ASSUME pc'[Flusher] \notin Flushing
                   PROVE  /\ Reqs(file') \cap dn = {}
                          /\ \A u \in Thread \ stale' : pc'[u] \notin Appending
        BY DEF FileClean
    <2>2. Reqs(kept[t]) \cap dn = {}
        <3>1. CASE pc[t] = "flushWrite"
            BY <1>2, <1>c, <3>1 DEF PassClean, PassStates
        <3>2. CASE pc[t] = "appendWrite"
            <4>1. pc[Flusher] \notin Flushing
                BY <1>t, <1>2, <2>1, <3>2 DEF Flushing
            <4> QED BY <1>3, <1>c, <3>2, <4>1 DEF FileClean, Appending
        <3> QED BY <1>1, <3>1, <3>2
    <2>3. ASSUME NEW u \in Thread \ stale'
          PROVE  pc'[u] \notin Appending
        <3>1. CASE u = t
            BY <1>2, <3>1 DEF Appending
        <3>2. CASE u # t
            <4>1. pc[u] \in {"idle", "wipe"}
                BY <1>t, <1>1, <2>3, <3>2, Bystanders
            <4> QED BY <1>2, <3>2, <4>1 DEF Appending
        <3> QED BY <3>1, <3>2
    <2> QED BY <1>5, <2>2, <2>3
<1> QED BY <1>1, <1>4, <1>6, <1>c DEF Clean, dn

LEMMA CleanWipe ==
    ASSUME TypeOK, OnlyFlusher, NoRedo, NEW t \in Thread, Wipe(t)
    PROVE  NoRedo'
<1>t. QueueOK /\ Flusher \in Thread
    BY TypeParts, ThreadAssumption
<1>1. /\ file' = <<>> /\ UNCHANGED <<mem, kept, applied, unheard, faults>>
      /\ stale' = StaleBut(t)
      /\ \A u \in Thread \ {t} : pc'[u] = pc[u]
      /\ \/ pc[t] = "wipe" /\ pc'[t] = "idle"
         \/ pc[t] = "wipeInFlush" /\ pc'[t] = "flush"
    BY <1>t DEF Wipe, QueueOK
<1> SUFFICES ASSUME Clean
             PROVE  Clean'
    BY <1>1 DEF NoRedo, DupFault
<1> DEFINE dn == Done(applied, unheard)
<1>c. /\ PassClean(dn, pc[Flusher], kept[Flusher], mem[Flusher])
      /\ Singly(applied, unheard)
    BY DEF Clean
<1> HIDE DEF dn
<1>2. PassClean(dn, pc'[Flusher], kept[Flusher], mem[Flusher])
    <2>1. CASE t = Flusher
        BY <1>1, <1>c, <2>1 DEF PassClean, PassStates, Flushing
    <2>2. CASE t # Flusher
        BY <1>t, <1>1, <1>c, <2>2
    <2> QED BY <2>1, <2>2
<1>3. ASSUME NEW u \in Thread \ stale'
      PROVE  pc'[u] \notin Appending
    <2>1. CASE u = t
        BY <1>1, <2>1 DEF Appending
    <2>2. CASE u # t
        <3>1. pc[u] \in {"idle", "wipe"}
            BY <1>t, <1>1, <1>3, <2>2, Bystanders
        <3> QED BY <1>1, <2>2, <3>1 DEF Appending
    <2> QED BY <2>1, <2>2
<1>4. FileClean(dn, file', pc', kept', stale')
    BY <1>1, <1>3, NoItems DEF FileClean
<1> QED BY <1>1, <1>2, <1>4, <1>c DEF Clean, dn

LEMMA CleanSaveFails ==
    ASSUME TypeOK, NoRedo, NEW t \in Thread, SaveFails(t)
    PROVE  NoRedo'
<1>t. QueueOK /\ Flusher \in Thread
    BY TypeParts, ThreadAssumption
<1>1. /\ UNCHANGED <<file, mem, applied, unheard>> /\ stale' = stale \ {t}
      /\ pc[t] = "append" \/ pc[t] = "flush"
      /\ faults' = faults \cup {IF pc[t] = "append" THEN "unsaved_append" ELSE "unsaved_flush"}
      /\ pc' = [pc EXCEPT ![t] = "idle"] /\ kept' = [kept EXCEPT ![t] = <<>>]
    BY Zenon DEF SaveFails, Saving
<1>2. /\ pc'[t] = "idle"
      /\ \A u \in Thread \ {t} : pc'[u] = pc[u] /\ kept'[u] = kept[u]
    BY <1>t, <1>1 DEF QueueOK
<1> SUFFICES ASSUME ~DupFault'
             PROVE  Clean'
    BY DEF NoRedo
<1>3. ~DupFault /\ pc[t] = "append"
    BY <1>1 DEF DupFault
<1> DEFINE dn == Done(applied, unheard)
<1>c. /\ PassClean(dn, pc[Flusher], kept[Flusher], mem[Flusher])
      /\ FileClean(dn, file, pc, kept, stale) /\ Singly(applied, unheard)
    BY <1>3 DEF Clean, NoRedo
<1> HIDE DEF dn
<1>4. PassClean(dn, pc'[Flusher], kept'[Flusher], mem[Flusher])
    <2>1. CASE t = Flusher
        BY <1>2, <2>1 DEF PassClean, PassStates, Flushing
    <2>2. CASE t # Flusher
        BY <1>t, <1>2, <1>c, <2>2
    <2> QED BY <2>1, <2>2
<1>5. FileClean(dn, file, pc', kept', stale')
    <2>1. SUFFICES ASSUME pc'[Flusher] \notin Flushing
                   PROVE  /\ Reqs(file) \cap dn = {}
                          /\ \A u \in Thread \ stale' : pc'[u] \in Appending => Reqs(kept'[u]) \cap dn = {}
        BY DEF FileClean
    <2>2. pc[Flusher] \notin Flushing
        BY <1>t, <1>2, <1>3, <2>1 DEF Flushing
    <2>3. ASSUME NEW u \in Thread \ stale', pc'[u] \in Appending
          PROVE  Reqs(kept'[u]) \cap dn = {}
        <3>1. u # t
            BY <1>2, <2>3 DEF Appending
        <3> QED BY <1>1, <1>2, <1>c, <2>2, <2>3, <3>1 DEF FileClean
    <2> QED BY <1>c, <2>2, <2>3 DEF FileClean
<1> QED BY <1>1, <1>4, <1>5, <1>c DEF Clean, dn

LEMMA CleanCrash ==
    ASSUME TypeOK, NoRedo, NEW p \in Process, Crash(p)
    PROVE  NoRedo'
<1>t. Flusher \in Thread
    BY ThreadAssumption
<1> DEFINE dead == {t \in Thread : ProcessOf[t] = p}
<1>1. /\ UNCHANGED <<file, applied, unheard>> /\ stale' = stale \ dead
      /\ \A t \in dead : pc'[t] = "idle"
      /\ \A t \in Thread \ dead : pc'[t] = pc[t] /\ kept'[t] = kept[t] /\ mem'[t] = mem[t]
    BY CrashStep
<1>2. faults \subseteq faults' /\ (~DupFault' => \A t \in dead : pc[t] \notin PassStates)
    <2> DEFINE Among(states) == \E t \in dead : pc[t] \in states
    <2>1. faults' = faults
             \cup (IF Among({"append"}) THEN {"unsaved_append"} ELSE {})
             \cup (IF Among({"appendWrite", "flushWrite"}) THEN {"torn_save"} ELSE {})
             \cup (IF Among({"flush", "wipeInFlush"}) THEN {"unsaved_flush"} ELSE {})
        BY Zenon DEF Crash
    <2>2. /\ Among({"appendWrite", "flushWrite"}) => "torn_save" \in faults'
          /\ Among({"flush", "wipeInFlush"}) => "unsaved_flush" \in faults'
        <3> HIDE DEF Among
        <3> QED BY <2>1
    <2> QED BY <2>1, <2>2 DEF DupFault, PassStates
<1> SUFFICES ASSUME ~DupFault'
             PROVE  Clean'
    BY DEF NoRedo
<1>3. ~DupFault /\ \A t \in dead : pc[t] \notin PassStates
    BY <1>2 DEF DupFault
<1> DEFINE dn == Done(applied, unheard)
<1>c. /\ PassClean(dn, pc[Flusher], kept[Flusher], mem[Flusher])
      /\ FileClean(dn, file, pc, kept, stale) /\ Singly(applied, unheard)
    BY <1>3 DEF Clean, NoRedo
<1> HIDE DEF dn, dead
<1>4. PassClean(dn, pc'[Flusher], kept'[Flusher], mem'[Flusher])
    <2>1. CASE Flusher \in dead
        BY <1>1, <2>1 DEF PassClean, PassStates, Flushing
    <2>2. CASE Flusher \notin dead
        BY <1>t, <1>1, <1>c, <2>2
    <2> QED BY <2>1, <2>2
<1>5. FileClean(dn, file, pc', kept', stale')
    <2>1. SUFFICES ASSUME pc'[Flusher] \notin Flushing
                   PROVE  /\ Reqs(file) \cap dn = {}
                          /\ \A u \in Thread \ stale' : pc'[u] \in Appending => Reqs(kept'[u]) \cap dn = {}
        BY DEF FileClean
    <2>2. pc[Flusher] \notin Flushing
        BY <1>t, <1>1, <1>3, <2>1 DEF Flushing, PassStates
    <2>3. ASSUME NEW u \in Thread \ stale', pc'[u] \in Appending
          PROVE  Reqs(kept'[u]) \cap dn = {}
        <3>1. u \notin dead
            BY <1>1, <2>3 DEF Appending
        <3> QED BY <1>1, <1>c, <2>2, <2>3, <3>1 DEF FileClean
    <2> QED BY <1>c, <2>2, <2>3 DEF FileClean
<1> QED BY <1>1, <1>4, <1>5, <1>c DEF Clean, dn

LEMMA StepClean ==
    TypeOK /\ Order /\ OnlyFlusher /\ Unsent /\ NoRedo /\ [Next]_vars => NoRedo'
<1> SUFFICES ASSUME TypeOK, Order, OnlyFlusher, Unsent, NoRedo, [Next]_vars
             PROVE  NoRedo'
    OBVIOUS
<1>t. QueueOK
    BY TypeParts
<1>1. CASE /\ UNCHANGED <<pc, mem, kept, accepted, stale, faults, applied, unheard>>
           /\ Reqs(file') = Reqs(file)
    BY <1>1, CleanQuiet
<1>2. ASSUME NEW p \in Process, Enroll(p) \/ LicenseChange(p)
      PROVE  NoRedo'
    BY <1>2, <1>1 DEF Enroll, LicenseChange, queueVars, historyVars
<1>3. CASE ServerChange \/ UNCHANGED vars
    BY <1>3, <1>1 DEF ServerChange, vars, queueVars, historyVars
<1>4. ASSUME NEW t \in Thread, Unlink(t)
      PROVE  NoRedo'
    <2>1. /\ UNCHANGED <<file, mem, kept, accepted, stale, faults, applied, unheard>>
          /\ \A u \in Thread : pc'[u] = pc[u] \/ (pc[u] = "idle" /\ pc'[u] = "wipe")
        BY <1>t, <1>4 DEF Unlink, QueueOK, historyVars
    <2> QED BY <2>1, CleanQuiet
<1>5. CASE Tick
    <2>1. file' = Later(file, 1)
          /\ UNCHANGED <<pc, mem, kept, accepted, stale, faults, applied, unheard>>
        BY <1>5 DEF Tick, historyVars
    <2>2. Reqs(file') = Reqs(file)
        BY <1>t, <2>1, LaterReqs DEF QueueOK
    <2> QED BY <2>1, <2>2, <1>1
<1> QED BY <1>2, <1>3, <1>4, <1>5, CleanReport, CleanFlush, CleanTruncate, CleanWrite,
           CleanSaveFails, CleanWipe, CleanCrash DEF Next, Save

\* The backend applies a request twice only if a call that applied it timed
\* out, or a pass died or failed before its save, or a save overlapped:
\* appends of other threads during a pass bring nothing back.
THEOREM DuplicatesNeedAFault == Spec => []DuplicateOnlyAfterFault
<1>1. NoRedo => DuplicateOnlyAfterFault
    BY DEF NoRedo, Clean, Singly, DupFault, DuplicateOnlyAfterFault
<1> QED BY InitType, StepType, InitOrder, StepOrder, InitOnlyFlusher, StepOnlyFlusher,
           InitUnsent, StepUnsent, InitClean, StepClean, <1>1, PTL DEF Spec

-----------------------------------------------------------------------------
(* Who may overtake                                                        *)

\* A copy of the file that nobody has overtaken adds only later requests.
After(acc, q, s) == \A x \in Reqs(q) : At(acc, x) < At(acc, s)
AppendFits(acc, f, p, k) ==
    /\ p = "append" => \A s \in Reqs(k) : s \in Reqs(f) \/ After(acc, f, s)
    /\ p = "appendWrite" => Reqs(f) = {}

\* The pass with k kept and m to look at has passed by no entry of q: it has
\* delivered or kept each, or will come to it, or q has it behind all of m.
Passed(acc, ap, k, m, q) ==
    \A s \in Reqs(q) : s \in Reqs(m) \cup Reqs(k) \cup Delivered(ap) \/ After(acc, m, s)

AppendsFit == \A u \in Thread \ stale : AppendFits(accepted, file, pc[u], kept[u])
InPass(q) == Passed(accepted, applied, kept[Flusher], mem[Flusher], q)
PassFair == pc[Flusher] = "flush" =>
               /\ InPass(file)
               /\ \A u \in Thread \ stale : pc[u] \in Appending => InPass(kept[u])
Fair == "stale_save" \in faults \/ (AppendsFit /\ PassFair)

LEMMA InitFair == Init => Fair
BY ThreadAssumption DEF Init, Fair, AppendsFit, AppendFits, PassFair

\* More is delivered, requests are accepted behind the others.
LEMMA PassedStays ==
    ASSUME NEW acc, NEW acc2, Extends(acc2, acc), NEW ap, NEW ap2,
           Delivered(ap) \subseteq Delivered(ap2), NEW k, NEW m, NEW q, NEW q2,
           Reqs(q2) = Reqs(q), Reqs(q) \subseteq Elems(acc), Reqs(m) \subseteq Elems(acc),
           Passed(acc, ap, k, m, q)
    PROVE  Passed(acc2, ap2, k, m, q2)
BY DEF Passed, After, Extends

LEMMA PassedNothing ==
    ASSUME NEW acc, NEW ap, NEW k, NEW m, NEW q, Reqs(m) = {} \/ Reqs(q) = {}
    PROVE  Passed(acc, ap, k, m, q)
BY DEF Passed, After

LEMMA AppendStays ==
    ASSUME NEW acc, NEW acc2, Extends(acc2, acc), NEW f, NEW f2, Reqs(f2) = Reqs(f),
           NEW p, NEW k, Reqs(f) \subseteq Elems(acc), Reqs(k) \subseteq Elems(acc),
           AppendFits(acc, f, p, k)
    PROVE  AppendFits(acc2, f2, p, k)
BY DEF AppendFits, After, Extends

LEMMA AppendOutside ==
    ASSUME NEW acc, NEW f, NEW p, p \notin Appending, NEW k
    PROVE  AppendFits(acc, f, p, k)
BY DEF AppendFits, Appending

LEMMA OrderParts ==
    ASSUME Order
    PROVE  /\ Reqs(file) \subseteq Elems(accepted)
           /\ \A t \in Thread : Reqs(kept[t]) \subseteq Elems(accepted)
           /\ pc[Flusher] = "flush" => Reqs(mem[Flusher]) \subseteq Elems(accepted)
           /\ pc[Flusher] = "wipeInFlush" => mem[Flusher] = <<>>
           /\ Extends(accepted, accepted)
BY ThreadAssumption DEF Order, ThreadFits, PassFits, Fits, Flushing, Extends

\* The queue stays as it is.
LEMMA FairQuiet ==
    ASSUME Order, Fair, Reqs(file') = Reqs(file),
           UNCHANGED <<mem, kept, accepted, stale, faults>>,
           Delivered(applied) \subseteq Delivered(applied'),
           \A t \in Thread : pc'[t] = pc[t] \/ (pc[t] = "idle" /\ pc'[t] = "wipe")
    PROVE  Fair'
<1> SUFFICES ASSUME AppendsFit, PassFair
             PROVE  AppendsFit' /\ PassFair'
    BY DEF Fair
<1>o. /\ Reqs(file) \subseteq Elems(accepted)
      /\ \A t \in Thread : Reqs(kept[t]) \subseteq Elems(accepted)
      /\ pc[Flusher] = "flush" => Reqs(mem[Flusher]) \subseteq Elems(accepted)
      /\ Extends(accepted, accepted) /\ Flusher \in Thread
    BY OrderParts, ThreadAssumption
<1>1. ASSUME NEW u \in Thread \ stale
      PROVE  AppendFits(accepted, file', pc'[u], kept[u])
    <2>1. CASE pc'[u] = pc[u]
        <3>1. AppendFits(accepted, file, pc'[u], kept[u])
            BY <2>1 DEF AppendsFit
        <3> QED BY <1>o, <3>1, AppendStays
    <2>2. CASE pc'[u] = "wipe"
        BY <2>2, AppendOutside DEF Appending
    <2> QED BY <2>1, <2>2
<1>2. ASSUME pc'[Flusher] = "flush"
      PROVE  /\ Passed(accepted, applied', kept[Flusher], mem[Flusher], file')
             /\ \A u \in Thread \ stale : pc'[u] \in Appending =>
                   Passed(accepted, applied', kept[Flusher], mem[Flusher], kept[u])
    <2>1. pc[Flusher] = "flush"
        BY <1>o, <1>2
    <2>2. Passed(accepted, applied', kept[Flusher], mem[Flusher], file')
        BY <1>o, <2>1, PassedStays DEF PassFair, InPass
    <2>3. ASSUME NEW u \in Thread \ stale, pc'[u] \in Appending
          PROVE  Passed(accepted, applied', kept[Flusher], mem[Flusher], kept[u])
        <3>1. pc[u] \in Appending
            BY <2>3 DEF Appending
        <3>2. Passed(accepted, applied, kept[Flusher], mem[Flusher], kept[u])
            BY <2>1, <3>1 DEF PassFair, InPass
        <3> QED BY <1>o, <2>1, <3>2, PassedStays
    <2> QED BY <2>2, <2>3
<1> QED BY <1>1, <1>2 DEF AppendsFit, PassFair, InPass

LEMMA FairReport ==
    ASSUME TypeOK, Order, Fair, NEW t \in Thread, NEW r \in Request, Report(t, r)
    PROVE  Fair'
<1>t. /\ QueueOK /\ HistoryOK /\ applied \in [Request -> 0..2] /\ Flusher \in Thread
      /\ accepted \in Seq(Request) /\ Once(accepted) /\ Elems(accepted) \subseteq used
    BY TypeParts, ThreadAssumption DEF HistoryOK, Order, Accounts
<1>1. CASE ReportDelivered(t, r) \/ ReportDropped(t, r) \/ ReportUnlinked(t, r)
    <2>1. /\ UNCHANGED <<file, mem, kept, accepted, stale, faults>>
          /\ Sent(r)
          /\ pc' = pc \/ (pc[t] = "idle" /\ pc' = [pc EXCEPT ![t] = "wipe"])
        BY <1>1, CallSends DEF ReportDelivered, ReportDropped, ReportUnlinked, Produce, queueVars
    <2>2. \A u \in Thread : pc'[u] = pc[u] \/ (pc[u] = "idle" /\ pc'[u] = "wipe")
        BY <1>t, <2>1 DEF QueueOK
    <2>3. Delivered(applied) \subseteq Delivered(applied')
        BY <1>t, <2>1, SentGrows
    <2> QED BY <2>1, <2>2, <2>3, FairQuiet
<1>2. CASE ReportQueued(t, r)
    <2>q. PICK queue \in Seq(Item) :
             /\ Reqs(queue) \subseteq Reqs(file) /\ faults \subseteq faults'
             /\ kept' = [kept EXCEPT ![t] = Append(queue, Fresh(r))]
        BY <1>2, <1>t, EnqueueStep DEF ReportQueued
    <2>1. /\ pc[t] = "idle" /\ r \notin used /\ pc' = [pc EXCEPT ![t] = "append"]
          /\ file' = file /\ mem' = mem /\ accepted' = Append(accepted, r)
          /\ stale' = stale \ {t}
        BY <1>2 DEF ReportQueued, Enqueue, Produce
    <2>2. /\ pc'[t] = "append" /\ kept'[t] = Append(queue, Fresh(r))
          /\ \A u \in Thread \ {t} : pc'[u] = pc[u] /\ kept'[u] = kept[u]
        BY <1>t, <2>1, <2>q DEF QueueOK
    <2>3. Reqs(kept'[t]) \subseteq Reqs(file) \cup {r}
        BY <2>2, <2>q, FreshIsItem, AppendItems DEF Fresh
    <2>4. /\ Extends(accepted', accepted)
          /\ \A s \in Elems(accepted) : At(accepted', s) < At(accepted', r)
        BY <1>t, <2>1, TakeOne
    <2>5. Delivered(applied) \subseteq Delivered(applied')
        BY <1>2, <1>t, CallSends, SentGrows DEF ReportQueued
    <2> SUFFICES ASSUME AppendsFit, PassFair
                 PROVE  AppendsFit' /\ PassFair'
        BY <2>q DEF Fair
    <2>o. /\ Reqs(file) \subseteq Elems(accepted)
          /\ \A u \in Thread : Reqs(kept[u]) \subseteq Elems(accepted)
          /\ pc[Flusher] = "flush" => Reqs(mem[Flusher]) \subseteq Elems(accepted)
        BY OrderParts
    <2>6. ASSUME NEW u \in Thread \ stale'
          PROVE  AppendFits(accepted', file, pc'[u], kept'[u])
        <3>1. CASE u = t
            BY <2>2, <2>3, <2>4, <2>o, <3>1 DEF AppendFits, After
        <3>2. CASE u # t
            <4>1. AppendFits(accepted, file, pc[u], kept[u])
                BY <2>1, <2>6, <3>2 DEF AppendsFit
            <4> QED BY <2>2, <2>4, <2>o, <3>2, <4>1, AppendStays
        <3> QED BY <3>1, <3>2
    <2>7. ASSUME pc'[Flusher] = "flush"
          PROVE  /\ Passed(accepted', applied', kept'[Flusher], mem[Flusher], file)
                 /\ \A u \in Thread \ stale' : pc'[u] \in Appending =>
                       Passed(accepted', applied', kept'[Flusher], mem[Flusher], kept'[u])
        <3>1. Flusher # t /\ pc[Flusher] = "flush" /\ kept'[Flusher] = kept[Flusher]
            BY <1>t, <2>2, <2>7
        <3>2. Passed(accepted', applied', kept[Flusher], mem[Flusher], file)
            BY <2>4, <2>5, <2>o, <3>1, PassedStays DEF PassFair, InPass
        <3>3. ASSUME NEW u \in Thread \ stale', pc'[u] \in Appending
              PROVE  Passed(accepted', applied', kept[Flusher], mem[Flusher], kept'[u])
            <4>1. CASE u = t
                BY <2>3, <2>4, <2>o, <3>1, <3>2, <4>1 DEF Passed, After
            <4>2. CASE u # t
                <5>1. Passed(accepted, applied, kept[Flusher], mem[Flusher], kept[u])
                    BY <2>1, <2>2, <3>1, <3>3, <4>2 DEF PassFair, InPass
                <5> QED BY <2>2, <2>4, <2>5, <2>o, <3>1, <4>2, <5>1, PassedStays
            <4> QED BY <4>1, <4>2
        <3> QED BY <3>1, <3>2, <3>3
    <2> QED BY <2>1, <2>6, <2>7 DEF AppendsFit, PassFair, InPass
<1> QED BY <1>1, <1>2 DEF Report

LEMMA FairFlush ==
    ASSUME TypeOK, Order, Fair, Flush
    PROVE  Fair'
<1>t. QueueOK /\ Flusher \in Thread
    BY TypeParts, ThreadAssumption
<1>r. UNCHANGED <<faults, file, accepted>>
    BY DEF Flush, FlushStart, FlushSkip, FlushDelivered, FlushFailed, FlushUnlinked, historyVars
<1> SUFFICES ASSUME AppendsFit, PassFair
             PROVE  AppendsFit' /\ PassFair'
    BY <1>r DEF Fair
<1>a. ASSUME stale' = stale \/ stale' = stale \ {Flusher},
             pc'[Flusher] \notin Appending,
             \A u \in Thread \ {Flusher} : pc'[u] = pc[u] /\ kept'[u] = kept[u]
      PROVE  AppendsFit'
    <2>1. ASSUME NEW u \in Thread \ stale'
          PROVE  AppendFits(accepted, file, pc'[u], kept'[u])
        <3>1. CASE u = Flusher
            BY <1>a, <3>1, AppendOutside
        <3>2. CASE u # Flusher
            BY <1>a, <2>1, <3>2 DEF AppendsFit
        <3> QED BY <3>1, <3>2
    <2> QED BY <1>r, <2>1 DEF AppendsFit
<1>1. CASE FlushStart
    <2>1. /\ pc'[Flusher] = "flush" /\ mem'[Flusher] = file
          /\ \A u \in Thread \ {Flusher} : pc'[u] = pc[u] /\ kept'[u] = kept[u]
          /\ stale' = stale \ {Flusher}
        BY <1>1, <1>t DEF FlushStart, QueueOK
    <2>2. AppendsFit'
        BY <1>a, <2>1 DEF Appending
    <2>3. Passed(accepted', applied', kept'[Flusher], mem'[Flusher], file')
        BY <1>r, <2>1 DEF Passed
    <2>4. ASSUME NEW u \in Thread \ stale', pc'[u] \in Appending
          PROVE  Passed(accepted', applied', kept'[Flusher], mem'[Flusher], kept'[u])
        <3>1. u # Flusher /\ u \notin stale
            BY <2>1, <2>4 DEF Appending
        <3>2. AppendFits(accepted, file, pc[u], kept[u])
            BY <3>1 DEF AppendsFit
        <3> QED BY <1>r, <2>1, <2>4, <3>1, <3>2 DEF AppendFits, Appending, Passed, After
    <2> QED BY <2>2, <2>3, <2>4 DEF PassFair, InPass
<1>2. CASE FlushSkip \/ FlushDelivered \/ FlushFailed
    <2>1. pc[Flusher] = "flush" /\ UNCHANGED <<pc, stale>>
        BY <1>2 DEF FlushSkip, FlushDelivered, FlushFailed, FlushNext, historyVars
    <2> DEFINE y == Head(mem[Flusher]).req
    <2>2. /\ Reqs(mem[Flusher]) = Reqs(mem'[Flusher]) \cup {y}
          /\ Delivered(applied) \subseteq Delivered(applied')
          /\ Reqs(kept[Flusher]) \subseteq Reqs(kept'[Flusher])
          /\ y \in Delivered(applied') \cup Reqs(kept'[Flusher])
          /\ \A u \in Thread \ {Flusher} : kept'[u] = kept[u]
        BY <1>2, PassEntry
    <2> HIDE DEF y
    <2>3. \A q : InPass(q) => Passed(accepted, applied', kept'[Flusher], mem'[Flusher], q)
        BY <2>2 DEF InPass, Passed, After
    <2>4. AppendsFit'
        BY <1>a, <2>1, <2>2 DEF Appending
    <2>5. ASSUME NEW u \in Thread \ stale', pc'[u] \in Appending
          PROVE  Passed(accepted, applied', kept'[Flusher], mem'[Flusher], kept'[u])
        <3>1. u # Flusher /\ InPass(kept[u])
            BY <2>1, <2>5 DEF Appending, PassFair
        <3> QED BY <2>2, <2>3, <3>1
    <2> QED BY <1>r, <2>1, <2>3, <2>4, <2>5 DEF PassFair, InPass
<1>3. CASE FlushUnlinked
    <2>1. /\ pc' = [pc EXCEPT ![Flusher] = "wipeInFlush"] /\ kept' = kept /\ stale' = stale
        BY <1>3 DEF FlushUnlinked
    <2>2. /\ pc'[Flusher] = "wipeInFlush"
          /\ \A u \in Thread \ {Flusher} : pc'[u] = pc[u] /\ kept'[u] = kept[u]
        BY <1>t, <2>1 DEF QueueOK
    <2>3. AppendsFit'
        BY <1>a, <2>1, <2>2 DEF Appending
    <2> QED BY <2>2, <2>3 DEF PassFair
<1> QED BY <1>1, <1>2, <1>3 DEF Flush

\* After a change of the file by t only t itself may still have its copy.
LEMMA FairAlone ==
    ASSUME QueueOK, NEW t \in Thread, StaleBut(t) \subseteq stale' \cup {t},
           \A u \in Thread \ {t} : pc'[u] = pc[u],
           t \notin stale' => AppendFits(accepted', file', pc'[t], kept'[t]),
           pc'[Flusher] = "flush" => /\ InPass(file)'
                                     /\ pc'[t] \in Appending => InPass(kept[t])'
    PROVE  AppendsFit' /\ PassFair'
<1>1. ASSUME NEW u \in Thread \ stale', u # t
      PROVE  pc'[u] \notin Appending
    <2>1. pc[u] \in {"idle", "wipe"}
        BY <1>1, Bystanders
    <2> QED BY <1>1, <2>1 DEF Appending
<1>2. AppendsFit'
    BY <1>1, AppendOutside DEF AppendsFit
<1>3. PassFair'
    BY <1>1 DEF PassFair
<1> QED BY <1>2, <1>3

LEMMA FairSave ==
    ASSUME TypeOK, Order, OnlyFlusher, Fair, NEW t \in Thread,
           Truncate(t) \/ Write(t) \/ Wipe(t)
    PROVE  Fair'
<1>t. QueueOK /\ Flusher \in Thread /\ kept[t] \in Seq(Item) /\ elapsed[t] \in Nat
    BY TypeParts, ThreadAssumption DEF QueueOK
<1>o. /\ Reqs(file) \subseteq Elems(accepted)
      /\ \A u \in Thread : Reqs(kept[u]) \subseteq Elems(accepted)
      /\ pc[Flusher] = "flush" => Reqs(mem[Flusher]) \subseteq Elems(accepted)
      /\ pc[Flusher] = "wipeInFlush" => mem[Flusher] = <<>>
      /\ Extends(accepted, accepted)
    BY OrderParts
<1>1. CASE Truncate(t)
    <2>1. /\ file' = <<>> /\ UNCHANGED <<mem, kept, applied, accepted>>
          /\ pc' = [pc EXCEPT ![t] = IF pc[t] = "append" THEN "appendWrite" ELSE "flushWrite"]
          /\ pc[t] = "append" \/ pc[t] = "flush"
          /\ stale' = StaleBut(t) /\ faults' = faults \cup StaleSave(t)
        BY <1>1, Zenon DEF Truncate, Saving, Unreadable
    <2>2. /\ (pc[t] = "append" /\ pc'[t] = "appendWrite") \/ pc'[t] = "flushWrite"
          /\ \A u \in Thread \ {t} : pc'[u] = pc[u]
        BY <1>t, <2>1 DEF QueueOK
    <2> SUFFICES ASSUME "stale_save" \notin faults'
                 PROVE  AppendsFit' /\ PassFair'
        BY DEF Fair
    <2>3. t \notin stale /\ AppendsFit /\ PassFair
        BY <2>1 DEF StaleSave, Fair
    <2>4. AppendFits(accepted', file', pc'[t], kept'[t])
        BY <2>1, <2>2, NoItems DEF AppendFits
    <2>5. ASSUME pc'[Flusher] = "flush"
          PROVE  /\ InPass(file)'
                 /\ pc'[t] \in Appending => InPass(kept[t])'
        <3>1. Flusher # t /\ pc[Flusher] = "flush"
            BY <1>t, <2>2, <2>5
        <3>2. InPass(file)'
            BY <2>1, NoItems, PassedNothing DEF InPass
        <3>3. pc'[t] \in Appending => InPass(kept[t])
            BY <2>2, <2>3, <3>1 DEF PassFair, Appending
        <3> QED BY <2>1, <3>2, <3>3 DEF InPass
    <2> QED BY <1>t, <2>1, <2>2, <2>4, <2>5, FairAlone
<1>2. CASE Write(t)
    <2>1. /\ pc[t] \in {"appendWrite", "flushWrite"}
          /\ t \notin stale => file' = Later(kept[t], elapsed[t])
          /\ pc' = [pc EXCEPT ![t] = "idle"] /\ kept' = [kept EXCEPT ![t] = <<>>]
          /\ UNCHANGED <<mem, applied, accepted>>
          /\ stale' = StaleBut(t) \ {t} /\ faults' = faults \cup StaleSave(t)
        BY <1>2, Zenon DEF Write
    <2>2. /\ pc'[t] = "idle"
          /\ \A u \in Thread \ {t} : pc'[u] = pc[u] /\ kept'[u] = kept[u]
          /\ pc[t] = "flushWrite" => t = Flusher
        BY <1>t, <2>1 DEF QueueOK, OnlyFlusher, PassStates
    <2> SUFFICES ASSUME "stale_save" \notin faults'
                 PROVE  AppendsFit' /\ PassFair'
        BY DEF Fair
    <2>3. t \notin stale /\ AppendsFit /\ PassFair
        BY <2>1 DEF StaleSave, Fair
    <2>4. AppendFits(accepted', file', pc'[t], kept'[t])
        BY <2>2, AppendOutside DEF Appending
    <2>5. ASSUME pc'[Flusher] = "flush"
          PROVE  InPass(file)'
        <3>1. Flusher # t /\ pc[Flusher] = "flush"
            BY <1>t, <2>2, <2>5
        <3>2. InPass(kept[t])
            BY <2>1, <2>2, <2>3, <3>1 DEF PassFair, Appending
        <3>3. Reqs(file') = Reqs(kept[t])
            BY <1>t, <2>1, <2>3, LaterReqs
        <3>4. Passed(accepted, applied, kept[Flusher], mem[Flusher], file')
            BY <1>o, <3>1, <3>2, <3>3, PassedStays DEF InPass
        <3>5. kept'[Flusher] = kept[Flusher]
            BY <1>t, <2>2, <3>1
        <3> QED BY <2>1, <3>4, <3>5 DEF InPass
    <2> QED BY <1>t, <2>1, <2>2, <2>4, <2>5, FairAlone DEF Appending
<1>3. CASE Wipe(t)
    <2>1. /\ file' = <<>> /\ UNCHANGED <<mem, kept, applied, accepted, faults>>
          /\ stale' = StaleBut(t)
          /\ \A u \in Thread \ {t} : pc'[u] = pc[u]
          /\ pc'[t] \in {"idle", "flush"}
        BY <1>t, <1>3 DEF Wipe, QueueOK
    <2>2. AppendFits(accepted', file', pc'[t], kept'[t])
        BY <2>1, AppendOutside DEF Appending
    <2>3. InPass(file)'
        BY <2>1, NoItems, PassedNothing DEF InPass
    <2>4. AppendsFit' /\ PassFair'
        BY <1>t, <2>1, <2>2, <2>3, FairAlone DEF Appending
    <2> QED BY <2>4 DEF Fair
<1> QED BY <1>1, <1>2, <1>3

\* Threads give up their copies; the file stays as it is.
LEMMA FairDrops ==
    ASSUME QueueOK, Fair, UNCHANGED <<file, accepted, applied>>, faults \subseteq faults',
           NEW dead \in SUBSET Thread, stale' = stale \ dead,
           \A t \in dead : pc'[t] = "idle",
           \A t \in Thread \ dead : pc'[t] = pc[t] /\ kept'[t] = kept[t] /\ mem'[t] = mem[t]
    PROVE  Fair'
<1>f. Flusher \in Thread
    BY ThreadAssumption
<1> SUFFICES ASSUME AppendsFit, PassFair
             PROVE  AppendsFit' /\ PassFair'
    BY DEF Fair
<1>1. ASSUME NEW u \in Thread \ stale'
      PROVE  AppendFits(accepted, file, pc'[u], kept'[u])
    <2>1. CASE u \in dead
        BY <2>1, AppendOutside DEF Appending
    <2>2. CASE u \notin dead
        BY <1>1, <2>2 DEF AppendsFit
    <2> QED BY <2>1, <2>2
<1>2. ASSUME pc'[Flusher] = "flush"
      PROVE  /\ InPass(file)'
             /\ \A u \in Thread \ stale' : pc'[u] \in Appending => InPass(kept[u])'
    <2>1. /\ Flusher \notin dead /\ pc[Flusher] = "flush"
          /\ kept'[Flusher] = kept[Flusher] /\ mem'[Flusher] = mem[Flusher]
        BY <1>f, <1>2
    <2>2. ASSUME NEW u \in Thread \ stale', pc'[u] \in Appending
          PROVE  InPass(kept[u]) /\ kept'[u] = kept[u]
        <3>1. u \notin dead
            BY <2>2 DEF Appending
        <3> QED BY <2>1, <2>2, <3>1 DEF PassFair
    <2>3. InPass(file)
        BY <2>1 DEF PassFair
    <2> QED BY <2>1, <2>2, <2>3 DEF InPass
<1> QED BY <1>1, <1>2 DEF AppendsFit, PassFair

LEMMA StepFair == TypeOK /\ Order /\ OnlyFlusher /\ Fair /\ [Next]_vars => Fair'
<1> SUFFICES ASSUME TypeOK, Order, OnlyFlusher, Fair, [Next]_vars
             PROVE  Fair'
    OBVIOUS
<1>t. QueueOK
    BY TypeParts
<1>1. CASE /\ UNCHANGED <<pc, mem, kept, accepted, stale, faults, applied>>
           /\ Reqs(file') = Reqs(file)
    BY <1>1, FairQuiet
<1>2. ASSUME NEW p \in Process, Enroll(p) \/ LicenseChange(p)
      PROVE  Fair'
    BY <1>2, <1>1 DEF Enroll, LicenseChange, queueVars, historyVars
<1>3. CASE ServerChange \/ UNCHANGED vars
    BY <1>3, <1>1 DEF ServerChange, vars, queueVars, historyVars
<1>4. ASSUME NEW t \in Thread, Unlink(t)
      PROVE  Fair'
    <2>1. /\ UNCHANGED <<file, mem, kept, accepted, stale, faults, applied>>
          /\ \A u \in Thread : pc'[u] = pc[u] \/ (pc[u] = "idle" /\ pc'[u] = "wipe")
        BY <1>t, <1>4 DEF Unlink, QueueOK, historyVars
    <2> QED BY <2>1, FairQuiet
<1>5. CASE Tick
    <2>1. file' = Later(file, 1) /\ UNCHANGED <<pc, mem, kept, accepted, stale, faults, applied>>
        BY <1>5 DEF Tick, historyVars
    <2>2. Reqs(file') = Reqs(file)
        BY <1>t, <2>1, LaterReqs DEF QueueOK
    <2> QED BY <2>1, <2>2, <1>1
<1>6. ASSUME NEW t \in Thread, SaveFails(t)
      PROVE  Fair'
    <2>1. /\ UNCHANGED <<file, mem, accepted, applied>> /\ stale' = stale \ {t}
          /\ faults \subseteq faults'
          /\ pc' = [pc EXCEPT ![t] = "idle"] /\ kept' = [kept EXCEPT ![t] = <<>>]
        BY <1>6 DEF SaveFails
    <2>2. /\ \A u \in {t} : pc'[u] = "idle"
          /\ \A u \in Thread \ {t} : pc'[u] = pc[u] /\ kept'[u] = kept[u] /\ mem'[u] = mem[u]
        BY <1>t, <2>1 DEF QueueOK
    <2> DEFINE dead == {t}
    <2>3. dead \in SUBSET Thread
        OBVIOUS
    <2>4. /\ stale' = stale \ dead /\ \A u \in dead : pc'[u] = "idle"
          /\ \A u \in Thread \ dead : pc'[u] = pc[u] /\ kept'[u] = kept[u] /\ mem'[u] = mem[u]
        BY <2>1, <2>2
    <2> HIDE DEF dead
    <2> QED BY <1>t, <2>1, <2>3, <2>4, FairDrops
<1>7. ASSUME NEW p \in Process, Crash(p)
      PROVE  Fair'
    <2>1. faults \subseteq faults'
        <3> DEFINE Among(states) == \E u \in {t \in Thread : ProcessOf[t] = p} : pc[u] \in states
        <3>1. faults' = faults
                 \cup (IF Among({"append"}) THEN {"unsaved_append"} ELSE {})
                 \cup (IF Among({"appendWrite", "flushWrite"}) THEN {"torn_save"} ELSE {})
                 \cup (IF Among({"flush", "wipeInFlush"}) THEN {"unsaved_flush"} ELSE {})
            BY <1>7, Zenon DEF Crash
        <3> HIDE DEF Among
        <3> QED BY <3>1
    <2> DEFINE dead == {t \in Thread : ProcessOf[t] = p}
    <2>2. /\ UNCHANGED <<file, accepted, applied>> /\ stale' = stale \ dead
          /\ \A t \in dead : pc'[t] = "idle"
          /\ \A t \in Thread \ dead : pc'[t] = pc[t] /\ kept'[t] = kept[t] /\ mem'[t] = mem[t]
        BY <1>7, CrashStep
    <2>3. dead \in SUBSET Thread
        OBVIOUS
    <2> HIDE DEF dead
    <2> QED BY <1>t, <2>1, <2>2, <2>3, FairDrops
<1> QED BY <1>2, <1>3, <1>4, <1>5, <1>6, <1>7, FairReport, FairFlush, FairSave DEF Next, Save

\* A delivery in a pass that nobody has disturbed.
LEMMA PassOvertakes ==
    ASSUME TypeOK, Order, Fair, "stale_save" \notin faults,
           FlushSkip \/ FlushDelivered \/ FlushFailed \/ FlushUnlinked,
           NEW s \in Reqs(file),
           At(accepted, s) < At(accepted, Head(mem[Flusher]).req)
    PROVE  \/ s \in Delivered(applied)
           \/ \E k \in DOMAIN kept[Flusher] : /\ kept[Flusher][k].req = s
                                              /\ kept[Flusher][k].retry > 0
<1> DEFINE r == Head(mem[Flusher]).req
<1>t. /\ QueueOK /\ Flusher \in Thread /\ accepted \in Seq(Request) /\ Once(accepted)
    BY TypeParts, ThreadAssumption DEF HistoryOK, Order, Accounts
<1>1. /\ pc[Flusher] = "flush" /\ mem[Flusher] # <<>>
      /\ mem[Flusher] \in Seq(Item) /\ kept[Flusher] \in Seq(Item)
    BY <1>t DEF FlushSkip, FlushDelivered, FlushFailed, FlushUnlinked, FlushNext, QueueOK
<1>2. PassFits(accepted, kept[Flusher], mem[Flusher])
    BY <1>t, <1>1 DEF Order, ThreadFits, Flushing
<1>3. /\ \A x \in Reqs(Tail(mem[Flusher])) : At(accepted, r) < At(accepted, x)
      /\ r \in Elems(accepted) /\ r \in Reqs(mem[Flusher])
    BY <1>t, <1>1, <1>2, PassDrops
<1>4. At(accepted, r) \in Nat /\ At(accepted, s) \in Nat
    <2>1. s \in Elems(accepted)
        BY OrderParts
    <2> QED BY <1>t, <1>3, <2>1, PositionType
<1>5. InPass(file)
    BY <1>1 DEF Fair, PassFair
<1> HIDE DEF r
<1>6. s \notin Reqs(mem[Flusher]) /\ ~After(accepted, mem[Flusher], s)
    <2>1. Reqs(mem[Flusher]) = Reqs(Tail(mem[Flusher])) \cup {r}
        BY <1>1, TailItems DEF r
    <2> QED BY <1>3, <1>4, <2>1 DEF After, r
<1>7. s \in Delivered(applied) \cup Reqs(kept[Flusher])
    BY <1>5, <1>6 DEF InPass, Passed
<1>8. CASE s \in Reqs(kept[Flusher])
    <2>1. PICK k \in DOMAIN kept[Flusher] : kept[Flusher][k].req = s
        BY <1>8 DEF Reqs
    <2> QED BY <1>2, <2>1 DEF PassFits, Retried
<1> QED BY <1>7, <1>8

\* One step of OvertakesOnlyFailed.
Overtaking ==
    \A r \in Taken :
        (applied'[r] # applied[r] /\ "stale_save" \notin faults) =>
            \A s \in Reqs(file) :
                Position(s) < Position(r) =>
                    \/ applied[s] > 0
                    \/ \E k \in DOMAIN kept[Flusher] : /\ kept[Flusher][k].req = s
                                                       /\ kept[Flusher][k].retry > 0

LEMMA StepOvertaking == TypeOK /\ Order /\ Fair /\ [Next]_vars => Overtaking
<1> SUFFICES ASSUME TypeOK, Order, Fair, [Next]_vars,
                    NEW r \in Taken, applied'[r] # applied[r], "stale_save" \notin faults,
                    NEW s \in Reqs(file), Position(s) < Position(r)
             PROVE  \/ applied[s] > 0
                    \/ \E k \in DOMAIN kept[Flusher] : /\ kept[Flusher][k].req = s
                                                       /\ kept[Flusher][k].retry > 0
    BY DEF Overtaking
<1>t. /\ QueueOK /\ HistoryOK /\ applied \in [Request -> 0..2] /\ Flusher \in Thread
      /\ r \in used /\ r \in Request
    BY TypeParts, ThreadAssumption DEF HistoryOK, Order, Accounts, Taken, Elems
<1>1. ASSUME NEW x \in Request, Sent(x)
      PROVE  r = x
    BY <1>t, <1>1, SentElsewhere
<1>2. ASSUME NEW t \in Thread, NEW x \in Request, Report(t, x)
      PROVE  FALSE
    <2>1. x \notin used /\ Sent(x)
        BY <1>2, CallSends DEF Report, ReportDelivered, ReportDropped, ReportQueued,
                               ReportUnlinked, Produce
    <2> QED BY <1>1, <1>t, <2>1
<1>3. CASE FlushDelivered \/ FlushFailed \/ FlushUnlinked
    <2> DEFINE x == Head(mem[Flusher]).req
    <2>1. mem[Flusher] \in Seq(Item) /\ mem[Flusher] # <<>> /\ Sent(x)
        BY <1>3, <1>t, CallSends DEF FlushDelivered, FlushFailed, FlushUnlinked, FlushNext, QueueOK
    <2>2. x \in Request
        BY <2>1, TailItems DEF Item
    <2>3. r = x
        BY <1>1, <2>1, <2>2
    <2>4. At(accepted, s) < At(accepted, x)
        BY <2>3 DEF Position, At
    <2>5. \/ s \in Delivered(applied)
          \/ \E k \in DOMAIN kept[Flusher] : /\ kept[Flusher][k].req = s
                                             /\ kept[Flusher][k].retry > 0
        BY <1>3, <2>4, PassOvertakes
    <2> QED BY <2>5 DEF Delivered
<1>4. applied' # applied
    OBVIOUS
<1> QED BY <1>2, <1>3, <1>4
        DEF Next, Save, Flush, FlushStart, FlushSkip, Truncate, Write, SaveFails,
            Wipe, Unlink, Enroll, LicenseChange, ServerChange, Tick, Crash, vars, historyVars

\* What is queued later goes out earlier only past an entry that this pass has
\* tried, or that is waiting for its next_retry_at: also when other threads
\* append in the middle of the pass.
THEOREM OnlyFailedAreOvertaken == Spec => OvertakesOnlyFailed
<1>1. TypeOK /\ Order /\ Fair /\ [Next]_vars => [Overtaking]_vars
    BY StepOvertaking
<1>2. Spec => [][Overtaking]_vars
    BY InitType, StepType, InitOrder, StepOrder, InitOnlyFlusher, StepOnlyFlusher,
       InitFair, StepFair, <1>1, PTL DEF Spec
<1> QED BY <1>2 DEF OvertakesOnlyFailed, Overtaking

=============================================================================
