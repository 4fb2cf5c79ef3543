---------------------------- MODULE OfflineQueue ----------------------------
(***************************************************************************)
(* The offline queue of ZerowatchClient (src/sentinel_agent.py): one file  *)
(* holding the requests the backend did not acknowledge, shared without a  *)
(* lock by the threads of the daemon and of the GUI process.               *)
(*                                                                         *)
(* Every use of the file is a load, some work in memory, and a save:       *)
(*   Report        sync_full, sync_delta and log_event, up to the load of  *)
(*                 _enqueue_offline                                        *)
(*   FlushStart .. FlushSend   one pass of flush_offline_queue             *)
(*   Truncate, Write           the two halves of _save_queue: open(.., wb) *)
(*                 empties the file, the bytes arrive when it is closed    *)
(*   Wipe          clear_local_state                                       *)
(* Time is counted in units of OFFLINE_FLUSH_MIN_INTERVAL (15 s); a        *)
(* deadline is kept as the number of units that remain until it.           *)
(***************************************************************************)
EXTENDS Integers, Sequences, FiniteSets

CONSTANTS
    Thread,         \* threads that own a client, of the daemon and the GUI
    Process,        \* the processes those threads live in
    ProcessOf,      \* [Thread -> Process]
    Flusher,        \* the daemon's main thread: the only one that flushes
    Request,        \* requests the agent may produce
    Poison,         \* requests the backend never acknowledges
    RetryCap,       \* retry_count matters only up to this value (6 in the code)
    Backoff,        \* [1..RetryCap -> Nat]: units to wait after that many failures
    FlushMax,       \* OFFLINE_FLUSH_MAX_INTERVAL in units (20 in the code)
    FaultBudget     \* bound on crashes, failing loads and failing saves

ASSUME ThreadAssumption == /\ ProcessOf \in [Thread -> Process]
                           /\ Flusher \in Thread
ASSUME RequestAssumption == Poison \subseteq Request
ASSUME BoundAssumption == /\ RetryCap \in Nat \ {0}
                          /\ FlushMax \in Nat \ {0}
                          /\ FaultBudget \in Nat
ASSUME BackoffAssumption == Backoff \in [1..RetryCap -> Nat \ {0}]

VARIABLES
    file,       \* the queue as _load_queue returns it
    pc,         \* where each thread is
    mem,        \* flush: loaded items still to be looked at
    kept,       \* the list the thread is about to save
    elapsed,    \* units passed since the thread loaded the file
    pass,       \* the counters attempted and flushed of the current pass
    gate,       \* units until next_flush_at
    interval,   \* flush_interval, in units
    linked,     \* the processes whose client holds a JWT
    licensed,   \* the processes whose client has license_active
    server,     \* how the backend answers
    \* history
    accepted,   \* requests in the order _enqueue_offline took them
    used,       \* requests produced so far
    applied,    \* how often the backend applied a request (counted up to 2)
    unheard,    \* requests applied by a send that was not acknowledged
    wiped,      \* requests that were in the file when clear_local_state removed it
    stale,      \* threads whose loaded copy is older than the file
    faults,     \* kinds of fault that happened
    budget      \* faults still allowed

queueVars == <<file, pc, mem, kept, elapsed>>
flushVars == <<pass, gate, interval>>
envVars == <<linked, licensed, server>>
historyVars == <<accepted, used, applied, unheard, wiped, stale, faults, budget>>
vars == <<queueVars, flushVars, envVars, historyVars>>

-----------------------------------------------------------------------------
Item == [req : Request, retry : 0..RetryCap, wait : Nat]

Reqs(q) == {q[i].req : i \in DOMAIN q}

\* An entry as _enqueue_offline builds it.
Fresh(r) == [req |-> r, retry |-> 0, wait |-> 0]

\* An entry after a failed attempt: one more retry, next_retry_at moved on.
Failed(item) ==
    LET n == IF item.retry < RetryCap THEN item.retry + 1 ELSE RetryCap
    IN  [item EXCEPT !.retry = n, !.wait = Backoff[n]]

\* Mutant of Later: deadlines taken as durations that never run down.
LaterFrozen(q, n) == q

\* The entries of q when n more units have passed.
Later(q, n) ==
    [i \in DOMAIN q |->
        [q[i] EXCEPT !.wait = IF @ > n THEN @ - n ELSE 0]]

\* A file that is missing, empty or torn is loaded as an empty queue, and so is
\* an intact one that _load_queue fails to read or decrypt.
Unreadable == <<>>

States == {"idle", "append", "appendWrite", "flush", "flushWrite",
           "wipe", "wipeInFlush"}

InRMW(t) == pc[t] \in {"append", "appendWrite", "flush", "flushWrite", "wipeInFlush"}

Applied(r, n) == [applied EXCEPT ![r] = IF @ + n < 2 THEN @ + n ELSE 2]

\* Everyone else's loaded copy is out of date once t changes the file.
StaleBut(t) == stale \cup {u \in Thread \ {t} : InRMW(u)}

Init ==
    /\ file = Unreadable
    /\ pc = [t \in Thread |-> "idle"]
    /\ mem = [t \in Thread |-> <<>>]
    /\ kept = [t \in Thread |-> <<>>]
    /\ elapsed = [t \in Thread |-> 0]
    /\ pass = [attempted |-> FALSE, flushed |-> FALSE]
    /\ gate = 0
    /\ interval = 1
    /\ linked = Process
    /\ licensed = Process
    /\ server = "up"
    /\ accepted = <<>>
    /\ used = {}
    /\ applied = [r \in Request |-> 0]
    /\ unheard = {}
    /\ wiped = {}
    /\ stale = {}
    /\ faults = {}
    /\ budget = FaultBudget

-----------------------------------------------------------------------------
(* What the backend does with request r. One call may send it several       *)
(* times: without pins the session's adapter is Retry(total=3), for POST too,*)
(* after a lost connection, 502, 503 or 504.                                *)

\* times sends of r are applied; those no acknowledgement came back for are
\* remembered in unheard.
Applies(r, times, unacknowledged) ==
    /\ applied' = Applied(r, times)
    /\ unheard' = IF unacknowledged > 0 THEN unheard \cup {r} ELSE unheard

\* No send of the call is acknowledged; any number of them may be applied.
Unacknowledged(r) == \E n \in 0..2 : Applies(r, n, n)

\* HTTP success without success=false: _is_acknowledged_response holds for the
\* last send of the call, whatever became of those before it.
Acknowledges(r) ==
    /\ server = "up"
    /\ r \notin Poison
    /\ \E n \in 0..1 : Applies(r, n + 1, n)

\* An HTTP answer that is not an acknowledgement: an error of the backend, before
\* or after it applied the request, one of a proxy, or success=false.
Rejects(r) ==
    /\ server = "failing" \/ (server = "up" /\ r \in Poison)
    /\ Unacknowledged(r)

\* ConnectionError or Timeout.
NoAnswer(r) == server = "offline" /\ Unacknowledged(r)

\* The answer says that the device is unlinked.
Unlinked(r) == server = "unlinked" /\ Unacknowledged(r)

-----------------------------------------------------------------------------
(* sync_full, sync_delta, log_event                                        *)

Produce(t, r) ==
    /\ pc[t] = "idle"
    /\ ProcessOf[t] \in linked
    /\ r \notin used
    /\ used' = used \cup {r}

\* _load_queue: the queue in the file, or nothing when reading or decrypting an
\* intact file fails; the caller cannot tell that from an empty queue.
Loads(queue) ==
    \/ queue = file /\ UNCHANGED <<faults, budget>>
    \/ /\ file # Unreadable
       /\ queue = Unreadable
       /\ budget > 0
       /\ budget' = budget - 1
       /\ faults' = faults \cup {"failed_load"}

\* Mutant of Enqueue: the new entry is put first.
EnqueueFirst(t, r) ==
    /\ pc' = [pc EXCEPT ![t] = "append"]
    /\ \E queue \in {file, Unreadable} :
           Loads(queue) /\ kept' = [kept EXCEPT ![t] = <<Fresh(r)>> \o queue]
    /\ elapsed' = [elapsed EXCEPT ![t] = 0]
    /\ accepted' = Append(accepted, r)
    /\ stale' = stale \ {t}
    /\ UNCHANGED <<file, mem>>

\* _enqueue_offline: load the file and append in memory; the save follows.
Enqueue(t, r) ==
    /\ pc' = [pc EXCEPT ![t] = "append"]
    /\ \E queue \in {file, Unreadable} :
           Loads(queue) /\ kept' = [kept EXCEPT ![t] = Append(queue, Fresh(r))]
    /\ elapsed' = [elapsed EXCEPT ![t] = 0]
    /\ accepted' = Append(accepted, r)
    /\ stale' = stale \ {t}
    /\ UNCHANGED <<file, mem>>

ReportDelivered(t, r) ==
    /\ Produce(t, r)
    /\ Acknowledges(r)
    /\ UNCHANGED <<queueVars, flushVars, envVars, accepted, wiped, stale, faults,
                   budget>>

\* Rejected while the license is inactive (or, for sync_full, HTTP 413, or
\* any exception that is not a connection error): given up, not queued.
ReportDropped(t, r) ==
    /\ Produce(t, r)
    /\ Rejects(r)
    /\ UNCHANGED <<queueVars, flushVars, envVars, accepted, wiped, stale, faults,
                   budget>>

ReportQueued(t, r) ==
    /\ Produce(t, r)
    /\ \/ Rejects(r) /\ ProcessOf[t] \in licensed
       \/ NoAnswer(r)
    /\ Enqueue(t, r)
    /\ UNCHANGED <<flushVars, envVars, wiped>>

\* The answer says the device is unlinked: _handle_unlinked_response.
ReportUnlinked(t, r) ==
    /\ Produce(t, r)
    /\ Unlinked(r)
    /\ pc' = [pc EXCEPT ![t] = "wipe"]
    /\ UNCHANGED <<file, mem, kept, elapsed, flushVars, envVars, accepted, wiped,
                   stale, faults, budget>>

-----------------------------------------------------------------------------
(* flush_offline_queue                                                     *)

\* The pass begins: every early return is behind it. One of them is that the
\* load fails, which here changes nothing: the pass is over before it saves.
FlushStart ==
    /\ pc[Flusher] = "idle"
    /\ ProcessOf[Flusher] \in linked
    /\ server # "offline"               \* check_backend_connectivity
    /\ file # <<>>
    /\ ProcessOf[Flusher] \in licensed
    /\ gate = 0
    /\ pc' = [pc EXCEPT ![Flusher] = "flush"]
    /\ mem' = [mem EXCEPT ![Flusher] = file]
    /\ kept' = [kept EXCEPT ![Flusher] = <<>>]
    /\ elapsed' = [elapsed EXCEPT ![Flusher] = 0]
    /\ stale' = stale \ {Flusher}
    /\ pass' = [attempted |-> FALSE, flushed |-> FALSE]
    /\ UNCHANGED <<file, gate, interval, envVars, accepted, used, applied,
                   unheard, wiped, faults, budget>>

\* The next entry of the pass, taken off the loaded list.
FlushNext ==
    /\ pc[Flusher] = "flush"
    /\ mem[Flusher] # <<>>
    /\ mem' = [mem EXCEPT ![Flusher] = Tail(@)]

\* Mutant of Keep: failed and skipped entries are not put into remaining.
Forget(item) == UNCHANGED kept

\* Mutant of Keep: remaining is built back to front.
KeepFirst(item) == kept' = [kept EXCEPT ![Flusher] = <<item>> \o @]

Keep(item) == kept' = [kept EXCEPT ![Flusher] = Append(@, item)]

\* next_retry_at lies after now_ts, the time at which the pass began.
FlushSkip ==
    /\ FlushNext
    /\ Head(mem[Flusher]).wait > 0
    /\ Keep(Head(mem[Flusher]))
    /\ UNCHANGED <<file, pc, elapsed, flushVars, envVars, historyVars>>

\* Mutant of FlushDelivered: a delivered entry stays in remaining.
FlushDeliveredKeeps ==
    /\ FlushNext
    /\ LET item == Head(mem[Flusher])
       IN  /\ item.wait = 0
           /\ Acknowledges(item.req)
           /\ Keep(item)
    /\ pass' = [attempted |-> TRUE, flushed |-> TRUE]
    /\ UNCHANGED <<file, pc, elapsed, gate, interval, envVars, accepted,
                   used, wiped, stale, faults, budget>>

FlushDelivered ==
    /\ FlushNext
    /\ LET item == Head(mem[Flusher])
       IN  /\ item.wait = 0
           /\ Acknowledges(item.req)
    /\ pass' = [attempted |-> TRUE, flushed |-> TRUE]
    /\ UNCHANGED <<file, pc, kept, elapsed, gate, interval, envVars, accepted,
                   used, wiped, stale, faults, budget>>

FlushFailed ==
    /\ FlushNext
    /\ LET item == Head(mem[Flusher])
       IN  /\ item.wait = 0
           /\ Rejects(item.req) \/ NoAnswer(item.req)
           /\ Keep(Failed(item))
    /\ pass' = [pass EXCEPT !.attempted = TRUE]
    /\ UNCHANGED <<file, pc, elapsed, gate, interval, envVars, accepted, used,
                   wiped, stale, faults, budget>>

\* "unlinked": clear_local_state runs, then the loop breaks; the entries not
\* looked at are not in remaining.
FlushUnlinked ==
    /\ pc[Flusher] = "flush"
    /\ mem[Flusher] # <<>>
    /\ Head(mem[Flusher]).wait = 0
    /\ Unlinked(Head(mem[Flusher]).req)
    /\ mem' = [mem EXCEPT ![Flusher] = <<>>]
    /\ pc' = [pc EXCEPT ![Flusher] = "wipeInFlush"]
    /\ pass' = [pass EXCEPT !.attempted = TRUE]
    /\ UNCHANGED <<file, kept, elapsed, gate, interval, envVars, accepted, used,
                   wiped, stale, faults, budget>>

-----------------------------------------------------------------------------
(* _save_queue                                                             *)

\* Ready to save: the append is done, or the loop over the queue has ended.
Saving(t) == pc[t] = "append" \/ (pc[t] = "flush" /\ mem[t] = <<>>)

\* A save over changes this thread has not seen.
StaleSave(t) == IF t \in stale THEN {"stale_save"} ELSE {}

\* Mutant of FlushDone: the doubled interval is not cut off.
FlushDoneUncapped(t) ==
    IF pc[t] \in {"flush", "flushWrite"}
    THEN /\ interval' = IF pass.attempted /\ ~pass.flushed THEN 2 * interval ELSE 1
         /\ gate' = interval'
    ELSE UNCHANGED <<gate, interval>>

\* After the save, flush_offline_queue sets flush_interval and next_flush_at.
\* A pass that attempted nothing, or delivered something, resets the interval.
FlushDone(t) ==
    IF pc[t] \in {"flush", "flushWrite"}
    THEN /\ interval' = IF pass.attempted /\ ~pass.flushed
                        THEN IF 2 * interval < FlushMax THEN 2 * interval ELSE FlushMax
                        ELSE 1
         /\ gate' = interval'
    ELSE UNCHANGED <<gate, interval>>

\* open(self.queue_file, "wb")
Truncate(t) ==
    /\ Saving(t)
    /\ file' = Unreadable
    /\ pc' = [pc EXCEPT ![t] = IF pc[t] = "append" THEN "appendWrite" ELSE "flushWrite"]
    /\ stale' = StaleBut(t)
    /\ faults' = faults \cup StaleSave(t)
    /\ UNCHANGED <<mem, kept, elapsed, flushVars, envVars, accepted, used,
                   applied, unheard, wiped, budget>>

\* The bytes reach the file. When another thread wrote to it since this one
\* emptied it, the two contents may be mixed, and then nothing can be loaded.
Write(t) ==
    /\ pc[t] \in {"appendWrite", "flushWrite"}
    /\ \/ file' = Later(kept[t], elapsed[t])
       \/ t \in stale /\ file' = Unreadable
    /\ pc' = [pc EXCEPT ![t] = "idle"]
    /\ kept' = [kept EXCEPT ![t] = <<>>]
    /\ elapsed' = [elapsed EXCEPT ![t] = 0]
    /\ stale' = StaleBut(t) \ {t}
    /\ faults' = faults \cup StaleSave(t)
    /\ FlushDone(t)
    /\ UNCHANGED <<mem, pass, envVars, accepted, used, applied, unheard,
                   wiped, budget>>

\* Encrypting or opening fails; the exception is logged and forgotten.
SaveFails(t) ==
    /\ Saving(t)
    /\ budget > 0
    /\ budget' = budget - 1
    /\ faults' = faults \cup {IF pc[t] = "append" THEN "unsaved_append" ELSE "unsaved_flush"}
    /\ pc' = [pc EXCEPT ![t] = "idle"]
    /\ kept' = [kept EXCEPT ![t] = <<>>]
    /\ elapsed' = [elapsed EXCEPT ![t] = 0]
    /\ stale' = stale \ {t}
    /\ FlushDone(t)
    /\ UNCHANGED <<file, mem, pass, envVars, accepted, used, applied, unheard, wiped>>

-----------------------------------------------------------------------------
(* Unlink, enrolment, the environment                                      *)

\* clear_local_state in thread t: the file goes and the client forgets its
\* JWT. In a flush, the save of remaining is still to come.
Wipe(t) ==
    /\ pc[t] \in {"wipe", "wipeInFlush"}
    /\ file' = <<>>
    /\ wiped' = wiped \cup Reqs(file)
    /\ linked' = linked \ {ProcessOf[t]}
    /\ licensed' = licensed \cup {ProcessOf[t]}
    /\ pc' = [pc EXCEPT ![t] = IF pc[t] = "wipe" THEN "idle" ELSE "flush"]
    /\ stale' = StaleBut(t)
    /\ UNCHANGED <<mem, kept, elapsed, flushVars, server, accepted, used,
                   applied, unheard, faults, budget>>

\* unlink_self, or a poll of the join status in the GUI, that finds the
\* device unlinked.
Unlink(t) ==
    /\ pc[t] = "idle"
    /\ t # Flusher
    /\ ProcessOf[t] \in linked
    /\ server = "unlinked"
    /\ pc' = [pc EXCEPT ![t] = "wipe"]
    /\ UNCHANGED <<file, mem, kept, elapsed, flushVars, envVars, historyVars>>

\* A new enrolment: the process loads a JWT again.
Enroll(p) ==
    /\ p \notin linked
    /\ server = "up"
    /\ linked' = linked \cup {p}
    /\ UNCHANGED <<queueVars, flushVars, licensed, server, historyVars>>

\* _apply_license_status on some answer of the backend.
LicenseChange(p) ==
    /\ p = ProcessOf[Flusher]
    /\ server # "offline"
    /\ licensed' = IF p \in licensed THEN licensed \ {p} ELSE licensed \cup {p}
    /\ UNCHANGED <<queueVars, flushVars, linked, server, historyVars>>

ServerChange ==
    /\ server' \in {"up", "failing", "offline", "unlinked"} \ {server}
    /\ UNCHANGED <<queueVars, flushVars, linked, licensed, historyVars>>

Tick ==
    /\ file' = Later(file, 1)
    /\ gate' = IF gate > 0 THEN gate - 1 ELSE 0
    /\ elapsed' = [t \in Thread |->
                     IF InRMW(t) /\ elapsed[t] < Backoff[RetryCap]
                     THEN elapsed[t] + 1 ELSE elapsed[t]]
    /\ UNCHANGED <<pc, mem, kept, pass, interval, envVars, historyVars>>

\* The process dies and starts again: what was in memory is gone, the file
\* stays as it is, next_flush_at and flush_interval start over.
Crash(p) ==
    LET dead == {t \in Thread : ProcessOf[t] = p}
        At(states) == \E t \in dead : pc[t] \in states
    IN  /\ budget > 0
        /\ budget' = budget - 1
        /\ faults' = faults
             \cup (IF At({"append"}) THEN {"unsaved_append"} ELSE {})
             \cup (IF At({"appendWrite", "flushWrite"}) THEN {"torn_save"} ELSE {})
             \cup (IF At({"flush", "wipeInFlush"}) THEN {"unsaved_flush"} ELSE {})
        /\ pc' = [t \in Thread |-> IF t \in dead THEN "idle" ELSE pc[t]]
        /\ mem' = [t \in Thread |-> IF t \in dead THEN <<>> ELSE mem[t]]
        /\ kept' = [t \in Thread |-> IF t \in dead THEN <<>> ELSE kept[t]]
        /\ elapsed' = [t \in Thread |-> IF t \in dead THEN 0 ELSE elapsed[t]]
        /\ stale' = stale \ dead
        /\ IF Flusher \in dead
           THEN gate' = 0 /\ interval' = 1 ELSE UNCHANGED <<gate, interval>>
        /\ licensed' = licensed \cup {p}
        /\ UNCHANGED <<file, pass, linked, server, accepted, used, applied,
                       unheard, wiped>>

-----------------------------------------------------------------------------
Report(t, r) == \/ ReportDelivered(t, r)
                \/ ReportDropped(t, r)
                \/ ReportQueued(t, r)
                \/ ReportUnlinked(t, r)

Flush == FlushStart \/ FlushSkip \/ FlushDelivered \/ FlushFailed \/ FlushUnlinked

Save(t) == Truncate(t) \/ Write(t)

Next ==
    \/ \E t \in Thread : \/ \E r \in Request : Report(t, r)
                         \/ Save(t)
                         \/ SaveFails(t)
                         \/ Wipe(t)
                         \/ Unlink(t)
    \/ Flush
    \/ \E p \in Process : Enroll(p) \/ LicenseChange(p) \/ Crash(p)
    \/ ServerChange
    \/ Tick

\* A thread that has begun a call finishes it, the daemon's loop comes back to
\* flush_offline_queue, and time passes. Nothing is assumed of the backend.
Fairness ==
    /\ WF_vars(Flush)
    /\ \A t \in Thread : WF_vars(Save(t)) /\ WF_vars(Wipe(t))
    /\ WF_vars(Tick)

Spec == Init /\ [][Next]_vars /\ Fairness

-----------------------------------------------------------------------------
TypeOK ==
    /\ file \in Seq(Item)
    /\ pc \in [Thread -> States]
    /\ mem \in [Thread -> Seq(Item)]
    /\ kept \in [Thread -> Seq(Item)]
    /\ elapsed \in [Thread -> Nat]
    /\ pass \in [attempted : BOOLEAN, flushed : BOOLEAN]
    /\ gate \in 0..FlushMax
    /\ interval \in 1..FlushMax
    /\ linked \subseteq Process
    /\ licensed \subseteq Process
    /\ server \in {"up", "failing", "offline", "unlinked"}
    /\ accepted \in Seq(Request)
    /\ used \subseteq Request
    /\ applied \in [Request -> 0..2]
    /\ unheard \subseteq Request
    /\ wiped \subseteq Request
    /\ stale \subseteq Thread
    /\ faults \subseteq {"stale_save", "torn_save", "failed_load", "unsaved_append",
                   "unsaved_flush"}
    /\ budget \in 0..FaultBudget
-----------------------------------------------------------------------------
(* Properties                                                              *)

\* A request is held when it is in the file, or a thread that has loaded the
\* file still has to write it back.
Held(r) ==
    \/ r \in Reqs(file)
    \/ \E t \in Thread : /\ pc[t] \in {"append", "appendWrite", "flushWrite"}
                         /\ r \in Reqs(kept[t])

Taken == {accepted[i] : i \in DOMAIN accepted}

LossFault ==
    faults \cap {"stale_save", "torn_save", "failed_load", "unsaved_append"} # {}

\* A request _enqueue_offline took is delivered, still held, or was cleared by
\* an unlink; anything else needs two overlapping uses of the file, a death in
\* the middle of a write, an append that was never written, or one to an intact
\* file that _load_queue could not read or decrypt and so took for empty. In
\* particular a failing delivery, an unlinked answer in the middle of a pass, a
\* death in the middle of a pass and a failing load of flush_offline_queue lose
\* nothing.
NoSilentLoss ==
    LossFault \/ \A r \in Taken : applied[r] > 0 \/ r \in wiped \/ Held(r)

\* The backend applies a request a second time only if it applied a send of it
\* that it did not acknowledge (a lost answer, an error answer after the fact,
\* success=false), or if the pass that delivered it never got to save what
\* remains, or saved over another thread's changes. What was acknowledged is
\* never sent again otherwise.
DuplicateOnlyAfterFault ==
    \A r \in Request :
        applied[r] = 2 => \/ r \in unheard
                          \/ faults \cap {"stale_save", "unsaved_flush", "torn_save"} # {}

Position(r) == CHOOSE i \in DOMAIN accepted : accepted[i] = r

\* Requests in the order in which _enqueue_offline took them, each once.
Ordered(q) ==
    \A i, j \in DOMAIN q : i < j => Position(q[i].req) < Position(q[j].req)

\* The file lists requests in the order in which _enqueue_offline took them,
\* through skipped, failed and delivered entries (the list remaining of
\* flush_offline_queue), and also when two uses of the file overlap: that can
\* lose entries, never swap two of them.
FileKeepsOrder == Ordered(file)

\* A pass delivers a request ahead of one that was queued earlier and is still
\* in the file only if this pass has already tried the earlier one, or skipped
\* it because an attempt to deliver it has failed before: next_retry_at is what
\* lets a later delta overtake, never the order of the loop, nor an append that
\* another thread saves in the middle of the pass.
OvertakesOnlyFailed ==
    [][\A r \in Taken :
         (applied'[r] # applied[r] /\ "stale_save" \notin faults) =>
            \A s \in Reqs(file) :
                Position(s) < Position(r) =>
                    \/ applied[s] > 0
                    \/ \E k \in DOMAIN kept[Flusher] : /\ kept[Flusher][k].req = s
                                                       /\ kept[Flusher][k].retry > 0]_vars

\* The backend is back for good and the daemon is enrolled and licensed.
Calm == server = "up" /\ ProcessOf[Flusher] \in linked \cap licensed

\* Then the queue empties, but for the requests the backend never acknowledges:
\* those neither block the others nor bring the pass to a halt.
Drains == <>[]Calm => <>[](Reqs(file) \subseteq Poison)
=============================================================================
