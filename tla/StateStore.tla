------------------------------ MODULE StateStore ------------------------------
(***************************************************************************)
(* Where the agent keeps its identity, and how it seals it.                *)
(*                                                                         *)
(* Two processes of one machine, the window ("gui") and the background     *)
(* agent ("daemon"), each look for a state directory by probing candidates *)
(* with a file of a fixed name, and keep the enrolment token in two files  *)
(* of the directory they settle on: "dat" (zerowatch_token.dat) and "enc"  *)
(* (agent_token.enc; Windows has only the first).  Files are truncated and *)
(* rewritten in place, without a lock.  A sealed token is self-contained   *)
(* on Linux and Windows; on macOS it is a reference to the one keychain    *)
(* record named "jwt", or the token itself when the keychain refuses.      *)
(*                                                                         *)
(* Tokens are numbered in the order the backend issues them, 0 is "none".  *)
(***************************************************************************)
EXTENDS Integers, Sequences, FiniteSets, FiniteSetsExt

CONSTANTS MaxToken,    \* bound: tokens the backend issues
          MaxEvents,   \* bound: crashes, failed writes and removals, unlinks
          Torn, Ref    \* contents of a file: truncated; a keychain reference

ASSUME StoreAssumption == /\ MaxToken \in Nat \ {0}
                          /\ MaxEvents \in Nat
                          /\ Torn # Ref
                          /\ {Torn, Ref} \cap Nat = {}

VARIABLES machine,  \* platform, uid, keychain rights: chosen at the start
          open,     \* the shared directory exists and everyone may write in it
          probe,    \* directory -> who owns a probe file left in it, or "none"
          file,     \* directory -> file -> contents (0: no file)
          locked,   \* Windows: the file was created by an elevated process
          chain,    \* the token in the record of the system's keychain, or 0
          srv,      \* the last token issued
          proc,     \* process -> its local state
          saved,    \* directory -> the last token saved whole in it, or 0
          wiped,    \* directory -> no token up to this one should come back
          harm,     \* directory -> the hazards met since the last whole save
          events

vars == <<machine, open, probe, file, locked, chain, srv, proc, saved, wiped,
          harm, events>>
files == <<file, locked, chain, saved, wiped, harm>>
probing == <<open, probe>>

Procs == {"gui", "daemon"}
Users == {"root", "user"}
Dirs == {"system", "varlib", "tmp"} \cup Users \cup Procs
Files == {"dat", "enc"}
Tokens == 1..MaxToken

\* What can spoil a saved token or its removal: the only good copy was put at
\* risk ("lone"), an older token may have taken its place ("older"), or an
\* unlink could not remove it ("kept").
Hazards == {"lone", "older", "kept"}

platform == machine.platform
uid(p) == machine.uid[p]
Other(f) == CHOOSE g \in Files : g # f
(***************************************************************************)
(* The candidates in the order each platform's code tries them; the last   *)
(* one is taken without a probe.                                           *)
(***************************************************************************)
Candidates(p) ==
    CASE platform = "windows" -> <<"system">>
      [] platform = "linux" -> <<"system", uid(p), p>>
      [] platform = "macos" /\ p = "gui" -> <<"system", "tmp">>
      [] OTHER -> <<"system", "varlib", "tmp">>

\* Creating a candidate, opening up its mode and writing in it.
MayUse(p, d) == \/ uid(p) = "root"
                \/ d = "system" /\ platform = "macos" /\ open
                \/ d \notin {"system", "varlib"}

\* The order in which a process reads, writes and removes the two files.
Order(p) == IF platform = "windows" THEN <<"dat">>
            ELSE IF p = "gui" THEN <<"dat", "enc">> ELSE <<"enc", "dat">>

\* The window's code is also the Windows daemon's.
Window(p) == p = "gui" \/ platform = "windows"

(***************************************************************************)
(* What a process gets from the contents of a file.  On macOS bytes that   *)
(* are not a RAW:: token lead to the keychain record, whatever they are.   *)
(***************************************************************************)
SelfContained(c) == c \in Tokens

Record(p) == IF platform = "macos" /\ p \in machine.reads THEN chain ELSE 0

Decoded(p, c) == IF SelfContained(c) THEN c
                 ELSE IF c \in {Ref, Torn} THEN Record(p) ELSE 0

Good(d, f) == file[d][f] \in Tokens \cup {Ref}

\* The token the process would load from the directory now.
Loads(p, d) ==
    LET found == {i \in DOMAIN Order(p) : Decoded(p, file[d][Order(p)[i]]) # 0}
    IN  IF found = {} THEN 0 ELSE Decoded(p, file[d][Order(p)[Min(found)]])

Writing == {"seal", "cut", "fill", "drop", "wipe", "remake"}
Alone(p, d) == \A q \in Procs \ {p} : ~(proc[q].pc \in Writing /\ proc[q].dir = d)

Harm(d, hazards) == harm' = [harm EXCEPT ![d] = @ \cup hazards]
-----------------------------------------------------------------------------
Off == [pc |-> "off", at |-> 1, dir |-> "none", tok |-> 0, pay |-> 0,
        drop |-> FALSE, bare |-> FALSE, whole |-> TRUE, sole |-> FALSE]

\* Back in its loop, with this token in memory.
Rest(p, token) == [proc EXCEPT ![p] = [Off EXCEPT !.pc = "idle", !.dir = proc[p].dir,
                                                  !.tok = token]]
Go(p, pc, at) == [proc EXCEPT ![p].pc = pc, ![p].at = at]

\* A process begins to write; what the other one is writing is disturbed.
Begin(p, state, hazards) ==
    /\ proc' = [q \in Procs |->
                  IF q = p THEN [state EXCEPT !.sole = Alone(p, state.dir)]
                  ELSE [proc[q] EXCEPT !.sole = @ /\ proc[q].dir # state.dir]]
    /\ Harm(state.dir, hazards \cup (IF Alone(p, state.dir) THEN {} ELSE {"older"}))

\* The last step of a write that nobody disturbed ends the earlier hazards.
EndHarm(p, done) ==
    harm' = IF done /\ proc[p].sole THEN [harm EXCEPT ![proc[p].dir] = {}] ELSE harm

Init ==
    /\ machine \in [platform : {"linux", "macos", "windows"},
                    uid : {u \in [Procs -> Users] : u["gui"] = "user"},
                    reads : SUBSET Procs, writes : SUBSET Procs]
    /\ machine.writes \subseteq machine.reads
    /\ machine.platform # "macos" => machine.reads = {}
    /\ machine.uid["daemon"] = "user" => {machine.reads, machine.writes} \subseteq {{}, Procs}
    /\ open = FALSE /\ locked = FALSE
    /\ probe = [d \in Dirs |-> "none"]
    /\ file = [d \in Dirs |-> [f \in Files |-> 0]]
    /\ chain = 0 /\ srv = 0 /\ events = 0
    /\ proc = [p \in Procs |-> Off]
    /\ saved = [d \in Dirs |-> 0] /\ wiped = [d \in Dirs |-> 0]
    /\ harm = [d \in Dirs |-> {}]
-----------------------------------------------------------------------------
(***************************************************************************)
(* Choosing the directory.                                                 *)
(***************************************************************************)
Starting(p) == proc[p].pc \in {"off", "probe"} /\ platform # "windows"
Candidate(p) == Candidates(p)[proc[p].at]
Probed(p) == proc[p].at < Len(Candidates(p))

\* Nobody else's probe file is in the way.
Free(p, d) == uid(p) = "root" \/ probe[d] \in {"none", uid(p)}

\* Mutant: the probe belongs to a process, not to a user.
ProbeOpensAsProcess(p) ==
    LET d == Candidate(p) IN
    /\ Starting(p) /\ Probed(p)
    /\ MayUse(p, d) /\ Free(p, d)
    /\ probe' = [probe EXCEPT ![d] = IF @ = "none" THEN p ELSE @]
    /\ open' = (open \/ (d = "system" /\ uid(p) = "root"))
    /\ proc' = Go(p, "held", proc[p].at)
    /\ UNCHANGED <<machine, files, srv, events>>

\* makedirs, chmod and the creation of the probe file succeed.
ProbeOpens(p) ==
    LET d == Candidate(p) IN
    /\ Starting(p) /\ Probed(p)
    /\ MayUse(p, d) /\ Free(p, d)
    /\ probe' = [probe EXCEPT ![d] = IF @ = "none" THEN uid(p) ELSE @]
    /\ open' = (open \/ (d = "system" /\ uid(p) = "root"))
    /\ proc' = Go(p, "held", proc[p].at)
    /\ UNCHANGED <<machine, files, srv, events>>

\* The directory may not be used, or the probe of another user is in the way.
ProbeRefused(p) ==
    LET d == Candidate(p) IN
    /\ Starting(p) /\ Probed(p)
    /\ ~(MayUse(p, d) /\ Free(p, d))
    /\ proc' = Go(p, "probe", proc[p].at + 1)
    /\ UNCHANGED <<machine, files, probing, srv, events>>

\* The probe is gone before its owner removes it: an OSError like any other.
ProbeLost(p) ==
    /\ proc[p].pc = "held" /\ probe[Candidate(p)] = "none"
    /\ proc' = Go(p, "probe", proc[p].at + 1)
    /\ UNCHANGED <<machine, files, probing, srv, events>>

\* A fallback is given the token files it lacks, from the machine's directory.
Source(p) == IF platform = "macos" THEN "varlib" ELSE "system"
Missing(p, d) ==
    IF d = "system" \/ (platform = "macos" /\ p = "gui") THEN {}
    ELSE {f \in Files : file[d][f] = 0 /\ file[Source(p)][f] # 0}

Settle(p, d) ==
    LET copied == Missing(p, d) IN
    /\ proc' = [proc EXCEPT ![p].pc = "load", ![p].at = 1, ![p].dir = d]
    /\ file' = [file EXCEPT ![d] = [f \in Files |->
                  IF f \in copied THEN file[Source(p)][f] ELSE @[f]]]
    /\ Harm(d, IF copied = {} THEN {} ELSE {"older"})
    /\ UNCHANGED <<machine, locked, chain, saved, wiped, open, srv, events>>

ProbeCloses(p) ==
    LET d == Candidate(p) IN
    /\ proc[p].pc = "held" /\ probe[d] # "none"
    /\ probe' = [probe EXCEPT ![d] = "none"]
    /\ Settle(p, d)

LastResort(p) ==
    /\ Starting(p) /\ ~Probed(p)
    /\ Settle(p, Candidate(p))
    /\ UNCHANGED probe

\* Any other use of the directory probes it again: the file comes and goes.
ProbeAgain(p) ==
    LET d == proc[p].dir IN
    /\ proc[p].pc = "idle" /\ d # Candidates(p)[Len(Candidates(p))]
    /\ Free(p, d)
    /\ probe' = [probe EXCEPT ![d] = "none"]
    /\ UNCHANGED <<machine, files, open, srv, proc, events>>
-----------------------------------------------------------------------------
(***************************************************************************)
(* Windows: a start takes over a file it may not write, by removing and    *)
(* recreating it.                                                          *)
(***************************************************************************)
\* A file or the system fails the code.
Fault == events < MaxEvents /\ events' = events + 1

\* Windows does not remove a file that a process holds open.
HeldOpen(p) == platform = "windows" /\ \E q \in Procs \ {p} : proc[q].pc = "fill"

Foreign(p) == /\ locked /\ uid(p) = "user" /\ file["system"]["dat"] # 0
              /\ ~HeldOpen(p)

MendSkips(p) ==
    /\ proc[p].pc = "off" /\ platform = "windows" /\ ~Foreign(p)
    /\ Settle(p, "system")
    /\ UNCHANGED probe

MendTakes(p) ==
    /\ proc[p].pc = "off" /\ platform = "windows" /\ Foreign(p)
    /\ Begin(p, [proc[p] EXCEPT !.pc = "remake", !.dir = "system",
                                !.pay = file["system"]["dat"], !.bare = TRUE], {})
    /\ file' = [file EXCEPT !["system"]["dat"] = 0]
    /\ locked' = FALSE
    /\ UNCHANGED <<machine, chain, saved, wiped, probing, srv, events>>

MendPuts(p) ==
    /\ proc[p].pc = "remake"
    /\ proc' = [proc EXCEPT ![p].pc = "load", ![p].at = 1, ![p].bare = FALSE]
    /\ file' = [file EXCEPT !["system"]["dat"] = proc[p].pay]
    /\ UNCHANGED <<machine, locked, chain, saved, wiped, harm, probing, srv, events>>
-----------------------------------------------------------------------------
(***************************************************************************)
(* Loading.  A token found elsewhere than in the process's own first file  *)
(* is saved again; the window also saves again whatever is not a keychain  *)
(* reference, and then removes the other file it was found in.             *)
(***************************************************************************)
Load(p) ==
    /\ proc[p].pc = "idle"
    /\ proc' = Go(p, "load", 1)
    /\ UNCHANGED <<machine, files, probing, srv, events>>

Read(p) ==
    LET s == proc[p]
        content == file[s.dir][Order(p)[s.at]]
        token == Decoded(p, content)
        again == s.at > 1 \/ (Window(p) /\ content # Ref)
    IN
    /\ s.pc = "load"
    /\ \/ /\ token = 0 /\ s.at < Len(Order(p))
          /\ proc' = Go(p, "load", s.at + 1)
          /\ UNCHANGED harm
       \/ /\ IF token = 0 THEN s.at = Len(Order(p)) ELSE ~again
          /\ proc' = Rest(p, token)
          /\ UNCHANGED harm
       \/ /\ token # 0 /\ again
          /\ Begin(p, [s EXCEPT !.pc = "seal", !.tok = token,
                                !.drop = Window(p) /\ s.at > 1],
                   IF content = Torn THEN {"older"} ELSE {})
    /\ UNCHANGED <<machine, file, locked, chain, saved, wiped, probing, srv, events>>

(***************************************************************************)
(* Saving: seal, then truncate and fill one file after the other.          *)
(***************************************************************************)
Enrol(p) ==
    /\ proc[p].pc = "idle" /\ srv < MaxToken
    /\ srv' = srv + 1
    /\ Begin(p, [proc[p] EXCEPT !.pc = "seal", !.tok = srv + 1, !.drop = FALSE], {})
    /\ UNCHANGED <<machine, file, locked, chain, saved, wiped, probing, events>>

\* The record is one: a seal changes what the references elsewhere stand for.
Refers(d) == \/ \E f \in Files : file[d][f] = Ref
             \/ \E q \in Procs : proc[q].dir = d /\ proc[q].pay = Ref

\* The keychain takes the record: added, or updated where it was there.
Kept(p) == platform = "macos" /\ p \in machine.writes
Recorded(p) == IF Kept(p) THEN proc[p].tok ELSE chain
Sealed(p) == IF Kept(p) THEN Ref ELSE proc[p].tok

Seal(p) ==
    LET elsewhere == IF Kept(p) THEN {d \in Dirs \ {proc[p].dir} : Refers(d)} ELSE {}
    IN
    /\ proc[p].pc = "seal"
    /\ chain' = Recorded(p)
    /\ proc' = [q \in Procs |->
                  IF q = p THEN [proc[p] EXCEPT !.pc = "cut", !.at = 1, !.whole = TRUE,
                                                !.pay = Sealed(p)]
                  ELSE [proc[q] EXCEPT !.sole = @ /\ proc[q].dir \notin elsewhere]]
    /\ harm' = [d \in Dirs |-> harm[d] \cup (IF d \in elsewhere THEN {"older"} ELSE {})]
    /\ UNCHANGED <<machine, file, locked, saved, wiped, probing, srv, events>>

Target(p) == Order(p)[proc[p].at]

\* Mutant: both files are truncated before either is filled.
CutBoth(p) ==
    LET d == proc[p].dir IN
    /\ proc[p].pc = "cut"
    /\ ~(locked /\ uid(p) = "user" /\ file[d][Target(p)] # 0)
    /\ file' = [file EXCEPT ![d] = [f \in Files |-> IF @[f] = 0 THEN 0 ELSE Torn]]
    /\ locked' = IF file[d][Target(p)] = 0
                 THEN platform = "windows" /\ uid(p) = "root" ELSE locked
    /\ proc' = [proc EXCEPT ![p].pc = "fill", ![p].bare = ~Good(d, Other(Target(p)))]
    /\ UNCHANGED <<machine, chain, saved, wiped, harm, probing, srv, events>>

\* open(path, "wb") has truncated the file.
Cut(p) ==
    LET d == proc[p].dir IN
    /\ proc[p].pc = "cut"
    /\ ~(locked /\ uid(p) = "user" /\ file[d][Target(p)] # 0)
    /\ file' = [file EXCEPT ![d][Target(p)] = Torn]
    /\ locked' = IF file[d][Target(p)] = 0
                 THEN platform = "windows" /\ uid(p) = "root" ELSE locked
    /\ proc' = [proc EXCEPT ![p].pc = "fill", ![p].bare = ~Good(d, Other(Target(p)))]
    /\ UNCHANGED <<machine, chain, saved, wiped, harm, probing, srv, events>>

\* After a file: the window gives up when its first file could not be written.
Onward(p, ok) ==
    LET s == proc[p]
        more == s.at < Len(Order(p)) /\ ~(Window(p) /\ ~ok)
        next == IF more THEN "cut" ELSE IF s.drop THEN "drop" ELSE "idle"
    IN  IF next = "idle" THEN Rest(p, s.tok)
        ELSE [proc EXCEPT ![p].pc = next, ![p].at = IF more THEN s.at + 1 ELSE 1,
                          ![p].bare = FALSE, ![p].whole = s.whole /\ ok]

Fill(p) ==
    LET s == proc[p]
        d == s.dir
        done == s.at = Len(Order(p)) /\ s.whole
    IN
    /\ s.pc = "fill"
    /\ file' = [file EXCEPT ![d][Target(p)] = s.pay]
    /\ proc' = Onward(p, TRUE)
    /\ saved' = IF done THEN [saved EXCEPT ![d] = s.tok] ELSE saved
    /\ EndHarm(p, done /\ s.tok > wiped[d])
    /\ UNCHANGED <<machine, locked, chain, wiped, probing, srv, events>>

\* The file cannot be opened, or the disk fills up after the truncation.
WriteFails(p) ==
    LET s == proc[p] IN
    /\ s.pc \in {"cut", "fill"} /\ Fault
    /\ proc' = Onward(p, FALSE)
    /\ Harm(s.dir, IF s.bare THEN {"lone"} ELSE {})
    /\ UNCHANGED <<machine, file, locked, chain, saved, wiped, probing, srv>>

\* The window removes the file it found the token in, whatever the save did;
\* it does not mind a removal that fails.
Drop(p) ==
    LET d == proc[p].dir IN
    /\ proc[p].pc = "drop"
    /\ \/ /\ file' = [file EXCEPT ![d]["enc"] = 0]
          /\ Harm(d, IF Good(d, "dat") THEN {} ELSE {"lone"})
          /\ UNCHANGED events
       \/ Fault /\ UNCHANGED <<file, harm>>
    /\ proc' = Rest(p, proc[p].tok)
    /\ UNCHANGED <<machine, locked, chain, saved, wiped, probing, srv>>

(***************************************************************************)
(* Unlinking: the files go one by one, the keychain records stay. The      *)
(* daemon's clear_jwt does the same to a token that is saved whole, when a *)
(* request at its start is merely not answered.                            *)
(***************************************************************************)
Unlink(p) ==
    /\ proc[p].pc = "idle" /\ proc[p].tok # 0 /\ Fault
    /\ Begin(p, [proc[p] EXCEPT !.pc = "wipe", !.at = 1, !.pay = srv], {})
    /\ saved' = [saved EXCEPT ![proc[p].dir] = 0]
    /\ UNCHANGED <<machine, file, locked, chain, wiped, probing, srv>>

\* Mutant: agent_token.enc is not in the list.
WipeOnlyDat(p) ==
    LET s == proc[p]
        d == s.dir
        last == s.at = Len(Order(p))
    IN
    /\ s.pc = "wipe"
    /\ file' = IF HeldOpen(p) THEN file ELSE [file EXCEPT ![d]["dat"] = 0]
    /\ proc' = IF last THEN Rest(p, 0) ELSE Go(p, "wipe", s.at + 1)
    /\ wiped' = IF last THEN [wiped EXCEPT ![d] = s.pay] ELSE wiped
    /\ EndHarm(p, last)
    /\ UNCHANGED <<machine, locked, chain, saved, probing, srv, events>>

\* A removal that fails is logged at most: the file is another user's in a
\* sticky directory, or held open on Windows, or the system refuses.
Removal(p, gone) ==
    IF gone THEN /\ ~HeldOpen(p)
                 /\ file' = [file EXCEPT ![proc[p].dir][Target(p)] = 0]
                 /\ UNCHANGED events
            ELSE /\ \/ HeldOpen(p) /\ UNCHANGED events
                    \/ Fault
                 /\ UNCHANGED file

Wipe(p) == \E gone \in BOOLEAN :
    LET s == proc[p]
        d == s.dir
        last == s.at = Len(Order(p))
        all == s.whole /\ gone
    IN
    /\ s.pc = "wipe"
    /\ Removal(p, gone)
    /\ proc' = IF last THEN Rest(p, 0)
               ELSE [proc EXCEPT ![p].at = s.at + 1, ![p].whole = all]
    /\ wiped' = IF last THEN [wiped EXCEPT ![d] = s.pay] ELSE wiped
    /\ IF last /\ ~all THEN Harm(d, {"kept"}) ELSE EndHarm(p, last)
    /\ UNCHANGED <<machine, locked, chain, saved, probing, srv>>

(***************************************************************************)
(* A process dies, or is stopped.                                          *)
(***************************************************************************)
Crash(p) ==
    LET s == proc[p] IN
    /\ s.pc # "off" /\ Fault
    /\ proc' = [proc EXCEPT ![p] = Off]
    /\ harm' = IF s.bare THEN [harm EXCEPT ![s.dir] = @ \cup {"lone"}] ELSE harm
    /\ UNCHANGED <<machine, file, locked, chain, saved, wiped, probing, srv>>

Next == \E p \in Procs :
    \/ ProbeOpens(p) \/ ProbeRefused(p) \/ ProbeLost(p) \/ ProbeCloses(p)
    \/ LastResort(p) \/ ProbeAgain(p)
    \/ MendSkips(p) \/ MendTakes(p) \/ MendPuts(p)
    \/ Load(p) \/ Read(p)
    \/ Enrol(p) \/ Seal(p) \/ Cut(p) \/ Fill(p) \/ WriteFails(p) \/ Drop(p)
    \/ Unlink(p) \/ Wipe(p) \/ Crash(p)

Spec == Init /\ [][Next]_vars
-----------------------------------------------------------------------------
(***************************************************************************)
(* The state's types: files hold a token, a reference, nothing or a        *)
(* truncated rest, and a process is somewhere in its code.                 *)
(***************************************************************************)
Maybe == 0..MaxToken
Contents == Maybe \cup {Torn, Ref}
TypeOK ==
    /\ probe \in [Dirs -> Users \cup {"none"}]
    /\ file \in [Dirs -> [Files -> Contents]]
    /\ open \in BOOLEAN /\ locked \in BOOLEAN
    /\ proc \in [Procs -> [pc : Writing \cup {"off", "probe", "held", "load", "idle"},
                           at : 1..3, dir : Dirs \cup {"none"}, tok : Maybe,
                           pay : Contents, drop : BOOLEAN, bare : BOOLEAN,
                           whole : BOOLEAN, sole : BOOLEAN]]
    /\ chain \in Maybe /\ srv \in Maybe /\ events \in 0..MaxEvents
    /\ saved \in [Dirs -> Maybe] /\ wiped \in [Dirs -> Maybe]
    /\ harm \in [Dirs -> SUBSET Hazards]

\* macOS: the process may read the keychain record.
Entitled(p) == platform = "macos" => p \in machine.reads

\* macOS: a truncated file stands for a record that is older than promised.
StaleRecord(d, v) == /\ platform = "macos"
                     /\ \E f \in Files : file[d][f] = Torn
                     /\ chain \in 0..v

(***************************************************************************)
(* Once a token was saved whole in a directory, every process there that   *)
(* can reach the keychain loads that token or a newer one, whoever rewrites*)
(* the files and whenever a process dies: _save_jwt and save_jwt truncate  *)
(* one file while the other is good.  Excepted are the hazards of this     *)
(* code: two writers at once, a write or a crash while the other file is   *)
(* no good, the removal of agent_token.enc after a failed save, a migrated *)
(* older token, one that an unlink could not remove, and a truncated file  *)
(* standing for an older record. An unlink, or a daemon's clear_jwt for    *)
(* want of an answer, ends the promise.                                    *)
(***************************************************************************)
TokenSurvives ==
    \A p \in Procs : LET d == proc[p].dir IN
        /\ d # "none" /\ Entitled(p)
        => \/ saved[d] = 0 \/ harm[d] # {}
           \/ \E q \in Procs : proc[q].dir = d /\ proc[q].bare
           \/ StaleRecord(d, saved[d] - 1)
           \/ Loads(p, d) >= saved[d]

(***************************************************************************)
(* After an unlink has wiped a directory, no token issued before it is     *)
(* loaded there again, though the keychain record stays.  Excepted are a   *)
(* file that the unlink could not remove, which the code logs at most, a   *)
(* writer that was at work during the wipe, a token migrated from the      *)
(* machine's directory, which an unlink of the fallback does not reach,    *)
(* and an older record that a truncated file or another directory's agent  *)
(* brings back.                                                            *)
(***************************************************************************)
UnlinkForgets ==
    \A p \in Procs : LET d == proc[p].dir IN
        d # "none"
        => \/ {"older", "kept"} \cap harm[d] # {}
           \/ StaleRecord(d, wiped[d])
           \/ Loads(p, d) \notin 1..wiped[d]
==============================================================================
