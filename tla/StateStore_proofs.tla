-------------------------- MODULE StateStore_proofs --------------------------
(***************************************************************************)
(* StateStore keeps its types, keeps a saved token and forgets an unlinked *)
(* one, but for the ways it names, for any number of tokens, crashes,      *)
(* failed writes and unlinks, on every platform.                           *)
(***************************************************************************)
EXTENDS StateStore, TLAPS

-----------------------------------------------------------------------------
(* The invariant                                                           *)

Machine == [platform : {"linux", "macos", "windows"}, uid : [Procs -> Users],
            reads : SUBSET Procs, writes : SUBSET Procs]
Looking == {"off", "probe", "held"}
Codes == Writing \cup Looking \cup {"load", "idle"}
Issued == 0..srv
Stored == Issued \cup {Torn, Ref}
Local == [pc : Codes, at : 1..3, dir : Dirs \cup {"none"}, tok : Issued, pay : Stored,
          drop : BOOLEAN, bare : BOOLEAN, whole : BOOLEAN, sole : BOOLEAN]

\* No token is about that was not issued.
MachineOK == machine \in Machine /\ machine.uid["gui"] = "user"
SrvOK == srv \in Maybe /\ events \in 0..MaxEvents /\ chain \in Issued
ProbeOK == probe \in [Dirs -> Users \cup {"none"}] /\ open \in BOOLEAN
FileOK == file \in [Dirs -> [Files -> Stored]] /\ locked \in BOOLEAN
PastOK == /\ saved \in [Dirs -> Issued] /\ wiped \in [Dirs -> Issued]
          /\ harm \in [Dirs -> SUBSET Hazards]
ProcOK == proc \in [Procs -> Local]
TypesFit == MachineOK /\ SrvOK /\ ProbeOK /\ FileOK /\ PastOK /\ ProcOK

\* Where a process is in its code.
PlaceFits(p) ==
    LET s == proc[p] IN
    /\ s.pc \in Looking <=> s.dir = "none"
    /\ s.pc \in Looking => s.at <= Len(Candidates(p))
    /\ s.pc \in {"probe", "held"} => platform # "windows"
    /\ s.pc = "held" => s.at < Len(Candidates(p))
    /\ s.pc \in {"load", "cut", "fill", "wipe"} => s.at <= Len(Order(p))
    /\ s.pc \in {"seal", "cut", "fill"} => s.tok # 0
    /\ s.pc = "wipe" => s.pay \in Issued
    /\ s.pc = "remake" => platform = "windows"
    /\ s.bare => s.pc \in {"fill", "remake"}

\* Which directories it can come to. Only root gets into the machine's ones,
\* and root does not go past the first it gets into.
Allowed(p) ==
    LET s == proc[p] IN
    /\ platform = "windows" => s.dir \in {"none", "system"}
    /\ platform = "linux" /\ uid(p) = "root" =>
         s.dir \in {"none", "system"} /\ (s.pc \in Looking => s.at = 1)
    /\ platform = "linux" /\ uid(p) = "user" =>
         s.dir # "system" /\ (s.pc = "held" => s.at # 1)
    /\ platform = "macos" /\ p = "daemon" /\ uid(p) = "root" =>
         s.dir # "tmp" /\ (s.pc \in Looking => s.at <= 2)
    /\ platform = "macos" /\ uid(p) = "user" =>
         s.dir # "varlib" /\ (s.pc = "held" => Candidate(p) # "varlib")

\* What only root can have put there is there only with a root daemon.
OwnFiles ==
    machine.uid["daemon"] = "user" =>
        /\ platform = "linux" => \A f \in Files : file["system"][f] = 0
        /\ platform = "macos" => \A f \in Files : file["varlib"][f] = 0

\* Root's probe of a directory nobody else gets into is not removed by others.
OwnProbes ==
    \A p \in Procs :
        uid(p) = "root" /\ proc[p].pc = "held" =>
            /\ platform = "linux" => probe["system"] # "none"
            /\ platform = "macos" /\ proc[p].at = 2 => probe["varlib"] # "none"

\* Windows has one file, and only macOS has references.
OneFile == platform = "windows" => \A d \in Dirs : file[d]["enc"] = 0
NoRefs == platform # "macos" => /\ \A d \in Dirs, f \in Files : file[d][f] # Ref
                                /\ \A p \in Procs : proc[p].pay # Ref
Strays == OwnFiles /\ OwnProbes /\ OneFile /\ NoRefs

\* A content that stands for a token neither older than the last one saved nor
\* wiped.
Fits(c, d) == /\ c \in Tokens => c >= saved[d] /\ c > wiped[d]
              /\ c = Ref => chain >= saved[d] /\ chain > wiped[d]

\* A writer that somebody disturbed has left "older" behind; one that is alone
\* has the files it has been through in its hands.
Disturbed(p) == LET s == proc[p] IN
    s.pc \in Writing /\ ~s.sole => "older" \in harm[s.dir]
Past(p) == {Order(p)[i] : i \in 1..proc[p].at - 1}
SoleFits(p) == LET s == proc[p] IN
    s.pc \in Writing /\ s.sole =>
        /\ s.pc \in {"cut", "fill"} => s.pay = s.tok \/ (s.pay = Ref /\ chain = s.tok)
        /\ s.pc \in {"cut", "fill"} /\ s.whole => \A f \in Past(p) : file[s.dir][f] = s.pay
        /\ s.pc = "fill" /\ ~s.bare => Good(s.dir, Other(Target(p)))
        /\ s.pc = "wipe" => saved[s.dir] = 0
        /\ s.pc = "wipe" /\ s.whole => \A f \in Past(p) : file[s.dir][f] = 0

\* It writes a token that fits.
Newer(p) == LET s == proc[p] IN
    s.pc \in Writing /\ "older" \notin harm[s.dir] /\ "kept" \notin harm[s.dir] =>
        /\ s.pc \in {"seal", "cut", "fill"} => s.tok > wiped[s.dir] /\ s.tok >= saved[s.dir]
        /\ s.pc = "remake" => Fits(s.pay, s.dir)
        /\ s.pc = "remake" /\ harm[s.dir] = {} /\ saved[s.dir] # 0 => s.pay \in Tokens

ProcFits(p) == Disturbed(p) /\ SoleFits(p) /\ Newer(p)
OneWriter == \A p, q \in Procs :
    p # q /\ proc[p].pc \in Writing /\ proc[q].pc \in Writing /\ proc[p].dir = proc[q].dir
        => ~proc[p].sole

\* What a directory holds.
FilesFit(d) == "older" \notin harm[d] /\ "kept" \notin harm[d] => \A f \in Files : Fits(file[d][f], d)
GoodLeft(d) == harm[d] = {} /\ saved[d] # 0 =>
                   \/ \E f \in Files : Good(d, f)
                   \/ \E q \in Procs : proc[q].dir = d /\ proc[q].bare
DirFits(d) == FilesFit(d) /\ GoodLeft(d)

Types == TypesFit /\ (\A p \in Procs : PlaceFits(p) /\ Allowed(p)) /\ Strays
Data == (\A p \in Procs : ProcFits(p)) /\ OneWriter /\ (\A d \in Dirs : DirFits(d))
IInv == Types /\ Data

-----------------------------------------------------------------------------
(* The constants of the code                                               *)

LEMMA Values ==
    /\ Torn \notin Nat /\ Ref \notin Nat /\ Torn # Ref
    /\ Tokens = Maybe \ {0} /\ Maybe \subseteq Nat
    /\ "gui" \in Procs /\ "daemon" \in Procs
    /\ {"system", "varlib", "tmp", "user", "root", "gui", "daemon"} = Dirs
    /\ "none" \notin Dirs /\ Files = {"dat", "enc"}
BY StoreAssumption DEF Tokens, Maybe, Procs, Dirs, Users, Files

LEMMA MachineFacts ==
    ASSUME MachineOK
    PROVE  /\ platform \in {"linux", "macos", "windows"}
           /\ \A p \in Procs : uid(p) \in {"root", "user"}
           /\ uid("gui") = "user"
BY DEF MachineOK, Machine, platform, uid, Users, Procs

\* One or two files, and all of them but on Windows.
LEMMA OrderFacts ==
    ASSUME MachineOK, NEW p \in Procs
    PROVE  /\ Len(Order(p)) \in {1, 2}
           /\ \A i \in 1..Len(Order(p)) : Order(p)[i] \in Files
           /\ platform = "windows" => Len(Order(p)) = 1 /\ Order(p)[1] = "dat"
           /\ platform # "windows" =>
                /\ Len(Order(p)) = 2 /\ Order(p)[1] # Order(p)[2]
                /\ Files = {Order(p)[1], Order(p)[2]}
<1>1. Order(p) \in {<<"dat">>, <<"dat", "enc">>, <<"enc", "dat">>}
    BY DEF Order
<1>2. CASE platform = "windows"
    BY <1>2 DEF Order, Files
<1>3. CASE platform # "windows" /\ p = "gui"
    BY <1>3 DEF Order, Files
<1>4. CASE platform # "windows" /\ p # "gui"
    BY <1>4 DEF Order, Files
<1> QED BY <1>2, <1>3, <1>4

LEMMA OtherFile == \A f \in Files : Other(f) \in Files /\ Other(f) # f /\ Files = {f, Other(f)}
<1> SUFFICES ASSUME NEW f \in Files PROVE Other(f) \in Files /\ Other(f) # f /\ Files = {f, Other(f)}
    OBVIOUS
<1>1. \E g \in Files : g # f
    BY DEF Files
<1>2. Other(f) \in Files /\ Other(f) # f
    BY <1>1 DEF Other
<1> QED BY <1>2 DEF Files

LEMMA CandidateFacts ==
    ASSUME MachineOK, NEW p \in Procs
    PROVE  /\ platform = "windows" => Candidates(p) = <<"system">>
           /\ platform = "linux" => Candidates(p) = <<"system", uid(p), p>>
           /\ platform = "macos" /\ p = "gui" => Candidates(p) = <<"system", "tmp">>
           /\ platform = "macos" /\ p = "daemon" =>
                 Candidates(p) = <<"system", "varlib", "tmp">>
BY DEF Candidates, Procs

LEMMA CandidateType ==
    ASSUME MachineOK, NEW p \in Procs
    PROVE  /\ Len(Candidates(p)) \in 1..3
           /\ \A i \in 1..Len(Candidates(p)) : Candidates(p)[i] \in Dirs
<1>1. CASE platform = "windows"
    BY <1>1, CandidateFacts, Values
<1>2. CASE platform = "linux"
    <2>1. Candidates(p) = <<"system", uid(p), p>> /\ uid(p) \in Dirs /\ p \in Dirs
        BY <1>2, CandidateFacts, MachineFacts DEF Dirs, Users
    <2> QED BY <2>1 DEF Dirs
<1>3. CASE platform = "macos"
    BY <1>3, CandidateFacts, Values DEF Procs
<1> QED BY <1>1, <1>2, <1>3, MachineFacts

\* Only root gets into the machine's directories; nothing stops root.
LEMMA MayUseFacts ==
    ASSUME MachineOK, NEW p \in Procs
    PROVE  /\ uid(p) = "root" => \A d \in Dirs : MayUse(p, d) /\ Free(p, d)
           /\ uid(p) = "user" => ~MayUse(p, "varlib")
           /\ uid(p) = "user" /\ platform = "linux" => ~MayUse(p, "system")
BY DEF MayUse, Free

-----------------------------------------------------------------------------
(* The types, and where each process is                                    *)

\* A process nobody moved: another's step only disturbs its write.
Stays(q) == /\ proc'[q].pc = proc[q].pc /\ proc'[q].at = proc[q].at
            /\ proc'[q].dir = proc[q].dir /\ proc'[q].tok = proc[q].tok
            /\ proc'[q].pay = proc[q].pay /\ proc'[q].drop = proc[q].drop
            /\ proc'[q].bare = proc[q].bare /\ proc'[q].whole = proc[q].whole
OthersStay(p) == \A q \in Procs \ {p} : Stays(q)

LEMMA InitTypes == ASSUME Init PROVE Types
<1>1. MachineOK
    BY DEF Init, MachineOK, Machine, Users, Procs
<1>2. TypesFit
    <2>1. Issued = {0} /\ SrvOK
        BY StoreAssumption DEF Init, SrvOK, Maybe, Issued
    <2>4. ProbeOK
        BY DEF Init, ProbeOK
    <2>5. FileOK
        BY <2>1 DEF Init, FileOK, Stored
    <2>2. PastOK
        BY <2>1 DEF Init, PastOK
    <2>3. Off \in Local
        BY <2>1 DEF Off, Local, Codes, Looking, Stored
    <2> QED BY <1>1, <2>1, <2>2, <2>3, <2>4, <2>5 DEF Init, TypesFit, ProcOK
<1>3. ASSUME NEW p \in Procs PROVE PlaceFits(p) /\ Allowed(p)
    <2>1. Len(Candidates(p)) \in 1..3
        BY <1>1, CandidateType
    <2>2. proc[p] = Off
        BY DEF Init
    <2> QED BY <2>1, <2>2 DEF PlaceFits, Allowed, Off, Looking, Writing
<1>4. Strays
    BY StoreAssumption DEF Init, Strays, OwnFiles, OwnProbes, OneFile, NoRefs, Off, Files, Dirs, Users, Procs
<1> QED BY <1>2, <1>3, <1>4 DEF Types

LEMMA IssuedGrows ==
    ASSUME SrvOK, srv' \in Nat, srv <= srv'
    PROVE  /\ Issued \subseteq Issued' /\ Stored \subseteq Stored'
           /\ Local \subseteq Local'
<1>1. Issued \subseteq Issued' /\ Stored \subseteq Stored'
    BY DEF SrvOK, Maybe, Issued, Stored
<1> QED BY <1>1 DEF Local

LEMMA PlaceKept ==
    ASSUME UNCHANGED machine, NEW q \in Procs, Stays(q), Issued \subseteq Issued',
           PlaceFits(q), Allowed(q)
    PROVE  PlaceFits(q)' /\ Allowed(q)'
<1>1. PlaceFits(q)'
    BY DEF Stays, PlaceFits, Candidates, Order, Window, platform, uid
<1>2. Allowed(q)'
    BY DEF Stays, Allowed, Candidate, Candidates, platform, uid
<1> QED BY <1>1, <1>2

\* What one step has to show.
LEMMA TypesKept ==
    ASSUME Types, UNCHANGED machine, NEW p \in Procs, OthersStay(p), TypesFit',
           srv <= srv', PlaceFits(p)', Allowed(p)', Strays'
    PROVE  Types'
<1>1. Issued \subseteq Issued'
    BY IssuedGrows DEF Types, TypesFit, SrvOK, Maybe
<1> QED BY <1>1, PlaceKept DEF Types, OthersStay

\* What the ways to write proc' do to it.
LEMMA GoShape ==
    ASSUME ProcOK, UNCHANGED srv, NEW p \in Procs, NEW pc \in Codes, NEW at \in 1..3,
           proc' = Go(p, pc, at)
    PROVE  /\ ProcOK' /\ OthersStay(p)
           /\ \A q \in Procs \ {p} : proc'[q] = proc[q]
           /\ proc'[p].pc = pc /\ proc'[p].at = at /\ proc'[p].dir = proc[p].dir
           /\ proc'[p].tok = proc[p].tok /\ proc'[p].pay = proc[p].pay
           /\ proc'[p].bare = proc[p].bare /\ proc'[p].whole = proc[p].whole
           /\ proc'[p].sole = proc[p].sole /\ proc'[p].drop = proc[p].drop
<1>1. proc' = [proc EXCEPT ![p] = [proc[p] EXCEPT !.pc = pc, !.at = at]]
    BY DEF Go, ProcOK
<1>2. [proc[p] EXCEPT !.pc = pc, !.at = at] \in Local
    BY DEF ProcOK, Local
<1>3. Local' = Local
    BY DEF Local, Stored, Issued
<1>4. ProcOK' /\ \A q \in Procs \ {p} : proc'[q] = proc[q]
    BY <1>1, <1>2, <1>3 DEF ProcOK
<1> QED BY <1>1, <1>4 DEF OthersStay, Stays, ProcOK, Local

\* A wipe goes on to the next file.
LEMMA StepShape ==
    ASSUME ProcOK, UNCHANGED srv, NEW p \in Procs, NEW at \in 1..3, NEW all \in BOOLEAN,
           proc' = [proc EXCEPT ![p].at = at, ![p].whole = all]
    PROVE  /\ ProcOK' /\ OthersStay(p)
           /\ \A q \in Procs \ {p} : proc'[q] = proc[q]
           /\ proc'[p].pc = proc[p].pc /\ proc'[p].at = at /\ proc'[p].dir = proc[p].dir
           /\ proc'[p].pay = proc[p].pay /\ proc'[p].bare = proc[p].bare
           /\ proc'[p].whole = all /\ proc'[p].sole = proc[p].sole
<1>1. proc' = [proc EXCEPT ![p] = [proc[p] EXCEPT !.at = at, !.whole = all]]
    BY DEF ProcOK
<1>2. [proc[p] EXCEPT !.at = at, !.whole = all] \in Local
    BY DEF ProcOK, Local
<1>3. Local' = Local
    BY DEF Local, Stored, Issued
<1>4. ProcOK' /\ \A q \in Procs \ {p} : proc'[q] = proc[q]
    BY <1>1, <1>2, <1>3 DEF ProcOK
<1> QED BY <1>1, <1>4 DEF OthersStay, Stays, ProcOK, Local

LEMMA RestShape ==
    ASSUME ProcOK, SrvOK, UNCHANGED srv, NEW p \in Procs, NEW token \in Issued,
           proc' = Rest(p, token)
    PROVE  /\ ProcOK' /\ OthersStay(p)
           /\ \A q \in Procs \ {p} : proc'[q] = proc[q]
           /\ proc'[p].pc = "idle" /\ proc'[p].at = 1 /\ proc'[p].dir = proc[p].dir
           /\ proc'[p].tok = token /\ proc'[p].pay = 0
           /\ ~proc'[p].bare /\ ~proc'[p].sole
<1> DEFINE s == [Off EXCEPT !.pc = "idle", !.dir = proc[p].dir, !.tok = token]
<1>1. proc' = [proc EXCEPT ![p] = s]
    BY DEF Rest, ProcOK
<1>2. s \in Local
    <2>1. 0 \in Issued
        <3>1. srv \in Nat
            BY DEF SrvOK, Maybe
        <3> QED BY <3>1 DEF Issued
    <2>2. Off \in Local
        BY <2>1 DEF Off, Local, Codes, Looking, Stored
    <2>3. proc[p].dir \in Dirs \cup {"none"}
        BY DEF ProcOK, Local
    <2> QED BY <2>2, <2>3 DEF Local, Codes
<1>3. Local' = Local
    BY DEF Local, Stored, Issued
<1>4. ProcOK' /\ proc'[p] = s /\ \A q \in Procs \ {p} : proc'[q] = proc[q]
    BY <1>1, <1>2, <1>3 DEF ProcOK
<1> QED BY <1>4 DEF OthersStay, Stays, ProcOK, Local, Off

\* The state a write begins in is the one given, but for sole.
LEMMA BeginShape ==
    ASSUME ProcOK, SrvOK, PastOK, srv' \in Nat, srv <= srv', NEW p \in Procs,
           NEW state \in Local', state.dir \in Dirs,
           NEW hazards \in SUBSET Hazards, Begin(p, state, hazards)
    PROVE  /\ ProcOK' /\ OthersStay(p) /\ harm' \in [Dirs -> SUBSET Hazards]
           /\ proc'[p].pc = state.pc /\ proc'[p].at = state.at
           /\ proc'[p].dir = state.dir /\ proc'[p].tok = state.tok
           /\ proc'[p].pay = state.pay /\ proc'[p].bare = state.bare
           /\ proc'[p].whole = state.whole /\ proc'[p].drop = state.drop
           /\ proc'[p].sole = Alone(p, state.dir)
           /\ \A q \in Procs \ {p} : /\ proc'[q].sole => proc[q].sole /\ proc[q].dir # state.dir
                                     /\ proc[q].dir # state.dir => proc'[q].sole = proc[q].sole
           /\ \A d \in Dirs \ {state.dir} : harm'[d] = harm[d]
           /\ harm'[state.dir] = harm[state.dir] \cup hazards
                                   \cup (IF Alone(p, state.dir) THEN {} ELSE {"older"})
<1> DEFINE other(q) == [proc[q] EXCEPT !.sole = @ /\ proc[q].dir # state.dir]
           own == [state EXCEPT !.sole = Alone(p, state.dir)]
<1>1. proc' = [q \in Procs |-> IF q = p THEN own ELSE other(q)]
    BY DEF Begin
<1>2. Local \subseteq Local'
    BY IssuedGrows
<1>3. own \in Local'
    BY DEF Local, Alone
<1>4. ASSUME NEW q \in Procs \ {p}
      PROVE  /\ other(q) \in Local'
             /\ proc'[q] = other(q)
    BY <1>1, <1>2 DEF ProcOK, Local
<1>5. proc'[p] = own
    BY <1>1
<1>6. ProcOK'
    <2>1. \A q \in Procs : proc'[q] \in Local'
        BY <1>3, <1>4, <1>5
    <2> QED BY <1>1, <2>1 DEF ProcOK
<1>7. /\ OthersStay(p)
      /\ \A q \in Procs \ {p} : /\ proc'[q].sole => proc[q].sole /\ proc[q].dir # state.dir
                                /\ proc[q].dir # state.dir => proc'[q].sole = proc[q].sole
    <2>1. ASSUME NEW q \in Procs \ {p}
          PROVE  /\ Stays(q)
                 /\ proc'[q].sole => proc[q].sole /\ proc[q].dir # state.dir
                 /\ proc[q].dir # state.dir => proc'[q].sole = proc[q].sole
        <3>1. proc[q] \in Local /\ proc'[q] = other(q)
            BY <1>4 DEF ProcOK
        <3>2. proc[q].dir # state.dir => other(q).sole = proc[q].sole
            BY <3>1 DEF Local
        <3> QED BY <3>1, <3>2 DEF Stays, Local
    <2> QED BY <2>1 DEF OthersStay
<1>8. harm' = [harm EXCEPT ![state.dir] =
          @ \cup (hazards \cup (IF Alone(p, state.dir) THEN {} ELSE {"older"}))]
    BY DEF Begin, Harm
<1>9. /\ harm' \in [Dirs -> SUBSET Hazards]
      /\ \A d \in Dirs \ {state.dir} : harm'[d] = harm[d]
      /\ harm'[state.dir] = harm[state.dir] \cup hazards
                                   \cup (IF Alone(p, state.dir) THEN {} ELSE {"older"})
    BY <1>8 DEF PastOK, Hazards
<1> QED BY <1>5, <1>6, <1>7, <1>9 DEF Local

LEMMA OnwardShape ==
    ASSUME ProcOK, SrvOK, UNCHANGED srv, NEW p \in Procs, NEW ok \in BOOLEAN,
           MachineOK, PlaceFits(p), proc[p].pc \in {"cut", "fill"}, proc' = Onward(p, ok)
    PROVE  /\ ProcOK' /\ OthersStay(p)
           /\ \A q \in Procs \ {p} : proc'[q] = proc[q]
           /\ proc'[p].dir = proc[p].dir /\ ~proc'[p].bare
           /\ \/ proc'[p].pc = "idle" /\ ~proc'[p].sole
              \/ /\ proc'[p].pc = "drop"
                 /\ proc'[p].pay = proc[p].pay /\ proc'[p].sole = proc[p].sole
              \/ /\ proc'[p].pc = "cut" /\ proc'[p].at = proc[p].at + 1
                 /\ proc'[p].at <= Len(Order(p)) /\ proc'[p].tok = proc[p].tok
                 /\ proc'[p].pay = proc[p].pay /\ proc'[p].sole = proc[p].sole
                 /\ proc'[p].whole = (proc[p].whole /\ ok)
           /\ proc'[p].pay \in {0, proc[p].pay}
<1> DEFINE s == proc[p]
           more == s.at < Len(Order(p)) /\ ~(Window(p) /\ ~ok)
           next == IF more THEN "cut" ELSE IF s.drop THEN "drop" ELSE "idle"
           moved == [s EXCEPT !.pc = next, !.at = IF more THEN s.at + 1 ELSE 1,
                              !.bare = FALSE, !.whole = s.whole /\ ok]
<1>1. s \in Local
    BY DEF ProcOK
<1>2. Len(Order(p)) \in {1, 2}
    BY OrderFacts
<1>3. CASE next = "idle"
    <2>1. proc' = Rest(p, s.tok) /\ s.tok \in Issued
        BY <1>1, <1>3 DEF Onward, Local
    <2> QED BY <2>1, RestShape
<1>4. CASE next # "idle"
    <2>1. proc' = [proc EXCEPT ![p] = moved]
        BY <1>4 DEF Onward, ProcOK
    <2>2. moved \in Local
        <3>1. next \in Codes
            BY DEF Codes, Writing
        <3>2. (IF more THEN s.at + 1 ELSE 1) \in 1..3
            <4>1. s.at \in 1..3
                BY <1>1 DEF Local
            <4>2. CASE more
                <5>1. s.at < Len(Order(p))
                    BY <4>2
                <5>2. s.at + 1 \in 1..3
                    BY <1>2, <4>1, <5>1
                <5> QED BY <4>2, <5>2
            <4>3. CASE ~more
                BY <4>3
            <4> QED BY <4>2, <4>3
        <3>3. (s.whole /\ ok) \in BOOLEAN
            OBVIOUS
        <3> HIDE DEF next, more
        <3> QED BY <1>1, <3>1, <3>2, <3>3 DEF Local
    <2>3. Local' = Local
        BY DEF Local, Stored, Issued
    <2>4. ProcOK' /\ proc'[p] = moved /\ \A q \in Procs \ {p} : proc'[q] = proc[q]
        BY <2>1, <2>2, <2>3 DEF ProcOK
    <2>5. OthersStay(p)
        BY <2>4 DEF OthersStay, Stays
    <2>6. /\ proc'[p].pc = next /\ proc'[p].dir = s.dir /\ ~proc'[p].bare
          /\ proc'[p].pay = s.pay /\ proc'[p].sole = s.sole /\ proc'[p].tok = s.tok
          /\ proc'[p].whole = (s.whole /\ ok)
          /\ proc'[p].at = IF more THEN s.at + 1 ELSE 1
        BY <2>4, <1>1 DEF Local
    <2>7. CASE more
        BY <2>4, <2>5, <2>6, <2>7, <1>1, <1>2 DEF Local
    <2>8. CASE ~more
        BY <2>4, <2>5, <2>6, <2>8, <1>4
    <2> QED BY <2>7, <2>8
<1> QED BY <1>3, <1>4

LEMMA LocalFacts ==
    ASSUME ProcOK, NEW p \in Procs
    PROVE  /\ proc[p] \in Local /\ proc[p].pc \in Codes /\ proc[p].at \in 1..3
           /\ proc[p].dir \in Dirs \cup {"none"} /\ proc[p].tok \in Issued
           /\ proc[p].pay \in Stored
           /\ proc[p].pc \notin Looking /\ PlaceFits(p) => proc[p].dir \in Dirs
BY DEF ProcOK, Local, PlaceFits

\* Others see a step of the probing only in the probe files.
LEMMA FilesStay ==
    ASSUME Types, UNCHANGED <<machine, files, srv, events>>
    PROVE  (ProcOK' /\ ProbeOK' => TypesFit') /\ OwnFiles' /\ OneFile' /\ srv <= srv'
<1>1. OwnFiles' /\ OneFile'
    BY DEF Types, Strays, OwnFiles, OneFile, platform, files
<1>2. srv <= srv'
    BY DEF Types, TypesFit, SrvOK, Maybe
<1>3. MachineOK' /\ SrvOK' /\ FileOK' /\ PastOK'
    BY DEF Types, TypesFit, MachineOK, SrvOK, FileOK, PastOK, Issued, Stored, files
<1> QED BY <1>1, <1>2, <1>3 DEF TypesFit

LEMMA NoRefsStay ==
    ASSUME NoRefs, UNCHANGED <<machine, file>>,
           \A q \in Procs : proc'[q].pay \in {0, proc[q].pay}
    PROVE  NoRefs'
BY Values DEF NoRefs, platform

LEMMA ProbeOpensTypes ==
    ASSUME Types, NEW p \in Procs, ProbeOpens(p)
    PROVE  Types'
<1> DEFINE d == Candidate(p)
<1>1. /\ TypesFit /\ PlaceFits(p) /\ Allowed(p) /\ Strays
      /\ MachineOK /\ ProcOK /\ ProbeOK
    BY DEF Types, TypesFit
<1>2. /\ proc' = Go(p, "held", proc[p].at) /\ UNCHANGED <<machine, files, srv, events>>
      /\ proc[p].pc \in {"off", "probe"} /\ platform # "windows"
      /\ proc[p].at < Len(Candidates(p)) /\ MayUse(p, d)
      /\ probe' = [probe EXCEPT ![d] = IF @ = "none" THEN uid(p) ELSE @]
      /\ open' = (open \/ (d = "system" /\ uid(p) = "root"))
    BY DEF ProbeOpens, Starting, Probed
<1>3. /\ ProcOK' /\ OthersStay(p) /\ \A q \in Procs \ {p} : proc'[q] = proc[q]
      /\ proc'[p].pc = "held" /\ proc'[p].at = proc[p].at
      /\ proc'[p].dir = proc[p].dir /\ proc'[p].pay = proc[p].pay
      /\ proc'[p].bare = proc[p].bare
    BY <1>1, <1>2, GoShape, LocalFacts DEF Codes, Looking
<1>4. d \in Dirs /\ uid(p) \in {"root", "user"}
    BY <1>1, <1>2, CandidateType, MachineFacts, LocalFacts DEF Candidate
<1>5. ProbeOK' /\ \A e \in Dirs : probe[e] # "none" => probe'[e] # "none"
    BY <1>1, <1>2, <1>4 DEF ProbeOK, Users
<1>6. probe'[d] # "none"
    BY <1>1, <1>2, <1>4 DEF ProbeOK
<1>7. TypesFit' /\ OwnFiles' /\ OneFile' /\ srv <= srv' /\ UNCHANGED machine
    BY <1>2, <1>3, <1>5, FilesStay
<1>8. PlaceFits(p)'
    BY <1>1, <1>2, <1>3 DEF PlaceFits, Looking, Writing, Candidates, platform, uid
<1>9. Allowed(p)'
    <2>1. uid(p) = "user" => d # "varlib" /\ (platform = "linux" => d # "system")
        BY <1>1, <1>2, MayUseFacts
    <2>2. platform = "linux" /\ proc[p].at = 1 => d = "system"
        BY <1>1, CandidateFacts DEF Candidate
    <2>3. UNCHANGED <<platform, uid(p), Candidates(p)>> /\ Candidate(p)' = d
        BY <1>2, <1>3 DEF platform, uid, Candidates, Candidate
    <2> QED BY <1>1, <1>2, <1>3, <2>1, <2>2, <2>3 DEF Allowed, Looking
<1>10. OwnProbes'
    <2> SUFFICES ASSUME NEW q \in Procs, uid(q)' = "root", proc'[q].pc = "held"
                 PROVE  /\ platform' = "linux" => probe'["system"] # "none"
                        /\ platform' = "macos" /\ proc'[q].at = 2 => probe'["varlib"] # "none"
        BY DEF OwnProbes
    <2>1. uid(q) = "root" /\ platform' = platform
        BY <1>2 DEF uid, platform
    <2>2. CASE q # p
        <3>1. proc[q].pc = "held" /\ proc'[q].at = proc[q].at
            BY <1>3, <2>2
        <3> QED BY <1>1, <1>5, <2>1, <3>1, Values DEF Strays, OwnProbes
    <2>3. CASE q = p
        <3>1. platform = "linux" => d = "system"
            BY <1>1, <1>2, <2>1, <2>3, CandidateFacts DEF Candidate, Allowed, Looking
        <3>2. q = "daemon"
            BY <1>1, <2>1, MachineFacts DEF Procs
        <3>3. platform = "macos" /\ proc'[q].at = 2 => d = "varlib"
            BY <1>1, <1>3, <2>3, <3>2, CandidateFacts DEF Candidate
        <3> QED BY <1>6, <2>1, <3>1, <3>3
    <2> QED BY <2>2, <2>3
<1>11. NoRefs'
    BY <1>1, <1>2, <1>3, NoRefsStay DEF Strays, files
<1> QED BY <1>3, <1>7, <1>8, <1>9, <1>10, <1>11, TypesKept DEF Strays

LEMMA OwnProbesStay ==
    ASSUME OwnProbes, UNCHANGED <<machine, probe>>, NEW p \in Procs, OthersStay(p),
           proc'[p].pc # "held"
    PROVE  OwnProbes'
BY DEF OwnProbes, OthersStay, Stays, platform, uid

LEMMA ProbeFailsTypes ==
    ASSUME Types, NEW p \in Procs, ProbeRefused(p) \/ ProbeLost(p)
    PROVE  Types'
<1> DEFINE d == Candidate(p)
<1>1. /\ TypesFit /\ PlaceFits(p) /\ Allowed(p) /\ Strays
      /\ MachineOK /\ ProcOK /\ ProbeOK
    BY DEF Types, TypesFit
<1>2. /\ proc' = Go(p, "probe", proc[p].at + 1)
      /\ UNCHANGED <<machine, files, probing, srv, events>>
      /\ proc[p].pc \in Looking /\ platform # "windows"
      /\ proc[p].at < Len(Candidates(p))
    BY <1>1 DEF ProbeRefused, ProbeLost, Starting, Probed, PlaceFits, Looking
<1>3. proc[p].at + 1 \in 1..3 /\ proc[p].at + 1 <= Len(Candidates(p)) /\ proc[p].at \in 1..3
    BY <1>1, <1>2, CandidateType, LocalFacts
<1>4. /\ ProcOK' /\ OthersStay(p) /\ \A q \in Procs \ {p} : proc'[q] = proc[q]
      /\ proc'[p].pc = "probe" /\ proc'[p].at = proc[p].at + 1
      /\ proc'[p].dir = proc[p].dir /\ proc'[p].pay = proc[p].pay
      /\ proc'[p].bare = proc[p].bare
    BY <1>1, <1>2, <1>3, GoShape DEF Codes, Looking
<1>5. d \in Dirs /\ uid(p) \in {"root", "user"}
    BY <1>1, <1>2, CandidateType, MachineFacts, LocalFacts DEF Candidate
<1>6. TypesFit' /\ OwnFiles' /\ OneFile' /\ srv <= srv' /\ UNCHANGED <<machine, probe>>
    <2>1. ProbeOK' /\ UNCHANGED <<machine, files, srv, events, probe>>
        BY <1>1, <1>2 DEF ProbeOK, probing
    <2> QED BY <1>4, <2>1, FilesStay
<1>7. PlaceFits(p)'
    <2>1. Candidates(p)' = Candidates(p) /\ platform' = platform
        BY <1>2 DEF Candidates, platform, uid
    <2> QED BY <1>1, <1>2, <1>3, <1>4, <2>1 DEF PlaceFits, Looking, Writing
<1>8. Allowed(p)'
    <2>1. UNCHANGED <<platform, uid(p)>>
        BY <1>2 DEF platform, uid
    <2>2. uid(p) = "root" => platform # "linux"
        <3>1. CASE ProbeRefused(p)
            BY <1>1, <1>5, <3>1, MayUseFacts DEF ProbeRefused
        <3>2. CASE ProbeLost(p)
            <4>1. platform = "linux" /\ uid(p) = "root" => d = "system"
                BY <1>1, <1>2, CandidateFacts DEF Candidate, Allowed
            <4> QED BY <1>1, <3>2, <4>1 DEF ProbeLost, Strays, OwnProbes
        <3> QED BY <3>1, <3>2
    <2>3. uid(p) = "root" /\ platform = "macos" /\ p = "daemon" => proc[p].at = 1
        <3>1. CASE ProbeRefused(p)
            BY <1>1, <1>5, <3>1, MayUseFacts DEF ProbeRefused
        <3>2. CASE ProbeLost(p)
            <4>1. platform = "macos" /\ p = "daemon" /\ proc[p].at = 2 => d = "varlib"
                BY <1>1, <1>2, CandidateFacts DEF Candidate
            <4>2. uid(p) = "root" /\ platform = "macos" /\ p = "daemon" => proc[p].at <= 2
                BY <1>1, <1>2 DEF Allowed
            <4> QED BY <1>1, <1>3, <3>2, <4>1, <4>2 DEF ProbeLost, Strays, OwnProbes
        <3> QED BY <3>1, <3>2
    <2> QED BY <1>1, <1>2, <1>3, <1>4, <2>1, <2>2, <2>3 DEF Allowed, Looking
<1>9. OwnProbes'
    BY <1>1, <1>4, <1>6, OwnProbesStay DEF Strays
<1>10. NoRefs'
    BY <1>1, <1>2, <1>4, NoRefsStay DEF Strays, files
<1> QED BY <1>4, <1>6, <1>7, <1>8, <1>9, <1>10, TypesKept DEF Strays

\* Probing again takes away what root's probe of another directory does not need.
LEMMA ProbeAgainTypes ==
    ASSUME Types, NEW p \in Procs, ProbeAgain(p)
    PROVE  Types'
<1> DEFINE d == proc[p].dir
<1>1. /\ TypesFit /\ PlaceFits(p) /\ Allowed(p) /\ Strays
      /\ MachineOK /\ ProcOK /\ ProbeOK
    BY DEF Types, TypesFit
<1>2. /\ UNCHANGED <<machine, files, srv, events, proc, open>>
      /\ proc[p].pc = "idle" /\ d # Candidates(p)[Len(Candidates(p))]
      /\ probe' = [probe EXCEPT ![d] = "none"]
    BY DEF ProbeAgain
<1>3. d \in Dirs
    BY <1>1, <1>2, LocalFacts DEF Looking
<1>4. ProbeOK' /\ ProcOK'
    <2>1. ProbeOK'
        BY <1>1, <1>2, <1>3 DEF ProbeOK
    <2> QED BY <1>1, <1>2, <2>1 DEF ProcOK, Local, Stored, Issued
<1>5. TypesFit' /\ OwnFiles' /\ OneFile' /\ srv <= srv'
    BY <1>2, <1>4, FilesStay
<1>6. OwnProbes'
    <2> SUFFICES ASSUME NEW q \in Procs, uid(q)' = "root", proc'[q].pc = "held"
                 PROVE  /\ platform' = "linux" => probe'["system"] # "none"
                        /\ platform' = "macos" /\ proc'[q].at = 2 => probe'["varlib"] # "none"
        BY DEF OwnProbes
    <2>1. uid(q) = "root" /\ platform' = platform /\ proc[q].pc = "held" /\ q # p
        BY <1>2 DEF uid, platform
    <2>2. uid(p) = "user"
        BY <1>1, <2>1, MachineFacts DEF Procs
    <2>3. /\ platform = "linux" => d # "system"
          /\ platform = "macos" => d # "varlib"
        BY <1>1, <2>2 DEF Allowed
    <2> QED BY <1>1, <1>2, <1>3, <2>1, <2>3, Values DEF Strays, OwnProbes, ProbeOK
<1>7. NoRefs'
    BY <1>1, <1>2, NoRefsStay DEF Strays, files
<1>8. OthersStay(p) /\ Stays(p)
    BY <1>2 DEF OthersStay, Stays
<1>9. PlaceFits(p)' /\ Allowed(p)'
    BY <1>1, <1>2, <1>8, PlaceKept DEF Issued
<1> QED BY <1>2, <1>5, <1>6, <1>7, <1>8, <1>9, TypesKept DEF Strays

LEMMA LocalWith ==
    ASSUME NEW s \in Local, NEW pc \in Codes, NEW at \in 1..3, NEW dir \in Dirs
    PROVE  [s EXCEPT !.pc = pc, !.at = at, !.dir = dir] \in Local
BY DEF Local

LEMMA SettleShape ==
    ASSUME TypesFit, NEW p \in Procs, NEW d \in Dirs, Settle(p, d)
    PROVE  /\ ProcOK' /\ FileOK' /\ PastOK' /\ SrvOK' /\ MachineOK' /\ OthersStay(p)
           /\ \A q \in Procs \ {p} : proc'[q] = proc[q]
           /\ proc'[p].pc = "load" /\ proc'[p].at = 1 /\ proc'[p].dir = d
           /\ proc'[p].tok = proc[p].tok /\ proc'[p].pay = proc[p].pay
           /\ proc'[p].bare = proc[p].bare
           /\ Source(p) \in Dirs
           /\ \A e \in Dirs \ {d} : file'[e] = file[e] /\ harm'[e] = harm[e]
           /\ \A f \in Files : file'[d][f] = IF f \in Missing(p, d) THEN file[Source(p)][f]
                                                                    ELSE file[d][f]
           /\ harm'[d] = harm[d] \cup (IF Missing(p, d) = {} THEN {} ELSE {"older"})
           /\ UNCHANGED <<machine, locked, chain, saved, wiped, open, srv, events>>
<1> DEFINE s == [proc[p] EXCEPT !.pc = "load", !.at = 1, !.dir = d]
<1>1. /\ proc' = [proc EXCEPT ![p].pc = "load", ![p].at = 1, ![p].dir = d]
      /\ file' = [file EXCEPT ![d] = [f \in Files |->
                    IF f \in Missing(p, d) THEN file[Source(p)][f] ELSE @[f]]]
      /\ harm' = [harm EXCEPT ![d] = @ \cup (IF Missing(p, d) = {} THEN {} ELSE {"older"})]
      /\ UNCHANGED <<machine, locked, chain, saved, wiped, open, srv, events>>
    BY DEF Settle, Harm
<1>2. MachineOK' /\ SrvOK' /\ Stored' = Stored /\ Local' = Local /\ Issued' = Issued
    BY <1>1 DEF TypesFit, MachineOK, SrvOK, Stored, Issued, Local
<1>3. Source(p) \in Dirs
    BY DEF Source, Dirs
<1>4. /\ FileOK'
      /\ \A e \in Dirs \ {d} : file'[e] = file[e]
      /\ \A f \in Files : file'[d][f] = IF f \in Missing(p, d) THEN file[Source(p)][f]
                                                               ELSE file[d][f]
    <2> HIDE DEF Missing, Source
    <2>1. [f \in Files |-> IF f \in Missing(p, d) THEN file[Source(p)][f] ELSE file[d][f]]
              \in [Files -> Stored]
        BY <1>3 DEF TypesFit, FileOK
    <2> QED BY <1>1, <1>2, <2>1 DEF TypesFit, FileOK
<1>5. /\ PastOK'
      /\ \A e \in Dirs \ {d} : harm'[e] = harm[e]
      /\ harm'[d] = harm[d] \cup (IF Missing(p, d) = {} THEN {} ELSE {"older"})
    BY <1>1, <1>2 DEF TypesFit, PastOK, Hazards
<1>6. proc' = [proc EXCEPT ![p] = s] /\ s \in Local
    <2>1. proc' = [proc EXCEPT ![p] = s]
        BY <1>1 DEF TypesFit, ProcOK
    <2>2. proc[p] \in Local /\ "load" \in Codes
        BY DEF TypesFit, ProcOK, Codes
    <2>3. 1 \in 1..3
        OBVIOUS
    <2>4. s \in Local
        BY <2>2, <2>3, LocalWith
    <2> QED BY <2>1, <2>4
<1>7. ProcOK' /\ proc'[p] = s /\ \A q \in Procs \ {p} : proc'[q] = proc[q]
    BY <1>2, <1>6 DEF TypesFit, ProcOK
<1>8. /\ proc'[p].pc = "load" /\ proc'[p].at = 1 /\ proc'[p].dir = d
      /\ proc'[p].tok = proc[p].tok /\ proc'[p].pay = proc[p].pay
      /\ proc'[p].bare = proc[p].bare
    BY <1>7 DEF TypesFit, ProcOK, Local
<1>9. OthersStay(p)
    BY <1>7 DEF OthersStay, Stays
<1> QED BY <1>1, <1>2, <1>3, <1>4, <1>5, <1>7, <1>8, <1>9

\* The directories a process may settle on.
Settles(p, d) == /\ platform = "windows" => d = "system"
                 /\ platform = "linux" /\ uid(p) = "root" => d = "system"
                 /\ platform = "linux" /\ uid(p) = "user" => d # "system"
                 /\ platform = "macos" => d \in {"system", "varlib", "tmp"}
                 /\ platform = "macos" /\ p = "daemon" /\ uid(p) = "root" => d # "tmp"
                 /\ platform = "macos" /\ uid(p) = "user" => d # "varlib"

LEMMA SettleTypes ==
    ASSUME Types, NEW p \in Procs, NEW d \in Dirs, Settle(p, d), ProbeOK', OwnProbes',
           proc[p].pc \in Looking, Settles(p, d)
    PROVE  Types'
<1>1. /\ TypesFit /\ PlaceFits(p) /\ Strays /\ MachineOK /\ ProcOK
    BY DEF Types, TypesFit
<1>2. /\ UNCHANGED <<platform, uid(p), machine>> /\ srv <= srv' /\ srv' = srv
      /\ proc'[p].pc = "load" /\ proc'[p].at = 1 /\ proc'[p].dir = d
      /\ proc'[p].pay = proc[p].pay /\ proc'[p].bare = proc[p].bare
    BY <1>1, SettleShape DEF platform, uid, TypesFit, SrvOK, Maybe
<1>3. TypesFit' /\ OthersStay(p)
    BY <1>1, SettleShape DEF TypesFit
<1>4. PlaceFits(p)'
    <2>1. Order(p)' = Order(p) /\ Len(Order(p)) \in {1, 2}
        BY <1>1, <1>2, OrderFacts DEF Order, platform
    <2>2. ~proc[p].bare
        BY <1>1 DEF PlaceFits, Looking
    <2>3. ~proc'[p].bare /\ proc'[p].dir # "none"
        BY <1>2, <2>2, Values
    <2>4. 1 <= Len(Order(p)')
        BY <2>1
    <2> QED BY <1>2, <2>3, <2>4 DEF PlaceFits, Looking, Writing
<1>5. Allowed(p)'
    BY <1>2 DEF Allowed, Settles, Looking
<1>6. OwnFiles'
    <2>1. /\ machine.uid["daemon"] = "user" => uid(p) = "user"
          /\ \A e \in Dirs \ {d} : file'[e] = file[e]
        BY <1>1, MachineFacts, SettleShape DEF uid, Procs
    <2> QED BY <1>1, <1>2, <2>1, Values DEF OwnFiles, Strays, Settles
<1>7. ASSUME NEW e \in Dirs, NEW f \in Files
      PROVE  file'[e][f] \in {file[e][f], file[Source(p)][f]} /\ Source(p) \in Dirs
    BY <1>1, SettleShape
<1>8. OneFile'
    BY <1>1, <1>2, <1>7, Values DEF OneFile, Strays
<1>9. NoRefs'
    <2>1. \A q \in Procs : proc'[q].pay = proc[q].pay
        BY <1>2, <1>3 DEF OthersStay, Stays
    <2> QED BY <1>1, <1>2, <1>7, <2>1 DEF NoRefs, Strays
<1> QED BY <1>2, <1>3, <1>4, <1>5, <1>6, <1>8, <1>9, TypesKept DEF Strays

\* What a process has found when it comes to the end of its search.
LEMMA FoundFacts ==
    ASSUME Types, NEW p \in Procs, proc[p].pc \in Looking,
           proc[p].pc = "held" \/ proc[p].at = Len(Candidates(p))
    PROVE  Candidate(p) \in Dirs /\ Settles(p, Candidate(p))
<1> DEFINE d == Candidate(p)
<1>1. MachineOK /\ ProcOK /\ PlaceFits(p) /\ Allowed(p) /\ proc[p].at \in 1..3
    BY LocalFacts DEF Types, TypesFit
<1>2. d \in Dirs /\ proc[p].at <= Len(Candidates(p))
    BY <1>1, CandidateType DEF Candidate, PlaceFits
<1>3. CASE platform = "windows"
    BY <1>1, <1>2, <1>3, CandidateFacts DEF Candidate, Settles
<1>4. CASE platform = "linux"
    <2>1. Candidates(p) = <<"system", uid(p), p>> /\ p # "system" /\ uid(p) \in {"root", "user"}
        BY <1>1, <1>4, CandidateFacts, MachineFacts DEF Procs
    <2>2. CASE uid(p) = "root"
        <3>1. proc[p].at = 1
            BY <1>1, <1>4, <2>2 DEF Allowed
        <3>2. d = "system"
            BY <2>1, <3>1 DEF Candidate
        <3> QED BY <1>2, <1>4, <2>2, <3>2 DEF Settles
    <2>3. CASE uid(p) = "user"
        <3>1. proc[p].at # 1
            BY <1>1, <1>4, <2>1, <2>3 DEF Allowed
        <3> QED BY <1>1, <1>2, <1>4, <2>1, <2>3, <3>1 DEF Candidate, Settles
    <2> QED BY <1>2, <2>1, <2>2, <2>3
<1>5. CASE platform = "macos" /\ p = "gui"
    <2>1. Candidates(p) = <<"system", "tmp">> /\ uid(p) = "user"
        BY <1>1, <1>5, CandidateFacts, MachineFacts
    <2> QED BY <1>1, <1>2, <1>5, <2>1 DEF Candidate, Settles
<1>6. CASE platform = "macos" /\ p = "daemon"
    <2>1. Candidates(p) = <<"system", "varlib", "tmp">> /\ uid(p) \in {"root", "user"}
        BY <1>1, <1>6, CandidateFacts, MachineFacts
    <2>2. CASE uid(p) = "root"
        BY <1>1, <1>2, <1>6, <2>1, <2>2 DEF Candidate, Settles, Allowed
    <2>3. CASE uid(p) = "user"
        <3>1. d # "varlib"
            <4>1. CASE proc[p].pc = "held"
                BY <1>1, <1>6, <2>3, <4>1 DEF Allowed
            <4>2. CASE proc[p].at = Len(Candidates(p))
                BY <2>1, <4>2 DEF Candidate
            <4> QED BY <4>1, <4>2
        <3>2. d \in {"system", "varlib", "tmp"}
            BY <1>1, <1>2, <2>1 DEF Candidate
        <3> QED BY <1>2, <1>6, <2>3, <3>1, <3>2 DEF Settles
    <2> QED BY <2>1, <2>2, <2>3
<1> QED BY <1>1, <1>3, <1>4, <1>5, <1>6, MachineFacts DEF Procs

LEMMA ProbeClosesTypes ==
    ASSUME Types, NEW p \in Procs, ProbeCloses(p)
    PROVE  Types'
<1> DEFINE d == Candidate(p)
<1>1. TypesFit /\ Strays /\ MachineOK /\ ProcOK /\ ProbeOK
    BY DEF Types, TypesFit
<1>2. proc[p].pc = "held" /\ probe' = [probe EXCEPT ![d] = "none"] /\ Settle(p, d)
    BY DEF ProbeCloses
<1>3. d \in Dirs /\ Settles(p, d)
    BY <1>2, FoundFacts DEF Looking
<1>4. /\ UNCHANGED <<machine, open>> /\ proc'[p].pc = "load"
      /\ \A q \in Procs \ {p} : proc'[q] = proc[q]
    BY <1>1, <1>2, <1>3, SettleShape
<1>5. ProbeOK'
    BY <1>1, <1>2, <1>4 DEF ProbeOK
<1>6. OwnProbes'
    <2> SUFFICES ASSUME NEW q \in Procs, uid(q)' = "root", proc'[q].pc = "held"
                 PROVE  /\ platform' = "linux" => probe'["system"] # "none"
                        /\ platform' = "macos" /\ proc'[q].at = 2 => probe'["varlib"] # "none"
        BY DEF OwnProbes
    <2>1. q # p /\ proc'[q] = proc[q]
        BY <1>4
    <2>2. uid(q) = "root" /\ platform' = platform /\ proc[q].pc = "held"
        BY <1>4, <2>1 DEF uid, platform
    <2>3. uid(p) = "user"
        BY <1>1, <2>1, <2>2, MachineFacts DEF Procs
    <2>4. /\ platform = "linux" => d # "system"
          /\ platform = "macos" => d # "varlib"
        BY <1>3, <2>3 DEF Settles
    <2> QED BY <1>1, <1>2, <1>3, <2>1, <2>2, <2>4, Values DEF Strays, OwnProbes, ProbeOK
<1> QED BY <1>2, <1>3, <1>5, <1>6, SettleTypes DEF Looking

LEMMA SettleUnprobedTypes ==
    ASSUME Types, NEW p \in Procs, LastResort(p) \/ MendSkips(p)
    PROVE  Types'
<1>1. TypesFit /\ Strays /\ MachineOK /\ ProcOK /\ ProbeOK /\ PlaceFits(p)
    BY DEF Types, TypesFit
<1>2. PICK d \in Dirs : /\ Settle(p, d) /\ Settles(p, d) /\ UNCHANGED probe
                        /\ proc[p].pc \in Looking
    <2>1. CASE LastResort(p)
        <3>1. proc[p].pc \in Looking /\ ~Probed(p) /\ Settle(p, Candidate(p)) /\ UNCHANGED probe
            BY <2>1 DEF LastResort, Starting, Looking
        <3>2. proc[p].at = Len(Candidates(p))
            BY <1>1, <3>1, CandidateType, LocalFacts DEF Probed, PlaceFits
        <3> QED BY <3>1, <3>2, FoundFacts
    <2>2. CASE MendSkips(p)
        BY <2>2, Values DEF MendSkips, Settles, Looking
    <2> QED BY <2>1, <2>2
<1>3. /\ UNCHANGED <<machine, open>> /\ proc'[p].pc = "load" /\ OthersStay(p)
    BY <1>1, <1>2, SettleShape
<1>4. ProbeOK' /\ OwnProbes'
    BY <1>1, <1>2, <1>3, OwnProbesStay DEF ProbeOK, Strays
<1> QED BY <1>2, <1>4, SettleTypes

\* What a step that probes nothing has to show.
LEMMA WriteTypes ==
    ASSUME Types, UNCHANGED <<machine, probing>>, NEW p \in Procs, OthersStay(p),
           proc'[p].pc # "held", srv <= srv', SrvOK', FileOK', PastOK', ProcOK',
           OwnFiles', OneFile', NoRefs', PlaceFits(p)', Allowed(p)'
    PROVE  Types'
<1>1. MachineOK' /\ ProbeOK'
    BY DEF Types, TypesFit, MachineOK, ProbeOK, probing
<1>2. TypesFit'
    BY <1>1 DEF TypesFit
<1>3. OwnProbes'
    BY OwnProbesStay DEF Types, Strays, probing
<1> QED BY <1>2, <1>3, TypesKept DEF Strays

LEMMA AllowedStays ==
    ASSUME UNCHANGED machine, NEW p \in Procs, Allowed(p), proc'[p].dir = proc[p].dir,
           proc'[p].pc \notin Looking
    PROVE  Allowed(p)'
BY DEF Allowed, platform, uid, Looking

\* A process writes where it may be, so never in a directory only root can use
\* on a machine without a root daemon.
LEMMA OwnFilesKept ==
    ASSUME Types, UNCHANGED machine, NEW p \in Procs,
           \A d \in Dirs \ {proc[p].dir} : file'[d] = file[d]
    PROVE  OwnFiles'
<1>1. MachineOK /\ OwnFiles /\ Allowed(p)
    BY DEF Types, TypesFit, Strays
<1>2. SUFFICES ASSUME machine.uid["daemon"] = "user"
               PROVE  /\ platform = "linux" => \A f \in Files : file'["system"][f] = 0
                      /\ platform = "macos" => \A f \in Files : file'["varlib"][f] = 0
    BY DEF OwnFiles, platform
<1>3. uid(p) = "user"
    BY <1>1, <1>2, MachineFacts DEF uid, Procs
<1>4. /\ platform = "linux" => proc[p].dir # "system"
      /\ platform = "macos" => proc[p].dir # "varlib"
    BY <1>1, <1>3 DEF Allowed
<1> QED BY <1>1, <1>2, <1>4, Values DEF OwnFiles

\* A step that writes no file and no new payload.
LEMMA NoFileStays ==
    ASSUME Types, UNCHANGED <<machine, file>>
    PROVE  /\ OwnFiles' /\ OneFile'
           /\ (\A q \in Procs : proc'[q].pay \in {0, proc[q].pay}) => NoRefs'
BY NoRefsStay DEF Types, Strays, OwnFiles, OneFile, platform

LEMMA LoadTypes ==
    ASSUME Types, NEW p \in Procs, Load(p)
    PROVE  Types'
<1>1. TypesFit /\ PlaceFits(p) /\ Allowed(p) /\ MachineOK /\ ProcOK /\ proc[p].dir \in Dirs \cup {"none"}
    BY LocalFacts DEF Types, TypesFit
<1>2. /\ proc[p].pc = "idle" /\ proc' = Go(p, "load", 1)
      /\ UNCHANGED <<machine, files, probing, srv, events>>
    BY DEF Load
<1>3. /\ ProcOK' /\ OthersStay(p) /\ \A q \in Procs \ {p} : proc'[q] = proc[q]
      /\ proc'[p].pc = "load" /\ proc'[p].at = 1 /\ proc'[p].dir = proc[p].dir
      /\ proc'[p].pay = proc[p].pay /\ proc'[p].bare = proc[p].bare
    BY <1>1, <1>2, GoShape DEF Codes
<1>4. SrvOK' /\ FileOK' /\ PastOK' /\ srv <= srv'
    BY <1>1, <1>2 DEF TypesFit, SrvOK, FileOK, PastOK, Issued, Stored, files, Maybe
<1>5. OwnFiles' /\ OneFile' /\ NoRefs'
    BY <1>2, <1>3, NoFileStays DEF files
<1>6. PlaceFits(p)'
    <2>1. Order(p)' = Order(p) /\ platform' = platform
        BY <1>2 DEF Order, platform
    <2>2. 1 <= Len(Order(p)')
        BY <1>1, <2>1, OrderFacts
    <2> QED BY <1>1, <1>2, <1>3, <2>2 DEF PlaceFits, Looking, Writing
<1>7. Allowed(p)'
    BY <1>1, <1>2, <1>3, AllowedStays DEF Looking
<1> QED BY <1>2, <1>3, <1>4, <1>5, <1>6, <1>7, WriteTypes

LEMMA OffShape ==
    ASSUME ProcOK, SrvOK, UNCHANGED srv, NEW p \in Procs, proc' = [proc EXCEPT ![p] = Off]
    PROVE  /\ ProcOK' /\ OthersStay(p) /\ proc'[p] = Off
           /\ \A q \in Procs \ {p} : proc'[q] = proc[q]
<1>1. Local' = Local
    BY DEF Local, Stored, Issued
<1>2. 0 \in Issued
    BY DEF Issued, SrvOK, Maybe
<1>3. Off \in Local
    BY <1>2 DEF Off, Local, Codes, Looking, Stored
<1> QED BY <1>1, <1>3 DEF ProcOK, OthersStay, Stays

LEMMA CrashTypes ==
    ASSUME Types, NEW p \in Procs, Crash(p)
    PROVE  Types'
<1>1. TypesFit /\ PlaceFits(p) /\ Allowed(p) /\ MachineOK /\ ProcOK /\ SrvOK
      /\ proc[p].dir \in Dirs \cup {"none"}
    BY LocalFacts DEF Types, TypesFit
<1>2. /\ proc[p].pc # "off" /\ events < MaxEvents /\ events' = events + 1
      /\ proc' = [proc EXCEPT ![p] = Off]
      /\ harm' = IF proc[p].bare THEN [harm EXCEPT ![proc[p].dir] = @ \cup {"lone"}] ELSE harm
      /\ UNCHANGED <<machine, file, locked, chain, saved, wiped, probing, srv>>
    BY DEF Crash, Fault
<1>3. ProcOK' /\ OthersStay(p) /\ proc'[p] = Off /\ \A q \in Procs \ {p} : proc'[q] = proc[q]
    BY <1>1, <1>2, OffShape
<1>4. SrvOK' /\ FileOK' /\ srv <= srv'
    BY <1>1, <1>2, StoreAssumption DEF TypesFit, SrvOK, FileOK, Issued, Stored, Maybe
<1>5. PastOK'
    BY <1>1, <1>2 DEF TypesFit, PastOK, Hazards, Issued
<1>6. OwnFiles' /\ OneFile' /\ NoRefs'
    BY <1>2, <1>3, NoFileStays DEF Off
<1>7. PlaceFits(p)'
    <2>1. Candidates(p)' = Candidates(p) /\ platform' = platform
        BY <1>2 DEF Candidates, platform, uid
    <2>2. 1 <= Len(Candidates(p))
        BY <1>1, CandidateType
    <2> QED BY <1>3, <2>1, <2>2 DEF PlaceFits, Looking, Writing, Off
<1>8. Allowed(p)'
    BY <1>3 DEF Allowed, Off, Looking
<1> QED BY <1>2, <1>3, <1>4, <1>5, <1>6, <1>7, <1>8, WriteTypes DEF Off

LEMMA DecodedType ==
    ASSUME SrvOK, NEW p \in Procs, NEW c \in Stored
    PROVE  Decoded(p, c) \in Issued
<1>1. 0 \in Issued /\ chain \in Issued
    BY DEF SrvOK, Maybe, Issued
<1>2. c \in Tokens => c \in Issued
    BY Values DEF Stored
<1> QED BY <1>1, <1>2 DEF Decoded, SelfContained, Record

LEMMA MendTakesTypes ==
    ASSUME Types, NEW p \in Procs, MendTakes(p)
    PROVE  Types'
<1> DEFINE state == [proc[p] EXCEPT !.pc = "remake", !.dir = "system",
                                    !.pay = file["system"]["dat"], !.bare = TRUE]
<1>1. TypesFit /\ PlaceFits(p) /\ Allowed(p) /\ Strays /\ MachineOK /\ ProcOK /\ SrvOK
      /\ FileOK /\ PastOK
    BY DEF Types, TypesFit
<1>2. /\ proc[p].pc = "off" /\ platform = "windows" /\ Begin(p, state, {})
      /\ file' = [file EXCEPT !["system"]["dat"] = 0] /\ locked' = FALSE
      /\ UNCHANGED <<machine, chain, saved, wiped, probing, srv, events>>
    BY DEF MendTakes
<1>3. file["system"]["dat"] \in Stored /\ "system" \in Dirs /\ "dat" \in Files
    BY <1>1, Values DEF FileOK
<1>4. state \in Local' /\ state.pc = "remake" /\ state.dir = "system"
      /\ state.pay = file["system"]["dat"] /\ state.tok = proc[p].tok
    <2>1. proc[p] \in Local /\ Local' = Local
        BY <1>1, <1>2, LocalFacts DEF Local, Issued, Stored
    <2>2. "remake" \in Codes /\ "system" \in Dirs \cup {"none"} /\ TRUE \in BOOLEAN
        BY <1>3 DEF Codes, Writing
    <2> HIDE DEF Dirs, Codes
    <2> QED BY <1>3, <2>1, <2>2 DEF Local
<1>5. srv <= srv' /\ SrvOK' /\ srv' \in Nat
    BY <1>1, <1>2 DEF SrvOK, Maybe, Issued
<1>6. /\ ProcOK' /\ OthersStay(p) /\ harm' \in [Dirs -> SUBSET Hazards]
      /\ proc'[p].pc = "remake" /\ proc'[p].dir = "system" /\ proc'[p].tok = proc[p].tok
      /\ proc'[p].pay = file["system"]["dat"]
    <2>1. {} \in SUBSET Hazards
        OBVIOUS
    <2> HIDE DEF state
    <2> QED BY <1>1, <1>2, <1>3, <1>4, <1>5, <2>1, BeginShape
<1>7. FileOK' /\ \A d \in Dirs, f \in Files : file'[d][f] \in {0, file[d][f]}
    <2>1. 0 \in Stored
        BY <1>1 DEF SrvOK, Maybe, Stored, Issued
    <2> QED BY <1>1, <1>2, <1>3, <2>1 DEF FileOK, Stored, Issued
<1>8. PastOK'
    BY <1>1, <1>2, <1>6 DEF PastOK, Issued
<1>9. OwnFiles' /\ OneFile'
    BY <1>1, <1>2, <1>7, Values DEF Strays, OwnFiles, OneFile, platform
<1>10. NoRefs'
    <2>1. \A q \in Procs : proc'[q].pay \in {proc[q].pay, file["system"]["dat"]}
        BY <1>6 DEF OthersStay, Stays
    <2> QED BY <1>1, <1>2, <1>3, <1>7, <2>1, Values DEF Strays, NoRefs, platform
<1>11. PlaceFits(p)' /\ Allowed(p)'
    <2>1. platform' = "windows"
        BY <1>2 DEF platform
    <2> QED BY <1>2, <1>6, <2>1, Values DEF PlaceFits, Allowed, Looking, Writing
<1> QED BY <1>2, <1>5, <1>6, <1>7, <1>8, <1>9, <1>10, <1>11, WriteTypes

LEMMA MendPutsTypes ==
    ASSUME Types, NEW p \in Procs, MendPuts(p)
    PROVE  Types'
<1> DEFINE s == [proc[p] EXCEPT !.pc = "load", !.at = 1, !.bare = FALSE]
<1>1. TypesFit /\ PlaceFits(p) /\ Allowed(p) /\ Strays /\ MachineOK /\ ProcOK /\ SrvOK
      /\ FileOK /\ PastOK /\ proc[p] \in Local
    BY LocalFacts DEF Types, TypesFit
<1>2. /\ proc[p].pc = "remake"
      /\ proc' = [proc EXCEPT ![p].pc = "load", ![p].at = 1, ![p].bare = FALSE]
      /\ file' = [file EXCEPT !["system"]["dat"] = proc[p].pay]
      /\ UNCHANGED <<machine, locked, chain, saved, wiped, harm, probing, srv, events>>
    BY DEF MendPuts
<1>3. platform = "windows" /\ proc[p].dir = "system"
    BY <1>1, <1>2 DEF PlaceFits, Allowed, Looking
<1>4. Stored' = Stored /\ Issued' = Issued /\ Local' = Local
    BY <1>2 DEF Stored, Issued, Local
<1>5. proc' = [proc EXCEPT ![p] = s] /\ s \in Local
    <2>1. proc' = [proc EXCEPT ![p] = s]
        BY <1>1, <1>2 DEF ProcOK
    <2>2. proc[p] \in Local /\ "load" \in Codes /\ 1 \in 1..3 /\ FALSE \in BOOLEAN
        BY <1>1 DEF Codes
    <2>3. s \in Local
        BY <2>2 DEF Local
    <2> QED BY <2>1, <2>3
<1>6. ProcOK' /\ proc'[p] = s /\ \A q \in Procs \ {p} : proc'[q] = proc[q]
    BY <1>1, <1>4, <1>5 DEF ProcOK
<1>7. /\ proc'[p].pc = "load" /\ proc'[p].at = 1 /\ proc'[p].dir = proc[p].dir
      /\ proc'[p].pay = proc[p].pay /\ ~proc'[p].bare /\ OthersStay(p)
    BY <1>1, <1>6 DEF Local, OthersStay, Stays
<1>8. FileOK' /\ \A d \in Dirs, f \in Files :
                     file'[d][f] = IF d = "system" /\ f = "dat" THEN proc[p].pay ELSE file[d][f]
    BY <1>1, <1>2, <1>4, LocalFacts, Values DEF FileOK
<1>9. SrvOK' /\ PastOK' /\ srv <= srv'
    BY <1>1, <1>2, <1>4 DEF SrvOK, PastOK, Maybe
<1>10. OwnFiles' /\ OneFile'
    BY <1>1, <1>2, <1>3, <1>8, Values DEF Strays, OwnFiles, OneFile, platform
<1>11. NoRefs'
    <2>1. \A q \in Procs : proc'[q].pay = proc[q].pay
        BY <1>7 DEF OthersStay, Stays
    <2>2. proc[p].pay # Ref /\ \A d \in Dirs, f \in Files : file[d][f] # Ref
        BY <1>1, <1>3 DEF Strays, NoRefs
    <2>3. \A q \in Procs : proc[q].pay # Ref
        BY <1>1, <1>3 DEF Strays, NoRefs
    <2> QED BY <1>8, <2>1, <2>2, <2>3 DEF NoRefs
<1>12. PlaceFits(p)'
    <2>1. 1 <= Len(Order(p)')
        <3>1. Order(p)' = Order(p)
            BY <1>2 DEF Order, platform
        <3> QED BY <1>1, <3>1, OrderFacts
    <2> QED BY <1>3, <1>7, <2>1, Values DEF PlaceFits, Looking, Writing
<1>13. Allowed(p)'
    BY <1>1, <1>2, <1>7, AllowedStays DEF Looking
<1> QED BY <1>2, <1>6, <1>7, <1>8, <1>9, <1>10, <1>11, <1>12, <1>13, WriteTypes

LEMMA BeginTypes ==
    ASSUME Types, UNCHANGED <<machine, file, locked, chain, wiped, probing>>,
           NEW p \in Procs, proc[p].dir \in Dirs, NEW state \in Local',
           state.dir = proc[p].dir, ~state.bare,
           state.pay \in Issued' \cup {proc[p].pay},
           \/ state.pc = "seal" /\ state.tok # 0
           \/ state.pc = "wipe" /\ state.pay \in Issued' /\ state.at <= Len(Order(p)),
           NEW hazards \in SUBSET Hazards, Begin(p, state, hazards),
           srv' \in Maybe, srv <= srv', events' \in 0..MaxEvents,
           saved' \in [Dirs -> Issued']
    PROVE  Types'
<1>1. TypesFit /\ PlaceFits(p) /\ Allowed(p) /\ Strays /\ MachineOK /\ ProcOK /\ SrvOK
      /\ FileOK /\ PastOK
    BY DEF Types, TypesFit
<1>2. srv' \in Nat /\ Issued \subseteq Issued' /\ Stored \subseteq Stored'
    BY <1>1, Values, IssuedGrows
<1>3. /\ ProcOK' /\ OthersStay(p) /\ harm' \in [Dirs -> SUBSET Hazards]
      /\ proc'[p].pc = state.pc /\ proc'[p].at = state.at
      /\ proc'[p].dir = state.dir /\ proc'[p].tok = state.tok
      /\ proc'[p].pay = state.pay /\ proc'[p].bare = state.bare
    BY <1>1, <1>2, BeginShape
<1>4. SrvOK' /\ FileOK' /\ PastOK'
    <2>1. SrvOK'
        BY <1>1, <1>2 DEF SrvOK
    <2>2. FileOK'
        BY <1>1, <1>2 DEF FileOK
    <2>3. PastOK'
        BY <1>1, <1>2, <1>3 DEF PastOK
    <2> QED BY <2>1, <2>2, <2>3
<1>5. OwnFiles' /\ OneFile'
    BY NoFileStays
<1>6. NoRefs'
    <2>1. Ref \notin Issued'
        BY <1>2, Values DEF Issued
    <2>2. \A q \in Procs : proc'[q].pay = Ref => proc[q].pay = Ref
        BY <1>3, <2>1 DEF OthersStay, Stays
    <2> QED BY <1>1, <2>2 DEF Strays, NoRefs, platform
<1>7. PlaceFits(p)'
    <2>1. Order(p)' = Order(p)
        BY DEF Order, platform
    <2> QED BY <1>3, <2>1, Values DEF PlaceFits, Looking, Writing
<1>8. Allowed(p)'
    BY <1>1, <1>3, AllowedStays DEF Looking
<1>9. proc'[p].pc # "held"
    BY <1>3
<1> QED BY <1>3, <1>4, <1>5, <1>6, <1>7, <1>8, <1>9, WriteTypes

LEMMA ReadTypes ==
    ASSUME Types, NEW p \in Procs, Read(p)
    PROVE  Types'
<1> DEFINE s == proc[p]
           content == file[s.dir][Order(p)[s.at]]
           token == Decoded(p, content)
           again == s.at > 1 \/ (Window(p) /\ content # Ref)
           drop == Window(p) /\ s.at > 1
<1>1. TypesFit /\ PlaceFits(p) /\ Allowed(p) /\ Strays /\ MachineOK /\ ProcOK /\ SrvOK
      /\ FileOK /\ PastOK
    BY DEF Types, TypesFit
<1>2. /\ s.pc = "load"
      /\ UNCHANGED <<machine, file, locked, chain, saved, wiped, probing, srv, events>>
    BY DEF Read
<1>3. s \in Local /\ s.dir \in Dirs /\ s.at \in 1..3 /\ s.at <= Len(Order(p)) /\ ~s.bare
    BY <1>1, <1>2, LocalFacts DEF PlaceFits, Looking
<1>4. content \in Stored /\ token \in Issued
    <2>1. Order(p)[s.at] \in Files
        BY <1>1, <1>3, OrderFacts
    <2> QED BY <1>1, <1>3, <2>1, DecodedType DEF FileOK
<1>5. SrvOK' /\ FileOK' /\ srv <= srv' /\ srv' \in Maybe /\ events' \in 0..MaxEvents
      /\ Local \subseteq Local' /\ Issued' = Issued /\ srv' \in Nat
    BY <1>1, <1>2 DEF SrvOK, FileOK, Issued, Stored, Local, Maybe
<1>6. ASSUME UNCHANGED harm, ProcOK', OthersStay(p), proc'[p].dir = s.dir, ~proc'[p].bare,
             \A q \in Procs : proc'[q].pay \in {0, proc[q].pay},
             \/ proc'[p].pc = "idle"
             \/ proc'[p].pc = "load" /\ proc'[p].at <= Len(Order(p))
      PROVE  Types'
    <2>1. PastOK'
        BY <1>1, <1>2, <1>6 DEF PastOK, Issued
    <2>2. OwnFiles' /\ OneFile' /\ NoRefs'
        BY <1>2, <1>6, NoFileStays
    <2>3. PlaceFits(p)'
        <3>1. Order(p)' = Order(p)
            BY <1>2 DEF Order, platform
        <3> QED BY <1>3, <1>6, <3>1, Values DEF PlaceFits, Looking, Writing
    <2>4. Allowed(p)'
        BY <1>1, <1>2, <1>6, AllowedStays DEF Looking
    <2> QED BY <1>2, <1>5, <1>6, <2>1, <2>2, <2>3, <2>4, WriteTypes
<1>7. CASE token = 0 /\ s.at < Len(Order(p)) /\ proc' = Go(p, "load", s.at + 1) /\ UNCHANGED harm
    <2>1. s.at + 1 \in 1..3 /\ s.at + 1 <= Len(Order(p))
        BY <1>1, <1>3, <1>7, OrderFacts
    <2> QED BY <1>1, <1>2, <1>3, <1>6, <1>7, <2>1, GoShape DEF Codes
<1>8. CASE proc' = Rest(p, token) /\ UNCHANGED harm
    BY <1>1, <1>2, <1>4, <1>6, <1>8, RestShape
<1>9. CASE /\ token # 0
           /\ Begin(p, [s EXCEPT !.pc = "seal", !.tok = token, !.drop = drop],
                    IF content = Torn THEN {"older"} ELSE {})
    <2> DEFINE state == [s EXCEPT !.pc = "seal", !.tok = token, !.drop = drop]
    <2>1. drop \in BOOLEAN /\ (IF content = Torn THEN {"older"} ELSE {}) \in SUBSET Hazards
        BY DEF Hazards, Window
    <2>2. /\ state \in Local' /\ state.dir = s.dir /\ state.bare = s.bare
          /\ state.pay = s.pay /\ state.pc = "seal" /\ state.tok = token
        <3>1. s \in Local' /\ token \in Issued' /\ drop \in BOOLEAN /\ "seal" \in Codes
            BY <1>3, <1>4, <1>5, <2>1 DEF Codes, Writing
        <3> HIDE DEF token, drop
        <3> QED BY <3>1 DEF Local
    <2>3. saved' \in [Dirs -> Issued']
        BY <1>1, <1>2, <1>5 DEF PastOK
    <2>4. token # 0 /\ Begin(p, state, IF content = Torn THEN {"older"} ELSE {})
        BY <1>9
    <2> HIDE DEF state, content, drop
    <2> QED BY <1>2, <1>3, <1>5, <2>1, <2>2, <2>3, <2>4, BeginTypes
<1> QED BY <1>7, <1>8, <1>9 DEF Read

LEMMA EnrolTypes ==
    ASSUME Types, NEW p \in Procs, Enrol(p)
    PROVE  Types'
<1> DEFINE s == proc[p]
           state == [s EXCEPT !.pc = "seal", !.tok = srv + 1, !.drop = FALSE]
<1>1. TypesFit /\ PlaceFits(p) /\ ProcOK /\ SrvOK /\ PastOK
    BY DEF Types, TypesFit
<1>2. /\ s.pc = "idle" /\ srv < MaxToken /\ srv' = srv + 1 /\ Begin(p, state, {})
      /\ UNCHANGED <<machine, file, locked, chain, saved, wiped, probing, events>>
    BY DEF Enrol
<1>3. s \in Local /\ s.dir \in Dirs /\ ~s.bare
    BY <1>1, <1>2, LocalFacts DEF PlaceFits, Looking
<1>4. srv \in Nat /\ srv <= srv' /\ srv' \in Maybe /\ srv' \in Nat /\ srv + 1 \in Issued'
      /\ events' \in 0..MaxEvents /\ srv + 1 # 0
    BY <1>1, <1>2, StoreAssumption DEF SrvOK, Maybe, Issued
<1>5. Local \subseteq Local' /\ Issued \subseteq Issued'
    BY <1>1, <1>4, IssuedGrows
<1>6. /\ state \in Local' /\ state.dir = s.dir /\ state.bare = s.bare
      /\ state.pay = s.pay /\ state.pc = "seal" /\ state.tok = srv + 1
    <2>1. s \in Local' /\ FALSE \in BOOLEAN /\ "seal" \in Codes
        BY <1>3, <1>5 DEF Codes, Writing
    <2> QED BY <1>4, <2>1 DEF Local
<1>7. saved' \in [Dirs -> Issued'] /\ {} \in SUBSET Hazards
    BY <1>1, <1>2, <1>5 DEF PastOK
<1> HIDE DEF state
<1> QED BY <1>2, <1>3, <1>4, <1>6, <1>7, BeginTypes

LEMMA UnlinkTypes ==
    ASSUME Types, NEW p \in Procs, Unlink(p)
    PROVE  Types'
<1> DEFINE s == proc[p]
           state == [s EXCEPT !.pc = "wipe", !.at = 1, !.pay = srv]
<1>1. TypesFit /\ PlaceFits(p) /\ ProcOK /\ SrvOK /\ PastOK /\ MachineOK
    BY DEF Types, TypesFit
<1>2. /\ s.pc = "idle" /\ events < MaxEvents /\ Begin(p, state, {})
      /\ saved' = [saved EXCEPT ![s.dir] = 0] /\ events' = events + 1
      /\ UNCHANGED <<machine, file, locked, chain, wiped, probing, srv>>
    BY DEF Unlink, Fault
<1>3. s \in Local /\ s.dir \in Dirs /\ ~s.bare
    BY <1>1, <1>2, LocalFacts DEF PlaceFits, Looking
<1>4. srv \in Nat /\ srv <= srv' /\ srv' \in Maybe /\ srv \in Issued' /\ 0 \in Issued'
      /\ events' \in 0..MaxEvents
    BY <1>1, <1>2, StoreAssumption DEF SrvOK, Maybe, Issued
<1>5. Local' = Local /\ Issued' = Issued
    BY <1>2 DEF Local, Stored, Issued
<1>6. /\ state \in Local' /\ state.dir = s.dir /\ state.bare = s.bare
      /\ state.pay = srv /\ state.pc = "wipe" /\ state.at = 1
    <2>1. s \in Local' /\ srv \in Stored' /\ 1 \in 1..3 /\ "wipe" \in Codes
        BY <1>3, <1>4, <1>5 DEF Codes, Writing, Stored
    <2> QED BY <2>1 DEF Local
<1>7. saved' \in [Dirs -> Issued'] /\ {} \in SUBSET Hazards
    BY <1>1, <1>2, <1>4, <1>5 DEF PastOK
<1>8. 1 <= Len(Order(p))
    BY <1>1, OrderFacts
<1> HIDE DEF state
<1> QED BY <1>2, <1>3, <1>4, <1>6, <1>7, <1>8, BeginTypes

\* A step of a write in the directory of its process.
LEMMA InPlaceTypes ==
    ASSUME Types, UNCHANGED <<machine, probing>>, NEW p \in Procs, OthersStay(p), ProcOK',
           SrvOK', PastOK', srv <= srv', locked' \in BOOLEAN,
           proc[p].dir \in Dirs, proc'[p].dir = proc[p].dir, proc'[p].pc \notin Looking,
           NEW c \in Stored', platform # "macos" => c # Ref,
           NEW f \in Files, platform = "windows" => f = "dat" \/ c = 0,
           file' \in {file, [file EXCEPT ![proc[p].dir][f] = c]},
           proc'[p].pay \in {0, proc[p].pay, c}, PlaceFits(p)'
    PROVE  Types'
<1> DEFINE d == proc[p].dir
<1>1. TypesFit /\ PlaceFits(p) /\ Allowed(p) /\ Strays /\ MachineOK /\ ProcOK /\ SrvOK
      /\ FileOK
    BY DEF Types, TypesFit
<1>2. Stored \subseteq Stored'
    BY <1>1, IssuedGrows DEF SrvOK, Maybe
<1>3. \A e \in Dirs, g \in Files : file'[e][g] \in {file[e][g], IF e = d /\ g = f THEN c
                                                                  ELSE file[e][g]}
    BY <1>1 DEF FileOK
<1>4. FileOK' /\ \A e \in Dirs \ {d} : file'[e] = file[e]
    BY <1>1, <1>2 DEF FileOK
<1>5. OwnFiles'
    BY <1>4, OwnFilesKept
<1>6. OneFile'
    BY <1>1, <1>3, Values DEF Strays, OneFile, platform
<1>7. NoRefs'
    <2> SUFFICES ASSUME platform # "macos"
                 PROVE  /\ \A e \in Dirs, g \in Files : file'[e][g] # Ref
                        /\ \A q \in Procs : proc'[q].pay # Ref
        BY DEF NoRefs, platform
    <2>1. /\ c # Ref /\ Ref # 0 /\ \A e \in Dirs, g \in Files : file[e][g] # Ref
          /\ \A q \in Procs : proc[q].pay # Ref
        BY <1>1, Values DEF Strays, NoRefs
    <2>2. \A q \in Procs : proc'[q].pay \in {0, proc[q].pay, c}
        BY DEF OthersStay, Stays
    <2> QED BY <1>3, <2>1, <2>2
<1>8. Allowed(p)'
    BY <1>1, AllowedStays
<1>9. proc'[p].pc # "held"
    BY DEF Looking
<1> QED BY <1>4, <1>5, <1>6, <1>7, <1>8, <1>9, WriteTypes

LEMMA TargetFacts ==
    ASSUME MachineOK, ProcOK, NEW p \in Procs, PlaceFits(p),
           proc[p].pc \in {"cut", "fill", "wipe"}
    PROVE  /\ Target(p) \in Files /\ (platform = "windows" => Target(p) = "dat")
           /\ proc[p].at \in 1..Len(Order(p)) /\ proc[p].dir \in Dirs
<1>1. proc[p].at \in 1..Len(Order(p))
    BY OrderFacts, LocalFacts DEF PlaceFits
<1>2. Target(p) \in Files
    BY <1>1, OrderFacts DEF Target
<1>3. platform = "windows" => Target(p) = "dat"
    BY <1>1, OrderFacts DEF Target
<1>4. proc[p].dir \in Dirs
    BY LocalFacts DEF Looking
<1> QED BY <1>1, <1>2, <1>3, <1>4

\* The tokens and the bounds where nothing is issued.
LEMMA SrvStays ==
    ASSUME SrvOK, UNCHANGED <<srv, chain, events>>
    PROVE  SrvOK' /\ srv <= srv' /\ Stored' = Stored /\ Issued' = Issued /\ 0 \in Issued
BY DEF SrvOK, Issued, Stored, Maybe

LEMMA FaultStays ==
    ASSUME SrvOK, UNCHANGED <<srv, chain>>, UNCHANGED events \/ Fault
    PROVE  SrvOK' /\ srv <= srv' /\ Stored' = Stored /\ Issued' = Issued /\ 0 \in Issued
BY StoreAssumption DEF SrvOK, Issued, Stored, Maybe, Fault

\* Whether or not the file is gone, the wipe goes on.
WipeStep(p, gone) ==
    LET s == proc[p]
        last == s.at = Len(Order(p))
        all == s.whole /\ gone
    IN
    /\ s.pc = "wipe"
    /\ file' = IF gone THEN [file EXCEPT ![s.dir][Target(p)] = 0] ELSE file
    /\ proc' = IF last THEN Rest(p, 0)
               ELSE [proc EXCEPT ![p].at = s.at + 1, ![p].whole = all]
    /\ wiped' = IF last THEN [wiped EXCEPT ![s.dir] = s.pay] ELSE wiped
    /\ harm' = IF last /\ ~all THEN [harm EXCEPT ![s.dir] = @ \cup {"kept"}]
               ELSE IF last /\ s.sole THEN [harm EXCEPT ![s.dir] = {}] ELSE harm
    /\ UNCHANGED <<machine, locked, chain, saved, probing, srv>>
    /\ UNCHANGED events \/ Fault

LEMMA WipeShape ==
    ASSUME NEW p \in Procs, Wipe(p)
    PROVE  \E gone \in BOOLEAN : WipeStep(p, gone)
BY DEF Wipe, WipeStep, Removal, Harm, EndHarm

LEMMA DropTypes ==
    ASSUME Types, NEW p \in Procs, Drop(p)
    PROVE  Types'
<1> DEFINE s == proc[p]
<1>1. TypesFit /\ PlaceFits(p) /\ ProcOK /\ SrvOK /\ PastOK /\ FileOK
    BY DEF Types, TypesFit
<1>2. /\ s.pc = "drop" /\ file' \in {file, [file EXCEPT ![s.dir]["enc"] = 0]}
      /\ proc' = Rest(p, s.tok)
      /\ \/ UNCHANGED harm
         \/ harm' = [harm EXCEPT ![s.dir] = @ \cup (IF Good(s.dir, "dat") THEN {} ELSE {"lone"})]
      /\ UNCHANGED <<machine, locked, chain, saved, wiped, probing, srv>>
      /\ UNCHANGED events \/ Fault
    BY DEF Drop, Harm
<1>3. s.dir \in Dirs /\ s.tok \in Issued
    BY <1>1, <1>2, LocalFacts DEF Looking
<1>4. SrvOK' /\ srv <= srv' /\ Issued' = Issued /\ 0 \in Stored' /\ Ref # 0
    BY <1>1, <1>2, FaultStays, Values DEF Stored
<1>5. /\ ProcOK' /\ OthersStay(p) /\ proc'[p].pc = "idle" /\ proc'[p].dir = s.dir
      /\ proc'[p].pay = 0 /\ ~proc'[p].bare
    BY <1>1, <1>2, <1>3, RestShape
<1>6. PastOK'
    BY <1>1, <1>2, <1>3, <1>4 DEF PastOK, Hazards
<1>7. PlaceFits(p)'
    BY <1>3, <1>5, Values DEF PlaceFits, Looking, Writing
<1>8. locked' \in BOOLEAN /\ "enc" \in Files
    BY <1>1, <1>2 DEF FileOK, Files
<1>9. proc'[p].pc \notin Looking
    BY <1>5 DEF Looking
<1> QED BY <1>2, <1>3, <1>4, <1>5, <1>6, <1>7, <1>8, <1>9, InPlaceTypes

LEMMA WipeTypes ==
    ASSUME Types, NEW p \in Procs, Wipe(p)
    PROVE  Types'
<1> DEFINE s == proc[p]
           last == s.at = Len(Order(p))
<1>0. PICK gone \in BOOLEAN : WipeStep(p, gone)
    BY WipeShape
<1> DEFINE all == s.whole /\ gone
<1>1. TypesFit /\ PlaceFits(p) /\ ProcOK /\ SrvOK /\ PastOK /\ FileOK /\ MachineOK
    BY DEF Types, TypesFit
<1>2. /\ s.pc = "wipe"
      /\ file' = IF gone THEN [file EXCEPT ![s.dir][Target(p)] = 0] ELSE file
      /\ proc' = IF last THEN Rest(p, 0)
                 ELSE [proc EXCEPT ![p].at = s.at + 1, ![p].whole = all]
      /\ wiped' = IF last THEN [wiped EXCEPT ![s.dir] = s.pay] ELSE wiped
      /\ harm' \in {harm, [harm EXCEPT ![s.dir] = {}], [harm EXCEPT ![s.dir] = @ \cup {"kept"}]}
      /\ UNCHANGED <<machine, locked, chain, saved, probing, srv>>
      /\ UNCHANGED events \/ Fault
    BY <1>0 DEF WipeStep
<1>3. /\ s.dir \in Dirs /\ s.pay \in Issued /\ Target(p) \in Files
      /\ s.at \in 1..Len(Order(p)) /\ ~s.bare
    BY <1>1, <1>2, TargetFacts DEF PlaceFits
<1>4. SrvOK' /\ srv <= srv' /\ Issued' = Issued /\ 0 \in Issued /\ 0 \in Stored' /\ Ref # 0
    BY <1>1, <1>2, FaultStays, Values DEF Stored
<1>5. /\ ProcOK' /\ OthersStay(p) /\ proc'[p].dir = s.dir /\ ~proc'[p].bare
      /\ \/ proc'[p].pc = "idle" /\ proc'[p].pay = 0
         \/ proc'[p].pc = "wipe" /\ proc'[p].pay = s.pay /\ proc'[p].at <= Len(Order(p))
    <2>1. CASE last
        BY <1>1, <1>2, <1>4, <2>1, RestShape
    <2>2. CASE ~last
        <3>1. s.at + 1 \in 1..3 /\ s.at + 1 <= Len(Order(p)) /\ "wipe" \in Codes
            BY <1>1, <1>3, <2>2, OrderFacts DEF Codes, Writing
        <3>2. s \in Local /\ all \in BOOLEAN
            BY <1>1, LocalFacts DEF Local
        <3> QED BY <1>1, <1>2, <1>3, <1>4, <2>2, <3>1, <3>2, StepShape
    <2> QED BY <2>1, <2>2
<1>6. PastOK'
    <2>1. harm' \in [Dirs -> SUBSET Hazards] /\ saved' \in [Dirs -> Issued']
        BY <1>1, <1>2, <1>3, <1>4 DEF PastOK, Hazards
    <2>2. wiped' \in [Dirs -> Issued']
        BY <1>1, <1>2, <1>3, <1>4 DEF PastOK
    <2> QED BY <2>1, <2>2 DEF PastOK
<1>7. PlaceFits(p)'
    <2>1. Order(p)' = Order(p)
        BY <1>2 DEF Order, platform
    <2> QED BY <1>3, <1>4, <1>5, <2>1, Values DEF PlaceFits, Looking, Writing
<1>8. locked' \in BOOLEAN /\ file' \in {file, [file EXCEPT ![s.dir][Target(p)] = 0]}
    BY <1>1, <1>2 DEF FileOK
<1>9. proc'[p].pc \notin Looking /\ proc'[p].pay \in {0, s.pay}
    BY <1>5 DEF Looking
<1>10. UNCHANGED <<machine, probing>>
    BY <1>2
<1>11. platform = "windows" => Target(p) = "dat" \/ 0 = 0
    OBVIOUS
<1> QED BY <1>3, <1>4, <1>5, <1>6, <1>7, <1>8, <1>9, <1>10, <1>11, InPlaceTypes

\* After Onward a process is where it may be.
LEMMA OnwardPlace ==
    ASSUME ProcOK, SrvOK, UNCHANGED <<srv, machine>>, NEW p \in Procs, NEW ok \in BOOLEAN,
           MachineOK, PlaceFits(p), proc[p].pc \in {"cut", "fill"}, proc' = Onward(p, ok)
    PROVE  PlaceFits(p)' /\ proc'[p].pc \notin Looking
<1>1. /\ proc'[p].dir = proc[p].dir /\ ~proc'[p].bare
      /\ \/ proc'[p].pc \in {"idle", "drop"}
         \/ /\ proc'[p].pc = "cut" /\ proc'[p].at <= Len(Order(p))
            /\ proc'[p].tok = proc[p].tok
    BY OnwardShape
<1>2. Order(p)' = Order(p) /\ proc[p].dir \in Dirs /\ proc[p].tok # 0
    BY LocalFacts DEF Order, platform, PlaceFits, Looking
<1> QED BY <1>1, <1>2, Values DEF PlaceFits, Looking, Writing

LEMMA WriteFailsTypes ==
    ASSUME Types, NEW p \in Procs, WriteFails(p)
    PROVE  Types'
<1> DEFINE s == proc[p]
<1>1. TypesFit /\ PlaceFits(p) /\ ProcOK /\ SrvOK /\ PastOK /\ FileOK /\ MachineOK
    BY DEF Types, TypesFit
<1>2. /\ s.pc \in {"cut", "fill"} /\ events < MaxEvents /\ events' = events + 1
      /\ proc' = Onward(p, FALSE)
      /\ harm' = [harm EXCEPT ![s.dir] = @ \cup (IF s.bare THEN {"lone"} ELSE {})]
      /\ UNCHANGED <<machine, file, locked, chain, saved, wiped, probing, srv>>
    BY DEF WriteFails, Fault, Harm
<1>3. s.dir \in Dirs /\ Target(p) \in Files
    BY <1>1, <1>2, TargetFacts
<1>4. SrvOK' /\ srv <= srv' /\ Issued' = Issued /\ 0 \in Stored' /\ Ref # 0
    <2>1. SrvOK' /\ srv <= srv' /\ Issued' = Issued
        BY <1>1, <1>2, StoreAssumption DEF SrvOK, Issued, Maybe
    <2> QED BY <1>1, <1>2, <2>1, Values DEF Stored, SrvOK, Maybe, Issued
<1>5. /\ ProcOK' /\ OthersStay(p) /\ proc'[p].dir = s.dir
      /\ proc'[p].pay \in {0, s.pay} /\ FALSE \in BOOLEAN
    BY <1>1, <1>2, OnwardShape
<1>6. PastOK'
    BY <1>1, <1>2, <1>3, <1>4 DEF PastOK, Hazards
<1>7. PlaceFits(p)' /\ proc'[p].pc \notin Looking
    BY <1>1, <1>2, <1>5, OnwardPlace
<1>8. locked' \in BOOLEAN
    BY <1>1, <1>2 DEF FileOK
<1>9. platform = "windows" => Target(p) = "dat" \/ 0 = 0
    OBVIOUS
<1> QED BY <1>2, <1>3, <1>4, <1>5, <1>6, <1>7, <1>8, <1>9, InPlaceTypes

LEMMA FillTypes ==
    ASSUME Types, NEW p \in Procs, Fill(p)
    PROVE  Types'
<1> DEFINE s == proc[p]
           done == s.at = Len(Order(p)) /\ s.whole
           over == done /\ s.tok > wiped[s.dir]
<1>1. /\ TypesFit /\ PlaceFits(p) /\ ProcOK /\ SrvOK /\ PastOK /\ FileOK /\ MachineOK
      /\ Strays
    BY DEF Types, TypesFit
<1>2. /\ s.pc = "fill" /\ file' = [file EXCEPT ![s.dir][Target(p)] = s.pay]
      /\ proc' = Onward(p, TRUE)
      /\ saved' = IF done THEN [saved EXCEPT ![s.dir] = s.tok] ELSE saved
      /\ harm' = IF over /\ s.sole THEN [harm EXCEPT ![s.dir] = {}] ELSE harm
      /\ UNCHANGED <<machine, locked, chain, wiped, probing, srv, events>>
    BY DEF Fill, EndHarm
<1>3. /\ s.dir \in Dirs /\ Target(p) \in Files /\ s.tok \in Issued /\ s.pay \in Stored
      /\ (platform = "windows" => Target(p) = "dat")
    BY <1>1, <1>2, TargetFacts, LocalFacts
<1>4. SrvOK' /\ srv <= srv' /\ Issued' = Issued /\ s.pay \in Stored'
    BY <1>1, <1>2, <1>3, SrvStays
<1>5. /\ ProcOK' /\ OthersStay(p) /\ proc'[p].dir = s.dir
      /\ proc'[p].pay \in {0, s.pay} /\ TRUE \in BOOLEAN
    BY <1>1, <1>2, OnwardShape
<1>6. PastOK'
    <2>1. harm' \in [Dirs -> SUBSET Hazards] /\ wiped' \in [Dirs -> Issued']
        <3> HIDE DEF over
        <3> QED BY <1>1, <1>2, <1>4 DEF PastOK
    <2>2. saved' \in [Dirs -> Issued']
        <3> HIDE DEF done
        <3> QED BY <1>1, <1>2, <1>3, <1>4 DEF PastOK
    <2> QED BY <2>1, <2>2 DEF PastOK
<1>7. PlaceFits(p)' /\ proc'[p].pc \notin Looking
    BY <1>1, <1>2, <1>5, OnwardPlace
<1>8. locked' \in BOOLEAN /\ (platform # "macos" => s.pay # Ref)
    BY <1>1, <1>2 DEF FileOK, Strays, NoRefs
<1> QED BY <1>2, <1>3, <1>4, <1>5, <1>6, <1>7, <1>8, InPlaceTypes

LEMMA CutTypes ==
    ASSUME Types, NEW p \in Procs, Cut(p)
    PROVE  Types'
<1> DEFINE s == proc[p]
           bare == ~Good(s.dir, Other(Target(p)))
           cut == [s EXCEPT !.pc = "fill", !.bare = bare]
<1>1. /\ TypesFit /\ PlaceFits(p) /\ ProcOK /\ SrvOK /\ PastOK /\ FileOK /\ MachineOK
    BY DEF Types, TypesFit
<1>2. /\ s.pc = "cut" /\ file' = [file EXCEPT ![s.dir][Target(p)] = Torn]
      /\ locked' = IF file[s.dir][Target(p)] = 0
                   THEN platform = "windows" /\ uid(p) = "root" ELSE locked
      /\ proc' = [proc EXCEPT ![p].pc = "fill", ![p].bare = bare]
      /\ UNCHANGED <<machine, chain, saved, wiped, harm, probing, srv, events>>
    BY DEF Cut
<1>3. /\ s.dir \in Dirs /\ Target(p) \in Files /\ s \in Local
      /\ (platform = "windows" => Target(p) = "dat")
    BY <1>1, <1>2, TargetFacts, LocalFacts
<1>4. SrvOK' /\ srv <= srv' /\ Issued' = Issued /\ Torn \in Stored' /\ Torn # Ref
    BY <1>1, <1>2, SrvStays, Values DEF Stored
<1>5. /\ ProcOK' /\ OthersStay(p) /\ proc'[p].dir = s.dir /\ proc'[p].pay = s.pay
      /\ proc'[p].pc = "fill" /\ proc'[p].tok = s.tok /\ proc'[p].at = s.at
    <2>1. bare \in BOOLEAN /\ "fill" \in Codes
        BY DEF Codes, Writing, Good
    <2>2. Local' = Local
        BY <1>2 DEF Local, Stored, Issued
    <2> HIDE DEF bare
    <2>3. proc' = [proc EXCEPT ![p] = cut] /\ cut \in Local
        BY <1>1, <1>2, <1>3, <2>1 DEF ProcOK, Local
    <2>4. ProcOK' /\ proc'[p] = cut /\ \A q \in Procs \ {p} : proc'[q] = proc[q]
        BY <1>1, <2>2, <2>3 DEF ProcOK
    <2> QED BY <1>3, <2>4 DEF Local, OthersStay, Stays
<1>6. PastOK'
    BY <1>1, <1>2, <1>4 DEF PastOK
<1>7. PlaceFits(p)' /\ proc'[p].pc \notin Looking
    <2>1. Order(p)' = Order(p)
        BY <1>2 DEF Order, platform
    <2>2. s.at <= Len(Order(p)) /\ s.tok # 0
        BY <1>1, <1>2 DEF PlaceFits
    <2> QED BY <1>3, <1>5, <2>1, <2>2, Values DEF PlaceFits, Looking, Writing
<1>8. locked' \in BOOLEAN
    BY <1>1, <1>2 DEF FileOK
<1> QED BY <1>2, <1>3, <1>4, <1>5, <1>6, <1>7, <1>8, InPlaceTypes

\* The directories in which a seal changes what references stand for.
Elsewhere(p) == IF Kept(p) THEN {d \in Dirs \ {proc[p].dir} : Refers(d)} ELSE {}

LEMMA SealShape ==
    ASSUME TypesFit, NEW p \in Procs, PlaceFits(p), Seal(p)
    PROVE  /\ ProcOK' /\ PastOK' /\ SrvOK' /\ OthersStay(p)
           /\ proc'[p].pc = "cut" /\ proc'[p].at = 1 /\ proc'[p].dir = proc[p].dir
           /\ proc'[p].tok = proc[p].tok /\ proc'[p].pay = Sealed(p) /\ ~proc'[p].bare
           /\ proc'[p].sole = proc[p].sole /\ proc'[p].whole
           /\ \A q \in Procs \ {p} :
                  /\ proc'[q].sole => proc[q].sole /\ proc[q].dir \notin Elsewhere(p)
                  /\ proc[q].dir \notin Elsewhere(p) => proc'[q].sole = proc[q].sole
           /\ \A d \in Dirs : harm'[d] = harm[d] \cup
                                  (IF d \in Elsewhere(p) THEN {"older"} ELSE {})
           /\ Sealed(p) \in Stored
<1> DEFINE own == [proc[p] EXCEPT !.pc = "cut", !.at = 1, !.whole = TRUE, !.pay = Sealed(p)]
           other(q) == [proc[q] EXCEPT !.sole = @ /\ proc[q].dir \notin Elsewhere(p)]
<1>1. /\ proc[p].pc = "seal" /\ chain' = Recorded(p)
      /\ proc' = [q \in Procs |-> IF q = p THEN own ELSE other(q)]
      /\ harm' = [d \in Dirs |-> harm[d] \cup (IF d \in Elsewhere(p) THEN {"older"} ELSE {})]
      /\ UNCHANGED <<machine, file, locked, saved, wiped, probing, srv, events>>
    BY DEF Seal, Elsewhere
<1>2. proc[p] \in Local /\ proc[p].tok \in Issued /\ ~proc[p].bare
    BY <1>1, LocalFacts DEF TypesFit, PlaceFits
<1>3. Sealed(p) \in Stored /\ chain' \in Issued
    BY <1>1, <1>2 DEF Sealed, Recorded, Stored, TypesFit, SrvOK
<1>4. Local' = Local /\ Issued' = Issued
    BY <1>1 DEF Local, Stored, Issued
<1>5. own \in Local
    <2>1. "cut" \in Codes /\ 1 \in 1..3 /\ TRUE \in BOOLEAN
        BY DEF Codes, Writing
    <2> QED BY <1>2, <1>3, <2>1 DEF Local
<1>6. ASSUME NEW q \in Procs PROVE proc[q] \in Local /\ other(q) \in Local
    BY DEF TypesFit, ProcOK, Local
<1>7. proc'[p] = own /\ \A q \in Procs \ {p} : proc'[q] = other(q)
    BY <1>1
<1>8. ProcOK'
    <2> HIDE DEF own, other
    <2>1. \A q \in Procs : proc'[q] \in Local
        BY <1>5, <1>6, <1>7
    <2> QED BY <1>1, <1>4, <2>1 DEF ProcOK
<1>9. /\ proc'[p].pc = "cut" /\ proc'[p].at = 1 /\ proc'[p].dir = proc[p].dir
      /\ proc'[p].tok = proc[p].tok /\ proc'[p].pay = Sealed(p) /\ ~proc'[p].bare
      /\ proc'[p].sole = proc[p].sole /\ proc'[p].whole
    BY <1>2, <1>7 DEF Local
<1>10. ASSUME NEW q \in Procs \ {p}
       PROVE  /\ Stays(q)
              /\ proc'[q].sole => proc[q].sole /\ proc[q].dir \notin Elsewhere(p)
              /\ proc[q].dir \notin Elsewhere(p) => proc'[q].sole = proc[q].sole
    <2>1. proc[q] \in Local /\ proc'[q] = other(q)
        BY <1>6, <1>7
    <2>2. proc[q].dir \notin Elsewhere(p) => other(q).sole = proc[q].sole
        BY <2>1 DEF Local
    <2> QED BY <2>1, <2>2 DEF Stays, Local
<1>11. PastOK'
    <2>1. harm' \in [Dirs -> SUBSET Hazards]
        BY <1>1 DEF TypesFit, PastOK, Hazards
    <2> QED BY <1>1, <1>4, <2>1 DEF TypesFit, PastOK
<1>12. SrvOK'
    BY <1>1, <1>3, <1>4 DEF TypesFit, SrvOK
<1> QED BY <1>1, <1>3, <1>8, <1>9, <1>10, <1>11, <1>12 DEF OthersStay

LEMMA SealTypes ==
    ASSUME Types, NEW p \in Procs, Seal(p)
    PROVE  Types'
<1>1. TypesFit /\ PlaceFits(p) /\ ProcOK /\ SrvOK /\ FileOK /\ MachineOK
    BY DEF Types, TypesFit
<1>2. /\ proc[p].pc = "seal"
      /\ UNCHANGED <<machine, file, locked, saved, wiped, probing, srv, events>>
    BY DEF Seal
<1>3. proc[p].dir \in Dirs /\ proc[p].tok # 0 /\ proc[p].tok \in Issued
    BY <1>1, <1>2, LocalFacts DEF PlaceFits, Looking
<1>4. /\ ProcOK' /\ PastOK' /\ SrvOK' /\ OthersStay(p)
      /\ proc'[p].pc = "cut" /\ proc'[p].at = 1 /\ proc'[p].dir = proc[p].dir
      /\ proc'[p].tok = proc[p].tok /\ proc'[p].pay = Sealed(p) /\ ~proc'[p].bare
      /\ Sealed(p) \in Stored
    BY <1>1, SealShape
<1>5. srv <= srv' /\ Stored' = Stored /\ locked' \in BOOLEAN
    BY <1>1, <1>2 DEF SrvOK, Maybe, Stored, Issued, FileOK
<1>6. platform # "macos" => Sealed(p) # Ref
    BY <1>1, <1>3, Values DEF Sealed, Kept, SrvOK, Issued, Maybe
<1>7. PlaceFits(p)' /\ proc'[p].pc \notin Looking
    <2>1. Order(p)' = Order(p)
        BY <1>2 DEF Order, platform
    <2>2. 1 <= Len(Order(p)')
        BY <1>1, <2>1, OrderFacts
    <2> QED BY <1>3, <1>4, <2>2, Values DEF PlaceFits, Looking, Writing
<1>8. "dat" \in Files
    BY Values
<1> QED BY <1>2, <1>3, <1>4, <1>5, <1>6, <1>7, <1>8, InPlaceTypes

LEMMA StepTypes == ASSUME Types, NEW p \in Procs, 
    \/ ProbeOpens(p) \/ ProbeRefused(p) \/ ProbeLost(p) \/ ProbeCloses(p)
    \/ LastResort(p) \/ ProbeAgain(p)
    \/ MendSkips(p) \/ MendTakes(p) \/ MendPuts(p)
    \/ Load(p) \/ Read(p)
    \/ Enrol(p) \/ Seal(p) \/ Cut(p) \/ Fill(p) \/ WriteFails(p) \/ Drop(p)
    \/ Unlink(p) \/ Wipe(p) \/ Crash(p)
    PROVE Types'
BY ProbeOpensTypes, ProbeFailsTypes, ProbeClosesTypes, SettleUnprobedTypes, ProbeAgainTypes,
   MendTakesTypes, MendPutsTypes, LoadTypes, ReadTypes, EnrolTypes, SealTypes, CutTypes,
   FillTypes, WriteFailsTypes, DropTypes, UnlinkTypes, WipeTypes, CrashTypes

LEMMA NextTypes == ASSUME Types, [Next]_vars PROVE Types'
<1>1. CASE Next
    BY <1>1, StepTypes DEF Next
<1>2. CASE UNCHANGED vars
    <2>1. /\ UNCHANGED <<machine, open, probe, file, locked, chain, srv, proc, saved, wiped,
                         harm, events>>
        BY <1>2 DEF vars
    <2>2. TypesFit' /\ Strays'
        BY <2>1 DEF Types, TypesFit, MachineOK, SrvOK, ProbeOK, FileOK, PastOK, ProcOK,
           Issued, Stored, Local, Strays, OwnFiles, OwnProbes, OneFile, NoRefs, platform, uid
    <2>3. ASSUME NEW p \in Procs PROVE PlaceFits(p)' /\ Allowed(p)'
        BY <2>1, PlaceKept DEF Types, Stays, Issued
    <2> QED BY <2>2, <2>3 DEF Types
<1> QED BY <1>1, <1>2

LEMMA TypesImply == ASSUME TypesFit PROVE TypeOK
<1>1. Issued \subseteq Maybe /\ Stored \subseteq Contents
    BY StoreAssumption DEF TypesFit, SrvOK, Issued, Stored, Contents, Maybe
<1>2. Codes = Writing \cup {"off", "probe", "held", "load", "idle"}
    BY DEF Codes, Looking
<1>3. Local \subseteq [pc : Writing \cup {"off", "probe", "held", "load", "idle"},
                       at : 1..3, dir : Dirs \cup {"none"}, tok : Maybe,
                       pay : Contents, drop : BOOLEAN, bare : BOOLEAN,
                       whole : BOOLEAN, sole : BOOLEAN]
    BY <1>1, <1>2 DEF Local
<1>4. /\ probe \in [Dirs -> Users \cup {"none"}] /\ open \in BOOLEAN /\ locked \in BOOLEAN
      /\ chain \in Maybe /\ srv \in Maybe /\ events \in 0..MaxEvents
    BY <1>1 DEF TypesFit, ProbeOK, SrvOK, FileOK
<1>5. /\ file \in [Dirs -> [Files -> Contents]] /\ saved \in [Dirs -> Maybe]
      /\ wiped \in [Dirs -> Maybe] /\ harm \in [Dirs -> SUBSET Hazards]
    BY <1>1 DEF TypesFit, FileOK, PastOK
<1>6. proc \in [Procs -> Local]
    BY DEF TypesFit, ProcOK
<1> QED BY <1>3, <1>4, <1>5, <1>6 DEF TypeOK

(***************************************************************************)
(* The stores stay in their types: no token is in a file, a record or a    *)
(* process that was not issued, and each process is at a place of its code *)
(* and in a directory its user can be in.                                  *)
(***************************************************************************)
THEOREM TypesHold == Spec => []TypeOK
<1>1. Init => Types
    BY InitTypes
<1>2. Types /\ [Next]_vars => Types'
    BY NextTypes
<1>3. Types => TypeOK
    BY TypesImply DEF Types
<1> QED BY <1>1, <1>2, <1>3, PTL DEF Spec

-----------------------------------------------------------------------------
(* What the directories hold                                               *)

\* What another's step does to a write: it is left alone, or disturbed.
Steady(q) == LET e == proc[q].dir IN
    /\ file'[e] = file[e] /\ saved'[e] = saved[e] /\ wiped'[e] = wiped[e]
    /\ harm[e] \subseteq harm'[e]
    /\ chain' = chain \/ proc[q].pay # Ref
    /\ proc'[q].sole = proc[q].sole
Upset(q) == "older" \in harm'[proc[q].dir] /\ ~proc'[q].sole

\* A directory the step is not about.
DirSteady(e) ==
    /\ file'[e] = file[e] /\ saved'[e] = saved[e] /\ wiped'[e] = wiped[e]
    /\ harm[e] \subseteq harm'[e]
    /\ chain' = chain \/ "older" \in harm'[e] \/ \A f \in Files : file[e][f] # Ref

LEMMA OrderStays ==
    ASSUME UNCHANGED machine, NEW q \in Procs, Stays(q)
    PROVE  /\ Order(q)' = Order(q) /\ platform' = platform
           /\ Target(q)' = Target(q) /\ Past(q)' = Past(q)
BY DEF Order, platform, Target, Past, Stays

LEMMA ProcKept ==
    ASSUME UNCHANGED machine, NEW q \in Procs, Stays(q), ProcFits(q),
           proc[q].pc \in Writing => Steady(q) \/ Upset(q)
    PROVE  ProcFits(q)'
<1> DEFINE s == proc[q]
           e == proc[q].dir
<1>1. CASE proc[q].pc \notin Writing
    BY <1>1 DEF Stays, ProcFits, Disturbed, SoleFits, Newer
<1>2. CASE proc[q].pc \in Writing /\ Upset(q)
    BY <1>2 DEF Stays, ProcFits, Disturbed, SoleFits, Newer, Upset
<1>3. CASE proc[q].pc \in Writing /\ Steady(q)
    <2>1. Disturbed(q)'
        BY <1>3 DEF Stays, Steady, ProcFits, Disturbed
    <2>2. SoleFits(q)'
        <3>1. UNCHANGED <<Target(q), Past(q)>>
            BY OrderStays
        <3> QED BY <1>3, <3>1 DEF Stays, Steady, ProcFits, SoleFits, Good
    <2>3. Newer(q)'
        BY <1>3 DEF Stays, Steady, ProcFits, Newer, Fits
    <2> QED BY <2>1, <2>2, <2>3 DEF ProcFits
<1> QED BY <1>1, <1>2, <1>3

LEMMA DirKept ==
    ASSUME NEW e \in Dirs, DirSteady(e), DirFits(e),
           \A q \in Procs : proc[q].dir = e /\ proc[q].bare =>
                                proc'[q].dir = e /\ proc'[q].bare
    PROVE  DirFits(e)'
<1>1. FilesFit(e)'
    BY DEF DirFits, FilesFit, DirSteady, Fits
<1>2. GoodLeft(e)'
    BY DEF DirFits, GoodLeft, DirSteady, Good
<1> QED BY <1>1, <1>2 DEF DirFits

\* What one step has to show.
LEMMA DataKept ==
    ASSUME Data, UNCHANGED machine, NEW p \in Procs, NEW d \in Dirs, OthersStay(p),
           proc[p].dir \in {"none", d},
           \A e \in Dirs \ {d} : DirSteady(e),
           \A q \in Procs \ {p} : proc'[q].sole => proc[q].sole,
           \A q \in Procs \ {p} : proc[q].pc \in Writing => Steady(q) \/ Upset(q),
           \A q \in Procs \ {p} :
               /\ proc[q].pc \in Writing /\ proc'[p].pc \in Writing
               /\ proc[q].dir = proc'[p].dir
               => ~proc'[p].sole /\ ~proc'[q].sole,
           ProcFits(p)', DirFits(d)'
    PROVE  Data'
<1>1. ASSUME NEW q \in Procs PROVE ProcFits(q)'
    BY ProcKept DEF Data, OthersStay
<1>2. ASSUME NEW e \in Dirs PROVE DirFits(e)'
    <2>1. CASE e = d
        BY <2>1
    <2>2. CASE e # d
        <3>1. DirSteady(e) /\ DirFits(e)
            BY <2>2 DEF Data
        <3>2. ASSUME NEW q \in Procs, proc[q].dir = e, proc[q].bare
              PROVE  proc'[q].dir = e /\ proc'[q].bare
            BY <2>2, <3>2, Values DEF OthersStay, Stays
        <3> QED BY <3>1, <3>2, DirKept
    <2> QED BY <2>1, <2>2
<1>3. OneWriter'
    <2> SUFFICES ASSUME NEW r \in Procs, NEW q \in Procs, r # q,
                        proc'[r].pc \in Writing, proc'[q].pc \in Writing,
                        proc'[r].dir = proc'[q].dir
                 PROVE  ~proc'[r].sole
        BY DEF OneWriter, Writing
    <2>1. CASE r = p
        BY <2>1 DEF OthersStay, Stays
    <2>2. CASE q = p
        BY <2>2 DEF OthersStay, Stays
    <2>3. CASE r # p /\ q # p
        BY <2>3 DEF OthersStay, Stays, Data, OneWriter
    <2> QED BY <2>1, <2>2, <2>3
<1> QED BY <1>1, <1>2, <1>3 DEF Data

\* A step that leaves the directories alone, of a process that does not write on.
LEMMA QuietFits ==
    ASSUME Data, UNCHANGED <<machine, file, chain, saved, wiped, harm>>, NEW p \in Procs,
           \A q \in Procs \ {p} : proc'[q] = proc[q],
           proc'[p].pc \notin Writing, ~proc[p].bare
    PROVE  Data'
<1>1. ASSUME NEW q \in Procs PROVE ProcFits(q)'
    <2>1. CASE q = p
        BY <2>1 DEF ProcFits, Disturbed, SoleFits, Newer
    <2>2. CASE q # p
        <3>1. proc'[q] = proc[q] /\ ProcFits(q)
            BY <2>2 DEF Data
        <3>2. Stays(q) /\ Steady(q)
            BY <3>1 DEF Stays, Steady
        <3> QED BY <3>1, <3>2, ProcKept
    <2> QED BY <2>1, <2>2
<1>2. ASSUME NEW e \in Dirs PROVE DirFits(e)'
    <2>1. DirSteady(e) /\ DirFits(e)
        BY DEF DirSteady, Data
    <2>2. ASSUME NEW q \in Procs, proc[q].dir = e, proc[q].bare
          PROVE  proc'[q].dir = e /\ proc'[q].bare
        BY <2>2
    <2> QED BY <2>1, <2>2, DirKept
<1>3. OneWriter'
    BY DEF OneWriter, Data
<1> QED BY <1>1, <1>2, <1>3 DEF Data

LEMMA WriterFacts ==
    ASSUME Types, NEW q \in Procs
    PROVE  /\ proc[q].pc \in Writing => proc[q].dir \in Dirs
           /\ proc[q].bare => proc[q].pc \in Writing
<1>1. PlaceFits(q) /\ ProcOK
    BY DEF Types, TypesFit
<1>2. proc[q].pc \in Writing => proc[q].dir \in Dirs
    BY <1>1, LocalFacts DEF Looking, Writing
<1>3. proc[q].bare => proc[q].pc \in Writing
    BY <1>1 DEF PlaceFits, Writing
<1> QED BY <1>2, <1>3

\* A step of a writer: two writers of one directory are both disturbed already.
LEMMA WriteKept ==
    ASSUME Types, Data, UNCHANGED <<machine, chain>>, NEW p \in Procs,
           NEW d \in Dirs, proc[p].dir = d, proc[p].pc \in Writing,
           proc'[p].dir \in {"none", d},
           proc'[p].sole => proc[p].sole,
           \A q \in Procs \ {p} : proc'[q] = proc[q],
           \A e \in Dirs \ {d} :
               /\ file'[e] = file[e] /\ saved'[e] = saved[e] /\ wiped'[e] = wiped[e]
               /\ harm'[e] = harm[e],
           ~proc[p].sole => harm[d] \subseteq harm'[d],
           ProcFits(p)', DirFits(d)'
    PROVE  Data'
<1>2. ASSUME NEW q \in Procs \ {p}, proc[q].pc \in Writing
      PROVE  Steady(q) \/ Upset(q)
    <2>1. CASE proc[q].dir = d
        <3>1. ~proc[p].sole /\ ~proc[q].sole /\ proc[p].pc \in Writing
            BY <1>2, <2>1 DEF Data, OneWriter
        <3>2. "older" \in harm[d]
            BY <3>1 DEF Data, ProcFits, Disturbed
        <3> QED BY <1>2, <2>1, <3>1, <3>2 DEF Upset
    <2>2. CASE proc[q].dir # d
        <3>1. proc[q].dir \in Dirs
            BY <1>2, WriterFacts
        <3> QED BY <1>2, <2>2, <3>1 DEF Steady
    <2> QED BY <2>1, <2>2
<1>3. ASSUME NEW q \in Procs \ {p}, proc[q].pc \in Writing, proc'[p].pc \in Writing,
             proc[q].dir = proc'[p].dir
      PROVE  ~proc'[p].sole /\ ~proc'[q].sole
    <2>1. proc[q].dir = d
        <3>1. proc[q].dir \in Dirs
            BY <1>3, WriterFacts
        <3> QED BY <1>3, <3>1, Values
    <2>2. ~proc[p].sole /\ ~proc[q].sole
        BY <1>3, <2>1 DEF Data, OneWriter
    <2> QED BY <1>3, <2>2
<1>4. OthersStay(p)
    BY DEF OthersStay, Stays
<1>5. \A e \in Dirs \ {d} : DirSteady(e)
    BY DEF DirSteady
<1> QED BY <1>2, <1>3, <1>4, <1>5, DataKept

\* The files a writer has been through, and the one it is at.
LEMMA PastFacts ==
    ASSUME MachineOK, ProcOK, NEW p \in Procs, PlaceFits(p),
           proc[p].pc \in {"cut", "fill", "wipe"}
    PROVE  /\ Past(p) \subseteq Files /\ Target(p) \notin Past(p)
           /\ proc[p].at = Len(Order(p)) =>
                 \A f \in Files : \/ f \in Past(p) \cup {Target(p)}
                                  \/ platform = "windows" /\ f = "enc"
<1>1. /\ proc[p].at \in 1..Len(Order(p)) /\ Len(Order(p)) \in {1, 2}
      /\ \A i \in 1..Len(Order(p)) : Order(p)[i] \in Files
    BY TargetFacts, OrderFacts
<1>2. CASE platform = "windows"
    <2>1. Len(Order(p)) = 1 /\ Order(p)[1] = "dat" /\ proc[p].at = 1
        BY <1>1, <1>2, OrderFacts
    <2> QED BY <1>2, <2>1 DEF Past, Target, Files
<1>3. CASE platform # "windows"
    <2>1. /\ Len(Order(p)) = 2 /\ Order(p)[1] # Order(p)[2]
          /\ Files = {Order(p)[1], Order(p)[2]}
        BY <1>3, OrderFacts
    <2>2. CASE proc[p].at = 1
        <3>1. Past(p) = {}
            BY <2>2 DEF Past
        <3> QED BY <2>1, <2>2, <3>1
    <2>3. CASE proc[p].at = 2
        <3>1. Past(p) = {Order(p)[1]} /\ Target(p) = Order(p)[2]
            BY <2>3 DEF Past, Target
        <3> QED BY <2>1, <2>3, <3>1
    <2> QED BY <1>1, <2>1, <2>2, <2>3
<1> QED BY <1>2, <1>3

LEMMA CutFits ==
    ASSUME Types, Data, NEW p \in Procs, Cut(p)
    PROVE  Data'
<1> DEFINE s == proc[p]
<1>0. PICK d \in Dirs, t \in Files : d = s.dir /\ t = Target(p)
    BY TargetFacts DEF Types, TypesFit, Cut
<1> DEFINE bare == ~Good(d, Other(t))
<1>1. TypesFit /\ PlaceFits(p) /\ ProcOK /\ FileOK /\ MachineOK /\ ProcFits(p) /\ DirFits(d)
    BY DEF Types, TypesFit, Data
<1>2. /\ s.pc = "cut" /\ file' = [file EXCEPT ![d][t] = Torn]
      /\ proc' = [proc EXCEPT ![p].pc = "fill", ![p].bare = bare]
      /\ UNCHANGED <<machine, chain, saved, wiped, harm>>
    BY <1>0 DEF Cut
<1>3. Other(t) \in Files /\ Other(t) # t /\ proc[p] \in Local
    BY <1>1, OtherFile, LocalFacts
<1>4. /\ proc'[p].pc = "fill" /\ proc'[p].bare = bare /\ proc'[p].dir = d /\ proc'[p].at = s.at
      /\ proc'[p].tok = s.tok /\ proc'[p].pay = s.pay /\ proc'[p].whole = s.whole
      /\ proc'[p].sole = s.sole /\ \A q \in Procs \ {p} : proc'[q] = proc[q]
    <2> HIDE DEF bare
    <2> QED BY <1>0, <1>1, <1>2, <1>3 DEF ProcOK, Local
<1>5. /\ \A e \in Dirs \ {d} : file'[e] = file[e]
      /\ file'[d][t] = Torn /\ \A f \in Files \ {t} : file'[d][f] = file[d][f]
    BY <1>1, <1>2, <1>3 DEF FileOK
<1>6. Target(p)' = t /\ Past(p)' = Past(p) /\ Past(p) \subseteq Files \ {t}
    <2>1. Order(p)' = Order(p)
        BY <1>2 DEF Order, platform
    <2>2. Past(p) \subseteq Files /\ t \notin Past(p)
        BY <1>0, <1>1, <1>2, PastFacts
    <2> QED BY <1>0, <1>4, <2>1, <2>2 DEF Target, Past
<1>7. ProcFits(p)'
    <2>1. Disturbed(p)'
        BY <1>0, <1>1, <1>2, <1>4 DEF ProcFits, Disturbed, Writing
    <2>2. Newer(p)'
        BY <1>0, <1>1, <1>2, <1>4 DEF ProcFits, Newer, Writing
    <2>3. SoleFits(p)'
        <3>1. s.sole => s.pay = s.tok \/ (s.pay = Ref /\ chain = s.tok)
            BY <1>0, <1>1, <1>2 DEF ProcFits, SoleFits, Writing
        <3>2. s.sole /\ s.whole => \A f \in Past(p) : file[d][f] = s.pay
            BY <1>0, <1>1, <1>2 DEF ProcFits, SoleFits, Writing
        <3>3. ~bare => Good(d, Other(t))'
            BY <1>3, <1>5 DEF Good
        <3>4. s.sole /\ s.whole => \A f \in Past(p)' : file'[d][f] = s.pay
            BY <1>5, <1>6, <3>2
        <3>5. proc'[p].bare \/ Good(d, Other(t))'
            BY <1>4, <3>3
        <3> HIDE DEF bare
        <3> QED BY <1>2, <1>4, <1>6, <3>1, <3>4, <3>5 DEF SoleFits
    <2> QED BY <2>1, <2>2, <2>3 DEF ProcFits
<1>8. DirFits(d)'
    <2>1. FilesFit(d)'
        BY <1>1, <1>2, <1>5, Values DEF DirFits, FilesFit, Fits, Tokens
    <2>2. GoodLeft(d)'
        <3>1. CASE bare
            BY <1>4, <3>1 DEF GoodLeft
        <3>2. CASE ~bare
            BY <1>3, <1>5, <3>2 DEF GoodLeft, Good
        <3> QED BY <3>1, <3>2
    <2> QED BY <2>1, <2>2 DEF DirFits
<1>9. s.pc \in Writing
    BY <1>2 DEF Writing
<1> QED BY <1>0, <1>2, <1>4, <1>5, <1>7, <1>8, <1>9, WriteKept

LEMMA FillFits ==
    ASSUME Types, Data, NEW p \in Procs, Fill(p)
    PROVE  Data'
<1> DEFINE s == proc[p]
           done == s.at = Len(Order(p)) /\ s.whole
<1>0. PICK d \in Dirs, t \in Files : d = s.dir /\ t = Target(p)
    BY TargetFacts DEF Types, TypesFit, Fill
<1> DEFINE over == done /\ s.tok > wiped[d] /\ s.sole
<1>1. /\ TypesFit /\ PlaceFits(p) /\ ProcOK /\ FileOK /\ MachineOK /\ SrvOK /\ PastOK
      /\ Strays /\ ProcFits(p) /\ DirFits(d)
    BY DEF Types, TypesFit, Data
<1>2. /\ s.pc = "fill" /\ file' = [file EXCEPT ![d][t] = s.pay] /\ proc' = Onward(p, TRUE)
      /\ saved' = IF done THEN [saved EXCEPT ![d] = s.tok] ELSE saved
      /\ harm' = IF over THEN [harm EXCEPT ![d] = {}] ELSE harm
      /\ UNCHANGED <<machine, chain, wiped, srv>>
    BY <1>0 DEF Fill, EndHarm
<1>3. /\ s \in Local /\ s.tok \in Nat /\ s.tok # 0 /\ s.tok \in Tokens
      /\ saved[d] \in Nat /\ wiped[d] \in Nat /\ chain \in Nat
    <2>1. s \in Local /\ s.tok \in Issued /\ s.tok # 0
        BY <1>1, <1>2, LocalFacts DEF PlaceFits
    <2>2. Issued \subseteq Maybe
        BY <1>1, StoreAssumption DEF SrvOK, Issued, Maybe
    <2> QED BY <1>1, <2>1, <2>2, Values DEF PastOK, SrvOK
<1>4. /\ \A q \in Procs \ {p} : proc'[q] = proc[q]
      /\ proc'[p].dir = d /\ ~proc'[p].bare
      /\ \/ proc'[p].pc = "idle" /\ ~proc'[p].sole
         \/ proc'[p].pc = "drop" /\ proc'[p].sole = s.sole
         \/ /\ proc'[p].pc = "cut" /\ proc'[p].at = s.at + 1
            /\ proc'[p].at <= Len(Order(p)) /\ proc'[p].tok = s.tok
            /\ proc'[p].pay = s.pay /\ proc'[p].sole = s.sole
            /\ proc'[p].whole = (s.whole /\ TRUE)
    <2>1. TRUE \in BOOLEAN
        OBVIOUS
    <2> QED BY <1>0, <1>1, <1>2, <2>1, OnwardShape
<1>5. /\ \A e \in Dirs \ {d} : file'[e] = file[e]
      /\ file'[d][t] = s.pay /\ \A f \in Files \ {t} : file'[d][f] = file[d][f]
    BY <1>1, <1>2 DEF FileOK
<1>6. /\ \A e \in Dirs \ {d} : saved'[e] = saved[e] /\ harm'[e] = harm[e]
      /\ saved'[d] = IF done THEN s.tok ELSE saved[d]
      /\ harm'[d] = IF over THEN {} ELSE harm[d]
    <2> HIDE DEF done, over
    <2> QED BY <1>1, <1>2 DEF PastOK
<1>7. /\ s.sole => s.pay = s.tok \/ (s.pay = Ref /\ chain = s.tok)
      /\ s.sole /\ s.whole => \A f \in Past(p) : file[d][f] = s.pay
      /\ ~s.sole => "older" \in harm[d]
      /\ "older" \notin harm[d] /\ "kept" \notin harm[d] => s.tok > wiped[d] /\ s.tok >= saved[d]
    BY <1>0, <1>1, <1>2 DEF ProcFits, SoleFits, Disturbed, Newer, Writing
<1>8. Past(p) \subseteq Files
    BY <1>1, <1>2, PastFacts
<1>9. ProcFits(p)'
    <2>1. CASE proc'[p].pc = "idle"
        BY <2>1 DEF ProcFits, Disturbed, SoleFits, Newer, Writing
    <2>2. CASE proc'[p].pc = "drop" /\ proc'[p].sole = s.sole
        <3>1. ~proc'[p].sole => "older" \in harm'[d]
            BY <1>6, <1>7, <2>2
        <3> QED BY <1>4, <2>2, <3>1 DEF ProcFits, Disturbed, SoleFits, Newer
    <2>3. CASE /\ proc'[p].pc = "cut" /\ proc'[p].at = s.at + 1
               /\ proc'[p].at <= Len(Order(p)) /\ proc'[p].tok = s.tok
               /\ proc'[p].pay = s.pay /\ proc'[p].sole = s.sole
               /\ proc'[p].whole = (s.whole /\ TRUE)
        <3>1. ~done /\ ~over
            BY <1>1, <1>3, <2>3, OrderFacts DEF Local
        <3>2. harm'[d] = harm[d] /\ saved'[d] = saved[d] /\ wiped' = wiped /\ chain' = chain
            BY <1>2, <1>6, <3>1
        <3>3. Past(p)' = Past(p) \cup {t}
            <4>1. Order(p)' = Order(p) /\ s.at \in 1..3
                BY <1>2, <1>3 DEF Order, platform, Local
            <4>2. proc'[p].at - 1 = s.at /\ 1..s.at = (1..s.at - 1) \cup {s.at}
                BY <2>3, <4>1
            <4> QED BY <1>0, <4>1, <4>2 DEF Past, Target
        <3>4. Disturbed(p)' /\ Newer(p)'
            BY <1>4, <1>7, <2>3, <3>2 DEF Disturbed, Newer
        <3>5. s.sole /\ s.whole => \A f \in Past(p)' : file'[d][f] = s.pay
            BY <1>5, <1>7, <1>8, <3>3
        <3>6. proc'[p].whole => s.whole
            BY <2>3
        <3>7. SoleFits(p)'
            BY <1>4, <1>7, <2>3, <3>2, <3>5, <3>6 DEF SoleFits
        <3> QED BY <3>4, <3>7 DEF ProcFits
    <2> QED BY <1>4, <2>1, <2>2, <2>3
<1>10. DirFits(d)'
    <2>1. s.sole => s.pay \in Tokens \cup {Ref}
        BY <1>3, <1>7
    <2>2. CASE over
        <3>1. \A f \in Files : file'[d][f] = s.pay \/ file'[d][f] = 0
            <4>1. \A f \in Files : f \in Past(p) \cup {t} \/ (platform = "windows" /\ f = "enc")
                BY <1>0, <1>1, <1>2, <2>2, PastFacts
            <4>2. platform = "windows" => file[d]["enc"] = 0
                BY <1>1 DEF Strays, OneFile
            <4>3. \A f \in Past(p) : file[d][f] = s.pay
                BY <1>7, <2>2
            <4> QED BY <1>5, <4>1, <4>2, <4>3
        <3>2. saved'[d] = s.tok /\ s.tok > wiped'[d] /\ chain' = chain
            BY <1>2, <1>6, <2>2
        <3>3. FilesFit(d)'
            <4>1. ASSUME NEW f \in Files PROVE Fits(file[d][f], d)'
                <5>1. CASE file'[d][f] = 0
                    BY <5>1, Values DEF Fits
                <5>2. CASE file'[d][f] = s.pay
                    <6>1. s.pay = s.tok \/ (s.pay = Ref /\ chain' = s.tok)
                        BY <1>7, <2>2, <3>2
                    <6>2. s.tok # Ref /\ s.tok >= s.tok
                        BY <1>3, Values
                    <6>3. Ref \notin Tokens
                        BY Values
                    <6> QED BY <3>2, <5>2, <6>1, <6>2, <6>3 DEF Fits
                <5> QED BY <3>1, <5>1, <5>2
            <4> QED BY <4>1 DEF FilesFit
        <3>4. GoodLeft(d)'
            BY <1>5, <2>1, <2>2 DEF GoodLeft, Good
        <3> QED BY <3>3, <3>4 DEF DirFits
    <2>3. CASE ~over
        <3>1. harm'[d] = harm[d]
            BY <1>6, <2>3
        <3>2. CASE "older" \in harm[d] \/ "kept" \in harm[d]
            BY <3>1, <3>2 DEF DirFits, FilesFit, GoodLeft
        <3>3. CASE "older" \notin harm[d] /\ "kept" \notin harm[d]
            <4>1. s.sole /\ s.tok > wiped[d] /\ s.tok >= saved[d]
                BY <1>7, <3>3
            <4>2. ~done /\ saved'[d] = saved[d] /\ wiped' = wiped /\ chain' = chain
                BY <1>2, <1>6, <2>3, <4>1
            <4>3. \A f \in Files : Fits(file[d][f], d)
                BY <1>1, <3>3 DEF DirFits, FilesFit
            <4>4. ASSUME NEW f \in Files PROVE Fits(file[d][f], d)'
                <5>1. CASE f = t
                    <6>1. s.pay = s.tok \/ (s.pay = Ref /\ chain' = s.tok)
                        BY <1>7, <4>1, <4>2
                    <6>2. s.tok # Ref /\ Ref \notin Tokens
                        BY <1>3, Values
                    <6>3. s.tok > wiped'[d] /\ s.tok >= saved'[d] /\ file'[d][f] = s.pay
                        BY <1>5, <4>1, <4>2, <5>1
                    <6> QED BY <6>1, <6>2, <6>3 DEF Fits
                <5>2. CASE f # t
                    BY <1>5, <4>2, <4>3, <5>2 DEF Fits
                <5> QED BY <5>1, <5>2
            <4>5. FilesFit(d)'
                BY <4>4 DEF FilesFit
            <4>6. GoodLeft(d)'
                BY <1>5, <2>1, <4>1 DEF GoodLeft, Good
            <4> QED BY <4>5, <4>6 DEF DirFits
        <3> QED BY <3>2, <3>3
    <2> QED BY <2>2, <2>3
<1>11. /\ s.pc \in Writing /\ (proc'[p].sole => s.sole)
       /\ (~s.sole => harm[d] \subseteq harm'[d])
    BY <1>2, <1>4, <1>6 DEF Writing
<1> QED BY <1>0, <1>2, <1>4, <1>5, <1>6, <1>9, <1>10, <1>11, WriteKept

LEMMA WriteFailsFits ==
    ASSUME Types, Data, NEW p \in Procs, WriteFails(p)
    PROVE  Data'
<1> DEFINE s == proc[p]
<1>0. PICK d \in Dirs : d = s.dir
    BY TargetFacts DEF Types, TypesFit, WriteFails
<1>1. /\ TypesFit /\ PlaceFits(p) /\ ProcOK /\ MachineOK /\ SrvOK /\ PastOK
      /\ ProcFits(p) /\ DirFits(d)
    BY DEF Types, TypesFit, Data
<1>2. /\ s.pc \in {"cut", "fill"} /\ proc' = Onward(p, FALSE)
      /\ harm' = [harm EXCEPT ![d] = @ \cup (IF s.bare THEN {"lone"} ELSE {})]
      /\ UNCHANGED <<machine, file, chain, saved, wiped, srv>>
    BY <1>0 DEF WriteFails, Harm
<1>3. /\ \A e \in Dirs \ {d} : harm'[e] = harm[e]
      /\ harm'[d] = harm[d] \cup (IF s.bare THEN {"lone"} ELSE {})
    BY <1>1, <1>2 DEF PastOK
<1>4. /\ \A q \in Procs \ {p} : proc'[q] = proc[q]
      /\ proc'[p].dir = d /\ ~proc'[p].bare
      /\ \/ proc'[p].pc = "idle" /\ ~proc'[p].sole
         \/ proc'[p].pc = "drop" /\ proc'[p].sole = s.sole
         \/ /\ proc'[p].pc = "cut" /\ proc'[p].tok = s.tok
            /\ proc'[p].pay = s.pay /\ proc'[p].sole = s.sole
            /\ proc'[p].whole = (s.whole /\ FALSE)
    <2>1. FALSE \in BOOLEAN
        OBVIOUS
    <2> QED BY <1>0, <1>1, <1>2, <2>1, OnwardShape
<1>5. /\ s.sole => s.pay = s.tok \/ (s.pay = Ref /\ chain = s.tok)
      /\ ~s.sole => "older" \in harm[d]
      /\ "older" \notin harm[d] /\ "kept" \notin harm[d] => s.tok > wiped[d] /\ s.tok >= saved[d]
    BY <1>0, <1>1, <1>2 DEF ProcFits, SoleFits, Disturbed, Newer, Writing
<1>6. ProcFits(p)'
    <2>1. CASE proc'[p].pc = "idle"
        BY <2>1 DEF ProcFits, Disturbed, SoleFits, Newer, Writing
    <2>2. CASE proc'[p].pc = "drop" /\ proc'[p].sole = s.sole
        <3>1. ~proc'[p].sole => "older" \in harm'[d]
            BY <1>3, <1>5, <2>2
        <3> QED BY <1>4, <2>2, <3>1 DEF ProcFits, Disturbed, SoleFits, Newer
    <2>3. CASE /\ proc'[p].pc = "cut" /\ proc'[p].tok = s.tok
               /\ proc'[p].pay = s.pay /\ proc'[p].sole = s.sole
               /\ proc'[p].whole = (s.whole /\ FALSE)
        <3>1. Disturbed(p)' /\ Newer(p)'
            BY <1>2, <1>3, <1>4, <1>5, <2>3 DEF Disturbed, Newer
        <3>2. SoleFits(p)'
            BY <1>2, <1>5, <2>3 DEF SoleFits
        <3> QED BY <3>1, <3>2 DEF ProcFits
    <2> QED BY <1>4, <2>1, <2>2, <2>3
<1>7. DirFits(d)'
    <2>1. FilesFit(d)'
        BY <1>1, <1>2, <1>3 DEF DirFits, FilesFit, Fits
    <2>2. GoodLeft(d)'
        <3> SUFFICES ASSUME harm'[d] = {}, saved[d] # 0
                     PROVE  \/ \E f \in Files : Good(d, f)'
                            \/ \E q \in Procs : proc'[q].dir = d /\ proc'[q].bare
            BY <1>2 DEF GoodLeft
        <3>1. ~s.bare /\ harm[d] = {}
            BY <1>3
        <3>2. CASE \E f \in Files : Good(d, f)
            BY <1>2, <3>2 DEF Good
        <3>3. CASE \E q \in Procs : proc[q].dir = d /\ proc[q].bare
            BY <1>4, <3>1, <3>3
        <3> QED BY <1>1, <3>1, <3>2, <3>3 DEF DirFits, GoodLeft
    <2> QED BY <2>1, <2>2 DEF DirFits
<1>8. s.pc \in Writing /\ (proc'[p].sole => s.sole) /\ harm[d] \subseteq harm'[d]
    BY <1>2, <1>3, <1>4 DEF Writing
<1> QED BY <1>0, <1>2, <1>3, <1>4, <1>6, <1>7, <1>8, WriteKept

LEMMA DropFits ==
    ASSUME Types, Data, NEW p \in Procs, Drop(p)
    PROVE  Data'
<1> DEFINE s == proc[p]
<1>0. PICK d \in Dirs : d = s.dir
    BY WriterFacts DEF Drop, Writing
<1>1. /\ PlaceFits(p) /\ ProcOK /\ FileOK /\ SrvOK /\ PastOK /\ DirFits(d) /\ s.tok \in Issued
    BY LocalFacts DEF Types, TypesFit, Data
<1>2. /\ s.pc = "drop" /\ proc' = Rest(p, s.tok)
      /\ \/ UNCHANGED <<file, harm>>
         \/ /\ file' = [file EXCEPT ![d]["enc"] = 0]
            /\ harm' = [harm EXCEPT ![d] = @ \cup (IF Good(d, "dat") THEN {} ELSE {"lone"})]
      /\ UNCHANGED <<machine, chain, saved, wiped, srv>>
    BY <1>0 DEF Drop, Harm
<1>3. /\ \A e \in Dirs \ {d} : harm'[e] = harm[e]
      /\ \/ harm'[d] = harm[d] /\ file' = file
         \/ /\ harm'[d] = harm[d] \cup (IF Good(d, "dat") THEN {} ELSE {"lone"})
            /\ file' = [file EXCEPT ![d]["enc"] = 0]
    BY <1>1, <1>2 DEF PastOK
<1>4. /\ \A q \in Procs \ {p} : proc'[q] = proc[q]
      /\ proc'[p].dir = d /\ proc'[p].pc = "idle" /\ ~proc'[p].sole
    BY <1>0, <1>1, <1>2, RestShape
<1>5. /\ \A e \in Dirs \ {d} : file'[e] = file[e]
      /\ file'[d]["dat"] = file[d]["dat"] /\ file'[d]["enc"] \in {0, file[d]["enc"]}
      /\ \/ harm'[d] = harm[d] /\ file' = file
         \/ harm'[d] = harm[d] \cup (IF Good(d, "dat") THEN {} ELSE {"lone"})
    BY <1>1, <1>2, <1>3, Values DEF FileOK
<1>8. s.pc \in Writing /\ harm[d] \subseteq harm'[d]
    BY <1>2, <1>3 DEF Writing
<1>6. ProcFits(p)'
    BY <1>4 DEF ProcFits, Disturbed, SoleFits, Newer, Writing
<1>7. DirFits(d)'
    <2>1. FilesFit(d)'
        BY <1>1, <1>2, <1>5, <1>8, Values DEF DirFits, FilesFit, Fits
    <2>2. GoodLeft(d)'
        <3>1. CASE harm'[d] = harm[d] /\ file' = file
            <4>1. ~s.bare
                BY <1>1, <1>2 DEF PlaceFits
            <4> QED BY <1>1, <1>2, <1>4, <3>1, <4>1 DEF DirFits, GoodLeft, Good
        <3>2. CASE harm'[d] = harm[d] \cup (IF Good(d, "dat") THEN {} ELSE {"lone"})
            BY <1>5, <3>2, Values DEF GoodLeft, Good
        <3> QED BY <1>5, <3>1, <3>2
    <2> QED BY <2>1, <2>2 DEF DirFits
<1> QED BY <1>0, <1>2, <1>3, <1>4, <1>5, <1>6, <1>7, <1>8, WriteKept

LEMMA WipeFits ==
    ASSUME Types, Data, NEW p \in Procs, Wipe(p)
    PROVE  Data'
<1> DEFINE s == proc[p]
           last == s.at = Len(Order(p))
<1>g. PICK gone \in BOOLEAN : WipeStep(p, gone)
    BY WipeShape
<1> DEFINE all == s.whole /\ gone
<1>0. PICK d \in Dirs, t \in Files : d = s.dir /\ t = Target(p)
    BY <1>g, TargetFacts DEF Types, TypesFit, WipeStep
<1>1. /\ PlaceFits(p) /\ Allowed(p) /\ ProcOK /\ FileOK /\ MachineOK /\ SrvOK /\ PastOK
      /\ Strays /\ ProcFits(p) /\ DirFits(d) /\ s \in Local
    BY LocalFacts DEF Types, TypesFit, Data
<1>2. /\ s.pc = "wipe"
      /\ file' = IF gone THEN [file EXCEPT ![d][t] = 0] ELSE file
      /\ proc' = IF last THEN Rest(p, 0)
                 ELSE [proc EXCEPT ![p].at = s.at + 1, ![p].whole = all]
      /\ wiped' = IF last THEN [wiped EXCEPT ![d] = s.pay] ELSE wiped
      /\ harm' = IF last /\ ~all THEN [harm EXCEPT ![d] = @ \cup {"kept"}]
                 ELSE IF last /\ s.sole THEN [harm EXCEPT ![d] = {}] ELSE harm
      /\ UNCHANGED <<machine, chain, saved, srv>>
    BY <1>g, <1>0 DEF WipeStep
<1>3. /\ ~s.sole => "older" \in harm[d]
      /\ s.sole => saved[d] = 0 /\ (s.whole => \A f \in Past(p) : file[d][f] = 0)
    BY <1>0, <1>1, <1>2 DEF ProcFits, SoleFits, Disturbed, Writing
<1>4. /\ \A q \in Procs \ {p} : proc'[q] = proc[q]
      /\ proc'[p].dir = d
      /\ last => proc'[p].pc = "idle" /\ ~proc'[p].sole
      /\ ~last => /\ proc'[p].pc = "wipe" /\ proc'[p].at = s.at + 1
                  /\ proc'[p].sole = s.sole /\ proc'[p].whole = all
    <2>1. CASE last
        <3>1. 0 \in Issued
            BY <1>1 DEF SrvOK, Issued, Maybe
        <3> QED BY <1>0, <1>1, <1>2, <2>1, <3>1, RestShape
    <2>2. CASE ~last
        <3>1. s.at + 1 \in 1..3 /\ all \in BOOLEAN
            BY <1>1, <1>2, <2>2, TargetFacts, OrderFacts DEF Local
        <3> QED BY <1>0, <1>1, <1>2, <2>2, <3>1, StepShape
    <2> QED BY <2>1, <2>2
<1>5. /\ \A e \in Dirs \ {d} : file'[e] = file[e]
      /\ \A f \in Files : file'[d][f] \in {0, file[d][f]}
      /\ gone => file'[d][t] = 0
    <2> HIDE DEF last, all
    <2> QED BY <1>1, <1>2 DEF FileOK
<1>6. /\ \A e \in Dirs \ {d} : wiped'[e] = wiped[e] /\ harm'[e] = harm[e]
      /\ ~last => wiped'[d] = wiped[d]
      /\ harm'[d] = IF last /\ ~all THEN harm[d] \cup {"kept"}
                    ELSE IF last /\ s.sole THEN {} ELSE harm[d]
    <2> HIDE DEF last, all
    <2> QED BY <1>1, <1>2 DEF PastOK
<1>7. Past(p) \subseteq Files
    BY <1>1, <1>2, PastFacts
<1>9. ProcFits(p)'
    <2>1. CASE last
        BY <1>4, <2>1 DEF ProcFits, Disturbed, SoleFits, Newer, Writing
    <2>2. CASE ~last
        <3>2. all => file'[d][t] = 0
            BY <1>5
        <3>3. Past(p)' = Past(p) \cup {t}
            <4>1. Order(p)' = Order(p) /\ s.at \in 1..3
                BY <1>1, <1>2 DEF Order, platform, Local
            <4>2. proc'[p].at = s.at + 1
                BY <1>4, <2>2
            <4>3. proc'[p].at - 1 = s.at /\ 1..s.at = (1..s.at - 1) \cup {s.at}
                BY <4>1, <4>2
            <4> QED BY <1>0, <4>1, <4>3 DEF Past, Target
        <3>4. s.sole /\ all => \A f \in Past(p)' : file'[d][f] = 0
            BY <1>3, <1>5, <1>7, <3>2, <3>3
        <3>5. SoleFits(p)'
            BY <1>2, <1>3, <1>4, <2>2, <3>4 DEF SoleFits
        <3>6. Disturbed(p)' /\ Newer(p)'
            BY <1>3, <1>4, <1>6, <2>2 DEF Disturbed, Newer
        <3> QED BY <3>5, <3>6 DEF ProcFits
    <2> QED BY <2>1, <2>2
<1>10. DirFits(d)'
    <2>1. CASE ~s.sole
        <3>1. "older" \in harm'[d]
            BY <1>3, <1>6, <2>1
        <3> QED BY <3>1 DEF DirFits, FilesFit, GoodLeft
    <2>4. CASE last /\ ~all
        <3>1. "kept" \in harm'[d]
            BY <1>6, <2>4
        <3> QED BY <3>1 DEF DirFits, FilesFit, GoodLeft
    <2>2. CASE s.sole /\ last /\ all
        <3>1. \A f \in Files : file'[d][f] = 0
            <4>1. \A f \in Files : f \in Past(p) \cup {t} \/ (platform = "windows" /\ f = "enc")
                BY <1>0, <1>1, <1>2, <2>2, PastFacts
            <4>2. platform = "windows" => file[d]["enc"] = 0
                BY <1>1 DEF Strays, OneFile
            <4>3. file'[d][t] = 0 /\ \A f \in Past(p) : file[d][f] = 0
                BY <1>3, <1>5, <2>2
            <4> QED BY <1>5, <4>1, <4>2, <4>3
        <3>2. saved'[d] = 0
            BY <1>2, <1>3, <2>2
        <3> QED BY <3>1, <3>2, Values DEF DirFits, FilesFit, Fits, GoodLeft
    <2>3. CASE s.sole /\ ~last
        <3>1. /\ saved'[d] = 0 /\ saved' = saved /\ chain' = chain /\ wiped'[d] = wiped[d]
              /\ harm'[d] = harm[d]
            BY <1>2, <1>3, <1>6, <2>3
        <3>2. FilesFit(d)'
            BY <1>1, <1>5, <3>1, Values DEF DirFits, FilesFit, Fits
        <3> QED BY <3>1, <3>2 DEF DirFits, GoodLeft
    <2> QED BY <2>1, <2>2, <2>3, <2>4
<1>11. /\ s.pc \in Writing /\ (proc'[p].sole => s.sole)
       /\ (~s.sole => harm[d] \subseteq harm'[d])
    BY <1>2, <1>4, <1>6 DEF Writing
<1> QED BY <1>0, <1>2, <1>4, <1>5, <1>6, <1>9, <1>10, <1>11, WriteKept

LEMMA MendPutsFits ==
    ASSUME Types, Data, NEW p \in Procs, MendPuts(p)
    PROVE  Data'
<1> DEFINE s == proc[p]
           d == "system"
<1>1. /\ PlaceFits(p) /\ Allowed(p) /\ ProcOK /\ FileOK /\ Strays /\ s \in Local
      /\ ProcFits(p) /\ d \in Dirs /\ DirFits(d)
    BY LocalFacts, Values DEF Types, TypesFit, Data
<1>2. /\ s.pc = "remake"
      /\ proc' = [proc EXCEPT ![p].pc = "load", ![p].at = 1, ![p].bare = FALSE]
      /\ file' = [file EXCEPT ![d]["dat"] = s.pay]
      /\ UNCHANGED <<machine, chain, saved, wiped, harm>>
    BY DEF MendPuts
<1>3. s.dir = d
    BY <1>1, <1>2, WriterFacts, Values DEF PlaceFits, Allowed, Writing
<1>4. /\ \A q \in Procs \ {p} : proc'[q] = proc[q]
      /\ proc'[p].dir = d /\ proc'[p].pc = "load" /\ proc'[p].sole = s.sole
    BY <1>1, <1>2, <1>3 DEF ProcOK, Local
<1>5. /\ \A e \in Dirs \ {d} : file'[e] = file[e]
      /\ file'[d]["dat"] = s.pay /\ file'[d]["enc"] = file[d]["enc"]
    BY <1>1, <1>2, Values DEF FileOK
<1>6. ProcFits(p)'
    BY <1>4 DEF ProcFits, Disturbed, SoleFits, Newer, Writing
<1>7. /\ "older" \notin harm[d] /\ "kept" \notin harm[d] => Fits(s.pay, d)
      /\ harm[d] = {} /\ saved[d] # 0 => s.pay \in Tokens
    BY <1>1, <1>2, <1>3 DEF ProcFits, Newer, Writing
<1>8. DirFits(d)'
    <2>1. FilesFit(d)'
        BY <1>1, <1>2, <1>5, <1>7, Values DEF DirFits, FilesFit, Fits
    <2>2. GoodLeft(d)'
        BY <1>2, <1>5, <1>7, Values DEF GoodLeft, Good
    <2> QED BY <2>1, <2>2 DEF DirFits
<1>9. s.pc \in Writing
    BY <1>2 DEF Writing
<1> QED BY <1>1, <1>2, <1>3, <1>4, <1>5, <1>6, <1>8, <1>9, WriteKept

LEMMA CrashFits ==
    ASSUME Types, Data, NEW p \in Procs, Crash(p)
    PROVE  Data'
<1> DEFINE s == proc[p]
<1>1. ProcOK /\ SrvOK /\ PastOK
    BY DEF Types, TypesFit
<1>2. /\ proc' = [proc EXCEPT ![p] = Off]
      /\ harm' = IF s.bare THEN [harm EXCEPT ![s.dir] = @ \cup {"lone"}] ELSE harm
      /\ UNCHANGED <<machine, file, chain, saved, wiped, srv>>
    BY DEF Crash
<1>3. proc'[p] = Off /\ \A q \in Procs \ {p} : proc'[q] = proc[q]
    BY <1>1, <1>2, OffShape
<1>4. proc'[p].pc = "off" /\ proc'[p].dir = "none" /\ ~proc'[p].sole
    BY <1>3 DEF Off
<1>5. CASE ~s.bare
    BY <1>2, <1>3, <1>4, <1>5, QuietFits DEF Writing
<1>6. CASE s.bare
    <2>1. PICK d \in Dirs : d = s.dir
        BY <1>6, WriterFacts
    <2>2. s.pc \in Writing /\ DirFits(d)
        BY <1>6, WriterFacts DEF Data
    <2>3. /\ harm'[d] = harm[d] \cup {"lone"}
          /\ \A e \in Dirs \ {d} : harm'[e] = harm[e]
        BY <1>1, <1>2, <1>6, <2>1 DEF PastOK
    <2>4. DirFits(d)'
        BY <1>2, <2>2, <2>3 DEF DirFits, FilesFit, Fits, GoodLeft
    <2>5. ProcFits(p)'
        BY <1>4 DEF ProcFits, Disturbed, SoleFits, Newer, Writing
    <2> QED BY <1>2, <1>3, <1>4, <2>1, <2>2, <2>3, <2>4, <2>5, WriteKept
<1> QED BY <1>5, <1>6

\* A process that begins to write disturbs who writes in the directory, and is
\* disturbed by them.
LEMMA BeginKept ==
    ASSUME Types, Types', Data, UNCHANGED <<machine, chain>>, NEW p \in Procs, NEW d \in Dirs,
           proc[p].dir \in {"none", d}, NEW state \in Local', state.dir = d,
           state.pc \in {"seal", "wipe", "remake"},
           NEW hazards \in SUBSET Hazards, Begin(p, state, hazards),
           srv <= srv',
           \A e \in Dirs \ {d} : file'[e] = file[e] /\ saved'[e] = saved[e],
           wiped' = wiped,
           SoleFits(p)', Newer(p)', DirFits(d)'
    PROVE  Data'
<1>1. ProcOK /\ SrvOK /\ PastOK /\ srv' \in Nat
    <2>1. ProcOK /\ SrvOK /\ PastOK /\ SrvOK'
        BY DEF Types, TypesFit
    <2> QED BY <2>1, Values DEF SrvOK
<1>2. /\ OthersStay(p)
      /\ proc'[p].pc = state.pc /\ proc'[p].dir = d
      /\ proc'[p].sole = Alone(p, d)
      /\ \A q \in Procs \ {p} : /\ proc'[q].sole => proc[q].sole /\ proc[q].dir # d
                                /\ proc[q].dir # d => proc'[q].sole = proc[q].sole
      /\ \A e \in Dirs \ {d} : harm'[e] = harm[e]
      /\ harm'[d] = harm[d] \cup hazards \cup (IF Alone(p, d) THEN {} ELSE {"older"})
    BY <1>1, BeginShape
<1>3. ~Alone(p, d) => "older" \in harm'[d] /\ ~proc'[p].sole
    BY <1>2
<1>4. \A q \in Procs \ {p} : /\ proc'[q].sole => proc[q].sole /\ proc[q].dir # d
                             /\ proc[q].dir # d => proc'[q].sole = proc[q].sole
    BY <1>2
<1>5. \A e \in Dirs \ {d} : harm'[e] = harm[e]
    BY <1>2
<1>6. \A e \in Dirs \ {d} : DirSteady(e)
    BY <1>5 DEF DirSteady
<1>7. ASSUME NEW q \in Procs \ {p}, proc[q].pc \in Writing
      PROVE  Steady(q) \/ Upset(q)
    <2>1. CASE proc[q].dir = d
        <3>1. ~Alone(p, d)
            BY <1>7, <2>1 DEF Alone
        <3> QED BY <1>3, <1>4, <2>1, <3>1 DEF Upset
    <2>2. CASE proc[q].dir # d
        <3>1. proc[q].dir \in Dirs
            BY <1>7, WriterFacts
        <3>2. proc'[q].sole = proc[q].sole
            BY <1>4, <2>2
        <3>3. harm'[proc[q].dir] = harm[proc[q].dir]
            BY <1>5, <2>2, <3>1
        <3> QED BY <2>2, <3>1, <3>2, <3>3 DEF Steady
    <2> QED BY <2>1, <2>2
<1>8. ASSUME NEW q \in Procs \ {p}, proc[q].pc \in Writing, proc[q].dir = proc'[p].dir
      PROVE  ~proc'[p].sole /\ ~proc'[q].sole
    <2>1. proc[q].dir = d
        BY <1>2, <1>8
    <2>2. ~Alone(p, d)
        BY <1>8, <2>1 DEF Alone
    <2> QED BY <1>3, <1>4, <2>1, <2>2
<1>9. Disturbed(p)'
    BY <1>2, <1>3 DEF Disturbed
<1>10. ProcFits(p)'
    BY <1>9 DEF ProcFits
<1>11. OthersStay(p) /\ \A q \in Procs \ {p} : proc'[q].sole => proc[q].sole
    BY <1>2, <1>4
<1> QED BY <1>6, <1>7, <1>8, <1>10, <1>11, DataKept

\* A new token, or one read from a whole file, is written anew.
LEMMA SealBegins ==
    ASSUME Types, Types', Data, UNCHANGED <<machine, chain, file, saved, wiped>>,
           NEW p \in Procs, NEW d \in Dirs, proc[p].dir = d, ~proc[p].bare,
           NEW state \in Local', state.dir = d, state.pc = "seal",
           NEW hazards \in SUBSET Hazards, Begin(p, state, hazards), srv <= srv',
           "older" \notin harm[d] \cup hazards /\ "kept" \notin harm[d] \cup hazards => state.tok > wiped[d] /\ state.tok >= saved[d]
    PROVE  Data'
<1>1. /\ ProcOK /\ SrvOK /\ PastOK /\ DirFits(d) /\ srv' \in Nat
    <2>1. ProcOK /\ SrvOK /\ PastOK /\ SrvOK' /\ DirFits(d)
        BY DEF Types, TypesFit, Data
    <2> QED BY <2>1, Values DEF SrvOK
<1>2. /\ proc'[p].pc = "seal" /\ proc'[p].dir = d /\ proc'[p].tok = state.tok
      /\ harm[d] \cup hazards \subseteq harm'[d] /\ OthersStay(p)
    BY <1>1, BeginShape
<1>3. SoleFits(p)'
    BY <1>2 DEF SoleFits
<1>4. Newer(p)'
    BY <1>2 DEF Newer
<1>5. FilesFit(d)'
    BY <1>1, <1>2 DEF DirFits, FilesFit, Fits
<1>6. GoodLeft(d)'
    <2>1. \A f \in Files : Good(d, f)' = Good(d, f)
        BY DEF Good
    <2>2. ASSUME NEW q \in Procs, proc[q].dir = d, proc[q].bare
          PROVE  proc'[q].dir = d /\ proc'[q].bare
        BY <1>2, <2>2 DEF OthersStay, Stays
    <2> QED BY <1>1, <1>2, <2>1, <2>2 DEF DirFits, GoodLeft
<1> QED BY <1>3, <1>4, <1>5, <1>6, BeginKept DEF DirFits

LEMMA EnrolFits ==
    ASSUME Types, Types', Data, NEW p \in Procs, Enrol(p)
    PROVE  Data'
<1> DEFINE s == proc[p]
           state == [s EXCEPT !.pc = "seal", !.tok = srv + 1, !.drop = FALSE]
<1>1. /\ s.pc = "idle" /\ srv' = srv + 1 /\ Begin(p, state, {})
      /\ UNCHANGED <<machine, file, chain, saved, wiped>>
    BY DEF Enrol
<1>2. /\ PlaceFits(p) /\ ProcOK /\ SrvOK /\ PastOK /\ SrvOK' /\ s \in Local
    BY LocalFacts DEF Types, TypesFit
<1>3. s.dir \in Dirs /\ ~s.bare
    BY <1>1, <1>2, LocalFacts DEF PlaceFits, Looking
<1>4. srv \in Nat /\ srv <= srv' /\ srv + 1 \in Issued' /\ Local \subseteq Local'
    <2>1. srv \in Nat /\ srv <= srv' /\ srv' \in Nat /\ srv + 1 \in Issued'
        BY <1>1, <1>2 DEF SrvOK, Maybe, Issued
    <2> QED BY <1>2, <2>1, IssuedGrows
<1>5. /\ state \in Local' /\ state.dir = s.dir /\ state.pc = "seal" /\ state.tok = srv + 1
    <2>1. s \in Local' /\ FALSE \in BOOLEAN /\ "seal" \in Codes
        BY <1>2, <1>4 DEF Codes, Writing
    <2> QED BY <1>4, <2>1 DEF Local
<1>6. srv + 1 > wiped[s.dir] /\ srv + 1 >= saved[s.dir] /\ {} \in SUBSET Hazards
    <2>1. wiped[s.dir] \in Issued /\ saved[s.dir] \in Issued
        BY <1>2, <1>3 DEF PastOK
    <2> QED BY <1>4, <2>1 DEF Issued
<1> HIDE DEF state
<1> QED BY <1>1, <1>3, <1>4, <1>5, <1>6, SealBegins

LEMMA ReadFits ==
    ASSUME Types, Types', Data, NEW p \in Procs, Read(p)
    PROVE  Data'
<1> DEFINE s == proc[p]
           content == file[s.dir][Order(p)[s.at]]
           token == Decoded(p, content)
           drop == Window(p) /\ s.at > 1
           hazards == IF content = Torn THEN {"older"} ELSE {}
           state == [s EXCEPT !.pc = "seal", !.tok = token, !.drop = drop]
<1>1. /\ TypesFit /\ PlaceFits(p) /\ MachineOK /\ ProcOK /\ SrvOK /\ FileOK /\ PastOK
    BY DEF Types, TypesFit
<1>2. s.pc = "load" /\ UNCHANGED <<machine, file, chain, saved, wiped, srv>>
    BY DEF Read
<1>3. s \in Local /\ s.dir \in Dirs /\ s.at \in 1..3 /\ s.at <= Len(Order(p)) /\ ~s.bare
    BY <1>1, <1>2, LocalFacts DEF PlaceFits, Looking
<1>4. /\ Order(p)[s.at] \in Files /\ content \in Stored /\ token \in Issued
    <2>1. Order(p)[s.at] \in Files
        BY <1>1, <1>3, OrderFacts
    <2> QED BY <1>1, <1>3, <2>1, DecodedType DEF FileOK
<1>5. srv <= srv' /\ Local' = Local /\ Issued' = Issued
    BY <1>1, <1>2 DEF SrvOK, Issued, Stored, Local, Maybe
<1>6. CASE /\ token = 0 /\ s.at < Len(Order(p)) /\ proc' = Go(p, "load", s.at + 1)
           /\ UNCHANGED harm
    <2>1. s.at + 1 \in 1..3
        BY <1>1, <1>3, <1>6, OrderFacts
    <2>2. proc'[p].pc = "load" /\ \A q \in Procs \ {p} : proc'[q] = proc[q]
        BY <1>1, <1>2, <1>6, <2>1, GoShape DEF Codes
    <2> QED BY <1>2, <1>3, <1>6, <2>2, QuietFits DEF Writing
<1>7. CASE proc' = Rest(p, token) /\ UNCHANGED harm
    <2>1. proc'[p].pc = "idle" /\ \A q \in Procs \ {p} : proc'[q] = proc[q]
        BY <1>1, <1>2, <1>4, <1>7, RestShape
    <2> QED BY <1>2, <1>3, <1>7, <2>1, QuietFits DEF Writing
<1>8. CASE token # 0 /\ Begin(p, state, hazards)
    <2>1. drop \in BOOLEAN /\ hazards \in SUBSET Hazards
        BY DEF Hazards, Window
    <2>2. /\ state \in Local' /\ state.dir = s.dir /\ state.pc = "seal" /\ state.tok = token
        <3>1. token \in Issued' /\ "seal" \in Codes
            BY <1>4, <1>5 DEF Codes, Writing
        <3> HIDE DEF token, drop
        <3> QED BY <1>3, <1>5, <2>1, <3>1 DEF Local
    <2>3. ASSUME "older" \notin harm[s.dir] \cup hazards /\ "kept" \notin harm[s.dir] \cup hazards
          PROVE  token > wiped[s.dir] /\ token >= saved[s.dir]
        <3>1. content # Torn /\ "older" \notin harm[s.dir] /\ "kept" \notin harm[s.dir]
            BY <2>3
        <3>2. Fits(content, s.dir)
            BY <1>3, <1>4, <3>1 DEF Data, DirFits, FilesFit
        <3>3. (token = content /\ content \in Tokens) \/ (token = chain /\ content = Ref)
            <4>1. token # 0
                BY <1>8
            <4> QED BY <3>1, <4>1 DEF Decoded, SelfContained, Record
        <3> QED BY <3>2, <3>3 DEF Fits
    <2> HIDE DEF state, token, drop, hazards
    <2> QED BY <1>2, <1>3, <1>5, <1>8, <2>1, <2>2, <2>3, SealBegins
<1> QED BY <1>6, <1>7, <1>8 DEF Read

LEMMA UnlinkFits ==
    ASSUME Types, Types', Data, NEW p \in Procs, Unlink(p)
    PROVE  Data'
<1> DEFINE s == proc[p]
           state == [s EXCEPT !.pc = "wipe", !.at = 1, !.pay = srv]
<1>1. /\ TypesFit /\ PlaceFits(p) /\ ProcOK /\ SrvOK /\ PastOK /\ s \in Local
    BY LocalFacts DEF Types, TypesFit
<1>2. PICK d \in Dirs : d = s.dir
    BY <1>1, LocalFacts DEF Unlink, Looking
<1>3. /\ s.pc = "idle" /\ Begin(p, state, {}) /\ saved' = [saved EXCEPT ![d] = 0]
      /\ UNCHANGED <<machine, file, chain, wiped, srv>>
    BY <1>2 DEF Unlink
<1>4. srv <= srv' /\ srv' \in Nat /\ Local' = Local /\ srv \in Stored
    BY <1>1, <1>3 DEF SrvOK, Maybe, Issued, Stored, Local
<1>5. /\ state \in Local' /\ state.dir = d /\ state.pc = "wipe" /\ state.at = 1
    <2>1. s \in Local' /\ 1 \in 1..3 /\ "wipe" \in Codes
        BY <1>1, <1>4 DEF Codes, Writing
    <2> QED BY <1>1, <1>2, <1>4, <2>1 DEF Local
<1>6. saved'[d] = 0 /\ (\A e \in Dirs \ {d} : saved'[e] = saved[e]) /\ saved[d] \in Issued
    BY <1>1, <1>3 DEF PastOK
<1>7. {} \in SUBSET Hazards
    OBVIOUS
<1> HIDE DEF state
<1>8. /\ proc'[p].pc = "wipe" /\ proc'[p].at = 1 /\ proc'[p].dir = d
      /\ harm[d] \subseteq harm'[d]
    BY <1>1, <1>3, <1>4, <1>5, <1>7, BeginShape
<1>9. SoleFits(p)'
    <2>1. Past(p)' = {}
        BY <1>8 DEF Past
    <2> QED BY <1>6, <1>8, <2>1 DEF SoleFits
<1>10. Newer(p)'
    BY <1>8 DEF Newer
<1>11. DirFits(d)'
    <2>1. DirFits(d)
        BY DEF Data
    <2>2. \A c \in Tokens : Fits(c, d) => c > wiped[d] /\ c >= 0
        BY Values DEF Fits, Tokens
    <2>3. chain \in Nat
        BY <1>1 DEF SrvOK, Maybe, Issued
    <2>4. FilesFit(d)'
        BY <1>3, <1>6, <1>8, <2>1, <2>2, <2>3 DEF DirFits, FilesFit, Fits
    <2>5. GoodLeft(d)'
        BY <1>6 DEF GoodLeft
    <2> QED BY <2>4, <2>5 DEF DirFits
<1> QED BY <1>2, <1>3, <1>4, <1>5, <1>6, <1>7, <1>9, <1>10, <1>11, BeginKept

LEMMA MendTakesFits ==
    ASSUME Types, Types', Data, NEW p \in Procs, MendTakes(p)
    PROVE  Data'
<1> DEFINE d == "system"
           s == proc[p]
           state == [s EXCEPT !.pc = "remake", !.dir = d,
                              !.pay = file[d]["dat"], !.bare = TRUE]
<1>1. /\ TypesFit /\ PlaceFits(p) /\ ProcOK /\ SrvOK /\ PastOK /\ FileOK /\ s \in Local
      /\ Strays /\ d \in Dirs /\ "dat" \in Files /\ Files = {"dat", "enc"}
    BY LocalFacts, Values DEF Types, TypesFit
<1>2. /\ s.pc = "off" /\ platform = "windows" /\ Begin(p, state, {})
      /\ file' = [file EXCEPT ![d]["dat"] = 0]
      /\ UNCHANGED <<machine, chain, saved, wiped, srv>>
    BY DEF MendTakes
<1>3. s.dir = "none" /\ file[d]["dat"] \in Stored /\ file[d]["enc"] = 0 /\ file[d]["dat"] # Ref
    BY <1>1, <1>2, Values DEF PlaceFits, Looking, FileOK, Strays, OneFile, NoRefs
<1>4. srv <= srv' /\ srv' \in Nat /\ Local' = Local
    BY <1>1, <1>2 DEF SrvOK, Maybe, Issued, Stored, Local
<1>5. /\ state \in Local' /\ state.dir = d /\ state.pc = "remake"
      /\ state.pay = file[d]["dat"] /\ state.bare
    <2>1. "remake" \in Codes /\ d \in Dirs \cup {"none"} /\ TRUE \in BOOLEAN
        BY <1>1 DEF Codes, Writing
    <2> HIDE DEF d
    <2> QED BY <1>1, <1>3, <1>4, <2>1 DEF Local
<1>6. {} \in SUBSET Hazards
    OBVIOUS
<1>7. /\ \A e \in Dirs \ {d} : file'[e] = file[e]
      /\ file'[d]["dat"] = 0 /\ file'[d]["enc"] = 0
    BY <1>1, <1>2, <1>3, Values DEF FileOK
<1> HIDE DEF state
<1>8. /\ proc'[p].pc = "remake" /\ proc'[p].dir = d /\ proc'[p].pay = file[d]["dat"]
      /\ proc'[p].bare
      /\ harm'[d] = harm[d] \cup {} \cup (IF Alone(p, d) THEN {} ELSE {"older"})
    BY <1>1, <1>2, <1>4, <1>5, <1>6, BeginShape
<1>9. SoleFits(p)'
    BY <1>8 DEF SoleFits
<1>10. Newer(p)'
    <2>1. ASSUME "older" \notin harm'[d] /\ "kept" \notin harm'[d] PROVE Fits(file[d]["dat"], d) /\ Alone(p, d)
        <3>1. "older" \notin harm[d] /\ "kept" \notin harm[d] /\ Alone(p, d)
            BY <1>8, <2>1
        <3> QED BY <1>1, <3>1 DEF Data, DirFits, FilesFit
    <2>2. ASSUME harm'[d] = {}, saved[d] # 0 PROVE file[d]["dat"] \in Tokens
        <3>1. harm[d] = {} /\ Alone(p, d)
            BY <1>8, <2>1, <2>2
        <3>2. ~\E q \in Procs : proc[q].dir = d /\ proc[q].bare
            BY <1>3, <3>1, WriterFacts DEF Alone
        <3>3. \E f \in Files : Good(d, f)
            BY <1>1, <2>2, <3>1, <3>2 DEF Data, DirFits, GoodLeft
        <3> QED BY <1>1, <1>3, <3>3, Values DEF Good, Tokens
    <2> QED BY <1>2, <1>8, <2>1, <2>2 DEF Newer, Fits
<1>11. DirFits(d)'
    <2>1. FilesFit(d)'
        BY <1>1, <1>7, Values DEF FilesFit, Fits
    <2>2. GoodLeft(d)'
        BY <1>8 DEF GoodLeft
    <2> QED BY <2>1, <2>2 DEF DirFits
<1> QED BY <1>1, <1>2, <1>3, <1>4, <1>5, <1>6, <1>7, <1>9, <1>10, <1>11, BeginKept

\* A seal that takes the record leaves the directories that refer to it behind.
LEMMA SealFits ==
    ASSUME Types, Types', Data, NEW p \in Procs, Seal(p)
    PROVE  Data'
<1> DEFINE s == proc[p]
<1>1. /\ TypesFit /\ PlaceFits(p) /\ MachineOK /\ ProcOK /\ SrvOK /\ PastOK /\ ProcFits(p)
    BY DEF Types, TypesFit, Data
<1>2. s.pc = "seal" /\ chain' = Recorded(p) /\ UNCHANGED <<machine, file, saved, wiped, srv>>
    BY DEF Seal
<1>3. PICK d \in Dirs : d = s.dir
    BY <1>1, <1>2, WriterFacts DEF Writing
<1>4. ~s.bare /\ s.tok \in Nat /\ s.tok # 0 /\ s.tok \in Tokens /\ saved[d] \in Nat
      /\ wiped[d] \in Nat
    <2>1. ~s.bare /\ s.tok \in Issued /\ s.tok # 0
        BY <1>1, <1>2, LocalFacts DEF PlaceFits
    <2>2. Issued \subseteq Maybe
        BY <1>1, StoreAssumption DEF SrvOK, Issued, Maybe
    <2> QED BY <1>1, <2>1, <2>2, Values DEF PastOK
<1>5. /\ OthersStay(p)
      /\ proc'[p].pc = "cut" /\ proc'[p].at = 1 /\ proc'[p].dir = d
      /\ proc'[p].tok = s.tok /\ proc'[p].pay = Sealed(p) /\ proc'[p].sole = s.sole
    BY <1>1, <1>3, SealShape
<1>6. /\ \A q \in Procs \ {p} :
             /\ proc'[q].sole => proc[q].sole /\ proc[q].dir \notin Elsewhere(p)
             /\ proc[q].dir \notin Elsewhere(p) => proc'[q].sole = proc[q].sole
      /\ \A e \in Dirs : harm'[e] = harm[e] \cup
                             (IF e \in Elsewhere(p) THEN {"older"} ELSE {})
    BY <1>1, SealShape
<1>7. d \notin Elsewhere(p) /\ harm'[d] = harm[d]
    <2>1. d \notin Elsewhere(p)
        BY <1>3 DEF Elsewhere
    <2> QED BY <1>6, <2>1
<1>8. ASSUME NEW e \in Dirs, chain' # chain
      PROVE  e = d \/ e \in Elsewhere(p) \/ ~Refers(e)
    BY <1>2, <1>3, <1>8 DEF Recorded, Elsewhere
<1>9. ASSUME NEW e \in Dirs \ {d} PROVE DirSteady(e)
    <2>1. harm[e] \subseteq harm'[e] /\ (e \in Elsewhere(p) => "older" \in harm'[e])
        BY <1>6
    <2>2. chain' = chain \/ e \in Elsewhere(p) \/ \A f \in Files : file[e][f] # Ref
        BY <1>8 DEF Refers
    <2> QED BY <1>2, <2>1, <2>2 DEF DirSteady
<1>10. ASSUME NEW q \in Procs \ {p}, proc[q].pc \in Writing
       PROVE  Steady(q) \/ Upset(q)
    <2> DEFINE e == proc[q].dir
    <2>1. e \in Dirs
        BY <1>10, WriterFacts
    <2>2. harm[e] \subseteq harm'[e] /\ (e \in Elsewhere(p) => "older" \in harm'[e])
        BY <1>6, <2>1
    <2>3. CASE e \in Elsewhere(p)
        BY <1>6, <2>2, <2>3 DEF Upset
    <2>4. CASE e = d
        <3>1. ~s.sole /\ ~proc[q].sole /\ s.pc \in Writing
            BY <1>2, <1>3, <1>10, <2>4 DEF Data, OneWriter, Writing
        <3>2. "older" \in harm[d]
            BY <1>1, <1>3, <3>1 DEF ProcFits, Disturbed
        <3>3. ~proc'[q].sole
            BY <1>6, <3>1
        <3> QED BY <1>7, <2>4, <3>2, <3>3 DEF Upset
    <2>5. CASE e # d /\ e \notin Elsewhere(p)
        <3>1. chain' = chain \/ proc[q].pay # Ref
            BY <1>8, <2>1, <2>5 DEF Refers
        <3>2. proc'[q].sole = proc[q].sole
            BY <1>6, <2>5
        <3> QED BY <1>2, <2>2, <3>1, <3>2 DEF Steady
    <2> QED BY <2>3, <2>4, <2>5
<1>11. ASSUME NEW q \in Procs \ {p}, proc[q].pc \in Writing, proc[q].dir = proc'[p].dir
       PROVE  ~proc'[p].sole /\ ~proc'[q].sole
    <2>1. ~s.sole /\ ~proc[q].sole
        BY <1>2, <1>3, <1>5, <1>11 DEF Data, OneWriter, Writing
    <2> QED BY <1>5, <1>6, <2>1
<1>12. ProcFits(p)'
    <2>1. /\ ~s.sole => "older" \in harm[d]
          /\ "older" \notin harm[d] /\ "kept" \notin harm[d] => s.tok > wiped[d] /\ s.tok >= saved[d]
        BY <1>1, <1>2, <1>3 DEF ProcFits, Disturbed, Newer, Writing
    <2>2. Disturbed(p)' /\ Newer(p)'
        BY <1>2, <1>5, <1>7, <2>1 DEF Disturbed, Newer
    <2>3. Sealed(p) = s.tok \/ (Sealed(p) = Ref /\ chain' = s.tok)
        BY <1>2 DEF Sealed, Recorded
    <2>4. Past(p)' = {}
        BY <1>5 DEF Past
    <2>5. SoleFits(p)'
        BY <1>5, <2>3, <2>4 DEF SoleFits
    <2> QED BY <2>2, <2>5 DEF ProcFits
<1>13. DirFits(d)'
    <2>1. DirFits(d)
        BY DEF Data
    <2>2. FilesFit(d)'
        <3> SUFFICES ASSUME "older" \notin harm[d] /\ "kept" \notin harm[d], NEW f \in Files PROVE Fits(file[d][f], d)'
            BY <1>7 DEF FilesFit
        <3>1. Fits(file[d][f], d)
            BY <2>1 DEF DirFits, FilesFit
        <3>2. s.tok > wiped[d] /\ s.tok >= saved[d]
            BY <1>1, <1>2, <1>3 DEF ProcFits, Newer, Writing
        <3>3. chain' = chain \/ chain' = s.tok
            BY <1>2 DEF Recorded
        <3> QED BY <1>2, <3>1, <3>2, <3>3 DEF Fits
    <2>3. GoodLeft(d)'
        <3>1. \A f \in Files : Good(d, f)' = Good(d, f)
            BY <1>2 DEF Good
        <3>2. ASSUME NEW q \in Procs, proc[q].dir = d, proc[q].bare
              PROVE  proc'[q].dir = d /\ proc'[q].bare
            BY <1>4, <1>5, <3>2 DEF OthersStay, Stays
        <3> QED BY <1>2, <1>7, <2>1, <3>1, <3>2 DEF DirFits, GoodLeft
    <2> QED BY <2>2, <2>3 DEF DirFits
<1>14. \A q \in Procs \ {p} : proc'[q].sole => proc[q].sole
    BY <1>6
<1> QED BY <1>2, <1>3, <1>5, <1>9, <1>10, <1>11, <1>12, <1>13, <1>14, DataKept

\* A migration adds files to a directory nobody else can be in.
LEMMA MissingAlone ==
    ASSUME Types, NEW p \in Procs, NEW d \in Dirs, Settles(p, d), Missing(p, d) # {},
           NEW q \in Procs \ {p}
    PROVE  proc[q].dir # d
<1>1. MachineOK /\ Allowed(q) /\ OwnFiles /\ TypesFit
    BY DEF Types, TypesFit, Strays
<1>2. /\ d # "system" /\ ~(platform = "macos" /\ p = "gui")
      /\ \E f \in Files : file[d][f] = 0 /\ file[Source(p)][f] # 0
    BY DEF Missing
<1>3. platform \in {"linux", "macos"} /\ uid(p) \in {"root", "user"}
    BY <1>1, <1>2, MachineFacts DEF Settles
<1>4. uid("daemon") = "root"
    <2>1. machine.uid["daemon"] # "user"
        <3>1. CASE platform = "linux"
            BY <1>1, <1>2, <3>1 DEF Source, OwnFiles
        <3>2. CASE platform = "macos"
            BY <1>1, <1>2, <3>2 DEF Source, OwnFiles
        <3> QED BY <1>3, <3>1, <3>2
    <2> QED BY <1>1, <2>1, MachineFacts DEF uid, Procs
<1>5. CASE platform = "macos"
    <2>1. p = "daemon" /\ d # "varlib"
        BY <1>2, <1>5 DEF Source, Procs
    <2>2. d = "tmp"
        BY <1>2, <1>5, <2>1 DEF Settles
    <2> QED BY <1>4, <1>5, <2>1, <2>2 DEF Settles
<1>6. CASE platform = "linux"
    <2>1. p = "gui" /\ q = "daemon"
        BY <1>2, <1>4, <1>6 DEF Settles, Procs
    <2> QED BY <1>1, <1>2, <1>4, <1>6, <2>1, Values DEF Allowed
<1> QED BY <1>3, <1>5, <1>6

LEMMA SettleFits ==
    ASSUME Types, Data, NEW p \in Procs, NEW d \in Dirs, Settle(p, d), Settles(p, d),
           proc[p].pc \in Looking
    PROVE  Data'
<1>1. TypesFit /\ FileOK /\ PastOK /\ PlaceFits(p)
    BY DEF Types, TypesFit
<1>2. /\ FileOK' /\ PastOK' /\ OthersStay(p)
      /\ \A q \in Procs \ {p} : proc'[q] = proc[q]
      /\ proc'[p].pc = "load" /\ proc'[p].dir = d
      /\ UNCHANGED <<machine, chain, saved, wiped, srv>>
    BY <1>1, SettleShape
<1>3. /\ \A e \in Dirs \ {d} : file'[e] = file[e] /\ harm'[e] = harm[e]
      /\ \A f \in Files : f \notin Missing(p, d) => file'[d][f] = file[d][f]
      /\ harm'[d] = harm[d] \cup (IF Missing(p, d) = {} THEN {} ELSE {"older"})
    BY <1>1, SettleShape
<1>4. proc[p].dir = "none" /\ ~proc[p].bare /\ proc'[p].pc \notin Writing
    BY <1>1, <1>2 DEF PlaceFits, Looking, Writing
<1>5. CASE Missing(p, d) = {}
    <2>1. file' = file
        <3>1. Stored' = Stored
            BY <1>2 DEF Stored, Issued
        <3>2. file'[d] = file[d]
            BY <1>1, <1>2, <1>3, <1>5, <3>1 DEF FileOK
        <3>3. \A e \in Dirs : file'[e] = file[e]
            BY <1>3, <3>2
        <3> QED BY <1>1, <1>2, <3>3 DEF FileOK
    <2>2. harm' = harm
        <3>1. \A e \in Dirs : harm'[e] = harm[e]
            BY <1>3, <1>5
        <3> QED BY <1>1, <1>2, <3>1 DEF PastOK
    <2> QED BY <1>2, <1>4, <2>1, <2>2, QuietFits
<1>6. CASE Missing(p, d) # {}
    <2>1. "older" \in harm'[d]
        BY <1>3, <1>6
    <2>2. \A e \in Dirs \ {d} : DirSteady(e)
        BY <1>2, <1>3 DEF DirSteady
    <2>3. ASSUME NEW q \in Procs \ {p}, proc[q].pc \in Writing
          PROVE  Steady(q)
        <3>1. proc[q].dir \in Dirs \ {d}
            BY <1>6, <2>3, WriterFacts, MissingAlone
        <3> QED BY <1>2, <1>3, <3>1 DEF Steady
    <2>4. DirFits(d)'
        BY <2>1 DEF DirFits, FilesFit, GoodLeft
    <2>5. ProcFits(p)'
        BY <1>4 DEF ProcFits, Disturbed, SoleFits, Newer
    <2>6. \A q \in Procs \ {p} : proc'[q].sole => proc[q].sole
        BY <1>2
    <2> QED BY <1>2, <1>4, <2>2, <2>3, <2>4, <2>5, <2>6, DataKept
<1> QED BY <1>5, <1>6

LEMMA SearchFits ==
    ASSUME Types, Data, NEW p \in Procs,
           ProbeCloses(p) \/ LastResort(p) \/ MendSkips(p)
    PROVE  Data'
<1>1. CASE ProbeCloses(p)
    <2>1. proc[p].pc = "held" /\ Settle(p, Candidate(p)) /\ proc[p].pc \in Looking
        BY <1>1 DEF ProbeCloses, Looking
    <2> QED BY <2>1, FoundFacts, SettleFits
<1>2. CASE LastResort(p)
    <2>1. proc[p].pc \in Looking /\ ~Probed(p) /\ Settle(p, Candidate(p))
        BY <1>2 DEF LastResort, Starting, Looking
    <2>2. proc[p].at = Len(Candidates(p))
        BY <2>1, CandidateType, LocalFacts DEF Probed, PlaceFits, Types, TypesFit
    <2> QED BY <2>1, <2>2, FoundFacts, SettleFits
<1>3. CASE MendSkips(p)
    <2>1. /\ proc[p].pc \in Looking /\ Settle(p, "system") /\ Settles(p, "system")
          /\ "system" \in Dirs
        BY <1>3, Values DEF MendSkips, Settles, Looking
    <2> QED BY <2>1, SettleFits
<1> QED BY <1>1, <1>2, <1>3

LEMMA ProbingFits ==
    ASSUME Types, Data, NEW p \in Procs,
           ProbeOpens(p) \/ ProbeRefused(p) \/ ProbeLost(p) \/ ProbeAgain(p) \/ Load(p)
    PROVE  Data'
<1>1. PlaceFits(p) /\ ProcOK /\ MachineOK
    BY DEF Types, TypesFit
<1>2. UNCHANGED <<machine, file, chain, saved, wiped, harm>> /\ UNCHANGED srv
    BY DEF ProbeOpens, ProbeRefused, ProbeLost, ProbeAgain, Load, files
<1>3. proc[p].pc \in {"off", "probe", "held", "idle"}
    BY DEF ProbeOpens, ProbeRefused, ProbeLost, ProbeAgain, Load, Starting
<1>4. ~proc[p].bare
    BY <1>1, <1>3 DEF PlaceFits
<1>5. CASE ProbeAgain(p)
    BY <1>2, <1>3, <1>4, <1>5, QuietFits DEF ProbeAgain, Writing
<1>6. CASE ~ProbeAgain(p)
    <2>1. PICK pc \in {"held", "probe", "load"}, at \in 1..3 : proc' = Go(p, pc, at)
        <3>1. CASE ProbeOpens(p)
            BY <1>1, <3>1, LocalFacts DEF ProbeOpens
        <3>2. CASE ProbeRefused(p) \/ ProbeLost(p)
            <4>1. proc' = Go(p, "probe", proc[p].at + 1) /\ proc[p].at < Len(Candidates(p))
                BY <1>1, <3>2 DEF ProbeRefused, ProbeLost, Probed, PlaceFits
            <4>2. proc[p].at + 1 \in 1..3
                BY <1>1, <4>1, CandidateType, LocalFacts
            <4> QED BY <4>1, <4>2
        <3>3. CASE Load(p)
            BY <3>3 DEF Load
        <3> QED BY <1>6, <3>1, <3>2, <3>3
    <2>2. pc \in Codes /\ pc \notin Writing
        BY DEF Codes, Looking, Writing
    <2>3. proc'[p].pc = pc /\ \A q \in Procs \ {p} : proc'[q] = proc[q]
        BY <1>1, <1>2, <2>1, <2>2, GoShape
    <2> QED BY <1>2, <1>4, <2>2, <2>3, QuietFits
<1> QED BY <1>5, <1>6

LEMMA InitInv == ASSUME Init PROVE IInv
<1>1. Types
    BY InitTypes
<1>2. \A p \in Procs : proc[p].pc = "off" /\ ~proc[p].bare
    BY DEF Init, Off
<1>3. \A d \in Dirs, f \in Files : file[d][f] = 0 /\ saved[d] = 0
    BY DEF Init
<1>4. \A d \in Dirs : DirFits(d)
    BY <1>3, Values DEF DirFits, FilesFit, Fits, GoodLeft
<1>5. OneWriter /\ \A p \in Procs : ProcFits(p)
    BY <1>2 DEF OneWriter, ProcFits, Disturbed, SoleFits, Newer, Writing
<1> QED BY <1>1, <1>4, <1>5 DEF IInv, Data

LEMMA NextInv == ASSUME IInv, [Next]_vars PROVE IInv'
<1>1. Types /\ Types' /\ Data
    BY NextTypes DEF IInv
<1>2. CASE Next
    <2>1. PICK p \in Procs :
              \/ ProbeOpens(p) \/ ProbeRefused(p) \/ ProbeLost(p) \/ ProbeCloses(p)
              \/ LastResort(p) \/ ProbeAgain(p)
              \/ MendSkips(p) \/ MendTakes(p) \/ MendPuts(p)
              \/ Load(p) \/ Read(p)
              \/ Enrol(p) \/ Seal(p) \/ Cut(p) \/ Fill(p) \/ WriteFails(p) \/ Drop(p)
              \/ Unlink(p) \/ Wipe(p) \/ Crash(p)
        BY <1>2 DEF Next
    <2> QED BY <1>1, <2>1, SearchFits, ProbingFits, MendTakesFits, MendPutsFits, ReadFits,
               EnrolFits, SealFits, CutFits, FillFits, WriteFailsFits, DropFits, UnlinkFits,
               WipeFits, CrashFits DEF IInv
<1>3. CASE UNCHANGED vars
    <2>1. /\ UNCHANGED <<machine, file, chain, saved, wiped, harm, proc>>
        BY <1>3 DEF vars
    <2>2. ASSUME NEW p \in Procs PROVE ProcFits(p)'
        BY <1>1, <2>1, ProcKept DEF Data, Stays, Steady
    <2>3. ASSUME NEW d \in Dirs PROVE DirFits(d)'
        BY <1>1, <2>1, DirKept DEF Data, DirSteady
    <2>4. OneWriter'
        BY <1>1, <2>1 DEF Data, OneWriter
    <2> QED BY <1>1, <2>2, <2>3, <2>4 DEF IInv, Data
<1> QED BY <1>2, <1>3

-----------------------------------------------------------------------------
(* What a process loads                                                    *)

\* It loads what one of its files stands for, or every one stands for nothing.
LEMMA LoadsFacts ==
    ASSUME Types, NEW p \in Procs, NEW d \in Dirs
    PROVE  \/ /\ Loads(p, d) = 0
              /\ \A i \in 1..Len(Order(p)) : Decoded(p, file[d][Order(p)[i]]) = 0
           \/ \E f \in Files : /\ Decoded(p, file[d][f]) # 0
                               /\ Loads(p, d) = Decoded(p, file[d][f])
<1> DEFINE found == {i \in DOMAIN Order(p) : Decoded(p, file[d][Order(p)[i]]) # 0}
<1>1. /\ Len(Order(p)) \in {1, 2}
      /\ \A i \in 1..Len(Order(p)) : Order(p)[i] \in Files
    BY OrderFacts DEF Types, TypesFit
<1>2. DOMAIN Order(p) = 1..Len(Order(p))
    <2>1. {<<"dat">>, <<"dat", "enc">>, <<"enc", "dat">>} \subseteq Seq({"dat", "enc"})
        OBVIOUS
    <2>2. Order(p) \in Seq({"dat", "enc"})
        BY <2>1 DEF Order
    <2> QED BY <2>2
<1>3. CASE found = {}
    BY <1>2, <1>3 DEF Loads
<1>4. CASE found # {}
    <2>1. \E i \in found : \A j \in found : i <= j
        BY <1>1, <1>2, <1>4
    <2>2. Min(found) \in found
        BY <2>1 DEF Min
    <2>3. Loads(p, d) = Decoded(p, file[d][Order(p)[Min(found)]])
        BY <1>4 DEF Loads
    <2> HIDE DEF found
    <2>4. PICK i \in found : Loads(p, d) = Decoded(p, file[d][Order(p)[i]])
        BY <2>2, <2>3
    <2> QED BY <1>1, <1>2, <2>4 DEF found
<1> QED BY <1>3, <1>4

\* What stands for something is a token, the record or a truncated rest.
LEMMA DecodedFacts ==
    ASSUME Types, NEW p \in Procs, NEW d \in Dirs, NEW f \in Files,
           Decoded(p, file[d][f]) # 0
    PROVE  \/ /\ file[d][f] \in Tokens /\ Decoded(p, file[d][f]) = file[d][f]
           \/ /\ file[d][f] \in {Torn, Ref} /\ Decoded(p, file[d][f]) = chain
              /\ platform = "macos"
BY Values DEF Decoded, SelfContained, Record

LEMMA SurvivesInv == ASSUME IInv PROVE TokenSurvives
<1> SUFFICES ASSUME NEW p \in Procs, proc[p].dir # "none", Entitled(p),
                    saved[proc[p].dir] # 0, harm[proc[p].dir] = {},
                    \A q \in Procs : ~(proc[q].dir = proc[p].dir /\ proc[q].bare),
                    ~StaleRecord(proc[p].dir, saved[proc[p].dir] - 1)
             PROVE  Loads(p, proc[p].dir) >= saved[proc[p].dir]
    BY DEF TokenSurvives
<1> DEFINE d == proc[p].dir
<1>1. Types /\ d \in Dirs /\ DirFits(d)
    BY LocalFacts DEF IInv, Types, TypesFit, Data
<1> HIDE DEF d
<1>2. /\ saved[d] \in Nat /\ wiped[d] \in Nat /\ chain \in Nat
      /\ MachineOK /\ \A f \in Files : file[d][f] \in Stored
    BY <1>1, Values DEF Types, TypesFit, PastOK, SrvOK, FileOK, Issued, Maybe
<1>3. \A f \in Files : Fits(file[d][f], d)
    BY <1>1 DEF DirFits, FilesFit, d
<1>4. PICK g \in Files : Good(d, g)
    BY <1>1 DEF DirFits, GoodLeft, d
<1>5. Decoded(p, file[d][g]) # 0
    <2>1. CASE file[d][g] \in Tokens
        BY <2>1, Values DEF Decoded, SelfContained
    <2>2. CASE file[d][g] = Ref
        <3>1. platform = "macos"
            BY <1>1, <2>2 DEF Types, Strays, NoRefs
        <3>2. Record(p) = chain
            BY <3>1 DEF Record, Entitled
        <3>3. chain # 0
            BY <1>2, <1>3, <2>2 DEF Fits
        <3>4. Ref \notin Tokens
            BY Values
        <3> QED BY <2>2, <3>2, <3>3, <3>4 DEF Decoded, SelfContained
    <2> QED BY <1>4, <2>1, <2>2 DEF Good
<1>6. \E i \in 1..Len(Order(p)) : Order(p)[i] = g
    <2>1. CASE platform = "windows"
        <3>1. g # "enc"
            BY <1>1, <1>4, <2>1, Values DEF Types, Strays, OneFile, Good
        <3> QED BY <1>2, <2>1, <3>1, OrderFacts DEF Files
    <2>2. CASE platform # "windows"
        BY <1>2, <2>2, OrderFacts
    <2> QED BY <2>1, <2>2
<1>7. PICK f \in Files : Decoded(p, file[d][f]) # 0 /\ Loads(p, d) = Decoded(p, file[d][f])
    BY <1>1, <1>5, <1>6, LoadsFacts
<1>8. CASE file[d][f] \in Tokens /\ Decoded(p, file[d][f]) = file[d][f]
    BY <1>3, <1>7, <1>8 DEF Fits, d
<1>9. CASE /\ file[d][f] \in {Torn, Ref} /\ Decoded(p, file[d][f]) = chain
           /\ platform = "macos"
    <2>1. CASE file[d][f] = Ref
        BY <1>3, <1>7, <1>9, <2>1 DEF Fits, d
    <2>2. CASE file[d][f] = Torn
        <3>1. chain \notin 0..(saved[d] - 1)
            BY <1>9, <2>2 DEF StaleRecord, d
        <3> QED BY <1>2, <1>7, <1>9, <3>1 DEF d
    <2> QED BY <1>9, <2>1, <2>2
<1> QED BY <1>1, <1>7, <1>8, <1>9, DecodedFacts

\* Once a token was saved whole in a directory, every process there that can
\* reach the keychain loads it or a newer one, but for the hazards the property
\* names: _save_jwt and save_jwt truncate one file while the other is good.
THEOREM SavedTokensSurvive == Spec => []TokenSurvives
BY InitInv, NextInv, SurvivesInv, PTL DEF Spec

LEMMA ForgetsInv == ASSUME IInv PROVE UnlinkForgets
<1> SUFFICES ASSUME NEW p \in Procs, proc[p].dir # "none",
                    "older" \notin harm[proc[p].dir], "kept" \notin harm[proc[p].dir],
                    ~StaleRecord(proc[p].dir, wiped[proc[p].dir])
             PROVE  Loads(p, proc[p].dir) \notin 1..wiped[proc[p].dir]
    BY DEF UnlinkForgets
<1> DEFINE d == proc[p].dir
<1>1. Types /\ d \in Dirs /\ DirFits(d)
    BY LocalFacts DEF IInv, Types, TypesFit, Data
<1> HIDE DEF d
<1>2. wiped[d] \in Nat /\ chain \in Nat
    BY <1>1, Values DEF Types, TypesFit, PastOK, SrvOK, Issued, Maybe
<1>3. \A f \in Files : Fits(file[d][f], d)
    BY <1>1 DEF DirFits, FilesFit, d
<1>4. CASE Loads(p, d) = 0
    BY <1>2, <1>4 DEF d
<1>5. ASSUME NEW f \in Files, Decoded(p, file[d][f]) # 0, Loads(p, d) = Decoded(p, file[d][f])
      PROVE  Loads(p, d) \notin 1..wiped[d]
    <2>1. CASE file[d][f] \in Tokens /\ Decoded(p, file[d][f]) = file[d][f]
        BY <1>2, <1>3, <1>5, <2>1, Values DEF Fits
    <2>2. CASE file[d][f] = Ref /\ Decoded(p, file[d][f]) = chain
        BY <1>2, <1>3, <1>5, <2>2 DEF Fits
    <2>3. CASE /\ file[d][f] = Torn /\ Decoded(p, file[d][f]) = chain
               /\ platform = "macos"
        <3>1. chain \notin 0..wiped[d]
            BY <2>3 DEF StaleRecord, d
        <3> QED BY <1>2, <1>5, <2>3, <3>1
    <2> QED BY <1>1, <1>5, <2>1, <2>2, <2>3, DecodedFacts
<1> QED BY <1>1, <1>4, <1>5, LoadsFacts DEF d

\* After an unlink has wiped a directory no token issued before is loaded there
\* again, though the keychain record stays, but for the exceptions the property
\* names: clear_local_state and clear_device_state remove every file that was
\* written to.
THEOREM UnlinksForget == Spec => []UnlinkForgets
BY InitInv, NextInv, ForgetsInv, PTL DEF Spec

=============================================================================
