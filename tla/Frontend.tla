------------------------------ MODULE Frontend ------------------------------
(***************************************************************************)
(* From the memory to the issue stage: biriscv_fetch.v in front of the     *)
(* instruction cache, the queue of biriscv_decode.v and the issue stage's  *)
(* check of each word's pc.  One step is one clock.                        *)
(*                                                                         *)
(* Free: what the predictor (biriscv_npc.v) says, when the issue stage     *)
(* takes what it may, which way a branch goes, whether an instruction      *)
(* traps, how long a trap or a fence.i takes to reach the CSR unit, and    *)
(* the memory.  A pc counts instructions: pc 2p and 2p + 1 are pair p.     *)
(* The MMU is switched off or not built: it passes every request on.       *)
(***************************************************************************)
EXTENDS ICache, FiniteSets

CONSTANTS
    Texts,    \* records of sets of pcs: flow (successors of each pc),
                 \* targets (what the predictor may name), fences, traps,
                 \* stores (to CodeLine) and faults (where a beat may fail)
    TrapPC,
    Depth,       \* of fetch_fifo (2; its pointers wrap at it)
    CodeLine,    \* a line that programs write
    CodeVersions \* how often they do

FetchPCs == 0..(2 * (NumTags * NumSets * LineWords) - 1)
ASSUME TextsAssumption ==
    /\ TrapPC \in FetchPCs
    /\ \A p \in Texts : /\ p.flow \in [FetchPCs -> SUBSET FetchPCs \ {{}}]
                           /\ p.targets \cup p.fences \cup p.traps \cup p.stores \cup p.faults \subseteq FetchPCs
ASSUME DepthAssumption == Depth \in Nat \ {0} /\ CodeVersions \in Nat

VARIABLES
    text,    \* the program in memory
    fe,      \* the registers of biriscv_fetch
    fifo,    \* the registers of fetch_fifo; entry[slot].halves: valid0_q, valid1_q
    issue,   \* pc_x_q, and the instruction on its way to the CSR unit
    rbus,    \* the read burst the memory answers: [line, sent]
    code,    \* the version of CodeLine in memory
    owed     \* versions a fence.i, a flush made visible: [pulse, now]

cacheVars == <<ic, tagRam, dataRam>>
frontVars == <<text, cacheVars, fe, fifo, issue, rbus, code, owed>>

Slots == 0..(Depth - 1)
Unused == [pair |-> 0, halves |-> {}, inst |-> <<Garbage, Garbage>>, fault |-> FALSE]

NoBranch == [on |-> FALSE, pc |-> 0]
FrontInit ==
    /\ text \in Texts /\ ICacheInit
    /\ \E mmu \in BOOLEAN :     \* SUPPORT_MMU
          fe = [mmu |-> mmu, active |-> FALSE, branch |-> NoBranch, stall |-> FALSE,
                fetching |-> FALSE, pcF |-> 0, pair |-> 0, low |-> FALSE,
                branchD |-> FALSE, skid |-> <<>>]
    /\ fifo = [count |-> 0, rd |-> 0, wr |-> 0, entry |-> [slot \in Slots |-> Unused]]
    /\ rbus = <<>> /\ code = 0
    /\ issue = [pc |-> 0, csr |-> "branch", to |-> 0, fence |-> FALSE]
    /\ owed = [k \in {"fence", "flush"} |-> [pulse |-> 0, now |-> 0]]

-----------------------------------------------------------------------------
(* The issue stage: which half of the head is the expected one, and the    *)
(* request for another when neither is.                                    *)
FifoHead == fifo.entry[fifo.rd]
Offered == IF fifo.count = 0 THEN {} ELSE FifoHead.halves
Matches(half) == half \in Offered /\ 2 * FifoHead.pair + half = issue.pc
Selects ==
    IF issue.csr \in {"squash", "branch"} THEN "none"
    ELSE IF Matches(0) THEN "slot0"
    ELSE IF Matches(1) THEN "slot1"
    ELSE IF Offered # {} THEN "mispredict" ELSE "none"
MayIssue == Selects \in {"slot0", "slot1"}
            /\ (issue.csr = "idle" \/ (issue.csr = "wait" /\ ~issue.fence))

BranchRequest == issue.csr = "branch" \/ Selects = "mispredict"
BranchPC == IF issue.csr = "branch" THEN issue.to ELSE issue.pc

-----------------------------------------------------------------------------
(* biriscv_fetch.v, its wires.                                             *)
FetchAccept == fifo.count # Depth
Busy == fe.fetching /\ ~ReqValid
Stall == ~FetchAccept \/ Busy \/ ~ReqAccept
Branch == fe.branch.on \/ (~fe.mmu /\ BranchRequest)
BranchTo == IF fe.mmu \/ (fe.branch.on /\ ~BranchRequest) THEN fe.branch.pc ELSE BranchPC
Drop == Branch \/ (fe.mmu /\ fe.branchD)
FetchPC == IF ~fe.mmu /\ Branch /\ ~fe.stall THEN BranchTo ELSE fe.pcF
Requests == fe.active /\ FetchAccept /\ ~Busy

FetchValid == (ReqValid \/ fe.skid # <<>>) /\ ~Drop
Fetched == IF fe.skid # <<>> THEN fe.skid[1]
           ELSE [pair |-> fe.pair, low |-> fe.low, inst |-> Inst, fault |-> ic.err]

(* fence.i reaches the cache in the clock its pulse lasts.  The register   *)
(* that would hold it while the cache is busy follows another signal,      *)
(* which is 0.                                                             *)
Flush == issue.csr = "pulse"

BranchAfter ==
    IF fe.mmu THEN IF BranchRequest THEN [on |-> TRUE, pc |-> BranchPC]
                   ELSE IF Requests /\ ReqAccept THEN NoBranch ELSE fe.branch
    ELSE IF BranchRequest /\ (Busy \/ ~fe.active) THEN [on |-> TRUE, pc |-> BranchTo]
    ELSE IF Busy THEN fe.branch ELSE NoBranch

PCAfterBranch(next) ==
    IF Branch /\ (IF fe.mmu THEN ~Stall ELSE Stall \/ ~fe.active \/ fe.stall) THEN BranchTo
    ELSE IF Stall THEN fe.pcF ELSE next

(* The predictor names the next pc and says whether the lower half jumps.  *)
FetchTick(next, low) ==
    LET taken == Requests /\ ReqAccept
    IN  fe' = [fe EXCEPT
            !.active = @ \/ (Branch /\ (fe.mmu => ~Stall)),
            !.branch = BranchAfter,
            !.stall = Stall,
            !.fetching = taken \/ (@ /\ ~ReqValid),
            !.pcF = PCAfterBranch(next),
            !.branchD = fe.mmu /\ (IF Stall THEN @ ELSE Branch),
            !.pair = IF taken THEN FetchPC \div 2 ELSE @,
            !.low = IF taken THEN low ELSE @ /\ ~ReqValid,
            !.skid = IF FetchValid /\ ~FetchAccept THEN <<Fetched>> ELSE <<>>]

(* A pair, or a target, with the half that jumps there.                    *)
Predictions ==
    {[next |-> (2 * (FetchPC \div 2) + 2) % Cardinality(FetchPCs), low |-> FALSE]}
    \cup [next : text.targets, low : {FALSE, FetchPC % 2 = 0}]

-----------------------------------------------------------------------------
(* fetch_fifo.  After a predicted jump the upper half is not valid; a      *)
(* fault has no instruction.                                               *)
Pushes == FetchValid /\ FetchAccept
Pushed == [pair |-> Fetched.pair, halves |-> IF Fetched.low THEN {0} ELSE {0, 1},
           inst |-> IF Fetched.fault THEN <<Garbage, Garbage>> ELSE Fetched.inst,
           fault |-> Fetched.fault]

(* The halves of the head may go apart: it goes with the last of them.     *)
PopCompleteBoth(halves) == Offered \cap halves = {0, 1}
PopComplete(halves) == Offered # {} /\ Offered \subseteq halves

(* A flush leaves the pairs, words and valid bits where they are.          *)
Following(slot) == IF slot = Depth - 1 THEN 0 ELSE slot + 1
FifoFlushed ==
    [count |-> 0, rd |-> 0, wr |-> 0,
     entry |-> [slot \in Slots |-> [fifo.entry[slot] EXCEPT !.fault = FALSE]]]
FifoMoved(halves) ==
    LET complete == PopComplete(halves)
        written(slot) == IF Pushes /\ slot = fifo.wr THEN Pushed ELSE fifo.entry[slot]
    IN  [count |-> IF Pushes /\ ~complete THEN fifo.count + 1
                   ELSE IF ~Pushes /\ complete THEN fifo.count - 1 ELSE fifo.count,
         rd |-> IF complete THEN Following(fifo.rd) ELSE fifo.rd,
         wr |-> IF Pushes THEN Following(fifo.wr) ELSE fifo.wr,
         entry |-> [slot \in Slots |->
                      IF slot # fifo.rd THEN written(slot)
                      ELSE [written(slot) EXCEPT !.halves = @ \ (Offered \cap halves)]]]
FifoTick(halves) == fifo' = IF BranchRequest THEN FifoFlushed ELSE FifoMoved(halves)

(* What may issue: nothing, the expected half, or both.  The lower half    *)
(* goes with the upper one as soon as that is selected.                    *)
Nothing == IF Selects = "slot1" THEN {0} ELSE {}
Issues(halves) == MayIssue /\ halves # Nothing
IssueChoices ==
    {Nothing} \cup
    (IF ~MayIssue THEN {} ELSE IF Selects = "slot1" THEN {{0, 1}}
     ELSE {{0}} \cup (IF 1 \in Offered /\ issue.pc + 1 \in text.flow[issue.pc]
                         /\ {issue.pc, issue.pc + 1} \cap text.fences = {}
                      THEN {{0, 1}} ELSE {}))

(* The last of what issues; its successor is expected.                     *)
LastIssued(halves) == IF Selects = "slot0" /\ 1 \in halves THEN issue.pc + 1 ELSE issue.pc

(* On the way to the CSR unit: a fence.i and a trap end in a branch of the *)
(* CSR unit, after a squash.  A fence.i stops the issue until then.        *)
IssueTick(halves) ==
    IF Issues(halves)
    THEN \E pc \in text.flow[LastIssued(halves)], csr \in {"idle", "wait"} :
            IF LastIssued(halves) \in text.fences /\ issue.csr = "idle"
            THEN csr = "idle" /\ issue' = [pc |-> pc, csr |-> "pulse", to |-> pc, fence |-> TRUE]
            ELSE IF issue.csr = "wait" THEN csr = "wait" /\ issue' = [issue EXCEPT !.pc = pc]
            ELSE /\ csr = "wait" => LastIssued(halves) \in text.traps
                 /\ issue' = [pc |-> pc, csr |-> csr, to |-> TrapPC, fence |-> FALSE]
    ELSE IF issue.csr = "branch"
    THEN issue' = [pc |-> issue.to, csr |-> "idle", to |-> TrapPC, fence |-> FALSE]
    ELSE \/ issue.csr \in {"idle", "wait"} /\ issue' = issue
         \/ issue.csr \in {"pulse", "wait"} /\ issue' = [issue EXCEPT !.csr = "wait"]
         \/ issue.csr = "wait" /\ issue' = [issue EXCEPT !.csr = "squash"]
         \/ issue.csr = "squash" /\ issue' = [issue EXCEPT !.csr = "branch"]

-----------------------------------------------------------------------------
(* The memory: it takes one burst at a time and sends its beats in order,  *)
(* each with what the word holds when it is sent.  A beat that fails       *)
(* carries the word as well, so that it is told from those of other lines. *)
Version(line) == IF line = CodeLine THEN code ELSE 0
WordAt(pc) == [pc |-> pc, version |-> Version(LineOf(pc \div 2))]
Beats ==
    {<<>>} \cup
    IF rbus = <<>> THEN {}
    ELSE LET pc == rbus[1].line * LineBeats + rbus[1].sent
         IN  {<<[word |-> WordAt(pc), last |-> rbus[1].sent = LineBeats - 1, err |-> err]>> :
                 err \in {FALSE, (pc \in text.faults)}}
BusTick(arReady, beat) ==
    rbus' = IF LineArValid /\ arReady THEN <<[line |-> LineOf(ic.addr), sent |-> 0]>>
            ELSE IF beat = <<>> THEN rbus
            ELSE IF beat[1].last THEN <<>> ELSE <<[rbus[1] EXCEPT !.sent = @ + 1]>>

(* What was written before the pulse of a fence.i is owed to the program   *)
(* as soon as the fence.i has completed: of every fence.i, and of those    *)
(* whose pulse finds a cache that looks at it.                             *)
OwedTick ==
    owed' = [k \in {"fence", "flush"} |->
               [pulse |-> IF Flush /\ (k = "flush" => ReqAccept) THEN code ELSE owed[k].pulse,
                now |-> IF issue.csr = "branch" THEN owed[k].pulse ELSE owed[k].now]]

FrontClock(halves, guess, arReady, beat) ==
    /\ text' = text
    /\ ICacheTick(Requests, FetchPC \div 2, Flush, arReady, beat)
    /\ FetchTick(guess.next, guess.low)
    /\ FifoTick(halves)
    /\ IssueTick(halves)
    /\ BusTick(arReady, beat)
    /\ OwedTick
    /\ code' \in {code} \cup (IF Issues(halves) /\ issue.pc \in text.stores /\ code < CodeVersions
                            THEN {code + 1} ELSE {})

FrontNext ==
    \E halves \in IssueChoices, guess \in Predictions, arReady \in {FALSE, rbus = <<>>},
       beat \in Beats : FrontClock(halves, guess, arReady, beat)

FrontSpec == FrontInit /\ [][FrontNext]_frontVars

(* The memory answers, what may issue is not held back for ever, and a     *)
(* trap or a fence.i reaches the CSR unit.                                 *)
Served == \E halves \in IssueChoices, guess \in Predictions, arReady \in {rbus = <<>>}, beat \in Beats :
    /\ rbus # <<>> => beat # <<>>
    /\ MayIssue => Issues(halves)
    /\ FrontClock(halves, guess, arReady, beat)
    /\ issue.csr \in {"wait", "squash"} => issue' # issue
FrontFair == WF_frontVars(Served)

-----------------------------------------------------------------------------
(* What may issue is the word of the expected pc, and a fault is shown     *)
(* only for a line that had one: whatever the skid buffer, the drop of     *)
(* late answers, the two-step addressing of the RAMs and the flush walk    *)
(* mix up on the way, the issue stage never takes it.                      *)
IssuesItsWord ==
    MayIssue =>
        IF FifoHead.fault THEN \E pc \in text.faults : LineOf(pc \div 2) = LineOf(FifoHead.pair)
        ELSE \A half \in {h \in FifoHead.halves : 2 * FifoHead.pair + h >= issue.pc} :
                FifoHead.inst[half + 1].pc = 2 * FifoHead.pair + half

(* After a flush nothing older than it is issued: not from a fetch that    *)
(* was accepted in its clock and waited through the walk, nor from one     *)
(* that was on its way.                                                    *)
Sees(k) ==
    MayIssue /\ ~FifoHead.fault => \A half \in FifoHead.halves :
        LineOf(FifoHead.pair) = CodeLine => FifoHead.inst[half + 1].version >= owed[k].now
FlushSeen == Sees("flush")

(* docs/custom.md says that fence.i flushes the instruction cache: the     *)
(* same after every fence.i.                                               *)
FenceSeen == Sees("fence")
=============================================================================
