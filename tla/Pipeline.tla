------------------------------ MODULE Pipeline ------------------------------
(***************************************************************************)
(* biriscv_issue.v with its two biriscv_pipe_ctrl.v: the issue stage, the  *)
(* scoreboard and the operand bypasses, the pipes E1, E2 and WB, the stall *)
(* and the squash, and what the CSR unit (biriscv_csr.v) and the divider   *)
(* (biriscv_divider.v) contribute to them.  One step is one clock.         *)
(*                                                                         *)
(* Outside, and free to answer at any time: the frontend (any pair of      *)
(* words may be offered, right or wrong), the load/store unit, the length  *)
(* of a division, the interrupt line, the value a CSR write leaves in      *)
(* mstatus.MIE and mip.  ra stands for both source registers: rb has the   *)
(* same logic.  An instruction computes Succ of its source; a unit's       *)
(* output nobody should read is Junk.                                      *)
(***************************************************************************)
EXTENDS Naturals, Sequences

CONSTANTS PCs, Regs, Data, Junk, Programs,
          TrapVec, ResetPC,
          LoadBypass, MulBypass,   \* SUPPORT_LOAD_BYPASS, SUPPORT_MUL_BYPASS
          ExtraDecode,             \* EXTRA_DECODE_STAGE
          Interrupts, MemFaults    \* whether those events happen at all

ASSUME PCsAssumption == /\ PCs # {} /\ PCs \subseteq Nat
                        /\ \A p \in PCs : 0..p \subseteq PCs
                        /\ \A p \in PCs : 2 * p \in PCs => 2 * p + 1 \in PCs   \* pairs
ASSUME VectorAssumption == TrapVec \in PCs /\ ResetPC \in PCs
ASSUME DataAssumption == /\ Data \subseteq Nat /\ 0 \in Data /\ Junk \notin Data
                         /\ 0 \in Regs /\ Regs \subseteq Nat
ASSUME SwitchAssumption == /\ LoadBypass \in BOOLEAN /\ MulBypass \in BOOLEAN /\ ExtraDecode \in BOOLEAN
                           /\ Interrupts \in BOOLEAN /\ MemFaults \in BOOLEAN

VARIABLES
    prog,      \* the program
    head,      \* [pair, words, clean]: the two words the frontend offers, those still
               \* valid, and whether the buffer has been empty since its last flush
    pcX,       \* pc_x_q, the pc expected next
    e1, e2, wb,\* the stages of the two pipes, <<pipe0, pipe1>>
    sq,        \* squash_e1_e2_q of the two pipes
    divPend, csrPend,
    csrOut,    \* the CSR unit's E1 registers [val, exc]
    div,       \* the divider [busy, res, valid, out]
    regs,
    take,      \* take_interrupt_q
    mie, irq,  \* mstatus.MIE and a pending, unmasked interrupt
    redirect,  \* branch_q and branch_target_q of the CSR unit [on, pc]
    epc

vars == <<prog, head, pcX, e1, e2, wb, sq, divPend, csrPend, csrOut, div,
          regs, take, mie, irq, redirect, epc>>

Pipes == 1..2
Memory == {"load", "store"}
CsrClass == {"csr", "satp", "fence", "eret", "trap", "fault"}
Jumps == {"branch", "badjump"}
WritesRd == {"alu", "branch", "badjump", "load", "mul", "div", "csr", "satp"}
Kinds == {"alu", "mul", "div"} \cup Memory \cup CsrClass \cup Jumps
Instrs == [kind : Kinds, rd : Regs, ra : Regs, to : PCs]
ASSUME ProgramsAssumption == Programs \subseteq [PCs -> Instrs]

PCAfter(pc) == IF pc + 1 \in PCs THEN pc + 1 ELSE 0
Succ(d) == IF d \in Data THEN (IF d + 1 \in Data THEN d + 1 ELSE 0) ELSE d

(* A stage: val is what the pipe carries, res what the unit will answer,   *)
(* rd is 0 unless the register is to be written; exc is "none",            *)
(* "misaligned", "fault", "trap", "eret", "fence", "intr" or "memfault".    *)
Bubble == [kind |-> "none", rd |-> 0, pc |-> 0, val |-> Junk, res |-> Junk, exc |-> "none"]
NoCsr == [val |-> Junk, exc |-> "none"]
Empty(clean) == [pair |-> 0, words |-> {}, clean |-> clean]
Heads == [pair : {p \in PCs : 2 * p \in PCs}, words : {{0}, {0, 1}}, clean : {FALSE}]
WordPC(w) == 2 * head.pair + w

Init ==
    /\ prog \in Programs
    /\ head = Empty(TRUE) /\ pcX = 0
    /\ e1 = <<Bubble, Bubble>> /\ e2 = <<Bubble, Bubble>> /\ wb = <<Bubble, Bubble>>
    /\ sq = <<FALSE, FALSE>> /\ divPend = FALSE /\ csrPend = FALSE
    /\ csrOut = NoCsr
    /\ div = [busy |-> FALSE, res |-> Junk, valid |-> FALSE, out |-> Junk]
    /\ regs = [r \in Regs |-> 0]
    /\ take = FALSE /\ mie \in {FALSE, Interrupts} /\ irq = FALSE
    /\ redirect = [on |-> TRUE, pc |-> ResetPC] /\ epc = 0

-----------------------------------------------------------------------------
(* The pipes: stall and squash, from what the units answer in this cycle.  *)
Waits(done) == \/ e1[1].kind = "div" /\ ~div.valid
               \/ (\E p \in Pipes : e2[p].kind \in Memory) /\ ~done

(* The exception an instruction leaves E2 with: memory reports here.       *)
E2Exc(p, done, err) ==
    IF e2[p].kind \in Memory /\ done THEN (IF err THEN "memfault" ELSE "none") ELSE e2[p].exc

Squash(p, done, err) == E2Exc(p, done, err) # "none" \/ sq[p]
SquashAnyLate(done, err) == \E p \in Pipes : sq[p]
SquashAny(done, err) == (\E p \in Pipes : Squash(p, done, err))

-----------------------------------------------------------------------------
(* Operands: the newest version of a register, E1 before E2 before WB and  *)
(* pipe 1 before pipe 0.  A load or a multiply shows its answer in E2 when *)
(* that bypass is built in.                                                *)
E2Result(s) == IF (LoadBypass /\ s.kind \in Memory) \/ (MulBypass /\ s.kind = "mul")
               THEN s.res ELSE s.val
InFlight == <<[rd |-> e1[2].rd, val |-> e1[2].val], [rd |-> e1[1].rd, val |-> e1[1].val],
              [rd |-> e2[2].rd, val |-> E2Result(e2[2])], [rd |-> e2[1].rd, val |-> E2Result(e2[1])],
              [rd |-> wb[2].rd, val |-> wb[2].val], [rd |-> wb[1].rd, val |-> wb[1].val]>>
Newest(stages, r) ==
    IF \E k \in DOMAIN stages : stages[k].rd = r
    THEN stages[CHOOSE k \in DOMAIN stages :
                  stages[k].rd = r /\ \A j \in 1..(k - 1) : stages[j].rd # r].val
    ELSE regs[r]
OperandOldestFirst(r) ==
    IF r = 0 THEN 0 ELSE Newest([k \in 1..6 |-> InFlight[7 - k]], r)
Operand(r) == IF r = 0 THEN 0 ELSE Newest(InFlight, r)

(* The scoreboard: registers whose value is still on its way.  A load to   *)
(* x0 marks register 0 and so holds back its readers and writers.          *)
InE1(kinds) == {e1[p].rd : p \in {q \in Pipes : e1[q].kind \in kinds}}
InE2(kinds) == {e2[p].rd : p \in {q \in Pipes : e2[q].kind \in kinds}}
MemoryInE1 == (\E p \in Pipes : e1[p].kind \in Memory)
ScoreboardOfE1Only(i) ==
    IF MemoryInE1 /\ i.kind \in {"mul", "div"} \cup CsrClass THEN Regs ELSE InE1({"load", "mul"})
ScoreboardLetsCsrFollow(i) ==
    InE1({"load", "mul"}) \cup (IF LoadBypass THEN {} ELSE InE2({"load"}))
                          \cup (IF MulBypass THEN {} ELSE InE2({"mul"}))
Scoreboard(i) ==
    IF MemoryInE1 /\ i.kind \in {"mul", "div"} \cup CsrClass THEN Regs
    ELSE InE1({"load", "mul"}) \cup (IF LoadBypass THEN {} ELSE InE2({"load"}))
                               \cup (IF MulBypass THEN {} ELSE InE2({"mul"}))

-----------------------------------------------------------------------------
(* Issue select: which word is the expected one.                           *)
Offers(w) == w \in head.words /\ WordPC(w) = pcX
Select(flush) == IF flush THEN "none"
                 ELSE IF Offers(0) THEN "slot0"
                 ELSE IF Offers(1) THEN "slot1"
                 ELSE IF head.words # {} THEN "mispredict" ELSE "none"

Free(i, busy) == i.ra \notin busy /\ i.rd \notin busy

(* The pairs that may issue together.                                      *)
MayPair(a, b) ==
    \/ a.kind \in {"alu", "mul"} \cup Memory /\ b.kind \in {"alu"} \cup Jumps
    \/ a.kind \in {"alu", "mul"} /\ b.kind \in Memory
    \/ a.kind \in {"alu"} \cup Memory /\ b.kind = "mul"

(* rd is claimed by the first of the pair before the second is looked at.  *)
Claims(i) == IF i.kind \in WritesRd /\ i.rd # 0 THEN {i.rd} ELSE {}
IssuesPair(a, b) == MayPair(a, b) /\ ~take /\ Free(b, Scoreboard(a) \cup Claims(a))

BlockedButCsr(lsuStall, done) == lsuStall \/ Waits(done) \/ divPend
Blocked(lsuStall, done) == lsuStall \/ Waits(done) \/ divPend \/ csrPend

Taken(i) == i.kind \in Jumps /\ Operand(i.ra) = 0

(* What an instruction brings into E1; with take_interrupt the slot        *)
(* carries the interrupt in its place.                                     *)
Issued(i, pc) ==
    [kind |-> IF take THEN "intr" ELSE i.kind,
     rd |-> IF i.kind \in WritesRd /\ ~take THEN i.rd ELSE 0,
     pc |-> pc,
     val |-> IF i.kind \in {"alu"} \cup Jumps THEN Succ(Operand(i.ra)) ELSE Junk,
     res |-> Succ(Operand(i.ra)),
     exc |-> IF i.kind = "fault" THEN "fault"
             ELSE IF i.kind = "badjump" /\ Taken(i) THEN "misaligned" ELSE "none"]

(* The CSR unit decodes what issues, for one cycle only: it has no hold.   *)
CsrResult(i) ==
    IF i.kind \notin CsrClass THEN NoCsr
    ELSE [val |-> Succ(Operand(i.ra)),
          exc |-> IF i.kind \in {"fence", "satp"} THEN "fence"
                  ELSE IF i.kind = "eret" THEN "eret"
                  ELSE IF i.kind \in {"trap", "fault"} THEN "trap" ELSE "none"]

-----------------------------------------------------------------------------
(* pc_x_q after an issue: the exec unit's branch wins, and is not held     *)
(* back by an interrupt.                                                   *)
IssuePC(issued) ==
    LET jumps == {k \in DOMAIN issued : Taken(issued[k])}
    IN  IF 2 \in jumps THEN issued[2].to
        ELSE IF 1 \in jumps THEN issued[1].to
        ELSE IF take THEN pcX
        ELSE IF Len(issued) = 2 THEN PCAfter(PCAfter(pcX)) ELSE PCAfter(pcX)

(* The frontend's side of a cycle: a branch request empties it, accepted   *)
(* words go, and an empty head is refilled whenever it likes, with         *)
(* anything.                                                               *)
FrontKeeps(words) ==
    IF words = {} THEN head' \in Heads \cup {Empty(head.words = {} /\ head.clean)}
    ELSE head' = [head EXCEPT !.words = words]
Flushed == head' = Empty(TRUE)

Start(i) == i.kind = "div"
(* The divider: a start wins over a completion, but the completion still   *)
(* raises valid.                                                           *)
Divide(start, res, fin) ==
    div' = [busy |-> start \/ (div.busy /\ ~fin),
            res |-> IF start THEN res ELSE div.res,
            valid |-> div.busy /\ fin,
            out |-> IF div.busy /\ fin THEN div.res ELSE Junk]
DivPendAfter(start, squash) == IF squash THEN FALSE ELSE IF start THEN TRUE
                               ELSE IF div.valid THEN FALSE ELSE divPend
CsrPendAfterKeeps(start, squash, stall) ==
    IF start THEN TRUE ELSE IF wb[1].kind \in CsrClass /\ ~stall THEN FALSE ELSE csrPend
CsrPendAfter(start, squash, stall) ==
    IF squash THEN FALSE ELSE IF start THEN TRUE
    ELSE IF wb[1].kind \in CsrClass /\ ~stall THEN FALSE ELSE csrPend

(* Nothing issues: bubbles, or a stall that holds E1.                      *)
IssueNothing(sel, squash, stall, fin) ==
    /\ e1' = IF stall THEN e1 ELSE <<Bubble, Bubble>>
    /\ pcX' = IF redirect.on THEN redirect.pc ELSE pcX
    /\ IF redirect.on \/ sel = "mispredict" THEN Flushed
       ELSE FrontKeeps(IF sel = "slot1" /\ ~take THEN head.words \ {0} ELSE head.words)
    /\ csrOut' = NoCsr
    /\ Divide(FALSE, Junk, fin)
    /\ divPend' = DivPendAfter(FALSE, squash)
    /\ csrPend' = CsrPendAfter(FALSE, squash, stall)

(* One or two words issue, or an interrupt takes the place of one.         *)
Issue(words, fin) ==
    LET issued == [k \in DOMAIN words |-> prog[WordPC(words[k])]]
        a == issued[1]
    IN  /\ e1' = <<Issued(a, WordPC(words[1])),
                   IF Len(words) = 2 THEN Issued(issued[2], WordPC(words[2])) ELSE Bubble>>
        /\ pcX' = IssuePC(issued)
        /\ FrontKeeps(IF take THEN head.words
                      ELSE head.words \ (0..words[Len(words)]))
        /\ csrOut' = IF take THEN NoCsr ELSE CsrResult(a)
        /\ Divide(Start(a), Succ(Operand(a.ra)), fin)
        /\ divPend' = DivPendAfter(Start(a), FALSE)
        /\ csrPend' = CsrPendAfter(a.kind \in CsrClass /\ ~take, FALSE, FALSE)

Front(lsuStall, done, err, fin) ==
    LET squash == SquashAny(done, err)
        sel == Select(redirect.on \/ squash)
        first == IF sel = "slot0" THEN 0 ELSE 1
        a == prog[WordPC(first)]
        second == sel = "slot0" /\ 1 \in head.words
    IN  IF \/ sel \notin {"slot0", "slot1"} \/ Blocked(lsuStall, done)
           \/ ~Free(a, Scoreboard(a))
        THEN IssueNothing(sel, squash, Waits(done), fin)
        ELSE IF second /\ IssuesPair(a, prog[WordPC(1)]) THEN Issue(<<0, 1>>, fin)
        ELSE Issue(<<first>>, fin)

-----------------------------------------------------------------------------
(* E1 to E2: an interrupt, then a fault the frontend reported, then the    *)
(* CSR unit's exception, which reaches both pipes.  A fetch fault or a     *)
(* misaligned jump is no longer valid and writes nothing.                  *)
Executed(s) ==
    [s EXCEPT !.exc = IF s.kind = "intr" THEN "intr"
                      ELSE IF s.exc # "none" THEN s.exc ELSE csrOut.exc,
              !.rd = IF s.exc # "none" THEN 0 ELSE s.rd,
              !.val = IF s.kind = "div" THEN div.out
                      ELSE IF s.kind \in CsrClass THEN csrOut.val ELSE s.val]

(* E2 to WB: memory and multiply answer, an exception drops the write.     *)
CommittedWrites(s, exc) ==
    [s EXCEPT !.exc = exc, !.val = IF s.kind \in Memory \cup {"mul"} THEN s.res ELSE s.val]
Committed(s, exc) ==
    [s EXCEPT !.exc = exc, !.rd = IF exc # "none" THEN 0 ELSE s.rd,
              !.val = IF s.kind \in Memory \cup {"mul"} THEN s.res ELSE s.val]

(* The register file takes both pipes' writes, pipe 1 last.                *)
Written == [r \in Regs |-> IF r = 0 THEN 0
                           ELSE IF wb[2].rd = r THEN wb[2].val
                           ELSE IF wb[1].rd = r THEN wb[1].val ELSE regs[r]]

Advance(done, err) ==
    /\ e2' = IF SquashAny(done, err) THEN <<Bubble, Bubble>> ELSE <<Executed(e1[1]), Executed(e1[2])>>
    /\ wb' = <<Committed(e2[1], E2Exc(1, done, err)),
               IF Squash(1, done, err) THEN Bubble ELSE Committed(e2[2], E2Exc(2, done, err))>>
    /\ sq' = [p \in Pipes |-> E2Exc(p, done, err) # "none"]
    /\ regs' = Written

-----------------------------------------------------------------------------
(* The CSR unit at WB, stalled or not: the exception of pipe 0 first.      *)
TrapSlot == IF wb[1].exc # "none" THEN wb[1] ELSE wb[2]
TakesTrap == TrapSlot.exc \notin {"none", "eret", "fence"}
EpcAfter == IF TakesTrap THEN TrapSlot.pc ELSE epc
Target(s) == IF s.exc = "eret" THEN epc ELSE IF s.exc = "fence" THEN PCAfter(s.pc) ELSE TrapVec

Csr ==
    /\ redirect' = IF TrapSlot.exc # "none" THEN [on |-> TRUE, pc |-> Target(TrapSlot)]
                   ELSE [on |-> FALSE, pc |-> 0]
    /\ epc' = EpcAfter
    /\ IF TakesTrap THEN mie' = FALSE
       ELSE IF TrapSlot.exc = "eret" \/ wb[1].kind = "csr" THEN mie' \in {FALSE, Interrupts}
       ELSE mie' = mie
    /\ IF wb[1].kind = "csr" THEN irq' \in {FALSE, Interrupts}
       ELSE irq' \in {irq, Interrupts}

(* An interrupt is launched in the cycle after it is seen, unless a CSR    *)
(* access is in flight or at the head.  The head's class is not qualified  *)
(* by its valid bit: an empty word shows whatever the buffer held, and     *)
(* only with the extra decode stage does a flush wipe it.                  *)
StaleCsr == {FALSE} \cup (IF ExtraDecode /\ head.words = {} /\ head.clean THEN {}
                          ELSE {(prog[p].kind \in CsrClass) : p \in {q \in PCs : q % 2 = 1}})
CsrAtHead(sel) ==
    IF sel = "slot0" THEN {prog[WordPC(0)].kind \in CsrClass}
    ELSE IF 1 \in head.words THEN {prog[WordPC(1)].kind \in CsrClass} ELSE StaleCsr
TakeNextAnyPending(atHead) == take' = (irq /\ mie /\ ~atHead)
TakeNext(atHead) == take' = (irq /\ mie /\ ~csrPend /\ ~atHead)

(* A clock with the answers of the units: lsuStall and done/err of the     *)
(* load/store unit, fin of the divider.                                    *)
Clock(lsuStall, done, err, fin) ==
    /\ UNCHANGED prog
    /\ Front(lsuStall, done, err, fin)
    /\ IF Waits(done) THEN UNCHANGED <<e2, wb, sq, regs>> ELSE Advance(done, err)
    /\ Csr
    /\ \E csr \in CsrAtHead(Select(redirect.on \/ SquashAny(done, err))) : TakeNext(csr)

MemoryInE2 == (\E p \in Pipes : e2[p].kind \in Memory)
Answers == [done : IF MemoryInE2 THEN BOOLEAN ELSE {FALSE},
            err : IF MemoryInE2 THEN {FALSE, MemFaults} ELSE {FALSE},
            fin : {FALSE, div.busy}]

Next == \E lsuStall \in BOOLEAN, a \in Answers : Clock(lsuStall, a.done, a.err, a.fin)

Spec == Init /\ [][Next]_vars

(* A request to memory is answered, the load/store unit does not refuse    *)
(* for ever and a division ends.                                           *)
Answered == \E a \in Answers : /\ (MemoryInE2 => a.done) /\ (div.busy => a.fin)
                               /\ Clock(FALSE, a.done, a.err, a.fin)
FairSpec == Spec /\ WF_vars(Answered)

-----------------------------------------------------------------------------
(* The state a program would see: the registers with the writes that have  *)
(* reached WB, and the pc of the oldest instruction that has not.          *)
Line == <<e2[1], e2[2], e1[1], e1[2]>>
Waiting == {k \in DOMAIN Line : Line[k].kind # "none"}
ArchPC == IF TrapSlot.exc # "none" THEN Target(TrapSlot)
          ELSE IF redirect.on THEN redirect.pc
          ELSE IF Waiting # {} THEN Line[CHOOSE k \in Waiting : \A j \in Waiting : k <= j].pc
          ELSE pcX
Arch == [pc |-> ArchPC, regs |-> Written, epc |-> EpcAfter]

(* The pipeline implements the sequential machine: whatever is issued      *)
(* together, bypassed, stalled, squashed or replayed, retired instructions *)
(* take effect in program order, each on its predecessors' results, and a  *)
(* trap records the first one that did not.                                *)
SC == INSTANCE SequentialCore WITH arch <- Arch
ImplementsSequentialCore == SC!Spec

(* A trap reaches WB with nothing behind it: the CSR unit, which looks at  *)
(* WB whether or not the pipe is stalled, sees it once.                    *)
TrapAlone == TrapSlot.exc # "none" => \A k \in DOMAIN Line : Line[k].kind = "none"

(* A CSR operation is never held in E1, where its result lasts one cycle,  *)
(* nor in WB, where its write is not gated by the stall.                   *)
CsrNotHeld == /\ e1[1].kind \in CsrClass => ~MemoryInE2
              /\ wb[1].kind \in CsrClass => ~MemoryInE2 /\ (e1[1].kind = "div" => div.valid)

(* A load or a store in E1 has already gone out to memory, and only a      *)
(* fault of an older access calls it back: no other exception may squash   *)
(* it, or the program would repeat it.                                     *)
MemoryNotRepeated == MemoryInE1 => \A p \in Pipes : e2[p].exc = "none"

(* An interrupt that reaches WB finds interrupts enabled: a CSR write that *)
(* disabled them has not slipped in since it was launched.                 *)
InterruptEnabled == wb[1].exc = "intr" => mie

(* Issue is not blocked for ever by a division or a CSR access, and the    *)
(* load or store of a pc does not stay in E2 for ever.                     *)
Drains == /\ []<>(~divPend) /\ []<>(~csrPend)
          /\ \A pc \in PCs : []<>(\A p \in Pipes : e2[p].kind \in Memory => e2[p].pc # pc)

(* biriscv_issue.v says a division stalls the pipeline until it has        *)
(* completed: the answer a division leaves E1 with is its own.             *)
DivisionOwnAnswer == e1[1].kind = "div" /\ div.valid => div.out = e1[1].res
=============================================================================
