--------------------------- MODULE SequentialCore ---------------------------
(***************************************************************************)
(* What the dual-issue pipeline promises to a program: instructions take   *)
(* effect one after the other, each reads the registers its predecessors   *)
(* left, and a trap or an interrupt falls between two instructions and     *)
(* records the one to resume at.  The pipeline may retire two a step.      *)
(*                                                                         *)
(* An instruction is abstract: [kind, rd, ra, to].  Whatever it computes   *)
(* is Succ of the register it reads, so a stale operand shows; a branch is *)
(* taken when that register is 0.                                          *)
(***************************************************************************)
EXTENDS Naturals

CONSTANTS PCs,        \* word addresses, 0 .. N - 1 (the counter wraps)
          Regs,       \* register numbers, 0 among them
          Data,       \* register values, 0 .. D - 1
          TrapVec, ResetPC,
          MemFaults,  \* may a load or a store fail
          Interrupts  \* may an interrupt be taken

VARIABLES prog,       \* the program, never changed
          arch        \* [pc, regs, epc]: the architectural state

seqVars == <<prog, arch>>

PCAfter(pc) == IF pc + 1 \in PCs THEN pc + 1 ELSE 0
Succ(d) == IF d \in Data THEN (IF d + 1 \in Data THEN d + 1 ELSE 0) ELSE d

WritesRd == {"alu", "branch", "badjump", "load", "mul", "div", "csr", "satp"}
Reads(regs, r) == IF r = 0 THEN 0 ELSE regs[r]
Set(regs, r, d) == IF r = 0 THEN regs ELSE [regs EXCEPT ![r] = d]

Trapped(s) == [s EXCEPT !.pc = TrapVec, !.epc = s.pc]

Executed(s, i) ==
    LET src == Reads(s.regs, i.ra)
    IN  [s EXCEPT !.pc = IF i.kind = "branch" /\ src = 0 THEN i.to
                         ELSE IF i.kind = "eret" THEN s.epc
                         ELSE PCAfter(s.pc),
                  !.regs = IF i.kind \in WritesRd THEN Set(s.regs, i.rd, Succ(src)) ELSE s.regs]

(* A jump to a misaligned address, an illegal instruction and a fetch that *)
(* failed always trap.                                                     *)
AlwaysTraps(s, i) == \/ i.kind \in {"trap", "fault"}
                     \/ i.kind = "badjump" /\ Reads(s.regs, i.ra) = 0

After(s) ==
    LET i == prog[s.pc]
    IN  (IF AlwaysTraps(s, i) THEN {Trapped(s)} ELSE {Executed(s, i)})
        \cup (IF Interrupts \/ (MemFaults /\ i.kind \in {"load", "store"})
              THEN {Trapped(s)} ELSE {})

Init == arch = [pc |-> ResetPC, regs |-> [r \in Regs |-> 0], epc |-> 0]

Next == /\ UNCHANGED prog
        /\ \E s \in After(arch) : arch' \in {s} \cup After(s)

Spec == Init /\ [][Next]_seqVars
=============================================================================
