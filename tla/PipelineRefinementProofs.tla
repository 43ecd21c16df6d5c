---------------------- MODULE PipelineRefinementProofs ----------------------
(***************************************************************************)
(* The dual-issue pipeline implements the sequential machine.              *)
(***************************************************************************)
EXTENDS PipelineProofs

(* A division is not abandoned half way: the divider goes on with it, and  *)
(* its answer could be taken for that of the next division.                *)
DivisionsEnd ==
  \A g \in Programs :
    (\E p \in PCs : g[p].kind = "div") =>
      ~Interrupts /\ \A p \in PCs : g[p].kind # "badjump"

(* A swap with satp is not asked for the old value, which it never writes. *)
SatpWritesOnly == \A g \in Programs : \A p \in PCs : g[p].kind = "satp" => g[p].rd = 0

-----------------------------------------------------------------------------
(* The registers the program sees, with the results that are on their way: *)
(* after the first stage of Line, after the second, and so on.             *)
Put(f, x) == [r \in Regs |-> IF r # 0 /\ x.rd = r THEN x.res ELSE f[r]]
Regs1 == Put(Written, e2[1])
Regs2 == Put(Regs1, e2[2])
Regs3 == Put(Regs2, e1[1])
Regs4 == Put(Regs3, e1[2])
Read(f, r) == IF r = 0 THEN 0 ELSE f[r]

(* The pc of the first instruction from a stage of Line on.                *)
PC4 == IF e1[2].kind # "none" THEN e1[2].pc ELSE pcX
PC3 == IF e1[1].kind # "none" THEN e1[1].pc ELSE PC4
PC2 == IF e2[2].kind # "none" THEN e2[2].pc ELSE PC3
PC1 == IF e2[1].kind # "none" THEN e2[1].pc ELSE PC2

(* What becomes of an instruction i that reads src.                        *)
RdOf(i) == IF i.kind \in WritesRd THEN i.rd ELSE 0
EarlyOf(i, src) == IF i.kind = "fault" THEN "fault"
                   ELSE IF i.kind = "badjump" /\ src = 0 THEN "misaligned" ELSE "none"
ExcOf(i, src) == IF EarlyOf(i, src) # "none" THEN EarlyOf(i, src)
                 ELSE IF i.kind \in {"fence", "satp"} THEN "fence"
                 ELSE IF i.kind \in {"trap", "eret"} THEN i.kind ELSE "none"
GoesTo(i, pc, src) == IF i.kind = "branch" /\ src = 0 THEN i.to ELSE PCAfter(pc)

(* A stage holds the instruction i of its pc, with the operand src.        *)
Real(x) == x.kind \notin {"none", "intr"}
FitsE1(x, i, src) ==
  /\ x.kind = "intr" => Interrupts /\ x.rd = 0
  /\ Real(x) => /\ x.kind = i.kind /\ x.res = Succ(src) /\ x.rd = RdOf(i) /\ x.exc = EarlyOf(i, src)
                /\ x.kind \in {"alu"} \cup Jumps => x.val = x.res
FitsE2(x, i, src) ==
  /\ x.kind = "intr" => Interrupts
  /\ Real(x) => /\ x.kind = i.kind /\ x.res = Succ(src) /\ x.exc = ExcOf(i, src)
                /\ x.exc = "none" => /\ x.rd = RdOf(i)
                                     /\ x.kind \in WritesRd \ {"load", "mul"} => x.val = x.res
Inst(g, x) == g[x.pc]
Src(g, x, f) == Read(f, Inst(g, x).ra)
After(g, x, f) == GoesTo(Inst(g, x), x.pc, Src(g, x, f))

(* Nothing is said of what an exception will drop.                         *)
Clean2 == e2[1].exc = "none" /\ e2[2].exc = "none"
Clean1(p) == e1[p].kind # "intr" /\ e1[p].exc = "none" /\ csrOut.exc = "none"

InOrder ==
  /\ FitsE2(e2[1], Inst(prog, e2[1]), Src(prog, e2[1], Written))
  /\ e2[1].exc = "none" => /\ FitsE2(e2[2], Inst(prog, e2[2]), Src(prog, e2[2], Regs1))
                           /\ e2[2].kind = "none" => e2[2].exc = "none"
  /\ Clean2 => FitsE1(e1[1], Inst(prog, e1[1]), Src(prog, e1[1], Regs2))
  /\ Clean2 /\ Clean1(1) => FitsE1(e1[2], Inst(prog, e1[2]), Src(prog, e1[2], Regs3))
Follows ==
  /\ e2[1].kind # "none" /\ e2[1].exc = "none" => PC2 = After(prog, e2[1], Written)
  /\ e2[2].kind # "none" /\ Clean2 => PC3 = After(prog, e2[2], Regs1)
  /\ e1[1].kind # "none" /\ Clean2 /\ Clean1(1) => PC4 = After(prog, e1[1], Regs2)
  /\ e1[2].kind # "none" /\ Clean2 /\ Clean1(1) /\ Clean1(2) => pcX = After(prog, e1[2], Regs3)

(* What the CSR unit and the divider have for E1 is for what is there.     *)
CsrExcOf(kind) == IF kind \in {"fence", "satp"} THEN "fence"
                  ELSE IF kind = "eret" THEN "eret"
                  ELSE IF kind \in {"trap", "fault"} THEN "trap" ELSE "none"
CsrOwn ==
  e1[1].kind \in CsrClass => csrOut.val = e1[1].res /\ csrOut.exc = CsrExcOf(e1[1].kind)
DivOwn ==
  /\ e1[1].kind = "div" =>
       /\ ~MemoryInE2 /\ divPend
       /\ IF div.valid THEN div.out = e1[1].res ELSE div.busy /\ div.res = e1[1].res
  /\ ~(div.busy /\ div.valid)
  /\ div.busy \/ div.valid => e1[1].kind = "div"

(* Where the exceptions of E2 come from, and that no interrupt comes       *)
(* unless there are interrupts.                                            *)
Sources ==
  /\ prog \in Programs
  /\ (irq => Interrupts) /\ (take => Interrupts)
  /\ \A p \in Pipes :
       /\ Real(e1[p]) => e1[p].kind = prog[e1[p].pc].kind
       /\ Real(e2[p]) => e2[p].kind = prog[e2[p].pc].kind
       /\ e1[p].kind = "intr" \/ e2[p].kind = "intr" => Interrupts
       /\ e1[p].exc = "none" \/ e1[p].kind \in {"fault", "badjump", "intr"}
       /\ e2[p].exc = "none" \/ e2[1].kind \in CsrClass \/ e2[p].kind \in {"badjump", "intr"}

FlowInv == InOrder /\ Follows /\ CsrOwn /\ DivOwn /\ Sources

-----------------------------------------------------------------------------
(* The registers                                                           *)

LEMMA PutIs ==
  ASSUME NEW f \in [Regs -> Values], NEW x \in Stages
  PROVE  /\ Put(f, x) \in [Regs -> Values]
         /\ x.rd = 0 => Put(f, x) = f
         /\ \A r \in Regs : r # 0 /\ x.rd # r => Put(f, x)[r] = f[r]
         /\ \A r \in Regs : r # 0 /\ x.rd = r => Put(f, x)[r] = x.res
  BY DEF Put, Stages

LEMMA RegsTypes ==
  ASSUME PipeType
  PROVE  /\ Written \in [Regs -> Values] /\ Regs1 \in [Regs -> Values] /\ Regs2 \in [Regs -> Values]
         /\ Regs3 \in [Regs -> Values] /\ Regs4 \in [Regs -> Values]
<1>1. e2[1] \in Stages /\ e2[2] \in Stages /\ e1[1] \in Stages /\ e1[2] \in Stages
  BY DEF PipeType, Pipes
<1> QED BY <1>1, WrittenType, PutIs DEF Regs1, Regs2, Regs3, Regs4

(* Every exception of E2 is "none" when nothing is squashed.               *)
LEMMA NoneDropped ==
  ASSUME PipeType, OrderInv, FlowInv, NEW done \in BOOLEAN, NEW err \in BOOLEAN,
         E2Exc(1, done, err) = "none"
  PROVE  /\ e2[1].exc = "none" /\ e2[1].kind # "intr"
         /\ E2Exc(2, done, err) = "none" => e2[2].exc = "none"
<1>1. FitsE2(e2[1], Inst(prog, e2[1]), Src(prog, e2[1], Written))
  BY DEF FlowInv, InOrder
<1>2. e2[1].exc = "none"
  <2>1. CASE e2[1].kind \in Memory
    BY <1>1, <2>1 DEF FitsE2, Real, Memory, ExcOf, EarlyOf
  <2>2. CASE e2[1].kind \notin Memory
    BY <2>2 DEF E2Exc
  <2> QED BY <2>1, <2>2
<1>3. FitsE2(e2[2], Inst(prog, e2[2]), Src(prog, e2[2], Regs1)) /\ (e2[2].kind = "none" => e2[2].exc = "none")
  BY <1>2 DEF FlowInv, InOrder
<1>4. E2Exc(2, done, err) = "none" => e2[2].exc = "none"
  <2>1. CASE e2[2].kind \in Memory
    BY <1>3, <2>1 DEF FitsE2, Real, Memory, ExcOf, EarlyOf
  <2>2. CASE e2[2].kind \notin Memory
    BY <2>2 DEF E2Exc
  <2> QED BY <2>1, <2>2
<1> QED BY <1>2, <1>4 DEF OrderInv, Launched

(* What WB writes of an instruction that was not dropped.                  *)
LEMMA CommittedRes ==
  ASSUME NEW x \in Stages, NEW i \in Instrs, NEW src \in Values, FitsE2(x, i, src), x.kind # "intr",
         x.exc = "none", x.rd # 0, x.kind = "none" => x.rd = 0
  PROVE  /\ x.kind \in WritesRd /\ x.kind = i.kind /\ x.rd = i.rd
         /\ (IF x.kind \in Memory \cup {"mul"} THEN x.res ELSE x.val) = x.res
  BY DEF FitsE2, Real, RdOf, Memory, WritesRd

LEMMA StageTypes ==
  ASSUME PipeType
  PROVE  /\ e1[1] \in Stages /\ e1[2] \in Stages /\ e2[1] \in Stages /\ e2[2] \in Stages
         /\ wb[1] \in Stages /\ wb[2] \in Stages
         /\ \A p \in Pipes : /\ e1[p].pc \in PCs /\ e2[p].pc \in PCs /\ wb[p].pc \in PCs
                             /\ Inst(prog, e1[p]) \in Instrs /\ Inst(prog, e2[p]) \in Instrs
                             /\ \A f \in [Regs -> Values] :
                                  Src(prog, e1[p], f) \in Values /\ Src(prog, e2[p], f) \in Values
<1>1. \A p \in Pipes : e1[p] \in Stages /\ e2[p] \in Stages /\ wb[p] \in Stages
  BY DEF PipeType
<1>2. \A p \in Pipes : e1[p].pc \in PCs /\ e2[p].pc \in PCs /\ wb[p].pc \in PCs
  BY <1>1 DEF Stages
<1>3. \A p \in Pipes : Inst(prog, e1[p]) \in Instrs /\ Inst(prog, e2[p]) \in Instrs
  BY <1>2 DEF PipeType, Inst
<1>4. 0 \in Values
  BY DataAssumption DEF Values
<1>5. \A p \in Pipes : Inst(prog, e1[p]).ra \in Regs /\ Inst(prog, e2[p]).ra \in Regs
  BY <1>3 DEF Instrs
<1>6. \A p \in Pipes : \A f \in [Regs -> Values] :
        Src(prog, e1[p], f) \in Values /\ Src(prog, e2[p], f) \in Values
  BY <1>4, <1>5 DEF Src, Read
<1> QED BY <1>1, <1>2, <1>3, <1>6 DEF Pipes

(* WB takes over what E2 had.                                              *)
LEMMA WrittenMoves ==
  ASSUME PipeType, OrderInv, FlowInv, NEW done \in BOOLEAN, NEW err \in BOOLEAN, Advance(done, err),
         E2Exc(1, done, err) = "none", ~sq[1]
  PROVE  /\ E2Exc(2, done, err) = "none" => Written' = Regs2
         /\ E2Exc(2, done, err) # "none" => Written' = Regs1
<1>p. Pipes = {1, 2}
  BY DEF Pipes
<1>1. e2[1].exc = "none" /\ e2[1].kind # "intr" /\ (E2Exc(2, done, err) = "none" => e2[2].exc = "none")
  BY NoneDropped
<1>2. /\ FitsE2(e2[1], Inst(prog, e2[1]), Src(prog, e2[1], Written))
      /\ FitsE2(e2[2], Inst(prog, e2[2]), Src(prog, e2[2], Regs1))
  BY <1>1 DEF FlowInv, InOrder
<1>3. /\ e2[1] \in Stages /\ e2[2] \in Stages /\ Inst(prog, e2[1]) \in Instrs /\ Inst(prog, e2[2]) \in Instrs
      /\ Src(prog, e2[1], Written) \in Values /\ Src(prog, e2[2], Regs1) \in Values
  BY <1>p, StageTypes, RegsTypes
<1>4. (e2[1].kind = "none" => e2[1].rd = 0) /\ (e2[2].kind = "none" => e2[2].rd = 0) /\ e2[2].kind # "intr"
  BY <1>p DEF OrderInv, InPairs, SecondKinds, Memory, Jumps
<1>5. /\ wb'[1].rd = e2[1].rd
      /\ wb'[1].val = IF e2[1].kind \in Memory \cup {"mul"} THEN e2[1].res ELSE e2[1].val
      /\ wb'[2].rd = IF E2Exc(2, done, err) # "none" THEN 0 ELSE e2[2].rd
      /\ wb'[2].val = IF e2[2].kind \in Memory \cup {"mul"} THEN e2[2].res ELSE e2[2].val
      /\ regs' = Written
  <2>1. ~Squash(1, done, err)
    BY DEF Squash
  <2>2. 1 \in Pipes /\ 2 \in Pipes
    BY <1>p
  <2>3. regs' = Written
    BY DEF Advance
  <2> QED BY <2>1, <2>2, <2>3, MovedFields
<1>6. e2[1].rd # 0 => wb'[1].val = e2[1].res
  BY <1>1, <1>2, <1>3, <1>4, <1>5, CommittedRes
<1>7. e2[2].rd # 0 /\ E2Exc(2, done, err) = "none" => wb'[2].val = e2[2].res
  BY <1>1, <1>2, <1>3, <1>4, <1>5, CommittedRes
<1>8. \A r \in Regs : r # 0 =>
        Written'[r] = IF wb'[2].rd = r THEN wb'[2].val ELSE IF wb'[1].rd = r THEN wb'[1].val ELSE Written[r]
  BY <1>5 DEF Written
<1>9. Written'[0] = 0 /\ Written[0] = 0 /\ 0 \in Regs
  BY DataAssumption DEF Written
<1>10. Written' = [r \in Regs |-> Written'[r]]
  BY DEF Written
<1>11. \A r \in Regs : Regs1[r] = IF r # 0 /\ e2[1].rd = r THEN e2[1].res ELSE Written[r]
  BY DEF Regs1, Put
<1>12. \A r \in Regs : Regs2[r] = IF r # 0 /\ e2[2].rd = r THEN e2[2].res ELSE Regs1[r]
  BY DEF Regs2, Put
<1>13. Regs1 = [r \in Regs |-> Regs1[r]] /\ Regs2 = [r \in Regs |-> Regs2[r]]
  BY DEF Regs1, Regs2, Put
<1>14. ASSUME E2Exc(2, done, err) = "none", NEW r \in Regs PROVE Written'[r] = Regs2[r]
  BY <1>5, <1>6, <1>7, <1>8, <1>9, <1>11, <1>12, <1>14
<1>15. ASSUME E2Exc(2, done, err) # "none", NEW r \in Regs PROVE Written'[r] = Regs1[r]
  BY <1>5, <1>6, <1>8, <1>9, <1>11, <1>15
<1>16. E2Exc(2, done, err) = "none" => Written' = Regs2
  BY <1>10, <1>13, <1>14
<1>17. E2Exc(2, done, err) # "none" => Written' = Regs1
  BY <1>10, <1>13, <1>15
<1> QED BY <1>16, <1>17

(* The bypasses give an instruction that may issue what its predecessors   *)
(* will have written.                                                      *)
LEMMA Bypass ==
  ASSUME PipeType, OrderInv, FlowInv, Clean2, Clean1(1), Clean1(2), ~divPend, ~csrPend,
         NEW i, NEW r \in Regs, r \notin Scoreboard(i)
  PROVE  Operand(r) = Read(Regs4, r)
<1>p. Pipes = {1, 2} /\ 1 \in Pipes /\ 2 \in Pipes
  BY DEF Pipes
<1>1. CASE r = 0
  BY <1>1 DEF Operand, Read
<1>2. CASE r # 0
  <2>1. /\ FitsE2(e2[1], Inst(prog, e2[1]), Src(prog, e2[1], Written))
        /\ FitsE2(e2[2], Inst(prog, e2[2]), Src(prog, e2[2], Regs1))
        /\ FitsE1(e1[1], Inst(prog, e1[1]), Src(prog, e1[1], Regs2))
        /\ FitsE1(e1[2], Inst(prog, e1[2]), Src(prog, e1[2], Regs3))
    BY DEF FlowInv, InOrder, Clean2
  <2>2. /\ r \notin InE1({"load", "mul"})
        /\ ~LoadBypass => r \notin InE2({"load"})
        /\ ~MulBypass => r \notin InE2({"mul"})
    BY DEF Scoreboard
  <2>3. \A p \in Pipes : e1[p].rd = r => e1[p].kind \notin {"load", "mul"}
    BY <2>2 DEF InE1
  <2>4. \A p \in Pipes : e2[p].rd = r =>
          (e2[p].kind = "load" => LoadBypass) /\ (e2[p].kind = "mul" => MulBypass)
    BY <2>2 DEF InE2
  <2>5. \A p \in Pipes : (e1[p].kind = "none" => e1[p].rd = 0) /\ (e2[p].kind = "none" => e2[p].rd = 0)
    BY DEF OrderInv, InPairs
  <2>6. e1[1].kind \notin CsrClass /\ e1[1].kind # "div" /\ e1[1].kind # "intr" /\ e1[2].kind # "intr"
    BY DEF OrderInv, CsrAlone, FlowInv, DivOwn, Clean1
  <2>7. e1[2].kind \in SecondKinds /\ e2[2].kind \in SecondKinds /\ e2[1].kind # "intr"
    BY DEF OrderInv, InPairs, Launched, Clean2
  <2>8. e1[2].rd = r => e1[2].val = e1[2].res
    BY <1>2, <1>p, <2>1, <2>3, <2>5, <2>6, <2>7
       DEF FitsE1, Real, RdOf, WritesRd, SecondKinds, Memory, Jumps
  <2>9. e1[1].rd = r => e1[1].val = e1[1].res
    BY <1>2, <1>p, <2>1, <2>3, <2>5, <2>6
       DEF FitsE1, Real, RdOf, WritesRd, CsrClass, Jumps
  <2>10. e2[2].rd = r => E2Result(e2[2]) = e2[2].res
    BY <1>2, <1>p, <2>1, <2>4, <2>5, <2>7
       DEF FitsE2, Real, RdOf, WritesRd, SecondKinds, Memory, Jumps, E2Result, Clean2
  <2>11. e2[1].rd = r => E2Result(e2[1]) = e2[1].res
    BY <1>2, <1>p, <2>1, <2>4, <2>5, <2>7
       DEF FitsE2, Real, RdOf, WritesRd, Memory, E2Result, Clean2
  <2>12. Written[r] = IF wb[2].rd = r THEN wb[2].val ELSE IF wb[1].rd = r THEN wb[1].val ELSE regs[r]
    BY <1>2 DEF Written
  <2>13. /\ Regs1[r] = IF e2[1].rd = r THEN e2[1].res ELSE Written[r]
         /\ Regs2[r] = IF e2[2].rd = r THEN e2[2].res ELSE Regs1[r]
         /\ Regs3[r] = IF e1[1].rd = r THEN e1[1].res ELSE Regs2[r]
         /\ Regs4[r] = IF e1[2].rd = r THEN e1[2].res ELSE Regs3[r]
    BY <1>2 DEF Regs1, Regs2, Regs3, Regs4, Put
  <2>14. Newest(InFlight, r) = Regs4[r]
    BY <2>8, <2>9, <2>10, <2>11, <2>12, <2>13, NewestIs
  <2> QED BY <1>2, <2>14 DEF Operand, Read
<1> QED BY <1>1, <1>2

-----------------------------------------------------------------------------
(* A clock in which the pipes move                                         *)

Moved(done, err) ==
  /\ Advance(done, err) /\ Csr /\ ~Waits(done) /\ prog' = prog
  /\ err => MemFaults
  /\ PC3' = IF redirect.on THEN redirect.pc ELSE pcX
  /\ SquashAny(done, err) => e1'[1].kind = "none" /\ e1'[2].kind = "none"

LEMMA MovedCases ==
  ASSUME PipeType, [Next]_vars
  PROVE  \/ UNCHANGED vars
         \/ \E lsuStall, done, err, fin \in BOOLEAN :
              \/ HoldStep(done, err, fin)
              \/ Moved(done, err) /\ DrainStep(done, err, fin)
              \/ Moved(done, err) /\ OneStep(lsuStall, done, err, fin)
              \/ Moved(done, err) /\ TwoStep(lsuStall, done, err, fin)
<1>b. Bubble.kind = "none"
  BY DEF Bubble
<1>t. pcX \in PCs
  BY DEF PipeType
<1>1. ASSUME NEW done \in BOOLEAN, NEW err \in BOOLEAN, NEW fin \in BOOLEAN, DrainStep(done, err, fin)
      PROVE  Moved(done, err)
  <2>1. e1'[1].kind = "none" /\ e1'[2].kind = "none"
    BY <1>1, <1>b DEF DrainStep
  <2>2. PC3' = IF redirect.on THEN redirect.pc ELSE pcX
    BY <1>1, <2>1 DEF DrainStep, PC3, PC4
  <2> QED BY <1>1, <2>1, <2>2 DEF DrainStep, Around, Moved
<1>2. ASSUME NEW lsuStall \in BOOLEAN, NEW done \in BOOLEAN, NEW err \in BOOLEAN, NEW fin \in BOOLEAN,
             OneStep(lsuStall, done, err, fin) \/ TwoStep(lsuStall, done, err, fin)
      PROVE  Moved(done, err)
  <2> DEFINE a == prog[pcX]
  <2>1. a \in Instrs /\ e1'[1] = Issued(a, pcX)
    BY <1>2 DEF OneStep, TwoStep
  <2>2. e1'[1].kind # "none" /\ e1'[1].pc = pcX
    BY <1>t, <2>1, IssuedFields
  <2>3. ~redirect.on /\ ~SquashAny(done, err)
    BY <1>2 DEF OneStep, TwoStep, Ready
  <2>4. PC3' = IF redirect.on THEN redirect.pc ELSE pcX
    BY <2>2, <2>3 DEF PC3
  <2> QED BY <1>2, <2>3, <2>4 DEF OneStep, TwoStep, Around, Moved
<1> QED BY <1>1, <1>2, ClockCases

(* Nothing is squashed: E2 moves to WB and E1 to E2.                       *)
LEMMA E2Moves ==
  ASSUME PipeType, OrderInv, FlowInv, NEW done \in BOOLEAN, NEW err \in BOOLEAN,
         Moved(done, err), ~SquashAny(done, err)
  PROVE  /\ Clean2 /\ Written' = Regs2
         /\ e2'[1].exc = "none" => Clean1(1) /\ Regs1' = Regs3
         /\ Clean2' => Clean1(1) /\ Clean1(2) /\ Regs2' = Regs4
         /\ \A p \in Pipes : e2'[p].kind = e1[p].kind /\ e2'[p].pc = e1[p].pc /\ e2'[p].res = e1[p].res
<1>p. Pipes = {1, 2} /\ 1 \in Pipes /\ 2 \in Pipes
  BY DEF Pipes
<1>1. /\ E2Exc(1, done, err) = "none" /\ E2Exc(2, done, err) = "none" /\ ~sq[1]
      /\ ~Squash(1, done, err)
  BY <1>p DEF SquashAny, Squash
<1>2. Clean2
  BY <1>1, NoneDropped DEF Clean2
<1>3. Written' = Regs2
  BY <1>1, WrittenMoves DEF Moved
<1>4. \A p \in Pipes :
        /\ e2'[p].kind = e1[p].kind /\ e2'[p].pc = e1[p].pc /\ e2'[p].res = e1[p].res
        /\ e2'[p].exc = IF e1[p].kind = "intr" THEN "intr"
                        ELSE IF e1[p].exc # "none" THEN e1[p].exc ELSE csrOut.exc
        /\ e2'[p].rd = IF e1[p].exc # "none" THEN 0 ELSE e1[p].rd
  BY MovedFields DEF Moved
<1>5. \A p \in Pipes : e2'[p].exc = "none" => Clean1(p) /\ e2'[p].rd = e1[p].rd
  BY <1>4 DEF Clean1
<1>6. e2'[1].exc = "none" => Clean1(1) /\ Regs1' = Regs3
  <2>1. Regs1' = Put(Written', e2'[1]) /\ Regs3 = Put(Regs2, e1[1])
    BY DEF Regs1, Regs3
  <2> QED BY <1>3, <1>4, <1>5, <1>p, <2>1 DEF Put
<1>7. Clean2' => Clean1(1) /\ Clean1(2) /\ Regs2' = Regs4
  <2>1. Regs2' = Put(Regs1', e2'[2]) /\ Regs4 = Put(Regs3, e1[2])
    BY DEF Regs2, Regs4
  <2>2. Clean2' <=> e2'[1].exc = "none" /\ e2'[2].exc = "none"
    BY DEF Clean2
  <2> QED BY <1>4, <1>5, <1>6, <1>p, <2>1, <2>2 DEF Put
<1> QED BY <1>2, <1>3, <1>4, <1>6, <1>7

(* The instruction that leaves E1 has what it needs of the units.          *)
LEMMA FitsMoves ==
  ASSUME PipeType, OrderInv, FlowInv, NEW done \in BOOLEAN, NEW err \in BOOLEAN,
         Moved(done, err), ~SquashAny(done, err)
  PROVE  /\ FitsE2(e2'[1], Inst(prog', e2'[1]), Src(prog', e2'[1], Written'))
         /\ e2'[1].exc = "none" => /\ FitsE2(e2'[2], Inst(prog', e2'[2]), Src(prog', e2'[2], Regs1'))
                                   /\ e2'[2].kind = "none" => e2'[2].exc = "none"
<1>p. Pipes = {1, 2} /\ 1 \in Pipes /\ 2 \in Pipes
  BY DEF Pipes
<1>1. /\ Clean2 /\ Written' = Regs2 /\ prog' = prog
      /\ e2'[1].exc = "none" => Clean1(1) /\ Regs1' = Regs3
  BY E2Moves DEF Moved
<1>2. \A p \in Pipes :
        /\ e2'[p].kind = e1[p].kind /\ e2'[p].pc = e1[p].pc /\ e2'[p].res = e1[p].res
        /\ e2'[p].exc = IF e1[p].kind = "intr" THEN "intr"
                        ELSE IF e1[p].exc # "none" THEN e1[p].exc ELSE csrOut.exc
        /\ e2'[p].rd = IF e1[p].exc # "none" THEN 0 ELSE e1[p].rd
        /\ e2'[p].val = IF e1[p].kind = "div" THEN div.out
                        ELSE IF e1[p].kind \in CsrClass THEN csrOut.val ELSE e1[p].val
  BY MovedFields DEF Moved
<1>3. FitsE1(e1[1], Inst(prog, e1[1]), Src(prog, e1[1], Regs2))
  BY <1>1 DEF FlowInv, InOrder
<1>4. e1[1].kind = "div" => div.out = e1[1].res
  BY DEF FlowInv, DivOwn, Moved, Waits
<1>5. /\ e1[1].kind \in CsrClass => csrOut.val = e1[1].res /\ csrOut.exc = CsrExcOf(e1[1].kind)
      /\ e1[1].kind \notin CsrClass => csrOut.exc = "none"
  BY DEF FlowInv, CsrOwn, OrderInv, Traps
<1>6. Interrupts \/ e1[1].kind # "intr"
  BY <1>p DEF FlowInv, Sources
<1> DEFINE i == Inst(prog, e1[1])
           src == Src(prog, e1[1], Regs2)
<1>7. Inst(prog', e2'[1]) = i /\ Src(prog', e2'[1], Written') = src
  BY <1>1, <1>2, <1>p DEF Inst, Src
<1>8. FitsE2(e2'[1], i, src)
  <2> HIDE DEF i, src
  <2>0. FitsE1(e1[1], i, src)
    BY <1>3 DEF i, src
  <2>1. CASE e1[1].kind \notin {"none", "intr"}
    <3>1. /\ e1[1].kind = i.kind /\ e1[1].res = Succ(src) /\ e1[1].rd = RdOf(i)
          /\ e1[1].exc = EarlyOf(i, src) /\ (e1[1].kind \in {"alu"} \cup Jumps => e1[1].val = e1[1].res)
      BY <2>0, <2>1 DEF FitsE1, Real
    <3>2. e2'[1].exc = ExcOf(i, src)
      BY <1>2, <1>5, <1>p, <2>1, <3>1 DEF ExcOf, EarlyOf, CsrExcOf, CsrClass
    <3>3. e2'[1].exc = "none" => e2'[1].rd = RdOf(i)
      BY <1>2, <1>p, <2>1, <3>1
    <3>4. e2'[1].kind \in WritesRd \ {"load", "mul"} => e2'[1].val = e2'[1].res
      BY <1>2, <1>4, <1>5, <1>p, <3>1 DEF WritesRd, CsrClass, Jumps
    <3>5. e2'[1].kind = i.kind /\ e2'[1].res = Succ(src) /\ e2'[1].kind # "intr"
      BY <1>2, <1>p, <2>1, <3>1
    <3> QED BY <3>2, <3>3, <3>4, <3>5 DEF FitsE2
  <2>2. CASE e1[1].kind \in {"none", "intr"}
    BY <1>2, <1>6, <1>p, <2>2 DEF FitsE2, Real
  <2> QED BY <2>1, <2>2
<1>9. ASSUME e2'[1].exc = "none"
      PROVE  /\ FitsE2(e2'[2], Inst(prog', e2'[2]), Src(prog', e2'[2], Regs1'))
             /\ e2'[2].kind = "none" => e2'[2].exc = "none"
  <2> DEFINE j == Inst(prog, e1[2])
             s2 == Src(prog, e1[2], Regs3)
  <2>1. Inst(prog', e2'[2]) = j /\ Src(prog', e2'[2], Regs1') = s2
    BY <1>1, <1>2, <1>9, <1>p DEF Inst, Src
  <2>2. FitsE1(e1[2], j, s2) /\ csrOut.exc = "none"
    BY <1>1, <1>9 DEF FlowInv, InOrder, Clean1
  <2>3. e1[2].kind \in SecondKinds /\ (e1[2].kind = "none" => e1[2].exc = "none")
    BY <1>p DEF OrderInv, InPairs
  <2> HIDE DEF j, s2
  <2>4. CASE e1[2].kind # "none"
    <3>1. Real(e1[2])
      BY <2>3, <2>4 DEF Real, SecondKinds, Memory, Jumps
    <3>2. /\ e1[2].kind = j.kind /\ e1[2].res = Succ(s2) /\ e1[2].rd = RdOf(j)
          /\ e1[2].exc = EarlyOf(j, s2) /\ (e1[2].kind \in {"alu"} \cup Jumps => e1[2].val = e1[2].res)
      BY <2>2, <3>1 DEF FitsE1
    <3>3. e2'[2].exc = ExcOf(j, s2)
      BY <1>2, <1>p, <2>2, <2>3, <3>2 DEF ExcOf, EarlyOf, SecondKinds, Memory, Jumps
    <3>4. e2'[2].exc = "none" => e2'[2].rd = RdOf(j)
      BY <1>2, <1>p, <2>3, <3>2 DEF SecondKinds, Memory, Jumps
    <3>5. e2'[2].kind \in WritesRd \ {"load", "mul"} => e2'[2].val = e2'[2].res
      BY <1>2, <1>p, <2>3, <3>2 DEF WritesRd, SecondKinds, Memory, Jumps, CsrClass
    <3>6. e2'[2].kind = j.kind /\ e2'[2].res = Succ(s2) /\ e2'[2].kind # "intr" /\ e2'[2].kind # "none"
      BY <1>2, <1>p, <2>4, <3>1, <3>2 DEF Real
    <3>7. FitsE2(e2'[2], j, s2)
      BY <3>3, <3>4, <3>5, <3>6 DEF FitsE2
    <3> QED BY <2>1, <3>6, <3>7
  <2>5. CASE e1[2].kind = "none"
    <3>1. e2'[2].kind = "none" /\ e2'[2].exc = "none"
      BY <1>2, <1>p, <2>2, <2>3, <2>5
    <3>2. FitsE2(e2'[2], j, s2)
      BY <3>1 DEF FitsE2, Real
    <3> QED BY <2>1, <3>1, <3>2
  <2> QED BY <2>4, <2>5
<1> QED BY <1>7, <1>8, <1>9

-----------------------------------------------------------------------------
(* What issues                                                             *)

LEMMA IssuedFits ==
  ASSUME PipeType, Sources, NEW pc \in PCs, NEW src, ~take => Operand(prog[pc].ra) = src
  PROVE  FitsE1(Issued(prog[pc], pc), prog[pc], src)
<1> DEFINE i == prog[pc]
           x == Issued(i, pc)
<1>0. take => Interrupts
  BY DEF Sources
<1>1. i \in Instrs
  BY DEF PipeType
<1>2. /\ x.kind = (IF take THEN "intr" ELSE i.kind)
      /\ x.rd = IF i.kind \in WritesRd /\ ~take THEN i.rd ELSE 0
      /\ x.val = IF i.kind \in {"alu"} \cup Jumps THEN Succ(Operand(i.ra)) ELSE Junk
      /\ x.res = Succ(Operand(i.ra))
      /\ x.exc = IF i.kind = "fault" THEN "fault"
                 ELSE IF i.kind = "badjump" /\ Taken(i) THEN "misaligned" ELSE "none"
      /\ i.kind \in Kinds
  BY <1>1, IssuedFields
<1>3. Taken(i) <=> i.kind \in Jumps /\ Operand(i.ra) = 0
  BY DEF Taken
<1>4. i.kind \notin {"none", "intr"}
  BY <1>2 DEF Kinds, Memory, CsrClass, Jumps
<1> HIDE DEF i, x
<1>5. ASSUME take PROVE FitsE1(x, i, src)
  <2>1. x.kind = "intr" /\ x.rd = 0
    BY <1>2, <1>5
  <2> QED BY <1>0, <1>5, <2>1 DEF FitsE1, Real
<1>6. ASSUME ~take PROVE FitsE1(x, i, src)
  <2>1. Operand(i.ra) = src
    BY <1>6 DEF i
  <2>2. x.kind = i.kind /\ x.res = Succ(src) /\ x.rd = RdOf(i)
    BY <1>2, <1>6, <2>1 DEF RdOf
  <2>3. x.exc = EarlyOf(i, src)
    BY <1>2, <1>3, <2>1 DEF EarlyOf, Jumps
  <2>4. x.kind \in {"alu"} \cup Jumps => x.val = x.res
    BY <1>2, <2>2
  <2>5. x.kind # "intr"
    BY <1>4, <2>2
  <2> QED BY <2>2, <2>3, <2>4, <2>5 DEF FitsE1
<1> QED BY <1>5, <1>6 DEF i, x

(* The first of what issues.                                               *)
LEMMA FirstFits ==
  ASSUME PipeType, OrderInv, FlowInv, NEW done \in BOOLEAN, NEW err \in BOOLEAN,
         NEW lsuStall \in BOOLEAN, NEW w \in {0, 1}, Ready(w, lsuStall, done, err),
         Moved(done, err), e1'[1] = Issued(prog[pcX], pcX), Clean2'
  PROVE  /\ Operand(prog[pcX].ra) = Read(Regs4, prog[pcX].ra)
         /\ FitsE1(e1'[1], Inst(prog', e1'[1]), Src(prog', e1'[1], Regs2'))
<1>1. ~SquashAny(done, err) /\ ~divPend /\ ~csrPend /\ Free(prog[pcX], Scoreboard(prog[pcX]))
  BY DEF Ready, Blocked
<1>2. Clean2 /\ Clean1(1) /\ Clean1(2) /\ Regs2' = Regs4 /\ prog' = prog
  BY <1>1, E2Moves DEF Moved
<1>3. pcX \in PCs /\ prog[pcX] \in Instrs
  BY DEF PipeType
<1>4. prog[pcX].ra \in Regs /\ prog[pcX].ra \notin Scoreboard(prog[pcX])
  BY <1>1, <1>3 DEF Free, Instrs
<1>5. Operand(prog[pcX].ra) = Read(Regs4, prog[pcX].ra)
  BY <1>1, <1>2, <1>4, Bypass
<1>6. e1'[1].pc = pcX
  BY <1>3, IssuedFields
<1>7. Inst(prog', e1'[1]) = prog[pcX] /\ Src(prog', e1'[1], Regs2') = Read(Regs4, prog[pcX].ra)
  BY <1>2, <1>6 DEF Inst, Src
<1>8. FitsE1(Issued(prog[pcX], pcX), prog[pcX], Read(Regs4, prog[pcX].ra))
  BY <1>3, <1>5, IssuedFits DEF FlowInv
<1> QED BY <1>5, <1>7, <1>8

(* The second one, which must not need the first.                          *)
LEMMA SecondFits ==
  ASSUME PipeType, OrderInv, FlowInv, NEW done \in BOOLEAN, NEW err \in BOOLEAN, NEW fin \in BOOLEAN,
         NEW lsuStall \in BOOLEAN, TwoStep(lsuStall, done, err, fin), Moved(done, err), Clean2'
  PROVE  LET b == prog[PCAfter(pcX)] IN
         /\ Operand(b.ra) = Read(Regs3', b.ra)
         /\ FitsE1(e1'[2], Inst(prog', e1'[2]), Src(prog', e1'[2], Regs3'))
<1> DEFINE a == prog[pcX]
           b == prog[PCAfter(pcX)]
<1>1. PICK w \in {0, 1} : Ready(w, lsuStall, done, err)
  BY DEF TwoStep
<1>2. /\ a \in Instrs /\ b \in Instrs /\ PCAfter(pcX) \in PCs /\ pcX \in PCs /\ ~take
      /\ Free(b, Scoreboard(a) \cup Claims(a))
      /\ e1'[1] = Issued(a, pcX) /\ e1'[2] = Issued(b, PCAfter(pcX))
  BY DEF TwoStep, PipeType
<1>3. ~SquashAny(done, err) /\ ~divPend /\ ~csrPend
  BY <1>1 DEF Ready, Blocked
<1>4. Clean2 /\ Clean1(1) /\ Clean1(2) /\ Regs2' = Regs4 /\ prog' = prog
  BY <1>3, E2Moves DEF Moved
<1>5. b.ra \in Regs /\ b.ra \notin Scoreboard(a) /\ b.ra \notin Claims(a)
  BY <1>2 DEF Free, Instrs
<1>6. Operand(b.ra) = Read(Regs4, b.ra)
  BY <1>3, <1>4, <1>5, Bypass
<1>7. e1'[1].rd = (IF a.kind \in WritesRd THEN a.rd ELSE 0) /\ e1'[2].pc = PCAfter(pcX)
  BY <1>2, IssuedFields
<1>8. b.ra = 0 \/ e1'[1].rd # b.ra
  BY <1>5, <1>7 DEF Claims
<1>9. Regs3' = Put(Regs4, e1'[1])
  BY <1>4 DEF Regs3
<1>10. Read(Regs3', b.ra) = Read(Regs4, b.ra)
  BY <1>5, <1>8, <1>9 DEF Read, Put
<1>11. Inst(prog', e1'[2]) = b /\ Src(prog', e1'[2], Regs3') = Read(Regs3', b.ra)
  BY <1>4, <1>7 DEF Inst, Src
<1>12. FitsE1(Issued(b, PCAfter(pcX)), b, Read(Regs3', b.ra))
  BY <1>2, <1>6, <1>10, IssuedFits DEF FlowInv
<1> QED BY <1>2, <1>6, <1>10, <1>11, <1>12

LEMMA NothingFits ==
  ASSUME NEW x, x.kind = "none", NEW i, NEW src
  PROVE  FitsE1(x, i, src) /\ FitsE2(x, i, src)
  BY DEF FitsE1, FitsE2, Real

LEMMA MovedInOrder ==
  ASSUME PipeType, OrderInv, FlowInv, NEW done \in BOOLEAN, NEW err \in BOOLEAN, NEW fin \in BOOLEAN,
         NEW lsuStall \in BOOLEAN, Moved(done, err),
         \/ DrainStep(done, err, fin)
         \/ OneStep(lsuStall, done, err, fin)
         \/ TwoStep(lsuStall, done, err, fin)
  PROVE  InOrder'
<1>p. Pipes = {1, 2} /\ 1 \in Pipes /\ 2 \in Pipes
  BY DEF Pipes
<1>b. Bubble.kind = "none"
  BY DEF Bubble
<1>1. /\ FitsE2(e2'[1], Inst(prog', e2'[1]), Src(prog', e2'[1], Written'))
      /\ e2'[1].exc = "none" => /\ FitsE2(e2'[2], Inst(prog', e2'[2]), Src(prog', e2'[2], Regs1'))
                                /\ e2'[2].kind = "none" => e2'[2].exc = "none"
  <2>1. CASE SquashAny(done, err)
    <3>1. e2'[1].kind = "none" /\ e2'[2].kind = "none" /\ e2'[2].exc = "none"
      BY <1>p, <2>1, MovedFields DEF Moved
    <3> QED BY <3>1, NothingFits
  <2>2. CASE ~SquashAny(done, err)
    BY <2>2, FitsMoves
  <2> QED BY <2>1, <2>2
<1>2. ASSUME Clean2'
      PROVE  FitsE1(e1'[1], Inst(prog', e1'[1]), Src(prog', e1'[1], Regs2'))
  <2>1. CASE DrainStep(done, err, fin)
    <3>1. e1'[1].kind = "none"
      BY <1>b, <2>1 DEF DrainStep
    <3> QED BY <3>1, NothingFits
  <2>2. CASE OneStep(lsuStall, done, err, fin) \/ TwoStep(lsuStall, done, err, fin)
    <3>1. PICK w \in {0, 1} : Ready(w, lsuStall, done, err)
      BY <2>2 DEF OneStep, TwoStep
    <3>2. e1'[1] = Issued(prog[pcX], pcX)
      BY <2>2 DEF OneStep, TwoStep
    <3> QED BY <1>2, <3>1, <3>2, FirstFits
  <2> QED BY <2>1, <2>2
<1>3. ASSUME Clean2'
      PROVE  FitsE1(e1'[2], Inst(prog', e1'[2]), Src(prog', e1'[2], Regs3'))
  <2>1. CASE DrainStep(done, err, fin) \/ OneStep(lsuStall, done, err, fin)
    <3>1. e1'[2].kind = "none"
      BY <1>b, <2>1 DEF DrainStep, OneStep
    <3> QED BY <3>1, NothingFits
  <2>2. CASE TwoStep(lsuStall, done, err, fin)
    BY <1>3, <2>2, SecondFits
  <2> QED BY <2>1, <2>2
<1> QED BY <1>1, <1>2, <1>3 DEF InOrder

LEMMA MovedFollows ==
  ASSUME PipeType, OrderInv, FlowInv, NEW done \in BOOLEAN, NEW err \in BOOLEAN, NEW fin \in BOOLEAN,
         NEW lsuStall \in BOOLEAN, Moved(done, err),
         \/ DrainStep(done, err, fin)
         \/ OneStep(lsuStall, done, err, fin)
         \/ TwoStep(lsuStall, done, err, fin)
  PROVE  Follows'
<1>p. Pipes = {1, 2} /\ 1 \in Pipes /\ 2 \in Pipes
  BY DEF Pipes
<1>b. Bubble.kind = "none"
  BY DEF Bubble
<1>g. prog' = prog /\ pcX \in PCs
  BY DEF Moved, PipeType
<1>1. /\ e2'[1].kind # "none" /\ e2'[1].exc = "none" => PC2' = After(prog', e2'[1], Written')
      /\ e2'[2].kind # "none" /\ Clean2' => PC3' = After(prog', e2'[2], Regs1')
  <2>1. CASE SquashAny(done, err)
    <3>1. e2'[1].kind = "none" /\ e2'[2].kind = "none"
      BY <1>p, <2>1, MovedFields DEF Moved
    <3> QED BY <3>1
  <2>2. CASE ~SquashAny(done, err)
    <3>1. /\ Clean2 /\ Written' = Regs2
          /\ e2'[1].exc = "none" => Clean1(1) /\ Regs1' = Regs3
          /\ Clean2' => Clean1(1) /\ Clean1(2) /\ Regs2' = Regs4
          /\ \A p \in Pipes : e2'[p].kind = e1[p].kind /\ e2'[p].pc = e1[p].pc /\ e2'[p].res = e1[p].res
      BY <2>2, E2Moves
    <3>2. e1[1].kind # "none" => ~redirect.on
      BY <1>p DEF OrderInv, Traps, LineEmpty
    <3>3. e1[1].kind # "none" => PC3' = pcX
      BY <3>2 DEF Moved
    <3>4. e1[2].kind # "none" => e1[1].kind # "none"
      BY DEF OrderInv, InPairs
    <3>5. ASSUME e2'[1].kind # "none", e2'[1].exc = "none"
          PROVE  PC2' = After(prog', e2'[1], Written')
      <4>1. e1[1].kind # "none" /\ PC4 = After(prog, e1[1], Regs2)
        BY <1>p, <3>1, <3>5 DEF FlowInv, Follows
      <4>2. PC2' = PC4
        BY <1>p, <3>1, <3>3, <4>1 DEF PC2, PC4
      <4>3. After(prog', e2'[1], Written') = After(prog, e1[1], Regs2)
        BY <1>g, <1>p, <3>1 DEF After, Inst, Src
      <4> QED BY <4>1, <4>2, <4>3
    <3>6. ASSUME e2'[2].kind # "none", Clean2'
          PROVE  PC3' = After(prog', e2'[2], Regs1')
      <4>1. e1[2].kind # "none" /\ pcX = After(prog, e1[2], Regs3)
        BY <1>p, <3>1, <3>6 DEF FlowInv, Follows
      <4>2. Regs1' = Regs3
        BY <3>1, <3>6 DEF Clean2
      <4>3. After(prog', e2'[2], Regs1') = After(prog, e1[2], Regs3)
        BY <1>g, <1>p, <3>1, <4>2 DEF After, Inst, Src
      <4> QED BY <3>3, <3>4, <4>1, <4>3
    <3> QED BY <3>5, <3>6
  <2> QED BY <2>1, <2>2
<1>2. ASSUME e1'[1].kind # "none", Clean2', Clean1(1)'
      PROVE  PC4' = After(prog', e1'[1], Regs2')
  <2> DEFINE a == prog[pcX]
  <2>1. OneStep(lsuStall, done, err, fin) \/ TwoStep(lsuStall, done, err, fin)
    BY <1>2, <1>b DEF DrainStep
  <2>2. PICK w \in {0, 1} : Ready(w, lsuStall, done, err)
    BY <2>1 DEF OneStep, TwoStep
  <2>3. a \in Instrs /\ e1'[1] = Issued(a, pcX)
    BY <2>1 DEF OneStep, TwoStep
  <2>4. Operand(a.ra) = Read(Regs4, a.ra) /\ Regs2' = Regs4
    <3>1. ~SquashAny(done, err)
      BY <2>2 DEF Ready
    <3> QED BY <1>2, <2>2, <2>3, <3>1, FirstFits, E2Moves
  <2>5. /\ e1'[1].kind = (IF take THEN "intr" ELSE a.kind) /\ e1'[1].pc = pcX
        /\ e1'[1].exc = IF a.kind = "fault" THEN "fault"
                        ELSE IF a.kind = "badjump" /\ Taken(a) THEN "misaligned" ELSE "none"
    BY <1>g, <2>3, IssuedFields
  <2>6. ~take /\ ~(a.kind = "badjump" /\ Taken(a))
    BY <1>2, <2>5 DEF Clean1
  <2>7. After(prog', e1'[1], Regs2') = IF Taken(a) THEN a.to ELSE PCAfter(pcX)
    <3>1. After(prog', e1'[1], Regs2') = GoesTo(a, pcX, Operand(a.ra))
      BY <1>g, <2>4, <2>5 DEF After, Inst, Src
    <3>2. Taken(a) <=> a.kind = "branch" /\ Operand(a.ra) = 0
      BY <2>6 DEF Taken, Jumps
    <3> QED BY <3>1, <3>2 DEF GoesTo
  <2>8. CASE OneStep(lsuStall, done, err, fin)
    <3>1. e1'[2].kind = "none" /\ pcX' = IF Taken(a) THEN a.to ELSE IF take THEN pcX ELSE PCAfter(pcX)
      BY <1>b, <2>8 DEF OneStep
    <3>2. pcX' = IF Taken(a) THEN a.to ELSE PCAfter(pcX)
      BY <2>6, <3>1
    <3> QED BY <2>7, <3>1, <3>2 DEF PC4
  <2>9. CASE TwoStep(lsuStall, done, err, fin)
    <3>1. e1'[2] = Issued(prog[PCAfter(pcX)], PCAfter(pcX)) /\ prog[PCAfter(pcX)] \in Instrs
          /\ PCAfter(pcX) \in PCs /\ ~Taken(a)
      BY <2>9 DEF TwoStep, MayPair, Taken, Jumps, Memory
    <3>2. e1'[2].kind # "none" /\ e1'[2].pc = PCAfter(pcX)
      BY <3>1, IssuedFields
    <3> QED BY <2>7, <3>1, <3>2 DEF PC4
  <2> QED BY <2>1, <2>8, <2>9
<1>3. ASSUME e1'[2].kind # "none", Clean2', Clean1(1)', Clean1(2)'
      PROVE  pcX' = After(prog', e1'[2], Regs3')
  <2> DEFINE a == prog[pcX]
             b == prog[PCAfter(pcX)]
  <2>1. TwoStep(lsuStall, done, err, fin)
    BY <1>3, <1>b DEF DrainStep, OneStep
  <2>2. /\ e1'[2] = Issued(b, PCAfter(pcX)) /\ b \in Instrs /\ PCAfter(pcX) \in PCs /\ ~Taken(a)
        /\ pcX' = IF Taken(b) THEN b.to ELSE IF Taken(a) THEN a.to ELSE PCAfter(PCAfter(pcX))
    BY <2>1 DEF TwoStep, MayPair, Taken, Jumps, Memory
  <2>3. Operand(b.ra) = Read(Regs3', b.ra)
    BY <1>3, <2>1, SecondFits
  <2>4. /\ e1'[2].pc = PCAfter(pcX)
        /\ e1'[2].exc = IF b.kind = "fault" THEN "fault"
                        ELSE IF b.kind = "badjump" /\ Taken(b) THEN "misaligned" ELSE "none"
    BY <2>2, IssuedFields
  <2>5. ~(b.kind = "badjump" /\ Taken(b))
    BY <1>3, <2>4 DEF Clean1
  <2>6. After(prog', e1'[2], Regs3') = GoesTo(b, PCAfter(pcX), Operand(b.ra))
    BY <1>g, <2>3, <2>4 DEF After, Inst, Src
  <2>7. Taken(b) <=> b.kind = "branch" /\ Operand(b.ra) = 0
    BY <2>5 DEF Taken, Jumps
  <2> QED BY <2>2, <2>6, <2>7 DEF GoesTo
<1> QED BY <1>1, <1>2, <1>3 DEF Follows

(* With a division in the program nothing abandons what is in E1 but what  *)
(* cannot be there with a division.                                        *)
LEMMA DivisionStays ==
  ASSUME DivisionsEnd, PipeType, OrderInv, FlowInv, e1[1].kind = "div",
         NEW done \in BOOLEAN, NEW err \in BOOLEAN
  PROVE  ~SquashAny(done, err)
<1>p. Pipes = {1, 2} /\ 1 \in Pipes /\ 2 \in Pipes
  BY DEF Pipes
<1>1. prog[e1[1].pc].kind = "div" /\ e1[1].pc \in PCs /\ prog \in Programs
  BY <1>p, StageTypes DEF FlowInv, Sources, Real
<1>2. ~Interrupts /\ \A p \in PCs : prog[p].kind # "badjump"
  BY <1>1 DEF DivisionsEnd
<1>3. ASSUME NEW p \in Pipes PROVE E2Exc(p, done, err) = "none"
  <2>1. e2[p].kind \notin Memory
    BY <1>1 DEF FlowInv, DivOwn, MemoryInE2
  <2>2. e2[1].kind \notin CsrClass
    BY <1>p DEF OrderInv, CsrAlone
  <2>3. e2[p].kind # "badjump"
    BY <1>2, StageTypes DEF FlowInv, Sources, Real
  <2>4. e2[p].kind # "intr"
    BY <1>2 DEF FlowInv, Sources
  <2>5. e2[p].exc = "none"
    BY <2>2, <2>3, <2>4 DEF FlowInv, Sources
  <2> QED BY <2>1, <2>5 DEF E2Exc
<1>4. \A p \in Pipes : ~sq[p]
  BY <1>p DEF OrderInv, Traps, LineEmpty
<1> QED BY <1>3, <1>4 DEF SquashAny, Squash

LEMMA StepDivOwn == DivisionsEnd /\ PipeType /\ OrderInv /\ FlowInv /\ [Next]_vars => DivOwn'
<1> SUFFICES ASSUME DivisionsEnd, PipeType, OrderInv, FlowInv, [Next]_vars PROVE DivOwn'
  OBVIOUS
<1>p. Pipes = {1, 2} /\ 1 \in Pipes /\ 2 \in Pipes
  BY DEF Pipes
<1>b. Bubble.kind = "none"
  BY DEF Bubble
<1>i. DivOwn
  BY DEF FlowInv
<1>t. div.busy \in BOOLEAN /\ div.valid \in BOOLEAN
  BY DEF PipeType
<1>1. CASE UNCHANGED vars
  BY <1>1, <1>i DEF DivOwn, MemoryInE2, vars
<1>2. ASSUME NEW done \in BOOLEAN, NEW err \in BOOLEAN, NEW fin \in BOOLEAN, HoldStep(done, err, fin)
      PROVE  DivOwn'
  <2>1. /\ UNCHANGED <<e1, e2>> /\ Divide(FALSE, Junk, fin)
        /\ divPend' = DivPendAfter(FALSE, SquashAny(done, err))
        /\ Waits(done)
    BY <1>2 DEF HoldStep
  <2>2. /\ div'.busy = (div.busy /\ ~fin) /\ div'.res = div.res
        /\ div'.valid = (div.busy /\ fin)
        /\ div'.out = IF div.busy /\ fin THEN div.res ELSE Junk
    BY <2>1 DEF Divide
  <2>3. CASE e1[1].kind = "div"
    <3>1. ~MemoryInE2 /\ divPend /\ ~div.valid /\ div.busy /\ div.res = e1[1].res
      BY <1>i, <2>1, <2>3 DEF DivOwn, Waits, MemoryInE2
    <3>2. divPend'
      BY <2>1, <2>3, <3>1, DivisionStays DEF DivPendAfter
    <3> QED BY <2>1, <2>2, <2>3, <3>1, <3>2 DEF DivOwn, MemoryInE2
  <2>4. CASE e1[1].kind # "div"
    <3>1. ~div.busy /\ ~div.valid
      BY <1>i, <2>4 DEF DivOwn
    <3>2. ~div'.busy /\ ~div'.valid
      BY <2>2, <3>1
    <3> QED BY <2>1, <2>4, <3>2 DEF DivOwn
  <2> QED BY <2>3, <2>4
<1>3. ASSUME NEW done \in BOOLEAN, NEW err \in BOOLEAN, NEW fin \in BOOLEAN, DrainStep(done, err, fin)
      PROVE  DivOwn'
  <2>1. Divide(FALSE, Junk, fin) /\ ~Waits(done) /\ e1'[1].kind = "none"
    BY <1>3, <1>b DEF DrainStep
  <2>2. ~div.busy
    BY <1>i, <2>1 DEF DivOwn, Waits
  <2>3. ~div'.busy /\ ~div'.valid
    BY <2>1, <2>2 DEF Divide
  <2> QED BY <2>1, <2>3 DEF DivOwn
<1>4. ASSUME NEW lsuStall \in BOOLEAN, NEW done \in BOOLEAN, NEW err \in BOOLEAN, NEW fin \in BOOLEAN,
             OneStep(lsuStall, done, err, fin) \/ TwoStep(lsuStall, done, err, fin)
      PROVE  DivOwn'
  <2> DEFINE a == prog[pcX]
  <2>1. PICK w \in {0, 1} : Ready(w, lsuStall, done, err)
    BY <1>4 DEF OneStep, TwoStep
  <2>2. /\ a \in Instrs /\ e1'[1] = Issued(a, pcX) /\ Divide(Start(a), Succ(Operand(a.ra)), fin)
        /\ divPend' = DivPendAfter(Start(a), FALSE) /\ Advance(done, err)
    BY <1>4 DEF OneStep, TwoStep
  <2>3. ~divPend /\ Free(a, Scoreboard(a)) /\ ~SquashAny(done, err)
    BY <2>1 DEF Ready, Blocked
  <2>4. ~div.busy /\ ~div.valid
    BY <1>i, <2>3 DEF DivOwn
  <2>5. /\ e1'[1].kind = (IF take THEN "intr" ELSE a.kind) /\ e1'[1].res = Succ(Operand(a.ra))
    BY <2>2, IssuedFields DEF PipeType
  <2>6. CASE Start(a)
    <3>1. a.kind = "div"
      BY <2>6 DEF Start
    <3>2. ~take
      <4>1. pcX \in PCs /\ prog \in Programs
        BY DEF PipeType, FlowInv, Sources
      <4>2. ~Interrupts
        BY <3>1, <4>1 DEF DivisionsEnd
      <4>3. take => Interrupts
        BY DEF FlowInv, Sources
      <4> QED BY <4>2, <4>3
    <3>3. e1'[1].kind = "div"
      BY <2>5, <3>1, <3>2
    <3>4. div'.busy /\ ~div'.valid /\ div'.res = Succ(Operand(a.ra))
      BY <2>2, <2>4, <2>6 DEF Divide
    <3>5. divPend'
      BY <2>2, <2>6 DEF DivPendAfter
    <3>6. ~MemoryInE2'
      <4>1. a.ra \in Regs
        BY <2>2 DEF Instrs
      <4>2. ~MemoryInE1
        BY <2>3, <3>1, <4>1 DEF Free, Scoreboard
      <4>3. \A p \in Pipes : e2'[p].kind = e1[p].kind
        BY <2>2, <2>3, MovedFields
      <4> QED BY <4>2, <4>3 DEF MemoryInE1, MemoryInE2
    <3> QED BY <2>5, <3>3, <3>4, <3>5, <3>6 DEF DivOwn
  <2>7. CASE ~Start(a)
    <3>1. e1'[1].kind # "div"
      BY <2>5, <2>7 DEF Start
    <3>2. ~div'.busy /\ ~div'.valid
      BY <2>2, <2>4, <2>7 DEF Divide
    <3> QED BY <3>1, <3>2 DEF DivOwn
  <2> QED BY <2>6, <2>7
<1> QED BY <1>1, <1>2, <1>3, <1>4, ClockCases

LEMMA StepCsrOwn == PipeType /\ OrderInv /\ FlowInv /\ [Next]_vars => CsrOwn'
<1> SUFFICES ASSUME PipeType, OrderInv, FlowInv, [Next]_vars PROVE CsrOwn'
  OBVIOUS
<1>b. Bubble.kind = "none" /\ "none" \notin CsrClass /\ "intr" \notin CsrClass /\ "div" \notin CsrClass
  BY DEF Bubble, CsrClass
<1>1. CASE UNCHANGED vars
  BY <1>1 DEF FlowInv, CsrOwn, vars
<1>2. ASSUME NEW done \in BOOLEAN, NEW err \in BOOLEAN, NEW fin \in BOOLEAN, HoldStep(done, err, fin)
      PROVE  CsrOwn'
  <2>1. UNCHANGED e1 /\ (e1[1].kind = "div" \/ MemoryInE2)
    BY <1>2 DEF HoldStep, Waits, MemoryInE2
  <2>2. e1[1].kind \notin CsrClass
    BY <1>b, <2>1 DEF OrderInv, CsrAlone
  <2> QED BY <2>1, <2>2 DEF CsrOwn
<1>3. ASSUME NEW done \in BOOLEAN, NEW err \in BOOLEAN, NEW fin \in BOOLEAN, DrainStep(done, err, fin)
      PROVE  CsrOwn'
  BY <1>3, <1>b DEF DrainStep, CsrOwn
<1>4. ASSUME NEW lsuStall \in BOOLEAN, NEW done \in BOOLEAN, NEW err \in BOOLEAN, NEW fin \in BOOLEAN,
             OneStep(lsuStall, done, err, fin) \/ TwoStep(lsuStall, done, err, fin)
      PROVE  CsrOwn'
  <2> DEFINE a == prog[pcX]
  <2>1. /\ a \in Instrs /\ e1'[1] = Issued(a, pcX)
        /\ ~take => csrOut' = CsrResult(a)
    BY <1>4 DEF OneStep, TwoStep
  <2>2. /\ e1'[1].kind = (IF take THEN "intr" ELSE a.kind) /\ e1'[1].res = Succ(Operand(a.ra))
    BY <2>1, IssuedFields DEF PipeType
  <2>3. ASSUME e1'[1].kind \in CsrClass
        PROVE  csrOut'.val = e1'[1].res /\ csrOut'.exc = CsrExcOf(e1'[1].kind)
    <3>1. e1'[1].kind = a.kind /\ csrOut' = CsrResult(a)
      BY <1>b, <2>1, <2>2, <2>3
    <3> QED BY <2>2, <2>3, <3>1 DEF CsrResult, CsrExcOf
  <2> QED BY <2>3 DEF CsrOwn
<1> QED BY <1>1, <1>2, <1>3, <1>4, ClockCases

LEMMA StepSources == PipeType /\ OrderInv /\ FlowInv /\ [Next]_vars => Sources'
<1> SUFFICES ASSUME PipeType, OrderInv, FlowInv, [Next]_vars PROVE Sources'
  OBVIOUS
<1>p. Pipes = {1, 2} /\ 1 \in Pipes /\ 2 \in Pipes
  BY DEF Pipes
<1>b. Bubble.kind = "none" /\ Bubble.exc = "none"
  BY DEF Bubble
<1>i. Sources
  BY DEF FlowInv
<1>1. CASE UNCHANGED vars
  BY <1>1, <1>i DEF Sources, vars
<1>2. ASSUME NEW done \in BOOLEAN, NEW err \in BOOLEAN, NEW fin \in BOOLEAN, Around(done, err, fin)
      PROVE  prog' = prog /\ prog' \in Programs /\ (irq' => Interrupts) /\ (take' => Interrupts)
  <2>1. irq' => Interrupts
    <3>1. irq' = FALSE \/ irq' = irq \/ irq' = Interrupts
      BY <1>2 DEF Around, Csr
    <3>2. irq => Interrupts
      BY <1>i DEF Sources
    <3> QED BY <3>1, <3>2
  <2>2. take' => Interrupts
    BY <1>2, <1>i DEF Around, Sources
  <2> QED BY <1>2, <1>i, <2>1, <2>2 DEF Around, Sources
<1>3. ASSUME NEW done \in BOOLEAN, NEW err \in BOOLEAN, Advance(done, err), prog' = prog, NEW p \in Pipes
      PROVE  /\ Real(e2'[p]) => e2'[p].kind = prog'[e2'[p].pc].kind
             /\ e2'[p].kind = "intr" => Interrupts
             /\ e2'[p].exc = "none" \/ e2'[1].kind \in CsrClass \/ e2'[p].kind \in {"badjump", "intr"}
  <2>1. CASE SquashAny(done, err)
    <3>1. e2'[p].kind = "none" /\ e2'[p].exc = "none"
      BY <1>3, <2>1, MovedFields
    <3> QED BY <3>1 DEF Real
  <2>2. CASE ~SquashAny(done, err)
    <3>1. /\ e2'[p].kind = e1[p].kind /\ e2'[p].pc = e1[p].pc /\ e2'[1].kind = e1[1].kind
          /\ e2'[p].exc = IF e1[p].kind = "intr" THEN "intr"
                          ELSE IF e1[p].exc # "none" THEN e1[p].exc ELSE csrOut.exc
      BY <1>3, <1>p, <2>2, MovedFields
    <3>2. Real(e2'[p]) => e2'[p].kind = prog'[e2'[p].pc].kind
      BY <1>3, <1>i, <3>1 DEF Sources, Real
    <3>3. e2'[p].kind = "intr" => Interrupts
      BY <1>i, <3>1 DEF Sources
    <3>4. e1[p].exc = "none" \/ e1[p].kind \in {"fault", "badjump", "intr"}
      BY <1>i DEF Sources
    <3>5. e1[p].kind = "fault" => e1[1].kind \in CsrClass
      BY <1>p DEF OrderInv, InPairs, SecondKinds, Memory, Jumps, CsrClass
    <3>6. csrOut.exc # "none" => e1[1].kind \in CsrClass
      BY DEF OrderInv, Traps
    <3>7. e2'[p].exc = "none" \/ e2'[1].kind \in CsrClass \/ e2'[p].kind \in {"badjump", "intr"}
      BY <3>1, <3>4, <3>5, <3>6
    <3> QED BY <3>2, <3>3, <3>7
  <2> QED BY <2>1, <2>2
<1>4. ASSUME NEW done \in BOOLEAN, NEW err \in BOOLEAN, NEW fin \in BOOLEAN, HoldStep(done, err, fin)
      PROVE  Sources'
  <2>1. UNCHANGED <<e1, e2, prog>> /\ Around(done, err, fin)
    BY <1>4 DEF HoldStep, Around
  <2> QED BY <1>2, <1>i, <2>1 DEF Sources
<1>5. ASSUME NEW x \in Stages, NEW pc \in PCs, x = Issued(prog[pc], pc), prog' = prog
      PROVE  /\ Real(x) => x.kind = prog'[x.pc].kind
             /\ x.kind = "intr" => Interrupts
             /\ x.exc = "none" \/ x.kind \in {"fault", "badjump", "intr"}
  <2>1. prog[pc] \in Instrs
    BY DEF PipeType
  <2>2. /\ x.kind = (IF take THEN "intr" ELSE prog[pc].kind) /\ x.pc = pc
        /\ x.exc = IF prog[pc].kind = "fault" THEN "fault"
                   ELSE IF prog[pc].kind = "badjump" /\ Taken(prog[pc]) THEN "misaligned" ELSE "none"
        /\ prog[pc].kind \in Kinds
    BY <1>5, <2>1, IssuedFields
  <2>3. Real(x) => x.kind = prog'[x.pc].kind
    BY <1>5, <2>2 DEF Real
  <2>4. x.kind = "intr" => Interrupts
    <3>1. prog[pc].kind # "intr"
      BY <2>2 DEF Kinds, Memory, CsrClass, Jumps
    <3>2. x.kind = "intr" => take
      BY <2>2, <3>1
    <3> QED BY <1>i, <3>2 DEF Sources
  <2>5. x.exc = "none" \/ x.kind \in {"fault", "badjump", "intr"}
    BY <2>2
  <2> QED BY <2>3, <2>4, <2>5
<1>6. ASSUME NEW done \in BOOLEAN, NEW err \in BOOLEAN, NEW fin \in BOOLEAN, DrainStep(done, err, fin)
      PROVE  Sources'
  <2>1. Around(done, err, fin) /\ Advance(done, err) /\ e1'[1] = Bubble /\ e1'[2] = Bubble
    BY <1>6 DEF DrainStep
  <2>2. prog' = prog /\ prog' \in Programs /\ (irq' => Interrupts) /\ (take' => Interrupts)
    BY <1>2, <2>1
  <2>3. \A p \in Pipes : e1'[p].kind = "none" /\ e1'[p].exc = "none"
    BY <1>b, <1>p, <2>1
  <2> QED BY <1>3, <2>1, <2>2, <2>3 DEF Sources, Real
<1>7. ASSUME NEW lsuStall \in BOOLEAN, NEW done \in BOOLEAN, NEW err \in BOOLEAN, NEW fin \in BOOLEAN,
             OneStep(lsuStall, done, err, fin) \/ TwoStep(lsuStall, done, err, fin)
      PROVE  Sources'
  <2>1. Around(done, err, fin) /\ Advance(done, err) /\ e1'[1] = Issued(prog[pcX], pcX)
        /\ pcX \in PCs
    BY <1>7 DEF OneStep, TwoStep, PipeType
  <2>2. prog' = prog /\ prog' \in Programs /\ (irq' => Interrupts) /\ (take' => Interrupts)
    BY <1>2, <2>1
  <2>3. e1'[2] = Bubble \/ (PCAfter(pcX) \in PCs /\ e1'[2] = Issued(prog[PCAfter(pcX)], PCAfter(pcX)))
    BY <1>7 DEF OneStep, TwoStep
  <2>4. e1'[1] \in Stages /\ e1'[2] \in Stages
    <3>1. PipeType'
      BY StepType
    <3> QED BY <1>p, <3>1 DEF PipeType
  <2>5. \A p \in Pipes :
          /\ Real(e1'[p]) => e1'[p].kind = prog'[e1'[p].pc].kind
          /\ e1'[p].kind = "intr" => Interrupts
          /\ e1'[p].exc = "none" \/ e1'[p].kind \in {"fault", "badjump", "intr"}
    <3>1. /\ Real(e1'[1]) => e1'[1].kind = prog'[e1'[1].pc].kind
          /\ e1'[1].kind = "intr" => Interrupts
          /\ e1'[1].exc = "none" \/ e1'[1].kind \in {"fault", "badjump", "intr"}
      BY <1>5, <2>1, <2>2, <2>4
    <3>2. /\ Real(e1'[2]) => e1'[2].kind = prog'[e1'[2].pc].kind
          /\ e1'[2].kind = "intr" => Interrupts
          /\ e1'[2].exc = "none" \/ e1'[2].kind \in {"fault", "badjump", "intr"}
      <4>1. CASE e1'[2] = Bubble
        BY <1>b, <4>1 DEF Real
      <4>2. CASE PCAfter(pcX) \in PCs /\ e1'[2] = Issued(prog[PCAfter(pcX)], PCAfter(pcX))
        BY <1>5, <2>2, <2>4, <4>2
      <4> QED BY <2>3, <4>1, <4>2
    <3> QED BY <1>p, <3>1, <3>2
  <2>6. \A p \in Pipes :
          /\ Real(e2'[p]) => e2'[p].kind = prog'[e2'[p].pc].kind
          /\ e2'[p].kind = "intr" => Interrupts
          /\ e2'[p].exc = "none" \/ e2'[1].kind \in CsrClass \/ e2'[p].kind \in {"badjump", "intr"}
    BY <1>3, <2>1, <2>2
  <2> QED BY <2>2, <2>5, <2>6 DEF Sources, Real
<1> QED BY <1>1, <1>4, <1>6, <1>7, ClockCases

(* Nothing moves.                                                          *)
LEMMA HeldFlow ==
  ASSUME PipeType, OrderInv, FlowInv, NEW done \in BOOLEAN, NEW err \in BOOLEAN, NEW fin \in BOOLEAN,
         HoldStep(done, err, fin)
  PROVE  /\ InOrder' /\ Follows' /\ Written' = Written /\ PC1' = PC1
         /\ TrapSlot.exc = "none" /\ TrapSlot' = TrapSlot /\ ~redirect.on
<1>1. UNCHANGED <<e1, e2, wb, regs, prog>> /\ (e1[1].kind = "div" \/ MemoryInE2) /\ csrOut' = NoCsr
      /\ pcX' = IF redirect.on THEN redirect.pc ELSE pcX
  BY DEF HoldStep, Around, Waits, MemoryInE2
<1>2. ~LineEmpty
  BY <1>1 DEF LineEmpty, MemoryInE2, Memory, Pipes
<1>3. ~redirect.on /\ TrapSlot.exc = "none"
  BY <1>2 DEF OrderInv, Traps
<1>4. csrOut.exc = "none" /\ csrOut'.exc = "none" /\ pcX' = pcX
  <2>1. e1[1].kind \notin CsrClass
    BY <1>1 DEF OrderInv, CsrAlone, CsrClass
  <2> QED BY <1>1, <1>3, <2>1 DEF OrderInv, Traps, NoCsr
<1>5. /\ Written' = Written /\ Regs1' = Regs1 /\ Regs2' = Regs2 /\ Regs3' = Regs3
      /\ PC4' = PC4 /\ PC3' = PC3 /\ PC2' = PC2 /\ PC1' = PC1
  BY <1>1, <1>4 DEF Written, Regs1, Regs2, Regs3, PC1, PC2, PC3, PC4
<1>6. Clean2' = Clean2 /\ (\A p \in Pipes : Clean1(p)' <=> Clean1(p)) /\ (Clean1(1)' <=> Clean1(1)) /\ (Clean1(2)' <=> Clean1(2))
  BY <1>1, <1>4 DEF Clean2, Clean1
<1>7. InOrder'
  BY <1>1, <1>5, <1>6 DEF FlowInv, InOrder
<1>8. Follows'
  BY <1>1, <1>4, <1>5, <1>6 DEF FlowInv, Follows
<1>9. TrapSlot' = TrapSlot
  BY <1>1 DEF TrapSlot
<1> QED BY <1>3, <1>5, <1>7, <1>8, <1>9

LEMMA InitFlow == Init => FlowInv
<1> SUFFICES ASSUME Init PROVE FlowInv
  OBVIOUS
<1>1. /\ \A p \in Pipes : e1[p] = Bubble /\ e2[p] = Bubble
      /\ e1[1] = Bubble /\ e1[2] = Bubble /\ e2[1] = Bubble /\ e2[2] = Bubble
  BY DEF Init, Pipes
<1>2. Bubble.kind = "none" /\ Bubble.rd = 0 /\ Bubble.exc = "none"
  BY DEF Bubble
<1>3. InOrder /\ Follows
  BY <1>1, <1>2, NothingFits DEF InOrder, Follows
<1>4. CsrOwn
  BY <1>1, <1>2 DEF CsrOwn, CsrClass
<1>5. DivOwn
  BY <1>1, <1>2 DEF DivOwn, Init
<1>6. Sources
  BY <1>1, <1>2 DEF Sources, Real, Init
<1> QED BY <1>3, <1>4, <1>5, <1>6 DEF FlowInv

LEMMA StepFlow == DivisionsEnd /\ PipeType /\ OrderInv /\ FlowInv /\ [Next]_vars => FlowInv'
<1> SUFFICES ASSUME DivisionsEnd, PipeType, OrderInv, FlowInv, [Next]_vars PROVE FlowInv'
  OBVIOUS
<1>1. CsrOwn' /\ DivOwn' /\ Sources'
  BY StepCsrOwn, StepDivOwn, StepSources
<1>2. InOrder' /\ Follows'
  <2>1. CASE UNCHANGED vars
    <3>1. /\ UNCHANGED <<prog, pcX, csrOut, e1, e2>>
          /\ Written' = Written /\ Regs1' = Regs1 /\ Regs2' = Regs2 /\ Regs3' = Regs3
          /\ PC4' = PC4 /\ PC3' = PC3 /\ PC2' = PC2
      BY <2>1 DEF vars, Written, Regs1, Regs2, Regs3, PC2, PC3, PC4
    <3>2. (Clean2' <=> Clean2) /\ (Clean1(1)' <=> Clean1(1)) /\ (Clean1(2)' <=> Clean1(2))
      BY <3>1 DEF Clean2, Clean1
    <3>3. InOrder'
      BY <3>1, <3>2 DEF FlowInv, InOrder
    <3>4. Follows'
      BY <3>1, <3>2 DEF FlowInv, Follows
    <3> QED BY <3>3, <3>4
  <2>2. CASE ~UNCHANGED vars
    BY <2>2, MovedCases, HeldFlow, MovedInOrder, MovedFollows
  <2> QED BY <2>1, <2>2
<1> QED BY <1>1, <1>2 DEF FlowInv

LEMMA FlowInvariant ==
  ASSUME DivisionsEnd
  PROVE  Spec => [](PipeType /\ OrderInv /\ FlowInv)
<1>1. Init => PipeType /\ OrderInv /\ FlowInv
  BY InitType, InitOrder, InitFlow
<1>2. PipeType /\ OrderInv /\ [Next]_vars => OrderInv'
  BY StepInPairs, StepTraps, StepCsrAlone, StepLaunched DEF OrderInv
<1>3. PipeType /\ OrderInv /\ FlowInv /\ [Next]_vars => (PipeType /\ OrderInv /\ FlowInv)'
  BY <1>2, StepType, StepFlow
<1> QED BY <1>1, <1>3, PTL DEF Spec

-----------------------------------------------------------------------------
(* Steps of the sequential machine                                         *)

State(pc, f, ep) == [pc |-> pc, regs |-> f, epc |-> ep]

LEMMA StateFields ==
  ASSUME NEW pc, NEW f, NEW ep
  PROVE  State(pc, f, ep).pc = pc /\ State(pc, f, ep).regs = f /\ State(pc, f, ep).epc = ep
  BY DEF State

(* An instruction that retires.                                            *)
LEMMA RetiresAs ==
  ASSUME PipeType, NEW x \in Stages, NEW f \in [Regs -> Values], NEW ep \in PCs,
         FitsE2(x, Inst(prog, x), Src(prog, x, f)), Real(x), x.exc = "none"
  PROVE  State(After(prog, x, f), Put(f, x), ep) \in SC!After(State(x.pc, f, ep))
<1> DEFINE i == prog[x.pc]
           src == Read(f, i.ra)
           s == State(x.pc, f, ep)
<1>1. x.pc \in PCs /\ i \in Instrs /\ x.rd \in Regs
  BY DEF Stages, PipeType
<1>2. x.kind = i.kind /\ x.res = Succ(src) /\ ExcOf(i, src) = "none" /\ x.rd = RdOf(i)
  BY DEF FitsE2, Inst, Src
<1>3. s.pc = x.pc /\ s.regs = f /\ s.epc = ep
  BY StateFields
<1> HIDE DEF s
<1>4. SC!Reads(s.regs, i.ra) = src
  BY <1>3 DEF SC!Reads, Read
<1> HIDE DEF src, i
<1>5. ~SC!AlwaysTraps(s, i)
  BY <1>2, <1>4 DEF SC!AlwaysTraps, ExcOf, EarlyOf
<1>6. i.kind # "eret"
  BY <1>2 DEF ExcOf, EarlyOf
<1>7. (IF i.kind \in SC!WritesRd THEN SC!Set(f, i.rd, SC!Succ(src)) ELSE f) = Put(f, x)
  <2>1. SC!Succ(src) = Succ(src) /\ SC!WritesRd = WritesRd
    BY DEF SC!Succ, Succ, SC!WritesRd, WritesRd
  <2>2. CASE i.kind \in WritesRd /\ i.rd # 0
    <3>1. x.rd = i.rd
      BY <1>2, <2>2 DEF RdOf
    <3>2. Put(f, x) = [f EXCEPT ![i.rd] = Succ(src)]
      BY <1>1, <1>2, <2>2, <3>1 DEF Put
    <3> QED BY <2>1, <2>2, <3>2 DEF SC!Set
  <2>3. CASE i.kind \notin WritesRd \/ i.rd = 0
    <3>1. x.rd = 0
      BY <1>2, <2>3 DEF RdOf
    <3>2. Put(f, x) = f
      BY <3>1, PutIs
    <3> QED BY <2>1, <2>3, <3>2 DEF SC!Set
  <2> QED BY <2>2, <2>3
<1>8. (IF i.kind = "branch" /\ src = 0 THEN i.to ELSE IF i.kind = "eret" THEN s.epc ELSE SC!PCAfter(s.pc))
        = After(prog, x, f)
  <2>1. SC!PCAfter(x.pc) = PCAfter(x.pc)
    BY DEF SC!PCAfter, PCAfter
  <2>2. After(prog, x, f) = GoesTo(i, x.pc, src)
    BY DEF After, Inst, Src, i, src
  <2> QED BY <1>3, <1>6, <2>1, <2>2 DEF GoesTo
<1>9. SC!Executed(s, i) = State(After(prog, x, f), Put(f, x), ep)
  <2>1. SC!Executed(s, i) = [s EXCEPT !.pc = After(prog, x, f), !.regs = Put(f, x)]
    BY <1>3, <1>4, <1>7, <1>8 DEF SC!Executed
  <2>2. s = [pc |-> x.pc, regs |-> f, epc |-> ep]
    BY DEF s, State
  <2> QED BY <2>1, <2>2 DEF State
<1>10. SC!Executed(s, i) \in SC!After(s)
  <2>1. prog[s.pc] = i
    BY <1>3 DEF i
  <2> QED BY <1>5, <2>1 DEF SC!After
<1> QED BY <1>9, <1>10 DEF s

(* Where one goes that leaves E2 with the exception exc.                   *)
DropPC(exc, pc, ep) == IF exc = "eret" THEN ep ELSE IF exc = "fence" THEN PCAfter(pc) ELSE TrapVec
DropEpc(exc, pc, ep) == IF exc \in {"eret", "fence"} THEN ep ELSE pc

LEMMA DropsAs ==
  ASSUME SatpWritesOnly, PipeType, prog \in Programs,
         NEW x \in Stages, NEW f \in [Regs -> Values], NEW ep \in PCs, NEW exc,
         FitsE2(x, Inst(prog, x), Src(prog, x, f)), x.kind # "none", exc # "none",
         \/ exc = x.exc /\ (x.kind = "intr" => exc = "intr")
         \/ exc = "memfault" /\ x.kind \in Memory /\ MemFaults
  PROVE  State(DropPC(exc, x.pc, ep), f, DropEpc(exc, x.pc, ep)) \in SC!After(State(x.pc, f, ep))
<1> DEFINE i == prog[x.pc]
           src == Read(f, i.ra)
           s == State(x.pc, f, ep)
<1>1. x.pc \in PCs /\ i \in Instrs
  BY DEF Stages, PipeType
<1>2. Real(x) => x.kind = i.kind /\ x.exc = ExcOf(i, src)
  BY DEF FitsE2, Inst, Src
<1>3. s.pc = x.pc /\ s.regs = f /\ s.epc = ep
  BY StateFields
<1>s. s = [pc |-> x.pc, regs |-> f, epc |-> ep]
  BY DEF s, State
<1> HIDE DEF s
<1>4. SC!Reads(s.regs, i.ra) = src
  BY <1>3 DEF SC!Reads, Read
<1>5. prog[s.pc] = i
  BY <1>3
<1>6. i.kind = "satp" => i.rd = 0
  BY <1>1 DEF SatpWritesOnly
<1> HIDE DEF src, i
<1>7. SC!Trapped(s) = State(TrapVec, f, x.pc)
  <2>1. SC!Trapped(s) = [s EXCEPT !.pc = TrapVec, !.epc = x.pc]
    BY <1>3 DEF SC!Trapped
  <2> QED BY <1>s, <2>1 DEF State
<1>8. CASE x.kind = "intr"
  <2>1. Interrupts /\ exc = "intr"
    BY <1>8 DEF FitsE2, Memory
  <2>2. SC!Trapped(s) \in SC!After(s)
    BY <2>1 DEF SC!After
  <2> QED BY <1>7, <2>1, <2>2 DEF DropPC, DropEpc, s
<1>9. CASE exc = "memfault" /\ x.kind \in Memory /\ MemFaults
  <2>1. i.kind \in {"load", "store"}
    BY <1>2, <1>9 DEF Real, Memory
  <2>2. SC!Trapped(s) \in SC!After(s)
    BY <1>5, <1>9, <2>1 DEF SC!After
  <2> QED BY <1>7, <1>9, <2>2 DEF DropPC, DropEpc, s
<1>10. CASE Real(x) /\ exc = x.exc
  <2>1. exc = ExcOf(i, src)
    BY <1>2, <1>10
  <2>2. CASE exc \notin {"eret", "fence"}
    <3>1. SC!AlwaysTraps(s, i)
      BY <1>4, <2>1, <2>2 DEF ExcOf, EarlyOf, SC!AlwaysTraps
    <3>2. SC!Trapped(s) \in SC!After(s)
      BY <1>5, <3>1 DEF SC!After
    <3> QED BY <1>7, <2>2, <3>2 DEF DropPC, DropEpc, s
  <2>3. CASE exc \in {"eret", "fence"}
    <3>1. i.kind \in {"eret", "fence", "satp"} /\ (exc = "eret" <=> i.kind = "eret")
      BY <2>1, <2>3 DEF ExcOf, EarlyOf
    <3>2. ~SC!AlwaysTraps(s, i)
      BY <3>1 DEF SC!AlwaysTraps
    <3>3. (IF i.kind \in SC!WritesRd THEN SC!Set(s.regs, i.rd, SC!Succ(src)) ELSE s.regs) = f
      BY <1>3, <1>6, <3>1 DEF SC!WritesRd, SC!Set
    <3>4. (IF i.kind = "branch" /\ src = 0 THEN i.to ELSE IF i.kind = "eret" THEN s.epc ELSE SC!PCAfter(s.pc))
            = DropPC(exc, x.pc, ep)
      BY <1>3, <2>3, <3>1 DEF DropPC, SC!PCAfter, PCAfter
    <3>5. SC!Executed(s, i) = State(DropPC(exc, x.pc, ep), f, ep)
      <4>1. SC!Executed(s, i) = [s EXCEPT !.pc = DropPC(exc, x.pc, ep), !.regs = f]
        BY <1>4, <3>3, <3>4 DEF SC!Executed
      <4> QED BY <1>s, <4>1 DEF State
    <3>6. SC!Executed(s, i) \in SC!After(s)
      BY <1>5, <3>2 DEF SC!After
    <3> QED BY <2>3, <3>5, <3>6 DEF DropEpc, s
  <2> QED BY <2>2, <2>3
<1> QED BY <1>8, <1>9, <1>10 DEF Real

-----------------------------------------------------------------------------
(* What the program sees                                                   *)

ArchShape ==
  /\ ArchPC = IF TrapSlot.exc # "none" THEN Target(TrapSlot)
              ELSE IF redirect.on THEN redirect.pc ELSE PC1
  /\ Arch = State(ArchPC, Written, EpcAfter)
  /\ TrapSlot.exc \in {"none", "eret", "fence"} => EpcAfter = epc

LEMMA ArchIs == ArchShape
<1> DEFINE k == CHOOSE n \in Waiting : \A j \in Waiting : n <= j
<1>1. DOMAIN Line = {1, 2, 3, 4}
  BY DEF Line
<1>2. Line[1] = e2[1] /\ Line[2] = e2[2] /\ Line[3] = e1[1] /\ Line[4] = e1[2]
  BY DEF Line
<1>3. \A n : n \in Waiting <=> /\ n \in {1, 2, 3, 4} /\ Line[n].kind # "none"
  BY <1>1 DEF Waiting
<1>4. ASSUME NEW n \in Waiting, \A j \in Waiting : n <= j PROVE k = n
  BY <1>3, <1>4
<1> HIDE DEF k
<1>5. (IF Waiting # {} THEN Line[k].pc ELSE pcX) = PC1
  <2>1. CASE e2[1].kind # "none"
    <3>1. 1 \in Waiting /\ \A j \in Waiting : 1 <= j
      BY <1>2, <1>3, <2>1
    <3> QED BY <1>2, <1>4, <2>1, <3>1 DEF PC1
  <2>2. CASE e2[1].kind = "none" /\ e2[2].kind # "none"
    <3>1. 2 \in Waiting /\ \A j \in Waiting : 2 <= j
      BY <1>2, <1>3, <2>2
    <3> QED BY <1>2, <1>4, <2>2, <3>1 DEF PC1, PC2
  <2>3. CASE e2[1].kind = "none" /\ e2[2].kind = "none" /\ e1[1].kind # "none"
    <3>1. 3 \in Waiting /\ \A j \in Waiting : 3 <= j
      BY <1>2, <1>3, <2>3
    <3> QED BY <1>2, <1>4, <2>3, <3>1 DEF PC1, PC2, PC3
  <2>4. CASE e2[1].kind = "none" /\ e2[2].kind = "none" /\ e1[1].kind = "none" /\ e1[2].kind # "none"
    <3>1. 4 \in Waiting /\ \A j \in Waiting : 4 <= j
      BY <1>2, <1>3, <2>4
    <3> QED BY <1>2, <1>4, <2>4, <3>1 DEF PC1, PC2, PC3, PC4
  <2>5. CASE e2[1].kind = "none" /\ e2[2].kind = "none" /\ e1[1].kind = "none" /\ e1[2].kind = "none"
    <3>1. Waiting = {}
      BY <1>2, <1>3, <2>5
    <3> QED BY <2>5, <3>1 DEF PC1, PC2, PC3, PC4
  <2> QED BY <2>1, <2>2, <2>3, <2>4, <2>5
<1>6. TrapSlot.exc \in {"none", "eret", "fence"} => EpcAfter = epc
  BY DEF EpcAfter, TakesTrap
<1> QED BY <1>5, <1>6 DEF ArchShape, ArchPC, Arch, State, k

LEMMA WrittenKept ==
  ASSUME NEW done, NEW err, Advance(done, err), wb'[1].rd = 0, wb'[2].rd = 0
  PROVE  Written' = Written
<1>1. regs' = Written
  BY DEF Advance
<1>2. Written' = [r \in Regs |-> Written'[r]] /\ Written = [r \in Regs |-> Written[r]]
  BY DEF Written
<1>3. \A r \in Regs : Written'[r] = IF r = 0 THEN 0 ELSE Written[r]
  BY <1>1 DEF Written
<1>4. \A r \in Regs : r = 0 => Written[r] = 0
  BY DEF Written
<1>5. \A r \in Regs : Written'[r] = Written[r]
  BY <1>3, <1>4
<1> QED BY <1>2, <1>5

LEMMA ArchNext ==
  /\ ArchPC' = IF TrapSlot'.exc # "none" THEN Target(TrapSlot)'
               ELSE IF redirect'.on THEN redirect'.pc ELSE PC1'
  /\ Arch' = State(ArchPC', Written', EpcAfter')
  /\ TrapSlot'.exc \in {"none", "eret", "fence"} => EpcAfter' = epc'
<1>1. ArchShape'
  BY ArchIs, PTL
<1> QED BY <1>1 DEF ArchShape

(* With a trap in WB or a redirection on its way the pipes are empty.      *)
LEMMA EmptyMoves ==
  ASSUME PipeType, OrderInv, NEW done \in BOOLEAN, NEW err \in BOOLEAN, Moved(done, err), LineEmpty
  PROVE  Written' = Written /\ TrapSlot'.exc = "none" /\ PC1' = PC3'
<1>p. Pipes = {1, 2} /\ 1 \in Pipes /\ 2 \in Pipes
  BY DEF Pipes
<1>1. /\ e2[1].kind = "none" /\ e2[1].rd = 0 /\ e2[1].exc = "none"
      /\ e2[2].kind = "none" /\ e2[2].rd = 0 /\ e2[2].exc = "none"
      /\ e1[1].kind = "none" /\ e1[2].kind = "none"
  BY <1>p DEF OrderInv, InPairs, LineEmpty
<1>2. E2Exc(1, done, err) = "none" /\ E2Exc(2, done, err) = "none"
  BY <1>1 DEF E2Exc, Memory
<1>3. /\ wb'[1].rd = 0 /\ wb'[1].exc = "none"
      /\ wb'[2].rd = 0 /\ wb'[2].exc = "none"
      /\ e2'[1].kind = "none" /\ e2'[2].kind = "none"
  BY <1>1, <1>2, <1>p, MovedFields DEF Moved
<1>4. Written' = Written
  BY <1>3, WrittenKept DEF Moved
<1> QED BY <1>3, <1>4 DEF TrapSlot, PC1, PC2

LEMMA RedirectStutters ==
  ASSUME PipeType, OrderInv, NEW done \in BOOLEAN, NEW err \in BOOLEAN, Moved(done, err),
         TrapSlot.exc # "none" \/ redirect.on
  PROVE  Arch' = Arch
<1>1. LineEmpty
  BY DEF OrderInv, Traps
<1>2. Written' = Written /\ TrapSlot'.exc = "none" /\ PC1' = PC3' /\ EpcAfter' = epc'
  BY <1>1, EmptyMoves, ArchNext
<1>3. epc' = EpcAfter
  BY DEF Moved, Csr
<1>4. ArchPC' = ArchPC
  <2>1. CASE TrapSlot.exc # "none"
    <3>1. redirect' = [on |-> TRUE, pc |-> Target(TrapSlot)]
      BY <2>1 DEF Moved, Csr
    <3>2. redirect'.on /\ redirect'.pc = Target(TrapSlot)
      BY <3>1
    <3> QED BY <1>2, <2>1, <3>2, ArchNext, ArchIs DEF ArchShape
  <2>2. CASE TrapSlot.exc = "none" /\ redirect.on
    <3>1. redirect' = [on |-> FALSE, pc |-> 0]
      BY <2>2 DEF Moved, Csr
    <3>2. ~redirect'.on
      BY <3>1
    <3>3. PC3' = redirect.pc
      BY <2>2 DEF Moved
    <3> QED BY <1>2, <2>2, <3>2, <3>3, ArchNext, ArchIs DEF ArchShape
  <2> QED BY <2>1, <2>2
<1> QED BY <1>2, <1>3, <1>4, ArchNext, ArchIs DEF ArchShape

(* Otherwise the program is where its oldest instruction is, and the CSR   *)
(* unit has nothing to do.                                                 *)
LEMMA QuietArch ==
  ASSUME PipeType, OrderInv, NEW done \in BOOLEAN, NEW err \in BOOLEAN, Moved(done, err),
         TrapSlot.exc = "none", ~redirect.on
  PROVE  /\ Arch = State(PC1, Written, epc) /\ epc \in PCs /\ epc' = epc
         /\ ~redirect'.on /\ PC3' = pcX /\ ~sq[1] /\ ~sq[2]
<1>1. Arch = State(PC1, Written, epc) /\ EpcAfter = epc
  BY ArchIs DEF ArchShape
<1>2. redirect' = [on |-> FALSE, pc |-> 0] /\ epc' = EpcAfter
  BY DEF Moved, Csr
<1>3. ~redirect'.on
  BY <1>2
<1>4. ~sq[1] /\ ~sq[2]
  BY DEF OrderInv, Traps, Pipes
<1> QED BY <1>1, <1>2, <1>3, <1>4 DEF PipeType, Moved

(* One or two instructions retire.                                         *)
LEMMA RetireStep ==
  ASSUME PipeType, OrderInv, FlowInv, NEW done \in BOOLEAN, NEW err \in BOOLEAN, Moved(done, err),
         TrapSlot.exc = "none", ~redirect.on, ~SquashAny(done, err)
  PROVE  SC!Next \/ (prog' = prog /\ Arch' = Arch)
<1>p. Pipes = {1, 2} /\ 1 \in Pipes /\ 2 \in Pipes
  BY DEF Pipes
<1>1. /\ Clean2 /\ Written' = Regs2 /\ prog' = prog
      /\ \A p \in Pipes : e2'[p].kind = e1[p].kind /\ e2'[p].pc = e1[p].pc
  BY E2Moves DEF Moved
<1>2. /\ Arch = State(PC1, Written, epc) /\ epc \in PCs /\ epc' = epc
      /\ ~redirect'.on /\ PC3' = pcX
  BY QuietArch
<1>3. E2Exc(1, done, err) = "none" /\ E2Exc(2, done, err) = "none" /\ ~Squash(1, done, err)
  BY <1>p DEF SquashAny, Squash
<1>4. TrapSlot'.exc = "none"
  BY <1>3, <1>p, MovedFields DEF Moved, TrapSlot
<1>5. PC1' = PC3
  BY <1>1, <1>2, <1>p DEF PC1, PC2, PC3, PC4
<1>6. Arch' = State(PC3, Regs2, epc)
  BY <1>1, <1>2, <1>4, <1>5, ArchNext
<1>7. CASE e2[1].kind = "none"
  <2>1. e2[2].kind = "none" /\ e2[1].rd = 0 /\ e2[2].rd = 0
    BY <1>7, <1>p DEF OrderInv, InPairs
  <2>2. Regs2 = Written
    BY <1>p, <2>1, PutIs, RegsTypes, StageTypes DEF Regs1, Regs2
  <2>3. PC1 = PC3
    BY <1>7, <2>1 DEF PC1, PC2
  <2> QED BY <1>1, <1>2, <1>6, <2>2, <2>3
<1>8. CASE e2[1].kind # "none"
  <2>1. /\ e2[1] \in Stages /\ e2[2] \in Stages
        /\ Written \in [Regs -> Values] /\ Regs1 \in [Regs -> Values]
    BY StageTypes, RegsTypes
  <2>2. Real(e2[1]) /\ e2[2].kind # "intr"
    BY <1>1, <1>8 DEF Real, OrderInv, Launched, Clean2, InPairs, SecondKinds, Memory, Jumps
  <2>3. /\ FitsE2(e2[1], Inst(prog, e2[1]), Src(prog, e2[1], Written))
        /\ FitsE2(e2[2], Inst(prog, e2[2]), Src(prog, e2[2], Regs1))
        /\ PC2 = After(prog, e2[1], Written)
    BY <1>1, <1>8 DEF FlowInv, InOrder, Follows, Clean2
  <2>4. PC1 = e2[1].pc
    BY <1>8 DEF PC1
  <2>5. State(PC2, Regs1, epc) \in SC!After(Arch)
    BY <1>1, <1>2, <2>1, <2>2, <2>3, <2>4, RetiresAs DEF Clean2, Regs1
  <2>6. Arch' \in {State(PC2, Regs1, epc)} \cup SC!After(State(PC2, Regs1, epc))
    <3>1. CASE e2[2].kind = "none"
      <4>1. e2[2].rd = 0
        BY <1>p, <3>1 DEF OrderInv, InPairs
      <4>2. Regs2 = Regs1 /\ PC2 = PC3
        BY <2>1, <3>1, <4>1, PutIs DEF Regs2, PC2
      <4> QED BY <1>6, <4>2
    <3>2. CASE e2[2].kind # "none"
      <4>1. PC3 = After(prog, e2[2], Regs1) /\ PC2 = e2[2].pc /\ Real(e2[2])
        BY <1>1, <2>2, <3>2 DEF FlowInv, Follows, PC2, Real
      <4>2. State(PC3, Regs2, epc) \in SC!After(State(PC2, Regs1, epc))
        BY <1>1, <1>2, <2>1, <2>3, <4>1, RetiresAs DEF Clean2, Regs2
      <4> QED BY <1>6, <4>2
    <3> QED BY <3>1, <3>2
  <2> QED BY <1>1, <2>5, <2>6 DEF SC!Next
<1> QED BY <1>7, <1>8

(* One is dropped with its exception, after the other has retired or       *)
(* instead of it.                                                          *)
LEMMA DropArch ==
  ASSUME epc' = epc, TrapSlot'.exc # "none"
  PROVE  Arch' = State(DropPC(TrapSlot'.exc, TrapSlot'.pc, epc), Written',
                       DropEpc(TrapSlot'.exc, TrapSlot'.pc, epc))
<1>1. ArchPC' = Target(TrapSlot)' /\ Arch' = State(ArchPC', Written', EpcAfter')
  BY ArchNext
<1>2. ArchPC' = DropPC(TrapSlot'.exc, TrapSlot'.pc, epc)
  BY <1>1 DEF Target, DropPC
<1>3. EpcAfter' = DropEpc(TrapSlot'.exc, TrapSlot'.pc, epc)
  BY DEF EpcAfter, TakesTrap, DropEpc
<1> QED BY <1>1, <1>2, <1>3

LEMMA DropStep ==
  ASSUME SatpWritesOnly, PipeType, OrderInv, FlowInv,
         NEW done \in BOOLEAN, NEW err \in BOOLEAN, Moved(done, err),
         TrapSlot.exc = "none", ~redirect.on, SquashAny(done, err)
  PROVE  SC!Next
<1>p. Pipes = {1, 2} /\ 1 \in Pipes /\ 2 \in Pipes
  BY DEF Pipes
<1>1. /\ Arch = State(PC1, Written, epc) /\ epc \in PCs /\ epc' = epc /\ ~sq[1] /\ ~sq[2]
  BY QuietArch
<1>2. Advance(done, err) /\ prog' = prog /\ prog \in Programs /\ (err => MemFaults)
  BY DEF Moved, FlowInv, Sources
<1>3. /\ e2[1] \in Stages /\ e2[2] \in Stages
      /\ Written \in [Regs -> Values] /\ Regs1 \in [Regs -> Values]
  BY StageTypes, RegsTypes
<1>4. FitsE2(e2[1], Inst(prog, e2[1]), Src(prog, e2[1], Written))
  BY DEF FlowInv, InOrder
<1>5. e2[1].kind = "none" => e2[1].exc = "none" /\ e2[2].kind = "none" /\ e2[2].exc = "none"
  BY DEF OrderInv, InPairs
<1>6. ASSUME NEW p \in Pipes, E2Exc(p, done, err) # "none"
      PROVE  \/ E2Exc(p, done, err) = e2[p].exc
             \/ E2Exc(p, done, err) = "memfault" /\ e2[p].kind \in Memory /\ MemFaults
  BY <1>2, <1>6 DEF E2Exc
<1>7. CASE E2Exc(1, done, err) # "none"
  <2> DEFINE exc == E2Exc(1, done, err)
  <2>1. e2[1].kind # "none"
    BY <1>5, <1>7 DEF E2Exc, Memory
  <2>2. Squash(1, done, err)
    BY <1>7 DEF Squash
  <2>3. /\ wb'[1].exc = exc /\ wb'[1].pc = e2[1].pc /\ wb'[1].rd = 0 /\ wb'[2].rd = 0
    BY <1>2, <1>7, <1>p, <2>2, MovedFields
  <2>4. TrapSlot'.exc = exc /\ TrapSlot'.pc = e2[1].pc
    BY <1>7, <2>3 DEF TrapSlot
  <2>5. Written' = Written
    BY <1>2, <2>3, WrittenKept
  <2>6. Arch' = State(DropPC(exc, e2[1].pc, epc), Written, DropEpc(exc, e2[1].pc, epc))
    BY <1>1, <1>7, <2>4, <2>5, DropArch
  <2>7. \/ exc = e2[1].exc /\ (e2[1].kind = "intr" => exc = "intr")
        \/ exc = "memfault" /\ e2[1].kind \in Memory /\ MemFaults
    BY <1>6, <1>7, <1>p DEF OrderInv, Launched
  <2> HIDE DEF exc
  <2>8. exc # "none"
    BY <1>7 DEF exc
  <2>9. PC1 = e2[1].pc
    BY <2>1 DEF PC1
  <2>10. Arch' \in SC!After(Arch)
    BY <1>1, <1>2, <1>3, <1>4, <2>1, <2>6, <2>7, <2>8, <2>9, DropsAs
  <2> QED BY <1>2, <2>10 DEF SC!Next
<1>8. CASE E2Exc(1, done, err) = "none"
  <2> DEFINE exc == E2Exc(2, done, err)
  <2>1. exc # "none"
    BY <1>1, <1>8, <1>p DEF SquashAny, Squash
  <2>2. e2[1].exc = "none" /\ e2[1].kind # "intr"
    BY <1>8, NoneDropped
  <2>3. /\ FitsE2(e2[2], Inst(prog, e2[2]), Src(prog, e2[2], Regs1))
        /\ e2[2].kind = "none" => e2[2].exc = "none"
    BY <2>2 DEF FlowInv, InOrder
  <2>4. e2[2].kind # "none" /\ e2[2].kind # "intr"
    <3>1. e2[2].kind # "none"
      BY <2>1, <2>3 DEF E2Exc, Memory
    <3> QED BY <3>1 DEF OrderInv, InPairs, SecondKinds, Memory, Jumps
  <2>5. e2[1].kind # "none" /\ Real(e2[1])
    BY <1>5, <2>2, <2>4 DEF Real
  <2>6. ~Squash(1, done, err)
    BY <1>1, <1>8 DEF Squash
  <2>7. /\ wb'[1].exc = "none" /\ wb'[2].exc = exc /\ wb'[2].pc = e2[2].pc
    BY <1>2, <1>8, <1>p, <2>6, MovedFields
  <2>8. TrapSlot'.exc = exc /\ TrapSlot'.pc = e2[2].pc
    BY <2>7 DEF TrapSlot
  <2>9. Written' = Regs1
    BY <1>1, <1>2, <1>8, <2>1, WrittenMoves
  <2>10. Arch' = State(DropPC(exc, e2[2].pc, epc), Regs1, DropEpc(exc, e2[2].pc, epc))
    BY <1>1, <2>1, <2>8, <2>9, DropArch
  <2>11. \/ exc = e2[2].exc
         \/ exc = "memfault" /\ e2[2].kind \in Memory /\ MemFaults
    BY <1>6, <1>p, <2>1
  <2> HIDE DEF exc
  <2>12. PC1 = e2[1].pc /\ PC2 = e2[2].pc /\ PC2 = After(prog, e2[1], Written)
    BY <2>2, <2>4, <2>5 DEF PC1, PC2, FlowInv, Follows
  <2>13. State(PC2, Regs1, epc) \in SC!After(Arch)
    BY <1>1, <1>3, <1>4, <2>2, <2>5, <2>12, RetiresAs DEF Regs1
  <2>14. Arch' \in SC!After(State(PC2, Regs1, epc))
    BY <1>1, <1>2, <1>3, <2>1, <2>3, <2>4, <2>10, <2>11, <2>12, DropsAs
  <2> QED BY <1>2, <2>13, <2>14 DEF SC!Next
<1> QED BY <1>7, <1>8

LEMMA StepRefines ==
  SatpWritesOnly /\ PipeType /\ OrderInv /\ FlowInv /\ [Next]_vars => [SC!Next]_(SC!seqVars)
<1> SUFFICES ASSUME SatpWritesOnly, PipeType, OrderInv, FlowInv, [Next]_vars
             PROVE  SC!Next \/ (prog' = prog /\ Arch' = Arch)
  BY DEF SC!seqVars
<1>1. CASE UNCHANGED vars
  BY <1>1 DEF vars, Arch, ArchPC, Target, TrapSlot, EpcAfter, TakesTrap, Waiting, Line, Written
<1>2. ASSUME NEW done \in BOOLEAN, NEW err \in BOOLEAN, NEW fin \in BOOLEAN, HoldStep(done, err, fin)
      PROVE  prog' = prog /\ Arch' = Arch
  <2>1. /\ Written' = Written /\ PC1' = PC1
        /\ TrapSlot.exc = "none" /\ TrapSlot' = TrapSlot /\ ~redirect.on
    BY <1>2, HeldFlow
  <2>2. prog' = prog /\ redirect' = [on |-> FALSE, pc |-> 0] /\ epc' = EpcAfter
    BY <1>2, <2>1 DEF HoldStep, Around, Csr
  <2>3. ~redirect'.on
    BY <2>2
  <2>4. ArchPC' = ArchPC /\ EpcAfter' = EpcAfter
    BY <2>1, <2>2, <2>3, ArchIs, ArchNext DEF ArchShape
  <2> QED BY <2>1, <2>2, <2>4, ArchIs, ArchNext DEF ArchShape
<1>3. ASSUME NEW done \in BOOLEAN, NEW err \in BOOLEAN, Moved(done, err)
      PROVE  SC!Next \/ (prog' = prog /\ Arch' = Arch)
  <2>1. CASE TrapSlot.exc # "none" \/ redirect.on
    BY <1>3, <2>1, RedirectStutters DEF Moved
  <2>2. CASE TrapSlot.exc = "none" /\ ~redirect.on
    BY <1>3, <2>2, RetireStep, DropStep
  <2> QED BY <2>1, <2>2
<1> QED BY <1>1, <1>2, <1>3, MovedCases

LEMMA InitRefines == Init => SC!Init
<1> SUFFICES ASSUME Init PROVE Arch = [pc |-> ResetPC, regs |-> [r \in Regs |-> 0], epc |-> 0]
  BY DEF SC!Init
<1>1. wb[1] = Bubble /\ wb[2] = Bubble /\ redirect.on /\ redirect.pc = ResetPC
  BY DEF Init
<1>2. TrapSlot.exc = "none" /\ EpcAfter = 0
  BY <1>1 DEF TrapSlot, Bubble, EpcAfter, TakesTrap, Init
<1>3. Written = [r \in Regs |-> 0]
  BY <1>1 DEF Written, Bubble, Init
<1> QED BY <1>1, <1>2, <1>3 DEF Arch, ArchPC

-----------------------------------------------------------------------------
(* The pipeline implements the sequential machine, for every program,      *)
(* every pair of words the frontend may offer, every bypass that is built  *)
(* in and every answer of the units: what is issued in pairs, bypassed,    *)
(* stalled, squashed and replayed takes effect in program order, each      *)
(* instruction on the results of those before it.                          *)
THEOREM RunsInOrder ==
  ASSUME DivisionsEnd, SatpWritesOnly
  PROVE  Spec => ImplementsSequentialCore
<1>1. PipeType /\ OrderInv /\ FlowInv /\ [Next]_vars => [SC!Next]_(SC!seqVars)
  BY StepRefines
<1> QED BY FlowInvariant, InitRefines, <1>1, PTL DEF Spec, SC!Spec, ImplementsSequentialCore
=============================================================================
