--------------------------- MODULE PipelineProofs ---------------------------
(***************************************************************************)
(* What holds of the two pipes whatever is issued and whatever the units   *)
(* answer: a trap reaches WB with nothing behind it, a CSR operation is    *)
(* never held, an interrupt that reaches WB finds interrupts enabled, a    *)
(* load or store that went out is not called back by what came before it.  *)
(***************************************************************************)
EXTENDS Pipeline, TLAPS

-----------------------------------------------------------------------------
(* Types                                                                   *)

Values == Data \cup {Junk}
EarlyExc == {"none", "misaligned", "fault"}
CsrExc == {"none", "fence", "eret", "trap"}
Excs == EarlyExc \cup CsrExc \cup {"intr", "memfault"}
Stages == [kind : Kinds \cup {"none", "intr"}, rd : Regs, pc : PCs, val : Values, res : Values,
           exc : Excs]
HeadStates == [pair : {p \in PCs : 2 * p \in PCs}, words : SUBSET {0, 1}, clean : BOOLEAN]

PipeType ==
  /\ prog \in [PCs -> Instrs]
  /\ head \in HeadStates
  /\ pcX \in PCs
  /\ \A p \in Pipes : e1[p] \in Stages /\ e1[p].exc \in EarlyExc
  /\ \A p \in Pipes : e2[p] \in Stages
  /\ \A p \in Pipes : wb[p] \in Stages
  /\ (\A p \in Pipes : sq[p] \in BOOLEAN)
  /\ divPend \in BOOLEAN /\ csrPend \in BOOLEAN
  /\ csrOut \in [val : Values, exc : CsrExc]
  /\ div \in [busy : BOOLEAN, res : Values, valid : BOOLEAN, out : Values]
  /\ regs \in [Regs -> Values]
  /\ take \in BOOLEAN /\ mie \in BOOLEAN /\ irq \in BOOLEAN
  /\ redirect \in [on : BOOLEAN, pc : PCs] /\ epc \in PCs

LEMMA ZeroPC == 0 \in PCs /\ 2 * 0 \in PCs
<1>1. PICK p \in PCs : p \in Nat /\ 0..p \subseteq PCs
  BY PCsAssumption
<1>2. 0 \in 0..p /\ 2 * 0 = 0
  BY <1>1
<1> QED BY <1>1, <1>2

LEMMA PCAfterType == ASSUME NEW p \in PCs PROVE PCAfter(p) \in PCs
  BY ZeroPC DEF PCAfter

LEMMA SuccType == ASSUME NEW d \in Values PROVE Succ(d) \in Values
  BY DataAssumption DEF Succ, Values

LEMMA BubbleType == Bubble \in Stages /\ Bubble.exc \in EarlyExc
  BY ZeroPC, DataAssumption DEF Bubble, Stages, Values, EarlyExc, Excs

LEMMA WordPCType ==
  ASSUME PipeType, NEW w \in {0, 1}
  PROVE  WordPC(w) \in PCs /\ prog[WordPC(w)] \in Instrs
<1>1. head.pair \in PCs /\ 2 * head.pair \in PCs
  BY DEF PipeType, HeadStates
<1>2. 2 * head.pair + 1 \in PCs /\ 2 * head.pair + 0 = 2 * head.pair
  <2>1. head.pair \in Nat /\ 2 * head.pair \in Nat
    BY <1>1, PCsAssumption
  <2>2. 2 * head.pair + 1 \in PCs
    BY <1>1, PCsAssumption
  <2> QED BY <2>1, <2>2
<1>3. WordPC(w) \in PCs
  BY <1>1, <1>2 DEF WordPC
<1> QED BY <1>3 DEF PipeType

(* The bypass network, spelled out.                                        *)
LEMMA NewestIs ==
  ASSUME NEW r
  PROVE  Newest(InFlight, r) =
           IF e1[2].rd = r THEN e1[2].val
           ELSE IF e1[1].rd = r THEN e1[1].val
           ELSE IF e2[2].rd = r THEN E2Result(e2[2])
           ELSE IF e2[1].rd = r THEN E2Result(e2[1])
           ELSE IF wb[2].rd = r THEN wb[2].val
           ELSE IF wb[1].rd = r THEN wb[1].val
           ELSE regs[r]
<1> DEFINE f == InFlight
           P(k) == k \in DOMAIN f /\ f[k].rd = r /\ \A j \in 1..(k - 1) : f[j].rd # r
<1>1. DOMAIN f = 1..6
  BY DEF InFlight
<1>2. /\ f[1] = [rd |-> e1[2].rd, val |-> e1[2].val]
      /\ f[2] = [rd |-> e1[1].rd, val |-> e1[1].val]
      /\ f[3] = [rd |-> e2[2].rd, val |-> E2Result(e2[2])]
      /\ f[4] = [rd |-> e2[1].rd, val |-> E2Result(e2[1])]
      /\ f[5] = [rd |-> wb[2].rd, val |-> wb[2].val]
      /\ f[6] = [rd |-> wb[1].rd, val |-> wb[1].val]
  BY DEF InFlight
<1> HIDE DEF f
<1>3. ASSUME NEW k \in 1..6, P(k)
      PROVE  Newest(f, r) = f[k].val
  <2>1. \A n : P(n) => n = k
    BY <1>1, <1>3
  <2>2. (CHOOSE n \in DOMAIN f : f[n].rd = r /\ \A j \in 1..(n - 1) : f[j].rd # r) = k
    BY <1>3, <2>1
  <2>3. \E n \in DOMAIN f : f[n].rd = r
    BY <1>3
  <2> QED BY <2>2, <2>3 DEF Newest
<1>4. CASE f[1].rd = r
  BY <1>1, <1>2, <1>3, <1>4 DEF f
<1>5. CASE f[1].rd # r /\ f[2].rd = r
  <2>1. P(2) BY <1>1, <1>5
  <2> QED BY <1>2, <1>3, <1>5, <2>1 DEF f
<1>6. CASE f[1].rd # r /\ f[2].rd # r /\ f[3].rd = r
  <2>1. P(3) BY <1>1, <1>6
  <2> QED BY <1>2, <1>3, <1>6, <2>1 DEF f
<1>7. CASE f[1].rd # r /\ f[2].rd # r /\ f[3].rd # r /\ f[4].rd = r
  <2>1. P(4) BY <1>1, <1>7
  <2> QED BY <1>2, <1>3, <1>7, <2>1 DEF f
<1>8. CASE f[1].rd # r /\ f[2].rd # r /\ f[3].rd # r /\ f[4].rd # r /\ f[5].rd = r
  <2>1. P(5) BY <1>1, <1>8
  <2> QED BY <1>2, <1>3, <1>8, <2>1 DEF f
<1>9. CASE f[1].rd # r /\ f[2].rd # r /\ f[3].rd # r /\ f[4].rd # r /\ f[5].rd # r /\ f[6].rd = r
  <2>1. P(6) BY <1>1, <1>9
  <2> QED BY <1>2, <1>3, <1>9, <2>1 DEF f
<1>10. CASE f[1].rd # r /\ f[2].rd # r /\ f[3].rd # r /\ f[4].rd # r /\ f[5].rd # r /\ f[6].rd # r
  <2>1. ~ \E n \in DOMAIN f : f[n].rd = r
    BY <1>1, <1>10
  <2>2. Newest(f, r) = regs[r]
    BY <2>1 DEF Newest
  <2> QED BY <1>2, <1>10, <2>2 DEF f
<1> QED BY <1>4, <1>5, <1>6, <1>7, <1>8, <1>9, <1>10

LEMMA OperandType ==
  ASSUME PipeType, NEW r \in Regs
  PROVE  Operand(r) \in Values
<1>1. \A p \in Pipes : E2Result(e2[p]) \in Values
  BY DEF PipeType, E2Result, Stages
<1>2. \A p \in Pipes : e1[p].val \in Values /\ wb[p].val \in Values
  BY DEF PipeType, Stages
<1>3. Newest(InFlight, r) \in Values
  BY <1>1, <1>2, NewestIs DEF PipeType, Pipes
<1>4. 0 \in Values
  BY DataAssumption DEF Values
<1> QED BY <1>3, <1>4 DEF Operand

LEMMA IssuedType ==
  ASSUME PipeType, NEW i \in Instrs, NEW pc \in PCs
  PROVE  Issued(i, pc) \in Stages /\ Issued(i, pc).exc \in EarlyExc
         /\ CsrResult(i) \in [val : Values, exc : CsrExc]
         /\ Succ(Operand(i.ra)) \in Values
<1>1. i.kind \in Kinds /\ i.rd \in Regs /\ i.ra \in Regs
  BY DEF Instrs
<1>2. Succ(Operand(i.ra)) \in Values
  BY <1>1, OperandType, SuccType
<1>3. Junk \in Values /\ 0 \in Regs
  BY DataAssumption DEF Values
<1>4. Issued(i, pc) \in Stages /\ Issued(i, pc).exc \in EarlyExc
  BY <1>1, <1>2, <1>3 DEF Issued, Stages, Excs, EarlyExc
<1>5. CsrResult(i) \in [val : Values, exc : CsrExc]
  BY <1>2, <1>3 DEF CsrResult, NoCsr, CsrExc
<1> QED BY <1>2, <1>4, <1>5

-----------------------------------------------------------------------------
(* What a clock does                                                       *)

(* Word w can issue.                                                       *)
Ready(w, lsuStall, done, err) ==
  /\ w \in head.words /\ WordPC(w) = pcX
  /\ ~redirect.on /\ ~SquashAny(done, err) /\ ~Blocked(lsuStall, done)
  /\ Free(prog[pcX], Scoreboard(prog[pcX]))

LEMMA FrontCases ==
  ASSUME PipeType, NEW lsuStall \in BOOLEAN, NEW done \in BOOLEAN, NEW err \in BOOLEAN,
         NEW fin \in BOOLEAN, Front(lsuStall, done, err, fin)
  PROVE  \/ IssueNothing(Select(redirect.on \/ SquashAny(done, err)), SquashAny(done, err),
                         Waits(done), fin)
         \/ \E w \in {0, 1} : Ready(w, lsuStall, done, err) /\ Issue(<<w>>, fin)
         \/ /\ Ready(0, lsuStall, done, err) /\ 1 \in head.words
            /\ IssuesPair(prog[WordPC(0)], prog[WordPC(1)]) /\ Issue(<<0, 1>>, fin)
<1> DEFINE sel == Select(redirect.on \/ SquashAny(done, err))
           first == IF sel = "slot0" THEN 0 ELSE 1
<1>1. CASE sel \notin {"slot0", "slot1"} \/ Blocked(lsuStall, done)
           \/ ~Free(prog[WordPC(first)], Scoreboard(prog[WordPC(first)]))
  BY <1>1 DEF Front
<1>2. CASE /\ sel \in {"slot0", "slot1"} /\ ~Blocked(lsuStall, done)
           /\ Free(prog[WordPC(first)], Scoreboard(prog[WordPC(first)]))
  <2>1. ~redirect.on /\ ~SquashAny(done, err) /\ Offers(first)
    BY <1>2 DEF Select
  <2>2. first \in head.words /\ WordPC(first) = pcX
    BY <2>1 DEF Offers
  <2>3. Ready(first, lsuStall, done, err) /\ first \in {0, 1}
    BY <1>2, <2>1, <2>2 DEF Ready
  <2>4. \/ Issue(<<first>>, fin)
        \/ /\ sel = "slot0" /\ 1 \in head.words /\ IssuesPair(prog[WordPC(first)], prog[WordPC(1)])
           /\ Issue(<<0, 1>>, fin)
    BY <1>2 DEF Front
  <2> QED BY <2>3, <2>4
<1> QED BY <1>1, <1>2

(* An interrupt waits for what is at the head; a word that can issue is.   *)
LEMMA ReadyAtHead ==
  ASSUME NEW w \in {0, 1}, NEW lsuStall, NEW done, NEW err, Ready(w, lsuStall, done, err)
  PROVE  CsrAtHead(Select(redirect.on \/ SquashAny(done, err))) = {prog[pcX].kind \in CsrClass}
<1>1. ~redirect.on /\ ~SquashAny(done, err) /\ w \in head.words /\ WordPC(w) = pcX
  BY DEF Ready
<1>2. CASE Offers(0)
  BY <1>1, <1>2 DEF Select, CsrAtHead, Offers
<1>3. CASE ~Offers(0)
  <2>1. w = 1 /\ Offers(1)
    BY <1>1, <1>3 DEF Offers
  <2> QED BY <1>1, <1>3, <2>1 DEF Select, CsrAtHead
<1> QED BY <1>2, <1>3

LEMMA IssueOneIs ==
  ASSUME PipeType, NEW w \in {0, 1}, WordPC(w) = pcX, NEW fin, Issue(<<w>>, fin)
  PROVE  LET a == prog[pcX] IN
         /\ a \in Instrs
         /\ e1' = <<Issued(a, pcX), Bubble>>
         /\ pcX' = IF Taken(a) THEN a.to ELSE IF take THEN pcX ELSE PCAfter(pcX)
         /\ FrontKeeps(IF take THEN head.words ELSE head.words \ (0..w))
         /\ csrOut' = IF take THEN NoCsr ELSE CsrResult(a)
         /\ Divide(Start(a), Succ(Operand(a.ra)), fin)
         /\ divPend' = DivPendAfter(Start(a), FALSE)
         /\ csrPend' = CsrPendAfter(a.kind \in CsrClass /\ ~take, FALSE, FALSE)
<1> DEFINE words == <<w>>
           issued == [k \in DOMAIN words |-> prog[WordPC(words[k])]]
           a == prog[pcX]
<1>1. Len(words) = 1 /\ DOMAIN words = {1} /\ words[1] = w /\ issued[1] = a /\ DOMAIN issued = {1}
      /\ Len(issued) = 1
  <2>1. issued = <<a>>
    OBVIOUS
  <2> QED BY <2>1
<1>2. a \in Instrs
  BY WordPCType
<1>3. IssuePC(issued) = IF Taken(a) THEN a.to ELSE IF take THEN pcX ELSE PCAfter(pcX)
  BY <1>1 DEF IssuePC
<1> HIDE DEF words, issued
<1>4. /\ e1' = <<Issued(issued[1], WordPC(words[1])),
                 IF Len(words) = 2 THEN Issued(issued[2], WordPC(words[2])) ELSE Bubble>>
      /\ pcX' = IssuePC(issued)
      /\ FrontKeeps(IF take THEN head.words ELSE head.words \ (0..words[Len(words)]))
      /\ csrOut' = IF take THEN NoCsr ELSE CsrResult(issued[1])
      /\ Divide(Start(issued[1]), Succ(Operand(issued[1].ra)), fin)
      /\ divPend' = DivPendAfter(Start(issued[1]), FALSE)
      /\ csrPend' = CsrPendAfter(issued[1].kind \in CsrClass /\ ~take, FALSE, FALSE)
  BY DEF Issue, words, issued
<1> QED BY <1>1, <1>2, <1>3, <1>4

LEMMA IssueTwoIs ==
  ASSUME PipeType, WordPC(0) = pcX, NEW fin, Issue(<<0, 1>>, fin), ~take
  PROVE  LET a == prog[pcX]
             b == prog[PCAfter(pcX)]
         IN
         /\ a \in Instrs /\ b \in Instrs /\ PCAfter(pcX) = WordPC(1) /\ PCAfter(pcX) \in PCs
         /\ e1' = <<Issued(a, pcX), Issued(b, PCAfter(pcX))>>
         /\ pcX' = IF Taken(b) THEN b.to ELSE IF Taken(a) THEN a.to ELSE PCAfter(PCAfter(pcX))
         /\ FrontKeeps(head.words \ (0..1))
         /\ csrOut' = CsrResult(a)
         /\ Divide(Start(a), Succ(Operand(a.ra)), fin)
         /\ divPend' = DivPendAfter(Start(a), FALSE)
         /\ csrPend' = CsrPendAfter(a.kind \in CsrClass, FALSE, FALSE)
<1> DEFINE words == <<0, 1>>
           issued == [k \in DOMAIN words |-> prog[WordPC(words[k])]]
           a == prog[pcX]
           b == prog[PCAfter(pcX)]
<1>0. PCAfter(pcX) = WordPC(1)
  <2>1. WordPC(1) \in PCs
    BY WordPCType
  <2>2. head.pair \in Nat
    BY PCsAssumption DEF PipeType, HeadStates
  <2>3. WordPC(1) = pcX + 1
    BY <2>2 DEF WordPC
  <2> QED BY <2>1, <2>3 DEF PCAfter
<1>1. /\ Len(words) = 2 /\ words[1] = 0 /\ words[2] = 1 /\ issued[1] = a /\ issued[2] = b
      /\ DOMAIN issued = {1, 2} /\ Len(issued) = 2
  <2>1. issued = <<a, b>>
    BY <1>0
  <2> QED BY <2>1
<1>2. a \in Instrs /\ b \in Instrs /\ PCAfter(pcX) \in PCs
  BY <1>0, WordPCType
<1>3. IssuePC(issued) = IF Taken(b) THEN b.to ELSE IF Taken(a) THEN a.to ELSE PCAfter(PCAfter(pcX))
  BY <1>1 DEF IssuePC
<1> HIDE DEF words, issued
<1>4. /\ e1' = <<Issued(issued[1], WordPC(words[1])),
                 IF Len(words) = 2 THEN Issued(issued[2], WordPC(words[2])) ELSE Bubble>>
      /\ pcX' = IssuePC(issued)
      /\ FrontKeeps(IF take THEN head.words ELSE head.words \ (0..words[Len(words)]))
      /\ csrOut' = IF take THEN NoCsr ELSE CsrResult(issued[1])
      /\ Divide(Start(issued[1]), Succ(Operand(issued[1].ra)), fin)
      /\ divPend' = DivPendAfter(Start(issued[1]), FALSE)
      /\ csrPend' = CsrPendAfter(issued[1].kind \in CsrClass /\ ~take, FALSE, FALSE)
  BY DEF Issue, words, issued
<1>5. FrontKeeps(head.words \ (0..1))
  <2>1. (IF take THEN head.words ELSE head.words \ (0..words[Len(words)])) = head.words \ (0..1)
    BY <1>1
  <2> QED BY <1>4, <2>1
<1>6. csrPend' = CsrPendAfter(a.kind \in CsrClass, FALSE, FALSE)
  <2>1. (issued[1].kind \in CsrClass /\ ~take) = (a.kind \in CsrClass)
    BY <1>1
  <2> QED BY <1>4, <2>1
<1> QED BY <1>0, <1>1, <1>2, <1>3, <1>4, <1>5, <1>6

LEMMA ExecutedIs ==
  ASSUME PipeType, NEW s \in Stages
  PROVE  LET x == Executed(s) IN
         /\ x \in Stages
         /\ x.kind = s.kind /\ x.pc = s.pc /\ x.res = s.res
         /\ x.exc = IF s.kind = "intr" THEN "intr" ELSE IF s.exc # "none" THEN s.exc ELSE csrOut.exc
         /\ x.rd = IF s.exc # "none" THEN 0 ELSE s.rd
         /\ x.val = IF s.kind = "div" THEN div.out
                    ELSE IF s.kind \in CsrClass THEN csrOut.val ELSE s.val
<1> DEFINE exc == IF s.kind = "intr" THEN "intr" ELSE IF s.exc # "none" THEN s.exc ELSE csrOut.exc
           rd == IF s.exc # "none" THEN 0 ELSE s.rd
           val == IF s.kind = "div" THEN div.out
                  ELSE IF s.kind \in CsrClass THEN csrOut.val ELSE s.val
<1>1. exc \in Excs /\ rd \in Regs /\ val \in Values
  BY DataAssumption DEF PipeType, Stages, Excs
<1>2. Executed(s) = [s EXCEPT !.exc = exc, !.rd = rd, !.val = val]
  BY DEF Executed
<1> HIDE DEF exc, rd, val
<1>3. LET x == Executed(s) IN
      /\ x \in Stages
      /\ x.kind = s.kind /\ x.pc = s.pc /\ x.res = s.res /\ x.exc = exc /\ x.rd = rd /\ x.val = val
  BY <1>1, <1>2 DEF Stages
<1> QED BY <1>3 DEF exc, rd, val

LEMMA CommittedIs ==
  ASSUME PipeType, NEW s \in Stages, NEW exc \in Excs
  PROVE  LET x == Committed(s, exc) IN
         /\ x \in Stages
         /\ x.kind = s.kind /\ x.pc = s.pc /\ x.res = s.res /\ x.exc = exc
         /\ x.rd = IF exc # "none" THEN 0 ELSE s.rd
         /\ x.val = IF s.kind \in Memory \cup {"mul"} THEN s.res ELSE s.val
<1> DEFINE rd == IF exc # "none" THEN 0 ELSE s.rd
           val == IF s.kind \in Memory \cup {"mul"} THEN s.res ELSE s.val
<1>1. rd \in Regs /\ val \in Values
  BY DataAssumption DEF Stages
<1>2. Committed(s, exc) = [s EXCEPT !.exc = exc, !.rd = rd, !.val = val]
  BY DEF Committed
<1> HIDE DEF rd, val
<1>3. LET x == Committed(s, exc) IN
      /\ x \in Stages
      /\ x.kind = s.kind /\ x.pc = s.pc /\ x.res = s.res /\ x.exc = exc /\ x.rd = rd /\ x.val = val
  BY <1>1, <1>2 DEF Stages
<1> QED BY <1>3 DEF rd, val

LEMMA E2ExcType ==
  ASSUME PipeType, NEW p \in Pipes, NEW done \in BOOLEAN, NEW err \in BOOLEAN
  PROVE  E2Exc(p, done, err) \in Excs
  BY DEF PipeType, E2Exc, Stages, Excs, EarlyExc

(* The pipes move, with their exceptions and without.                      *)
LEMMA AdvanceIs ==
  ASSUME PipeType, NEW done \in BOOLEAN, NEW err \in BOOLEAN, Advance(done, err)
  PROVE  /\ IF SquashAny(done, err) THEN e2'[1] = Bubble /\ e2'[2] = Bubble
            ELSE e2'[1] = Executed(e1[1]) /\ e2'[2] = Executed(e1[2])
         /\ wb'[1] = Committed(e2[1], E2Exc(1, done, err))
         /\ wb'[2] = IF Squash(1, done, err) THEN Bubble ELSE Committed(e2[2], E2Exc(2, done, err))
         /\ sq'[1] = (E2Exc(1, done, err) # "none") /\ sq'[2] = (E2Exc(2, done, err) # "none")
         /\ (\A p \in Pipes : sq'[p] \in BOOLEAN) /\ regs' = Written
         /\ \A p \in Pipes : e2'[p] \in Stages /\ wb'[p] \in Stages
<1>1. e2' = IF SquashAny(done, err) THEN <<Bubble, Bubble>> ELSE <<Executed(e1[1]), Executed(e1[2])>>
  BY DEF Advance
<1>2. wb' = <<Committed(e2[1], E2Exc(1, done, err)),
              IF Squash(1, done, err) THEN Bubble ELSE Committed(e2[2], E2Exc(2, done, err))>>
  BY DEF Advance
<1>3. sq' = [p \in Pipes |-> E2Exc(p, done, err) # "none"]
  BY DEF Advance
<1>4. Pipes = {1, 2}
  BY DEF Pipes
<1>5. \A p \in Pipes : Executed(e1[p]) \in Stages /\ Committed(e2[p], E2Exc(p, done, err)) \in Stages
  BY ExecutedIs, CommittedIs, E2ExcType DEF PipeType
<1>6. Bubble \in Stages
  BY BubbleType
<1>7. /\ IF SquashAny(done, err) THEN e2'[1] = Bubble /\ e2'[2] = Bubble
         ELSE e2'[1] = Executed(e1[1]) /\ e2'[2] = Executed(e1[2])
      /\ wb'[1] = Committed(e2[1], E2Exc(1, done, err))
      /\ wb'[2] = IF Squash(1, done, err) THEN Bubble ELSE Committed(e2[2], E2Exc(2, done, err))
  BY <1>1, <1>2
<1>8. sq'[1] = (E2Exc(1, done, err) # "none") /\ sq'[2] = (E2Exc(2, done, err) # "none")
      /\ (\A p \in Pipes : sq'[p] \in BOOLEAN)
  BY <1>3, <1>4
<1>9. \A p \in Pipes : e2'[p] \in Stages /\ wb'[p] \in Stages
  BY <1>4, <1>5, <1>6, <1>7
<1> QED BY <1>7, <1>8, <1>9 DEF Advance

LEMMA WrittenType == ASSUME PipeType PROVE Written \in [Regs -> Values]
<1>1. 0 \in Values
  BY DataAssumption DEF Values
<1> QED BY <1>1 DEF PipeType, Written, Stages, Pipes

LEMMA HeadType ==
  ASSUME PipeType
  PROVE  /\ \A b \in BOOLEAN : Empty(b) \in HeadStates
         /\ \A words \in SUBSET {0, 1} : FrontKeeps(words) => head' \in HeadStates
<1>1. \A b \in BOOLEAN : Empty(b) \in HeadStates
  BY ZeroPC DEF Empty, HeadStates
<1>2. ASSUME NEW words \in SUBSET {0, 1}, FrontKeeps(words) PROVE head' \in HeadStates
  <2>1. CASE words = {}
    <3>1. (head.words = {} /\ head.clean) \in BOOLEAN
      OBVIOUS
    <3>2. head' \in Heads \/ head' = Empty(head.words = {} /\ head.clean)
      BY <1>2, <2>1 DEF FrontKeeps
    <3>3. Heads \subseteq HeadStates
      BY DEF Heads, HeadStates
    <3> QED BY <1>1, <3>1, <3>2, <3>3
  <2>2. CASE words # {}
    BY <1>2, <2>2 DEF FrontKeeps, PipeType, HeadStates
  <2> QED BY <2>1, <2>2
<1> QED BY <1>1, <1>2

LEMMA InitType == Init => PipeType
<1> SUFFICES ASSUME Init PROVE PipeType
  OBVIOUS
<1>1. Bubble \in Stages /\ Bubble.exc \in EarlyExc
  BY BubbleType
<1>2. \A p \in Pipes : e1[p] = Bubble /\ e2[p] = Bubble /\ wb[p] = Bubble
  BY DEF Init, Pipes
<1>3. (\A p \in Pipes : sq[p] \in BOOLEAN)
  <2>1. <<FALSE, FALSE>>[1] = FALSE /\ <<FALSE, FALSE>>[2] = FALSE
    OBVIOUS
  <2>2. sq[1] = FALSE /\ sq[2] = FALSE
    BY <2>1 DEF Init
  <2>3. Pipes = {1, 2}
    BY DEF Pipes
  <2> QED BY <2>2, <2>3
<1>4. 0 \in Values /\ Junk \in Values
  BY DataAssumption DEF Values
<1>5. head \in HeadStates
  BY ZeroPC DEF Init, Empty, HeadStates
<1>6. csrOut \in [val : Values, exc : CsrExc]
      /\ div \in [busy : BOOLEAN, res : Values, valid : BOOLEAN, out : Values]
      /\ regs \in [Regs -> Values]
  BY <1>4 DEF Init, NoCsr, CsrExc
<1>7. mie \in BOOLEAN /\ redirect \in [on : BOOLEAN, pc : PCs] /\ epc \in PCs /\ pcX \in PCs
  BY ZeroPC, SwitchAssumption, VectorAssumption DEF Init
<1>8. prog \in [PCs -> Instrs]
  BY ProgramsAssumption DEF Init
<1> QED BY <1>1, <1>2, <1>3, <1>5, <1>6, <1>7, <1>8 DEF PipeType, Init

LEMMA CsrTypes ==
  ASSUME PipeType, Csr
  PROVE  /\ redirect' \in [on : BOOLEAN, pc : PCs] /\ epc' \in PCs
         /\ mie' \in BOOLEAN /\ irq' \in BOOLEAN
<1>1. TrapSlot \in Stages
  BY DEF TrapSlot, PipeType, Pipes
<1>2. TrapSlot.pc \in PCs
  BY <1>1 DEF Stages
<1>3. Target(TrapSlot) \in PCs /\ EpcAfter \in PCs
  BY <1>2, PCAfterType, VectorAssumption DEF Target, EpcAfter, PipeType
<1>4. redirect' \in [on : BOOLEAN, pc : PCs]
  BY <1>3, ZeroPC DEF Csr
<1>5. mie' \in BOOLEAN /\ irq' \in BOOLEAN
  BY SwitchAssumption DEF Csr, PipeType
<1> QED BY <1>3, <1>4, <1>5 DEF Csr

LEMMA DivideType ==
  ASSUME PipeType, NEW start \in BOOLEAN, NEW res \in Values, NEW fin \in BOOLEAN, Divide(start, res, fin)
  PROVE  div' \in [busy : BOOLEAN, res : Values, valid : BOOLEAN, out : Values]
  BY DEF Divide, PipeType, Values

LEMMA FrontTypes ==
  ASSUME PipeType, NEW lsuStall \in BOOLEAN, NEW done \in BOOLEAN, NEW err \in BOOLEAN,
         NEW fin \in BOOLEAN, Front(lsuStall, done, err, fin)
  PROVE  /\ head' \in HeadStates /\ pcX' \in PCs
         /\ \A p \in Pipes : e1'[p] \in Stages /\ e1'[p].exc \in EarlyExc
         /\ divPend' \in BOOLEAN /\ csrPend' \in BOOLEAN
         /\ csrOut' \in [val : Values, exc : CsrExc]
         /\ div' \in [busy : BOOLEAN, res : Values, valid : BOOLEAN, out : Values]
<1>j. Junk \in Values /\ NoCsr \in [val : Values, exc : CsrExc]
  BY DEF Values, NoCsr, CsrExc
<1>p. Pipes = {1, 2}
  BY DEF Pipes
<1>h. head.words \in SUBSET {0, 1}
  BY DEF PipeType, HeadStates
<1>1. ASSUME NEW sel, NEW squash \in BOOLEAN, IssueNothing(sel, squash, Waits(done), fin)
      PROVE  /\ head' \in HeadStates /\ pcX' \in PCs
             /\ \A p \in Pipes : e1'[p] \in Stages /\ e1'[p].exc \in EarlyExc
             /\ divPend' \in BOOLEAN /\ csrPend' \in BOOLEAN
             /\ csrOut' \in [val : Values, exc : CsrExc]
             /\ div' \in [busy : BOOLEAN, res : Values, valid : BOOLEAN, out : Values]
  <2>1. head' \in HeadStates
    <3>1. CASE redirect.on \/ sel = "mispredict"
      <4>1. head' = Empty(TRUE)
        BY <1>1, <3>1 DEF IssueNothing, Flushed
      <4> QED BY <4>1, HeadType
    <3>2. CASE ~(redirect.on \/ sel = "mispredict")
      <4> DEFINE words == IF sel = "slot1" /\ ~take THEN head.words \ {0} ELSE head.words
      <4>1. words \in SUBSET {0, 1} /\ FrontKeeps(words)
        BY <1>1, <1>h, <3>2 DEF IssueNothing
      <4> HIDE DEF words
      <4> QED BY <4>1, HeadType
    <3> QED BY <3>1, <3>2
  <2>2. pcX' \in PCs
    BY <1>1 DEF IssueNothing, PipeType
  <2>3. \A p \in Pipes : e1'[p] \in Stages /\ e1'[p].exc \in EarlyExc
    <3>1. e1' = e1 \/ e1' = <<Bubble, Bubble>>
      BY <1>1 DEF IssueNothing
    <3> QED BY <1>p, <3>1, BubbleType DEF PipeType
  <2>4. divPend' \in BOOLEAN /\ csrPend' \in BOOLEAN
    BY <1>1 DEF IssueNothing, DivPendAfter, CsrPendAfter, PipeType
  <2>5. div' \in [busy : BOOLEAN, res : Values, valid : BOOLEAN, out : Values]
    BY <1>1, <1>j, DivideType DEF IssueNothing
  <2> QED BY <1>1, <1>j, <2>1, <2>2, <2>3, <2>4, <2>5 DEF IssueNothing
<1>2. ASSUME NEW w \in {0, 1}, Ready(w, lsuStall, done, err), Issue(<<w>>, fin)
      PROVE  /\ head' \in HeadStates /\ pcX' \in PCs
             /\ \A p \in Pipes : e1'[p] \in Stages /\ e1'[p].exc \in EarlyExc
             /\ divPend' \in BOOLEAN /\ csrPend' \in BOOLEAN
             /\ csrOut' \in [val : Values, exc : CsrExc]
             /\ div' \in [busy : BOOLEAN, res : Values, valid : BOOLEAN, out : Values]
  <2> DEFINE a == prog[pcX]
  <2>1. /\ a \in Instrs
        /\ e1' = <<Issued(a, pcX), Bubble>>
        /\ pcX' = IF Taken(a) THEN a.to ELSE IF take THEN pcX ELSE PCAfter(pcX)
        /\ FrontKeeps(IF take THEN head.words ELSE head.words \ (0..w))
        /\ csrOut' = IF take THEN NoCsr ELSE CsrResult(a)
        /\ Divide(Start(a), Succ(Operand(a.ra)), fin)
        /\ divPend' = DivPendAfter(Start(a), FALSE)
        /\ csrPend' = CsrPendAfter(a.kind \in CsrClass /\ ~take, FALSE, FALSE)
    BY <1>2, IssueOneIs DEF Ready
  <2> HIDE DEF a
  <2>2. pcX \in PCs /\ a.to \in PCs /\ PCAfter(pcX) \in PCs
    BY <2>1, PCAfterType DEF PipeType, Instrs
  <2>3. Issued(a, pcX) \in Stages /\ Issued(a, pcX).exc \in EarlyExc
        /\ CsrResult(a) \in [val : Values, exc : CsrExc] /\ Succ(Operand(a.ra)) \in Values
    BY <2>1, <2>2, IssuedType
  <2>4. head' \in HeadStates
    <3> DEFINE words == IF take THEN head.words ELSE head.words \ (0..w)
    <3>1. words \in SUBSET {0, 1}
      BY <1>h
    <3>2. FrontKeeps(words)
      BY <2>1
    <3> HIDE DEF words
    <3> QED BY <3>1, <3>2, HeadType
  <2>5. div' \in [busy : BOOLEAN, res : Values, valid : BOOLEAN, out : Values]
    BY <2>1, <2>3, DivideType DEF Start
  <2>6. divPend' \in BOOLEAN /\ csrPend' \in BOOLEAN
    BY <2>1 DEF DivPendAfter, CsrPendAfter, PipeType
  <2>7. \A p \in Pipes : e1'[p] \in Stages /\ e1'[p].exc \in EarlyExc
    BY <1>p, <2>1, <2>3, BubbleType
  <2>8. pcX' \in PCs /\ csrOut' \in [val : Values, exc : CsrExc]
    BY <1>j, <2>1, <2>2, <2>3
  <2> QED BY <2>4, <2>5, <2>6, <2>7, <2>8
<1>3. ASSUME Ready(0, lsuStall, done, err), Issue(<<0, 1>>, fin), ~take
      PROVE  /\ head' \in HeadStates /\ pcX' \in PCs
             /\ \A p \in Pipes : e1'[p] \in Stages /\ e1'[p].exc \in EarlyExc
             /\ divPend' \in BOOLEAN /\ csrPend' \in BOOLEAN
             /\ csrOut' \in [val : Values, exc : CsrExc]
             /\ div' \in [busy : BOOLEAN, res : Values, valid : BOOLEAN, out : Values]
  <2> DEFINE a == prog[pcX]
             b == prog[PCAfter(pcX)]
  <2>1. /\ a \in Instrs /\ b \in Instrs /\ PCAfter(pcX) \in PCs
        /\ e1' = <<Issued(a, pcX), Issued(b, PCAfter(pcX))>>
        /\ pcX' = IF Taken(b) THEN b.to ELSE IF Taken(a) THEN a.to ELSE PCAfter(PCAfter(pcX))
        /\ FrontKeeps(head.words \ (0..1))
        /\ csrOut' = CsrResult(a)
        /\ Divide(Start(a), Succ(Operand(a.ra)), fin)
        /\ divPend' = DivPendAfter(Start(a), FALSE)
        /\ csrPend' = CsrPendAfter(a.kind \in CsrClass, FALSE, FALSE)
    BY <1>3, IssueTwoIs DEF Ready
  <2> HIDE DEF a, b
  <2>2. pcX \in PCs /\ a.to \in PCs /\ b.to \in PCs /\ PCAfter(PCAfter(pcX)) \in PCs
    BY <2>1, PCAfterType DEF PipeType, Instrs
  <2>3. /\ Issued(a, pcX) \in Stages /\ Issued(a, pcX).exc \in EarlyExc
        /\ Issued(b, PCAfter(pcX)) \in Stages /\ Issued(b, PCAfter(pcX)).exc \in EarlyExc
        /\ CsrResult(a) \in [val : Values, exc : CsrExc] /\ Succ(Operand(a.ra)) \in Values
    BY <2>1, <2>2, IssuedType
  <2>4. head' \in HeadStates
    BY <1>h, <2>1, HeadType
  <2>5. div' \in [busy : BOOLEAN, res : Values, valid : BOOLEAN, out : Values]
    BY <2>1, <2>3, DivideType DEF Start
  <2>6. divPend' \in BOOLEAN /\ csrPend' \in BOOLEAN
    BY <2>1 DEF DivPendAfter, CsrPendAfter, PipeType
  <2>7. \A p \in Pipes : e1'[p] \in Stages /\ e1'[p].exc \in EarlyExc
    BY <1>p, <2>1, <2>3
  <2>8. pcX' \in PCs /\ csrOut' \in [val : Values, exc : CsrExc]
    BY <2>1, <2>2, <2>3
  <2> QED BY <2>4, <2>5, <2>6, <2>7, <2>8
<1>4. SquashAny(done, err) \in BOOLEAN
  BY DEF SquashAny
<1> QED BY <1>1, <1>2, <1>3, <1>4, FrontCases DEF IssuesPair

LEMMA StepType == PipeType /\ [Next]_vars => PipeType'
<1> SUFFICES ASSUME PipeType, [Next]_vars PROVE PipeType'
  OBVIOUS
<1>1. CASE UNCHANGED vars
  BY <1>1 DEF vars, PipeType
<1>2. CASE Next
  <2>1. PICK lsuStall \in BOOLEAN, a \in Answers : Clock(lsuStall, a.done, a.err, a.fin)
    BY <1>2 DEF Next
  <2>2. a.done \in BOOLEAN /\ a.err \in BOOLEAN /\ a.fin \in BOOLEAN
    BY SwitchAssumption DEF Answers, PipeType
  <2> DEFINE done == a.done  err == a.err  fin == a.fin
  <2> HIDE DEF done, err, fin
  <2>3. done \in BOOLEAN /\ err \in BOOLEAN /\ fin \in BOOLEAN /\ Clock(lsuStall, done, err, fin)
    BY <2>1, <2>2 DEF done, err, fin
  <2>4. /\ head' \in HeadStates /\ pcX' \in PCs
        /\ \A p \in Pipes : e1'[p] \in Stages /\ e1'[p].exc \in EarlyExc
        /\ divPend' \in BOOLEAN /\ csrPend' \in BOOLEAN
        /\ csrOut' \in [val : Values, exc : CsrExc]
        /\ div' \in [busy : BOOLEAN, res : Values, valid : BOOLEAN, out : Values]
    BY <2>3, FrontTypes DEF Clock
  <2>5. /\ \A p \in Pipes : e2'[p] \in Stages
        /\ \A p \in Pipes : wb'[p] \in Stages
        /\ (\A p \in Pipes : sq'[p] \in BOOLEAN) /\ regs' \in [Regs -> Values]
    <3>1. CASE Waits(done)
      BY <2>3, <3>1 DEF Clock, PipeType
    <3>2. CASE ~Waits(done)
      <4>1. Advance(done, err)
        BY <2>3, <3>2 DEF Clock
      <4> QED BY <2>3, <4>1, AdvanceIs, WrittenType
    <3> QED BY <3>1, <3>2
  <2>6. take' \in BOOLEAN
    BY <2>3 DEF Clock, TakeNext
  <2> QED BY <2>3, <2>4, <2>5, <2>6, CsrTypes DEF Clock, PipeType
<1> QED BY <1>1, <1>2

-----------------------------------------------------------------------------
(* The inductive invariant                                                 *)

LineEmpty == \A p \in Pipes : e1[p].kind = "none" /\ e2[p].kind = "none"

(* The second pipe is used with the first only, for what may be paired.    *)
SecondKinds == {"none", "alu", "mul"} \cup Memory \cup Jumps
InPairs ==
  /\ e1[2].kind \in SecondKinds /\ e2[2].kind \in SecondKinds /\ wb[2].kind \in SecondKinds
  /\ \A p \in Pipes : e1[p].kind = "none" => e1[p].rd = 0 /\ e1[p].exc = "none"
  /\ \A p \in Pipes : e2[p].kind = "none" => e2[p].rd = 0
  /\ e1[1].kind = "none" => e1[2].kind = "none"
  /\ e2[1].kind = "none" => e2[2].kind = "none" /\ e2[1].exc = "none" /\ e2[2].exc = "none"

(* A trap in WB is alone, and the squash it makes is still on; the pipes   *)
(* are empty when the frontend is told where to go.                        *)
Traps ==
  /\ TrapSlot.exc # "none" => LineEmpty
  /\ TrapSlot.exc # "none" <=> \E p \in Pipes : sq[p]
  /\ csrOut.exc # "none" => e1[1].kind \in CsrClass
  /\ redirect.on => LineEmpty /\ \A p \in Pipes : wb[p].kind = "none" /\ wb[p].rd = 0 /\ wb[p].exc = "none"

(* A CSR operation has the pipes to itself.                                *)
CsrAlone ==
  /\ e1[1].kind \in CsrClass =>
       csrPend /\ ~MemoryInE2 /\ e1[2].kind = "none" /\ e2[1].kind \notin CsrClass /\ wb[1].kind \notin CsrClass
  /\ e2[1].kind \in CsrClass =>
       /\ csrPend /\ e2[2].kind = "none" /\ wb[1].kind \notin CsrClass
       /\ \A p \in Pipes : e1[p].kind = "none"
  /\ wb[1].kind \in CsrClass => LineEmpty /\ (csrPend \/ TrapSlot.exc # "none")

(* An interrupt is launched with interrupts enabled, and nothing that may  *)
(* disable them is in the pipes.                                           *)
Launched ==
  /\ take => /\ mie \/ redirect.on
             /\ e1[1].kind \notin CsrClass /\ e2[1].kind \notin CsrClass /\ wb[1].kind \notin CsrClass
  /\ e1[1].kind = "intr" => mie
  /\ e2[1].exc = "intr" => mie
  /\ e2[1].kind = "intr" => e2[1].exc = "intr"
  /\ wb[1].exc = "intr" => mie
  /\ e2[2].exc # "intr" /\ wb[2].exc # "intr"

OrderInv == InPairs /\ Traps /\ CsrAlone /\ Launched

-----------------------------------------------------------------------------
(* A clock, case by case: the pipes wait, move with nothing issued, or     *)
(* move with one or two words issued behind them.                          *)

Around(done, err, fin) ==
  /\ UNCHANGED prog /\ Csr
  /\ err => MemFaults
  /\ take' => irq /\ mie /\ ~csrPend

HoldStep(done, err, fin) ==
  /\ Around(done, err, fin) /\ Waits(done)
  /\ UNCHANGED <<e1, e2, wb, sq, regs>>
  /\ csrOut' = NoCsr
  /\ pcX' = IF redirect.on THEN redirect.pc ELSE pcX
  /\ Divide(FALSE, Junk, fin)
  /\ divPend' = DivPendAfter(FALSE, SquashAny(done, err))
  /\ csrPend' = CsrPendAfter(FALSE, SquashAny(done, err), TRUE)

DrainStep(done, err, fin) ==
  /\ Around(done, err, fin) /\ ~Waits(done) /\ Advance(done, err)
  /\ e1'[1] = Bubble /\ e1'[2] = Bubble
  /\ csrOut' = NoCsr
  /\ pcX' = IF redirect.on THEN redirect.pc ELSE pcX
  /\ Divide(FALSE, Junk, fin)
  /\ divPend' = DivPendAfter(FALSE, SquashAny(done, err))
  /\ csrPend' = CsrPendAfter(FALSE, SquashAny(done, err), FALSE)

OneStep(lsuStall, done, err, fin) ==
  LET a == prog[pcX] IN
  /\ Around(done, err, fin) /\ ~Waits(done) /\ Advance(done, err)
  /\ \E w \in {0, 1} : Ready(w, lsuStall, done, err)
  /\ a \in Instrs
  /\ e1'[1] = Issued(a, pcX) /\ e1'[2] = Bubble
  /\ pcX' = IF Taken(a) THEN a.to ELSE IF take THEN pcX ELSE PCAfter(pcX)
  /\ csrOut' = IF take THEN NoCsr ELSE CsrResult(a)
  /\ Divide(Start(a), Succ(Operand(a.ra)), fin)
  /\ divPend' = DivPendAfter(Start(a), FALSE)
  /\ csrPend' = CsrPendAfter(a.kind \in CsrClass /\ ~take, FALSE, FALSE)
  /\ take' => a.kind \notin CsrClass

TwoStep(lsuStall, done, err, fin) ==
  LET a == prog[pcX]
      b == prog[PCAfter(pcX)]
  IN
  /\ Around(done, err, fin) /\ ~Waits(done) /\ Advance(done, err)
  /\ \E w \in {0, 1} : Ready(w, lsuStall, done, err)
  /\ a \in Instrs /\ b \in Instrs /\ PCAfter(pcX) \in PCs
  /\ MayPair(a, b) /\ ~take /\ Free(b, Scoreboard(a) \cup Claims(a))
  /\ e1'[1] = Issued(a, pcX) /\ e1'[2] = Issued(b, PCAfter(pcX))
  /\ pcX' = IF Taken(b) THEN b.to ELSE IF Taken(a) THEN a.to ELSE PCAfter(PCAfter(pcX))
  /\ csrOut' = CsrResult(a)
  /\ Divide(Start(a), Succ(Operand(a.ra)), fin)
  /\ divPend' = DivPendAfter(Start(a), FALSE)
  /\ csrPend' = CsrPendAfter(a.kind \in CsrClass, FALSE, FALSE)

LEMMA ClockCases ==
  ASSUME PipeType, [Next]_vars
  PROVE  \/ UNCHANGED vars
         \/ \E lsuStall, done, err, fin \in BOOLEAN :
              \/ HoldStep(done, err, fin)
              \/ DrainStep(done, err, fin)
              \/ OneStep(lsuStall, done, err, fin)
              \/ TwoStep(lsuStall, done, err, fin)
<1>1. CASE UNCHANGED vars
  BY <1>1
<1>2. CASE Next
  <2>1. PICK lsuStall \in BOOLEAN, ans \in Answers : Clock(lsuStall, ans.done, ans.err, ans.fin)
    BY <1>2 DEF Next
  <2>2. ans.done \in BOOLEAN /\ ans.err \in BOOLEAN /\ ans.fin \in BOOLEAN /\ (ans.err => MemFaults)
    BY SwitchAssumption DEF Answers, PipeType
  <2> DEFINE done == ans.done  err == ans.err  fin == ans.fin
  <2> HIDE DEF done, err, fin
  <2>3. done \in BOOLEAN /\ err \in BOOLEAN /\ fin \in BOOLEAN /\ Clock(lsuStall, done, err, fin)
        /\ (err => MemFaults)
    BY <2>1, <2>2 DEF done, err, fin
  <2>4. PICK csr \in CsrAtHead(Select(redirect.on \/ SquashAny(done, err))) : TakeNext(csr)
    BY <2>3 DEF Clock
  <2>5. Around(done, err, fin) /\ Front(lsuStall, done, err, fin)
    BY <2>3, <2>4 DEF Clock, Around, TakeNext
  <2>6. (Waits(done) => UNCHANGED <<e2, wb, sq, regs>>) /\ (~Waits(done) => Advance(done, err))
    BY <2>3 DEF Clock
  <2>7. ASSUME NEW w \in {0, 1}, Ready(w, lsuStall, done, err)
        PROVE  ~Waits(done) /\ (take' => prog[pcX].kind \notin CsrClass) /\ WordPC(w) = pcX
    BY <2>4, <2>7, ReadyAtHead DEF Ready, Blocked, TakeNext
  <2>8. CASE IssueNothing(Select(redirect.on \/ SquashAny(done, err)), SquashAny(done, err),
                          Waits(done), fin)
    <3>1. CASE Waits(done)
      <4>1. HoldStep(done, err, fin)
        BY <2>5, <2>6, <2>8, <3>1 DEF IssueNothing, HoldStep, CsrPendAfter
      <4> QED BY <2>3, <4>1
    <3>2. CASE ~Waits(done)
      <4>1. DrainStep(done, err, fin)
        BY <2>5, <2>6, <2>8, <3>2 DEF IssueNothing, DrainStep, CsrPendAfter
      <4> QED BY <2>3, <4>1
    <3> QED BY <3>1, <3>2
  <2>9. ASSUME NEW w \in {0, 1}, Ready(w, lsuStall, done, err), Issue(<<w>>, fin)
        PROVE  OneStep(lsuStall, done, err, fin)
    <3> DEFINE a == prog[pcX]
    <3>1. /\ a \in Instrs
          /\ e1' = <<Issued(a, pcX), Bubble>>
          /\ pcX' = IF Taken(a) THEN a.to ELSE IF take THEN pcX ELSE PCAfter(pcX)
          /\ csrOut' = IF take THEN NoCsr ELSE CsrResult(a)
          /\ Divide(Start(a), Succ(Operand(a.ra)), fin)
          /\ divPend' = DivPendAfter(Start(a), FALSE)
          /\ csrPend' = CsrPendAfter(a.kind \in CsrClass /\ ~take, FALSE, FALSE)
      BY <2>7, <2>9, IssueOneIs
    <3>2. e1'[1] = Issued(a, pcX) /\ e1'[2] = Bubble
      BY <3>1
    <3>3. ~Waits(done) /\ Advance(done, err) /\ (take' => a.kind \notin CsrClass)
      BY <2>6, <2>7, <2>9
    <3> QED BY <2>5, <2>9, <3>1, <3>2, <3>3 DEF OneStep
  <2>10. ASSUME Ready(0, lsuStall, done, err),
                IssuesPair(prog[WordPC(0)], prog[WordPC(1)]), Issue(<<0, 1>>, fin)
         PROVE  TwoStep(lsuStall, done, err, fin)
    <3>1. WordPC(0) = pcX /\ ~take /\ MayPair(prog[pcX], prog[WordPC(1)])
          /\ Free(prog[WordPC(1)], Scoreboard(prog[pcX]) \cup Claims(prog[pcX]))
      BY <2>7, <2>10 DEF IssuesPair
    <3>2. PCAfter(pcX) = WordPC(1)
      BY <2>10, <3>1, IssueTwoIs
    <3> DEFINE a == prog[pcX]
               b == prog[PCAfter(pcX)]
    <3>3. /\ a \in Instrs /\ b \in Instrs /\ PCAfter(pcX) \in PCs
          /\ e1' = <<Issued(a, pcX), Issued(b, PCAfter(pcX))>>
          /\ pcX' = IF Taken(b) THEN b.to ELSE IF Taken(a) THEN a.to ELSE PCAfter(PCAfter(pcX))
          /\ csrOut' = CsrResult(a)
          /\ Divide(Start(a), Succ(Operand(a.ra)), fin)
          /\ divPend' = DivPendAfter(Start(a), FALSE)
          /\ csrPend' = CsrPendAfter(a.kind \in CsrClass, FALSE, FALSE)
      BY <2>10, <3>1, IssueTwoIs
    <3>4. e1'[1] = Issued(a, pcX) /\ e1'[2] = Issued(b, PCAfter(pcX))
      BY <3>3
    <3>5. ~Waits(done) /\ Advance(done, err)
      BY <2>6, <2>7, <2>10
    <3> QED BY <2>5, <2>10, <3>1, <3>2, <3>3, <3>4, <3>5 DEF TwoStep
  <2> QED BY <2>3, <2>5, <2>8, <2>9, <2>10, FrontCases
<1> QED BY <1>1, <1>2

(* Field by field, what the pipes hold after they have moved.              *)
LEMMA MovedFields ==
  ASSUME PipeType, NEW done \in BOOLEAN, NEW err \in BOOLEAN, Advance(done, err)
  PROVE  /\ SquashAny(done, err) =>
              \A p \in Pipes : e2'[p].kind = "none" /\ e2'[p].rd = 0 /\ e2'[p].exc = "none"
         /\ ~SquashAny(done, err) =>
              \A p \in Pipes :
                /\ e2'[p].kind = e1[p].kind /\ e2'[p].pc = e1[p].pc /\ e2'[p].res = e1[p].res
                /\ e2'[p].exc = IF e1[p].kind = "intr" THEN "intr"
                                ELSE IF e1[p].exc # "none" THEN e1[p].exc ELSE csrOut.exc
                /\ e2'[p].rd = IF e1[p].exc # "none" THEN 0 ELSE e1[p].rd
                /\ e2'[p].val = IF e1[p].kind = "div" THEN div.out
                                ELSE IF e1[p].kind \in CsrClass THEN csrOut.val ELSE e1[p].val
         /\ \A p \in Pipes : (p = 1 \/ ~Squash(1, done, err)) =>
              /\ wb'[p].kind = e2[p].kind /\ wb'[p].pc = e2[p].pc /\ wb'[p].res = e2[p].res
              /\ wb'[p].exc = E2Exc(p, done, err)
              /\ wb'[p].rd = IF E2Exc(p, done, err) # "none" THEN 0 ELSE e2[p].rd
              /\ wb'[p].val = IF e2[p].kind \in Memory \cup {"mul"} THEN e2[p].res ELSE e2[p].val
         /\ Squash(1, done, err) => wb'[2].kind = "none" /\ wb'[2].rd = 0 /\ wb'[2].exc = "none"
<1>p. Pipes = {1, 2}
  BY DEF Pipes
<1>b. Bubble.kind = "none" /\ Bubble.rd = 0 /\ Bubble.exc = "none"
  BY DEF Bubble
<1>1. /\ IF SquashAny(done, err) THEN e2'[1] = Bubble /\ e2'[2] = Bubble
         ELSE e2'[1] = Executed(e1[1]) /\ e2'[2] = Executed(e1[2])
      /\ wb'[1] = Committed(e2[1], E2Exc(1, done, err))
      /\ wb'[2] = IF Squash(1, done, err) THEN Bubble ELSE Committed(e2[2], E2Exc(2, done, err))
  BY AdvanceIs
<1>2. \A p \in Pipes : e1[p] \in Stages /\ e2[p] \in Stages /\ E2Exc(p, done, err) \in Excs
  BY E2ExcType DEF PipeType
<1>3. ASSUME ~SquashAny(done, err), NEW p \in Pipes
      PROVE  /\ e2'[p].kind = e1[p].kind /\ e2'[p].pc = e1[p].pc /\ e2'[p].res = e1[p].res
             /\ e2'[p].exc = IF e1[p].kind = "intr" THEN "intr"
                             ELSE IF e1[p].exc # "none" THEN e1[p].exc ELSE csrOut.exc
             /\ e2'[p].rd = IF e1[p].exc # "none" THEN 0 ELSE e1[p].rd
             /\ e2'[p].val = IF e1[p].kind = "div" THEN div.out
                             ELSE IF e1[p].kind \in CsrClass THEN csrOut.val ELSE e1[p].val
  <2>1. e2'[p] = Executed(e1[p])
    BY <1>p, <1>1, <1>3
  <2> QED BY <1>2, <2>1, ExecutedIs
<1>4. ASSUME NEW p \in Pipes, p = 1 \/ ~Squash(1, done, err)
      PROVE  /\ wb'[p].kind = e2[p].kind /\ wb'[p].pc = e2[p].pc /\ wb'[p].res = e2[p].res
             /\ wb'[p].exc = E2Exc(p, done, err)
             /\ wb'[p].rd = IF E2Exc(p, done, err) # "none" THEN 0 ELSE e2[p].rd
             /\ wb'[p].val = IF e2[p].kind \in Memory \cup {"mul"} THEN e2[p].res ELSE e2[p].val
  <2>1. wb'[p] = Committed(e2[p], E2Exc(p, done, err))
    BY <1>p, <1>1, <1>4
  <2> QED BY <1>2, <2>1, CommittedIs
<1>5. SquashAny(done, err) =>
        \A p \in Pipes : e2'[p].kind = "none" /\ e2'[p].rd = 0 /\ e2'[p].exc = "none"
  BY <1>p, <1>b, <1>1
<1>6. Squash(1, done, err) => wb'[2].kind = "none" /\ wb'[2].rd = 0 /\ wb'[2].exc = "none"
  BY <1>b, <1>1
<1> QED BY <1>3, <1>4, <1>5, <1>6

(* A trap in WB squashes, and does not wait.                               *)
LEMMA TrapMoves ==
  ASSUME PipeType, InPairs, Traps, TrapSlot.exc # "none",
         NEW done \in BOOLEAN, NEW err \in BOOLEAN
  PROVE  /\ ~Waits(done) /\ SquashAny(done, err)
         /\ \A p \in Pipes : E2Exc(p, done, err) = "none"
<1>1. LineEmpty /\ \E p \in Pipes : sq[p]
  BY DEF Traps
<1>2. \A p \in Pipes : e1[p].kind = "none" /\ e2[p].kind = "none"
  BY <1>1 DEF LineEmpty
<1>3. \A p \in Pipes : E2Exc(p, done, err) = "none"
  BY <1>2 DEF E2Exc, Memory, InPairs, Pipes
<1>4. ~Waits(done)
  BY <1>2 DEF Waits, Memory, Pipes
<1>5. SquashAny(done, err)
  BY <1>1 DEF SquashAny, Squash
<1> QED BY <1>3, <1>4, <1>5

(* What issues.                                                            *)
LEMMA IssuedFields ==
  ASSUME PipeType, NEW i \in Instrs, NEW pc \in PCs
  PROVE  LET x == Issued(i, pc) IN
         /\ x.kind = (IF take THEN "intr" ELSE i.kind) /\ x.kind # "none"
         /\ x.rd = IF i.kind \in WritesRd /\ ~take THEN i.rd ELSE 0
         /\ x.pc = pc
         /\ x.val = IF i.kind \in {"alu"} \cup Jumps THEN Succ(Operand(i.ra)) ELSE Junk
         /\ x.res = Succ(Operand(i.ra))
         /\ x.exc = IF i.kind = "fault" THEN "fault"
                    ELSE IF i.kind = "badjump" /\ Taken(i) THEN "misaligned" ELSE "none"
         /\ (CsrResult(i).exc # "none" => i.kind \in CsrClass)
         /\ i.kind \in Kinds
  BY DEF Issued, Instrs, Kinds, Memory, CsrClass, Jumps, CsrResult, NoCsr

LEMMA InitOrder == Init => OrderInv
<1> SUFFICES ASSUME Init PROVE OrderInv
  OBVIOUS
<1>1. /\ \A p \in Pipes : e1[p] = Bubble /\ e2[p] = Bubble /\ wb[p] = Bubble
      /\ e1[1] = Bubble /\ e2[1] = Bubble /\ wb[1] = Bubble
      /\ e1[2] = Bubble /\ e2[2] = Bubble /\ wb[2] = Bubble
  BY DEF Init, Pipes
<1>2. Bubble.kind = "none" /\ Bubble.rd = 0 /\ Bubble.exc = "none"
  BY DEF Bubble
<1>3. InPairs
  BY <1>1, <1>2 DEF InPairs, SecondKinds
<1>4. TrapSlot.exc = "none" /\ LineEmpty
  BY <1>1, <1>2 DEF TrapSlot, LineEmpty
<1>5. \A p \in Pipes : ~sq[p]
  <2>1. <<FALSE, FALSE>>[1] = FALSE /\ <<FALSE, FALSE>>[2] = FALSE
    OBVIOUS
  <2>2. sq[1] = FALSE /\ sq[2] = FALSE
    BY <2>1 DEF Init
  <2> QED BY <2>2 DEF Pipes
<1>6. csrOut.exc = "none" /\ take = FALSE
  BY DEF Init, NoCsr
<1>7. Traps
  BY <1>1, <1>2, <1>4, <1>5, <1>6 DEF Traps
<1>8. CsrAlone /\ Launched
  BY <1>1, <1>2, <1>6 DEF CsrAlone, Launched, CsrClass
<1> QED BY <1>3, <1>7, <1>8 DEF OrderInv

LEMMA StepInPairs == PipeType /\ OrderInv /\ [Next]_vars => InPairs'
<1> SUFFICES ASSUME PipeType, OrderInv, [Next]_vars PROVE InPairs'
  OBVIOUS
<1>i. InPairs /\ Traps
  BY DEF OrderInv
<1>p. Pipes = {1, 2}
  BY DEF Pipes
<1>b. Bubble.kind = "none" /\ Bubble.rd = 0 /\ Bubble.exc = "none"
  BY DEF Bubble
<1>1. CASE UNCHANGED vars
  BY <1>1, <1>i DEF InPairs, vars
<1>2. ASSUME NEW done \in BOOLEAN, NEW err \in BOOLEAN, NEW fin \in BOOLEAN, HoldStep(done, err, fin)
      PROVE  InPairs'
  BY <1>2, <1>i DEF HoldStep, InPairs
<1>3. ASSUME NEW done \in BOOLEAN, NEW err \in BOOLEAN, Advance(done, err)
      PROVE  /\ e2'[2].kind \in SecondKinds /\ wb'[2].kind \in SecondKinds
             /\ \A p \in Pipes : e2'[p].kind = "none" => e2'[p].rd = 0
             /\ e2'[1].kind = "none" => e2'[2].kind = "none" /\ e2'[1].exc = "none" /\ e2'[2].exc = "none"
  <2>1. e2'[2].kind \in SecondKinds
    BY <1>3, <1>i, <1>p, MovedFields DEF InPairs, SecondKinds
  <2>2. wb'[2].kind \in SecondKinds
    BY <1>3, <1>i, <1>p, MovedFields DEF InPairs, SecondKinds
  <2>3. \A p \in Pipes : e2'[p].kind = "none" => e2'[p].rd = 0
    BY <1>3, <1>i, MovedFields DEF InPairs
  <2>4. ASSUME e2'[1].kind = "none"
        PROVE  e2'[2].kind = "none" /\ e2'[1].exc = "none" /\ e2'[2].exc = "none"
    <3>1. CASE SquashAny(done, err)
      BY <1>3, <1>p, <3>1, MovedFields
    <3>2. CASE ~SquashAny(done, err)
      <4>1. e1[1].kind = "none" /\ e1[2].kind = "none" /\ csrOut.exc = "none"
        BY <1>3, <1>i, <1>p, <2>4, <3>2, MovedFields DEF InPairs, Traps, CsrClass
      <4>2. e1[1].exc = "none" /\ e1[2].exc = "none"
        BY <1>i, <1>p, <4>1 DEF InPairs
      <4> QED BY <1>3, <1>p, <3>2, <4>1, <4>2, MovedFields
    <3> QED BY <3>1, <3>2
  <2> QED BY <2>1, <2>2, <2>3, <2>4
<1>4. ASSUME NEW done \in BOOLEAN, NEW err \in BOOLEAN, NEW fin \in BOOLEAN, DrainStep(done, err, fin)
      PROVE  InPairs'
  <2>1. e1'[1] = Bubble /\ e1'[2] = Bubble
    BY <1>4 DEF DrainStep
  <2> QED BY <1>3, <1>4, <1>b, <1>p, <2>1 DEF DrainStep, InPairs, SecondKinds
<1>5. ASSUME NEW lsuStall \in BOOLEAN, NEW done \in BOOLEAN, NEW err \in BOOLEAN, NEW fin \in BOOLEAN,
             OneStep(lsuStall, done, err, fin)
      PROVE  InPairs'
  <2>1. e1'[1].kind # "none" /\ e1'[2] = Bubble
    BY <1>5, IssuedFields DEF OneStep, PipeType
  <2> QED BY <1>3, <1>5, <1>b, <1>p, <2>1 DEF OneStep, InPairs, SecondKinds
<1>6. ASSUME NEW lsuStall \in BOOLEAN, NEW done \in BOOLEAN, NEW err \in BOOLEAN, NEW fin \in BOOLEAN,
             TwoStep(lsuStall, done, err, fin)
      PROVE  InPairs'
  <2> DEFINE b == prog[PCAfter(pcX)]
  <2>1. e1'[1].kind # "none" /\ e1'[2].kind = b.kind /\ b.kind # "none"
    BY <1>6, IssuedFields DEF TwoStep, PipeType
  <2>2. b.kind \in SecondKinds
    BY <1>6 DEF TwoStep, MayPair, SecondKinds
  <2> HIDE DEF b
  <2> QED BY <1>3, <1>6, <1>p, <2>1, <2>2 DEF TwoStep, InPairs
<1> QED BY <1>1, <1>2, <1>4, <1>5, <1>6, ClockCases

(* The squash of an exception is on in the clock in which it reaches WB.   *)
LEMMA MovedTrap ==
  ASSUME PipeType, InPairs, Traps, NEW done \in BOOLEAN, NEW err \in BOOLEAN, Advance(done, err)
  PROVE  /\ TrapSlot'.exc # "none" <=> \E p \in Pipes : sq'[p]
         /\ TrapSlot'.exc # "none" => SquashAny(done, err)
<1>p. Pipes = {1, 2}
  BY DEF Pipes
<1>1. sq'[1] = (E2Exc(1, done, err) # "none") /\ sq'[2] = (E2Exc(2, done, err) # "none")
  BY AdvanceIs
<1>2. wb'[1].exc = E2Exc(1, done, err)
  BY <1>p, MovedFields
<1>3. CASE Squash(1, done, err)
  <2>1. SquashAny(done, err) /\ wb'[2].exc = "none"
    BY <1>p, <1>3, MovedFields DEF SquashAny
  <2>2. CASE E2Exc(1, done, err) # "none"
    BY <1>p, <1>1, <1>2, <2>1, <2>2 DEF TrapSlot
  <2>3. CASE E2Exc(1, done, err) = "none"
    <3>1. sq[1] /\ TrapSlot.exc # "none"
      BY <1>p, <1>3, <2>3 DEF Squash, Traps
    <3>2. E2Exc(2, done, err) = "none"
      BY <1>p, <3>1, TrapMoves
    <3> QED BY <1>p, <1>1, <1>2, <2>1, <2>3, <3>2 DEF TrapSlot
  <2> QED BY <2>2, <2>3
<1>4. CASE ~Squash(1, done, err)
  <2>1. E2Exc(1, done, err) = "none" /\ wb'[2].exc = E2Exc(2, done, err)
    BY <1>p, <1>4, MovedFields DEF Squash
  <2>2. E2Exc(2, done, err) # "none" => SquashAny(done, err)
    BY <1>p DEF SquashAny, Squash
  <2> QED BY <1>p, <1>1, <1>2, <2>1, <2>2 DEF TrapSlot
<1> QED BY <1>3, <1>4

LEMMA StepTraps == PipeType /\ OrderInv /\ [Next]_vars => Traps'
<1> SUFFICES ASSUME PipeType, OrderInv, [Next]_vars PROVE Traps'
  OBVIOUS
<1>i. InPairs /\ Traps
  BY DEF OrderInv
<1>p. Pipes = {1, 2}
  BY DEF Pipes
<1>b. Bubble.kind = "none" /\ Bubble.rd = 0 /\ Bubble.exc = "none" /\ NoCsr.exc = "none"
  BY DEF Bubble, NoCsr
<1>1. CASE UNCHANGED vars
  BY <1>1, <1>i DEF Traps, TrapSlot, LineEmpty, vars
<1>2. ASSUME NEW done \in BOOLEAN, NEW err \in BOOLEAN, NEW fin \in BOOLEAN, HoldStep(done, err, fin)
      PROVE  Traps'
  <2>1. TrapSlot.exc = "none"
    BY <1>2, <1>i, TrapMoves DEF HoldStep
  <2>2. ~redirect'.on
    BY <1>2, <2>1 DEF HoldStep, Around, Csr
  <2>3. csrOut'.exc = "none" /\ TrapSlot'.exc = "none" /\ sq' = sq
    BY <1>2, <1>b, <2>1 DEF HoldStep, TrapSlot
  <2> QED BY <1>i, <2>1, <2>2, <2>3 DEF Traps
<1>3. ASSUME NEW done \in BOOLEAN, NEW err \in BOOLEAN, NEW fin \in BOOLEAN, DrainStep(done, err, fin)
      PROVE  Traps'
  <2>1. /\ e1'[1] = Bubble /\ e1'[2] = Bubble /\ csrOut'.exc = "none" /\ Advance(done, err) /\ Csr
    BY <1>3, <1>b DEF DrainStep, Around
  <2>2. TrapSlot'.exc # "none" <=> \E p \in Pipes : sq'[p]
    BY <1>i, <2>1, MovedTrap
  <2>3. SquashAny(done, err) => LineEmpty'
    BY <1>b, <1>p, <2>1, MovedFields DEF LineEmpty
  <2>4. TrapSlot'.exc # "none" => LineEmpty'
    BY <1>i, <2>1, <2>3, MovedTrap
  <2>5. ASSUME redirect'.on
        PROVE  LineEmpty' /\ \A p \in Pipes : wb'[p].kind = "none" /\ wb'[p].rd = 0 /\ wb'[p].exc = "none"
    <3>1. TrapSlot.exc # "none"
      BY <2>1, <2>5 DEF Csr
    <3>2. /\ SquashAny(done, err) /\ LineEmpty
          /\ \A p \in Pipes : E2Exc(p, done, err) = "none"
      BY <1>i, <3>1, TrapMoves DEF Traps
    <3>3. \A p \in Pipes : e2[p].kind = "none" /\ e2[p].rd = 0
      BY <1>i, <3>2 DEF LineEmpty, InPairs
    <3>4. \A p \in Pipes : wb'[p].kind = "none" /\ wb'[p].rd = 0 /\ wb'[p].exc = "none"
      <4>1. wb'[1].kind = "none" /\ wb'[1].rd = 0 /\ wb'[1].exc = "none"
        BY <1>p, <2>1, <3>2, <3>3, MovedFields
      <4>2. wb'[2].kind = "none" /\ wb'[2].rd = 0 /\ wb'[2].exc = "none"
        BY <1>p, <2>1, <3>2, <3>3, MovedFields
      <4> QED BY <1>p, <4>1, <4>2
    <3> QED BY <2>3, <3>2, <3>4
  <2> QED BY <2>1, <2>2, <2>4, <2>5 DEF Traps
<1>4. ASSUME NEW lsuStall \in BOOLEAN, NEW done \in BOOLEAN, NEW err \in BOOLEAN, NEW fin \in BOOLEAN,
             OneStep(lsuStall, done, err, fin) \/ TwoStep(lsuStall, done, err, fin)
      PROVE  Traps'
  <2>1. Advance(done, err) /\ Csr /\ ~SquashAny(done, err)
    BY <1>4 DEF OneStep, TwoStep, Around, Ready
  <2>2. TrapSlot.exc = "none" /\ ~redirect'.on
    BY <1>i, <2>1, TrapMoves DEF Csr
  <2>3. TrapSlot'.exc = "none" /\ ~ \E p \in Pipes : sq'[p]
    BY <1>i, <2>1, MovedTrap
  <2>4. csrOut'.exc # "none" => e1'[1].kind \in CsrClass
    <3> DEFINE a == prog[pcX]
    <3>1. /\ a \in Instrs /\ e1'[1] = Issued(a, pcX) /\ (csrOut' = CsrResult(a) \/ csrOut' = NoCsr)
          /\ take => csrOut' = NoCsr
      BY <1>4 DEF OneStep, TwoStep
    <3>2. e1'[1].kind = (IF take THEN "intr" ELSE a.kind) /\ (CsrResult(a).exc # "none" => a.kind \in CsrClass)
      BY <3>1, IssuedFields DEF PipeType
    <3> HIDE DEF a
    <3> QED BY <1>b, <3>1, <3>2
  <2> QED BY <2>2, <2>3, <2>4 DEF Traps
<1> QED BY <1>1, <1>2, <1>3, <1>4, ClockCases

(* Behind a load or a store in E1 no CSR operation issues.                 *)
LEMMA CsrWaits ==
  ASSUME PipeType, NEW w \in {0, 1}, NEW lsuStall, NEW done, NEW err, Ready(w, lsuStall, done, err),
         prog[pcX].kind \in CsrClass
  PROVE  ~MemoryInE1
<1>1. prog[pcX] \in Instrs /\ Free(prog[pcX], Scoreboard(prog[pcX]))
  BY DEF Ready, PipeType
<1>2. prog[pcX].ra \in Regs
  BY <1>1 DEF Instrs
<1> QED BY <1>1, <1>2 DEF Free, Scoreboard

LEMMA StepCsrAlone == PipeType /\ OrderInv /\ [Next]_vars => CsrAlone'
<1> SUFFICES ASSUME PipeType, OrderInv, [Next]_vars PROVE CsrAlone'
  OBVIOUS
<1>i. InPairs /\ Traps /\ CsrAlone
  BY DEF OrderInv
<1>p. Pipes = {1, 2}
  BY DEF Pipes
<1>b. Bubble.kind = "none" /\ "none" \notin CsrClass /\ "none" \notin Memory
  BY DEF Bubble, CsrClass, Memory
<1>1. CASE UNCHANGED vars
  BY <1>1, <1>i DEF CsrAlone, MemoryInE2, TrapSlot, LineEmpty, vars
<1>2. ASSUME NEW done \in BOOLEAN, NEW err \in BOOLEAN, NEW fin \in BOOLEAN, HoldStep(done, err, fin)
      PROVE  CsrAlone'
  <2>1. UNCHANGED <<e1, e2, wb>>
    BY <1>2 DEF HoldStep
  <2>2. e1[1].kind = "div" \/ MemoryInE2
    BY <1>2 DEF HoldStep, Waits, MemoryInE2
  <2>3. e1[1].kind \notin CsrClass
    BY <1>i, <2>2 DEF CsrAlone, CsrClass
  <2>4. e2[1].kind \notin CsrClass
    BY <1>b, <1>i, <1>p, <2>2 DEF CsrAlone, CsrClass, MemoryInE2, Memory
  <2>5. wb[1].kind \notin CsrClass
    BY <1>b, <1>i, <1>p, <2>2 DEF CsrAlone, LineEmpty, MemoryInE2, Memory
  <2> QED BY <2>1, <2>3, <2>4, <2>5 DEF CsrAlone
<1>3. ASSUME NEW done \in BOOLEAN, NEW err \in BOOLEAN, Advance(done, err),
             e1'[1].kind \notin CsrClass,
             wb[1].kind \notin CsrClass /\ ~SquashAny(done, err) => csrPend' = csrPend,
             e1[1].kind \in CsrClass \/ e2[1].kind \in CsrClass \/ SquashAny(done, err)
               => \A p \in Pipes : e1'[p].kind = "none"
      PROVE  CsrAlone'
  <2>1. ASSUME e2'[1].kind \in CsrClass
        PROVE  /\ csrPend' /\ e2'[2].kind = "none" /\ wb'[1].kind \notin CsrClass
               /\ \A p \in Pipes : e1'[p].kind = "none"
    <3>1. ~SquashAny(done, err) /\ e1[1].kind \in CsrClass
      BY <1>3, <1>b, <1>p, <2>1, MovedFields
    <3>2. csrPend /\ wb[1].kind \notin CsrClass /\ e1[2].kind = "none" /\ e2[1].kind \notin CsrClass
      BY <1>i, <3>1 DEF CsrAlone
    <3>3. e2'[2].kind = "none" /\ wb'[1].kind \notin CsrClass
      BY <1>3, <1>p, <3>1, <3>2, MovedFields
    <3> QED BY <1>3, <3>1, <3>2, <3>3
  <2>2. ASSUME wb'[1].kind \in CsrClass
        PROVE  LineEmpty' /\ (csrPend' \/ TrapSlot'.exc # "none")
    <3>1. e2[1].kind \in CsrClass
      BY <1>3, <1>p, <2>2, MovedFields
    <3>2. /\ csrPend /\ wb[1].kind \notin CsrClass /\ e2[2].kind = "none"
          /\ \A p \in Pipes : e1[p].kind = "none"
      BY <1>i, <3>1 DEF CsrAlone
    <3>3. \A p \in Pipes : e2'[p].kind = "none"
      BY <1>3, <3>2, MovedFields
    <3>4. LineEmpty'
      BY <1>3, <3>1, <3>3 DEF LineEmpty
    <3>5. SquashAny(done, err) => TrapSlot'.exc # "none"
      <4> SUFFICES ASSUME SquashAny(done, err) PROVE \E p \in Pipes : sq'[p]
        BY <1>3, <1>i, MovedTrap
      <4>1. PICK p \in Pipes : E2Exc(p, done, err) # "none" \/ sq[p]
        BY DEF SquashAny, Squash
      <4>2. ~sq[p]
        BY <1>i, <3>1, <1>b, <1>p DEF Traps, LineEmpty
      <4>3. sq'[1] = (E2Exc(1, done, err) # "none") /\ sq'[2] = (E2Exc(2, done, err) # "none")
        BY <1>3, AdvanceIs
      <4> QED BY <1>p, <4>1, <4>2, <4>3
    <3> QED BY <1>3, <3>2, <3>4, <3>5
  <2> QED BY <1>3, <2>1, <2>2 DEF CsrAlone
<1>4. ASSUME NEW done \in BOOLEAN, NEW err \in BOOLEAN, NEW fin \in BOOLEAN, DrainStep(done, err, fin)
      PROVE  CsrAlone'
  <2>1. Advance(done, err) /\ e1'[1] = Bubble /\ e1'[2] = Bubble
        /\ csrPend' = CsrPendAfter(FALSE, SquashAny(done, err), FALSE)
    BY <1>4 DEF DrainStep
  <2>2. wb[1].kind \notin CsrClass /\ ~SquashAny(done, err) => csrPend' = csrPend
    BY <2>1 DEF CsrPendAfter
  <2> QED BY <1>3, <1>b, <1>p, <2>1, <2>2
<1>5. ASSUME NEW lsuStall \in BOOLEAN, NEW done \in BOOLEAN, NEW err \in BOOLEAN, NEW fin \in BOOLEAN,
             OneStep(lsuStall, done, err, fin) \/ TwoStep(lsuStall, done, err, fin)
      PROVE  CsrAlone'
  <2> DEFINE a == prog[pcX]
  <2>1. PICK w \in {0, 1} : Ready(w, lsuStall, done, err)
    BY <1>5 DEF OneStep, TwoStep
  <2>2. Advance(done, err) /\ ~SquashAny(done, err) /\ ~csrPend /\ a \in Instrs
        /\ e1'[1] = Issued(a, pcX)
        /\ csrPend' = CsrPendAfter(a.kind \in CsrClass /\ ~take, FALSE, FALSE)
    <3>1. CASE OneStep(lsuStall, done, err, fin)
      BY <2>1, <3>1 DEF OneStep, Ready, Blocked
    <3>2. CASE TwoStep(lsuStall, done, err, fin)
      <4>1. ~take /\ csrPend' = CsrPendAfter(a.kind \in CsrClass, FALSE, FALSE)
        BY <3>2 DEF TwoStep
      <4>2. csrPend' = CsrPendAfter(a.kind \in CsrClass /\ ~take, FALSE, FALSE)
        BY <4>1 DEF CsrPendAfter
      <4> QED BY <2>1, <3>2, <4>2 DEF TwoStep, Ready, Blocked
    <3> QED BY <1>5, <3>1, <3>2
  <2>3. e1'[1].kind = (IF take THEN "intr" ELSE a.kind)
    BY <2>2, IssuedFields DEF PipeType
  <2>4. e1[1].kind \notin CsrClass /\ e2[1].kind \notin CsrClass
    BY <1>i, <2>2 DEF CsrAlone
  <2>5. wb'[1].kind \notin CsrClass
    BY <1>p, <2>2, <2>4, MovedFields
  <2>6. e2'[1].kind \notin CsrClass
    BY <1>p, <2>2, <2>4, MovedFields
  <2>7. ASSUME e1'[1].kind \in CsrClass
        PROVE  csrPend' /\ ~MemoryInE2' /\ e1'[2].kind = "none"
    <3>1. a.kind \in CsrClass /\ ~take
      BY <2>3, <2>7 DEF CsrClass
    <3>2. ~MemoryInE1
      BY <2>1, <3>1, CsrWaits
    <3>3. ~MemoryInE2'
      <4>1. \A p \in Pipes : e2'[p].kind = e1[p].kind
        BY <2>2, MovedFields
      <4> QED BY <3>2, <4>1 DEF MemoryInE1, MemoryInE2
    <3>4. csrPend'
      BY <2>2, <3>1 DEF CsrPendAfter
    <3>5. OneStep(lsuStall, done, err, fin)
      BY <1>5, <3>1 DEF TwoStep, MayPair, CsrClass, Memory
    <3>6. e1'[2].kind = "none"
      BY <1>b, <3>5 DEF OneStep
    <3> QED BY <3>3, <3>4, <3>6
  <2> QED BY <2>5, <2>6, <2>7 DEF CsrAlone
<1> QED BY <1>1, <1>2, <1>4, <1>5, ClockCases

(* Interrupts are not disabled while one is in the pipes before WB.        *)
LEMMA MieKept ==
  ASSUME PipeType, OrderInv, Csr, ~LineEmpty
  PROVE  mie' = mie /\ ~redirect'.on
<1>1. TrapSlot.exc = "none" /\ wb[1].kind \notin CsrClass
  BY DEF OrderInv, Traps, CsrAlone
<1> QED BY <1>1 DEF Csr, TakesTrap, CsrClass

LEMMA StepLaunched == PipeType /\ OrderInv /\ CsrAlone' /\ [Next]_vars => Launched'
<1> SUFFICES ASSUME PipeType, OrderInv, CsrAlone', [Next]_vars PROVE Launched'
  OBVIOUS
<1>i. InPairs /\ Traps /\ CsrAlone /\ Launched
  BY DEF OrderInv
<1>p. Pipes = {1, 2}
  BY DEF Pipes
<1>b. Bubble.kind = "none" /\ "none" \notin CsrClass /\ "none" \notin Memory /\ "intr" \notin Memory
  BY DEF Bubble, CsrClass, Memory
<1>1. CASE UNCHANGED vars
  BY <1>1, <1>i DEF Launched, vars
<1>2. ASSUME NEW done \in BOOLEAN, NEW err \in BOOLEAN, NEW fin \in BOOLEAN, Around(done, err, fin), take'
      PROVE  mie' \/ redirect'.on
  <2>1. mie /\ ~csrPend /\ Csr
    BY <1>2 DEF Around
  <2>2. CASE TrapSlot.exc # "none"
    BY <2>1, <2>2 DEF Csr
  <2>3. CASE TrapSlot.exc = "none"
    <3>1. wb[1].kind # "csr"
      BY <1>i, <2>1, <2>3 DEF CsrAlone, CsrClass
    <3> QED BY <2>1, <2>3, <3>1 DEF Csr, TakesTrap
  <2> QED BY <2>2, <2>3
<1>3. ASSUME NEW done \in BOOLEAN, NEW err \in BOOLEAN, NEW fin \in BOOLEAN, HoldStep(done, err, fin)
      PROVE  Launched'
  <2>1. UNCHANGED <<e1, e2, wb>> /\ Around(done, err, fin) /\ Csr
    BY <1>3 DEF HoldStep, Around
  <2>2. ~LineEmpty
    BY <1>3, <1>b DEF HoldStep, Waits, LineEmpty, Memory, Pipes
  <2>3. mie' = mie
    BY <2>1, <2>2, MieKept
  <2>4. take' => /\ mie' \/ redirect'.on
                 /\ e1[1].kind \notin CsrClass /\ e2[1].kind \notin CsrClass /\ wb[1].kind \notin CsrClass
    <3>1. wb[1].kind \notin CsrClass
      BY <1>i, <2>2 DEF CsrAlone
    <3> QED BY <1>2, <1>i, <2>1, <3>1 DEF Around, CsrAlone
  <2> QED BY <1>i, <2>1, <2>3, <2>4 DEF Launched
<1>4. ASSUME NEW done \in BOOLEAN, NEW err \in BOOLEAN, Advance(done, err), Csr
      PROVE  /\ e2'[1].exc = "intr" => mie'
             /\ e2'[1].kind = "intr" => e2'[1].exc = "intr"
             /\ wb'[1].exc = "intr" => mie'
             /\ e2'[2].exc # "intr" /\ wb'[2].exc # "intr"
  <2>1. \A p \in Pipes : e1[p].exc # "intr" /\ csrOut.exc # "intr"
    BY DEF PipeType, EarlyExc, CsrExc
  <2>2. ASSUME e2'[1].exc = "intr" PROVE mie'
    <3>1. ~SquashAny(done, err) /\ e1[1].kind = "intr"
      BY <1>4, <1>p, <2>1, <2>2, MovedFields
    <3>2. mie /\ ~LineEmpty
      BY <1>i, <1>p, <3>1 DEF Launched, LineEmpty
    <3> QED BY <1>4, <3>2, MieKept
  <2>3. e2'[1].kind = "intr" => e2'[1].exc = "intr"
    BY <1>4, <1>p, MovedFields
  <2>4. ASSUME wb'[1].exc = "intr" PROVE mie'
    <3>1. e2[1].exc = "intr"
      BY <1>4, <1>p, <2>4, MovedFields DEF E2Exc
    <3>2. mie /\ ~LineEmpty
      BY <1>i, <1>p, <3>1 DEF Launched, LineEmpty, InPairs
    <3> QED BY <1>4, <3>2, MieKept
  <2>5. e2'[2].exc # "intr"
    BY <1>4, <1>i, <1>p, <2>1, MovedFields DEF InPairs, SecondKinds, Memory, Jumps
  <2>6. wb'[2].exc # "intr"
    BY <1>4, <1>i, <1>p, MovedFields DEF E2Exc, Launched
  <2> QED BY <2>2, <2>3, <2>4, <2>5, <2>6
<1>5. ASSUME NEW done \in BOOLEAN, NEW err \in BOOLEAN, Advance(done, err), ~csrPend
      PROVE  e2'[1].kind \notin CsrClass /\ wb'[1].kind \notin CsrClass
  <2>1. e1[1].kind \notin CsrClass /\ e2[1].kind \notin CsrClass
    BY <1>5, <1>i DEF CsrAlone
  <2> QED BY <1>5, <1>b, <1>p, <2>1, MovedFields
<1>6. ASSUME NEW done \in BOOLEAN, NEW err \in BOOLEAN, NEW fin \in BOOLEAN, DrainStep(done, err, fin)
      PROVE  Launched'
  <2>1. Around(done, err, fin) /\ Csr /\ Advance(done, err) /\ e1'[1].kind = "none"
    BY <1>6, <1>b DEF DrainStep, Around
  <2>2. take' => /\ mie' \/ redirect'.on
                 /\ e1'[1].kind \notin CsrClass /\ e2'[1].kind \notin CsrClass /\ wb'[1].kind \notin CsrClass
    BY <1>2, <1>5, <1>b, <2>1 DEF Around
  <2> QED BY <1>4, <2>1, <2>2 DEF Launched
<1>7. ASSUME NEW lsuStall \in BOOLEAN, NEW done \in BOOLEAN, NEW err \in BOOLEAN, NEW fin \in BOOLEAN,
             OneStep(lsuStall, done, err, fin) \/ TwoStep(lsuStall, done, err, fin)
      PROVE  Launched'
  <2> DEFINE a == prog[pcX]
  <2>1. PICK w \in {0, 1} : Ready(w, lsuStall, done, err)
    BY <1>7 DEF OneStep, TwoStep
  <2>2. /\ Around(done, err, fin) /\ Csr /\ Advance(done, err) /\ a \in Instrs
        /\ e1'[1] = Issued(a, pcX)
    BY <1>7 DEF OneStep, TwoStep, Around
  <2>3. ~redirect.on /\ ~SquashAny(done, err)
    BY <2>1 DEF Ready
  <2>4. e1'[1].kind = (IF take THEN "intr" ELSE a.kind) /\ a.kind \in Kinds
    BY <2>2, IssuedFields DEF PipeType
  <2>5. ASSUME e1'[1].kind = "intr" PROVE mie'
    <3>1. take
      BY <2>4, <2>5 DEF Kinds, Memory, CsrClass, Jumps
    <3>2. mie /\ wb[1].kind \notin CsrClass
      BY <1>i, <2>3, <3>1 DEF Launched
    <3>3. TrapSlot.exc = "none"
      BY <1>i, <2>3, TrapMoves
    <3> QED BY <2>2, <3>2, <3>3 DEF Csr, TakesTrap, CsrClass
  <2>6. take' => e1'[1].kind \notin CsrClass
    <3>1. CASE OneStep(lsuStall, done, err, fin)
      BY <2>4, <3>1 DEF OneStep, CsrClass
    <3>2. CASE TwoStep(lsuStall, done, err, fin)
      BY <2>4, <3>2 DEF TwoStep, MayPair, CsrClass, Memory
    <3> QED BY <1>7, <3>1, <3>2
  <2>7. take' => /\ mie' \/ redirect'.on
                 /\ e1'[1].kind \notin CsrClass /\ e2'[1].kind \notin CsrClass /\ wb'[1].kind \notin CsrClass
    BY <1>2, <1>5, <2>2, <2>6 DEF Around
  <2> QED BY <1>4, <2>2, <2>5, <2>7 DEF Launched
<1> QED BY <1>1, <1>3, <1>6, <1>7, ClockCases

LEMMA OrderInvariant == Spec => [](PipeType /\ OrderInv)
<1>1. PipeType /\ OrderInv /\ [Next]_vars => OrderInv'
  BY StepInPairs, StepTraps, StepCsrAlone, StepLaunched DEF OrderInv
<1> QED BY InitType, InitOrder, StepType, <1>1, PTL DEF Spec

-----------------------------------------------------------------------------
(* For every program, every pair the frontend may offer, and every answer  *)
(* of the units: a trap reaches WB with E1 and E2 empty, so that the CSR   *)
(* unit, which looks at WB stalled or not, takes it once.                  *)
THEOREM TrapsAlone == Spec => []TrapAlone
<1>1. PipeType /\ OrderInv => TrapAlone
  BY DEF OrderInv, Traps, LineEmpty, TrapAlone, Line, Pipes
<1> QED BY OrderInvariant, <1>1, PTL

(* A CSR operation is in E1 and in WB for one clock: its result is not     *)
(* lost to a stall in E1 and its write not made twice by one in WB.        *)
THEOREM CsrMoves == Spec => []CsrNotHeld
<1>1. PipeType /\ OrderInv => CsrNotHeld
  BY DEF OrderInv, CsrAlone, LineEmpty, CsrNotHeld, MemoryInE2, Memory, Pipes
<1> QED BY OrderInvariant, <1>1, PTL

(* An interrupt is taken only with interrupts enabled: no write to mstatus *)
(* and no trap comes between its launch and its arrival in WB.             *)
THEOREM InterruptsEnabled == Spec => []InterruptEnabled
<1>1. PipeType /\ OrderInv => InterruptEnabled
  BY DEF OrderInv, Launched, InterruptEnabled
<1> QED BY OrderInvariant, <1>1, PTL

-----------------------------------------------------------------------------
(* Loads and stores behind what will not complete                          *)

(* No jump of a program may turn out misaligned: the load or store at its  *)
(* target would be on its way before the exception is.                     *)
JumpsAligned == \A g \in Programs : \A p \in PCs : g[p].kind # "badjump"

(* What may leave E1 with an exception is alone in its pair.               *)
Excepting == CsrClass \cup {"intr"}
Alone ==
  /\ prog \in Programs /\ (irq => Interrupts) /\ (take => irq \/ redirect.on)
  /\ \A p \in Pipes : /\ e1[p].exc # "none" => e1[1].kind \in Excepting
                      /\ e2[p].exc # "none" => e2[1].kind \in Excepting
  /\ e1[1].kind = "intr" => e1[2].kind = "none"
  /\ e2[1].kind = "intr" => e2[2].kind = "none"

(* Behind an interrupt in E1 nothing but another one issues, or a CSR      *)
(* operation for which the second waits.  While the frontend has nothing   *)
(* to offer, its buffer must be clean: what an old word shows would hold   *)
(* the second one back, and a store could come in its place.               *)
NextIsCsr == \A w \in {0, 1} : Offers(w) => prog[pcX].kind \in CsrClass
LaunchedAgain ==
  e1[1].kind = "intr" =>
    irq /\ ~csrPend /\ (head.words = {} => head.clean) /\ (take \/ NextIsCsr)

RepeatInv == Alone /\ LaunchedAgain /\ MemoryNotRepeated

LEMMA ExceptingIs ==
  /\ "none" \notin Excepting /\ "none" \notin CsrClass /\ "none" \notin Memory /\ "intr" \notin Memory
  /\ \A k \in Memory : k \notin Excepting
  /\ \A k \in SecondKinds : k \notin Excepting
  /\ "intr" \notin Kinds /\ "intr" \notin CsrClass
  BY DEF Excepting, CsrClass, Memory, SecondKinds, Jumps, Kinds

LEMMA InitRepeat == Init => RepeatInv
<1> SUFFICES ASSUME Init PROVE RepeatInv
  OBVIOUS
<1>1. \A p \in Pipes : e1[p] = Bubble /\ e2[p] = Bubble
  BY DEF Init, Pipes
<1>2. Bubble.kind = "none" /\ Bubble.exc = "none" /\ 1 \in Pipes
  BY DEF Bubble, Pipes
<1>3. /\ e1[1].kind = "none" /\ e2[1].kind = "none"
      /\ \A p \in Pipes : e1[p].kind = "none" /\ e1[p].exc = "none" /\ e2[p].exc = "none"
  BY <1>1, <1>2
<1>4. prog \in Programs /\ ~irq /\ ~take
  BY DEF Init
<1>5. Alone /\ LaunchedAgain
  BY <1>3, <1>4 DEF Alone, LaunchedAgain
<1>6. MemoryNotRepeated
  BY <1>3 DEF MemoryNotRepeated
<1> QED BY <1>5, <1>6 DEF RepeatInv

(* While an interrupt is in E1, nothing flushes the frontend.              *)
LEMMA InterruptBehind ==
  ASSUME PipeType, OrderInv, Alone, e1[1].kind = "intr", NEW done \in BOOLEAN, NEW err \in BOOLEAN, Waits(done)
  PROVE  /\ ~redirect.on /\ ~SquashAny(done, err)
         /\ TrapSlot.exc = "none" /\ wb[1].kind \notin CsrClass /\ mie
<1>1. InPairs /\ Traps /\ CsrAlone /\ Launched /\ Pipes = {1, 2}
  BY DEF OrderInv, Pipes
<1>2. ~LineEmpty
  BY <1>1 DEF LineEmpty
<1>3. /\ ~redirect.on /\ TrapSlot.exc = "none" /\ wb[1].kind \notin CsrClass /\ mie
      /\ \A p \in Pipes : ~sq[p]
  BY <1>1, <1>2 DEF Traps, CsrAlone, Launched
<1>4. MemoryInE2 /\ ~done
  BY DEF Waits, MemoryInE2
<1>5. e2[1].kind \notin Excepting
  BY <1>1, <1>4, ExceptingIs DEF MemoryInE2, CsrAlone, Alone, Excepting
<1>6. \A p \in Pipes : e2[p].exc = "none"
  BY <1>5 DEF Alone
<1>7. ~SquashAny(done, err)
  BY <1>3, <1>4, <1>6 DEF SquashAny, Squash, E2Exc
<1> QED BY <1>3, <1>7

(* What the frontend keeps.                                                *)
LEMMA KeptHead ==
  ASSUME PipeType, NEW words, FrontKeeps(words), words = {} => head.clean /\ head.words = {}
  PROVE  head'.words = {} => head'.clean
<1>1. CASE words = {}
  <2>1. head' \in Heads \/ head' = Empty(TRUE)
    <3>1. head.clean \in BOOLEAN
      BY DEF PipeType, HeadStates
    <3>2. head' \in Heads \/ head' = Empty(head.words = {} /\ head.clean)
      BY <1>1 DEF FrontKeeps
    <3>3. (head.words = {} /\ head.clean) = TRUE
      BY <1>1, <3>1
    <3> QED BY <3>2, <3>3
  <2>2. ASSUME head' \in Heads PROVE head'.words # {}
    BY <2>2 DEF Heads
  <2>3. ASSUME head' = Empty(TRUE) PROVE head'.clean
    BY <2>3 DEF Empty
  <2> QED BY <2>1, <2>2, <2>3
<1>2. CASE words # {}
  <2>1. head' = [head EXCEPT !.words = words]
    BY <1>2 DEF FrontKeeps
  <2>2. head'.words = words
    BY <2>1 DEF PipeType, HeadStates
  <2> QED BY <1>2, <2>2
<1> QED BY <1>1, <1>2

(* Interrupts stay up as long as no CSR operation is in WB.                *)
LEMMA IrqStays ==
  ASSUME PipeType, Alone, Csr, irq, wb[1].kind # "csr"
  PROVE  irq'
<1>1. irq' \in {irq, Interrupts} /\ Interrupts
  BY DEF Csr, Alone
<1>2. irq = TRUE /\ Interrupts = TRUE
  BY <1>1, SwitchAssumption DEF PipeType
<1> QED BY <1>1, <1>2

(* The interrupt waits in E1.                                              *)
LEMMA HeldInterrupt ==
  ASSUME PipeType, OrderInv, Alone, LaunchedAgain, ExtraDecode, e1[1].kind = "intr",
         NEW lsuStall \in BOOLEAN, NEW done \in BOOLEAN, NEW err \in BOOLEAN, NEW fin \in BOOLEAN,
         Clock(lsuStall, done, err, fin), Waits(done)
  PROVE  irq' /\ ~csrPend' /\ (head'.words = {} => head'.clean) /\ (take' \/ NextIsCsr')
<1> DEFINE sel == Select(redirect.on \/ SquashAny(done, err))
<1>1. /\ ~redirect.on /\ ~SquashAny(done, err)
      /\ TrapSlot.exc = "none" /\ wb[1].kind \notin CsrClass /\ mie
  BY InterruptBehind
<1>2. irq /\ ~csrPend /\ (head.words = {} => head.clean)
  BY DEF LaunchedAgain
<1>3. IssueNothing(sel, SquashAny(done, err), Waits(done), fin)
  <2>1. \A w \in {0, 1} : ~Ready(w, lsuStall, done, err)
    BY DEF Ready, Blocked
  <2>2. Front(lsuStall, done, err, fin)
    BY DEF Clock
  <2> QED BY <2>1, <2>2, FrontCases
<1>4. irq'
  <2>1. Csr /\ wb[1].kind # "csr"
    BY <1>1 DEF Clock, CsrClass
  <2> QED BY <1>2, <2>1, IrqStays
<1>5. ~csrPend'
  BY <1>1, <1>2, <1>3 DEF IssueNothing, CsrPendAfter
<1>6. pcX' = pcX /\ prog' = prog
  BY <1>1, <1>3 DEF IssueNothing, Clock
<1>7. sel = IF Offers(0) THEN "slot0" ELSE IF Offers(1) THEN "slot1"
            ELSE IF head.words # {} THEN "mispredict" ELSE "none"
  BY <1>1 DEF Select
<1>8. PICK csr \in CsrAtHead(sel) : TakeNext(csr)
  BY DEF Clock
<1>9. ~csr => take'
  BY <1>1, <1>2, <1>8 DEF TakeNext
<1> HIDE DEF sel
<1>10. CASE Offers(0) \/ Offers(1)
  <2>1. PICK w \in {0, 1} : Offers(w) /\ csr = (prog[WordPC(w)].kind \in CsrClass)
    <3>1. CASE Offers(0)
      BY <1>7, <1>8, <3>1 DEF CsrAtHead
    <3>2. CASE ~Offers(0) /\ Offers(1)
      BY <1>7, <1>8, <3>2 DEF CsrAtHead, Offers
    <3> QED BY <1>10, <3>1, <3>2
  <2>2. take' \/ prog'[pcX'].kind \in CsrClass
    BY <1>6, <1>9, <2>1 DEF Offers
  <2>3. take' \/ NextIsCsr'
    BY <2>2 DEF NextIsCsr
  <2>4. sel \in {"slot0", "slot1"}
    BY <1>7, <1>10
  <2>5. PICK words : words = IF sel = "slot1" /\ ~take THEN head.words \ {0} ELSE head.words
    OBVIOUS
  <2>6. FrontKeeps(words)
    BY <1>1, <1>3, <2>4, <2>5 DEF IssueNothing
  <2>7. words # {}
    BY <1>7, <1>10, <2>5 DEF Offers
  <2>8. head'.words = {} => head'.clean
    BY <2>6, <2>7, KeptHead
  <2> QED BY <1>4, <1>5, <2>3, <2>8
<1>11. CASE ~Offers(0) /\ ~Offers(1) /\ head.words # {}
  <2>1. head' = Empty(TRUE)
    BY <1>3, <1>7, <1>11 DEF IssueNothing, Flushed
  <2>2. head'.words = {} /\ head'.clean
    BY <2>1 DEF Empty
  <2>3. NextIsCsr'
    BY <2>2 DEF NextIsCsr, Offers
  <2> QED BY <1>4, <1>5, <2>2, <2>3
<1>12. CASE head.words = {}
  <2>1. ~Offers(0) /\ ~Offers(1)
    BY <1>12 DEF Offers
  <2>2. sel = "none"
    BY <1>7, <1>12, <2>1
  <2>3. csr = FALSE
    BY <1>2, <1>8, <1>12, <2>2 DEF CsrAtHead, StaleCsr
  <2>4. FrontKeeps(head.words)
    BY <1>1, <1>3, <2>2 DEF IssueNothing
  <2>5. head'.words = {} => head'.clean
    BY <1>2, <1>12, <2>4, KeptHead
  <2> QED BY <1>4, <1>5, <1>9, <2>3, <2>5
<1> QED BY <1>10, <1>11, <1>12

(* The interrupt issues.                                                   *)
LEMMA IssuedInterrupt ==
  ASSUME PipeType, OrderInv, Alone, take, NEW w \in {0, 1},
         NEW lsuStall \in BOOLEAN, NEW done \in BOOLEAN, NEW err \in BOOLEAN, NEW fin \in BOOLEAN,
         Clock(lsuStall, done, err, fin), Ready(w, lsuStall, done, err), Issue(<<w>>, fin)
  PROVE  irq' /\ ~csrPend' /\ (head'.words = {} => head'.clean) /\ (take' \/ NextIsCsr')
<1>1. ~redirect.on /\ ~csrPend /\ w \in head.words /\ WordPC(w) = pcX
  BY DEF Ready, Blocked
<1>2. irq /\ mie /\ wb[1].kind \notin CsrClass
  BY <1>1 DEF Alone, OrderInv, Launched
<1>3. irq'
  <2>1. Csr /\ wb[1].kind # "csr"
    BY <1>2 DEF Clock, CsrClass
  <2> QED BY <1>2, <2>1, IrqStays
<1> DEFINE a == prog[pcX]
<1>4. /\ pcX' = IF Taken(a) THEN a.to ELSE pcX
      /\ FrontKeeps(head.words)
      /\ csrPend' = CsrPendAfter(a.kind \in CsrClass /\ ~take, FALSE, FALSE)
  <2>1. /\ pcX' = IF Taken(a) THEN a.to ELSE IF take THEN pcX ELSE PCAfter(pcX)
        /\ FrontKeeps(IF take THEN head.words ELSE head.words \ (0..w))
        /\ csrPend' = CsrPendAfter(a.kind \in CsrClass /\ ~take, FALSE, FALSE)
    BY <1>1, IssueOneIs
  <2>2. (IF take THEN head.words ELSE head.words \ (0..w)) = head.words
    OBVIOUS
  <2> QED BY <2>1, <2>2
<1>5. ~csrPend'
  BY <1>1, <1>4 DEF CsrPendAfter
<1>6. head'.words = {} => head'.clean
  BY <1>1, <1>4, KeptHead
<1>7. PICK csr \in CsrAtHead(Select(redirect.on \/ SquashAny(done, err))) : TakeNext(csr)
  BY DEF Clock
<1>8. csr <=> a.kind \in CsrClass
  <2>1. CsrAtHead(Select(redirect.on \/ SquashAny(done, err))) = {a.kind \in CsrClass}
    BY ReadyAtHead
  <2> QED BY <1>7, <2>1
<1>9. CASE a.kind \in CsrClass
  <2>1. pcX' = pcX /\ prog' = prog
    BY <1>4, <1>9 DEF Taken, Jumps, CsrClass, Clock
  <2> QED BY <1>3, <1>5, <1>6, <1>9, <2>1 DEF NextIsCsr
<1>10. CASE a.kind \notin CsrClass
  <2>1. take'
    BY <1>1, <1>2, <1>7, <1>8, <1>10 DEF TakeNext
  <2> QED BY <1>3, <1>5, <1>6, <2>1
<1> QED BY <1>9, <1>10

LEMMA StepLaunchedAgain ==
  ASSUME ExtraDecode
  PROVE  PipeType /\ OrderInv /\ RepeatInv /\ [Next]_vars => LaunchedAgain'
<1> SUFFICES ASSUME PipeType, OrderInv, Alone, LaunchedAgain, [Next]_vars PROVE LaunchedAgain'
  BY DEF RepeatInv
<1>1. CASE UNCHANGED vars
  BY <1>1 DEF LaunchedAgain, NextIsCsr, Offers, WordPC, vars
<1>2. CASE Next
  <2>1. PICK lsuStall \in BOOLEAN, ans \in Answers : Clock(lsuStall, ans.done, ans.err, ans.fin)
    BY <1>2 DEF Next
  <2>2. ans.done \in BOOLEAN /\ ans.err \in BOOLEAN /\ ans.fin \in BOOLEAN
    BY SwitchAssumption DEF Answers, PipeType
  <2> DEFINE done == ans.done  err == ans.err  fin == ans.fin
  <2> HIDE DEF done, err, fin
  <2>3. done \in BOOLEAN /\ err \in BOOLEAN /\ fin \in BOOLEAN /\ Clock(lsuStall, done, err, fin)
    BY <2>1, <2>2 DEF done, err, fin
  <2>4. Front(lsuStall, done, err, fin)
    BY <2>3 DEF Clock
  <2>5. ASSUME e1'[1].kind = "intr",
               IssueNothing(Select(redirect.on \/ SquashAny(done, err)), SquashAny(done, err),
                            Waits(done), fin)
        PROVE  LaunchedAgain'
    <3>1. e1' = IF Waits(done) THEN e1 ELSE <<Bubble, Bubble>>
      BY <2>5 DEF IssueNothing
    <3>2. Waits(done) /\ e1[1].kind = "intr"
      BY <2>5, <3>1 DEF Bubble
    <3> QED BY <2>3, <3>2, HeldInterrupt DEF LaunchedAgain
  <2>6. ASSUME e1'[1].kind = "intr", NEW w \in {0, 1}, Ready(w, lsuStall, done, err), Issue(<<w>>, fin)
        PROVE  LaunchedAgain'
    <3>1. WordPC(w) = pcX
      BY <2>6 DEF Ready
    <3>2. prog[pcX] \in Instrs /\ e1' = <<Issued(prog[pcX], pcX), Bubble>>
      BY <2>6, <3>1, IssueOneIs
    <3>3. e1'[1] = Issued(prog[pcX], pcX) /\ pcX \in PCs
      BY <3>2 DEF PipeType
    <3>4. take
      BY <2>6, <3>2, <3>3, IssuedFields, ExceptingIs
    <3> QED BY <2>3, <2>6, <3>4, IssuedInterrupt DEF LaunchedAgain
  <2>7. ASSUME e1'[1].kind = "intr", Ready(0, lsuStall, done, err),
               IssuesPair(prog[WordPC(0)], prog[WordPC(1)]), Issue(<<0, 1>>, fin)
        PROVE  LaunchedAgain'
    <3>1. WordPC(0) = pcX /\ ~take
      BY <2>7 DEF Ready, IssuesPair
    <3>2. prog[pcX] \in Instrs /\ e1' = <<Issued(prog[pcX], pcX), Issued(prog[PCAfter(pcX)], PCAfter(pcX))>>
      BY <2>7, <3>1, IssueTwoIs
    <3>3. e1'[1] = Issued(prog[pcX], pcX) /\ pcX \in PCs
      BY <3>2 DEF PipeType
    <3> QED BY <2>7, <3>1, <3>2, <3>3, IssuedFields, ExceptingIs
  <2>8. e1'[1].kind # "intr" => LaunchedAgain'
    BY DEF LaunchedAgain
  <2> QED BY <2>3, <2>4, <2>5, <2>6, <2>7, <2>8, FrontCases
<1> QED BY <1>1, <1>2

(* What leaves E1 with an exception, and that nothing issues behind it but *)
(* what an interrupt lets through.                                         *)
LEMMA ExceptionMoves ==
  ASSUME PipeType, OrderInv, Alone, NEW done \in BOOLEAN, NEW err \in BOOLEAN, Advance(done, err)
  PROVE  /\ \A p \in Pipes : e2'[p].exc # "none" => e2'[1].kind \in Excepting /\ e1[1].kind = e2'[1].kind
         /\ e2'[1].kind = "intr" => e2'[2].kind = "none"
<1>1. InPairs /\ Traps /\ CsrAlone /\ Pipes = {1, 2}
  BY DEF OrderInv, Pipes
<1>2. CASE SquashAny(done, err)
  <2>1. \A p \in Pipes : e2'[p].kind = "none" /\ e2'[p].exc = "none"
    BY <1>2, MovedFields
  <2> QED BY <1>1, <2>1
<1>3. CASE ~SquashAny(done, err)
  <2>1. \A p \in Pipes :
          /\ e2'[p].kind = e1[p].kind
          /\ e2'[p].exc = IF e1[p].kind = "intr" THEN "intr"
                          ELSE IF e1[p].exc # "none" THEN e1[p].exc ELSE csrOut.exc
    BY <1>3, MovedFields
  <2>2. e1[2].kind # "intr"
    BY <1>1, ExceptingIs DEF InPairs, Excepting
  <2>3. ASSUME NEW p \in Pipes, e2'[p].exc # "none"
        PROVE  e1[1].kind \in Excepting
    BY <1>1, <2>1, <2>2, <2>3 DEF Alone, Traps, Excepting
  <2>4. e1[1].kind = "intr" => e1[2].kind = "none"
    BY DEF Alone
  <2> QED BY <1>1, <2>1, <2>3, <2>4
<1> QED BY <1>2, <1>3

(* What issues carries no exception of its own, or is alone with it.       *)
LEMMA IssuedExc ==
  ASSUME PipeType, prog \in Programs, JumpsAligned, NEW pc \in PCs
  PROVE  Issued(prog[pc], pc).exc # "none" => prog[pc].kind = "fault"
<1>1. prog[pc] \in Instrs
  BY DEF PipeType
<1>2. prog[pc].kind # "badjump"
  BY DEF JumpsAligned
<1> QED BY <1>1, <1>2, IssuedFields

LEMMA StepAlone ==
  ASSUME JumpsAligned
  PROVE  PipeType /\ OrderInv /\ RepeatInv /\ [Next]_vars => Alone'
<1> SUFFICES ASSUME PipeType, OrderInv, Alone, [Next]_vars PROVE Alone'
  BY DEF RepeatInv
<1>i. InPairs /\ Traps /\ CsrAlone /\ Launched /\ Pipes = {1, 2}
  BY DEF OrderInv, Pipes
<1>b. Bubble.kind = "none" /\ Bubble.exc = "none"
  BY DEF Bubble
<1>1. CASE UNCHANGED vars
  BY <1>1 DEF Alone, vars
<1>2. ASSUME NEW done \in BOOLEAN, NEW err \in BOOLEAN, NEW fin \in BOOLEAN, Around(done, err, fin)
      PROVE  prog' \in Programs /\ (irq' => Interrupts) /\ (take' => irq' \/ redirect'.on)
  <2>1. prog' = prog /\ Csr /\ (take' => irq /\ mie /\ ~csrPend)
    BY <1>2 DEF Around
  <2>2. irq' => Interrupts
    BY <2>1, SwitchAssumption DEF Csr, Alone, PipeType
  <2>3. ASSUME take' PROVE irq' \/ redirect'.on
    <3>1. CASE TrapSlot.exc # "none"
      BY <2>1, <3>1 DEF Csr
    <3>2. CASE TrapSlot.exc = "none"
      <4>1. wb[1].kind # "csr"
        BY <1>i, <2>1, <2>3, <3>2 DEF CsrAlone, CsrClass
      <4> QED BY <2>1, <2>3, <4>1, IrqStays
    <3> QED BY <3>1, <3>2
  <2> QED BY <2>1, <2>2, <2>3 DEF Alone
<1>3. ASSUME NEW done \in BOOLEAN, NEW err \in BOOLEAN, NEW fin \in BOOLEAN, HoldStep(done, err, fin)
      PROVE  Alone'
  <2>1. UNCHANGED <<e1, e2>> /\ Around(done, err, fin)
    BY <1>3 DEF HoldStep
  <2> QED BY <1>2, <2>1 DEF Alone
<1>4. ASSUME NEW done \in BOOLEAN, NEW err \in BOOLEAN, NEW fin \in BOOLEAN, DrainStep(done, err, fin)
      PROVE  Alone'
  <2>1. Around(done, err, fin) /\ Advance(done, err) /\ \A p \in Pipes : e1'[p].kind = "none" /\ e1'[p].exc = "none"
    BY <1>4, <1>b, <1>i DEF DrainStep
  <2> QED BY <1>2, <1>i, <2>1, ExceptionMoves DEF Alone
<1>5. ASSUME NEW lsuStall \in BOOLEAN, NEW done \in BOOLEAN, NEW err \in BOOLEAN, NEW fin \in BOOLEAN,
             OneStep(lsuStall, done, err, fin)
      PROVE  Alone'
  <2>1. /\ Around(done, err, fin) /\ Advance(done, err) /\ prog[pcX] \in Instrs
        /\ e1'[1] = Issued(prog[pcX], pcX) /\ e1'[2] = Bubble
    BY <1>5 DEF OneStep
  <2>2. pcX \in PCs /\ prog \in Programs
    BY DEF PipeType, Alone
  <2>3. e1'[1].exc # "none" => e1'[1].kind \in Excepting
    BY <2>1, <2>2, IssuedExc, IssuedFields DEF Excepting, CsrClass
  <2> QED BY <1>2, <1>b, <1>i, <2>1, <2>3, ExceptionMoves DEF Alone
<1>6. ASSUME NEW lsuStall \in BOOLEAN, NEW done \in BOOLEAN, NEW err \in BOOLEAN, NEW fin \in BOOLEAN,
             TwoStep(lsuStall, done, err, fin)
      PROVE  Alone'
  <2>1. /\ Around(done, err, fin) /\ Advance(done, err) /\ prog[pcX] \in Instrs /\ prog[PCAfter(pcX)] \in Instrs
        /\ e1'[1] = Issued(prog[pcX], pcX) /\ e1'[2] = Issued(prog[PCAfter(pcX)], PCAfter(pcX))
        /\ MayPair(prog[pcX], prog[PCAfter(pcX)]) /\ PCAfter(pcX) \in PCs /\ ~take
    BY <1>6 DEF TwoStep
  <2>2. pcX \in PCs /\ prog \in Programs
    BY DEF PipeType, Alone
  <2>3. prog[pcX].kind # "fault" /\ prog[PCAfter(pcX)].kind # "fault"
    BY <2>1 DEF MayPair, Memory, Jumps
  <2>4. e1'[1].exc = "none" /\ e1'[2].exc = "none"
    BY <2>1, <2>2, <2>3, IssuedExc
  <2>5. e1'[1].kind # "intr"
    BY <2>1, <2>2, IssuedFields, ExceptingIs
  <2> QED BY <1>2, <1>i, <2>1, <2>4, <2>5, ExceptionMoves DEF Alone
<1> QED BY <1>1, <1>3, <1>4, <1>5, <1>6, ClockCases

LEMMA StepMemory == PipeType /\ OrderInv /\ RepeatInv /\ [Next]_vars => MemoryNotRepeated'
<1> SUFFICES ASSUME PipeType, OrderInv, Alone, LaunchedAgain, MemoryNotRepeated, [Next]_vars
             PROVE  MemoryNotRepeated'
  BY DEF RepeatInv
<1>i. InPairs /\ Traps /\ CsrAlone /\ Launched /\ Pipes = {1, 2}
  BY DEF OrderInv, Pipes
<1>b. Bubble.kind = "none"
  BY DEF Bubble
<1>1. CASE UNCHANGED vars
  BY <1>1 DEF MemoryNotRepeated, MemoryInE1, vars
<1>2. ASSUME NEW done \in BOOLEAN, NEW err \in BOOLEAN, NEW fin \in BOOLEAN, HoldStep(done, err, fin)
      PROVE  MemoryNotRepeated'
  <2>1. UNCHANGED <<e1, e2>>
    BY <1>2 DEF HoldStep
  <2> QED BY <2>1 DEF MemoryNotRepeated, MemoryInE1
<1>3. ASSUME NEW done \in BOOLEAN, NEW err \in BOOLEAN, NEW fin \in BOOLEAN, DrainStep(done, err, fin)
      PROVE  MemoryNotRepeated'
  <2>1. ~MemoryInE1'
    BY <1>3, <1>b, <1>i, ExceptingIs DEF DrainStep, MemoryInE1
  <2> QED BY <2>1 DEF MemoryNotRepeated
(* What issues behind an exception is no access to memory.                 *)
<1>4. ASSUME NEW lsuStall \in BOOLEAN, NEW done \in BOOLEAN, NEW err \in BOOLEAN, NEW w \in {0, 1},
             Ready(w, lsuStall, done, err), e1[1].kind \in Excepting
      PROVE  take \/ prog[pcX].kind \in CsrClass
  <2>1. ~csrPend /\ Offers(w)
    BY <1>4 DEF Ready, Blocked, Offers
  <2>2. e1[1].kind = "intr"
    BY <1>4, <1>i, <2>1 DEF CsrAlone, Excepting
  <2> QED BY <2>1, <2>2 DEF LaunchedAgain, NextIsCsr
<1>5. ASSUME NEW lsuStall \in BOOLEAN, NEW done \in BOOLEAN, NEW err \in BOOLEAN, NEW fin \in BOOLEAN,
             OneStep(lsuStall, done, err, fin) \/ TwoStep(lsuStall, done, err, fin),
             NEW p \in Pipes, e2'[p].exc # "none"
      PROVE  ~MemoryInE1'
  <2>1. PICK w \in {0, 1} : Ready(w, lsuStall, done, err)
    BY <1>5 DEF OneStep, TwoStep
  <2>2. Advance(done, err) /\ prog[pcX] \in Instrs /\ e1'[1] = Issued(prog[pcX], pcX) /\ pcX \in PCs
    BY <1>5 DEF OneStep, TwoStep, PipeType
  <2>3. e1[1].kind \in Excepting
    BY <1>5, <2>2, ExceptionMoves
  <2>4. take \/ prog[pcX].kind \in CsrClass
    BY <1>4, <2>1, <2>3
  <2>5. e1'[1].kind = "intr" \/ e1'[1].kind \in CsrClass
    BY <2>2, <2>4, IssuedFields
  <2>6. ~TwoStep(lsuStall, done, err, fin)
    BY <2>4 DEF TwoStep, MayPair, CsrClass, Memory
  <2>7. e1'[2] = Bubble
    BY <1>5, <2>6 DEF OneStep
  <2>8. e1'[1].kind \notin Memory
    BY <2>5 DEF CsrClass, Memory
  <2> QED BY <1>b, <1>i, <2>7, <2>8, ExceptingIs DEF MemoryInE1
<1>6. ASSUME NEW lsuStall \in BOOLEAN, NEW done \in BOOLEAN, NEW err \in BOOLEAN, NEW fin \in BOOLEAN,
             OneStep(lsuStall, done, err, fin) \/ TwoStep(lsuStall, done, err, fin)
      PROVE  MemoryNotRepeated'
  BY <1>5, <1>6 DEF MemoryNotRepeated
<1> QED BY <1>1, <1>2, <1>3, <1>6, ClockCases

(* With the extra decode stage, and in programs none of whose jumps may    *)
(* turn out misaligned, a load or store that has gone out to memory is     *)
(* called back by a fault of an older access only: neither an interrupt    *)
(* nor another exception makes the program repeat it.  Without the stage   *)
(* an interrupt may (the comparison with the head's class looks at a word  *)
(* that is no longer there), and a misaligned jump may in either case.     *)
THEOREM NotRepeated ==
  ASSUME ExtraDecode, JumpsAligned
  PROVE  Spec => []MemoryNotRepeated
<1>1. PipeType /\ OrderInv /\ RepeatInv /\ [Next]_vars => RepeatInv'
  BY StepAlone, StepLaunchedAgain, StepMemory DEF RepeatInv
<1>2. RepeatInv => MemoryNotRepeated
  BY DEF RepeatInv
<1> QED BY InitRepeat, OrderInvariant, <1>1, <1>2, PTL DEF Spec
=============================================================================
