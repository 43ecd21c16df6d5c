--------------------------- MODULE SoftwareProofs ---------------------------
(***************************************************************************)
(* The programs around the design, each for every value of its constants.  *)
(*                                                                         *)
(* hello: however often main is interrupted, it sends its word once.       *)
(*                                                                         *)
(* Segger_pr: the time it reads is one the counter had, although its       *)
(* halves are read apart, and its text goes out whole and in order.        *)
(* Dhrystone, which it runs, has in its variables what the comments of its *)
(* loop and its report say, in any number of runs.                         *)
(*                                                                         *)
(* The simulator: it clocks a loaded memory only, and closes its wave file *)
(* however it ends.  Neither is inductive: RunsLoaded needs what the       *)
(* process knows of the load in each phase, WaveClosed what each step of   *)
(* abort() has done to the file.                                           *)
(*                                                                         *)
(* hex_to_coe: the rows it writes are the bytes of its file.               *)
(*                                                                         *)
(* The loader: a program that loads is in memory as it is in its file,     *)
(* however its sections lie to each other and to the regions before them.  *)
(***************************************************************************)
EXTENDS Hello, Segger, TestBench, HexToCoe, SequenceTheorems, WellFoundedInduction, TLAPS

-----------------------------------------------------------------------------
(* hello                                                                   *)

(* The operations of the setups, and all those of the program.             *)
Setups ==
  {"dTmPrSh", "dTMS", "dCMC", "dECR", "dIEC", "dTmPrSh1", "dTmCmpSh_1", "dTmCmpSh1_1", "dTMS1",
   "clear mie", "set mie", "set mstatus", "dCR", "dDLL", "dDLH", "dTRS", "dTRS1"}
Operations == Setups \cup {"i = 0", "word", "dISC", "read mip", "write mip", "mret"}

Zeroes(op) == op = "i = 0"
Says(op) == op = "word"

(* What main has left: it ends in its loop, right after it sets its i.     *)
EndsInWord(s) ==
    /\ s \in Seq(Operations)
    /\ \A k \in 1..Len(s) : /\ Says(s[k]) <=> k = Len(s)
                            /\ Zeroes(s[k]) <=> k = Len(s) - 1

CpuTypes == cpu \in [main : Seq(Operations), handler : Seq(Operations), i : Nat, iMain : Nat]

(* Nothing is sent before the loop, in the loop main's own index counts    *)
(* what is sent, and the loop is left with the whole word.                 *)
SentSoFar ==
    /\ told.word \in Seq(Nat)
    /\ \A k \in 1..Len(told.word) : told.word[k] = k
    /\ Len(cpu.main) > 1 => told.word = <<>>
    /\ Len(cpu.main) = 1 => cpu.iMain = Len(told.word) /\ cpu.iMain <= MsgLen
    /\ Len(cpu.main) = 0 => Len(told.word) = MsgLen

HelloInv == CpuTypes /\ EndsInWord(cpu.main) /\ SentSoFar

LEMMA SetupsAreNoLoop ==
  ASSUME NEW op \in Setups
  PROVE op \in Operations /\ ~Zeroes(op) /\ ~Says(op)
  BY DEF Setups, Operations, Zeroes, Says

(* A setup before what ends in the loop.                                   *)
LEMMA SetupBefore ==
  ASSUME NEW s \in Seq(Setups), NEW t, EndsInWord(t), Len(t) > 1
  PROVE EndsInWord(s \o t) /\ Len(s \o t) > 1
<1>1. s \in Seq(Operations) /\ t \in Seq(Operations)
  <2>1. Setups \subseteq Operations
    BY SetupsAreNoLoop
  <2> QED BY <2>1 DEF EndsInWord
<1>2. PICK n \in Nat : n = Len(s)
  OBVIOUS
<1>3. PICK m \in Nat : m = Len(t)
  BY <1>1
<1>4. PICK all \in Seq(Operations) : all = s \o t
  BY <1>1, ConcatProperties
<1>5. /\ Len(all) = n + m
      /\ \A k \in 1..(n + m) : all[k] = IF k <= n THEN s[k] ELSE t[k - n]
  BY <1>1, <1>2, <1>3, <1>4, ConcatProperties
<1>6. ASSUME NEW k \in 1..(n + m)
      PROVE /\ Says(all[k]) <=> k = n + m
            /\ Zeroes(all[k]) <=> k = n + m - 1
  <2>1. CASE k <= n
    <3>1. s[k] \in Setups /\ all[k] = s[k]
      BY <1>2, <1>5, <2>1
    <3>2. ~Says(all[k]) /\ ~Zeroes(all[k])
      BY <3>1, SetupsAreNoLoop
    <3>3. k # n + m - 1 /\ k # n + m
      BY <1>3, <2>1
    <3> QED BY <3>2, <3>3
  <2>2. CASE ~(k <= n)
    <3>1. PICK l \in 1..m : l = k - n
      BY <2>2
    <3>2. all[k] = t[l]
      BY <1>5, <2>2, <3>1
    <3>3. /\ Says(t[l]) <=> l = m
          /\ Zeroes(t[l]) <=> l = m - 1
      BY <1>3 DEF EndsInWord
    <3>4. (l = m - 1 <=> k = n + m - 1) /\ (l = m <=> k = n + m)
      BY <3>1
    <3> QED BY <3>2, <3>3, <3>4
  <2> QED BY <2>1, <2>2
<1>7. Len(all) = n + m /\ n + m > 1
  BY <1>3, <1>5
<1>8. \A k \in 1..Len(all) : (Says(all[k]) <=> k = Len(all)) /\ (Zeroes(all[k]) <=> k = Len(all) - 1)
  BY <1>6, <1>7
<1>9. EndsInWord(all)
  BY <1>4, <1>8, Zenon DEF EndsInWord
<1> QED BY <1>4, <1>7, <1>9

LEMMA MainEndsInWord == EndsInWord(main) /\ Len(main) > 1
<1>1. /\ init_timer \in Seq(Setups) /\ init_timer1 \in Seq(Setups)
      /\ init_intrupt \in Seq(Setups) /\ init_UART \in Seq(Setups)
  BY DEF Setups, init_timer, init_timer1, init_intrupt, init_UART
<1> DEFINE setup == init_timer \o init_timer1 \o init_intrupt \o init_UART
           loop == <<"dTRS", "dTRS1", "i = 0", "word">>
<1>2. setup \in Seq(Setups)
  BY <1>1
<1>3. /\ loop \in Seq(Operations) /\ Len(loop) = 4
      /\ loop[1] = "dTRS" /\ loop[2] = "dTRS1" /\ loop[3] = "i = 0" /\ loop[4] = "word"
  BY DEF Setups, Operations
<1>4. main = setup \o loop
  BY DEF main
<1> HIDE DEF setup, loop
<1>5. /\ ~Says(loop[1]) /\ ~Says(loop[2]) /\ ~Says(loop[3]) /\ Says(loop[4])
      /\ ~Zeroes(loop[1]) /\ ~Zeroes(loop[2]) /\ Zeroes(loop[3]) /\ ~Zeroes(loop[4])
  BY <1>3 DEF Says, Zeroes
<1>6. \A k \in 1..4 : k = 1 \/ k = 2 \/ k = 3 \/ k = 4
  OBVIOUS
<1>7. \A k \in 1..4 : (Says(loop[k]) <=> k = 4) /\ (Zeroes(loop[k]) <=> k = 3)
  BY <1>5, <1>6
<1>8. loop \in Seq(Operations) /\ Len(loop) = 4
  BY <1>3
<1>9. EndsInWord(loop) /\ Len(loop) > 1
  BY <1>7, <1>8 DEF EndsInWord
<1> QED BY <1>2, <1>4, <1>9, SetupBefore

LEMMA HandlerTyped == handle_trap \in Seq(Operations)
<1>1. /\ handle_TIMER_interrupt \in Seq(Operations) /\ clear_mip \in Seq(Operations)
      /\ <<"dISC">> \in Seq(Operations) /\ <<"mret">> \in Seq(Operations)
  BY DEF handle_TIMER_interrupt, clear_mip, Setups, Operations
<1> QED BY <1>1 DEF handle_trap

LEMMA HelloStarts == HelloInit => HelloInv
<1> SUFFICES ASSUME HelloInit PROVE HelloInv
  OBVIOUS
<1>1. /\ cpu = [main |-> main, handler |-> <<>>, i |-> 0, iMain |-> 0]
      /\ told.word = <<>>
  BY DEF HelloInit
<1>2. CpuTypes /\ cpu.main = main
  BY <1>1, MainEndsInWord DEF CpuTypes, EndsInWord
<1>3. Len(cpu.main) \in Nat /\ Len(cpu.main) > 1
  BY <1>2, MainEndsInWord DEF EndsInWord
<1>4. SentSoFar
  <2>1. told.word \in Seq(Nat) /\ Len(told.word) = 0
    BY <1>1
  <2>2. \A k \in 1..Len(told.word) : told.word[k] = k
    BY <2>1
  <2>3. ~(Len(cpu.main) = 1) /\ ~(Len(cpu.main) = 0)
    <3>1. PICK l \in Nat : l = Len(cpu.main)
      BY <1>3
    <3>2. l > 1
      BY <1>3, <3>1
    <3> QED BY <3>1, <3>2
  <2> QED BY <1>1, <2>1, <2>2, <2>3, Zenon DEF SentSoFar
<1> QED BY <1>2, <1>4, MainEndsInWord DEF HelloInv

(* A step that leaves main where it is and sends nothing for it.           *)
LEMMA MainKept ==
  ASSUME HelloInv, CpuTypes', cpu'.main = cpu.main, cpu'.iMain = cpu.iMain,
         told'.word = told.word
  PROVE HelloInv'
  BY DEF HelloInv, SentSoFar

(* Only main's own send adds to its word.                                  *)
LEMMA NothingSent ==
  ASSUME NEW op, NEW hit, Hardware(op, hit), op # "send" \/ InHandler
  PROVE told'.word = told.word
  BY DEF Hardware

(* main takes an operation of its setup, or sets its index.                *)
LEMMA MainOperates ==
  ASSUME HelloInv, NEW hit, Operate(hit), ~InHandler
  PROVE HelloInv'
<1>1. /\ cpu.main \in Seq(Operations) /\ cpu.main # <<>> /\ Op = Head(cpu.main) /\ ~Says(Op)
      /\ EndsInWord(cpu.main) /\ CpuTypes /\ SentSoFar
  BY DEF HelloInv, CpuTypes, Operate, Left, Op, Says
<1>2. PICK s \in Seq(Operations) : s = cpu.main
  BY <1>1
<1>3. PICK n \in Nat : n = Len(s)
  OBVIOUS
<1>4. PICK t \in Seq(Operations) : t = Tail(s)
  BY <1>1, <1>2, HeadTailProperties
<1>5. /\ n >= 1 /\ s[1] = Op /\ Len(t) = n - 1 /\ Op \in Operations
      /\ \A k \in 1..(n - 1) : t[k] = s[k + 1]
  BY <1>1, <1>2, <1>3, <1>4, HeadTailProperties
<1>a. \A k \in 1..n : (Says(s[k]) <=> k = n) /\ (Zeroes(s[k]) <=> k = n - 1)
  BY <1>1, <1>2, <1>3 DEF EndsInWord
<1>6. n > 1 /\ (Zeroes(Op) <=> n = 2)
  BY <1>1, <1>5, <1>a
<1>7. EndsInWord(t)
  <2>1. ASSUME NEW k \in 1..(n - 1)
        PROVE (Says(t[k]) <=> k = n - 1) /\ (Zeroes(t[k]) <=> k = n - 2)
    <3>1. k + 1 \in 1..n /\ t[k] = s[k + 1]
      BY <1>5
    <3> QED BY <1>a, <3>1
  <2>2. Len(t) = n - 1 /\ Len(t) - 1 = n - 2
    BY <1>5
  <2>3. \A k \in 1..Len(t) : (Says(t[k]) <=> k = Len(t)) /\ (Zeroes(t[k]) <=> k = Len(t) - 1)
    BY <2>1, <2>2
  <2> QED BY <1>4, <2>3, Zenon DEF EndsInWord
<1>8. told'.word = told.word /\ told.word = <<>>
  <2>1. Op # "send"
    BY <1>5 DEF Operations, Setups
  <2> QED BY <1>1, <1>2, <1>3, <1>6, <2>1, NothingSent DEF Operate, SentSoFar
<1>9. /\ CpuTypes' /\ cpu'.main = t
      /\ Zeroes(Op) => cpu'.iMain = 0
  BY <1>1, <1>2, <1>4 DEF Operate, Stepped, WithIndex, CpuTypes, Zeroes
<1>10. SentSoFar'
  BY <1>5, <1>6, <1>8, <1>9, MsgLenAssumption DEF SentSoFar
<1> QED BY <1>7, <1>9, <1>10 DEF HelloInv

(* main sends the next byte of its word, or leaves its loop.               *)
LEMMA MainSends ==
  ASSUME HelloInv, NEW hit, Word(hit), ~InHandler
  PROVE HelloInv'
<1>1. /\ cpu.main \in Seq(Operations) /\ cpu.main # <<>> /\ Head(cpu.main) = "word"
      /\ EndsInWord(cpu.main) /\ CpuTypes /\ SentSoFar /\ Index = cpu.iMain
  BY DEF HelloInv, CpuTypes, Word, Left, Op, Index
<1>2. Says(cpu.main[1]) /\ Len(cpu.main) = 1
  <2>1. PICK s \in Seq(Operations) : s = cpu.main
    BY <1>1
  <2>2. PICK n \in Nat : n = Len(s)
    OBVIOUS
  <2>3. s[1] = Head(s) /\ 1 \in 1..n
    BY <1>1, <2>1, <2>2
  <2>4. Says(s[1])
    BY <1>1, <2>1, <2>3 DEF Says
  <2>5. \A k \in 1..n : Says(s[k]) <=> k = n
    BY <1>1, <2>1, <2>2 DEF EndsInWord
  <2> QED BY <2>1, <2>2, <2>3, <2>4, <2>5
<1>3. /\ cpu.iMain \in Nat /\ cpu.iMain = Len(told.word) /\ cpu.iMain <= MsgLen
      /\ told.word \in Seq(Nat)
  BY <1>1, <1>2 DEF CpuTypes, SentSoFar
<1>4. ASSUME Index < MsgLen, cpu' = WithIndex(cpu, Index + 1), Hardware("send", hit)
      PROVE HelloInv'
  <2>1. CpuTypes' /\ cpu'.main = cpu.main /\ cpu'.iMain = cpu.iMain + 1
    <3>1. PICK n \in Nat : n = cpu.iMain + 1
      BY <1>3
    <3>2. cpu' = [cpu EXCEPT !.iMain = n]
      BY <1>1, <1>4, <3>1 DEF WithIndex
    <3> QED BY <1>1, <3>1, <3>2 DEF CpuTypes
  <2>2. told'.word = Append(told.word, cpu.iMain + 1)
    BY <1>1, <1>4 DEF Hardware
  <2>3. PICK n \in Nat : n = cpu.iMain + 1
    BY <1>3
  <2>4. PICK w \in Seq(Nat) : w = told.word
    BY <1>3
  <2>5. Len(w) = n - 1 /\ \A k \in 1..(n - 1) : w[k] = k
    BY <1>1, <1>3, <2>3, <2>4 DEF SentSoFar
  <2>6. /\ Append(w, n) \in Seq(Nat) /\ Len(Append(w, n)) = n
        /\ \A k \in 1..n : Append(w, n)[k] = k
    BY <2>5, AppendProperties
  <2>7. n <= MsgLen
    BY <1>1, <1>3, <1>4, <2>3, MsgLenAssumption
  <2>8. told'.word = Append(w, n) /\ cpu'.iMain = n /\ Len(cpu'.main) = 1
    BY <1>2, <2>1, <2>2, <2>3, <2>4
  <2>9. SentSoFar'
    BY <2>6, <2>7, <2>8 DEF SentSoFar
  <2> QED BY <1>1, <2>1, <2>9 DEF HelloInv
<1>5. ASSUME Index >= MsgLen, cpu' = Stepped(cpu), Hardware("none", hit)
      PROVE HelloInv'
  <2>1. CpuTypes' /\ cpu'.main = <<>>
    BY <1>1, <1>2, <1>5 DEF CpuTypes, Stepped
  <2>2. told'.word = told.word /\ Len(told.word) = MsgLen
    BY <1>1, <1>3, <1>5, NothingSent, MsgLenAssumption
  <2>3. SentSoFar'
    BY <1>1, <2>1, <2>2 DEF SentSoFar
  <2>4. EndsInWord(<<>>)
    BY DEF EndsInWord
  <2> QED BY <2>1, <2>3, <2>4 DEF HelloInv
<1> QED BY <1>4, <1>5 DEF Word

(* The handler counts with the global: main's index and word stay.         *)
LEMMA HandlerSteps ==
  ASSUME HelloInv, NEW hit, InHandler, Operate(hit) \/ Word(hit)
  PROVE HelloInv'
<1>1. /\ CpuTypes /\ cpu.handler # <<>>
      /\ cpu.handler \in Seq(Operations) /\ Tail(cpu.handler) \in Seq(Operations) /\ Index \in Nat
  BY DEF HelloInv, CpuTypes, InHandler, Index
<1>2. /\ told'.word = told.word
      /\ \/ cpu' = Stepped(cpu)
         \/ cpu' = Stepped(WithIndex(cpu, 0))
         \/ cpu' = WithIndex(cpu, Index + 1)
  BY NothingSent DEF Operate, Word
<1>3. ASSUME NEW c, c \in [main : Seq(Operations), handler : Seq(Operations), i : Nat, iMain : Nat],
             c.handler # <<>>
      PROVE /\ Stepped(c) \in [main : Seq(Operations), handler : Seq(Operations), i : Nat, iMain : Nat]
            /\ Stepped(c).main = c.main /\ Stepped(c).iMain = c.iMain
  <2>1. PICK rest \in Seq(Operations) : rest = Tail(c.handler)
    BY <1>3, HeadTailProperties
  <2>2. Stepped(c) = [c EXCEPT !.handler = rest]
    BY <2>1 DEF Stepped
  <2> QED BY <1>3, <2>1, <2>2
<1>4. ASSUME NEW n \in Nat
      PROVE /\ WithIndex(cpu, n) \in [main : Seq(Operations), handler : Seq(Operations), i : Nat, iMain : Nat]
            /\ WithIndex(cpu, n).main = cpu.main /\ WithIndex(cpu, n).iMain = cpu.iMain
            /\ WithIndex(cpu, n).handler = cpu.handler
  BY <1>1 DEF CpuTypes, WithIndex
<1>5. Index + 1 \in Nat
  BY <1>1
<1>6. CpuTypes' /\ cpu'.main = cpu.main /\ cpu'.iMain = cpu.iMain
  <2>1. CASE cpu' = Stepped(cpu)
    BY <1>1, <1>3, <2>1 DEF CpuTypes
  <2>2. CASE cpu' = Stepped(WithIndex(cpu, 0))
    <3>1. PICK c : c = WithIndex(cpu, 0)
      OBVIOUS
    <3> QED BY <1>1, <1>3, <1>4, <2>2, <3>1 DEF CpuTypes
  <2>3. CASE cpu' = WithIndex(cpu, Index + 1)
    BY <1>4, <1>5, <2>3 DEF CpuTypes
  <2> QED BY <1>2, <2>1, <2>2, <2>3
<1> QED BY <1>2, <1>6, MainKept

LEMMA TrapKeepsMain ==
  ASSUME HelloInv, NEW hit, Trap(hit)
  PROVE HelloInv'
<1>1. told'.word = told.word
  BY NothingSent DEF Trap
<1>2. CpuTypes' /\ cpu'.main = cpu.main /\ cpu'.iMain = cpu.iMain
  BY HandlerTyped DEF HelloInv, CpuTypes, Trap
<1> QED BY <1>1, <1>2, MainKept

LEMMA HelloSteps == HelloInv /\ [HelloNext]_helloVars => HelloInv'
<1> SUFFICES ASSUME HelloInv, [HelloNext]_helloVars PROVE HelloInv'
  OBVIOUS
<1>1. ASSUME NEW hit, Operate(hit) \/ Word(hit) PROVE HelloInv'
  BY <1>1, MainOperates, MainSends, HandlerSteps
<1>2. ASSUME NEW hit, Idle(hit) PROVE HelloInv'
  <2>1. cpu' = cpu /\ told'.word = told.word
    BY <1>2, NothingSent DEF Idle
  <2> QED BY <2>1, MainKept DEF HelloInv, CpuTypes
<1>3. CASE UNCHANGED helloVars
  BY <1>3, MainKept DEF HelloInv, CpuTypes, helloVars
<1> QED BY <1>1, <1>2, <1>3, TrapKeepsMain DEF HelloNext

(* However often the timer interrupts it, main of sw/Hello hands its whole *)
(* word to the UART, each byte once and in order, for every length of the  *)
(* word and every period: its index is its own, not the global that the    *)
(* handler counts with (main.c).                                           *)
THEOREM WordSentOnce == HelloSpec => []MainWordWhole
<1>1. HelloInv => MainWordWhole
  <2> SUFFICES ASSUME HelloInv PROVE MainWordWhole
    OBVIOUS
  <2>1. told.word \in Seq(Nat) /\ \A k \in 1..Len(told.word) : told.word[k] = k
    BY DEF HelloInv, SentSoFar
  <2>2. told.word = [k \in 1..Len(told.word) |-> k]
    BY <2>1
  <2>3. cpu.main = <<>> => Len(told.word) = MsgLen
    BY DEF HelloInv, SentSoFar
  <2> QED BY <2>2, <2>3 DEF MainWordWhole
<1> QED BY <1>1, HelloStarts, HelloSteps, PTL DEF HelloSpec

-----------------------------------------------------------------------------
(* Segger_pr *)

(* What a call knows after each read: the high word is that of its start,  *)
(* the low word that of a value (seen) the counter had since.              *)
Seen(seen) == seen \in get.since..mtime /\ get.lo = seen % LoSize
TimeInv ==
    /\ mtime \in Nat
    /\ get \in [step : {"none", "hi", "lo", "again", "done"}, hi : Nat, lo : Nat, since : Nat]
    /\ get.step \in {"lo", "again"} => get.hi = get.since \div LoSize /\ get.since <= mtime
    /\ get.step = "again" => \E seen \in Nat : Seen(seen)
    /\ MtimeWithin

-----------------------------------------------------------------------------
(* A counter value is made of its halves.                                  *)
LEMMA Halves ==
  ASSUME NEW n \in Nat
  PROVE /\ n \div LoSize \in Nat /\ n % LoSize \in Nat
        /\ n % LoSize \in 0..(LoSize - 1)
        /\ n = LoSize * (n \div LoSize) + (n % LoSize)
  BY TimeAssumption

(* Two values with the same high word have it in common with every value   *)
(* between them.                                                           *)
LEMMA Between ==
  ASSUME NEW a \in Nat, NEW m \in Nat, NEW b \in Nat, a <= m, m <= b,
         a \div LoSize = b \div LoSize
  PROVE m \div LoSize = a \div LoSize
<1> DEFINE qa == a \div LoSize
           qm == m \div LoSize
<1>1. /\ qa \in Nat /\ qm \in Nat /\ LoSize \in Nat \ {0}
      /\ a = LoSize * qa + (a % LoSize) /\ a % LoSize \in 0..(LoSize - 1)
      /\ m = LoSize * qm + (m % LoSize) /\ m % LoSize \in 0..(LoSize - 1)
      /\ b = LoSize * qa + (b % LoSize) /\ b % LoSize \in 0..(LoSize - 1)
  BY Halves, TimeAssumption
<1> HIDE DEF qa, qm
<1>2. ASSUME NEW p \in Nat, NEW q \in Nat, p < q PROVE LoSize * p + LoSize <= LoSize * q
  <2>1. PICK d \in Nat : q = p + 1 + d
    <3>1. q - p - 1 \in Nat /\ q = p + 1 + (q - p - 1)
      BY <1>2
    <3> QED BY <3>1
  <2>2. LoSize * q = LoSize * p + LoSize + LoSize * d
    BY <1>1, <2>1
  <2>3. LoSize * d >= 0
    BY <1>1
  <2> QED BY <1>1, <2>2, <2>3
<1>3. ~(qm < qa)
  BY <1>1, <1>2
<1>4. ~(qa < qm)
  BY <1>1, <1>2
<1>5. qm = qa
  BY <1>1, <1>3, <1>4
<1> QED BY <1>5 DEF qa, qm

-----------------------------------------------------------------------------
LEMMA TimeInit == SeggerInit => TimeInv
  BY TimeAssumption DEF SeggerInit, TimeInv, MtimeWithin

(* The clock ticks on: what was seen stays between the start and now.      *)
LEMMA TimeTick ==
  ASSUME TimeInv, Tick
  PROVE TimeInv'
<1>1. mtime \in Nat /\ mtime' = mtime + 1 /\ get' = get
  BY DEF Tick, TimeInv
<1>2. get.step = "again" => \E seen \in Nat : Seen(seen)'
  <2> SUFFICES ASSUME get.step = "again" PROVE \E seen \in Nat : Seen(seen)'
    OBVIOUS
  <2>1. PICK seen \in Nat : Seen(seen)
    BY DEF TimeInv
  <2>2. seen \in get.since..mtime' /\ get.lo = seen % LoSize /\ get.since \in Nat
    BY <1>1, <2>1 DEF Seen, TimeInv
  <2>3. Seen(seen)'
    BY <1>1, <2>2 DEF Seen
  <2> QED BY <2>3
<1>3. MtimeWithin'
  <2>1. CASE get.step = "done"
    <3>1. Value \in get.since..mtime /\ Value' = Value /\ get.since \in Nat
      BY <1>1, <2>1 DEF TimeInv, MtimeWithin, Value
    <3> QED BY <1>1, <3>1 DEF MtimeWithin
  <2>2. CASE get.step # "done"
    BY <1>1, <2>2 DEF MtimeWithin
  <2> QED BY <2>1, <2>2
<1> QED BY <1>1, <1>2, <1>3 DEF TimeInv

LEMMA TimeRead ==
  ASSUME TimeInv, ReadTime
  PROVE TimeInv'
<1>0. mtime \in Nat /\ mtime' = mtime
  BY DEF ReadTime, TimeInv
<1>1. CASE ReadHi
  <2>1. mtime \div LoSize \in Nat
    BY <1>0, Halves
  <2>2. get' = [get EXCEPT !.step = "lo", !.hi = mtime \div LoSize, !.since = mtime]
    BY <1>1 DEF ReadHi
  <2>3. /\ get' \in [step : {"none", "hi", "lo", "again", "done"}, hi : Nat, lo : Nat, since : Nat]
        /\ get'.step = "lo" /\ get'.hi = mtime \div LoSize /\ get'.since = mtime
    BY <1>0, <2>1, <2>2 DEF TimeInv
  <2>4. MtimeWithin'
    BY <2>3 DEF MtimeWithin
  <2> QED BY <1>0, <2>3, <2>4 DEF TimeInv
<1>2. CASE ReadLo
  <2>0. mtime % LoSize \in Nat
    BY <1>0, Halves
  <2>1. /\ mtime % LoSize \in Nat /\ get.since \in Nat /\ get.hi \in Nat
        /\ get.hi = get.since \div LoSize /\ get.since <= mtime
    BY <1>2, <2>0 DEF ReadLo, TimeInv
  <2>2. get' = [get EXCEPT !.step = "again", !.lo = mtime % LoSize]
    BY <1>2 DEF ReadLo
  <2>3. get' \in [step : {"none", "hi", "lo", "again", "done"}, hi : Nat, lo : Nat, since : Nat]
        /\ get'.step = "again" /\ get'.lo = mtime % LoSize /\ get'.since = get.since /\ get'.hi = get.hi
    BY <2>1, <2>2 DEF TimeInv
  <2>4. Seen(mtime)'
    BY <1>0, <2>1, <2>3 DEF Seen
  <2>5. \E seen \in Nat : Seen(seen)'
    BY <1>0, <2>4
  <2>6. MtimeWithin'
    BY <2>3 DEF MtimeWithin
  <2> QED BY <1>0, <2>1, <2>3, <2>5, <2>6 DEF TimeInv
<1>3. CASE ReadAgain
  <2>1. get.step = "again" /\ get' = [get EXCEPT !.step = IF SameHi THEN "done" ELSE "hi"]
    BY <1>3 DEF ReadAgain
  <2>2. CASE ~SameHi
    <3>1. get' \in [step : {"none", "hi", "lo", "again", "done"}, hi : Nat, lo : Nat, since : Nat]
          /\ get'.step = "hi"
      BY <2>1, <2>2 DEF TimeInv
    <3> QED BY <1>0, <3>1 DEF TimeInv, MtimeWithin
  <2>3. CASE SameHi
    <3>1. PICK seen \in Nat : Seen(seen)
      BY <2>1 DEF TimeInv
    <3>2. /\ get.since \in Nat /\ get.since <= seen /\ seen <= mtime /\ get.lo = seen % LoSize
          /\ get.hi = get.since \div LoSize
      BY <1>0, <2>1, <3>1 DEF Seen, TimeInv
    <3>3. seen \div LoSize = get.hi
      BY <1>0, <2>3, <3>2, Between DEF SameHi
    <3>4. Value = seen
      BY <3>2, <3>3, Halves, TimeAssumption DEF Value
    <3>5. get' \in [step : {"none", "hi", "lo", "again", "done"}, hi : Nat, lo : Nat, since : Nat]
          /\ get'.step = "done" /\ get'.hi = get.hi /\ get'.lo = get.lo /\ get'.since = get.since
      BY <2>1, <2>3 DEF TimeInv
    <3>6. Value' = seen
      BY <3>4, <3>5 DEF Value
    <3> QED BY <1>0, <3>2, <3>5, <3>6 DEF TimeInv, MtimeWithin
  <2> QED BY <2>2, <2>3
<1> QED BY <1>1, <1>2, <1>3 DEF ReadTime

(* A call begins, or its value is used.                                    *)
LEMMA TimeCall ==
  ASSUME TimeInv, mtime' = mtime,
         CallTime \/ get' = [get EXCEPT !.step = "none"] \/ get' = get
  PROVE TimeInv'
<1>1. CASE CallTime BY <1>1 DEF CallTime, TimeInv, MtimeWithin
<1>2. CASE get' = [get EXCEPT !.step = "none"] BY <1>2 DEF TimeInv, MtimeWithin
<1>3. CASE get' = get BY <1>3 DEF TimeInv, MtimeWithin, Seen, Value
<1> QED BY <1>1, <1>2, <1>3

LEMMA TimeKept ==
  ASSUME TimeInv, [SeggerNext]_seggerVars
  PROVE TimeInv'
<1>1. CASE Tick BY <1>1, TimeTick
<1>2. CASE ReadTime BY <1>2, TimeRead
<1>3. CASE SetUpUart BY <1>3, TimeCall DEF SetUpUart
<1>4. CASE Puts BY <1>4, TimeCall DEF Puts
<1>5. CASE Initialize BY <1>5, TimeCall DEF Initialize
<1>6. CASE StartTimer BY <1>6, TimeCall DEF StartTimer, GetUs
<1>7. CASE Procedures
  <2>1. CASE For BY <2>1, TimeCall DEF For, Runs
  <2>2. CASE Proc_5_4 BY <2>2, TimeCall DEF Proc_5_4, Runs
  <2>3. CASE CallFunc_2 BY <2>3, TimeCall DEF CallFunc_2, Runs
  <2>4. CASE While BY <2>4, TimeCall DEF While, Runs
  <2>5. CASE CallProc_8 BY <2>5, TimeCall DEF CallProc_8, Runs
  <2>6. CASE CallProc_1 BY <2>6, TimeCall DEF CallProc_1, Runs
  <2>7. CASE ForCh BY <2>7, TimeCall DEF ForCh, Runs
  <2>8. CASE Ints BY <2>8, TimeCall DEF Ints, Runs
  <2>9. CASE CallProc_2 BY <2>9, TimeCall DEF CallProc_2, Runs
  <2> QED BY <1>7, <2>1, <2>2, <2>3, <2>4, <2>5, <2>6, <2>7, <2>8, <2>9 DEF Procedures
<1>8. CASE StopTimer BY <1>8, TimeCall DEF StopTimer
<1>9. CASE PrintValues BY <1>9, TimeCall DEF PrintValues, GetUs
<1>10. CASE Report BY <1>10, TimeCall DEF Report
<1>11. CASE SetFirst BY <1>11, TimeCall DEF SetFirst
<1>12. CASE Poll BY <1>12, TimeCall DEF Poll
<1>13. CASE Write BY <1>13, TimeCall DEF Write
<1>14. CASE SendLine BY <1>14, TimeCall DEF SendLine
<1>15. CASE UNCHANGED seggerVars BY <1>15, TimeCall DEF seggerVars
<1> QED BY <1>1, <1>2, <1>3, <1>4, <1>5, <1>6, <1>7, <1>8, <1>9, <1>10, <1>11,
           <1>12, <1>13, <1>14, <1>15 DEF SeggerNext, dhry

(* A time read in two halves is one the counter had while it was read.     *)
THEOREM TimeShown == SeggerSpec => []MtimeWithin
<1>1. TimeInv => MtimeWithin
  BY DEF TimeInv
<1> QED BY TimeInit, TimeKept, <1>1, PTL DEF SeggerSpec

-----------------------------------------------------------------------------
(* The text on its way: what the line has carried, the FIFO holds and is   *)
(* still to be written is what was printed, from the start.                *)
OnItsWay == (line \o uart.fifo) \o text

(* When the FIFO is looked at, and where dhry may be with text to write.   *)
Drained == {"init_UART", "puts", "Begin_Time", "Proc_5", "Func_2", "while", "Proc_8", "Proc_1",
            "for Ch", "ints", "Proc_2", "++Run_Index", "stop", "End_Time"}
TextInv ==
    /\ \E S : line \in Seq(S) /\ uart.fifo \in Seq(S) /\ text \in Seq(S) /\ printed \in Seq(S)
    /\ uart = [fifo |-> uart.fifo, word |-> uart.word]
    /\ OnItsWay = printed
    /\ uart.word # 0 => uart.fifo = <<>>
    /\ Len(uart.fifo) <= TxDepth /\ (polled => ~TxFull)
    /\ pc \in Drained => text = <<>>
    /\ pc = "init_UART" => uart.fifo = <<>>

(* Sequences of any items are sequences over one set.                      *)
LEMMA Together ==
  ASSUME NEW S, NEW T, NEW s \in Seq(S), NEW t \in Seq(T)
  PROVE  s \in Seq(S \cup T) /\ t \in Seq(S \cup T)
  BY SeqMonotonic, S \subseteq S \cup T, T \subseteq S \cup T

LEMMA TextInit == SeggerInit => TextInv
<1> SUFFICES ASSUME SeggerInit PROVE TextInv
  OBVIOUS
<1>1. /\ line = <<>> /\ uart = [fifo |-> <<>>, word |-> 0] /\ text = <<>> /\ printed = <<>>
      /\ ~polled
  BY DEF SeggerInit, UartInit
<1>2. <<>> \in Seq({}) /\ (<<>> \o <<>>) \o <<>> = <<>>
  BY EmptySeq, ConcatEmptySeq
<1>3. \E S : line \in Seq(S) /\ uart.fifo \in Seq(S) /\ text \in Seq(S) /\ printed \in Seq(S)
  BY <1>1, <1>2
<1>4. 0 <= TxDepth /\ Len(<<>>) = 0
  BY TxDepthAssumption
<1> QED BY <1>1, <1>2, <1>3, <1>4 DEF TextInv, OnItsWay

(* A step of dhry that prints nothing.                                     *)
LEMMA TextStep ==
  ASSUME TextInv, UNCHANGED <<uart, text, polled, line, printed>>,
         pc' \in Drained => text = <<>>, pc' # "init_UART" \/ pc = "init_UART"
  PROVE  TextInv'
  BY DEF TextInv, OnItsWay, TxFull

(* printf, with all of the text before it written.                         *)
LEMMA TextPrintf ==
  ASSUME TextInv, text = <<>>, NEW T, NEW items \in Seq(T), Printf(items),
         UNCHANGED <<uart, polled, line>>, pc' \notin Drained
  PROVE  TextInv'
<1>1. text' = items /\ printed' = printed \o items
  BY DEF Printf
<1>2. PICK S : line \in Seq(S) /\ uart.fifo \in Seq(S) /\ text \in Seq(S) /\ printed \in Seq(S)
  BY DEF TextInv
<1> DEFINE U == S \cup T
<1>3. line \in Seq(U) /\ uart.fifo \in Seq(U) /\ items \in Seq(U) /\ printed \in Seq(U)
  BY <1>2, Together
<1> HIDE DEF U
<1>4. line \o uart.fifo \in Seq(U) /\ printed \o items \in Seq(U)
  BY <1>3, ConcatProperties
<1>5. line \o uart.fifo = printed
  BY <1>4, ConcatEmptySeq DEF TextInv, OnItsWay
<1>6. OnItsWay' = printed'
  BY <1>1, <1>5 DEF OnItsWay
<1>7. \E V : line' \in Seq(V) /\ uart'.fifo \in Seq(V) /\ text' \in Seq(V) /\ printed' \in Seq(V)
  BY <1>1, <1>3, <1>4
<1>8. pc' # "init_UART"
  BY DEF Drained
<1> QED BY <1>6, <1>7, <1>8 DEF TextInv, TxFull

(* A byte goes from the text to the FIFO, which has room for it.           *)
LEMMA TextWrite == ASSUME TextInv, Write PROVE TextInv'
<1>1. /\ text # <<>> /\ ~TxFull /\ text' = Tail(text) /\ ~polled'
      /\ UNCHANGED <<pc, line, printed>>
      /\ uart' = [uart EXCEPT !.word = 0, !.fifo = Append(uart.fifo, Head(text))]
  BY DEF TextInv, Write, MayWrite, UartWrite, WordOf, dFIFOtx_UART
<1>2. PICK S : line \in Seq(S) /\ uart.fifo \in Seq(S) /\ text \in Seq(S) /\ printed \in Seq(S)
  BY DEF TextInv
<1>3. uart'.word = 0 /\ uart'.fifo = Append(uart.fifo, Head(text))
      /\ uart' = [fifo |-> uart'.fifo, word |-> uart'.word]
  BY <1>1 DEF TextInv
<1> DEFINE h == Head(text)  t == Tail(text)  f == uart.fifo
<1>4. h \in S /\ t \in Seq(S) /\ text = <<h>> \o t /\ <<h>> \in Seq(S)
  <2>1. h \in S /\ t \in Seq(S) /\ <<h>> \in Seq(S)
    BY <1>1, <1>2, HeadTailProperties
  <2>2. Len(<<h>> \o t) = Len(text) /\ \A i \in 1..Len(text) : (<<h>> \o t)[i] = text[i]
    BY <1>1, <1>2, HeadTailProperties
  <2> QED BY <1>2, <2>1, <2>2, SeqEqual, ConcatProperties
<1> HIDE DEF h, t, f
<1>5. Append(f, h) = f \o <<h>> /\ f \in Seq(S) /\ f \o <<h>> \in Seq(S) /\ line \o f \in Seq(S)
  BY <1>2, <1>4, AppendIsConcat, ConcatProperties DEF f
<1>6. (line \o (f \o <<h>>)) \o t = (line \o f) \o text
  <2>1. line \o (f \o <<h>>) = (line \o f) \o <<h>>
    BY <1>2, <1>4, <1>5, ConcatAssociative
  <2>2. ((line \o f) \o <<h>>) \o t = (line \o f) \o (<<h>> \o t)
    <3>1. PICK u : u = line \o f
      OBVIOUS
    <3>2. u \in Seq(S) /\ <<h>> \in Seq(S) /\ t \in Seq(S)
      BY <1>4, <1>5, <3>1
    <3>3. (u \o <<h>>) \o t = u \o (<<h>> \o t)
      BY <3>2, ConcatAssociative
    <3> QED BY <3>1, <3>3
  <2> QED BY <1>4, <2>1, <2>2
<1>7. OnItsWay' = printed'
  BY <1>1, <1>3, <1>5, <1>6 DEF TextInv, OnItsWay, h, t, f
<1>8. \E V : line' \in Seq(V) /\ uart'.fifo \in Seq(V) /\ text' \in Seq(V) /\ printed' \in Seq(V)
  BY <1>1, <1>2, <1>3, <1>4, <1>5 DEF h, t, f
<1>9. pc \notin Drained
  BY <1>1 DEF TextInv
<1>10. pc # "init_UART"
  BY <1>9 DEF Drained
<1>11. Len(uart'.fifo) <= TxDepth
  <2>1. Len(f) # TxDepth /\ Len(f) <= TxDepth
    BY <1>1 DEF TextInv, TxFull, f
  <2>2. Len(uart'.fifo) = Len(f) + 1 /\ Len(f) \in Nat
    BY <1>2, <1>3, <1>4, AppendProperties, LenProperties DEF f, h
  <2> QED BY <2>1, <2>2, TxDepthAssumption
<1> QED BY <1>1, <1>3, <1>7, <1>8, <1>9, <1>10, <1>11 DEF TextInv

(* The line takes the oldest byte of the FIFO.                             *)
LEMMA TextSend == ASSUME TextInv, SendLine PROVE TextInv'
<1>1. /\ uart.fifo # <<>> /\ uart' = [uart EXCEPT !.fifo = Tail(uart.fifo)]
      /\ line' = Append(line, Head(uart.fifo)) /\ UNCHANGED <<pc, text, polled, printed>>
  BY DEF SendLine, Transmit
<1>2. PICK S : line \in Seq(S) /\ uart.fifo \in Seq(S) /\ text \in Seq(S) /\ printed \in Seq(S)
  BY DEF TextInv
<1>3. uart'.word = uart.word /\ uart'.fifo = Tail(uart.fifo)
      /\ uart' = [fifo |-> uart'.fifo, word |-> uart'.word]
  BY <1>1 DEF TextInv
<1> DEFINE h == Head(uart.fifo)  t == Tail(uart.fifo)  f == uart.fifo
<1>4. h \in S /\ t \in Seq(S) /\ f = <<h>> \o t /\ <<h>> \in Seq(S) /\ Len(t) < Len(f) /\ Len(f) \in Nat
  <2>1. h \in S /\ t \in Seq(S) /\ <<h>> \in Seq(S) /\ Len(t) < Len(f) /\ Len(f) \in Nat
    BY <1>1, <1>2, HeadTailProperties
  <2>2. Len(<<h>> \o t) = Len(f) /\ \A i \in 1..Len(f) : (<<h>> \o t)[i] = f[i]
    BY <1>1, <1>2, HeadTailProperties
  <2> QED BY <1>2, <2>1, <2>2, SeqEqual, ConcatProperties
<1> HIDE DEF h, t, f
<1>5. Append(line, h) = line \o <<h>> /\ line \o <<h>> \in Seq(S)
  BY <1>2, <1>4, AppendIsConcat, ConcatProperties
<1>6. (line \o <<h>>) \o t = line \o f
  BY <1>2, <1>4, ConcatAssociative
<1>7. OnItsWay' = printed'
  BY <1>1, <1>3, <1>5, <1>6 DEF TextInv, OnItsWay, h, t, f
<1>8. \E V : line' \in Seq(V) /\ uart'.fifo \in Seq(V) /\ text' \in Seq(V) /\ printed' \in Seq(V)
  BY <1>1, <1>2, <1>3, <1>4, <1>5 DEF h, t
<1>9. uart.word = 0 /\ pc # "init_UART"
  BY <1>1 DEF TextInv
<1>10. polled' => ~TxFull'
  <2> SUFFICES ASSUME polled PROVE ~TxFull'
    BY <1>1
  <2>1. Len(f) # TxDepth /\ Len(f) <= TxDepth
    BY DEF TextInv, TxFull, f
  <2>2. Len(uart'.fifo) < Len(f)
    BY <1>3, <1>4 DEF t
  <2>3. TxDepth \in Nat /\ Len(f) \in Nat /\ Len(uart'.fifo) \in Nat
    BY <1>3, <1>4, TxDepthAssumption, LenProperties DEF t
  <2> QED BY <2>1, <2>2, <2>3 DEF TxFull
<1>11. Len(uart'.fifo) <= TxDepth
  <2>1. Len(f) <= TxDepth
    BY DEF TextInv, f
  <2>2. Len(uart'.fifo) < Len(f) /\ Len(uart'.fifo) \in Nat
    BY <1>3, <1>4, LenProperties DEF t
  <2> QED BY <1>4, <2>1, <2>2, TxDepthAssumption
<1> QED BY <1>1, <1>3, <1>7, <1>8, <1>9, <1>10, <1>11 DEF TextInv

(* A tuple of the length of the report's is a sequence.                    *)
LEMMA TupleOf21 ==
  ASSUME NEW x1, NEW x2, NEW x3, NEW x4, NEW x5, NEW x6, NEW x7, NEW x8,
         NEW x9, NEW x10, NEW x11, NEW x12, NEW x13, NEW x14, NEW x15,
         NEW x16, NEW x17, NEW x18, NEW x19, NEW x20, NEW x21
  PROVE  \E T : <<x1, x2, x3, x4, x5, x6, x7, x8, x9, x10, x11, x12, x13, x14, x15,
                 x16, x17, x18, x19, x20, x21>> \in Seq(T)
<1>1. <<x1, x2, x3, x4, x5, x6, x7, x8, x9, x10, x11, x12, x13, x14, x15, x16, x17, x18,
        x19, x20, x21>> \in Seq({x1, x2, x3, x4, x5, x6, x7, x8, x9, x10, x11, x12, x13, x14,
                                x15, x16, x17, x18, x19, x20, x21})
  OBVIOUS
<1> QED BY <1>1

(* What is printed is a sequence.                                          *)
LEMMA PrintsSequences ==
  /\ \E T : FinalValues \in Seq(T)
  /\ \E T : <<Line("Execution starts")>> \in Seq(T)
  /\ \E T : (<<Line("Execution ends")>>
             \o IF User_Time < Too_Small_Time THEN <<Line("Measured time too small")>>
                ELSE <<Line("Dhrystones per Second")>>) \in Seq(T)
  /\ \E T : <<Line("Dhrystone Benchmark")>> \in Seq(T)
<1>1. \E T : FinalValues \in Seq(T)
  BY TupleOf21, ZenonT(60) DEF FinalValues
<1>2. ASSUME NEW x PROVE <<x>> \in Seq({x})
  OBVIOUS
<1>3. ASSUME NEW x, NEW y PROVE <<x>> \o <<y>> \in Seq({x, y})
  OBVIOUS
<1>4. CASE User_Time < Too_Small_Time
  BY <1>1, <1>2, <1>3, <1>4
<1>5. CASE ~(User_Time < Too_Small_Time)
  BY <1>1, <1>2, <1>3, <1>5
<1> QED BY <1>4, <1>5

LEMMA TextKept ==
  ASSUME TextInv, [SeggerNext]_seggerVars
  PROVE  TextInv'
<1>1. CASE Write BY <1>1, TextWrite
<1>2. CASE SendLine BY <1>2, TextSend
<1>3. CASE SetUpUart
  <2>1. /\ pc = "init_UART" /\ pc' = "puts" /\ UNCHANGED <<text, polled, line, printed>>
        /\ uart' = [uart EXCEPT !.word = 2, !.fifo = uart.fifo] /\ uart.fifo = <<>>
    BY <1>3 DEF SetUpUart, UartWrite, WordOf, dDLH_UART, dFIFOtx_UART, TextInv
  <2>2. uart' = [fifo |-> uart.fifo, word |-> 2] /\ uart'.fifo = uart.fifo /\ uart'.word = 2
    BY <2>1 DEF TextInv
  <2> QED BY <2>1, <2>2 DEF TextInv, OnItsWay, TxFull, Drained
<1>4. CASE Puts
  <2>1. text = <<>> /\ pc' \notin Drained
    BY <1>4 DEF Puts, TextInv, Drained
  <2> QED BY <1>4, <2>1, TextPrintf, PrintsSequences DEF Puts
<1>5. CASE Initialize BY <1>5, TextStep DEF Initialize
<1>6. CASE StartTimer
  <2>1. text = <<>> /\ pc' \notin Drained
    BY <1>6 DEF StartTimer, GetUs, TextInv, Drained
  <2> QED BY <1>6, <2>1, TextPrintf, PrintsSequences DEF StartTimer, GetUs
<1>7. CASE Procedures
  <2>1. CASE For BY <2>1, TextStep DEF For, Runs
  <2>2. CASE Proc_5_4 BY <2>2, TextStep DEF Proc_5_4, Runs
  <2>3. CASE CallFunc_2 BY <2>3, TextStep DEF CallFunc_2, Runs
  <2>4. CASE While BY <2>4, TextStep DEF While, Runs
  <2>5. CASE CallProc_8 BY <2>5, TextStep DEF CallProc_8, Runs
  <2>6. CASE CallProc_1 BY <2>6, TextStep DEF CallProc_1, Runs
  <2>7. CASE ForCh BY <2>7, TextStep DEF ForCh, Runs
  <2>8. CASE Ints BY <2>8, TextStep DEF Ints, Runs
  <2>9. CASE CallProc_2 BY <2>9, TextStep DEF CallProc_2, Runs
  <2> QED BY <1>7, <2>1, <2>2, <2>3, <2>4, <2>5, <2>6, <2>7, <2>8, <2>9 DEF Procedures
<1>8. CASE StopTimer BY <1>8, TextStep DEF StopTimer, TextInv, Drained
<1>9. CASE PrintValues
  <2>1. text = <<>> /\ pc' \notin Drained
    BY <1>9 DEF PrintValues, GetUs, TextInv, Drained
  <2> QED BY <1>9, <2>1, TextPrintf, PrintsSequences DEF PrintValues, GetUs
<1>10. CASE Report
  <2>1. text = <<>> /\ pc' \notin Drained
    BY <1>10 DEF Report, TextInv, Drained
  <2> QED BY <1>10, <2>1, TextPrintf, PrintsSequences DEF Report
<1>11. CASE Poll
  <2>1. /\ polled' = ~ReadsTxFull /\ UNCHANGED <<uart, pc, text, line, printed>>
    BY <1>11 DEF Poll
  <2>2. polled' => ~TxFull
    BY <2>1, TxDepthAssumption, EmptySeq DEF ReadsTxFull, TxFull, TextInv
  <2> QED BY <2>1, <2>2 DEF TextInv, OnItsWay, TxFull
<1>12. CASE SetFirst \/ ReadTime \/ Tick \/ UNCHANGED seggerVars
  <2>1. UNCHANGED <<uart, pc, text, polled, line, printed>>
    BY <1>12 DEF SetFirst, ReadTime, Tick, seggerVars
  <2> QED BY <2>1, TextStep DEF TextInv
<1> QED BY <1>1, <1>2, <1>3, <1>4, <1>5, <1>6, <1>7, <1>8, <1>9, <1>10, <1>11,
           <1>12 DEF SeggerNext, dhry

(* What the line has carried, what waits in the FIFO and what is still to  *)
(* be written is always what was printed: for every depth of the FIFO,     *)
(* however slow the line, no item is lost, repeated or overtaken.          *)
THEOREM TextKeptWhole == SeggerSpec => []TextWhole
<1>1. TextInv => TextWhole
  <2> SUFFICES ASSUME TextInv PROVE line \o uart.fifo \o text = printed
    BY DEF TextWhole
  <2> QED BY DEF TextInv, OnItsWay
<1> QED BY TextInit, TextKept, <1>1, PTL DEF SeggerSpec

-----------------------------------------------------------------------------
(* The simulator *)

Early == {"sc_main", "testbench", "named", "process", "load"}
Clocked == {"release", "loop", "clock"}
AbortSteps == {"abort", "flush", "close", "forget"}
SimStates == Early \cup Clocked \cup AbortSteps \cup {"exit", "ended", "crashed"}

SimTypes ==
    /\ sim \in [at : SimStates, then : {"none", "exit", "ended"}, left : Int,
                stop : BOOLEAN, edges : BOOLEAN]
    /\ sim.at \in AbortSteps => sim.then \in {"exit", "ended"}

(* The load comes before the first clock, and a failed one has stopped the *)
(* simulation.                                                             *)
LoadFirst ==
    /\ sim.at \in Early => ~sim.edges
    /\ sim.at \in Clocked => loader.at = "true" \/ (loader.at = "false" /\ sim.stop)

RunInv == SimTypes /\ LoadFirst /\ RunsLoaded

ProgramTypes ==
    /\ program \in [tb : BOOLEAN, atexit : BOOLEAN, sigint : {"default", "handler", "masked"}]
    /\ wave \in [file : {"none", "open", "closed"}, ptr : {"wild", "NULL", "file"},
                 delayed : BOOLEAN, unflushed : BOOLEAN]

(* What is registered when: tb is set last.                                *)
Registered ==
    /\ program.sigint = "default" => sim.at = "sc_main"
    /\ sim.at \in {"sc_main", "testbench", "named"} => ~program.tb
    /\ sim.at \in (Early \ {"sc_main"}) \cup Clocked => program.atexit

(* An open file can be reached, and loses its pointer only when closed;    *)
(* what was dumped is flushed before that.                                 *)
Reachable ==
    /\ wave.file = "open" => wave.ptr = "file"
    /\ wave.unflushed => wave.file = "open"
    /\ sim.at \in {"sc_main", "testbench"} => wave.file # "open"
    /\ sim.at \in {"close", "forget"} => ~wave.unflushed
    /\ sim.at = "forget" => wave.file # "open"

(* The second exit of a program whose SIGINT fell into abort() has nothing *)
(* left to close.                                                          *)
ExitTwice == sim.at = "exit" => program.atexit \/ ~program.tb \/ wave.file # "open"

WaveInv == SimTypes /\ ProgramTypes /\ Registered /\ Reachable /\ ExitTwice /\ WaveClosed

-----------------------------------------------------------------------------
USE DEF Early, Clocked, AbortSteps, SimStates, NoLimit

LEMMA SimInit == TestBenchInit => SimTypes
  BY DEF TestBenchInit, SimTypes

(* Every step keeps the types of the simulator's state.                    *)
LEMMA SimKept ==
  ASSUME SimTypes, [TestBenchNext]_benchProgram
  PROVE SimTypes'
<1>1. CASE Register BY <1>1 DEF Register, Goto, SimTypes
<1>2. CASE Named BY <1>2 DEF Named, Goto, SimTypes
<1>3. CASE \E waves \in Waves : testbench(waves) BY <1>3 DEF testbench, Goto, SimTypes
<1>4. CASE \E help \in BOOLEAN, limit \in CycleLimits \cup {NoLimit} : Options(help, limit)
  <2>1. PICK help \in BOOLEAN, limit \in CycleLimits \cup {-1} : Options(help, limit)
    BY <1>4
  <2>2. limit \in Int
    BY CycleLimitsAssumption
  <2>3. CASE help
    BY <2>1, <2>3 DEF Options, help_options, Goto, SimTypes
  <2>4. CASE ~help
    BY <2>1, <2>2, <2>4 DEF Options, SimTypes
  <2> QED BY <2>3, <2>4
<1>5. CASE Load BY <1>5 DEF Load, SimTypes
<1>6. CASE LoadDone BY <1>6 DEF LoadDone, AfterLoad, assert_handler, Aborting, SimTypes
<1>7. CASE Release BY <1>7 DEF Release, Goto, SimTypes
<1>8. CASE Loop
  <2>1. /\ sim.at = "loop" /\ sim.left \in Int /\ sim.then \in {"none", "exit", "ended"}
        /\ sim.stop \in BOOLEAN /\ sim.edges \in BOOLEAN
    BY <1>8 DEF Loop, SimTypes
  <2> DEFINE stop == sim.stop \/ (sim.left # -1 /\ sim.left <= 1)
             left == IF sim.left > 0 THEN sim.left - 1 ELSE sim.left
  <2>2. sim' = [sim EXCEPT !.at = "clock", !.stop = stop, !.left = left]
    BY <1>8 DEF Loop
  <2>3. stop \in BOOLEAN /\ left \in Int
    BY <2>1
  <2> HIDE DEF stop, left
  <2> QED BY <2>1, <2>2, <2>3 DEF SimTypes
<1>9. CASE clk BY <1>9, ZenonT(60) DEF clk, vl_finish, assert_handler, Aborting, Goto, SimTypes
<1>10. CASE Exit BY <1>10, ZenonT(60) DEF Exit, Aborting, Goto, SimTypes
<1>11. CASE abortBegins BY <1>11 DEF abortBegins, Goto, SimTypes
<1>12. CASE flush BY <1>12 DEF flush, Goto, SimTypes
<1>13. CASE close BY <1>13 DEF close, Goto, SimTypes
<1>14. CASE forget BY <1>14 DEF forget, Goto, SimTypes
<1>15. CASE sigint_handler BY <1>15, ZenonT(60) DEF sigint_handler, Aborting, Goto, SimTypes
<1>16. CASE UNCHANGED benchProgram BY <1>16 DEF benchProgram, SimTypes
<1> QED BY <1>1, <1>2, <1>3, <1>4, <1>5, <1>6, <1>7, <1>8, <1>9, <1>10, <1>11,
           <1>12, <1>13, <1>14, <1>15, <1>16 DEF TestBenchNext

-----------------------------------------------------------------------------
LEMMA RunInvInit == TestBenchInit => RunInv
  BY SimInit DEF TestBenchInit, RunInv, LoadFirst, RunsLoaded

(* Only LoadDone enters the phases with clocks, and only clk clocks.       *)
LEMMA RunInvKept ==
  ASSUME RunInv, [TestBenchNext]_benchProgram
  PROVE RunInv'
<1> SUFFICES LoadFirst' /\ RunsLoaded'
  BY SimKept DEF RunInv
<1> USE DEF RunInv, SimTypes, LoadFirst, RunsLoaded, LoaderStays
<1>1. CASE Register BY <1>1 DEF Register, Goto
<1>2. CASE Named BY <1>2 DEF Named, Goto
<1>3. CASE \E waves \in Waves : testbench(waves) BY <1>3 DEF testbench, Goto
<1>4. CASE \E help \in BOOLEAN, limit \in CycleLimits \cup {NoLimit} : Options(help, limit)
  BY <1>4 DEF Options, help_options, Goto
<1>5. CASE Load BY <1>5 DEF Load
<1>6. CASE LoadDone BY <1>6 DEF LoadDone, AfterLoad, assert_handler, Aborting
<1>7. CASE Release BY <1>7 DEF Release, Goto
<1>8. CASE Loop BY <1>8 DEF Loop
<1>9. CASE clk BY <1>9 DEF clk, vl_finish, assert_handler, Aborting, Goto
<1>10. CASE Exit BY <1>10 DEF Exit, Aborting, Goto
<1>11. CASE abortBegins BY <1>11 DEF abortBegins, Goto
<1>12. CASE flush BY <1>12 DEF flush, Goto
<1>13. CASE close BY <1>13 DEF close, Goto
<1>14. CASE forget BY <1>14 DEF forget, Goto
<1>15. CASE sigint_handler BY <1>15 DEF sigint_handler, Aborting, Goto
<1>16. CASE UNCHANGED benchProgram BY <1>16 DEF benchProgram
<1> QED BY <1>1, <1>2, <1>3, <1>4, <1>5, <1>6, <1>7, <1>8, <1>9, <1>10, <1>11,
           <1>12, <1>13, <1>14, <1>15, <1>16 DEF TestBenchNext

(* The design is never clocked on a memory whose program did not load.     *)
THEOREM ClockedLoaded == TestBenchSpec => []RunsLoaded
<1>1. RunInv => RunsLoaded
  BY DEF RunInv
<1> QED BY RunInvInit, RunInvKept, <1>1, PTL DEF TestBenchSpec

-----------------------------------------------------------------------------
LEMMA WaveInvInit == TestBenchInit => WaveInv
  BY SimInit DEF TestBenchInit, WaveInv, ProgramTypes, Registered, Reachable, ExitTwice, WaveClosed

(* The wave file of one step, by the action that takes it.                 *)
LEMMA WaveInvKept ==
  ASSUME WaveInv, [TestBenchNext]_benchProgram
  PROVE WaveInv'
<1> SUFFICES /\ ProgramTypes' /\ Registered' /\ Reachable' /\ ExitTwice' /\ WaveClosed'
  BY SimKept DEF WaveInv
<1> USE DEF WaveInv, SimTypes, ProgramTypes, Registered, Reachable, ExitTwice, WaveClosed
<1>1. CASE Register BY <1>1 DEF Register, Goto
<1>2. CASE Named BY <1>2 DEF Named, Goto
<1>3. CASE \E waves \in Waves : testbench(waves)
  <2>1. PICK waves \in Waves : testbench(waves)
    BY <1>3
  <2>2. sim.at = "testbench" /\ sim' = [sim EXCEPT !.at = "named"] /\ program' = program
    BY <2>1 DEF testbench, Goto
  <2>3. CASE waves = "none"
    BY <2>1, <2>2, <2>3 DEF testbench, verilator_trace_enable
  <2>4. CASE waves # "none"
    BY <2>1, <2>2, <2>4, ZenonT(60) DEF testbench, verilator_trace_enable, trace_enable
  <2> QED BY <2>3, <2>4
<1>4. CASE \E help \in BOOLEAN, limit \in CycleLimits \cup {NoLimit} : Options(help, limit)
  BY <1>4, ZenonT(60) DEF Options, help_options, Goto
<1>5. CASE Load BY <1>5 DEF Load
<1>6. CASE LoadDone BY <1>6, ZenonT(60) DEF LoadDone, AfterLoad, assert_handler, Aborting
<1>7. CASE Release BY <1>7 DEF Release, Goto
<1>8. CASE Loop BY <1>8 DEF Loop
<1>9. CASE clk
  <2>1. /\ wave' \in [file : {wave.file}, ptr : {wave.ptr}, delayed : BOOLEAN, unflushed : BOOLEAN]
        /\ wave'.unflushed => wave.file = "open"
    BY <1>9, ZenonT(60) DEF clk, trace_rtl
  <2>2. sim.at = "clock" /\ program' = program /\ program.atexit
    BY <1>9 DEF clk
  <2>3. \/ sim' = [sim EXCEPT !.at = "exit"]
        \/ sim' = [sim EXCEPT !.at = "loop", !.edges = TRUE]
        \/ sim' = [sim EXCEPT !.at = "abort", !.then = "ended"]
    BY <1>9 DEF clk, vl_finish, assert_handler, Aborting, Goto
  <2> QED BY <2>1, <2>2, <2>3, ZenonT(60)
<1>10. CASE Exit
  <2>1. sim.at = "exit" /\ wave' = wave /\ program' = [program EXCEPT !.atexit = FALSE]
    BY <1>10 DEF Exit
  <2>2. CASE program.atexit
    <3>1. sim' = [sim EXCEPT !.at = "abort", !.then = "ended"]
      BY <1>10, <2>2 DEF Exit, Aborting
    <3> QED BY <2>1, <3>1
  <2>3. CASE ~program.atexit
    <3>1. sim' = [sim EXCEPT !.at = "ended"]
      BY <1>10, <2>3 DEF Exit, Goto
    <3> QED BY <2>1, <2>3, <3>1
  <2> QED BY <2>2, <2>3
<1>11. CASE abortBegins BY <1>11 DEF abortBegins, Goto
<1>12. CASE flush BY <1>12 DEF flush, Goto
<1>13. CASE close BY <1>13 DEF close, Goto
<1>14. CASE forget BY <1>14 DEF forget, Goto
<1>15. CASE sigint_handler
  <2>1. /\ sim.at \notin {"ended", "crashed"} /\ wave' = wave
        /\ program' = [program EXCEPT !.sigint = "masked"]
    BY <1>15 DEF sigint_handler, Ended
  <2>2. CASE program.sigint = "handler"
    <3>1. sim' = [sim EXCEPT !.at = "abort", !.then = "exit"]
      BY <1>15, <2>2 DEF sigint_handler, Aborting
    <3> QED BY <2>1, <2>2, <3>1
  <2>3. CASE program.sigint = "default"
    <3>1. sim' = [sim EXCEPT !.at = "ended"]
      BY <1>15, <2>3 DEF sigint_handler, Goto
    <3> QED BY <2>1, <2>3, <3>1
  <2> QED BY <1>15, <2>2, <2>3 DEF sigint_handler
<1>16. CASE UNCHANGED benchProgram BY <1>16 DEF benchProgram
<1> QED BY <1>1, <1>2, <1>3, <1>4, <1>5, <1>6, <1>7, <1>8, <1>9, <1>10, <1>11,
           <1>12, <1>13, <1>14, <1>15, <1>16 DEF TestBenchNext

(* However the program ends, a wave file it knows of is closed, and whole. *)
THEOREM FileClosed == TestBenchSpec => []WaveClosed
<1>1. WaveInv => WaveClosed
  BY DEF WaveInv
<1> QED BY WaveInvInit, WaveInvKept, <1>1, PTL DEF TestBenchSpec

-----------------------------------------------------------------------------
(* Dhrystone                                                               *)

(* Its memory: two records, t1 and t2, of which t2 is where Ptr_Glob leads *)
(* and t1 what it is linked to.                                            *)
Strings == {NoString, FirstString, SecondString, ThirdString, SomeString}
Pointers == {"null", "t1", "t2"}
Rec_Types == [Ptr_Comp : Pointers, Discr : Int, Enum_Comp : Int, Int_Comp : Int, Str_Comp : Strings]
Squares == (0..24) \X (0..24)
Arr_1s == [0..24 -> Int]
Arr_2s == [Squares -> Int]
Recs == [{"t1", "t2"} -> Rec_Types]
Memories ==
    [Ptr_Glob : Pointers, Next_Ptr_Glob : Pointers, Int_Glob : Int, Bool_Glob : Int,
     Ch_1_Glob : Int, Ch_2_Glob : Int, Arr_1_Glob : Arr_1s, Arr_2_Glob : Arr_2s, rec : Recs]
Locals ==
    [Int_1 : Int, Int_2 : Int, Int_3 : Int, Ch_Index : Int, Enum : Int, Str_1 : Strings,
     Str_2 : Strings, Run_Index : Int]

(* What Initialize leaves and every run keeps, and what a run adds to it.  *)
Linked(m) ==
    /\ m.Ptr_Glob = "t2" /\ m.Next_Ptr_Glob = "t1"
    /\ m.rec["t2"].Ptr_Comp = "t1" /\ m.rec["t2"].Discr = 0 /\ m.rec["t2"].Enum_Comp = 2
    /\ m.rec["t2"].Str_Comp = SomeString
Counted(m, n) == m.Arr_2_Glob[<<8, 7>>] = 10 + n
Marked(m) == m.Ch_1_Glob = chA /\ m.Ch_2_Glob = chB /\ m.Bool_Glob = 1
InPlace(m) == m.Int_Glob = 5 /\ m.Arr_1_Glob[8] = 7
Joined(m) ==
    /\ m.rec["t2"].Int_Comp = 17
    /\ m.rec["t1"].Ptr_Comp = "t1" /\ m.rec["t1"].Discr = 0 /\ m.rec["t1"].Enum_Comp = 1
    /\ m.rec["t1"].Int_Comp = 18 /\ m.rec["t1"].Str_Comp = SomeString

(* The locals: the strings, and the integers from label to label.          *)
Found(l) == l.Str_2 = SecondString /\ l.Enum = 1
Counts(l) == l.Int_1 = 2 /\ l.Int_2 = 3
Are(l, i, j, k) == l.Int_1 = i /\ l.Int_2 = j /\ l.Int_3 = k
InRuns(l) == l.Run_Index \in 1..Number_Of_Runs

Before(m, l) == Linked(m) /\ l.Str_1 = FirstString
Begun(m, l) == Before(m, l) /\ InRuns(l) /\ Counted(m, l.Run_Index - 1)
Halfway(m, l) ==
    /\ Before(m, l) /\ InRuns(l) /\ Counted(m, l.Run_Index)
    /\ Marked(m) /\ Found(l) /\ InPlace(m)

Upto(at, m, l) ==
    /\ at \in {"Begin_Time", "for"} => Before(m, l) /\ Counted(m, 0)
    /\ at = "Proc_5" => Begun(m, l)
    /\ at = "Func_2" => Begun(m, l) /\ Marked(m)
    /\ at = "while" => Begun(m, l) /\ Marked(m) /\ Found(l)
                       /\ (Counts(l) \/ Are(l, 3, 3, 7))
    /\ at = "Proc_8" => Begun(m, l) /\ Marked(m) /\ Found(l) /\ Are(l, 3, 3, 7)
After(at, m, l) ==
    /\ at = "Proc_1" => Halfway(m, l) /\ Are(l, 3, 3, 7)
    /\ at = "for Ch" => Halfway(m, l) /\ Joined(m) /\ Are(l, 3, 3, 7) /\ l.Ch_Index \in 1..3
    /\ at = "ints" => Halfway(m, l) /\ Joined(m) /\ Are(l, 3, 3, 7)
    /\ at = "Proc_2" => Halfway(m, l) /\ Joined(m) /\ Are(l, 1, 13, 7)
    /\ at = "++Run_Index" => /\ Halfway(m, l) /\ Joined(m) /\ Are(l, 5, 13, 7)
                             /\ l.Run_Index < Number_Of_Runs
    /\ at \in {"stop", "End_Time"} => /\ Halfway(m, l) /\ Joined(m) /\ Are(l, 5, 13, 7)
                                      /\ l.Run_Index = Number_Of_Runs
AsPrinted == \A k \in DOMAIN printed : printed[k].is = printed[k].be
CommentInv ==
    /\ g \in Memories /\ loc \in Locals
    /\ Upto(pc, g, loc) /\ After(pc, g, loc)
    /\ (\E S : printed \in Seq(S)) /\ AsPrinted

LEMMA StringsAre ==
  /\ FirstString \in Strings /\ SecondString \in Strings /\ ThirdString \in Strings
  /\ SomeString \in Strings /\ NoString \in Strings
  BY DEF Strings

LEMMA StringOrder ==
  /\ ~(FirstString.order > SecondString.order)
  /\ FirstString.at[2] = 18 /\ SecondString.at[3] = 25
<1>1. FirstString.order = 1 /\ SecondString.order = 2
  BY DEF FirstString, SecondString, Str
<1>2. FirstString.at[2] = 18 /\ SecondString.at[3] = 25
  BY DEF FirstString, SecondString, Str, chR, chY
<1> QED BY <1>1, <1>2

LEMMA SquaresAre == {<<8, 7>>, <<8, 8>>, <<8, 9>>, <<18, 8>>} \subseteq Squares
  BY DEF Squares

LEMMA ZeroedIs == Zeroed \in Memories
<1>1. Rec_Type(Null, Ident_1, Ident_1, 0, NoString) \in Rec_Types
  BY StringsAre DEF Rec_Type, Rec_Types, Null, Pointers, Ident_1
<1> QED BY <1>1 DEF Zeroed, Memories, Arr_1s, Arr_2s, Recs, Squares, Null, Pointers

LEMMA InitializedIs ==
  ASSUME NEW m \in Memories
  PROVE  Initialized(m) \in Memories /\ Linked(Initialized(m)) /\ Counted(Initialized(m), 0)
<1> DEFINE r == Rec_Type("t1", Ident_1, Ident_3, 40, SomeString)
           n == Initialized(m)
<1>1. r \in Rec_Types
  BY StringsAre DEF Rec_Type, Rec_Types, Pointers, Ident_1, Ident_3
<1>2. /\ n.Ptr_Glob = "t2" /\ n.Next_Ptr_Glob = "t1"
      /\ n.rec = [m.rec EXCEPT !["t2"] = r] /\ n.Arr_2_Glob = [m.Arr_2_Glob EXCEPT ![<<8, 7>>] = 10]
  BY DEF Initialized, Memories
<1>3. n \in Memories
  <2>1. [m.rec EXCEPT !["t2"] = r] \in Recs
    BY <1>1 DEF Memories, Recs
  <2>2. [m.Arr_2_Glob EXCEPT ![<<8, 7>>] = 10] \in Arr_2s
    BY SquaresAre DEF Memories, Arr_2s
  <2>3. "t1" \in Pointers /\ "t2" \in Pointers
    BY DEF Pointers
  <2> QED BY <2>1, <2>2, <2>3 DEF Initialized, Memories
<1>4. n.rec["t2"] = r
  BY <1>2 DEF Memories, Recs
<1>5. Linked(n)
  BY <1>2, <1>4 DEF Linked, Rec_Type, Ident_1, Ident_3
<1>6. n.Arr_2_Glob[<<8, 7>>] = 10
  BY <1>2, SquaresAre DEF Memories, Arr_2s
<1> QED BY <1>3, <1>5, <1>6 DEF Counted

LEMMA StaysMemory ==
  ASSUME NEW m \in Memories
  PROVE  /\ \A a \in Arr_1s : [m EXCEPT !.Arr_1_Glob = a] \in Memories
         /\ \A b \in Arr_2s : [m EXCEPT !.Arr_2_Glob = b] \in Memories
         /\ \A r \in Recs : [m EXCEPT !.rec = r] \in Memories
  BY DEF Memories

LEMMA FourFiveIs ==
  ASSUME NEW m \in Memories, Linked(m)
  PROVE  LET n == Proc_4(Proc_5(m))
         IN  n \in Memories /\ Linked(n) /\ Marked(n) /\ n.Arr_2_Glob = m.Arr_2_Glob
<1> DEFINE n == Proc_4(Proc_5(m))
<1>1. n = [m EXCEPT !.Ch_1_Glob = 1, !.Bool_Glob = 1, !.Ch_2_Glob = 2]
  BY DEF Proc_4, Proc_5, Memories, chA, chB
<1>2. n \in Memories
  <2> DEFINE a == [m EXCEPT !.Ch_1_Glob = 1]
             b == [a EXCEPT !.Bool_Glob = 1]
             c == [b EXCEPT !.Ch_2_Glob = 2]
  <2>1. a \in Memories
    BY DEF Memories
  <2> HIDE DEF a
  <2>2. b \in Memories
    BY <2>1 DEF Memories
  <2> HIDE DEF b
  <2>3. c \in Memories
    BY <2>2 DEF Memories
  <2> QED BY <1>1, <2>3 DEF a, b
<1>3. /\ n.rec = m.rec /\ n.Ptr_Glob = m.Ptr_Glob /\ n.Next_Ptr_Glob = m.Next_Ptr_Glob
      /\ n.Arr_2_Glob = m.Arr_2_Glob
  BY <1>1 DEF Memories
<1>4. n.Ch_1_Glob = 1 /\ n.Ch_2_Glob = 2 /\ n.Bool_Glob = 1
  BY <1>1 DEF Memories
<1> HIDE DEF n
<1>5. Linked(n) /\ Marked(n)
  BY <1>3, <1>4 DEF Linked, Marked, chA, chB
<1> QED BY <1>2, <1>3, <1>5 DEF n

LEMMA Func_2Is ==
  ASSUME NEW m \in Memories
  PROVE  /\ Func_2Writes(m, FirstString, SecondString) = m
         /\ Func_2(FirstString, SecondString) = 0
  BY StringOrder DEF Func_2Writes, Func_2

LEMMA Proc_8Is ==
  ASSUME NEW m \in Memories, Linked(m), Marked(m), NEW k \in Int, Counted(m, k)
  PROVE  LET n == Proc_8(m, 3, 7)
         IN  n \in Memories /\ Linked(n) /\ Marked(n) /\ Counted(n, k + 1) /\ InPlace(n)
<1> DEFINE n == Proc_8(m, 3, 7)
           arr == [m.Arr_1_Glob EXCEPT ![8] = 7, ![9] = 7, ![23] = 8]
           row == [i \in Squares |-> IF i \in {<<8, 8>>, <<8, 9>>} THEN 8 ELSE m.Arr_2_Glob[i]]
           once == [row EXCEPT ![<<8, 7>>] = @ + 1]
           all == [once EXCEPT ![<<18, 8>>] = 7]
<1>1. arr \in Arr_1s /\ arr[8] = 7
  BY DEF Memories, Arr_1s
<1>2. row \in Arr_2s /\ row[<<8, 7>>] = m.Arr_2_Glob[<<8, 7>>]
  BY SquaresAre DEF Memories, Arr_2s
<1>3. all \in Arr_2s /\ all[<<8, 7>>] = m.Arr_2_Glob[<<8, 7>>] + 1
  <2>1. once \in Arr_2s /\ once[<<8, 7>>] = m.Arr_2_Glob[<<8, 7>>] + 1
    BY <1>2, SquaresAre DEF Memories, Arr_2s
  <2> HIDE DEF once
  <2>2. <<8, 7>> # <<18, 8>>
    OBVIOUS
  <2> QED BY <2>1, <2>2, SquaresAre DEF Arr_2s
<1>4. n = [m EXCEPT !.Arr_1_Glob = arr, !.Arr_2_Glob = all, !.Int_Glob = 5]
  <2>1. DOMAIN m.Arr_2_Glob = Squares
    BY DEF Memories, Arr_2s
  <2>2. 3 + 5 = 8 /\ 8 + 1 = 9 /\ 8 + 15 = 23 /\ 8 - 1 = 7 /\ 8 + 10 = 18
    OBVIOUS
  <2> QED BY <1>1, <2>1, <2>2, ZenonT(60) DEF Proc_8
<1> HIDE DEF arr, all
<1>5. n \in Memories
  <2>1. [m EXCEPT !.Arr_1_Glob = arr] \in Memories
    BY <1>1, StaysMemory
  <2> DEFINE b == [m EXCEPT !.Arr_1_Glob = arr, !.Arr_2_Glob = all]
             c == [b EXCEPT !.Int_Glob = 5]
  <2>2. b \in Memories
    BY <1>3, <2>1, StaysMemory
  <2> HIDE DEF b
  <2>3. c \in Memories
    BY <2>2 DEF Memories
  <2> QED BY <1>4, <2>3 DEF b
<1>6. /\ n.rec = m.rec /\ n.Ptr_Glob = m.Ptr_Glob /\ n.Next_Ptr_Glob = m.Next_Ptr_Glob
      /\ n.Ch_1_Glob = m.Ch_1_Glob /\ n.Ch_2_Glob = m.Ch_2_Glob /\ n.Bool_Glob = m.Bool_Glob
      /\ n.Arr_1_Glob = arr /\ n.Arr_2_Glob = all /\ n.Int_Glob = 5
  BY <1>4 DEF Memories
<1>7. Linked(n) /\ Marked(n)
  BY <1>6 DEF Linked, Marked
<1>8. Counted(n, k + 1)
  BY <1>3, <1>6, SquaresAre DEF Counted, Memories
<1> QED BY <1>1, <1>5, <1>6, <1>7, <1>8 DEF InPlace

(* A memory with the two records a and b.                                  *)
With(m, a, b) == [m EXCEPT !.rec = [p \in {"t1", "t2"} |-> IF p = "t1" THEN a ELSE b]]

LEMMA WithRec ==
  ASSUME NEW m \in Memories, NEW a, NEW b
  PROVE  /\ With(m, a, b).rec["t1"] = a /\ With(m, a, b).rec["t2"] = b
         /\ With(m, a, b).Ptr_Glob = m.Ptr_Glob /\ With(m, a, b).Int_Glob = m.Int_Glob
         /\ With(m, m.rec["t1"], m.rec["t2"]) = m
<1>1. m.rec = [p \in {"t1", "t2"} |-> IF p = "t1" THEN m.rec["t1"] ELSE m.rec["t2"]]
  BY DEF Memories, Recs
<1>2. With(m, m.rec["t1"], m.rec["t2"]) = m
  BY <1>1 DEF With, Memories
<1> QED BY <1>2 DEF With, Memories

LEMMA WithNew ==
  ASSUME NEW m \in Memories, NEW a, NEW b, NEW c
  PROVE  /\ [With(m, a, b) EXCEPT !.rec["t1"] = c] = With(m, c, b)
         /\ [With(m, a, b) EXCEPT !.rec["t2"] = c] = With(m, a, c)
<1> DEFINE r == [p \in {"t1", "t2"} |-> IF p = "t1" THEN a ELSE b]
           r1 == [p \in {"t1", "t2"} |-> IF p = "t1" THEN c ELSE b]
           r2 == [p \in {"t1", "t2"} |-> IF p = "t1" THEN a ELSE c]
<1>1. [r EXCEPT !["t1"] = c] = r1 /\ [r EXCEPT !["t2"] = c] = r2
  OBVIOUS
<1>2. With(m, a, b) = [m EXCEPT !.rec = r] /\ With(m, c, b) = [m EXCEPT !.rec = r1]
      /\ With(m, a, c) = [m EXCEPT !.rec = r2]
  BY DEF With
<1> HIDE DEF r, r1, r2
<1>3. [[m EXCEPT !.rec = r] EXCEPT !.rec["t1"] = c] = [m EXCEPT !.rec = [r EXCEPT !["t1"] = c]]
  BY DEF Memories
<1>4. [[m EXCEPT !.rec = r] EXCEPT !.rec["t2"] = c] = [m EXCEPT !.rec = [r EXCEPT !["t2"] = c]]
  BY DEF Memories
<1> QED BY <1>1, <1>2, <1>3, <1>4

(* Writes to a record, and to a component of it.                           *)
SetRec(w, q, v) == [w EXCEPT !.rec[q] = v]
SetInt(w, q, v) == [w EXCEPT !.rec[q].Int_Comp = v]
SetPtr(w, q, v) == [w EXCEPT !.rec[q].Ptr_Comp = v]
SetEnum(w, q, v) == [w EXCEPT !.rec[q].Enum_Comp = v]
IntOf(a, v) == [a EXCEPT !.Int_Comp = v]
PtrOf(a, v) == [a EXCEPT !.Ptr_Comp = v]
EnumOf(a, v) == [a EXCEPT !.Enum_Comp = v]

LEMMA WithField ==
  ASSUME NEW m \in Memories, NEW a, NEW b, NEW v
  PROVE  /\ SetRec(With(m, a, b), "t1", v) = With(m, v, b)
         /\ SetInt(With(m, a, b), "t1", v) = With(m, IntOf(a, v), b)
         /\ SetInt(With(m, a, b), "t2", v) = With(m, a, IntOf(b, v))
         /\ SetPtr(With(m, a, b), "t1", v) = With(m, PtrOf(a, v), b)
         /\ SetEnum(With(m, a, b), "t1", v) = With(m, EnumOf(a, v), b)
<1> DEFINE w == With(m, a, b)
<1>1. w.rec["t1"] = a /\ w.rec["t2"] = b
  BY WithRec
<1>2. \A c : /\ [w EXCEPT !.rec["t1"] = c] = With(m, c, b)
             /\ [w EXCEPT !.rec["t2"] = c] = With(m, a, c)
  BY WithNew
<1> HIDE DEF w
<1>3. SetInt(w, "t1", v) = [w EXCEPT !.rec["t1"] = IntOf(a, v)]
  BY <1>1 DEF SetInt, IntOf
<1>4. SetInt(w, "t2", v) = [w EXCEPT !.rec["t2"] = IntOf(b, v)]
  BY <1>1 DEF SetInt, IntOf
<1>5. SetPtr(w, "t1", v) = [w EXCEPT !.rec["t1"] = PtrOf(a, v)]
  BY <1>1 DEF SetPtr, PtrOf
<1>6. SetEnum(w, "t1", v) = [w EXCEPT !.rec["t1"] = EnumOf(a, v)]
  BY <1>1 DEF SetEnum, EnumOf
<1>7. SetRec(w, "t1", v) = With(m, v, b)
  BY <1>2 DEF SetRec
<1> QED BY <1>2, <1>3, <1>4, <1>5, <1>6, <1>7 DEF w

LEMMA IntOfIs ==
  ASSUME NEW a \in Rec_Types
  PROVE  \A v \in {5, 17, 18} :
         /\ IntOf(a, v) \in Rec_Types /\ IntOf(a, v).Int_Comp = v
         /\ IntOf(a, v).Ptr_Comp = a.Ptr_Comp /\ IntOf(a, v).Discr = a.Discr
         /\ IntOf(a, v).Enum_Comp = a.Enum_Comp /\ IntOf(a, v).Str_Comp = a.Str_Comp
<1> TAKE v \in {5, 17, 18}
<1>1. IntOf(a, v) \in Rec_Types
  BY DEF Rec_Types, IntOf
<1> QED BY <1>1 DEF Rec_Types, IntOf

LEMMA PtrOfIs ==
  ASSUME NEW a \in Rec_Types, NEW p \in Pointers
  PROVE  /\ PtrOf(a, p) \in Rec_Types /\ PtrOf(a, p).Ptr_Comp = p
         /\ PtrOf(a, p).Discr = a.Discr /\ PtrOf(a, p).Enum_Comp = a.Enum_Comp
         /\ PtrOf(a, p).Int_Comp = a.Int_Comp /\ PtrOf(a, p).Str_Comp = a.Str_Comp
<1>1. PtrOf(a, p) \in Rec_Types
  BY DEF Rec_Types, PtrOf
<1> QED BY <1>1 DEF Rec_Types, PtrOf

LEMMA EnumOfIs ==
  ASSUME NEW a \in Rec_Types, NEW v \in Int
  PROVE  /\ EnumOf(a, v) \in Rec_Types /\ EnumOf(a, v).Enum_Comp = v
         /\ EnumOf(a, v).Ptr_Comp = a.Ptr_Comp /\ EnumOf(a, v).Discr = a.Discr
         /\ EnumOf(a, v).Int_Comp = a.Int_Comp /\ EnumOf(a, v).Str_Comp = a.Str_Comp
<1>1. EnumOf(a, v) \in Rec_Types
  BY DEF Rec_Types, EnumOf
<1> QED BY <1>1 DEF Rec_Types, EnumOf

LEMMA Proc_6Is ==
  ASSUME NEW w
  PROVE  Proc_6(w, 2) = 1
<1>1. Proc_6(w, 2) = CASE 2 = 0 -> 0
                       [] 2 = 1 -> IF w.Int_Glob > 100 THEN 0 ELSE 3
                       [] 2 = 2 -> 1
                       [] 2 = 4 -> 2
                       [] OTHER -> IF 2 = 2 THEN 2 ELSE 3
  BY DEF Proc_6, Func_3, Ident_1, Ident_2, Ident_3, Ident_4, Ident_5
<1> QED BY <1>1

(* The stages of Proc_1: t2 copied, its five, and both in the copy; then   *)
(* what Proc_3 makes of that.                                              *)
Copied(m, next) == SetRec(m, next, m.rec[m.Ptr_Glob])
Fives(m, ptr, next) == SetInt(Copied(m, next), ptr, 5)
JoinedTo(m, ptr, next) ==
  SetPtr(SetInt(Fives(m, ptr, next), next, Fives(m, ptr, next).rec[ptr].Int_Comp),
         next, Fives(m, ptr, next).rec[ptr].Ptr_Comp)
Third(m, ptr, next) == Proc_3(JoinedTo(m, ptr, next), next)
Sixth(t, ptr, next) ==
  SetInt(SetPtr(SetEnum(t, next, Proc_6(t, t.rec[ptr].Enum_Comp)),
                next, t.rec[t.Ptr_Glob].Ptr_Comp),
         next, Proc_7(6, 10))

LEMMA Proc_1Folded ==
  ASSUME NEW m, NEW ptr, NEW next, next = m.rec[ptr].Ptr_Comp,
         NEW t, t = Third(m, ptr, next), t.rec[next].Discr = Ident_1
  PROVE  Proc_1(m, ptr) = Sixth(t, ptr, next)
<1>1. Proc_1(m, ptr) =
        LET n == m.rec[ptr].Ptr_Comp
            th == Third(m, ptr, n)
        IN  IF th.rec[n].Discr = Ident_1 THEN Sixth(th, ptr, n)
            ELSE SetRec(th, ptr, th.rec[th.rec[ptr].Ptr_Comp])
  BY ZenonT(60) DEF Proc_1, Third, JoinedTo, Fives, Copied, Sixth, SetRec, SetInt, SetPtr, SetEnum
<1> QED BY <1>1

LEMMA Proc_3Folded ==
  ASSUME NEW m, NEW at, m.Ptr_Glob # Null
  PROVE  Proc_3(m, at) = SetInt(SetPtr(m, at, m.rec[m.Ptr_Glob].Ptr_Comp),
                                m.Ptr_Glob, Proc_7(10, m.Int_Glob))
<1> DEFINE linked == IF m.Ptr_Glob = Null THEN m ELSE SetPtr(m, at, m.rec[m.Ptr_Glob].Ptr_Comp)
<1>1. Proc_3(m, at) = SetInt(linked, m.Ptr_Glob, Proc_7(10, m.Int_Glob))
  BY ZenonT(60) DEF Proc_3, SetInt, SetPtr
<1>2. linked = SetPtr(m, at, m.rec[m.Ptr_Glob].Ptr_Comp)
  OBVIOUS
<1> HIDE DEF linked
<1> QED BY <1>1, <1>2

(* A run of Proc_1 copies t2 to t1, and leaves both as the program says    *)
(* they should be at the end.                                              *)
LEMMA Proc_1Is ==
  ASSUME NEW m \in Memories, Linked(m), m.Int_Glob = 5
  PROVE  \E a \in Rec_Types, b \in Rec_Types :
           /\ Proc_1(m, m.Ptr_Glob) = With(m, a, b)
           /\ With(m, a, b) \in Memories /\ Linked(With(m, a, b)) /\ Joined(With(m, a, b))
<1> DEFINE s == m.rec["t2"]
           five == IntOf(s, 5)
           more == IntOf(five, 17)
           own == PtrOf(IntOf(s, 5), "t1")
           third == PtrOf(own, "t1")
           sixth == IntOf(PtrOf(EnumOf(third, 1), "t1"), 18)
           n == With(m, sixth, more)
<1> HIDE DEF own, third
<1>1. s \in Rec_Types /\ "t1" \in Pointers
  BY DEF Memories, Recs, Pointers
<1>2. /\ s.Ptr_Comp = "t1" /\ s.Discr = 0 /\ s.Enum_Comp = 2 /\ s.Str_Comp = SomeString
      /\ m.Ptr_Glob = "t2" /\ "t2" # Null
  BY DEF Linked, Null
<1> HIDE DEF s
<1>3. /\ five \in Rec_Types /\ five.Ptr_Comp = "t1" /\ five.Discr = 0 /\ five.Enum_Comp = 2
      /\ five.Str_Comp = SomeString /\ five.Int_Comp = 5
  BY <1>1, <1>2, IntOfIs
<1>4. /\ more \in Rec_Types /\ more.Int_Comp = 17 /\ more.Ptr_Comp = "t1" /\ more.Discr = 0
      /\ more.Enum_Comp = 2 /\ more.Str_Comp = SomeString
  BY <1>3, IntOfIs
<1>5. own \in Rec_Types /\ own.Discr = 0 /\ own.Str_Comp = SomeString
  BY <1>1, <1>3, PtrOfIs DEF own
<1>6. third \in Rec_Types /\ third.Discr = 0 /\ third.Str_Comp = SomeString
  BY <1>1, <1>5, PtrOfIs DEF third
<1>7. /\ sixth \in Rec_Types /\ sixth.Discr = 0 /\ sixth.Str_Comp = SomeString
      /\ sixth.Enum_Comp = 1 /\ sixth.Ptr_Comp = "t1" /\ sixth.Int_Comp = 18
  <2> DEFINE e == EnumOf(third, 1)
             p == PtrOf(e, "t1")
  <2>1. e \in Rec_Types /\ e.Discr = 0 /\ e.Str_Comp = SomeString /\ e.Enum_Comp = 1
    BY <1>6, EnumOfIs, SMTT(30)
  <2> HIDE DEF e
  <2>2. /\ p \in Rec_Types /\ p.Discr = 0 /\ p.Str_Comp = SomeString /\ p.Enum_Comp = 1
        /\ p.Ptr_Comp = "t1"
    BY <1>1, <2>1, PtrOfIs
  <2> HIDE DEF p
  <2>3. /\ IntOf(p, 18) \in Rec_Types /\ IntOf(p, 18).Discr = 0 /\ IntOf(p, 18).Int_Comp = 18
        /\ IntOf(p, 18).Str_Comp = SomeString /\ IntOf(p, 18).Enum_Comp = 1
        /\ IntOf(p, 18).Ptr_Comp = "t1"
    BY <2>2, IntOfIs
  <2> QED BY <2>3 DEF p, e
<1>8. n \in Memories /\ Linked(n) /\ Joined(n)
  <2> HIDE DEF sixth, more
  <2>1. [q \in {"t1", "t2"} |-> IF q = "t1" THEN sixth ELSE more] \in Recs
    BY <1>4, <1>7 DEF Recs
  <2>2. n \in Memories
    BY <2>1, StaysMemory DEF With
  <2>3. n.rec["t1"] = sixth /\ n.rec["t2"] = more /\ n.Ptr_Glob = "t2"
    BY <1>2, WithRec
  <2>4. n.Next_Ptr_Glob = "t1"
    BY DEF With, Memories, Linked
  <2>5. Linked(n)
    BY <1>4, <2>3, <2>4 DEF Linked
  <2>6. Joined(n)
    BY <1>4, <1>7, <2>3 DEF Joined
  <2> QED BY <2>2, <2>5, <2>6
<1>9. Proc_1(m, "t2") = n
  <2> DEFINE fives == With(m, s, five)
             joined == With(m, own, five)
             linked == With(m, third, more)
  <2>1. Copied(m, "t1") = With(m, s, s)
    <3>1. m = With(m, m.rec["t1"], s)
      BY WithRec DEF s
    <3>2. Copied(m, "t1") = SetRec(m, "t1", s)
      BY <1>2 DEF Copied, s
    <3> QED BY <3>1, <3>2, WithField
  <2>2. Fives(m, "t2", "t1") = fives
    BY <2>1, WithField DEF Fives
  <2>3. /\ fives.rec["t2"] = five /\ joined.rec["t2"] = five
        /\ joined.Ptr_Glob = "t2" /\ joined.Int_Glob = 5
    BY <1>2, WithRec
  <2>4. JoinedTo(m, "t2", "t1") = joined
    <3>1. SetPtr(SetInt(fives, "t1", 5), "t1", "t1") = joined
      BY WithField DEF own
    <3> QED BY <1>3, <2>2, <2>3, <3>1 DEF JoinedTo
  <2>5. Third(m, "t2", "t1") = linked
    <3>1. Proc_3(joined, "t1") = SetInt(SetPtr(joined, "t1", "t1"), "t2", Proc_7(10, 5))
      BY <1>2, <1>3, <2>3, Proc_3Folded
    <3>2. Proc_7(10, 5) = 17
      BY DEF Proc_7
    <3>3. SetPtr(joined, "t1", "t1") = With(m, third, five)
      BY WithField DEF third
    <3>4. SetInt(With(m, third, five), "t2", 17) = linked
      BY WithField
    <3> QED BY <2>4, <3>1, <3>2, <3>3, <3>4 DEF Third
  <2>6. linked.rec["t1"] = third /\ linked.rec["t2"] = more /\ linked.Ptr_Glob = "t2"
    BY <1>2, WithRec
  <2>7. Sixth(linked, "t2", "t1") = n
    <3>1. Proc_6(linked, 2) = 1 /\ Proc_7(6, 10) = 18
      BY Proc_6Is DEF Proc_7
    <3>2. SetInt(SetPtr(SetEnum(linked, "t1", 1), "t1", "t1"), "t1", 18) = n
      BY WithField
    <3> HIDE DEF linked, more, n
    <3> QED BY <1>4, <2>6, <3>1, <3>2 DEF Sixth
  <2>8. "t1" = m.rec["t2"].Ptr_Comp /\ linked.rec["t1"].Discr = Ident_1
    BY <1>2, <1>6, <2>6 DEF s, Ident_1
  <2> HIDE DEF linked, n
  <2> QED BY <2>5, <2>7, <2>8, Proc_1Folded
<1> QED BY <1>2, <1>4, <1>7, <1>8, <1>9

LEMMA InitComment == SeggerInit => CommentInv
<1> SUFFICES ASSUME SeggerInit PROVE CommentInv
  OBVIOUS
<1>1. g \in Memories
  BY ZeroedIs DEF SeggerInit
<1>2. loc \in Locals
  BY StringsAre DEF SeggerInit, Locals
<1>3. Upto(pc, g, loc) /\ After(pc, g, loc)
  BY DEF SeggerInit, Upto, After
<1>4. printed = <<>>
  BY DEF SeggerInit
<1>5. (\E S : printed \in Seq(S)) /\ AsPrinted
  BY <1>4 DEF AsPrinted
<1> QED BY <1>1, <1>2, <1>3, <1>5 DEF CommentInv

(* A step that changes neither the memory nor the locals, to a label where *)
(* no more is asked of them.                                               *)
LEMMA RestComment ==
  ASSUME CommentInv, UNCHANGED <<g, loc, printed>>, Upto(pc', g, loc), After(pc', g, loc)
  PROVE  CommentInv'
  BY DEF CommentInv, Upto, After, AsPrinted

LEMMA RunStep ==
  ASSUME CommentInv, NEW from, NEW next, NEW m \in Memories, NEW l \in Locals,
         Runs(from, next, m, l), Upto(next, m, l), After(next, m, l)
  PROVE  CommentInv'
<1>1. pc' = next /\ g' = m /\ loc' = l /\ printed' = printed
  BY DEF Runs
<1>2. Upto(pc, g, loc)' /\ After(pc, g, loc)'
  BY <1>1 DEF Upto, After
<1> QED BY <1>1, <1>2 DEF CommentInv, AsPrinted

(* What is printed is printed beside itself.                               *)
LEMMA PrintStep ==
  ASSUME CommentInv, NEW T, NEW items \in Seq(T), \A x \in T : x.is = x.be,
         Printf(items), UNCHANGED <<g, loc>>, Upto(pc', g, loc), After(pc', g, loc)
  PROVE  CommentInv'
<1>1. PICK S : printed \in Seq(S)
  BY DEF CommentInv
<1> DEFINE U == S \cup T
<1>2. printed \in Seq(U) /\ items \in Seq(U)
  BY <1>1
<1>3. printed' = printed \o items /\ g' = g /\ loc' = loc
  BY DEF Printf
<1>4. printed' \in Seq(U)
  BY <1>2, <1>3, ConcatProperties
<1>5. AsPrinted'
  <2>1. PICK a \in Nat : a = Len(printed)
    BY <1>2, LenProperties
  <2>2. PICK b \in Nat : b = Len(items)
    BY <1>2, LenProperties
  <2>3. /\ DOMAIN printed = 1..a /\ DOMAIN items = 1..b /\ DOMAIN printed' = 1..(a + b)
        /\ \A k \in 1..(a + b) : printed'[k] = IF k <= a THEN printed[k] ELSE items[k - a]
    BY <1>2, <1>3, <1>4, <2>1, <2>2, ConcatProperties, LenProperties
  <2>4. SUFFICES ASSUME NEW k \in 1..(a + b) PROVE printed'[k].is = printed'[k].be
    BY <2>3 DEF AsPrinted
  <2>5. CASE k <= a
    <3>1. k \in 1..a
      BY <2>5
    <3> QED BY <2>3, <2>5, <3>1 DEF CommentInv, AsPrinted
  <2>6. CASE ~(k <= a)
    <3>1. k - a \in 1..b
      BY <2>6
    <3>2. items[k - a] \in T
      BY <2>3, <3>1, ElementOfSeq, LenProperties
    <3> QED BY <2>3, <2>6, <3>2
  <2> QED BY <2>5, <2>6
<1>6. Upto(pc, g, loc)' /\ After(pc, g, loc)'
  BY <1>3 DEF Upto, After
<1> QED BY <1>3, <1>4, <1>5, <1>6 DEF CommentInv

LEMMA InitializeStep == ASSUME CommentInv, Initialize PROVE CommentInv'
<1> DEFINE l == [loc EXCEPT !.Str_1 = FirstString]
           m == Initialized(g)
<1>1. pc' = "Begin_Time" /\ g' = m /\ loc' = l /\ printed' = printed
  BY DEF Initialize
<1>2. m \in Memories /\ Linked(m) /\ Counted(m, 0)
  BY InitializedIs DEF CommentInv
<1>3. l \in Locals /\ l.Str_1 = FirstString
  BY StringsAre DEF CommentInv, Locals
<1>4. Upto("Begin_Time", m, l) /\ After("Begin_Time", m, l)
  BY <1>2, <1>3 DEF Upto, After, Before
<1>5. Upto(pc, g, loc)' /\ After(pc, g, loc)'
  BY <1>1, <1>4 DEF Upto, After
<1> QED BY <1>1, <1>2, <1>3, <1>5 DEF CommentInv, AsPrinted

LEMMA ForStep == ASSUME CommentInv, For PROVE CommentInv'
<1>1. CASE Runs("for", "Proc_5", g, [loc EXCEPT !.Run_Index = 1])
  <2> DEFINE l == [loc EXCEPT !.Run_Index = 1]
  <2>1. l \in Locals /\ l.Run_Index = 1 /\ l.Str_1 = loc.Str_1
    BY DEF CommentInv, Locals
  <2> HIDE DEF l
  <2>2. pc = "for" /\ 1 \in 1..Number_Of_Runs /\ 1 - 1 = 0
    BY <1>1, RunsAssumption DEF Runs
  <2>3. Before(g, loc) /\ Counted(g, 0)
    BY <2>2 DEF CommentInv, Upto
  <2>4. Begun(g, l)
    BY <2>1, <2>2, <2>3 DEF Begun, Before, InRuns
  <2>5. Upto("Proc_5", g, l) /\ After("Proc_5", g, l)
    BY <2>4 DEF Upto, After
  <2>6. g \in Memories
    BY DEF CommentInv
  <2>7. Runs("for", "Proc_5", g, l)
    BY <1>1 DEF l
  <2> QED BY <2>1, <2>5, <2>6, <2>7, RunStep
<1>2. CASE Runs("++Run_Index", "Proc_5", g, [loc EXCEPT !.Run_Index = @ + 1])
  <2> DEFINE l == [loc EXCEPT !.Run_Index = @ + 1]
  <2>1. /\ l \in Locals /\ l.Run_Index = loc.Run_Index + 1 /\ l.Str_1 = loc.Str_1
        /\ loc.Run_Index \in Int
    BY DEF CommentInv, Locals
  <2>2. Runs("++Run_Index", "Proc_5", g, l)
    BY <1>2
  <2> HIDE DEF l
  <2>3. pc = "++Run_Index"
    BY <1>2 DEF Runs
  <2>4. Halfway(g, loc) /\ loc.Run_Index < Number_Of_Runs
    BY <2>3 DEF CommentInv, After
  <2>5. l.Run_Index \in 1..Number_Of_Runs /\ l.Run_Index - 1 = loc.Run_Index
    BY <2>1, <2>4, RunsAssumption DEF Halfway, InRuns
  <2>6. Begun(g, l)
    BY <2>1, <2>4, <2>5 DEF Begun, Halfway, Before, InRuns
  <2>7. Upto("Proc_5", g, l) /\ After("Proc_5", g, l)
    BY <2>6 DEF Upto, After
  <2>8. g \in Memories
    BY DEF CommentInv
  <2> QED BY <2>1, <2>2, <2>7, <2>8, RunStep
<1> QED BY <1>1, <1>2 DEF For

LEMMA Proc_5_4Step == ASSUME CommentInv, Proc_5_4 PROVE CommentInv'
<1> DEFINE m == Proc_4(Proc_5(g))
<1>1. Runs("Proc_5", "Func_2", m, loc) /\ pc = "Proc_5"
  BY DEF Proc_5_4, Runs
<1>2. g \in Memories /\ loc \in Locals /\ Begun(g, loc)
  BY <1>1 DEF CommentInv, Upto
<1>3. Linked(g)
  BY <1>2 DEF Begun, Before
<1>4. m \in Memories /\ Linked(m) /\ Marked(m) /\ m.Arr_2_Glob = g.Arr_2_Glob
  BY <1>2, <1>3, FourFiveIs
<1> HIDE DEF m
<1>5. Begun(m, loc)
  BY <1>2, <1>4 DEF Begun, Before, Counted
<1>6. Upto("Func_2", m, loc) /\ After("Func_2", m, loc)
  BY <1>4, <1>5 DEF Upto, After
<1> QED BY <1>1, <1>2, <1>4, <1>6, RunStep

LEMMA CallFunc_2Step == ASSUME CommentInv, CallFunc_2 PROVE CommentInv'
<1> DEFINE l == [loc EXCEPT !.Int_1 = 2, !.Int_2 = 3, !.Str_2 = SecondString, !.Enum = 1]
           m == [g EXCEPT !.Bool_Glob = 1]
<1>1. pc = "Func_2"
  BY DEF CallFunc_2, Runs
<1>2. g \in Memories /\ loc \in Locals /\ Begun(g, loc) /\ Marked(g) /\ loc.Str_1 = FirstString
  BY <1>1 DEF CommentInv, Upto, Begun, Before
<1>3. m = g
  BY <1>2 DEF Memories, Marked
<1>4. Runs("Func_2", "while", m, l)
  <2>1. Runs("Func_2", "while", [Func_2Writes(g, loc.Str_1, SecondString) EXCEPT
                                   !.Bool_Glob = 1 - Func_2(loc.Str_1, SecondString)],
             [loc EXCEPT !.Int_1 = 2, !.Int_2 = 3, !.Str_2 = SecondString, !.Enum = Ident_2])
    BY DEF CallFunc_2
  <2>2. Func_2Writes(g, loc.Str_1, SecondString) = g /\ Func_2(loc.Str_1, SecondString) = 0
    BY <1>2, Func_2Is
  <2>3. 1 - 0 = 1
    OBVIOUS
  <2> QED BY <2>1, <2>2, <2>3 DEF Ident_2
<1>5. l \in Locals
  <2> DEFINE a == [loc EXCEPT !.Int_1 = 2]
             b == [a EXCEPT !.Int_2 = 3]
             c == [b EXCEPT !.Str_2 = SecondString]
             d == [c EXCEPT !.Enum = 1]
  <2>1. a \in Locals
    BY <1>2 DEF Locals
  <2> HIDE DEF a
  <2>2. b \in Locals
    BY <2>1 DEF Locals
  <2> HIDE DEF b
  <2>3. c \in Locals
    BY <2>2, StringsAre DEF Locals
  <2> HIDE DEF c
  <2>4. d \in Locals
    BY <2>3 DEF Locals
  <2> QED BY <2>4 DEF a, b, c
<1>6. /\ l.Int_1 = 2 /\ l.Int_2 = 3 /\ l.Str_2 = SecondString /\ l.Enum = 1
      /\ l.Str_1 = loc.Str_1 /\ l.Run_Index = loc.Run_Index
  BY <1>2 DEF Locals
<1> HIDE DEF l
<1>7. Begun(g, l) /\ Counts(l) /\ Found(l)
  BY <1>2, <1>6 DEF Begun, Before, InRuns, Counts, Found
<1>8. Upto("while", g, l) /\ After("while", g, l)
  BY <1>2, <1>7 DEF Upto, After
<1> QED BY <1>2, <1>3, <1>4, <1>5, <1>8, RunStep

LEMMA WhileStep == ASSUME CommentInv, While PROVE CommentInv'
<1>1. pc = "while"
  BY DEF While, Runs
<1>2. g \in Memories /\ loc \in Locals /\ Begun(g, loc) /\ Marked(g) /\ Found(loc)
  BY <1>1 DEF CommentInv, Upto
<1>3. CASE Counts(loc)
  <2> DEFINE l == [loc EXCEPT !.Int_3 = 7, !.Int_1 = 3]
  <2>1. Runs("while", "while", g, l)
    <3>1. loc.Int_1 = 2 /\ loc.Int_2 = 3 /\ Proc_7(2, 3) = 7 /\ 2 < 3 /\ 2 + 1 = 3
      BY <1>3 DEF Counts, Proc_7
    <3>2. Runs("while", "while", g,
               [loc EXCEPT !.Int_3 = Proc_7(loc.Int_1, loc.Int_2), !.Int_1 = @ + 1])
      BY <3>1 DEF While
    <3>3. [loc EXCEPT !.Int_3 = Proc_7(loc.Int_1, loc.Int_2), !.Int_1 = @ + 1] = l
      BY <1>2, <3>1 DEF Locals
    <3> QED BY <3>2, <3>3
  <2>2. l \in Locals
    <3> DEFINE a == [loc EXCEPT !.Int_3 = 7]
               b == [a EXCEPT !.Int_1 = 3]
    <3>1. a \in Locals
      BY <1>2 DEF Locals
    <3> HIDE DEF a
    <3>2. b \in Locals
      BY <3>1 DEF Locals
    <3> QED BY <3>2 DEF a
  <2>3. /\ Are(l, 3, 3, 7) /\ l.Str_1 = loc.Str_1 /\ l.Str_2 = loc.Str_2
        /\ l.Run_Index = loc.Run_Index /\ l.Enum = loc.Enum
    BY <1>2, <1>3 DEF Locals, Are, Counts
  <2> HIDE DEF l
  <2>4. Begun(g, l) /\ Found(l)
    BY <1>2, <2>3 DEF Begun, Before, InRuns, Found
  <2>5. Upto("while", g, l) /\ After("while", g, l)
    BY <1>2, <2>3, <2>4 DEF Upto, After
  <2> QED BY <1>2, <2>1, <2>2, <2>5, RunStep
<1>4. CASE Are(loc, 3, 3, 7)
  <2>1. Runs("while", "Proc_8", g, loc)
    BY <1>4 DEF While, Are
  <2>2. Upto("Proc_8", g, loc) /\ After("Proc_8", g, loc)
    BY <1>2, <1>4 DEF Upto, After
  <2> QED BY <1>2, <2>1, <2>2, RunStep
<1> QED BY <1>1, <1>3, <1>4 DEF CommentInv, Upto

LEMMA CallProc_8Step == ASSUME CommentInv, CallProc_8 PROVE CommentInv'
<1> DEFINE m == Proc_8(g, 3, 7)
<1>1. pc = "Proc_8"
  BY DEF CallProc_8, Runs
<1>2. /\ g \in Memories /\ loc \in Locals /\ Begun(g, loc) /\ Marked(g) /\ Found(loc)
      /\ Are(loc, 3, 3, 7) /\ loc.Run_Index \in Int
  BY <1>1 DEF CommentInv, Upto, Locals
<1>3. Runs("Proc_8", "Proc_1", m, loc)
  BY <1>2 DEF CallProc_8, Are
<1>4. PICK k \in Int : k = loc.Run_Index - 1 /\ loc.Run_Index = k + 1
  BY <1>2
<1>5. Linked(g) /\ Counted(g, k)
  BY <1>2, <1>4 DEF Begun, Before
<1>6. m \in Memories /\ Linked(m) /\ Marked(m) /\ Counted(m, k + 1) /\ InPlace(m)
  BY <1>2, <1>5, Proc_8Is
<1> HIDE DEF m
<1>7. Halfway(m, loc)
  BY <1>2, <1>4, <1>6 DEF Halfway, Begun, Before
<1>8. Upto("Proc_1", m, loc) /\ After("Proc_1", m, loc)
  BY <1>2, <1>7 DEF Upto, After
<1> QED BY <1>2, <1>3, <1>6, <1>8, RunStep

LEMMA CallProc_1Step == ASSUME CommentInv, CallProc_1 PROVE CommentInv'
<1> DEFINE l == [loc EXCEPT !.Ch_Index = 1]
<1>1. pc = "Proc_1" /\ Runs("Proc_1", "for Ch", Proc_1(g, g.Ptr_Glob), l)
  BY DEF CallProc_1, Runs, chA
<1>2. g \in Memories /\ loc \in Locals /\ Halfway(g, loc) /\ Are(loc, 3, 3, 7)
  BY <1>1 DEF CommentInv, After
<1>3. Linked(g) /\ g.Int_Glob = 5
  BY <1>2 DEF Halfway, Before, InPlace
<1>4. PICK a \in Rec_Types, b \in Rec_Types :
        /\ Proc_1(g, g.Ptr_Glob) = With(g, a, b)
        /\ With(g, a, b) \in Memories /\ Linked(With(g, a, b)) /\ Joined(With(g, a, b))
  BY <1>2, <1>3, Proc_1Is
<1> DEFINE m == With(g, a, b)
<1>5. /\ m.Int_Glob = g.Int_Glob /\ m.Bool_Glob = g.Bool_Glob /\ m.Ch_1_Glob = g.Ch_1_Glob
      /\ m.Ch_2_Glob = g.Ch_2_Glob /\ m.Arr_1_Glob = g.Arr_1_Glob /\ m.Arr_2_Glob = g.Arr_2_Glob
  BY <1>2 DEF With, Memories
<1>6. /\ l \in Locals /\ l.Ch_Index = 1 /\ Are(l, 3, 3, 7) /\ l.Str_1 = loc.Str_1
      /\ l.Str_2 = loc.Str_2 /\ l.Run_Index = loc.Run_Index /\ l.Enum = loc.Enum
  BY <1>2 DEF Locals, Are
<1>7. Runs("Proc_1", "for Ch", m, l)
  BY <1>1, <1>4
<1>8. m \in Memories /\ Linked(m) /\ Joined(m)
  BY <1>4
<1> HIDE DEF m, l
<1>9. Halfway(m, l)
  BY <1>2, <1>5, <1>6, <1>8 DEF Halfway, Before, Counted, Marked, InPlace, Found, InRuns
<1>10. Upto("for Ch", m, l) /\ After("for Ch", m, l)
  BY <1>6, <1>8, <1>9 DEF Upto, After
<1> QED BY <1>6, <1>7, <1>8, <1>10, RunStep

LEMMA ForChStep == ASSUME CommentInv, ForCh PROVE CommentInv'
<1>1. pc = "for Ch"
  BY DEF ForCh, Runs
<1>2. /\ g \in Memories /\ loc \in Locals /\ Halfway(g, loc) /\ Joined(g) /\ Are(loc, 3, 3, 7)
      /\ loc.Ch_Index \in 1..3
  BY <1>1 DEF CommentInv, After
<1>3. g.Ch_2_Glob = 2 /\ loc.Enum = 1
  BY <1>2 DEF Halfway, Marked, Found, chB
<1>4. CASE loc.Ch_Index > 2
  <2>1. Runs("for Ch", "ints", g, loc)
    BY <1>3, <1>4 DEF ForCh
  <2>2. Upto("ints", g, loc) /\ After("ints", g, loc)
    BY <1>2 DEF Upto, After
  <2> QED BY <1>2, <2>1, <2>2, RunStep
<1>5. CASE ~(loc.Ch_Index > 2)
  <2> DEFINE l == [loc EXCEPT !.Ch_Index = @ + 1]
  <2>1. loc.Ch_Index # 3 /\ loc.Ch_Index + 1 \in 1..3
    BY <1>2, <1>5
  <2>2. Func_1(loc.Ch_Index, chC) = 0 /\ Func_1Writes(g, loc.Ch_Index, chC) = g
    BY <2>1 DEF Func_1, Func_1Writes, chC, Ident_1
  <2>3. loc.Enum # Func_1(loc.Ch_Index, chC)
    BY <1>3, <2>2
  <2>4. Runs("for Ch", "for Ch", g, l)
    BY <1>3, <1>5, <2>2, <2>3 DEF ForCh
  <2>5. /\ l \in Locals /\ l.Ch_Index \in 1..3 /\ Are(l, 3, 3, 7) /\ l.Str_1 = loc.Str_1
        /\ l.Str_2 = loc.Str_2 /\ l.Run_Index = loc.Run_Index /\ l.Enum = loc.Enum
    BY <1>2, <2>1 DEF Locals, Are
  <2> HIDE DEF l
  <2>6. Halfway(g, l)
    BY <1>2, <2>5 DEF Halfway, Before, Found, InRuns
  <2>7. Upto("for Ch", g, l) /\ After("for Ch", g, l)
    BY <1>2, <2>5, <2>6 DEF Upto, After
  <2> QED BY <1>2, <2>4, <2>5, <2>7, RunStep
<1> QED BY <1>4, <1>5

LEMMA IntsStep == ASSUME CommentInv, Ints PROVE CommentInv'
<1> DEFINE l == [loc EXCEPT !.Int_1 = 1, !.Int_2 = 13]
<1>1. pc = "ints"
  BY DEF Ints, Runs
<1>2. g \in Memories /\ loc \in Locals /\ Halfway(g, loc) /\ Joined(g) /\ Are(loc, 3, 3, 7)
  BY <1>1 DEF CommentInv, After
<1>3. 3 * 3 = 9 /\ 9 \div 7 = 1 /\ 7 * (9 - 7) - 1 = 13
  OBVIOUS
<1>4. Runs("ints", "Proc_2", g, l)
  BY <1>2, <1>3 DEF Ints, Are
<1>5. l \in Locals
  <2> DEFINE a == [loc EXCEPT !.Int_1 = 1]
             b == [a EXCEPT !.Int_2 = 13]
  <2>1. a \in Locals
    BY <1>2 DEF Locals
  <2> HIDE DEF a
  <2>2. b \in Locals
    BY <2>1 DEF Locals
  <2> QED BY <2>2 DEF a
<1>6. /\ Are(l, 1, 13, 7) /\ l.Str_1 = loc.Str_1 /\ l.Str_2 = loc.Str_2
      /\ l.Run_Index = loc.Run_Index /\ l.Enum = loc.Enum
  BY <1>2 DEF Locals, Are
<1> HIDE DEF l
<1>7. Halfway(g, l)
  BY <1>2, <1>6 DEF Halfway, Before, Found, InRuns
<1>8. Upto("Proc_2", g, l) /\ After("Proc_2", g, l)
  BY <1>2, <1>6, <1>7 DEF Upto, After
<1> QED BY <1>2, <1>4, <1>5, <1>8, RunStep

LEMMA CallProc_2Step == ASSUME CommentInv, CallProc_2 PROVE CommentInv'
<1> DEFINE l == [loc EXCEPT !.Int_1 = 5]
<1>1. pc = "Proc_2"
  BY DEF CallProc_2, Runs
<1>2. g \in Memories /\ loc \in Locals /\ Halfway(g, loc) /\ Joined(g) /\ Are(loc, 1, 13, 7)
  BY <1>1 DEF CommentInv, After
<1>3. Proc_2(g, 1) = 5
  BY <1>2 DEF Proc_2, Halfway, Marked, InPlace
<1>4. loc.Int_1 = 1
  BY <1>2 DEF Are
<1>5. /\ l \in Locals /\ Are(l, 5, 13, 7) /\ l.Str_1 = loc.Str_1 /\ l.Str_2 = loc.Str_2
      /\ l.Run_Index = loc.Run_Index /\ l.Enum = loc.Enum
  BY <1>2 DEF Locals, Are
<1>6. Runs("Proc_2", IF loc.Run_Index < Number_Of_Runs THEN "++Run_Index" ELSE "stop", g, l)
  BY <1>3, <1>4 DEF CallProc_2
<1> HIDE DEF l
<1>7. Halfway(g, l)
  BY <1>2, <1>5 DEF Halfway, Before, Found, InRuns
<1>8. CASE loc.Run_Index < Number_Of_Runs
  <2>1. Upto("++Run_Index", g, l) /\ After("++Run_Index", g, l)
    BY <1>2, <1>5, <1>7, <1>8 DEF Upto, After
  <2>2. Runs("Proc_2", "++Run_Index", g, l)
    BY <1>6, <1>8
  <2> QED BY <1>2, <1>5, <2>1, <2>2, RunStep
<1>9. CASE ~(loc.Run_Index < Number_Of_Runs)
  <2>1. l.Run_Index = Number_Of_Runs
    BY <1>2, <1>5, <1>9, RunsAssumption DEF Halfway, InRuns
  <2>2. Upto("stop", g, l) /\ After("stop", g, l)
    BY <1>2, <1>5, <1>7, <2>1 DEF Upto, After
  <2>3. Runs("Proc_2", "stop", g, l)
    BY <1>6, <1>9
  <2> QED BY <1>2, <1>5, <2>2, <2>3, RunStep
<1> QED BY <1>8, <1>9

LEMMA ItemAgrees == ASSUME NEW x, NEW y, x = y PROVE Item(x, y).is = Item(x, y).be
  BY DEF Item

LEMMA FinalAgree ==
  ASSUME g \in Memories, loc \in Locals, Halfway(g, loc), Joined(g), Are(loc, 5, 13, 7),
         loc.Run_Index = Number_Of_Runs
  PROVE  \E T : FinalValues \in Seq(T) /\ \A x \in T : x.is = x.be
<1> DEFINE p == g.rec["t2"]
           n == g.rec["t1"]
           T == {Item(g.Int_Glob, 5), Item(g.Bool_Glob, 1), Item(g.Ch_1_Glob, chA),
                 Item(g.Ch_2_Glob, chB), Item(g.Arr_1_Glob[8], 7),
                 Item(g.Arr_2_Glob[<<8, 7>>], Number_Of_Runs + 10),
                 Item(p.Discr, 0), Item(p.Enum_Comp, 2), Item(p.Int_Comp, 17),
                 Item(p.Str_Comp, SomeString), Item(n.Ptr_Comp, p.Ptr_Comp),
                 Item(n.Discr, 0), Item(n.Enum_Comp, 1), Item(n.Int_Comp, 18),
                 Item(n.Str_Comp, SomeString), Item(loc.Int_1, 5),
                 Item(loc.Int_2, 13), Item(loc.Int_3, 7), Item(loc.Enum, 1),
                 Item(loc.Str_1, FirstString), Item(loc.Str_2, SecondString)}
<1>1. /\ g.Int_Glob = 5 /\ g.Bool_Glob = 1 /\ g.Ch_1_Glob = chA /\ g.Ch_2_Glob = chB
      /\ g.Arr_1_Glob[8] = 7
  BY DEF Halfway, Marked, InPlace
<1>2. g.Arr_2_Glob[<<8, 7>>] = Number_Of_Runs + 10
  BY RunsAssumption DEF Halfway, Counted
<1>3. /\ p.Discr = 0 /\ p.Enum_Comp = 2 /\ p.Int_Comp = 17 /\ p.Str_Comp = SomeString
      /\ n.Ptr_Comp = p.Ptr_Comp /\ n.Discr = 0 /\ n.Enum_Comp = 1 /\ n.Int_Comp = 18
      /\ n.Str_Comp = SomeString
  BY DEF Halfway, Before, Linked, Joined
<1>4. /\ loc.Int_1 = 5 /\ loc.Int_2 = 13 /\ loc.Int_3 = 7 /\ loc.Enum = 1
      /\ loc.Str_1 = FirstString /\ loc.Str_2 = SecondString
  BY DEF Halfway, Before, Found, Are
<1>5. g.Ptr_Glob = "t2" /\ g.Next_Ptr_Glob = "t1"
  BY DEF Halfway, Before, Linked
<1>6. FinalValues = <<Item(g.Int_Glob, 5), Item(g.Bool_Glob, 1), Item(g.Ch_1_Glob, chA),
                      Item(g.Ch_2_Glob, chB), Item(g.Arr_1_Glob[8], 7),
                      Item(g.Arr_2_Glob[<<8, 7>>], Number_Of_Runs + 10),
                      Item(p.Discr, 0), Item(p.Enum_Comp, 2), Item(p.Int_Comp,
                      17), Item(p.Str_Comp, SomeString), Item(n.Ptr_Comp,
                      p.Ptr_Comp), Item(n.Discr, 0), Item(n.Enum_Comp, 1),
                      Item(n.Int_Comp, 18), Item(n.Str_Comp, SomeString),
                      Item(loc.Int_1, 5), Item(loc.Int_2, 13), Item(loc.Int_3,
                      7), Item(loc.Enum, 1), Item(loc.Str_1, FirstString),
                      Item(loc.Str_2, SecondString)>>
  BY <1>5 DEF FinalValues
<1> HIDE DEF p, n
<1>7. FinalValues \in Seq(T)
  BY <1>6
<1>8. \A x \in T : x.is = x.be
  BY <1>1, <1>2, <1>3, <1>4, ItemAgrees
<1> HIDE DEF T
<1> QED BY <1>7, <1>8

LEMMA PrintValuesStep == ASSUME CommentInv, PrintValues PROVE CommentInv'
<1>1. pc = "End_Time" /\ pc' = "report" /\ Printf(FinalValues) /\ UNCHANGED <<g, loc>>
  BY DEF PrintValues, GetUs
<1>2. PICK T : FinalValues \in Seq(T) /\ \A x \in T : x.is = x.be
  BY <1>1, FinalAgree DEF CommentInv, After
<1>3. Upto(pc', g, loc) /\ After(pc', g, loc)
  BY <1>1 DEF Upto, After
<1> QED BY <1>1, <1>2, <1>3, PrintStep

LEMMA LineAgrees == ASSUME NEW what PROVE Line(what).is = Line(what).be
  BY DEF Line, Item

LEMMA LineStep ==
  ASSUME CommentInv, NEW what, Printf(<<Line(what)>>), UNCHANGED <<g, loc>>,
         Upto(pc', g, loc), After(pc', g, loc)
  PROVE  CommentInv'
<1> DEFINE T == {Line(what)}
           items == <<Line(what)>>
<1>1. items \in Seq(T) /\ (\A x \in T : x.is = x.be) /\ Printf(items)
  BY LineAgrees
<1> HIDE DEF T, items
<1> QED BY <1>1, PrintStep

LEMMA TwoLines ==
  ASSUME NEW a, NEW b, a.is = a.be, b.is = b.be
  PROVE  \E T : <<a>> \o <<b>> \in Seq(T) /\ \A x \in T : x.is = x.be
<1> DEFINE T == {a, b}
           items == <<a>> \o <<b>>
<1>1. <<a>> \in Seq(T) /\ <<b>> \in Seq(T) /\ \A x \in T : x.is = x.be
  OBVIOUS
<1> HIDE DEF T
<1>2. items \in Seq(T)
  BY <1>1, ConcatProperties
<1> HIDE DEF items
<1>3. \E S : items \in Seq(S) /\ \A x \in S : x.is = x.be
  BY <1>1, <1>2
<1> QED BY <1>3 DEF items

LEMMA ReportStep == ASSUME CommentInv, Report PROVE CommentInv'
<1> DEFINE a == Line("Execution ends")
           b == Line("Measured time too small")
           c == Line("Dhrystones per Second")
<1>1. /\ pc' = "exit" /\ UNCHANGED <<g, loc>>
      /\ Printf(<<a>> \o IF User_Time < Too_Small_Time THEN <<b>> ELSE <<c>>)
  BY DEF Report
<1>2. a.is = a.be
  BY LineAgrees
<1>3. b.is = b.be
  BY LineAgrees
<1>4. c.is = c.be
  BY LineAgrees
<1> HIDE DEF a, b, c
<1>5. PICK d : d.is = d.be /\ Printf(<<a>> \o <<d>>)
  BY <1>1, <1>3, <1>4
<1>6. PICK T : <<a>> \o <<d>> \in Seq(T) /\ \A x \in T : x.is = x.be
  BY <1>2, <1>5, TwoLines
<1>7. Upto(pc', g, loc) /\ After(pc', g, loc)
  BY <1>1 DEF Upto, After
<1> QED BY <1>1, <1>5, <1>6, <1>7, PrintStep

LEMMA CommentStep == CommentInv /\ [SeggerNext]_seggerVars => CommentInv'
<1> SUFFICES ASSUME CommentInv, [SeggerNext]_seggerVars PROVE CommentInv'
  OBVIOUS
<1>1. CASE UNCHANGED <<pc, g, loc, printed>>
  BY <1>1, RestComment DEF CommentInv
<1>2. CASE SetUpUart
  <2>1. UNCHANGED <<g, loc, printed>> /\ pc' = "puts"
    BY <1>2 DEF SetUpUart
  <2>2. Upto(pc', g, loc) /\ After(pc', g, loc)
    BY <2>1 DEF Upto, After
  <2> QED BY <2>1, <2>2, RestComment
<1>3. CASE Puts
  <2>1. UNCHANGED <<g, loc>> /\ pc' = "init" /\ Printf(<<Line("Dhrystone Benchmark")>>)
    BY <1>3 DEF Puts
  <2>2. Upto(pc', g, loc) /\ After(pc', g, loc)
    BY <2>1 DEF Upto, After
  <2> QED BY <2>1, <2>2, LineStep
<1>4. CASE StartTimer
  <2>1. /\ UNCHANGED <<g, loc>> /\ pc = "Begin_Time" /\ pc' = "for"
        /\ Printf(<<Line("Execution starts")>>)
    BY <1>4 DEF StartTimer, GetUs
  <2>2. Upto(pc', g, loc) /\ After(pc', g, loc)
    BY <2>1 DEF CommentInv, Upto, After
  <2> QED BY <2>1, <2>2, LineStep
<1>5. CASE StopTimer
  <2>1. UNCHANGED <<g, loc, printed>> /\ pc = "stop" /\ pc' = "End_Time"
    BY <1>5 DEF StopTimer
  <2>2. Upto(pc', g, loc) /\ After(pc', g, loc)
    BY <2>1 DEF CommentInv, Upto, After
  <2> QED BY <2>1, <2>2, RestComment
<1>6. CASE Procedures
  BY <1>6, ForStep, Proc_5_4Step, CallFunc_2Step, WhileStep, CallProc_8Step, CallProc_1Step,
     ForChStep, IntsStep, CallProc_2Step DEF Procedures
<1>7. CASE ReadTime \/ SetFirst \/ Poll \/ Write \/ SendLine \/ Tick
  BY <1>1, <1>7 DEF ReadTime, SetFirst, Poll, Write, SendLine, Tick
<1>8. CASE UNCHANGED seggerVars
  BY <1>1, <1>8 DEF seggerVars
<1> QED BY <1>2, <1>3, <1>4, <1>5, <1>6, <1>7, <1>8, InitializeStep, PrintValuesStep, ReportStep
        DEF SeggerNext, dhry

(* For any number of runs, the million of the code among them, what the    *)
(* comments between the statements of dhry's loop say of the variables     *)
(* holds at each label, whatever the runs before have left, and what the   *)
(* program prints beside the final values is what they are.                *)
THEOREM LoopCommentsTrue == SeggerSpec => []LoopCommentsHold
<1>1. CommentInv => LoopCommentsHold
  <2> SUFFICES ASSUME CommentInv PROVE LoopCommentsHold
    OBVIOUS
  <2>1. Upto(pc, g, loc) /\ After(pc, g, loc) /\ AsPrinted
    BY DEF CommentInv
  <2>2. /\ pc = "Func_2" => g.Ch_1_Glob = chA /\ g.Ch_2_Glob = chB /\ g.Bool_Glob = 1
        /\ pc = "while" => g.Bool_Glob = 1
    BY <2>1 DEF Upto, Marked
  <2>3. pc = "while" /\ loc.Int_1 < loc.Int_2 => loc.Int_1 = 2 /\ loc.Int_2 = 3
    BY <2>1 DEF Upto, Counts, Are
  <2>4. pc = "Proc_8" \/ pc = "ints" => Ints_Loc = <<3, 3, 7>>
    BY <2>1 DEF Upto, After, Are, Ints_Loc
  <2>5. pc = "Proc_1" => g.Int_Glob = 5
    BY <2>1 DEF After, Halfway, InPlace
  <2>6. pc = "for Ch" => g.rec[g.rec[g.Ptr_Glob].Ptr_Comp].Ptr_Comp = g.rec[g.Ptr_Glob].Ptr_Comp
    BY <2>1 DEF After, Halfway, Before, Linked, Joined
  <2>7. ASSUME pc = "for Ch", loc.Ch_Index <= g.Ch_2_Glob
        PROVE  loc.Enum # Func_1(loc.Ch_Index, chC)
    <3>1. loc.Enum = 1 /\ g.Ch_2_Glob = 2 /\ loc.Ch_Index \in 1..3
      BY <2>1, <2>7 DEF After, Halfway, Found, Marked, chB
    <3>2. PICK k \in 1..3 : k = loc.Ch_Index
      BY <3>1
    <3>3. k <= 2
      BY <2>7, <3>1, <3>2
    <3>4. k # chC
      BY <3>3 DEF chC
    <3> QED BY <3>1, <3>2, <3>4 DEF Func_1, Ident_1
  <2>8. pc = "Proc_2" => Ints_Loc = <<1, 13, 7>> /\ g.Ch_1_Glob = chA
    BY <2>1 DEF After, Are, Ints_Loc, Halfway, Marked
  <2>9. pc = "++Run_Index" \/ pc = "stop" => loc.Int_1 = 5
    BY <2>1 DEF After, Are
  <2> QED BY <2>1, <2>2, <2>3, <2>4, <2>5, <2>6, <2>7, <2>8, <2>9 DEF LoopCommentsHold, AsPrinted
<1> QED BY InitComment, CommentStep, <1>1, PTL DEF SeggerSpec

-----------------------------------------------------------------------------
(* hex_to_coe                                                              *)

Contents == [Bytes -> Nat]
Row == [1..RowBytes -> Nat]
CoeStates ==
    [at : {"records", "rows"}, record : Nat, buffer : Contents, address_offset : Nat,
     rows : Seq(Row), hex : Contents, high : BOOLEAN]

(* As long as no record is above 64 KB, the buffer is the file; the rows   *)
(* written so far are the buffer from its beginning.                       *)
RowAt(r) == [j \in 1..RowBytes |-> coe.buffer[(r - 1) * RowBytes + (j - 1)]]
HexInv ==
    /\ coe \in CoeStates
    /\ ~coe.high => coe.address_offset = 0 /\ coe.buffer = coe.hex
    /\ coe.at = "records" => coe.rows = <<>>
    /\ Len(coe.rows) * RowBytes <= MaxAddress + 1
    /\ \A r \in 1..Len(coe.rows) : coe.rows[r] = RowAt(r)

(* The output ends with a whole row.                                       *)
LEMMA RowsEndTogether ==
  ASSUME NEW n \in Nat, n * RowBytes <= MaxAddress
  PROVE  (n + 1) * RowBytes <= MaxAddress + 1
<1>1. RowBytes \in Nat /\ RowBytes > 0 /\ MaxAddress \in Nat /\ (MaxAddress + 1) % RowBytes = 0
  BY HexAssumption
<1>2. PICK q \in Nat : MaxAddress + 1 = q * RowBytes
  <2> DEFINE k == (MaxAddress + 1) \div RowBytes
  <2>1. k \in Nat /\ MaxAddress + 1 = RowBytes * k + ((MaxAddress + 1) % RowBytes)
    BY <1>1
  <2> QED BY <1>1, <2>1
<1>3. n < q
  <2> SUFFICES ASSUME q <= n PROVE FALSE
    BY <1>2
  <2>1. q * RowBytes <= n * RowBytes
    BY <1>1, <1>2
  <2> QED BY <1>1, <1>2, <2>1
<1>4. n + 1 <= q
  BY <1>2, <1>3
<1>5. (n + 1) * RowBytes <= q * RowBytes
  BY <1>1, <1>2, <1>4
<1> QED BY <1>2, <1>5

LEMMA InitHex == HexInit => HexInv
<1> SUFFICES ASSUME HexInit PROVE HexInv
  OBVIOUS
<1> DEFINE zeros == [a \in Bytes |-> 0]
<1>1. zeros \in Contents
  BY DEF Contents
<1>2. coe = [at |-> "records", record |-> 0, buffer |-> zeros, address_offset |-> 0, rows |-> <<>>,
             hex |-> zeros, high |-> FALSE]
  BY DEF HexInit, default_value
<1> HIDE DEF zeros
<1>3. /\ coe \in CoeStates /\ coe.address_offset = 0 /\ coe.buffer = coe.hex /\ coe.rows = <<>>
  BY <1>1, <1>2 DEF CoeStates
<1>4. Len(<<>>) = 0 /\ 0 * RowBytes <= MaxAddress + 1
  BY HexAssumption
<1> QED BY <1>3, <1>4 DEF HexInv

(* A record that is read keeps what is known; the rows come later.         *)
LEMMA RecordRead ==
  ASSUME HexInv, coe.at = "records", NEW b \in Contents, NEW h \in Contents, NEW o \in Nat,
         NEW high \in BOOLEAN, ~high => o = 0 /\ b = h,
         coe' = [at |-> coe.at, record |-> coe.record + 1, buffer |-> b, address_offset |-> o,
                 rows |-> coe.rows, hex |-> h, high |-> high]
  PROVE  HexInv'
<1>1. coe' \in CoeStates
  BY DEF HexInv, CoeStates
<1>2. /\ coe'.rows = <<>> /\ coe'.at = "records" /\ coe'.buffer = b /\ coe'.hex = h
      /\ coe'.address_offset = o /\ (coe'.high <=> high)
  BY DEF HexInv, CoeStates
<1>3. Len(<<>>) = 0 /\ 0 * RowBytes <= MaxAddress + 1
  BY HexAssumption
<1> QED BY <1>1, <1>2, <1>3 DEF HexInv

LEMMA RecordsStep == ASSUME HexInv, Records PROVE HexInv'
<1>1. coe.at = "records" /\ coe \in CoeStates
  BY DEF Records, HexInv
<1>2. /\ coe.record \in Nat /\ coe.buffer \in Contents /\ coe.hex \in Contents
      /\ coe.address_offset \in Nat /\ coe.high \in BOOLEAN
      /\ ~coe.high => coe.address_offset = 0 /\ coe.buffer = coe.hex
  BY <1>1 DEF CoeStates, HexInv
<1>3. MaxAddress \in Nat /\ MaxCount \in Nat
  BY HexAssumption
<1>4. ASSUME NEW addr16 \in Bytes, NEW n \in 0..MaxCount, DataRecord(addr16, n) PROVE HexInv'
  <2> DEFINE address == coe.address_offset + addr16
             b == IF address <= MaxAddress THEN Buffered(address, n) ELSE coe.buffer
             h == [a \in Bytes |-> IF a \in addr16..(addr16 + n - 1)
                                   THEN DataByte(a - addr16) ELSE coe.hex[a]]
  <2>1. \A i \in Nat : DataByte(i) \in Nat
    BY <1>2, <1>3 DEF DataByte
  <2>2. Buffered(address, n) \in Contents
    <3> SUFFICES ASSUME NEW a \in Bytes
                 PROVE  (IF a \in address..(address + n - 1) THEN DataByte(a - address)
                         ELSE coe.buffer[a]) \in Nat
      BY DEF Buffered, Contents
    <3>1. a \in address..(address + n - 1) => a - address \in Nat
      BY <1>2, <1>3 DEF Bytes
    <3> QED BY <1>2, <2>1, <3>1 DEF Contents
  <2>3. b \in Contents /\ h \in Contents
    <3>1. ASSUME NEW a \in Bytes
          PROVE  (IF a \in addr16..(addr16 + n - 1) THEN DataByte(a - addr16)
                  ELSE coe.hex[a]) \in Nat
      <4>1. a \in addr16..(addr16 + n - 1) => a - addr16 \in Nat
        BY <1>3 DEF Bytes
      <4> QED BY <1>2, <2>1, <3>1, <4>1 DEF Contents
    <3> QED BY <1>2, <2>2, <3>1 DEF Contents
  <2>4. ASSUME ~coe.high PROVE b = h
    <3>1. address = addr16 /\ addr16 <= MaxAddress
      BY <1>2, <1>3, <2>4 DEF Bytes
    <3> QED BY <1>2, <2>4, <3>1 DEF Buffered
  <2>5. coe' = [coe EXCEPT !.record = coe.record + 1, !.buffer = b, !.hex = h]
    BY <1>4 DEF DataRecord
  <2> HIDE DEF b, h
  <2>6. coe' = [at |-> coe.at, record |-> coe.record + 1, buffer |-> b,
                address_offset |-> coe.address_offset, rows |-> coe.rows, hex |-> h,
                high |-> coe.high]
    BY <1>1, <2>5 DEF CoeStates
  <2> QED BY <1>1, <1>2, <2>3, <2>4, <2>6, RecordRead
<1>5. ASSUME NEW high \in 0..1, HighAddress(high) PROVE HexInv'
  <2>1. coe' = [at |-> coe.at, record |-> coe.record + 1, buffer |-> coe.buffer,
                address_offset |-> high, rows |-> coe.rows, hex |-> coe.hex,
                high |-> coe.high \/ high > 0]
    BY <1>1, <1>5 DEF HighAddress, CoeStates
  <2>2. PICK w \in BOOLEAN : w <=> coe.high \/ high > 0
    OBVIOUS
  <2>3. coe' = [at |-> coe.at, record |-> coe.record + 1, buffer |-> coe.buffer,
                address_offset |-> high, rows |-> coe.rows, hex |-> coe.hex, high |-> w]
    BY <1>2, <2>1, <2>2
  <2>4. ~w => high = 0 /\ coe.buffer = coe.hex
    BY <1>2, <2>2
  <2>5. high \in Nat
    OBVIOUS
  <2> QED BY <1>1, <1>2, <2>2, <2>3, <2>4, <2>5, RecordRead
<1>6. ASSUME OtherRecord PROVE HexInv'
  <2>1. coe' = [at |-> coe.at, record |-> coe.record + 1, buffer |-> coe.buffer,
                address_offset |-> coe.address_offset, rows |-> coe.rows, hex |-> coe.hex,
                high |-> coe.high]
    BY <1>1, <1>6 DEF OtherRecord, CoeStates
  <2> QED BY <1>1, <1>2, <2>1, RecordRead
<1> QED BY <1>4, <1>5, <1>6 DEF Records

LEMMA WriteRowStep == ASSUME HexInv, WriteRow PROVE HexInv'
<1>1. coe \in CoeStates /\ coe.at = "rows" /\ coe.rows \in Seq(Row) /\ coe.buffer \in Contents
  BY DEF HexInv, WriteRow, CoeStates
<1>2. PICK n \in Nat : n = Len(coe.rows)
  BY <1>1, LenProperties
<1>3. RowBytes \in Nat \ {0} /\ MaxAddress \in Nat
  BY HexAssumption
<1>4. PICK i \in Nat : i = n * RowBytes
  BY <1>3
<1> DEFINE row == [j \in 1..RowBytes |-> coe.buffer[i + (j - 1)]]
<1>5. i <= MaxAddress /\ coe' = [coe EXCEPT !.rows = Append(coe.rows, row)]
  BY <1>1, <1>2, <1>4 DEF WriteRow
<1>6. (n + 1) * RowBytes <= MaxAddress + 1 /\ (n + 1) * RowBytes = i + RowBytes
  BY <1>3, <1>4, <1>5, RowsEndTogether
<1>7. row \in Row
  <2> SUFFICES ASSUME NEW j \in 1..RowBytes PROVE coe.buffer[i + (j - 1)] \in Nat
    BY DEF Row
  <2>1. i + (j - 1) \in Bytes
    BY <1>3, <1>6 DEF Bytes
  <2> QED BY <1>1, <2>1 DEF Contents
<1> DEFINE rows == Append(coe.rows, row)
<1>8. row = RowAt(n + 1)
  <2>1. n + 1 - 1 = n
    OBVIOUS
  <2> QED BY <1>4, <2>1 DEF RowAt
<1> HIDE DEF row
<1>9. /\ rows \in Seq(Row) /\ Len(rows) = n + 1 /\ rows[n + 1] = row
      /\ \A r \in 1..n : rows[r] = coe.rows[r]
  BY <1>1, <1>2, <1>7, AppendProperties
<1> HIDE DEF rows
<1>10. /\ coe' \in CoeStates /\ coe'.rows = rows /\ coe'.buffer = coe.buffer /\ coe'.hex = coe.hex
       /\ coe'.address_offset = coe.address_offset /\ (coe'.high <=> coe.high) /\ coe'.at = "rows"
  BY <1>1, <1>5, <1>9 DEF CoeStates, rows
<1>11. ASSUME NEW r \in 1..(n + 1) PROVE rows[r] = RowAt(r)
  <2>1. CASE r \in 1..n
    BY <1>2, <1>9, <2>1 DEF HexInv
  <2>2. CASE r = n + 1
    BY <1>8, <1>9, <2>2
  <2> QED BY <2>1, <2>2
<1>12. \A r \in 1..Len(coe'.rows) : coe'.rows[r] = RowAt(r)'
  <2>1. \A r : RowAt(r)' = RowAt(r)
    BY <1>10 DEF RowAt
  <2> QED BY <1>9, <1>10, <1>11, <2>1
<1> QED BY <1>6, <1>9, <1>10, <1>12 DEF HexInv

LEMMA HexStep == HexInv /\ [HexNext]_coe => HexInv'
<1> SUFFICES ASSUME HexInv, [HexNext]_coe PROVE HexInv'
  OBVIOUS
<1>1. CASE EndOfFile
  <2>1. coe' = [coe EXCEPT !.at = "rows"]
    BY <1>1 DEF EndOfFile
  <2>2. /\ coe' \in CoeStates /\ coe'.rows = coe.rows /\ coe'.buffer = coe.buffer
        /\ coe'.hex = coe.hex /\ coe'.address_offset = coe.address_offset
        /\ (coe'.high <=> coe.high) /\ coe'.at = "rows"
    BY <2>1 DEF HexInv, CoeStates
  <2> QED BY <2>2 DEF HexInv, RowAt
<1>2. CASE UNCHANGED coe
  BY <1>2 DEF HexInv, RowAt
<1> QED BY <1>1, <1>2, RecordsStep, WriteRowStep DEF HexNext

(* Of a file without addresses above 64 KB, the tool's rows end to end are *)
(* the bytes, for every size of the memory and width of a row that         *)
(* divides it, and however many records the file has.                      *)
THEOREM RowsHoldFile == HexSpec => []CoeHoldsHex
<1>1. HexInv => CoeHoldsHex
  <2> SUFFICES ASSUME HexInv, Len(coe.rows) * RowBytes > MaxAddress, ~coe.high PROVE CoeHoldsHex
    BY DEF CoeHoldsHex
  <2>1. coe.rows \in Seq(Row)
    BY DEF HexInv, CoeStates
  <2>2. PICK n \in Nat : n = Len(coe.rows)
    BY <2>1, LenProperties
  <2>3. DOMAIN coe.rows = 1..n
    BY <2>1, <2>2, LenProperties
  <2>4. PICK i \in Nat : i = Len(coe.rows) * RowBytes
    BY <2>2, HexAssumption
  <2>5. i = MaxAddress + 1
    BY <2>4, HexAssumption DEF HexInv
  <2>6. \A r \in 1..n : coe.rows[r] = [j \in 1..RowBytes |-> coe.hex[(r - 1) * RowBytes + (j - 1)]]
    BY <2>2 DEF HexInv, RowAt
  <2> QED BY <2>3, <2>4, <2>5, <2>6 DEF CoeHoldsHex
<1> QED BY InitHex, HexStep, <1>1, PTL DEF HexSpec
-----------------------------------------------------------------------------
(* The loader.  Its inductive invariant is of every address, loaded or     *)
(* not: the first region that holds it has at its cell the byte that was   *)
(* last sent there, or zero.  A new region is searched after those before  *)
(* it, so what it overlaps is found where it was.                          *)

(* A set of numbers has a least one, so that Min is that.                  *)
LEMMA LeastOf ==
  ASSUME NEW T \in SUBSET Nat, T # {}
  PROVE Min(T) \in T /\ \A k \in T : Min(T) <= k
<1>1. PICK m \in T : \A y \in T : ~ (<<y, m>> \in OpToRel(<, Nat))
  BY NatLessThanWellFounded, WFMin
<1>2. ASSUME NEW k \in T PROVE m <= k
  <2>1. SUFFICES ASSUME k < m PROVE FALSE
    OBVIOUS
  <2>2. <<k, m>> \in OpToRel(<, Nat)
    BY <2>1 DEF OpToRel
  <2> QED BY <1>1, <2>2
<1>3. \E x \in T : \A y \in T : x <= y
  BY <1>2
<1> QED BY <1>3 DEF Min

LEMMA Stays == ASSUME NEW x \in Nat, x < Space PROVE x % Space = x
  BY SpaceAssumption

LEMMA Reduced == ASSUME NEW x \in Int PROVE x % Space \in 0..(Space - 1)
  BY SpaceAssumption

LEMMA Wraps == ASSUME NEW x \in Nat, x >= Space, x < 2 * Space PROVE x % Space = x - Space
  BY SpaceAssumption

(* A size is rounded up to no more than there are addresses.               *)
LEMMA RoundedUp ==
  ASSUME NEW len \in Nat, len < Space
  PROVE len + ((-len) % Align) \in len..Space
<1> DEFINE r == (-len) % Align
           p == (-len) \div Align
           q == Space \div Align
<1>1. Align \in Nat /\ Align > 0 /\ Space \in Nat
  BY LineAssumption, SpaceAssumption
<1>2. r \in 0..(Align - 1) /\ p \in Int /\ -len = (p * Align) + r
  BY <1>1
<1>3. q \in Int /\ Space = q * Align
  BY <1>1, LineAssumption
<1> SUFFICES len + r \in len..Space
  OBVIOUS
<1> HIDE DEF r, p, q
<1>4. SUFFICES ASSUME len + r > Space PROVE FALSE
  BY <1>1, <1>2
<1>5. len + r = (-p) * Align
  BY <1>1, <1>2
<1>6. CASE -p <= q
  <2>1. (-p) * Align <= q * Align
    BY <1>1, <1>2, <1>3, <1>6
  <2> QED BY <2>1, <1>4, <1>3, <1>5, <1>2, <1>1
<1>7. CASE -p >= q + 1
  <2>1. (-p) * Align >= (q + 1) * Align
    BY <1>1, <1>2, <1>3, <1>7
  <2>2. (q + 1) * Align = (q * Align) + Align
    BY <1>1, <1>3
  <2>3. len + r >= Space + Align
    BY <2>1, <2>2, <1>5, <1>3, <1>2, <1>1
  <2> QED BY <2>3, <1>2, <1>1
<1> QED BY <1>6, <1>7, <1>2, <1>3

-----------------------------------------------------------------------------
Regions == [base : Nat, size : Nat, array : Nat]
Arrays == UNION {[0..(size - 1) -> Int] : size \in Nat}

(* Instruction and data side share one table, region k has array k, and no *)
(* region reaches the end of the address space.                            *)
RegionsFit(regions, arrays) ==
    /\ regions \in Seq(Regions) /\ arrays \in Seq(Arrays)
    /\ Len(arrays) = Len(regions)
    /\ \A k \in 1..Len(regions) :
          /\ regions[k].array = k
          /\ regions[k].base + regions[k].size < Space
          /\ arrays[k] \in [0..(regions[k].size - 1) -> Int]

(* The byte that an access to a valid address finds.                       *)
First(regions, addr) == Min(Holding(regions, addr))
ByteIn(regions, arrays, addr) ==
    arrays[First(regions, addr)][addr - regions[First(regions, addr)].base]

LEMMA RegionIs ==
  ASSUME NEW regions, NEW arrays, RegionsFit(regions, arrays), NEW k \in 1..Len(regions)
  PROVE /\ regions[k] \in Regions
        /\ regions[k].base \in Nat /\ regions[k].size \in Nat
        /\ k \in DOMAIN regions
<1>1. regions \in Seq(Regions)
  BY DEF RegionsFit
<1>2. regions[k] \in Regions
  BY <1>1, ElementOfSeq
<1>3. k \in DOMAIN regions
  BY <1>1, LenProperties
<1> QED BY <1>2, <1>3 DEF Regions

LEMMA Matches ==
  ASSUME NEW region, region.base \in Nat, region.size \in Nat,
         region.base + region.size < Space, NEW addr \in Int
  PROVE match(region, addr) <=> (region.base <= addr /\ addr < region.base + region.size)
<1>1. (region.base + region.size) % Space = region.base + region.size
  <2>1. region.base + region.size \in Nat
    OBVIOUS
  <2> QED BY <2>1, Stays
<1> QED BY <1>1 DEF match

LEMMA HoldingIs ==
  ASSUME NEW regions, NEW arrays, RegionsFit(regions, arrays), NEW addr \in Int
  PROVE /\ Holding(regions, addr) \in SUBSET Nat
        /\ Holding(regions, addr) \subseteq 1..Len(regions)
        /\ \A k \in 1..Len(regions) :
              k \in Holding(regions, addr) <=>
                 (regions[k].base <= addr /\ addr < regions[k].base + regions[k].size)
<1>1. PICK n \in Nat : n = Len(regions) /\ DOMAIN regions = 1..n
  BY LenProperties DEF RegionsFit
<1>2. ASSUME NEW k \in 1..n
      PROVE match(regions[k], addr) <=>
               (regions[k].base <= addr /\ addr < regions[k].base + regions[k].size)
  <2>1. regions[k].base \in Nat /\ regions[k].size \in Nat
    BY <1>1, RegionIs
  <2>2. regions[k].base + regions[k].size < Space
    BY <1>1 DEF RegionsFit
  <2> QED BY <2>1, <2>2, Matches
<1>3. Holding(regions, addr) = {k \in 1..n : match(regions[k], addr)}
  BY <1>1 DEF Holding
<1>4. 1..n \subseteq Nat
  OBVIOUS
<1>5. Holding(regions, addr) \in SUBSET Nat /\ Holding(regions, addr) \subseteq 1..n
  BY <1>3, <1>4
<1>6. \A k \in 1..n : k \in Holding(regions, addr) <=> match(regions[k], addr)
  BY <1>3
<1> QED BY <1>1, <1>2, <1>5, <1>6

LEMMA FirstIs ==
  ASSUME NEW regions, NEW arrays, RegionsFit(regions, arrays), NEW addr \in Int,
         Holding(regions, addr) # {}
  PROVE /\ First(regions, addr) \in 1..Len(regions)
        /\ First(regions, addr) \in Holding(regions, addr)
        /\ \A k \in Holding(regions, addr) : First(regions, addr) <= k
<1> DEFINE T == Holding(regions, addr)
<1>1. T \in SUBSET Nat /\ T \subseteq 1..Len(regions)
  BY HoldingIs
<1>2. T # {}
  OBVIOUS
<1> HIDE DEF T
<1>3. Min(T) \in T /\ \A k \in T : Min(T) <= k
  BY <1>1, <1>2, LeastOf
<1> QED BY <1>1, <1>3 DEF First, T

(* An access reads what is found, and a cell is of one address.            *)
LEMMA ReadsFound ==
  ASSUME NEW regions, NEW arrays, RegionsFit(regions, arrays), NEW addr \in Int,
         Holding(regions, addr) # {}, NEW m, m.arrays = arrays
  PROVE /\ read(m, regions, addr) = ByteIn(regions, arrays, addr)
        /\ Cell(regions, addr) = <<First(regions, addr), addr - regions[First(regions, addr)].base>>
        /\ regions[First(regions, addr)].base \in Nat
        /\ regions[First(regions, addr)].base <= addr
        /\ addr < regions[First(regions, addr)].base + regions[First(regions, addr)].size
<1> DEFINE k == First(regions, addr)
<1>1. k \in 1..Len(regions) /\ k \in Holding(regions, addr)
  BY FirstIs
<1>2. regions[k].array = k
  BY <1>1 DEF RegionsFit
<1>3. RegionOf(regions, addr) = regions[k]
  BY DEF RegionOf, First
<1>4. /\ regions[k].base \in Nat /\ regions[k].base <= addr
      /\ addr < regions[k].base + regions[k].size
  BY <1>1, RegionIs, HoldingIs
<1>5. read(m, regions, addr) = ByteIn(regions, arrays, addr)
  BY <1>2, <1>3 DEF read, region_read, ByteIn
<1>6. Cell(regions, addr) = <<k, addr - regions[k].base>>
  BY <1>2, <1>3 DEF Cell, get_array
<1> QED BY <1>4, <1>5, <1>6

LEMMA SameFirst ==
  ASSUME NEW regions, NEW arrays, RegionsFit(regions, arrays), NEW a \in Int, NEW b \in Int,
         Holding(regions, a) # {}, Holding(regions, b) # {},
         Cell(regions, a) = Cell(regions, b)
  PROVE a = b
<1>1. DEFINE m == [arrays |-> arrays]
<1>2. m.arrays = arrays
  OBVIOUS
<1> HIDE DEF m
<1>3. /\ Cell(regions, a) = <<First(regions, a), a - regions[First(regions, a)].base>>
      /\ regions[First(regions, a)].base \in Nat
  BY <1>2, ReadsFound
<1>4. Cell(regions, b) = <<First(regions, b), b - regions[First(regions, b)].base>>
  BY <1>2, ReadsFound
<1> DEFINE j == First(regions, a)
           k == First(regions, b)
           x == regions[j].base
<1>5. <<j, a - x>> = <<k, b - regions[k].base>>
  BY <1>3, <1>4
<1>6. x \in Nat
  BY <1>3
<1> HIDE DEF j, k
<1>7. j = k /\ a - x = b - regions[k].base
  BY <1>5
<1>8. a - x = b - x
  BY <1>7
<1> HIDE DEF x
<1> QED BY <1>6, <1>8

-----------------------------------------------------------------------------
LEMMA ValidIs ==
  ASSUME NEW regions, NEW arrays, RegionsFit(regions, arrays), NEW addr \in 0..(Space - 1)
  PROVE valid_addr(regions, addr) <=> Holding(regions, addr) # {}
<1>1. addr \in Nat /\ addr < Space
  BY SpaceAssumption
<1>2. addr % Space = addr
  BY <1>1, Stays
<1> QED BY <1>2 DEF valid_addr

(* The last address is in no region, so that the search for a free one     *)
(* ends.                                                                   *)
LEMMA LastIsFree ==
  ASSUME NEW regions, NEW arrays, RegionsFit(regions, arrays)
  PROVE ~valid_addr(regions, Space - 1)
<1>1. Space - 1 \in 0..(Space - 1)
  BY SpaceAssumption
<1>2. ASSUME NEW k \in 1..Len(regions)
      PROVE /\ regions[k].base + regions[k].size < Space
            /\ regions[k].base + regions[k].size \in Nat
  <2>1. regions[k].base \in Nat /\ regions[k].size \in Nat
    BY RegionIs
  <2>2. regions[k].base + regions[k].size < Space
    BY DEF RegionsFit
  <2> QED BY <2>1, <2>2
<1>3. \A k \in 1..Len(regions) : k \notin Holding(regions, Space - 1)
  <2> SUFFICES ASSUME NEW k \in 1..Len(regions), k \in Holding(regions, Space - 1) PROVE FALSE
    OBVIOUS
  <2>1. Space - 1 < regions[k].base + regions[k].size
    BY <1>1, HoldingIs
  <2>2. regions[k].base + regions[k].size < Space /\ regions[k].base + regions[k].size \in Nat
    BY <1>2
  <2> QED BY <2>1, <2>2, SpaceAssumption
<1>4. Holding(regions, Space - 1) \subseteq 1..Len(regions)
  BY <1>1, HoldingIs
<1>5. Holding(regions, Space - 1) = {}
  BY <1>3, <1>4
<1> QED BY <1>1, <1>5, ValidIs

LEMMA SkipIs ==
  ASSUME NEW regions, NEW arrays, RegionsFit(regions, arrays), NEW base \in 0..(Space - 1)
  PROVE /\ SkipTaken(regions, base) \in 0..(Space - 1)
        /\ Holding(regions, SkipTaken(regions, base)) = {}
<1> DEFINE T == {k \in 0..Space : ~valid_addr(regions, base + k)}
<1>1. T \in SUBSET Nat
  BY SpaceAssumption
<1>2. T # {}
  <2>1. (Space - 1) - base \in 0..Space /\ base + ((Space - 1) - base) = Space - 1
    BY SpaceAssumption
  <2>2. ~valid_addr(regions, base + ((Space - 1) - base))
    BY <2>1, LastIsFree
  <2> QED BY <2>1, <2>2
<1>3. Min(T) \in T
  BY <1>1, <1>2, LeastOf
<1>4. ~valid_addr(regions, base + Min(T)) /\ Min(T) \in Nat
  BY <1>1, <1>3
<1>5. SkipTaken(regions, base) = (base + Min(T)) % Space
  BY DEF SkipTaken
<1> HIDE DEF T
<1>6. (base + Min(T)) % Space \in 0..(Space - 1)
  BY <1>4, Reduced
<1> QED BY <1>4, <1>5, <1>6 DEF valid_addr

LEMMA CutIs ==
  ASSUME NEW regions, NEW arrays, RegionsFit(regions, arrays), NEW base \in 0..(Space - 1),
         Holding(regions, base) = {}, NEW size \in Nat \ {0}
  PROVE CutTaken(regions, base, size) \in 1..size
<1> DEFINE T == {k \in 0..size : ~valid_addr(regions, base + size - k - 1)}
<1>1. T \in SUBSET Nat
  OBVIOUS
<1>2. ~valid_addr(regions, base)
  BY ValidIs
<1>3. size - 1 \in 0..size /\ base + size - (size - 1) - 1 = base
  OBVIOUS
<1>4. size - 1 \in T
  BY <1>2, <1>3
<1>5. CutTaken(regions, base, size) = size - Min(T)
  BY DEF CutTaken
<1> HIDE DEF T
<1>6. Min(T) \in T /\ Min(T) <= size - 1
  BY <1>1, <1>4, LeastOf
<1>7. Min(T) \in Nat
  BY <1>1, <1>6
<1> QED BY <1>5, <1>6, <1>7

-----------------------------------------------------------------------------
Zeros(size) == [o \in 0..(size - 1) |-> 0]

(* With a region more, and its array cleared.                              *)
Grown(regions, arrays, regions2, arrays2, base, size) ==
    /\ base \in Nat /\ size \in Nat /\ size > 0 /\ base + size < Space
    /\ regions2 = Append(regions, tb_mem_region(base, size, Len(arrays) + 1))
    /\ arrays2 \in Seq(Arrays) /\ Len(arrays2) = Len(arrays) + 1
    /\ \A k \in 1..Len(arrays) : arrays2[k] = arrays[k]
    /\ arrays2[Len(arrays) + 1] = Zeros(size)

LEMMA GrownFits ==
  ASSUME NEW regions, NEW arrays, RegionsFit(regions, arrays), NEW regions2, NEW arrays2,
         NEW base, NEW size, Grown(regions, arrays, regions2, arrays2, base, size)
  PROVE /\ RegionsFit(regions2, arrays2)
        /\ Len(regions2) = Len(regions) + 1
        /\ \A k \in 1..Len(regions) : regions2[k] = regions[k]
        /\ regions2[Len(regions) + 1].base = base
        /\ regions2[Len(regions) + 1].size = size
        /\ regions2[Len(regions) + 1].array = Len(regions) + 1
<1>1. PICK n \in Nat : n = Len(regions) /\ n = Len(arrays)
  BY LenProperties DEF RegionsFit
<1> DEFINE region == [base |-> base, size |-> size, array |-> n + 1]
<1>2. region \in Regions /\ region.base = base /\ region.size = size /\ region.array = n + 1
  BY DEF Grown, Regions
<1>3. regions2 = Append(regions, region)
  BY <1>1 DEF Grown, tb_mem_region
<1> HIDE DEF region
<1>4. /\ regions2 \in Seq(Regions) /\ Len(regions2) = n + 1
      /\ \A k \in 1..n : regions2[k] = regions[k]
      /\ regions2[n + 1] = region
  BY <1>1, <1>2, <1>3, AppendProperties DEF RegionsFit
<1>5. Zeros(size) \in [0..(size - 1) -> Int]
  BY DEF Zeros
<1>6. ASSUME NEW k \in 1..(n + 1)
      PROVE /\ regions2[k].array = k
            /\ regions2[k].base + regions2[k].size < Space
            /\ arrays2[k] \in [0..(regions2[k].size - 1) -> Int]
  <2>1. CASE k \in 1..n
    <3>1. regions2[k] = regions[k] /\ arrays2[k] = arrays[k]
      BY <1>1, <1>4, <2>1 DEF Grown
    <3> QED BY <1>1, <2>1, <3>1 DEF RegionsFit
  <2>2. CASE k = n + 1
    <3>1. arrays2[n + 1] = Zeros(size) /\ base + size < Space
      BY <1>1 DEF Grown
    <3> QED BY <1>2, <1>4, <1>5, <2>2, <3>1
  <2> QED BY <2>1, <2>2
<1>7. RegionsFit(regions2, arrays2)
  BY <1>1, <1>4, <1>6 DEF RegionsFit, Grown
<1> QED BY <1>1, <1>2, <1>4, <1>7

(* What was found is found again, and where there was nothing is zero.     *)
LEMMA GrownFinds ==
  ASSUME NEW regions, NEW arrays, RegionsFit(regions, arrays), NEW regions2, NEW arrays2,
         NEW base, NEW size, Grown(regions, arrays, regions2, arrays2, base, size), NEW addr \in Int
  PROVE /\ Holding(regions, addr) # {} =>
              /\ Holding(regions2, addr) # {}
              /\ ByteIn(regions2, arrays2, addr) = ByteIn(regions, arrays, addr)
        /\ (Holding(regions, addr) = {} /\ Holding(regions2, addr) # {}) =>
              /\ First(regions2, addr) = Len(arrays) + 1
              /\ ByteIn(regions2, arrays2, addr) = 0
<1>1. PICK n \in Nat : n = Len(regions) /\ n = Len(arrays)
  BY LenProperties DEF RegionsFit
<1>2. /\ RegionsFit(regions2, arrays2) /\ Len(regions2) = n + 1
      /\ \A k \in 1..n : regions2[k] = regions[k]
      /\ regions2[n + 1].base = base /\ regions2[n + 1].size = size
  <2>1. /\ RegionsFit(regions2, arrays2) /\ Len(regions2) = Len(regions) + 1
        /\ \A k \in 1..Len(regions) : regions2[k] = regions[k]
        /\ regions2[Len(regions) + 1].base = base /\ regions2[Len(regions) + 1].size = size
    BY GrownFits
  <2> QED BY <1>1, <2>1
<1>3. \A k \in 1..n : k \in Holding(regions2, addr) <=> k \in Holding(regions, addr)
  <2> SUFFICES ASSUME NEW k \in 1..n
               PROVE k \in Holding(regions2, addr) <=> k \in Holding(regions, addr)
    OBVIOUS
  <2>1. k \in Holding(regions, addr) <=>
           (regions[k].base <= addr /\ addr < regions[k].base + regions[k].size)
    BY <1>1, HoldingIs
  <2>2. k \in 1..(n + 1)
    OBVIOUS
  <2>3. k \in Holding(regions2, addr) <=>
           (regions2[k].base <= addr /\ addr < regions2[k].base + regions2[k].size)
    BY <1>2, <2>2, HoldingIs
  <2> QED BY <1>2, <2>1, <2>3
<1>4. Holding(regions, addr) \subseteq 1..n /\ Holding(regions2, addr) \subseteq 1..(n + 1)
  BY <1>1, <1>2, HoldingIs
<1>5. CASE Holding(regions, addr) # {}
  <2>1. Holding(regions2, addr) # {}
    BY <1>3, <1>4, <1>5
  <2> DEFINE j == First(regions, addr)
             k == First(regions2, addr)
  <2>2. j \in 1..n /\ j \in Holding(regions, addr) /\ \A i \in Holding(regions, addr) : j <= i
    BY <1>1, <1>5, FirstIs
  <2>3. k \in 1..(n + 1) /\ k \in Holding(regions2, addr) /\ \A i \in Holding(regions2, addr) : k <= i
    BY <1>2, <2>1, FirstIs
  <2> HIDE DEF j, k
  <2>4. j \in Holding(regions2, addr)
    BY <1>3, <2>2
  <2>5. k <= j
    BY <2>3, <2>4
  <2>6. k \in 1..n
    BY <2>2, <2>3, <2>5
  <2>7. k \in Holding(regions, addr)
    BY <1>3, <2>3, <2>6
  <2>8. j = k
    BY <2>2, <2>3, <2>5, <2>7
  <2>9. regions2[k] = regions[k] /\ arrays2[k] = arrays[k]
    BY <1>1, <1>2, <2>6 DEF Grown
  <2>10. ByteIn(regions2, arrays2, addr) = ByteIn(regions, arrays, addr)
    <3>1. ByteIn(regions2, arrays2, addr) = arrays2[k][addr - regions2[k].base]
      BY DEF ByteIn, k
    <3>2. ByteIn(regions, arrays, addr) = arrays[j][addr - regions[j].base]
      BY DEF ByteIn, j
    <3> QED BY <2>8, <2>9, <3>1, <3>2
  <2> QED BY <1>5, <2>1, <2>10
<1>6. CASE Holding(regions, addr) = {} /\ Holding(regions2, addr) # {}
  <2> DEFINE k == First(regions2, addr)
  <2>1. k \in 1..(n + 1) /\ k \in Holding(regions2, addr)
    BY <1>2, <1>6, FirstIs
  <2>2. k = n + 1
    BY <1>3, <1>6, <2>1
  <2>3. base <= addr /\ addr < base + size
    BY <1>2, <2>1, <2>2, HoldingIs
  <2>4. ByteIn(regions2, arrays2, addr) = Zeros(size)[addr - base]
    <3>1. ByteIn(regions2, arrays2, addr) = arrays2[k][addr - regions2[k].base]
      BY DEF ByteIn
    <3>2. arrays2[n + 1] = Zeros(size)
      BY <1>1 DEF Grown
    <3> HIDE DEF k
    <3> QED BY <1>2, <2>2, <3>1, <3>2
  <2>5. addr - base \in 0..(size - 1)
    BY <2>3 DEF Grown
  <2>6. Zeros(size)[addr - base] = 0
    BY <2>5 DEF Zeros
  <2> QED BY <1>1, <1>6, <2>2, <2>4, <2>6
<1> QED BY <1>5, <1>6

LEMMA Added ==
  ASSUME NEW regions, NEW region
  PROVE \/ add_region(regions, region) = regions
        \/ add_region(regions, region) = Append(regions, region)
BY DEF add_region

(* A region added on one side is added on the other.                       *)
LEMMA AddedTwice ==
  ASSUME NEW regions, NEW region, NEW other, other.base = region.base, other.size = region.size,
         NEW more, more = Append(regions, region), more # regions,
         add_region(regions, region) = more
  PROVE add_region(regions, other) = Append(regions, other)
BY DEF add_region

(* The arrays with one more, which memset has cleared.                     *)
Cleared(arrays, size) ==
    [Append(arrays, [o \in 0..(size - 1) |-> Unset]) EXCEPT ![Len(arrays) + 1] = memset(@, size)]

LEMMA ClearedIs ==
  ASSUME NEW arrays \in Seq(Arrays), NEW size \in Nat
  PROVE /\ Cleared(arrays, size) \in Seq(Arrays) /\ Len(Cleared(arrays, size)) = Len(arrays) + 1
        /\ \A k \in 1..Len(arrays) : Cleared(arrays, size)[k] = arrays[k]
        /\ Cleared(arrays, size)[Len(arrays) + 1] = Zeros(size)
<1> DEFINE more == Append(arrays, [o \in 0..(size - 1) |-> Unset])
           cleared == Cleared(arrays, size)
<1>0. PICK n \in Nat : n = Len(arrays)
  BY LenProperties
<1> DEFINE new == [o \in 0..(size - 1) |-> Unset]
<1>1. new \in Arrays
  <2>1. new \in [0..(size - 1) -> Int]
    BY DEF Unset
  <2> QED BY <2>1 DEF Arrays
<1>2. memset(new, size) = Zeros(size)
  BY DEF memset, Zeros
<1>3. Zeros(size) \in Arrays
  <2>1. Zeros(size) \in [0..(size - 1) -> Int]
    BY DEF Zeros
  <2> QED BY <2>1 DEF Arrays
<1>10. cleared = [more EXCEPT ![n + 1] = memset(@, size)]
  BY <1>0 DEF Cleared
<1> HIDE DEF new, cleared
<1>4. more = Append(arrays, new)
  BY DEF new
<1> HIDE DEF more
<1>5. /\ more \in Seq(Arrays) /\ Len(more) = n + 1 /\ more[n + 1] = new
      /\ \A k \in 1..n : more[k] = arrays[k]
  BY <1>0, <1>1, <1>4, AppendProperties
<1>6. cleared = [more EXCEPT ![n + 1] = Zeros(size)]
  BY <1>2, <1>5, <1>10
<1>7. n + 1 \in 1..Len(more)
  BY <1>5
<1>8. /\ cleared \in Seq(Arrays) /\ Len(cleared) = n + 1
      /\ cleared[n + 1] = Zeros(size)
      /\ \A k \in 1..(n + 1) : k # n + 1 => cleared[k] = more[k]
  <2> DEFINE except == [more EXCEPT ![n + 1] = Zeros(size)]
  <2>1. /\ except \in Seq(Arrays) /\ Len(except) = Len(more)
        /\ \A k \in 1..Len(more) : except[k] = IF k = n + 1 THEN Zeros(size) ELSE more[k]
    <3> HIDE DEF except
    <3>1. except = [more EXCEPT ![n + 1] = Zeros(size)]
      BY DEF except
    <3>2. more \in Seq(Arrays) /\ Zeros(size) \in Arrays /\ n + 1 \in 1..Len(more)
      BY <1>3, <1>5, <1>7
    <3> QED BY <3>1, <3>2, ExceptSeq
  <2>2. cleared = except
    BY <1>6
  <2> HIDE DEF except
  <2> QED BY <1>5, <1>7, <2>1, <2>2
<1>9. \A k \in 1..n : k \in 1..(n + 1) /\ k # n + 1
  OBVIOUS
<1> QED BY <1>0, <1>5, <1>8, <1>9 DEF cleared

(* The room of a section is a region more on both sides, whatever was      *)
(* skipped and cut.                                                        *)
LEMMA RoomIs ==
  ASSUME NEW regions, NEW arrays, RegionsFit(regions, arrays), NEW m,
         m.icache = regions, m.dcache = regions, m.arrays = arrays,
         NEW addr \in Nat, NEW len \in Nat, len > 0, addr + len < Space,
         NEW room \in create_memory(m, addr, len)
  PROVE \E base, size, regions2, arrays2 :
           /\ Grown(regions, arrays, regions2, arrays2, base, size)
           /\ room = [icache |-> regions2, dcache |-> regions2, arrays |-> arrays2]
<1>1. PICK n \in Nat : n = Len(regions) /\ n = Len(arrays)
  BY LenProperties DEF RegionsFit
<1> DEFINE start == addr - (addr % Align)
           rounded == len + ((-len) % Align)
           base == SkipTaken(regions, start)
           size == CutTaken(regions, base, rounded)
           region == tb_mem_region(base, size, n + 1)
           icache == add_region(regions, region)
           grown == IF icache = regions THEN arrays
                    ELSE Append(arrays, [o \in 0..(size - 1) |-> Unset])
           array == get_array(icache, base)
           dcache == add_region(regions, tb_mem_region(base, size, array))
           cleared == [grown EXCEPT ![array] = memset(@, size)]
<1>2. create_memory(m, addr, len) =
         IF ~valid_addr(icache, base) THEN {}
         ELSE {[icache |-> icache, dcache |-> dcache, arrays |-> cleared]}
  BY <1>1, ZenonT(60) DEF create_memory
<1>3. valid_addr(icache, base) /\ room = [icache |-> icache, dcache |-> dcache, arrays |-> cleared]
  BY <1>2
<1>4. start \in 0..(Space - 1)
  <2>1. addr % Align \in Nat /\ addr % Align <= addr
    BY LineAssumption
  <2> QED BY <2>1, SpaceAssumption
<1>5. rounded \in Nat /\ rounded > 0 /\ rounded <= Space
  BY RoundedUp, SpaceAssumption
<1> HIDE DEF start, rounded
<1>6. base \in 0..(Space - 1) /\ Holding(regions, base) = {}
  BY <1>4, SkipIs
<1> HIDE DEF base
<1>7. size \in 1..rounded
  BY <1>5, <1>6, CutIs
<1>8. size \in Nat /\ size > 0 /\ size <= Space /\ base \in Nat /\ base < Space
  BY <1>5, <1>6, <1>7, SpaceAssumption
<1> HIDE DEF size
<1>9. region.base = base /\ region.size = size /\ region.array = n + 1
  BY DEF tb_mem_region
<1>10. icache = Append(regions, region)
  <2>1. ~valid_addr(regions, base)
    BY <1>6, ValidIs
  <2>2. icache # regions
    BY <1>3, <2>1
  <2> QED BY <2>2, Added
<1>11. region \in Regions
  BY <1>8, <1>1 DEF tb_mem_region, Regions
<1> HIDE DEF region
<1>12. /\ icache \in Seq(Regions) /\ Len(icache) = n + 1 /\ icache[n + 1] = region
       /\ \A k \in 1..n : icache[k] = regions[k]
  BY <1>1, <1>10, <1>11, AppendProperties DEF RegionsFit
<1>13. icache # regions
  <2> HIDE DEF icache
  <2>1. SUFFICES ASSUME icache = regions PROVE FALSE
    OBVIOUS
  <2>2. n + 1 = n
    BY <1>1, <1>12, <2>1
  <2> QED BY <2>2
<1>14. grown = Append(arrays, [o \in 0..(size - 1) |-> Unset])
  BY <1>13
<1>15. dcache = Append(regions, tb_mem_region(base, size, array))
  <2> DEFINE other == tb_mem_region(base, size, array)
  <2>1. other.base = region.base /\ other.size = region.size
    BY <1>9 DEF tb_mem_region
  <2> HIDE DEF other, icache
  <2>2. add_region(regions, other) = Append(regions, other)
    BY <1>10, <1>13, <2>1, AddedTwice DEF icache
  <2> QED BY <2>2 DEF other
<1> HIDE DEF grown, dcache, array
<1>16. base + size < Space
  <2>1. base % Space = base
    BY <1>8, Stays
  <2>2. PICK k \in DOMAIN icache : match(icache[k], base)
    BY <1>3, <2>1 DEF valid_addr, Holding
  <2>3. k \in 1..(n + 1)
    BY <1>12, <2>2, LenProperties
  <2>4. ASSUME k \in 1..n PROVE FALSE
    <3>1. match(regions[k], base)
      BY <1>12, <2>2, <2>4
    <3>2. k \in DOMAIN regions
      BY <1>1, <2>4, LenProperties DEF RegionsFit
    <3> QED BY <1>6, <3>1, <3>2 DEF Holding
  <2>5. match(region, base)
    <3>1. k = n + 1
      BY <2>3, <2>4
    <3>2. icache[n + 1] = region
      BY <1>12
    <3> HIDE DEF icache
    <3> QED BY <2>2, <3>1, <3>2
  <2>6. base < (base + size) % Space
    BY <1>9, <2>5 DEF match
  <2>7. SUFFICES ASSUME base + size >= Space PROVE FALSE
    BY <1>8, SpaceAssumption
  <2>8. (base + size) % Space = (base + size) - Space
    <3>1. base + size \in Nat /\ base + size < 2 * Space
      BY <1>8, SpaceAssumption
    <3> QED BY <2>7, <3>1, Wraps
  <2> QED BY <1>8, <2>6, <2>8, SpaceAssumption
<1> DEFINE arrays2 == [grown EXCEPT ![n + 1] = memset(@, size)]
<1>17. /\ arrays2 \in Seq(Arrays) /\ Len(arrays2) = n + 1
       /\ \A k \in 1..n : arrays2[k] = arrays[k]
       /\ arrays2[n + 1] = Zeros(size)
  <2> HIDE DEF arrays2
  <2>1. arrays2 = Cleared(arrays, size)
    BY <1>1, <1>14 DEF arrays2, Cleared
  <2>2. arrays \in Seq(Arrays)
    BY DEF RegionsFit
  <2>3. /\ arrays2 \in Seq(Arrays) /\ Len(arrays2) = Len(arrays) + 1
        /\ \A k \in 1..Len(arrays) : arrays2[k] = arrays[k]
        /\ arrays2[Len(arrays) + 1] = Zeros(size)
    BY <1>8, <2>1, <2>2, ClearedIs
  <2> QED BY <1>1, <2>3
<1>18. Grown(regions, arrays, icache, arrays2, base, size)
  <2> HIDE DEF arrays2, icache
  <2> QED BY <1>1, <1>8, <1>10, <1>16, <1>17 DEF Grown, region
<1>19. array = n + 1
  <2> HIDE DEF arrays2, icache
  <2>1. First(icache, base) = n + 1
    <3>1. Holding(icache, base) # {}
      BY <1>3, <1>8, Stays DEF valid_addr
    <3> QED BY <1>1, <1>6, <1>8, <1>18, <3>1, GrownFinds
  <2>2. RegionOf(icache, base) = icache[n + 1]
    BY <2>1 DEF RegionOf, First
  <2> QED BY <1>9, <1>12, <2>2 DEF array, get_array
<1>20. dcache = icache
  BY <1>10, <1>15, <1>19 DEF region
<1>21. cleared = arrays2
  BY <1>19
<1> HIDE DEF icache, arrays2, cleared
<1>22. room = [icache |-> icache, dcache |-> icache, arrays |-> arrays2]
  BY <1>3, <1>20, <1>21
<1> QED BY <1>18, <1>22

-----------------------------------------------------------------------------
(* The byte of a cell after bytes is written.                              *)
Here(regions, bytes, k, o) == {a \in DOMAIN bytes : Cell(regions, a) = <<k, o>>}
ByteOf(regions, bytes, k, o, was) ==
    IF Here(regions, bytes, k, o) = {} THEN was
    ELSE bytes[CHOOSE a \in Here(regions, bytes, k, o) : TRUE]
Written(regions, bytes, arrays) ==
    [k \in DOMAIN arrays |-> [o \in DOMAIN arrays[k] |->
        ByteOf(regions, bytes, k, o, arrays[k][o])]]

LEMMA WriteIs ==
  ASSUME NEW regions, NEW arrays, NEW bytes
  PROVE write([icache |-> regions, dcache |-> regions, arrays |-> arrays], regions, bytes)
          = [icache |-> regions, dcache |-> regions, arrays |-> Written(regions, bytes, arrays)]
<1> DEFINE m == [icache |-> regions, dcache |-> regions, arrays |-> arrays]
<1>1. m.arrays = arrays
  OBVIOUS
<1>2. [m EXCEPT !.arrays = Written(regions, bytes, arrays)]
        = [icache |-> regions, dcache |-> regions, arrays |-> Written(regions, bytes, arrays)]
  OBVIOUS
<1> SUFFICES write(m, regions, bytes) = [m EXCEPT !.arrays = Written(regions, bytes, arrays)]
  BY <1>2
<1> HIDE DEF m
<1>3. write(m, regions, bytes) = [m EXCEPT !.arrays = Written(regions, bytes, m.arrays)]
  BY ZenonT(60) DEF write, Written, ByteOf, Here
<1> QED BY <1>1, <1>3

LEMMA WrittenFits ==
  ASSUME NEW regions, NEW arrays, RegionsFit(regions, arrays), NEW bytes,
         \A a \in DOMAIN bytes : bytes[a] \in Int
  PROVE RegionsFit(regions, Written(regions, bytes, arrays))
<1> DEFINE written == Written(regions, bytes, arrays)
<1>1. PICK n \in Nat : n = Len(regions) /\ n = Len(arrays) /\ DOMAIN arrays = 1..n
  BY LenProperties DEF RegionsFit
<1>2. ASSUME NEW k \in 1..n PROVE written[k] \in [0..(regions[k].size - 1) -> Int]
  <2>1. arrays[k] \in [0..(regions[k].size - 1) -> Int]
    BY <1>1 DEF RegionsFit
  <2>2. written[k] = [o \in DOMAIN arrays[k] |-> ByteOf(regions, bytes, k, o, arrays[k][o])]
    BY <1>1 DEF Written
  <2>3. ASSUME NEW o \in 0..(regions[k].size - 1)
        PROVE ByteOf(regions, bytes, k, o, arrays[k][o]) \in Int
    <3>1. arrays[k][o] \in Int
      BY <2>1
    <3>2. CASE Here(regions, bytes, k, o) = {}
      BY <3>1, <3>2 DEF ByteOf
    <3>3. CASE Here(regions, bytes, k, o) # {}
      <4>1. (CHOOSE a \in Here(regions, bytes, k, o) : TRUE) \in Here(regions, bytes, k, o)
        BY <3>3
      <4>2. Here(regions, bytes, k, o) \subseteq DOMAIN bytes
        BY DEF Here
      <4> QED BY <3>3, <4>1, <4>2 DEF ByteOf
    <3> QED BY <3>2, <3>3
  <2> QED BY <2>1, <2>2, <2>3
<1>3. written \in Seq(Arrays) /\ Len(written) = n
  <2>1. \A k \in 1..n : written[k] \in Arrays
    <3> SUFFICES ASSUME NEW k \in 1..n PROVE written[k] \in Arrays
      OBVIOUS
    <3>1. written[k] \in [0..(regions[k].size - 1) -> Int]
      BY <1>2
    <3>2. regions[k].size \in Nat
      BY <1>1, RegionIs
    <3> QED BY <3>1, <3>2 DEF Arrays
  <2>2. written = [k \in 1..n |-> written[k]]
    BY <1>1 DEF Written
  <2> HIDE DEF written
  <2>3. [k \in 1..n |-> written[k]] \in [1..n -> Arrays]
    BY <2>1
  <2>4. written \in [1..n -> Arrays]
    BY <2>2, <2>3
  <2> QED BY <2>4, LenProperties
<1> HIDE DEF written
<1>4. RegionsFit(regions, written)
  BY <1>1, <1>2, <1>3 DEF RegionsFit
<1> QED BY <1>4 DEF written

(* Each byte is found where it was written, the others are as they were.   *)
LEMMA WrittenFinds ==
  ASSUME NEW regions, NEW arrays, RegionsFit(regions, arrays), NEW bytes,
         DOMAIN bytes \subseteq Int,
         \A a \in DOMAIN bytes : Holding(regions, a) # {},
         NEW addr \in Int, Holding(regions, addr) # {}
  PROVE ByteIn(regions, Written(regions, bytes, arrays), addr) =
          IF addr \in DOMAIN bytes THEN bytes[addr] ELSE ByteIn(regions, arrays, addr)
<1> DEFINE k == First(regions, addr)
           o == addr - regions[k].base
<1>1. PICK n \in Nat : n = Len(regions) /\ n = Len(arrays) /\ DOMAIN arrays = 1..n
  BY LenProperties DEF RegionsFit
<1>2. k \in 1..n
  BY <1>1, FirstIs
<1> DEFINE m == [arrays |-> arrays]
<1>3. m.arrays = arrays
  OBVIOUS
<1> HIDE DEF m
<1>4. /\ Cell(regions, addr) = <<k, o>> /\ regions[k].base \in Nat
      /\ regions[k].base <= addr /\ addr < regions[k].base + regions[k].size
  BY <1>3, ReadsFound
<1>5. ByteIn(regions, arrays, addr) = arrays[k][o]
  BY DEF ByteIn
<1>6. ByteIn(regions, Written(regions, bytes, arrays), addr) = Written(regions, bytes, arrays)[k][o]
  BY DEF ByteIn
<1>7. o \in 0..(regions[k].size - 1)
  <2>1. regions[k].size \in Nat
    BY <1>1, <1>2, RegionIs
  <2> QED BY <1>4, <2>1
<1> HIDE DEF k, o
<1>8. o \in DOMAIN arrays[k]
  BY <1>1, <1>2, <1>7 DEF RegionsFit
<1>9. Written(regions, bytes, arrays)[k][o] = ByteOf(regions, bytes, k, o, arrays[k][o])
  BY <1>1, <1>2, <1>8 DEF Written
<1>10. \A a \in Here(regions, bytes, k, o) : a = addr
  <2> SUFFICES ASSUME NEW a \in Here(regions, bytes, k, o) PROVE a = addr
    OBVIOUS
  <2>1. a \in DOMAIN bytes /\ Cell(regions, a) = Cell(regions, addr)
    BY <1>4 DEF Here
  <2>2. a \in Int /\ Holding(regions, a) # {}
    BY <2>1
  <2> QED BY <2>1, <2>2, SameFirst
<1>11. CASE addr \in DOMAIN bytes
  <2>1. Here(regions, bytes, k, o) = {addr}
    BY <1>4, <1>10, <1>11 DEF Here
  <2>2. (CHOOSE a \in Here(regions, bytes, k, o) : TRUE) = addr
    BY <2>1
  <2> QED BY <1>6, <1>9, <1>11, <2>1, <2>2 DEF ByteOf
<1>12. CASE addr \notin DOMAIN bytes
  <2>1. Here(regions, bytes, k, o) = {}
    BY <1>10, <1>12 DEF Here
  <2> QED BY <1>5, <1>6, <1>9, <1>12, <2>1 DEF ByteOf
<1> QED BY <1>11, <1>12

-----------------------------------------------------------------------------
Images == [Addresses -> Nat \cup {Unset}]
ByteAfter(byte) == IF byte = Unset THEN 0 ELSE byte

(* What was sent is found at its address, and where nothing was sent zero. *)
ImageKept(regions, arrays, image) ==
    \A a \in Addresses :
       /\ image[a] > 0 => Holding(regions, a) # {}
       /\ Holding(regions, a) # {} => ByteIn(regions, arrays, a) = ByteAfter(image[a])

TopInv ==
    /\ memory = [icache |-> memory.icache, dcache |-> memory.icache, arrays |-> memory.arrays]
    /\ RegionsFit(memory.icache, memory.arrays)
    /\ ImageKept(memory.icache, memory.arrays, loader.image)

TcmInv ==
    /\ DOMAIN tcm = 0..(TcmSize - 1)
    /\ \A a \in Addresses : loader.image[a] > 0 => a < TcmSize /\ tcm[a] = loader.image[a]

LoadInv ==
    /\ loader \in [bench : {"tb_top", "tb_tcm"}, at : {"open", "sections", "assert", "true", "false"},
                  section : Nat, image : Images]
    /\ IF loader.bench = "tb_top" THEN TopInv ELSE TcmInv

LEMMA AddressIs == ASSUME NEW a \in Addresses PROVE a \in Nat /\ a \in 0..(Space - 1) /\ a \in Int
BY SpaceAssumption DEF Addresses

LEMMA GrownKept ==
  ASSUME NEW regions, NEW arrays, RegionsFit(regions, arrays), NEW image \in Images,
         ImageKept(regions, arrays, image), NEW regions2, NEW arrays2,
         NEW base, NEW size, Grown(regions, arrays, regions2, arrays2, base, size)
  PROVE ImageKept(regions2, arrays2, image)
<1> SUFFICES ASSUME NEW a \in Addresses
             PROVE /\ image[a] > 0 => Holding(regions2, a) # {}
                   /\ Holding(regions2, a) # {} => ByteIn(regions2, arrays2, a) = ByteAfter(image[a])
  BY DEF ImageKept
<1>1. a \in Int
  BY AddressIs
<1>2. image[a] \in Nat \cup {Unset}
  BY DEF Images
<1>3. /\ image[a] > 0 => Holding(regions, a) # {}
      /\ Holding(regions, a) # {} => ByteIn(regions, arrays, a) = ByteAfter(image[a])
  BY DEF ImageKept
<1>4. CASE Holding(regions, a) # {}
  BY <1>1, <1>3, <1>4, GrownFinds
<1>5. CASE Holding(regions, a) = {}
  <2>1. image[a] = Unset \/ image[a] = 0
    BY <1>2, <1>3, <1>5 DEF Unset
  <2>2. ByteAfter(image[a]) = 0
    BY <2>1 DEF ByteAfter
  <2>3. ~(image[a] > 0)
    BY <2>1 DEF Unset
  <2> QED BY <1>1, <1>5, <2>2, <2>3, GrownFinds
<1> QED BY <1>4, <1>5

LEMMA WrittenKept ==
  ASSUME NEW regions, NEW arrays, RegionsFit(regions, arrays), NEW image \in Images,
         ImageKept(regions, arrays, image), NEW bytes, DOMAIN bytes \subseteq Addresses,
         \A a \in DOMAIN bytes : bytes[a] \in Nat /\ Holding(regions, a) # {}
  PROVE ImageKept(regions, Written(regions, bytes, arrays),
                  [a \in Addresses |-> IF a \in DOMAIN bytes THEN bytes[a] ELSE image[a]])
<1> DEFINE sent == [a \in Addresses |-> IF a \in DOMAIN bytes THEN bytes[a] ELSE image[a]]
           written == Written(regions, bytes, arrays)
<1>1. SUFFICES ASSUME NEW a \in Addresses
               PROVE /\ sent[a] > 0 => Holding(regions, a) # {}
                     /\ Holding(regions, a) # {} => ByteIn(regions, written, a) = ByteAfter(sent[a])
  BY DEF ImageKept
<1>2. a \in Int /\ DOMAIN bytes \subseteq Int
  BY AddressIs
<1>3. /\ image[a] > 0 => Holding(regions, a) # {}
      /\ Holding(regions, a) # {} => ByteIn(regions, arrays, a) = ByteAfter(image[a])
  BY DEF ImageKept
<1>4. sent[a] = IF a \in DOMAIN bytes THEN bytes[a] ELSE image[a]
  OBVIOUS
<1>5. Holding(regions, a) # {} =>
        ByteIn(regions, written, a) = IF a \in DOMAIN bytes THEN bytes[a] ELSE ByteIn(regions, arrays, a)
  BY <1>2, WrittenFinds
<1> HIDE DEF sent, written
<1>6. CASE a \in DOMAIN bytes
  <2>1. bytes[a] \in Nat /\ Holding(regions, a) # {}
    BY <1>6
  <2>2. ByteAfter(sent[a]) = bytes[a]
    BY <1>4, <1>6, <2>1 DEF ByteAfter, Unset
  <2> QED BY <1>5, <1>6, <2>1, <2>2
<1>7. CASE a \notin DOMAIN bytes
  BY <1>3, <1>4, <1>5, <1>7
<1> QED BY <1>6, <1>7

(* Zeros for what has room only.                                           *)
LEMMA ZeroedKept ==
  ASSUME NEW regions, NEW arrays, NEW image \in Images, NEW sent \in Images,
         ImageKept(regions, arrays, image),
         \A a \in Addresses : sent[a] = image[a] \/ (image[a] = Unset /\ sent[a] = 0)
  PROVE ImageKept(regions, arrays, sent)
<1> SUFFICES ASSUME NEW a \in Addresses
             PROVE /\ sent[a] > 0 => Holding(regions, a) # {}
                   /\ Holding(regions, a) # {} => ByteIn(regions, arrays, a) = ByteAfter(sent[a])
  BY DEF ImageKept
<1>1. /\ image[a] > 0 => Holding(regions, a) # {}
      /\ Holding(regions, a) # {} => ByteIn(regions, arrays, a) = ByteAfter(image[a])
  BY DEF ImageKept
<1> QED BY <1>1 DEF ByteAfter, Unset

(* Where a section lies: no byte of it wraps.                              *)
LEMMA SectionIs ==
  ASSUME NEW s \in Sections
  PROVE s.addr \in Nat /\ s.size \in Nat /\ s.addr + s.size < Space
        /\ s.progbits \in BOOLEAN /\ s.alloc \in BOOLEAN
BY FileAssumption DEF Sections

LEMMA PlaceIs ==
  ASSUME NEW s \in Sections, NEW a \in Places(s)
  PROVE /\ a \in Addresses /\ a >= s.addr /\ a < s.addr + s.size
        /\ (a - s.addr) % Space = a - s.addr
<1>1. s.addr \in Nat /\ s.size \in Nat /\ s.addr + s.size < Space
  BY SectionIs
<1>2. PICK i \in 0..(s.size - 1) : a = (s.addr + i) % Space
  BY DEF Places
<1>3. i \in Nat /\ i < s.size
  BY <1>1, <1>2
<1>4. (s.addr + i) % Space = s.addr + i
  BY <1>1, <1>3, Stays, SpaceAssumption
<1>5. a = s.addr + i
  BY <1>2, <1>4
<1>6. i % Space = i
  BY <1>1, <1>3, Stays, SpaceAssumption
<1>7. a - s.addr = i
  BY <1>1, <1>3, <1>5
<1> QED BY <1>1, <1>3, <1>5, <1>6, <1>7, SpaceAssumption DEF Addresses

LEMMA BytesPositive ==
  ASSUME LoadInv, NEW s \in Sections, NEW a \in Places(s)
  PROVE ByteAt(s, a) \in Nat /\ ByteAt(s, a) > 0
<1>1. s.addr \in Nat /\ a \in Nat /\ a >= s.addr /\ (a - s.addr) % Space = a - s.addr
  BY PlaceIs, AddressIs, SectionIs
<1>2. loader.section \in Nat
  BY DEF LoadInv
<1>3. ByteAt(s, a) = loader.section * 16 + (a - s.addr) + 1
  BY <1>1 DEF ByteAt, Byte
<1> QED BY <1>1, <1>2, <1>3

LEMMA SentIs ==
  ASSUME LoadInv, NEW s \in Sections
  PROVE Sent(s) \in Images
<1>1. loader.image \in Images
  BY DEF LoadInv
<1>2. ASSUME NEW a \in Addresses PROVE Sent(s)[a] \in Nat \cup {Unset}
  <2>1. loader.image[a] \in Nat \cup {Unset}
    BY <1>1 DEF Images
  <2>2. Sent(s)[a] = IF a \notin Places(s) THEN loader.image[a]
                     ELSE IF s.progbits THEN ByteAt(s, a)
                     ELSE IF loader.image[a] = Unset THEN 0 ELSE loader.image[a]
    BY DEF Sent
  <2>3. CASE a \in Places(s)
    <3>1. ByteAt(s, a) \in Nat
      BY <2>3, BytesPositive
    <3> QED BY <2>1, <2>2, <2>3, <3>1
  <2> QED BY <2>1, <2>2, <2>3
<1> QED BY <1>2 DEF Images, Sent

-----------------------------------------------------------------------------
LEMMA LoadInvInit == LoadInit => LoadInv
<1> SUFFICES ASSUME LoadInit PROVE LoadInv
  OBVIOUS
<1> DEFINE none == [a \in Addresses |-> Unset]
<1>1. none \in Images /\ \A a \in Addresses : none[a] = Unset
  BY DEF Images
<1>2. loader.image = none /\ loader.bench \in {"tb_top", "tb_tcm"} /\ loader.at = "open"
      /\ loader.section = 0
  BY DEF LoadInit
<1>3. loader = [bench |-> loader.bench, at |-> "open", section |-> 0, image |-> none]
  BY DEF LoadInit
<1> HIDE DEF none
<1>4. loader \in [bench : {"tb_top", "tb_tcm"}, at : {"open", "sections", "assert", "true", "false"},
                  section : Nat, image : Images]
  BY <1>1, <1>2, <1>3
<1>5. TcmInv
  BY <1>1, <1>2 DEF LoadInit, TcmInv, Unset
<1>6. TopInv
  <2>1. memory = [icache |-> <<>>, dcache |-> <<>>, arrays |-> <<>>]
    BY DEF LoadInit, TbMemoryInit, tb_memory
  <2>2. RegionsFit(<<>>, <<>>)
    BY DEF RegionsFit
  <2>3. \A a \in Addresses : Holding(<<>>, a) = {}
    BY DEF Holding
  <2>4. ImageKept(<<>>, <<>>, none)
    BY <1>1, <2>3 DEF ImageKept, Unset
  <2> QED BY <1>2, <2>1, <2>2, <2>4 DEF TopInv
<1> QED BY <1>4, <1>5, <1>6 DEF LoadInv

LEMMA LoaderKept ==
  ASSUME LoadInv, NEW at \in {"open", "sections", "assert", "true", "false"},
         NEW section \in Nat, NEW image \in Images,
         loader' = [loader EXCEPT !.at = at, !.section = section, !.image = image]
  PROVE /\ loader' = [bench |-> loader.bench, at |-> at, section |-> section, image |-> image]
        /\ loader'.bench = loader.bench /\ loader'.image = image
        /\ loader' \in [bench : {"tb_top", "tb_tcm"},
                        at : {"open", "sections", "assert", "true", "false"},
                        section : Nat, image : Images]
<1>1. loader' = [bench |-> loader.bench, at |-> at, section |-> section, image |-> image]
  BY DEF LoadInv
<1>2. loader.bench \in {"tb_top", "tb_tcm"}
  BY DEF LoadInv
<1> QED BY <1>1, <1>2

(* Steps that change no memory and send nothing.                           *)
LEMMA NothingLoaded ==
  ASSUME LoadInv, UNCHANGED <<memory, tcm>>, loader'.bench = loader.bench,
         loader'.image = loader.image,
         loader' \in [bench : {"tb_top", "tb_tcm"},
                      at : {"open", "sections", "assert", "true", "false"},
                      section : Nat, image : Images]
  PROVE LoadInv'
BY DEF LoadInv, TopInv, TcmInv

LEMMA OpenStep == ASSUME LoadInv, NEW found \in BOOLEAN, Open(found) PROVE LoadInv'
<1>1. UNCHANGED <<memory, tcm>> /\ loader'.bench = loader.bench /\ loader'.image = loader.image
      /\ loader' \in [bench : {"tb_top", "tb_tcm"},
                      at : {"open", "sections", "assert", "true", "false"},
                      section : Nat, image : Images]
  BY DEF LoadInv, Open
<1> QED BY <1>1, NothingLoaded

LEMMA LoadedStep == ASSUME LoadInv, Loaded PROVE LoadInv'
<1>1. UNCHANGED <<memory, tcm>> /\ loader'.bench = loader.bench /\ loader'.image = loader.image
      /\ loader' \in [bench : {"tb_top", "tb_tcm"},
                      at : {"open", "sections", "assert", "true", "false"},
                      section : Nat, image : Images]
  BY DEF LoadInv, Loaded
<1> QED BY <1>1, NothingLoaded

LEMMA NextIs ==
  ASSUME LoadInv, NEW at \in {"sections", "assert"}, NEW image \in Images, NextSection(at, image)
  PROVE /\ loader'.bench = loader.bench /\ loader'.image = image
        /\ loader' \in [bench : {"tb_top", "tb_tcm"},
                        at : {"open", "sections", "assert", "true", "false"},
                        section : Nat, image : Images]
<1>1. loader.section + 1 \in Nat
  BY DEF LoadInv
<1>2. loader' = [loader EXCEPT !.at = at, !.section = loader.section + 1, !.image = image]
  BY DEF NextSection
<1>3. at \in {"open", "sections", "assert", "true", "false"}
  OBVIOUS
<1> QED BY <1>1, <1>2, <1>3, LoaderKept

(* A section that leaves the memory as it is sends nothing.                *)
LEMMA PassedOver ==
  ASSUME LoadInv, UNCHANGED <<memory, tcm>>, NEW at \in {"sections", "assert"},
         NextSection(at, loader.image)
  PROVE LoadInv'
<1>1. loader.image \in Images
  BY DEF LoadInv
<1> QED BY <1>1, NextIs, NothingLoaded

LEMMA TcmStep == ASSUME LoadInv, NEW s \in Sections, TcmSection(s) PROVE LoadInv'
<1>1. CASE ~s.alloc \/ s.size = 0
  BY <1>1, PassedOver DEF TcmSection
<1>2. CASE ~(~s.alloc \/ s.size = 0) /\ ~TcmHolds(s)
  BY <1>2, PassedOver DEF TcmSection
<1>3. CASE ~(~s.alloc \/ s.size = 0) /\ TcmHolds(s)
  <2>1. /\ tcm' = [a \in DOMAIN tcm |->
                     IF s.progbits /\ a \in Places(s) THEN ByteAt(s, a) ELSE tcm[a]]
        /\ NextSection("sections", Sent(s)) /\ UNCHANGED memory /\ loader.bench = "tb_tcm"
    BY <1>3 DEF TcmSection
  <2>2. Sent(s) \in Images
    BY SentIs
  <2>3. /\ loader'.bench = "tb_tcm" /\ loader'.image = Sent(s)
        /\ loader' \in [bench : {"tb_top", "tb_tcm"},
                        at : {"open", "sections", "assert", "true", "false"},
                        section : Nat, image : Images]
    BY <2>1, <2>2, NextIs
  <2>4. TcmInv
    BY <2>1 DEF LoadInv
  <2>5. s.addr + s.size < TcmSize
    <3>1. s.addr + s.size \in Nat /\ s.addr + s.size < Space
      BY SectionIs
    <3>2. (s.addr + s.size) % Space = s.addr + s.size
      BY <3>1, Stays
    <3> QED BY <1>3, <3>2 DEF TcmHolds
  <2>6. ASSUME NEW a \in Addresses, Sent(s)[a] > 0
        PROVE a < TcmSize /\ tcm'[a] = Sent(s)[a]
    <3>1. Sent(s)[a] = IF a \notin Places(s) THEN loader.image[a]
                       ELSE IF s.progbits THEN ByteAt(s, a)
                       ELSE IF loader.image[a] = Unset THEN 0 ELSE loader.image[a]
      BY DEF Sent
    <3>2. a \in Nat
      BY AddressIs
    <3>3. a \in DOMAIN tcm <=> a < TcmSize
      BY <2>4, <3>2, FileAssumption DEF TcmInv
    <3>4. CASE s.progbits /\ a \in Places(s)
      <4>1. a < s.addr + s.size /\ s.addr + s.size \in Nat
        BY <3>4, PlaceIs, SectionIs
      <4>2. a < TcmSize
        BY <2>5, <3>2, <4>1, FileAssumption
      <4> QED BY <2>1, <3>1, <3>3, <3>4, <4>2
    <3>5. CASE ~(s.progbits /\ a \in Places(s))
      <4>1. Sent(s)[a] = loader.image[a]
        BY <2>6, <3>1, <3>5
      <4>2. a < TcmSize /\ tcm[a] = loader.image[a]
        BY <2>4, <2>6, <4>1 DEF TcmInv
      <4> QED BY <2>1, <3>3, <3>5, <4>1, <4>2
    <3> QED BY <3>4, <3>5
  <2>7. DOMAIN tcm' = 0..(TcmSize - 1)
    BY <2>1, <2>4 DEF TcmInv
  <2>8. TcmInv'
    BY <2>3, <2>6, <2>7 DEF TcmInv
  <2> QED BY <2>3, <2>8 DEF LoadInv
<1> QED BY <1>1, <1>2, <1>3

(* The memory after a section of tb_top: room is made, then written.       *)
LEMMA TopStep == ASSUME LoadInv, NEW s \in Sections, TopSection(s) PROVE LoadInv'
<1>1. CASE ~s.alloc \/ s.size = 0
  BY <1>1, PassedOver DEF TopSection
<1> DEFINE room == create_memory(memory, s.addr, s.size)
           fits == \A m \in room : \A a \in Places(s) : valid_addr(m.dcache, a)
<1>2. CASE ~(~s.alloc \/ s.size = 0) /\ (room = {} \/ (s.progbits /\ ~fits))
  BY <1>2, PassedOver DEF TopSection
<1>3. CASE ~(~s.alloc \/ s.size = 0) /\ ~(room = {} \/ (s.progbits /\ ~fits))
  <2>1. PICK m \in room : /\ memory' = IF s.progbits THEN Filled(s, m) ELSE m
                          /\ NextSection("sections", Sent(s))
    BY <1>3 DEF TopSection
  <2>2. loader.bench = "tb_top"
    BY DEF TopSection
  <2> DEFINE regions == memory.icache
             arrays == memory.arrays
  <2>3. /\ memory.dcache = regions
        /\ RegionsFit(regions, arrays) /\ ImageKept(regions, arrays, loader.image)
    BY <2>2 DEF LoadInv, TopInv
  <2>4. s.addr \in Nat /\ s.size \in Nat /\ s.size > 0 /\ s.addr + s.size < Space
    BY <1>3, SectionIs
  <2>5. m \in create_memory(memory, s.addr, s.size)
    BY <2>1
  <2>6. s.progbits => \A a \in Places(s) : valid_addr(m.dcache, a)
    BY <1>3, <2>1
  <2>7. memory' = IF s.progbits THEN Filled(s, m) ELSE m
    BY <2>1
  <2>8. PICK base, size, regions2, arrays2 :
           /\ Grown(regions, arrays, regions2, arrays2, base, size)
           /\ m = [icache |-> regions2, dcache |-> regions2, arrays |-> arrays2]
    <3> HIDE DEF room, fits
    <3> QED BY <2>3, <2>4, <2>5, RoomIs
  <2>9. loader.image \in Images
    BY DEF LoadInv
  <2> HIDE DEF room, fits, regions, arrays
  <2>10. RegionsFit(regions2, arrays2)
    BY <2>3, <2>8, GrownFits
  <2>11. ImageKept(regions2, arrays2, loader.image)
    BY <2>3, <2>8, <2>9, GrownKept
  <2>12. Sent(s) \in Images
    BY SentIs
  <2>13. /\ loader'.bench = "tb_top" /\ loader'.image = Sent(s)
         /\ loader' \in [bench : {"tb_top", "tb_tcm"},
                         at : {"open", "sections", "assert", "true", "false"},
                         section : Nat, image : Images]
    BY <2>1, <2>2, <2>12, NextIs
  <2>14. CASE s.progbits
    <3> DEFINE bytes == [a \in Places(s) |-> ByteAt(s, a)]
    <3>1. DOMAIN bytes = Places(s) /\ \A a \in Places(s) : bytes[a] = ByteAt(s, a)
      OBVIOUS
    <3>2. memory' = write(m, m.dcache, bytes)
      BY <2>7, <2>14 DEF Filled
    <3> HIDE DEF bytes
    <3>3. memory' = [icache |-> regions2, dcache |-> regions2,
                     arrays |-> Written(regions2, bytes, arrays2)]
      <4>1. m.dcache = regions2
        BY <2>8
      <4>2. memory' = write([icache |-> regions2, dcache |-> regions2, arrays |-> arrays2],
                            regions2, bytes)
        BY <2>8, <3>2, <4>1
      <4> QED BY <4>2, WriteIs
    <3>4. DOMAIN bytes \subseteq Addresses
      BY <3>1, PlaceIs
    <3>5. ASSUME NEW a \in DOMAIN bytes
          PROVE bytes[a] \in Nat /\ bytes[a] \in Int /\ Holding(regions2, a) # {}
      <4>1. a \in Places(s) /\ bytes[a] = ByteAt(s, a)
        BY <3>1
      <4>2. bytes[a] \in Nat
        BY <4>1, BytesPositive
      <4>3. valid_addr(regions2, a)
        BY <2>6, <2>8, <2>14, <4>1
      <4>4. a \in 0..(Space - 1)
        BY <3>4, AddressIs
      <4> QED BY <2>10, <4>2, <4>3, <4>4, ValidIs
    <3>6. RegionsFit(regions2, Written(regions2, bytes, arrays2))
      BY <2>10, <3>5, WrittenFits
    <3> DEFINE sent == [a \in Addresses |-> IF a \in DOMAIN bytes THEN bytes[a] ELSE loader.image[a]]
    <3>7. ImageKept(regions2, Written(regions2, bytes, arrays2), sent)
      BY <2>9, <2>10, <2>11, <3>4, <3>5, WrittenKept
    <3>8. sent = Sent(s)
      BY <2>14, <3>1 DEF Sent
    <3> HIDE DEF sent
    <3>9. TopInv'
      BY <2>13, <3>3, <3>6, <3>7, <3>8 DEF TopInv
    <3> QED BY <2>13, <3>9 DEF LoadInv
  <2>15. CASE ~s.progbits
    <3>1. memory' = [icache |-> regions2, dcache |-> regions2, arrays |-> arrays2]
      BY <2>7, <2>8, <2>15
    <3>2. \A a \in Addresses : Sent(s)[a] = loader.image[a]
                               \/ (loader.image[a] = Unset /\ Sent(s)[a] = 0)
      BY <2>15 DEF Sent
    <3>3. ImageKept(regions2, arrays2, Sent(s))
      BY <2>9, <2>11, <2>12, <3>2, ZeroedKept
    <3>4. TopInv'
      BY <2>10, <2>13, <3>1, <3>3 DEF TopInv
    <3> QED BY <2>13, <3>4 DEF LoadInv
  <2> QED BY <2>14, <2>15
<1> QED BY <1>1, <1>2, <1>3

LEMMA LoadStep == LoadInv /\ LoadNext => LoadInv'
<1> SUFFICES ASSUME LoadInv, LoadNext PROVE LoadInv'
  OBVIOUS
<1>1. CASE \E found \in BOOLEAN : Open(found)
  BY <1>1, OpenStep
<1>2. CASE \E s \in Sections : TopSection(s) \/ TcmSection(s)
  BY <1>2, TopStep, TcmStep
<1>3. CASE Loaded
  BY <1>3, LoadedStep
<1> QED BY <1>1, <1>2, <1>3 DEF LoadNext

LEMMA LoaderStaysInv == LoadInv /\ UNCHANGED <<memory, tcm, loader>> => LoadInv'
BY DEF LoadInv, TopInv, TcmInv

LEMMA LoadInvKept ==
  ASSUME LoadInv, [TestBenchNext]_benchProgram
  PROVE LoadInv'
<1>1. CASE Load
  BY <1>1, LoadStep DEF Load
<1>2. CASE UNCHANGED <<memory, tcm, loader>>
  BY <1>2, LoaderStaysInv
<1>3. [TestBenchNext]_benchProgram => Load \/ UNCHANGED <<memory, tcm, loader>>
  BY DEF TestBenchNext, benchProgram, Register, Named, testbench, Options, LoadDone, Release, Loop,
         clk, Exit, abortBegins, flush, close, forget, sigint_handler, LoaderStays
<1> QED BY <1>1, <1>2, <1>3

(* A program that loads is in memory as it is in its file.                 *)
THEOREM ImageLoaded == TestBenchSpec => []LoadedImage
<1>1. TestBenchInit => LoadInv
  BY LoadInvInit DEF TestBenchInit
<1>2. LoadInv => LoadedImage
  <2> SUFFICES ASSUME LoadInv, NEW a \in Addresses
               PROVE IF loader.bench = "tb_tcm"
                     THEN loader.image[a] > 0 => tcm[a] = loader.image[a]
                     ELSE /\ loader.image[a] > 0 => valid_addr(memory.dcache, a)
                          /\ (loader.image[a] # Unset /\ valid_addr(memory.dcache, a)) =>
                                /\ read(memory, memory.dcache, a) = loader.image[a]
                                /\ valid_addr(memory.icache, a)
                                /\ read(memory, memory.icache, a) = loader.image[a]
    BY DEF LoadedImage
  <2>1. CASE loader.bench = "tb_tcm"
    BY <2>1 DEF LoadInv, TcmInv
  <2>2. CASE loader.bench # "tb_tcm"
    <3> DEFINE regions == memory.icache
               arrays == memory.arrays
    <3>1. loader.bench = "tb_top"
      BY <2>2 DEF LoadInv
    <3>2. /\ memory.dcache = regions /\ RegionsFit(regions, arrays)
          /\ ImageKept(regions, arrays, loader.image)
      BY <3>1 DEF LoadInv, TopInv
    <3>3. memory.arrays = arrays /\ memory.icache = regions
      OBVIOUS
    <3> HIDE DEF regions, arrays
    <3>4. a \in Int /\ a \in 0..(Space - 1)
      BY AddressIs
    <3>5. valid_addr(regions, a) <=> Holding(regions, a) # {}
      BY <3>2, <3>4, ValidIs
    <3>6. Holding(regions, a) # {} => read(memory, regions, a) = ByteIn(regions, arrays, a)
      BY <3>2, <3>3, <3>4, ReadsFound
    <3>7. /\ loader.image[a] > 0 => Holding(regions, a) # {}
          /\ Holding(regions, a) # {} => ByteIn(regions, arrays, a) = ByteAfter(loader.image[a])
      BY <3>2 DEF ImageKept
    <3>8. loader.image[a] # Unset => ByteAfter(loader.image[a]) = loader.image[a]
      BY DEF ByteAfter
    <3> QED BY <2>2, <3>2, <3>3, <3>5, <3>6, <3>7, <3>8
  <2> QED BY <2>1, <2>2
<1> QED BY <1>1, <1>2, LoadInvKept, PTL DEF TestBenchSpec
=============================================================================
