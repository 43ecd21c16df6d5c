------------------------------- MODULE Hello --------------------------------
(***************************************************************************)
(* The program of sw/Hello on the CPU: main sets up the peripherals, says  *)
(* its word and loops; the timer interrupts it at the end of every period  *)
(* and handle_trap says the word again.  One step is one clock, in which   *)
(* the timer and the interrupt registers of the CPU always take their own  *)
(* step and the program takes one access or CSR operation, or none: what   *)
(* lies between two of them takes any number of clocks.                    *)
(***************************************************************************)
EXTENDS Uart

CONSTANTS
    MsgLen      \* strlen(messege)

ASSUME MsgLenAssumption == MsgLen \in Nat \ {0}

VARIABLES
    timer,  \* [TR, TRS, IEC, IntCl, PMup]
    csr,    \* the timer bit of mie, mip, csr_mip_next_q; csr_mip_upd_q, MIE
    cpu,    \* [main, handler: operations left, i: the global, iMain: main's]
    told    \* ghosts: [owed: a tick waits for its word, word: what main sent]

helloVars == <<uart, timer, csr, cpu, told>>

init_timer == <<"dTmPrSh", "dTMS", "dCMC", "dECR", "dIEC">>
init_timer1 == <<"dTmPrSh1", "dTmCmpSh_1", "dTmCmpSh1_1", "dTMS1">>
init_intrupt == <<"clear mie", "set mie", "set mstatus">>
init_UART == <<"dCR", "dDLL", "dDLH">>
main == init_timer \o init_timer1 \o init_intrupt \o init_UART
        \o <<"dTRS", "dTRS1", "i = 0", "word">>

handle_TIMER_interrupt == <<"dTmPrSh", "dTRS", "i = 0", "word">>
clear_mip == <<"read mip", "write mip">>    \* a csrrc takes its time
handle_trapUnacknowledged == handle_TIMER_interrupt \o <<"dISC">> \o clear_mip \o <<"mret">>
handle_trap == <<"dISC">> \o handle_TIMER_interrupt \o clear_mip \o <<"mret">>

HelloInit ==
    /\ UartInit
    /\ timer = [TR |-> FALSE, TRS |-> FALSE, IEC |-> FALSE, IntCl |-> FALSE, PMup |-> FALSE]
    /\ csr = [mie |-> FALSE, mip |-> FALSE, next |-> FALSE, upd |-> FALSE, MIE |-> FALSE]
    /\ cpu = [main |-> main, handler |-> <<>>, i |-> 0, iMain |-> 0]
    /\ told = [owed |-> FALSE, word |-> <<>>]

-----------------------------------------------------------------------------
(* A period match is seen while the timer runs; to be set again wins over  *)
(* to be cleared.                                                          *)
TimerTick(op, match) ==
    /\ match => timer.TR
    /\ timer' = [TR |-> timer.TR \/ timer.TRS, TRS |-> op = "dTRS",
                 IEC |-> timer.IEC \/ op = "dIEC", IntCl |-> op = "dISC",
                 PMup |-> IF timer.IEC /\ match THEN TRUE
                          ELSE timer.PMup /\ ~timer.IntCl]

(* csr_mip_next_r keeps what comes between the read and the write of a     *)
(* csrrc to mip; mip takes it in every clock, the one of the write too.    *)
MipNextUntimed == csr.next
MipNext == csr.next \/ timer.PMup
CsrTick(op) ==
    csr' = [mie |-> IF op = "set mie" THEN TRUE ELSE csr.mie /\ op # "clear mie",
            mip |-> (csr.mip /\ op # "write mip") \/ MipNext,
            next |-> MipNext /\ (op = "read mip" \/ csr.upd),
            upd |-> IF op = "read mip" THEN TRUE ELSE csr.upd /\ op \notin {"write mip", "trap"},
            MIE |-> IF op \in {"set mstatus", "mret"} THEN TRUE ELSE csr.MIE /\ op # "trap"]
Interrupt == csr.MIE /\ csr.mie /\ csr.mip

-----------------------------------------------------------------------------
InHandler == cpu.handler # <<>>
Left == IF InHandler THEN cpu.handler ELSE cpu.main
Op == Head(Left)
Stepped(c) == IF InHandler THEN [c EXCEPT !.handler = Tail(@)] ELSE [c EXCEPT !.main = Tail(@)]

(* main counts with a variable of its own, the handler with the global.    *)
IndexShared == cpu.i
Index == IF InHandler THEN cpu.i ELSE cpu.iMain
WithIndex(c, n) == IF InHandler THEN [c EXCEPT !.i = n] ELSE [c EXCEPT !.iMain = n]

UartAccess(op) ==
    CASE op = "dCR" -> UartWrite(dCR_UART, 0)
      [] op = "dDLL" -> UartWrite(dDLL_UART, 0)
      [] op = "dDLH" -> UartWrite(dDLH_UART, 0)
      [] op = "send" -> UartWrite(dFIFOtx_UART, Index + 1)
      [] op = "transmit" -> Transmit
      [] OTHER -> UNCHANGED uart

Hardware(op, match) ==
    /\ UartAccess(op)
    /\ TimerTick(op, match)
    /\ CsrTick(op)
    /\ told' = [owed |-> \/ timer.IEC /\ match
                         \/ told.owed /\ ~(InHandler /\ Op = "i = 0"),
                word |-> IF op = "send" /\ ~InHandler THEN Append(told.word, Index + 1)
                         ELSE told.word]

(* One access or CSR operation of the program.                             *)
Operate(match) ==
    /\ Left # <<>> /\ Op # "word"
    /\ cpu' = Stepped(IF Op = "i = 0" THEN WithIndex(cpu, 0) ELSE cpu)
    /\ Hardware(Op, match)
Word(match) ==
    /\ Left # <<>> /\ Op = "word"
    /\ \/ Index < MsgLen /\ cpu' = WithIndex(cpu, Index + 1) /\ Hardware("send", match)
       \/ Index >= MsgLen /\ cpu' = Stepped(cpu) /\ Hardware("none", match)

(* The trap is taken at any clock in which the interrupt is up.            *)
Trap(match) ==
    /\ Interrupt /\ ~InHandler
    /\ cpu' = [cpu EXCEPT !.handler = handle_trap]
    /\ Hardware("trap", match)
Idle(match) == cpu' = cpu /\ (Hardware("none", match) \/ Hardware("transmit", match))

HelloNext == \E match \in BOOLEAN : Operate(match) \/ Word(match) \/ Trap(match) \/ Idle(match)

(* Clocks go on; so does the CPU, in the handler and in main, and it takes *)
(* its interrupts.                                                         *)
HelloFair ==
    /\ WF_helloVars(Idle(FALSE))
    /\ WF_helloVars(InHandler /\ \E match \in BOOLEAN : Operate(match) \/ Word(match))
    /\ WF_helloVars(~InHandler /\ \E match \in BOOLEAN : Operate(match) \/ Word(match))
    /\ WF_helloVars(\E match \in BOOLEAN : Trap(match))
HelloSpec == HelloInit /\ [][HelloNext]_helloVars /\ HelloFair

-----------------------------------------------------------------------------
(* Every period match is answered: after it a handler starts to send the   *)
(* word, also when the match falls into a handler that still runs.         *)
WordBegins == InHandler /\ Op = "i = 0"
TickAnswered == told.owed ~> WordBegins

(* However often it is interrupted, main hands its whole word to the UART, *)
(* each byte once and in order.                                            *)
MainWordWhole ==
    /\ told.word = [k \in 1..Len(told.word) |-> k]
    /\ cpu.main = <<>> => Len(told.word) = MsgLen
=============================================================================
