------------------------------- MODULE Segger -------------------------------
(***************************************************************************)
(* The program of Segger_pr on the CPU: main sets up the UART and runs     *)
(* dhry, which times its loop with the machine timer and prints what the   *)
(* variables hold and what they should hold.  The timer and the line of    *)
(* the UART go on beside it.                                               *)
(*                                                                         *)
(* An item of the text is a line, or the two lines of a variable: what is  *)
(* printed (is) and what the program prints that it should be (be).        *)
(***************************************************************************)
EXTENDS Uart, Dhrystone

CONSTANTS
    LoSize,             \* values of mtime_lo (2^32)
    MaxTime,            \* the clock stops here, as if the runs were short
    ClocksPerUnit,      \* CORECLOCK / 4000000
    Too_Small_Time

ASSUME TimeAssumption ==
    /\ {LoSize, MaxTime, ClocksPerUnit} \subseteq Nat \ {0}
    /\ Too_Small_Time \in Nat

VARIABLES
    pc,         \* what dhry does next
    g,          \* the memory of the procedures
    loc,        \* the local variables of dhry
    mtime,      \* the machine timer's counter
    get,        \* the call of mtimer_mtime: [step, hi, lo, since (ghost)]
    times,      \* [first, Begin_Time, End_Time]
    text,       \* what printf has still to hand to the UART
    polled,     \* file_write has seen the FIFO not full
    line,       \* ghost: the items the line has carried
    printed     \* ghost: everything handed to printf

seggerVars == <<uart, pc, g, loc, mtime, get, times, text, polled, line, printed>>

Item(is, be) == [is |-> is, be |-> be]
Line(what) == Item(what, what)

SeggerInit ==
    /\ UartInit
    /\ pc = "init_UART" /\ g = Zeroed
    /\ loc = [Int_1 |-> 0, Int_2 |-> 0, Int_3 |-> 0, Ch_Index |-> 0, Enum |-> 0,
              Str_1 |-> NoString, Str_2 |-> NoString, Run_Index |-> 0]
    /\ mtime \in 1..LoSize
    /\ get = [step |-> "none", hi |-> 0, lo |-> 0, since |-> 0]
    /\ times = [first |-> 0, Begin_Time |-> 0, End_Time |-> 0]
    /\ text = <<>> /\ polled = FALSE /\ line = <<>> /\ printed = <<>>

-----------------------------------------------------------------------------
(* __SEGGER_RTL_X_file_write: poll FCR, then write the byte.               *)
MayWriteAlways == TRUE
MayWrite == polled
Poll ==
    /\ text # <<>> /\ ~polled
    /\ polled' = ~ReadsTxFull
    /\ UNCHANGED <<uart, pc, g, loc, mtime, get, times, text, line, printed>>
Write ==
    /\ text # <<>> /\ MayWrite
    /\ UartWrite(dFIFOtx_UART, Head(text))
    /\ text' = Tail(text) /\ polled' = FALSE
    /\ UNCHANGED <<pc, g, loc, mtime, get, times, line, printed>>
Printf(items) == text' = items /\ printed' = printed \o items

SendLine ==
    /\ Transmit
    /\ line' = Append(line, Head(uart.fifo))
    /\ UNCHANGED <<pc, g, loc, mtime, get, times, text, polled, printed>>
Tick ==
    /\ mtime < MaxTime /\ mtime' = mtime + 1
    /\ UNCHANGED <<uart, pc, g, loc, get, times, text, polled, line, printed>>

-----------------------------------------------------------------------------
(* mtimer_mtime reads the high word before and after the low word.         *)
ReadHi ==
    /\ get.step = "hi"
    /\ get' = [get EXCEPT !.step = "lo", !.hi = mtime \div LoSize, !.since = mtime]
ReadLo ==
    /\ get.step = "lo"
    /\ get' = [get EXCEPT !.step = "again", !.lo = mtime % LoSize]
SameHiUnchecked == TRUE
SameHi == get.hi = mtime \div LoSize
ReadAgain ==
    /\ get.step = "again"
    /\ get' = [get EXCEPT !.step = IF SameHi THEN "done" ELSE "hi"]
Value == get.hi * LoSize + get.lo
ReadTime ==
    /\ ReadHi \/ ReadLo \/ ReadAgain
    /\ UNCHANGED <<uart, pc, g, loc, mtime, times, text, polled, line, printed>>

(* get_us: the first value becomes the origin (it is not zero, the timer   *)
(* runs since the reset), and the time is read once more.                  *)
CallTime == get' = [get EXCEPT !.step = "hi"]
SetFirst ==
    /\ get.step = "done" /\ times.first = 0
    /\ times' = [times EXCEPT !.first = Value]
    /\ CallTime
    /\ UNCHANGED <<uart, pc, g, loc, mtime, text, polled, line, printed>>
GetUs(field, next) ==
    /\ pc = field /\ get.step = "done" /\ times.first # 0
    /\ times' = [times EXCEPT ![field] = (Value - times.first) \div ClocksPerUnit]
    /\ get' = [get EXCEPT !.step = "none"]
    /\ pc' = next
    /\ UNCHANGED <<uart, g, loc, mtime, polled, line>>

-----------------------------------------------------------------------------
(* A step of dhry from one label to the next, with the memory g after it   *)
(* and the locals after it.                                                *)
Runs(from, next, gAfter, locAfter) ==
    /\ pc = from /\ text = <<>>
    /\ pc' = next /\ g' = gAfter /\ loc' = locAfter
    /\ UNCHANGED <<uart, mtime, get, times, text, polled, line, printed>>

SetUpUart ==
    /\ pc = "init_UART"
    /\ UartWrite(dDLH_UART, 0)
    /\ pc' = "puts"
    /\ UNCHANGED <<g, loc, mtime, get, times, text, polled, line, printed>>
Puts ==
    /\ pc = "puts"
    /\ Printf(<<Line("Dhrystone Benchmark")>>)
    /\ pc' = "init"
    /\ UNCHANGED <<uart, g, loc, mtime, get, times, polled, line>>
Initialize ==
    /\ pc = "init" /\ text = <<>>
    /\ pc' = "Begin_Time" /\ CallTime
    /\ g' = Initialized(g) /\ loc' = [loc EXCEPT !.Str_1 = FirstString]
    /\ UNCHANGED <<uart, mtime, times, text, polled, line, printed>>
StartTimer == GetUs("Begin_Time", "for") /\ Printf(<<Line("Execution starts")>>)

For ==
    \/ Runs("for", "Proc_5", g, [loc EXCEPT !.Run_Index = 1])
    \/ Runs("++Run_Index", "Proc_5", g, [loc EXCEPT !.Run_Index = @ + 1])
Proc_5_4 == Runs("Proc_5", "Func_2", Proc_4(Proc_5(g)), loc)
CallFunc_2 ==
    LET written == Func_2Writes(g, loc.Str_1, SecondString)
    IN  /\ Func_2Returns(loc.Str_1, SecondString)
        /\ Runs("Func_2", "while",
                [written EXCEPT !.Bool_Glob = 1 - Func_2(loc.Str_1, SecondString)],
                [loc EXCEPT !.Int_1 = 2, !.Int_2 = 3, !.Str_2 = SecondString, !.Enum = Ident_2])
While ==
    IF loc.Int_1 < loc.Int_2
    THEN Runs("while", "while", g,
              [loc EXCEPT !.Int_3 = Proc_7(loc.Int_1, loc.Int_2), !.Int_1 = @ + 1])
    ELSE Runs("while", "Proc_8", g, loc)
CallProc_8 == Runs("Proc_8", "Proc_1", Proc_8(g, loc.Int_1, loc.Int_3), loc)
CallProc_1 == Runs("Proc_1", "for Ch", Proc_1(g, g.Ptr_Glob), [loc EXCEPT !.Ch_Index = chA])
ForCh ==
    IF loc.Ch_Index > g.Ch_2_Glob
    THEN Runs("for Ch", "ints", g, loc)
    ELSE IF loc.Enum = Func_1(loc.Ch_Index, chC)
    THEN Runs("for Ch", "for Ch",
              [Func_1Writes(g, loc.Ch_Index, chC) EXCEPT !.Int_Glob = loc.Run_Index],
              [loc EXCEPT !.Enum = Proc_6(g, Ident_1), !.Str_2 = ThirdString,
                          !.Int_2 = loc.Run_Index, !.Ch_Index = @ + 1])
    ELSE Runs("for Ch", "for Ch", Func_1Writes(g, loc.Ch_Index, chC),
              [loc EXCEPT !.Ch_Index = @ + 1])
Ints ==
    LET product == loc.Int_2 * loc.Int_1
        ratio == product \div loc.Int_3
    IN  Runs("ints", "Proc_2", g,
             [loc EXCEPT !.Int_1 = ratio, !.Int_2 = 7 * (product - loc.Int_3) - ratio])
CallProc_2 ==
    Runs("Proc_2", IF loc.Run_Index < Number_Of_Runs THEN "++Run_Index" ELSE "stop", g,
         [loc EXCEPT !.Int_1 = Proc_2(g, loc.Int_1)])
StopTimer ==
    /\ pc = "stop" /\ pc' = "End_Time" /\ CallTime
    /\ UNCHANGED <<uart, g, loc, mtime, times, text, polled, line, printed>>

(* The final values, each with the one the program prints beside it.       *)
FinalValues ==
    LET p == g.rec[g.Ptr_Glob]
        n == g.rec[g.Next_Ptr_Glob]
    IN  <<Item(g.Int_Glob, 5), Item(g.Bool_Glob, 1), Item(g.Ch_1_Glob, chA),
          Item(g.Ch_2_Glob, chB), Item(g.Arr_1_Glob[8], 7),
          Item(g.Arr_2_Glob[<<8, 7>>], Number_Of_Runs + 10),
          Item(p.Discr, 0), Item(p.Enum_Comp, 2), Item(p.Int_Comp, 17),
          Item(p.Str_Comp, SomeString), Item(n.Ptr_Comp, p.Ptr_Comp),
          Item(n.Discr, 0), Item(n.Enum_Comp, 1), Item(n.Int_Comp, 18),
          Item(n.Str_Comp, SomeString),
          Item(loc.Int_1, 5), Item(loc.Int_2, 13), Item(loc.Int_3, 7), Item(loc.Enum, 1),
          Item(loc.Str_1, FirstString), Item(loc.Str_2, SecondString)>>

PrintValues == GetUs("End_Time", "report") /\ Printf(FinalValues)
User_Time == times.End_Time - times.Begin_Time
Report ==
    /\ pc = "report" /\ text = <<>>
    /\ pc' = "exit"
    /\ Printf(<<Line("Execution ends")>>
             \o IF User_Time < Too_Small_Time THEN <<Line("Measured time too small")>>
                ELSE <<Line("Dhrystones per Second")>>)
    /\ UNCHANGED <<uart, g, loc, mtime, get, times, polled, line>>

Procedures ==
    \/ For \/ Proc_5_4 \/ CallFunc_2 \/ While \/ CallProc_8 \/ CallProc_1
    \/ ForCh \/ Ints \/ CallProc_2
dhry == Puts \/ Initialize \/ StartTimer \/ Procedures \/ StopTimer \/ PrintValues \/ Report

SeggerNext ==
    \/ SetUpUart \/ dhry \/ ReadTime \/ SetFirst \/ Poll \/ Write
    \/ SendLine \/ Tick
SeggerSpec == SeggerInit /\ [][SeggerNext]_seggerVars

-----------------------------------------------------------------------------
(* What the comments between the statements of dhry's loop (main.c:456-499)*)
(* say of the variables holds in every run, whatever the runs before it    *)
(* have left in them; so does what the program prints that the final       *)
(* values should be.  Of the procedures it says with their comments which  *)
(* arguments Proc_7 is called with first (741) and that Proc_2 finds 'A'   *)
(* (631).  It does not speak of the comments that head Proc_2 (623: its    *)
(* parameter becomes 4, where the loop's 497 and the code have 5), Proc_3  *)
(* (644) and Func_1 (780), which the code contradicts.                     *)
Ints_Loc == <<loc.Int_1, loc.Int_2, loc.Int_3>>
LoopCommentsHold ==
    /\ pc = "Func_2" =>
        g.Ch_1_Glob = chA /\ g.Ch_2_Glob = chB /\ g.Bool_Glob = 1
    /\ pc = "while" =>
        g.Bool_Glob = 1 /\ (loc.Int_1 < loc.Int_2 => loc.Int_1 = 2 /\ loc.Int_2 = 3)
    /\ pc \in {"Proc_8", "ints"} => Ints_Loc = <<3, 3, 7>>
    /\ pc = "Proc_1" => g.Int_Glob = 5
    /\ pc = "for Ch" =>
        /\ g.rec[g.rec[g.Ptr_Glob].Ptr_Comp].Ptr_Comp = g.rec[g.Ptr_Glob].Ptr_Comp
        /\ loc.Ch_Index <= g.Ch_2_Glob => loc.Enum # Func_1(loc.Ch_Index, chC)
    /\ pc = "Proc_2" => Ints_Loc = <<1, 13, 7>> /\ g.Ch_1_Glob = chA
    /\ pc \in {"++Run_Index", "stop"} => loc.Int_1 = 5
    /\ \A k \in DOMAIN printed : printed[k].is = printed[k].be

(* Polling before each byte keeps the text whole: what the line has        *)
(* carried, what the FIFO holds and what is still to be written is what    *)
(* was printed, in its order.                                              *)
TextWhole == printed # <<>> => line \o uart.fifo \o text = printed

(* A time made of two words read apart is a time the counter has really    *)
(* shown while they were read.                                             *)
MtimeWithin == get.step = "done" => Value \in get.since..mtime
=============================================================================
