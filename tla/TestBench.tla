----------------------------- MODULE TestBench ------------------------------
(***************************************************************************)
(* The simulator of a test bench from sc_main to its end: construction,    *)
(* the process that loads the program and counts clocks, the ways out      *)
(* (sc_stop, a failed sc_assert, $finish, the usage message, SIGINT) and   *)
(* the wave file, which abort() must leave closed.  SIGINT is the one      *)
(* concurrent event: its handler runs between any two steps and never      *)
(* returns.                                                                *)
(***************************************************************************)
EXTENDS ElfLoad

CONSTANTS
    CycleLimits   \* what --cycles may give

ASSUME CycleLimitsAssumption == CycleLimits \subseteq Nat

VARIABLES
    sim,    \* [at, then: what follows abort(), left: of max_cycles, stop:
            \*  sc_stop was called, edges: ghost, the design was clocked]
    program,\* [tb, atexit: exit_override is registered, sigint: "default",
            \*  "handler" or "masked"]
    wave    \* [file, ptr: m_verilate_vcd, delayed: m_delay_waves, unflushed:
            \*  dumped since the flush]

benchProgram == <<memory, tcm, loader, sim, program, wave>>

NoLimit == -1
Ended == sim.at \in {"ended", "crashed"}
Goto(at) == sim' = [sim EXCEPT !.at = at]
Aborting(then) == sim' = [sim EXCEPT !.at = "abort", !.then = then]
LoaderStays == UNCHANGED <<memory, tcm, loader>>

(* A failed sc_assert: abort() of the bench, then that of the library,     *)
(* which runs nothing that was registered.                                 *)
assert_handlerCoreOnly == Goto("ended")
assert_handler == Aborting("ended")

TestBenchInit ==
    /\ LoadInit
    /\ sim = [at |-> "sc_main", then |-> "none", left |-> NoLimit, stop |-> FALSE, edges |-> FALSE]
    /\ program = [tb |-> FALSE, atexit |-> FALSE, sigint |-> "default"]
    /\ wave = [file |-> "none", ptr |-> "wild", delayed |-> FALSE, unflushed |-> FALSE]

-----------------------------------------------------------------------------
(* sc_main and the constructor.  m_verilate_vcd is set only where waves    *)
(* are enabled; otherwise it holds what the allocator left there.          *)
Register ==
    /\ sim.at = "sc_main"
    /\ Goto("testbench")
    /\ program' = [program EXCEPT !.atexit = TRUE, !.sigint = "handler"]
    /\ UNCHANGED wave /\ LoaderStays

(* What the environment asks of the waves.                                 *)
Waves == {"none", "at once", "delayed"}
trace_enable(waves) == [wave EXCEPT !.delayed = (waves = "delayed")]
verilator_trace_enable(waves) ==
    IF waves = "none" THEN \E ptr \in {"NULL", "wild"} : wave' = [wave EXCEPT !.ptr = ptr]
    ELSE wave' = [trace_enable(waves) EXCEPT !.file = "open", !.ptr = "file"]

testbench(waves) ==
    /\ sim.at = "testbench"
    /\ Goto("named")
    /\ verilator_trace_enable(waves)
    /\ UNCHANGED program /\ LoaderStays

Named ==
    /\ sim.at = "named"
    /\ Goto("process")
    /\ program' = [program EXCEPT !.tb = TRUE]
    /\ UNCHANGED wave /\ LoaderStays

-----------------------------------------------------------------------------
(* process, up to the load: the usage message ends the program by exit.    *)
help_options == Goto("exit")
Options(help, limit) ==
    /\ sim.at = "process"
    /\ IF help THEN help_options ELSE sim' = [sim EXCEPT !.at = "load", !.left = limit]
    /\ UNCHANGED <<program, wave>> /\ LoaderStays

Load == sim.at = "load" /\ LoadNext /\ UNCHANGED <<sim, program, wave>>

(* A file that does not load stops the simulation, and the process goes on *)
(* to its next wait.                                                       *)
AfterLoadOn(at) == sim' = [sim EXCEPT !.at = at]
AfterLoad(at) ==
    sim' = [sim EXCEPT !.at = at, !.stop = (loader.at = "false")]
LoadDone ==
    /\ sim.at = "load"
    /\ \/ loader.at \in {"true", "false"}
          /\ AfterLoad(IF loader.bench = "tb_tcm" THEN "release" ELSE "loop")
       \/ loader.at = "assert" /\ assert_handler
    /\ UNCHANGED <<program, wave>> /\ LoaderStays

(* tb_tcm holds the CPU in reset for one clock more.                       *)
Release ==
    /\ sim.at = "release"
    /\ Goto("clock")
    /\ UNCHANGED <<program, wave>> /\ LoaderStays

(* One turn of the loop: the limit is reached, or the next clock comes.    *)
Loop ==
    /\ sim.at = "loop"
    /\ sim' = [sim EXCEPT !.at = "clock", !.stop = @ \/ (sim.left # NoLimit /\ sim.left <= 1),
                          !.left = IF @ > 0 THEN @ - 1 ELSE @]
    /\ UNCHANGED <<program, wave>> /\ LoaderStays

(* tb_tcm dumps every clock, or waits until a delay has passed; tb_top has *)
(* no process that does.                                                   *)
trace_rtl ==
    IF loader.bench = "tb_top" \/ wave.file # "open" THEN UNCHANGED wave
    ELSE IF wave.delayed THEN \E late \in BOOLEAN : wave' = [wave EXCEPT !.delayed = late]
    ELSE wave' = [wave EXCEPT !.unflushed = TRUE]
vl_finish == Goto("exit")

(* A clock of the design may end in an sc_assert of the memory or in       *)
(* $finish.  sc_stop lets no clock through; sc_main then returns.          *)
clk ==
    /\ sim.at = "clock"
    /\ UNCHANGED program /\ LoaderStays
    /\ IF sim.stop THEN Goto("exit") /\ UNCHANGED wave
       ELSE /\ \/ sim' = [sim EXCEPT !.at = "loop", !.edges = TRUE]
               \/ vl_finish
               \/ assert_handler
            /\ trace_rtl

-----------------------------------------------------------------------------
(* exit runs what atexit registered, once.                                 *)
Exit ==
    /\ sim.at = "exit"
    /\ IF program.atexit THEN Aborting("ended") ELSE Goto("ended")
    /\ program' = [program EXCEPT !.atexit = FALSE]
    /\ UNCHANGED wave /\ LoaderStays

(* abort(), of the bench that tb points to, in the steps SIGINT can part.  *)
abortBegins ==
    /\ sim.at = "abort"
    /\ Goto(IF ~program.tb \/ wave.ptr = "NULL" THEN sim.then
            ELSE IF wave.ptr = "wild" THEN "crashed" ELSE "flush")
    /\ UNCHANGED <<program, wave>> /\ LoaderStays
flush ==
    /\ sim.at = "flush"
    /\ Goto("close")
    /\ wave' = [wave EXCEPT !.unflushed = FALSE]
    /\ UNCHANGED program /\ LoaderStays
close ==
    /\ sim.at = "close"
    /\ Goto("forget")
    /\ wave' = [wave EXCEPT !.file = "closed"]
    /\ UNCHANGED program /\ LoaderStays
forget ==
    /\ sim.at = "forget"
    /\ Goto(sim.then)
    /\ wave' = [wave EXCEPT !.ptr = "NULL"]
    /\ UNCHANGED program /\ LoaderStays

(* The handler's abort, then exit(1); a second SIGINT waits for the return *)
(* of the handler, which never comes.                                      *)
sigint_handler ==
    /\ ~Ended /\ program.sigint # "masked"
    /\ IF program.sigint = "handler" THEN Aborting("exit") ELSE Goto("ended")
    /\ program' = [program EXCEPT !.sigint = "masked"]
    /\ UNCHANGED wave /\ LoaderStays

TestBenchNext ==
    \/ Register \/ Named
    \/ \E waves \in Waves : testbench(waves)
    \/ \E help \in BOOLEAN, limit \in CycleLimits \cup {NoLimit} : Options(help, limit)
    \/ Load \/ LoadDone \/ Release \/ Loop \/ clk
    \/ Exit \/ abortBegins \/ flush \/ close \/ forget
    \/ sigint_handler
TestBenchSpec == TestBenchInit /\ [][TestBenchNext]_benchProgram

-----------------------------------------------------------------------------
(* The design is never clocked on a memory that did not load, although the *)
(* process goes on after it has called sc_stop.                            *)
RunsLoaded == sim.edges => loader.at = "true"

(* Whichever way the program ends, by itself, by an assertion or by SIGINT *)
(* in whatever it was doing, a wave file that abort() knows of is closed   *)
(* with all that was dumped in it.                                         *)
WaveClosed == (sim.at = "ended" /\ program.tb) => wave.file # "open" /\ ~wave.unflushed
=============================================================================
