----------------------------- MODULE MCSoftware -----------------------------
(***************************************************************************)
(* The programs around the design, each on its own: what runs on the CPU   *)
(* (hello, segger), the simulator that loads it (bench) and the tool that  *)
(* turns it into memory contents (coe).  One part moves, the others keep   *)
(* their initial state.                                                    *)
(***************************************************************************)
EXTENDS Hello, Segger, TestBench, HexToCoe

VARIABLES
    part

helloOwn == <<timer, csr, cpu, told>>
seggerOwn == <<pc, g, loc, mtime, get, times, text, polled, line, printed>>
software == <<part, uart, helloOwn, seggerOwn, benchProgram, coe>>

SoftwareInit ==
    /\ part \in {"hello", "segger", "bench", "coe"}
    /\ HelloInit /\ SeggerInit /\ TestBenchInit /\ HexInit
    /\ part # "segger" => mtime = 1
    /\ part # "bench" => loader.bench = "tb_top"

SoftwareNext ==
    /\ part' = part
    /\ \/ part = "hello" /\ HelloNext /\ UNCHANGED <<seggerOwn, benchProgram, coe>>
       \/ part = "segger" /\ SeggerNext /\ UNCHANGED <<helloOwn, benchProgram, coe>>
       \/ part = "bench" /\ TestBenchNext /\ UNCHANGED <<uart, helloOwn, seggerOwn, coe>>
       \/ part = "coe" /\ HexNext /\ UNCHANGED <<uart, helloOwn, seggerOwn, benchProgram>>

SoftwareSpec == SoftwareInit /\ [][SoftwareNext]_software /\ (part = "hello" => HelloFair)
=============================================================================
