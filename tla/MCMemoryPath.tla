--------------------------- MODULE MCMemoryPath -----------------------------
(* Two addresses, so that an answer or a beat that belongs to another      *)
(* access is seen, and lines of four beats (the code has eight): a first,  *)
(* a last and two between.  The bus leads to any slave that keeps the      *)
(* contract, or to the memory of the bench.                                *)
EXTENDS BenchPath

VARIABLES
    bench   \* the slave is that of the bench

MCAddrs == {0, 1}

PathNext ==
    /\ bench' = bench
    /\ \/ ~bench /\ Next /\ slave' = slave
       \/ bench /\ BenchNext
PathVars == <<bench, vars, slave>>
PathInit == bench \in BOOLEAN /\ BenchInit
PathSpec ==
    /\ PathInit
    /\ [][PathNext]_PathVars
    /\ WF_PathVars(~bench /\ Willing /\ UNCHANGED <<bench, slave>>)
    /\ WF_PathVars(bench /\ Quiet /\ UNCHANGED bench)
=============================================================================
