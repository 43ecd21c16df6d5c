----------------------------- MODULE MCPipeline -----------------------------
(***************************************************************************)
(* Instances of Pipeline: two pairs of words (four instructions fill both  *)
(* pipes twice), registers 0 to 2, three values.  A run's programs are all *)
(* those its instructions can make.                                        *)
(***************************************************************************)
EXTENDS Pipeline

MCPCs == 0..3
MCRegs == 0..2
MCData == 0..2
SmallRegs == 0..1
SmallData == 0..1

I(kind, rd, ra, to) == [kind |-> kind, rd |-> rd, ra |-> ra, to |-> to]

(* Units of every latency, chained through registers 1 and 2.  The program *)
(* runs round and round, so one of each two that differ by the pair they   *)
(* start with is enough, and of two divisions the later is the earlier one *)
(* of the next round.                                                      *)
DataInstrs ==
    <<I("alu", 1, 1, 0), I("alu", 2, 1, 0), I("load", 1, 2, 0), I("mul", 2, 1, 0),
      I("div", 1, 1, 0), I("csr", 2, 1, 0), I("store", 0, 1, 0)>>
DataPrograms == {[p \in PCs |-> DataInstrs[f[p]]] :
                  f \in {g \in [PCs -> 1..7] :
                          /\ 8 * g[0] + g[1] <= 8 * g[2] + g[3]
                          /\ \A p, q \in PCs : g[p] = 5 /\ g[q] = 5 => p = q}}

(* Everything that moves the pc and needs no interrupt.                    *)
TrapInstrs ==
    {I("alu", 1, 1, 0), I("branch", 0, 1, 3), I("badjump", 1, 1, 0), I("load", 1, 1, 0),
     I("trap", 0, 0, 0), I("fault", 1, 1, 0), I("fence", 0, 0, 0)}
TrapPrograms == [PCs -> TrapInstrs]

(* Interrupts against memory, CSR accesses and returns from the handler,   *)
(* which is at words 2 and 3.                                              *)
MainInstrs == {I("alu", 1, 1, 0), I("branch", 0, 1, 3), I("store", 0, 1, 0), I("csr", 1, 1, 0)}
InterruptPrograms ==
    {f \in [PCs -> MainInstrs \cup {I("eret", 0, 0, 0)}] :
        /\ f[0] \in MainInstrs /\ f[1] \in MainInstrs
        /\ f[2].kind \in {"alu", "csr"} /\ f[3].kind \in {"eret", "store"}}

(* The same with loads and multiplies and their users, for a pipe without  *)
(* their bypasses.                                                         *)
SlowPrograms ==
    {[p \in PCs |-> IF p = 0 THEN slow ELSE IF p = 1 THEN user
                    ELSE IF p = 2 THEN I("alu", 1, 1, 0) ELSE I("eret", 0, 0, 0)] :
        slow \in {I("load", 1, 1, 0), I("mul", 1, 1, 0)},
        user \in MainInstrs \cup {I("load", 1, 1, 0), I("mul", 1, 1, 0)}}
HandledPrograms == InterruptPrograms \cup SlowPrograms

(* One long or rare thing each: what must end (a division, a CSR access    *)
(* that an interrupt, a fault or a misaligned jump abandons, a write of    *)
(* satp), and the two findings.                                            *)
DrainPrograms ==
    {[p \in PCs |-> IF p = 0 THEN I("load", 1, 1, 0) ELSE IF p = 1 THEN second
                    ELSE IF p = 2 THEN I("csr", 1, 1, 0) ELSE I("branch", 0, 1, 0)] :
        second \in {I("div", 1, 1, 0), I("csr", 1, 1, 0), I("badjump", 0, 1, 2), I("satp", 1, 1, 0)}}
RepeatPrograms ==
    {[p \in PCs |-> IF p = 1 THEN I("branch", 0, 0, 0)
                    ELSE IF p = 2 THEN I("eret", 0, 0, 0)
                    ELSE IF p = 3 THEN I("csr", 1, 1, 0) ELSE I("store", 0, 1, 0)]}
DividePrograms == {[p \in PCs |-> IF p = 3 THEN I("alu", 1, 1, 0) ELSE I("div", 1, 1, 0)]}
=============================================================================
