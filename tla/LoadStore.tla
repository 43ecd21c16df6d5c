----------------------------- MODULE LoadStore ------------------------------
(***************************************************************************)
(* The load/store unit (biriscv_lsu.v): one register stage in front of the *)
(* data memory port (E1), one access outstanding, a dummy answer for a     *)
(* misaligned one, and the small queue that tells an answer's access.      *)
(*                                                                         *)
(* An access is [op, cached, addr]; "maint" stands for the three cache     *)
(* operations (flush, writeback, invalidate), "none" for a cycle without   *)
(* an access, whose cacheability is that of whatever address was computed. *)
(* Byte lanes, sign extension and the data are left out.                   *)
(***************************************************************************)
EXTENDS Naturals, Sequences

CONSTANT Addrs    \* addresses; words of a device and lines of memory alike

VARIABLES
    e1,           \* mem_rd_q, mem_wr_q, ...: the access in E1
    lsuPend,      \* pending_lsu_e2_q
    unalignedE2,  \* mem_unaligned_e2_q
    lsuFifo       \* u_lsu_request

lsuVars == <<e1, lsuPend, unalignedE2, lsuFifo>>

LoadsStores == {"rd", "wr"}
Accesses == [op : LoadsStores \cup {"unaligned", "maint", "none"}, cached : BOOLEAN, addr : Addrs]
NoAddr == CHOOSE a \in Addrs : TRUE
Nothing(cached) == [op |-> "none", cached |-> cached, addr |-> NoAddr]

LsuInit == /\ e1 = Nothing(FALSE) /\ lsuPend = FALSE
           /\ unalignedE2 = FALSE /\ lsuFifo = <<>>

(* ok: the outstanding access is answered without an error.                *)
Delayed(ok) == lsuPend /\ ~ok

(* What E1 asks of the memory: a load or a store waits for the answer of   *)
(* the one before it.                                                      *)
RequestsMemoryEager(ok) == e1.op \in LoadsStores \cup {"maint"}
RequestsMemory(ok) == \/ e1.op \in LoadsStores /\ ~Delayed(ok)
                      \/ e1.op = "maint"

(* stall_o: the issue stage may not send an access.                        *)
LsuStall(accept, ok) == \/ RequestsMemory(ok) /\ ~accept
                        \/ Delayed(ok)
                        \/ e1.op = "unaligned"

FaultE2(ack, err) == (ack /\ err) \/ unalignedE2

E1AfterKeepsYounger(in, accept, ack, err) ==
    IF \/ e1.op \in LoadsStores \cup {"unaligned"} /\ Delayed(ack /\ ~err)
       \/ RequestsMemory(ack /\ ~err) /\ ~accept
    THEN e1 ELSE in
E1After(in, accept, ack, err) ==
    IF FaultE2(ack, err) THEN Nothing(FALSE)
    ELSE IF \/ e1.op \in LoadsStores \cup {"unaligned"} /\ Delayed(ack /\ ~err)
            \/ RequestsMemory(ack /\ ~err) /\ ~accept
         THEN e1 ELSE in

(* in: the access the issue stage sends in this cycle.                     *)
LsuTick(in, accept, ack, err) ==
    LET issue == RequestsMemory(ack /\ ~err) /\ accept
        dummy == e1.op = "unaligned" /\ ~Delayed(ack /\ ~err)
        rest == IF (ack \/ unalignedE2) /\ lsuFifo # <<>> THEN Tail(lsuFifo) ELSE lsuFifo
    IN  /\ e1' = E1After(in, accept, ack, err)
        /\ lsuPend' = (issue \/ (lsuPend /\ ~ack))
        /\ unalignedE2' = dummy
        /\ lsuFifo' = IF (issue \/ dummy) /\ Len(lsuFifo) < 2 THEN Append(rest, e1) ELSE rest
=============================================================================
