----------------------------- MODULE BenchPath ------------------------------
(***************************************************************************)
(* The data side of the tb_top bench: the path of MemoryPath in front of   *)
(* the bench's own AXI memory instead of any slave.  What MemoryPath       *)
(* assumes of a slave is here a property of this one.                      *)
(***************************************************************************)
EXTENDS MemoryPath, BenchSlave

benchVars == <<vars, slave>>

Word(addr, beat) == addr * Beats + beat

(* riscv_top.cpp: the wires between the design and the memory.             *)
Req(valid) == IF valid THEN <<[at |-> Word(Request.addr, 0), len |-> Request.len]>> ELSE <<>>
Offered == [ar |-> Req(ArValid), aw |-> Req(AwValid),
            w |-> IF WValid THEN <<Data>> ELSE <<>>]
GivenB == IF slave.b THEN "ok" ELSE "none"
GivenR == IF slave.r # <<>> THEN "ok" ELSE "none"

(* The cache controller goes from burst to burst at once: its pauses are   *)
(* in MemoryPath, here the slave holds up every channel.                   *)
BenchClock(in, delays) ==
    /\ Clock(in, Taken(Offered), GivenB, GivenR, TRUE)
    /\ SlaveTick(Offered, delays)

BenchInit == Init /\ SlaveInit
BenchNext == \E in \in Sends, delays \in Delays(Offered) : BenchClock(in, delays)

(* Each delay is a coin tossed anew in every clock, so that clocks without *)
(* a delay keep coming; while an access hangs, the stalled load/store unit *)
(* lets nothing be sent.                                                   *)
Quiet == BenchClock(Nothing(e1.cached), {})
BenchSpec == BenchInit /\ [][BenchNext]_benchVars

-----------------------------------------------------------------------------
(* The memory is a slave as MemoryPath assumes one: it takes no data       *)
(* before their address, answers only bursts it has the whole of, and      *)
(* marks the last beat of a read; its own assertion never fails.  And      *)
(* every beat is stored at the word it was meant for, whatever became of   *)
(* the address meanwhile.                                                  *)
MeetsContract ==
    /\ AddressRecorded(Offered)
    /\ Taken(Offered) \in Readies
    /\ GivenB \in WriteAnswers
    /\ GivenR \in ReadAnswers
    /\ slave.r # <<>> => slave.r[1].last = (bus.ar[1].left = 0)
    /\ \A k \in DOMAIN slave.wrQ :
          LET item == slave.wrQ[k] IN item.at = Word(item.data.addr, item.data.beat)

(* The read and the write channel are queued apart and a read is served    *)
(* whenever its delay ends: it must not be there before the last write to  *)
(* its word has been stored.                                               *)
Unstored == {slave.wrQ[k].at : k \in DOMAIN slave.wrQ}
            \cup (IF skid = NoBeat THEN {} ELSE {Word(skid.addr, skid.beat)})
            \cup (IF slave.wrReq = <<>> THEN {}
                  ELSE {w \in {Word(a, b) : a \in Addrs, b \in 0..(Beats - 1)} :
                          /\ w >= slave.wrReq[1].at
                          /\ w \div Beats = slave.wrReq[1].at \div Beats})
ReadsSeeWrites == \A k \in DOMAIN slave.rdQ : slave.rdQ[k].at \notin Unstored
=============================================================================
