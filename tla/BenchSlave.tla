----------------------------- MODULE BenchSlave -----------------------------
(***************************************************************************)
(* The AXI memory of the SystemC test bench (tb_axi4_mem.cpp), clocked     *)
(* with the design: it unrolls a burst into single accesses when it takes  *)
(* the address, keeps them in two queues, and draws a delay for each       *)
(* answer and each ready signal.  BREADY and RREADY of the design are      *)
(* always up.                                                              *)
(*                                                                         *)
(* Addresses are those of words.  A request is [at, len]; offered is a     *)
(* record of the three request channels, each empty or with one element.   *)
(***************************************************************************)
EXTENDS Naturals, Sequences

CONSTANTS
    QueueMax,    \* accesses queued before ready goes down (128 in the code)
    BurstType    \* of the design's bursts: "incr" in both caches

ASSUME QueueMaxAssumption == QueueMax \in Nat \ {0}
ASSUME BurstTypeAssumption == BurstType \in {"incr", "wrap", "fixed"}

VARIABLES
    slave   \* axi_rd_q, axi_wr_q, axi_wr_req (empty when its AWVALID is 0)
            \* and the outputs: the channels that are ready, R and B

Channels == {"ar", "aw", "w", "r", "b"}
SlaveInit == slave = [rdQ |-> <<>>, wrQ |-> <<>>, wrReq |-> <<>>,
                      ready |-> {}, r |-> <<>>, b |-> FALSE]

(* The words a wrapping burst of len + 1 beats stays in.                   *)
WrapWords(len) == IF len + 1 \in {1, 2, 4, 8} THEN len + 1 ELSE 16
NextAddrSkips(at, len) == at + 2
NextAddr(at, len) ==
    CASE BurstType = "wrap" -> at - (at % WrapWords(len)) + ((at + 1) % WrapWords(len))
      [] BurstType = "incr" -> at + 1
      [] OTHER -> at

Unrolled(req) ==
    LET at[k \in 0..req.len] == IF k = 0 THEN req.at ELSE NextAddr(at[k - 1], req.len)
    IN  [k \in 1..(req.len + 1) |-> [at |-> at[k - 1], last |-> k = req.len + 1]]

Taken(offered) == {c \in slave.ready : offered[c] # <<>>}

(* sc_assert(axi_wr_req.AWVALID): data are taken for a recorded address.   *)
AddressRecorded(offered) ==
    "w" \in Taken(offered) => "aw" \in Taken(offered) \/ slave.wrReq # <<>>

(* The data that are taken with the address they go to.                    *)
WriteReq(offered) == IF "aw" \in Taken(offered) THEN offered.aw ELSE slave.wrReq
WrittenTo(offered) ==
    IF "w" \in Taken(offered)
    THEN <<[at |-> WriteReq(offered)[1].at, data |-> offered.w[1], last |-> offered.w[1].last]>>
    ELSE <<>>
WriteReqAfter(offered) ==
    LET req == WriteReq(offered)
    IN  IF "w" \notin Taken(offered) THEN req
        ELSE IF offered.w[1].last THEN <<>>
        ELSE <<[req[1] EXCEPT !.at = NextAddr(@, req[1].len)]>>

(* AWREADY is masked last, after WREADY has been made of it.               *)
ReadyAfterApart(reads, writes, req, delays) ==
    {c \in {"ar", "aw", "w"} \ delays :
        IF c = "ar" THEN reads < QueueMax
        ELSE writes < QueueMax /\ (c = "aw" => req = <<>>)}
ReadyAfter(reads, writes, req, delays) ==
    {c \in {"ar", "aw", "w"} \ delays :
        IF c = "ar" THEN reads < QueueMax
        ELSE /\ writes < QueueMax
             /\ c = "aw" => req = <<>>
             /\ c = "w" => "aw" \notin delays}

(* A coin is tossed only where it can make a difference.                   *)
Delays(offered) ==
    {d \in SUBSET Channels :
        /\ "aw" \in d => "w" \notin d
        /\ "r" \in d => slave.rdQ # <<>> \/ "ar" \in Taken(offered)
        /\ "b" \in d => slave.wrQ # <<>> \/ "w" \in Taken(offered)}

(* A burst is answered with the last of its accesses.                      *)
EndsBurstEarly(writes) == Len(writes) > 1 /\ writes[2].last
EndsBurst(writes) == Head(writes).last

(* One clock; delays is the set of channels that draw a delay.             *)
SlaveTick(offered, delays) ==
    LET reads == IF "ar" \in Taken(offered) THEN slave.rdQ \o Unrolled(offered.ar[1])
                 ELSE slave.rdQ
        writes == slave.wrQ \o WrittenTo(offered)
        giveR == reads # <<>> /\ "r" \notin delays
        giveB == writes # <<>> /\ "b" \notin delays
        rdQ == IF giveR THEN Tail(reads) ELSE reads
        wrQ == IF giveB THEN Tail(writes) ELSE writes
        req == WriteReqAfter(offered)
    IN  /\ AddressRecorded(offered)
        /\ slave' = [rdQ |-> rdQ, wrQ |-> wrQ, wrReq |-> req,
                     ready |-> ReadyAfter(Len(rdQ), Len(wrQ), req, delays),
                     r |-> IF giveR THEN <<Head(reads)>> ELSE <<>>,
                     b |-> giveB /\ EndsBurst(writes)]
=============================================================================
