---------------------------- MODULE MemoryPath ------------------------------
(***************************************************************************)
(* The way of an access from the issue stage to the bus and back, as       *)
(* dcache.v wires it: the load/store unit, the mux between cached and      *)
(* uncached accesses (dcache_mux.v), the queues of the uncached ones       *)
(* (dcache_if_pmem.v), the mux in front of the bus (dcache_pmem_mux.v) and *)
(* the AXI bridge.  One step is one clock.                                 *)
(*                                                                         *)
(* Of the cache controller only the bursts it makes are here, in the order *)
(* DCacheCore gives them: a hit, a refill, an eviction and a refill, and   *)
(* for a maintenance operation any evictions.  Maintenance of an uncached  *)
(* address, which dcache_if_pmem.v would drop, is never asked for: the     *)
(* load/store unit marks it cached.                                        *)
(***************************************************************************)
EXTENDS LoadStore, AxiBridge

CONSTANTS MaxEvictions   \* of one maintenance operation

ASSUME AddrsAssumption == Addrs # {}
ASSUME EvictionsAssumption == MaxEvictions \in Nat
ASSUME NoBeatAssumption == NoBeat \notin [addr : Addrs, beat : 0..(Beats - 1), last : BOOLEAN]

VARIABLES
    muxPend, muxCached,   \* pending_q and cache_access_q of dcache_mux
    unc,                  \* dcache_if_pmem: [reqs, resps, pend]
    selectQ,              \* select_q of dcache_pmem_mux: TRUE is the cache
    core                  \* the controller: [req, plan, left, err]

vars == <<lsuVars, axiVars, muxPend, muxCached, unc, selectQ, core>>

-----------------------------------------------------------------------------
(* The controller: the bursts still to be made for the access in hand, and *)
(* of the first of them the beats still to be sent (a write) or received   *)
(* (a read, one more until it is requested).                               *)
Burst(op, a) == [op |-> op, addr |-> a]
Plans(r) ==
    IF r.op = "maint"
    THEN UNION {[1..n -> {Burst("wr", v) : v \in Addrs}] : n \in 0..MaxEvictions}
    ELSE {<<>>, <<Burst("rd", r.addr)>>}
         \cup {<<Burst("wr", v), Burst("rd", r.addr)>> : v \in Addrs}
BeatsOf(plan) == IF plan = <<>> THEN 0 ELSE IF Head(plan).op = "wr" THEN Beats ELSE Beats + 1
WithPlan(c, plan) == [c EXCEPT !.plan = plan, !.left = BeatsOf(plan)]
IdleCore == [req |-> Nothing(FALSE), plan |-> <<>>, left |-> 0, err |-> FALSE]

CoreAck == core.req.op # "none" /\ core.plan = <<>>
CoreAccepts == core.plan = <<>> /\ ~(core.req.op = "wr" /\ e1.op = "rd" /\ e1.addr = core.req.addr)

(* An answer of the bus: a whole write burst, or one beat of a read.       *)
CoreAnswered(ack, err) ==
    LET c == [core EXCEPT !.err = @ \/ err]
    IN  IF ~ack THEN core
        ELSE IF core.plan = <<>> THEN c
        ELSE IF Head(core.plan).op = "wr" \/ core.left = 1 THEN WithPlan(c, Tail(core.plan))
        ELSE [c EXCEPT !.left = @ - 1]

(* A refill is requested in the clock that ends an eviction.               *)
CoreOffers(go, ack, err) ==
    LET c == CoreAnswered(ack, err)
        first == c.left = BeatsOf(c.plan)
    IN  IF \/ c.plan = <<>> \/ (first /\ ~go)
           \/ (ack /\ Head(c.plan).op = "wr")
           \/ (Head(c.plan).op = "wr" /\ c.left = 0) \/ (Head(c.plan).op = "rd" /\ ~first)
        THEN <<>>
        ELSE <<[op |-> Head(c.plan).op, addr |-> Head(c.plan).addr,
                len |-> IF first THEN Beats - 1 ELSE 0,
                beat |-> IF Head(c.plan).op = "wr" THEN Beats - c.left ELSE 0]>>

CoreTick(asked, sent, ack, err) ==
    LET c == CoreAnswered(ack, err)
    IN  IF asked THEN \E plan \in Plans(e1) : core' = WithPlan([IdleCore EXCEPT !.req = e1], plan)
        ELSE IF CoreAck THEN core' = IdleCore
        ELSE core' = IF sent THEN [c EXCEPT !.left = @ - 1] ELSE c

-----------------------------------------------------------------------------
(* Uncached accesses: a queue of requests, a count of answers to come, and *)
(* one access at a time on the bus.                                        *)
UncAccepts == Len(unc.reqs) # 2 /\ unc.resps # 2
UncOffers(ack) ==
    IF unc.reqs = <<>> \/ (unc.pend /\ ~ack) THEN <<>>
    ELSE <<[op |-> Head(unc.reqs).op, addr |-> Head(unc.reqs).addr, len |-> 0, beat |-> 0]>>

UncTick(asked, sent, ack) ==
    LET rest == IF sent THEN Tail(unc.reqs) ELSE unc.reqs
        less == IF ack /\ unc.resps # 0 THEN unc.resps - 1 ELSE unc.resps
    IN  unc' = [reqs |-> IF asked THEN Append(rest, Burst(e1.op, e1.addr)) ELSE rest,
                resps |-> IF asked THEN less + 1 ELSE less,
                pend |-> sent \/ (unc.pend /\ ~ack)]

-----------------------------------------------------------------------------
(* The mux in front of both: an access of the other kind waits until the   *)
(* answers of this kind are in.                                            *)
Hold == muxPend # 0 /\ muxCached # e1.cached
MemAccept == ~Hold /\ IF e1.cached THEN CoreAccepts ELSE UncAccepts
MuxPendAfter(issue, ack) == IF issue /\ ~ack THEN (muxPend + 1) % 32
                            ELSE IF ack /\ ~issue THEN (muxPend + 31) % 32 ELSE muxPend

(* Which of the two has the bus.                                           *)
SelectOfRequest == e1.cached
Select == IF muxPend # 0 THEN muxCached ELSE e1.cached

Sent(push) == push # <<>> /\ AxiAccepts

(* A clock: what the issue stage sends, what the bus takes and answers,    *)
(* whether the controller goes on with its next burst.                     *)
Clock(in, rdy, b, r, go) ==
    LET busAck == b # "none" \/ r # "none"
        busErr == IF b # "none" THEN b = "err" ELSE r = "err"
        coreGets == selectQ /\ busAck
        uncGets == ~selectQ /\ busAck
        ack == IF muxCached THEN CoreAck ELSE uncGets
        err == IF muxCached THEN core.err ELSE uncGets /\ busErr
        issue == RequestsMemory(ack /\ ~err) /\ MemAccept
        push == IF Select THEN CoreOffers(go, coreGets, busErr) ELSE UncOffers(uncGets)
    IN  /\ in.op # "none" => ~LsuStall(MemAccept, ack /\ ~err) /\ ~FaultE2(ack, err)
        /\ LsuTick(in, MemAccept, ack, err)
        /\ muxPend' = MuxPendAfter(issue, ack)
        /\ muxCached' = IF issue THEN e1.cached ELSE muxCached
        /\ selectQ' = Select
        /\ UncTick(issue /\ ~e1.cached, ~Select /\ Sent(push), uncGets)
        /\ CoreTick(issue /\ e1.cached, Select /\ Sent(push), coreGets, busErr)
        /\ AxiTick(push, rdy, b, r)

Init == /\ LsuInit /\ AxiInit
        /\ muxPend = 0 /\ muxCached = FALSE /\ selectQ = FALSE
        /\ unc = [reqs |-> <<>>, resps |-> 0, pend |-> FALSE]
        /\ core = IdleCore

(* The scoreboard of biriscv_issue.v sends no cache operation behind a     *)
(* load or store in E1, and nothing behind a cache operation.              *)
Sends == {Nothing(c) : c \in BOOLEAN}
         \cup (IF e1.op = "maint" THEN {} ELSE
                 {a \in Accesses : /\ a.op # "none" /\ (a.op = "maint" => a.cached)
                                   /\ a.op = "maint" => e1.op = "none"})

Next == \E in \in Sends, rdy \in Readies, b \in WriteAnswers, r \in ReadAnswers, go \in BOOLEAN :
            Clock(in, rdy, b, r, go)

Spec == Init /\ [][Next]_vars

(* The bus takes what is offered and answers what it has.                  *)
Willing == \E in \in Sends, rdy \in Readies, b \in WriteAnswers, r \in ReadAnswers :
              /\ AwValid => "aw" \in rdy
              /\ WValid => "w" \in rdy
              /\ ArValid => "ar" \in rdy
              /\ (bus.aw # <<>> /\ Written) => b # "none"
              /\ bus.ar # <<>> => r # "none"
              /\ Clock(in, rdy, b, r, TRUE)
FairSpec == Spec /\ WF_vars(Willing)

-----------------------------------------------------------------------------
Entries == [op : LoadsStores, addr : Addrs, len : 0..(Beats - 1), beat : 0..(Beats - 1)]
TypeOK ==
    /\ e1 \in Accesses /\ lsuPend \in BOOLEAN /\ unalignedE2 \in BOOLEAN
    /\ \A k \in DOMAIN lsuFifo : lsuFifo[k] \in Accesses
    /\ \A k \in DOMAIN reqFifo : reqFifo[k] \in Entries
    /\ Len(lsuFifo) \in 0..2 /\ Len(reqFifo) \in 0..2
    /\ reqCnt \in 0..(Beats - 1) /\ outstanding \in 0..2
    /\ awInhibit \in BOOLEAN /\ wInhibit \in BOOLEAN /\ beatCnt \in 0..Beats
    /\ muxPend \in 0..31 /\ muxCached \in BOOLEAN /\ selectQ \in BOOLEAN
    /\ unc.resps \in 0..2 /\ unc.pend \in BOOLEAN
    /\ core.req \in Accesses /\ core.left \in 0..(Beats + 1) /\ core.err \in BOOLEAN

(* The access the load/store unit awaits an answer of.                     *)
Awaited == lsuFifo # <<>> /\ Head(lsuFifo).op # "unaligned"
Access == Head(lsuFifo)
OnBus == Len(bus.aw) + Len(bus.ar)
InFlight == Len(unc.reqs) + Len(reqFifo) + OnBus

(* A device sees an access once: while it is awaited it is in one place of *)
(* the path, as it was asked; nothing of it is left once it is answered,   *)
(* and a burst of the cache never mixes with it.                           *)
Mine(x, op) == x.addr = Access.addr /\ Access.op = op
AccessedOnce ==
    /\ ~Awaited => InFlight = 0 /\ skid = NoBeat /\ outstanding = 0 /\ muxPend = 0 /\ ~lsuPend
    /\ Awaited => Len(lsuFifo) = 1 /\ muxPend = 1 /\ lsuPend /\ muxCached = Access.cached
    /\ Awaited /\ ~Access.cached =>
         /\ InFlight = 1
         /\ \A k \in DOMAIN unc.reqs : unc.reqs[k] = Burst(Access.op, Access.addr)
         /\ \A k \in DOMAIN reqFifo : Mine(reqFifo[k], reqFifo[k].op)
         /\ \A k \in DOMAIN bus.aw : Mine(bus.aw[k], "wr")
         /\ \A k \in DOMAIN bus.ar : Mine(bus.ar[k], "rd")
    /\ Awaited /\ Access.cached => unc.reqs = <<>> /\ OnBus <= 1

(* On the AXI write channels every burst comes whole: the data beats are   *)
(* those of the address they come with, each once, in order, and the last  *)
(* one and no other is marked as the last.                                 *)
BurstsWhole ==
    bus.aw # <<>> => \A k \in DOMAIN bus.w :
        bus.w[k] = [addr |-> bus.aw[1].addr, beat |-> k - 1, last |-> k - 1 = bus.aw[1].len]

(* AXI: what is offered and not taken is offered again, unchanged.         *)
AxiStable ==
    [][/\ AwValid /\ "aw" \notin bus'.took => AwValid' /\ Address' = Address
       /\ WValid /\ "w" \notin bus'.took => WValid' /\ Data' = Data
       /\ ArValid /\ "ar" \notin bus'.took => ArValid' /\ Address' = Address]_vars

(* A fault calls the access behind it back before it is asked for: when a  *)
(* faulty one is answered, none is awaited any more and none is in E1.     *)
FaultCallsBack ==
    [][\/ unalignedE2
       \/ Awaited /\ IF muxCached THEN CoreAck /\ core.err ELSE bus'.gave = "err"
       => e1'.op = "none" /\ lsuFifo' = <<>>]_vars

(* The path implements one memory port.                                    *)
Served == IF Access.cached THEN core.plan = <<>>
          ELSE IF Access.op = "wr" THEN bus.aw # <<>> /\ bus.aw[1].addr = Access.addr /\ Written
          ELSE bus.ar # <<>> /\ bus.ar[1].addr = Access.addr
Port == IF ~Awaited THEN [st |-> "idle"]
        ELSE [st |-> IF Served THEN "served" ELSE "asked", req |-> Access]
MP == INSTANCE MemoryPort WITH port <- Port, Access <- Accesses
ImplementsMemoryPort == MP!Spec

(* Every access is carried out, and one of a device is answered.           *)
Answered == /\ Port.st = "asked" ~> Port.st = "served"
            /\ (Awaited /\ ~Access.cached /\ Served) ~> ~(Awaited /\ ~Access.cached /\ Served)
=============================================================================
