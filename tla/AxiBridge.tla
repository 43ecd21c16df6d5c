----------------------------- MODULE AxiBridge ------------------------------
(***************************************************************************)
(* dcache_axi.v with its dcache_axi_axi.v: the queue of requests in front  *)
(* of the bus, the two burst counters, the number of answers awaited, and  *)
(* the AXI write channels, which may be taken at different times.          *)
(*                                                                         *)
(* An entry is [op, addr, len, beat]: len is beats - 1, given with the     *)
(* first beat of a write burst and zero on the others; beat stands for the *)
(* data.  The slave is external: it takes addresses and data when it likes *)
(* and answers a burst it has the whole of.                                *)
(***************************************************************************)
EXTENDS Naturals, Sequences

CONSTANTS
    Beats,   \* of a cache line (8 in the code)
    NoBeat,  \* the empty skid buffer
    WFirst   \* whether the slave may take the first data before its address

ASSUME BeatsAssumption == Beats \in 2..256
ASSUME WFirstAssumption == WFirst \in BOOLEAN

VARIABLES
    reqFifo,                \* u_req
    reqCnt,                 \* req_cnt_q of dcache_axi
    outstanding,            \* resp_outstanding_q
    awInhibit, wInhibit,    \* awvalid_inhibit_q, wvalid_inhibit_q
    beatCnt,                \* req_cnt_q of dcache_axi_axi
    skid,                   \* buf_q, NoBeat when buf_valid_q is 0
    bus                     \* the slave: addresses and data taken, reads with the
                            \* beats still due, and what it took and gave in
                            \* the last clock

axiVars == <<reqFifo, reqCnt, outstanding, awInhibit, wInhibit, beatCnt, skid, bus>>

AxiInit ==
    /\ reqFifo = <<>> /\ reqCnt = 0 /\ outstanding = 0
    /\ awInhibit = FALSE /\ wInhibit = FALSE /\ beatCnt = 0 /\ skid = NoBeat
    /\ bus = [aw |-> <<>>, w |-> <<>>, ar |-> <<>>, took |-> {}, gave |-> "none"]

AxiAccepts == Len(reqFifo) # 2

(* What is offered on the three request channels.                          *)
CanIssue == reqFifo # <<>> /\ outstanding # 2
Request == Head(reqFifo)
IsWrite == CanIssue /\ Request.op = "wr"
ArValid == CanIssue /\ Request.op = "rd"
AwValid == IsWrite /\ ~awInhibit
WValidNoSkid == IsWrite /\ ~wInhibit
WValid == skid # NoBeat \/ (IsWrite /\ ~wInhibit)
Address == [addr |-> Request.addr, len |-> Request.len]
LastBeatEarly == (AwValid /\ Request.len = 0) \/ beatCnt \in {1, 2}
LastBeat == (AwValid /\ Request.len = 0) \/ beatCnt = 1
Data == IF skid # NoBeat THEN skid
        ELSE [addr |-> Request.addr, beat |-> Request.beat, last |-> LastBeat]

(* What the slave may do in a cycle; an answer is "none", "ok" or "err".   *)
Readies == {r \in SUBSET {"aw", "w", "ar"} :
              /\ "aw" \in r => AwValid
              /\ "w" \in r => WValid
              /\ "ar" \in r => ArValid
              /\ ~WFirst /\ "w" \in r /\ AwValid => "aw" \in r}
Written == \E k \in DOMAIN bus.w : bus.w[k].last
Answers == {"none", "ok", "err"}
WriteAnswers == IF bus.aw # <<>> /\ Written THEN Answers ELSE {"none"}
ReadAnswers == IF bus.ar # <<>> THEN Answers ELSE {"none"}

(* One request leaves the queue when either write channel takes its part.  *)
Accepted(rdy) == \/ "aw" \in rdy
                 \/ "w" \in rdy /\ skid = NoBeat
                 \/ "ar" \in rdy

BeatCntAfterBelowZero(rdy) ==
    IF "aw" \in rdy THEN (IF "w" \notin rdy /\ ~wInhibit THEN Request.len + 1 ELSE Request.len)
    ELSE IF "w" \in rdy \/ "ar" \in rdy THEN beatCnt - 1 ELSE beatCnt
BeatCntAfter(rdy) ==
    IF "aw" \in rdy THEN (IF "w" \notin rdy /\ ~wInhibit THEN Request.len + 1 ELSE Request.len)
    ELSE IF beatCnt # 0 /\ "w" \in rdy THEN beatCnt - 1 ELSE beatCnt

AwInhibitAfter(rdy) ==
    IF "aw" \in rdy /\ ((WValid /\ "w" \notin rdy) \/ Request.len # 0) THEN TRUE
    ELSE IF "w" \in rdy /\ Data.last THEN FALSE ELSE awInhibit

ReqCntAfter(rdy) ==
    IF ~IsWrite \/ ~Accepted(rdy) THEN reqCnt
    ELSE IF reqCnt # 0 THEN reqCnt - 1
    ELSE IF Request.len # 0 THEN Request.len - 1 ELSE 0

(* An answer is awaited for each read and for the last beat of a write.    *)
Await(rdy) == /\ Accepted(rdy)
              /\ ArValid \/ (Request.len = 0 /\ reqCnt = 0)
LastAnswer(b, r) == b # "none" \/ (r # "none" /\ bus.ar[1].left = 0)
OutstandingAfter(rdy, b, r) ==
    LET up == Await(rdy) /\ outstanding # 2
        down == LastAnswer(b, r) /\ outstanding # 0
    IN  IF up /\ ~down THEN outstanding + 1
        ELSE IF down /\ ~up THEN outstanding - 1 ELSE outstanding

ReadsAfter(rdy, r) ==
    LET given == IF r = "none" THEN bus.ar
                 ELSE IF bus.ar[1].left = 0 THEN Tail(bus.ar)
                 ELSE [bus.ar EXCEPT ![1].left = @ - 1]
    IN  IF "ar" \in rdy THEN Append(given, [addr |-> Request.addr, left |-> Request.len]) ELSE given

(* The data of the burst that is answered: up to the first last beat.      *)
BurstEnd == CHOOSE k \in DOMAIN bus.w : bus.w[k].last /\ \A j \in 1..(k - 1) : ~bus.w[j].last
BusTick(rdy, b, r) ==
    LET aw == IF b = "none" THEN bus.aw ELSE Tail(bus.aw)
        w == IF b = "none" THEN bus.w ELSE SubSeq(bus.w, BurstEnd + 1, Len(bus.w))
    IN  bus' = [aw |-> IF "aw" \in rdy THEN Append(aw, Address) ELSE aw,
                w |-> IF "w" \in rdy THEN Append(w, Data) ELSE w,
                ar |-> ReadsAfter(rdy, r),
                took |-> rdy, gave |-> IF b = "none" THEN r ELSE b]

(* push: the entries offered in this cycle, none or one.                   *)
AxiTick(push, rdy, b, r) ==
    LET rest == IF Accepted(rdy) THEN Tail(reqFifo) ELSE reqFifo
    IN  /\ reqFifo' = IF AxiAccepts THEN rest \o push ELSE rest
        /\ reqCnt' = ReqCntAfter(rdy)
        /\ outstanding' = OutstandingAfter(rdy, b, r)
        /\ awInhibit' = AwInhibitAfter(rdy)
        /\ wInhibit' = IF "w" \in rdy /\ AwValid /\ "aw" \notin rdy THEN TRUE
                       ELSE IF "aw" \in rdy THEN FALSE ELSE wInhibit
        /\ beatCnt' = BeatCntAfter(rdy)
        /\ skid' = IF WValid /\ "w" \notin rdy /\ "aw" \in rdy THEN Data
                   ELSE IF "w" \in rdy THEN NoBeat ELSE skid
        /\ BusTick(rdy, b, r)
=============================================================================
