----------------------------- MODULE DCacheCore -----------------------------
(***************************************************************************)
(* The data cache controller (dcache_core): two ways, write back, allocate *)
(* on read and write.  One step of the specification is one clock edge,    *)
(* and there is one action for each way the controller state can move on.  *)
(*                                                                         *)
(* At every edge the environment chooses the request `in' presented on the *)
(* mem port, whether the bus accepts (`acc') and whether it answers        *)
(* (`ack').  The bus and the memory behind it are external: they gather a  *)
(* burst, and commit a written line when they acknowledge it.              *)
(*                                                                         *)
(* A word is written whole: byte strobes are left out, and so are the      *)
(* request tags the core hands back, the address of the later beats of a   *)
(* burst, and the data RAM output in cycles whose output nothing reads.    *)
(***************************************************************************)
EXTENDS Integers, Sequences, FiniteSets

CONSTANTS
  NumTags,     (* tag addresses 0 .. NumTags-1 (19 bits in the code)        *)
  NumLines,    (* DCACHE_NUM_LINES: lines of one way                        *)
  LineWords,   (* DCACHE_LINE_WORDS: words, and bus beats, of a line        *)
  Data,        (* the contents of a word                                    *)
  Junk,        (* an arbitrary word: power-on RAM contents, errored reads   *)
  NoData,      (* the empty skid buffer                                     *)
  Unknown,     (* ghost: no promise is made about this word                 *)
  InitMem,     (* the memory when the core leaves reset                     *)
  Requests,    (* what may be presented on the mem port                     *)
  PowerOnTags, (* what a tag RAM entry may hold at power on                 *)
  BusErrors    (* whether the bus may answer with an error                  *)

Ways  == {0, 1}
Tags  == 0 .. NumTags - 1
Lines == 0 .. NumLines - 1
Words == 0 .. LineWords - 1

LineAddr == [tag : Tags, line : Lines]
Addr     == [tag : Tags, line : Lines, word : Words]
Index    == [line : Lines, word : Words]
TagEntry == [valid : BOOLEAN, dirty : BOOLEAN, tag : Tags]

(* The five operations exclude one another; "none" is an idle cycle, whose *)
(* address is whatever the load/store unit last computed.                  *)
Ops     == {"none", "rd", "wr", "inval", "wb", "flush"}
Request == [op : Ops, addr : Addr, data : Data]

States == {"RESET", "FLUSH_ADDR", "FLUSH", "LOOKUP", "READ", "WRITE",
           "REFILL", "EVICT", "EVICT_WAIT", "INVALIDATE", "WRITEBACK"}

Acks == IF BusErrors THEN {"none", "ok", "err"} ELSE {"none", "ok"}

ASSUME SizeAssumption ==
  /\ NumTags \in Nat \ {0}
  /\ NumLines \in Nat \ {0, 1}
  /\ LineWords \in 2 .. 256
ASSUME DataAssumption ==
  /\ Junk \in Data
  /\ NoData \notin Data
  /\ Unknown \notin Data
  /\ InitMem \in [Addr -> Data]
ASSUME RequestAssumption == Requests \subseteq Request
ASSUME PowerOnAssumption == PowerOnTags \subseteq TagEntry
ASSUME BusAssumption == BusErrors \in BOOLEAN

VARIABLES
  state,      (* state_q                                                    *)
  req,        (* the request buffer mem_*_m_q                               *)
  tagRam,     (* u_tag0 and u_tag1, by way                                  *)
  tagOut,     (* their registered read port                                 *)
  dataRam,    (* u_data0 and u_data1, by way                                *)
  dataOut,    (* their registered read port                                 *)
  dataAddr,   (* data_write_addr_q                                          *)
  flush,      (* flushing_q, flush_addr_q and flush_last_q                  *)
  replaceWay, (* replace_way_q                                              *)
  pmem,       (* pmem_rd_q, pmem_wr0_q, pmem_len_q and the skid buffer      *)
  error,      (* error_q                                                    *)
  bus,        (* external: the read and the write burst in flight           *)
  mem,        (* external: the memory                                       *)
  arch        (* ghost: what the program last wrote, Unknown after an error *)
              (* or an invalidate of the line                               *)

vars == <<state, req, tagRam, tagOut, dataRam, dataOut, dataAddr, flush,
          replaceWay, pmem, error, bus, mem, arch>>

-----------------------------------------------------------------------------
(* Addresses *)

LineOf(a)  == [tag |-> a.tag, line |-> a.line]
IndexOf(a) == [line |-> a.line, word |-> a.word]
Base(line) == [line |-> line, word |-> 0]
WordAt(l, w) == [tag |-> l.tag, line |-> l.line, word |-> w]

NextIndexNoWrap(i) ==   (* mutant: runs past the last line *)
  IF i.word = LineWords - 1
  THEN [line |-> i.line + 1, word |-> 0]
  ELSE [i EXCEPT !.word = @ + 1]

NextIndex(i) ==
  IF i.word = LineWords - 1
  THEN [line |-> (i.line + 1) % NumLines, word |-> 0]
  ELSE [i EXCEPT !.word = @ + 1]

NoReq == [op |-> "none", addr |-> [tag |-> 0, line |-> 0, word |-> 0], data |-> Junk]

Entry(v, d, t) == [valid |-> v, dirty |-> d, tag |-> t]
ZeroEntry == Entry(FALSE, FALSE, 0)

-----------------------------------------------------------------------------
(* Wires: functions of the registers *)

Hit(w) == tagOut[w].valid /\ tagOut[w].tag = req.addr.tag
HitAnyFirst == Hit(0)   (* mutant: way 1 forgotten *)
HitAny == \E w \in Ways : Hit(w)
IsDirty(w) == tagOut[w].valid /\ tagOut[w].dirty
DirtyAnyFirst == IsDirty(0)   (* mutant: way 1 forgotten *)
DirtyAny == \E w \in Ways : IsDirty(w)
HitAndDirtyFirst == Hit(0) /\ tagOut[0].dirty   (* mutant: way 1 forgotten *)
HitAndDirty == \E w \in Ways : Hit(w) /\ tagOut[w].dirty

Access == req.op \in {"rd", "wr"}
Miss   == Access /\ ~HitAny

EvictWayOnMiss == ~HitAny /\ IsDirty(replaceWay)   (* mutant: flushing ignored *)
EvictWay  == (flush.on \/ ~HitAny) /\ IsDirty(replaceWay)
SetLine   == IF flush.on THEN flush.addr ELSE req.addr.line
EvictLineOfRequest == LineOf(req.addr)   (* mutant: the new tag, not the old *)
EvictLine == [tag |-> tagOut[replaceWay].tag, line |-> SetLine]

MemAcceptNoHold(in) == state = "LOOKUP" /\ ~Miss   (* mutant: no wait on write-read *)
MemAccept(in) ==
  /\ state = "LOOKUP"
  /\ ~Miss
  /\ ~(req.op = "wr" /\ in.op = "rd" /\ in.addr = req.addr)

MemAck == state = "LOOKUP" /\ req.op # "none" /\ ~Miss

DataRd == IF Hit(0) \/ ~Hit(1) THEN dataOut[0] ELSE dataOut[1]

(* A write to the bus: its request, and the beat's data out of the skid    *)
(* buffer when the beat was refused before.                                *)
PmemWr == (state = "EVICT" /\ (EvictWay \/ req.op = "wb")) \/ pmem.skid # NoData
PmemWriteData == IF pmem.skid # NoData THEN pmem.skid ELSE dataOut[replaceWay]
PmemLast == pmem.len = 0

-----------------------------------------------------------------------------
(* The RAMs.  A tag RAM is write first (its read port sees the write of    *)
(* the same edge), a data RAM is read first.                               *)

WriteTags(ways, line, entry) ==
  tagRam' = [w \in Ways |-> IF w \in ways THEN [tagRam[w] EXCEPT ![line] = entry]
                                          ELSE tagRam[w]]
WriteData(ways, i, d) ==
  dataRam' = [w \in Ways |-> IF w \in ways THEN [dataRam[w] EXCEPT ![i] = d]
                                           ELSE dataRam[w]]
ReadTags(line) == tagOut' = [w \in Ways |-> tagRam'[w][line]]
LookAt(line)   == UNCHANGED tagRam /\ ReadTags(line)
ReadData(i)    == dataOut' = [w \in Ways |-> dataRam[w][i]]

HitWays == {w \in Ways : Hit(w)}

WriteHitClean ==   (* mutant: the line is not marked dirty *)
  LET ways == IF req.op = "wr" THEN HitWays ELSE {}
  IN  /\ WriteTags(ways, req.addr.line, Entry(TRUE, FALSE, req.addr.tag))
      /\ WriteData(ways, IndexOf(req.addr), req.data)

(* A write that hits marks its line dirty and updates the word.            *)
WriteHit ==
  LET ways == IF req.op = "wr" THEN HitWays ELSE {}
  IN  /\ WriteTags(ways, req.addr.line, Entry(TRUE, TRUE, req.addr.tag))
      /\ WriteData(ways, IndexOf(req.addr), req.data)

-----------------------------------------------------------------------------
(* The external bus: bursts of LineWords beats to or from one line.        *)

IdleBus == [rd |-> FALSE, wr |-> FALSE, line |-> LineOf(NoReq.addr), buf |-> <<>>]

BusWriteDone == bus.wr /\ Len(bus.buf) = LineWords

BusWord == mem[WordAt(bus.line, Len(bus.buf))]

(* The request for a refill; it is repeated until the bus accepts it.      *)
RequestRefill(acc) ==
  IF acc
  THEN /\ pmem' = [pmem EXCEPT !.rd = FALSE, !.wr0 = FALSE, !.len = LineWords - 1]
       /\ bus' = [rd |-> TRUE, wr |-> FALSE, line |-> LineOf(req.addr), buf |-> <<>>]
  ELSE /\ pmem' = [pmem EXCEPT !.rd = TRUE]
       /\ bus' = IdleBus

(* What reaches the memory when the bus commits the written line.          *)
Committed ==
  [a \in Addr |-> IF LineOf(a) = bus.line THEN bus.buf[a.word + 1] ELSE mem[a]]

Forget(l) == [a \in Addr |-> IF LineOf(a) = l THEN Unknown ELSE arch[a]]

-----------------------------------------------------------------------------
(* Entering EVICT: the first word is addressed, the burst is armed.        *)

EnterEvictLong ==   (* mutant: one beat too many *)
  /\ state' = "EVICT"
  /\ ReadData(Base(SetLine))
  /\ dataAddr' = NextIndex(Base(SetLine))
  /\ pmem' = [pmem EXCEPT !.wr0 = TRUE, !.len = LineWords]

EnterEvict ==
  /\ state' = "EVICT"
  /\ ReadData(Base(SetLine))
  /\ dataAddr' = NextIndex(Base(SetLine))
  /\ pmem' = [pmem EXCEPT !.wr0 = TRUE, !.len = LineWords - 1]

EnterRefill(acc) ==
  /\ state' = "REFILL"
  /\ dataAddr' = Base(req.addr.line)
  /\ RequestRefill(acc)

-----------------------------------------------------------------------------
(* RESET clears one line of both tag RAMs at each edge.                    *)

ResetTick ==
  /\ state = "RESET"
  /\ state' = IF flush.last THEN "LOOKUP" ELSE "RESET"
  /\ WriteTags(Ways, flush.addr, ZeroEntry)
  /\ ReadTags(req.addr.line)
  /\ flush' = [flush EXCEPT !.addr = (@ + 1) % NumLines,
                            !.last = @ \/ flush.addr = NumLines - 1]
  /\ UNCHANGED <<req, dataRam, dataOut, dataAddr, replaceWay, pmem, error,
                 bus, mem, arch>>

-----------------------------------------------------------------------------
(* LOOKUP                                                                  *)

InLookup ==
  /\ state = "LOOKUP"
  /\ flush' = [flush EXCEPT !.addr = 0, !.last = FALSE]

(* The buffered access missed and the way to replace is dirty.             *)
LookupEvict ==
  /\ InLookup /\ Miss /\ EvictWay
  /\ EnterEvict
  /\ LookAt(req.addr.line)
  /\ UNCHANGED <<req, dataRam, replaceWay, error, bus, mem, arch>>

(* It missed and the way to replace can be overwritten.                    *)
LookupRefill(acc) ==
  /\ InLookup /\ Miss /\ ~EvictWay
  /\ EnterRefill(acc)
  /\ LookAt(req.addr.line)
  /\ UNCHANGED <<req, dataRam, dataOut, replaceWay, error, mem, arch>>

StateAfter(op) == CASE op = "wb"    -> "WRITEBACK"
                    [] op = "flush" -> "FLUSH_ADDR"
                    [] op = "inval" -> "INVALIDATE"
                    [] OTHER        -> "LOOKUP"

(* The tag read port follows the incoming address only when the next state *)
(* is LOOKUP or WRITEBACK; otherwise it still follows the buffered one.    *)
LookupTagLine(in) ==
  IF StateAfter(in.op) \in {"LOOKUP", "WRITEBACK"} THEN in.addr.line
                                                   ELSE req.addr.line

ArchAfter(in) == CASE in.op = "wr"    -> [arch EXCEPT ![in.addr] = in.data]
                   [] in.op = "inval" -> Forget(LineOf(in.addr))
                   [] OTHER           -> arch

(* The error register: set by the bus, cleared by the acknowledge.         *)
ClearErrorNever == error' = error   (* mutant *)
ClearError == error' = (error /\ ~MemAck)

ErrorAfterLast(ack) == error' = (ack = "err")   (* mutant: a good beat clears it *)
ErrorAfter(ack) == error' = (error \/ ack = "err")

(* The buffered request is complete and the next one is accepted.          *)
LookupAccept(in) ==
  /\ state = "LOOKUP" /\ MemAccept(in)
  /\ state' = StateAfter(in.op)
  /\ req' = in
  /\ flush' = [on |-> flush.on \/ in.op = "flush", addr |-> 0, last |-> FALSE]
  /\ replaceWay' = IF in.op = "flush" THEN 0 ELSE replaceWay
  /\ WriteHit
  /\ ReadTags(LookupTagLine(in))
  /\ ReadData(IndexOf(in.addr))
  /\ ClearError
  /\ arch' = ArchAfter(in)
  /\ UNCHANGED <<dataAddr, pmem, bus, mem>>

(* A read of the word being written waits: the write completes first.      *)
LookupHold(in) ==
  /\ InLookup /\ ~Miss /\ ~MemAccept(in)
  /\ req' = NoReq
  /\ WriteHit
  /\ ReadTags(in.addr.line)
  /\ ReadData(IndexOf(in.addr))
  /\ ClearError
  /\ UNCHANGED <<state, dataAddr, replaceWay, pmem, bus, mem, arch>>

-----------------------------------------------------------------------------
(* REFILL, then WRITE or READ, which lead back to LOOKUP and a hit.        *)

(* The request was refused at first and is accepted now.                   *)
RefillRequest ==
  /\ state = "REFILL" /\ pmem.rd
  /\ RequestRefill(TRUE)
  /\ UNCHANGED <<state, req, tagRam, tagOut, dataRam, dataOut, dataAddr,
                 flush, replaceWay, error, mem, arch>>

RefillBeat(ack) ==
  /\ state = "REFILL" /\ bus.rd /\ ack # "none"
  /\ WriteData({replaceWay}, dataAddr, IF ack = "ok" THEN BusWord ELSE Junk)
  /\ ReadData(dataAddr)
  /\ dataAddr' = NextIndex(dataAddr)
  /\ pmem' = [pmem EXCEPT !.len = (@ - 1) % 256]
  /\ WriteTags(IF PmemLast THEN {replaceWay} ELSE {}, req.addr.line,
               Entry(TRUE, FALSE, req.addr.tag))
  /\ ReadTags(req.addr.line)
  /\ state' = IF ~PmemLast THEN "REFILL"
              ELSE IF req.op = "wr" THEN "WRITE" ELSE "READ"
  /\ bus' = IF Len(bus.buf) = LineWords - 1
            THEN IdleBus ELSE [bus EXCEPT !.buf = Append(@, BusWord)]
  /\ ErrorAfter(ack)
  /\ arch' = IF ack = "err" THEN Forget(bus.line) ELSE arch
  /\ UNCHANGED <<req, flush, replaceWay, mem>>

WriteTick ==
  /\ state = "WRITE"
  /\ state' = "LOOKUP"
  /\ WriteTags({replaceWay}, req.addr.line, Entry(TRUE, TRUE, req.addr.tag))
  /\ WriteData(HitWays, IndexOf(req.addr), req.data)
  /\ ReadTags(req.addr.line)
  /\ replaceWay' = 1 - replaceWay
  /\ UNCHANGED <<req, dataOut, dataAddr, flush, pmem, error, bus, mem, arch>>

ReadTick ==
  /\ state = "READ"
  /\ state' = "LOOKUP"
  /\ LookAt(req.addr.line)
  /\ ReadData(IndexOf(req.addr))
  /\ replaceWay' = 1 - replaceWay
  /\ UNCHANGED <<req, dataRam, dataAddr, flush, pmem, error, bus, mem,
                 arch>>

-----------------------------------------------------------------------------
(* EVICT sends a line to the bus; a refused beat waits in the skid buffer. *)

EvictBeat(acc) ==
  /\ state = "EVICT"
  /\ LookAt(SetLine)
  /\ ReadData(dataAddr)
  /\ IF acc
     THEN /\ state' = IF PmemLast THEN "EVICT_WAIT" ELSE "EVICT"
          /\ dataAddr' = NextIndex(dataAddr)
          /\ pmem' = [pmem EXCEPT !.wr0 = FALSE, !.len = (@ - 1) % 256,
                                  !.skid = NoData]
          /\ bus' = CASE ~PmemWr           -> bus
                      [] PmemWr /\ pmem.wr0 ->
                           [rd |-> FALSE, wr |-> TRUE, line |-> EvictLine,
                            buf |-> <<PmemWriteData>>]
                      [] OTHER -> [bus EXCEPT !.buf = Append(@, PmemWriteData)]
     ELSE /\ pmem' = IF PmemWr THEN [pmem EXCEPT !.skid = PmemWriteData] ELSE pmem
          /\ UNCHANGED <<state, dataAddr, bus>>
  /\ UNCHANGED <<req, dataRam, flush, replaceWay, error, mem, arch>>

(* The bus acknowledges the line: it is clean, or being replaced.  The     *)
(* tag written then is already that of the line to be refilled.            *)
EvictDone(ack) ==
  /\ state = "EVICT_WAIT" /\ BusWriteDone /\ ack # "none"
  /\ WriteTags({replaceWay}, SetLine,
               IF flush.on THEN ZeroEntry ELSE Entry(TRUE, FALSE, req.addr.tag))
  /\ ReadTags(SetLine)
  /\ mem' = IF ack = "ok" THEN Committed ELSE mem
  /\ arch' = IF ack = "err" THEN Forget(bus.line) ELSE arch
  /\ ErrorAfter(ack)
  /\ UNCHANGED <<req, dataRam, dataOut, flush>>

WritebackDone(ack) ==
  /\ req.op = "wb" /\ EvictDone(ack)
  /\ state' = "LOOKUP" /\ bus' = IdleBus
  /\ UNCHANGED <<dataAddr, replaceWay, pmem>>

FlushEvictDone(ack) ==
  /\ req.op # "wb" /\ flush.on /\ EvictDone(ack)
  /\ state' = "FLUSH_ADDR" /\ bus' = IdleBus
  /\ replaceWay' = 0
  /\ UNCHANGED <<dataAddr, pmem>>

EvictThenRefill(ack, acc) ==
  /\ req.op # "wb" /\ ~flush.on /\ EvictDone(ack)
  /\ EnterRefill(acc)
  /\ UNCHANGED replaceWay

-----------------------------------------------------------------------------
(* WRITEBACK and INVALIDATE act on one line.                               *)

WritebackTick ==
  /\ state = "WRITEBACK"
  /\ IF HitAndDirty
     THEN EnterEvict
     ELSE state' = "LOOKUP" /\ UNCHANGED <<dataAddr, dataOut, pmem>>
  /\ replaceWay' = CASE Hit(0) -> 0 [] ~Hit(0) /\ Hit(1) -> 1 [] OTHER -> replaceWay
  /\ LookAt(req.addr.line)
  /\ UNCHANGED <<req, dataRam, flush, error, bus, mem, arch>>

InvalidateTick ==
  /\ state = "INVALIDATE"
  /\ state' = "LOOKUP"
  /\ WriteTags(HitWays, req.addr.line, Entry(FALSE, FALSE, req.addr.tag))
  /\ ReadTags(req.addr.line)
  /\ UNCHANGED <<req, dataRam, dataOut, dataAddr, flush, replaceWay, pmem,
                 error, bus, mem, arch>>

-----------------------------------------------------------------------------
(* FLUSH_ADDR and FLUSH visit every line, evicting one dirty way at a time *)
(* and clearing both ways once neither is dirty.                           *)

FlushAddrTick ==
  /\ state = "FLUSH_ADDR"
  /\ state' = "FLUSH"
  /\ LookAt(flush.addr)
  /\ flush' = [flush EXCEPT !.last = @ \/ flush.addr = NumLines - 1]
  /\ UNCHANGED <<req, dataRam, dataOut, dataAddr, replaceWay, pmem,
                 error, bus, mem, arch>>

FlushEvict ==
  /\ state = "FLUSH" /\ DirtyAny /\ EvictWay
  /\ EnterEvict
  /\ LookAt(flush.addr)
  /\ UNCHANGED <<req, dataRam, flush, replaceWay, error, bus, mem, arch>>

FlushOtherWay ==
  /\ state = "FLUSH" /\ DirtyAny /\ ~EvictWay
  /\ replaceWay' = 1 - replaceWay
  /\ LookAt(flush.addr)
  /\ ReadData(Base(flush.addr))
  /\ UNCHANGED <<state, req, dataRam, dataAddr, flush, pmem, error,
                 bus, mem, arch>>

FlushNext ==
  /\ state = "FLUSH" /\ ~DirtyAny
  /\ WriteTags(Ways, flush.addr, ZeroEntry)
  /\ ReadTags(flush.addr)
  /\ IF flush.last
     THEN /\ state' = "LOOKUP"
          /\ flush' = [flush EXCEPT !.on = FALSE]
          /\ replaceWay' = 0
     ELSE /\ state' = "FLUSH_ADDR"
          /\ flush' = [flush EXCEPT !.addr = (@ + 1) % NumLines]
          /\ UNCHANGED replaceWay
  /\ UNCHANGED <<req, dataRam, dataOut, dataAddr, pmem, error, bus, mem, arch>>

-----------------------------------------------------------------------------
Init ==
  /\ state = "RESET"
  /\ req = NoReq
  /\ tagRam \in [Ways -> [Lines -> PowerOnTags]]
  /\ tagOut = [w \in Ways |-> ZeroEntry]
  /\ dataRam = [w \in Ways |-> [i \in Index |-> Junk]]
  /\ dataOut = [w \in Ways |-> Junk]
  /\ dataAddr = Base(0)
  /\ flush = [on |-> FALSE, addr |-> 0, last |-> FALSE]
  /\ replaceWay = 0
  /\ pmem = [rd |-> FALSE, wr0 |-> FALSE, len |-> 0, skid |-> NoData]
  /\ error = FALSE
  /\ bus = IdleBus
  /\ mem = InitMem
  /\ arch = InitMem

Lookup(in, acc) ==
  LookupEvict \/ LookupRefill(acc) \/ LookupAccept(in) \/ LookupHold(in)
Refill(ack) == RefillRequest \/ RefillBeat(ack) \/ WriteTick \/ ReadTick
Evict(ack, acc) ==
  EvictBeat(acc) \/ WritebackDone(ack) \/ FlushEvictDone(ack) \/ EvictThenRefill(ack, acc)
Flush == FlushAddrTick \/ FlushEvict \/ FlushOtherWay \/ FlushNext

Next ==
  \/ ResetTick \/ WritebackTick \/ InvalidateTick \/ Flush
  \/ \E in \in Requests, acc \in BOOLEAN : Lookup(in, acc)
  \/ \E ack \in Acks, acc \in BOOLEAN : Refill(ack) \/ Evict(ack, acc)

Spec == Init /\ [][Next]_vars

(* The clock never stops, and a bus slave accepts a request that is kept up *)
(* and answers every burst.                                                *)
FairSpec ==
  /\ Spec
  /\ WF_vars(Next)
  /\ WF_vars(RefillRequest) /\ WF_vars(EvictBeat(TRUE))
  /\ WF_vars(\E ack \in Acks : RefillBeat(ack))
  /\ WF_vars(\E ack \in Acks, acc \in BOOLEAN :
               WritebackDone(ack) \/ FlushEvictDone(ack) \/ EvictThenRefill(ack, acc))

-----------------------------------------------------------------------------
(* Properties                                                              *)

FlushRegs == [on : BOOLEAN, addr : Lines, last : BOOLEAN]
PmemRegs  == [rd : BOOLEAN, wr0 : BOOLEAN, len : 0 .. 255, skid : Data \cup {NoData}]
Burst     == [rd : BOOLEAN, wr : BOOLEAN, line : LineAddr, buf : Seq(Data)]

(* Every register stays in its range (the widths declared in dcache_core). *)
TypeOK ==
  /\ state \in States
  /\ req \in Request
  /\ tagRam \in [Ways -> [Lines -> TagEntry]]
  /\ tagOut \in [Ways -> TagEntry]
  /\ dataRam \in [Ways -> [Index -> Data]]
  /\ dataOut \in [Ways -> Data]
  /\ dataAddr \in Index
  /\ flush \in FlushRegs
  /\ replaceWay \in Ways
  /\ pmem \in PmemRegs
  /\ error \in BOOLEAN
  /\ bus \in Burst
  /\ mem \in [Addr -> Data]
  /\ arch \in [Addr -> Data \cup {Unknown}]

Holds(w, l) == tagRam[w][l.line].valid /\ tagRam[w][l.line].tag = l.tag

(* A line is never valid in both ways: a refill, the tag an eviction leaves *)
(* and a write that hits never duplicate a tag of the other way, or a write *)
(* would reach one copy and a later read the other.                         *)
NoAlias ==
  state # "RESET" => \A l \in LineAddr : ~(Holds(0, l) /\ Holds(1, l))

(* What the core would give for a word once the buffered write is done.    *)
View(a) ==
  IF req.op = "wr" /\ req.addr = a THEN req.data
  ELSE IF \E w \in Ways : Holds(w, LineOf(a))
       THEN dataRam[CHOOSE w \in Ways : Holds(w, LineOf(a))][IndexOf(a)]
       ELSE mem[a]

(* No write is lost between the RAMs, the bursts and the memory: whenever   *)
(* the controller is back in LOOKUP, each word is current where a later     *)
(* access would find it, through every eviction, refill, writeback and      *)
(* flush.                                                                   *)
Coherent == state = "LOOKUP" => \A a \in Addr : arch[a] \in {Unknown, View(a)}

(* A line that is valid and not dirty may be dropped at any time: it equals *)
(* the memory.  The dirty bit is set after the data (LOOKUP, WRITE) and     *)
(* cleared by the acknowledge of the eviction, not by its last beat.        *)
CleanIsMemory ==
  state = "LOOKUP" =>
    \A w \in Ways, a \in Addr :
      Holds(w, LineOf(a)) /\ ~tagRam[w][a.line].dirty /\ arch[a] # Unknown
        /\ ~(req.op = "wr" /\ req.addr = a)
        => dataRam[w][IndexOf(a)] = mem[a]

(* A flush is acknowledged when every way is empty and every word written   *)
(* before it is in memory.                                                  *)
FlushReachesMemory ==
  MemAck /\ req.op = "flush" =>
    /\ \A w \in Ways, l \in Lines : ~tagRam[w][l].valid
    /\ \A a \in Addr : arch[a] \in {Unknown, mem[a]}

(* A writeback is acknowledged when the words of its line are in memory and *)
(* the line is clean; the other lines keep their dirty data (Coherent).     *)
WritebackReachesMemory ==
  MemAck /\ req.op = "wb" =>
    \A a \in Addr : LineOf(a) = LineOf(req.addr) =>
      /\ arch[a] \in {Unknown, mem[a]}
      /\ \A w \in Ways : Holds(w, LineOf(a)) => ~tagRam[w][a.line].dirty

(* The beat counter, the first-beat flag, the skid buffer and the burst the *)
(* bus sees never disagree: no beat is offered twice or dropped when the    *)
(* bus refuses one, and a refill never starts over a write burst.           *)
BeatsMatch ==
  /\ bus.rd => state = "REFILL" /\ ~pmem.rd /\ Len(bus.buf) + pmem.len = LineWords - 1
  /\ state = "REFILL" => (bus.rd \/ pmem.rd) /\ ~bus.wr
  /\ state = "EVICT" => PmemWr /\ pmem.wr0 = ~bus.wr
                        /\ Len(bus.buf) + pmem.len = LineWords - 1
  /\ state = "EVICT_WAIT" => BusWriteDone /\ pmem.skid = NoData
  /\ bus.wr => state \in {"EVICT", "EVICT_WAIT"}

(* A bus error is reported on the request that caused it: none is left over *)
(* for a later request to be blamed for (error_q is cleared by an ack).     *)
ErrorHasOwner == error => req.op # "none"

(* Every accepted request is acknowledged.                                  *)
Answered == (req.op # "none") ~> MemAck

(* Without invalidates the core is a CachedMemory: what it answers, the     *)
(* lines it sends to memory and the errors it reports are those a           *)
(* write-back cache may give.                                               *)
CM == INSTANCE CachedMemory WITH
  Line      <- LineOf,
  Request   <- Requests,
  NoRequest <- NoReq,
  Failures  <- BusErrors,
  pending   <- IF req.op = "none" THEN NoReq ELSE req,
  done      <- MemAck,
  value     <- IF MemAck /\ req.op = "rd" THEN DataRd ELSE Junk,
  failed    <- error

ImplementsCachedMemory == CM!Spec

(* docs/custom.md: an invalidate marks the line invalid "if it was present". *)
InvalidateDropsLine ==
  MemAck /\ req.op = "inval" => \A w \in Ways : ~Holds(w, LineOf(req.addr))
=============================================================================
