-------------------------- MODULE DCacheDataProofs --------------------------
(***************************************************************************)
(* No write is lost: the words in the RAMs, in the bursts and in memory,   *)
(* what the answers of the core say of them, and that the core implements  *)
(* CachedMemory.                                                           *)
(***************************************************************************)
EXTENDS DCacheCoreProofs

(* An invalidate looks its line up with the tags of the request before it  *)
(* (InvalidateDropsLine) and may drop another line; of programs that use   *)
(* it nothing is claimed here.                                             *)
NoInvalidates == \A r \in Requests : r.op # "inval"

-----------------------------------------------------------------------------
(* The inductive invariant                                                 *)

(* The tags shown are also those of the set at work while it is evicted,   *)
(* flushed or written after a refill.                                      *)
FreshSet ==
  state \in {"EVICT", "EVICT_WAIT", "FLUSH", "WRITE"} =>
    \A w \in Ways : tagOut[w] = tagRam[w][SetLine]

(* What is evicted: the dirty way of a miss or of the flush, or the line   *)
(* of a writeback.                                                         *)
Evicted ==
  state \in {"EVICT", "EVICT_WAIT"} =>
    /\ tagOut[replaceWay].valid
    /\ IF req.op = "wb" THEN Hit(replaceWay) ELSE EvictWay

(* The flush has emptied the lines before the one it is at.                *)
Flushed ==
  /\ flush.on => /\ \A w \in Ways, l \in Lines : l < flush.addr => ~tagRam[w][l].valid
                 /\ flush.last => flush.addr = NumLines - 1
                 /\ state # "FLUSH_ADDR" => (flush.last <=> flush.addr = NumLines - 1)
  /\ state = "LOOKUP" /\ req.op = "flush" => \A w \in Ways, l \in Lines : ~tagRam[w][l].valid

(* A line that has been written back is clean.                             *)
WrittenBack ==
  state = "LOOKUP" /\ req.op = "wb" =>
    \A w \in Ways : Holds(w, LineOf(req.addr)) => ~tagRam[w][req.addr.line].dirty

(* A refill leads to WRITE or READ; in WRITE the line is already there.    *)
Refilled ==
  /\ state = "READ" => req.op = "rd"
  /\ state = "WRITE" => req.op = "wr" /\ Holds(replaceWay, LineOf(req.addr))

ControlInv == FreshSet /\ Evicted /\ Flushed /\ WrittenBack /\ Refilled

(* The burst counters and the bus.                                         *)
Beats ==
  /\ BeatsMatch
  /\ state # "EVICT" => pmem.skid = NoData
  /\ bus.rd => ~bus.wr /\ bus.line = LineOf(req.addr)
  /\ ~bus.rd /\ ~bus.wr => bus.buf = <<>>

(* The words of an eviction: those sent, the one offered and the one read. *)
At(w) == [line |-> SetLine, word |-> w]
EvictData ==
  /\ state = "EVICT" => /\ PmemWriteData = dataRam[replaceWay][At(Len(bus.buf))]
                        /\ dataAddr = NextIndex(At(Len(bus.buf)))
  /\ bus.wr => /\ bus.line = EvictLine
               /\ \A k \in 1 .. Len(bus.buf) : bus.buf[k] = dataRam[replaceWay][At(k - 1)]

(* The words of a refill that have come.                                   *)
RefillData ==
  state = "REFILL" =>
    /\ dataAddr = [line |-> req.addr.line, word |-> Len(bus.buf)]
    /\ \A a \in Addr : LineOf(a) = LineOf(req.addr) /\ a.word < Len(bus.buf) =>
         arch[a] = Unknown \/ dataRam[replaceWay][IndexOf(a)] = mem[a]

(* Where each word is current: with the write in hand, in the way that     *)
(* holds its line (unless it is being refilled), and in memory when no way *)
(* holds it dirty.                                                         *)
InTransit(w, line) == state = "REFILL" /\ w = replaceWay /\ line = req.addr.line
Solid(w, l) == Holds(w, l) /\ ~InTransit(w, l.line)
Buffered(a) == req.op = "wr" /\ req.addr = a
InWay(a) == \A w \in Ways : Solid(w, LineOf(a)) => arch[a] \in {Unknown, dataRam[w][IndexOf(a)]}
NotDirty(a) == \A w \in Ways : ~(Solid(w, LineOf(a)) /\ tagRam[w][a.line].dirty)
InMem(a) == NotDirty(a) => arch[a] \in {Unknown, mem[a]}
Current ==
  /\ state = "RESET" => arch = mem
  /\ \A a \in Addr : Buffered(a) => arch[a] \in {Unknown, req.data}
  /\ state # "RESET" => \A a \in Addr : ~Buffered(a) => InWay(a) /\ InMem(a)

(* The word a read is answered with.                                       *)
ReadFresh ==
  state = "LOOKUP" /\ req.op = "rd" =>
    \A w \in Ways : Holds(w, LineOf(req.addr)) => dataOut[w] = dataRam[w][IndexOf(req.addr)]

BurstInv == TagInv /\ ControlInv /\ Beats
DataInv == EvictData /\ RefillData /\ Current /\ ReadFresh /\ req.op # "inval"

-----------------------------------------------------------------------------
(* Lemmas on the RAMs and the addresses                                    *)

LEMMA WriteDataEffect ==
  ASSUME TypeOK, NEW ways, NEW i \in Index, NEW d, WriteData(ways, i, d)
  PROVE  \A w \in Ways, j \in Index :
           dataRam'[w][j] = IF w \in ways /\ j = i THEN d ELSE dataRam[w][j]
BY DEF WriteData, TypeOK

LEMMA ReadDataEffect ==
  ASSUME NEW i, ReadData(i)
  PROVE  \A w \in Ways : dataOut'[w] = dataRam[w][i]
BY DEF ReadData

LEMMA AddrParts ==
  ASSUME NEW a \in Addr
  PROVE  /\ a.tag \in Tags /\ a.line \in Lines /\ a.word \in Words
         /\ IndexOf(a) \in Index /\ LineOf(a) \in LineAddr
         /\ IndexOf(a).line = a.line /\ IndexOf(a).word = a.word
         /\ LineOf(a).line = a.line /\ LineOf(a).tag = a.tag
BY DEF Addr, Index, LineAddr, IndexOf, LineOf

LEMMA AddrEqual ==
  ASSUME NEW a \in Addr, NEW b \in Addr, LineOf(a) = LineOf(b), IndexOf(a) = IndexOf(b)
  PROVE  a = b
BY DEF Addr, IndexOf, LineOf

-----------------------------------------------------------------------------
(* The control of evictions, flushes and writebacks                        *)

LEMMA StepFreshSet == TypeOK /\ TagInv /\ FreshSet /\ [Next]_vars => FreshSet'
<1> SUFFICES ASSUME TypeOK, TagInv, FreshSet, [Next]_vars,
                    state' \in {"EVICT", "EVICT_WAIT", "FLUSH", "WRITE"}
             PROVE  \A w \in Ways : tagOut'[w] = tagRam'[w][SetLine']
  BY DEF FreshSet
<1>c. Control /\ flush \in FlushRegs
  BY DEF TagInv, TypeOK
<1>1. ASSUME NEW l, ReadTags(l), SetLine' = l
      PROVE  \A w \in Ways : tagOut'[w] = tagRam'[w][SetLine']
  BY <1>1, ReadTagsEffect
<1>2. CASE WritebackTick
  <2>1. ReadTags(req.addr.line) /\ SetLine' = req.addr.line
    BY <1>2, <1>c DEF WritebackTick, LookAt, Control, SetLine
  <2> QED BY <2>1, <1>1
<1>3. CASE Flush
  <2>1. ASSUME flush.on, ReadTags(flush.addr), flush'.on, flush'.addr = flush.addr
        PROVE \A w \in Ways : tagOut'[w] = tagRam'[w][SetLine']
    BY <2>1, <1>1 DEF SetLine
  <2>2. CASE FlushAddrTick
    BY <2>1, <2>2, <1>c DEF FlushAddrTick, LookAt, Control, FlushRegs
  <2>3. CASE FlushEvict \/ FlushOtherWay
    BY <2>1, <2>3, <1>c DEF FlushEvict, FlushOtherWay, LookAt, Control
  <2>4. ~FlushNext
    BY DEF FlushNext
  <2> QED BY <1>3, <2>2, <2>3, <2>4 DEF Flush
<1>4. CASE LookupEvict
  <2>1. ReadTags(req.addr.line) /\ SetLine' = req.addr.line
    BY <1>4, <1>c DEF LookupEvict, InLookup, LookAt, Control, SetLine, FlushRegs
  <2> QED BY <2>1, <1>1
<1>5. ASSUME NEW in \in Requests, NEW acc \in BOOLEAN
      PROVE  ~(LookupRefill(acc) \/ LookupAccept(in) \/ LookupHold(in))
  BY DEF InLookup, LookupRefill, EnterRefill, LookupAccept, StateAfter, LookupHold
<1>6. ASSUME NEW ack \in Acks, RefillBeat(ack)
      PROVE  \A w \in Ways : tagOut'[w] = tagRam'[w][SetLine']
  <2>1. ReadTags(req.addr.line) /\ SetLine' = req.addr.line
    BY <1>6, <1>c DEF RefillBeat, Control, SetLine
  <2> QED BY <2>1, <1>1
<1>7. ASSUME NEW acc \in BOOLEAN, EvictBeat(acc)
      PROVE  \A w \in Ways : tagOut'[w] = tagRam'[w][SetLine']
  <2>1. ReadTags(SetLine) /\ SetLine' = SetLine
    BY <1>7 DEF EvictBeat, LookAt, SetLine
  <2> QED BY <2>1, <1>1
<1>8. ASSUME NEW ack \in Acks, NEW acc \in BOOLEAN
      PROVE  ~(RefillRequest \/ WriteTick \/ ReadTick \/ WritebackDone(ack)
               \/ FlushEvictDone(ack) \/ EvictThenRefill(ack, acc))
  BY DEF RefillRequest, WriteTick, ReadTick, WritebackDone, FlushEvictDone, EvictThenRefill,
         EnterRefill
<1>9. CASE UNCHANGED vars
  BY <1>9 DEF vars, FreshSet, SetLine
<1>10. ~ResetTick /\ ~InvalidateTick
  BY DEF ResetTick, InvalidateTick
<1> QED BY <1>2, <1>3, <1>4, <1>5, <1>6, <1>7, <1>8, <1>9, <1>10 DEF Next, Lookup, Refill, Evict

(* In the states of an eviction the wires keep what they showed.           *)
LEMMA StepEvicted == TypeOK /\ TagInv /\ FreshSet /\ Evicted /\ [Next]_vars => Evicted'
<1> SUFFICES ASSUME TypeOK, TagInv, FreshSet, Evicted, [Next]_vars,
                    state' \in {"EVICT", "EVICT_WAIT"}
             PROVE  /\ tagOut'[replaceWay'].valid
                    /\ (req'.op = "wb" /\ Hit(replaceWay)') \/ (req'.op # "wb" /\ EvictWay')
  BY DEF Evicted
<1>c. Control /\ flush \in FlushRegs /\ FreshTags /\ replaceWay \in Ways
  BY DEF TagInv, TypeOK
<1>1. ASSUME UNCHANGED <<tagRam, req, replaceWay>>, \A w \in Ways : tagOut'[w] = tagOut[w],
             flush'.on = flush.on, EvictWay
      PROVE  tagOut'[replaceWay'].valid /\ EvictWay'
  BY <1>1, <1>c DEF EvictWay, HitAny, Hit, IsDirty
<1>2. CASE WritebackTick
  <2>1. HitAndDirty /\ req.op = "wb" /\ UNCHANGED <<tagRam, req, flush>>
    BY <1>2, <1>c DEF WritebackTick, LookAt, Control
  <2>2. \A w \in Ways : tagOut'[w] = tagOut[w]
    BY <1>2, <2>1, <1>c, ReadTagsEffect DEF WritebackTick, LookAt, FreshTags
  <2>3. PICK w \in Ways : Hit(w)
    BY <2>1 DEF HitAndDirty
  <2>4. (Hit(0) /\ replaceWay' = 0) \/ (~Hit(0) /\ Hit(1) /\ replaceWay' = 1)
    BY <1>2, <2>3 DEF WritebackTick, Ways
  <2>5. replaceWay' \in Ways /\ Hit(replaceWay')
    BY <2>4 DEF Ways
  <2> QED BY <2>1, <2>2, <2>5 DEF Hit
<1>3. CASE FlushEvict
  <2>1. flush.on /\ EvictWay /\ ReadTags(flush.addr) /\ SetLine = flush.addr /\ state = "FLUSH"
        /\ UNCHANGED <<tagRam, req, replaceWay, flush>> /\ req.op # "wb"
    BY <1>3, <1>c DEF FlushEvict, LookAt, Control, SetLine
  <2>2. \A w \in Ways : tagOut'[w] = tagOut[w]
    BY <2>1, ReadTagsEffect DEF FreshSet
  <2> QED BY <2>1, <2>2, <1>1
<1>4. CASE LookupEvict
  <2>1. EvictWay /\ ReadTags(req.addr.line) /\ UNCHANGED <<tagRam, req, replaceWay>>
        /\ flush'.on = flush.on /\ state = "LOOKUP" /\ Access /\ req.op # "wb"
    BY <1>4, <1>c DEF LookupEvict, InLookup, LookAt, FlushRegs, Miss, Access
  <2>2. \A w \in Ways : tagOut'[w] = tagOut[w]
    BY <2>1, <1>c, ReadTagsEffect DEF FreshTags
  <2> QED BY <2>1, <2>2, <1>1
<1>5. ASSUME NEW acc \in BOOLEAN, EvictBeat(acc)
      PROVE  /\ tagOut'[replaceWay'].valid
             /\ (req'.op = "wb" /\ Hit(replaceWay)') \/ (req'.op # "wb" /\ EvictWay')
  <2>1. ReadTags(SetLine) /\ state = "EVICT" /\ UNCHANGED <<tagRam, req, replaceWay, flush>>
    BY <1>5 DEF EvictBeat, LookAt
  <2>2. \A w \in Ways : tagOut'[w] = tagOut[w]
    BY <2>1, ReadTagsEffect DEF FreshSet
  <2>3. CASE req.op # "wb"
    <3>1. EvictWay
      BY <2>1, <2>3 DEF Evicted
    <3> QED BY <3>1, <2>1, <2>2, <2>3, <1>1
  <2>4. CASE req.op = "wb"
    <3>1. Hit(replaceWay)
      BY <2>1, <2>4 DEF Evicted
    <3> QED BY <3>1, <2>1, <2>2, <2>4, <1>c DEF Hit
  <2> QED BY <2>3, <2>4
<1>6. ASSUME NEW in \in Requests, NEW acc \in BOOLEAN
      PROVE  ~(LookupRefill(acc) \/ LookupAccept(in) \/ LookupHold(in))
  BY DEF InLookup, LookupRefill, EnterRefill, LookupAccept, StateAfter, LookupHold
<1>7. ASSUME NEW ack \in Acks, NEW acc \in BOOLEAN
      PROVE  ~(Refill(ack) \/ WritebackDone(ack) \/ FlushEvictDone(ack) \/ EvictThenRefill(ack, acc))
  BY DEF Refill, RefillRequest, RefillBeat, WriteTick, ReadTick, WritebackDone, FlushEvictDone,
         EvictThenRefill, EnterRefill
<1>8. ~(ResetTick \/ InvalidateTick \/ FlushAddrTick \/ FlushOtherWay \/ FlushNext)
  BY DEF ResetTick, InvalidateTick, FlushAddrTick, FlushOtherWay, FlushNext
<1>9. CASE UNCHANGED vars
  BY <1>9 DEF vars, Evicted, EvictWay, HitAny, Hit, IsDirty
<1> QED BY <1>2, <1>3, <1>4, <1>5, <1>6, <1>7, <1>8, <1>9 DEF Next, Flush, Lookup, Evict

(* A flush goes through the lines in order.                                *)
LEMMA StepFlushed == TypeOK /\ TagInv /\ Flushed /\ [Next]_vars => Flushed'
<1> SUFFICES ASSUME TypeOK, TagInv, Flushed, [Next]_vars PROVE Flushed'
  OBVIOUS
<1>c. Control /\ flush \in FlushRegs /\ flush.addr \in Lines /\ flush.on \in BOOLEAN
  BY DEF TagInv, TypeOK, FlushRegs
<1>1. ASSUME ~flush'.on, state' # "LOOKUP" \/ req'.op # "flush" PROVE Flushed'
  BY <1>1 DEF Flushed
<1>2. ASSUME UNCHANGED <<flush, tagRam>>, state # "FLUSH_ADDR", state' # "FLUSH_ADDR",
             state' # "LOOKUP" \/ req'.op # "flush"
      PROVE  Flushed'
  BY <1>2 DEF Flushed
<1>3. CASE ResetTick
  <2>1. ~flush.on /\ req'.op = "none"
    BY <1>3, <1>c DEF ResetTick, Control
  <2>2. flush'.on = flush.on
    BY <1>3, <1>c DEF ResetTick, FlushRegs
  <2> QED BY <2>1, <2>2, <1>1
<1>4. CASE WritebackTick \/ InvalidateTick
  <2>1. ~flush'.on /\ req' = req /\ req.op \in {"wb", "inval"}
    BY <1>4, <1>c DEF WritebackTick, InvalidateTick, Control
  <2> QED BY <2>1, <1>1
<1>5. CASE FlushAddrTick
  <2>1. flush.on /\ state' = "FLUSH" /\ tagRam' = tagRam
    BY <1>5, <1>c DEF FlushAddrTick, Control, LookAt
  <2>2. flush' = [flush EXCEPT !.last = flush.last \/ flush.addr = NumLines - 1]
    BY <1>5 DEF FlushAddrTick
  <2>3. flush'.addr = flush.addr /\ flush'.last = (flush.last \/ flush.addr = NumLines - 1)
    BY <2>2, <1>c DEF FlushRegs
  <2>4. flush.last => flush.addr = NumLines - 1
    BY <2>1 DEF Flushed
  <2>5. flush'.last <=> flush'.addr = NumLines - 1
    BY <2>3, <2>4
  <2>6. \A w \in Ways, l \in Lines : l < flush.addr => ~tagRam[w][l].valid
    BY <2>1 DEF Flushed
  <2> QED BY <2>1, <2>3, <2>5, <2>6 DEF Flushed
<1>6. CASE FlushEvict \/ FlushOtherWay
  <2>1. state = "FLUSH" /\ state' \in {"EVICT", "FLUSH"} /\ UNCHANGED <<flush, tagRam>>
    BY <1>6 DEF FlushEvict, FlushOtherWay, EnterEvict, LookAt
  <2> QED BY <2>1, <1>2
<1>7. CASE FlushNext
  <2>1. \A w \in Ways, k \in Lines :
          tagRam'[w][k] = IF k = flush.addr THEN ZeroEntry ELSE tagRam[w][k]
    <3>1. PICK i \in Lines : i = flush.addr
      BY <1>c
    <3>2. PICK e : e = ZeroEntry
      OBVIOUS
    <3>3. WriteTags(Ways, i, e)
      BY <1>7, <3>1, <3>2 DEF FlushNext
    <3>4. \A w \in Ways, k \in Lines : tagRam'[w][k] = IF w \in Ways /\ k = i THEN e ELSE tagRam[w][k]
      BY <3>3, WriteTagsEffect
    <3> QED BY <3>1, <3>2, <3>4
  <2>2. flush.on /\ state = "FLUSH" /\ ~ZeroEntry.valid
    BY <1>7, <1>c DEF FlushNext, Control, ZeroEntry, Entry
  <2>3. \A w \in Ways, k \in Lines : k <= flush.addr => ~tagRam'[w][k].valid
    BY <2>1, <2>2, <1>c DEF Flushed, Lines
  <2>4. CASE flush.last
    <3>1. flush.addr = NumLines - 1
      BY <2>2, <2>4 DEF Flushed
    <3>2. \A w \in Ways, k \in Lines : ~tagRam'[w][k].valid
      BY <2>3, <3>1, SizeAssumption DEF Lines
    <3>3. flush' = [flush EXCEPT !.on = FALSE]
      BY <1>7, <2>4 DEF FlushNext
    <3>4. ~flush'.on
      BY <3>3, <1>c DEF FlushRegs
    <3> QED BY <3>2, <3>4 DEF Flushed
  <2>5. CASE ~flush.last
    <3>1. flush.addr # NumLines - 1
      BY <2>2, <2>5 DEF Flushed
    <3>2. (flush.addr + 1) % NumLines = flush.addr + 1
      BY <3>1, <1>c, SizeAssumption DEF Lines
    <3>3. flush' = [flush EXCEPT !.addr = flush.addr + 1] /\ state' = "FLUSH_ADDR"
      BY <1>7, <2>5, <3>2 DEF FlushNext
    <3>4. flush'.addr = flush.addr + 1 /\ ~flush'.last
      BY <3>3, <1>c, <2>5 DEF FlushRegs
    <3>5. \A w \in Ways, k \in Lines : k < flush'.addr => ~tagRam'[w][k].valid
      BY <2>3, <3>4, <1>c DEF Lines
    <3> QED BY <3>3, <3>4, <3>5 DEF Flushed
  <2> QED BY <2>4, <2>5
<1>8. ASSUME NEW in \in Requests, NEW acc \in BOOLEAN, Lookup(in, acc) PROVE Flushed'
  <2>1. state = "LOOKUP" /\ ~flush.on
    BY <1>8, <1>c DEF Lookup, LookupEvict, LookupRefill, LookupAccept, LookupHold, InLookup, Control
  <2>2. CASE LookupEvict \/ LookupRefill(acc) \/ LookupHold(in)
    <3>1. ~flush'.on
      BY <2>1, <2>2, <1>c DEF LookupEvict, LookupRefill, LookupHold, InLookup, FlushRegs
    <3>2. state' # "LOOKUP" \/ req'.op # "flush"
      BY <2>2 DEF LookupEvict, EnterEvict, LookupRefill, EnterRefill, LookupHold, NoReq
    <3> QED BY <3>1, <3>2, <1>1
  <2>3. CASE LookupAccept(in)
    <3>1. req' = in /\ state' = StateAfter(in.op) /\ flush'.on = (in.op = "flush")
          /\ flush'.addr = 0 /\ flush'.last = FALSE
      BY <2>1, <2>3 DEF LookupAccept
    <3>2. CASE in.op = "flush"
      <4>1. state' = "FLUSH_ADDR"
        BY <3>1, <3>2 DEF StateAfter
      <4>2. \A l \in Lines : ~(l < 0)
        BY SizeAssumption DEF Lines
      <4> QED BY <3>1, <4>1, <4>2 DEF Flushed
    <3>3. CASE in.op # "flush"
      BY <3>1, <3>3, <1>1
    <3> QED BY <3>2, <3>3
  <2> QED BY <1>8, <2>2, <2>3 DEF Lookup
<1>9. ASSUME NEW ack \in Acks, Refill(ack) PROVE Flushed'
  <2>1. ~flush.on /\ req' = req /\ flush' = flush /\ req.op # "flush"
    BY <1>9, <1>c DEF Refill, RefillRequest, RefillBeat, WriteTick, ReadTick, Control, Access
  <2> QED BY <2>1, <1>1
<1>10. ASSUME NEW ack \in Acks, NEW acc \in BOOLEAN, Evict(ack, acc) PROVE Flushed'
  <2>1. CASE EvictBeat(acc)
    <3>1. state = "EVICT" /\ state' \in {"EVICT", "EVICT_WAIT"} /\ UNCHANGED <<flush, tagRam>>
      BY <2>1 DEF EvictBeat, LookAt
    <3> QED BY <3>1, <1>2
  <2>2. CASE WritebackDone(ack) \/ EvictThenRefill(ack, acc)
    <3>1. flush' = flush /\ ~flush.on /\ (req'.op = "wb" \/ state' = "REFILL")
      BY <2>2, <1>c DEF WritebackDone, EvictThenRefill, EnterRefill, EvictDone, Control
    <3> QED BY <3>1, <1>1
  <2>3. CASE FlushEvictDone(ack)
    <3>1. flush.on /\ flush' = flush /\ state = "EVICT_WAIT" /\ state' = "FLUSH_ADDR"
          /\ WriteTags({replaceWay}, flush.addr, ZeroEntry)
      BY <2>3 DEF FlushEvictDone, EvictDone, SetLine
    <3>2. \A w \in Ways, k \in Lines :
            tagRam'[w][k] = IF w = replaceWay /\ k = flush.addr THEN ZeroEntry ELSE tagRam[w][k]
      BY <3>1, <1>c, WriteTagsEffect
    <3>3. \A w \in Ways, k \in Lines : k < flush.addr => ~tagRam'[w][k].valid
      BY <3>1, <3>2 DEF Flushed, ZeroEntry, Entry
    <3> QED BY <3>1, <3>3 DEF Flushed
  <2> QED BY <1>10, <2>1, <2>2, <2>3 DEF Evict
<1>11. CASE UNCHANGED vars
  BY <1>11 DEF vars, Flushed
<1> QED BY <1>3, <1>4, <1>5, <1>6, <1>7, <1>8, <1>9, <1>10, <1>11 DEF Next, Flush

(* A writeback ends when its line is clean in the way that holds it.       *)
LEMMA StepWrittenBack == TypeOK /\ TagInv /\ Evicted /\ WrittenBack /\ [Next]_vars => WrittenBack'
<1> SUFFICES ASSUME TypeOK, TagInv, Evicted, WrittenBack, [Next]_vars,
                    state' = "LOOKUP", req'.op = "wb",
                    NEW w \in Ways, Holds(w, LineOf(req.addr))'
             PROVE  ~tagRam'[w][req'.addr.line].dirty
  BY DEF WrittenBack
<1>c. Control /\ FreshTags /\ OtherWayFree
  BY DEF TagInv
<1>l. req.addr.line \in Lines /\ LineOf(req.addr).line = req.addr.line
      /\ LineOf(req.addr).tag = req.addr.tag
  BY WireTypes DEF LineOf
<1>1. CASE WritebackTick
  <2>1. ~HitAndDirty /\ tagRam' = tagRam /\ req' = req
    BY <1>1 DEF WritebackTick, EnterEvict, LookAt
  <2>2. tagOut[w] = tagRam[w][req.addr.line] /\ Holds(w, LineOf(req.addr))
    BY <1>1, <1>c, <2>1 DEF WritebackTick, FreshTags, Holds
  <2>3. Hit(w)
    BY <2>2, <1>l DEF Holds, Hit
  <2> QED BY <2>1, <2>2, <2>3 DEF HitAndDirty
<1>2. ASSUME NEW ack \in Acks, WritebackDone(ack) PROVE ~tagRam'[w][req'.addr.line].dirty
  <2>1. ~flush.on /\ state = "EVICT_WAIT" /\ req' = req
        /\ WriteTags({replaceWay}, req.addr.line, Entry(TRUE, FALSE, req.addr.tag))
    BY <1>2, <1>c DEF WritebackDone, EvictDone, Control, SetLine
  <2>2. \A v \in Ways, k \in Lines :
          tagRam'[v][k] = IF v = replaceWay /\ k = req.addr.line
                          THEN Entry(TRUE, FALSE, req.addr.tag) ELSE tagRam[v][k]
    <3> DEFINE e == Entry(TRUE, FALSE, req.addr.tag)
    <3>1. WriteTags({replaceWay}, req.addr.line, e)
      BY <2>1
    <3> HIDE DEF e
    <3>2. \A v \in Ways, k \in Lines :
            tagRam'[v][k] = IF v \in {replaceWay} /\ k = req.addr.line THEN e ELSE tagRam[v][k]
      BY <3>1, <1>l, WriteTagsEffect
    <3> QED BY <3>2 DEF e
  <2>3. CASE w = replaceWay
    BY <2>1, <2>2, <2>3, <1>l DEF Entry
  <2>4. CASE w # replaceWay
    <3>1. w = 1 - replaceWay
      BY <2>4 DEF Ways, TypeOK
    <3>2. Holds(w, LineOf(req.addr))
      BY <2>1, <2>2, <2>4, <1>l DEF Holds
    <3> QED BY <2>1, <3>1, <3>2, <1>c DEF OtherWayFree
  <2> QED BY <2>3, <2>4
<1>3. ~(ResetTick \/ InvalidateTick \/ Flush)
  BY <1>c DEF ResetTick, InvalidateTick, Flush, FlushAddrTick, FlushEvict, EnterEvict,
              FlushOtherWay, FlushNext, Control
<1>4. ASSUME NEW in \in Requests, NEW acc \in BOOLEAN PROVE ~Lookup(in, acc)
  BY DEF Lookup, LookupEvict, EnterEvict, LookupRefill, EnterRefill, LookupAccept,
         StateAfter, LookupHold, NoReq
<1>5. ASSUME NEW ack \in Acks, NEW acc \in BOOLEAN
      PROVE  ~(Refill(ack) \/ EvictBeat(acc) \/ FlushEvictDone(ack) \/ EvictThenRefill(ack, acc))
  BY <1>c DEF Refill, RefillRequest, RefillBeat, WriteTick, ReadTick, EvictBeat,
              FlushEvictDone, EvictThenRefill, EnterRefill, Control, Access
<1>6. CASE UNCHANGED vars
  BY <1>6 DEF vars, WrittenBack, Holds
<1> QED BY <1>1, <1>2, <1>3, <1>4, <1>5, <1>6 DEF Next, Evict

(* A refill that ends has made the line valid and clean.                   *)
LEMMA StepRefilled == TypeOK /\ TagInv /\ Refilled /\ [Next]_vars => Refilled'
<1> SUFFICES ASSUME TypeOK, TagInv, Refilled, [Next]_vars PROVE Refilled'
  OBVIOUS
<1>l. /\ req.addr.line \in Lines /\ replaceWay \in Ways
      /\ LineOf(req.addr).line = req.addr.line /\ LineOf(req.addr).tag = req.addr.tag
  BY WireTypes DEF LineOf, TypeOK
<1>1. ASSUME NEW ack \in Acks, RefillBeat(ack) PROVE Refilled'
  <2> DEFINE e == Entry(TRUE, FALSE, req.addr.tag)
  <2>1. CASE ~PmemLast
    BY <1>1, <2>1 DEF RefillBeat, Refilled
  <2>2. CASE PmemLast
    <3>1. WriteTags({replaceWay}, req.addr.line, e) /\ UNCHANGED <<req, replaceWay>>
      BY <1>1, <2>2 DEF RefillBeat
    <3>2. e.valid /\ e.tag = req.addr.tag
      BY DEF Entry
    <3> HIDE DEF e
    <3>3. \A w \in Ways, k \in Lines :
            tagRam'[w][k] = IF w \in {replaceWay} /\ k = req.addr.line THEN e ELSE tagRam[w][k]
      <4>1. WriteTags({replaceWay}, req.addr.line, e)
        BY <3>1
      <4> QED BY <4>1, <1>l, WriteTagsEffect
    <3>4. tagRam'[replaceWay][req.addr.line] = e
      BY <3>3, <1>l
    <3>5. Holds(replaceWay, LineOf(req.addr))'
      BY <3>1, <3>2, <3>4, <1>l DEF Holds
    <3>6. state' = (IF req.op = "wr" THEN "WRITE" ELSE "READ") /\ req.op \in {"rd", "wr"}
      BY <1>1, <2>2 DEF RefillBeat, TagInv, Control, Access
    <3> QED BY <3>1, <3>5, <3>6 DEF Refilled
  <2> QED BY <2>1, <2>2
<1>2. CASE UNCHANGED vars
  BY <1>2 DEF vars, Refilled, Holds
<1>3. ASSUME state' \notin {"READ", "WRITE"} PROVE Refilled'
  BY <1>3 DEF Refilled
<1>4. CASE ResetTick \/ WritebackTick \/ InvalidateTick \/ Flush
  BY <1>4, <1>3 DEF ResetTick, WritebackTick, EnterEvict, InvalidateTick, Flush, FlushAddrTick,
                    FlushEvict, FlushOtherWay, FlushNext
<1>5. ASSUME NEW in \in Requests, NEW acc \in BOOLEAN, Lookup(in, acc) PROVE Refilled'
  BY <1>5, <1>3 DEF Lookup, LookupEvict, EnterEvict, LookupRefill, EnterRefill, LookupAccept,
                    StateAfter, LookupHold, InLookup
<1>6. ASSUME NEW ack \in Acks, NEW acc \in BOOLEAN,
             RefillRequest \/ WriteTick \/ ReadTick \/ Evict(ack, acc)
      PROVE  Refilled'
  BY <1>6, <1>3 DEF RefillRequest, WriteTick, ReadTick, Evict, EvictBeat, WritebackDone,
                    FlushEvictDone, EvictThenRefill, EnterRefill
<1> QED BY <1>1, <1>2, <1>4, <1>5, <1>6 DEF Next, Refill

LEMMA StepControlInv == TypeOK /\ TagInv /\ ControlInv /\ [Next]_vars => ControlInv'
BY StepFreshSet, StepEvicted, StepFlushed, StepWrittenBack, StepRefilled DEF ControlInv

-----------------------------------------------------------------------------
(* The bursts                                                              *)

LEMMA BusTypes ==
  ASSUME TypeOK
  PROVE  /\ pmem.rd \in BOOLEAN /\ pmem.wr0 \in BOOLEAN /\ pmem.len \in 0 .. 255
         /\ bus.rd \in BOOLEAN /\ bus.wr \in BOOLEAN /\ bus.line \in LineAddr
         /\ bus.buf \in Seq(Data) /\ Len(bus.buf) \in Nat
BY DEF TypeOK, PmemRegs, Burst

LEMMA EnterEvictBeats ==
  ASSUME TypeOK, Beats, Evicted', EnterEvict, bus' = bus,
         state \notin {"REFILL", "EVICT", "EVICT_WAIT"}
  PROVE  Beats'
<1>1. ~bus.rd /\ ~bus.wr /\ Len(bus.buf) = 0 /\ pmem.skid = NoData /\ state' = "EVICT"
  BY DEF Beats, BeatsMatch, EnterEvict
<1>2. pmem' = [pmem EXCEPT !.wr0 = TRUE, !.len = LineWords - 1] /\ pmem \in PmemRegs
  BY DEF EnterEvict, TypeOK
<1>3. pmem'.wr0 = TRUE /\ pmem'.len = LineWords - 1
  BY <1>2 DEF PmemRegs
<1>4. PmemWr'
  BY <1>1 DEF Evicted, PmemWr
<1>5. Len(bus'.buf) + pmem'.len = LineWords - 1
  BY <1>1, <1>3, SizeAssumption
<1>6. bus'.rd = bus.rd /\ bus'.wr = bus.wr /\ bus'.buf = bus.buf
  OBVIOUS
<1>7. bus.buf = <<>>
  BY <1>1 DEF Beats
<1> QED BY <1>1, <1>3, <1>4, <1>5, <1>6, <1>7 DEF Beats, BeatsMatch

LEMMA RequestRefillBeats ==
  ASSUME TypeOK, NEW acc \in BOOLEAN, RequestRefill(acc), state' = "REFILL", req' = req,
         pmem.skid = NoData
  PROVE  Beats'
<1>0. pmem \in PmemRegs
  BY DEF TypeOK
<1>1. CASE acc
  <2>1. pmem' = [pmem EXCEPT !.rd = FALSE, !.wr0 = FALSE, !.len = LineWords - 1]
    BY <1>1 DEF RequestRefill
  <2>2. pmem'.rd = FALSE /\ pmem'.len = LineWords - 1 /\ pmem'.skid = NoData
    BY <1>0, <2>1 DEF PmemRegs
  <2>3. bus' = [rd |-> TRUE, wr |-> FALSE, line |-> LineOf(req.addr), buf |-> <<>>]
    BY <1>1 DEF RequestRefill
  <2>4. bus'.rd /\ ~bus'.wr /\ bus'.line = LineOf(req'.addr) /\ Len(bus'.buf) = 0
    BY <2>3
  <2>5. Len(bus'.buf) + pmem'.len = LineWords - 1
    BY <2>2, <2>4, SizeAssumption
  <2> QED BY <2>2, <2>4, <2>5 DEF Beats, BeatsMatch
<1>2. CASE ~acc
  <2>1. pmem' = [pmem EXCEPT !.rd = TRUE]
    BY <1>2 DEF RequestRefill
  <2>2. pmem'.rd = TRUE /\ pmem'.skid = NoData
    BY <1>0, <2>1 DEF PmemRegs
  <2>3. ~bus'.rd /\ ~bus'.wr /\ bus'.buf = <<>>
    BY <1>2 DEF RequestRefill, IdleBus
  <2> QED BY <2>2, <2>3 DEF Beats, BeatsMatch
<1> QED BY <1>1, <1>2

(* The beats of a line that is sent.                                       *)
LEMMA EvictBeatBeats ==
  ASSUME TypeOK, Beats, Evicted', NEW acc \in BOOLEAN, EvictBeat(acc)
  PROVE  Beats'
<1>1. /\ state = "EVICT" /\ PmemWr /\ pmem.wr0 = ~bus.wr /\ ~bus.rd
      /\ Len(bus.buf) + pmem.len = LineWords - 1
  BY DEF EvictBeat, Beats, BeatsMatch
<1>2. pmem \in PmemRegs /\ PmemWriteData \in Data /\ EvictLine \in LineAddr
  BY WireTypes DEF TypeOK
<1>d. pmem.len # 0 => (Len(bus.buf) + 1) + ((pmem.len - 1) % 256) = LineWords - 1
  <2> DEFINE n == Len(bus.buf)
             l == pmem.len
  <2>1. n \in Nat /\ l \in 0 .. 255 /\ n + l = LineWords - 1
    BY <1>1, BusTypes
  <2> HIDE DEF n, l
  <2>2. l # 0 => (n + 1) + ((l - 1) % 256) = LineWords - 1
    BY <2>1, SizeAssumption
  <2> QED BY <2>2 DEF n, l
<1>3. CASE acc
  <2>1. pmem' = [pmem EXCEPT !.wr0 = FALSE, !.len = (pmem.len - 1) % 256, !.skid = NoData]
    BY <1>3 DEF EvictBeat
  <2>2. pmem'.wr0 = FALSE /\ pmem'.len = (pmem.len - 1) % 256 /\ pmem'.skid = NoData
    BY <1>2, <2>1 DEF PmemRegs
  <2>3. bus'.wr /\ ~bus'.rd /\ Len(bus'.buf) = Len(bus.buf) + 1
    <3>1. CASE pmem.wr0
      <4>1. bus.buf = <<>>
        BY <1>1, <3>1 DEF Beats
      <4>2. bus' = [rd |-> FALSE, wr |-> TRUE, line |-> EvictLine, buf |-> <<PmemWriteData>>]
        BY <1>1, <1>3, <3>1 DEF EvictBeat
      <4>3. Len(bus'.buf) = 1 /\ Len(bus.buf) = 0
        BY <4>1, <4>2
      <4> QED BY <4>2, <4>3
    <3>2. CASE ~pmem.wr0
      <4>1. bus' = [bus EXCEPT !.buf = Append(bus.buf, PmemWriteData)] /\ bus.wr
        BY <1>1, <1>3, <3>2, BusTypes DEF EvictBeat
      <4>2. bus'.wr = bus.wr /\ bus'.rd = bus.rd /\ bus'.buf = Append(bus.buf, PmemWriteData)
        BY <4>1 DEF TypeOK, Burst
      <4>3. Len(bus'.buf) = Len(bus.buf) + 1
        BY <4>2, <1>2, BusTypes
      <4> QED BY <1>1, <4>1, <4>2, <4>3
    <3> QED BY <3>1, <3>2
  <2>4. CASE PmemLast
    <3>1. state' = "EVICT_WAIT"
      BY <1>3, <2>4 DEF EvictBeat
    <3>2. Len(bus'.buf) = LineWords
      BY <1>1, <2>3, <2>4, BusTypes, SizeAssumption DEF PmemLast
    <3> QED BY <2>2, <2>3, <3>1, <3>2 DEF Beats, BeatsMatch, BusWriteDone
  <2>5. CASE ~PmemLast
    <3>1. state' = "EVICT"
      BY <1>3, <2>5 DEF EvictBeat
    <3>2. Len(bus'.buf) + pmem'.len = LineWords - 1
      <4>1. pmem.len # 0 /\ Len(bus'.buf) = Len(bus.buf) + 1 /\ pmem'.len = (pmem.len - 1) % 256
        BY <2>2, <2>3, <2>5 DEF PmemLast
      <4> QED BY <4>1, <1>d
    <3>3. PmemWr'
      BY <3>1 DEF Evicted, PmemWr
    <3> QED BY <2>2, <2>3, <3>1, <3>2, <3>3 DEF Beats, BeatsMatch
  <2> QED BY <2>4, <2>5
<1>4. CASE ~acc
  <2>1. pmem' = [pmem EXCEPT !.skid = PmemWriteData] /\ bus' = bus /\ state' = "EVICT"
    BY <1>1, <1>4 DEF EvictBeat
  <2>2. pmem'.wr0 = pmem.wr0 /\ pmem'.len = pmem.len
    BY <1>2, <2>1 DEF PmemRegs
  <2>3. PmemWr'
    BY <2>1 DEF Evicted, PmemWr
  <2>4. ~bus.wr => bus.buf = <<>>
    BY <1>1 DEF Beats
  <2> QED BY <1>1, <2>1, <2>2, <2>3, <2>4 DEF Beats, BeatsMatch
<1> QED BY <1>3, <1>4

LEMMA StepBeats == TypeOK /\ TagInv /\ Beats /\ Evicted' /\ [Next]_vars => Beats'
<1> SUFFICES ASSUME TypeOK, TagInv, Beats, Evicted', [Next]_vars PROVE Beats'
  OBVIOUS
<1>1. ASSUME UNCHANGED <<bus, pmem>>, state \notin {"REFILL", "EVICT", "EVICT_WAIT"},
             state' \notin {"REFILL", "EVICT", "EVICT_WAIT"}
      PROVE  Beats'
  BY <1>1 DEF Beats, BeatsMatch
<1>2. CASE ResetTick \/ InvalidateTick
  BY <1>2, <1>1 DEF ResetTick, InvalidateTick
<1>3. CASE WritebackTick
  <2>1. CASE HitAndDirty
    BY <1>3, <2>1, EnterEvictBeats DEF WritebackTick
  <2>2. CASE ~HitAndDirty
    BY <1>3, <2>2, <1>1 DEF WritebackTick
  <2> QED BY <2>1, <2>2
<1>4. CASE Flush
  <2>1. CASE FlushEvict
    BY <2>1, EnterEvictBeats DEF FlushEvict
  <2>2. CASE FlushAddrTick \/ FlushOtherWay \/ FlushNext
    BY <2>2, <1>1 DEF FlushAddrTick, FlushOtherWay, FlushNext
  <2> QED BY <1>4, <2>1, <2>2 DEF Flush
<1>5. ASSUME NEW in \in Requests, NEW acc \in BOOLEAN, Lookup(in, acc) PROVE Beats'
  <2>1. CASE LookupEvict
    BY <2>1, EnterEvictBeats DEF LookupEvict, InLookup
  <2>2. CASE LookupRefill(acc)
    <3>1. pmem.skid = NoData
      BY <2>2 DEF LookupRefill, InLookup, Beats
    <3> QED BY <2>2, <3>1, RequestRefillBeats DEF LookupRefill, EnterRefill
  <2>3. CASE LookupAccept(in) \/ LookupHold(in)
    BY <2>3, <1>1 DEF LookupAccept, LookupHold, InLookup, StateAfter
  <2> QED BY <1>5, <2>1, <2>2, <2>3 DEF Lookup
<1>6. ASSUME NEW ack \in Acks, Refill(ack) PROVE Beats'
  <2>1. CASE RefillRequest
    <3>1. pmem.skid = NoData /\ state' = "REFILL"
      BY <2>1 DEF RefillRequest, Beats
    <3> QED BY <2>1, <3>1, RequestRefillBeats DEF RefillRequest
  <2>2. CASE RefillBeat(ack)
    <3>1. /\ bus.rd /\ ~bus.wr /\ bus.line = LineOf(req.addr) /\ ~pmem.rd
          /\ Len(bus.buf) + pmem.len = LineWords - 1 /\ pmem.skid = NoData
      BY <2>2 DEF RefillBeat, Beats, BeatsMatch
    <3>2. pmem' = [pmem EXCEPT !.len = (pmem.len - 1) % 256] /\ pmem \in PmemRegs
      BY <2>2 DEF RefillBeat, TypeOK
    <3>3. pmem'.len = (pmem.len - 1) % 256 /\ pmem'.rd = pmem.rd /\ pmem'.skid = pmem.skid
      BY <3>2 DEF PmemRegs
    <3>6. /\ pmem.len = 0 <=> Len(bus.buf) = LineWords - 1
          /\ pmem.len # 0 => (Len(bus.buf) + 1) + ((pmem.len - 1) % 256) = LineWords - 1
      <4> DEFINE n == Len(bus.buf)
                 l == pmem.len
      <4>1. n \in Nat /\ l \in 0 .. 255 /\ n + l = LineWords - 1
        BY <3>1, BusTypes
      <4> HIDE DEF n, l
      <4>2. (l = 0 <=> n = LineWords - 1) /\ (l # 0 => (n + 1) + ((l - 1) % 256) = LineWords - 1)
        BY <4>1, SizeAssumption
      <4> QED BY <4>2 DEF n, l
    <3>4. CASE PmemLast
      <4>1. Len(bus.buf) = LineWords - 1
        BY <3>4, <3>6 DEF PmemLast
      <4>2. bus' = IdleBus /\ state' \in {"READ", "WRITE"}
        BY <2>2, <3>4, <4>1 DEF RefillBeat
      <4>3. ~bus'.rd /\ ~bus'.wr /\ bus'.buf = <<>>
        BY <4>2 DEF IdleBus
      <4> QED BY <3>1, <3>3, <4>2, <4>3 DEF Beats, BeatsMatch
    <3>5. CASE ~PmemLast
      <4>1. Len(bus.buf) # LineWords - 1
        BY <3>5, <3>6 DEF PmemLast
      <4>2. bus' = [bus EXCEPT !.buf = Append(bus.buf, BusWord)] /\ state' = "REFILL" /\ req' = req
        BY <2>2, <3>5, <4>1 DEF RefillBeat
      <4>3. /\ bus'.rd = bus.rd /\ bus'.wr = bus.wr /\ bus'.line = bus.line
            /\ bus'.buf = Append(bus.buf, BusWord)
        BY <4>2 DEF TypeOK, Burst
      <4>4. Len(bus'.buf) = Len(bus.buf) + 1
        BY <4>3, BusTypes
      <4>5. Len(bus'.buf) + pmem'.len = LineWords - 1
        <5>1. pmem.len # 0 /\ Len(bus'.buf) = Len(bus.buf) + 1 /\ pmem'.len = (pmem.len - 1) % 256
          BY <3>3, <3>5, <4>4 DEF PmemLast
        <5> QED BY <5>1, <3>6
      <4> QED BY <3>1, <3>3, <4>2, <4>3, <4>5 DEF Beats, BeatsMatch
    <3> QED BY <3>4, <3>5
  <2>3. CASE WriteTick \/ ReadTick
    BY <2>3, <1>1 DEF WriteTick, ReadTick
  <2> QED BY <1>6, <2>1, <2>2, <2>3 DEF Refill
<1>7. ASSUME NEW ack \in Acks, NEW acc \in BOOLEAN, Evict(ack, acc) PROVE Beats'
  <2>1. CASE EvictBeat(acc)
    BY <2>1, EvictBeatBeats
  <2>2. CASE WritebackDone(ack) \/ FlushEvictDone(ack)
    <3>1. pmem' = pmem /\ pmem.skid = NoData /\ bus' = IdleBus /\ state' \in {"LOOKUP", "FLUSH_ADDR"}
      BY <2>2 DEF WritebackDone, FlushEvictDone, EvictDone, Beats
    <3>2. ~bus'.rd /\ ~bus'.wr /\ bus'.buf = <<>>
      BY <3>1 DEF IdleBus
    <3> QED BY <3>1, <3>2 DEF Beats, BeatsMatch
  <2>3. CASE EvictThenRefill(ack, acc)
    <3>1. pmem.skid = NoData /\ req' = req /\ EnterRefill(acc)
      BY <2>3 DEF EvictThenRefill, EvictDone, Beats
    <3> QED BY <3>1, RequestRefillBeats DEF EnterRefill
  <2> QED BY <1>7, <2>1, <2>2, <2>3 DEF Evict
<1>8. CASE UNCHANGED vars
  BY <1>8 DEF vars, Beats, BeatsMatch, PmemWr, EvictWay, HitAny, Hit, IsDirty, BusWriteDone
<1> QED BY <1>2, <1>3, <1>4, <1>5, <1>6, <1>7, <1>8 DEF Next

LEMMA InitBurstInv == Init => BurstInv
<1> SUFFICES ASSUME Init PROVE BurstInv
  OBVIOUS
<1>1. state = "RESET" /\ flush.on = FALSE /\ pmem.skid = NoData /\ bus = IdleBus
  BY DEF Init
<1>2. ~bus.rd /\ ~bus.wr /\ bus.buf = <<>>
  BY <1>1 DEF IdleBus
<1>3. ControlInv
  BY <1>1 DEF ControlInv, FreshSet, Evicted, Flushed, WrittenBack, Refilled
<1>4. Beats
  BY <1>1, <1>2 DEF Beats, BeatsMatch
<1> QED BY <1>3, <1>4, InitTagInv DEF BurstInv

LEMMA BurstInvariant == Spec => [](TypeOK /\ BurstInv)
<1>1. TypeOK /\ TagInv /\ TagInv' /\ BurstInv /\ [Next]_vars => BurstInv'
  BY StepControlInv, StepBeats DEF BurstInv, ControlInv
<1> QED BY TypeCorrect, TagInvariant, InitBurstInv, <1>1, PTL DEF Spec

(* No beat of a burst is offered twice or dropped, whatever the bus refuses *)
(* and whatever the program asks: the counter, the first-beat flag and the  *)
(* skid buffer agree with the burst the bus has seen.                       *)
THEOREM BeatsCorrect == Spec => []BeatsMatch
<1>1. BurstInv => BeatsMatch
  BY DEF BurstInv, Beats
<1> QED BY BurstInvariant, <1>1, PTL

-----------------------------------------------------------------------------
(* The words of the bursts                                                 *)

LEMMA NextWord ==
  ASSUME NEW l, NEW n \in Nat, n # LineWords - 1
  PROVE  NextIndex([line |-> l, word |-> n]) = [line |-> l, word |-> n + 1]
BY DEF NextIndex

LEMMA EnterEvictData ==
  ASSUME TypeOK, Beats, EnterEvict, bus' = bus, dataRam' = dataRam, SetLine' = SetLine,
         replaceWay' \in Ways, state \notin {"REFILL", "EVICT", "EVICT_WAIT"}
  PROVE  EvictData'
<1>1. ~bus'.wr /\ Len(bus'.buf) = 0 /\ pmem.skid = NoData
  BY DEF Beats, BeatsMatch
<1>2. pmem' = [pmem EXCEPT !.wr0 = TRUE, !.len = LineWords - 1] /\ pmem \in PmemRegs
  BY DEF EnterEvict, TypeOK
<1>3. pmem'.skid = NoData
  BY <1>1, <1>2 DEF PmemRegs
<1>4. At(Len(bus.buf))' = Base(SetLine)
  BY <1>1 DEF At, Base
<1>5. dataOut'[replaceWay'] = dataRam[replaceWay'][Base(SetLine)]
  BY ReadDataEffect DEF EnterEvict
<1>6. PmemWriteData' = dataRam'[replaceWay'][At(Len(bus.buf))']
  BY <1>3, <1>4, <1>5 DEF PmemWriteData
<1>7. dataAddr' = NextIndex(At(Len(bus.buf))')
  BY <1>4 DEF EnterEvict
<1> QED BY <1>1, <1>6, <1>7 DEF EvictData

LEMMA EvictBeatData ==
  ASSUME TypeOK, FreshSet, Beats, EvictData, NEW acc \in BOOLEAN, EvictBeat(acc)
  PROVE  EvictData'
<1> DEFINE n == Len(bus.buf)
<1>1. /\ state = "EVICT" /\ PmemWr /\ pmem.wr0 = ~bus.wr /\ n + pmem.len = LineWords - 1
      /\ n \in Nat /\ pmem.len \in 0 .. 255 /\ ~bus.rd
  BY BusTypes DEF EvictBeat, Beats, BeatsMatch
<1>2. /\ PmemWriteData = dataRam[replaceWay][At(n)] /\ dataAddr = NextIndex(At(n))
      /\ PmemWriteData \in Data
  BY <1>1, WireTypes DEF EvictData
<1>3. UNCHANGED <<dataRam, replaceWay, flush, req>> /\ replaceWay \in Ways /\ SetLine' = SetLine
  BY DEF EvictBeat, TypeOK, SetLine
<1>4. \A w \in Ways : tagOut'[w] = tagOut[w]
  <2>1. tagRam' = tagRam /\ ReadTags(SetLine)
    BY DEF EvictBeat, LookAt
  <2> QED BY <1>1, <2>1, ReadTagsEffect DEF FreshSet
<1>5. EvictLine' = EvictLine /\ \A k : At(k)' = At(k)
  BY <1>3, <1>4 DEF EvictLine, At
<1>6. \A w \in Ways : dataOut'[w] = dataRam[w][dataAddr]
  BY ReadDataEffect DEF EvictBeat
<1>7. CASE acc
  <2>1. pmem' = [pmem EXCEPT !.wr0 = FALSE, !.len = (pmem.len - 1) % 256, !.skid = NoData]
        /\ pmem \in PmemRegs /\ dataAddr' = NextIndex(dataAddr)
    BY <1>7 DEF EvictBeat, TypeOK
  <2>2. pmem'.skid = NoData
    BY <2>1 DEF PmemRegs
  <2>3. /\ bus'.line = EvictLine /\ Len(bus'.buf) = n + 1 /\ bus'.buf[n + 1] = PmemWriteData
        /\ \A k \in 1 .. n : bus'.buf[k] = dataRam[replaceWay][At(k - 1)]
    <3>1. CASE pmem.wr0
      <4>1. n = 0
        <5>1. bus.buf = <<>>
          BY <1>1, <3>1 DEF Beats
        <5> QED BY <5>1
      <4>2. bus' = [rd |-> FALSE, wr |-> TRUE, line |-> EvictLine, buf |-> <<PmemWriteData>>]
        BY <1>1, <1>7, <3>1 DEF EvictBeat
      <4> QED BY <4>1, <4>2
    <3>2. CASE ~pmem.wr0
      <4>1. bus' = [bus EXCEPT !.buf = Append(bus.buf, PmemWriteData)] /\ bus.wr
        BY <1>1, <1>7, <3>2, BusTypes DEF EvictBeat
      <4>2. bus'.line = bus.line /\ bus'.buf = Append(bus.buf, PmemWriteData)
        BY <4>1 DEF TypeOK, Burst
      <4>3. bus.line = EvictLine /\ \A k \in 1 .. n : bus.buf[k] = dataRam[replaceWay][At(k - 1)]
        BY <4>1 DEF EvictData
      <4> QED BY <4>2, <4>3, <1>2, BusTypes
    <3> QED BY <3>1, <3>2
  <2>4. \A k \in 1 .. n + 1 : bus'.buf[k] = dataRam[replaceWay][At(k - 1)]
    <3>1. SUFFICES ASSUME NEW k \in 1 .. n + 1
                   PROVE  bus'.buf[k] = dataRam[replaceWay][At(k - 1)]
      OBVIOUS
    <3>2. CASE k = n + 1
      BY <1>1, <1>2, <2>3, <3>2
    <3>3. CASE k # n + 1
      BY <1>1, <2>3, <3>3
    <3> QED BY <3>2, <3>3
  <2>5. ASSUME state' = "EVICT"
        PROVE  /\ PmemWriteData' = dataRam[replaceWay][At(n + 1)]
               /\ dataAddr' = NextIndex(At(n + 1))
    <3>1. n # LineWords - 1
      <4>1. pmem.len # 0
        BY <1>7, <2>5 DEF EvictBeat, PmemLast
      <4> HIDE DEF n
      <4> QED BY <1>1, <4>1, SizeAssumption
    <3>2. dataAddr = At(n + 1)
      BY <1>1, <1>2, <3>1, NextWord DEF At
    <3>3. PmemWriteData' = dataOut'[replaceWay]
      BY <1>3, <2>2 DEF PmemWriteData
    <3> QED BY <1>3, <1>6, <2>1, <3>2, <3>3
  <2> HIDE DEF n
  <2> QED BY <1>3, <1>5, <2>3, <2>4, <2>5 DEF EvictData
<1>8. CASE ~acc
  <2>1. pmem' = [pmem EXCEPT !.skid = PmemWriteData] /\ UNCHANGED <<state, dataAddr, bus>>
        /\ pmem \in PmemRegs
    BY <1>1, <1>8 DEF EvictBeat, TypeOK
  <2>2. pmem'.skid = PmemWriteData
    BY <2>1 DEF PmemRegs
  <2>3. PmemWriteData' = PmemWriteData
    BY <1>2, <2>2, DataAssumption DEF PmemWriteData
  <2> QED BY <1>1, <1>2, <1>3, <1>5, <2>1, <2>3 DEF EvictData
<1> QED BY <1>7, <1>8

LEMMA StepEvictData == TypeOK /\ BurstInv /\ Beats' /\ EvictData /\ [Next]_vars => EvictData'
<1> SUFFICES ASSUME TypeOK, BurstInv, Beats', EvictData, [Next]_vars PROVE EvictData'
  OBVIOUS
<1>i. Control /\ FreshSet /\ Beats /\ flush \in FlushRegs /\ replaceWay \in Ways
  BY DEF BurstInv, TagInv, ControlInv, TypeOK
<1>1. ASSUME state' \notin {"EVICT", "EVICT_WAIT"} PROVE EvictData'
  BY <1>1 DEF Beats, BeatsMatch, EvictData
<1>2. CASE WritebackTick
  <2>1. CASE HitAndDirty
    <3>1. SetLine' = SetLine /\ replaceWay' \in Ways
      BY <1>2, <1>i DEF WritebackTick, SetLine, Ways
    <3> QED BY <1>2, <1>i, <2>1, <3>1, EnterEvictData DEF WritebackTick
  <2>2. CASE ~HitAndDirty
    BY <1>2, <2>2, <1>1 DEF WritebackTick
  <2> QED BY <2>1, <2>2
<1>3. CASE Flush
  <2>1. CASE FlushEvict
    <3>1. SetLine' = SetLine
      BY <2>1 DEF FlushEvict, SetLine
    <3> QED BY <2>1, <1>i, <3>1, EnterEvictData DEF FlushEvict
  <2>2. CASE FlushAddrTick \/ FlushOtherWay \/ FlushNext
    BY <2>2, <1>1 DEF FlushAddrTick, FlushOtherWay, FlushNext
  <2> QED BY <1>3, <2>1, <2>2 DEF Flush
<1>4. ASSUME NEW in \in Requests, NEW acc \in BOOLEAN, Lookup(in, acc) PROVE EvictData'
  <2>1. CASE LookupEvict
    <3>1. SetLine' = SetLine
      BY <2>1, <1>i DEF LookupEvict, InLookup, SetLine, Control, FlushRegs
    <3> QED BY <2>1, <1>i, <3>1, EnterEvictData DEF LookupEvict, InLookup
  <2>2. CASE LookupRefill(acc) \/ LookupAccept(in) \/ LookupHold(in)
    BY <2>2, <1>1 DEF LookupRefill, EnterRefill, LookupAccept, LookupHold, InLookup, StateAfter
  <2> QED BY <1>4, <2>1, <2>2 DEF Lookup
<1>5. ASSUME NEW ack \in Acks, NEW acc \in BOOLEAN, Evict(ack, acc) PROVE EvictData'
  <2>1. CASE EvictBeat(acc)
    BY <2>1, <1>i, EvictBeatData
  <2>2. CASE WritebackDone(ack) \/ FlushEvictDone(ack) \/ EvictThenRefill(ack, acc)
    BY <2>2, <1>1 DEF WritebackDone, FlushEvictDone, EvictThenRefill, EnterRefill
  <2> QED BY <1>5, <2>1, <2>2 DEF Evict
<1>6. CASE ResetTick \/ InvalidateTick
  BY <1>6, <1>1 DEF ResetTick, InvalidateTick
<1>7. ASSUME NEW ack \in Acks, Refill(ack) PROVE EvictData'
  BY <1>7, <1>1 DEF Refill, RefillRequest, RefillBeat, WriteTick, ReadTick
<1>8. CASE UNCHANGED vars
  <2>1. SetLine' = SetLine /\ EvictLine' = EvictLine /\ PmemWriteData' = PmemWriteData
    BY <1>8 DEF vars, SetLine, EvictLine, PmemWriteData
  <2>2. \A k : At(k)' = At(k)
    BY <2>1 DEF At
  <2> QED BY <1>8, <2>1, <2>2 DEF vars, EvictData
<1> QED BY <1>2, <1>3, <1>4, <1>5, <1>6, <1>7, <1>8 DEF Next

(* A beat of a refill writes one word of the line of the request, and a    *)
(* beat with an error promises nothing of that line.                       *)
LEMMA RefillBeatEffect ==
  ASSUME TypeOK, BurstInv, RefillData, NEW ack \in Acks, RefillBeat(ack)
  PROVE  /\ \A w \in Ways, j \in Index :
              dataRam'[w][j] = IF w = replaceWay /\ j = dataAddr
                               THEN IF ack = "ok" THEN BusWord ELSE Junk ELSE dataRam[w][j]
         /\ \A a \in Addr : arch'[a] = IF ack = "err" /\ LineOf(a) = LineOf(req.addr)
                                      THEN Unknown ELSE arch[a]
<1> DEFINE d == IF ack = "ok" THEN BusWord ELSE Junk
<1>1. WriteData({replaceWay}, dataAddr, d) /\ dataAddr \in Index
      /\ arch' = IF ack = "err" THEN Forget(LineOf(req.addr)) ELSE arch
  BY DEF RefillBeat, BurstInv, Beats, TypeOK
<1> HIDE DEF d
<1>2. \A w \in Ways, j \in Index :
        dataRam'[w][j] = IF w \in {replaceWay} /\ j = dataAddr THEN d ELSE dataRam[w][j]
  <2>1. PICK ways : ways = {replaceWay}
    OBVIOUS
  <2>2. PICK i \in Index : i = dataAddr
    BY <1>1
  <2>3. TypeOK /\ WriteData(ways, i, d)
    BY <1>1, <2>1, <2>2
  <2>4. \A w \in Ways, j \in Index : dataRam'[w][j] = IF w \in ways /\ j = i THEN d ELSE dataRam[w][j]
    BY <2>3, WriteDataEffect
  <2> QED BY <2>1, <2>2, <2>4
<1>3. \A w \in Ways, j \in Index :
        dataRam'[w][j] = IF w = replaceWay /\ j = dataAddr THEN d ELSE dataRam[w][j]
  BY <1>2
<1>4. \A a \in Addr : arch'[a] = IF ack = "err" /\ LineOf(a) = LineOf(req.addr)
                                THEN Unknown ELSE arch[a]
  BY <1>1 DEF Forget
<1> QED BY <1>3, <1>4 DEF d

LEMMA RefillBeatWords ==
  ASSUME TypeOK, BurstInv, RefillData, NEW ack \in Acks, RefillBeat(ack),
         NEW a \in Addr, LineOf(a) = LineOf(req.addr), a.word <= Len(bus.buf)
  PROVE  arch'[a] = Unknown \/ dataRam'[replaceWay][IndexOf(a)] = mem[a]
<1> DEFINE n == Len(bus.buf)
<1>1. /\ state = "REFILL" /\ bus.rd /\ bus.line = LineOf(req.addr) /\ n \in Nat
      /\ dataAddr = [line |-> req.addr.line, word |-> n] /\ dataAddr \in Index
      /\ replaceWay \in Ways
  BY BusTypes DEF RefillBeat, BurstInv, Beats, RefillData, TypeOK
<1>2. a.line = req.addr.line /\ a.tag = req.addr.tag /\ IndexOf(a) \in Index /\ a.word \in Nat
  BY WireTypes, AddrParts DEF LineOf, Words
<1>3. CASE a.word < n
  <2>1. arch[a] = Unknown \/ dataRam[replaceWay][IndexOf(a)] = mem[a]
    BY <1>1, <1>3 DEF RefillData
  <2>2. IndexOf(a) # dataAddr
    BY <1>1, <1>2, <1>3 DEF IndexOf
  <2> QED BY <2>1, <2>2, <1>1, <1>2, RefillBeatEffect
<1>4. CASE a.word = n
  <2>1. IndexOf(a) = dataAddr
    BY <1>1, <1>2, <1>4 DEF IndexOf
  <2>2. CASE ack = "err"
    BY <2>2, RefillBeatEffect
  <2>3. CASE ack # "err"
    <3>1. ack = "ok"
      BY <2>3 DEF RefillBeat, Acks
    <3>2. a = WordAt(bus.line, n)
      BY <1>1, <1>2, <1>4 DEF WordAt, LineOf, Addr
    <3>3. BusWord = mem[a]
      BY <3>2 DEF BusWord
    <3> QED BY <1>1, <2>1, <3>1, <3>3, RefillBeatEffect
  <2> QED BY <2>2, <2>3
<1> QED BY <1>1, <1>2, <1>3, <1>4

LEMMA StepRefillData == TypeOK /\ BurstInv /\ RefillData /\ [Next]_vars => RefillData'
<1> SUFFICES ASSUME TypeOK, BurstInv, RefillData, [Next]_vars, state' = "REFILL"
             PROVE  /\ dataAddr' = [line |-> req'.addr.line, word |-> Len(bus'.buf)]
                    /\ \A a \in Addr : LineOf(a) = LineOf(req'.addr) /\ a.word < Len(bus'.buf) =>
                         arch'[a] = Unknown \/ dataRam'[replaceWay'][IndexOf(a)] = mem'[a]
  BY DEF RefillData
<1> DEFINE Goal == /\ dataAddr' = [line |-> req'.addr.line, word |-> Len(bus'.buf)]
                   /\ \A a \in Addr : LineOf(a) = LineOf(req'.addr) /\ a.word < Len(bus'.buf) =>
                        arch'[a] = Unknown \/ dataRam'[replaceWay'][IndexOf(a)] = mem'[a]
<1>i. Beats
  BY DEF BurstInv
<1>1. ASSUME NEW acc \in BOOLEAN, EnterRefill(acc), req' = req PROVE Goal
  <2>1. bus'.buf = <<>>
    BY <1>1 DEF EnterRefill, RequestRefill, IdleBus
  <2>2. Len(bus'.buf) = 0 /\ dataAddr' = [line |-> req'.addr.line, word |-> 0]
    BY <1>1, <2>1 DEF EnterRefill, Base
  <2>3. \A a \in Addr : ~(a.word < 0)
    BY AddrParts, SizeAssumption DEF Words
  <2> QED BY <2>2, <2>3
<1>2. ASSUME NEW in \in Requests, NEW acc \in BOOLEAN, Lookup(in, acc) PROVE Goal
  <2>1. CASE LookupRefill(acc)
    BY <2>1, <1>1 DEF LookupRefill
  <2>2. ~(LookupEvict \/ LookupAccept(in) \/ LookupHold(in))
    BY DEF LookupEvict, EnterEvict, LookupAccept, StateAfter, LookupHold, InLookup
  <2> QED BY <1>2, <2>1, <2>2 DEF Lookup
<1>3. ASSUME NEW ack \in Acks, Refill(ack) PROVE Goal
  <2>1. CASE RefillRequest
    <3>1. state = "REFILL" /\ ~bus.rd /\ ~bus.wr
      BY <2>1, <1>i DEF RefillRequest, Beats, BeatsMatch
    <3>2. bus.buf = <<>> /\ bus'.buf = <<>>
      BY <2>1, <1>i, <3>1 DEF RefillRequest, RequestRefill, Beats
    <3> QED BY <2>1, <3>1, <3>2 DEF RefillRequest, RefillData
  <2>2. CASE RefillBeat(ack)
    <3> DEFINE n == Len(bus.buf)
    <3>1. /\ state = "REFILL" /\ bus.rd /\ n \in Nat /\ pmem.len \in 0 .. 255
          /\ n + pmem.len = LineWords - 1 /\ UNCHANGED <<req, replaceWay, mem>>
      BY <2>2, <1>i, BusTypes DEF RefillBeat, Beats, BeatsMatch
    <3>2. pmem.len # 0
      BY <2>2 DEF RefillBeat, PmemLast
    <3>3. n # LineWords - 1
      <4> HIDE DEF n
      <4> QED BY <3>1, <3>2, SizeAssumption
    <3>4. bus' = [bus EXCEPT !.buf = Append(bus.buf, BusWord)]
      BY <2>2, <3>3 DEF RefillBeat
    <3>5. Len(bus'.buf) = n + 1
      BY <3>4, BusTypes DEF TypeOK, Burst
    <3>6. dataAddr' = [line |-> req.addr.line, word |-> n + 1]
      BY <2>2, <3>1, <3>3, NextWord DEF RefillBeat, RefillData
    <3>7. ASSUME NEW a \in Addr, LineOf(a) = LineOf(req.addr), a.word < n + 1
          PROVE  arch'[a] = Unknown \/ dataRam'[replaceWay][IndexOf(a)] = mem[a]
      <4>1. a.word <= n
        BY <3>1, <3>7, AddrParts, SizeAssumption DEF Words
      <4> QED BY <4>1, <2>2, <3>7, RefillBeatWords
    <3> HIDE DEF n
    <3> QED BY <3>1, <3>5, <3>6, <3>7
  <2>3. ~WriteTick /\ ~ReadTick
    BY DEF WriteTick, ReadTick
  <2> QED BY <1>3, <2>1, <2>2, <2>3 DEF Refill
<1>4. ASSUME NEW ack \in Acks, NEW acc \in BOOLEAN, Evict(ack, acc) PROVE Goal
  <2>1. CASE EvictThenRefill(ack, acc)
    BY <2>1, <1>1 DEF EvictThenRefill, EvictDone
  <2>2. ~(EvictBeat(acc) \/ WritebackDone(ack) \/ FlushEvictDone(ack))
    BY DEF EvictBeat, WritebackDone, FlushEvictDone
  <2> QED BY <1>4, <2>1, <2>2 DEF Evict
<1>5. ~(ResetTick \/ InvalidateTick \/ WritebackTick \/ Flush)
  BY DEF ResetTick, InvalidateTick, WritebackTick, EnterEvict, Flush, FlushAddrTick,
         FlushEvict, FlushOtherWay, FlushNext
<1>6. CASE UNCHANGED vars
  BY <1>6 DEF vars, RefillData
<1> QED BY <1>2, <1>3, <1>4, <1>5, <1>6 DEF Next

-----------------------------------------------------------------------------
(* The word a read is answered with                                        *)

(* What a buffered write does to the RAMs when it is looked up: the line   *)
(* is marked in the way that holds it, and the word is written there.      *)
LEMMA WriteHitEffect ==
  ASSUME TypeOK, TagInv, state = "LOOKUP", WriteHit
  PROVE  /\ \A w \in Ways, l \in LineAddr : Holds(w, l)' = Holds(w, l)
         /\ \A w \in Ways, l \in LineAddr : Holds(w, l) =>
              tagRam'[w][l.line].dirty =
                (tagRam[w][l.line].dirty \/ (req.op = "wr" /\ l = LineOf(req.addr)))
         /\ \A w \in Ways, a \in Addr : Holds(w, LineOf(a)) =>
              dataRam'[w][IndexOf(a)] =
                IF req.op = "wr" /\ a = req.addr THEN req.data ELSE dataRam[w][IndexOf(a)]
<1> DEFINE ways == IF req.op = "wr" THEN HitWays ELSE {}
           e == Entry(TRUE, TRUE, req.addr.tag)
<1>1. WriteTags(ways, req.addr.line, e) /\ WriteData(ways, IndexOf(req.addr), req.data)
  BY DEF WriteHit
<1>2. e.valid = TRUE /\ e.dirty = TRUE /\ e.tag = req.addr.tag
  BY DEF Entry
<1>3. /\ req.addr \in Addr /\ req.addr.line \in Lines /\ IndexOf(req.addr) \in Index
      /\ LineOf(req.addr) \in LineAddr
  BY WireTypes
<1>4. \A w \in Ways : w \in ways <=> req.op = "wr" /\ Holds(w, LineOf(req.addr))
  <2>1. CASE req.op = "wr"
    <3>1. \A w \in Ways : tagOut[w] = tagRam[w][req.addr.line]
      BY <2>1 DEF TagInv, FreshTags, Access
    <3> QED BY <2>1, <3>1, HitHolds DEF HitWays
  <2>2. CASE req.op # "wr"
    BY <2>2
  <2> QED BY <2>1, <2>2
<1> HIDE DEF ways, e
<1>5. \A w \in Ways, k \in Lines :
        tagRam'[w][k] = IF w \in ways /\ k = req.addr.line THEN e ELSE tagRam[w][k]
  BY <1>1, <1>3, WriteTagsEffect
<1>6. \A w \in Ways, j \in Index :
        dataRam'[w][j] = IF w \in ways /\ j = IndexOf(req.addr) THEN req.data ELSE dataRam[w][j]
  <2>1. PICK i \in Index : i = IndexOf(req.addr)
    BY <1>3
  <2>2. WriteData(ways, i, req.data)
    BY <1>1, <2>1
  <2>3. \A w \in Ways, j \in Index : dataRam'[w][j] = IF w \in ways /\ j = i THEN req.data ELSE dataRam[w][j]
    BY <2>2, WriteDataEffect
  <2> QED BY <2>1, <2>3
<1>7. ASSUME NEW w \in Ways, NEW l \in LineAddr
      PROVE  /\ Holds(w, l)' = Holds(w, l)
             /\ Holds(w, l) => tagRam'[w][l.line].dirty =
                  (tagRam[w][l.line].dirty \/ (req.op = "wr" /\ l = LineOf(req.addr)))
  <2>1. l.line \in Lines /\ tagRam[w][l.line] \in TagEntry
    BY DEF LineAddr, TypeOK
  <2>2. CASE w \in ways /\ l.line = req.addr.line
    <3>1. tagRam'[w][l.line] = e /\ req.op = "wr" /\ Holds(w, LineOf(req.addr))
      BY <1>4, <1>5, <2>1, <2>2
    <3>2. tagRam[w][l.line].valid /\ tagRam[w][l.line].tag = req.addr.tag
      BY <2>2, <3>1 DEF Holds, LineOf
    <3>3. l.tag = req.addr.tag => l = LineOf(req.addr)
      BY <2>2 DEF LineOf, LineAddr
    <3> QED BY <1>2, <2>1, <3>1, <3>2, <3>3 DEF Holds
  <2>3. CASE ~(w \in ways /\ l.line = req.addr.line)
    <3>1. tagRam'[w][l.line] = tagRam[w][l.line]
      BY <1>5, <2>1, <2>3
    <3>2. ~(req.op = "wr" /\ l = LineOf(req.addr) /\ Holds(w, l))
      BY <1>4, <2>3 DEF LineOf
    <3>3. tagRam[w][l.line].dirty \in BOOLEAN
      BY <2>1 DEF TagEntry
    <3> QED BY <3>1, <3>2, <3>3 DEF Holds
  <2> QED BY <2>2, <2>3
<1>8. ASSUME NEW w \in Ways, NEW a \in Addr, Holds(w, LineOf(a))
      PROVE  dataRam'[w][IndexOf(a)] =
               IF req.op = "wr" /\ a = req.addr THEN req.data ELSE dataRam[w][IndexOf(a)]
  <2>1. IndexOf(a) \in Index
    BY AddrParts
  <2>2. CASE w \in ways /\ IndexOf(a) = IndexOf(req.addr)
    <3>1. dataRam'[w][IndexOf(a)] = req.data /\ req.op = "wr" /\ Holds(w, LineOf(req.addr))
      BY <1>4, <1>6, <2>1, <2>2
    <3>2. a.line = req.addr.line
      BY <2>2 DEF IndexOf
    <3>3. a.tag = req.addr.tag
      BY <1>8, <3>1, <3>2 DEF Holds, LineOf
    <3>4. a = req.addr
      BY <1>3, <2>2, <3>2, <3>3, AddrEqual DEF LineOf
    <3> QED BY <3>1, <3>4
  <2>3. CASE ~(w \in ways /\ IndexOf(a) = IndexOf(req.addr))
    <3>1. dataRam'[w][IndexOf(a)] = dataRam[w][IndexOf(a)]
      BY <1>6, <2>1, <2>3
    <3>2. ~(req.op = "wr" /\ a = req.addr)
      BY <1>4, <1>8, <2>3
    <3> QED BY <3>1, <3>2
  <2> QED BY <2>2, <2>3
<1> QED BY <1>7, <1>8

LEMMA StepReadFresh == TypeOK /\ BurstInv /\ ReadFresh /\ [Next]_vars => ReadFresh'
<1> SUFFICES ASSUME TypeOK, BurstInv, ReadFresh, [Next]_vars, state' = "LOOKUP", req'.op = "rd",
                    NEW w \in Ways, Holds(w, LineOf(req.addr))'
             PROVE  dataOut'[w] = dataRam'[w][IndexOf(req'.addr)]
  BY DEF ReadFresh
<1>i. TagInv /\ Control /\ Refilled /\ Beats
  BY DEF BurstInv, TagInv, ControlInv
<1>1. ASSUME NEW in \in Requests, LookupAccept(in)
      PROVE  dataOut'[w] = dataRam'[w][IndexOf(req'.addr)]
  <2>1. in.addr \in Addr /\ IndexOf(in.addr) \in Index /\ LineOf(in.addr) \in LineAddr
    BY RequestAssumption, AddrParts DEF Request
  <2>2. req' = in /\ state = "LOOKUP" /\ WriteHit /\ ReadData(IndexOf(in.addr)) /\ MemAccept(in)
    BY <1>1 DEF LookupAccept
  <2>3. dataOut'[w] = dataRam[w][IndexOf(in.addr)]
    BY <2>2, ReadDataEffect
  <2>4. Holds(w, LineOf(in.addr))
    <3>1. Holds(w, LineOf(in.addr))' = Holds(w, LineOf(in.addr))
      BY <1>i, <2>1, <2>2, WriteHitEffect
    <3>2. tagRam'[w][LineOf(in.addr).line].valid /\ tagRam'[w][LineOf(in.addr).line].tag = LineOf(in.addr).tag
      BY <2>2 DEF Holds
    <3> QED BY <3>1, <3>2 DEF Holds
  <2>5. ~(req.op = "wr" /\ in.addr = req.addr)
    BY <2>2 DEF MemAccept
  <2>6. dataRam'[w][IndexOf(in.addr)] = dataRam[w][IndexOf(in.addr)]
    BY <1>i, <2>1, <2>2, <2>4, <2>5, WriteHitEffect
  <2> QED BY <2>2, <2>3, <2>6
<1>2. CASE ReadTick
  BY <1>2, ReadDataEffect DEF ReadTick
<1>3. CASE UNCHANGED vars
  BY <1>3 DEF vars, ReadFresh, Holds
<1>4. ~(ResetTick \/ WritebackTick \/ InvalidateTick \/ Flush \/ WriteTick)
  BY <1>i DEF ResetTick, WritebackTick, InvalidateTick, Flush, FlushAddrTick, FlushEvict,
              EnterEvict, FlushOtherWay, FlushNext, WriteTick, Control, Refilled
<1>5. ASSUME NEW in \in Requests, NEW acc \in BOOLEAN
      PROVE  ~(LookupEvict \/ LookupRefill(acc) \/ LookupHold(in))
  BY DEF LookupEvict, EnterEvict, LookupRefill, EnterRefill, LookupHold, NoReq
<1>6. ASSUME NEW ack \in Acks, NEW acc \in BOOLEAN
      PROVE  ~(RefillRequest \/ RefillBeat(ack) \/ Evict(ack, acc))
  BY DEF RefillRequest, RefillBeat, Evict, EvictBeat, WritebackDone, EvictDone, FlushEvictDone,
         EvictThenRefill, EnterRefill
<1> QED BY <1>1, <1>2, <1>3, <1>4, <1>5, <1>6 DEF Next, Lookup, Refill

-----------------------------------------------------------------------------
(* Where each word is current                                              *)

(* A step that keeps a word: the ways that hold it afterwards held it with *)
(* the same contents, and only a clean line is dropped.                    *)
Kept(a) ==
  /\ \A w \in Ways : Solid(w, LineOf(a))' =>
       Solid(w, LineOf(a)) /\ dataRam'[w][IndexOf(a)] = dataRam[w][IndexOf(a)]
  /\ \A w \in Ways : Solid(w, LineOf(a)) /\ tagRam[w][a.line].dirty =>
       Solid(w, LineOf(a))' /\ tagRam'[w][a.line].dirty
  /\ mem'[a] = mem[a]

LEMMA KeptIsCurrent ==
  ASSUME NEW a \in Addr, InWay(a), InMem(a), Kept(a), arch'[a] = arch[a] \/ arch'[a] = Unknown
  PROVE  InWay(a)' /\ InMem(a)'
<1>1. InWay(a)'
  <2>1. SUFFICES ASSUME NEW w \in Ways, Solid(w, LineOf(a))'
                 PROVE  arch'[a] \in {Unknown, dataRam'[w][IndexOf(a)]}
    BY DEF InWay
  <2>2. Solid(w, LineOf(a)) /\ dataRam'[w][IndexOf(a)] = dataRam[w][IndexOf(a)]
    BY <2>1 DEF Kept
  <2> QED BY <2>2 DEF InWay
<1>2. InMem(a)'
  <2>1. SUFFICES ASSUME NotDirty(a)' PROVE arch'[a] \in {Unknown, mem'[a]}
    BY DEF InMem
  <2>2. NotDirty(a)
    BY <2>1 DEF NotDirty, Kept
  <2> QED BY <2>2 DEF InMem, Kept
<1> QED BY <1>1, <1>2

LEMMA KeptCurrent ==
  ASSUME TypeOK, Current, state # "RESET", state' # "RESET", req' = req,
         \A a \in Addr : arch'[a] = arch[a] \/ arch'[a] = Unknown,
         \A a \in Addr : Kept(a)
  PROVE  Current'
<1>1. ASSUME NEW a \in Addr, Buffered(a)' PROVE arch'[a] \in {Unknown, req'.data}
  BY <1>1 DEF Current, Buffered
<1>2. ASSUME NEW a \in Addr, ~Buffered(a)' PROVE InWay(a)' /\ InMem(a)'
  <2>1. InWay(a) /\ InMem(a)
    BY <1>2 DEF Current, Buffered
  <2> QED BY <2>1, KeptIsCurrent
<1> QED BY <1>1, <1>2 DEF Current

(* Steps that touch neither the RAMs nor the memory.                       *)
LEMMA QuietCurrent ==
  ASSUME TypeOK, Current, state # "RESET", state' # "RESET",
         UNCHANGED <<req, tagRam, dataRam, mem, arch>>,
         (state # "REFILL" /\ state' # "REFILL")
           \/ (state = "REFILL" /\ state' = "REFILL" /\ replaceWay' = replaceWay)
  PROVE  Current'
<1>1. \A w \in Ways, l \in LineAddr : Solid(w, l)' <=> Solid(w, l)
  BY DEF Solid, Holds, InTransit
<1>2. \A a \in Addr : Kept(a)
  BY <1>1, AddrParts DEF Kept
<1> QED BY <1>2, KeptCurrent

(* The last write of a line of a way: what the ways hold then.             *)
LEMMA SolidIsHolds == state # "REFILL" => \A w, l : Solid(w, l) <=> Holds(w, l)
BY DEF Solid, InTransit

LEMMA ResetCurrent == TypeOK /\ TagInv /\ Current /\ ResetTick => Current'
<1> SUFFICES ASSUME TypeOK, TagInv, Current, ResetTick PROVE Current'
  OBVIOUS
<1>1. arch = mem /\ UNCHANGED <<req, mem, arch>> /\ req.op = "none" /\ flush.addr \in Lines
  BY DEF ResetTick, Current, TagInv, Control, TypeOK, FlushRegs
<1>2. \A a \in Addr : ~Buffered(a)'
  BY <1>1 DEF Buffered
<1>3. ASSUME state' # "RESET", NEW a \in Addr PROVE InWay(a)' /\ InMem(a)'
  <2>1. flush.last /\ state' = "LOOKUP"
    BY <1>3 DEF ResetTick
  <2>2. \A w \in Ways, l \in Lines : ~tagRam[w][l].valid
    BY <2>1 DEF ResetTick, TagInv, ClearedInv, Cleared
  <2>3. WriteTags(Ways, flush.addr, ZeroEntry)
    BY DEF ResetTick
  <2>4. \A w \in Ways, k \in Lines :
          tagRam'[w][k] = IF k = flush.addr THEN ZeroEntry ELSE tagRam[w][k]
    <3>1. WriteTags(Ways, flush.addr, ZeroEntry)
      BY DEF ResetTick
    <3>2. flush \in FlushRegs /\ flush.addr \in Lines
      BY <1>1 DEF TypeOK
    <3> QED BY <3>1, <3>2, WriteTagsEffect
  <2>5. \A w \in Ways, l \in Lines : ~tagRam'[w][l].valid
    BY <2>2, <2>4 DEF ZeroEntry, Entry
  <2>6. \A w \in Ways : ~Solid(w, LineOf(a))'
    BY <2>5, AddrParts DEF Solid, Holds
  <2> QED BY <1>1, <2>6 DEF InWay, InMem
<1> QED BY <1>1, <1>2, <1>3 DEF Current

(* The way to be refilled holds no dirty line.                             *)
LEMMA LookupRefillCurrent ==
  ASSUME TypeOK, TagInv, Current, NEW acc \in BOOLEAN, LookupRefill(acc)
  PROVE  Current'
<1>1. /\ state = "LOOKUP" /\ state' = "REFILL" /\ Miss /\ ~EvictWay /\ replaceWay \in Ways
      /\ UNCHANGED <<req, tagRam, dataRam, mem, arch, replaceWay>>
  BY DEF LookupRefill, InLookup, EnterRefill, LookAt, TypeOK
<1>2. \A w \in Ways : tagOut[w] = tagRam[w][req.addr.line]
  BY <1>1 DEF TagInv, FreshTags, Miss
<1>3. ~(tagRam[replaceWay][req.addr.line].valid /\ tagRam[replaceWay][req.addr.line].dirty)
  BY <1>1, <1>2 DEF Miss, EvictWay, IsDirty
<1>4. ASSUME NEW a \in Addr PROVE Kept(a)
  <2>1. ASSUME NEW w \in Ways, Solid(w, LineOf(a))' PROVE Solid(w, LineOf(a))
    BY <1>1, <2>1 DEF Solid, Holds, InTransit
  <2>2. ASSUME NEW w \in Ways, Solid(w, LineOf(a)), tagRam[w][a.line].dirty
        PROVE  Solid(w, LineOf(a))'
    <3>1. ~(w = replaceWay /\ a.line = req.addr.line)
      BY <1>3, <2>2, AddrParts DEF Solid, Holds
    <3> QED BY <1>1, <2>2, <3>1, AddrParts DEF Solid, Holds, InTransit
  <2> QED BY <1>1, <2>1, <2>2 DEF Kept
<1> QED BY <1>1, <1>4, KeptCurrent

(* The request in hand is done and the next one, if any, is taken.         *)
LEMMA LookupDoneCurrent ==
  ASSUME TypeOK, TagInv, Current, NoInvalidates, NEW in \in Requests,
         LookupAccept(in) \/ LookupHold(in)
  PROVE  Current'
<1>1. /\ state = "LOOKUP" /\ WriteHit /\ mem' = mem /\ ~Miss
      /\ state' \notin {"RESET", "REFILL"}
  BY DEF LookupAccept, LookupHold, InLookup, MemAccept, StateAfter
<1>2. in \in Request /\ in.op # "inval" /\ in.addr \in Addr
  BY RequestAssumption DEF NoInvalidates, Request
<1>3. /\ \A a \in Addr : arch'[a] = arch[a] \/ Buffered(a)'
      /\ \A a \in Addr : Buffered(a)' => arch'[a] = req'.data
  <2>1. CASE LookupAccept(in)
    <3>1. req' = in /\ arch' = IF in.op = "wr" THEN [arch EXCEPT ![in.addr] = in.data] ELSE arch
      BY <1>2, <2>1 DEF LookupAccept, ArchAfter
    <3> QED BY <1>2, <3>1 DEF Buffered, TypeOK
  <2>2. CASE LookupHold(in)
    BY <2>2 DEF LookupHold, Buffered, NoReq
  <2> QED BY <2>1, <2>2
<1>4. \A w \in Ways, l \in LineAddr : (Solid(w, l)' <=> Holds(w, l)) /\ (Solid(w, l) <=> Holds(w, l))
  <2>1. ASSUME NEW w \in Ways, NEW l \in LineAddr
        PROVE  (Solid(w, l)' <=> Holds(w, l)) /\ (Solid(w, l) <=> Holds(w, l))
    <3>1. Holds(w, l)' = Holds(w, l)
      BY <1>1, WriteHitEffect
    <3>2. (Solid(w, l)' <=> Holds(w, l)') /\ (Solid(w, l) <=> Holds(w, l))
      BY <1>1 DEF Solid, InTransit
    <3> QED BY <3>1, <3>2
  <2> QED BY <2>1
<1>5. ASSUME NEW a \in Addr, ~Buffered(a)' PROVE InWay(a)' /\ InMem(a)'
  <2>1. LineOf(a) \in LineAddr /\ LineOf(a).line = a.line /\ arch'[a] = arch[a]
    BY <1>3, <1>5, AddrParts
  <2>2. CASE Buffered(a)
    <3>1. req.op = "wr" /\ a = req.addr /\ arch[a] \in {Unknown, req.data}
      BY <2>2 DEF Buffered, Current
    <3>2. \A w \in Ways : Solid(w, LineOf(a))' => dataRam'[w][IndexOf(a)] = req.data
      BY <1>1, <1>4, <2>1, <3>1, WriteHitEffect
    <3>3. PICK w \in Ways : Hit(w)
      BY <1>1, <3>1 DEF Miss, Access, HitAny
    <3>4. Holds(w, LineOf(a))
      <4>1. tagOut[w] = tagRam[w][req.addr.line]
        BY <1>1, <3>1 DEF TagInv, FreshTags, Access
      <4> QED BY <3>1, <3>3, <4>1, HitHolds
    <3>5. tagRam'[w][LineOf(a).line].dirty
      BY <1>1, <2>1, <3>1, <3>4, WriteHitEffect
    <3>6. ~NotDirty(a)'
      BY <1>4, <2>1, <3>4, <3>5 DEF NotDirty
    <3> QED BY <2>1, <3>1, <3>2, <3>6 DEF InWay, InMem
  <2>3. CASE ~Buffered(a)
    <3>1. InWay(a) /\ InMem(a)
      BY <1>1, <2>3 DEF Current
    <3>2. \A w \in Ways : Holds(w, LineOf(a)) => dataRam'[w][IndexOf(a)] = dataRam[w][IndexOf(a)]
      BY <1>1, <2>3, WriteHitEffect DEF Buffered
    <3>3. \A w \in Ways : Holds(w, LineOf(a)) /\ tagRam[w][a.line].dirty => tagRam'[w][a.line].dirty
      BY <1>1, <2>1, WriteHitEffect
    <3>4. Kept(a)
      BY <1>1, <1>4, <2>1, <3>2, <3>3 DEF Kept
    <3> QED BY <2>1, <3>1, <3>4, KeptIsCurrent
  <2> QED BY <2>2, <2>3
<1>6. ASSUME NEW a \in Addr, Buffered(a)' PROVE arch'[a] \in {Unknown, req'.data}
  BY <1>3, <1>6
<1> QED BY <1>1, <1>5, <1>6 DEF Current

LEMMA RefillBeatCurrent ==
  ASSUME TypeOK, BurstInv, RefillData, Current, NEW ack \in Acks, RefillBeat(ack)
  PROVE  Current'
<1>1. /\ state = "REFILL" /\ state' # "RESET" /\ UNCHANGED <<req, mem, replaceWay>>
      /\ replaceWay \in Ways /\ Control /\ OtherWayFree /\ ~flush.on
      /\ dataAddr = [line |-> req.addr.line, word |-> Len(bus.buf)]
  BY DEF RefillBeat, BurstInv, TagInv, Control, TypeOK, RefillData
<1>2. \A a \in Addr : arch'[a] = arch[a] \/ arch'[a] = Unknown
  BY RefillBeatEffect
<1>3. \A w \in Ways, a \in Addr : ~(w = replaceWay /\ a.line = req.addr.line) =>
         dataRam'[w][IndexOf(a)] = dataRam[w][IndexOf(a)]
  <2>1. SUFFICES ASSUME NEW w \in Ways, NEW a \in Addr, ~(w = replaceWay /\ a.line = req.addr.line)
                 PROVE  dataRam'[w][IndexOf(a)] = dataRam[w][IndexOf(a)]
    OBVIOUS
  <2>2. ~(w = replaceWay /\ IndexOf(a) = dataAddr)
    BY <1>1, <2>1 DEF IndexOf
  <2> QED BY <2>2, AddrParts, RefillBeatEffect
<1>4. CASE ~PmemLast
  <2>1. tagRam' = tagRam /\ state' = "REFILL"
    <3>1. WriteTags({}, req.addr.line, Entry(TRUE, FALSE, req.addr.tag)) /\ state' = "REFILL"
      BY <1>4 DEF RefillBeat
    <3> QED BY <3>1 DEF WriteTags, TypeOK
  <2>2. \A w \in Ways, l \in LineAddr : Solid(w, l)' <=> Solid(w, l)
    BY <1>1, <2>1 DEF Solid, Holds, InTransit
  <2>3. ASSUME NEW a \in Addr PROVE Kept(a)
    <3>1. \A w \in Ways : Solid(w, LineOf(a)) => ~(w = replaceWay /\ a.line = req.addr.line)
      BY <1>1, AddrParts DEF Solid, InTransit
    <3> QED BY <1>1, <1>3, <2>1, <2>2, <3>1, AddrParts DEF Kept
  <2> QED BY <1>1, <1>2, <2>3, KeptCurrent
<1>5. CASE PmemLast
  <2> DEFINE e == Entry(TRUE, FALSE, req.addr.tag)
  <2>1. state' \in {"READ", "WRITE"} /\ WriteTags({replaceWay}, req.addr.line, e)
        /\ e.valid = TRUE /\ e.tag = req.addr.tag /\ e.dirty = FALSE
        /\ req.addr.line \in Lines /\ req.addr \in Addr
    BY <1>5, WireTypes DEF RefillBeat, Entry
  <2> HIDE DEF e
  <2>2. \A w \in Ways, k \in Lines :
          tagRam'[w][k] = IF w \in {replaceWay} /\ k = req.addr.line THEN e ELSE tagRam[w][k]
    <3>1. WriteTags({replaceWay}, req.addr.line, e) /\ req.addr.line \in Lines
      BY <2>1
    <3> QED BY <3>1, WriteTagsEffect
  <2>3. ASSUME NEW w \in Ways, NEW l \in LineAddr
        PROVE  Solid(w, l)' <=> IF w = replaceWay /\ l.line = req.addr.line
                                THEN l = LineOf(req.addr) ELSE Solid(w, l)
    <3>1. Solid(w, l)' <=> Holds(w, l)'
      BY <2>1 DEF Solid, InTransit
    <3>2. l.line \in Lines
      BY DEF LineAddr
    <3>3. CASE w = replaceWay /\ l.line = req.addr.line
      <4>1. tagRam'[w][l.line] = e
        BY <2>2, <3>2, <3>3
      <4>2. l.tag = req.addr.tag <=> l = LineOf(req.addr)
        BY <3>3 DEF LineAddr, LineOf
      <4> QED BY <2>1, <3>1, <3>3, <4>1, <4>2 DEF Holds
    <3>4. CASE ~(w = replaceWay /\ l.line = req.addr.line)
      <4>1. tagRam'[w][l.line] = tagRam[w][l.line]
        BY <2>2, <3>2, <3>4
      <4> QED BY <3>1, <3>4, <4>1 DEF Holds, Solid, InTransit
    <3> QED BY <3>3, <3>4
  <2>4. ASSUME NEW a \in Addr, ~Buffered(a)' PROVE InWay(a)' /\ InMem(a)'
    <3>1. InWay(a) /\ InMem(a) /\ LineOf(a) \in LineAddr /\ LineOf(a).line = a.line
          /\ IndexOf(a) \in Index
      BY <1>1, <2>4, AddrParts DEF Current, Buffered
    <3>2. CASE LineOf(a) = LineOf(req.addr)
      <4>1. a.line = req.addr.line /\ a.word \in Words
        BY <3>2, AddrParts DEF LineOf
      <4>2. \A w \in Ways : w # replaceWay => ~Holds(w, LineOf(a))
        BY <1>1, <3>2 DEF OtherWayFree, Ways
      <4>3. \A w \in Ways : ~Solid(w, LineOf(a))
        BY <1>1, <4>1, <4>2, <3>1 DEF Solid, InTransit
      <4>4. arch[a] \in {Unknown, mem[a]}
        BY <3>1, <4>3 DEF InMem, NotDirty
      <4>5. a.word <= Len(bus.buf)
        <5>1. Len(bus.buf) + pmem.len = LineWords - 1 /\ pmem.len = 0 /\ Len(bus.buf) \in Nat
          BY <1>5, BusTypes DEF RefillBeat, BurstInv, Beats, BeatsMatch, PmemLast
        <5> QED BY <4>1, <5>1, SizeAssumption DEF Words
      <4>6. arch'[a] = Unknown \/ dataRam'[replaceWay][IndexOf(a)] = mem[a]
        BY <3>2, <4>5, RefillBeatWords
      <4>7. \A w \in Ways : Solid(w, LineOf(a))' => w = replaceWay
        BY <2>3, <3>1, <4>3
      <4>8. arch'[a] = Unknown \/ arch'[a] = mem[a]
        BY <1>2, <4>4
      <4>9. arch'[a] = Unknown \/ arch'[a] = dataRam'[replaceWay][IndexOf(a)]
        BY <4>6, <4>8
      <4>10. InWay(a)'
        BY <4>7, <4>9 DEF InWay
      <4>11. InMem(a)'
        BY <1>1, <4>8 DEF InMem
      <4> QED BY <4>10, <4>11
    <3>3. CASE LineOf(a) # LineOf(req.addr)
      <4>1. \A w \in Ways : Solid(w, LineOf(a))' => Solid(w, LineOf(a)) /\ ~(w = replaceWay /\ a.line = req.addr.line)
        BY <2>3, <3>1, <3>3
      <4>2. \A w \in Ways : Solid(w, LineOf(a)) => ~(w = replaceWay /\ a.line = req.addr.line)
        BY <1>1, <3>1 DEF Solid, InTransit
      <4>3. \A w \in Ways : Solid(w, LineOf(a)) => Solid(w, LineOf(a))' /\ tagRam'[w][a.line] = tagRam[w][a.line]
        BY <2>2, <2>3, <3>1, <4>2, AddrParts
      <4>4. Kept(a)
        BY <1>1, <1>3, <4>1, <4>3 DEF Kept
      <4> QED BY <1>2, <3>1, <4>4, KeptIsCurrent
    <3> QED BY <3>2, <3>3
  <2>5. ASSUME NEW a \in Addr, Buffered(a)' PROVE arch'[a] \in {Unknown, req'.data}
    <3>1. arch[a] \in {Unknown, req.data}
      BY <1>1, <2>5 DEF Current, Buffered
    <3> QED BY <1>1, <1>2, <3>1
  <2> QED BY <1>1, <2>4, <2>5 DEF Current
<1> QED BY <1>4, <1>5

(* The write that missed goes into the line refilled for it.               *)
LEMMA WriteTickCurrent ==
  ASSUME TypeOK, BurstInv, Current, WriteTick
  PROVE  Current'
<1> DEFINE e == Entry(TRUE, TRUE, req.addr.tag)
<1>1. /\ state = "WRITE" /\ state' = "LOOKUP" /\ UNCHANGED <<req, mem, arch>>
      /\ WriteTags({replaceWay}, req.addr.line, e) /\ WriteData(HitWays, IndexOf(req.addr), req.data)
      /\ e.valid = TRUE /\ e.tag = req.addr.tag /\ e.dirty = TRUE
  BY DEF WriteTick, Entry
<1>2. /\ req.op = "wr" /\ Holds(replaceWay, LineOf(req.addr)) /\ ~flush.on
      /\ ~Holds(1 - replaceWay, LineOf(req.addr)) /\ replaceWay \in Ways
  BY <1>1 DEF BurstInv, ControlInv, TagInv, Control, Refilled, OtherWayFree, TypeOK
<1>3. /\ req.addr \in Addr /\ req.addr.line \in Lines /\ IndexOf(req.addr) \in Index
  BY WireTypes
<1>4. \A w \in HitWays : w = replaceWay
  <2>1. \A w \in Ways : tagOut[w] = tagRam[w][req.addr.line]
    BY <1>1, <1>2 DEF BurstInv, ControlInv, FreshSet, SetLine
  <2>2. \A w \in HitWays : Holds(w, LineOf(req.addr))
    BY <2>1, HitHolds DEF HitWays
  <2> QED BY <1>2, <2>2 DEF HitWays, Ways
<1> HIDE DEF e
<1>5. \A w \in Ways, k \in Lines :
        tagRam'[w][k] = IF w \in {replaceWay} /\ k = req.addr.line THEN e ELSE tagRam[w][k]
  <2>1. WriteTags({replaceWay}, req.addr.line, e) /\ req.addr.line \in Lines
    BY <1>1, <1>3
  <2> QED BY <2>1, WriteTagsEffect
<1>6. \A w \in Ways, j \in Index :
        dataRam'[w][j] = IF w \in HitWays /\ j = IndexOf(req.addr) THEN req.data ELSE dataRam[w][j]
  <2>1. WriteData(HitWays, IndexOf(req.addr), req.data) /\ IndexOf(req.addr) \in Index
    BY <1>1, <1>3
  <2> QED BY <2>1, WriteDataEffect
<1>7. ASSUME NEW w \in Ways, NEW l \in LineAddr
      PROVE  /\ Solid(w, l)' <=> Solid(w, l)
             /\ Solid(w, l) /\ tagRam[w][l.line].dirty => tagRam'[w][l.line].dirty
  <2>1. (Solid(w, l)' <=> Holds(w, l)') /\ (Solid(w, l) <=> Holds(w, l)) /\ l.line \in Lines
    BY <1>1 DEF Solid, InTransit, LineAddr
  <2>2. CASE w = replaceWay /\ l.line = req.addr.line
    <3>1. tagRam'[w][l.line] = e
      BY <1>5, <2>1, <2>2
    <3>2. tagRam[w][l.line].valid /\ tagRam[w][l.line].tag = req.addr.tag
      BY <1>2, <2>2 DEF Holds, LineOf
    <3> QED BY <1>1, <2>1, <3>1, <3>2 DEF Holds
  <2>3. CASE ~(w = replaceWay /\ l.line = req.addr.line)
    <3>1. tagRam'[w][l.line] = tagRam[w][l.line]
      BY <1>5, <2>1, <2>3
    <3> QED BY <2>1, <3>1 DEF Holds
  <2> QED BY <2>2, <2>3
<1>8. ASSUME NEW a \in Addr, ~Buffered(a) PROVE Kept(a)
  <2>1. LineOf(a) \in LineAddr /\ LineOf(a).line = a.line /\ IndexOf(a) \in Index
    BY AddrParts
  <2>2. ASSUME NEW w \in Ways, Solid(w, LineOf(a))
        PROVE  dataRam'[w][IndexOf(a)] = dataRam[w][IndexOf(a)]
    <3>1. SUFFICES ASSUME w \in HitWays, IndexOf(a) = IndexOf(req.addr) PROVE FALSE
      BY <1>6, <2>1
    <3>2. w = replaceWay /\ a.line = req.addr.line
      BY <1>4, <3>1 DEF IndexOf
    <3>3. a.tag = req.addr.tag
      BY <1>2, <2>2, <3>2 DEF Solid, Holds, LineOf
    <3>4. a = req.addr
      BY <1>3, <3>1, <3>2, <3>3, AddrEqual DEF LineOf
    <3> QED BY <1>2, <1>8, <3>4 DEF Buffered
  <2> QED BY <1>1, <1>7, <2>1, <2>2 DEF Kept
<1>9. ASSUME NEW a \in Addr, ~Buffered(a)' PROVE InWay(a)' /\ InMem(a)'
  <2>1. ~Buffered(a) /\ arch'[a] = arch[a]
    BY <1>1, <1>9 DEF Buffered
  <2>2. InWay(a) /\ InMem(a)
    BY <1>1, <2>1 DEF Current
  <2> QED BY <1>8, <2>1, <2>2, KeptIsCurrent
<1>10. ASSUME NEW a \in Addr, Buffered(a)' PROVE arch'[a] \in {Unknown, req'.data}
  BY <1>1, <1>10 DEF Current, Buffered
<1> QED BY <1>1, <1>9, <1>10 DEF Current

(* The line the bus acknowledges is the one the way to replace holds, and  *)
(* the memory is given the words of that way.                              *)
LEMMA EvictedLine ==
  ASSUME TypeOK, BurstInv, EvictData, NEW ack \in Acks, EvictDone(ack)
  PROVE  /\ bus.line \in LineAddr /\ bus.line = EvictLine
         /\ tagOut[replaceWay] = tagRam[replaceWay][SetLine]
         /\ \A w \in Ways : Holds(w, bus.line) <=> w = replaceWay
         /\ \A a \in Addr : mem'[a] = IF ack = "ok" /\ LineOf(a) = bus.line
                                     THEN dataRam[replaceWay][IndexOf(a)] ELSE mem[a]
<1>1. state = "EVICT_WAIT" /\ replaceWay \in Ways
  BY DEF EvictDone, TypeOK
<1>2. FreshSet /\ Evicted /\ NoAlias /\ BusWriteDone
  BY <1>1 DEF BurstInv, TagInv, ControlInv, Beats, BeatsMatch
<1>3. /\ bus.line = EvictLine /\ tagOut[replaceWay] = tagRam[replaceWay][SetLine]
      /\ tagRam[replaceWay][SetLine].valid /\ tagRam[replaceWay][SetLine].tag = bus.line.tag
      /\ bus.line.line = SetLine /\ bus.line \in LineAddr
  BY <1>1, <1>2, BusTypes DEF FreshSet, Evicted, EvictData, BusWriteDone, EvictLine
<1>4. \A w \in Ways : Holds(w, bus.line) <=> w = replaceWay
  BY <1>1, <1>2, <1>3 DEF Holds, NoAlias, Ways
<1>5. ASSUME NEW a \in Addr
      PROVE  mem'[a] = IF ack = "ok" /\ LineOf(a) = bus.line
                       THEN dataRam[replaceWay][IndexOf(a)] ELSE mem[a]
  <2>1. mem' = IF ack = "ok" THEN Committed ELSE mem
    BY DEF EvictDone
  <2>2. CASE ack = "ok" /\ LineOf(a) = bus.line
    <3>1. mem'[a] = bus.buf[a.word + 1]
      BY <2>1, <2>2 DEF Committed
    <3>2. a.word + 1 \in 1 .. Len(bus.buf) /\ (a.word + 1) - 1 = a.word
      BY <1>2, AddrParts, SizeAssumption DEF Words, BusWriteDone
    <3>3. bus.buf[a.word + 1] = dataRam[replaceWay][At(a.word)]
      BY <1>2, <3>2 DEF EvictData, BusWriteDone
    <3>4. At(a.word) = IndexOf(a)
      BY <1>3, <2>2, AddrParts DEF At, IndexOf
    <3> QED BY <2>2, <3>1, <3>3, <3>4
  <2>3. CASE ~(ack = "ok" /\ LineOf(a) = bus.line)
    BY <2>1, <2>3 DEF Committed
  <2> QED BY <2>2, <2>3
<1> QED BY <1>3, <1>4, <1>5

LEMMA EvictDoneCurrent ==
  ASSUME TypeOK, BurstInv, EvictData, Current, NEW ack \in Acks, NEW acc \in BOOLEAN,
         WritebackDone(ack) \/ FlushEvictDone(ack) \/ EvictThenRefill(ack, acc)
  PROVE  Current'
<1> DEFINE e == IF flush.on THEN ZeroEntry ELSE Entry(TRUE, FALSE, req.addr.tag)
<1>1. /\ EvictDone(ack) /\ replaceWay \in Ways /\ SetLine \in Lines
      /\ WriteTags({replaceWay}, SetLine, e)
      /\ state = "EVICT_WAIT" /\ state' # "RESET" /\ UNCHANGED <<req, dataRam>>
  BY WireTypes DEF WritebackDone, FlushEvictDone, EvictThenRefill, EnterRefill, EvictDone, TypeOK
<1>2. Control /\ FreshSet /\ Evicted
  BY <1>1 DEF BurstInv, TagInv, ControlInv
<1>3. /\ tagOut[replaceWay] = tagRam[replaceWay][SetLine] /\ bus.line \in LineAddr
      /\ tagOut[replaceWay].tag = bus.line.tag /\ bus.line.line = SetLine
  BY <1>1, EvictedLine DEF EvictLine
<1>4. \A w \in Ways : Holds(w, bus.line) <=> w = replaceWay
  BY <1>1, EvictedLine
<1> HIDE DEF e
<1>5. \A w \in Ways, k \in Lines :
        tagRam'[w][k] = IF w \in {replaceWay} /\ k = SetLine THEN e ELSE tagRam[w][k]
  <2>1. WriteTags({replaceWay}, SetLine, e) /\ SetLine \in Lines
    BY <1>1
  <2> QED BY <2>1, WriteTagsEffect
<1>6. \A w \in Ways, l \in LineAddr : Solid(w, l) <=> Holds(w, l)
  BY <1>1 DEF Solid, InTransit
(* The replaced way holds no other line of the set afterwards.             *)
<1>7. ASSUME NEW l \in LineAddr, l.line = SetLine, NEW w \in Ways, w = replaceWay, Solid(w, l)'
      PROVE  l = bus.line
  <2>1. replaceWay' = replaceWay \/ flush.on
    BY DEF WritebackDone, FlushEvictDone, EvictThenRefill
  <2>2. tagRam'[w][SetLine] = e
    BY <1>1, <1>5, <1>7
  <2>3. ~flush.on
    <3>1. SUFFICES ASSUME flush.on PROVE FALSE
      OBVIOUS
    <3>2. ~e.valid
      BY <3>1 DEF e, ZeroEntry, Entry
    <3> QED BY <1>7, <2>2, <3>2 DEF Solid, Holds
  <2>4. replaceWay' = replaceWay /\ SetLine = req.addr.line
    BY <2>1, <2>3 DEF SetLine
  <2>5. CASE req.op = "wb"
    <3>1. bus.line.tag = req.addr.tag
      BY <1>1, <1>2, <1>3, <2>5 DEF Evicted, Hit, FreshSet
    <3>2. e.tag = req.addr.tag
      BY <2>3 DEF e, Entry
    <3>3. l.tag = req.addr.tag
      BY <1>7, <2>2, <2>4, <3>2 DEF Solid, Holds
    <3> QED BY <1>3, <1>7, <3>1, <3>3 DEF LineAddr
  <2>6. CASE req.op # "wb"
    <3>1. state' = "REFILL"
      BY <2>3, <2>6 DEF WritebackDone, FlushEvictDone, EvictThenRefill, EnterRefill
    <3> QED BY <1>1, <1>7, <2>4, <3>1 DEF Solid, InTransit
  <2> QED BY <2>5, <2>6
<1>8. \A a \in Addr : arch'[a] = arch[a] \/ arch'[a] = Unknown
  BY <1>1 DEF EvictDone, Forget, TypeOK
<1>12. ack = "err" => \A a \in Addr : LineOf(a) = bus.line => arch'[a] = Unknown
  BY <1>1 DEF EvictDone, Forget
<1>9. \A a \in Addr : mem'[a] = IF ack = "ok" /\ LineOf(a) = bus.line
                               THEN dataRam[replaceWay][IndexOf(a)] ELSE mem[a]
  BY <1>1, EvictedLine
<1>10. ASSUME NEW a \in Addr, ~Buffered(a)' PROVE InWay(a)' /\ InMem(a)'
  <2>1. /\ InWay(a) /\ InMem(a) /\ LineOf(a) \in LineAddr /\ LineOf(a).line = a.line
        /\ IndexOf(a) \in Index /\ a.line \in Lines
    BY <1>1, <1>10, AddrParts DEF Current, Buffered
  <2>2. CASE LineOf(a) = bus.line
    <3>1. arch[a] \in {Unknown, dataRam[replaceWay][IndexOf(a)]}
      BY <1>1, <1>4, <1>6, <2>1, <2>2 DEF InWay
    <3>2. arch'[a] = Unknown \/ arch'[a] = dataRam[replaceWay][IndexOf(a)]
      BY <1>8, <3>1
    <3>3. ASSUME NEW w \in Ways, Solid(w, LineOf(a))' PROVE w = replaceWay
      <4>1. SUFFICES ASSUME w # replaceWay PROVE FALSE
        OBVIOUS
      <4>2. tagRam'[w][a.line] = tagRam[w][a.line]
        BY <1>5, <2>1, <4>1
      <4>3. Holds(w, LineOf(a))
        BY <2>1, <3>3, <4>2 DEF Solid, Holds
      <4> QED BY <1>4, <2>2, <4>1, <4>3
    <3>4. InWay(a)'
      BY <1>1, <3>2, <3>3 DEF InWay
    <3>5. arch'[a] = Unknown \/ arch'[a] = mem'[a]
      <4>1. ack \in {"ok", "err"}
        BY <1>1 DEF EvictDone, Acks
      <4> QED BY <1>9, <1>12, <2>2, <3>2, <4>1
    <3>6. InMem(a)'
      BY <3>5 DEF InMem
    <3> QED BY <3>4, <3>6
  <2>3. CASE LineOf(a) # bus.line
    <3>1. ASSUME NEW w \in Ways, Solid(w, LineOf(a))' PROVE Solid(w, LineOf(a))
      <4>1. ~(w = replaceWay /\ a.line = SetLine)
        BY <1>7, <2>1, <2>3, <3>1
      <4>2. tagRam'[w][a.line] = tagRam[w][a.line]
        BY <1>5, <2>1, <4>1
      <4> QED BY <1>6, <2>1, <3>1, <4>2 DEF Solid, Holds
    <3>2. ASSUME NEW w \in Ways, Solid(w, LineOf(a)), tagRam[w][a.line].dirty
          PROVE  Solid(w, LineOf(a))' /\ tagRam'[w][a.line].dirty
      <4>1. ~(w = replaceWay /\ a.line = SetLine)
        <5>1. SUFFICES ASSUME w = replaceWay, a.line = SetLine PROVE FALSE
          OBVIOUS
        <5>2. LineOf(a).tag = bus.line.tag
          BY <1>3, <2>1, <3>2, <5>1 DEF Solid, Holds
        <5> QED BY <1>3, <2>1, <2>3, <5>1, <5>2 DEF LineAddr
      <4>2. tagRam'[w][a.line] = tagRam[w][a.line]
        BY <1>5, <2>1, <4>1
      <4>3. Holds(w, LineOf(a))'
        BY <2>1, <3>2, <4>2 DEF Solid, Holds
      <4>4. ~InTransit(w, a.line)'
        <5>1. SUFFICES ASSUME state' = "REFILL" PROVE ~(w = replaceWay' /\ a.line = req'.addr.line)
          BY DEF InTransit
        <5>2. ~flush.on /\ replaceWay' = replaceWay /\ req' = req
          BY <1>1, <5>1 DEF WritebackDone, FlushEvictDone, EvictThenRefill
        <5> QED BY <4>1, <5>2 DEF SetLine
      <4> QED BY <2>1, <3>2, <4>2, <4>3, <4>4 DEF Solid
    <3>3. Kept(a)
      BY <1>1, <1>9, <2>3, <3>1, <3>2 DEF Kept
    <3> QED BY <1>8, <2>1, <3>3, KeptIsCurrent
  <2> QED BY <2>2, <2>3
<1>11. ASSUME NEW a \in Addr, Buffered(a)' PROVE arch'[a] \in {Unknown, req'.data}
  <2>1. arch[a] \in {Unknown, req.data}
    BY <1>1, <1>11 DEF Current, Buffered
  <2> QED BY <1>1, <1>8, <2>1
<1> QED BY <1>1, <1>10, <1>11 DEF Current

(* The flush drops the two ways of a line once neither is dirty.           *)
LEMMA FlushNextCurrent ==
  ASSUME TypeOK, BurstInv, Current, FlushNext
  PROVE  Current'
<1>1. /\ state = "FLUSH" /\ state' \in {"LOOKUP", "FLUSH_ADDR"} /\ ~DirtyAny
      /\ UNCHANGED <<req, dataRam, mem, arch>>
  BY DEF FlushNext
<1>2. WriteTags(Ways, flush.addr, ZeroEntry)
  BY DEF FlushNext
<1>3. flush.addr \in Lines /\ flush.on
  BY <1>1 DEF BurstInv, TagInv, Control, TypeOK, FlushRegs
<1>4. \A w \in Ways : ~(tagRam[w][flush.addr].valid /\ tagRam[w][flush.addr].dirty)
  <2>1. \A w \in Ways : tagOut[w] = tagRam[w][flush.addr]
    BY <1>1, <1>3 DEF BurstInv, ControlInv, FreshSet, SetLine
  <2> QED BY <1>1, <2>1 DEF DirtyAny, IsDirty
<1>5. \A w \in Ways, k \in Lines :
        tagRam'[w][k] = IF k = flush.addr THEN ZeroEntry ELSE tagRam[w][k]
  BY <1>2, <1>3, WriteTagsEffect
<1>6. ASSUME NEW a \in Addr PROVE Kept(a)
  <2>1. LineOf(a).line = a.line /\ a.line \in Lines
    BY AddrParts
  <2>2. ASSUME NEW w \in Ways, Solid(w, LineOf(a))' PROVE Solid(w, LineOf(a))
    BY <1>1, <1>5, <2>1, <2>2 DEF Solid, Holds, InTransit, ZeroEntry, Entry
  <2>3. ASSUME NEW w \in Ways, Solid(w, LineOf(a)), tagRam[w][a.line].dirty
        PROVE  Solid(w, LineOf(a))' /\ tagRam'[w][a.line].dirty
    <3>1. a.line # flush.addr
      BY <1>4, <2>1, <2>3 DEF Solid, Holds
    <3>2. tagRam'[w][a.line] = tagRam[w][a.line]
      BY <1>5, <2>1, <3>1
    <3> QED BY <1>1, <2>1, <2>3, <3>2 DEF Solid, Holds, InTransit
  <2> QED BY <1>1, <2>2, <2>3 DEF Kept
<1> QED BY <1>1, <1>6, KeptCurrent

LEMMA StepCurrent ==
  ASSUME TypeOK, BurstInv, DataInv, NoInvalidates, [Next]_vars
  PROVE  Current'
<1>i. TagInv /\ Control /\ EvictData /\ RefillData /\ Current /\ req.op # "inval"
  BY DEF BurstInv, TagInv, DataInv
<1>1. CASE ResetTick
  BY <1>1, <1>i, ResetCurrent
<1>2. CASE WritebackTick
  BY <1>2, <1>i, QuietCurrent DEF WritebackTick, EnterEvict, LookAt
<1>3. ~InvalidateTick
  BY <1>i DEF InvalidateTick, Control
<1>4. CASE Flush
  <2>1. CASE FlushAddrTick \/ FlushEvict \/ FlushOtherWay
    BY <2>1, <1>i, QuietCurrent DEF FlushAddrTick, FlushEvict, FlushOtherWay, EnterEvict, LookAt
  <2>2. CASE FlushNext
    BY <2>2, <1>i, FlushNextCurrent
  <2> QED BY <1>4, <2>1, <2>2 DEF Flush
<1>5. ASSUME NEW in \in Requests, NEW acc \in BOOLEAN, Lookup(in, acc) PROVE Current'
  <2>1. CASE LookupEvict
    BY <2>1, <1>i, QuietCurrent DEF LookupEvict, InLookup, EnterEvict, LookAt
  <2>2. CASE LookupRefill(acc)
    BY <2>2, <1>i, LookupRefillCurrent
  <2>3. CASE LookupAccept(in) \/ LookupHold(in)
    BY <2>3, <1>i, LookupDoneCurrent
  <2> QED BY <1>5, <2>1, <2>2, <2>3 DEF Lookup
<1>6. ASSUME NEW ack \in Acks, Refill(ack) PROVE Current'
  <2>1. CASE RefillRequest
    BY <2>1, <1>i, QuietCurrent DEF RefillRequest
  <2>2. CASE RefillBeat(ack)
    BY <2>2, <1>i, RefillBeatCurrent
  <2>3. CASE WriteTick
    BY <2>3, <1>i, WriteTickCurrent
  <2>4. CASE ReadTick
    BY <2>4, <1>i, QuietCurrent DEF ReadTick, LookAt
  <2> QED BY <1>6, <2>1, <2>2, <2>3, <2>4 DEF Refill
<1>7. ASSUME NEW ack \in Acks, NEW acc \in BOOLEAN, Evict(ack, acc) PROVE Current'
  <2>1. CASE EvictBeat(acc)
    BY <2>1, <1>i, QuietCurrent DEF EvictBeat, LookAt
  <2>2. CASE WritebackDone(ack) \/ FlushEvictDone(ack) \/ EvictThenRefill(ack, acc)
    BY <2>2, <1>i, EvictDoneCurrent
  <2> QED BY <1>7, <2>1, <2>2 DEF Evict
<1>8. CASE UNCHANGED vars
  BY <1>8, <1>i DEF vars, Current, Buffered, InWay, InMem, NotDirty, Solid, Holds, InTransit
<1> QED BY <1>1, <1>2, <1>3, <1>4, <1>5, <1>6, <1>7, <1>8 DEF Next

LEMMA StepNoInvalidate ==
  ASSUME req.op # "inval", NoInvalidates, [Next]_vars
  PROVE  req'.op # "inval"
<1>1. CASE req' = req
  BY <1>1
<1>2. ASSUME NEW in \in Requests, LookupAccept(in) \/ LookupHold(in) PROVE req'.op # "inval"
  BY <1>2 DEF LookupAccept, LookupHold, NoReq, NoInvalidates
<1>3. CASE UNCHANGED vars
  BY <1>1, <1>3 DEF vars
<1>4. CASE ResetTick \/ WritebackTick \/ InvalidateTick \/ Flush
  BY <1>1, <1>4 DEF ResetTick, WritebackTick, InvalidateTick, Flush, FlushAddrTick,
                    FlushEvict, FlushOtherWay, FlushNext
<1>5. ASSUME NEW acc \in BOOLEAN, LookupEvict \/ LookupRefill(acc) PROVE req'.op # "inval"
  BY <1>1, <1>5 DEF LookupEvict, LookupRefill, InLookup
<1>6. ASSUME NEW ack \in Acks, NEW acc \in BOOLEAN, Refill(ack) \/ Evict(ack, acc)
      PROVE  req'.op # "inval"
  BY <1>1, <1>6 DEF Refill, RefillRequest, RefillBeat, WriteTick, ReadTick, Evict, EvictBeat,
                    WritebackDone, FlushEvictDone, EvictThenRefill, EvictDone
<1> QED BY <1>2, <1>3, <1>4, <1>5, <1>6 DEF Next, Lookup

LEMMA InitDataInv == Init => DataInv
<1> SUFFICES ASSUME Init PROVE DataInv
  OBVIOUS
<1>1. state = "RESET" /\ req.op = "none" /\ arch = mem /\ bus = IdleBus
  BY DEF Init, NoReq
<1>2. ~bus.wr
  BY <1>1 DEF IdleBus
<1> QED BY <1>1, <1>2 DEF DataInv, EvictData, RefillData, Current, Buffered, ReadFresh

LEMMA DataInvariant ==
  ASSUME NoInvalidates
  PROVE  Spec => [](TypeOK /\ BurstInv /\ DataInv)
<1>1. TypeOK /\ BurstInv /\ BurstInv' /\ DataInv /\ [Next]_vars => DataInv'
  <2> SUFFICES ASSUME TypeOK, BurstInv, BurstInv', DataInv, [Next]_vars PROVE DataInv'
    OBVIOUS
  <2>1. EvictData'
    BY StepEvictData DEF BurstInv, DataInv
  <2>2. RefillData' /\ ReadFresh'
    BY StepRefillData, StepReadFresh DEF DataInv
  <2>3. Current' /\ req'.op # "inval"
    BY NoInvalidates, StepCurrent, StepNoInvalidate DEF DataInv
  <2> QED BY <2>1, <2>2, <2>3 DEF DataInv
<1> QED BY BurstInvariant, InitDataInv, <1>1, PTL DEF Spec

-----------------------------------------------------------------------------
(* What the answers say                                                    *)

(* In LOOKUP each word is where Current says it is.                        *)
LEMMA LookupWords ==
  ASSUME Current, state = "LOOKUP", NEW a \in Addr, ~Buffered(a)
  PROVE  /\ \A w \in Ways : Holds(w, LineOf(a)) => arch[a] \in {Unknown, dataRam[w][IndexOf(a)]}
         /\ (\A w \in Ways : Holds(w, LineOf(a)) => ~tagRam[w][a.line].dirty)
              => arch[a] \in {Unknown, mem[a]}
<1>1. InWay(a) /\ InMem(a)
  BY DEF Current
<1>2. \A w \in Ways : Solid(w, LineOf(a)) <=> Holds(w, LineOf(a))
  BY DEF Solid, InTransit
<1>3. \A w \in Ways : Holds(w, LineOf(a)) => arch[a] \in {Unknown, dataRam[w][IndexOf(a)]}
  BY <1>1, <1>2 DEF InWay
<1>4. (\A w \in Ways : Holds(w, LineOf(a)) => ~tagRam[w][a.line].dirty)
        => arch[a] \in {Unknown, mem[a]}
  BY <1>1, <1>2 DEF InMem, NotDirty
<1> QED BY <1>3, <1>4

(* No write is lost: whenever the controller is back in LOOKUP a later     *)
(* access finds in the RAMs, or in memory, what the program last wrote.    *)
THEOREM NoWriteLost == ASSUME NoInvalidates PROVE Spec => []Coherent
<1>1. DataInv => Coherent
  <2> SUFFICES ASSUME DataInv, state = "LOOKUP", NEW a \in Addr
               PROVE  arch[a] \in {Unknown, View(a)}
    BY DEF Coherent
  <2>c. Current
    BY DEF DataInv
  <2>1. CASE Buffered(a)
    BY <2>c, <2>1 DEF Current, Buffered, View
  <2>2. CASE ~Buffered(a)
    <3> DEFINE w == CHOOSE v \in Ways : Holds(v, LineOf(a))
    <3>1. CASE \E v \in Ways : Holds(v, LineOf(a))
      <4>1. w \in Ways /\ Holds(w, LineOf(a))
        BY <3>1
      <4>2. View(a) = dataRam[w][IndexOf(a)]
        BY <2>2, <3>1 DEF View, Buffered
      <4> HIDE DEF w
      <4> QED BY <2>c, <2>2, <4>1, <4>2, LookupWords
    <3>2. CASE ~\E v \in Ways : Holds(v, LineOf(a))
      <4>1. View(a) = mem[a]
        BY <2>2, <3>2 DEF View, Buffered
      <4> QED BY <2>c, <2>2, <3>2, <4>1, LookupWords
    <3> QED BY <3>1, <3>2
  <2> QED BY <2>1, <2>2
<1> QED BY NoInvalidates, DataInvariant, <1>1, PTL

(* A line that is valid and not dirty equals the memory, so that dropping  *)
(* it loses nothing.                                                       *)
THEOREM CleanLines == ASSUME NoInvalidates PROVE Spec => []CleanIsMemory
<1>1. TypeOK /\ BurstInv /\ DataInv => CleanIsMemory
  <2> SUFFICES ASSUME TypeOK, BurstInv, DataInv, state = "LOOKUP", NEW w \in Ways, NEW a \in Addr,
                      Holds(w, LineOf(a)), ~tagRam[w][a.line].dirty, arch[a] # Unknown,
                      ~(req.op = "wr" /\ req.addr = a)
               PROVE  dataRam[w][IndexOf(a)] = mem[a]
    BY DEF CleanIsMemory
  <2>1. Current /\ NoAlias /\ ~Buffered(a) /\ LineOf(a) \in LineAddr
    BY AddrParts DEF DataInv, BurstInv, TagInv, Buffered
  <2>2. \A v \in Ways : Holds(v, LineOf(a)) => v = w
    BY <2>1 DEF NoAlias, Ways
  <2>3. arch[a] \in {Unknown, dataRam[w][IndexOf(a)]} /\ arch[a] \in {Unknown, mem[a]}
    BY <2>1, <2>2, LookupWords
  <2> QED BY <2>3
<1> QED BY NoInvalidates, DataInvariant, <1>1, PTL

LEMMA FlushWords == BurstInv /\ DataInv => FlushReachesMemory
<1> SUFFICES ASSUME BurstInv, DataInv, MemAck, req.op = "flush"
             PROVE  /\ \A w \in Ways, l \in Lines : ~tagRam[w][l].valid
                    /\ \A a \in Addr : arch[a] \in {Unknown, mem[a]}
  BY DEF FlushReachesMemory
<1>1. state = "LOOKUP" /\ Current /\ Flushed
  BY DEF MemAck, DataInv, BurstInv, ControlInv
<1>2. \A w \in Ways, l \in Lines : ~tagRam[w][l].valid
  BY <1>1 DEF Flushed
<1>3. ASSUME NEW a \in Addr PROVE arch[a] \in {Unknown, mem[a]}
  <2>1. ~Buffered(a) /\ \A w \in Ways : ~Holds(w, LineOf(a))
    BY <1>2, AddrParts DEF Holds, Buffered
  <2> QED BY <1>1, <2>1, LookupWords
<1> QED BY <1>2, <1>3

(* A flush is acknowledged when both ways are empty and every word written *)
(* before it is in memory.                                                 *)
THEOREM FlushCorrect == ASSUME NoInvalidates PROVE Spec => []FlushReachesMemory
BY NoInvalidates, DataInvariant, FlushWords, PTL

LEMMA WritebackWords == BurstInv /\ DataInv => WritebackReachesMemory
<1> SUFFICES ASSUME BurstInv, DataInv, MemAck, req.op = "wb",
                    NEW a \in Addr, LineOf(a) = LineOf(req.addr)
             PROVE  /\ arch[a] \in {Unknown, mem[a]}
                    /\ \A w \in Ways : Holds(w, LineOf(a)) => ~tagRam[w][a.line].dirty
  BY DEF WritebackReachesMemory
<1>1. state = "LOOKUP" /\ Current /\ WrittenBack /\ ~Buffered(a) /\ a.line = req.addr.line
  BY DEF MemAck, DataInv, BurstInv, ControlInv, Buffered, LineOf
<1>2. \A w \in Ways : Holds(w, LineOf(a)) => ~tagRam[w][a.line].dirty
  BY <1>1 DEF WrittenBack
<1> QED BY <1>1, <1>2, LookupWords

(* A writeback is acknowledged when the words of its line are in memory    *)
(* and the line is clean.                                                  *)
THEOREM WritebackCorrect == ASSUME NoInvalidates PROVE Spec => []WritebackReachesMemory
BY NoInvalidates, DataInvariant, WritebackWords, PTL

-----------------------------------------------------------------------------
(* Without invalidates the data cache controller implements CachedMemory.  *)

(* The refinement mapping, as the instance CM of DCacheCore states it.     *)
Pending == IF req.op = "none" THEN NoReq ELSE req
Value   == IF MemAck /\ req.op = "rd" THEN DataRd ELSE Junk

RefineInv == TypeOK /\ BurstInv /\ DataInv /\ ErrorHasOwner

LEMMA RefineInvariant ==
  ASSUME NoInvalidates
  PROVE  Spec => []RefineInv
BY NoInvalidates, DataInvariant, ErrorAttributed, PTL DEF RefineInv

(* The way that hits is the one that holds the line: a read is answered    *)
(* with what the program last wrote there.                                 *)
LEMMA ReadRight ==
  ASSUME RefineInv, MemAck, req.op = "rd"
  PROVE  arch[req.addr] \in {Unknown, DataRd}
<1>1. /\ state = "LOOKUP" /\ HitAny /\ TypeOK /\ TagInv /\ Current /\ ReadFresh
      /\ ~Buffered(req.addr) /\ req.addr \in Addr
  BY WireTypes DEF MemAck, Miss, Access, RefineInv, BurstInv, DataInv, Buffered
<1>2. \A w \in Ways : tagOut[w] = tagRam[w][req.addr.line]
  BY <1>1 DEF TagInv, FreshTags, Access
<1>3. \A w \in Ways : Hit(w) <=> Holds(w, LineOf(req.addr))
  BY <1>2, HitHolds
<1>4. PICK w \in Ways : Hit(w) /\ DataRd = dataOut[w]
  <2>1. Hit(0) \/ Hit(1)
    BY <1>1 DEF HitAny, Ways
  <2> QED BY <2>1 DEF DataRd, Ways
<1>5. dataOut[w] = dataRam[w][IndexOf(req.addr)]
  BY <1>1, <1>3, <1>4 DEF ReadFresh
<1>6. arch[req.addr] \in {Unknown, dataRam[w][IndexOf(req.addr)]}
  BY <1>1, <1>3, <1>4, LookupWords
<1> QED BY <1>4, <1>5, <1>6

(* Every answer is one CachedMemory may give.                              *)
AnswerPermitted == MemAck \in BOOLEAN /\ Value \in Data /\ CM!AnswerRight

LEMMA AnswersRight == RefineInv => AnswerPermitted
<1> SUFFICES ASSUME RefineInv PROVE AnswerPermitted
  OBVIOUS
<1>1. MemAck \in BOOLEAN
  BY DEF MemAck
<1>2. Value \in Data
  BY DataAssumption DEF Value, DataRd, RefineInv, TypeOK, Ways
<1>3. ASSUME MemAck
      PROVE  /\ Pending = req /\ Pending # NoReq
             /\ Pending.op = "rd" => arch[Pending.addr] \in {Unknown, Value}
             /\ Pending.op = "wb" =>
                  \A a \in Addr : LineOf(a) = LineOf(Pending.addr) => arch[a] \in {Unknown, mem[a]}
             /\ Pending.op = "flush" => \A a \in Addr : arch[a] \in {Unknown, mem[a]}
  <2>1. Pending = req /\ req.op # "none" /\ state = "LOOKUP"
    BY <1>3 DEF MemAck, Pending
  <2>2. req # NoReq
    BY <2>1 DEF NoReq
  <2>3. req.op = "rd" => arch[req.addr] \in {Unknown, Value}
    BY <1>3, ReadRight DEF Value
  <2>4. FlushReachesMemory /\ WritebackReachesMemory
    BY FlushWords, WritebackWords DEF RefineInv
  <2> QED BY <1>3, <2>1, <2>2, <2>3, <2>4 DEF FlushReachesMemory, WritebackReachesMemory
<1>4. CM!AnswerRight
  BY <1>3 DEF CM!AnswerRight, CM!InMemory, Pending, Value
<1> QED BY <1>1, <1>2, <1>4 DEF AnswerPermitted

LEMMA InitRefines == Init => CM!Init
<1> SUFFICES ASSUME Init PROVE CM!Init
  OBVIOUS
<1>1. req.op = "none" /\ state = "RESET" /\ error = FALSE /\ arch = InitMem /\ mem = InitMem
  BY DEF Init, NoReq
<1>2. MemAck = FALSE
  BY <1>1 DEF MemAck
<1>3. Junk \in Data
  BY DataAssumption
<1> QED BY <1>1, <1>2, <1>3 DEF CM!Init

-----------------------------------------------------------------------------
(* Each step is a step of CachedMemory                                     *)

LEMMA Answers == RefineInv' => CM!MayAnswer
<1>1. RefineInv' => AnswerPermitted'
  BY AnswersRight, PTL
<1> QED BY <1>1 DEF AnswerPermitted, CM!MayAnswer, Value

(* An edge at which nothing the program or the memory sees happens.        *)
LEMMA WorkRefines ==
  ASSUME RefineInv', ~MemAck, UNCHANGED <<req, error, arch, mem>>
  PROVE  CM!Next
<1>1. CM!Work
  BY Answers DEF CM!Work
<1> QED BY <1>1 DEF CM!Next

(* The request in hand is answered and none follows.                       *)
LEMMA RetireRefines ==
  ASSUME RefineInv', MemAck, req'.op = "none", ~error', error' \in BOOLEAN, UNCHANGED <<arch, mem>>
  PROVE  CM!Next
<1>1. CM!Retire
  BY Answers DEF CM!Retire
<1> QED BY <1>1 DEF CM!Next

(* The bus fails on the line it was asked for.                             *)
LEMMA FailRefines ==
  ASSUME RefineInv', BusErrors, ~MemAck, req.op # "none", req' = req, error' = TRUE,
         mem' = mem, NEW l \in LineAddr, arch' = Forget(l)
  PROVE  CM!Next
<1> DEFINE a == WordAt(l, 0)
<1>1. a \in Addr /\ LineOf(a) = l
  BY SizeAssumption DEF WordAt, Addr, LineAddr, LineOf, Words
<1>2. req # NoReq
  BY DEF NoReq
<1>3. CM!Fail(l)
  BY <1>2, Answers DEF CM!Fail, Forget
<1> HIDE DEF a
<1> QED BY <1>1, <1>3 DEF CM!Next

(* The next request is taken.                                              *)
LEMMA AcceptRefines ==
  ASSUME RefineInv, RefineInv', NoInvalidates, NEW in \in Requests, LookupAccept(in)
  PROVE  CM!Next
<1>1. /\ req' = in /\ mem' = mem /\ error' = (error /\ ~MemAck) /\ arch' = ArchAfter(in)
      /\ in.op # "inval" /\ in \in Requests /\ state = "LOOKUP" /\ ~Miss
  BY DEF LookupAccept, MemAccept, ClearError, NoInvalidates
<1>2. MemAck \/ req.op = "none"
  BY <1>1 DEF MemAck
<1>3. error \in BOOLEAN /\ (req.op = "none" => ~error)
  BY DEF RefineInv, TypeOK, ErrorHasOwner
<1>4. error' = FALSE
  BY <1>1, <1>2, <1>3
<1>5. CASE in.op # "none"
  <2>1. CM!Accept(in)
    BY <1>1, <1>2, <1>4, <1>5, Answers DEF CM!Accept, CM!Written, ArchAfter
  <2> QED BY <1>1, <2>1 DEF CM!Next
<1>6. CASE in.op = "none"
  <2>1. arch' = arch
    BY <1>1, <1>6 DEF ArchAfter
  <2>2. CASE MemAck
    BY <1>1, <1>4, <1>6, <2>1, <2>2, RetireRefines
  <2>3. CASE ~MemAck
    <3>1. CM!Work
      BY <1>1, <1>2, <1>3, <1>4, <1>6, <2>1, <2>3, Answers DEF CM!Work
    <3> QED BY <3>1 DEF CM!Next
  <2> QED BY <2>2, <2>3
<1> QED BY <1>5, <1>6

(* The bus has the line of an eviction.                                    *)
LEMMA EvictDoneRefines ==
  ASSUME RefineInv, RefineInv', NEW ack \in Acks, EvictDone(ack)
  PROVE  CM!Next
<1>1. /\ state = "EVICT_WAIT" /\ req' = req /\ ~MemAck /\ ack \in {"ok", "err"}
      /\ TypeOK /\ BurstInv /\ EvictData /\ Current /\ error \in BOOLEAN
  BY DEF EvictDone, MemAck, Acks, RefineInv, DataInv, TypeOK
<1>2. /\ bus.line \in LineAddr /\ bus.line = EvictLine
      /\ tagOut[replaceWay] = tagRam[replaceWay][SetLine]
      /\ Holds(replaceWay, bus.line) /\ replaceWay \in Ways
  BY <1>1, EvictedLine DEF TypeOK
<1>3. Control /\ Evicted
  BY <1>1 DEF BurstInv, TagInv, ControlInv
<1>4. CASE ack = "err"
  <2>1. BusErrors /\ req.op # "none"
    BY <1>1, <1>3, <1>4 DEF Acks, Control, Access
  <2>2. error' = TRUE /\ mem' = mem /\ arch' = Forget(bus.line)
    BY <1>4 DEF EvictDone, ErrorAfter
  <2> QED BY <1>1, <1>2, <2>1, <2>2, FailRefines
<1>5. CASE ack = "ok"
  <2>1. error' = error /\ arch' = arch
    BY <1>1, <1>5 DEF EvictDone, ErrorAfter
  <2>2. \A a \in Addr : LineOf(a) # bus.line => mem'[a] = mem[a]
    BY <1>1, EvictedLine
  <2>3. ASSUME NEW a \in Addr, LineOf(a) = bus.line PROVE arch[a] \in {Unknown, mem'[a]}
    <3>1. mem'[a] = dataRam[replaceWay][IndexOf(a)]
      BY <1>1, <1>5, <2>3, EvictedLine
    <3>2. ~Buffered(a)
      <4>1. SUFFICES ASSUME req.op = "wr", req.addr = a PROVE FALSE
        BY DEF Buffered
      <4>2. EvictWay /\ ~flush.on
        BY <1>1, <1>3, <4>1 DEF Evicted, Control
      <4>3. tagRam[replaceWay][SetLine].valid /\ tagRam[replaceWay][SetLine].tag = req.addr.tag
        BY <1>2, <2>3, <4>1, <4>2, AddrParts DEF Holds, SetLine
      <4>4. Hit(replaceWay)
        BY <1>2, <4>3 DEF Hit
      <4> QED BY <1>2, <4>2, <4>4 DEF EvictWay, HitAny
    <3>3. InWay(a) /\ Solid(replaceWay, LineOf(a))
      BY <1>1, <1>2, <2>3, <3>2 DEF Current, Solid, InTransit
    <3> QED BY <1>2, <3>1, <3>3 DEF InWay
  <2>4. mem' \in [Addr -> Data]
    BY DEF RefineInv, TypeOK
  <2>5. CM!WriteLine(bus.line)
    BY <1>1, <2>1, <2>2, <2>3, <2>4, Answers DEF CM!WriteLine
  <2> DEFINE b == WordAt(bus.line, 0)
  <2>6. b \in Addr /\ LineOf(b) = bus.line
    BY <1>2, SizeAssumption DEF WordAt, Addr, LineAddr, LineOf, Words
  <2> HIDE DEF b
  <2> QED BY <2>5, <2>6 DEF CM!Next
<1> QED BY <1>1, <1>4, <1>5

LEMMA StepRefines ==
  ASSUME RefineInv, RefineInv', NoInvalidates, [Next]_vars
  PROVE  [CM!Next]_(CM!vars)
<1>i. TypeOK /\ BurstInv /\ DataInv /\ Control /\ error \in BOOLEAN /\ req.op # "inval"
  BY DEF RefineInv, BurstInv, TagInv, DataInv, TypeOK
<1>1. ASSUME state # "LOOKUP", UNCHANGED <<req, error, arch, mem>> PROVE CM!Next
  BY <1>1, WorkRefines DEF MemAck
<1>2. CASE ResetTick \/ WritebackTick \/ Flush
  BY <1>2, <1>1 DEF ResetTick, WritebackTick, Flush, FlushAddrTick, FlushEvict, FlushOtherWay, FlushNext
<1>3. ~InvalidateTick
  BY <1>i DEF InvalidateTick, Control
<1>4. ASSUME NEW in \in Requests, NEW acc \in BOOLEAN, Lookup(in, acc) PROVE CM!Next
  <2>1. CASE LookupEvict \/ LookupRefill(acc)
    <3>1. ~MemAck /\ UNCHANGED <<req, error, arch, mem>>
      BY <2>1 DEF LookupEvict, LookupRefill, InLookup, MemAck
    <3> QED BY <3>1, WorkRefines
  <2>2. CASE LookupAccept(in)
    BY <2>2, AcceptRefines
  <2>3. CASE LookupHold(in)
    <3>1. state = "LOOKUP" /\ ~Miss /\ ~MemAccept(in) /\ req' = NoReq
          /\ error' = (error /\ ~MemAck) /\ UNCHANGED <<arch, mem>>
      BY <2>3 DEF LookupHold, InLookup, ClearError
    <3>2. MemAck
      BY <3>1 DEF MemAccept, MemAck
    <3> QED BY <3>1, <3>2, RetireRefines DEF NoReq
  <2> QED BY <1>4, <2>1, <2>2, <2>3 DEF Lookup
<1>5. ASSUME NEW ack \in Acks, Refill(ack) PROVE CM!Next
  <2>1. CASE RefillRequest \/ WriteTick \/ ReadTick
    BY <2>1, <1>1 DEF RefillRequest, WriteTick, ReadTick
  <2>2. CASE RefillBeat(ack)
    <3>1. /\ state = "REFILL" /\ req.op # "none" /\ ~MemAck /\ bus.line \in LineAddr
          /\ UNCHANGED <<req, mem>> /\ ack \in {"ok", "err"}
      BY <2>2, <1>i, BusTypes DEF RefillBeat, Control, Access, MemAck, Acks
    <3>2. CASE ack = "ok"
      <4>1. error' = error /\ arch' = arch
        BY <1>i, <2>2, <3>2 DEF RefillBeat, ErrorAfter
      <4> QED BY <3>1, <4>1, <1>1
    <3>3. CASE ack = "err"
      <4>1. error' = TRUE /\ arch' = Forget(bus.line) /\ BusErrors
        BY <2>2, <3>3 DEF RefillBeat, ErrorAfter, Acks
      <4> QED BY <3>1, <4>1, FailRefines
    <3> QED BY <3>1, <3>2, <3>3
  <2> QED BY <1>5, <2>1, <2>2 DEF Refill
<1>6. ASSUME NEW ack \in Acks, NEW acc \in BOOLEAN, Evict(ack, acc) PROVE CM!Next
  <2>1. CASE EvictBeat(acc)
    BY <2>1, <1>1 DEF EvictBeat
  <2>2. CASE WritebackDone(ack) \/ FlushEvictDone(ack) \/ EvictThenRefill(ack, acc)
    BY <2>2, EvictDoneRefines DEF WritebackDone, FlushEvictDone, EvictThenRefill
  <2> QED BY <1>6, <2>1, <2>2 DEF Evict
<1>7. CASE UNCHANGED vars
  BY <1>7 DEF vars, CM!vars, MemAck, Miss, Access, HitAny, Hit, DataRd
<1> QED BY <1>2, <1>3, <1>4, <1>5, <1>6, <1>7 DEF Next

(* For every size of the cache, every program without invalidates, and     *)
(* every answer of the bus, the core is a write-back cache: it answers     *)
(* reads with what the program last wrote, sends lines to memory only with *)
(* current contents, and has sent them when a writeback or a flush is done.*)
THEOREM CacheRefines == ASSUME NoInvalidates PROVE Spec => ImplementsCachedMemory
<1>1. RefineInv /\ RefineInv' /\ [Next]_vars => [CM!Next]_(CM!vars)
  BY NoInvalidates, StepRefines
<1> QED BY NoInvalidates, RefineInvariant, InitRefines, <1>1, PTL
        DEF Spec, ImplementsCachedMemory, CM!Spec
=============================================================================
