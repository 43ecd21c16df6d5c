-------------------------- MODULE DCacheCoreProofs --------------------------
(***************************************************************************)
(* Proofs about the data cache controller, for every size of the cache and *)
(* every set of requests.                                                  *)
(***************************************************************************)
EXTENDS DCacheCore, TLAPS

(* The beats a refill has received and those it waits for make up a line.  *)
RefillBeats ==
  bus.rd => state = "REFILL" /\ ~pmem.rd /\ Len(bus.buf) + pmem.len = LineWords - 1

TypeInv == TypeOK /\ RefillBeats

-----------------------------------------------------------------------------
(* Lemmas on the operators the actions are built from                      *)

(* A beat counter of eight bits.                                           *)
LEMMA ByteType == \A n \in Int : n % 256 \in 0 .. 255
OBVIOUS

(* Of n beats received and l to come, a line is made.                      *)
LEMMA BeatCount ==
  ASSUME NEW n \in Nat, NEW l \in 0 .. 255, n + l = LineWords - 1
  PROVE  /\ n \in 0 .. LineWords - 1
         /\ n # LineWords - 1 => l \in 1 .. 255 /\ (n + 1) + (l - 1) = LineWords - 1
BY SizeAssumption

(* The address of a line's first word is an index of the data RAM.         *)
LEMMA BaseType == \A l \in Lines : Base(l) \in Index
BY SizeAssumption DEF Base, Index, Words

(* The refill and eviction address wraps around inside the data RAM.       *)
LEMMA NextIndexType == \A i \in Index : NextIndex(i) \in Index
<1>1. SUFFICES ASSUME NEW i \in Index PROVE NextIndex(i) \in Index
  OBVIOUS
<1>2. i.line \in 0 .. NumLines - 1 /\ i.word \in 0 .. LineWords - 1
  BY <1>1 DEF Index, Lines, Words
<1>3. (i.line + 1) % NumLines \in Lines
  BY <1>2, SizeAssumption DEF Lines
<1>4. CASE i.word = LineWords - 1
  BY <1>3, <1>4, SizeAssumption DEF NextIndex, Index, Words
<1>5. CASE i.word # LineWords - 1
  <2>1. NextIndex(i) = [line |-> i.line, word |-> i.word + 1]
    BY <1>1, <1>5 DEF NextIndex, Index
  <2> QED BY <2>1, <1>2, <1>5, SizeAssumption DEF Index, Lines, Words
<1> QED BY <1>4, <1>5

(* What a RAM write leaves in the RAMs, and what a read port then shows.   *)
LEMMA WriteTagsType ==
  ASSUME tagRam \in [Ways -> [Lines -> TagEntry]], NEW ways, NEW l \in Lines,
         NEW e \in TagEntry, WriteTags(ways, l, e)
  PROVE  tagRam' \in [Ways -> [Lines -> TagEntry]]
BY DEF WriteTags

LEMMA ReadTagsType ==
  ASSUME tagRam' \in [Ways -> [Lines -> TagEntry]], NEW l \in Lines, ReadTags(l)
  PROVE  tagOut' \in [Ways -> TagEntry]
BY DEF ReadTags

LEMMA WriteDataType ==
  ASSUME dataRam \in [Ways -> [Index -> Data]], NEW ways, NEW i \in Index,
         NEW d \in Data, WriteData(ways, i, d)
  PROVE  dataRam' \in [Ways -> [Index -> Data]]
BY DEF WriteData

LEMMA ReadDataType ==
  ASSUME dataRam \in [Ways -> [Index -> Data]], NEW i \in Index, ReadData(i)
  PROVE  dataOut' \in [Ways -> Data]
BY DEF ReadData

-----------------------------------------------------------------------------
(* Types *)

LEMMA InitType == Init => TypeInv
<1> SUFFICES ASSUME Init PROVE TypeInv
  OBVIOUS
<1> USE SizeAssumption, DataAssumption, PowerOnAssumption
<1>1. NoReq \in Request /\ IdleBus \in Burst
  BY DEF NoReq, Request, Ops, Addr, Tags, Lines, Words, IdleBus, Burst, LineOf, LineAddr
<1>2. tagRam \in [Ways -> [Lines -> TagEntry]] /\ tagOut \in [Ways -> TagEntry]
  BY DEF Init, ZeroEntry, Entry, TagEntry, Tags
<1>3. dataAddr \in Index /\ flush \in FlushRegs
  BY BaseType DEF Init, Lines, FlushRegs
<1>4. dataRam \in [Ways -> [Index -> Data]] /\ dataOut \in [Ways -> Data]
  BY DEF Init
<1>5. mem \in [Addr -> Data] /\ arch \in [Addr -> Data \cup {Unknown}]
  BY DEF Init
<1>6. pmem \in PmemRegs
  BY DEF Init, PmemRegs
<1>7. state \in States /\ replaceWay \in Ways /\ error \in BOOLEAN /\ bus = IdleBus /\ req = NoReq
  BY DEF Init, States, Ways
<1>8. ~bus.rd
  BY <1>7 DEF IdleBus
<1> QED BY <1>1, <1>2, <1>3, <1>4, <1>5, <1>6, <1>7, <1>8 DEF TypeInv, TypeOK, RefillBeats

LEMMA IdleBusType == IdleBus \in Burst /\ ~IdleBus.rd
BY SizeAssumption DEF IdleBus, Burst, NoReq, LineOf, LineAddr, Tags, Lines

(* The wires the actions use.                                              *)
LEMMA WireTypes ==
  ASSUME TypeOK
  PROVE  /\ req.addr \in Addr /\ req.addr.line \in Lines /\ req.addr.tag \in Tags
         /\ req.data \in Data /\ IndexOf(req.addr) \in Index /\ LineOf(req.addr) \in LineAddr
         /\ SetLine \in Lines /\ EvictLine \in LineAddr /\ PmemWriteData \in Data
<1>1. req.addr \in Addr /\ req.data \in Data
  BY DEF TypeOK, Request
<1>2. /\ req.addr.line \in Lines /\ req.addr.tag \in Tags
      /\ IndexOf(req.addr) \in Index /\ LineOf(req.addr) \in LineAddr
  BY <1>1 DEF Addr, IndexOf, Index, LineOf, LineAddr
<1>3. SetLine \in Lines
  BY <1>2 DEF TypeOK, SetLine, FlushRegs
<1>4. replaceWay \in Ways /\ tagOut[replaceWay].tag \in Tags /\ dataOut[replaceWay] \in Data
  BY DEF TypeOK, TagEntry
<1>5. EvictLine \in LineAddr
  BY <1>3, <1>4 DEF EvictLine, LineAddr
<1>6. PmemWriteData \in Data
  BY <1>4 DEF PmemWriteData, TypeOK, PmemRegs
<1> QED BY <1>1, <1>2, <1>3, <1>5, <1>6

LEMMA EntryType ==
  ASSUME NEW v \in BOOLEAN, NEW d \in BOOLEAN, NEW t \in Tags
  PROVE  Entry(v, d, t) \in TagEntry /\ ZeroEntry \in TagEntry
BY SizeAssumption DEF Entry, ZeroEntry, TagEntry, Tags

LEMMA EnterEvictType ==
  ASSUME TypeOK, EnterEvict
  PROVE  /\ state' \in States /\ dataOut' \in [Ways -> Data]
         /\ dataAddr' \in Index /\ pmem' \in PmemRegs
<1>1. Base(SetLine) \in Index /\ NextIndex(Base(SetLine)) \in Index
  BY WireTypes, BaseType, NextIndexType
<1>2. dataOut' \in [Ways -> Data]
  BY <1>1, ReadDataType DEF EnterEvict, TypeOK
<1>3. LineWords - 1 \in 0 .. 255
  BY SizeAssumption
<1>4. pmem' \in PmemRegs
  BY <1>3 DEF EnterEvict, TypeOK, PmemRegs
<1> QED BY <1>1, <1>2, <1>4 DEF EnterEvict, States

LEMMA RequestRefillType ==
  ASSUME TypeOK, NEW acc \in BOOLEAN, RequestRefill(acc)
  PROVE  pmem' \in PmemRegs /\ bus' \in Burst /\ Len(bus'.buf) < LineWords
<1>1. LineWords - 1 \in 0 .. 255 /\ 0 < LineWords
  BY SizeAssumption
<1>2. CASE acc
  <2>0. pmem' = [pmem EXCEPT !.rd = FALSE, !.wr0 = FALSE, !.len = LineWords - 1]
    BY <1>2 DEF RequestRefill
  <2>1. pmem' \in PmemRegs
    BY <1>1, <2>0, ZenonT(60) DEF TypeOK, PmemRegs
  <2>2. bus' = [rd |-> TRUE, wr |-> FALSE, line |-> LineOf(req.addr), buf |-> <<>>]
    BY <1>2 DEF RequestRefill
  <2>3. bus' \in Burst
    BY <2>2, WireTypes DEF Burst
  <2> QED BY <1>1, <2>1, <2>2, <2>3
<1>3. CASE ~acc
  <2>0. pmem' = [pmem EXCEPT !.rd = TRUE]
    BY <1>3 DEF RequestRefill
  <2>1. pmem' \in PmemRegs
    BY <2>0 DEF TypeOK, PmemRegs
  <2>2. bus' = IdleBus /\ Len(IdleBus.buf) = 0
    BY <1>3 DEF RequestRefill, IdleBus
  <2> QED BY <1>1, <2>1, <2>2, IdleBusType
<1> QED BY <1>2, <1>3

LEMMA EnterRefillType ==
  ASSUME TypeOK, NEW acc \in BOOLEAN, EnterRefill(acc)
  PROVE  /\ state' \in States /\ dataAddr' \in Index /\ pmem' \in PmemRegs
         /\ bus' \in Burst /\ Len(bus'.buf) < LineWords
BY WireTypes, BaseType, RequestRefillType DEF EnterRefill, States

LEMMA WriteHitType ==
  ASSUME TypeOK, WriteHit
  PROVE  tagRam' \in [Ways -> [Lines -> TagEntry]] /\ dataRam' \in [Ways -> [Index -> Data]]
<1> DEFINE ways == IF req.op = "wr" THEN HitWays ELSE {}
<1>1. Entry(TRUE, TRUE, req.addr.tag) \in TagEntry
  BY WireTypes, EntryType
<1>2. WriteTags(ways, req.addr.line, Entry(TRUE, TRUE, req.addr.tag))
      /\ WriteData(ways, IndexOf(req.addr), req.data)
  BY DEF WriteHit
<1>3. tagRam' \in [Ways -> [Lines -> TagEntry]]
  BY <1>1, <1>2, WireTypes, WriteTagsType DEF TypeOK
<1>4. dataRam' \in [Ways -> [Index -> Data]]
  BY <1>2, WireTypes, WriteDataType DEF TypeOK
<1> QED BY <1>3, <1>4

LEMMA EvictDoneType ==
  ASSUME TypeOK, NEW ack \in Acks, EvictDone(ack)
  PROVE  /\ tagRam' \in [Ways -> [Lines -> TagEntry]] /\ tagOut' \in [Ways -> TagEntry]
         /\ mem' \in [Addr -> Data] /\ arch' \in [Addr -> Data \cup {Unknown}]
         /\ error' \in BOOLEAN
<1> DEFINE e == IF flush.on THEN ZeroEntry ELSE Entry(TRUE, FALSE, req.addr.tag)
<1>1. e \in TagEntry
  BY WireTypes, EntryType
<1>2. WriteTags({replaceWay}, SetLine, e) /\ ReadTags(SetLine)
  BY DEF EvictDone
<1>3. tagRam' \in [Ways -> [Lines -> TagEntry]]
  BY <1>1, <1>2, WireTypes, WriteTagsType DEF TypeOK
<1>4. tagOut' \in [Ways -> TagEntry]
  BY <1>2, <1>3, WireTypes, ReadTagsType
<1>5. Committed \in [Addr -> Data]
  <2>1. bus.buf \in Seq(Data) /\ Len(bus.buf) = LineWords
    BY DEF EvictDone, BusWriteDone, TypeOK, Burst
  <2>2. ASSUME NEW a \in Addr PROVE a.word + 1 \in 1 .. Len(bus.buf)
    BY <2>1, <2>2, SizeAssumption DEF Addr, Words
  <2>3. ASSUME NEW a \in Addr PROVE bus.buf[a.word + 1] \in Data
    BY <2>1, <2>2
  <2>4. ASSUME NEW a \in Addr PROVE mem[a] \in Data
    BY DEF TypeOK
  <2> QED BY <2>3, <2>4 DEF Committed
<1>6. mem' \in [Addr -> Data]
  BY <1>5 DEF EvictDone, TypeOK
<1>7. arch' \in [Addr -> Data \cup {Unknown}]
  BY DEF EvictDone, Forget, TypeOK
<1>8. error' \in BOOLEAN
  BY DEF EvictDone, ErrorAfter, TypeOK
<1> QED BY <1>3, <1>4, <1>6, <1>7, <1>8

(* Every step keeps the types: one case for each action.                   *)
LEMMA StepType == TypeInv /\ [Next]_vars => TypeOK'
<1> SUFFICES ASSUME TypeInv, [Next]_vars PROVE TypeOK'
  OBVIOUS
<1>t. TypeOK /\ RefillBeats
  BY DEF TypeInv
<1>1. CASE ResetTick
  <2>1. tagRam' \in [Ways -> [Lines -> TagEntry]]
    BY <1>1, <1>t, EntryType, WriteTagsType, WireTypes DEF ResetTick, TypeOK, FlushRegs
  <2>2. tagOut' \in [Ways -> TagEntry]
    BY <1>1, <1>t, <2>1, WireTypes, ReadTagsType DEF ResetTick
  <2>3. (flush.addr + 1) % NumLines \in Lines
    BY <1>t, SizeAssumption DEF TypeOK, FlushRegs, Lines
  <2>4. flush' = [flush EXCEPT !.addr = (flush.addr + 1) % NumLines,
                               !.last = flush.last \/ flush.addr = NumLines - 1]
    BY <1>1 DEF ResetTick
  <2>5. flush' \in FlushRegs
    BY <1>t, <2>3, <2>4 DEF TypeOK, FlushRegs
  <2>6. state' \in States
    BY <1>1 DEF ResetTick, States
  <2> QED BY <1>1, <1>t, <2>1, <2>2, <2>5, <2>6 DEF ResetTick, TypeOK
<1>2. CASE WritebackTick
  <2>1. tagRam' = tagRam /\ tagOut' \in [Ways -> TagEntry]
    BY <1>2, <1>t, WireTypes, ReadTagsType DEF WritebackTick, LookAt, TypeOK
  <2>2. replaceWay' \in Ways
    BY <1>2, <1>t DEF WritebackTick, Ways, TypeOK
  <2>3. CASE HitAndDirty
    BY <1>2, <1>t, <2>1, <2>2, <2>3, EnterEvictType DEF WritebackTick, TypeOK
  <2>4. CASE ~HitAndDirty
    BY <1>2, <1>t, <2>1, <2>2, <2>4 DEF WritebackTick, TypeOK, States
  <2> QED BY <2>3, <2>4
<1>3. CASE InvalidateTick
  <2>1. Entry(FALSE, FALSE, req.addr.tag) \in TagEntry
    BY <1>t, WireTypes, EntryType
  <2>2. tagRam' \in [Ways -> [Lines -> TagEntry]]
    BY <1>3, <1>t, <2>1, WireTypes, WriteTagsType DEF InvalidateTick, TypeOK
  <2>3. tagOut' \in [Ways -> TagEntry]
    BY <1>3, <1>t, <2>2, WireTypes, ReadTagsType DEF InvalidateTick
  <2> QED BY <1>3, <1>t, <2>2, <2>3 DEF InvalidateTick, TypeOK, States
<1>4. CASE FlushAddrTick
  <2>1. flush.addr \in Lines /\ flush' \in FlushRegs
    BY <1>4, <1>t DEF FlushAddrTick, TypeOK, FlushRegs
  <2>2. tagRam' = tagRam /\ tagOut' \in [Ways -> TagEntry]
    BY <1>4, <1>t, <2>1, ReadTagsType DEF FlushAddrTick, LookAt, TypeOK
  <2> QED BY <1>4, <1>t, <2>1, <2>2 DEF FlushAddrTick, TypeOK, States
<1>5. CASE FlushEvict
  <2>1. flush.addr \in Lines
    BY <1>t DEF TypeOK, FlushRegs
  <2>2. tagRam' = tagRam /\ tagOut' \in [Ways -> TagEntry]
    BY <1>5, <1>t, <2>1, ReadTagsType DEF FlushEvict, LookAt, TypeOK
  <2> QED BY <1>5, <1>t, <2>2, EnterEvictType DEF FlushEvict, TypeOK
<1>6. CASE FlushOtherWay
  <2>1. flush.addr \in Lines /\ Base(flush.addr) \in Index /\ replaceWay' \in Ways
    BY <1>6, <1>t, BaseType DEF FlushOtherWay, TypeOK, FlushRegs, Ways
  <2>2. tagRam' = tagRam /\ tagOut' \in [Ways -> TagEntry]
    BY <1>6, <1>t, <2>1, ReadTagsType DEF FlushOtherWay, LookAt, TypeOK
  <2>3. dataOut' \in [Ways -> Data]
    BY <1>6, <1>t, <2>1, ReadDataType DEF FlushOtherWay, TypeOK
  <2> QED BY <1>6, <1>t, <2>1, <2>2, <2>3 DEF FlushOtherWay, TypeOK
<1>7. CASE FlushNext
  <2>1. flush.addr \in Lines /\ (flush.addr + 1) % NumLines \in Lines
    BY <1>t, SizeAssumption DEF TypeOK, FlushRegs, Lines
  <2>2. tagRam' \in [Ways -> [Lines -> TagEntry]]
    BY <1>7, <1>t, <2>1, EntryType, WriteTagsType, WireTypes DEF FlushNext, TypeOK
  <2>3. tagOut' \in [Ways -> TagEntry]
    BY <1>7, <2>1, <2>2, ReadTagsType DEF FlushNext
  <2>4. flush' \in FlushRegs /\ state' \in States /\ replaceWay' \in Ways
    BY <1>7, <1>t, <2>1 DEF FlushNext, TypeOK, FlushRegs, States, Ways
  <2> QED BY <1>7, <1>t, <2>2, <2>3, <2>4 DEF FlushNext, TypeOK
<1>8. ASSUME NEW in \in Requests, NEW acc \in BOOLEAN, Lookup(in, acc) PROVE TypeOK'
  <2>0. /\ in \in Request /\ in.addr \in Addr /\ in.addr.line \in Lines
        /\ IndexOf(in.addr) \in Index /\ in.op \in Ops
    BY RequestAssumption DEF Request, Addr, IndexOf, Index
  <2>f. [flush EXCEPT !.addr = 0, !.last = FALSE] \in FlushRegs
    <3>1. flush \in FlushRegs /\ 0 \in Lines
      BY <1>t, SizeAssumption DEF TypeOK, Lines
    <3> QED BY <3>1 DEF FlushRegs
  <2>1. CASE LookupEvict
    <3>1. tagRam' = tagRam /\ tagOut' \in [Ways -> TagEntry]
      BY <2>1, <1>t, WireTypes, ReadTagsType DEF LookupEvict, LookAt, TypeOK
    <3>2. flush' \in FlushRegs
      BY <2>1, <2>f DEF LookupEvict, InLookup
    <3> QED BY <2>1, <1>t, <3>1, <3>2, EnterEvictType DEF LookupEvict, TypeOK
  <2>2. CASE LookupRefill(acc)
    <3>1. tagRam' = tagRam /\ tagOut' \in [Ways -> TagEntry]
      BY <2>2, <1>t, WireTypes, ReadTagsType DEF LookupRefill, LookAt, TypeOK
    <3>2. flush' \in FlushRegs
      BY <2>2, <2>f DEF LookupRefill, InLookup
    <3> QED BY <2>2, <1>t, <3>1, <3>2, EnterRefillType DEF LookupRefill, TypeOK
  <2>3. CASE LookupAccept(in)
    <3>1. tagRam' \in [Ways -> [Lines -> TagEntry]] /\ dataRam' \in [Ways -> [Index -> Data]]
      BY <2>3, <1>t, WriteHitType DEF LookupAccept
    <3>2. LookupTagLine(in) \in Lines
      BY <2>0, <1>t, WireTypes DEF LookupTagLine
    <3>3. tagOut' \in [Ways -> TagEntry]
      BY <2>3, <3>1, <3>2, ReadTagsType DEF LookupAccept
    <3>4. dataOut' \in [Ways -> Data]
      BY <2>0, <2>3, <1>t, ReadDataType DEF LookupAccept, TypeOK
    <3>5. arch' \in [Addr -> Data \cup {Unknown}]
      BY <2>0, <2>3, <1>t DEF LookupAccept, ArchAfter, Forget, TypeOK, Request
    <3>6. state' \in States /\ replaceWay' \in Ways /\ error' \in BOOLEAN
      BY <2>3, <1>t DEF LookupAccept, StateAfter, ClearError, States, Ways, TypeOK
    <3>7. flush' \in FlushRegs
      BY <2>3, <1>t, SizeAssumption DEF LookupAccept, TypeOK, FlushRegs, Lines
    <3> QED BY <2>0, <2>3, <1>t, <3>1, <3>3, <3>4, <3>5, <3>6, <3>7 DEF LookupAccept, TypeOK
  <2>4. CASE LookupHold(in)
    <3>1. tagRam' \in [Ways -> [Lines -> TagEntry]] /\ dataRam' \in [Ways -> [Index -> Data]]
      BY <2>4, <1>t, WriteHitType DEF LookupHold
    <3>2. tagOut' \in [Ways -> TagEntry]
      BY <2>0, <2>4, <3>1, ReadTagsType DEF LookupHold
    <3>3. dataOut' \in [Ways -> Data]
      BY <2>0, <2>4, <1>t, ReadDataType DEF LookupHold, TypeOK
    <3>4. flush' \in FlushRegs /\ error' \in BOOLEAN
      BY <2>4, <2>f, <1>t DEF LookupHold, InLookup, ClearError, TypeOK
    <3>5. NoReq \in Request
      BY SizeAssumption, DataAssumption DEF NoReq, Request, Ops, Addr, Tags, Lines, Words
    <3> QED BY <2>4, <1>t, <3>1, <3>2, <3>3, <3>4, <3>5 DEF LookupHold, TypeOK
  <2> QED BY <1>8, <2>1, <2>2, <2>3, <2>4 DEF Lookup
<1>9. ASSUME NEW ack \in Acks, NEW acc \in BOOLEAN, Refill(ack) PROVE TypeOK'
  <2>1. CASE RefillRequest
    BY <2>1, <1>t, RequestRefillType DEF RefillRequest, TypeOK
  <2>2. CASE RefillBeat(ack)
    <3>1. bus.rd /\ bus.buf \in Seq(Data) /\ Len(bus.buf) \in 0 .. LineWords - 1 /\ bus.line \in LineAddr
      <4>1. pmem.len \in 0 .. 255 /\ bus.buf \in Seq(Data) /\ bus.line \in LineAddr
        BY <1>t DEF TypeOK, PmemRegs, Burst
      <4>2. bus.rd
        BY <2>2 DEF RefillBeat
      <4>3. Len(bus.buf) + pmem.len = LineWords - 1
        BY <4>2, <1>t DEF RefillBeats
      <4>4. Len(bus.buf) \in Nat
        BY <4>1
      <4>5. Len(bus.buf) \in 0 .. LineWords - 1
        BY <4>1, <4>3, <4>4, BeatCount
      <4> QED BY <4>1, <4>2, <4>5
    <3>2. WordAt(bus.line, Len(bus.buf)) \in Addr
      BY <3>1 DEF WordAt, Addr, LineAddr, Words
    <3>3. BusWord \in Data
      BY <3>2, <1>t DEF BusWord, TypeOK
    <3>4. (IF ack = "ok" THEN BusWord ELSE Junk) \in Data
      BY <3>3, DataAssumption
    <3>5. dataAddr \in Index /\ dataAddr' \in Index
      BY <2>2, <1>t, NextIndexType DEF RefillBeat, TypeOK
    <3>6. dataRam' \in [Ways -> [Index -> Data]]
      BY <2>2, <1>t, <3>4, <3>5, WriteDataType DEF RefillBeat, TypeOK
    <3>7. dataOut' \in [Ways -> Data]
      BY <2>2, <1>t, <3>5, ReadDataType DEF RefillBeat, TypeOK
    <3>8. tagRam' \in [Ways -> [Lines -> TagEntry]]
      BY <2>2, <1>t, EntryType, WireTypes, WriteTagsType DEF RefillBeat, TypeOK
    <3>9. tagOut' \in [Ways -> TagEntry]
      BY <2>2, <1>t, <3>8, WireTypes, ReadTagsType DEF RefillBeat
    <3>10. pmem' \in PmemRegs
      <4>1. pmem.len \in 0 .. 255
        BY <1>t DEF TypeOK, PmemRegs
      <4>2. (pmem.len - 1) % 256 \in 0 .. 255
        BY <4>1, ByteType
      <4>3. pmem' = [pmem EXCEPT !.len = (pmem.len - 1) % 256]
        BY <2>2 DEF RefillBeat
      <4> QED BY <4>2, <4>3, <1>t DEF TypeOK, PmemRegs
    <3>11. bus' \in Burst
      <4>1. CASE Len(bus.buf) = LineWords - 1
        BY <2>2, <4>1, IdleBusType DEF RefillBeat
      <4>2. CASE Len(bus.buf) # LineWords - 1
        <5>1. bus' = [bus EXCEPT !.buf = Append(bus.buf, BusWord)]
          BY <2>2, <4>2 DEF RefillBeat
        <5>2. Append(bus.buf, BusWord) \in Seq(Data)
          BY <3>1, <3>3
        <5> QED BY <5>1, <5>2, <1>t DEF TypeOK, Burst
      <4> QED BY <4>1, <4>2
    <3>12. error' \in BOOLEAN /\ arch' \in [Addr -> Data \cup {Unknown}]
      BY <2>2, <1>t DEF RefillBeat, ErrorAfter, Forget, TypeOK
    <3>13. state' \in States
      BY <2>2 DEF RefillBeat, States
    <3> QED BY <2>2, <1>t, <3>5, <3>6, <3>7, <3>8, <3>9, <3>10, <3>11, <3>12, <3>13 DEF RefillBeat, TypeOK
  <2>3. CASE WriteTick
    <3>1. tagRam' \in [Ways -> [Lines -> TagEntry]]
      BY <2>3, <1>t, EntryType, WireTypes, WriteTagsType DEF WriteTick, TypeOK
    <3>2. tagOut' \in [Ways -> TagEntry]
      BY <2>3, <1>t, <3>1, WireTypes, ReadTagsType DEF WriteTick
    <3>3. dataRam' \in [Ways -> [Index -> Data]]
      BY <2>3, <1>t, WireTypes, WriteDataType DEF WriteTick, TypeOK
    <3>4. state' \in States /\ replaceWay' \in Ways
      BY <2>3, <1>t DEF WriteTick, States, Ways, TypeOK
    <3> QED BY <2>3, <1>t, <3>1, <3>2, <3>3, <3>4 DEF WriteTick, TypeOK
  <2>4. CASE ReadTick
    <3>1. tagRam' = tagRam /\ tagOut' \in [Ways -> TagEntry]
      BY <2>4, <1>t, WireTypes, ReadTagsType DEF ReadTick, LookAt, TypeOK
    <3>2. dataOut' \in [Ways -> Data]
      BY <2>4, <1>t, WireTypes, ReadDataType DEF ReadTick, TypeOK
    <3>3. state' \in States /\ replaceWay' \in Ways
      BY <2>4, <1>t DEF ReadTick, States, Ways, TypeOK
    <3> QED BY <2>4, <1>t, <3>1, <3>2, <3>3 DEF ReadTick, TypeOK
  <2> QED BY <1>9, <2>1, <2>2, <2>3, <2>4 DEF Refill
<1>10. ASSUME NEW ack \in Acks, NEW acc \in BOOLEAN, Evict(ack, acc) PROVE TypeOK'
  <2>1. CASE EvictBeat(acc)
    <3>1. tagRam' = tagRam /\ tagOut' \in [Ways -> TagEntry]
      BY <2>1, <1>t, WireTypes, ReadTagsType DEF EvictBeat, LookAt, TypeOK
    <3>2. dataAddr \in Index /\ NextIndex(dataAddr) \in Index
      BY <1>t, NextIndexType DEF TypeOK
    <3>3. dataOut' \in [Ways -> Data]
      BY <2>1, <1>t, <3>2, ReadDataType DEF EvictBeat, TypeOK
    <3>4. PmemWriteData \in Data
      BY <1>t, WireTypes
    <3>5. CASE acc
      <4>1. pmem.len \in 0 .. 255
        BY <1>t DEF TypeOK, PmemRegs
      <4>2. (pmem.len - 1) % 256 \in 0 .. 255
        BY <4>1, ByteType
      <4>3. pmem' = [pmem EXCEPT !.wr0 = FALSE, !.len = (pmem.len - 1) % 256, !.skid = NoData]
        BY <2>1, <3>5 DEF EvictBeat
      <4>4. pmem' \in PmemRegs
        BY <4>2, <4>3, <1>t, ZenonT(60) DEF TypeOK, PmemRegs
      <4>5. bus.buf \in Seq(Data) /\ bus.line \in LineAddr /\ bus.rd \in BOOLEAN /\ bus.wr \in BOOLEAN
        BY <1>t DEF TypeOK, Burst
      <4>6. state' \in States /\ dataAddr' \in Index
        BY <2>1, <3>2, <3>5 DEF EvictBeat, States
      <4>7. CASE PmemWr /\ pmem.wr0
        <5>1. bus' = [rd |-> FALSE, wr |-> TRUE, line |-> EvictLine, buf |-> <<PmemWriteData>>]
          BY <2>1, <3>5, <4>7 DEF EvictBeat
        <5>2. bus' \in Burst
          BY <5>1, <3>4, <1>t, WireTypes DEF Burst
        <5> QED BY <2>1, <1>t, <3>1, <3>3, <4>4, <4>6, <5>2 DEF EvictBeat, TypeOK
      <4>8. CASE PmemWr /\ ~pmem.wr0
        <5>1. bus' = [bus EXCEPT !.buf = Append(bus.buf, PmemWriteData)]
          BY <2>1, <3>5, <4>8 DEF EvictBeat
        <5>2. Append(bus.buf, PmemWriteData) \in Seq(Data)
          BY <3>4, <4>5
        <5>3. bus' \in Burst
          BY <5>1, <5>2, <1>t DEF Burst, TypeOK
        <5> QED BY <2>1, <1>t, <3>1, <3>3, <4>4, <4>6, <5>3 DEF EvictBeat, TypeOK
      <4>9. CASE ~PmemWr
        BY <2>1, <1>t, <3>1, <3>3, <3>5, <4>4, <4>6, <4>9 DEF EvictBeat, TypeOK
      <4> QED BY <4>7, <4>8, <4>9
    <3>6. CASE ~acc
      <4>1. pmem' = pmem \/ pmem' = [pmem EXCEPT !.skid = PmemWriteData]
        BY <2>1, <3>6 DEF EvictBeat
      <4>2. pmem' \in PmemRegs
        <5>1. pmem \in PmemRegs
          BY <1>t DEF TypeOK
        <5>2. [pmem EXCEPT !.skid = PmemWriteData] \in PmemRegs
          BY <5>1, <3>4 DEF PmemRegs
        <5> QED BY <4>1, <5>1, <5>2
      <4>3. UNCHANGED <<state, dataAddr, bus>>
        BY <2>1, <3>6 DEF EvictBeat
      <4> QED BY <2>1, <1>t, <3>1, <3>3, <4>2, <4>3 DEF EvictBeat, TypeOK
    <3> QED BY <3>5, <3>6
  <2>2. CASE WritebackDone(ack)
    BY <2>2, <1>t, EvictDoneType, IdleBusType DEF WritebackDone, EvictDone, TypeOK, States
  <2>3. CASE FlushEvictDone(ack)
    BY <2>3, <1>t, EvictDoneType, IdleBusType DEF FlushEvictDone, EvictDone, TypeOK, States, Ways
  <2>4. CASE EvictThenRefill(ack, acc)
    BY <2>4, <1>t, EvictDoneType, EnterRefillType DEF EvictThenRefill, EvictDone, TypeOK
  <2> QED BY <1>10, <2>1, <2>2, <2>3, <2>4 DEF Evict
<1>11. CASE UNCHANGED vars
  BY <1>11, <1>t DEF vars, TypeOK
<1> QED BY <1>1, <1>2, <1>3, <1>4, <1>5, <1>6, <1>7, <1>8, <1>9, <1>10, <1>11 DEF Next, Flush

(* ... and the count of the beats of a refill.                             *)
LEMMA StepRefillBeats == TypeInv /\ [Next]_vars => RefillBeats'
<1> SUFFICES ASSUME TypeInv, [Next]_vars PROVE RefillBeats'
  OBVIOUS
<1>t. TypeOK /\ RefillBeats
  BY DEF TypeInv
<1>1. CASE state # "REFILL" /\ bus' = bus
  BY <1>t, <1>1 DEF RefillBeats
<1>2. ASSUME NEW acc \in BOOLEAN, state' = "REFILL", RequestRefill(acc) PROVE RefillBeats'
  <2>1. CASE acc
    <3>1. /\ pmem' = [pmem EXCEPT !.rd = FALSE, !.wr0 = FALSE, !.len = LineWords - 1]
          /\ bus' = [rd |-> TRUE, wr |-> FALSE, line |-> LineOf(req.addr), buf |-> <<>>]
      BY <1>2, <2>1 DEF RequestRefill
    <3>2. ~pmem'.rd /\ pmem'.len = LineWords - 1
      BY <3>1, <1>t DEF TypeOK, PmemRegs
    <3>3. Len(bus'.buf) = 0
      BY <3>1
    <3>4. Len(bus'.buf) + pmem'.len = LineWords - 1
      BY <3>2, <3>3, SizeAssumption
    <3> QED BY <1>2, <3>2, <3>4 DEF RefillBeats
  <2>2. CASE ~acc
    BY <1>2, <2>2, IdleBusType DEF RequestRefill, RefillBeats
  <2> QED BY <2>1, <2>2
<1>3. ASSUME NEW ack \in Acks, RefillBeat(ack) PROVE RefillBeats'
  <2>0. bus.rd
    BY <1>3 DEF RefillBeat
  <2>1. ~pmem.rd
    BY <2>0, <1>t DEF RefillBeats
  <2>5. Len(bus.buf) + pmem.len = LineWords - 1
    BY <2>0, <1>t DEF RefillBeats
  <2>2. pmem.len \in 0 .. 255 /\ bus.buf \in Seq(Data) /\ Len(bus.buf) \in Nat
    BY <1>t DEF TypeOK, PmemRegs, Burst
  <2>3. CASE Len(bus.buf) = LineWords - 1
    BY <1>3, <2>3, IdleBusType DEF RefillBeat, RefillBeats
  <2>4. CASE Len(bus.buf) # LineWords - 1
    <3>1. pmem.len \in 1 .. 255
      BY <2>5, <2>2, <2>4, BeatCount
    <3>0. state' = "REFILL"
      <4>1. ~PmemLast
        BY <3>1 DEF PmemLast
      <4> QED BY <1>3, <4>1 DEF RefillBeat
    <3>2. (pmem.len - 1) % 256 = pmem.len - 1
      BY <3>1
    <3>3. pmem'.len = pmem.len - 1 /\ pmem'.rd = pmem.rd
      BY <1>3, <1>t, <3>2 DEF RefillBeat, TypeOK, PmemRegs
    <3>4. bus' = [bus EXCEPT !.buf = Append(bus.buf, BusWord)]
      BY <1>3, <2>4 DEF RefillBeat
    <3>5. bus'.buf = Append(bus.buf, BusWord) /\ Len(Append(bus.buf, BusWord)) = Len(bus.buf) + 1
      BY <3>4, <2>2, <1>t DEF TypeOK, Burst
    <3>6. Len(bus'.buf) + pmem'.len = LineWords - 1
      BY <2>5, <2>2, <2>4, <3>3, <3>5, BeatCount, ZenonT(60)
    <3> QED BY <2>1, <3>0, <3>3, <3>6 DEF RefillBeats
  <2> QED BY <2>3, <2>4
<1>4. CASE ResetTick \/ WritebackTick \/ InvalidateTick \/ Flush
  BY <1>4, <1>1 DEF ResetTick, WritebackTick, InvalidateTick, Flush, FlushAddrTick,
                    FlushEvict, FlushOtherWay, FlushNext
<1>5. ASSUME NEW in \in Requests, NEW acc \in BOOLEAN, Lookup(in, acc) PROVE RefillBeats'
  <2>1. CASE LookupRefill(acc)
    BY <2>1, <1>2 DEF LookupRefill, EnterRefill
  <2>2. CASE LookupEvict \/ LookupAccept(in) \/ LookupHold(in)
    BY <2>2, <1>1 DEF LookupEvict, LookupAccept, LookupHold, InLookup
  <2> QED BY <1>5, <2>1, <2>2 DEF Lookup
<1>6. ASSUME NEW ack \in Acks, Refill(ack) PROVE RefillBeats'
  <2>1. CASE RefillRequest
    BY <2>1, <1>2 DEF RefillRequest
  <2>2. CASE WriteTick \/ ReadTick
    BY <2>2, <1>1 DEF WriteTick, ReadTick
  <2> QED BY <1>3, <1>6, <2>1, <2>2 DEF Refill
<1>7. ASSUME NEW ack \in Acks, NEW acc \in BOOLEAN, Evict(ack, acc) PROVE RefillBeats'
  <2>1. CASE EvictBeat(acc)
    <3>1. ~bus.rd
      BY <2>1, <1>t DEF EvictBeat, RefillBeats
    <3>2. bus' = bus \/ bus' = [rd |-> FALSE, wr |-> TRUE, line |-> EvictLine, buf |-> <<PmemWriteData>>]
          \/ bus' = [bus EXCEPT !.buf = Append(bus.buf, PmemWriteData)]
      BY <2>1 DEF EvictBeat
    <3>3. bus \in Burst /\ [bus EXCEPT !.buf = Append(bus.buf, PmemWriteData)].rd = bus.rd
      BY <1>t DEF TypeOK, Burst
    <3>4. ~bus'.rd
      <4>1. CASE bus' = bus
        BY <3>1, <4>1
      <4>2. CASE bus' = [rd |-> FALSE, wr |-> TRUE, line |-> EvictLine, buf |-> <<PmemWriteData>>]
        BY <4>2
      <4>3. CASE bus' = [bus EXCEPT !.buf = Append(bus.buf, PmemWriteData)]
        BY <3>1, <3>3, <4>3
      <4> QED BY <3>2, <4>1, <4>2, <4>3
    <3> QED BY <3>4 DEF RefillBeats
  <2>2. CASE WritebackDone(ack) \/ FlushEvictDone(ack)
    BY <2>2, IdleBusType DEF WritebackDone, FlushEvictDone, RefillBeats
  <2>3. CASE EvictThenRefill(ack, acc)
    BY <2>3, <1>2 DEF EvictThenRefill, EnterRefill
  <2> QED BY <1>7, <2>1, <2>2, <2>3 DEF Evict
<1>8. CASE UNCHANGED vars
  BY <1>8, <1>t DEF vars, RefillBeats
<1> QED BY <1>4, <1>5, <1>6, <1>7, <1>8 DEF Next

LEMMA TypeInvariant == Spec => []TypeInv
<1>1. TypeInv /\ [Next]_vars => TypeInv'
  BY StepType, StepRefillBeats DEF TypeInv
<1> QED BY InitType, <1>1, PTL DEF Spec

(* Every register of the controller keeps its width and every RAM its      *)
(* shape, whatever the requests and the answers of the bus.                *)
THEOREM TypeCorrect == Spec => []TypeOK
<1>1. TypeInv => TypeOK
  BY DEF TypeInv
<1> QED BY TypeInvariant, <1>1, PTL

-----------------------------------------------------------------------------
(* Tags: a line is never valid in both ways, and an error is never left    *)
(* for a later request.                                                    *)

(* Which request is in hand in which state, and when a flush is under way. *)
Control ==
  /\ flush.on => req.op = "flush" /\ state \in {"FLUSH_ADDR", "FLUSH", "EVICT", "EVICT_WAIT"}
  /\ state \in {"FLUSH_ADDR", "FLUSH"} => flush.on
  /\ state = "RESET" => req.op = "none"
  /\ state = "INVALIDATE" => req.op = "inval"
  /\ state = "WRITEBACK" => req.op = "wb"
  /\ state \in {"REFILL", "READ", "WRITE"} => Access
  /\ state \in {"EVICT", "EVICT_WAIT"} => Access \/ req.op = "wb" \/ flush.on

(* The lines RESET has cleared so far.                                     *)
Cleared == IF flush.last THEN Lines ELSE {l \in Lines : l < flush.addr}
ClearedInv ==
  state = "RESET" => \A w \in Ways : \A l \in Cleared : ~tagRam[w][l].valid

(* The tags shown are those of the set of the request when they decide.    *)
FreshTags ==
  (state = "LOOKUP" /\ Access) \/ state = "WRITEBACK" =>
    \A w \in Ways : tagOut[w] = tagRam[w][req.addr.line]

(* The way being written does not duplicate a tag of the other way.        *)
OtherWayFree ==
  state \in {"EVICT", "EVICT_WAIT", "REFILL", "WRITE"} /\ ~flush.on =>
    ~Holds(1 - replaceWay, LineOf(req.addr))

TagInv == Control /\ ClearedInv /\ FreshTags /\ OtherWayFree /\ NoAlias

-----------------------------------------------------------------------------
(* Lemmas on the tag RAMs                                                  *)

LEMMA WriteTagsEffect ==
  ASSUME TypeOK, NEW ways, NEW l \in Lines, NEW e, WriteTags(ways, l, e)
  PROVE  \A w \in Ways, k \in Lines :
           tagRam'[w][k] = IF w \in ways /\ k = l THEN e ELSE tagRam[w][k]
BY DEF WriteTags, TypeOK

LEMMA ReadTagsEffect ==
  ASSUME NEW l, ReadTags(l)
  PROVE  \A w \in Ways : tagOut'[w] = tagRam'[w][l]
BY DEF ReadTags

-----------------------------------------------------------------------------
(* The control                                                             *)

LEMMA StepControl == TypeOK /\ Control /\ [Next]_vars => Control'
<1> SUFFICES ASSUME TypeOK, Control, [Next]_vars PROVE Control'
  OBVIOUS
<1> USE DEF Control
<1>0. flush \in FlushRegs
  BY DEF TypeOK
<1>1. CASE ResetTick
  BY <1>0, <1>1 DEF ResetTick, FlushRegs, Access
<1>2. CASE WritebackTick
  BY <1>2 DEF WritebackTick, EnterEvict, Access
<1>3. CASE InvalidateTick
  BY <1>3 DEF InvalidateTick, Access
<1>4. CASE Flush
  <2>1. CASE FlushAddrTick
    BY <1>0, <2>1 DEF FlushAddrTick, FlushRegs, Access
  <2>2. CASE FlushEvict
    BY <2>2 DEF FlushEvict, EnterEvict, Access
  <2>3. CASE FlushOtherWay
    BY <2>3 DEF FlushOtherWay, Access
  <2>4. CASE FlushNext
    <3>1. CASE flush.last
      <4>1. state' = "LOOKUP" /\ flush' = [flush EXCEPT !.on = FALSE]
        BY <2>4, <3>1 DEF FlushNext
      <4>2. flush'.on = FALSE
        BY <1>0, <4>1 DEF FlushRegs
      <4> QED BY <4>1, <4>2
    <3>2. CASE ~flush.last
      <4>1. /\ state' = "FLUSH_ADDR" /\ req' = req /\ state = "FLUSH"
            /\ flush' = [flush EXCEPT !.addr = (flush.addr + 1) % NumLines]
        BY <2>4, <3>2 DEF FlushNext
      <4>2. flush'.on = flush.on
        BY <1>0, <4>1 DEF FlushRegs
      <4> QED BY <4>1, <4>2
    <3> QED BY <3>1, <3>2
  <2> QED BY <1>4, <2>1, <2>2, <2>3, <2>4 DEF Flush
<1>5. ASSUME NEW in \in Requests, NEW acc \in BOOLEAN, Lookup(in, acc) PROVE Control'
  <2>0. state = "LOOKUP"
    BY <1>5 DEF Lookup, LookupEvict, LookupRefill, LookupAccept, LookupHold, InLookup
  <2>1. ~flush.on
    BY <2>0
  <2>2. CASE LookupEvict
    <3>1. flush'.on = flush.on
      BY <1>0, <2>2 DEF LookupEvict, InLookup, FlushRegs
    <3> QED BY <2>1, <2>2, <3>1 DEF LookupEvict, EnterEvict, Miss, Access
  <2>3. CASE LookupRefill(acc)
    <3>1. flush'.on = flush.on
      BY <1>0, <2>3 DEF LookupRefill, InLookup, FlushRegs
    <3> QED BY <2>1, <2>3, <3>1 DEF LookupRefill, EnterRefill, Miss, Access
  <2>4. CASE LookupAccept(in)
    <3>1. in \in Request
      BY RequestAssumption
    <3>2. state' = StateAfter(in.op) /\ req' = in /\ flush'.on = (in.op = "flush")
      BY <2>1, <2>4 DEF LookupAccept
    <3>3. CASE in.op = "flush"
      BY <3>2, <3>3 DEF StateAfter, Access
    <3>4. CASE in.op = "wb"
      BY <3>2, <3>4 DEF StateAfter, Access
    <3>5. CASE in.op = "inval"
      BY <3>2, <3>5 DEF StateAfter, Access
    <3>6. CASE in.op \notin {"flush", "wb", "inval"}
      BY <3>2, <3>6 DEF StateAfter, Access
    <3> QED BY <3>3, <3>4, <3>5, <3>6
  <2>5. CASE LookupHold(in)
    <3>1. flush'.on = flush.on
      BY <1>0, <2>5 DEF LookupHold, InLookup, FlushRegs
    <3> QED BY <2>0, <2>1, <2>5, <3>1 DEF LookupHold, Access
  <2> QED BY <1>5, <2>2, <2>3, <2>4, <2>5 DEF Lookup
<1>6. ASSUME NEW ack \in Acks, NEW acc \in BOOLEAN, Refill(ack) PROVE Control'
  <2>1. CASE RefillRequest
    BY <2>1 DEF RefillRequest, Access
  <2>2. CASE RefillBeat(ack)
    BY <2>2 DEF RefillBeat, Access
  <2>3. CASE WriteTick \/ ReadTick
    BY <2>3 DEF WriteTick, ReadTick, Access
  <2> QED BY <1>6, <2>1, <2>2, <2>3 DEF Refill
<1>7. ASSUME NEW ack \in Acks, NEW acc \in BOOLEAN, Evict(ack, acc) PROVE Control'
  <2>1. CASE EvictBeat(acc)
    BY <2>1 DEF EvictBeat, Access
  <2>2. CASE WritebackDone(ack)
    BY <2>2 DEF WritebackDone, EvictDone, Access
  <2>3. CASE FlushEvictDone(ack)
    BY <2>3 DEF FlushEvictDone, EvictDone, Access
  <2>4. CASE EvictThenRefill(ack, acc)
    BY <2>4 DEF EvictThenRefill, EvictDone, EnterRefill, Access
  <2> QED BY <1>7, <2>1, <2>2, <2>3, <2>4 DEF Evict
<1>8. CASE UNCHANGED vars
  BY <1>8 DEF vars, Access
<1> QED BY <1>1, <1>2, <1>3, <1>4, <1>5, <1>6, <1>7, <1>8 DEF Next

-----------------------------------------------------------------------------
(* One copy                                                                *)

Copies == \A l \in LineAddr : ~(Holds(0, l) /\ Holds(1, l))

(* An entry that is not valid cannot duplicate a tag.                      *)
LEMMA DropKeepsCopies ==
  ASSUME TypeOK, Copies, NEW ways, NEW k \in Lines, NEW e, ~e.valid, WriteTags(ways, k, e)
  PROVE  Copies'
<1>1. \A w \in Ways, l \in Lines : tagRam'[w][l] = e \/ tagRam'[w][l] = tagRam[w][l]
  BY WriteTagsEffect
<1>2. 0 \in Ways /\ 1 \in Ways /\ \A l \in LineAddr : l.line \in Lines
  BY DEF Ways, LineAddr
<1> QED BY <1>1, <1>2 DEF Copies, Holds

(* Nor can the tag of the request when the other way does not hold it.     *)
LEMMA WriteKeepsCopies ==
  ASSUME TypeOK, Copies, NEW way \in Ways, NEW ways, ways \subseteq {way}, NEW d,
         ~Holds(1 - way, LineOf(req.addr)),
         WriteTags(ways, req.addr.line, Entry(TRUE, d, req.addr.tag))
  PROVE  Copies'
<1> DEFINE e == Entry(TRUE, d, req.addr.tag)
<1>0. req.addr.line \in Lines
  BY WireTypes
<1>1. \A w \in Ways, l \in Lines :
        tagRam'[w][l] = IF w \in ways /\ l = req.addr.line THEN e ELSE tagRam[w][l]
  BY <1>0 DEF WriteTags, TypeOK
<1>2. e.valid /\ e.tag = req.addr.tag
  BY DEF Entry
<1>3. ~(tagRam[1 - way][req.addr.line].valid /\ tagRam[1 - way][req.addr.line].tag = req.addr.tag)
  BY DEF Holds, LineOf
<1>4. way \in {0, 1} /\ 1 - way \in Ways /\ way # 1 - way /\ 1 - way \notin ways
  BY DEF Ways
<1> SUFFICES ASSUME NEW l \in LineAddr, Holds(way, l)', Holds(1 - way, l)' PROVE FALSE
  <2>1. CASE way = 0
    BY <2>1 DEF Copies
  <2>2. CASE way = 1
    BY <2>2 DEF Copies
  <2> QED BY <1>4, <2>1, <2>2
<1>5. l.line \in Lines
  BY DEF LineAddr
<1>6. Holds(1 - way, l)
  BY <1>1, <1>4, <1>5 DEF Holds
<1>7. CASE way \in ways /\ l.line = req.addr.line
  <2>1. tagRam'[way][l.line] = e
    BY <1>1, <1>5, <1>7
  <2>2. l.tag = req.addr.tag
    BY <1>2, <2>1 DEF Holds
  <2> QED BY <1>3, <1>6, <1>7, <2>2 DEF Holds
<1>8. CASE ~(way \in ways /\ l.line = req.addr.line)
  <2>1. Holds(way, l)
    BY <1>1, <1>5, <1>8 DEF Holds
  <2>2. Holds(0, l) /\ Holds(1, l)
    BY <1>4, <1>6, <2>1
  <2> QED BY <2>2 DEF Copies
<1> QED BY <1>7, <1>8

(* With fresh tags a hit means that the way holds the line.                *)
LEMMA HitHolds ==
  ASSUME NEW w \in Ways, tagOut[w] = tagRam[w][req.addr.line]
  PROVE  Hit(w) <=> Holds(w, LineOf(req.addr))
BY DEF Hit, Holds, LineOf

LEMMA WriteHitKeepsCopies ==
  ASSUME TypeOK, Copies, state = "LOOKUP", FreshTags, WriteHit
  PROVE  Copies'
<1> DEFINE ways == IF req.op = "wr" THEN HitWays ELSE {}
<1>1. WriteTags(ways, req.addr.line, Entry(TRUE, TRUE, req.addr.tag))
  BY DEF WriteHit
<1>2. CASE ways = {}
  <2>1. \A w \in Ways, l \in Lines : tagRam'[w][l] = tagRam[w][l]
    BY <1>1, <1>2 DEF WriteTags, TypeOK
  <2>2. 0 \in Ways /\ 1 \in Ways /\ \A l \in LineAddr : l.line \in Lines
    BY DEF Ways, LineAddr
  <2> QED BY <2>1, <2>2 DEF Copies, Holds
<1>3. CASE ways # {}
  <2>1. PICK way \in Ways : way \in ways
    BY <1>3 DEF HitWays
  <2>2. req.op = "wr" /\ \A w \in Ways : tagOut[w] = tagRam[w][req.addr.line]
    BY <2>1 DEF FreshTags, Access
  <2>3. \A w \in Ways : w \in ways <=> Holds(w, LineOf(req.addr))
    BY <2>2, HitHolds DEF HitWays
  <2>4. ~(Holds(0, LineOf(req.addr)) /\ Holds(1, LineOf(req.addr)))
    BY WireTypes DEF Copies
  <2>5. ~Holds(1 - way, LineOf(req.addr)) /\ ways \subseteq {way}
    <3>1. way = 0 \/ way = 1
      BY DEF Ways
    <3>2. ways \subseteq {0, 1}
      BY DEF HitWays, Ways
    <3>3. CASE way = 0
      BY <2>1, <2>3, <2>4, <3>2, <3>3 DEF Ways
    <3>4. CASE way = 1
      BY <2>1, <2>3, <2>4, <3>2, <3>4 DEF Ways
    <3> QED BY <3>1, <3>3, <3>4
  <2> HIDE DEF ways
  <2> QED BY <1>1, <2>5, WriteKeepsCopies
<1> QED BY <1>2, <1>3

(* RESET leaves both ways of every line empty.                             *)
LEMMA StepCleared == TypeOK /\ Control /\ ClearedInv /\ [Next]_vars => ClearedInv'
<1> SUFFICES ASSUME TypeOK, Control, ClearedInv, [Next]_vars, state' = "RESET"
             PROVE  \A w \in Ways : \A l \in Cleared' : ~tagRam'[w][l].valid
  BY DEF ClearedInv
<1>1. CASE ResetTick
  <2>1. ~flush.last /\ flush.addr \in Lines /\ flush \in FlushRegs
    BY <1>1 DEF ResetTick, TypeOK, FlushRegs
  <2>2. \A w \in Ways, l \in Lines :
          tagRam'[w][l] = IF w \in Ways /\ l = flush.addr THEN ZeroEntry ELSE tagRam[w][l]
    BY <1>1, <2>1 DEF ResetTick, WriteTags, TypeOK
  <2>3. ~ZeroEntry.valid
    BY DEF ZeroEntry, Entry
  <2>4. \A w \in Ways : \A l \in Lines : l <= flush.addr => ~tagRam'[w][l].valid
    BY <1>1, <2>1, <2>2, <2>3 DEF ClearedInv, Cleared, ResetTick, Lines
  <2>5. flush' = [flush EXCEPT !.addr = (flush.addr + 1) % NumLines,
                               !.last = flush.last \/ flush.addr = NumLines - 1]
    BY <1>1 DEF ResetTick
  <2>6. flush'.addr = (flush.addr + 1) % NumLines /\ flush'.last = (flush.addr = NumLines - 1)
    BY <2>1, <2>5 DEF FlushRegs
  <2>7. \A l \in Cleared' : l \in Lines /\ l <= flush.addr
    <3>1. CASE flush.addr = NumLines - 1
      BY <2>6, <3>1, SizeAssumption DEF Cleared, Lines
    <3>2. CASE flush.addr # NumLines - 1
      <4>1. (flush.addr + 1) % NumLines = flush.addr + 1
        BY <2>1, <3>2, SizeAssumption DEF Lines
      <4>2. Cleared' = {l \in Lines : l < flush.addr + 1}
        BY <2>6, <3>2, <4>1 DEF Cleared
      <4> QED BY <2>1, <4>2, SizeAssumption DEF Lines
    <3> QED BY <3>1, <3>2
  <2> QED BY <2>4, <2>7
<1>2. CASE UNCHANGED vars
  BY <1>2 DEF vars, ClearedInv, Cleared
<1>3. ~(WritebackTick \/ InvalidateTick \/ Flush)
  BY DEF WritebackTick, EnterEvict, InvalidateTick, Flush, FlushAddrTick, FlushEvict,
         FlushOtherWay, FlushNext
<1>4. ASSUME NEW in \in Requests, NEW acc \in BOOLEAN PROVE ~Lookup(in, acc)
  BY DEF Lookup, LookupEvict, EnterEvict, LookupRefill, EnterRefill, LookupAccept,
         StateAfter, LookupHold, InLookup
<1>5. ASSUME NEW ack \in Acks, NEW acc \in BOOLEAN PROVE ~Refill(ack) /\ ~Evict(ack, acc)
  BY DEF Refill, RefillRequest, RefillBeat, WriteTick, ReadTick, Evict, EvictBeat,
         WritebackDone, FlushEvictDone, EvictThenRefill, EnterRefill
<1> QED BY <1>1, <1>2, <1>3, <1>4, <1>5 DEF Next

LEMMA StepFreshTags == TypeOK /\ Control /\ FreshTags /\ [Next]_vars => FreshTags'
<1> SUFFICES ASSUME TypeOK, Control, FreshTags, [Next]_vars,
                    (state' = "LOOKUP" /\ Access') \/ state' = "WRITEBACK"
             PROVE  \A w \in Ways : tagOut'[w] = tagRam'[w][req'.addr.line]
  BY DEF FreshTags
<1>1. CASE WriteTick \/ ReadTick
  <2>1. ReadTags(req.addr.line) /\ req' = req
    BY <1>1 DEF WriteTick, ReadTick, LookAt
  <2> QED BY <2>1, ReadTagsEffect
<1>2. ASSUME NEW in \in Requests, LookupAccept(in) PROVE \A w \in Ways : tagOut'[w] = tagRam'[w][req'.addr.line]
  <2>1. req' = in /\ ReadTags(LookupTagLine(in)) /\ state' = StateAfter(in.op)
    BY <1>2 DEF LookupAccept
  <2>2. StateAfter(in.op) \in {"LOOKUP", "WRITEBACK"}
    BY <2>1
  <2>3. LookupTagLine(in) = in.addr.line
    BY <2>2 DEF LookupTagLine
  <2> QED BY <2>1, <2>3, ReadTagsEffect
<1>3. CASE UNCHANGED vars
  BY <1>3 DEF vars, FreshTags, Access
<1>4. ~(ResetTick \/ WritebackTick \/ InvalidateTick \/ Flush)
  BY DEF Control, Access, ResetTick, WritebackTick, EnterEvict, InvalidateTick, Flush,
         FlushAddrTick, FlushEvict, FlushOtherWay, FlushNext
<1>5. ASSUME NEW in \in Requests, NEW acc \in BOOLEAN PROVE ~(LookupEvict \/ LookupRefill(acc) \/ LookupHold(in))
  BY DEF LookupEvict, EnterEvict, LookupRefill, EnterRefill, LookupHold, InLookup, NoReq, Access
<1>6. ASSUME NEW ack \in Acks, NEW acc \in BOOLEAN
      PROVE  ~(RefillRequest \/ RefillBeat(ack) \/ Evict(ack, acc))
  BY DEF RefillRequest, RefillBeat, Evict, EvictBeat, WritebackDone, EvictDone,
         FlushEvictDone, EvictThenRefill, EnterRefill, Access
<1> QED BY <1>1, <1>2, <1>3, <1>4, <1>5, <1>6 DEF Next, Lookup, Refill

(* The way being refilled is the only one that may come to hold the line.  *)
LEMMA StepOtherWayFree ==
  TypeOK /\ Control /\ FreshTags /\ NoAlias /\ OtherWayFree /\ [Next]_vars => OtherWayFree'
<1> SUFFICES ASSUME TypeOK, Control, FreshTags, NoAlias, OtherWayFree, [Next]_vars,
                    state' \in {"EVICT", "EVICT_WAIT", "REFILL", "WRITE"}, ~flush'.on
             PROVE  ~Holds(1 - replaceWay, LineOf(req.addr))'
  BY DEF OtherWayFree
<1> DEFINE l == LineOf(req.addr)
<1>l. l \in LineAddr /\ l.line = req.addr.line /\ req.addr.line \in Lines
  BY WireTypes DEF LineOf
<1>w. replaceWay \in {0, 1} /\ 1 - replaceWay \in Ways
  BY DEF TypeOK, Ways
<1>1. ASSUME Miss, state = "LOOKUP", UNCHANGED <<req, tagRam, replaceWay>>
      PROVE  ~Holds(1 - replaceWay, LineOf(req.addr))'
  <2>1. \A w \in Ways : tagOut[w] = tagRam[w][req.addr.line]
    BY <1>1 DEF FreshTags, Miss
  <2>2. ~Holds(1 - replaceWay, l)
    BY <1>1, <1>w, <2>1, HitHolds DEF Miss, HitAny
  <2> QED BY <1>1, <2>2 DEF Holds
<1>2. CASE WritebackTick
  <2>1. HitAndDirty /\ UNCHANGED <<req, tagRam>>
    BY <1>2 DEF WritebackTick, LookAt
  <2>2. \A w \in Ways : Hit(w) <=> Holds(w, l)
    BY <1>2, HitHolds DEF WritebackTick, FreshTags
  <2>3. ~(Holds(0, l) /\ Holds(1, l))
    BY <1>2, <1>l DEF WritebackTick, NoAlias
  <2>4. Hit(0) \/ Hit(1)
    BY <2>1 DEF HitAndDirty, Ways
  <2>5. CASE Hit(0)
    <3>1. replaceWay' = 0 /\ ~Holds(1, l)
      BY <1>2, <2>2, <2>3, <2>5 DEF WritebackTick, Ways
    <3> QED BY <2>1, <3>1 DEF Holds
  <2>6. CASE ~Hit(0) /\ Hit(1)
    <3>1. replaceWay' = 1 /\ ~Holds(0, l)
      BY <1>2, <2>2, <2>6 DEF WritebackTick, Ways
    <3> QED BY <2>1, <3>1 DEF Holds
  <2> QED BY <2>4, <2>5, <2>6
<1>3. ASSUME NEW in \in Requests, NEW acc \in BOOLEAN, Lookup(in, acc)
      PROVE  ~Holds(1 - replaceWay, LineOf(req.addr))'
  <2>1. CASE LookupEvict
    BY <2>1, <1>1 DEF LookupEvict, InLookup, LookAt
  <2>2. CASE LookupRefill(acc)
    BY <2>2, <1>1 DEF LookupRefill, InLookup, LookAt
  <2>3. ~LookupAccept(in) /\ ~LookupHold(in)
    BY DEF LookupAccept, StateAfter, LookupHold, InLookup
  <2> QED BY <1>3, <2>1, <2>2, <2>3 DEF Lookup
<1>4. ASSUME OtherWayFree, ~flush.on, state \in {"EVICT", "EVICT_WAIT", "REFILL", "WRITE"},
             UNCHANGED <<req, tagRam, replaceWay>>
      PROVE  ~Holds(1 - replaceWay, LineOf(req.addr))'
  BY <1>4 DEF OtherWayFree, Holds
<1>5. ASSUME NEW ways, ways \subseteq {replaceWay}, NEW e, WriteTags(ways, req.addr.line, e),
             ~flush.on, state \in {"EVICT", "EVICT_WAIT", "REFILL", "WRITE"},
             UNCHANGED <<req, replaceWay>>
      PROVE  ~Holds(1 - replaceWay, LineOf(req.addr))'
  <2>1. 1 - replaceWay \notin ways /\ ~Holds(1 - replaceWay, l)
    BY <1>5, <1>w DEF OtherWayFree
  <2>2. tagRam'[1 - replaceWay] = tagRam[1 - replaceWay]
    BY <1>5, <1>w, <2>1 DEF WriteTags
  <2> QED BY <1>5, <2>1, <2>2 DEF Holds
<1>6. ASSUME NEW ack \in Acks, NEW acc \in BOOLEAN, Refill(ack)
      PROVE  ~Holds(1 - replaceWay, LineOf(req.addr))'
  <2>1. CASE RefillRequest
    BY <2>1, <1>4 DEF RefillRequest, Control
  <2>2. CASE RefillBeat(ack)
    <3> DEFINE ways == IF PmemLast THEN {replaceWay} ELSE {}
    <3>1. WriteTags(ways, req.addr.line, Entry(TRUE, FALSE, req.addr.tag)) /\ ways \subseteq {replaceWay}
      BY <2>2 DEF RefillBeat
    <3>2. ~flush.on /\ state = "REFILL" /\ UNCHANGED <<req, replaceWay>>
      BY <2>2 DEF RefillBeat, Control
    <3> HIDE DEF ways
    <3> QED BY <3>1, <3>2, <1>5
  <2>3. ~WriteTick /\ ~ReadTick
    BY DEF WriteTick, ReadTick
  <2> QED BY <1>6, <2>1, <2>2, <2>3 DEF Refill
<1>7. ASSUME NEW ack \in Acks, NEW acc \in BOOLEAN, Evict(ack, acc)
      PROVE  ~Holds(1 - replaceWay, LineOf(req.addr))'
  <2>1. CASE EvictBeat(acc)
    BY <2>1, <1>4 DEF EvictBeat, LookAt
  <2>2. CASE EvictThenRefill(ack, acc)
    <3>1. WriteTags({replaceWay}, req.addr.line, Entry(TRUE, FALSE, req.addr.tag))
      BY <2>2 DEF EvictThenRefill, EvictDone, SetLine
    <3>2. ~flush.on /\ state = "EVICT_WAIT" /\ UNCHANGED <<req, replaceWay>>
      BY <2>2 DEF EvictThenRefill, EvictDone
    <3> QED BY <3>1, <3>2, <1>5
  <2>3. ~WritebackDone(ack) /\ ~FlushEvictDone(ack)
    BY DEF WritebackDone, FlushEvictDone
  <2> QED BY <1>7, <2>1, <2>2, <2>3 DEF Evict
<1>8. CASE UNCHANGED vars
  BY <1>8, <1>4 DEF vars
<1>9. ~ResetTick /\ ~InvalidateTick /\ ~Flush
  BY DEF ResetTick, InvalidateTick, Flush, FlushAddrTick, FlushEvict, EnterEvict,
         FlushOtherWay, FlushNext, Control
<1> QED BY <1>2, <1>3, <1>6, <1>7, <1>8, <1>9 DEF Next

(* Every step keeps at most one copy of a line.                            *)
LEMMA StepNoAlias == TypeOK /\ TagInv /\ [Next]_vars => NoAlias'
<1> SUFFICES ASSUME TypeOK, TagInv, [Next]_vars, state' # "RESET" PROVE Copies'
  BY DEF NoAlias, Copies
<1>i. Control /\ ClearedInv /\ FreshTags /\ OtherWayFree /\ NoAlias
  BY DEF TagInv
<1>c. state # "RESET" => Copies
  BY <1>i DEF NoAlias, Copies
<1>l. req.addr.line \in Lines /\ flush.addr \in Lines /\ SetLine \in Lines /\ replaceWay \in Ways
  BY WireTypes DEF TypeOK, FlushRegs
<1>z. ~ZeroEntry.valid /\ \A t : ~Entry(FALSE, FALSE, t).valid
  BY DEF ZeroEntry, Entry
<1>1. CASE ResetTick
  <2>1. flush.last
    BY <1>1 DEF ResetTick
  <2>2. \A w \in Ways, k \in Lines : ~tagRam[w][k].valid
    BY <1>1, <1>i, <2>1 DEF ResetTick, ClearedInv, Cleared
  <2>3. 0 \in Ways /\ 1 \in Ways /\ \A k \in LineAddr : k.line \in Lines
    BY DEF Ways, LineAddr
  <2>4. Copies
    BY <2>2, <2>3 DEF Copies, Holds
  <2>5. WriteTags(Ways, flush.addr, ZeroEntry)
    BY <1>1 DEF ResetTick
  <2> QED BY <1>l, <1>z, <2>4, <2>5, DropKeepsCopies
<1>2. CASE state # "RESET" /\ tagRam' = tagRam
  BY <1>2, <1>c DEF Copies, Holds
<1>3. ASSUME state # "RESET", NEW ways, NEW k \in Lines, NEW e, ~e.valid, WriteTags(ways, k, e)
      PROVE  Copies'
  BY <1>3, <1>c, DropKeepsCopies
<1>4. ASSUME NEW d, NEW ways, ways \subseteq {replaceWay}, ~flush.on,
             state \in {"EVICT_WAIT", "REFILL", "WRITE"},
             WriteTags(ways, req.addr.line, Entry(TRUE, d, req.addr.tag))
      PROVE  Copies'
  <2>1. ~Holds(1 - replaceWay, LineOf(req.addr)) /\ Copies
    BY <1>4, <1>i, <1>c DEF OtherWayFree
  <2> QED BY <1>4, <1>l, <2>1, WriteKeepsCopies
<1>5. CASE InvalidateTick
  BY <1>5, <1>3, <1>l, <1>z DEF InvalidateTick
<1>6. CASE WritebackTick
  BY <1>6, <1>2 DEF WritebackTick, LookAt
<1>7. CASE Flush
  <2>1. CASE FlushAddrTick \/ FlushEvict \/ FlushOtherWay
    BY <2>1, <1>2 DEF FlushAddrTick, FlushEvict, FlushOtherWay, LookAt
  <2>2. CASE FlushNext
    BY <2>2, <1>3, <1>l, <1>z DEF FlushNext
  <2> QED BY <1>7, <2>1, <2>2 DEF Flush
<1>8. ASSUME NEW in \in Requests, NEW acc \in BOOLEAN, Lookup(in, acc) PROVE Copies'
  <2>1. CASE LookupEvict \/ LookupRefill(acc)
    BY <2>1, <1>2 DEF LookupEvict, LookupRefill, InLookup, LookAt
  <2>2. CASE LookupAccept(in) \/ LookupHold(in)
    <3>1. state = "LOOKUP" /\ WriteHit
      BY <2>2 DEF LookupAccept, LookupHold, InLookup
    <3> QED BY <3>1, <1>c, <1>i, WriteHitKeepsCopies
  <2> QED BY <1>8, <2>1, <2>2 DEF Lookup
<1>9. ASSUME NEW ack \in Acks, NEW acc \in BOOLEAN, Refill(ack) PROVE Copies'
  <2>1. CASE RefillRequest \/ ReadTick
    BY <2>1, <1>2 DEF RefillRequest, ReadTick, LookAt
  <2>2. CASE RefillBeat(ack)
    <3> DEFINE ways == IF PmemLast THEN {replaceWay} ELSE {}
    <3>1. WriteTags(ways, req.addr.line, Entry(TRUE, FALSE, req.addr.tag)) /\ ways \subseteq {replaceWay}
      BY <2>2 DEF RefillBeat
    <3>2. ~flush.on /\ state = "REFILL"
      BY <2>2, <1>i DEF RefillBeat, Control
    <3> HIDE DEF ways
    <3> QED BY <3>1, <3>2, <1>4
  <2>3. CASE WriteTick
    <3>1. WriteTags({replaceWay}, req.addr.line, Entry(TRUE, TRUE, req.addr.tag))
      BY <2>3 DEF WriteTick
    <3>2. ~flush.on /\ state = "WRITE"
      BY <2>3, <1>i DEF WriteTick, Control
    <3> QED BY <3>1, <3>2, <1>4
  <2> QED BY <1>9, <2>1, <2>2, <2>3 DEF Refill
<1>10. ASSUME NEW ack \in Acks, EvictDone(ack) PROVE Copies'
  <2>1. CASE flush.on
    <3>1. WriteTags({replaceWay}, SetLine, ZeroEntry) /\ state = "EVICT_WAIT"
      BY <1>10, <2>1 DEF EvictDone
    <3> QED BY <3>1, <1>3, <1>l, <1>z
  <2>2. CASE ~flush.on
    <3>1. WriteTags({replaceWay}, req.addr.line, Entry(TRUE, FALSE, req.addr.tag)) /\ state = "EVICT_WAIT"
      BY <1>10, <2>2 DEF EvictDone, SetLine
    <3> QED BY <3>1, <2>2, <1>4
  <2> QED BY <2>1, <2>2
<1>11. ASSUME NEW ack \in Acks, NEW acc \in BOOLEAN, Evict(ack, acc) PROVE Copies'
  <2>1. CASE EvictBeat(acc)
    BY <2>1, <1>2 DEF EvictBeat, LookAt
  <2>2. CASE WritebackDone(ack) \/ FlushEvictDone(ack) \/ EvictThenRefill(ack, acc)
    BY <2>2, <1>10 DEF WritebackDone, FlushEvictDone, EvictThenRefill
  <2> QED BY <1>11, <2>1, <2>2 DEF Evict
<1>12. CASE UNCHANGED vars
  BY <1>12, <1>2 DEF vars
<1> QED BY <1>1, <1>5, <1>6, <1>7, <1>8, <1>9, <1>11, <1>12 DEF Next

LEMMA InitTagInv == Init => TagInv
<1> SUFFICES ASSUME Init PROVE TagInv
  OBVIOUS
<1>1. state = "RESET" /\ req.op = "none" /\ flush.on = FALSE /\ flush.addr = 0 /\ flush.last = FALSE
  BY DEF Init, NoReq
<1>2. Control
  BY <1>1 DEF Control
<1>3. Cleared = {}
  BY <1>1, SizeAssumption DEF Cleared, Lines
<1>4. ClearedInv
  BY <1>3 DEF ClearedInv
<1> QED BY <1>1, <1>2, <1>4 DEF TagInv, FreshTags, OtherWayFree, NoAlias

LEMMA TagInvariant == Spec => [](TypeOK /\ TagInv)
<1>1. TypeOK /\ TagInv /\ [Next]_vars => TagInv'
  BY StepControl, StepCleared, StepFreshTags, StepOtherWayFree, StepNoAlias DEF TagInv
<1> QED BY TypeCorrect, InitTagInv, <1>1, PTL DEF Spec

(* A line is never valid in both ways, for every size of the cache, every  *)
(* sequence of requests, invalidates included, and every answer of the bus.*)
THEOREM OneCopy == Spec => []NoAlias
<1>1. TagInv => NoAlias
  BY DEF TagInv
<1> QED BY TagInvariant, <1>1, PTL

-----------------------------------------------------------------------------
(* The error register                                                      *)

LEMMA StepError == TypeOK /\ Control /\ ErrorHasOwner /\ [Next]_vars => ErrorHasOwner'
<1> SUFFICES ASSUME TypeOK, Control, ErrorHasOwner, [Next]_vars PROVE ErrorHasOwner'
  OBVIOUS
<1>1. CASE error' = error /\ req' = req
  BY <1>1 DEF ErrorHasOwner
<1>2. CASE req' = req /\ req.op # "none"
  BY <1>2 DEF ErrorHasOwner
<1>3. ASSUME NEW in \in Requests, NEW acc \in BOOLEAN, Lookup(in, acc) PROVE ErrorHasOwner'
  <2>1. CASE LookupEvict \/ LookupRefill(acc)
    BY <2>1, <1>1 DEF LookupEvict, LookupRefill, InLookup
  <2>2. CASE LookupAccept(in) \/ LookupHold(in)
    <3>1. state = "LOOKUP" /\ ~Miss /\ error' = (error /\ ~MemAck)
      BY <2>2 DEF LookupAccept, LookupHold, InLookup, MemAccept, ClearError
    <3>2. ~error'
      BY <3>1 DEF MemAck, ErrorHasOwner
    <3> QED BY <3>2 DEF ErrorHasOwner
  <2> QED BY <1>3, <2>1, <2>2 DEF Lookup
<1>4. ASSUME NEW ack \in Acks, Refill(ack) PROVE ErrorHasOwner'
  BY <1>4, <1>1, <1>2 DEF Refill, RefillRequest, RefillBeat, WriteTick, ReadTick, Control, Access
<1>5. ASSUME NEW ack \in Acks, NEW acc \in BOOLEAN, Evict(ack, acc) PROVE ErrorHasOwner'
  <2>1. state \in {"EVICT", "EVICT_WAIT"} /\ req' = req
    BY <1>5 DEF Evict, EvictBeat, WritebackDone, FlushEvictDone, EvictThenRefill, EvictDone
  <2>2. req.op # "none"
    BY <2>1 DEF Control, Access
  <2> QED BY <2>1, <2>2, <1>2
<1>6. CASE ResetTick \/ WritebackTick \/ InvalidateTick \/ Flush
  BY <1>6, <1>1 DEF ResetTick, WritebackTick, InvalidateTick, Flush, FlushAddrTick,
                    FlushEvict, FlushOtherWay, FlushNext
<1>7. CASE UNCHANGED vars
  BY <1>7, <1>1 DEF vars
<1> QED BY <1>3, <1>4, <1>5, <1>6, <1>7 DEF Next

(* A bus error is answered on the request that met it: none outlives it.   *)
THEOREM ErrorAttributed == Spec => []ErrorHasOwner
<1>1. Init => ErrorHasOwner
  BY DEF Init, ErrorHasOwner
<1>2. TypeOK /\ TagInv /\ ErrorHasOwner /\ [Next]_vars => ErrorHasOwner'
  BY StepError DEF TagInv
<1> QED BY TagInvariant, <1>1, <1>2, PTL DEF Spec
=============================================================================
