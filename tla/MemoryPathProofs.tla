-------------------------- MODULE MemoryPathProofs --------------------------
(***************************************************************************)
(* Theorems about MemoryPath: whatever the issue stage sends, the slave    *)
(* takes and answers, and when, an access is on its way once and as it was *)
(* asked, the bursts come whole, what is offered stays on offer, a fault   *)
(* calls the access behind it back, and all of it implements one memory    *)
(* port.  The proof follows the way of the one access that is awaited      *)
(* (PathInv): in the queue of the uncached ones, in the bridge, or as the  *)
(* bursts of the controller.                                               *)
(***************************************************************************)
EXTENDS MemoryPath, SequenceTheorems, TLAPS

(* The slave takes no first data before their address, as no slave of the  *)
(* repository does.  With one that does BurstsWhole is violated:           *)
(* dcache_axi_axi.v:184 then gives the address of another entry, or none.  *)
AddressFirst == ~WFirst

-----------------------------------------------------------------------------
(* The inductive invariant                                                 *)

(* The bridge holds one burst at a time.                                   *)
BridgeEmpty ==
    /\ reqFifo = <<>> /\ reqCnt = 0 /\ outstanding = 0
    /\ awInhibit = FALSE /\ beatCnt = 0 /\ skid = NoBeat
    /\ bus.aw = <<>> /\ bus.w = <<>> /\ bus.ar = <<>>

(* A write of n beats to a, of which the first `in' have been put in: some *)
(* wait in the queue, the others are taken or wait in the skid buffer.     *)
WriteBeat(a, n, k) == [op |-> "wr", addr |-> a, len |-> IF k = 0 THEN n - 1 ELSE 0, beat |-> k]
DataBeat(a, n, k) == [addr |-> a, beat |-> k, last |-> k = n - 1]
DataBeats == [addr : Addrs, beat : 0..(Beats - 1), last : BOOLEAN]
Skidded == IF skid = NoBeat THEN 0 ELSE 1
Gone == Len(bus.w) + Skidded
Queued(a, n, in) ==
    /\ reqFifo \in Seq(Entries) /\ Gone + Len(reqFifo) = in /\ Len(reqFifo) <= 2
    /\ \A k \in 1..Len(reqFifo) : reqFifo[k] = WriteBeat(a, n, Gone + k - 1)
Sending(a, n) ==
    /\ bus.aw = IF Gone = 0 THEN <<>> ELSE <<[addr |-> a, len |-> n - 1]>>
    /\ bus.w \in Seq(DataBeats) /\ \A k \in 1..Len(bus.w) : bus.w[k] = DataBeat(a, n, k - 1)
    /\ skid # NoBeat => bus.w = <<>> /\ skid = DataBeat(a, n, 0)
    /\ awInhibit = IF Gone > 0 /\ Len(bus.w) < n THEN TRUE ELSE FALSE
    /\ beatCnt = IF Gone = 0 THEN 0 ELSE n - Len(bus.w)
    /\ reqCnt = IF Gone \in {0, n} THEN 0 ELSE n - 1 - Gone
    /\ outstanding = IF Gone = n THEN 1 ELSE 0
    /\ bus.ar = <<>>
Writing(a, n, in) == Queued(a, n, in) /\ Sending(a, n)

(* A read of n beats of which left are still to come.                      *)
ReadRequest(a, n) == [op |-> "rd", addr |-> a, len |-> n - 1, beat |-> 0]
Reading(a, n, left) ==
    /\ reqCnt = 0 /\ awInhibit = FALSE /\ beatCnt = 0 /\ skid = NoBeat
    /\ bus.aw = <<>> /\ bus.w = <<>>
    /\ \/ left = n /\ reqFifo = <<ReadRequest(a, n)>> /\ outstanding = 0 /\ bus.ar = <<>>
       \/ reqFifo = <<>> /\ outstanding = 1 /\ bus.ar = <<[addr |-> a, left |-> left - 1]>>

(* The load/store unit and the mux: at most one access is awaited.         *)
Asks(x) == x.op \in LoadsStores \cup {"maint"} /\ (x.op = "maint" => x.cached)
LsuInv ==
    /\ e1 \in Accesses /\ (e1.op = "maint" => e1.cached /\ ~lsuPend)
    /\ lsuPend \in BOOLEAN /\ unalignedE2 \in BOOLEAN
    /\ muxCached \in BOOLEAN /\ selectQ \in BOOLEAN
    /\ ~lsuPend /\ ~unalignedE2 => lsuFifo = <<>>
    /\ unalignedE2 => /\ ~lsuPend /\ e1.op = "none"
                      /\ \E x \in Accesses : x.op = "unaligned" /\ lsuFifo = <<x>>
    /\ lsuPend => \E x \in Accesses : Asks(x) /\ x.cached = muxCached /\ lsuFifo = <<x>>
    /\ muxPend = IF lsuPend THEN 1 ELSE 0
    /\ wInhibit = FALSE

(* Where the awaited access is.                                            *)
UncIdle == unc = [reqs |-> <<>>, resps |-> 0, pend |-> FALSE]
UncWay ==
    \/ unc = [reqs |-> <<Burst(Access.op, Access.addr)>>, resps |-> 1, pend |-> FALSE] /\ BridgeEmpty
    \/ /\ unc = [reqs |-> <<>>, resps |-> 1, pend |-> TRUE] /\ selectQ = FALSE
       /\ IF Access.op = "wr" THEN Writing(Access.addr, 1, 1) ELSE Reading(Access.addr, 1, 1)

Bursts == [op : LoadsStores, addr : Addrs]
CoreType(c) == c \in [req : Accesses, plan : Seq(Bursts), left : 0..(Beats + 1), err : BOOLEAN]
OnItsWay ==
    /\ CoreType(core)
    /\ core.plan = <<>> => core.left = 0 /\ BridgeEmpty
    /\ core.plan # <<>> /\ Head(core.plan).op = "wr" =>
         /\ core.left <= Beats /\ (core.left < Beats => selectQ)
         /\ Writing(Head(core.plan).addr, Beats, Beats - core.left)
    /\ core.plan # <<>> /\ Head(core.plan).op = "rd" =>
         /\ core.left >= 1 /\ (core.left <= Beats => selectQ)
         /\ IF core.left = Beats + 1 THEN BridgeEmpty
            ELSE Reading(Head(core.plan).addr, Beats, core.left)
CoreWay == OnItsWay /\ core.req = Access

WayInv ==
    /\ ~lsuPend => UncIdle /\ core = IdleCore /\ BridgeEmpty
    /\ lsuPend /\ ~muxCached => core = IdleCore /\ UncWay
    /\ lsuPend /\ muxCached => UncIdle /\ CoreWay

PathInv == LsuInv /\ WayInv
-----------------------------------------------------------------------------
(* Sequences                                                               *)

(* Appending to a sequence, and joining one element to it.                 *)
LEMMA Pushed ==
  ASSUME NEW S, NEW s \in Seq(S), NEW x \in S
  PROVE  /\ Append(s, x) \in Seq(S) /\ Len(Append(s, x)) = Len(s) + 1
         /\ \A k \in 1..Len(s) : Append(s, x)[k] = s[k]
         /\ Append(s, x)[Len(s) + 1] = x
         /\ s \o <<x>> \in Seq(S) /\ Len(s \o <<x>>) = Len(s) + 1
         /\ \A k \in 1..Len(s) : (s \o <<x>>)[k] = s[k]
         /\ (s \o <<x>>)[Len(s) + 1] = x
<1>1. <<x>> \in Seq(S) /\ Len(<<x>>) = 1 /\ <<x>>[1] = x
  OBVIOUS
<1>2. Len(s) \in Nat
  BY LenProperties
<1> QED BY <1>1, <1>2, ConcatProperties

(* The sequence of one element.                                            *)
LEMMA One ==
  ASSUME NEW x
  PROVE  /\ <<x>> # <<>> /\ Len(<<x>>) = 1 /\ Head(<<x>>) = x /\ <<x>>[1] = x
         /\ Tail(<<x>>) = <<>> /\ <<x>> \in Seq({x}) /\ DOMAIN <<x>> = {1}
         /\ Len(<<>>) = 0 /\ DOMAIN <<>> = {}
         /\ Append(<<>>, x) = <<x>> /\ <<>> \o <<x>> = <<x>> /\ <<>> \o <<>> = <<>> /\ <<x>> \o <<>> = <<x>>
  OBVIOUS

(* A sequence that is not empty has a first element.                       *)
LEMMA EmptyOrNot ==
  ASSUME NEW S, NEW s \in Seq(S)
  PROVE  /\ Len(s) \in Nat /\ (s = <<>> <=> Len(s) = 0)
         /\ s # <<>> => Len(s) >= 1 /\ Head(s) = s[1] /\ Head(s) \in S
  BY LenProperties, EmptySeq, HeadTailProperties

-----------------------------------------------------------------------------
(* The bridge with a write in it                                           *)

(* The numbers a write in the bridge depends on.                           *)
LEMMA WritingTypes ==
  ASSUME NEW a \in Addrs, NEW n \in 1..Beats, NEW in \in 0..n, Writing(a, n, in)
  PROVE  /\ Len(bus.w) \in 0..n /\ Gone \in 0..n /\ Skidded \in 0..1 /\ Len(reqFifo) \in Nat /\ Len(reqFifo) <= 2
         /\ Gone = Len(bus.w) + Skidded
         /\ Gone <= in
         /\ reqFifo = <<>> <=> Len(reqFifo) = 0
         /\ skid # NoBeat <=> Skidded = 1
         /\ skid # NoBeat => bus.w = <<>> /\ Len(bus.w) = 0 /\ Gone = 1
         /\ bus.w = <<>> <=> Len(bus.w) = 0
<1>1. bus.w \in Seq(DataBeats) /\ reqFifo \in Seq(Entries)
  BY DEF Writing, Queued, Sending
<1>2. Len(bus.w) \in Nat /\ (bus.w = <<>> <=> Len(bus.w) = 0) /\ Len(reqFifo) \in Nat /\ (reqFifo = <<>> <=> Len(reqFifo) = 0)
  BY <1>1, EmptyOrNot
<1>3. Gone + Len(reqFifo) = in /\ Len(reqFifo) <= 2 /\ (skid # NoBeat => bus.w = <<>>)
  BY DEF Writing, Queued, Sending
<1>4. Skidded \in 0..1 /\ (skid # NoBeat <=> Skidded = 1)
  BY DEF Skidded
<1>5. Gone = Len(bus.w) + Skidded
  BY DEF Gone
<1>6. n \in Nat /\ in \in Nat /\ in <= n
  BY BeatsAssumption
<1>7. Gone \in Nat /\ Gone <= in /\ Gone <= n /\ Len(bus.w) <= n
  BY <1>2, <1>3, <1>4, <1>5, <1>6
<1>8. Skidded = 1 => Len(bus.w) = 0 /\ Gone = 1
  BY <1>2, <1>3, <1>4, <1>5
<1>9. Len(bus.w) \in 0..n
  BY <1>2, <1>6, <1>7
<1>a. Gone \in 0..n 
  BY <1>6, <1>7
<1>b. Len(reqFifo) \in Nat /\ Len(reqFifo) <= 2
  BY <1>2, <1>3
<1> QED BY <1>2, <1>3, <1>4, <1>5, <1>7, <1>8, <1>9, <1>a, <1>b

(* What the bridge offers then, and what the slave may take.               *)
LEMMA WritingOffers ==
  ASSUME NEW a \in Addrs, NEW n \in 1..Beats, NEW in \in 0..n, Writing(a, n, in),
         wInhibit = FALSE
  PROVE  /\ reqFifo # <<>> => Request = WriteBeat(a, n, Gone)
         /\ ~ArValid
         /\ IsWrite <=> reqFifo # <<>>
         /\ AwValid <=> reqFifo # <<>> /\ Gone = 0
         /\ WValid <=> reqFifo # <<>> \/ skid # NoBeat
         /\ WValid => Data = DataBeat(a, n, Len(bus.w))
         /\ AwValid => Address = [addr |-> a, len |-> n - 1]
<1>0. n \in Nat /\ in \in Nat /\ in <= n /\ n >= 1
  BY BeatsAssumption
<1>1. /\ Len(bus.w) \in 0..n /\ Gone \in 0..n /\ Skidded \in 0..1 /\ Len(reqFifo) \in Nat
      /\ Gone = Len(bus.w) + Skidded /\ Gone <= in
      /\ (reqFifo = <<>> <=> Len(reqFifo) = 0)
      /\ (skid # NoBeat <=> Skidded = 1)
      /\ (skid # NoBeat => bus.w = <<>> /\ Len(bus.w) = 0 /\ Gone = 1)
  BY WritingTypes
<1>2. /\ reqFifo \in Seq(Entries) /\ Gone + Len(reqFifo) = in
      /\ \A k \in 1..Len(reqFifo) : reqFifo[k] = WriteBeat(a, n, Gone + k - 1)
  BY DEF Writing, Queued
<1>3. /\ skid # NoBeat => skid = DataBeat(a, n, 0)
      /\ awInhibit = (IF Gone > 0 /\ Len(bus.w) < n THEN TRUE ELSE FALSE)
      /\ beatCnt = (IF Gone = 0 THEN 0 ELSE n - Len(bus.w))
      /\ outstanding = (IF Gone = n THEN 1 ELSE 0)
  BY DEF Writing, Sending
<1>4. reqFifo # <<>> => Request = WriteBeat(a, n, Gone) /\ Gone < n
  <2> SUFFICES ASSUME reqFifo # <<>> PROVE Request = WriteBeat(a, n, Gone) /\ Gone < n
    OBVIOUS
  <2>1. Len(reqFifo) >= 1 /\ Head(reqFifo) = reqFifo[1]
    BY <1>2, EmptyOrNot
  <2>2. 1 \in 1..Len(reqFifo) /\ Gone + 1 - 1 = Gone /\ Gone < n
    BY <2>1, <1>0, <1>1, <1>2
  <2> QED BY <2>1, <2>2, <1>2 DEF Request
<1>5. CanIssue <=> reqFifo # <<>>
  BY <1>3 DEF CanIssue
<1>6. WriteBeat(a, n, Gone).op = "wr" /\ WriteBeat(a, n, Gone).addr = a /\ WriteBeat(a, n, Gone).beat = Gone
      /\ WriteBeat(a, n, Gone).len = IF Gone = 0 THEN n - 1 ELSE 0
  BY DEF WriteBeat
<1>7. ~ArValid /\ (IsWrite <=> reqFifo # <<>>)
  BY <1>4, <1>5, <1>6 DEF ArValid, IsWrite
<1>8. AwValid <=> reqFifo # <<>> /\ Gone = 0
  <2>1. reqFifo # <<>> => (awInhibit <=> Gone # 0)
    <3>1. reqFifo # <<>> => ((Gone > 0 /\ Len(bus.w) < n) <=> Gone # 0)
      BY <1>0, <1>1, <1>4
    <3>2. awInhibit = IF Gone > 0 /\ Len(bus.w) < n THEN TRUE ELSE FALSE
      BY <1>3
    <3> QED BY <3>1, <3>2, Zenon
  <2> QED BY <2>1, <1>7 DEF AwValid
<1>9. WValid <=> reqFifo # <<>> \/ skid # NoBeat
  BY <1>7 DEF WValid
<1>10. WValid => Data = DataBeat(a, n, Len(bus.w))
  <2>1. CASE skid # NoBeat
    BY <2>1, <1>1, <1>3 DEF Data
  <2>2. CASE skid = NoBeat /\ reqFifo # <<>>
    <3>1. Gone = Len(bus.w)
      BY <2>2, <1>1 DEF Skidded
    <3>2. LastBeat <=> Gone = n - 1
      <4>1. CASE Gone = 0
        <5>1. beatCnt = 0 /\ AwValid /\ Request.len = n - 1
          BY <4>1, <2>2, <1>3, <1>4, <1>6, <1>8
        <5> QED BY <5>1, <4>1, <1>0 DEF LastBeat
      <4>2. CASE Gone # 0
        <5>1. beatCnt = n - Gone /\ ~AwValid
          BY <4>2, <3>1, <1>3, <1>8
        <5>2. n - Gone = 1 <=> Gone = n - 1
          <6>1. \A i \in Nat : n - i = 1 <=> i = n - 1
            BY <1>0
          <6>2. Gone \in Nat
            BY <1>1
          <6> QED BY <6>1, <6>2
        <5> QED BY <5>1, <5>2 DEF LastBeat
      <4> QED BY <4>1, <4>2
    <3>3. LastBeat \in BOOLEAN
      BY DEF LastBeat
    <3>4. Data = [addr |-> a, beat |-> Gone, last |-> LastBeat]
      BY <2>2, <1>4, <1>6 DEF Data
    <3> QED BY <3>1, <3>2, <3>3, <3>4 DEF DataBeat
  <2> QED BY <2>1, <2>2, <1>9
<1>11. AwValid => Address = [addr |-> a, len |-> n - 1]
  BY <1>4, <1>6, <1>8 DEF Address
<1> QED BY <1>4, <1>7, <1>8, <1>9, <1>10, <1>11

(* The slave takes what is offered, and no data before their address.      *)
LEMMA Readied ==
  ASSUME AddressFirst, NEW rdy \in Readies
  PROVE  /\ "aw" \in rdy => AwValid
         /\ "w" \in rdy => WValid
         /\ "ar" \in rdy => ArValid
         /\ "w" \in rdy /\ AwValid => "aw" \in rdy
  BY DEF Readies, AddressFirst

(* Without an answer none ends.                                            *)
LEMMA NoAnswer == ~LastAnswer("none", "none")
  BY DEF LastAnswer

(* What the slave takes of a write.                                        *)
LEMMA WritingSends ==
  ASSUME AddressFirst, NEW a \in Addrs, NEW n \in 1..Beats, NEW in \in 0..n, Writing(a, n, in),
         wInhibit = FALSE, NEW rdy \in Readies, NEW push, AxiTick(push, rdy, "none", "none")
  PROVE  /\ Sending(a, n)' /\ wInhibit' = FALSE
         /\ Gone' = Gone + IF Accepted(rdy) THEN 1 ELSE 0
         /\ Accepted(rdy) => reqFifo # <<>>
<1>0. n \in Nat /\ in \in Nat /\ in <= n /\ n >= 1
  BY BeatsAssumption
<1>1. /\ Len(bus.w) \in 0..n /\ Gone \in 0..n /\ Skidded \in 0..1 /\ Len(reqFifo) \in Nat
      /\ Gone = Len(bus.w) + Skidded /\ Gone <= in
      /\ (reqFifo = <<>> <=> Len(reqFifo) = 0)
      /\ (skid # NoBeat <=> Skidded = 1)
      /\ (skid # NoBeat => bus.w = <<>> /\ Len(bus.w) = 0 /\ Gone = 1)
      /\ (bus.w = <<>> <=> Len(bus.w) = 0)
  BY WritingTypes
<1>2. /\ bus.aw = (IF Gone = 0 THEN <<>> ELSE <<[addr |-> a, len |-> n - 1]>>)
      /\ bus.w \in Seq(DataBeats) /\ \A k \in 1..Len(bus.w) : bus.w[k] = DataBeat(a, n, k - 1)
      /\ (skid # NoBeat => skid = DataBeat(a, n, 0))
      /\ awInhibit = (IF Gone > 0 /\ Len(bus.w) < n THEN TRUE ELSE FALSE)
      /\ beatCnt = (IF Gone = 0 THEN 0 ELSE n - Len(bus.w))
      /\ reqCnt = (IF Gone \in {0, n} THEN 0 ELSE n - 1 - Gone)
      /\ outstanding = (IF Gone = n THEN 1 ELSE 0)
      /\ bus.ar = <<>>
  BY DEF Writing, Sending
<1>3. /\ reqFifo # <<>> => Request = WriteBeat(a, n, Gone)
      /\ ~ArValid /\ (IsWrite <=> reqFifo # <<>>)
      /\ (AwValid <=> reqFifo # <<>> /\ Gone = 0)
      /\ (WValid <=> reqFifo # <<>> \/ skid # NoBeat)
      /\ (WValid => Data = DataBeat(a, n, Len(bus.w)))
      /\ (AwValid => Address = [addr |-> a, len |-> n - 1])
  BY WritingOffers
<1>4. /\ "aw" \in rdy => reqFifo # <<>> /\ Gone = 0 /\ skid = NoBeat
      /\ "w" \in rdy => reqFifo # <<>> \/ skid # NoBeat
      /\ "ar" \notin rdy
      /\ "w" \in rdy /\ Gone = 0 => "aw" \in rdy
  BY <1>1, <1>3, Readied
<1>5. /\ reqCnt' = ReqCntAfter(rdy)
      /\ outstanding' = OutstandingAfter(rdy, "none", "none")
      /\ awInhibit' = AwInhibitAfter(rdy)
      /\ wInhibit' = (IF "w" \in rdy /\ AwValid /\ "aw" \notin rdy THEN TRUE
                      ELSE IF "aw" \in rdy THEN FALSE ELSE wInhibit)
      /\ beatCnt' = BeatCntAfter(rdy)
      /\ skid' = (IF WValid /\ "w" \notin rdy /\ "aw" \in rdy THEN Data
                  ELSE IF "w" \in rdy THEN NoBeat ELSE skid)
      /\ bus'.aw = (IF "aw" \in rdy THEN Append(bus.aw, Address) ELSE bus.aw)
      /\ bus'.w = (IF "w" \in rdy THEN Append(bus.w, Data) ELSE bus.w)
      /\ bus'.ar = bus.ar
  BY <1>4 DEF AxiTick, BusTick, ReadsAfter
<1>6. wInhibit' = FALSE
  BY <1>4, <1>5, <1>3
<1>7. reqFifo # <<>> => Gone < n
  BY <1>0, <1>1 DEF Writing, Queued
<1>8. Accepted(rdy) <=> "aw" \in rdy \/ ("w" \in rdy /\ skid = NoBeat)
  BY <1>4 DEF Accepted
<1>9. /\ WriteBeat(a, n, Gone).op = "wr" /\ WriteBeat(a, n, Gone).addr = a
      /\ WriteBeat(a, n, Gone).len = IF Gone = 0 THEN n - 1 ELSE 0
  BY DEF WriteBeat
<1>10. DataBeat(a, n, Len(bus.w)).last <=> Len(bus.w) = n - 1
  BY DEF DataBeat
<1>11. outstanding' = IF Await(rdy) THEN outstanding + 1 ELSE outstanding
  BY <1>2, <1>5, NoAnswer DEF OutstandingAfter
<1>12. skid' # NoBeat <=> Skidded' = 1
  BY DEF Skidded
<1>13. Gone' = Len(bus'.w) + Skidded' /\ (skid' = NoBeat => Skidded' = 0)
  BY DEF Gone, Skidded
<1>a. CASE "aw" \notin rdy /\ "w" \notin rdy
  <2>1. /\ bus'.w = bus.w /\ bus'.aw = bus.aw /\ bus'.ar = bus.ar /\ skid' = skid /\ ~Accepted(rdy)
        /\ beatCnt' = beatCnt /\ awInhibit' = awInhibit /\ reqCnt' = reqCnt /\ outstanding' = outstanding
    BY <1>a, <1>5, <1>8, <1>11 DEF BeatCntAfter, AwInhibitAfter, ReqCntAfter, Await
  <2>2. Gone' = Gone
    BY <2>1 DEF Gone, Skidded
  <2>3. Sending(a, n)'
    BY <2>1, <2>2 DEF Sending, Writing
  <2> QED BY <2>1, <2>2, <2>3, <1>1, <1>6
<1>f. Len(bus.w) < n => DataBeat(a, n, Len(bus.w)) \in DataBeats /\ DataBeat(a, n, Len(bus.w)) # NoBeat
  <2>1. Len(bus.w) < n => Len(bus.w) \in 0..(Beats - 1)
    BY <1>0, <1>1, BeatsAssumption
  <2>2. Len(bus.w) < n => DataBeat(a, n, Len(bus.w)) \in DataBeats
    BY <2>1 DEF DataBeat, DataBeats
  <2> QED BY <2>2, NoBeatAssumption DEF DataBeats
<1>b. CASE "aw" \in rdy /\ "w" \notin rdy
  <2>1. /\ bus.w = <<>> /\ bus.aw = <<>> /\ Gone = 0 /\ skid = NoBeat /\ reqCnt = 0 /\ Len(bus.w) = 0
        /\ reqFifo # <<>> /\ Data = DataBeat(a, n, 0) /\ Request = WriteBeat(a, n, 0) /\ WValid /\ IsWrite
        /\ Request.len = n - 1 /\ outstanding = 0 /\ Accepted(rdy)
    BY <1>b, <1>0, <1>1, <1>2, <1>3, <1>4, <1>8, <1>9
  <2>2. bus'.w = <<>> /\ bus'.aw = <<[addr |-> a, len |-> n - 1]>> /\ bus'.ar = <<>> /\ skid' = DataBeat(a, n, 0)
    BY <1>b, <2>1, <1>2, <1>3, <1>4, <1>5, One
  <2>3. Gone' = 1 /\ Len(bus'.w) = 0 /\ bus'.w \in Seq(DataBeats)
    BY <2>1, <2>2, <1>12, <1>13, <1>f, <1>0, One, EmptySeq DEF Skidded
  <2>4. awInhibit' = TRUE /\ beatCnt' = n
    BY <1>b, <2>1, <1>0, <1>4, <1>5 DEF AwInhibitAfter, BeatCntAfter
  <2>5. reqCnt' = IF n = 1 THEN 0 ELSE n - 2
    BY <1>b, <2>1, <1>0, <1>5 DEF ReqCntAfter
  <2>6. outstanding' = IF n = 1 THEN 1 ELSE 0
    BY <2>1, <1>3, <1>0, <1>11 DEF Await
  <2>7. Sending(a, n)'
    <3>1. /\ bus'.aw = IF Gone' = 0 THEN <<>> ELSE <<[addr |-> a, len |-> n - 1]>>
          /\ bus'.ar = <<>> /\ (skid' # NoBeat => bus'.w = <<>> /\ skid' = DataBeat(a, n, 0))
      BY <2>2, <2>3
    <3>2. \A k \in 1..Len(bus'.w) : bus'.w[k] = DataBeat(a, n, k - 1)
      BY <2>2, <2>3
    <3>3. beatCnt' = IF Gone' = 0 THEN 0 ELSE n - Len(bus'.w)
      BY <2>3, <2>4, <1>0
    <3>4. reqCnt' = IF Gone' \in {0, n} THEN 0 ELSE n - 1 - Gone'
      BY <2>3, <2>5, <1>0
    <3>5. outstanding' = IF Gone' = n THEN 1 ELSE 0
      BY <2>3, <2>6, <1>0
    <3>6. awInhibit' = IF Gone' > 0 /\ Len(bus'.w) < n THEN TRUE ELSE FALSE
      <4>1. Gone' > 0 /\ Len(bus'.w) < n
        BY <2>3, <1>0
      <4> QED BY <2>4, <4>1
    <3> QED BY <2>3, <3>1, <3>2, <3>3, <3>4, <3>5, <3>6 DEF Sending
  <2> QED BY <2>1, <2>3, <2>7, <1>6
<1>c. CASE "aw" \in rdy /\ "w" \in rdy
  <2>1. /\ bus.w = <<>> /\ bus.aw = <<>> /\ Gone = 0 /\ skid = NoBeat /\ reqCnt = 0 /\ Len(bus.w) = 0
        /\ reqFifo # <<>> /\ Data = DataBeat(a, n, 0) /\ Request = WriteBeat(a, n, 0) /\ WValid /\ IsWrite
        /\ Request.len = n - 1 /\ outstanding = 0 /\ Accepted(rdy)
    BY <1>c, <1>0, <1>1, <1>2, <1>3, <1>4, <1>8, <1>9
  <2>2. /\ bus'.w = <<DataBeat(a, n, 0)>> /\ bus'.aw = <<[addr |-> a, len |-> n - 1]>> /\ bus'.ar = <<>>
        /\ skid' = NoBeat
    BY <1>c, <2>1, <1>2, <1>3, <1>4, <1>5, One
  <2>3. /\ Gone' = 1 /\ Len(bus'.w) = 1 /\ bus'.w \in Seq(DataBeats) /\ bus'.w[1] = DataBeat(a, n, 0)
    BY <2>1, <2>2, <1>13, <1>f, <1>0, One
  <2>4. awInhibit' = (IF n > 1 THEN TRUE ELSE FALSE) /\ beatCnt' = n - 1
    <3>1. beatCnt' = n - 1
      BY <1>c, <2>1, <1>5 DEF BeatCntAfter
    <3>2. CASE n = 1
      <4>1. Data.last /\ Request.len = 0
        BY <2>1, <3>2, <1>10
      <4>2. awInhibit' = FALSE
        BY <1>c, <4>1, <1>5 DEF AwInhibitAfter
      <4>3. ~(n > 1)
        BY <3>2
      <4> QED BY <4>2, <4>3, <3>1
    <3>3. CASE n # 1
      <4>1. Request.len # 0
        BY <2>1, <3>3, <1>0
      <4>2. awInhibit' = TRUE
        BY <1>c, <4>1, <1>5 DEF AwInhibitAfter
      <4>3. n > 1
        BY <3>3, <1>0
      <4> QED BY <4>2, <4>3, <3>1
    <3> QED BY <3>2, <3>3
  <2>5. reqCnt' = IF n = 1 THEN 0 ELSE n - 2
    BY <1>c, <2>1, <1>0, <1>5 DEF ReqCntAfter
  <2>6. outstanding' = IF n = 1 THEN 1 ELSE 0
    BY <2>1, <1>3, <1>0, <1>11 DEF Await
  <2>7. Sending(a, n)'
    <3>1. /\ bus'.aw = IF Gone' = 0 THEN <<>> ELSE <<[addr |-> a, len |-> n - 1]>>
          /\ bus'.ar = <<>> /\ (skid' # NoBeat => bus'.w = <<>> /\ skid' = DataBeat(a, n, 0))
      BY <2>2, <2>3
    <3>2. \A k \in 1..Len(bus'.w) : bus'.w[k] = DataBeat(a, n, k - 1)
      BY <2>2, <2>3
    <3>3. beatCnt' = IF Gone' = 0 THEN 0 ELSE n - Len(bus'.w)
      BY <2>3, <2>4, <1>0
    <3>4. reqCnt' = IF Gone' \in {0, n} THEN 0 ELSE n - 1 - Gone'
      BY <2>3, <2>5, <1>0
    <3>5. outstanding' = IF Gone' = n THEN 1 ELSE 0
      BY <2>3, <2>6, <1>0
    <3>6. awInhibit' = IF Gone' > 0 /\ Len(bus'.w) < n THEN TRUE ELSE FALSE
      <4>1. (Gone' > 0 /\ Len(bus'.w) < n) <=> n > 1
        BY <2>3, <1>0
      <4> QED BY <2>4, <4>1
    <3> QED BY <2>3, <3>1, <3>2, <3>3, <3>4, <3>5, <3>6 DEF Sending
  <2> QED BY <2>1, <2>3, <2>7, <1>6
<1>d. CASE "aw" \notin rdy /\ "w" \in rdy /\ skid # NoBeat
  <2>1. /\ bus.w = <<>> /\ Gone = 1 /\ Len(bus.w) = 0 /\ WValid /\ Data = DataBeat(a, n, 0)
        /\ bus.aw = <<[addr |-> a, len |-> n - 1]>> /\ beatCnt = n /\ awInhibit = TRUE /\ ~Accepted(rdy)
    <3>1. Gone > 0 /\ Len(bus.w) < n
      BY <1>d, <1>0, <1>1
    <3>2. awInhibit = TRUE
      BY <3>1, <1>2
    <3>3. WValid /\ ~Accepted(rdy)
      BY <1>d, <1>3, <1>8
    <3>4. bus.w = <<>> /\ Gone = 1 /\ Len(bus.w) = 0
      BY <1>d, <1>1
    <3> QED BY <3>2, <3>3, <3>4, <1>0, <1>2, <1>3
  <2>2. /\ bus'.w = <<DataBeat(a, n, 0)>> /\ bus'.aw = bus.aw /\ bus'.ar = <<>> /\ skid' = NoBeat
    BY <1>d, <2>1, <1>2, <1>5, One
  <2>3. /\ Gone' = 1 /\ Len(bus'.w) = 1 /\ bus'.w \in Seq(DataBeats) /\ bus'.w[1] = DataBeat(a, n, 0)
    BY <2>1, <2>2, <1>13, <1>f, <1>0, One
  <2>4. awInhibit' = (IF n > 1 THEN TRUE ELSE FALSE) /\ beatCnt' = n - 1
    <3>1. beatCnt' = n - 1
      BY <1>d, <2>1, <1>0, <1>5 DEF BeatCntAfter
    <3>2. Data.last <=> ~(n > 1)
      BY <2>1, <1>0, <1>10
    <3>3. awInhibit' = IF Data.last THEN FALSE ELSE awInhibit
      BY <1>d, <1>5 DEF AwInhibitAfter
    <3> QED BY <3>1, <3>2, <3>3, <2>1
  <2>5. reqCnt' = reqCnt /\ outstanding' = outstanding
    BY <2>1, <1>5, <1>11 DEF ReqCntAfter, Await
  <2>7. Sending(a, n)'
    <3>1. /\ bus'.aw = IF Gone' = 0 THEN <<>> ELSE <<[addr |-> a, len |-> n - 1]>>
          /\ bus'.ar = <<>> /\ (skid' # NoBeat => bus'.w = <<>> /\ skid' = DataBeat(a, n, 0))
      BY <2>1, <2>2, <2>3
    <3>2. \A k \in 1..Len(bus'.w) : bus'.w[k] = DataBeat(a, n, k - 1)
      BY <2>2, <2>3
    <3>3. beatCnt' = IF Gone' = 0 THEN 0 ELSE n - Len(bus'.w)
      BY <2>3, <2>4, <1>0
    <3>4. reqCnt' = (IF Gone' \in {0, n} THEN 0 ELSE n - 1 - Gone')
      <4>1. reqCnt = (IF Gone \in {0, n} THEN 0 ELSE n - 1 - Gone) /\ Gone = 1 /\ Gone' = 1 /\ reqCnt' = reqCnt
        BY <2>1, <2>3, <2>5, <1>2
      <4> QED BY <4>1
    <3>5. outstanding' = IF Gone' = n THEN 1 ELSE 0
      BY <2>1, <2>3, <2>5, <1>2
    <3>6. awInhibit' = IF Gone' > 0 /\ Len(bus'.w) < n THEN TRUE ELSE FALSE
      <4>1. (Gone' > 0 /\ Len(bus'.w) < n) <=> n > 1
        BY <2>3, <1>0
      <4> QED BY <2>4, <4>1
    <3> QED BY <2>3, <3>1, <3>2, <3>3, <3>4, <3>5, <3>6 DEF Sending
  <2> QED BY <2>1, <2>3, <2>7, <1>6
<1>e. CASE "aw" \notin rdy /\ "w" \in rdy /\ skid = NoBeat
  <2>0. Gone = Len(bus.w) /\ Gone >= 1 /\ Gone < n /\ reqFifo # <<>> /\ WValid /\ IsWrite /\ Accepted(rdy)
    BY <1>e, <1>0, <1>1, <1>3, <1>4, <1>7, <1>8
  <2>1. /\ Data = DataBeat(a, n, Gone) /\ Request.len = 0 /\ beatCnt = n - Gone
        /\ bus.aw = <<[addr |-> a, len |-> n - 1]>> /\ outstanding = 0
        /\ reqCnt = n - 1 - Gone
    BY <2>0, <1>0, <1>2, <1>3, <1>9
  <2>2. awInhibit = TRUE
    <3>1. Gone > 0 /\ Len(bus.w) < n
      BY <2>0, <1>0, <1>1
    <3> QED BY <3>1, <1>2
  <2>3. /\ bus'.w = Append(bus.w, Data) /\ bus'.aw = bus.aw /\ bus'.ar = <<>> /\ skid' = NoBeat
    BY <1>e, <1>2, <1>5
  <2>4. /\ bus'.w \in Seq(DataBeats) /\ Len(bus'.w) = Gone + 1 /\ Gone' = Gone + 1
        /\ \A k \in 1..Len(bus.w) : bus'.w[k] = bus.w[k]
        /\ bus'.w[Gone + 1] = Data
    <3>1. /\ bus'.w \in Seq(DataBeats) /\ Len(bus'.w) = Gone + 1
          /\ \A k \in 1..Len(bus.w) : bus'.w[k] = bus.w[k]
          /\ bus'.w[Gone + 1] = Data
      BY <2>0, <2>1, <2>3, <1>2, <1>f, Pushed
    <3> QED BY <3>1, <2>0, <2>3, <1>1, <1>13
  <2>5. \A k \in 1..Len(bus'.w) : bus'.w[k] = DataBeat(a, n, k - 1)
    <3> TAKE k \in 1..Len(bus'.w)
    <3>1. CASE k = Gone + 1
      BY <3>1, <2>0, <2>1, <2>4, <1>1
    <3>2. CASE k # Gone + 1
      <4>1. k \in 1..Len(bus.w)
        BY <3>2, <2>0, <2>4, <1>1
      <4> QED BY <4>1, <2>4, <1>2
    <3> QED BY <3>1, <3>2
  <2>6. awInhibit' = (IF Gone + 1 < n THEN TRUE ELSE FALSE) /\ beatCnt' = n - (Gone + 1)
    <3>1. beatCnt' = n - (Gone + 1)
      <4>1. n - Gone # 0 /\ n - Gone - 1 = n - (Gone + 1)
        BY <2>0, <1>0, <1>1
      <4>2. beatCnt' = IF beatCnt # 0 THEN beatCnt - 1 ELSE beatCnt
        BY <1>e, <1>5 DEF BeatCntAfter
      <4> QED BY <4>1, <4>2, <2>1
    <3>2. Data.last <=> ~(Gone + 1 < n)
      <4>1. Data.last <=> Gone = n - 1
        BY <2>0, <2>1, <1>10
      <4>2. Gone = n - 1 <=> ~(Gone + 1 < n)
        BY <2>0, <1>0, <1>1
      <4> QED BY <4>1, <4>2
    <3>3. awInhibit' = IF Data.last THEN FALSE ELSE awInhibit
      BY <1>e, <1>5 DEF AwInhibitAfter
    <3> QED BY <3>1, <3>2, <3>3, <2>2
  <2>7. reqCnt' = IF Gone + 1 = n THEN 0 ELSE n - 1 - (Gone + 1)
    <3>1. reqCnt' = IF reqCnt # 0 THEN reqCnt - 1 ELSE 0
      BY <2>0, <2>1, <1>5 DEF ReqCntAfter
    <3>2. Gone \in Nat /\ reqCnt = n - 1 - Gone
      BY <2>1, <1>1
    <3>3. Gone + 1 = n <=> reqCnt = 0
      BY <3>2, <1>0
    <3> QED BY <3>1, <3>2, <3>3, <1>0
  <2>8. outstanding' = IF Gone + 1 = n THEN 1 ELSE 0
    BY <2>0, <2>1, <1>0, <1>1, <1>3, <1>11 DEF Await
  <2>9. Sending(a, n)'
    <3>1. /\ bus'.aw = IF Gone' = 0 THEN <<>> ELSE <<[addr |-> a, len |-> n - 1]>>
          /\ bus'.ar = <<>> /\ (skid' # NoBeat => bus'.w = <<>> /\ skid' = DataBeat(a, n, 0))
      BY <2>0, <2>1, <2>3, <2>4
    <3>3. beatCnt' = IF Gone' = 0 THEN 0 ELSE n - Len(bus'.w)
      <4>1. Gone \in Nat /\ Gone' = Gone + 1 /\ Len(bus'.w) = Gone + 1 /\ beatCnt' = n - (Gone + 1)
        BY <2>4, <2>6, <1>1
      <4> QED BY <4>1, <1>0
    <3>4. reqCnt' = IF Gone' \in {0, n} THEN 0 ELSE n - 1 - Gone'
      <4>1. Gone' = Gone + 1 /\ Gone + 1 # 0
        BY <2>4, <1>1
      <4> QED BY <4>1, <2>7
    <3>5. outstanding' = IF Gone' = n THEN 1 ELSE 0
      BY <2>4, <2>8
    <3>6. awInhibit' = IF Gone' > 0 /\ Len(bus'.w) < n THEN TRUE ELSE FALSE
      <4>1. (Gone' > 0 /\ Len(bus'.w) < n) <=> Gone + 1 < n
        BY <2>0, <2>4, <1>0, <1>1
      <4> QED BY <2>6, <4>1
    <3> QED BY <2>4, <2>5, <3>1, <3>3, <3>4, <3>5, <3>6 DEF Sending
  <2> QED BY <2>0, <2>4, <2>9, <1>6
<1> QED BY <1>a, <1>b, <1>c, <1>d, <1>e

(* What is put in for a beat is an entry of the queue.                     *)
LEMMA WriteBeatIs ==
  ASSUME NEW a \in Addrs, NEW n \in 1..Beats, NEW k \in 0..(n - 1)
  PROVE  /\ WriteBeat(a, n, k) \in Entries
         /\ WriteBeat(a, n, k).op = "wr" /\ WriteBeat(a, n, k).addr = a /\ WriteBeat(a, n, k).beat = k
<1>1. k \in 0..(Beats - 1) /\ n - 1 \in 0..(Beats - 1) /\ 0 \in 0..(Beats - 1)
  BY BeatsAssumption
<1> QED BY <1>1 DEF WriteBeat, Entries, LoadsStores

(* The next beat of a write is put in while others are on their way.       *)
LEMMA WritingStep ==
  ASSUME AddressFirst, NEW a \in Addrs, NEW n \in 1..Beats, NEW in \in 0..n, Writing(a, n, in),
         wInhibit = FALSE, NEW rdy \in Readies, NEW push, AxiTick(push, rdy, "none", "none"),
         push = <<>> \/ (in < n /\ push = <<WriteBeat(a, n, in)>>),
         NEW next, next = in + (IF push # <<>> /\ AxiAccepts THEN 1 ELSE 0)
  PROVE  Writing(a, n, next)' /\ wInhibit' = FALSE /\ next \in 0..n
<1> DEFINE rest == IF Accepted(rdy) THEN Tail(reqFifo) ELSE reqFifo
<1> DEFINE acc == IF Accepted(rdy) THEN 1 ELSE 0
<1>0. n \in Nat /\ in \in Nat /\ in <= n /\ n >= 1
  BY BeatsAssumption
<1>1. /\ Len(bus.w) \in 0..n /\ Gone \in 0..n /\ Len(reqFifo) \in Nat /\ Len(reqFifo) <= 2
      /\ (reqFifo = <<>> <=> Len(reqFifo) = 0)
  BY WritingTypes
<1>2. Sending(a, n)' /\ wInhibit' = FALSE /\ Gone' = Gone + acc /\ (Accepted(rdy) => reqFifo # <<>>)
  BY WritingSends
<1>3. /\ reqFifo \in Seq(Entries) /\ Gone + Len(reqFifo) = in
      /\ \A k \in 1..Len(reqFifo) : reqFifo[k] = WriteBeat(a, n, Gone + k - 1)
  BY DEF Writing, Queued
<1>4. reqFifo' = IF AxiAccepts THEN rest \o push ELSE rest
  BY DEF AxiTick
<1>5. /\ rest \in Seq(Entries) /\ Len(rest) = Len(reqFifo) - acc
      /\ \A k \in 1..Len(rest) : rest[k] = WriteBeat(a, n, Gone' + k - 1)
  <2>1. CASE Accepted(rdy)
    <3>1. /\ rest = Tail(reqFifo) /\ rest \in Seq(Entries) /\ Len(rest) = Len(reqFifo) - 1
          /\ \A k \in 1..Len(rest) : rest[k] = reqFifo[k + 1]
      BY <2>1, <1>2, <1>3, HeadTailProperties
    <3>2. ASSUME NEW k \in 1..Len(rest) PROVE rest[k] = WriteBeat(a, n, Gone' + k - 1)
      <4>1. k + 1 \in 1..Len(reqFifo) /\ Gone + (k + 1) - 1 = Gone' + k - 1 /\ rest[k] = reqFifo[k + 1]
        BY <2>1, <3>1, <1>1, <1>2
      <4> QED BY <4>1, <1>3
    <3> QED BY <2>1, <3>1, <3>2
  <2>2. CASE ~Accepted(rdy)
    <3>1. Gone' = Gone
      BY <2>2, <1>1, <1>2
    <3> QED BY <2>2, <3>1, <1>3, <1>1
  <2> QED BY <2>1, <2>2
<1>6. Gone' \in Nat /\ Len(rest) \in Nat /\ Gone' + Len(rest) = in /\ Len(rest) <= 2
  <2>1. acc \in 0..1 /\ (acc = 1 => Len(reqFifo) >= 1)
    BY <1>1, <1>2
  <2> HIDE DEF acc, rest
  <2>2. Gone' = Gone + acc /\ Gone + Len(reqFifo) = in /\ Len(rest) = Len(reqFifo) - acc
    BY <1>2, <1>3, <1>5
  <2>3. Len(rest) \in Nat
    BY <2>1, <2>2, <1>1
  <2>4. Gone' + Len(rest) = in
    BY <2>1, <2>2, <1>1
  <2> QED BY <2>1, <2>2, <2>3, <2>4, <1>1
<1> HIDE DEF rest, acc
<1>7. CASE push # <<>> /\ AxiAccepts
  <2>1. in < n /\ push = <<WriteBeat(a, n, in)>> /\ reqFifo' = rest \o push /\ next = in + 1
    BY <1>4, <1>7
  <2>2. in \in 0..(n - 1) /\ WriteBeat(a, n, in) \in Entries
    BY <2>1, <1>0, WriteBeatIs
  <2>3. /\ reqFifo' \in Seq(Entries) /\ Len(reqFifo') = Len(rest) + 1
        /\ \A k \in 1..Len(rest) : reqFifo'[k] = rest[k]
        /\ reqFifo'[Len(rest) + 1] = WriteBeat(a, n, in)
    BY <2>1, <2>2, <1>5, Pushed
  <2>4. Len(reqFifo) <= 1 /\ Len(reqFifo') <= 2
    <3>1. Len(reqFifo) # 2
      BY <1>7 DEF AxiAccepts
    <3>2. Len(rest) <= Len(reqFifo)
      BY <1>5, <1>1 DEF acc
    <3>3. \A i \in Nat : i <= 2 /\ i # 2 => i <= 1
      OBVIOUS
    <3>5. Len(reqFifo) <= 1
      BY <3>1, <3>3, <1>1
    <3>4. Len(reqFifo') = Len(rest) + 1
      BY <2>3
    <3> QED BY <3>2, <3>5, <3>4, <1>1, <1>6
  <2>5. \A k \in 1..Len(reqFifo') : reqFifo'[k] = WriteBeat(a, n, Gone' + k - 1)
    <3> TAKE k \in 1..Len(reqFifo')
    <3>1. CASE k = Len(rest) + 1
      <4>1. Gone' + k - 1 = in
        BY <3>1, <1>6
      <4> QED BY <3>1, <4>1, <2>3
    <3>2. CASE k # Len(rest) + 1
      <4>1. k \in 1..Len(rest)
        BY <3>2, <2>3, <1>6
      <4> QED BY <4>1, <2>3, <1>5
    <3> QED BY <3>1, <3>2
  <2>6. Gone' + Len(reqFifo') = next /\ next \in 0..n
    BY <2>1, <2>3, <1>0, <1>6
  <2> QED BY <2>3, <2>4, <2>5, <2>6, <1>2 DEF Writing, Queued
<1>8. CASE ~(push # <<>> /\ AxiAccepts)
  <2>1. next = in /\ next \in 0..n
    BY <1>8, <1>0
  <2>2. reqFifo' = rest
    BY <1>4, <1>5, <1>8, ConcatEmptySeq
  <2>3. /\ reqFifo' \in Seq(Entries) /\ Gone' + Len(reqFifo') = next /\ Len(reqFifo') <= 2
        /\ \A k \in 1..Len(reqFifo') : reqFifo'[k] = WriteBeat(a, n, Gone' + k - 1)
    BY <2>1, <2>2, <1>5, <1>6
  <2> QED BY <2>1, <2>3, <1>2 DEF Writing, Queued
<1> QED BY <1>7, <1>8

(* An empty bridge is one with a write of which nothing is put in.         *)
LEMMA EmptyIsWriting ==
  ASSUME NEW a \in Addrs, NEW n \in 1..Beats
  PROVE  BridgeEmpty <=> Writing(a, n, 0)
<1>0. n \in Nat /\ n >= 1
  BY BeatsAssumption
<1>1. ASSUME BridgeEmpty PROVE Writing(a, n, 0)
  <2>1. Gone = 0 /\ Len(bus.w) = 0 /\ Len(reqFifo) = 0 /\ reqFifo \in Seq(Entries) /\ bus.w \in Seq(DataBeats)
    BY <1>1, EmptySeq DEF BridgeEmpty, Gone, Skidded
  <2>2. Queued(a, n, 0)
    BY <2>1 DEF Queued
  <2>3. Sending(a, n)
    <3>1. (IF Gone > 0 /\ Len(bus.w) < n THEN TRUE ELSE FALSE) = FALSE
      BY <2>1, <1>0
    <3>2. /\ bus.aw = <<>> /\ bus.ar = <<>> /\ skid = NoBeat /\ awInhibit = FALSE
          /\ beatCnt = 0 /\ reqCnt = 0 /\ outstanding = 0 /\ Gone # n
      BY <1>0, <1>1, <2>1 DEF BridgeEmpty
    <3>3. \A k \in 1..Len(bus.w) : bus.w[k] = DataBeat(a, n, k - 1)
      BY <2>1
    <3> QED BY <2>1, <3>1, <3>2, <3>3 DEF Sending
  <2> QED BY <2>2, <2>3 DEF Writing
<1>2. ASSUME Writing(a, n, 0) PROVE BridgeEmpty
  <2>1. /\ Len(bus.w) \in 0..n /\ Gone \in 0..n /\ Gone <= 0 /\ (reqFifo = <<>> <=> Len(reqFifo) = 0)
        /\ (skid # NoBeat => Gone = 1) /\ (bus.w = <<>> <=> Len(bus.w) = 0) /\ Len(reqFifo) \in Nat
        /\ Gone = Len(bus.w) + Skidded /\ Skidded \in 0..1
    BY <1>0, <1>2, WritingTypes
  <2>2. Gone = 0 /\ Len(reqFifo) = 0 /\ skid = NoBeat /\ Len(bus.w) = 0
    BY <1>0, <1>2, <2>1 DEF Writing, Queued
  <2> QED BY <1>0, <1>2, <2>1, <2>2 DEF BridgeEmpty, Writing, Queued, Sending
<1> QED BY <1>1, <1>2

-----------------------------------------------------------------------------
(* The bridge between bursts, and with a read in it                        *)

(* Nothing is on its way, and a read may be put in.                        *)
LEMMA ReadStarts ==
  ASSUME AddressFirst, BridgeEmpty, wInhibit = FALSE, NEW rdy \in Readies,
         NEW b \in WriteAnswers, NEW r \in ReadAnswers, NEW push, AxiTick(push, rdy, b, r)
  PROVE  /\ b = "none" /\ r = "none" /\ rdy = {} /\ wInhibit' = FALSE
         /\ push = <<>> => BridgeEmpty'
         /\ \A a, n : push = <<ReadRequest(a, n)>> => Reading(a, n, n)'
<1>1. b = "none" /\ r = "none"
  BY DEF BridgeEmpty, WriteAnswers, ReadAnswers
<1>2. ~AwValid /\ ~WValid /\ ~ArValid
  BY DEF BridgeEmpty, AwValid, WValid, ArValid, IsWrite, CanIssue
<1>3. rdy = {}
  BY <1>2, Readied DEF Readies
<1>4. ~Accepted(rdy) /\ ~Await(rdy)
  BY <1>3 DEF Accepted, Await
<1>5. /\ reqCnt' = 0 /\ outstanding' = 0 /\ awInhibit' = FALSE /\ beatCnt' = 0 /\ skid' = NoBeat
      /\ bus'.aw = <<>> /\ bus'.w = <<>> /\ bus'.ar = <<>> /\ wInhibit' = FALSE
  BY <1>1, <1>3, <1>4, NoAnswer
  DEF BridgeEmpty, AxiTick, ReqCntAfter, OutstandingAfter, AwInhibitAfter, BeatCntAfter, BusTick, ReadsAfter
<1>6. reqFifo' = <<>> \o push
  BY <1>4, One DEF BridgeEmpty, AxiTick, AxiAccepts
<1>7. push = <<>> => BridgeEmpty'
  BY <1>5, <1>6, One DEF BridgeEmpty
<1>8. \A a, n : push = <<ReadRequest(a, n)>> => Reading(a, n, n)'
  BY <1>5, <1>6, One DEF Reading
<1> QED BY <1>1, <1>3, <1>5, <1>7, <1>8

(* The data of a write are not held back.                                  *)
DataOpen == wInhibit = FALSE

(* A write is answered when all of it has been taken; a read may follow in *)
(* the same clock.                                                         *)
LEMMA WriteAnswered ==
  ASSUME AddressFirst, NEW a \in Addrs, NEW n \in 1..Beats, NEW in \in 0..n, Writing(a, n, in),
         DataOpen, NEW rdy \in Readies,
         NEW b \in WriteAnswers, NEW r \in ReadAnswers, NEW push, AxiTick(push, rdy, b, r)
  PROVE  /\ r = "none"
         /\ b # "none" => /\ in = n /\ bus.aw # <<>> /\ bus.aw[1].addr = a
                          /\ AxiAccepts /\ DataOpen'
                          /\ push = <<>> => BridgeEmpty'
                          /\ \A a2, n2 : push = <<ReadRequest(a2, n2)>> => Reading(a2, n2, n2)'
<1> USE DEF DataOpen
<1>0. n \in Nat /\ in \in Nat /\ in <= n /\ n >= 1
  BY BeatsAssumption
<1>1. /\ Len(bus.w) \in 0..n /\ Gone \in 0..n /\ Skidded \in 0..1 /\ Len(reqFifo) \in Nat
      /\ Gone = Len(bus.w) + Skidded /\ Gone <= in
      /\ (reqFifo = <<>> <=> Len(reqFifo) = 0)
      /\ (skid # NoBeat <=> Skidded = 1)
  BY WritingTypes
<1>2. /\ bus.aw = (IF Gone = 0 THEN <<>> ELSE <<[addr |-> a, len |-> n - 1]>>)
      /\ bus.w \in Seq(DataBeats) /\ \A k \in 1..Len(bus.w) : bus.w[k] = DataBeat(a, n, k - 1)
      /\ awInhibit = (IF Gone > 0 /\ Len(bus.w) < n THEN TRUE ELSE FALSE)
      /\ beatCnt = (IF Gone = 0 THEN 0 ELSE n - Len(bus.w))
      /\ reqCnt = (IF Gone \in {0, n} THEN 0 ELSE n - 1 - Gone)
      /\ outstanding = (IF Gone = n THEN 1 ELSE 0)
      /\ bus.ar = <<>> /\ Gone + Len(reqFifo) = in
  BY DEF Writing, Sending, Queued
<1>3. r = "none"
  BY <1>2 DEF ReadAnswers
<1>4. SUFFICES ASSUME b # "none"
               PROVE  /\ in = n /\ bus.aw # <<>> /\ bus.aw[1].addr = a
                      /\ AxiAccepts /\ DataOpen'
                      /\ push = <<>> => BridgeEmpty'
                      /\ \A a2, n2 : push = <<ReadRequest(a2, n2)>> => Reading(a2, n2, n2)'
  BY <1>3
<1>5. PICK k \in 1..Len(bus.w) : bus.w[k].last
  BY <1>2, <1>4, LenProperties DEF WriteAnswers, Written
<1>6. k = n
  <2>1. DataBeat(a, n, k - 1).last
    BY <1>2, <1>5
  <2>2. DataBeat(a, n, k - 1).last <=> k - 1 = n - 1
    BY DEF DataBeat
  <2>3. k \in Nat
    BY <1>0, <1>1
  <2> QED BY <2>1, <2>2, <2>3, <1>0
<1>7. Len(bus.w) = n /\ Gone = n /\ in = n /\ Skidded = 0 /\ Len(reqFifo) = 0
  BY <1>0, <1>1, <1>2, <1>5, <1>6
<1>8. /\ reqFifo = <<>> /\ skid = NoBeat /\ bus.aw = <<[addr |-> a, len |-> n - 1]>>
      /\ beatCnt = 0 /\ reqCnt = 0 /\ outstanding = 1 /\ awInhibit = FALSE
  <2>1. (IF Gone > 0 /\ Len(bus.w) < n THEN TRUE ELSE FALSE) = FALSE
    BY <1>7, <1>0
  <2> QED BY <2>1, <1>0, <1>1, <1>2, <1>7
<1>9. ~AwValid /\ ~WValid /\ ~ArValid
  BY <1>8 DEF AwValid, WValid, ArValid, IsWrite, CanIssue
<1>10. rdy = {}
  BY <1>9, Readied DEF Readies
<1>11. ~Accepted(rdy) /\ ~Await(rdy)
  BY <1>10 DEF Accepted, Await
<1>12. BurstEnd = n
  <2>1. DOMAIN bus.w = 1..n
    BY <1>2, <1>7, LenProperties
  <2>2. \A j \in 1..n : bus.w[j].last <=> j = n
    <3> TAKE j \in 1..n
    <3>1. bus.w[j] = DataBeat(a, n, j - 1)
      BY <1>2, <1>7
    <3>2. j \in Nat
      BY <1>0
    <3>3. DataBeat(a, n, j - 1).last <=> j - 1 = n - 1
      BY DEF DataBeat
    <3> QED BY <1>0, <3>1, <3>2, <3>3
  <2>3. \A j \in 1..n : (bus.w[j].last /\ \A i \in 1..(j - 1) : ~bus.w[i].last) <=> j = n
    <3> TAKE j \in 1..n
    <3>1. j = n => \A i \in 1..(j - 1) : i \in 1..n /\ i # n
      BY <1>0
    <3> QED BY <3>1, <2>2
  <2>4. n \in 1..n
    BY <1>0
  <2>5. BurstEnd = CHOOSE j \in 1..n : bus.w[j].last /\ \A i \in 1..(j - 1) : ~bus.w[i].last
    BY <2>1 DEF BurstEnd
  <2> QED BY <2>3, <2>4, <2>5
<1>13. SubSeq(bus.w, BurstEnd + 1, Len(bus.w)) = <<>>
  BY <1>0, <1>7, <1>12, SubSeqEmpty
<1>14. bus'.aw = <<>> /\ bus'.w = <<>> /\ bus'.ar = <<>>
  BY <1>2, <1>3, <1>4, <1>8, <1>10, <1>13, One DEF AxiTick, BusTick, ReadsAfter
<1>15. outstanding' = 0
  <2>1. LastAnswer(b, r)
    BY <1>4 DEF LastAnswer
  <2> QED BY <2>1, <1>8, <1>11 DEF AxiTick, OutstandingAfter
<1>16. reqCnt' = 0 /\ awInhibit' = FALSE /\ beatCnt' = 0 /\ skid' = NoBeat /\ wInhibit' = FALSE
  BY <1>8, <1>10, <1>11 DEF AxiTick, ReqCntAfter, AwInhibitAfter, BeatCntAfter
<1>21. DataOpen'
  BY <1>16 DEF DataOpen
<1>22. AxiAccepts
  BY <1>7 DEF AxiAccepts
<1>17. reqFifo' = <<>> \o push
  BY <1>8, <1>11, One DEF AxiTick, AxiAccepts
<1>18. push = <<>> => BridgeEmpty'
  BY <1>14, <1>15, <1>16, <1>17, One DEF BridgeEmpty
<1>19. \A a2, n2 : push = <<ReadRequest(a2, n2)>> => Reading(a2, n2, n2)'
  BY <1>14, <1>15, <1>16, <1>17, One DEF Reading
<1>20. bus.aw # <<>> /\ bus.aw[1].addr = a
  BY <1>8, One
<1> QED BY <1>7, <1>18, <1>19, <1>20, <1>21, <1>22

(* A read gives its beats one by one.                                      *)
LEMMA ReadingStep ==
  ASSUME AddressFirst, NEW a \in Addrs, NEW n \in 1..Beats, NEW left \in 1..n, Reading(a, n, left),
         DataOpen, NEW rdy \in Readies,
         NEW b \in WriteAnswers, NEW r \in ReadAnswers, NEW push, AxiTick(push, rdy, b, r)
  PROVE  /\ b = "none" /\ DataOpen'
         /\ r = "none" /\ push = <<>> => Reading(a, n, left)'
         /\ r # "none" => bus.ar # <<>> /\ bus.ar[1].addr = a /\ AxiAccepts
         /\ r # "none" /\ left # 1 /\ push = <<>> => Reading(a, n, left - 1)'
         /\ r # "none" /\ left = 1 => /\ push = <<>> => BridgeEmpty'
                                      /\ \A a2, n2 : push = <<ReadRequest(a2, n2)>> => Reading(a2, n2, n2)'
<1> USE DEF DataOpen
<1>0. n \in Nat /\ left \in Nat /\ left >= 1 /\ left <= n
  BY BeatsAssumption
<1>1. b = "none"
  BY DEF Reading, WriteAnswers
<1>2. /\ reqCnt = 0 /\ awInhibit = FALSE /\ beatCnt = 0 /\ skid = NoBeat /\ bus.aw = <<>> /\ bus.w = <<>>
  BY DEF Reading
<1>3. ASSUME left = n, reqFifo = <<ReadRequest(a, n)>>, outstanding = 0, bus.ar = <<>>
      PROVE  r = "none" /\ wInhibit' = FALSE /\ (push = <<>> => Reading(a, n, left)')
  <2>1. r = "none"
    BY <1>3 DEF ReadAnswers
  <2>2. Request = ReadRequest(a, n) /\ Request.op = "rd" /\ Request.addr = a /\ Request.len = n - 1 /\ reqFifo # <<>>
    BY <1>3, One DEF Request, ReadRequest
  <2>3. ArValid /\ ~AwValid /\ ~WValid /\ ~IsWrite
    BY <1>2, <1>3, <2>2 DEF ArValid, AwValid, WValid, IsWrite, CanIssue
  <2>4. "aw" \notin rdy /\ "w" \notin rdy
    BY <2>3, Readied
  <2>5. /\ reqCnt' = 0 /\ awInhibit' = FALSE /\ beatCnt' = 0 /\ skid' = NoBeat
        /\ bus'.aw = <<>> /\ bus'.w = <<>> /\ wInhibit' = FALSE
    BY <1>1, <1>2, <2>3, <2>4 DEF AxiTick, ReqCntAfter, AwInhibitAfter, BeatCntAfter, BusTick
  <2>6. CASE "ar" \in rdy
    <3>1. Accepted(rdy) /\ Await(rdy)
      BY <2>3, <2>6 DEF Accepted, Await
    <3>2. outstanding' = 1
      BY <3>1, <1>1, <1>3, <2>1, NoAnswer DEF AxiTick, OutstandingAfter
    <3>3. bus'.ar = <<[addr |-> a, left |-> n - 1]>>
      BY <2>1, <2>2, <2>6, <1>3, One DEF AxiTick, BusTick, ReadsAfter
    <3>4. push = <<>> => reqFifo' = <<>>
      BY <3>1, <1>3, One DEF AxiTick
    <3> QED BY <3>2, <3>3, <3>4, <1>3, <2>1, <2>5 DEF Reading
  <2>7. CASE "ar" \notin rdy
    <3>1. ~Accepted(rdy) /\ ~Await(rdy)
      BY <2>4, <2>7 DEF Accepted, Await
    <3>2. outstanding' = 0
      BY <3>1, <1>1, <1>3, <2>1, NoAnswer DEF AxiTick, OutstandingAfter
    <3>3. bus'.ar = <<>>
      BY <2>1, <2>7, <1>3 DEF AxiTick, BusTick, ReadsAfter
    <3>4. push = <<>> => reqFifo' = reqFifo
      BY <3>1, <1>3, One DEF AxiTick
    <3> QED BY <3>2, <3>3, <3>4, <1>3, <2>1, <2>5 DEF Reading
  <2> QED BY <2>6, <2>7
<1>4. ASSUME reqFifo = <<>>, outstanding = 1, bus.ar = <<[addr |-> a, left |-> left - 1]>>
      PROVE  /\ wInhibit' = FALSE
             /\ bus.ar # <<>> /\ bus.ar[1].addr = a /\ AxiAccepts
             /\ r = "none" /\ push = <<>> => Reading(a, n, left)'
             /\ r # "none" /\ left # 1 /\ push = <<>> => Reading(a, n, left - 1)'
             /\ r # "none" /\ left = 1 => /\ push = <<>> => BridgeEmpty'
                                          /\ \A a2, n2 : push = <<ReadRequest(a2, n2)>> => Reading(a2, n2, n2)'
  <2>1. ~AwValid /\ ~WValid /\ ~ArValid
    BY <1>2, <1>4 DEF AwValid, WValid, ArValid, IsWrite, CanIssue
  <2>2. rdy = {}
    BY <2>1, Readied DEF Readies
  <2>3. ~Accepted(rdy) /\ ~Await(rdy)
    BY <2>2 DEF Accepted, Await
  <2>4. /\ reqCnt' = 0 /\ awInhibit' = FALSE /\ beatCnt' = 0 /\ skid' = NoBeat
        /\ bus'.aw = <<>> /\ bus'.w = <<>> /\ wInhibit' = FALSE
    BY <1>1, <1>2, <2>2, <2>3 DEF AxiTick, ReqCntAfter, AwInhibitAfter, BeatCntAfter, BusTick
  <2>5. reqFifo' = <<>> \o push
    BY <2>3, <1>4, One DEF AxiTick, AxiAccepts
  <2>6. bus.ar[1] = [addr |-> a, left |-> left - 1] /\ bus.ar[1].left = left - 1 /\ Tail(bus.ar) = <<>>
    BY <1>4, One
  <2>7. bus'.ar = IF r = "none" THEN bus.ar
                  ELSE IF left = 1 THEN <<>>
                  ELSE [bus.ar EXCEPT ![1].left = @ - 1]
    <3>1. bus.ar[1].left = 0 <=> left = 1
      BY <1>0, <2>6
    <3>2. bus'.ar = IF r = "none" THEN bus.ar
                    ELSE IF bus.ar[1].left = 0 THEN Tail(bus.ar)
                    ELSE [bus.ar EXCEPT ![1].left = @ - 1]
      BY <2>2 DEF AxiTick, BusTick, ReadsAfter
    <3> QED BY <3>1, <3>2, <2>6
  <2>8. LastAnswer(b, r) <=> r # "none" /\ left = 1
    BY <1>0, <1>1, <2>6 DEF LastAnswer
  <2>9. outstanding' = IF r # "none" /\ left = 1 THEN 0 ELSE 1
    BY <2>3, <2>8, <1>4 DEF AxiTick, OutstandingAfter
  <2>10. ASSUME r = "none", push = <<>> PROVE Reading(a, n, left)'
    BY <2>10, <2>4, <2>5, <2>7, <2>9, <1>4, One DEF Reading
  <2>11. ASSUME r # "none", left # 1, push = <<>> PROVE Reading(a, n, left - 1)'
    <3>1. [bus.ar EXCEPT ![1].left = @ - 1] = <<[addr |-> a, left |-> left - 1 - 1]>>
      BY <1>4
    <3> QED BY <3>1, <2>11, <2>4, <2>5, <2>7, <2>9, <1>4, One DEF Reading
  <2>12. ASSUME r # "none", left = 1, push = <<>> PROVE BridgeEmpty'
    BY <2>12, <2>4, <2>5, <2>7, <2>9, <1>4, One DEF BridgeEmpty
  <2>13. ASSUME r # "none", left = 1, NEW a2, NEW n2, push = <<ReadRequest(a2, n2)>> PROVE Reading(a2, n2, n2)'
    BY <2>13, <2>4, <2>5, <2>7, <2>9, <1>4, One DEF Reading
  <2>14. bus.ar # <<>> /\ bus.ar[1].addr = a /\ AxiAccepts
    BY <1>4, One DEF AxiAccepts
  <2> QED BY <2>4, <2>10, <2>11, <2>12, <2>13, <2>14
<1>5. \/ left = n /\ reqFifo = <<ReadRequest(a, n)>> /\ outstanding = 0 /\ bus.ar = <<>>
      \/ reqFifo = <<>> /\ outstanding = 1 /\ bus.ar = <<[addr |-> a, left |-> left - 1]>>
  BY DEF Reading
<1> QED BY <1>1, <1>3, <1>4, <1>5

(* A single word, with nothing behind it.                                  *)
LEMMA WordWritten ==
  ASSUME AddressFirst, NEW a \in Addrs, Writing(a, 1, 1), wInhibit = FALSE, NEW rdy \in Readies,
         NEW b \in WriteAnswers, NEW r \in ReadAnswers, AxiTick(<<>>, rdy, b, r)
  PROVE  /\ r = "none"
         /\ b # "none" => /\ bus.aw # <<>> /\ bus.aw[1].addr = a
                          /\ wInhibit' = FALSE /\ BridgeEmpty'
         /\ b = "none" => Writing(a, 1, 1)' /\ wInhibit' = FALSE
<1>1. 1 \in 1..Beats
  BY BeatsAssumption
<1>2. PICK n \in 1..Beats : n = 1
  BY <1>1
<1>3. PICK push : push = <<>>
  OBVIOUS
<1>8. n \in Nat
  BY <1>2
<1>4. PICK in \in 0..n : in = n /\ Writing(a, n, in) /\ AxiTick(push, rdy, b, r) /\ DataOpen
  <2>1. n \in 0..n /\ Writing(a, n, n) /\ AxiTick(push, rdy, b, r)
    BY <1>2, <1>3
  <2> QED BY <2>1 DEF DataOpen
<1>5. r = "none"
  BY <1>4, WriteAnswered
<1>6. ASSUME b # "none"
      PROVE  bus.aw # <<>> /\ bus.aw[1].addr = a /\ wInhibit' = FALSE /\ BridgeEmpty'
  <2>1. bus.aw # <<>> /\ bus.aw[1].addr = a
    BY <1>4, <1>6, WriteAnswered
  <2>2. DataOpen'
    BY <1>4, <1>6, WriteAnswered
  <2>3. BridgeEmpty'
    BY <1>3, <1>4, <1>6, WriteAnswered
  <2> QED BY <2>1, <2>2, <2>3 DEF DataOpen
<1>7. ASSUME b = "none" PROVE Writing(a, 1, 1)' /\ wInhibit' = FALSE
  <2>1. AxiTick(push, rdy, "none", "none")
    BY <1>4, <1>5, <1>7
  <2>2. in = in + (IF push # <<>> /\ AxiAccepts THEN 1 ELSE 0)
    BY <1>2, <1>3
  <2>3. Writing(a, n, in)' /\ wInhibit' = FALSE
    BY <2>1, <2>2, <1>3, <1>4, WritingStep
  <2> QED BY <2>3, <1>2, <1>4
<1> QED BY <1>5, <1>6, <1>7

(* A single word read.                                                     *)
LEMMA WordRead ==
  ASSUME AddressFirst, NEW a \in Addrs, Reading(a, 1, 1), wInhibit = FALSE, NEW rdy \in Readies,
         NEW b \in WriteAnswers, NEW r \in ReadAnswers, AxiTick(<<>>, rdy, b, r)
  PROVE  /\ b = "none" /\ wInhibit' = FALSE
         /\ r # "none" => bus.ar # <<>> /\ bus.ar[1].addr = a /\ BridgeEmpty'
         /\ r = "none" => Reading(a, 1, 1)'
<1>1. 1 \in 1..Beats
  BY BeatsAssumption
<1>2. PICK n \in 1..Beats : n = 1
  BY <1>1
<1>3. PICK push : push = <<>>
  OBVIOUS
<1>4. Reading(a, n, n) /\ AxiTick(push, rdy, b, r) /\ n \in 1..n /\ DataOpen
  BY <1>2, <1>3 DEF DataOpen
<1>5. b = "none" /\ wInhibit' = FALSE
  BY <1>4, ReadingStep DEF DataOpen
<1>6. ASSUME r # "none" PROVE bus.ar # <<>> /\ bus.ar[1].addr = a /\ BridgeEmpty'
  <2>1. bus.ar # <<>> /\ bus.ar[1].addr = a
    BY <1>4, <1>6, ReadingStep
  <2>2. BridgeEmpty'
    BY <1>2, <1>3, <1>4, <1>6, ReadingStep
  <2> QED BY <2>1, <2>2
<1>7. ASSUME r = "none" PROVE Reading(a, 1, 1)'
  <2>1. Reading(a, n, n)'
    BY <1>3, <1>4, <1>7, ReadingStep
  <2> QED BY <2>1, <1>2
<1> QED BY <1>5, <1>6, <1>7

-----------------------------------------------------------------------------
(* A clock                                                                 *)

BusAck(b, r) == b # "none" \/ r # "none"
BusErr(b, r) == IF b # "none" THEN b = "err" ELSE r = "err"
CoreGets(b, r) == selectQ /\ BusAck(b, r)
UncGets(b, r) == ~selectQ /\ BusAck(b, r)
Ack(b, r) == IF muxCached THEN CoreAck ELSE UncGets(b, r)
Err(b, r) == IF muxCached THEN core.err ELSE UncGets(b, r) /\ BusErr(b, r)
Ok(b, r) == Ack(b, r) /\ ~Err(b, r)
Issue(b, r) == RequestsMemory(Ok(b, r)) /\ MemAccept
Push(b, r, go) == IF Select THEN CoreOffers(go, CoreGets(b, r), BusErr(b, r)) ELSE UncOffers(UncGets(b, r))

(* The parts of a clock, with its local definitions named.                 *)
LEMMA ClockParts ==
  ASSUME NEW in, NEW rdy, NEW b, NEW r, NEW go, Clock(in, rdy, b, r, go)
  PROVE  /\ in.op # "none" => ~LsuStall(MemAccept, Ok(b, r)) /\ ~FaultE2(Ack(b, r), Err(b, r))
         /\ LsuTick(in, MemAccept, Ack(b, r), Err(b, r))
         /\ muxPend' = MuxPendAfter(Issue(b, r), Ack(b, r))
         /\ muxCached' = IF Issue(b, r) THEN e1.cached ELSE muxCached
         /\ selectQ' = Select
         /\ UncTick(Issue(b, r) /\ ~e1.cached, ~Select /\ Sent(Push(b, r, go)), UncGets(b, r))
         /\ CoreTick(Issue(b, r) /\ e1.cached, Select /\ Sent(Push(b, r, go)), CoreGets(b, r), BusErr(b, r))
         /\ AxiTick(Push(b, r, go), rdy, b, r)
  BY DEF Clock, BusAck, BusErr, CoreGets, UncGets, Ack, Err, Ok, Issue, Push

(* What the issue stage sends.                                             *)
LEMMA SendsAre ==
  ASSUME NEW in \in Sends
  PROVE  /\ in \in Accesses
         /\ in.op = "maint" => in.cached /\ e1.op = "none"
<1>1. NoAddr \in Addrs
  BY AddrsAssumption DEF NoAddr
<1>2. \A c \in BOOLEAN : Nothing(c) \in Accesses /\ Nothing(c).op = "none"
  BY <1>1 DEF Nothing, Accesses
<1> QED BY <1>2 DEF Sends

(* What a clock does to the awaited access.                                *)
LEMMA LsuStep ==
  ASSUME LsuInv, NEW in \in Sends, NEW rdy, NEW b, NEW r, NEW go, Clock(in, rdy, b, r, go),
         Ack(b, r) => lsuPend, wInhibit' = FALSE
  PROVE  /\ LsuInv'
         /\ Issue(b, r) => /\ lsuFifo' = <<e1>> /\ lsuPend' /\ Asks(e1) /\ e1 \in Accesses
                           /\ ~lsuPend \/ Ok(b, r)
                           /\ muxCached' = e1.cached
         /\ ~Issue(b, r) /\ lsuPend /\ ~Ack(b, r) => lsuFifo' = lsuFifo /\ lsuPend'
         /\ ~Issue(b, r) /\ (lsuPend => Ack(b, r)) => ~lsuPend'
         /\ ~Issue(b, r) => muxCached' = muxCached
         /\ FaultE2(Ack(b, r), Err(b, r)) => e1'.op = "none" /\ lsuFifo' = <<>>
<1> DEFINE ack == Ack(b, r)
<1> DEFINE err == Err(b, r)
<1> DEFINE ok == Ok(b, r)
<1> DEFINE issue == Issue(b, r)
<1> DEFINE dummy == e1.op = "unaligned" /\ ~Delayed(ok)
<1> DEFINE rest == IF (ack \/ unalignedE2) /\ lsuFifo # <<>> THEN Tail(lsuFifo) ELSE lsuFifo
<1>1. /\ e1' = E1After(in, MemAccept, ack, err)
      /\ lsuPend' = (issue \/ (lsuPend /\ ~ack))
      /\ unalignedE2' = dummy
      /\ lsuFifo' = IF (issue \/ dummy) /\ Len(lsuFifo) < 2 THEN Append(rest, e1) ELSE rest
  BY ClockParts DEF LsuTick, Issue, Ok
<1>2. /\ in.op # "none" => ~LsuStall(MemAccept, ok) /\ ~FaultE2(ack, err)
      /\ muxPend' = MuxPendAfter(issue, ack)
      /\ muxCached' = (IF issue THEN e1.cached ELSE muxCached)
      /\ selectQ' = Select
  BY ClockParts
<1>3. /\ in \in Accesses /\ (in.op = "maint" => in.cached /\ e1.op = "none")
      /\ Nothing(FALSE) \in Accesses /\ Nothing(FALSE).op = "none"
  <2>1. NoAddr \in Addrs
    BY AddrsAssumption DEF NoAddr
  <2> QED BY <2>1, SendsAre DEF Nothing, Accesses
<1>4. /\ e1 \in Accesses /\ (e1.op = "maint" => e1.cached /\ ~lsuPend)
      /\ lsuPend \in BOOLEAN /\ unalignedE2 \in BOOLEAN /\ muxCached \in BOOLEAN /\ selectQ \in BOOLEAN
      /\ (~lsuPend /\ ~unalignedE2 => lsuFifo = <<>>)
      /\ (unalignedE2 => /\ ~lsuPend /\ e1.op = "none"
                         /\ \E x \in Accesses : x.op = "unaligned" /\ lsuFifo = <<x>>)
      /\ (lsuPend => \E x \in Accesses : Asks(x) /\ x.cached = muxCached /\ lsuFifo = <<x>>)
      /\ muxPend = IF lsuPend THEN 1 ELSE 0
  BY DEF LsuInv
<1>5. issue => e1.op \in LoadsStores \cup {"maint"} /\ (~lsuPend \/ ok)
  BY <1>4 DEF Issue, RequestsMemory, Delayed
<1>6. ok <=> ack /\ ~err
  BY DEF Ok
<1>7. e1.cached \in BOOLEAN /\ Select \in BOOLEAN
  BY <1>4 DEF Select, Accesses
<1>8. ~(issue /\ dummy)
  BY <1>5 DEF LoadsStores
<1>9. Len(lsuFifo) < 2
  <2>1. lsuFifo = <<>> => Len(lsuFifo) = 0
    BY One
  <2>2. \A x : lsuFifo = <<x>> => Len(lsuFifo) = 1
    BY One
  <2>3. lsuFifo = <<>> \/ \E x \in Accesses : lsuFifo = <<x>>
    BY <1>4
  <2>4. Len(lsuFifo) = 0 \/ Len(lsuFifo) = 1
    BY <2>1, <2>2, <2>3
  <2> QED BY <2>4
<1>10. ~lsuPend \/ ack => rest = <<>>
  BY <1>4, One
<1>11. lsuPend /\ ~ack => rest = lsuFifo /\ ~issue /\ ~dummy
  BY <1>4, <1>5, <1>6 DEF Delayed
<1>12. issue => lsuFifo' = <<e1>> /\ lsuPend' /\ Asks(e1) /\ muxCached' = e1.cached
  BY <1>1, <1>2, <1>4, <1>5, <1>6, <1>9, <1>10, One DEF Asks
<1>13. dummy => lsuFifo' = <<e1>> /\ ~lsuPend'
  BY <1>1, <1>6, <1>8, <1>9, <1>10, One DEF Delayed
<1>14. ~issue /\ ~dummy => lsuFifo' = rest
  BY <1>1
<1>15. ~issue /\ lsuPend /\ ~ack => lsuFifo' = lsuFifo /\ lsuPend'
  BY <1>1, <1>11, <1>14
<1>16. ~issue /\ (lsuPend => ack) => ~lsuPend'
  BY <1>1
<1>17. FaultE2(ack, err) => ~issue /\ ~dummy /\ e1'.op = "none" /\ lsuFifo' = <<>>
  <2> SUFFICES ASSUME FaultE2(ack, err) PROVE ~issue /\ ~dummy /\ e1'.op = "none" /\ lsuFifo' = <<>>
    OBVIOUS
  <2>1. ~issue /\ ~dummy
    BY <1>4, <1>5, <1>6 DEF FaultE2, Delayed, LoadsStores
  <2>2. e1' = Nothing(FALSE)
    BY <1>1 DEF E1After
  <2>3. rest = <<>>
    BY <1>4, <1>10 DEF FaultE2
  <2>4. lsuFifo' = <<>>
    BY <2>1, <2>3, <1>14
  <2>5. e1'.op = "none"
    BY <2>2, <1>3
  <2> QED BY <2>1, <2>4, <2>5
<1>18. e1' \in Accesses /\ e1' \in {Nothing(FALSE), e1, in}
  BY <1>1, <1>3, <1>4 DEF E1After
<1>19. e1'.op = "maint" => e1'.cached /\ ~lsuPend'
  <2> SUFFICES ASSUME e1'.op = "maint" PROVE e1'.cached /\ ~lsuPend'
    OBVIOUS
  <2>1. e1' \in {e1, in}
    BY <1>3, <1>18
  <2>2. CASE e1' = in
    <3>1. ~LsuStall(MemAccept, ok) /\ e1.op = "none" /\ in.cached
      BY <2>2, <1>2, <1>3
    <3>2. ~issue /\ (~lsuPend \/ ack)
      BY <3>1, <1>5, <1>6 DEF LsuStall, Delayed, LoadsStores
    <3> QED BY <2>2, <3>1, <3>2, <1>16
  <2>3. CASE e1' = e1 /\ e1' # in
    <3>1. e1.op = "maint" /\ ~lsuPend /\ e1.cached
      BY <2>3, <1>4
    <3>2. ~issue
      <4>1. ~FaultE2(ack, err)
        BY <1>17
      <4>2. RequestsMemory(ack /\ ~err) /\ ~MemAccept
        BY <4>1, <3>1, <2>3, <1>1 DEF E1After, LoadsStores
      <4> QED BY <4>2 DEF Issue
    <3> QED BY <2>3, <3>1, <3>2, <1>16
  <2> QED BY <2>1, <2>2, <2>3
<1>20. dummy => e1'.op = "none"
  <2> SUFFICES ASSUME dummy PROVE e1'.op = "none"
    OBVIOUS
  <2>1. in.op = "none"
    BY <1>2 DEF LsuStall
  <2>2. e1' \in {Nothing(FALSE), in}
    BY <1>1, <1>6 DEF E1After, Delayed, RequestsMemory, LoadsStores
  <2> QED BY <2>1, <2>2, <1>3
<1>21. muxPend' = IF lsuPend' THEN 1 ELSE 0
  <2>1. CASE issue /\ ~ack
    <3>1. muxPend = 0 /\ lsuPend'
      BY <2>1, <1>4, <1>5, <1>6, <1>12
    <3> QED BY <2>1, <3>1, <1>2 DEF MuxPendAfter
  <2>2. CASE ack /\ ~issue
    <3>1. muxPend = 1 /\ ~lsuPend'
      BY <2>2, <1>4, <1>16
    <3> QED BY <2>2, <3>1, <1>2 DEF MuxPendAfter
  <2>3. CASE issue /\ ack
    BY <2>3, <1>2, <1>4, <1>12 DEF MuxPendAfter
  <2>4. CASE ~issue /\ ~ack
    BY <2>4, <1>1, <1>2, <1>4 DEF MuxPendAfter
  <2> QED BY <2>1, <2>2, <2>3, <2>4
<1>22. /\ ~lsuPend' /\ ~unalignedE2' => lsuFifo' = <<>>
       /\ unalignedE2' => /\ ~lsuPend' /\ e1'.op = "none"
                          /\ \E x \in Accesses : x.op = "unaligned" /\ lsuFifo' = <<x>>
       /\ lsuPend' => \E x \in Accesses : Asks(x) /\ x.cached = muxCached' /\ lsuFifo' = <<x>>
  <2>1. CASE issue
    <3>1. lsuPend' /\ ~unalignedE2' /\ lsuFifo' = <<e1>> /\ Asks(e1) /\ muxCached' = e1.cached
      BY <2>1, <1>1, <1>8, <1>12
    <3> QED BY <3>1, <1>4
  <2>2. CASE dummy
    <3>1. ~lsuPend' /\ unalignedE2' /\ lsuFifo' = <<e1>> /\ e1.op = "unaligned" /\ e1'.op = "none"
      BY <2>2, <1>1, <1>13, <1>20
    <3> QED BY <3>1, <1>4
  <2>3. CASE ~issue /\ ~dummy /\ lsuPend /\ ~ack
    <3>1. lsuPend' /\ ~unalignedE2' /\ lsuFifo' = lsuFifo /\ muxCached' = muxCached
      BY <2>3, <1>1, <1>2, <1>15
    <3> QED BY <2>3, <3>1, <1>4
  <2>4. CASE ~issue /\ ~dummy /\ ~(lsuPend /\ ~ack)
    <3>1. ~lsuPend' /\ ~unalignedE2' /\ lsuFifo' = <<>>
      BY <2>4, <1>1, <1>4, <1>10, <1>14, <1>16
    <3> QED BY <3>1
  <2> QED BY <2>1, <2>2, <2>3, <2>4
<1>23. lsuPend' \in BOOLEAN /\ unalignedE2' \in BOOLEAN /\ muxCached' \in BOOLEAN /\ selectQ' \in BOOLEAN
  BY <1>1, <1>2, <1>4, <1>7
<1>24. LsuInv'
  BY <1>18, <1>19, <1>21, <1>22, <1>23 DEF LsuInv, Asks
<1> QED BY <1>2, <1>4, <1>5, <1>12, <1>15, <1>16, <1>17, <1>24

-----------------------------------------------------------------------------
(* An access is accepted                                                   *)

(* The beats of the first burst of a plan.                                 *)
LEMMA BeatsOfIs ==
  ASSUME NEW plan \in Seq(Bursts)
  PROVE  /\ BeatsOf(plan) \in 0..(Beats + 1)
         /\ plan = <<>> => BeatsOf(plan) = 0
         /\ plan # <<>> /\ Head(plan).op = "wr" => BeatsOf(plan) = Beats
         /\ plan # <<>> /\ Head(plan).op # "wr" => BeatsOf(plan) = Beats + 1
  BY BeatsAssumption DEF BeatsOf

(* The first burst of a plan, and the rest.                                *)
LEMMA HeadBurst ==
  ASSUME NEW plan \in Seq(Bursts), plan # <<>>
  PROVE  Head(plan).op \in LoadsStores /\ Head(plan).addr \in Addrs /\ Tail(plan) \in Seq(Bursts)
<1>1. Head(plan) \in Bursts /\ Tail(plan) \in Seq(Bursts)
  BY HeadTailProperties
<1> QED BY <1>1 DEF Bursts

(* Every plan is a sequence of bursts.                                     *)
LEMMA PlansAre ==
  ASSUME NEW x \in Accesses, NEW plan \in Plans(x)
  PROVE  plan \in Seq(Bursts)
<1>1. x.addr \in Addrs
  BY DEF Accesses
<1>2. \A op \in LoadsStores, a \in Addrs : Burst(op, a) \in Bursts
  BY DEF Burst, Bursts
<1>3. CASE x.op = "maint"
  <2>1. PICK n \in 0..MaxEvictions : plan \in [1..n -> {Burst("wr", v) : v \in Addrs}]
    BY <1>3 DEF Plans
  <2>2. {Burst("wr", v) : v \in Addrs} \subseteq Bursts
    BY <1>2 DEF LoadsStores
  <2>3. n \in Nat
    BY EvictionsAssumption
  <2>4. plan \in [1..n -> Bursts]
    BY <2>1, <2>2
  <2> QED BY <2>3, <2>4, SeqDef
<1>4. CASE x.op # "maint"
  <2>1. Burst("rd", x.addr) \in Bursts /\ \A v \in Addrs : Burst("wr", v) \in Bursts
    BY <1>1, <1>2 DEF LoadsStores
  <2>2. \/ plan \in {<<>>, <<Burst("rd", x.addr)>>}
        \/ plan \in {<<Burst("wr", v), Burst("rd", x.addr)>> : v \in Addrs}
    BY <1>4 DEF Plans
  <2>3. \A s, t \in Bursts : <<>> \in Seq(Bursts) /\ <<s>> \in Seq(Bursts) /\ <<s, t>> \in Seq(Bursts)
    OBVIOUS
  <2> HIDE DEF Burst, Bursts
  <2>4. plan \in {<<>>, <<Burst("rd", x.addr)>>} => plan \in Seq(Bursts)
    BY <2>1, <2>3
  <2>5. ASSUME NEW v \in Addrs, plan = <<Burst("wr", v), Burst("rd", x.addr)>> PROVE plan \in Seq(Bursts)
    BY <2>1, <2>3, <2>5
  <2> QED BY <2>2, <2>4, <2>5
<1> QED BY <1>3, <1>4

(* The controller without an access.                                       *)
LEMMA IdleCoreIs ==
  /\ CoreType(IdleCore) /\ IdleCore.req.op = "none" /\ IdleCore.plan = <<>> /\ IdleCore.err = FALSE
  /\ IdleCore.left = 0
<1>1. NoAddr \in Addrs
  BY AddrsAssumption DEF NoAddr
<1>2. Nothing(FALSE) \in Accesses /\ Nothing(FALSE).op = "none"
  BY <1>1 DEF Nothing, Accesses
<1>3. <<>> \in Seq(Bursts) /\ 0 \in 0..(Beats + 1)
  BY BeatsAssumption
<1> QED BY <1>2, <1>3 DEF IdleCore, CoreType

(* The controller with a new plan.                                         *)
LEMMA WithPlanIs ==
  ASSUME NEW c, CoreType(c), NEW plan \in Seq(Bursts)
  PROVE  /\ CoreType(WithPlan(c, plan)) /\ WithPlan(c, plan).req = c.req
         /\ WithPlan(c, plan).plan = plan /\ WithPlan(c, plan).left = BeatsOf(plan)
         /\ WithPlan(c, plan).err = c.err
<1>1. BeatsOf(plan) \in 0..(Beats + 1)
  BY BeatsOfIs
<1> QED BY <1>1 DEF WithPlan, CoreType

(* The controller with all of a burst ahead.                               *)
CoreReady ==
    /\ CoreType(core) /\ core.left = BeatsOf(core.plan) /\ BridgeEmpty

(* A controller that has begun none of its bursts is on its way.           *)
LEMMA ReadyIsWay == CoreReady => OnItsWay
<1> SUFFICES ASSUME CoreReady PROVE OnItsWay
  OBVIOUS
<1>1. core.plan \in Seq(Bursts) /\ core.left = BeatsOf(core.plan) /\ Beats \in Nat /\ Beats >= 2 /\ Beats \in 1..Beats
  BY BeatsAssumption DEF CoreReady, CoreType
<1>2. core.plan = <<>> => core.left = 0 /\ BridgeEmpty
  BY <1>1, BeatsOfIs DEF CoreReady
<1>3. ASSUME core.plan # <<>>, Head(core.plan).op = "wr"
      PROVE  core.left = Beats /\ Writing(Head(core.plan).addr, Beats, Beats - core.left)
  <2>1. core.left = Beats /\ Beats - core.left = 0
    BY <1>1, <1>3, BeatsOfIs
  <2>2. Head(core.plan).addr \in Addrs
    BY <1>1, <1>3, HeadBurst
  <2> QED BY <1>1, <2>1, <2>2, EmptyIsWriting DEF CoreReady
<1>4. ASSUME core.plan # <<>>, Head(core.plan).op = "rd"
      PROVE  core.left = Beats + 1 /\ BridgeEmpty
  BY <1>1, <1>4, BeatsOfIs DEF CoreReady
<1> QED BY <1>1, <1>2, <1>3, <1>4 DEF OnItsWay, CoreReady

(* A new access on an empty path.                                          *)
LEMMA AskedUncached ==
  ASSUME lsuFifo' = <<e1>>, lsuPend' = TRUE, muxCached' = e1.cached, ~e1.cached, BridgeEmpty',
         core' = IdleCore,
         unc' = [reqs |-> <<Burst(e1.op, e1.addr)>>, resps |-> 1, pend |-> FALSE]
  PROVE  WayInv'
<1>1. Access' = e1
  BY One DEF Access
<1> QED BY <1>1 DEF WayInv, UncWay

(* The same for an access that the cache takes.                            *)
LEMMA AskedCached ==
  ASSUME lsuFifo' = <<e1>>, lsuPend' = TRUE, muxCached' = e1.cached, e1.cached, BridgeEmpty',
         e1 \in Accesses, UncIdle',
         NEW plan \in Plans(e1), core' = WithPlan([IdleCore EXCEPT !.req = e1], plan)
  PROVE  WayInv'
<1>1. Access' = e1
  BY One DEF Access
<1> DEFINE c == [IdleCore EXCEPT !.req = e1]
<1>2. CoreType(c) /\ c.req = e1
  BY IdleCoreIs DEF CoreType
<1>3. plan \in Seq(Bursts)
  BY PlansAre
<1> HIDE DEF c
<1>4. CoreType(core') /\ core'.req = e1 /\ core'.plan = plan /\ core'.left = BeatsOf(plan)
  BY <1>2, <1>3, WithPlanIs DEF c
<1>5. CoreReady'
  BY <1>1, <1>4 DEF CoreReady
<1>6. OnItsWay'
  BY <1>5, ReadyIsWay, PTL
<1> QED BY <1>1, <1>4, <1>6 DEF WayInv, CoreWay

-----------------------------------------------------------------------------
(* Every clock                                                             *)

(* No access is awaited.                                                   *)
LEMMA FreeStep ==
  ASSUME AddressFirst, LsuInv, WayInv, ~lsuPend, NEW in \in Sends, NEW rdy \in Readies,
         NEW b \in WriteAnswers, NEW r \in ReadAnswers, NEW go, Clock(in, rdy, b, r, go)
  PROVE  LsuInv' /\ WayInv' /\ BridgeEmpty' /\ b = "none" /\ r = "none" /\ ~Ack(b, r)
<1>1. UncIdle /\ core = IdleCore /\ BridgeEmpty /\ wInhibit = FALSE /\ muxPend = 0
  BY DEF WayInv, LsuInv
<1>2. IdleCore.req.op = "none" /\ IdleCore.plan = <<>>
  BY IdleCoreIs
<1>3. b = "none" /\ r = "none"
  BY <1>1 DEF BridgeEmpty, WriteAnswers, ReadAnswers
<1>4. ~CoreGets(b, r) /\ ~UncGets(b, r) /\ ~Ack(b, r)
  BY <1>1, <1>2, <1>3 DEF CoreGets, UncGets, BusAck, Ack, CoreAck
<1>5. Push(b, r, go) = <<>>
  <2>1. CoreAnswered(CoreGets(b, r), BusErr(b, r)) = core
    BY <1>4 DEF CoreAnswered
  <2>2. CoreOffers(go, CoreGets(b, r), BusErr(b, r)) = <<>>
    BY <2>1, <1>1, <1>2 DEF CoreOffers
  <2>3. UncOffers(UncGets(b, r)) = <<>>
    BY <1>1 DEF UncOffers, UncIdle
  <2> QED BY <2>2, <2>3 DEF Push
<1>6. AxiTick(<<>>, rdy, b, r)
  BY <1>5, ClockParts
<1>7. BridgeEmpty' /\ wInhibit' = FALSE
  BY <1>1, <1>6, ReadStarts
<1>8. /\ LsuInv'
      /\ (Issue(b, r) => /\ lsuFifo' = <<e1>> /\ lsuPend' /\ Asks(e1) /\ e1 \in Accesses
                         /\ muxCached' = e1.cached)
      /\ (~Issue(b, r) => ~lsuPend')
  BY <1>4, <1>7, LsuStep
<1>9. lsuPend' \in BOOLEAN /\ e1.cached \in BOOLEAN
  BY <1>8 DEF LsuInv, Accesses
<1>10. ~Sent(<<>>)
  BY DEF Sent
<1>11. /\ UncTick(Issue(b, r) /\ ~e1.cached, FALSE, FALSE)
       /\ CoreTick(Issue(b, r) /\ e1.cached, FALSE, FALSE, BusErr(b, r))
  <2>1. UncGets(b, r) = FALSE /\ CoreGets(b, r) = FALSE
    BY <1>4 DEF UncGets, CoreGets
  <2>2. (~Select /\ Sent(Push(b, r, go))) = FALSE /\ (Select /\ Sent(Push(b, r, go))) = FALSE
    BY <1>5, <1>10
  <2>3. /\ UncTick(Issue(b, r) /\ ~e1.cached, ~Select /\ Sent(Push(b, r, go)), UncGets(b, r))
        /\ CoreTick(Issue(b, r) /\ e1.cached, Select /\ Sent(Push(b, r, go)), CoreGets(b, r), BusErr(b, r))
    BY ClockParts
  <2> QED BY <2>1, <2>2, <2>3
<1>12. CASE Issue(b, r) /\ e1.cached
  <2>1. UncIdle'
    BY <1>1, <1>11, <1>12 DEF UncTick, UncIdle
  <2>2. PICK plan \in Plans(e1) : core' = WithPlan([IdleCore EXCEPT !.req = e1], plan)
    BY <1>11, <1>12 DEF CoreTick
  <2> QED BY <2>1, <2>2, <1>3, <1>4, <1>7, <1>8, <1>9, <1>12, AskedCached
<1>13. CASE Issue(b, r) /\ ~e1.cached
  <2>1. unc' = [reqs |-> <<Burst(e1.op, e1.addr)>>, resps |-> 1, pend |-> FALSE]
    <3>1. unc.reqs = <<>> /\ unc.resps = 0 /\ unc.pend = FALSE
      BY <1>1 DEF UncIdle
    <3>2. (Issue(b, r) /\ ~e1.cached) = TRUE
      BY <1>13
    <3>3. UncTick(TRUE, FALSE, FALSE)
      BY <1>11, <3>2
    <3>4. (FALSE \/ (unc.pend /\ ~FALSE)) = FALSE
      BY <3>1
    <3>5. unc' = [reqs |-> Append(unc.reqs, Burst(e1.op, e1.addr)), resps |-> unc.resps + 1, pend |-> FALSE]
      BY <3>3, <3>4 DEF UncTick
    <3> QED BY <3>1, <3>5, One
  <2>2. core' = IdleCore
    BY <1>1, <1>2, <1>11, <1>13 DEF CoreTick, CoreAck, CoreAnswered
  <2> QED BY <2>1, <2>2, <1>3, <1>4, <1>7, <1>8, <1>9, <1>13, AskedUncached
<1>14. CASE ~Issue(b, r)
  <2>1. UncIdle'
    BY <1>1, <1>11, <1>14 DEF UncTick, UncIdle
  <2>2. core' = IdleCore
    BY <1>1, <1>2, <1>11, <1>14 DEF CoreTick, CoreAck, CoreAnswered
  <2> QED BY <2>1, <2>2, <1>3, <1>4, <1>7, <1>8, <1>14 DEF WayInv
<1> QED BY <1>3, <1>4, <1>7, <1>12, <1>13, <1>14

(* The awaited access, and what the mux knows of it.                       *)
LEMMA AwaitedIs ==
  ASSUME LsuInv, lsuPend
  PROVE  /\ Access \in Accesses /\ Asks(Access) /\ Access.cached = muxCached /\ lsuFifo = <<Access>>
         /\ Access.addr \in Addrs /\ muxPend = 1 /\ Select = muxCached
<1>1. PICK x \in Accesses : Asks(x) /\ x.cached = muxCached /\ lsuFifo = <<x>>
  BY DEF LsuInv
<1>2. Access = x
  BY <1>1, One DEF Access
<1>3. muxPend = 1 /\ Select = muxCached
  BY DEF LsuInv, Select
<1>4. x.addr \in Addrs
  BY <1>1 DEF Accesses
<1> QED BY <1>1, <1>2, <1>3, <1>4

(* The controller without an access stays as it is.                        *)
LEMMA CoreStays ==
  ASSUME core = IdleCore, NEW err, CoreTick(FALSE, FALSE, FALSE, err)
  PROVE  core' = IdleCore
<1>1. ~CoreAck
  BY IdleCoreIs DEF CoreAck
<1>2. CoreAnswered(FALSE, err) = core
  BY DEF CoreAnswered
<1> QED BY <1>1, <1>2 DEF CoreTick

(* An uncached access is awaited.                                          *)
LEMMA UncStep ==
  ASSUME AddressFirst, LsuInv, WayInv, lsuPend, ~muxCached, NEW in \in Sends, NEW rdy \in Readies,
         NEW b \in WriteAnswers, NEW r \in ReadAnswers, NEW go, Clock(in, rdy, b, r, go)
  PROVE  /\ LsuInv' /\ WayInv'
         /\ unc.reqs # <<>> => b = "none" /\ r = "none"
         /\ Ack(b, r) <=> BusAck(b, r)
         /\ BusAck(b, r) => Served /\ BridgeEmpty'
<1>1. PICK x \in Accesses : /\ x = Access /\ Asks(x) /\ ~x.cached /\ lsuFifo = <<x>>
                            /\ x.addr \in Addrs /\ muxPend = 1 /\ Select = FALSE
  BY AwaitedIs
<1>2. x.op \in LoadsStores
  BY <1>1 DEF Asks
<1>3. core = IdleCore /\ UncWay /\ wInhibit = FALSE
  BY DEF WayInv, LsuInv
<1>4. IdleCore.req.op = "none" /\ IdleCore.plan = <<>>
  BY IdleCoreIs
<1>5. lsuPend = TRUE /\ muxCached = FALSE
  BY DEF LsuInv
<1>6. 1 \in 1..Beats /\ 0 \in 0..1 /\ 1 \in 0..1 /\ 1 \in 1..1 /\ 0 + 1 = 1
  BY BeatsAssumption
<1>7. Ack(b, r) <=> UncGets(b, r)
  BY <1>5 DEF Ack
<1>8. Push(b, r, go) = UncOffers(UncGets(b, r))
  BY <1>1 DEF Push
<1>9. selectQ' = FALSE
  BY <1>1, ClockParts
<1>10. AxiTick(Push(b, r, go), rdy, b, r)
  BY ClockParts
<1>11. /\ UncTick(Issue(b, r) /\ ~e1.cached, ~Select /\ Sent(Push(b, r, go)), UncGets(b, r))
       /\ CoreTick(Issue(b, r) /\ e1.cached, Select /\ Sent(Push(b, r, go)), CoreGets(b, r), BusErr(b, r))
  BY ClockParts
<1>12. Issue(b, r) => ~e1.cached
  BY <1>1, <1>5 DEF Issue, MemAccept, Hold
<1>a. ASSUME unc = [reqs |-> <<Burst(x.op, x.addr)>>, resps |-> 1, pend |-> FALSE], BridgeEmpty
      PROVE  LsuInv' /\ WayInv' /\ b = "none" /\ r = "none"
  <2>1. b = "none" /\ r = "none"
    BY <1>a DEF BridgeEmpty, WriteAnswers, ReadAnswers
  <2>2. UncGets(b, r) = FALSE /\ CoreGets(b, r) = FALSE
    BY <2>1 DEF UncGets, CoreGets, BusAck
  <2>3. ~Ack(b, r) /\ ~Issue(b, r)
    BY <2>2, <1>5, <1>7 DEF Issue, RequestsMemory, Delayed, Ok, LsuInv
  <2>4. Push(b, r, go) = <<[op |-> x.op, addr |-> x.addr, len |-> 0, beat |-> 0]>>
    <3>1. unc.reqs = <<Burst(x.op, x.addr)>> /\ unc.pend = FALSE
      BY <1>a
    <3>2. Head(unc.reqs) = Burst(x.op, x.addr) /\ unc.reqs # <<>>
      BY <3>1, One
    <3> QED BY <3>1, <3>2, <1>8, <2>2 DEF UncOffers, Burst
  <2>5. AxiAccepts /\ Sent(Push(b, r, go))
    <3>1. Len(reqFifo) = 0
      BY <1>a, One DEF BridgeEmpty
    <3> QED BY <3>1, <2>4, One DEF AxiAccepts, Sent
  <2>6. unc' = [reqs |-> <<>>, resps |-> 1, pend |-> TRUE]
    <3>1. (Issue(b, r) /\ ~e1.cached) = FALSE /\ (~Select /\ Sent(Push(b, r, go))) = TRUE
      BY <2>3, <2>5, <1>1
    <3>2. UncTick(FALSE, TRUE, FALSE)
      BY <3>1, <2>2, <1>11
    <3>3. unc' = [reqs |-> Tail(unc.reqs), resps |-> unc.resps, pend |-> TRUE]
      BY <3>2 DEF UncTick
    <3> QED BY <3>3, <1>a, One
  <2>7. core' = IdleCore
    <3>1. (Issue(b, r) /\ e1.cached) = FALSE /\ (Select /\ Sent(Push(b, r, go))) = FALSE
      BY <2>3, <1>1
    <3>2. CoreTick(FALSE, FALSE, FALSE, BusErr(b, r))
      BY <3>1, <2>2, <1>11
    <3> QED BY <3>2, <1>3, CoreStays
  <2>8. wInhibit' = FALSE /\ (x.op = "wr" => Writing(x.addr, 1, 1)') /\ (x.op # "wr" => Reading(x.addr, 1, 1)')
    <3>1. CASE x.op = "wr"
      <4>1. Writing(x.addr, 1, 0)
        BY <1>1, <1>6, <1>a, EmptyIsWriting
      <4>2. Push(b, r, go) = <<WriteBeat(x.addr, 1, 0)>>
        <5>1. 1 - 1 = 0
          OBVIOUS
        <5> QED BY <5>1, <2>4, <3>1 DEF WriteBeat
      <4>3. Push(b, r, go) # <<>>
        BY <4>2, One
      <4>4. AxiTick(Push(b, r, go), rdy, "none", "none")
        BY <2>1, <1>10
      <4>5. Writing(x.addr, 1, 1)' /\ wInhibit' = FALSE
        <5> DEFINE push == Push(b, r, go)
        <5>1. push # <<>> /\ push = <<WriteBeat(x.addr, 1, 0)>> /\ AxiTick(push, rdy, "none", "none")
          BY <4>2, <4>3, <4>4
        <5> HIDE DEF push
        <5>2. 0 < 1 /\ 1 = 0 + (IF push # <<>> /\ AxiAccepts THEN 1 ELSE 0)
          BY <5>1, <2>5
        <5> QED BY <5>1, <5>2, <4>1, <1>1, <1>3, <1>6, WritingStep
      <4> QED BY <3>1, <4>5
    <3>2. CASE x.op = "rd"
      <4>1. Push(b, r, go) = <<ReadRequest(x.addr, 1)>>
        <5>1. 1 - 1 = 0
          OBVIOUS
        <5> QED BY <5>1, <2>4, <3>2 DEF ReadRequest
      <4>2. Reading(x.addr, 1, 1)' /\ wInhibit' = FALSE
        BY <4>1, <1>3, <1>10, <1>a, ReadStarts
      <4> QED BY <3>2, <4>2
    <3> QED BY <3>1, <3>2, <1>2 DEF LoadsStores
  <2>9. LsuInv' /\ lsuFifo' = lsuFifo /\ lsuPend' /\ muxCached' = muxCached
    BY <2>3, <2>8, LsuStep
  <2>10. UncWay'
    <3>1. Access' = x
      BY <2>9, <1>1 DEF Access
    <3> QED BY <3>1, <2>6, <2>8, <1>9 DEF UncWay
  <2> QED BY <2>1, <2>7, <2>9, <2>10, <1>5 DEF WayInv
<1>b. ASSUME unc = [reqs |-> <<>>, resps |-> 1, pend |-> TRUE], selectQ = FALSE,
             x.op = "wr" => Writing(x.addr, 1, 1), x.op # "wr" => Reading(x.addr, 1, 1)
      PROVE  /\ LsuInv' /\ WayInv'
             /\ unc.reqs = <<>> /\ (Ack(b, r) <=> BusAck(b, r))
             /\ BusAck(b, r) => Served /\ BridgeEmpty'
  <2>1. UncGets(b, r) <=> BusAck(b, r)
    BY <1>b DEF UncGets
  <2>2. CoreGets(b, r) = FALSE
    BY <1>b DEF CoreGets
  <2>3. Push(b, r, go) = <<>>
    BY <1>8, <1>b DEF UncOffers
  <2>4. AxiTick(<<>>, rdy, b, r) /\ (~Select /\ Sent(Push(b, r, go))) = FALSE /\ (Select /\ Sent(Push(b, r, go))) = FALSE
    BY <2>3, <1>10 DEF Sent
  <2>5. (Issue(b, r) /\ e1.cached) = FALSE
    BY <1>12
  <2>6. core' = IdleCore
    <3>1. CoreTick(FALSE, FALSE, FALSE, BusErr(b, r))
      BY <2>2, <2>4, <2>5, <1>11
    <3> QED BY <3>1, <1>3, CoreStays
  <2>7. UncTick(Issue(b, r), FALSE, UncGets(b, r))
    <3>1. (Issue(b, r) /\ ~e1.cached) <=> Issue(b, r)
      BY <1>12
    <3> QED BY <3>1, <2>4, <1>11 DEF UncTick
  <2>8. /\ wInhibit' = FALSE
        /\ BusAck(b, r) => Served /\ BridgeEmpty'
        /\ ~BusAck(b, r) => /\ x.op = "wr" => Writing(x.addr, 1, 1)'
                            /\ x.op # "wr" => Reading(x.addr, 1, 1)'
    <3>1. CASE x.op = "wr"
      <4>1. /\ r = "none"
            /\ b # "none" => /\ bus.aw # <<>> /\ bus.aw[1].addr = x.addr
                             /\ wInhibit' = FALSE /\ BridgeEmpty'
            /\ b = "none" => Writing(x.addr, 1, 1)' /\ wInhibit' = FALSE
        BY <3>1, <2>4, <1>1, <1>3, <1>b, WordWritten
      <4>2. ASSUME b # "none" PROVE Served
        <5>1. Written
          BY <4>2 DEF WriteAnswers
        <5> QED BY <5>1, <4>1, <4>2, <3>1, <1>1 DEF Served
      <4> QED BY <3>1, <4>1, <4>2 DEF BusAck
    <3>2. CASE x.op # "wr"
      <4>1. /\ b = "none" /\ wInhibit' = FALSE
            /\ r # "none" => bus.ar # <<>> /\ bus.ar[1].addr = x.addr /\ BridgeEmpty'
            /\ r = "none" => Reading(x.addr, 1, 1)'
        BY <3>2, <2>4, <1>1, <1>3, <1>b, WordRead
      <4>2. ASSUME r # "none" PROVE Served
        BY <4>1, <4>2, <3>2, <1>1 DEF Served
      <4> QED BY <3>2, <4>1, <4>2 DEF BusAck
    <3> QED BY <3>1, <3>2
  <2>9. /\ LsuInv'
        /\ (Issue(b, r) => /\ lsuFifo' = <<e1>> /\ lsuPend' /\ Asks(e1) /\ e1 \in Accesses
                           /\ Ok(b, r) /\ muxCached' = e1.cached)
        /\ (~Issue(b, r) /\ ~BusAck(b, r) => lsuFifo' = lsuFifo /\ lsuPend')
        /\ (~Issue(b, r) /\ BusAck(b, r) => ~lsuPend')
        /\ (~Issue(b, r) => muxCached' = muxCached)
    BY <1>7, <2>1, <2>8, LsuStep
  <2>10. lsuPend' \in BOOLEAN
    BY <2>9 DEF LsuInv
  <2>11. Issue(b, r) => BusAck(b, r)
    BY <2>1, <2>9, <1>7 DEF Ok
  <2>12. CASE ~BusAck(b, r)
    <3>1. unc' = [reqs |-> <<>>, resps |-> 1, pend |-> TRUE]
      <4>1. Issue(b, r) = FALSE /\ UncGets(b, r) = FALSE
        BY <2>1, <2>11, <2>12 DEF Issue, UncGets
      <4>2. UncTick(FALSE, FALSE, FALSE)
        BY <4>1, <2>7
      <4>3. (FALSE \/ (unc.pend /\ ~FALSE)) = TRUE
        BY <1>b
      <4> QED BY <4>2, <4>3, <1>b DEF UncTick
    <3>2. Access' = x /\ lsuPend' /\ ~muxCached'
      BY <2>9, <2>11, <2>12, <1>1, <1>5 DEF Access
    <3>3. UncWay'
      BY <3>1, <3>2, <2>8, <2>12, <1>9 DEF UncWay
    <3> QED BY <3>2, <3>3, <2>6, <2>8, <2>9, <1>b, <2>12, <1>7, <2>1 DEF WayInv
  <2>13. CASE BusAck(b, r) /\ ~Issue(b, r)
    <3>1. UncIdle'
      <4>1. Issue(b, r) = FALSE /\ UncGets(b, r) = TRUE
        BY <2>1, <2>13 DEF Issue, UncGets
      <4>2. UncTick(FALSE, FALSE, TRUE)
        BY <4>1, <2>7
      <4>3. (FALSE \/ (unc.pend /\ ~TRUE)) = FALSE
        OBVIOUS
      <4>4. unc' = [reqs |-> unc.reqs, resps |-> IF unc.resps # 0 THEN unc.resps - 1 ELSE unc.resps, pend |-> FALSE]
        BY <4>2, <4>3 DEF UncTick
      <4> QED BY <4>4, <1>b DEF UncIdle
    <3> QED BY <3>1, <2>6, <2>8, <2>9, <2>13, <1>b, <1>7, <2>1 DEF WayInv
  <2>14. CASE Issue(b, r)
    <3>1. unc' = [reqs |-> <<Burst(e1.op, e1.addr)>>, resps |-> 1, pend |-> FALSE]
      <4>1. Issue(b, r) = TRUE /\ UncGets(b, r) = TRUE
        BY <2>1, <2>11, <2>14 DEF Issue, UncGets
      <4>2. UncTick(TRUE, FALSE, TRUE)
        BY <4>1, <2>7
      <4>3. (FALSE \/ (unc.pend /\ ~TRUE)) = FALSE
        OBVIOUS
      <4>4. unc' = [reqs |-> Append(unc.reqs, Burst(e1.op, e1.addr)),
                    resps |-> (IF unc.resps # 0 THEN unc.resps - 1 ELSE unc.resps) + 1, pend |-> FALSE]
        BY <4>2, <4>3 DEF UncTick
      <4> QED BY <4>4, <1>b, One
    <3>2. ~e1.cached /\ lsuPend' = TRUE
      BY <2>9, <2>10, <2>14, <1>12
    <3>3. WayInv'
      BY <3>1, <3>2, <2>6, <2>8, <2>9, <2>11, <2>14, AskedUncached
    <3> QED BY <3>3, <2>8, <2>9, <1>b, <1>7, <2>1
  <2> QED BY <2>12, <2>13, <2>14
<1>c. /\ UncWay
      /\ x = Access
  BY <1>1, <1>3
<1>d. CASE unc = [reqs |-> <<Burst(Access.op, Access.addr)>>, resps |-> 1, pend |-> FALSE] /\ BridgeEmpty
  <2>1. unc = [reqs |-> <<Burst(x.op, x.addr)>>, resps |-> 1, pend |-> FALSE] /\ BridgeEmpty
    BY <1>d, <1>1
  <2>2. LsuInv' /\ WayInv' /\ b = "none" /\ r = "none"
    BY <1>a, <2>1
  <2>3. ~BusAck(b, r) /\ ~Ack(b, r)
    BY <2>2, <1>7 DEF BusAck, UncGets
  <2> QED BY <2>2, <2>3
<1>e. CASE /\ unc = [reqs |-> <<>>, resps |-> 1, pend |-> TRUE] /\ selectQ = FALSE
           /\ IF Access.op = "wr" THEN Writing(Access.addr, 1, 1) ELSE Reading(Access.addr, 1, 1)
  <2>1. (x.op = "wr" => Writing(x.addr, 1, 1)) /\ (x.op # "wr" => Reading(x.addr, 1, 1))
    BY <1>e, <1>1
  <2> QED BY <2>1, <1>b, <1>e
<1> QED BY <1>c, <1>d, <1>e DEF UncWay

(* The controller with its plan: what an answer and a beat put in make of  *)
(* it, and what it puts in.                                                *)
LEMMA CoreAnsweredIs ==
  ASSUME CoreType(core), core.plan # <<>>, core.left >= 1 \/ Head(core.plan).op = "wr", NEW err
  PROVE  /\ CoreAnswered(FALSE, err) = core
         /\ \E c : /\ c = CoreAnswered(TRUE, err) /\ CoreType(c) /\ c.req = core.req
                   /\ Head(core.plan).op = "wr" \/ core.left = 1 =>
                        c.plan = Tail(core.plan) /\ c.left = BeatsOf(c.plan)
                   /\ ~(Head(core.plan).op = "wr" \/ core.left = 1) =>
                        c.plan = core.plan /\ c.left = core.left - 1
<1> DEFINE d == [core EXCEPT !.err = @ \/ err]
<1>1. CoreType(d) /\ d.req = core.req /\ d.plan = core.plan /\ d.left = core.left
  BY DEF CoreType
<1>2. Tail(core.plan) \in Seq(Bursts)
  BY HeadBurst DEF CoreType
<1>3. CoreAnswered(FALSE, err) = core
  BY DEF CoreAnswered
<1>4. CoreAnswered(TRUE, err) = IF Head(core.plan).op = "wr" \/ core.left = 1
                                THEN WithPlan(d, Tail(core.plan)) ELSE [d EXCEPT !.left = @ - 1]
  BY DEF CoreAnswered
<1> HIDE DEF d
<1>5. CASE Head(core.plan).op = "wr" \/ core.left = 1
  <2>1. CoreAnswered(TRUE, err) = WithPlan(d, Tail(core.plan))
    BY <1>4, <1>5
  <2>2. /\ CoreType(WithPlan(d, Tail(core.plan))) /\ WithPlan(d, Tail(core.plan)).req = core.req
        /\ WithPlan(d, Tail(core.plan)).plan = Tail(core.plan)
        /\ WithPlan(d, Tail(core.plan)).left = BeatsOf(Tail(core.plan))
    BY <1>1, <1>2, WithPlanIs
  <2> QED BY <2>1, <2>2, <1>3, <1>5
<1>6. CASE ~(Head(core.plan).op = "wr" \/ core.left = 1)
  <2>1. CoreAnswered(TRUE, err) = [d EXCEPT !.left = @ - 1]
    BY <1>4, <1>6
  <2>2. core.left - 1 \in 0..(Beats + 1)
    BY <1>6, BeatsAssumption DEF CoreType
  <2>3. CoreType([d EXCEPT !.left = @ - 1]) /\ [d EXCEPT !.left = @ - 1].req = core.req
        /\ [d EXCEPT !.left = @ - 1].plan = core.plan /\ [d EXCEPT !.left = @ - 1].left = core.left - 1
    BY <1>1, <2>2 DEF CoreType
  <2> QED BY <2>1, <2>3, <1>3, <1>6
<1> QED BY <1>5, <1>6

(* The controller with one beat less to come.                              *)
Less(c) == [c EXCEPT !.left = @ - 1]

(* It is a controller still.                                               *)
LEMMA OneLess ==
  ASSUME NEW c, CoreType(c), c.left >= 1
  PROVE  /\ CoreType(Less(c)) /\ Less(c).req = c.req /\ Less(c).plan = c.plan
         /\ Less(c).left = c.left - 1
<1>1. c.left - 1 \in 0..(Beats + 1)
  BY BeatsAssumption DEF CoreType
<1> QED BY <1>1 DEF CoreType, Less

(* At the end of a burst: nothing, or the read that follows.               *)
RefillOffer(c, push) ==
    \/ push = <<>>
    \/ \E a \in Addrs : /\ c.plan # <<>> /\ Head(c.plan).op = "rd" /\ Head(c.plan).addr = a
                        /\ push = <<ReadRequest(a, Beats)>>

(* It is all that the controller offers then.                              *)
LEMMA OffersNext ==
  ASSUME NEW go, NEW err, NEW c, c = CoreAnswered(TRUE, err), c.plan \in Seq(Bursts),
         c.left = BeatsOf(c.plan)
  PROVE  RefillOffer(c, CoreOffers(go, TRUE, err))
<1> SUFFICES ASSUME CoreOffers(go, TRUE, err) # <<>>
             PROVE  \E a \in Addrs : /\ c.plan # <<>> /\ Head(c.plan).op = "rd" /\ Head(c.plan).addr = a
                                     /\ CoreOffers(go, TRUE, err) = <<ReadRequest(a, Beats)>>
  BY DEF RefillOffer
<1>1. c.plan # <<>> /\ Head(c.plan).op # "wr"
  BY DEF CoreOffers
<1>2. Head(c.plan).op = "rd" /\ Head(c.plan).addr \in Addrs
  BY <1>1, HeadBurst DEF LoadsStores
<1>3. CoreOffers(go, TRUE, err) = <<[op |-> "rd", addr |-> Head(c.plan).addr, len |-> Beats - 1, beat |-> 0]>>
  BY <1>1, <1>2 DEF CoreOffers
<1> QED BY <1>1, <1>2, <1>3 DEF ReadRequest

(* Within a write: nothing, or the next beat.                              *)
LEMMA OffersWrite ==
  ASSUME NEW go, NEW err, CoreType(core), core.plan # <<>>, Head(core.plan).op = "wr", core.left <= Beats,
         NEW a \in Addrs, Head(core.plan).addr = a
  PROVE  \/ CoreOffers(go, FALSE, err) = <<>>
         \/ core.left >= 1 /\ CoreOffers(go, FALSE, err) = <<WriteBeat(a, Beats, Beats - core.left)>>
<1>1. core.left \in Nat /\ Beats \in Nat /\ core.plan \in Seq(Bursts)
  BY BeatsAssumption DEF CoreType
<1>2. BeatsOf(core.plan) = Beats
  BY <1>1, BeatsOfIs
<1>3. CoreAnswered(FALSE, err) = core
  BY DEF CoreAnswered
<1> SUFFICES ASSUME CoreOffers(go, FALSE, err) # <<>>
             PROVE  core.left >= 1 /\ CoreOffers(go, FALSE, err) = <<WriteBeat(a, Beats, Beats - core.left)>>
  OBVIOUS
<1>4. core.left # 0
  BY <1>3 DEF CoreOffers
<1>5. CoreOffers(go, FALSE, err) = <<[op |-> "wr", addr |-> a,
                                     len |-> IF core.left = Beats THEN Beats - 1 ELSE 0,
                                     beat |-> Beats - core.left]>>
  BY <1>2, <1>3 DEF CoreOffers
<1>6. core.left = Beats <=> Beats - core.left = 0
  BY <1>1
<1>7. WriteBeat(a, Beats, Beats - core.left) =
        [op |-> "wr", addr |-> a, len |-> IF core.left = Beats THEN Beats - 1 ELSE 0, beat |-> Beats - core.left]
  BY <1>6 DEF WriteBeat
<1>8. CoreOffers(go, FALSE, err) = <<WriteBeat(a, Beats, Beats - core.left)>>
  BY <1>5, <1>7, Zenon
<1>9. core.left >= 1
  BY <1>1, <1>4
<1> QED BY <1>8, <1>9

(* Within a read: nothing, or the request of it.                           *)
LEMMA OffersRead ==
  ASSUME NEW go, NEW err, NEW c, NEW ack \in BOOLEAN, c = CoreAnswered(ack, err), CoreType(c),
         c.plan # <<>>, Head(c.plan).op = "rd", NEW a \in Addrs, Head(c.plan).addr = a
  PROVE  \/ CoreOffers(go, ack, err) = <<>>
         \/ c.left = Beats + 1 /\ CoreOffers(go, ack, err) = <<ReadRequest(a, Beats)>>
<1>1. BeatsOf(c.plan) = Beats + 1
  BY BeatsOfIs DEF CoreType
<1> SUFFICES ASSUME CoreOffers(go, ack, err) # <<>>
             PROVE  c.left = Beats + 1 /\ CoreOffers(go, ack, err) = <<ReadRequest(a, Beats)>>
  OBVIOUS
<1>2. c.left = Beats + 1
  BY <1>1 DEF CoreOffers
<1>3. CoreOffers(go, ack, err) = <<[op |-> "rd", addr |-> a, len |-> Beats - 1, beat |-> 0]>>
  BY <1>1, <1>2 DEF CoreOffers
<1> QED BY <1>2, <1>3 DEF ReadRequest

(* The number of beats.                                                    *)
LEMMA BeatsAre ==
  Beats \in Nat /\ Beats >= 1 /\ Beats \in 1..Beats /\ Beats + 1 - 1 = Beats
  BY BeatsAssumption

(* A beat of the controller is taken.                                      *)
LEMMA CoreSends ==
  ASSUME core.plan # <<>>, NEW ack, NEW err, CoreTick(FALSE, TRUE, ack, err)
  PROVE  core' = Less(CoreAnswered(ack, err))
  BY DEF CoreTick, CoreAck, Less

(* None is taken.                                                          *)
LEMMA CoreWaits ==
  ASSUME core.plan # <<>>, NEW ack, NEW err, CoreTick(FALSE, FALSE, ack, err)
  PROVE  core' = CoreAnswered(ack, err)
  BY DEF CoreTick, CoreAck

(* Between two bursts.                                                     *)
LEMMA NextBurst ==
  ASSUME NEW c, CoreType(c), c.left = BeatsOf(c.plan), NEW push,
         RefillOffer(c, push),
         Sent(push) => core' = Less(c), ~Sent(push) => core' = c,
         AxiAccepts, push = <<>> => BridgeEmpty',
         \A a, n : push = <<ReadRequest(a, n)>> => Reading(a, n, n)',
         selectQ' = TRUE
  PROVE  OnItsWay' /\ core'.req = c.req
<1>1. CASE push = <<>>
  <2>1. core' = c /\ BridgeEmpty'
    BY <1>1 DEF Sent
  <2>2. CoreReady'
    BY <2>1 DEF CoreReady
  <2>3. OnItsWay'
    BY <2>2, ReadyIsWay, PTL
  <2> QED BY <2>1, <2>3
<1>2. CASE push # <<>>
  <2>1. PICK a \in Addrs : /\ c.plan # <<>> /\ Head(c.plan).op = "rd" /\ Head(c.plan).addr = a
                           /\ push = <<ReadRequest(a, Beats)>>
    BY <1>2 DEF RefillOffer
  <2>2. c.plan \in Seq(Bursts) /\ c.left = Beats + 1 /\ Beats \in Nat /\ Beats >= 1 /\ Beats + 1 - 1 = Beats
    <3>1. c.plan \in Seq(Bursts)
      BY DEF CoreType
    <3>2. BeatsOf(c.plan) = Beats + 1
      BY <3>1, <2>1, BeatsOfIs
    <3> QED BY <3>1, <3>2, BeatsAre
  <2>3. core' = Less(c)
    BY <1>2 DEF Sent
  <2>4. c.left >= 1
    BY <2>2
  <2>5. CoreType(core') /\ core'.req = c.req /\ core'.plan = c.plan /\ core'.left = Beats
    <3>1. CoreType(Less(c)) /\ Less(c).req = c.req /\ Less(c).plan = c.plan /\ Less(c).left = c.left - 1
      BY <2>4, OneLess
    <3>2. c.left - 1 = Beats
      BY <2>2
    <3> QED BY <3>1, <3>2, <2>3
  <2>6. Reading(a, Beats, Beats)'
    BY <2>1
  <2>7. Beats # Beats + 1 /\ Beats <= Beats
    BY <2>2
  <2> QED BY <2>1, <2>2, <2>5, <2>6, <2>7 DEF OnItsWay
<1> QED BY <1>1, <1>2

(* Within a write burst, and at its end.                                   *)
LEMMA BusyWrite ==
  ASSUME AddressFirst, CoreType(core), core.plan # <<>>, Head(core.plan).op = "wr",
         NEW a \in Addrs, Head(core.plan).addr = a, NEW left \in 0..Beats, core.left = left,
         left < Beats => selectQ, Writing(a, Beats, Beats - left), wInhibit = FALSE,
         NEW rdy \in Readies, NEW b \in WriteAnswers, NEW r \in ReadAnswers, NEW go, NEW err, NEW push,
         push = CoreOffers(go, CoreGets(b, r), err), AxiTick(push, rdy, b, r),
         CoreTick(FALSE, Sent(push), CoreGets(b, r), err), selectQ' = TRUE
  PROVE  wInhibit' = FALSE /\ (BusAck(b, r) => selectQ) /\ OnItsWay' /\ core'.req = core.req
<1>0. Beats \in Nat /\ left \in Nat /\ left <= Beats /\ Beats >= 1 /\ Beats \in 1..Beats
  BY BeatsAre
<1>1. PICK in \in 0..Beats : in = Beats - left
  BY <1>0
<1>2. Writing(a, Beats, in) /\ DataOpen
  BY <1>1 DEF DataOpen
<1>3. r = "none"
  BY <1>0, <1>2, WriteAnswered
<1>4. ASSUME b # "none"
      PROVE  /\ in = Beats /\ AxiAccepts /\ DataOpen'
             /\ push = <<>> => BridgeEmpty'
             /\ \A a2, n2 : push = <<ReadRequest(a2, n2)>> => Reading(a2, n2, n2)'
  BY <1>0, <1>2, <1>4, WriteAnswered
<1>5. CASE b = "none"
  <2>1. CoreGets(b, r) = FALSE /\ ~BusAck(b, r)
    BY <1>3, <1>5 DEF CoreGets, BusAck
  <2>2. CoreAnswered(FALSE, err) = core
    BY DEF CoreAnswered
  <2>3. push = <<>> \/ (left >= 1 /\ push = <<WriteBeat(a, Beats, in)>>)
    BY <2>1, <1>0, <1>1, OffersWrite
  <2>4. AxiTick(push, rdy, "none", "none") /\ (push = <<>> \/ (in < Beats /\ push = <<WriteBeat(a, Beats, in)>>))
    BY <2>3, <1>0, <1>1, <1>3, <1>5
  <2>5. PICK next : next = in + (IF push # <<>> /\ AxiAccepts THEN 1 ELSE 0)
    OBVIOUS
  <2>6. Writing(a, Beats, next)' /\ wInhibit' = FALSE
    BY <2>4, <2>5, <1>0, <1>2, WritingStep
  <2>7. CoreTick(FALSE, Sent(push), FALSE, err)
    BY <2>1
  <2>8. CASE Sent(push)
    <3>1. core' = Less(core)
      <4>1. Sent(push) = TRUE
        BY <2>8 DEF Sent
      <4> QED BY <4>1, <2>2, <2>7, CoreSends
    <3>2. left >= 1 /\ next = Beats - (left - 1) /\ left - 1 <= Beats
      BY <2>3, <2>5, <2>8, <1>0, <1>1 DEF Sent
    <3>3. CoreType(core') /\ core'.req = core.req /\ core'.plan = core.plan /\ core'.left = left - 1
      BY <3>1, <3>2, OneLess
    <3>4. Writing(a, Beats, Beats - core.left)'
      BY <3>2, <3>3, <2>6
    <3> QED BY <3>2, <3>3, <3>4, <2>1, <2>6 DEF OnItsWay
  <2>9. CASE ~Sent(push)
    <3>1. core' = core
      <4>1. Sent(push) = FALSE
        BY <2>9 DEF Sent
      <4> QED BY <4>1, <2>2, <2>7, CoreWaits
    <3>2. next = Beats - left
      BY <2>5, <2>9, <1>0, <1>1 DEF Sent
    <3>3. CoreType(core') /\ core'.req = core.req /\ core'.plan = core.plan /\ core'.left = left
      BY <3>1
    <3>4. Writing(a, Beats, Beats - core.left)'
      BY <3>2, <3>3, <2>6
    <3> QED BY <3>3, <3>4, <2>1, <2>6, <1>0 DEF OnItsWay
  <2> QED BY <2>8, <2>9
<1>6. CASE b # "none"
  <2>1. left = 0 /\ selectQ
    <3>1. in = Beats
      BY <1>4, <1>6
    <3>2. left = 0 /\ left < Beats
      BY <3>1, <1>0, <1>1
    <3> QED BY <3>2
  <2>2. CoreGets(b, r) = TRUE
    BY <2>1, <1>6 DEF CoreGets, BusAck
  <2>3. PICK c : /\ c = CoreAnswered(TRUE, err) /\ CoreType(c) /\ c.req = core.req
                 /\ c.plan = Tail(core.plan) /\ c.left = BeatsOf(c.plan)
    BY CoreAnsweredIs
  <2>4. c.plan \in Seq(Bursts)
    BY <2>3 DEF CoreType
  <2>5. push = CoreOffers(go, TRUE, err) /\ CoreTick(FALSE, Sent(push), TRUE, err)
    BY <2>2
  <2>6. RefillOffer(c, push)
    BY <2>3, <2>4, <2>5, OffersNext
  <2>7. (Sent(push) => core' = Less(c)) /\ (~Sent(push) => core' = c)
    <3>1. ASSUME Sent(push) PROVE core' = Less(c)
      <4>1. Sent(push) = TRUE
        BY <3>1 DEF Sent
      <4> QED BY <4>1, <2>3, <2>5, CoreSends
    <3>2. ASSUME ~Sent(push) PROVE core' = c
      <4>1. Sent(push) = FALSE
        BY <3>2 DEF Sent
      <4> QED BY <4>1, <2>3, <2>5, CoreWaits
    <3> QED BY <3>1, <3>2
  <2>8. OnItsWay' /\ core'.req = c.req
    BY <2>3, <2>6, <2>7, <1>4, <1>6, NextBurst
  <2> QED BY <2>1, <2>3, <2>8, <1>4, <1>6 DEF DataOpen
<1> QED BY <1>5, <1>6

(* What an answer makes of the controller.                                 *)
IsAnswered(c, err) == c = CoreAnswered(TRUE, err)

(* Either.                                                                 *)
LEMMA CoreMoves ==
  ASSUME core.plan # <<>>, NEW push, NEW ack, NEW err, CoreTick(FALSE, Sent(push), ack, err),
         NEW c, c = CoreAnswered(ack, err)
  PROVE  (Sent(push) => core' = Less(c)) /\ (~Sent(push) => core' = c)
<1>1. ASSUME Sent(push) PROVE core' = Less(c)
  <2>1. Sent(push) = TRUE
    BY <1>1 DEF Sent
  <2> QED BY <2>1, CoreSends
<1>2. ASSUME ~Sent(push) PROVE core' = c
  <2>1. Sent(push) = FALSE
    BY <1>2 DEF Sent
  <2> QED BY <2>1, CoreWaits
<1> QED BY <1>1, <1>2

(* Before a read, within it and at its end.                                *)
LEMMA BusyRead ==
  ASSUME AddressFirst, CoreType(core), core.plan # <<>>, Head(core.plan).op = "rd",
         NEW a \in Addrs, Head(core.plan).addr = a, NEW left \in 1..(Beats + 1), core.left = left,
         left <= Beats => selectQ, IF left = Beats + 1 THEN BridgeEmpty ELSE Reading(a, Beats, left),
         wInhibit = FALSE,
         NEW rdy \in Readies, NEW b \in WriteAnswers, NEW r \in ReadAnswers, NEW go, NEW err, NEW push,
         push = CoreOffers(go, CoreGets(b, r), err), AxiTick(push, rdy, b, r),
         CoreTick(FALSE, Sent(push), CoreGets(b, r), err), selectQ' = TRUE
  PROVE  wInhibit' = FALSE /\ (BusAck(b, r) => selectQ) /\ OnItsWay' /\ core'.req = core.req
<1>0. Beats \in Nat /\ left \in Nat /\ left >= 1 /\ left <= Beats + 1 /\ Beats \in 1..Beats
  BY BeatsAre
<1>1. CoreAnswered(FALSE, err) = core
  BY DEF CoreAnswered
<1>2. core.plan \in Seq(Bursts)
  BY DEF CoreType
<1>3. CASE left = Beats + 1
  <2>1. BridgeEmpty
    BY <1>3
  <2>2. /\ b = "none" /\ r = "none" /\ wInhibit' = FALSE
        /\ push = <<>> => BridgeEmpty'
        /\ \A a2, n : push = <<ReadRequest(a2, n)>> => Reading(a2, n, n)'
    BY <2>1, ReadStarts
  <2>3. CoreGets(b, r) = FALSE /\ ~BusAck(b, r)
    BY <2>2 DEF CoreGets, BusAck
  <2>4. push = CoreOffers(go, FALSE, err) /\ CoreTick(FALSE, Sent(push), FALSE, err)
    BY <2>3
  <2>5. push = <<>> \/ push = <<ReadRequest(a, Beats)>>
    BY <2>4, <1>1, OffersRead
  <2>6. (Sent(push) => core' = Less(core)) /\ (~Sent(push) => core' = core)
    BY <2>4, <1>1, CoreMoves
  <2>7. core.left = BeatsOf(core.plan)
    BY <1>2, <1>3, BeatsOfIs
  <2>8. AxiAccepts
    <3>1. Len(reqFifo) = 0
      BY <2>1, One DEF BridgeEmpty
    <3> QED BY <3>1 DEF AxiAccepts
  <2>9. RefillOffer(core, push)
    BY <2>5 DEF RefillOffer
  <2>10. PICK c : c = core
    OBVIOUS
  <2>11. OnItsWay' /\ core'.req = c.req
    BY <2>2, <2>6, <2>7, <2>8, <2>9, <2>10, NextBurst
  <2> QED BY <2>2, <2>3, <2>10, <2>11
<1>4. CASE left # Beats + 1
  <2>1. Reading(a, Beats, left) /\ left \in 1..Beats /\ selectQ /\ DataOpen
    BY <1>0, <1>4 DEF DataOpen
  <2>2. b = "none" /\ wInhibit' = FALSE
    BY <2>1, <1>0, ReadingStep DEF DataOpen
  <2>3. CASE r = "none"
    <3>1. CoreGets(b, r) = FALSE
      BY <2>2, <2>3 DEF CoreGets, BusAck
    <3>2. push = CoreOffers(go, FALSE, err) /\ CoreTick(FALSE, Sent(push), FALSE, err)
      BY <3>1
    <3>3. push = <<>>
      BY <3>2, <1>1, <1>4, OffersRead
    <3>4. core' = core
      BY <3>2, <3>3, <1>1, CoreMoves DEF Sent
    <3>5. Reading(a, Beats, left)'
      BY <3>3, <2>1, <2>3, <1>0, ReadingStep
    <3> QED BY <3>4, <3>5, <2>1, <2>2, <1>0, <1>4 DEF OnItsWay
  <2>4. CASE r # "none"
    <3>1. CoreGets(b, r) = TRUE
      BY <2>1, <2>4 DEF CoreGets, BusAck
    <3>2. push = CoreOffers(go, TRUE, err) /\ CoreTick(FALSE, Sent(push), TRUE, err)
      BY <3>1
    <3>3. PICK c : /\ IsAnswered(c, err) /\ CoreType(c) /\ c.req = core.req
                   /\ left = 1 => c.plan = Tail(core.plan) /\ c.left = BeatsOf(c.plan)
                   /\ left # 1 => c.plan = core.plan /\ c.left = left - 1
      <4>1. core.left >= 1 /\ Head(core.plan).op # "wr"
        BY <1>0
      <4> QED BY <4>1, CoreAnsweredIs DEF IsAnswered
    <3>4. (Sent(push) => core' = Less(c)) /\ (~Sent(push) => core' = c)
      BY <3>2, <3>3, CoreMoves DEF IsAnswered
    <3>5. CASE left = 1
      <4>2. AxiAccepts
        BY <3>5, <2>1, <2>4, <1>0, ReadingStep
      <4>3. push = <<>> => BridgeEmpty'
        BY <3>5, <2>1, <2>4, <1>0, ReadingStep
      <4>4. \A a2, n2 : push = <<ReadRequest(a2, n2)>> => Reading(a2, n2, n2)'
        BY <3>5, <2>1, <2>4, <1>0, ReadingStep
      <4>5. RefillOffer(c, push)
        <5>1. c.plan \in Seq(Bursts)
          BY <3>3 DEF CoreType
        <5> QED BY <5>1, <3>2, <3>3, <3>5, OffersNext DEF IsAnswered
      <4>6. OnItsWay' /\ core'.req = c.req
        BY <3>3, <3>4, <3>5, <4>2, <4>3, <4>4, <4>5, NextBurst
      <4> QED BY <4>6, <3>3, <2>1, <2>2
    <3>6. CASE left # 1
      <4>1. c.left = left - 1 /\ c.plan = core.plan /\ left - 1 >= 1 /\ left - 1 <= Beats /\ left - 1 # Beats + 1
        BY <3>3, <3>6, <2>1, <1>0
      <4>2. push = <<>>
        BY <4>1, <3>2, <3>3, OffersRead DEF IsAnswered
      <4>3. core' = c
        BY <4>2, <3>4 DEF Sent
      <4>4. Reading(a, Beats, left - 1)'
        BY <4>2, <3>6, <2>1, <2>4, <1>0, ReadingStep
      <4>5. CoreType(core') /\ core'.plan = core.plan /\ core'.left = left - 1 /\ core'.req = core.req
        BY <4>1, <4>3, <3>3
      <4> QED BY <4>1, <4>4, <4>5, <2>1, <2>2 DEF OnItsWay
    <3> QED BY <3>5, <3>6
  <2> QED BY <2>3, <2>4
<1> QED BY <1>3, <1>4

(* A cached access is awaited.                                             *)
LEMMA CoreStep ==
  ASSUME AddressFirst, LsuInv, WayInv, lsuPend, muxCached, NEW in \in Sends, NEW rdy \in Readies,
         NEW b \in WriteAnswers, NEW r \in ReadAnswers, NEW go, Clock(in, rdy, b, r, go)
  PROVE  /\ LsuInv' /\ WayInv'
         /\ Ack(b, r) <=> core.plan = <<>>
         /\ Issue(b, r) => e1.cached
<1>1. PICK x \in Accesses : /\ x = Access /\ Asks(x) /\ lsuFifo = <<x>>
                            /\ muxPend = 1 /\ Select = TRUE
  <2>1. muxCached = TRUE
    BY DEF LsuInv
  <2> QED BY <2>1, AwaitedIs
<1>2. UncIdle /\ OnItsWay /\ core.req = x /\ wInhibit = FALSE /\ CoreType(core)
  BY <1>1 DEF WayInv, CoreWay, OnItsWay, LsuInv
<1>3. lsuPend = TRUE /\ muxCached = TRUE /\ e1 \in Accesses /\ e1.cached \in BOOLEAN
  BY DEF LsuInv, Accesses
<1>4. Ack(b, r) <=> core.plan = <<>>
  <2>1. x.op # "none"
    BY <1>1 DEF Asks, LoadsStores
  <2> QED BY <2>1, <1>2, <1>3 DEF Ack, CoreAck
<1>5. PICK push : push = Push(b, r, go)
  OBVIOUS
<1>6. PICK err : err = BusErr(b, r)
  OBVIOUS
<1>7. push = CoreOffers(go, CoreGets(b, r), err)
  BY <1>1, <1>5, <1>6 DEF Push
<1>8. selectQ' = TRUE /\ AxiTick(push, rdy, b, r)
  BY <1>1, <1>5, ClockParts
<1>9. Issue(b, r) => e1.cached /\ (e1.op = "maint" \/ Ack(b, r))
  <2>1. Issue(b, r) => ~Hold /\ (e1.op = "maint" \/ ~Delayed(Ok(b, r)))
    BY DEF Issue, MemAccept, RequestsMemory
  <2>2. ~Hold => e1.cached
    <3>1. muxPend # 0
      BY <1>1
    <3>2. muxCached = TRUE
      BY <1>3
    <3> QED BY <3>1, <3>2, Zenon DEF Hold
  <2>3. ~Delayed(Ok(b, r)) => Ack(b, r)
    BY <1>3 DEF Delayed, Ok
  <2> QED BY <2>1, <2>2, <2>3
<1>10. Issue(b, r) => Ack(b, r)
  BY <1>9, <1>3 DEF LsuInv
<1>11. UncTick(FALSE, FALSE, UncGets(b, r))
  <2>1. (Issue(b, r) /\ ~e1.cached) = FALSE /\ (~Select /\ Sent(Push(b, r, go))) = FALSE
    BY <1>1, <1>9
  <2>2. UncTick(Issue(b, r) /\ ~e1.cached, ~Select /\ Sent(Push(b, r, go)), UncGets(b, r))
    BY ClockParts
  <2> QED BY <2>1, <2>2
<1>12. ASSUME BusAck(b, r) => selectQ PROVE UncIdle'
  <2>1. UncGets(b, r) = FALSE
    BY <1>12 DEF UncGets
  <2>2. UncTick(FALSE, FALSE, FALSE)
    BY <2>1, <1>11
  <2> QED BY <2>2, <1>2 DEF UncTick, UncIdle
<1>13. CoreTick(Issue(b, r) /\ e1.cached, Sent(push), CoreGets(b, r), err)
  <2>1. CoreTick(Issue(b, r) /\ e1.cached, Select /\ Sent(Push(b, r, go)), CoreGets(b, r), BusErr(b, r))
    BY ClockParts
  <2>2. (Select /\ Sent(Push(b, r, go))) = Sent(push)
    BY <1>1, <1>5 DEF Sent
  <2> QED BY <2>1, <2>2, <1>6
<1>14. CASE core.plan = <<>>
  <2>1. BridgeEmpty
    BY <1>2, <1>14 DEF OnItsWay
  <2>2. b = "none" /\ r = "none"
    BY <2>1 DEF BridgeEmpty, WriteAnswers, ReadAnswers
  <2>3. CoreGets(b, r) = FALSE /\ ~BusAck(b, r)
    BY <2>2 DEF CoreGets, BusAck
  <2>4. push = <<>>
    <3>1. CoreAnswered(FALSE, err) = core
      BY DEF CoreAnswered
    <3>2. CoreOffers(go, FALSE, err) = <<>>
      BY <3>1, <1>14 DEF CoreOffers
    <3> QED BY <3>2, <2>3, <1>7
  <2>5. BridgeEmpty' /\ wInhibit' = FALSE
    BY <2>1, <2>4, <1>2, <1>8, ReadStarts
  <2>6. /\ LsuInv'
        /\ (Issue(b, r) => /\ lsuFifo' = <<e1>> /\ lsuPend' /\ Asks(e1) /\ e1 \in Accesses
                           /\ muxCached' = e1.cached)
        /\ (~Issue(b, r) => ~lsuPend')
    BY <2>5, <1>4, <1>14, LsuStep
  <2>7. lsuPend' \in BOOLEAN
    BY <2>6 DEF LsuInv
  <2>8. UncIdle'
    BY <2>3, <1>12
  <2>9. CASE Issue(b, r)
    <3>1. e1.cached /\ lsuPend' = TRUE
      BY <2>6, <2>7, <2>9, <1>9
    <3>2. (Issue(b, r) /\ e1.cached) = TRUE
      BY <3>1, <2>9
    <3>3. CoreTick(TRUE, Sent(push), CoreGets(b, r), err)
      BY <3>2, <1>13
    <3>4. PICK plan \in Plans(e1) : core' = WithPlan([IdleCore EXCEPT !.req = e1], plan)
      BY <3>3 DEF CoreTick
    <3> QED BY <3>1, <3>4, <2>5, <2>6, <2>8, <2>9, <1>4, AskedCached
  <2>10. CASE ~Issue(b, r)
    <3>1. (Issue(b, r) /\ e1.cached) = FALSE
      BY <2>10
    <3>2. CoreTick(FALSE, Sent(push), CoreGets(b, r), err)
      BY <3>1, <1>13
    <3>3. core' = IdleCore
      BY <3>2, <1>4, <1>3, <1>14 DEF CoreTick, Ack
    <3> QED BY <3>3, <2>5, <2>6, <2>8, <2>10, <1>4 DEF WayInv
  <2> QED BY <2>9, <2>10
<1>15. CASE core.plan # <<>>
  <2>1. ~Ack(b, r) /\ ~Issue(b, r)
    BY <1>4, <1>10, <1>15
  <2>2. CoreTick(FALSE, Sent(push), CoreGets(b, r), err)
    <3>1. (Issue(b, r) /\ e1.cached) = FALSE
      BY <2>1
    <3> QED BY <3>1, <1>13
  <2>3. PICK a \in Addrs : Head(core.plan).addr = a
    BY <1>2, <1>15, HeadBurst DEF CoreType
  <2>4. PICK left \in 0..(Beats + 1) : core.left = left
    BY <1>2 DEF CoreType
  <2>5. wInhibit' = FALSE /\ (BusAck(b, r) => selectQ) /\ OnItsWay' /\ core'.req = core.req
    <3>1. Head(core.plan).op \in {"rd", "wr"}
      BY <1>2, <1>15, HeadBurst DEF CoreType, LoadsStores
    <3>2. CASE Head(core.plan).op = "wr"
      <4>1. left <= Beats /\ (left < Beats => selectQ) /\ Writing(a, Beats, Beats - left)
        BY <3>2, <2>3, <2>4, <1>2, <1>15 DEF OnItsWay
      <4>2. left \in 0..Beats
        BY <4>1, BeatsAre
      <4> QED BY <3>2, <4>1, <4>2, <2>2, <2>3, <2>4, <1>2, <1>7, <1>8, <1>15, BusyWrite
    <3>3. CASE Head(core.plan).op = "rd"
      <4>1. /\ left >= 1 /\ (left <= Beats => selectQ)
            /\ IF left = Beats + 1 THEN BridgeEmpty ELSE Reading(a, Beats, left)
        BY <3>3, <2>3, <2>4, <1>2, <1>15 DEF OnItsWay
      <4>2. left \in 1..(Beats + 1)
        BY <4>1, BeatsAre
      <4> QED BY <3>3, <4>1, <4>2, <2>2, <2>3, <2>4, <1>2, <1>7, <1>8, <1>15, BusyRead
    <3> QED BY <3>1, <3>2, <3>3
  <2>6. UncIdle'
    BY <2>5, <1>12
  <2>7. LsuInv' /\ lsuFifo' = lsuFifo /\ lsuPend' /\ muxCached' = muxCached
    BY <2>1, <2>5, LsuStep
  <2>8. Access' = x
    BY <2>7, <1>1 DEF Access
  <2>9. CoreWay'
    BY <2>5, <2>8, <1>2 DEF CoreWay
  <2> QED BY <2>1, <2>6, <2>7, <2>9, <1>3, <1>4 DEF WayInv
<1> QED BY <1>4, <1>9, <1>14, <1>15

(* Every step keeps the invariant.                                         *)
LEMMA PathStep ==
  ASSUME AddressFirst, PathInv, [Next]_vars
  PROVE  PathInv'
<1>1. LsuInv /\ WayInv /\ lsuPend \in BOOLEAN /\ muxCached \in BOOLEAN
  BY DEF PathInv, LsuInv
<1>2. ASSUME NEW in \in Sends, NEW rdy \in Readies, NEW b \in WriteAnswers, NEW r \in ReadAnswers,
             NEW go \in BOOLEAN, Clock(in, rdy, b, r, go)
      PROVE  PathInv'
  <2>1. CASE ~lsuPend
    BY <2>1, <1>1, <1>2, FreeStep DEF PathInv
  <2>2. CASE lsuPend /\ muxCached
    BY <2>2, <1>1, <1>2, CoreStep DEF PathInv
  <2>3. CASE lsuPend /\ ~muxCached
    BY <2>3, <1>1, <1>2, UncStep DEF PathInv
  <2> QED BY <2>1, <2>2, <2>3
<1>3. CASE UNCHANGED vars
  BY <1>3 DEF PathInv, LsuInv, WayInv, UncIdle, UncWay, CoreWay, OnItsWay, BridgeEmpty, Access,
              Writing, Queued, Sending, Reading, Gone, Skidded, vars, lsuVars, axiVars
<1> QED BY <1>2, <1>3 DEF Next

(* The initial states satisfy it.                                          *)
LEMMA PathInit == Init => PathInv
<1> SUFFICES ASSUME Init PROVE PathInv
  OBVIOUS
<1>1. Nothing(FALSE) \in Accesses /\ Nothing(FALSE).op = "none"
  <2>1. NoAddr \in Addrs
    BY AddrsAssumption DEF NoAddr
  <2> QED BY <2>1 DEF Nothing, Accesses
<1>2. LsuInv
  BY <1>1 DEF Init, LsuInit, AxiInit, LsuInv
<1>3. WayInv
  BY DEF Init, LsuInit, AxiInit, WayInv, UncIdle, BridgeEmpty
<1> QED BY <1>2, <1>3 DEF PathInv

(* PathInv is an invariant.                                                *)
LEMMA PathInvariant == ASSUME AddressFirst PROVE Spec => []PathInv
<1>1. PathInv /\ [Next]_vars => PathInv'
  BY PathStep
<1> QED BY <1>1, PathInit, PTL DEF Spec

-----------------------------------------------------------------------------
(* What the invariant says of the path                                     *)

(* The types of the bridge.                                                *)
BridgeType ==
    /\ reqFifo \in Seq(Entries) /\ Len(reqFifo) \in Nat /\ Len(reqFifo) <= 2
    /\ reqCnt \in 0..(Beats - 1) /\ outstanding \in 0..2
    /\ awInhibit \in BOOLEAN /\ beatCnt \in 0..Beats
    /\ skid = NoBeat \/ skid \in DataBeats
    /\ Len(bus.aw) + Len(bus.ar) \in 0..1
    /\ BurstsWhole

(* Nothing is in an empty bridge.                                          *)
LEMMA EmptyBridge ==
  ASSUME BridgeEmpty
  PROVE  /\ BridgeType /\ Len(reqFifo) = 0 /\ OnBus = 0
<1>1. Len(reqFifo) = 0 /\ Len(bus.aw) = 0 /\ Len(bus.ar) = 0 /\ reqFifo \in Seq(Entries)
  BY One DEF BridgeEmpty
<1>2. 0 \in 0..(Beats - 1) /\ 0 \in 0..Beats
  BY BeatsAssumption
<1>3. BurstsWhole
  BY DEF BurstsWhole, BridgeEmpty
<1>4. Len(bus.aw) + Len(bus.ar) \in 0..1 /\ OnBus = 0
  BY <1>1 DEF OnBus
<1>5. /\ reqCnt \in 0..(Beats - 1) /\ outstanding \in 0..2
      /\ beatCnt \in 0..Beats /\ skid = NoBeat
  BY <1>2 DEF BridgeEmpty
<1>7. awInhibit \in BOOLEAN
  BY DEF BridgeEmpty
<1>6. Len(reqFifo) \in Nat /\ Len(reqFifo) <= 2
  BY <1>1
<1> QED BY <1>1, <1>3, <1>4, <1>5, <1>6, <1>7 DEF BridgeType

(* With a write in it, it holds one burst of one address.                  *)
LEMMA WritingBridge ==
  ASSUME NEW a \in Addrs, NEW n \in 1..Beats, NEW in \in 0..n, Writing(a, n, in)
  PROVE  /\ BridgeType
         /\ Len(reqFifo) = in - Gone
         /\ OnBus = IF Gone = 0 THEN 0 ELSE 1
         /\ bus.ar = <<>> /\ \A k \in DOMAIN bus.aw : bus.aw[k].addr = a
         /\ \A k \in DOMAIN reqFifo : reqFifo[k].addr = a /\ reqFifo[k].op = "wr"
<1>0. n \in Nat /\ in \in Nat /\ in <= n /\ n >= 1 /\ n <= Beats /\ Beats \in Nat /\ Beats >= 2
  BY BeatsAssumption
<1>1. /\ Len(bus.w) \in 0..n /\ Gone \in 0..n /\ Len(reqFifo) \in Nat /\ Len(reqFifo) <= 2
      /\ Gone <= in
  BY WritingTypes
<1>2. /\ reqFifo \in Seq(Entries) /\ Gone + Len(reqFifo) = in
      /\ \A k \in 1..Len(reqFifo) : reqFifo[k] = WriteBeat(a, n, Gone + k - 1)
  BY DEF Writing, Queued
<1>3. /\ bus.aw = (IF Gone = 0 THEN <<>> ELSE <<[addr |-> a, len |-> n - 1]>>)
      /\ bus.w \in Seq(DataBeats) /\ \A k \in 1..Len(bus.w) : bus.w[k] = DataBeat(a, n, k - 1)
      /\ (skid # NoBeat => skid = DataBeat(a, n, 0))
      /\ awInhibit = (IF Gone > 0 /\ Len(bus.w) < n THEN TRUE ELSE FALSE)
      /\ beatCnt = (IF Gone = 0 THEN 0 ELSE n - Len(bus.w))
      /\ reqCnt = (IF Gone \in {0, n} THEN 0 ELSE n - 1 - Gone)
      /\ outstanding = (IF Gone = n THEN 1 ELSE 0)
      /\ bus.ar = <<>>
  BY DEF Writing, Sending
<1>4. Len(reqFifo) = in - Gone
  BY <1>0, <1>1, <1>2
<1>5. /\ Len(bus.aw) = (IF Gone = 0 THEN 0 ELSE 1) /\ Len(bus.ar) = 0
      /\ \A k \in DOMAIN bus.aw : bus.aw[k] = [addr |-> a, len |-> n - 1]
  <2>1. CASE Gone = 0
    BY <2>1, <1>3, One
  <2>2. CASE Gone # 0
    <3>1. bus.aw = <<[addr |-> a, len |-> n - 1]>>
      BY <2>2, <1>3
    <3> QED BY <2>2, <3>1, <1>3, One
  <2> QED BY <2>1, <2>2
<1>6. \A k \in DOMAIN reqFifo : reqFifo[k].addr = a /\ reqFifo[k].op = "wr"
  <2> TAKE k \in DOMAIN reqFifo
  <2>1. k \in 1..Len(reqFifo)
    BY <1>2, LenProperties
  <2>2. reqFifo[k] = WriteBeat(a, n, Gone + k - 1)
    BY <2>1, <1>2
  <2> QED BY <2>2 DEF WriteBeat
<1>7. DataBeat(a, n, 0) \in DataBeats
  <2>1. 0 \in 0..(Beats - 1)
    BY <1>0
  <2> QED BY <2>1 DEF DataBeat, DataBeats
<1>8. reqCnt \in 0..(Beats - 1) /\ beatCnt \in 0..Beats /\ outstanding \in 0..2
  <2>1. reqCnt \in 0..(Beats - 1)
    BY <1>0, <1>1, <1>3
  <2>2. beatCnt \in 0..Beats
    BY <1>0, <1>1, <1>3
  <2> QED BY <2>1, <2>2, <1>3
<1>9. BurstsWhole
  <2> SUFFICES ASSUME bus.aw # <<>>, NEW k \in DOMAIN bus.w
               PROVE  bus.w[k] = [addr |-> bus.aw[1].addr, beat |-> k - 1, last |-> k - 1 = bus.aw[1].len]
    BY DEF BurstsWhole
  <2>1. k \in 1..Len(bus.w)
    BY <1>3, LenProperties
  <2>2. bus.aw = <<[addr |-> a, len |-> n - 1]>>
    BY <1>3
  <2>3. bus.aw[1] = [addr |-> a, len |-> n - 1]
    BY <2>2, One
  <2>4. bus.aw[1].addr = a /\ bus.aw[1].len = n - 1
    BY <2>3
  <2>5. bus.w[k] = [addr |-> a, beat |-> k - 1, last |-> k - 1 = n - 1]
    BY <2>1, <1>3 DEF DataBeat
  <2> QED BY <2>4, <2>5
<1>10. BridgeType
  <2>1. awInhibit \in BOOLEAN
    BY <1>3
  <2>2. skid = NoBeat \/ skid \in DataBeats
    BY <1>3, <1>7
  <2>3. Len(bus.aw) + Len(bus.ar) \in 0..1
    BY <1>5
  <2> QED BY <2>1, <2>2, <2>3, <1>1, <1>2, <1>8, <1>9 DEF BridgeType
<1>11. OnBus = IF Gone = 0 THEN 0 ELSE 1
  BY <1>5 DEF OnBus
<1>12. \A k \in DOMAIN bus.aw : bus.aw[k].addr = a
  BY <1>5
<1> QED BY <1>3, <1>4, <1>6, <1>10, <1>11, <1>12

(* So it does with a read.                                                 *)
LEMMA ReadingBridge ==
  ASSUME NEW a \in Addrs, NEW n \in 1..Beats, NEW left, Reading(a, n, left)
  PROVE  /\ BridgeType
         /\ Len(reqFifo) + OnBus = 1 /\ OnBus \in 0..1
         /\ bus.aw = <<>> /\ \A k \in DOMAIN bus.ar : bus.ar[k].addr = a
         /\ \A k \in DOMAIN reqFifo : reqFifo[k].addr = a /\ reqFifo[k].op = "rd"
<1>0. n - 1 \in 0..(Beats - 1) /\ 0 \in 0..(Beats - 1) /\ 0 \in 0..Beats
  BY BeatsAssumption
<1>1. /\ reqCnt = 0 /\ awInhibit = FALSE /\ beatCnt = 0 /\ skid = NoBeat
      /\ bus.aw = <<>> /\ bus.w = <<>> /\ Len(bus.aw) = 0
  BY One DEF Reading
<1>2. BurstsWhole
  BY <1>1 DEF BurstsWhole
<1>5. awInhibit \in BOOLEAN
  BY DEF Reading
<1>3. CASE reqFifo = <<ReadRequest(a, n)>> /\ outstanding = 0 /\ bus.ar = <<>>
  <2>1. ReadRequest(a, n) \in Entries /\ ReadRequest(a, n).op = "rd" /\ ReadRequest(a, n).addr = a
    BY <1>0 DEF ReadRequest, Entries, LoadsStores
  <2>2. reqFifo \in Seq(Entries) /\ Len(reqFifo) = 1 /\ DOMAIN reqFifo = {1} /\ reqFifo[1] = ReadRequest(a, n)
    BY <2>1, <1>3
  <2>3. Len(bus.ar) = 0 /\ DOMAIN bus.ar = {}
    BY <1>3, One
  <2>4. OnBus = 0 /\ Len(bus.aw) + Len(bus.ar) \in 0..1
    BY <2>3, <1>1 DEF OnBus
  <2>5. reqCnt \in 0..(Beats - 1) /\ outstanding \in 0..2 /\ beatCnt \in 0..Beats
    BY <1>0, <1>3 DEF Reading
  <2>6. Len(reqFifo) \in Nat /\ Len(reqFifo) <= 2
    BY <2>2
  <2>7. BridgeType
    BY <2>2, <2>4, <2>5, <2>6, <1>1, <1>2, <1>5 DEF BridgeType
  <2>8. Len(reqFifo) + OnBus = 1 /\ OnBus \in 0..1
    BY <2>2, <2>4
  <2> QED BY <2>1, <2>2, <2>3, <2>7, <2>8, <1>1, <1>3
<1>4. CASE reqFifo = <<>> /\ outstanding = 1 /\ bus.ar = <<[addr |-> a, left |-> left - 1]>>
  <2>1. Len(bus.ar) = 1 /\ DOMAIN bus.ar = {1} /\ bus.ar[1] = [addr |-> a, left |-> left - 1]
    BY <1>4, One
  <2>2. bus.ar[1].addr = a
    BY <2>1
  <2>3. reqFifo \in Seq(Entries) /\ Len(reqFifo) = 0 /\ DOMAIN reqFifo = {}
    BY <1>4, One
  <2>4. OnBus = 1 /\ Len(bus.aw) + Len(bus.ar) \in 0..1
    BY <2>1, <1>1 DEF OnBus
  <2>5. reqCnt \in 0..(Beats - 1) /\ outstanding \in 0..2 /\ beatCnt \in 0..Beats
    BY <1>0, <1>4 DEF Reading
  <2>6. Len(reqFifo) \in Nat /\ Len(reqFifo) <= 2
    BY <2>3
  <2>7. BridgeType
    BY <2>3, <2>4, <2>5, <2>6, <1>1, <1>2, <1>5 DEF BridgeType
  <2>8. Len(reqFifo) + OnBus = 1 /\ OnBus \in 0..1
    BY <2>3, <2>4
  <2> QED BY <2>1, <2>2, <2>3, <2>7, <2>8, <1>1
<1> QED BY <1>3, <1>4 DEF Reading

(* An access is awaited as long as the load/store unit says so.            *)
LEMMA AwaitedIsPending ==
  ASSUME LsuInv
  PROVE  /\ Awaited <=> lsuPend
         /\ \A k \in DOMAIN lsuFifo : lsuFifo[k] \in Accesses
         /\ Len(lsuFifo) \in 0..1 /\ (lsuPend => Len(lsuFifo) = 1)
<1>1. CASE lsuPend
  <2>1. PICK x \in Accesses : Asks(x) /\ lsuFifo = <<x>>
    BY <1>1 DEF LsuInv
  <2>2. x.op # "unaligned"
    BY <2>1 DEF Asks, LoadsStores
  <2> QED BY <1>1, <2>1, <2>2, One DEF Awaited
<1>2. CASE ~lsuPend /\ unalignedE2
  <2>1. PICK x \in Accesses : x.op = "unaligned" /\ lsuFifo = <<x>>
    BY <1>2 DEF LsuInv
  <2> QED BY <1>2, <2>1, One DEF Awaited
<1>3. CASE ~lsuPend /\ ~unalignedE2
  <2>1. lsuFifo = <<>>
    BY <1>3 DEF LsuInv
  <2> QED BY <1>3, <2>1, One DEF Awaited
<1> QED BY <1>1, <1>2, <1>3

(* The bridge keeps its types, and the bursts come whole.                  *)
LEMMA BridgeTyped ==
  ASSUME PathInv
  PROVE  BridgeType
<1>1. LsuInv /\ WayInv
  BY DEF PathInv
<1>2. CASE ~lsuPend
  BY <1>1, <1>2, EmptyBridge DEF WayInv
<1>3. CASE lsuPend /\ ~muxCached
  <2>1. UncWay /\ Access.addr \in Addrs /\ 1 \in 1..Beats /\ 1 \in 0..1
    BY <1>1, <1>3, AwaitedIs, BeatsAssumption DEF WayInv
  <2>2. PICK a \in Addrs : a = Access.addr
    BY <2>1
  <2>3. BridgeEmpty \/ Writing(a, 1, 1) \/ Reading(a, 1, 1)
    BY <2>1, <2>2 DEF UncWay
  <2> QED BY <2>1, <2>3, EmptyBridge, WritingBridge, ReadingBridge
<1>4. CASE lsuPend /\ muxCached
  <2>1. OnItsWay /\ CoreType(core)
    BY <1>1, <1>4 DEF WayInv, CoreWay, OnItsWay
  <2>2. CASE core.plan = <<>>
    BY <2>1, <2>2, EmptyBridge DEF OnItsWay
  <2>3. CASE core.plan # <<>>
    <3>1. PICK a \in Addrs : Head(core.plan).addr = a
      BY <2>1, <2>3, HeadBurst DEF CoreType
    <3>2. PICK left \in 0..(Beats + 1) : core.left = left
      BY <2>1 DEF CoreType
    <3>3. Head(core.plan).op \in {"rd", "wr"}
      BY <2>1, <2>3, HeadBurst DEF CoreType, LoadsStores
    <3>4. CASE Head(core.plan).op = "wr"
      <4>1. left <= Beats /\ Writing(a, Beats, Beats - left)
        BY <3>1, <3>2, <3>4, <2>1, <2>3 DEF OnItsWay
      <4>2. Beats - left \in 0..Beats
        BY <4>1, BeatsAre
      <4> QED BY <4>1, <4>2, BeatsAre, WritingBridge
    <3>5. CASE Head(core.plan).op = "rd"
      <4>1. BridgeEmpty \/ Reading(a, Beats, left)
        BY <3>1, <3>2, <3>5, <2>1, <2>3 DEF OnItsWay
      <4> QED BY <4>1, BeatsAre, EmptyBridge, ReadingBridge
    <3> QED BY <3>3, <3>4, <3>5
  <2> QED BY <2>2, <2>3
<1>5. lsuPend \in BOOLEAN /\ muxCached \in BOOLEAN
  BY <1>1 DEF LsuInv
<1> QED BY <1>2, <1>3, <1>4, <1>5

(* The invariant implies the types,                                        *)
LEMMA PathIsTyped == PathInv => TypeOK
<1> SUFFICES ASSUME PathInv PROVE TypeOK
  OBVIOUS
<1>1. LsuInv /\ WayInv
  BY DEF PathInv
<1>2. BridgeType
  BY BridgeTyped
<1>3. /\ \A k \in DOMAIN lsuFifo : lsuFifo[k] \in Accesses
      /\ Len(lsuFifo) \in 0..1
  BY <1>1, AwaitedIsPending
<1>4. \A k \in DOMAIN reqFifo : reqFifo[k] \in Entries
  BY <1>2, ElementOfSeq, LenProperties DEF BridgeType
<1>5. Len(lsuFifo) \in 0..2 /\ Len(reqFifo) \in 0..2
  <2>1. Len(reqFifo) \in Nat /\ Len(reqFifo) <= 2
    BY <1>2 DEF BridgeType
  <2>2. \A i \in Nat : i <= 2 => i \in 0..2
    OBVIOUS
  <2>3. \A i \in 0..1 : i \in 0..2
    OBVIOUS
  <2> QED BY <2>1, <2>2, <2>3, <1>3
<1>6. unc.resps \in 0..2 /\ unc.pend \in BOOLEAN
  <2>1. UncIdle \/ UncWay
    BY <1>1 DEF LsuInv, WayInv
  <2>2. CASE UncIdle
    BY <2>2 DEF UncIdle
  <2>3. CASE UncWay
    <3>1. CASE unc = [reqs |-> <<Burst(Access.op, Access.addr)>>, resps |-> 1, pend |-> FALSE]
      BY <3>1
    <3>2. CASE unc = [reqs |-> <<>>, resps |-> 1, pend |-> TRUE]
      BY <3>2
    <3> QED BY <2>3, <3>1, <3>2 DEF UncWay
  <2> QED BY <2>1, <2>2, <2>3
<1>7. CoreType(core)
  BY <1>1, IdleCoreIs DEF LsuInv, WayInv, CoreWay, OnItsWay
<1>8. core.req \in Accesses /\ core.left \in 0..(Beats + 1) /\ core.err \in BOOLEAN
  BY <1>7 DEF CoreType
<1>9. /\ e1 \in Accesses /\ lsuPend \in BOOLEAN /\ unalignedE2 \in BOOLEAN
      /\ muxCached \in BOOLEAN /\ selectQ \in BOOLEAN
  BY <1>1 DEF LsuInv
<1>10. muxPend \in 0..31
  BY <1>1 DEF LsuInv
<1>11. wInhibit \in BOOLEAN
  BY <1>1 DEF LsuInv
<1>12. /\ reqCnt \in 0..(Beats - 1) /\ outstanding \in 0..2
       /\ awInhibit \in BOOLEAN /\ beatCnt \in 0..Beats
  BY <1>2 DEF BridgeType
<1> QED BY <1>3, <1>4, <1>5, <1>6, <1>8, <1>9, <1>10, <1>11, <1>12 DEF TypeOK

(* that an access of a device is in one place of the path,                 *)
LEMMA OnceUncached ==
  ASSUME LsuInv, WayInv, lsuPend, ~muxCached
  PROVE  /\ InFlight = 1
         /\ \A k \in DOMAIN unc.reqs : unc.reqs[k] = Burst(Access.op, Access.addr)
         /\ \A k \in DOMAIN reqFifo : Mine(reqFifo[k], reqFifo[k].op)
         /\ \A k \in DOMAIN bus.aw : Mine(bus.aw[k], "wr")
         /\ \A k \in DOMAIN bus.ar : Mine(bus.ar[k], "rd")
<1>1. /\ Access.addr \in Addrs /\ 1 \in 1..Beats /\ 1 \in 0..1 /\ ~Access.cached
      /\ Access.op \in LoadsStores
  BY AwaitedIs, BeatsAssumption DEF Asks
<1>2. PICK a \in Addrs : a = Access.addr
  BY <1>1
<1>3. CASE unc = [reqs |-> <<Burst(Access.op, Access.addr)>>, resps |-> 1, pend |-> FALSE] /\ BridgeEmpty
  <2>1. unc.reqs = <<Burst(Access.op, Access.addr)>>
    BY <1>3
  <2>2. Len(unc.reqs) = 1 /\ DOMAIN unc.reqs = {1} /\ unc.reqs[1] = Burst(Access.op, Access.addr)
    BY <2>1, One
  <2>3. Len(reqFifo) = 0 /\ OnBus = 0
    BY <1>3, EmptyBridge
  <2>4. DOMAIN reqFifo = {} /\ DOMAIN bus.aw = {} /\ DOMAIN bus.ar = {}
    BY <1>3, One DEF BridgeEmpty
  <2>5. InFlight = 1
    BY <2>2, <2>3 DEF InFlight
  <2> QED BY <2>2, <2>4, <2>5
<1>4. CASE unc = [reqs |-> <<>>, resps |-> 1, pend |-> TRUE] /\ Access.op = "wr" /\ Writing(a, 1, 1)
  <2>1. unc.reqs = <<>> /\ Len(unc.reqs) = 0 /\ DOMAIN unc.reqs = {}
    BY <1>4, One
  <2>2. /\ Len(reqFifo) = 1 - Gone
        /\ OnBus = IF Gone = 0 THEN 0 ELSE 1
        /\ bus.ar = <<>> /\ \A k \in DOMAIN bus.aw : bus.aw[k].addr = a
        /\ \A k \in DOMAIN reqFifo : reqFifo[k].addr = a /\ reqFifo[k].op = "wr"
    BY <1>1, <1>4, WritingBridge
  <2>3. Gone \in 0..1
    BY <1>1, <1>4, WritingTypes
  <2>4. InFlight = 1
    BY <2>1, <2>2, <2>3 DEF InFlight
  <2>5. DOMAIN bus.ar = {}
    BY <2>2, One
  <2> QED BY <2>1, <2>2, <2>4, <2>5, <1>2, <1>4 DEF Mine
<1>5. CASE unc = [reqs |-> <<>>, resps |-> 1, pend |-> TRUE] /\ Access.op = "rd" /\ Reading(a, 1, 1)
  <2>1. unc.reqs = <<>> /\ Len(unc.reqs) = 0 /\ DOMAIN unc.reqs = {}
    BY <1>5, One
  <2>2. /\ Len(reqFifo) + OnBus = 1
        /\ bus.aw = <<>> /\ \A k \in DOMAIN bus.ar : bus.ar[k].addr = a
        /\ \A k \in DOMAIN reqFifo : reqFifo[k].addr = a /\ reqFifo[k].op = "rd"
    BY <1>1, <1>5, ReadingBridge
  <2>3. BridgeType
    BY <1>1, <1>5, ReadingBridge
  <2>4. InFlight = 1
    <3>1. InFlight = 0 + Len(reqFifo) + OnBus /\ Len(reqFifo) \in Nat
      BY <2>1, <2>3 DEF InFlight, BridgeType
    <3> QED BY <3>1, <2>2
  <2>5. DOMAIN bus.aw = {}
    BY <2>2, One
  <2> QED BY <2>1, <2>2, <2>4, <2>5, <1>2, <1>5 DEF Mine
<1>6. UncWay
  BY DEF WayInv
<1> QED BY <1>1, <1>2, <1>3, <1>4, <1>5, <1>6 DEF UncWay, LoadsStores

(* and that every access is carried out once.                              *)
LEMMA PathIsOnce == PathInv => AccessedOnce
<1> SUFFICES ASSUME PathInv PROVE AccessedOnce
  OBVIOUS
<1>1. LsuInv /\ WayInv
  BY DEF PathInv
<1>2. /\ Awaited <=> lsuPend
      /\ lsuPend => Len(lsuFifo) = 1
  BY <1>1, AwaitedIsPending
<1>3. ~Awaited => InFlight = 0 /\ skid = NoBeat /\ outstanding = 0 /\ muxPend = 0 /\ ~lsuPend
  <2> SUFFICES ASSUME ~lsuPend PROVE InFlight = 0 /\ skid = NoBeat /\ outstanding = 0 /\ muxPend = 0
    BY <1>2
  <2>1. UncIdle /\ BridgeEmpty /\ muxPend = 0
    BY <1>1 DEF WayInv, LsuInv
  <2>2. Len(reqFifo) = 0 /\ OnBus = 0 /\ skid = NoBeat /\ outstanding = 0
    BY <2>1, EmptyBridge DEF BridgeEmpty
  <2>3. Len(unc.reqs) = 0
    BY <2>1, One DEF UncIdle
  <2> QED BY <2>1, <2>2, <2>3 DEF InFlight
<1>4. lsuPend => muxPend = 1 /\ muxCached = Access.cached
  BY <1>1, AwaitedIs
<1>5. lsuPend /\ Access.cached => unc.reqs = <<>> /\ OnBus <= 1
  <2> SUFFICES ASSUME lsuPend, Access.cached PROVE unc.reqs = <<>> /\ OnBus <= 1
    OBVIOUS
  <2>1. UncIdle
    BY <1>1, <1>4 DEF WayInv
  <2>2. OnBus \in 0..1
    BY BridgeTyped DEF BridgeType, OnBus
  <2> QED BY <2>1, <2>2 DEF UncIdle
<1>6. lsuPend /\ ~Access.cached =>
        /\ InFlight = 1
        /\ \A k \in DOMAIN unc.reqs : unc.reqs[k] = Burst(Access.op, Access.addr)
        /\ \A k \in DOMAIN reqFifo : Mine(reqFifo[k], reqFifo[k].op)
        /\ \A k \in DOMAIN bus.aw : Mine(bus.aw[k], "wr")
        /\ \A k \in DOMAIN bus.ar : Mine(bus.ar[k], "rd")
  BY <1>1, <1>4, OnceUncached
<1> QED BY <1>2, <1>3, <1>4, <1>5, <1>6 DEF AccessedOnce

(* What is offered stays on offer.                                         *)
LEMMA OfferStays ==
  ASSUME AddressFirst, BridgeType, wInhibit = FALSE, NEW rdy \in Readies,
         NEW b \in WriteAnswers, NEW r \in ReadAnswers, NEW push,
         push = <<>> \/ (\E e : push = <<e>>), AxiTick(push, rdy, b, r)
  PROVE  /\ AwValid /\ "aw" \notin rdy => AwValid' /\ Address' = Address
         /\ WValid /\ "w" \notin rdy => WValid' /\ Data' = Data
         /\ ArValid /\ "ar" \notin rdy => ArValid' /\ Address' = Address
<1>1. reqFifo \in Seq(Entries) /\ outstanding \in 0..2
  BY DEF BridgeType
<1>2. /\ "aw" \in rdy => AwValid
      /\ "w" \in rdy => WValid
      /\ "ar" \in rdy => ArValid
      /\ "w" \in rdy /\ AwValid => "aw" \in rdy
  BY Readied
<1>3. ~(IsWrite /\ ArValid) /\ (AwValid => IsWrite)
  BY DEF IsWrite, ArValid, AwValid
<1>4. ASSUME ~Accepted(rdy), CanIssue PROVE CanIssue' /\ Request' = Request
  <2>1. reqFifo # <<>> /\ Request = reqFifo[1] /\ Len(reqFifo) >= 1 /\ Len(reqFifo) \in Nat
    BY <1>1, <1>4, EmptyOrNot DEF CanIssue, Request
  <2>2. reqFifo' = reqFifo \/ reqFifo' = reqFifo \o push
    BY <1>4 DEF AxiTick
  <2>3. reqFifo' # <<>> /\ Head(reqFifo') = reqFifo[1]
    <3>1. CASE push = <<>>
      BY <3>1, <2>1, <2>2, <1>1, ConcatEmptySeq DEF Request
    <3>2. CASE push # <<>>
      <4>1. PICK e : push = <<e>>
        BY <3>2
      <4>2. PICK S : S = Entries \cup {e}
        OBVIOUS
      <4>3. reqFifo \in Seq(S) /\ e \in S
        <5>1. \A k \in 1..Len(reqFifo) : reqFifo[k] \in S
          BY <1>1, <4>2, ElementOfSeq
        <5>2. reqFifo \in [1..Len(reqFifo) -> S]
          BY <5>1, <1>1, LenProperties
        <5> QED BY <5>2, <2>1, <4>2, SeqDef
      <4>4. /\ reqFifo \o <<e>> \in Seq(S) /\ Len(reqFifo \o <<e>>) = Len(reqFifo) + 1
            /\ \A k \in 1..Len(reqFifo) : (reqFifo \o <<e>>)[k] = reqFifo[k]
        BY <4>3, Pushed
      <4>5. 1 \in 1..Len(reqFifo) /\ Len(reqFifo) + 1 # 0
        BY <2>1
      <4>6. reqFifo \o <<e>> # <<>> /\ Head(reqFifo \o <<e>>) = (reqFifo \o <<e>>)[1]
        BY <4>4, <4>5, EmptyOrNot
      <4>7. (reqFifo \o <<e>>)[1] = reqFifo[1]
        BY <4>4, <4>5
      <4> QED BY <4>1, <4>6, <4>7, <2>1, <2>2 DEF Request
    <3> QED BY <3>1, <3>2
  <2>4. outstanding' # 2
    <3>1. ~Await(rdy) /\ outstanding # 2
      BY <1>4 DEF Await, CanIssue
    <3>2. outstanding' = outstanding \/ (outstanding # 0 /\ outstanding' = outstanding - 1)
      BY <3>1 DEF AxiTick, OutstandingAfter
    <3> QED BY <3>1, <3>2, <1>1
  <2> QED BY <2>1, <2>3, <2>4 DEF CanIssue, Request
<1>5. ASSUME rdy = {}, IsWrite
      PROVE  /\ IsWrite' /\ awInhibit' = awInhibit /\ wInhibit' = wInhibit /\ skid' = skid
             /\ beatCnt' = beatCnt /\ Request' = Request
  <2>1. ~Accepted(rdy) /\ CanIssue
    BY <1>5 DEF Accepted, IsWrite
  <2>2. CanIssue' /\ Request' = Request
    BY <2>1, <1>4
  <2>3. IsWrite'
    BY <2>2, <1>5 DEF IsWrite
  <2>4. awInhibit' = awInhibit
    BY <1>5 DEF AxiTick, AwInhibitAfter
  <2>5. wInhibit' = wInhibit
    BY <1>5 DEF AxiTick
  <2>6. skid' = skid /\ beatCnt' = beatCnt
    BY <1>5 DEF AxiTick, BeatCntAfter
  <2> QED BY <2>2, <2>3, <2>4, <2>5, <2>6
<1>6. ASSUME AwValid, "aw" \notin rdy PROVE AwValid' /\ Address' = Address /\ rdy = {}
  <2>1. rdy = {}
    BY <1>2, <1>3, <1>6 DEF Readies
  <2> QED BY <2>1, <1>3, <1>5, <1>6 DEF AwValid, Address
<1>7. ASSUME ArValid, "ar" \notin rdy PROVE ArValid' /\ Address' = Address
  <2>1. ~Accepted(rdy) /\ CanIssue
    BY <1>2, <1>3, <1>7 DEF Accepted, ArValid, WValid
  <2>2. CanIssue' /\ Request' = Request
    BY <2>1, <1>4
  <2> QED BY <2>2, <1>7 DEF ArValid, Address
<1>8. ASSUME WValid, "w" \notin rdy PROVE WValid' /\ Data' = Data
  <2>1. CASE "aw" \in rdy
    <3>1. skid' = Data
      BY <2>1, <1>8 DEF AxiTick
    <3>2. Data # NoBeat
      <4>1. CASE skid # NoBeat
        BY <4>1 DEF Data
      <4>2. CASE skid = NoBeat
        <5>1. reqFifo # <<>> /\ Request \in Entries
          BY <4>2, <1>1, <1>8, EmptyOrNot DEF WValid, IsWrite, CanIssue, Request
        <5>2. Request.addr \in Addrs /\ Request.beat \in 0..(Beats - 1) /\ LastBeat \in BOOLEAN
          BY <5>1 DEF Entries, LastBeat
        <5>3. Data = [addr |-> Request.addr, beat |-> Request.beat, last |-> LastBeat]
          BY <4>2 DEF Data
        <5>4. Data \in [addr : Addrs, beat : 0..(Beats - 1), last : BOOLEAN]
          BY <5>2, <5>3
        <5> QED BY <5>4, NoBeatAssumption
      <4> QED BY <4>1, <4>2
    <3>3. skid' # NoBeat
      BY <3>1, <3>2
    <3>4. WValid'
      BY <3>3 DEF WValid
    <3>5. Data' = skid'
      BY <3>3 DEF Data
    <3> QED BY <3>1, <3>4, <3>5
  <2>2. CASE "aw" \notin rdy /\ skid # NoBeat
    <3>1. skid' = skid
      BY <2>2, <1>8 DEF AxiTick
    <3> QED BY <3>1, <2>2 DEF WValid, Data
  <2>3. CASE "aw" \notin rdy /\ skid = NoBeat
    <3>1. IsWrite /\ ~wInhibit
      BY <2>3, <1>8 DEF WValid
    <3>2. rdy = {}
      BY <3>1, <2>3, <1>2, <1>3, <1>8 DEF Readies
    <3>3. /\ IsWrite' /\ awInhibit' = awInhibit /\ wInhibit' = wInhibit /\ skid' = skid
          /\ beatCnt' = beatCnt /\ Request' = Request
      BY <3>1, <3>2, <1>5
    <3>4. WValid'
      BY <3>1, <3>3 DEF WValid
    <3>5. AwValid' <=> AwValid
      BY <3>1, <3>3 DEF AwValid
    <3>6. LastBeat' <=> LastBeat
      BY <3>3, <3>5 DEF LastBeat
    <3>7. LastBeat' = LastBeat
      BY <3>6 DEF LastBeat
    <3>8. Data' = Data
      BY <3>3, <3>7, <2>3 DEF Data
    <3> QED BY <3>4, <3>8
  <2> QED BY <2>1, <2>2, <2>3
<1> QED BY <1>6, <1>7, <1>8

(* AxiStable, of a step.                                                   *)
LEMMA AxiStableStep ==
  ASSUME AddressFirst, PathInv, Next
  PROVE  /\ AwValid /\ "aw" \notin bus'.took => AwValid' /\ Address' = Address
         /\ WValid /\ "w" \notin bus'.took => WValid' /\ Data' = Data
         /\ ArValid /\ "ar" \notin bus'.took => ArValid' /\ Address' = Address
<1>1. PICK in \in Sends, rdy \in Readies, b \in WriteAnswers, r \in ReadAnswers, go \in BOOLEAN :
        Clock(in, rdy, b, r, go)
  BY DEF Next
<1>2. BridgeType /\ wInhibit = FALSE
  BY BridgeTyped DEF PathInv, LsuInv
<1>3. AxiTick(Push(b, r, go), rdy, b, r)
  BY <1>1, ClockParts
<1>4. Push(b, r, go) = <<>> \/ (\E e : Push(b, r, go) = <<e>>)
  BY DEF Push, CoreOffers, UncOffers
<1>5. bus'.took = rdy
  BY <1>3 DEF AxiTick, BusTick
<1>6. PICK push : push = Push(b, r, go)
  OBVIOUS
<1> QED BY <1>2, <1>3, <1>4, <1>5, <1>6, OfferStays

(* FaultCallsBack, of a step.                                              *)
LEMMA FaultStep ==
  ASSUME AddressFirst, PathInv, Next,
         \/ unalignedE2
         \/ Awaited /\ IF muxCached THEN CoreAck /\ core.err ELSE bus'.gave = "err"
  PROVE  e1'.op = "none" /\ lsuFifo' = <<>>
<1>1. PICK in \in Sends, rdy \in Readies, b \in WriteAnswers, r \in ReadAnswers, go \in BOOLEAN :
        Clock(in, rdy, b, r, go)
  BY DEF Next
<1>2. LsuInv /\ WayInv /\ PathInv'
  BY PathStep DEF PathInv
<1>3. wInhibit' = FALSE
  BY <1>2 DEF PathInv, LsuInv
<1>4. lsuPend \/ ~Ack(b, r)
  BY <1>1, <1>2, FreeStep
<1>5. FaultE2(Ack(b, r), Err(b, r)) => e1'.op = "none" /\ lsuFifo' = <<>>
  BY <1>1, <1>2, <1>3, <1>4, LsuStep
<1>6. CASE unalignedE2
  BY <1>5, <1>6 DEF FaultE2
<1>7. CASE Awaited /\ muxCached /\ CoreAck /\ core.err
  BY <1>5, <1>7 DEF FaultE2, Ack, Err
<1>8. CASE Awaited /\ ~muxCached /\ bus'.gave = "err"
  <2>1. lsuPend
    BY <1>2, <1>8, AwaitedIsPending
  <2>2. Ack(b, r) <=> BusAck(b, r)
    BY <2>1, <1>1, <1>2, <1>8, UncStep
  <2>3. bus'.gave = IF b = "none" THEN r ELSE b
    <3>1. AxiTick(Push(b, r, go), rdy, b, r)
      BY <1>1, ClockParts
    <3> QED BY <3>1 DEF AxiTick, BusTick
  <2>4. BusAck(b, r) /\ BusErr(b, r)
    BY <2>3, <1>8 DEF BusAck, BusErr
  <2>5. Ack(b, r) /\ Err(b, r)
    BY <2>2, <2>4, <1>8 DEF Ack, Err, UncGets
  <2> QED BY <2>5, <1>5 DEF FaultE2
<1> QED BY <1>6, <1>7, <1>8

-----------------------------------------------------------------------------
(* The theorems                                                            *)

(* The path keeps its types: the queues of the load/store unit and of the  *)
(* bridge never hold more than they have room for, the beat counters and   *)
(* the count of answers awaited stay in range, and no register of the      *)
(* uncached path counts beyond the two answers it can hold.                *)
THEOREM PathTyped == ASSUME AddressFirst PROVE Spec => []TypeOK
BY PathInvariant, PathIsTyped, PTL

(* An access is in one place of the path while it is awaited, as it was    *)
(* asked, nothing of it is left once it is answered, and a burst of the    *)
(* cache never mixes with an access of a device: for lines of any number   *)
(* of beats, any set of addresses and any order of the answers.            *)
THEOREM Once == ASSUME AddressFirst PROVE Spec => []AccessedOnce
BY PathInvariant, PathIsOnce, PTL

(* The data beats on the AXI write channels are those of the address they  *)
(* come with, each once, in order, and only the last is marked as the last, *)
(* through the queue and the skid buffer of dcache_axi_axi.v.              *)
THEOREM Whole == ASSUME AddressFirst PROVE Spec => []BurstsWhole
<1>1. PathInv => BurstsWhole
  BY BridgeTyped DEF BridgeType
<1> QED BY <1>1, PathInvariant, PTL

(* What the bridge offers on an AXI channel and the slave does not take is *)
(* offered again in the next clock, unchanged.                             *)
THEOREM Stable == ASSUME AddressFirst PROVE Spec => AxiStable
<1>1. PathInv /\ [Next]_vars =>
        [/\ AwValid /\ "aw" \notin bus'.took => AwValid' /\ Address' = Address
         /\ WValid /\ "w" \notin bus'.took => WValid' /\ Data' = Data
         /\ ArValid /\ "ar" \notin bus'.took => ArValid' /\ Address' = Address]_vars
  BY AxiStableStep
<1> QED BY <1>1, PathInvariant, PTL DEF Spec, AxiStable

(* When an access is answered with an error, or was misaligned, the load/  *)
(* store unit forgets the access behind it before the memory is asked.     *)
THEOREM CalledBack == ASSUME AddressFirst PROVE Spec => FaultCallsBack
<1>1. PathInv /\ [Next]_vars =>
        [\/ unalignedE2
         \/ Awaited /\ IF muxCached THEN CoreAck /\ core.err ELSE bus'.gave = "err"
         => e1'.op = "none" /\ lsuFifo' = <<>>]_vars
  BY FaultStep
<1> QED BY <1>1, PathInvariant, PTL DEF Spec, FaultCallsBack

-----------------------------------------------------------------------------
(* The memory port                                                         *)

(* In a form that can be primed.                                           *)
LEMMA PendingAwaited == LsuInv => (Awaited <=> lsuPend)
BY AwaitedIsPending

(* The port after the last answer.                                         *)
LEMMA PortIdle ==
  ASSUME LsuInv', ~lsuPend'
  PROVE  Port' = MP!Idle
<1>1. ~Awaited'
  BY PendingAwaited, PTL
<1> QED BY <1>1 DEF Port, MP!Idle

(* The port after a new access is asked for.                               *)
LEMMA PortAsked ==
  ASSUME LsuInv', lsuPend', lsuFifo' = <<e1>>, e1 \in Accesses, e1.cached \/ BridgeEmpty'
  PROVE  Port' \in MP!AnyAsked
<1>1. Awaited'
  BY PendingAwaited, PTL
<1>2. Access' = e1
  BY One DEF Access
<1>3. Port' = [st |-> IF Served' THEN "served" ELSE "asked", req |-> e1]
  BY <1>1, <1>2 DEF Port
<1>4. ~e1.cached => ~Served'
  BY <1>2 DEF Served, BridgeEmpty
<1>5. Port' \in MP!Asked(e1)
  BY <1>3, <1>4 DEF MP!Asked
<1> QED BY <1>5 DEF MP!AnyAsked

(* An access of a device that is carried out waits for nothing but its     *)
(* answer.                                                                 *)
LEMMA ServedIsAlone ==
  ASSUME UncWay, Access.addr \in Addrs, Access.op \in LoadsStores, ~Access.cached, Served
  PROVE  reqFifo = <<>> /\ skid = NoBeat
<1>1. PICK a \in Addrs : a = Access.addr
  OBVIOUS
<1>2. ~BridgeEmpty
  BY DEF Served, BridgeEmpty
<1>3. 1 \in 1..Beats /\ 1 \in 0..1
  BY BeatsAssumption
<1>4. CASE Access.op = "wr"
  <2>1. Writing(a, 1, 1) /\ bus.aw # <<>> /\ Written
    BY <1>1, <1>2, <1>4 DEF UncWay, Served
  <2>2. Gone # 0 /\ bus.w \in Seq(DataBeats) /\ reqFifo \in Seq(Entries)
    BY <2>1 DEF Writing, Sending, Queued
  <2>3. bus.w # <<>>
    BY <2>1, One DEF Written
  <2>4. skid = NoBeat
    BY <2>1, <2>3 DEF Writing, Sending
  <2>5. Gone \in 0..1 /\ Len(reqFifo) = 1 - Gone
    BY <2>1, <1>3, WritingTypes, WritingBridge
  <2>6. Len(reqFifo) = 0
    BY <2>2, <2>5
  <2> QED BY <2>2, <2>4, <2>6, EmptySeq
<1>5. CASE Access.op = "rd"
  <2>1. Reading(a, 1, 1) /\ bus.ar # <<>>
    BY <1>1, <1>2, <1>5 DEF UncWay, Served
  <2> QED BY <2>1 DEF Reading
<1> QED BY <1>4, <1>5 DEF LoadsStores

(* It stays carried out until it is answered.                              *)
LEMMA ServedStays ==
  ASSUME AddressFirst, reqFifo = <<>>, skid = NoBeat, NEW rdy \in Readies, NEW push,
         AxiTick(push, rdy, "none", "none"), ~Access.cached, Served, Access' = Access
  PROVE  Served'
<1>1. ~AwValid /\ ~WValid /\ ~ArValid
  BY DEF AwValid, WValid, ArValid, IsWrite, CanIssue
<1>2. rdy = {}
  BY <1>1, Readied DEF Readies
<1>3. bus'.aw = bus.aw /\ bus'.w = bus.w /\ bus'.ar = bus.ar
  BY <1>2 DEF AxiTick, BusTick, ReadsAfter
<1>4. Written => Written'
  BY <1>3 DEF Written
<1> QED BY <1>3, <1>4 DEF Served

(* Every step of the path is one of the port, or none.                     *)
LEMMA PortStep ==
  ASSUME AddressFirst, PathInv, Next
  PROVE  MP!Next \/ Port' = Port
<1>1. PICK in \in Sends, rdy \in Readies, b \in WriteAnswers, r \in ReadAnswers, go \in BOOLEAN :
        Clock(in, rdy, b, r, go)
  BY DEF Next
<1>2. LsuInv /\ WayInv /\ LsuInv' /\ wInhibit' = FALSE /\ lsuPend \in BOOLEAN
  BY PathStep DEF PathInv, LsuInv
<1>3. /\ ~lsuPend => BridgeEmpty' /\ ~Ack(b, r)
      /\ lsuPend /\ muxCached => (Ack(b, r) <=> core.plan = <<>>) /\ (Issue(b, r) => e1.cached)
      /\ lsuPend /\ ~muxCached => /\ Ack(b, r) <=> BusAck(b, r)
                                  /\ BusAck(b, r) => Served /\ BridgeEmpty'
  <2>1. ~lsuPend => BridgeEmpty' /\ ~Ack(b, r)
    BY <1>1, <1>2, FreeStep
  <2>2. lsuPend /\ muxCached => (Ack(b, r) <=> core.plan = <<>>) /\ (Issue(b, r) => e1.cached)
    BY <1>1, <1>2, CoreStep
  <2>3. lsuPend /\ ~muxCached => /\ Ack(b, r) <=> BusAck(b, r)
                                 /\ BusAck(b, r) => Served /\ BridgeEmpty'
    BY <1>1, <1>2, UncStep
  <2> QED BY <2>1, <2>2, <2>3
<1>4. /\ Issue(b, r) => /\ lsuFifo' = <<e1>> /\ lsuPend' /\ e1 \in Accesses
                        /\ ~lsuPend \/ Ack(b, r)
      /\ ~Issue(b, r) /\ lsuPend /\ ~Ack(b, r) => lsuFifo' = lsuFifo /\ lsuPend'
      /\ ~Issue(b, r) /\ (lsuPend => Ack(b, r)) => ~lsuPend'
  BY <1>1, <1>2, <1>3, LsuStep DEF Ok
<1>5. Awaited <=> lsuPend
  BY <1>2, PendingAwaited
<1>6. CASE ~lsuPend
  <2>1. Port = MP!Idle
    BY <1>5, <1>6 DEF Port, MP!Idle
  <2>2. CASE Issue(b, r)
    <3>1. Port' \in MP!AnyAsked
      BY <2>2, <1>2, <1>3, <1>4, <1>6, PortAsked
    <3> QED BY <2>1, <3>1 DEF MP!Next, MP!Ask
  <2>3. CASE ~Issue(b, r)
    <3>1. Port' = MP!Idle
      BY <2>3, <1>2, <1>4, <1>6, PortIdle
    <3> QED BY <2>1, <3>1
  <2> QED BY <2>2, <2>3
<1>7. CASE lsuPend
  <2>1. /\ Access \in Accesses /\ Asks(Access) /\ Access.cached = muxCached
        /\ Access.addr \in Addrs
    BY <1>2, <1>7, AwaitedIs
  <2>2. Port = [st |-> IF Served THEN "served" ELSE "asked", req |-> Access]
    BY <1>5, <1>7 DEF Port
  <2>3. CASE Ack(b, r)
    <3>1. Served
      BY <2>1, <2>3, <1>3, <1>7 DEF Served
    <3>2. Port.st = "served"
      BY <2>2, <3>1
    <3>3. CASE Issue(b, r)
      <4>1. e1.cached \/ BridgeEmpty'
        BY <2>3, <3>3, <1>3, <1>7
      <4>2. Port' \in MP!AnyAsked
        BY <3>3, <4>1, <1>2, <1>4, PortAsked
      <4> QED BY <3>2, <4>2 DEF MP!Next, MP!Answer
    <3>4. CASE ~Issue(b, r)
      <4>1. Port' = MP!Idle
        BY <2>3, <3>4, <1>2, <1>4, PortIdle
      <4> QED BY <3>2, <4>1 DEF MP!Next, MP!Answer
    <3> QED BY <3>3, <3>4
  <2>4. CASE ~Ack(b, r)
    <3>1. lsuPend' /\ lsuFifo' = lsuFifo
      BY <2>4, <1>4, <1>7
    <3>2. Awaited' /\ Access' = Access
      <4>1. Awaited'
        BY <3>1, <1>2, PendingAwaited, PTL
      <4> QED BY <3>1, <4>1 DEF Access
    <3>3. Port' = [st |-> IF Served' THEN "served" ELSE "asked", req |-> Access]
      BY <3>2 DEF Port
    <3>4. Served => Served'
      <4> SUFFICES ASSUME Served PROVE Served'
        OBVIOUS
      <4>1. ~muxCached
        BY <2>1, <2>4, <1>3, <1>7 DEF Served
      <4>2. b = "none" /\ r = "none"
        BY <2>4, <4>1, <1>3, <1>7 DEF BusAck
      <4>3. UncWay /\ Access.op \in LoadsStores
        BY <2>1, <4>1, <1>2, <1>7 DEF WayInv, Asks
      <4>4. reqFifo = <<>> /\ skid = NoBeat
        BY <2>1, <4>1, <4>3, ServedIsAlone
      <4>5. AxiTick(Push(b, r, go), rdy, b, r)
        BY <1>1, ClockParts
      <4> QED BY <2>1, <3>2, <4>1, <4>2, <4>4, <4>5, ServedStays
    <3>5. CASE Served
      BY <2>2, <3>3, <3>4, <3>5
    <3>6. CASE ~Served /\ Served'
      <4>1. Port.st = "asked" /\ Port.req = Access
        BY <2>2, <3>6
      <4> QED BY <3>3, <3>6, <4>1 DEF MP!Next, MP!Serve
    <3>7. CASE ~Served /\ ~Served'
      BY <2>2, <3>3, <3>7
    <3> QED BY <3>5, <3>6, <3>7
  <2> QED BY <2>3, <2>4
<1> QED BY <1>6, <1>7

(* The path begins with an idle port.                                      *)
LEMMA PortInit == Init => MP!Init
<1> SUFFICES ASSUME Init PROVE MP!Init
  OBVIOUS
<1>1. ~Awaited
  BY DEF Init, LsuInit, Awaited
<1> QED BY <1>1 DEF Port, MP!Init, MP!Idle

(* Every step maps to a step or a stutter.                                 *)
LEMMA PortNext ==
  ASSUME AddressFirst, PathInv, [Next]_vars
  PROVE  [MP!Next]_Port
<1>1. CASE Next
  BY <1>1, PortStep
<1>2. CASE UNCHANGED vars
  BY <1>2 DEF vars, lsuVars, axiVars, Port, Awaited, Access, Served, Written
<1> QED BY <1>1, <1>2

(* The path implements one memory port: one access at a time, carried out  *)
(* once, answered after that and not before, the next one at the earliest  *)
(* in the clock of the answer.                                             *)
THEOREM PortImplemented == ASSUME AddressFirst PROVE Spec => ImplementsMemoryPort
<1>1. PathInv /\ [Next]_vars => [MP!Next]_Port
  BY PortNext
<1> QED BY <1>1, PathInvariant, PortInit, PTL DEF Spec, MP!Spec, ImplementsMemoryPort
=============================================================================
