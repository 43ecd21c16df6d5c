-------------------------- MODULE BenchPathProofs ---------------------------
(***************************************************************************)
(* Theorems about BenchPath: the memory of the test bench keeps the        *)
(* contract that MemoryPath assumes of a slave, whatever it draws for its  *)
(* delays, and no read overtakes a write to its word.  The proof runs the  *)
(* bench along the invariant of MemoryPathProofs.                          *)
(***************************************************************************)
EXTENDS BenchPath, MemoryPathProofs

(* The bursts of both caches count upwards, and an address is a number.    *)
CountsUp == BurstType = "incr" /\ Addrs \subseteq Nat

-----------------------------------------------------------------------------
(* The inductive invariant                                                 *)

(* What the slave has of the burst on the bus.                             *)
BusIdle == bus.aw = <<>> /\ bus.ar = <<>>
BusTakes(a, n, m) ==
    bus.aw = <<[addr |-> a, len |-> n - 1]>> /\ bus.ar = <<>> /\ Len(bus.w) = m
BusGives(a, left) == bus.aw = <<>> /\ bus.ar = <<[addr |-> a, left |-> left]>>

(* The accesses of a write of n beats to a, of which m are taken: the last *)
(* ones of them wait to be stored.                                         *)
Store(a, n, k) == [at |-> Word(a, k), data |-> DataBeat(a, n, k), last |-> k = n - 1]
Stores(a, n) == {Store(a, n, k) : k \in 0..(n - 1)}
Storing(q, a, n, m) ==
    /\ q \in Seq(Stores(a, n)) /\ Len(q) <= m
    /\ \A k \in 1..Len(q) : q[k] = Store(a, n, m - Len(q) + k - 1)
Recorded(a, n, m) == IF m = n THEN <<>> ELSE <<[at |-> Word(a, m), len |-> n - 1]>>
WriteIdle == slave.wrReq = <<>> /\ slave.wrQ = <<>> /\ ~slave.b
SlaveTakes(a, n, m) ==
    /\ slave.wrReq = Recorded(a, n, m)
    /\ Storing(slave.wrQ, a, n, m)
    /\ slave.b => slave.wrQ = <<>> /\ m = n

(* The accesses of a read that are still to be made.                       *)
LastAt(x, k, n) == x.last = (k = n)
Loading(q, count) ==
    /\ \E S : q \in Seq(S)
    /\ Len(q) = count /\ \A k \in 1..Len(q) : LastAt(q[k], k, Len(q))
ReadIdle == slave.rdQ = <<>> /\ slave.r = <<>>
SlaveGives(left) ==
    \/ slave.r = <<>> /\ Loading(slave.rdQ, left + 1)
    \/ Loading(slave.rdQ, left) /\ \E x : slave.r = <<x>> /\ LastAt(x, left, 0)

ReadyInv ==
    /\ slave.ready \subseteq {"ar", "aw", "w"}
    /\ "aw" \in slave.ready => slave.wrReq = <<>>
    /\ "w" \in slave.ready /\ slave.wrReq = <<>> => "aw" \in slave.ready

Bench ==
    \/ BusIdle /\ WriteIdle /\ ReadIdle
    \/ \E a \in Addrs, n \in 1..Beats : \E m \in 0..n :
          BusTakes(a, n, m) /\ SlaveTakes(a, n, m) /\ ReadIdle
    \/ \E a \in Addrs, left \in 0..(Beats - 1) :
          BusGives(a, left) /\ SlaveGives(left) /\ WriteIdle
BenchInv == PathInv /\ ReadyInv /\ Bench

-----------------------------------------------------------------------------
(* What the bridge offers                                                  *)

(* Of the bridge no more is needed than the burst in it.                   *)
OneBurst ==
    \/ BridgeEmpty
    \/ \E a \in Addrs, n \in 1..Beats : \E in \in 0..n : Writing(a, n, in)
    \/ \E a \in Addrs, n \in 1..Beats, left \in 1..Beats : left <= n /\ Reading(a, n, left)

LEMMA PathHasOneBurst ==
  ASSUME PathInv
  PROVE  OneBurst /\ wInhibit = FALSE
<1>1. LsuInv /\ WayInv /\ wInhibit = FALSE
  BY DEF PathInv, LsuInv
<1>2. CASE ~lsuPend
  BY <1>1, <1>2 DEF WayInv, OneBurst
<1>3. CASE lsuPend /\ ~muxCached
  <2>1. UncWay /\ Access.addr \in Addrs /\ 1 \in 1..Beats /\ 1 \in 0..1
    BY <1>1, <1>3, AwaitedIs, BeatsAssumption DEF WayInv
  <2>2. PICK a \in Addrs : a = Access.addr
    BY <2>1
  <2>3. BridgeEmpty \/ Writing(a, 1, 1) \/ Reading(a, 1, 1)
    BY <2>1, <2>2 DEF UncWay
  <2>4. 1 <= 1
    OBVIOUS
  <2> QED BY <2>1, <2>3, <2>4, <1>1 DEF OneBurst
<1>4. CASE lsuPend /\ muxCached
  <2>1. OnItsWay /\ CoreType(core)
    BY <1>1, <1>4 DEF WayInv, CoreWay, OnItsWay
  <2>2. CASE core.plan = <<>>
    BY <2>1, <2>2, <1>1 DEF OnItsWay, OneBurst
  <2>3. CASE core.plan # <<>>
    <3>1. PICK a \in Addrs : Head(core.plan).addr = a
      BY <2>1, <2>3, HeadBurst DEF CoreType
    <3>2. PICK left \in 0..(Beats + 1) : core.left = left
      BY <2>1 DEF CoreType
    <3>3. Head(core.plan).op \in {"rd", "wr"}
      BY <2>1, <2>3, HeadBurst DEF CoreType, LoadsStores
    <3>4. CASE Head(core.plan).op = "wr"
      <4>1. left <= Beats /\ Writing(a, Beats, Beats - left)
        BY <3>1, <3>2, <3>4, <2>1, <2>3 DEF OnItsWay
      <4>2. Beats - left \in 0..Beats
        BY <4>1, BeatsAre
      <4> QED BY <4>1, <4>2, <1>1, BeatsAre DEF OneBurst
    <3>5. CASE Head(core.plan).op = "rd"
      <4>1. left >= 1 /\ (left = Beats + 1 => BridgeEmpty) /\ (left # Beats + 1 => Reading(a, Beats, left))
        BY <3>1, <3>2, <3>5, <2>1, <2>3 DEF OnItsWay
      <4>2. CASE left = Beats + 1
        BY <4>1, <4>2, <1>1 DEF OneBurst
      <4>3. CASE left # Beats + 1
        <5>1. left \in 1..Beats /\ left <= Beats
          BY <4>1, <4>3, BeatsAre
        <5> QED BY <5>1, <4>1, <4>3, <1>1, BeatsAre DEF OneBurst
      <4> QED BY <4>2, <4>3
    <3> QED BY <3>3, <3>4, <3>5
  <2> QED BY <2>2, <2>3
<1>5. lsuPend \in BOOLEAN /\ muxCached \in BOOLEAN
  BY <1>1 DEF LsuInv
<1> QED BY <1>2, <1>3, <1>4, <1>5

LEMMA NothingOffered ==
  ASSUME reqFifo = <<>>, skid = NoBeat
  PROVE  ~AwValid /\ ~WValid /\ ~ArValid
BY DEF AwValid, WValid, ArValid, IsWrite, CanIssue

(* Between two bursts: the address and the first beat of a write, or a     *)
(* read.                                                                   *)
IdleOffers(a, n) ==
    /\ bus.w = <<>> /\ skid = NoBeat
    /\ AwValid => Address = [addr |-> a, len |-> n - 1] /\ Request.addr = a /\ Request.len = n - 1
    /\ WValid => AwValid /\ Data = DataBeat(a, n, 0)
    /\ ArValid => ~AwValid /\ Request.addr \in Addrs /\ Request.len \in 0..(Beats - 1)

LEMMA OffersIdle ==
  ASSUME OneBurst, wInhibit = FALSE, BusIdle
  PROVE  \E a \in Addrs, n \in 1..Beats : IdleOffers(a, n)
<1>1. PICK d \in Addrs : TRUE
  BY AddrsAssumption
<1>2. CASE BridgeEmpty
  <2>1. ~AwValid /\ ~WValid /\ ~ArValid
    BY <1>2, NothingOffered DEF BridgeEmpty
  <2>2. IdleOffers(d, Beats)
    BY <2>1, <1>2 DEF BridgeEmpty, IdleOffers
  <2> QED BY <2>2, <1>1, BeatsAre
<1>3. ASSUME NEW a \in Addrs, NEW n \in 1..Beats, NEW in \in 0..n, Writing(a, n, in)
      PROVE  IdleOffers(a, n)
  <2>1. Gone = 0
    BY <1>3, One DEF Writing, Sending, BusIdle
  <2>2. /\ Len(bus.w) \in 0..n /\ Skidded \in 0..1 /\ Gone = Len(bus.w) + Skidded
        /\ (skid # NoBeat <=> Skidded = 1) /\ (bus.w = <<>> <=> Len(bus.w) = 0)
    BY <1>3, WritingTypes
  <2>3. n \in Nat
    BY BeatsAssumption
  <2>4. Len(bus.w) = 0 /\ Skidded = 0
    BY <2>1, <2>2, <2>3
  <2>5. bus.w = <<>> /\ skid = NoBeat
    BY <2>2, <2>4
  <2>6. /\ reqFifo # <<>> => Request = WriteBeat(a, n, Gone)
        /\ ~ArValid
        /\ AwValid <=> reqFifo # <<>> /\ Gone = 0
        /\ WValid <=> reqFifo # <<>> \/ skid # NoBeat
        /\ WValid => Data = DataBeat(a, n, Len(bus.w))
        /\ AwValid => Address = [addr |-> a, len |-> n - 1]
    BY <1>3, WritingOffers
  <2>7. AwValid => Request.addr = a /\ Request.len = n - 1
    BY <2>1, <2>6 DEF WriteBeat
  <2>8. WValid => AwValid /\ Data = DataBeat(a, n, 0)
    BY <2>1, <2>4, <2>5, <2>6
  <2> QED BY <2>5, <2>6, <2>7, <2>8 DEF IdleOffers
<1>4. ASSUME NEW a \in Addrs, NEW n \in 1..Beats, NEW left, Reading(a, n, left)
      PROVE  IdleOffers(a, n)
  <2>1. reqFifo = <<ReadRequest(a, n)>> /\ skid = NoBeat /\ bus.w = <<>>
    BY <1>4, One DEF Reading, BusIdle
  <2>2. Request = ReadRequest(a, n)
    BY <2>1, One DEF Request
  <2>3. Request.op = "rd" /\ Request.addr = a /\ Request.len = n - 1
    BY <2>2 DEF ReadRequest
  <2>4. ~AwValid /\ ~WValid
    BY <2>1, <2>3 DEF AwValid, WValid, IsWrite
  <2>5. n - 1 \in 0..(Beats - 1)
    BY BeatsAssumption
  <2> QED BY <2>1, <2>3, <2>4, <2>5 DEF IdleOffers
<1> QED BY <1>2, <1>3, <1>4 DEF OneBurst

(* Of a write whose address is taken only data are left to be offered.     *)
LEMMA OffersTaken ==
  ASSUME OneBurst, wInhibit = FALSE, NEW a \in Addrs, NEW n \in 1..Beats, NEW m \in 0..n, BusTakes(a, n, m)
  PROVE  /\ ~AwValid /\ ~ArValid
         /\ WValid => m < n /\ Data = DataBeat(a, n, m)
         /\ skid # NoBeat => m = 0
         /\ m = n => Written
<1>1. n \in Nat /\ m \in Nat /\ n >= 1 /\ m <= n
  BY BeatsAssumption
<1>2. bus.aw = <<[addr |-> a, len |-> n - 1]>> /\ bus.aw # <<>> /\ bus.ar = <<>> /\ Len(bus.w) = m
  BY One DEF BusTakes
<1>4. PICK in \in 0..n : Writing(a, n, in)
  <2>1. PICK a2 \in Addrs, n2 \in 1..Beats : \E in \in 0..n2 : Writing(a2, n2, in)
    BY <1>2 DEF OneBurst, BridgeEmpty, Reading
  <2>2. PICK in \in 0..n2 : Writing(a2, n2, in)
    BY <2>1
  <2>3. bus.aw = <<[addr |-> a2, len |-> n2 - 1]>>
    BY <2>2, <1>2 DEF Writing, Sending
  <2>4. [addr |-> a2, len |-> n2 - 1] = [addr |-> a, len |-> n - 1]
    BY <2>3, <1>2, One
  <2>5. a2 = a /\ n2 - 1 = n - 1
    BY <2>4
  <2>6. n2 = n
    BY <2>5, BeatsAssumption
  <2> QED BY <2>2, <2>5, <2>6
<1>5. /\ Gone \in 0..n /\ Skidded \in 0..1 /\ Gone = Len(bus.w) + Skidded /\ Gone <= in
      /\ (skid # NoBeat => Len(bus.w) = 0 /\ Gone = 1) /\ (skid # NoBeat <=> Skidded = 1)
  BY <1>4, WritingTypes
<1>6. Gone # 0
  BY <1>2, <1>4 DEF Writing, Sending
<1>7. /\ ~ArValid
      /\ AwValid <=> reqFifo # <<>> /\ Gone = 0
      /\ WValid <=> reqFifo # <<>> \/ skid # NoBeat
      /\ WValid => Data = DataBeat(a, n, Len(bus.w))
  BY <1>4, WritingOffers
<1>8. reqFifo # <<>> => Gone < n
  <2>1. reqFifo \in Seq(Entries) /\ Gone + Len(reqFifo) = in
    BY <1>4 DEF Writing, Queued
  <2>2. reqFifo # <<>> => Len(reqFifo) >= 1 /\ Len(reqFifo) \in Nat
    BY <2>1, EmptyOrNot
  <2>3. in \in Nat /\ in <= n
    BY <1>1, <1>4
  <2> QED BY <2>1, <2>2, <2>3, <1>1, <1>5
<1>9. WValid => m < n
  <2>1. CASE skid # NoBeat
    BY <2>1, <1>1, <1>2, <1>5
  <2>2. CASE skid = NoBeat /\ WValid
    <3>1. Gone < n
      BY <2>2, <1>7, <1>8
    <3>2. m <= Gone
      BY <1>1, <1>2, <1>5
    <3> QED BY <3>1, <3>2, <1>1, <1>5
  <2> QED BY <2>1, <2>2
<1>10. m = n => Written
  <2> SUFFICES ASSUME m = n PROVE Written
    OBVIOUS
  <2>1. bus.w \in Seq(DataBeats) /\ \A k \in 1..Len(bus.w) : bus.w[k] = DataBeat(a, n, k - 1)
    BY <1>4 DEF Writing, Sending
  <2>2. n \in 1..Len(bus.w)
    BY <1>1, <1>2
  <2>3. bus.w[n] = DataBeat(a, n, n - 1)
    BY <2>1, <2>2
  <2>4. bus.w[n].last
    <3>1. \A k : k = n - 1 => DataBeat(a, n, k).last
      BY DEF DataBeat
    <3> QED BY <3>1, <2>3
  <2>5. n \in DOMAIN bus.w
    BY <2>1, <2>2, LenProperties
  <2> QED BY <2>4, <2>5 DEF Written
<1> QED BY <1>2, <1>5, <1>6, <1>7, <1>9, <1>10

(* While a read is served nothing is offered.                              *)
LEMMA OffersGiven ==
  ASSUME OneBurst, NEW a, NEW left, BusGives(a, left)
  PROVE  reqFifo = <<>> /\ skid = NoBeat /\ ~AwValid /\ ~WValid /\ ~ArValid
<1>1. bus.aw = <<>> /\ bus.ar # <<>>
  BY One DEF BusGives
<1>2. PICK a2 \in Addrs, n2 \in 1..Beats, left2 \in 1..Beats : Reading(a2, n2, left2)
  BY <1>1 DEF OneBurst, BridgeEmpty, Writing, Sending
<1>3. reqFifo = <<>> /\ skid = NoBeat
  BY <1>1, <1>2 DEF Reading
<1> QED BY <1>3, NothingOffered

-----------------------------------------------------------------------------
(* What the memory takes, and that it keeps the contract                   *)

(* The channels that are taken are the ready ones that are offered.        *)
LEMMA TakenIs ==
  ASSUME ReadyInv
  PROVE  /\ Taken(Offered) \subseteq {"ar", "aw", "w"}
         /\ "ar" \in Taken(Offered) <=> "ar" \in slave.ready /\ ArValid
         /\ "aw" \in Taken(Offered) <=> "aw" \in slave.ready /\ AwValid
         /\ "w" \in Taken(Offered) <=> "w" \in slave.ready /\ WValid
<1>1. /\ Offered["ar"] # <<>> <=> ArValid
      /\ Offered["aw"] # <<>> <=> AwValid
      /\ Offered["w"] # <<>> <=> WValid
  <2>1. Req(ArValid) # <<>> <=> ArValid
    BY One DEF Req
  <2>2. Req(AwValid) # <<>> <=> AwValid
    BY One DEF Req
  <2>3. (IF WValid THEN <<Data>> ELSE <<>>) # <<>> <=> WValid
    BY One
  <2> QED BY <2>1, <2>2, <2>3 DEF Offered
<1> QED BY <1>1 DEF Taken, ReadyInv

(* The first elements of what is offered.                                  *)
LEMMA OfferedIs ==
  /\ ArValid => Offered.ar[1] = [at |-> Word(Request.addr, 0), len |-> Request.len]
  /\ AwValid => Offered.aw = <<[at |-> Word(Request.addr, 0), len |-> Request.len]>>
  /\ WValid => Offered.w[1] = Data
BY One DEF Offered, Req

(* The access of a write, field by field.                                  *)
LEMMA StoreIs ==
  ASSUME NEW a, NEW n, NEW k
  PROVE  /\ Store(a, n, k).at = Word(a, k) /\ Store(a, n, k).data = DataBeat(a, n, k)
         /\ Store(a, n, k).last <=> k = n - 1
         /\ DataBeat(a, n, k).addr = a /\ DataBeat(a, n, k).beat = k
         /\ DataBeat(a, n, k).last <=> k = n - 1
<1>1. /\ \A j : j = n - 1 => Store(a, n, j).last /\ DataBeat(a, n, j).last
      /\ \A j : j # n - 1 => ~Store(a, n, j).last /\ ~DataBeat(a, n, j).last
  BY DEF Store, DataBeat
<1>2. /\ Store(a, n, k).at = Word(a, k) /\ Store(a, n, k).data = DataBeat(a, n, k)
      /\ DataBeat(a, n, k).addr = a /\ DataBeat(a, n, k).beat = k
  BY DEF Store, DataBeat
<1> QED BY <1>1, <1>2

(* What is stored next, and what stays in the queue: only the last beat of *)
(* the burst is marked as the last, and it is stored with none behind it.  *)
LEMMA StoringNext ==
  ASSUME NEW a, NEW n \in 1..Beats, NEW m \in 0..n, NEW q, Storing(q, a, n, m), q # <<>>
  PROVE  /\ Storing(Tail(q), a, n, m)
         /\ Head(q).last => Tail(q) = <<>> /\ m = n
<1>1. q \in Seq(Stores(a, n)) /\ Len(q) \in Nat /\ Len(q) >= 1 /\ Head(q) = q[1]
  BY EmptyOrNot DEF Storing
<1>2. /\ Tail(q) \in Seq(Stores(a, n)) /\ Len(Tail(q)) = Len(q) - 1
      /\ \A k \in 1..(Len(q) - 1) : Tail(q)[k] = q[k + 1]
  BY <1>1, HeadTailProperties
<1>3. n \in Nat /\ m \in Nat /\ m <= n
  BY BeatsAssumption
<1>4. Len(q) <= m /\ \A k \in 1..Len(q) : q[k] = Store(a, n, m - Len(q) + k - 1)
  BY DEF Storing
<1>5. ASSUME NEW k \in 1..Len(Tail(q))
      PROVE  Tail(q)[k] = Store(a, n, m - Len(Tail(q)) + k - 1)
  <2>1. k \in 1..(Len(q) - 1) /\ k + 1 \in 1..Len(q)
    BY <1>1, <1>2
  <2>2. Tail(q)[k] = Store(a, n, m - Len(q) + (k + 1) - 1)
    BY <2>1, <1>2, <1>4
  <2>3. m - Len(q) + (k + 1) - 1 = m - Len(Tail(q)) + k - 1
    BY <2>1, <1>1, <1>2, <1>3
  <2> QED BY <2>2, <2>3
<1>6. Storing(Tail(q), a, n, m)
  <2>1. Len(Tail(q)) <= m
    BY <1>1, <1>2, <1>3, <1>4
  <2> QED BY <2>1, <1>2, <1>5 DEF Storing
<1>7. ASSUME Head(q).last PROVE Tail(q) = <<>> /\ m = n
  <2>1. 1 \in 1..Len(q)
    BY <1>1
  <2>2. q[1] = Store(a, n, m - Len(q) + 1 - 1)
    BY <2>1, <1>4
  <2>3. m - Len(q) + 1 - 1 = m - Len(q)
    BY <1>1, <1>3
  <2>4. m - Len(q) = n - 1
    BY <2>2, <2>3, <1>1, <1>7, StoreIs
  <2>5. m = n /\ Len(q) - 1 = 0
    <3>1. PICK l \in Nat : l = Len(q)
      BY <1>1
    <3>2. l >= 1 /\ m - l = n - 1
      BY <3>1, <2>4, <1>1
    <3>3. l = 1 /\ m = n
      BY <3>2, <1>3
    <3> QED BY <3>1, <3>3
  <2>6. Tail(q) = <<>>
    BY <2>5, <1>2, EmptyOrNot
  <2> QED BY <2>5, <2>6
<1> QED BY <1>6, <1>7

(* The next beat is queued behind those of its burst.                      *)
LEMMA StoringMore ==
  ASSUME NEW a, NEW n \in 1..Beats, NEW m \in 0..n, m < n, NEW q, Storing(q, a, n, m)
  PROVE  Storing(q \o <<Store(a, n, m)>>, a, n, m + 1) /\ q \o <<Store(a, n, m)>> # <<>>
<1>1. n \in Nat /\ m \in Nat /\ m \in 0..(n - 1)
  BY BeatsAssumption
<1>2. q \in Seq(Stores(a, n)) /\ Len(q) \in Nat /\ Store(a, n, m) \in Stores(a, n)
  BY <1>1, EmptyOrNot DEF Storing, Stores
<1>3. PICK s : s = q \o <<Store(a, n, m)>>
  OBVIOUS
<1>4. /\ s \in Seq(Stores(a, n)) /\ Len(s) = Len(q) + 1
      /\ \A k \in 1..Len(q) : s[k] = q[k]
      /\ s[Len(q) + 1] = Store(a, n, m)
  BY <1>2, <1>3, Pushed
<1>5. Len(q) <= m /\ \A k \in 1..Len(q) : q[k] = Store(a, n, m - Len(q) + k - 1)
  BY DEF Storing
<1>6. ASSUME NEW k \in 1..Len(s)
      PROVE  s[k] = Store(a, n, (m + 1) - Len(s) + k - 1)
  <2>1. CASE k = Len(q) + 1
    <3>1. (m + 1) - Len(s) + k - 1 = m
      BY <2>1, <1>1, <1>2, <1>4
    <3> QED BY <3>1, <2>1, <1>4
  <2>2. CASE k # Len(q) + 1
    <3>1. k \in 1..Len(q)
      BY <2>2, <1>2, <1>4
    <3>2. (m + 1) - Len(s) + k - 1 = m - Len(q) + k - 1
      BY <3>1, <1>1, <1>2, <1>4
    <3> QED BY <3>1, <3>2, <1>4, <1>5
  <2> QED BY <2>1, <2>2
<1>7. Len(s) <= m + 1 /\ s # <<>>
  BY <1>1, <1>2, <1>4, <1>5, EmptyOrNot
<1>8. Storing(s, a, n, m + 1)
  BY <1>4, <1>6, <1>7 DEF Storing
<1> QED BY <1>3, <1>7, <1>8

(* Nothing of a write is in the queue that is empty.                       *)
LEMMA StoringNone ==
  ASSUME NEW a, NEW n, NEW m \in Nat
  PROVE  Storing(<<>>, a, n, m)
<1>1. <<>> \in Seq(Stores(a, n)) /\ Len(<<>>) = 0 /\ 1..0 = {}
  OBVIOUS
<1> QED BY <1>1 DEF Storing

(* The mark of the last one does not depend on how they are counted.       *)
LEMMA Recounted ==
  ASSUME NEW x, NEW k, NEW n, NEW j, NEW p, LastAt(x, k, n), k = n <=> j = p
  PROVE  LastAt(x, j, p)
<1>1. CASE k = n
  BY <1>1 DEF LastAt
<1>2. CASE k # n
  BY <1>2 DEF LastAt
<1> QED BY <1>1, <1>2

(* Of the accesses of a read the last one is marked, at each time.         *)
LEMMA LoadingNext ==
  ASSUME NEW count \in Nat, NEW q, Loading(q, count), q # <<>>
  PROVE  /\ count >= 1 /\ Loading(Tail(q), count - 1)
         /\ LastAt(Head(q), count, 1)
<1>1. PICK S : q \in Seq(S)
  BY DEF Loading
<1>2. Len(q) \in Nat /\ Len(q) >= 1 /\ Head(q) = q[1] /\ Len(q) = count
  BY <1>1, EmptyOrNot DEF Loading
<1>3. /\ Tail(q) \in Seq(S) /\ Len(Tail(q)) = Len(q) - 1
      /\ \A k \in 1..(Len(q) - 1) : Tail(q)[k] = q[k + 1]
  BY <1>1, <1>2, HeadTailProperties
<1>4. \A k \in 1..Len(q) : LastAt(q[k], k, Len(q))
  BY DEF Loading
<1>5. ASSUME NEW k \in 1..Len(Tail(q))
      PROVE  LastAt(Tail(q)[k], k, Len(Tail(q)))
  <2>1. k \in 1..(Len(q) - 1) /\ k + 1 \in 1..Len(q) /\ (k + 1 = Len(q) <=> k = Len(Tail(q)))
    BY <1>2, <1>3
  <2>2. Tail(q)[k] = q[k + 1]
    BY <2>1, <1>3
  <2>3. LastAt(q[k + 1], k + 1, Len(q))
    BY <2>1, <1>4
  <2> QED BY <2>1, <2>2, <2>3, Recounted
<1>6. Loading(Tail(q), count - 1)
  BY <1>2, <1>3, <1>5 DEF Loading
<1>7. 1 \in 1..Len(q)
  BY <1>2
<1>8. LastAt(q[1], count, 1)
  <2>1. LastAt(q[1], 1, Len(q)) /\ (1 = Len(q) <=> count = 1)
    BY <1>2, <1>7, <1>4
  <2> QED BY <2>1, Recounted
<1> QED BY <1>2, <1>6, <1>8

(* A burst is unrolled into its accesses, of which the last is marked.     *)
Single(at, count, k) == [at |-> at[k - 1], last |-> k = count]
Singles(at, count) == [k \in 1..count |-> Single(at, count, k)]
LEMMA SinglesLoad ==
  ASSUME NEW at, NEW count \in Nat
  PROVE  Loading(Singles(at, count), count)
<1>1. PICK q : q = Singles(at, count)
  OBVIOUS
<1>2. PICK S : S = {q[k] : k \in 1..count}
  OBVIOUS
<1>3. q \in [1..count -> S]
  BY <1>1, <1>2 DEF Singles
<1>4. q \in Seq(S) /\ Len(q) = count
  BY <1>3, SeqDef, LenProperties
<1>5. ASSUME NEW k \in 1..count PROVE LastAt(q[k], k, count)
  <2>1. q[k] = Single(at, count, k)
    BY <1>1 DEF Singles
  <2>2. Single(at, count, k).last = (k = count)
    BY DEF Single
  <2> QED BY <2>1, <2>2 DEF LastAt
<1> QED BY <1>1, <1>4, <1>5 DEF Loading

LEMMA UnrolledLoads ==
  ASSUME NEW req, req.len \in Nat
  PROVE  Loading(Unrolled(req), req.len + 1)
<1> DEFINE at[k \in 0..req.len] == IF k = 0 THEN req.at ELSE NextAddr(at[k - 1], req.len)
<1>1. Unrolled(req) = Singles(at, req.len + 1)
  BY DEF Unrolled, Singles, Single
<1> QED BY <1>1, SinglesLoad

(* The contract in its parts, by what is under way.                        *)
ItemOk(item) == item.at = Word(item.data.addr, item.data.beat)
Keeps ==
    /\ AwValid => slave.wrReq = <<>>
    /\ WValid => AwValid \/ slave.wrReq # <<>>
    /\ slave.b => bus.aw # <<>> /\ Written
    /\ slave.r # <<>> => bus.ar # <<>> /\ LastAt(slave.r[1], bus.ar[1].left, 0)
    /\ \A k \in DOMAIN slave.wrQ : ItemOk(slave.wrQ[k])

LEMMA IdleKeeps ==
  ASSUME OneBurst, wInhibit = FALSE, BusIdle, WriteIdle, ReadIdle
  PROVE  Keeps
<1>1. PICK a \in Addrs, n \in 1..Beats : IdleOffers(a, n)
  BY OffersIdle
<1>2. slave.wrReq = <<>> /\ slave.wrQ = <<>> /\ ~slave.b /\ slave.r = <<>>
  BY DEF WriteIdle, ReadIdle
<1>3. WValid => AwValid
  BY <1>1 DEF IdleOffers
<1>4. DOMAIN slave.wrQ = {}
  BY <1>2, One
<1> QED BY <1>2, <1>3, <1>4 DEF Keeps

LEMMA TakesKeeps ==
  ASSUME OneBurst, wInhibit = FALSE, NEW a \in Addrs, NEW n \in 1..Beats, NEW m \in 0..n,
         BusTakes(a, n, m), SlaveTakes(a, n, m), ReadIdle
  PROVE  Keeps
<1>1. /\ ~AwValid /\ (WValid => m < n) /\ (m = n => Written)
  BY OffersTaken
<1>2. slave.r = <<>> /\ slave.wrReq = Recorded(a, n, m) /\ Storing(slave.wrQ, a, n, m) /\ (slave.b => m = n)
  BY DEF ReadIdle, SlaveTakes
<1>3. bus.aw # <<>>
  BY One DEF BusTakes
<1>4. WValid => slave.wrReq # <<>>
  <2>1. n \in Nat /\ m \in Nat
    BY BeatsAssumption
  <2>2. m < n => Recorded(a, n, m) = <<[at |-> Word(a, m), len |-> n - 1]>>
    BY <2>1 DEF Recorded
  <2> QED BY <1>1, <1>2, <2>2, One
<1>5. ASSUME NEW k \in DOMAIN slave.wrQ PROVE ItemOk(slave.wrQ[k])
  <2>1. k \in 1..Len(slave.wrQ)
    BY <1>2, LenProperties DEF Storing
  <2>2. slave.wrQ[k] = Store(a, n, m - Len(slave.wrQ) + k - 1)
    BY <1>2, <2>1 DEF Storing
  <2> QED BY <2>2, StoreIs DEF ItemOk
<1> QED BY <1>1, <1>2, <1>3, <1>4, <1>5 DEF Keeps

LEMMA GivesKeeps ==
  ASSUME OneBurst, NEW a, NEW left, BusGives(a, left), SlaveGives(left), WriteIdle
  PROVE  Keeps
<1>1. ~AwValid /\ ~WValid
  BY OffersGiven
<1>2. slave.wrQ = <<>> /\ ~slave.b /\ DOMAIN slave.wrQ = {}
  BY One DEF WriteIdle
<1>3. bus.ar # <<>> /\ bus.ar[1].left = left
  BY One DEF BusGives
<1>4. slave.r # <<>> => LastAt(slave.r[1], left, 0)
  <2>1. ASSUME NEW x, slave.r = <<x>>, LastAt(x, left, 0) PROVE LastAt(slave.r[1], left, 0)
    BY <2>1, One
  <2> QED BY <2>1 DEF SlaveGives
<1> QED BY <1>1, <1>2, <1>3, <1>4 DEF Keeps

LEMMA BenchKeeps == BenchInv => OneBurst /\ wInhibit = FALSE /\ ReadyInv /\ Keeps
<1> SUFFICES ASSUME BenchInv PROVE OneBurst /\ wInhibit = FALSE /\ ReadyInv /\ Keeps
  OBVIOUS
<1>1. OneBurst /\ wInhibit = FALSE /\ ReadyInv /\ Bench
  BY PathHasOneBurst DEF BenchInv
<1>2. CASE BusIdle /\ WriteIdle /\ ReadIdle
  BY <1>1, <1>2, IdleKeeps
<1>3. CASE \E a \in Addrs, n \in 1..Beats : \E m \in 0..n :
             BusTakes(a, n, m) /\ SlaveTakes(a, n, m) /\ ReadIdle
  BY <1>1, <1>3, TakesKeeps
<1>4. CASE \E a \in Addrs, left \in 0..(Beats - 1) :
             BusGives(a, left) /\ SlaveGives(left) /\ WriteIdle
  BY <1>1, <1>4, GivesKeeps
<1> QED BY <1>1, <1>2, <1>3, <1>4 DEF Bench

(* The memory is a slave as MemoryPath assumes one.                        *)
LEMMA Contract == ASSUME AddressFirst, BenchInv PROVE MeetsContract
<1>1. ReadyInv /\ Keeps
  BY BenchKeeps
<1>2. /\ Taken(Offered) \subseteq {"ar", "aw", "w"}
      /\ "ar" \in Taken(Offered) <=> "ar" \in slave.ready /\ ArValid
      /\ "aw" \in Taken(Offered) <=> "aw" \in slave.ready /\ AwValid
      /\ "w" \in Taken(Offered) <=> "w" \in slave.ready /\ WValid
  BY <1>1, TakenIs
<1>3. "w" \in Taken(Offered) => "aw" \in Taken(Offered) \/ slave.wrReq # <<>>
  BY <1>1, <1>2 DEF ReadyInv, Keeps
<1>4. "w" \in Taken(Offered) /\ AwValid => "aw" \in Taken(Offered)
  BY <1>1, <1>2 DEF ReadyInv, Keeps
<1>5. AddressRecorded(Offered)
  BY <1>3 DEF AddressRecorded
<1>6. Taken(Offered) \in Readies
  BY <1>2, <1>4 DEF Readies
<1>7. GivenB \in WriteAnswers
  BY <1>1 DEF GivenB, WriteAnswers, Answers, Keeps
<1>8. GivenR \in ReadAnswers
  BY <1>1 DEF GivenR, ReadAnswers, Answers, Keeps
<1>9. slave.r # <<>> => slave.r[1].last = (bus.ar[1].left = 0)
  BY <1>1 DEF Keeps, LastAt
<1>10. \A k \in DOMAIN slave.wrQ : slave.wrQ[k].at = Word(slave.wrQ[k].data.addr, slave.wrQ[k].data.beat)
  BY <1>1 DEF Keeps, ItemOk
<1> QED BY <1>5, <1>6, <1>7, <1>8, <1>9, <1>10 DEF MeetsContract

-----------------------------------------------------------------------------
(* A clock of the memory                                                   *)

(* What a clock makes of the queues, whatever is delayed.                  *)
Reads(offered) == IF "ar" \in Taken(offered) THEN slave.rdQ \o Unrolled(offered.ar[1]) ELSE slave.rdQ
Writes(offered) == slave.wrQ \o WrittenTo(offered)

LEMMA SlaveParts ==
  ASSUME NEW offered, NEW delays, SlaveTick(offered, delays)
  PROVE  /\ slave'.wrReq = WriteReqAfter(offered)
         /\ \/ slave'.rdQ = Reads(offered) /\ slave'.r = <<>>
            \/ /\ Reads(offered) # <<>>
               /\ slave'.rdQ = Tail(Reads(offered)) /\ slave'.r = <<Head(Reads(offered))>>
         /\ \/ slave'.wrQ = Writes(offered) /\ ~slave'.b
            \/ /\ Writes(offered) # <<>>
               /\ slave'.wrQ = Tail(Writes(offered)) /\ (slave'.b => Head(Writes(offered)).last)
         /\ ReadyInv'
<1> DEFINE giveR == Reads(offered) # <<>> /\ "r" \notin delays
           giveB == Writes(offered) # <<>> /\ "b" \notin delays
           rdQ == IF giveR THEN Tail(Reads(offered)) ELSE Reads(offered)
           wrQ == IF giveB THEN Tail(Writes(offered)) ELSE Writes(offered)
           req == WriteReqAfter(offered)
<1>1. slave' = [rdQ |-> rdQ, wrQ |-> wrQ, wrReq |-> req,
                ready |-> ReadyAfter(Len(rdQ), Len(wrQ), req, delays),
                r |-> IF giveR THEN <<Head(Reads(offered))>> ELSE <<>>,
                b |-> giveB /\ EndsBurst(Writes(offered))]
  BY DEF SlaveTick, Reads, Writes
<1>2. slave'.wrReq = req
  BY <1>1
<1>3. \/ slave'.rdQ = Reads(offered) /\ slave'.r = <<>>
      \/ /\ Reads(offered) # <<>>
         /\ slave'.rdQ = Tail(Reads(offered)) /\ slave'.r = <<Head(Reads(offered))>>
  BY <1>1
<1>4. slave'.b = (giveB /\ EndsBurst(Writes(offered))) /\ slave'.wrQ = wrQ
  BY <1>1
<1>5. \/ slave'.wrQ = Writes(offered) /\ ~slave'.b
      \/ /\ Writes(offered) # <<>>
         /\ slave'.wrQ = Tail(Writes(offered)) /\ (slave'.b => Head(Writes(offered)).last)
  <2>1. CASE giveB
    BY <2>1, <1>4 DEF EndsBurst
  <2>2. CASE ~giveB
    BY <2>2, <1>4
  <2> QED BY <2>1, <2>2
<1>6. slave'.ready = ReadyAfter(Len(rdQ), Len(wrQ), req, delays)
  BY <1>1
<1> HIDE DEF rdQ, wrQ, req
<1>7. ReadyInv'
  <2>1. slave'.ready \subseteq {"ar", "aw", "w"}
    BY <1>6 DEF ReadyAfter
  <2>2. "aw" \in slave'.ready => req = <<>>
    BY <1>6 DEF ReadyAfter
  <2>3. "w" \in slave'.ready /\ req = <<>> => "aw" \in slave'.ready
    BY <1>6 DEF ReadyAfter
  <2> QED BY <1>2, <2>1, <2>2, <2>3 DEF ReadyInv
<1> QED BY <1>2, <1>3, <1>5, <1>7 DEF req

(* The recorded address counts up with the beats, and is gone with the     *)
(* last of them.                                                           *)
NextReq(req) == <<[req[1] EXCEPT !.at = NextAddr(@, req[1].len)]>>
LEMMA RecordedNext ==
  ASSUME CountsUp, NEW a \in Addrs, NEW n \in 1..Beats, NEW m \in 0..n, m < n
  PROVE  /\ DataBeat(a, n, m).last => Recorded(a, n, m + 1) = <<>>
         /\ ~DataBeat(a, n, m).last => NextReq(Recorded(a, n, m)) = Recorded(a, n, m + 1)
         /\ Recorded(a, n, m)[1].at = Word(a, m)
<1>1. n \in Nat /\ m \in Nat
  BY BeatsAssumption
<1>2. DataBeat(a, n, m).last <=> m + 1 = n
  <2>1. m = n - 1 <=> m + 1 = n
    BY <1>1
  <2> QED BY <2>1, StoreIs
<1>3. Recorded(a, n, m) = <<[at |-> Word(a, m), len |-> n - 1]>>
  BY <1>1 DEF Recorded
<1>4. Recorded(a, n, m)[1] = [at |-> Word(a, m), len |-> n - 1]
  BY <1>3, One
<1>5. NextAddr(Word(a, m), n - 1) = Word(a, m + 1)
  <2>1. NextAddr(Word(a, m), n - 1) = Word(a, m) + 1
    BY DEF NextAddr, CountsUp
  <2>2. a * Beats \in Nat
    BY BeatsAssumption DEF CountsUp
  <2>3. \A w \in Nat : (w + m) + 1 = w + (m + 1)
    BY <1>1
  <2> QED BY <2>1, <2>2, <2>3 DEF Word
<1>6. NextReq(Recorded(a, n, m)) = <<[at |-> Word(a, m + 1), len |-> n - 1]>>
  BY <1>4, <1>5 DEF NextReq
<1> QED BY <1>2, <1>4, <1>6 DEF Recorded

(* A beat that is taken is queued for its word.                            *)
LEMMA BeatTaken ==
  ASSUME CountsUp, NEW a \in Addrs, NEW n \in 1..Beats, NEW m \in 0..n, m < n,
         "w" \in Taken(Offered), Offered.w[1] = DataBeat(a, n, m), WriteReq(Offered) = Recorded(a, n, m)
  PROVE  /\ WriteReqAfter(Offered) = Recorded(a, n, m + 1)
         /\ WrittenTo(Offered) = <<Store(a, n, m)>>
<1>1. WriteReqAfter(Offered) = Recorded(a, n, m + 1)
  BY RecordedNext DEF WriteReqAfter, NextReq
<1>2. DataBeat(a, n, m).last = (m = n - 1)
  BY DEF DataBeat
<1>3. WrittenTo(Offered) = <<[at |-> Word(a, m), data |-> DataBeat(a, n, m), last |-> DataBeat(a, n, m).last]>>
  BY RecordedNext DEF WrittenTo
<1> QED BY <1>1, <1>2, <1>3 DEF Store

(* The write queue and the read queue after the clock.                     *)
LEMMA StoresOn ==
  ASSUME NEW delays, SlaveTick(Offered, delays),
         NEW a, NEW n \in 1..Beats, NEW m \in 0..n, Storing(Writes(Offered), a, n, m)
  PROVE  Storing(slave'.wrQ, a, n, m) /\ (slave'.b => slave'.wrQ = <<>> /\ m = n)
<1>1. PICK writes : writes = Writes(Offered)
  OBVIOUS
<1>2. CASE slave'.wrQ = writes /\ ~slave'.b
  BY <1>1, <1>2
<1>3. CASE writes # <<>> /\ slave'.wrQ = Tail(writes) /\ (slave'.b => Head(writes).last)
  <2>1. Storing(writes, a, n, m) /\ writes # <<>>
    BY <1>1, <1>3
  <2>2. Storing(Tail(writes), a, n, m) /\ (Head(writes).last => Tail(writes) = <<>> /\ m = n)
    BY <2>1, StoringNext
  <2> QED BY <1>3, <2>2
<1> QED BY <1>1, <1>2, <1>3, SlaveParts

LEMMA LoadsOn ==
  ASSUME NEW delays, SlaveTick(Offered, delays), NEW left \in Nat, Loading(Reads(Offered), left + 1)
  PROVE  SlaveGives(left)'
<1>1. PICK reads : reads = Reads(Offered)
  OBVIOUS
<1>2. CASE slave'.rdQ = reads /\ slave'.r = <<>>
  BY <1>1, <1>2 DEF SlaveGives
<1>3. CASE reads # <<>> /\ slave'.rdQ = Tail(reads) /\ slave'.r = <<Head(reads)>>
  <2>1. left + 1 \in Nat /\ (left + 1) - 1 = left /\ (left + 1 = 1 <=> left = 0)
    OBVIOUS
  <2>2. Loading(Tail(reads), left) /\ LastAt(Head(reads), left + 1, 1)
    BY <1>1, <1>3, <2>1, LoadingNext
  <2>3. LastAt(Head(reads), left, 0)
    BY <2>1, <2>2, Recounted
  <2> QED BY <1>3, <2>2, <2>3 DEF SlaveGives
<1> QED BY <1>1, <1>2, <1>3, SlaveParts

(* A clock of the path: its slave does what that of MemoryPath may do.     *)
LEMMA BusStep ==
  ASSUME NEW in, NEW delays, BenchClock(in, delays)
  PROVE  BusTick(Taken(Offered), GivenB, GivenR) /\ SlaveTick(Offered, delays)
BY DEF BenchClock, Clock, AxiTick

LEMMA PathGoesOn ==
  ASSUME AddressFirst, BenchInv, NEW in \in Sends, NEW delays, BenchClock(in, delays)
  PROVE  Next /\ PathInv'
<1>1. /\ Taken(Offered) \in Readies /\ GivenB \in WriteAnswers /\ GivenR \in ReadAnswers
  BY Contract DEF MeetsContract
<1>2. Clock(in, Taken(Offered), GivenB, GivenR, TRUE)
  BY DEF BenchClock
<1>3. Next
  BY <1>1, <1>2 DEF Next
<1> QED BY <1>3, PathStep DEF BenchInv

(* The bus between two bursts.                                             *)
LEMMA IdleBus ==
  ASSUME BusIdle, bus.w = <<>>, NEW T, BusTick(T, "none", "none")
  PROVE  /\ bus'.aw = IF "aw" \in T THEN <<Address>> ELSE <<>>
         /\ bus'.w = IF "w" \in T THEN <<Data>> ELSE <<>>
         /\ bus'.ar = IF "ar" \in T THEN <<[addr |-> Request.addr, left |-> Request.len]>> ELSE <<>>
<1>1. bus.aw = <<>> /\ bus.ar = <<>>
  BY DEF BusIdle
<1>2. /\ bus'.aw = IF "aw" \in T THEN Append(bus.aw, Address) ELSE bus.aw
      /\ bus'.w = IF "w" \in T THEN Append(bus.w, Data) ELSE bus.w
      /\ bus'.ar = ReadsAfter(T, "none")
  BY DEF BusTick
<1>3. ReadsAfter(T, "none") =
         IF "ar" \in T THEN Append(bus.ar, [addr |-> Request.addr, left |-> Request.len]) ELSE bus.ar
  BY DEF ReadsAfter
<1> QED BY <1>1, <1>2, <1>3, One

LEMMA IdleStep ==
  ASSUME CountsUp, OneBurst, wInhibit = FALSE, ReadyInv, BusIdle, WriteIdle, ReadIdle,
         NEW delays, BusTick(Taken(Offered), GivenB, GivenR), SlaveTick(Offered, delays)
  PROVE  Bench'
<1>1. PICK a \in Addrs, n \in 1..Beats : IdleOffers(a, n)
  BY OffersIdle
<1>2. slave.wrReq = <<>> /\ slave.wrQ = <<>> /\ ~slave.b /\ slave.rdQ = <<>> /\ slave.r = <<>>
  BY DEF WriteIdle, ReadIdle
<1>3. GivenB = "none" /\ GivenR = "none"
  BY <1>2 DEF GivenB, GivenR
<1>4. PICK T : T = Taken(Offered)
  OBVIOUS
<1>5. /\ bus'.aw = IF "aw" \in T THEN <<Address>> ELSE <<>>
      /\ bus'.w = IF "w" \in T THEN <<Data>> ELSE <<>>
      /\ bus'.ar = IF "ar" \in T THEN <<[addr |-> Request.addr, left |-> Request.len]>> ELSE <<>>
  BY <1>1, <1>3, <1>4, IdleBus DEF IdleOffers
<1>6. /\ "ar" \in T => ArValid
      /\ "aw" \in T => AwValid
      /\ "w" \in T => WValid
      /\ "w" \in T => "aw" \in T
  <2>1. "w" \in slave.ready => "aw" \in slave.ready
    BY <1>2 DEF ReadyInv
  <2> QED BY <1>1, <1>4, <2>1, TakenIs DEF IdleOffers
<1>7. n \in Nat /\ n >= 1 /\ 0 \in 0..n /\ 1 \in 0..n
  BY BeatsAssumption
<1>8. /\ Reads(Offered) = IF "ar" \in T THEN Unrolled(Offered.ar[1]) ELSE <<>>
      /\ Writes(Offered) = WrittenTo(Offered)
  <2>1. \A q : \A count \in Nat : Loading(q, count) => <<>> \o q = q
    BY ConcatEmptySeq DEF Loading
  <2>2. "ar" \in T => <<>> \o Unrolled(Offered.ar[1]) = Unrolled(Offered.ar[1])
    <3>1. ASSUME "ar" \in T
          PROVE  Offered.ar[1].len \in Nat
      <4>1. Offered.ar[1] = [at |-> Word(Request.addr, 0), len |-> Request.len]
        BY <1>6, <3>1, OfferedIs
      <4>2. Request.len \in 0..(Beats - 1)
        BY <1>1, <1>6, <3>1 DEF IdleOffers
      <4> QED BY <4>1, <4>2, BeatsAssumption
    <3>2. ASSUME "ar" \in T
          PROVE  <<>> \o Unrolled(Offered.ar[1]) = Unrolled(Offered.ar[1])
      <4>1. Loading(Unrolled(Offered.ar[1]), Offered.ar[1].len + 1)
        BY <3>1, <3>2, UnrolledLoads
      <4>2. Offered.ar[1].len + 1 \in Nat
        BY <3>1, <3>2
      <4> QED BY <4>1, <4>2, <2>1
    <3> QED BY <3>2
  <2>3. <<>> \o WrittenTo(Offered) = WrittenTo(Offered)
    BY One DEF WrittenTo
  <2> QED BY <1>2, <1>4, <2>2, <2>3 DEF Reads, Writes
<1>9. "w" \notin T => WrittenTo(Offered) = <<>> /\ WriteReqAfter(Offered) = WriteReq(Offered)
  BY <1>4 DEF WrittenTo, WriteReqAfter
<1>10. WriteReq(Offered) = IF "aw" \in T THEN Offered.aw ELSE <<>>
  BY <1>2, <1>4 DEF WriteReq
<1>11. "w" \notin T => slave'.wrQ = <<>> /\ ~slave'.b /\ slave'.wrReq = WriteReq(Offered)
  BY <1>8, <1>9, SlaveParts
<1>12. "ar" \notin T => slave'.rdQ = <<>> /\ slave'.r = <<>>
  BY <1>8, SlaveParts
<1>13. CASE "ar" \in T
  <2>1. "aw" \notin T /\ "w" \notin T /\ Request.addr \in Addrs /\ Request.len \in 0..(Beats - 1)
    BY <1>1, <1>6, <1>13 DEF IdleOffers
  <2>2. PICK la \in Addrs, left \in 0..(Beats - 1) : la = Request.addr /\ left = Request.len
    BY <2>1
  <2>3. BusGives(la, left)'
    BY <1>5, <1>13, <2>1, <2>2 DEF BusGives
  <2>4. WriteIdle'
    BY <1>10, <1>11, <2>1 DEF WriteIdle
  <2>5. left \in Nat
    BY BeatsAssumption
  <2>6. Loading(Reads(Offered), left + 1)
    <3>1. Offered.ar[1] = [at |-> Word(Request.addr, 0), len |-> Request.len]
      BY <1>6, <1>13, OfferedIs
    <3>2. Offered.ar[1].len = left
      BY <3>1, <2>2
    <3> QED BY <3>2, <2>5, <1>8, <1>13, UnrolledLoads
  <2>7. SlaveGives(left)'
    BY <2>5, <2>6, LoadsOn
  <2> QED BY <2>3, <2>4, <2>7 DEF Bench
<1>14. CASE "ar" \notin T /\ "aw" \in T
  <2>1. ReadIdle'
    BY <1>12, <1>14 DEF ReadIdle
  <2>2. Address = [addr |-> a, len |-> n - 1] /\ Request.addr = a /\ Request.len = n - 1
    BY <1>1, <1>6, <1>14 DEF IdleOffers
  <2>3. bus'.aw = <<[addr |-> a, len |-> n - 1]>> /\ bus'.ar = <<>>
    BY <1>5, <1>14, <2>2
  <2>4. WriteReq(Offered) = Recorded(a, n, 0)
    <3>1. Recorded(a, n, 0) = <<[at |-> Word(a, 0), len |-> n - 1]>>
      BY <1>7 DEF Recorded
    <3> QED BY <1>6, <1>10, <1>14, <2>2, <3>1, OfferedIs
  <2>5. CASE "w" \notin T
    <3>1. BusTakes(a, n, 0)'
      BY <1>5, <2>3, <2>5, One DEF BusTakes
    <3>2. SlaveTakes(a, n, 0)'
      BY <1>11, <2>4, <2>5, StoringNone DEF SlaveTakes
    <3> QED BY <2>1, <3>1, <3>2, <1>7 DEF Bench
  <2>6. CASE "w" \in T
    <3>1. Data = DataBeat(a, n, 0) /\ Offered.w[1] = Data
      BY <1>1, <1>6, <2>6, OfferedIs DEF IdleOffers
    <3>2. BusTakes(a, n, 1)'
      BY <1>5, <2>3, <2>6, One DEF BusTakes
    <3>3. WriteReqAfter(Offered) = Recorded(a, n, 1) /\ WrittenTo(Offered) = <<Store(a, n, 0)>>
      <4>1. 0 + 1 = 1 /\ 0 < n
        BY <1>7
      <4> QED BY <4>1, <3>1, <2>4, <2>6, <1>4, <1>7, BeatTaken
    <3>4. Storing(Writes(Offered), a, n, 1)
      <4>1. 0 < n /\ 0 + 1 = 1
        BY <1>7
      <4>2. Storing(<<>>, a, n, 0)
        BY StoringNone
      <4>3. <<>> \o <<Store(a, n, 0)>> = <<Store(a, n, 0)>>
        BY One
      <4> QED BY <4>1, <4>2, <4>3, <3>3, <1>7, <1>8, StoringMore
    <3>5. Storing(slave'.wrQ, a, n, 1) /\ (slave'.b => slave'.wrQ = <<>> /\ 1 = n)
      BY <3>4, <1>7, StoresOn
    <3>6. SlaveTakes(a, n, 1)'
      BY <3>3, <3>5, SlaveParts DEF SlaveTakes
    <3> QED BY <2>1, <3>2, <3>6, <1>7 DEF Bench
  <2> QED BY <2>5, <2>6
<1>15. CASE "ar" \notin T /\ "aw" \notin T
  <2>1. ReadIdle' /\ BusIdle'
    BY <1>5, <1>12, <1>15 DEF ReadIdle, BusIdle
  <2>2. WriteIdle'
    BY <1>6, <1>10, <1>11, <1>15 DEF WriteIdle
  <2> QED BY <2>1, <2>2 DEF Bench
<1> QED BY <1>13, <1>14, <1>15

(* A write under way: it is answered, a beat of it is taken, or none is.   *)
LEMMA TakesStep ==
  ASSUME CountsUp, OneBurst, wInhibit = FALSE, ReadyInv,
         NEW a \in Addrs, NEW n \in 1..Beats, NEW m \in 0..n,
         BusTakes(a, n, m), SlaveTakes(a, n, m), ReadIdle,
         NEW delays, BusTick(Taken(Offered), GivenB, GivenR), SlaveTick(Offered, delays)
  PROVE  Bench'
<1>1. /\ ~AwValid /\ ~ArValid
      /\ WValid => m < n /\ Data = DataBeat(a, n, m)
  BY OffersTaken
<1>2. /\ slave.wrReq = Recorded(a, n, m) /\ Storing(slave.wrQ, a, n, m)
      /\ slave.b => slave.wrQ = <<>> /\ m = n
      /\ slave.rdQ = <<>> /\ slave.r = <<>>
  BY DEF SlaveTakes, ReadIdle
<1>3. bus.aw = <<[addr |-> a, len |-> n - 1]>> /\ bus.ar = <<>> /\ Len(bus.w) = m
  BY DEF BusTakes
<1>4. PICK T : T = Taken(Offered)
  OBVIOUS
<1>5. /\ "ar" \notin T /\ "aw" \notin T
      /\ "w" \in T => WValid
  BY <1>1, <1>4, TakenIs
<1>6. n \in Nat /\ m \in Nat /\ n >= 1 /\ m <= n
  BY BeatsAssumption
<1>7. ReadIdle'
  <2>1. Reads(Offered) = <<>>
    BY <1>2, <1>4, <1>5 DEF Reads
  <2> QED BY <2>1, SlaveParts DEF ReadIdle
<1>8. WriteReq(Offered) = Recorded(a, n, m)
  BY <1>2, <1>4, <1>5 DEF WriteReq
<1>9. "w" \notin T => /\ WriteReqAfter(Offered) = Recorded(a, n, m)
                      /\ Writes(Offered) = slave.wrQ
  <2>1. ASSUME "w" \notin T
        PROVE  WriteReqAfter(Offered) = Recorded(a, n, m) /\ WrittenTo(Offered) = <<>>
    BY <2>1, <1>4, <1>8 DEF WriteReqAfter, WrittenTo
  <2>2. slave.wrQ \o <<>> = slave.wrQ
    BY <1>2, ConcatEmptySeq DEF Storing
  <2> QED BY <2>1, <2>2 DEF Writes
<1>10. bus'.ar = <<>>
  <2>1. bus'.ar = ReadsAfter(T, GivenR) /\ GivenR = "none"
    BY <1>2, <1>4 DEF BusTick, GivenR
  <2> QED BY <2>1, <1>3, <1>5 DEF ReadsAfter
<1>11. CASE slave.b
  <2>1. m = n /\ "w" \notin T /\ slave.wrQ = <<>> /\ GivenB = "ok"
    BY <1>1, <1>2, <1>5, <1>6, <1>11 DEF GivenB
  <2>2. bus'.aw = Tail(bus.aw)
    BY <2>1, <1>4, <1>5 DEF BusTick
  <2>3. BusIdle'
    BY <2>2, <1>3, <1>10, One DEF BusIdle
  <2>4. WriteIdle'
    BY <2>1, <1>9, SlaveParts DEF WriteIdle, Recorded
  <2> QED BY <2>3, <2>4, <1>7 DEF Bench
<1>12. CASE ~slave.b
  <2>1. GivenB = "none"
    BY <1>12 DEF GivenB
  <2>2. bus'.aw = bus.aw /\ bus'.w = IF "w" \in T THEN Append(bus.w, Data) ELSE bus.w
    BY <2>1, <1>4, <1>5 DEF BusTick
  <2>3. CASE "w" \notin T
    <3>1. BusTakes(a, n, m)'
      BY <2>2, <2>3, <1>3, <1>10 DEF BusTakes
    <3>2. Storing(slave'.wrQ, a, n, m) /\ (slave'.b => slave'.wrQ = <<>> /\ m = n)
      BY <2>3, <1>2, <1>9, StoresOn
    <3>3. SlaveTakes(a, n, m)'
      BY <3>2, <2>3, <1>9, SlaveParts DEF SlaveTakes
    <3> QED BY <3>1, <3>3, <1>7 DEF Bench
  <2>4. CASE "w" \in T
    <3>1. m < n /\ Data = DataBeat(a, n, m) /\ Offered.w[1] = DataBeat(a, n, m)
      BY <1>1, <1>5, <2>4, OfferedIs
    <3>2. m + 1 \in 0..n
      BY <3>1, <1>6
    <3>3. Len(bus'.w) = m + 1
      <4>1. PICK beats \in Seq(DataBeats) : beats = bus.w
        BY <1>3, One DEF OneBurst, BridgeEmpty, Reading, Writing, Sending
      <4>2. DataBeat(a, n, m) \in DataBeats
        <5>1. m \in 0..(Beats - 1)
          BY <3>1, <1>6, BeatsAssumption
        <5> QED BY <5>1 DEF DataBeat, DataBeats
      <4> QED BY <4>1, <4>2, <2>2, <2>4, <3>1, <1>3, Pushed
    <3>4. BusTakes(a, n, m + 1)'
      BY <2>2, <3>3, <1>3, <1>10 DEF BusTakes
    <3>5. WriteReqAfter(Offered) = Recorded(a, n, m + 1) /\ WrittenTo(Offered) = <<Store(a, n, m)>>
      BY <3>1, <1>4, <1>8, <2>4, BeatTaken
    <3>6. Storing(Writes(Offered), a, n, m + 1)
      BY <3>1, <3>5, <1>2, StoringMore DEF Writes
    <3>7. Storing(slave'.wrQ, a, n, m + 1) /\ (slave'.b => slave'.wrQ = <<>> /\ m + 1 = n)
      BY <3>2, <3>6, StoresOn
    <3>8. SlaveTakes(a, n, m + 1)'
      BY <3>5, <3>7, SlaveParts DEF SlaveTakes
    <3> QED BY <3>2, <3>4, <3>8, <1>7 DEF Bench
  <2> QED BY <2>3, <2>4
<1> QED BY <1>11, <1>12

(* A read under way: a beat of it is given, or none is.                    *)
LEMMA GivesStep ==
  ASSUME OneBurst, ReadyInv, NEW a \in Addrs, NEW left \in 0..(Beats - 1),
         BusGives(a, left), SlaveGives(left), WriteIdle,
         NEW delays, BusTick(Taken(Offered), GivenB, GivenR), SlaveTick(Offered, delays)
  PROVE  Bench'
<1>1. ~AwValid /\ ~WValid /\ ~ArValid
  BY OffersGiven
<1>2. PICK T : T = Taken(Offered)
  OBVIOUS
<1>3. "ar" \notin T /\ "aw" \notin T /\ "w" \notin T
  BY <1>1, <1>2, TakenIs
<1>4. slave.wrReq = <<>> /\ slave.wrQ = <<>> /\ ~slave.b /\ GivenB = "none"
  BY DEF WriteIdle, GivenB
<1>5. WriteIdle'
  <2>1. WriteReqAfter(Offered) = <<>> /\ WrittenTo(Offered) = <<>>
    BY <1>2, <1>3, <1>4 DEF WriteReqAfter, WriteReq, WrittenTo
  <2>2. Writes(Offered) = <<>>
    BY <2>1, <1>4, One DEF Writes
  <2> QED BY <2>1, <2>2, SlaveParts DEF WriteIdle
<1>6. bus.aw = <<>> /\ bus.ar = <<[addr |-> a, left |-> left]>>
  BY DEF BusGives
<1>7. bus'.aw = <<>> /\ bus'.ar = ReadsAfter(T, GivenR)
  BY <1>2, <1>3, <1>4, <1>6 DEF BusTick
<1>8. Reads(Offered) = slave.rdQ
  BY <1>2, <1>3 DEF Reads
<1>9. left \in Nat /\ (left # 0 => left - 1 \in Nat /\ left - 1 \in 0..(Beats - 1) /\ (left - 1) + 1 = left)
  BY BeatsAssumption
<1>10. CASE slave.r = <<>> /\ Loading(slave.rdQ, left + 1)
  <2>1. BusGives(a, left)'
    BY <1>3, <1>6, <1>7, <1>10 DEF BusGives, ReadsAfter, GivenR
  <2>2. SlaveGives(left)'
    BY <1>8, <1>9, <1>10, LoadsOn
  <2> QED BY <2>1, <2>2, <1>5 DEF Bench
<1>11. CASE Loading(slave.rdQ, left) /\ slave.r # <<>>
  <2>1. GivenR = "ok"
    BY <1>11 DEF GivenR
  <2>2. bus.ar[1].left = left
    BY <1>6, One
  <2>3. CASE left = 0
    <3>1. bus'.ar = <<>>
      BY <1>3, <1>6, <1>7, <2>1, <2>2, <2>3, One DEF ReadsAfter
    <3>2. Reads(Offered) = <<>>
      BY <1>8, <1>11, <2>3, EmptyOrNot DEF Loading
    <3>3. ReadIdle'
      BY <3>2, SlaveParts DEF ReadIdle
    <3>4. BusIdle'
      BY <3>1, <1>7 DEF BusIdle
    <3> QED BY <3>3, <3>4, <1>5 DEF Bench
  <2>4. CASE left # 0
    <3>1. bus'.ar = [bus.ar EXCEPT ![1].left = @ - 1]
      BY <1>3, <1>7, <2>1, <2>2, <2>4 DEF ReadsAfter
    <3>2. bus'.ar = <<[addr |-> a, left |-> left - 1]>>
      BY <3>1, <1>6
    <3>3. BusGives(a, left - 1)'
      BY <3>2, <1>7 DEF BusGives
    <3>4. SlaveGives(left - 1)'
      <4>1. left - 1 \in Nat /\ Loading(Reads(Offered), (left - 1) + 1)
        BY <1>8, <1>9, <1>11, <2>4
      <4> QED BY <4>1, LoadsOn
    <3> QED BY <3>3, <3>4, <1>5, <1>9, <2>4 DEF Bench
  <2> QED BY <2>3, <2>4
<1>12. slave.r # <<>> => Loading(slave.rdQ, left)
  BY DEF SlaveGives
<1>13. slave.r = <<>> => Loading(slave.rdQ, left + 1)
  BY One DEF SlaveGives
<1> QED BY <1>10, <1>11, <1>12, <1>13

-----------------------------------------------------------------------------
(* The invariant                                                           *)

(* Every step keeps it.                                                    *)
LEMMA BenchStep ==
  ASSUME AddressFirst, CountsUp, BenchInv, [BenchNext]_benchVars
  PROVE  BenchInv' /\ [Next]_vars
<1>1. OneBurst /\ wInhibit = FALSE /\ ReadyInv /\ Bench
  BY BenchKeeps DEF BenchInv
<1>2. ASSUME NEW in \in Sends, NEW delays, BenchClock(in, delays)
      PROVE  BenchInv' /\ Next
  <2>1. Next /\ PathInv'
    BY <1>2, PathGoesOn
  <2>2. BusTick(Taken(Offered), GivenB, GivenR) /\ SlaveTick(Offered, delays)
    BY <1>2, BusStep
  <2>3. BusIdle /\ WriteIdle /\ ReadIdle => Bench'
    BY <2>2, <1>1, IdleStep
  <2>4. ASSUME NEW a \in Addrs, NEW n \in 1..Beats, NEW m \in 0..n,
               BusTakes(a, n, m) /\ SlaveTakes(a, n, m) /\ ReadIdle
        PROVE  Bench'
    BY <2>4, <2>2, <1>1, TakesStep
  <2>5. ASSUME NEW a \in Addrs, NEW left \in 0..(Beats - 1),
               BusGives(a, left) /\ SlaveGives(left) /\ WriteIdle
        PROVE  Bench'
    BY <2>5, <2>2, <1>1, GivesStep
  <2>6. Bench => \/ BusIdle /\ WriteIdle /\ ReadIdle
                 \/ \E a \in Addrs, n \in 1..Beats : \E m \in 0..n :
                       BusTakes(a, n, m) /\ SlaveTakes(a, n, m) /\ ReadIdle
                 \/ \E a \in Addrs, left \in 0..(Beats - 1) :
                       BusGives(a, left) /\ SlaveGives(left) /\ WriteIdle
    BY DEF Bench
  <2>7. Bench'
    BY <2>3, <2>4, <2>5, <2>6, <1>1
  <2>8. ReadyInv'
    BY <2>2, SlaveParts
  <2> QED BY <2>1, <2>7, <2>8 DEF BenchInv
<1>3. CASE UNCHANGED benchVars
  <2>1. UNCHANGED vars /\ slave' = slave /\ bus' = bus
    BY <1>3 DEF benchVars, vars, axiVars
  <2>2. PathInv'
    BY <2>1, PathStep DEF BenchInv
  <2>3. ReadyInv' /\ Bench'
    BY <2>1, <1>1 DEF ReadyInv, Bench, BusIdle, BusTakes, BusGives, WriteIdle, ReadIdle, SlaveTakes, SlaveGives
  <2> QED BY <2>1, <2>2, <2>3 DEF BenchInv
<1> QED BY <1>2, <1>3 DEF BenchNext

(* The initial states satisfy it.                                          *)
LEMMA BenchBegins == BenchInit => BenchInv
<1> SUFFICES ASSUME BenchInit PROVE BenchInv
  OBVIOUS
<1>1. PathInv /\ bus.aw = <<>> /\ bus.ar = <<>>
  BY PathInit DEF BenchInit, Init, AxiInit
<1>2. /\ slave.rdQ = <<>> /\ slave.wrQ = <<>> /\ slave.wrReq = <<>>
      /\ slave.ready = {} /\ slave.r = <<>> /\ slave.b = FALSE
  BY DEF BenchInit, SlaveInit
<1>3. ReadyInv
  BY <1>2 DEF ReadyInv
<1>4. Bench
  BY <1>1, <1>2 DEF Bench, BusIdle, WriteIdle, ReadIdle
<1> QED BY <1>1, <1>3, <1>4 DEF BenchInv

LEMMA BenchInvariant ==
  ASSUME AddressFirst, CountsUp
  PROVE  BenchSpec => []BenchInv
<1>1. BenchInv /\ [BenchNext]_benchVars => BenchInv'
  BY BenchStep
<1> QED BY <1>1, BenchBegins, PTL DEF BenchSpec

(* While a read is served no write is under way.                           *)
LEMMA NoneUnstored == BenchInv => ReadsSeeWrites
<1> SUFFICES ASSUME BenchInv PROVE ReadsSeeWrites
  OBVIOUS
<1>1. OneBurst /\ Bench
  BY BenchKeeps DEF BenchInv
<1>2. CASE slave.rdQ = <<>>
  <2>1. DOMAIN slave.rdQ = {}
    BY <1>2, One
  <2> QED BY <2>1 DEF ReadsSeeWrites
<1>3. ASSUME NEW a \in Addrs, NEW left \in 0..(Beats - 1), BusGives(a, left) /\ SlaveGives(left) /\ WriteIdle
      PROVE  ReadsSeeWrites
  <2>1. skid = NoBeat
    BY <1>1, <1>3, OffersGiven
  <2>2. slave.wrReq = <<>> /\ DOMAIN slave.wrQ = {}
    BY <1>3, One DEF WriteIdle
  <2>3. Unstored = {}
    BY <2>1, <2>2 DEF Unstored
  <2> QED BY <2>3 DEF ReadsSeeWrites
<1> QED BY <1>1, <1>2, <1>3 DEF Bench, ReadIdle

-----------------------------------------------------------------------------
(* The theorems                                                            *)

(* The memory of the bench (tb_axi4_mem.cpp) is a slave as the path        *)
(* assumes one, whatever it draws for its delays: it takes no data before  *)
(* their address, so that its assertion holds, answers a write once it has *)
(* the whole of it and a read no further than it was asked, marks the last *)
(* beat of a read, and stores every beat at the word it was meant for.     *)
THEOREM KeepsContract == ASSUME AddressFirst, CountsUp PROVE BenchSpec => []MeetsContract
<1>1. BenchInv => MeetsContract
  BY Contract
<1> QED BY <1>1, BenchInvariant, PTL

(* Reads and writes are queued apart in it and each is served when its own *)
(* delay ends, and still no read is served while a write to its word has   *)
(* not been stored: the path never has both under way.                     *)
THEOREM NoReadOvertakes == ASSUME AddressFirst, CountsUp PROVE BenchSpec => []ReadsSeeWrites
BY NoneUnstored, BenchInvariant, PTL

(* The bench is thus one of the systems that MemoryPath describes, and     *)
(* what MemoryPathProofs shows of them all holds of it.                    *)
THEOREM BenchIsAPath == ASSUME AddressFirst, CountsUp PROVE BenchSpec => Spec
<1>1. BenchInv /\ [BenchNext]_benchVars => [Next]_vars
  BY BenchStep
<1>2. BenchInit => Init
  BY DEF BenchInit
<1> QED BY <1>1, <1>2, BenchInvariant, PTL DEF BenchSpec, Spec
=============================================================================
