--------------------------- MODULE FrontendProofs ---------------------------
(***************************************************************************)
(* The fetch path: what the RAMs of the instruction cache hold, and that   *)
(* the issue stage takes the word of the pc it expects and, after a flush, *)
(* nothing older than it.                                                  *)
(***************************************************************************)
EXTENDS Frontend, FiniteSetTheorems, TLAPS

-----------------------------------------------------------------------------
(* Addresses                                                               *)

(* Item k of line or set n, and the pair at a RAM address under a tag.     *)
Nth(n, k) == n * LineWords + k
PairAt(tag, a) == tag * RamWords + a

LEMMA DivMod ==
  ASSUME NEW n \in Nat, NEW d \in Nat \ {0}
  PROVE /\ n \div d \in Nat /\ n % d \in 0..(d - 1)
        /\ n = d * (n \div d) + (n % d)
BY SMT

LEMMA DivUnique ==
  ASSUME NEW n \in Nat, NEW d \in Nat \ {0}, NEW q \in Nat, NEW r \in 0..(d - 1), n = d * q + r
  PROVE n \div d = q /\ n % d = r
<1> DEFINE p == n \div d
           s == n % d
<1>1. p \in Nat /\ s \in 0..(d - 1) /\ n = d * p + s
  BY DivMod
<1> HIDE DEF p, s
<1>2. ~(p >= q + 1)
  <2> SUFFICES ASSUME p >= q + 1 PROVE FALSE
    OBVIOUS
  <2>1. PICK e \in Nat : p = q + 1 + e
    <3>1. p - q - 1 \in Nat /\ p = q + 1 + (p - q - 1)
      BY <1>1
    <3> QED BY <3>1
  <2>2. d * p = d * q + d + d * e /\ d * e \in Nat /\ d * q \in Nat
    BY <2>1
  <2> QED BY <1>1, <2>2
<1>3. ~(q >= p + 1)
  <2> SUFFICES ASSUME q >= p + 1 PROVE FALSE
    OBVIOUS
  <2>1. PICK e \in Nat : q = p + 1 + e
    <3>1. q - p - 1 \in Nat /\ q = p + 1 + (q - p - 1)
      BY <1>1
    <3> QED BY <3>1
  <2>2. d * q = d * p + d + d * e /\ d * e \in Nat /\ d * p \in Nat
    BY <2>1, <1>1
  <2> QED BY <1>1, <2>2
<1>4. p = q
  BY <1>1, <1>2, <1>3
<1>5. s = r
  <2>1. d * q \in Nat
    OBVIOUS
  <2> QED BY <1>1, <1>4, <2>1
<1> QED BY <1>4, <1>5 DEF p, s

LEMMA Sizes == /\ LineWords \in Nat \ {0} /\ NumSets \in Nat \ {0} /\ RamWords \in Nat \ {0}
               /\ LineBeats \in Nat \ {0}
<1>1. NumSets * LineWords \in Nat /\ NumSets * LineWords # 0
  BY ICacheAssumption
<1> QED BY <1>1, ICacheAssumption DEF RamWords, LineBeats

(* Item k of a set or a line is in it.                                     *)
LEMMA NthIn ==
  ASSUME NEW n \in Nat, NEW k \in 0..(LineWords - 1)
  PROVE Nth(n, k) \in Nat /\ LineOf(Nth(n, k)) = n /\ Nth(n, k) % LineWords = k
<1>1. n * LineWords = LineWords * n /\ LineWords * n + k \in Nat
  BY Sizes
<1> QED BY <1>1, Sizes, DivUnique DEF Nth, LineOf

LEMMA NthOf ==
  ASSUME NEW a \in Nat
  PROVE /\ LineOf(a) \in Nat /\ a % LineWords \in 0..(LineWords - 1)
        /\ a = Nth(LineOf(a), a % LineWords)
<1>1. LineOf(a) \in Nat /\ a % LineWords \in 0..(LineWords - 1) /\ a = LineWords * LineOf(a) + (a % LineWords)
  BY Sizes, DivMod DEF LineOf
<1>2. LineWords * LineOf(a) = LineOf(a) * LineWords
  BY <1>1, Sizes
<1> QED BY <1>1, <1>2 DEF Nth

(* The items of a set are addresses of the RAM.                            *)
LEMMA NthInRam ==
  ASSUME NEW s \in 0..(NumSets - 1), NEW k \in 0..(LineWords - 1)
  PROVE Nth(s, k) \in 0..(RamWords - 1)
<1>1. PICK e \in Nat : NumSets = s + 1 + e
  <2>1. NumSets - s - 1 \in Nat /\ NumSets = s + 1 + (NumSets - s - 1)
    BY Sizes
  <2> QED BY <2>1
<1>2. NumSets * LineWords = s * LineWords + LineWords + e * LineWords /\ e * LineWords \in Nat
      /\ s * LineWords \in Nat
  BY <1>1, Sizes
<1> QED BY <1>2, Sizes DEF Nth, RamWords

LEMMA SetInRam ==
  ASSUME NEW a \in 0..(RamWords - 1)
  PROVE LineOf(a) \in 0..(NumSets - 1)
<1>0. a \in Nat
  BY Sizes
<1>1. LineOf(a) \in Nat /\ a % LineWords \in Nat /\ a = LineOf(a) * LineWords + (a % LineWords)
  <2>1. LineOf(a) \in Nat /\ a % LineWords \in 0..(LineWords - 1) /\ a = Nth(LineOf(a), a % LineWords)
    BY <1>0, NthOf
  <2> QED BY <2>1, Sizes DEF Nth
<1>2. ~(LineOf(a) >= NumSets)
  <2> SUFFICES ASSUME LineOf(a) >= NumSets PROVE FALSE
    OBVIOUS
  <2>1. PICK e \in Nat : LineOf(a) = NumSets + e
    <3>1. LineOf(a) - NumSets \in Nat /\ LineOf(a) = NumSets + (LineOf(a) - NumSets)
      BY <1>1, Sizes
    <3> QED BY <3>1
  <2>2. LineOf(a) * LineWords = NumSets * LineWords + e * LineWords /\ e * LineWords \in Nat
    BY <2>1, Sizes
  <2> QED BY <1>1, <2>2, Sizes DEF RamWords
<1> QED BY <1>1, <1>2, Sizes

(* A pair lies at its address in the RAM, in the line of its set there.    *)
LEMMA AddressOf ==
  ASSUME NEW pair \in Nat
  PROVE /\ TagOf(pair) \in Nat /\ LineOf(pair) \in Nat
        /\ SetOf(pair) \in 0..(NumSets - 1) /\ pair % RamWords \in 0..(RamWords - 1)
        /\ LineOf(pair % RamWords) = SetOf(pair)
        /\ PairAt(TagOf(pair), pair % RamWords) = pair
        /\ LineOf(pair) = NumSets * TagOf(pair) + SetOf(pair)
<1> DEFINE t == TagOf(pair)
           a == pair % RamWords
           s == LineOf(a)
           k == a % LineWords
<1>1. t \in Nat /\ a \in 0..(RamWords - 1) /\ pair = RamWords * t + a
  BY Sizes, DivMod DEF TagOf
<1>2. s \in 0..(NumSets - 1) /\ k \in 0..(LineWords - 1) /\ a = s * LineWords + k
  BY <1>1, SetInRam, NthOf, Sizes DEF Nth
<1> HIDE DEF t, a, s, k
<1>3. pair = LineWords * (NumSets * t + s) + k /\ NumSets * t + s \in Nat
  BY <1>1, <1>2, Sizes DEF RamWords
<1>4. LineOf(pair) = NumSets * t + s
  BY <1>2, <1>3, DivUnique, Sizes DEF LineOf
<1>5. SetOf(pair) = s
  BY <1>1, <1>2, <1>3, <1>4, DivUnique, Sizes DEF SetOf
<1>6. RamWords * t = t * RamWords
  BY <1>1, Sizes
<1> QED BY <1>1, <1>2, <1>3, <1>4, <1>5, <1>6 DEF PairAt, t, a, s

(* The pairs of its line are those at the addresses of its set.            *)
LEMMA LineAt ==
  ASSUME NEW pair \in Nat, NEW k \in 0..(LineWords - 1)
  PROVE PairAt(TagOf(pair), Nth(SetOf(pair), k)) = Nth(LineOf(pair), k)
<1> DEFINE t == TagOf(pair)
           s == SetOf(pair)
<1>1. t \in Nat /\ s \in Nat /\ LineOf(pair) = NumSets * t + s
  BY AddressOf, Sizes
<1> HIDE DEF t, s
<1>2. t * (NumSets * LineWords) + (s * LineWords + k) = (NumSets * t + s) * LineWords + k
  BY <1>1, Sizes
<1> QED BY <1>1, <1>2 DEF PairAt, Nth, RamWords, t, s

LEMMA LineStart ==
  ASSUME NEW pair \in Nat
  PROVE (LineOf(pair) * LineWords) % RamWords = Nth(SetOf(pair), 0)
<1> DEFINE t == TagOf(pair)
           s == SetOf(pair)
           b == Nth(s, 0)
           n == LineOf(pair) * LineWords
<1>0. t \in Nat /\ s \in 0..(NumSets - 1) /\ LineOf(pair) = NumSets * t + s
  BY AddressOf
<1>1. t \in Nat /\ s \in Nat /\ LineOf(pair) = NumSets * t + s /\ b \in 0..(RamWords - 1)
  <2>1. 0 \in 0..(LineWords - 1)
    BY Sizes
  <2>2. b \in 0..(RamWords - 1)
    BY <1>0, <2>1, NthInRam
  <2> QED BY <1>0, <2>2, Sizes
<1>2. b = s * LineWords
  BY <1>1, Sizes DEF Nth
<1>3. n = (NumSets * t + s) * LineWords
  BY <1>1
<1> HIDE DEF t, s, b, n
<1>4. n = RamWords * t + b /\ n \in Nat
  BY <1>1, <1>2, <1>3, Sizes DEF RamWords
<1>5. n % RamWords = b
  BY <1>1, <1>4, DivUnique, Sizes
<1> QED BY <1>5 DEF n, b, s

(* Beat i of a line carries the first or the second word of its pair i/2.  *)
LEMMA BeatOf ==
  ASSUME NEW line \in Nat, NEW i \in 0..(LineBeats - 1)
  PROVE /\ line * LineBeats + i \in Nat
        /\ i \div 2 \in 0..(LineWords - 1)
        /\ (line * LineBeats + i) \div 2 = Nth(line, i \div 2)
        /\ i % 2 = 0 => line * LineBeats + i = 2 * Nth(line, i \div 2)
        /\ i % 2 = 1 => line * LineBeats + i = 2 * Nth(line, i \div 2) + 1
<1> DEFINE m == line * LineWords
<1>1. line * LineBeats = 2 * m /\ m \in Nat
  BY Sizes DEF LineBeats
<1> HIDE DEF m
<1>2. (2 * m + i) \div 2 = m + (i \div 2) /\ i \div 2 \in 0..(LineWords - 1)
      /\ (i % 2 = 0 => 2 * m + i = 2 * (m + (i \div 2)))
      /\ (i % 2 = 1 => 2 * m + i = 2 * (m + (i \div 2)) + 1)
  BY <1>1, Sizes DEF LineBeats
<1> QED BY <1>1, <1>2, Sizes DEF Nth, m
-----------------------------------------------------------------------------
(* Types                                                                   *)

Words == [pc : Nat, version : Nat] \cup {Garbage}
WordPairs == Words \X Words
Tags == [valid : BOOLEAN, tag : Nat]
Fetches == [pair : Nat, low : BOOLEAN, inst : WordPairs, fault : BOOLEAN]
FifoEntries == [pair : Nat, halves : SUBSET {0, 1}, inst : WordPairs, fault : BOOLEAN]
FifoRegs == [count : 0..Depth, rd : Slots, wr : Slots, entry : [Slots -> FifoEntries]]
CacheRegs ==
    [state : {"FLUSH", "LOOKUP", "REFILL", "RELOOKUP"}, lookup : BOOLEAN, addr : Nat,
     flushAddr : 0..(NumSets - 1), way : Ways, ar : BOOLEAN, err : BOOLEAN, idx : Nat,
     lower : Words, writeAddr : 0..(RamWords - 1), tag : [Ways -> Tags], data : [Ways -> WordPairs]]
FetchRegs ==
    [mmu : BOOLEAN, active : BOOLEAN, branch : [on : BOOLEAN, pc : FetchPCs], stall : BOOLEAN,
     fetching : BOOLEAN, pcF : FetchPCs, pair : Nat, low : BOOLEAN, branchD : BOOLEAN,
     skid : Seq(Fetches)]
IssueRegs ==
    [pc : FetchPCs, csr : {"idle", "pulse", "wait", "squash", "branch"}, to : FetchPCs, fence : BOOLEAN]

(* The type invariant of the fetch path.                                   *)
CacheTypeOK ==
    /\ ic \in CacheRegs
    /\ tagRam \in [Ways -> [0..(NumSets - 1) -> Tags]]
    /\ dataRam \in [Ways -> [0..(RamWords - 1) -> WordPairs]]
FrontTypeOK ==
    /\ CacheTypeOK
    /\ text \in Texts
    /\ fe \in FetchRegs
    /\ fifo \in FifoRegs
    /\ issue \in IssueRegs
    /\ rbus \in Seq([line : Nat, sent : Nat])
    /\ code \in Nat
    /\ owed \in [{"fence", "flush"} -> [pulse : Nat, now : Nat]]

LEMMA PCs2 == FetchPCs \subseteq Nat /\ 0 \in FetchPCs /\ Cardinality(FetchPCs) \in Nat \ {0}
              /\ FetchPCs = 0..(Cardinality(FetchPCs) - 1)
<1> DEFINE m == 2 * (NumTags * NumSets * LineWords) - 1
<1>1. NumTags * NumSets * LineWords \in Nat \ {0}
  <2>1. NumTags * NumSets \in Nat \ {0}
    BY ICacheAssumption
  <2> QED BY <2>1, ICacheAssumption
<1>2. m \in Nat /\ FetchPCs = 0..m
  BY <1>1 DEF FetchPCs
<1> HIDE DEF m
<1>3. Cardinality(0..m) = m - 0 + 1
  BY <1>2, FS_Interval
<1> QED BY <1>2, <1>3

LEMMA HeadIn == ASSUME NEW S, NEW q \in Seq(S), q # <<>> PROVE q[1] \in S
OBVIOUS

LEMMA LastField ==
  ASSUME NEW b, NEW w, NEW s, NEW n, NEW e, b = [word |-> w, last |-> s = n - 1, err |-> e]
  PROVE b.last = (s = n - 1)
BY Zenon

(* A beat of the memory is that of the word the burst is at.               *)
BeatPC == rbus[1].line * LineBeats + rbus[1].sent
LEMMA BeatFacts ==
  ASSUME NEW beat \in Beats, beat # <<>>
  PROVE /\ rbus # <<>>
        /\ beat[1].word = WordAt(BeatPC)
        /\ beat[1].last <=> rbus[1].sent = LineBeats - 1
        /\ beat[1].err => BeatPC \in text.faults
        /\ beat[1].last \in BOOLEAN /\ beat[1].err \in BOOLEAN
<1>1. rbus # <<>> /\ \E err \in {FALSE, (BeatPC \in text.faults)} :
        beat = <<[word |-> WordAt(BeatPC), last |-> rbus[1].sent = LineBeats - 1, err |-> err]>>
  BY Zenon DEF Beats, BeatPC
<1>2. PICK err \in {FALSE, (BeatPC \in text.faults)} :
        beat = <<[word |-> WordAt(BeatPC), last |-> rbus[1].sent = LineBeats - 1, err |-> err]>>
  BY <1>1
<1>3. beat[1] = [word |-> WordAt(BeatPC), last |-> rbus[1].sent = LineBeats - 1, err |-> err]
  BY <1>2
<1>4. beat[1].word = WordAt(BeatPC) /\ beat[1].err = err
  BY <1>3
<1>5. beat[1].last = (rbus[1].sent = LineBeats - 1)
  BY <1>3, LastField
<1>6. beat[1].last <=> rbus[1].sent = LineBeats - 1
  BY <1>5, Zenon
<1>7. beat[1].last \in BOOLEAN
  BY <1>3, SMT
<1>8. err => BeatPC \in text.faults
  BY Zenon
<1>9. err \in BOOLEAN
  <2>1. err = FALSE \/ err = (BeatPC \in text.faults)
    BY Zenon
  <2>2. (BeatPC \in text.faults) \in BOOLEAN
    OBVIOUS
  <2> QED BY <2>1, <2>2, Zenon
<1> QED BY <1>1, <1>4, <1>6, <1>7, <1>8, <1>9

LEMMA BeatTypes ==
  ASSUME FrontTypeOK, NEW beat \in Beats, beat # <<>>
  PROVE beat[1].word \in Words
<1>1. rbus # <<>> /\ beat[1].word = WordAt(BeatPC)
  BY BeatFacts
<1>2. rbus[1] \in [line : Nat, sent : Nat]
  <2>1. rbus \in Seq([line : Nat, sent : Nat])
    BY DEF FrontTypeOK
  <2> QED BY <1>1, <2>1, HeadIn
<1>3. BeatPC \in Nat
  BY <1>2, Sizes DEF BeatPC
<1>4. Version(LineOf(BeatPC \div 2)) \in Nat
  BY DEF Version, FrontTypeOK
<1> QED BY <1>1, <1>3, <1>4 DEF WordAt, Words

LEMMA FetchTypes ==
  ASSUME FrontTypeOK
  PROVE /\ BranchPC \in FetchPCs /\ BranchTo \in FetchPCs /\ FetchPC \in FetchPCs
        /\ FetchPC \div 2 \in Nat
        /\ Inst \in WordPairs /\ Fetched \in Fetches
<1>1. BranchPC \in FetchPCs
  BY DEF BranchPC, FrontTypeOK, IssueRegs
<1>2. BranchTo \in FetchPCs
  BY <1>1 DEF BranchTo, FrontTypeOK, FetchRegs
<1>3. FetchPC \in FetchPCs
  BY <1>2 DEF FetchPC, FrontTypeOK, FetchRegs
<1>4. FetchPC \div 2 \in Nat
  BY <1>3, PCs2
<1>5. Inst \in WordPairs
  BY DEF Inst, FrontTypeOK, CacheTypeOK, CacheRegs, Ways
<1>6. fe.skid # <<>> => fe.skid[1] \in Fetches
  BY DEF FrontTypeOK, FetchRegs
<1>7. [pair |-> fe.pair, low |-> fe.low, inst |-> Inst, fault |-> ic.err] \in Fetches
  BY <1>5 DEF Fetches, FrontTypeOK, CacheTypeOK, FetchRegs, CacheRegs
<1>8. Fetched \in Fetches
  BY <1>6, <1>7, Zenon DEF Fetched
<1> QED BY <1>1, <1>2, <1>3, <1>4, <1>5, <1>8

LEMMA GuessTypes ==
  ASSUME FrontTypeOK, NEW guess \in Predictions
  PROVE guess.next \in FetchPCs /\ guess.low \in BOOLEAN
<1>0. FetchPC \in Nat
  BY FetchTypes, PCs2
<1>1. (2 * (FetchPC \div 2) + 2) % Cardinality(FetchPCs) \in FetchPCs
  BY <1>0, PCs2
<1>2. text.targets \subseteq FetchPCs
  BY TextsAssumption DEF FrontTypeOK
<1>3. {FALSE, FetchPC % 2 = 0} \subseteq BOOLEAN
  BY Zenon
<1>4. ASSUME guess \in {[next |-> (2 * (FetchPC \div 2) + 2) % Cardinality(FetchPCs), low |-> FALSE]}
      PROVE guess.next \in FetchPCs /\ guess.low \in BOOLEAN
  <2>1. guess = [next |-> (2 * (FetchPC \div 2) + 2) % Cardinality(FetchPCs), low |-> FALSE]
    BY <1>4
  <2>2. guess.next = (2 * (FetchPC \div 2) + 2) % Cardinality(FetchPCs) /\ guess.low = FALSE
    BY <2>1, Zenon
  <2> QED BY <1>1, <2>2
<1>5. guess \in [next : text.targets, low : {FALSE, FetchPC % 2 = 0}] => guess.next \in FetchPCs /\ guess.low \in BOOLEAN
  BY <1>2, <1>3
<1> QED BY <1>4, <1>5, Zenon DEF Predictions

LEMMA HalvesTypes ==
  ASSUME NEW halves \in IssueChoices
  PROVE halves \subseteq {0, 1}
BY DEF IssueChoices, Nothing
(* Where the RAMs are addressed.                                           *)
LEMMA RamAddresses ==
  ASSUME CacheTypeOK, NEW pair \in Nat
  PROVE TagAddr(pair) \in 0..(NumSets - 1) /\ DataAddr(pair) \in 0..(RamWords - 1)
<1>1. ic.addr \in Nat /\ ic.flushAddr \in 0..(NumSets - 1) /\ ic.writeAddr \in 0..(RamWords - 1)
  BY DEF CacheTypeOK, CacheRegs
<1>2. /\ SetOf(pair) \in 0..(NumSets - 1) /\ SetOf(ic.addr) \in 0..(NumSets - 1)
      /\ pair % RamWords \in 0..(RamWords - 1) /\ ic.addr % RamWords \in 0..(RamWords - 1)
  BY <1>1, AddressOf
<1> QED BY <1>1, <1>2, Zenon DEF TagAddr, DataAddr

LEMMA RegsType ==
  ASSUME FrontTypeOK, NEW arReady, NEW beat \in Beats,
         ICacheTick(Requests, FetchPC \div 2, Flush, arReady, beat)
  PROVE ic' \in CacheRegs
<1> PICK pair \in Nat : pair = FetchPC \div 2
  BY FetchTypes
<1>1. ic \in CacheRegs /\ CacheTypeOK
  BY DEF FrontTypeOK, CacheTypeOK
<1> DEFINE last == beat # <<>> /\ beat[1].last
<1>2. NextState(Flush, last) \in {"FLUSH", "LOOKUP", "REFILL", "RELOOKUP"}
  BY <1>1 DEF NextState, CacheRegs
<1>3. beat # <<>> => beat[1].word \in Words
  BY BeatTypes
<1>4. /\ ic.addr \in Nat /\ ic.way \in Ways /\ ic.idx \in Nat /\ ic.lower \in Words
      /\ ic.flushAddr \in 0..(NumSets - 1) /\ ic.writeAddr \in 0..(RamWords - 1)
  BY <1>1 DEF CacheRegs
<1>5. (ic.flushAddr + 1) % NumSets \in 0..(NumSets - 1) /\ 0 \in 0..(NumSets - 1)
  BY <1>4, Sizes
<1>6. WriteAddr(beat) \in 0..(RamWords - 1)
  <2>0. LineOf(ic.addr) \in Nat
    BY <1>4, AddressOf
  <2>1. LineOf(ic.addr) * LineWords \in Nat
    BY <2>0, Sizes
  <2>2. (LineOf(ic.addr) * LineWords) % RamWords \in 0..(RamWords - 1)
    BY <2>1, Sizes
  <2>3. (ic.writeAddr + 1) % RamWords \in 0..(RamWords - 1)
    BY <1>4, Sizes
  <2> QED BY <1>4, <2>2, <2>3, Zenon DEF WriteAddr
<1>7. 1 - ic.way \in Ways
  BY <1>4 DEF Ways
<1>8. TagAddr(pair) \in 0..(NumSets - 1) /\ DataAddr(pair) \in 0..(RamWords - 1)
  BY <1>1, RamAddresses
<1>9. [w \in Ways |-> tagRam[w][TagAddr(pair)]] \in [Ways -> Tags]
  BY <1>1, <1>8 DEF CacheTypeOK
<1>10. [w \in Ways |-> dataRam[w][DataAddr(pair)]] \in [Ways -> WordPairs]
  BY <1>1, <1>8 DEF CacheTypeOK
<1> HIDE DEF last
<1>11. /\ ic'.state \in {"FLUSH", "LOOKUP", "REFILL", "RELOOKUP"}
  BY <1>2, Zenon DEF ICacheTick, last
<1> DEFINE taken == Requests /\ ReqAccept
<1>12. ic' = [state |-> NextState(Flush, last),
                  lookup |-> taken \/ (ic.lookup /\ ~ReqValid),
                  addr |-> IF taken THEN pair ELSE ic.addr,
                  flushAddr |-> IF ic.state = "FLUSH" THEN (ic.flushAddr + 1) % NumSets ELSE 0,
                  way |-> IF last THEN 1 - ic.way ELSE ic.way,
                  ar |-> LineArValid /\ ~arReady,
                  err |-> (beat # <<>> /\ beat[1].err) \/ (ic.err /\ ~ReqValid),
                  idx |-> IF last THEN 0 ELSE IF beat # <<>> THEN ic.idx + 1 ELSE ic.idx,
                  lower |-> IF beat # <<>> THEN beat[1].word ELSE ic.lower,
                  writeAddr |-> WriteAddr(beat),
                  tag |-> [w \in Ways |-> tagRam[w][TagAddr(pair)]],
                  data |-> [w \in Ways |-> dataRam[w][DataAddr(pair)]]]
  BY Zenon DEF ICacheTick, last
<1> HIDE DEF taken
<1>13. /\ (IF taken THEN pair ELSE ic.addr) \in Nat
       /\ (IF ic.state = "FLUSH" THEN (ic.flushAddr + 1) % NumSets ELSE 0) \in 0..(NumSets - 1)
       /\ (IF last THEN 1 - ic.way ELSE ic.way) \in Ways
       /\ (IF last THEN 0 ELSE IF beat # <<>> THEN ic.idx + 1 ELSE ic.idx) \in Nat
       /\ (IF beat # <<>> THEN beat[1].word ELSE ic.lower) \in Words
  BY <1>3, <1>4, <1>5, <1>7
<1> QED BY <1>2, <1>6, <1>9, <1>10, <1>12, <1>13 DEF CacheRegs

LEMMA RamsType ==
  ASSUME FrontTypeOK, NEW arReady, NEW beat \in Beats,
         ICacheTick(Requests, FetchPC \div 2, Flush, arReady, beat)
  PROVE /\ tagRam' \in [Ways -> [0..(NumSets - 1) -> Tags]]
        /\ dataRam' \in [Ways -> [0..(RamWords - 1) -> WordPairs]]
<1> PICK pair \in Nat : pair = FetchPC \div 2
  BY FetchTypes
<1> DEFINE last == beat # <<>> /\ beat[1].last
<1>1. CacheTypeOK /\ ic.addr \in Nat /\ ic.lower \in Words
  BY DEF FrontTypeOK, CacheTypeOK, CacheRegs
<1>2. TagAddr(pair) \in 0..(NumSets - 1) /\ DataAddr(pair) \in 0..(RamWords - 1)
  BY <1>1, RamAddresses
<1>3. beat # <<>> => <<ic.lower, beat[1].word>> \in WordPairs
  BY <1>1, BeatTypes DEF WordPairs
<1>4. NoTag \in Tags
  BY DEF NoTag, Tags
<1>5. [valid |-> TRUE, tag |-> TagOf(ic.addr)] \in Tags
  <2>1. TagOf(ic.addr) \in Nat
    BY <1>1, AddressOf
  <2> QED BY <2>1 DEF Tags
<1>6. tagRam' = TagsAfter(pair, last) /\ dataRam' = DataAfter(pair, beat)
  BY Zenon DEF ICacheTick
<1> HIDE DEF last
<1>7. TagsAfter(pair, last) \in [Ways -> [0..(NumSets - 1) -> Tags]]
  BY <1>1, <1>2, <1>4, <1>5 DEF TagsAfter, CacheTypeOK
<1>8. DataAfter(pair, beat) \in [Ways -> [0..(RamWords - 1) -> WordPairs]]
  BY <1>1, <1>2, <1>3 DEF DataAfter, CacheTypeOK
<1> QED BY <1>6, <1>7, <1>8
FetchWith(f, active, branch, stall, fetching, pcF, branchD, pair, low, skid) ==
    [f EXCEPT !.active = active, !.branch = branch, !.stall = stall, !.fetching = fetching, !.pcF = pcF,
              !.branchD = branchD, !.pair = pair, !.low = low, !.skid = skid]
LEMMA FetchRegsUpdate ==
  ASSUME NEW f \in FetchRegs, NEW active \in BOOLEAN, NEW branch \in [on : BOOLEAN, pc : FetchPCs],
         NEW stall \in BOOLEAN, NEW fetching \in BOOLEAN, NEW pcF \in FetchPCs, NEW branchD \in BOOLEAN,
         NEW pair \in Nat, NEW low \in BOOLEAN, NEW skid \in Seq(Fetches)
  PROVE FetchWith(f, active, branch, stall, fetching, pcF, branchD, pair, low, skid) \in FetchRegs
BY DEF FetchRegs, FetchWith

LEMMA FetchType ==
  ASSUME FrontTypeOK, NEW next \in FetchPCs, NEW low \in BOOLEAN, FetchTick(next, low)
  PROVE fe' \in FetchRegs
<1>1. /\ BranchPC \in FetchPCs /\ BranchTo \in FetchPCs /\ FetchPC \in FetchPCs /\ FetchPC \div 2 \in Nat
      /\ Fetched \in Fetches
  BY FetchTypes
<1>2. fe \in FetchRegs
  BY DEF FrontTypeOK
<1>3. BranchAfter \in [on : BOOLEAN, pc : FetchPCs]
  <2>1. fe.branch \in [on : BOOLEAN, pc : FetchPCs]
    BY <1>2 DEF FetchRegs
  <2>2. NoBranch \in [on : BOOLEAN, pc : FetchPCs]
    BY PCs2 DEF NoBranch
  <2>3. [on |-> TRUE, pc |-> BranchPC] \in [on : BOOLEAN, pc : FetchPCs]
    BY <1>1
  <2>4. [on |-> TRUE, pc |-> BranchTo] \in [on : BOOLEAN, pc : FetchPCs]
    BY <1>1
  <2> QED BY <2>1, <2>2, <2>3, <2>4, Zenon DEF BranchAfter
<1>4. PCAfterBranch(next) \in FetchPCs
  BY <1>1, <1>2 DEF PCAfterBranch, FetchRegs
<1>5. <<Fetched>> \in Seq(Fetches) /\ <<>> \in Seq(Fetches)
  BY <1>1
<1> DEFINE taken == Requests /\ ReqAccept
           pair == IF taken THEN FetchPC \div 2 ELSE fe.pair
           skid == IF FetchValid /\ ~FetchAccept THEN <<Fetched>> ELSE <<>>
<1>6. pair \in Nat /\ skid \in Seq(Fetches)
  BY <1>1, <1>2, <1>5 DEF FetchRegs
<1>7. fe' = [fe EXCEPT
            !.active = @ \/ (Branch /\ (fe.mmu => ~Stall)),
            !.branch = BranchAfter,
            !.stall = Stall,
            !.fetching = taken \/ (@ /\ ~ReqValid),
            !.pcF = PCAfterBranch(next),
            !.branchD = fe.mmu /\ (IF Stall THEN @ ELSE Branch),
            !.pair = pair,
            !.low = IF taken THEN low ELSE @ /\ ~ReqValid,
            !.skid = skid]
  BY Zenon DEF FetchTick
<1> HIDE DEF taken, pair, skid
<1>8. /\ (fe.active \/ (Branch /\ (fe.mmu => ~Stall))) \in BOOLEAN
      /\ Stall \in BOOLEAN
      /\ (taken \/ (fe.fetching /\ ~ReqValid)) \in BOOLEAN
      /\ (fe.mmu /\ (IF Stall THEN fe.branchD ELSE Branch)) \in BOOLEAN
  BY DEF Stall, Branch, taken
<1>9. (IF taken THEN low ELSE fe.low /\ ~ReqValid) \in BOOLEAN
  BY <1>2 DEF FetchRegs
<1>p10. PICK a \in BOOLEAN : a = (fe.active \/ (Branch /\ (fe.mmu => ~Stall)))
  BY <1>8, Zenon
<1>p11. PICK st \in BOOLEAN : st = Stall
  BY <1>8, Zenon
<1>p12. PICK f \in BOOLEAN : f = (taken \/ (fe.fetching /\ ~ReqValid))
  BY <1>8, Zenon
<1>p13. PICK d \in BOOLEAN : d = (fe.mmu /\ (IF Stall THEN fe.branchD ELSE Branch))
  BY <1>8, Zenon
<1>p14. PICK lo \in BOOLEAN : lo = (IF taken THEN low ELSE fe.low /\ ~ReqValid)
  BY <1>9, Zenon
<1>p15. PICK branch \in [on : BOOLEAN, pc : FetchPCs] : branch = BranchAfter
  BY <1>3
<1>p16. PICK pcF \in FetchPCs : pcF = PCAfterBranch(next)
  BY <1>4
<1>p17. PICK pr \in Nat : pr = pair
  BY <1>6
<1>p18. PICK sk \in Seq(Fetches) : sk = skid
  BY <1>6
<1>10. fe' = FetchWith(fe, a, branch, st, f, pcF, d, pr, lo, sk)
  BY <1>7, <1>p10, <1>p11, <1>p12, <1>p13, <1>p14, <1>p15, <1>p16, <1>p17, <1>p18, Zenon DEF FetchWith
<1> QED BY <1>2, <1>10, FetchRegsUpdate

(* The pointers of the queue go round its slots.  In use are as many slots *)
(* as are counted, from the read pointer on.                               *)
SlotAt(rd, k) == IF rd + k < Depth THEN rd + k ELSE (rd + k) - Depth
CountAfter(c, push, pop) == IF push /\ ~pop THEN c + 1 ELSE IF ~push /\ pop THEN c - 1 ELSE c

LEMMA SlotsAre == Depth \in Nat \ {0} /\ Slots = 0..(Depth - 1) /\ 0 \in Slots
  BY DepthAssumption DEF Slots

LEMMA FollowingSlot ==
  ASSUME NEW s \in Slots
  PROVE  Following(s) \in Slots
  BY SlotsAre DEF Following

LEMMA SlotFollows ==
  ASSUME NEW r \in Slots, NEW k \in 0..(Depth - 1)
  PROVE  /\ SlotAt(Following(r), k) = SlotAt(r, k + 1)
         /\ Following(SlotAt(r, k)) = SlotAt(r, k + 1)
  BY SlotsAre DEF Following, SlotAt

(* What is pushed, and what a clock without a flush does with it.          *)
LEMMA PushedType ==
  ASSUME FrontTypeOK
  PROVE  Pushed \in FifoEntries
<1> DEFINE hs == IF Fetched.low THEN {0} ELSE {0, 1}
           inst == IF Fetched.fault THEN <<Garbage, Garbage>> ELSE Fetched.inst
<1>1. Fetched \in Fetches
  BY FetchTypes
<1>2. hs \in SUBSET {0, 1} /\ inst \in WordPairs /\ Fetched.pair \in Nat /\ Fetched.fault \in BOOLEAN
  BY <1>1 DEF Fetches, WordPairs, Words
<1> HIDE DEF hs, inst
<1>3. [pair |-> Fetched.pair, halves |-> hs, inst |-> inst, fault |-> Fetched.fault] \in FifoEntries
  BY <1>2 DEF FifoEntries
<1> QED BY <1>3, Zenon DEF Pushed, hs, inst

(* An entry keeps pair, words and fault, whatever halves are popped.       *)
SameWords(x, y) == x.pair = y.pair /\ x.inst = y.inst /\ x.fault = y.fault
Written(slot) == IF Pushes /\ slot = fifo.wr THEN Pushed ELSE fifo.entry[slot]

LEMMA FifoMoves ==
  ASSUME FrontTypeOK, NEW halves, FifoTick(halves), ~BranchRequest
  PROVE  LET pop == PopComplete(halves)
         IN  /\ fifo'.count = CountAfter(fifo.count, Pushes, pop)
             /\ fifo'.rd = IF pop THEN Following(fifo.rd) ELSE fifo.rd
             /\ fifo'.wr = IF Pushes THEN Following(fifo.wr) ELSE fifo.wr
             /\ fifo'.entry \in [Slots -> FifoEntries]
             /\ \A slot \in Slots : SameWords(fifo'.entry[slot], Written(slot))
             /\ fifo' = [count |-> fifo'.count, rd |-> fifo'.rd, wr |-> fifo'.wr, entry |-> fifo'.entry]
             /\ Pushes => fifo.count # Depth
             /\ pop => fifo.count # 0
<1> DEFINE cut == Offered \cap halves
           entries == [slot \in Slots |->
                         IF slot # fifo.rd THEN Written(slot)
                         ELSE [Written(slot) EXCEPT !.halves = @ \ cut]]
<1>1. fifo' = [count |-> CountAfter(fifo.count, Pushes, PopComplete(halves)),
               rd |-> IF PopComplete(halves) THEN Following(fifo.rd) ELSE fifo.rd,
               wr |-> IF Pushes THEN Following(fifo.wr) ELSE fifo.wr,
               entry |-> entries]
  BY Zenon DEF FifoTick, FifoMoved, CountAfter, Written
<1> HIDE DEF cut
<1>2. ASSUME NEW slot \in Slots
      PROVE  entries[slot] \in FifoEntries /\ SameWords(entries[slot], Written(slot))
  <2>1. PICK x \in FifoEntries : x = Written(slot)
    BY PushedType DEF FrontTypeOK, FifoRegs, Written
  <2>2. [x EXCEPT !.halves = @ \ cut] \in FifoEntries /\ SameWords([x EXCEPT !.halves = @ \ cut], x)
    BY DEF FifoEntries, SameWords
  <2>3. entries[slot] = x \/ entries[slot] = [x EXCEPT !.halves = @ \ cut]
    BY <2>1, Zenon
  <2> QED BY <2>1, <2>2, <2>3 DEF SameWords
<1>3. entries \in [Slots -> FifoEntries]
  BY <1>2
<1> HIDE DEF entries
<1>4. fifo'.entry = entries
  BY <1>1
<1>5. Pushes => fifo.count # Depth
  BY DEF Pushes, FetchAccept
<1>6. PopComplete(halves) => fifo.count # 0
  BY DEF PopComplete, Offered
<1>7. /\ fifo'.count = CountAfter(fifo.count, Pushes, PopComplete(halves))
      /\ fifo'.rd = IF PopComplete(halves) THEN Following(fifo.rd) ELSE fifo.rd
      /\ fifo'.wr = IF Pushes THEN Following(fifo.wr) ELSE fifo.wr
  BY <1>1
<1>8. fifo' = [count |-> fifo'.count, rd |-> fifo'.rd, wr |-> fifo'.wr, entry |-> fifo'.entry]
  BY <1>1
<1>9. /\ fifo'.entry \in [Slots -> FifoEntries]
      /\ \A slot \in Slots : SameWords(fifo'.entry[slot], Written(slot))
  BY <1>2, <1>3, <1>4
<1> QED BY <1>5, <1>6, <1>7, <1>8, <1>9

LEMMA FifoFlushes ==
  ASSUME FrontTypeOK, NEW halves, FifoTick(halves), BranchRequest
  PROVE  fifo' \in FifoRegs /\ fifo'.count = 0 /\ fifo'.rd = 0 /\ fifo'.wr = 0
<1> DEFINE entries == [slot \in Slots |-> [fifo.entry[slot] EXCEPT !.fault = FALSE]]
<1>1. fifo' = [count |-> 0, rd |-> 0, wr |-> 0, entry |-> entries]
  BY Zenon DEF FifoTick, FifoFlushed
<1>2. entries \in [Slots -> FifoEntries]
  BY DEF FrontTypeOK, FifoRegs, FifoEntries
<1> HIDE DEF entries
<1>3. 0 \in 0..Depth /\ 0 \in Slots
  BY SlotsAre
<1> QED BY <1>1, <1>2, <1>3 DEF FifoRegs

LEMMA FifoType ==
  ASSUME FrontTypeOK, NEW halves, FifoTick(halves)
  PROVE fifo' \in FifoRegs
<1>1. fifo.count \in 0..Depth /\ fifo.rd \in Slots /\ fifo.wr \in Slots
  BY DEF FrontTypeOK, FifoRegs
<1>2. CASE ~BranchRequest
  <2> DEFINE pop == PopComplete(halves)
  <2>1. Pushes \in BOOLEAN /\ pop \in BOOLEAN
    BY DEF Pushes, FetchValid, PopComplete
  <2>2. fifo'.count \in 0..Depth
    BY <1>1, <1>2, SlotsAre, FifoMoves DEF CountAfter
  <2>3. fifo'.rd \in Slots /\ fifo'.wr \in Slots
    BY <1>1, <1>2, FifoMoves, FollowingSlot
  <2>4. /\ fifo'.entry \in [Slots -> FifoEntries]
        /\ fifo' = [count |-> fifo'.count, rd |-> fifo'.rd, wr |-> fifo'.wr, entry |-> fifo'.entry]
    BY <1>2, FifoMoves
  <2> QED BY <2>2, <2>3, <2>4 DEF FifoRegs
<1> QED BY <1>2, FifoFlushes

LEMMA IssueType ==
  ASSUME FrontTypeOK, NEW halves \in IssueChoices, IssueTick(halves)
  PROVE issue' \in IssueRegs
<1>1. issue \in IssueRegs /\ text \in Texts
  BY DEF FrontTypeOK
<1>2. TrapPC \in FetchPCs /\ text.flow \in [FetchPCs -> SUBSET FetchPCs \ {{}}]
  BY <1>1, TextsAssumption
<1>3. ASSUME Issues(halves)
      PROVE LastIssued(halves) \in FetchPCs
  <2>1. issue.pc \in FetchPCs
    BY <1>1 DEF IssueRegs
  <2>2. ASSUME Selects = "slot0", 1 \in halves
        PROVE issue.pc + 1 \in FetchPCs
    <3>1. issue.pc + 1 \in text.flow[issue.pc]
      BY <2>2 DEF IssueChoices, Nothing
    <3> QED BY <1>2, <2>1, <3>1
  <2> QED BY <2>1, <2>2 DEF LastIssued
<1>4. CASE Issues(halves)
  <2>1. PICK pc \in text.flow[LastIssued(halves)], csr \in {"idle", "wait"} :
            IF LastIssued(halves) \in text.fences /\ issue.csr = "idle"
            THEN csr = "idle" /\ issue' = [pc |-> pc, csr |-> "pulse", to |-> pc, fence |-> TRUE]
            ELSE IF issue.csr = "wait" THEN csr = "wait" /\ issue' = [issue EXCEPT !.pc = pc]
            ELSE /\ csr = "wait" => LastIssued(halves) \in text.traps
                 /\ issue' = [pc |-> pc, csr |-> csr, to |-> TrapPC, fence |-> FALSE]
    BY <1>4 DEF IssueTick
  <2>2. pc \in FetchPCs
    BY <1>2, <1>3, <1>4
  <2>3. \/ issue' = [pc |-> pc, csr |-> "pulse", to |-> pc, fence |-> TRUE]
        \/ issue' = [issue EXCEPT !.pc = pc]
        \/ issue' = [pc |-> pc, csr |-> csr, to |-> TrapPC, fence |-> FALSE]
    BY <2>1, Zenon
  <2>4. CASE issue' = [pc |-> pc, csr |-> "pulse", to |-> pc, fence |-> TRUE]
    BY <2>2, <2>4 DEF IssueRegs
  <2>5. CASE issue' = [issue EXCEPT !.pc = pc]
    BY <1>1, <2>2, <2>5 DEF IssueRegs
  <2>6. CASE issue' = [pc |-> pc, csr |-> csr, to |-> TrapPC, fence |-> FALSE]
    BY <1>2, <2>2, <2>6 DEF IssueRegs
  <2> QED BY <2>3, <2>4, <2>5, <2>6
<1>5. CASE ~Issues(halves)
  <2>1. \/ issue' = [pc |-> issue.to, csr |-> "idle", to |-> TrapPC, fence |-> FALSE]
        \/ issue' = issue
        \/ \E csr \in {"wait", "squash", "branch"} : issue' = [issue EXCEPT !.csr = csr]
    BY <1>5, Zenon DEF IssueTick
  <2>2. CASE issue' = [pc |-> issue.to, csr |-> "idle", to |-> TrapPC, fence |-> FALSE]
    BY <1>1, <1>2, <2>2 DEF IssueRegs
  <2>3. CASE issue' = issue
    BY <1>1, <2>3
  <2>4. CASE \E csr \in {"wait", "squash", "branch"} : issue' = [issue EXCEPT !.csr = csr]
    BY <1>1, <2>4 DEF IssueRegs
  <2> QED BY <2>1, <2>2, <2>3, <2>4
<1> QED BY <1>4, <1>5

LEMMA BusType ==
  ASSUME FrontTypeOK, NEW arReady, NEW beat \in Beats, BusTick(arReady, beat)
  PROVE rbus' \in Seq([line : Nat, sent : Nat])
<1> DEFINE Bursts == [line : Nat, sent : Nat]
<1>1. LineOf(ic.addr) \in Nat
  BY AddressOf DEF FrontTypeOK, CacheTypeOK, CacheRegs
<1>2. rbus \in Seq(Bursts)
  BY DEF FrontTypeOK
<1>3. beat # <<>> => rbus[1] \in Bursts
  BY <1>2, BeatFacts, HeadIn
<1>4. [line |-> LineOf(ic.addr), sent |-> 0] \in Bursts
  BY <1>1
<1>5. ASSUME beat # <<>>
      PROVE [rbus[1] EXCEPT !.sent = @ + 1] \in Bursts
  BY <1>3, <1>5
<1> HIDE DEF Bursts
<1>6. /\ <<[line |-> LineOf(ic.addr), sent |-> 0]>> \in Seq(Bursts)
      /\ beat # <<>> => <<[rbus[1] EXCEPT !.sent = @ + 1]>> \in Seq(Bursts)
      /\ <<>> \in Seq(Bursts)
  BY <1>4, <1>5
<1>7. rbus' \in Seq(Bursts)
  BY <1>2, <1>6, Zenon DEF BusTick
<1> QED BY <1>7 DEF Bursts

LEMMA OwedType ==
  ASSUME FrontTypeOK, OwedTick
  PROVE owed' \in [{"fence", "flush"} -> [pulse : Nat, now : Nat]]
BY DEF FrontTypeOK, OwedTick
LEMMA FrontTypeInit == FrontInit => FrontTypeOK
<1> SUFFICES ASSUME FrontInit PROVE FrontTypeOK
  OBVIOUS
<1>1. ICacheInit /\ text \in Texts /\ rbus = <<>> /\ code = 0
  BY DEF FrontInit
<1>2. NoTag \in Tags /\ [valid |-> TRUE, tag |-> 0] \in Tags
  BY DEF NoTag, Tags
<1>3. Garbage \in Words /\ <<Garbage, Garbage>> \in WordPairs
  BY DEF Words, WordPairs
<1>4. 0 \in 0..(NumSets - 1) /\ 0 \in 0..(RamWords - 1)
  BY Sizes
<1>5. ic \in CacheRegs
  BY <1>1, <1>2, <1>3, <1>4 DEF ICacheInit, CacheRegs, Ways
<1>6. tagRam \in [Ways -> [0..(NumSets - 1) -> Tags]]
  BY <1>1, <1>2 DEF ICacheInit
<1>7. dataRam \in [Ways -> [0..(RamWords - 1) -> WordPairs]]
  BY <1>1, <1>3 DEF ICacheInit
<1>8. fe \in FetchRegs
  <2>1. PICK mmu \in BOOLEAN :
          fe = [mmu |-> mmu, active |-> FALSE, branch |-> NoBranch, stall |-> FALSE,
                fetching |-> FALSE, pcF |-> 0, pair |-> 0, low |-> FALSE,
                branchD |-> FALSE, skid |-> <<>>]
    BY DEF FrontInit
  <2>2. NoBranch \in [on : BOOLEAN, pc : FetchPCs] /\ 0 \in FetchPCs /\ <<>> \in Seq(Fetches)
    BY PCs2 DEF NoBranch
  <2> QED BY <2>1, <2>2 DEF FetchRegs
<1>9. issue \in IssueRegs
  BY PCs2 DEF FrontInit, IssueRegs
<1>10. owed \in [{"fence", "flush"} -> [pulse : Nat, now : Nat]]
  BY DEF FrontInit
<1>11. fifo \in FifoRegs
  <2>1. Unused \in FifoEntries
    BY <1>3 DEF Unused, FifoEntries
  <2>2. fifo = [count |-> 0, rd |-> 0, wr |-> 0, entry |-> [slot \in Slots |-> Unused]]
    BY DEF FrontInit
  <2> QED BY <2>1, <2>2, SlotsAre DEF FifoRegs
<1> QED BY <1>1, <1>5, <1>6, <1>7, <1>8, <1>9, <1>10, <1>11 DEF FrontTypeOK, CacheTypeOK

LEMMA FrontTypeStep == FrontTypeOK /\ [FrontNext]_frontVars => FrontTypeOK'
<1> SUFFICES ASSUME FrontTypeOK, [FrontNext]_frontVars PROVE FrontTypeOK'
  OBVIOUS
<1>1. CASE UNCHANGED frontVars
  BY <1>1 DEF FrontTypeOK, CacheTypeOK, frontVars, cacheVars
<1>2. ASSUME NEW halves \in IssueChoices, NEW guess \in Predictions, NEW arReady \in {FALSE, rbus = <<>>},
             NEW beat \in Beats, FrontClock(halves, guess, arReady, beat)
      PROVE FrontTypeOK'
  <2>1. guess.next \in FetchPCs /\ guess.low \in BOOLEAN
    BY GuessTypes
  <2>2. /\ ICacheTick(Requests, FetchPC \div 2, Flush, arReady, beat)
        /\ FetchTick(guess.next, guess.low) /\ FifoTick(halves) /\ IssueTick(halves)
        /\ BusTick(arReady, beat) /\ OwedTick /\ text' = text
    BY <1>2, Zenon DEF FrontClock
  <2>3. ic' \in CacheRegs
    BY <2>2, RegsType
  <2>4. /\ tagRam' \in [Ways -> [0..(NumSets - 1) -> Tags]]
        /\ dataRam' \in [Ways -> [0..(RamWords - 1) -> WordPairs]]
    BY <2>2, RamsType
  <2>5. fe' \in FetchRegs
    BY <2>1, <2>2, FetchType
  <2>6. fifo' \in FifoRegs /\ issue' \in IssueRegs
    BY <2>2, FifoType, IssueType
  <2>7. rbus' \in Seq([line : Nat, sent : Nat])
    BY <2>2, BusType
  <2>8. owed' \in [{"fence", "flush"} -> [pulse : Nat, now : Nat]]
    BY <2>2, OwedType
  <2>9. text' \in Texts
    BY <2>2 DEF FrontTypeOK
  <2>10. code' \in Nat
    <3>1. code' \in {code} \cup (IF Issues(halves) /\ issue.pc \in text.stores /\ code < CodeVersions
                            THEN {code + 1} ELSE {})
      BY <1>2, Zenon DEF FrontClock
    <3>2. code' = code \/ code' = code + 1
      BY <3>1
    <3> QED BY <3>2 DEF FrontTypeOK
  <2> QED BY <2>3, <2>4, <2>5, <2>6, <2>7, <2>8, <2>9, <2>10 DEF FrontTypeOK, CacheTypeOK
<1> QED BY <1>1, <1>2, Zenon DEF FrontNext

(* The registers, the RAMs and the queue of the fetch path keep their      *)
(* types: no RAM is addressed outside and no pc leaves the program.        *)
THEOREM FrontTypesHold == FrontSpec => []FrontTypeOK
<1>1. FrontInit => FrontTypeOK
  BY FrontTypeInit
<1>2. FrontTypeOK /\ [FrontNext]_frontVars => FrontTypeOK'
  BY FrontTypeStep
<1> QED BY <1>1, <1>2, PTL DEF FrontSpec
-----------------------------------------------------------------------------
(* The inductive invariant                                                 *)

(* The version every fetched word of CodeLine has to show: that of the     *)
(* last flush the cache looked at.                                         *)
Owes == owed["flush"].pulse

(* A word of pc, a pair of words, what a fetch of a pair answers.          *)
IsWord(x, pc, v) == x.pc = pc /\ (LineOf(pc \div 2) = CodeLine => x.version \in Nat /\ x.version >= v)
IsPair(d, pair, v) == IsWord(d[1], 2 * pair, v) /\ IsWord(d[2], 2 * pair + 1, v)
InLine(faults, pair) == \E pc \in faults : LineOf(pc \div 2) = LineOf(pair)
IsItem(x, faults, v) == IF x.fault THEN InLine(faults, x.pair) ELSE IsPair(x.inst, x.pair, v)

(* The fetch and the cache wait for the same answer, and a fence.i is on   *)
(* its way from its pulse to the branch behind it.                         *)
FetchInStep ==
    /\ fe.fetching <=> ic.lookup
    /\ ic.lookup => fe.pair = ic.addr
    /\ issue.csr = "pulse" => issue.fence
    /\ issue.fence => issue.csr # "idle"
Counts == code >= Owes /\ Owes >= owed["flush"].now

(* The read burst is that of the refill, at the same beat.                 *)
BusInStep ==
    /\ ic.state = "REFILL" <=> ic.ar \/ rbus # <<>>
    /\ ic.ar => rbus = <<>>
    /\ rbus # <<>> => rbus[1].line = LineOf(ic.addr) /\ rbus[1].sent = ic.idx /\ ic.idx < LineBeats
    /\ rbus = <<>> => ic.idx = 0
    /\ ic.state \in {"REFILL", "RELOOKUP"} => ic.lookup

(* The pairs of the line that have come are in the way under refill, and   *)
(* the first half of the next one is at hand.                              *)
Refilled(ram, way, n, v) ==
    \A k \in 0..(n - 1) : IsPair(ram[way][Nth(SetOf(ic.addr), k)], Nth(LineOf(ic.addr), k), v)
Refilling ==
    ic.state = "REFILL" =>
      /\ ic.writeAddr = Nth(SetOf(ic.addr), ic.idx \div 2)
      /\ ic.idx % 2 = 1 => IsWord(ic.lower, LineOf(ic.addr) * LineBeats + ic.idx - 1, Owes)
      /\ Refilled(dataRam, ic.way, ic.idx \div 2, Owes)

(* The walk has cleared the sets before the one it is at.                  *)
Cleared ==
    ic.state = "FLUSH" => \A w \in Ways, s \in 0..(NumSets - 1) : s < ic.flushAddr => ~tagRam[w][s].valid

(* After the walk a valid tag names what its line holds; the tag of the    *)
(* way under refill is still the old one.                                  *)
Awaited(w, s) == ic.state = "REFILL" /\ w = ic.way /\ s = SetOf(ic.addr)
RamsHold ==
    ic.state # "FLUSH" =>
      \A w \in Ways, a \in 0..(RamWords - 1) :
        tagRam[w][LineOf(a)].valid /\ ~Awaited(w, LineOf(a)) =>
           IsPair(dataRam[w][a], PairAt(tagRam[w][LineOf(a)].tag, a), Owes)

(* An error is that of the line waited for.                                *)
ErrIsFault == ic.err => ic.lookup /\ InLine(text.faults, ic.addr)

(* What is on its way will be dropped, by a branch that waits or by the    *)
(* one at the end of a fence.i: so it is for a fetch that sits out a walk, *)
(* whose first lookup shows the tags of another set.                       *)
LateDropped == fe.branch.on \/ issue.fence
WalkDropped == ic.lookup /\ ic.state = "FLUSH" => LateDropped

(* Otherwise a hit shows the pair asked for, and so do the skid buffer and *)
(* the queue, in the slots it counts: a flush leaves old words in the      *)
(* others.  Its pointers are as far apart as it counts.                    *)
OutputsHold ==
    ic.lookup /\ ic.state = "LOOKUP" /\ ~LateDropped => \A w \in Ways : Hit(w) => IsPair(ic.data[w], ic.addr, Owes)
SkidHolds == fe.skid # <<>> /\ ~LateDropped => IsItem(fe.skid[1], text.faults, Owes)
FifoInStep == fifo.wr = SlotAt(fifo.rd, fifo.count)
QueueHolds ==
    ~issue.fence => \A k \in 0..(fifo.count - 1) :
        IsItem(fifo.entry[SlotAt(fifo.rd, k)], text.faults, Owes)

FrontInv ==
    /\ FrontTypeOK /\ FetchInStep /\ Counts /\ BusInStep /\ Refilling /\ Cleared /\ RamsHold
    /\ ErrIsFault /\ WalkDropped /\ OutputsHold /\ SkidHolds /\ FifoInStep /\ QueueHolds

-----------------------------------------------------------------------------
(* What a clock does                                                       *)

Ticks(arReady, beat) == ICacheTick(Requests, FetchPC \div 2, Flush, arReady, beat)
Taken == Requests /\ ReqAccept
LastBeat(beat) == beat # <<>> /\ beat[1].last

LEMMA CacheStates ==
  ASSUME CacheTypeOK, NEW arReady, NEW beat, Ticks(arReady, beat)
  PROVE /\ ic.state = "FLUSH" => /\ ic'.state \in {"FLUSH", "LOOKUP"}
                                 /\ ic'.state = "LOOKUP" <=> ic.flushAddr = NumSets - 1
                                 /\ ic'.flushAddr = (ic.flushAddr + 1) % NumSets
        /\ ic.state # "FLUSH" => ic'.flushAddr = 0
        /\ ic.state = "LOOKUP" /\ Misses => ic'.state = "REFILL"
        /\ ic.state = "LOOKUP" /\ ~Misses => /\ ic'.state \in {"FLUSH", "LOOKUP"}
                                             /\ ic'.state = "FLUSH" <=> Flush
        /\ ic.state = "REFILL" => ic'.state = IF LastBeat(beat) THEN "RELOOKUP" ELSE "REFILL"
        /\ ic.state = "RELOOKUP" => ic'.state = "LOOKUP"
<1>1. ic'.state = NextState(Flush, LastBeat(beat))
  BY Zenon DEF Ticks, ICacheTick, LastBeat
<1>2. ic'.flushAddr = IF ic.state = "FLUSH" THEN (ic.flushAddr + 1) % NumSets ELSE 0
  BY Zenon DEF Ticks, ICacheTick
<1>3. ic.state = "FLUSH" => /\ ic'.state \in {"FLUSH", "LOOKUP"}
                            /\ ic'.state = "LOOKUP" <=> ic.flushAddr = NumSets - 1
  BY <1>1 DEF NextState
<1>4. /\ ic.state = "LOOKUP" /\ Misses => ic'.state = "REFILL"
      /\ ic.state = "LOOKUP" /\ ~Misses => /\ ic'.state \in {"FLUSH", "LOOKUP"}
                                           /\ ic'.state = "FLUSH" <=> Flush
  BY <1>1 DEF NextState
<1>5. /\ ic.state = "REFILL" => ic'.state = IF LastBeat(beat) THEN "RELOOKUP" ELSE "REFILL"
      /\ ic.state = "RELOOKUP" => ic'.state = "LOOKUP"
  BY <1>1 DEF NextState
<1> QED BY <1>2, <1>3, <1>4, <1>5

LEMMA CacheMoves ==
  ASSUME NEW arReady, NEW beat, NEW pair, pair = FetchPC \div 2, Ticks(arReady, beat)
  PROVE /\ ic'.lookup <=> Taken \/ (ic.lookup /\ ~ReqValid)
        /\ ic'.addr = IF Taken THEN pair ELSE ic.addr
        /\ ic'.way = IF LastBeat(beat) THEN 1 - ic.way ELSE ic.way
        /\ ic'.ar <=> LineArValid /\ ~arReady
        /\ ic'.err <=> (beat # <<>> /\ beat[1].err) \/ (ic.err /\ ~ReqValid)
        /\ ic'.idx = IF LastBeat(beat) THEN 0 ELSE IF beat # <<>> THEN ic.idx + 1 ELSE ic.idx
        /\ ic'.lower = IF beat # <<>> THEN beat[1].word ELSE ic.lower
        /\ ic'.writeAddr = WriteAddr(beat)
        /\ \A w \in Ways : /\ ic'.tag[w] = tagRam[w][TagAddr(pair)]
                           /\ ic'.data[w] = dataRam[w][DataAddr(pair)]
<1>1. ic'.lookup <=> Taken \/ (ic.lookup /\ ~ReqValid)
  BY Zenon DEF Ticks, ICacheTick, Taken
<1>2. ic'.addr = IF Taken THEN pair ELSE ic.addr
  BY Zenon DEF Ticks, ICacheTick, Taken
<1>3. ic'.way = IF LastBeat(beat) THEN 1 - ic.way ELSE ic.way
  BY Zenon DEF Ticks, ICacheTick, LastBeat
<1>4. ic'.ar <=> LineArValid /\ ~arReady
  BY Zenon DEF Ticks, ICacheTick
<1>5. ic'.err <=> (beat # <<>> /\ beat[1].err) \/ (ic.err /\ ~ReqValid)
  BY Zenon DEF Ticks, ICacheTick
<1>6. ic'.idx = IF LastBeat(beat) THEN 0 ELSE IF beat # <<>> THEN ic.idx + 1 ELSE ic.idx
  BY Zenon DEF Ticks, ICacheTick, LastBeat
<1>7. ic'.lower = (IF beat # <<>> THEN beat[1].word ELSE ic.lower) /\ ic'.writeAddr = WriteAddr(beat)
  BY Zenon DEF Ticks, ICacheTick
<1>8. ic'.tag = [w \in Ways |-> tagRam[w][TagAddr(pair)]] /\ ic'.data = [w \in Ways |-> dataRam[w][DataAddr(pair)]]
  BY Zenon DEF Ticks, ICacheTick
<1>9. \A w \in Ways : /\ ic'.tag[w] = tagRam[w][TagAddr(pair)]
                      /\ ic'.data[w] = dataRam[w][DataAddr(pair)]
  BY <1>8
<1> QED BY <1>1, <1>2, <1>3, <1>4, <1>5, <1>6, <1>7, <1>9
LEMMA RamsMove ==
  ASSUME CacheTypeOK, NEW arReady, NEW beat, Ticks(arReady, beat), FetchPC \div 2 \in Nat,
         NEW w \in Ways
  PROVE /\ \A s \in 0..(NumSets - 1) :
             /\ ic.state = "FLUSH" /\ s = ic.flushAddr => ~tagRam'[w][s].valid
             /\ ic.state = "FLUSH" /\ s # ic.flushAddr => tagRam'[w][s] = tagRam[w][s]
             /\ ic.state # "FLUSH" =>
                  IF ic.state = "REFILL" /\ LastBeat(beat) /\ w = ic.way /\ s = SetOf(ic.addr)
                  THEN tagRam'[w][s].valid /\ tagRam'[w][s].tag = TagOf(ic.addr)
                  ELSE tagRam'[w][s] = tagRam[w][s]
        /\ \A a \in 0..(RamWords - 1) :
             IF beat # <<>> /\ w = ic.way /\ a = DataAddr(FetchPC \div 2)
             THEN dataRam'[w][a] = <<ic.lower, beat[1].word>>
             ELSE dataRam'[w][a] = dataRam[w][a]
<1> PICK pair \in Nat : pair = FetchPC \div 2
  OBVIOUS
<1>1. TagAddr(pair) \in 0..(NumSets - 1) /\ DataAddr(pair) \in 0..(RamWords - 1)
  BY RamAddresses
<1>2. tagRam' = TagsAfter(pair, LastBeat(beat)) /\ dataRam' = DataAfter(pair, beat)
  BY Zenon DEF Ticks, ICacheTick, LastBeat
<1>3. tagRam[w] \in [0..(NumSets - 1) -> Tags] /\ dataRam[w] \in [0..(RamWords - 1) -> WordPairs]
  BY DEF CacheTypeOK
<1>4. /\ ic.state = "FLUSH" => TagAddr(pair) = ic.flushAddr
      /\ ic.state = "REFILL" => TagAddr(pair) = SetOf(ic.addr)
  BY DEF TagAddr
<1>5. tagRam'[w] =
        IF ic.state = "FLUSH" THEN [tagRam[w] EXCEPT ![TagAddr(pair)] = NoTag]
        ELSE IF ic.state = "REFILL" /\ LastBeat(beat) /\ ic.way = w
        THEN [tagRam[w] EXCEPT ![TagAddr(pair)] = [valid |-> TRUE, tag |-> TagOf(ic.addr)]]
        ELSE tagRam[w]
  BY <1>2, Zenon DEF TagsAfter
<1>6. dataRam'[w] = IF beat # <<>> /\ ic.way = w
                    THEN [dataRam[w] EXCEPT ![DataAddr(pair)] = <<ic.lower, beat[1].word>>]
                    ELSE dataRam[w]
  BY <1>2, Zenon DEF DataAfter
<1>7. ASSUME NEW s \in 0..(NumSets - 1)
      PROVE /\ ic.state = "FLUSH" /\ s = ic.flushAddr => ~tagRam'[w][s].valid
            /\ ic.state = "FLUSH" /\ s # ic.flushAddr => tagRam'[w][s] = tagRam[w][s]
  <2>1. ic.state = "FLUSH" => tagRam'[w][s] = IF s = ic.flushAddr THEN NoTag ELSE tagRam[w][s]
    <3> SUFFICES ASSUME ic.state = "FLUSH" PROVE tagRam'[w][s] = IF s = ic.flushAddr THEN NoTag ELSE tagRam[w][s]
      OBVIOUS
    <3>1. tagRam'[w] = [tagRam[w] EXCEPT ![ic.flushAddr] = NoTag] /\ ic.flushAddr \in 0..(NumSets - 1)
      BY <1>1, <1>4, <1>5, Zenon
    <3> QED BY <1>3, <3>1
  <2>2. ~NoTag.valid
    BY DEF NoTag
  <2> QED BY <2>1, <2>2
<1>8. ASSUME NEW s \in 0..(NumSets - 1), ic.state # "FLUSH"
      PROVE IF ic.state = "REFILL" /\ LastBeat(beat) /\ w = ic.way /\ s = SetOf(ic.addr)
            THEN tagRam'[w][s].valid /\ tagRam'[w][s].tag = TagOf(ic.addr)
            ELSE tagRam'[w][s] = tagRam[w][s]
  <2> DEFINE e == [valid |-> TRUE, tag |-> TagOf(ic.addr)]
  <2>1. e.valid /\ e.tag = TagOf(ic.addr)
    OBVIOUS
  <2>2. /\ ic.state = "REFILL" /\ LastBeat(beat) /\ w = ic.way =>
             /\ tagRam'[w] = [tagRam[w] EXCEPT ![SetOf(ic.addr)] = e]
             /\ SetOf(ic.addr) \in 0..(NumSets - 1)
        /\ ~(ic.state = "REFILL" /\ LastBeat(beat) /\ w = ic.way) => tagRam'[w] = tagRam[w]
    BY <1>1, <1>4, <1>5, <1>8, Zenon
  <2> HIDE DEF e
  <2>3. ic.state = "REFILL" /\ LastBeat(beat) /\ w = ic.way =>
          tagRam'[w][s] = IF s = SetOf(ic.addr) THEN e ELSE tagRam[w][s]
    BY <1>3, <2>2
  <2> QED BY <2>1, <2>2, <2>3
<1>9. ASSUME NEW a \in 0..(RamWords - 1)
      PROVE IF beat # <<>> /\ w = ic.way /\ a = DataAddr(pair)
            THEN dataRam'[w][a] = <<ic.lower, beat[1].word>>
            ELSE dataRam'[w][a] = dataRam[w][a]
  BY <1>1, <1>3, <1>6
<1> QED BY <1>7, <1>8, <1>9

(* What is owed changes only in the clock of a pulse that starts a walk.   *)
LEMMA OwesMoves ==
  ASSUME FrontTypeOK, OwedTick
  PROVE /\ Owes' = IF Flush /\ ReqAccept THEN code ELSE Owes
        /\ owed'["flush"].now = IF issue.csr = "branch" THEN Owes ELSE owed["flush"].now
<1>1. owed'["flush"] = [pulse |-> IF Flush /\ ("flush" = "flush" => ReqAccept) THEN code ELSE owed["flush"].pulse,
                        now |-> IF issue.csr = "branch" THEN owed["flush"].pulse ELSE owed["flush"].now]
  BY DEF OwedTick
<1>2. owed'["flush"].pulse = IF Flush /\ ("flush" = "flush" => ReqAccept) THEN code ELSE owed["flush"].pulse
  BY <1>1
<1>3. owed'["flush"].now = IF issue.csr = "branch" THEN owed["flush"].pulse ELSE owed["flush"].now
  BY <1>1
<1> QED BY <1>2, <1>3 DEF Owes

(* A fence.i that is on its way stays so until the branch.                 *)
LEMMA FenceMoves ==
  ASSUME FrontTypeOK, FetchInStep, NEW halves \in IssueChoices, IssueTick(halves)
  PROVE /\ issue'.csr = "pulse" => issue'.fence
        /\ issue'.fence => issue'.csr # "idle"
        /\ issue.fence /\ issue.csr # "branch" => issue'.fence
<1>0. issue \in IssueRegs
  BY DEF FrontTypeOK
<1>1. CASE Issues(halves)
  <2>1. issue.csr = "idle" \/ (issue.csr = "wait" /\ ~issue.fence)
    BY <1>1 DEF Issues, MayIssue
  <2>2. ~issue.fence
    BY <2>1 DEF FetchInStep
  <2>3. \E pc \in text.flow[LastIssued(halves)], csr \in {"idle", "wait"} :
            \/ issue' = [pc |-> pc, csr |-> "pulse", to |-> pc, fence |-> TRUE]
            \/ issue.csr = "wait" /\ issue' = [issue EXCEPT !.pc = pc]
            \/ issue' = [pc |-> pc, csr |-> csr, to |-> TrapPC, fence |-> FALSE]
    BY <1>1 DEF IssueTick
  <2>4. PICK pc \in text.flow[LastIssued(halves)], csr \in {"idle", "wait"} :
            \/ issue' = [pc |-> pc, csr |-> "pulse", to |-> pc, fence |-> TRUE]
            \/ issue.csr = "wait" /\ issue' = [issue EXCEPT !.pc = pc]
            \/ issue' = [pc |-> pc, csr |-> csr, to |-> TrapPC, fence |-> FALSE]
    BY <2>3
  <2>5. CASE issue' = [pc |-> pc, csr |-> "pulse", to |-> pc, fence |-> TRUE]
    BY <2>2, <2>5
  <2>6. CASE issue.csr = "wait" /\ issue' = [issue EXCEPT !.pc = pc]
    BY <1>0, <2>2, <2>6 DEF IssueRegs
  <2>7. CASE issue' = [pc |-> pc, csr |-> csr, to |-> TrapPC, fence |-> FALSE]
    BY <2>2, <2>7
  <2> QED BY <2>4, <2>5, <2>6, <2>7
<1>2. CASE ~Issues(halves)
  <2>1. \/ issue.csr = "branch" /\ issue' = [pc |-> issue.to, csr |-> "idle", to |-> TrapPC, fence |-> FALSE]
        \/ issue.csr \in {"idle", "wait"} /\ issue' = issue
        \/ \E csr \in {"wait", "squash", "branch"} :
              issue.csr # "idle" /\ issue' = [issue EXCEPT !.csr = csr]
    BY <1>2 DEF IssueTick
  <2>2. CASE issue.csr = "branch" /\ issue' = [pc |-> issue.to, csr |-> "idle", to |-> TrapPC, fence |-> FALSE]
    BY <2>2
  <2>3. CASE issue.csr \in {"idle", "wait"} /\ issue' = issue
    BY <2>3 DEF FetchInStep
  <2>4. CASE \E csr \in {"wait", "squash", "branch"} :
              issue.csr # "idle" /\ issue' = [issue EXCEPT !.csr = csr]
    <3>1. PICK csr \in {"wait", "squash", "branch"} : issue' = [issue EXCEPT !.csr = csr]
      BY <2>4
    <3>2. issue'.csr = csr /\ issue'.fence = issue.fence
      BY <1>0, <3>1 DEF IssueRegs
    <3> QED BY <3>2
  <2> QED BY <2>1, <2>2, <2>3, <2>4
<1> QED BY <1>1, <1>2

(* What a wait drops is dropped: the branch stays until the answer.        *)
LEMMA BranchMoves ==
  ASSUME FrontTypeOK, NEW next \in FetchPCs, NEW low \in BOOLEAN, FetchTick(next, low)
  PROVE /\ fe'.branch = BranchAfter
        /\ fe'.fetching <=> Taken \/ (fe.fetching /\ ~ReqValid)
        /\ fe'.pair = IF Taken THEN FetchPC \div 2 ELSE fe.pair
        /\ fe'.skid = IF FetchValid /\ ~FetchAccept THEN <<Fetched>> ELSE <<>>
<1>1. fe \in FetchRegs
  BY DEF FrontTypeOK
<1>2. DOMAIN fe = {"mmu", "active", "branch", "stall", "fetching", "pcF", "pair", "low", "branchD", "skid"}
  BY <1>1 DEF FetchRegs
<1> DEFINE pair == IF Taken THEN FetchPC \div 2 ELSE fe.pair
           skid == IF FetchValid /\ ~FetchAccept THEN <<Fetched>> ELSE <<>>
           pcF == PCAfterBranch(next)
           branchD == fe.mmu /\ (IF Stall THEN fe.branchD ELSE Branch)
           l == IF Taken THEN low ELSE fe.low /\ ~ReqValid
           a == fe.active \/ (Branch /\ (fe.mmu => ~Stall))
           f == Taken \/ (fe.fetching /\ ~ReqValid)
<1>3. fe' = [fe EXCEPT !.active = a, !.branch = BranchAfter, !.stall = Stall, !.fetching = f,
                       !.pcF = pcF, !.branchD = branchD, !.pair = pair, !.low = l, !.skid = skid]
  BY Zenon DEF FetchTick, Taken
<1> HIDE DEF pair, skid, pcF, branchD, l, a, f
<1>4. fe'.branch = BranchAfter /\ fe'.pair = pair /\ fe'.skid = skid
  BY <1>2, <1>3
<1>5. fe'.fetching <=> f
  BY <1>2, <1>3
<1> QED BY <1>4, <1>5 DEF pair, skid, f
-----------------------------------------------------------------------------
(* Every part is kept                                                      *)

LEMMA ClockParts ==
  ASSUME FrontTypeOK, NEW halves \in IssueChoices, NEW guess \in Predictions, NEW arReady \in {FALSE, rbus = <<>>},
         NEW beat \in Beats, FrontClock(halves, guess, arReady, beat)
  PROVE /\ Ticks(arReady, beat) /\ FetchTick(guess.next, guess.low) /\ FifoTick(halves) /\ IssueTick(halves)
        /\ BusTick(arReady, beat) /\ OwedTick /\ text' = text
        /\ guess.next \in FetchPCs /\ guess.low \in BOOLEAN
        /\ code' >= code /\ code \in Nat /\ code' \in Nat
        /\ arReady => rbus = <<>>
<1>1. /\ Ticks(arReady, beat) /\ FetchTick(guess.next, guess.low) /\ FifoTick(halves) /\ IssueTick(halves)
      /\ BusTick(arReady, beat) /\ OwedTick /\ text' = text
      /\ code' \in {code} \cup (IF Issues(halves) /\ issue.pc \in text.stores /\ code < CodeVersions
                            THEN {code + 1} ELSE {})
  BY Zenon DEF FrontClock, Ticks
<1>2. code' = code \/ code' = code + 1
  BY <1>1
<1>3. code \in Nat
  BY DEF FrontTypeOK
<1>4. code' >= code /\ code' \in Nat
  BY <1>2, <1>3
<1>5. arReady => rbus = <<>>
  BY Zenon
<1> QED BY <1>1, <1>3, <1>4, <1>5, GuessTypes

(* A beat is one of the line under refill, and its word is not older than  *)
(* what is owed.                                                           *)
LEMMA BeatInLine ==
  ASSUME FrontTypeOK, BusInStep, Counts, NEW beat \in Beats, beat # <<>>
  PROVE /\ ic.state = "REFILL" /\ ~ic.ar /\ rbus # <<>>
        /\ ic.idx \in 0..(LineBeats - 1)
        /\ LastBeat(beat) <=> ic.idx = LineBeats - 1
        /\ IsWord(beat[1].word, LineOf(ic.addr) * LineBeats + ic.idx, Owes)
        /\ beat[1].err => InLine(text.faults, ic.addr)
<1>1. /\ rbus # <<>> /\ beat[1].word = WordAt(BeatPC)
      /\ beat[1].last <=> rbus[1].sent = LineBeats - 1
      /\ beat[1].err => BeatPC \in text.faults
  BY BeatFacts
<1>2. /\ ic.state = "REFILL" /\ ~ic.ar /\ rbus[1].line = LineOf(ic.addr) /\ rbus[1].sent = ic.idx
      /\ ic.idx < LineBeats
  BY <1>1 DEF BusInStep
<1>3. ic.idx \in Nat /\ ic.addr \in Nat
  BY DEF FrontTypeOK, CacheTypeOK, CacheRegs
<1>4. ic.idx \in 0..(LineBeats - 1)
  BY <1>2, <1>3, Sizes
<1>5. LineOf(ic.addr) \in Nat
  BY <1>3, AddressOf
<1>6. BeatPC = LineOf(ic.addr) * LineBeats + ic.idx
  BY <1>2 DEF BeatPC
<1>7. ic.idx \div 2 \in 0..(LineWords - 1) /\ BeatPC \div 2 = Nth(LineOf(ic.addr), ic.idx \div 2)
  BY <1>4, <1>5, <1>6, BeatOf
<1>8. LineOf(BeatPC \div 2) = LineOf(ic.addr)
  BY <1>5, <1>7, NthIn
<1>9. beat[1].word.pc = BeatPC /\ beat[1].word.version = Version(LineOf(BeatPC \div 2))
  BY <1>1 DEF WordAt
<1>10. LineOf(BeatPC \div 2) = CodeLine => beat[1].word.version \in Nat /\ beat[1].word.version >= Owes
  BY <1>9 DEF Version, Counts, FrontTypeOK
<1>11. IsWord(beat[1].word, BeatPC, Owes)
  BY <1>9, <1>10 DEF IsWord
<1>12. beat[1].err => InLine(text.faults, ic.addr)
  BY <1>1, <1>8 DEF InLine
<1>13. LastBeat(beat) <=> ic.idx = LineBeats - 1
  BY <1>1, <1>2 DEF LastBeat
<1> QED BY <1>1, <1>2, <1>4, <1>6, <1>11, <1>12, <1>13

(* While an answer is awaited no other fetch is accepted.                  *)
LEMMA Waits ==
  ASSUME FrontTypeOK, BusInStep
  PROVE /\ ic.lookup /\ ~ReqValid => ~ReqAccept
        /\ Misses => ic.state = "LOOKUP" /\ ic.lookup /\ ~ReqValid /\ ~ReqAccept
        /\ ReqAccept => ic.state = "LOOKUP" /\ ~Misses
        /\ ReqValid => ic.state = "LOOKUP" /\ ic.lookup
        /\ ic.state = "LOOKUP" /\ ic.lookup /\ ~Misses => ReqValid
BY DEF ReqValid, ReqAccept, Misses

LEMMA FetchInStepKept ==
  ASSUME FrontInv, NEW halves \in IssueChoices, NEW guess \in Predictions, NEW arReady \in {FALSE, rbus = <<>>},
         NEW beat \in Beats, FrontClock(halves, guess, arReady, beat)
  PROVE FetchInStep'
<1>1. FrontTypeOK /\ FetchInStep /\ BusInStep
  BY DEF FrontInv
<1>2. Ticks(arReady, beat) /\ FetchTick(guess.next, guess.low) /\ IssueTick(halves)
      /\ guess.next \in FetchPCs /\ guess.low \in BOOLEAN
  BY <1>1, ClockParts
<1> PICK pair \in Nat : pair = FetchPC \div 2
  BY <1>1, FetchTypes
<1>3. (ic'.lookup <=> Taken \/ (ic.lookup /\ ~ReqValid)) /\ ic'.addr = IF Taken THEN pair ELSE ic.addr
  BY <1>2, CacheMoves
<1>4. (fe'.fetching <=> Taken \/ (fe.fetching /\ ~ReqValid)) /\ fe'.pair = IF Taken THEN pair ELSE fe.pair
  BY <1>1, <1>2, BranchMoves
<1>5. (issue'.csr = "pulse" => issue'.fence) /\ (issue'.fence => issue'.csr # "idle")
  BY <1>1, <1>2, FenceMoves
<1> QED BY <1>1, <1>3, <1>4, <1>5 DEF FetchInStep

LEMMA CountsKept ==
  ASSUME FrontInv, NEW halves \in IssueChoices, NEW guess \in Predictions, NEW arReady \in {FALSE, rbus = <<>>},
         NEW beat \in Beats, FrontClock(halves, guess, arReady, beat)
  PROVE Counts'
<1>1. FrontTypeOK /\ Counts
  BY DEF FrontInv
<1>2. OwedTick /\ code' >= code /\ code \in Nat /\ code' \in Nat
  BY <1>1, ClockParts
<1>3. /\ Owes' = IF Flush /\ ReqAccept THEN code ELSE Owes
      /\ owed'["flush"].now = IF issue.csr = "branch" THEN Owes ELSE owed["flush"].now
  BY <1>1, <1>2, OwesMoves
<1>4. Owes \in Nat /\ owed["flush"].now \in Nat
  BY <1>1 DEF FrontTypeOK, Owes
<1> QED BY <1>1, <1>2, <1>3, <1>4 DEF Counts

LEMMA BusInStepKept ==
  ASSUME FrontInv, NEW halves \in IssueChoices, NEW guess \in Predictions, NEW arReady \in {FALSE, rbus = <<>>},
         NEW beat \in Beats, FrontClock(halves, guess, arReady, beat)
  PROVE BusInStep'
<1>1. FrontTypeOK /\ BusInStep /\ Counts /\ CacheTypeOK
  BY DEF FrontInv, FrontTypeOK
<1>2. Ticks(arReady, beat) /\ BusTick(arReady, beat) /\ (arReady => rbus = <<>>)
  BY <1>1, ClockParts
<1> PICK pair \in Nat : pair = FetchPC \div 2
  BY <1>1, FetchTypes
<1>3. /\ ic'.lookup <=> Taken \/ (ic.lookup /\ ~ReqValid)
      /\ ic'.addr = IF Taken THEN pair ELSE ic.addr
      /\ ic'.ar <=> LineArValid /\ ~arReady
      /\ ic'.idx = IF LastBeat(beat) THEN 0 ELSE IF beat # <<>> THEN ic.idx + 1 ELSE ic.idx
  BY <1>2, CacheMoves
<1>4. /\ ic.state = "FLUSH" => ic'.state \in {"FLUSH", "LOOKUP"}
      /\ ic.state = "LOOKUP" /\ Misses => ic'.state = "REFILL"
      /\ ic.state = "LOOKUP" /\ ~Misses => ic'.state \in {"FLUSH", "LOOKUP"}
      /\ ic.state = "REFILL" => ic'.state = IF LastBeat(beat) THEN "RELOOKUP" ELSE "REFILL"
      /\ ic.state = "RELOOKUP" => ic'.state = "LOOKUP"
  BY <1>1, <1>2, CacheStates
<1>5. ic.state \in {"FLUSH", "LOOKUP", "REFILL", "RELOOKUP"} /\ ic.idx \in Nat
  BY <1>1 DEF CacheTypeOK, CacheRegs
<1>6. beat # <<>> => /\ ic.state = "REFILL" /\ ~ic.ar /\ rbus # <<>>
                     /\ ic.idx \in 0..(LineBeats - 1)
                     /\ LastBeat(beat) <=> ic.idx = LineBeats - 1
  BY <1>1, BeatInLine
<1>7. /\ ic.lookup /\ ~ReqValid => ~ReqAccept
      /\ Misses => ic.state = "LOOKUP" /\ ic.lookup /\ ~ReqValid /\ ~ReqAccept
      /\ ReqAccept => ic.state = "LOOKUP" /\ ~Misses
      /\ ReqValid => ic.state = "LOOKUP"
  BY <1>1, Waits
<1>8. LineArValid <=> Misses \/ ic.ar
  BY DEF LineArValid
<1>9. LastBeat(beat) => beat # <<>>
  BY DEF LastBeat
<1>10. CASE LineArValid /\ arReady
  <2>1. rbus' = <<[line |-> LineOf(ic.addr), sent |-> 0]>>
    BY <1>2, <1>10 DEF BusTick
  <2>2. rbus' # <<>> /\ rbus'[1].line = LineOf(ic.addr) /\ rbus'[1].sent = 0
    BY <2>1
  <2>3. rbus = <<>> /\ beat = <<>> /\ ic.idx = 0 /\ ~LastBeat(beat)
    BY <1>1, <1>2, <1>6, <1>9, <1>10 DEF BusInStep
  <2>4. ic'.state = "REFILL" /\ ~ic'.ar /\ ic'.lookup /\ ic'.addr = ic.addr /\ ic'.idx = 0
    BY <1>1, <1>3, <1>4, <1>7, <1>8, <1>10, <2>3 DEF BusInStep, Taken
  <2>5. 0 < LineBeats
    BY Sizes
  <2> QED BY <2>2, <2>4, <2>5 DEF BusInStep
<1>11. CASE ~(LineArValid /\ arReady) /\ beat = <<>>
  <2>1. rbus' = rbus
    BY <1>2, <1>11 DEF BusTick
  <2>2. ic'.idx = ic.idx
    BY <1>3, <1>9, <1>11
  <2>3. CASE ic.state = "REFILL"
    <3>1. ic'.state = "REFILL" /\ ~Taken /\ ic'.lookup /\ ic'.addr = ic.addr
      BY <1>1, <1>3, <1>4, <1>7, <1>9, <1>11, <2>3 DEF BusInStep, Taken
    <3>2. (ic'.ar <=> ic.ar)
      BY <1>1, <1>2, <1>3, <1>7, <1>8, <1>11, <2>3 DEF BusInStep
    <3> QED BY <1>1, <2>1, <2>2, <2>3, <3>1, <3>2 DEF BusInStep
  <2>4. CASE ic.state # "REFILL"
    <3>1. rbus = <<>> /\ ~ic.ar /\ ic.idx = 0
      BY <1>1, <2>4 DEF BusInStep
    <3>2. CASE Misses
      <4>1. ic'.state = "REFILL" /\ ic'.lookup /\ ic'.ar
        BY <1>3, <1>4, <1>7, <1>8, <1>11, <3>2
      <4> QED BY <2>1, <2>2, <3>1, <4>1 DEF BusInStep
    <3>3. CASE ~Misses
      <4>1. ic'.state \notin {"REFILL", "RELOOKUP"} /\ ~ic'.ar
        BY <1>3, <1>4, <1>5, <1>8, <2>4, <3>1, <3>3
      <4> QED BY <2>1, <2>2, <3>1, <4>1 DEF BusInStep
    <3> QED BY <3>2, <3>3
  <2> QED BY <2>3, <2>4
<1>12. CASE beat # <<>>
  <2>1. /\ ic.state = "REFILL" /\ ~ic.ar /\ rbus # <<>> /\ ~LineArValid /\ ~Taken /\ ic.lookup /\ ~ReqValid
        /\ rbus[1].line = LineOf(ic.addr) /\ rbus[1].sent = ic.idx
    BY <1>1, <1>6, <1>7, <1>8, <1>12 DEF BusInStep, Taken
  <2>2. ic'.lookup /\ ic'.addr = ic.addr /\ ~ic'.ar
    BY <1>3, <2>1
  <2>3. rbus' = IF LastBeat(beat) THEN <<>> ELSE <<[rbus[1] EXCEPT !.sent = @ + 1]>>
    BY <1>2, <1>12, <2>1, Zenon DEF BusTick, LastBeat
  <2>4. CASE LastBeat(beat)
    <3>1. ic'.state = "RELOOKUP" /\ ic'.idx = 0 /\ rbus' = <<>>
      BY <1>3, <1>4, <2>1, <2>3, <2>4
    <3> QED BY <2>2, <3>1 DEF BusInStep
  <2>5. CASE ~LastBeat(beat)
    <3>1. ic'.state = "REFILL" /\ ic'.idx = ic.idx + 1 /\ rbus' = <<[rbus[1] EXCEPT !.sent = @ + 1]>>
      BY <1>3, <1>4, <1>12, <2>1, <2>3, <2>5
    <3>2. rbus \in Seq([line : Nat, sent : Nat])
      BY <1>1 DEF FrontTypeOK
    <3>3. rbus[1] \in [line : Nat, sent : Nat]
      BY <2>1, <3>2, HeadIn
    <3>4. rbus' # <<>> /\ rbus'[1].line = rbus[1].line /\ rbus'[1].sent = rbus[1].sent + 1
      BY <3>1, <3>3
    <3>5. ic.idx + 1 < LineBeats
      BY <1>5, <1>6, <1>12, <2>5, Sizes
    <3> QED BY <2>1, <2>2, <3>1, <3>4, <3>5 DEF BusInStep
  <2> QED BY <2>4, <2>5
<1> QED BY <1>10, <1>11, <1>12
(* What is owed stays, unless a walk starts for a fence.i on its way.      *)
LEMMA OwesStays ==
  ASSUME FrontInv, NEW halves \in IssueChoices, NEW guess \in Predictions, NEW arReady \in {FALSE, rbus = <<>>},
         NEW beat \in Beats, FrontClock(halves, guess, arReady, beat)
  PROVE Owes' = Owes \/ (ic.state = "LOOKUP" /\ ic'.state = "FLUSH" /\ issue.fence /\ issue.csr # "branch" /\ issue'.fence)
<1>1. FrontTypeOK /\ FetchInStep /\ BusInStep /\ CacheTypeOK
  BY DEF FrontInv, FrontTypeOK
<1>2. Ticks(arReady, beat) /\ OwedTick /\ IssueTick(halves)
  BY <1>1, ClockParts
<1>3. Owes' = IF Flush /\ ReqAccept THEN code ELSE Owes
  BY <1>1, <1>2, OwesMoves
<1>4. ASSUME Flush, ReqAccept
      PROVE ic.state = "LOOKUP" /\ ic'.state = "FLUSH" /\ issue.fence /\ issue.csr # "branch" /\ issue'.fence
  <2>1. ic.state = "LOOKUP" /\ ~Misses
    BY <1>1, <1>4, Waits
  <2>2. ic'.state = "FLUSH"
    BY <1>1, <1>2, <1>4, <2>1, CacheStates
  <2>3. issue.csr = "pulse" /\ issue.fence
    BY <1>1, <1>4 DEF Flush, FetchInStep
  <2>4. issue'.fence
    BY <1>1, <1>2, <2>3, FenceMoves
  <2> QED BY <2>1, <2>2, <2>3, <2>4
<1> QED BY <1>3, <1>4

(* A beat adds to what has come of the line.                               *)
LEMMA RefilledByBeat ==
  ASSUME FrontInv, NEW arReady, NEW beat \in Beats, Ticks(arReady, beat), beat # <<>>
  PROVE /\ ic.writeAddr \in 0..(RamWords - 1) /\ LineOf(ic.writeAddr) = SetOf(ic.addr)
        /\ DataAddr(FetchPC \div 2) = ic.writeAddr
        /\ Refilled(dataRam', ic.way, (ic.idx + 1) \div 2, Owes)
<1>1. FrontTypeOK /\ BusInStep /\ Counts /\ Refilling /\ CacheTypeOK
  BY DEF FrontInv, FrontTypeOK
<1>2. /\ ic.state = "REFILL" /\ ic.idx \in 0..(LineBeats - 1)
      /\ IsWord(beat[1].word, LineOf(ic.addr) * LineBeats + ic.idx, Owes)
  BY <1>1, BeatInLine
<1>3. ic.addr \in Nat /\ ic.way \in Ways
  BY <1>1 DEF CacheTypeOK, CacheRegs
<1>4. LineOf(ic.addr) \in Nat /\ SetOf(ic.addr) \in 0..(NumSets - 1)
  BY <1>3, AddressOf
<1> DEFINE k0 == ic.idx \div 2
<1>5. /\ ic.writeAddr = Nth(SetOf(ic.addr), k0)
      /\ ic.idx % 2 = 1 => IsWord(ic.lower, LineOf(ic.addr) * LineBeats + ic.idx - 1, Owes)
      /\ Refilled(dataRam, ic.way, k0, Owes)
  BY <1>1, <1>2 DEF Refilling
<1>6. k0 \in 0..(LineWords - 1)
  BY <1>2, <1>4, BeatOf
<1>7. ic.writeAddr \in 0..(RamWords - 1)
  BY <1>4, <1>5, <1>6, NthInRam
<1>8. LineOf(ic.writeAddr) = SetOf(ic.addr)
  <2>1. SetOf(ic.addr) \in Nat
    BY <1>4, Sizes
  <2> QED BY <1>5, <1>6, <2>1, NthIn
<1>9. DataAddr(FetchPC \div 2) = ic.writeAddr
  BY <1>2 DEF DataAddr
<1>10. \A a \in 0..(RamWords - 1) :
         dataRam'[ic.way][a] = IF a = ic.writeAddr THEN <<ic.lower, beat[1].word>> ELSE dataRam[ic.way][a]
  <2>1. FetchPC \div 2 \in Nat
    BY <1>1, FetchTypes
  <2>2. \A a \in 0..(RamWords - 1) :
             IF beat # <<>> /\ ic.way = ic.way /\ a = DataAddr(FetchPC \div 2)
             THEN dataRam'[ic.way][a] = <<ic.lower, beat[1].word>>
             ELSE dataRam'[ic.way][a] = dataRam[ic.way][a]
    BY <1>1, <1>3, <2>1, RamsMove
  <2> QED BY <1>9, <2>2
<1>11. ASSUME NEW k \in 0..(((ic.idx + 1) \div 2) - 1)
       PROVE IsPair(dataRam'[ic.way][Nth(SetOf(ic.addr), k)], Nth(LineOf(ic.addr), k), Owes)
  <2>1. k \in 0..k0 /\ k \in 0..(LineWords - 1) /\ (k = k0 => ic.idx % 2 = 1)
    BY <1>2, <1>6, Sizes
  <2>2. Nth(SetOf(ic.addr), k) \in 0..(RamWords - 1)
    BY <1>4, <2>1, NthInRam
  <2>3. CASE k = k0
    <3>1. dataRam'[ic.way][Nth(SetOf(ic.addr), k)] = <<ic.lower, beat[1].word>>
      BY <1>5, <1>10, <2>2, <2>3
    <3>2. IsWord(ic.lower, LineOf(ic.addr) * LineBeats + ic.idx - 1, Owes)
      BY <1>5, <2>1, <2>3
    <3>3. PICK n \in Nat : n = LineOf(ic.addr) * LineBeats + ic.idx
      BY <1>2, <1>4, BeatOf
    <3>4. n = 2 * Nth(LineOf(ic.addr), k) + 1
      BY <1>2, <1>4, <2>1, <2>3, <3>3, BeatOf
    <3>5. Nth(LineOf(ic.addr), k) \in Nat
      BY <1>4, <2>1, NthIn
    <3>6. n - 1 = 2 * Nth(LineOf(ic.addr), k)
      BY <3>4, <3>5
    <3>7. IsWord(ic.lower, n - 1, Owes)
      <4>1. PICK m \in Nat : m = LineOf(ic.addr) * LineBeats
        BY <1>4, Sizes
      <4>2. m + (ic.idx - 1) = n - 1
        BY <1>2, <3>3, <4>1
      <4> QED BY <3>2, <4>1, <4>2
    <3>8. IsWord(beat[1].word, n, Owes)
      BY <1>2, <3>3
    <3> QED BY <3>1, <3>4, <3>6, <3>7, <3>8 DEF IsPair
  <2>4. CASE k # k0
    <3>1. k \in 0..(k0 - 1)
      BY <1>6, <2>1, <2>4
    <3>2. IsPair(dataRam[ic.way][Nth(SetOf(ic.addr), k)], Nth(LineOf(ic.addr), k), Owes)
      BY <1>5, <3>1 DEF Refilled
    <3>3. Nth(SetOf(ic.addr), k) # Nth(SetOf(ic.addr), k0)
      BY <1>4, <1>6, <2>1, <2>4, NthIn, Sizes
    <3>4. dataRam'[ic.way][Nth(SetOf(ic.addr), k)] = dataRam[ic.way][Nth(SetOf(ic.addr), k)]
      BY <1>5, <1>10, <2>2, <3>3
    <3> QED BY <3>2, <3>4
  <2> QED BY <2>3, <2>4
<1> QED BY <1>7, <1>8, <1>9, <1>11 DEF Refilled

LEMMA RefillingKept ==
  ASSUME FrontInv, NEW halves \in IssueChoices, NEW guess \in Predictions, NEW arReady \in {FALSE, rbus = <<>>},
         NEW beat \in Beats, FrontClock(halves, guess, arReady, beat)
  PROVE Refilling'
<1>1. FrontTypeOK /\ BusInStep /\ Counts /\ Refilling /\ CacheTypeOK
  BY DEF FrontInv, FrontTypeOK
<1>2. Ticks(arReady, beat)
  BY <1>1, ClockParts
<1> PICK pair \in Nat : pair = FetchPC \div 2
  BY <1>1, FetchTypes
<1>3. /\ ic'.addr = IF Taken THEN pair ELSE ic.addr
      /\ ic'.way = IF LastBeat(beat) THEN 1 - ic.way ELSE ic.way
      /\ ic'.idx = IF LastBeat(beat) THEN 0 ELSE IF beat # <<>> THEN ic.idx + 1 ELSE ic.idx
      /\ ic'.lower = IF beat # <<>> THEN beat[1].word ELSE ic.lower
      /\ ic'.writeAddr = WriteAddr(beat)
  BY <1>2, CacheMoves
<1>4. /\ ic.state = "FLUSH" => ic'.state \in {"FLUSH", "LOOKUP"}
      /\ ic.state = "LOOKUP" /\ Misses => ic'.state = "REFILL"
      /\ ic.state = "LOOKUP" /\ ~Misses => ic'.state \in {"FLUSH", "LOOKUP"}
      /\ ic.state = "REFILL" => ic'.state = IF LastBeat(beat) THEN "RELOOKUP" ELSE "REFILL"
      /\ ic.state = "RELOOKUP" => ic'.state = "LOOKUP"
  BY <1>1, <1>2, CacheStates
<1>5. /\ ic.state \in {"FLUSH", "LOOKUP", "REFILL", "RELOOKUP"} /\ ic.idx \in Nat /\ ic.addr \in Nat
      /\ ic.way \in Ways
  BY <1>1 DEF CacheTypeOK, CacheRegs
<1>6. /\ ReqAccept => ic.state = "LOOKUP" /\ ~Misses
      /\ Misses => ic.state = "LOOKUP"
  BY <1>1, Waits
<1>7. beat # <<>> => ic.state = "REFILL"
  BY <1>1, BeatInLine
<1> SUFFICES ASSUME ic'.state = "REFILL" PROVE Refilling'
  BY DEF Refilling
<1>8. (ic.state = "LOOKUP" /\ Misses) \/ (ic.state = "REFILL" /\ ~LastBeat(beat))
  BY <1>4, <1>5
<1>9. ~Taken /\ ic'.addr = ic.addr /\ Owes' = Owes
  BY <1>3, <1>6, <1>8, OwesStays DEF Taken
<1>10. CASE ic.state = "LOOKUP" /\ Misses
  <2>1. beat = <<>> /\ ic.idx = 0 /\ ic'.idx = 0
    BY <1>1, <1>3, <1>7, <1>10 DEF BusInStep, LastBeat
  <2>2. ic'.writeAddr = Nth(SetOf(ic.addr), 0)
    BY <1>3, <1>5, <1>10, LineStart DEF WriteAddr
  <2>3. ic'.idx \div 2 = 0 /\ ic'.idx % 2 = 0
    BY <2>1
  <2>5. (ic'.writeAddr = Nth(SetOf(ic.addr), ic.idx \div 2)') /\ Refilled(dataRam, ic.way, ic.idx \div 2, Owes)'
    BY <1>9, <2>2, <2>3 DEF Refilled
  <2> QED BY <2>3, <2>5 DEF Refilling
<1>11. CASE ic.state = "REFILL" /\ ~LastBeat(beat) /\ beat = <<>>
  <2>1. ic'.idx = ic.idx /\ ic'.lower = ic.lower /\ ic'.way = ic.way /\ ic'.writeAddr = ic.writeAddr
    BY <1>3, <1>6, <1>11 DEF WriteAddr
  <2>2. \A a \in 0..(RamWords - 1) : dataRam'[ic.way][a] = dataRam[ic.way][a]
    BY <1>1, <1>2, <1>5, <1>11, RamsMove, FetchTypes
  <2>3. ic.idx \div 2 \in Nat /\ ic.idx \div 2 <= LineWords
    <3>1. ic.idx < LineBeats
      BY <1>1, Sizes DEF BusInStep
    <3> QED BY <1>5, <3>1, Sizes DEF LineBeats
  <2>4. SetOf(ic.addr) \in 0..(NumSets - 1)
    BY <1>5, AddressOf
  <2>5. \A k \in 0..((ic.idx \div 2) - 1) :
          dataRam'[ic.way][Nth(SetOf(ic.addr), k)] = dataRam[ic.way][Nth(SetOf(ic.addr), k)]
    <3> TAKE k \in 0..((ic.idx \div 2) - 1)
    <3>1. k \in 0..(LineWords - 1)
      BY <2>3, Sizes
    <3>2. Nth(SetOf(ic.addr), k) \in 0..(RamWords - 1)
      BY <2>4, <3>1, NthInRam
    <3> QED BY <2>2, <3>2
  <2>6. Refilled(dataRam, ic.way, ic.idx \div 2, Owes)
    BY <1>1, <1>11 DEF Refilling
  <2>7. Refilled(dataRam', ic.way, ic.idx \div 2, Owes)
    BY <2>5, <2>6 DEF Refilled
  <2>8. Refilled(dataRam, ic.way, ic.idx \div 2, Owes)'
    BY <1>9, <2>1, <2>7 DEF Refilled
  <2>9. /\ ic.writeAddr = Nth(SetOf(ic.addr), ic.idx \div 2)
        /\ ic.idx % 2 = 1 => IsWord(ic.lower, LineOf(ic.addr) * LineBeats + ic.idx - 1, Owes)
    BY <1>1, <1>11 DEF Refilling
  <2> QED BY <1>9, <2>1, <2>8, <2>9 DEF Refilling
<1>12. CASE ic.state = "REFILL" /\ ~LastBeat(beat) /\ beat # <<>>
  <2>1. ic'.idx = ic.idx + 1 /\ ic'.lower = beat[1].word /\ ic'.way = ic.way
    BY <1>3, <1>12
  <2>2. /\ ic.idx \in 0..(LineBeats - 1) /\ ic.idx # LineBeats - 1
        /\ IsWord(beat[1].word, LineOf(ic.addr) * LineBeats + ic.idx, Owes)
    BY <1>1, <1>12, BeatInLine
  <2>3. LineOf(ic.addr) \in Nat /\ SetOf(ic.addr) \in 0..(NumSets - 1)
    BY <1>5, AddressOf
  <2>4. PICK n \in Nat : n = LineOf(ic.addr) * LineBeats
    BY <2>3, Sizes
  <2>5. IsWord(ic'.lower, LineOf(ic.addr) * LineBeats + ic'.idx - 1, Owes)
    <3>1. n + (ic.idx + 1) - 1 = n + ic.idx
      BY <1>5
    <3> QED BY <2>1, <2>2, <2>4, <3>1
  <2>6. ic'.writeAddr = Nth(SetOf(ic.addr), (ic.idx + 1) \div 2)
    <3>0. ~Misses /\ ic.writeAddr = Nth(SetOf(ic.addr), ic.idx \div 2)
      BY <1>1, <1>6, <1>12 DEF Refilling
    <3>1. CASE ic.idx % 2 = 1
      <4>1. ic'.writeAddr = (ic.writeAddr + 1) % RamWords
        BY <1>3, <1>12, <3>0, <3>1 DEF WriteAddr
      <4>2. (ic.idx + 1) \div 2 = (ic.idx \div 2) + 1 /\ (ic.idx + 1) \div 2 \in 0..(LineWords - 1)
        BY <2>2, <3>1, Sizes DEF LineBeats
      <4>3. PICK m \in Nat : m = SetOf(ic.addr) * LineWords
        BY <2>3, Sizes
      <4>4. Nth(SetOf(ic.addr), (ic.idx + 1) \div 2) = ic.writeAddr + 1
        BY <3>0, <4>2, <4>3, <1>5 DEF Nth
      <4>5. Nth(SetOf(ic.addr), (ic.idx + 1) \div 2) \in 0..(RamWords - 1)
        BY <2>3, <4>2, NthInRam
      <4> QED BY <4>1, <4>4, <4>5, Sizes
    <3>2. CASE ic.idx % 2 = 0
      <4>1. ic'.writeAddr = ic.writeAddr
        BY <1>3, <1>12, <3>0, <3>2 DEF WriteAddr
      <4>2. (ic.idx + 1) \div 2 = ic.idx \div 2
        BY <1>5, <3>2
      <4> QED BY <3>0, <4>1, <4>2
    <3> QED BY <1>5, <3>1, <3>2
  <2>7. Refilled(dataRam', ic.way, (ic.idx + 1) \div 2, Owes)
    BY <1>2, <1>12, RefilledByBeat
  <2>8. Refilled(dataRam, ic.way, ic.idx \div 2, Owes)'
    BY <1>9, <2>1, <2>7 DEF Refilled
  <2> QED BY <1>9, <2>1, <2>5, <2>6, <2>8 DEF Refilling
<1> QED BY <1>8, <1>10, <1>11, <1>12
LEMMA ClearedKept ==
  ASSUME FrontInv, NEW halves \in IssueChoices, NEW guess \in Predictions, NEW arReady \in {FALSE, rbus = <<>>},
         NEW beat \in Beats, FrontClock(halves, guess, arReady, beat)
  PROVE /\ Cleared'
        /\ ic.state = "FLUSH" /\ ic'.state # "FLUSH" =>
              \A w \in Ways, s \in 0..(NumSets - 1) : ~tagRam'[w][s].valid
<1>1. FrontTypeOK /\ CacheTypeOK /\ Cleared
  BY DEF FrontInv, FrontTypeOK
<1>2. Ticks(arReady, beat)
  BY <1>1, ClockParts
<1>3. /\ ic.state = "FLUSH" => /\ ic'.state \in {"FLUSH", "LOOKUP"}
                               /\ ic'.state = "LOOKUP" <=> ic.flushAddr = NumSets - 1
                               /\ ic'.flushAddr = (ic.flushAddr + 1) % NumSets
      /\ ic.state # "FLUSH" => ic'.flushAddr = 0
  BY <1>1, <1>2, CacheStates
<1>4. ic.flushAddr \in 0..(NumSets - 1)
  BY <1>1 DEF CacheTypeOK, CacheRegs
<1>5. ASSUME ic.state = "FLUSH", NEW w \in Ways, NEW s \in 0..(NumSets - 1), s < ic.flushAddr + 1
      PROVE ~tagRam'[w][s].valid
  <2>1. /\ s = ic.flushAddr => ~tagRam'[w][s].valid
        /\ s # ic.flushAddr => tagRam'[w][s] = tagRam[w][s]
    BY <1>1, <1>2, <1>5, RamsMove, FetchTypes
  <2>2. s < ic.flushAddr => ~tagRam[w][s].valid
    BY <1>1, <1>5 DEF Cleared
  <2>3. s = ic.flushAddr \/ s < ic.flushAddr
    BY <1>4, <1>5
  <2> QED BY <2>1, <2>2, <2>3
<1>6. CASE ic.state = "FLUSH" /\ ic'.state = "FLUSH"
  <2>1. ic'.flushAddr = ic.flushAddr + 1
    BY <1>3, <1>4, <1>6, Sizes
  <2>2. \A w \in Ways, s \in 0..(NumSets - 1) : s < ic'.flushAddr => ~tagRam'[w][s].valid
    BY <1>5, <1>6, <2>1
  <2> QED BY <1>6, <2>2 DEF Cleared
<1>7. CASE ic.state = "FLUSH" /\ ic'.state # "FLUSH"
  <2>1. ic.flushAddr = NumSets - 1
    BY <1>3, <1>7
  <2>2. \A s \in 0..(NumSets - 1) : s < ic.flushAddr + 1
    BY <2>1, Sizes
  <2>3. \A w \in Ways, s \in 0..(NumSets - 1) : ~tagRam'[w][s].valid
    BY <1>5, <1>7, <2>2
  <2> QED BY <1>7, <2>3 DEF Cleared
<1>8. CASE ic.state # "FLUSH"
  <2>1. ic'.flushAddr = 0
    BY <1>3, <1>8
  <2>2. \A s \in 0..(NumSets - 1) : ~(s < ic'.flushAddr)
    BY <2>1, Sizes
  <2> QED BY <1>8, <2>2 DEF Cleared
<1> QED BY <1>6, <1>7, <1>8

(* The line is complete when its tag is written.                           *)
LEMMA LineComplete ==
  ASSUME FrontInv, NEW arReady, NEW beat \in Beats, Ticks(arReady, beat), LastBeat(beat),
         NEW a \in 0..(RamWords - 1), LineOf(a) = SetOf(ic.addr)
  PROVE IsPair(dataRam'[ic.way][a], PairAt(TagOf(ic.addr), a), Owes)
<1>1. FrontTypeOK /\ BusInStep /\ Counts /\ ic.addr \in Nat
  BY DEF FrontInv, FrontTypeOK, CacheTypeOK, CacheRegs
<1>2. beat # <<>>
  BY DEF LastBeat
<1>3. ic.idx = LineBeats - 1
  BY <1>1, <1>2, BeatInLine
<1>4. (ic.idx + 1) \div 2 = LineWords
  BY <1>3, Sizes DEF LineBeats
<1>5. Refilled(dataRam', ic.way, LineWords, Owes)
  BY <1>2, <1>4, RefilledByBeat
<1>6. a \in Nat
  BY Sizes
<1>7. a % LineWords \in 0..(LineWords - 1) /\ a = Nth(SetOf(ic.addr), a % LineWords)
  BY <1>6, NthOf
<1>8. IsPair(dataRam'[ic.way][a], Nth(LineOf(ic.addr), a % LineWords), Owes)
  BY <1>5, <1>7 DEF Refilled
<1>9. PairAt(TagOf(ic.addr), a) = Nth(LineOf(ic.addr), a % LineWords)
  BY <1>1, <1>7, LineAt
<1> QED BY <1>8, <1>9

LEMMA RamsHoldKept ==
  ASSUME FrontInv, NEW halves \in IssueChoices, NEW guess \in Predictions, NEW arReady \in {FALSE, rbus = <<>>},
         NEW beat \in Beats, FrontClock(halves, guess, arReady, beat)
  PROVE RamsHold'
<1>1. FrontTypeOK /\ CacheTypeOK /\ BusInStep /\ Counts /\ RamsHold
  BY DEF FrontInv, FrontTypeOK
<1>2. Ticks(arReady, beat)
  BY <1>1, ClockParts
<1> PICK pair \in Nat : pair = FetchPC \div 2
  BY <1>1, FetchTypes
<1>3. /\ ic'.addr = IF Taken THEN pair ELSE ic.addr
      /\ ic'.way = IF LastBeat(beat) THEN 1 - ic.way ELSE ic.way
  BY <1>2, CacheMoves
<1>4. /\ ic.state = "FLUSH" => ic'.state \in {"FLUSH", "LOOKUP"}
      /\ ic.state = "LOOKUP" /\ ~Misses => ic'.state \in {"FLUSH", "LOOKUP"}
      /\ ic.state = "REFILL" => ic'.state = IF LastBeat(beat) THEN "RELOOKUP" ELSE "REFILL"
      /\ ic.state = "RELOOKUP" => ic'.state = "LOOKUP"
  BY <1>1, <1>2, CacheStates
<1>5. ReqAccept => ic.state = "LOOKUP"
  BY <1>1, Waits
<1>6. beat # <<>> => ic.state = "REFILL"
  BY <1>1, BeatInLine
<1> SUFFICES ASSUME ic'.state # "FLUSH", NEW w \in Ways, NEW a \in 0..(RamWords - 1),
                    tagRam'[w][LineOf(a)].valid, ~Awaited(w, LineOf(a))'
             PROVE IsPair(dataRam'[w][a], PairAt(tagRam'[w][LineOf(a)].tag, a), Owes')
  BY DEF RamsHold
<1> DEFINE s == LineOf(a)
<1>7. s \in 0..(NumSets - 1)
  BY SetInRam
<1>8. ic.state # "FLUSH"
  BY <1>7, ClearedKept
<1>9. Owes' = Owes
  BY OwesStays
<1>10. IF ic.state = "REFILL" /\ LastBeat(beat) /\ w = ic.way /\ s = SetOf(ic.addr)
       THEN tagRam'[w][s].valid /\ tagRam'[w][s].tag = TagOf(ic.addr)
       ELSE tagRam'[w][s] = tagRam[w][s]
  BY <1>1, <1>2, <1>7, <1>8, RamsMove
<1>11. IF beat # <<>> /\ w = ic.way /\ a = DataAddr(FetchPC \div 2)
       THEN dataRam'[w][a] = <<ic.lower, beat[1].word>>
       ELSE dataRam'[w][a] = dataRam[w][a]
  BY <1>1, <1>2, RamsMove
<1>12. beat # <<>> /\ a = DataAddr(FetchPC \div 2) => s = SetOf(ic.addr)
  BY <1>2, RefilledByBeat
<1>13. CASE ic.state = "REFILL" /\ LastBeat(beat) /\ w = ic.way /\ s = SetOf(ic.addr)
  <2>1. IsPair(dataRam'[ic.way][a], PairAt(TagOf(ic.addr), a), Owes)
    BY <1>2, <1>13, LineComplete
  <2> QED BY <1>9, <1>10, <1>13, <2>1
<1>14. CASE ~(ic.state = "REFILL" /\ LastBeat(beat) /\ w = ic.way /\ s = SetOf(ic.addr))
  <2>1. ~(ic.state = "REFILL" /\ w = ic.way /\ s = SetOf(ic.addr))
    <3> SUFFICES ASSUME ic.state = "REFILL", w = ic.way, s = SetOf(ic.addr) PROVE FALSE
      OBVIOUS
    <3>1. ~LastBeat(beat)
      BY <1>14
    <3>2. ic'.state = "REFILL" /\ ic'.way = ic.way /\ ic'.addr = ic.addr
      BY <1>3, <1>4, <1>5, <3>1 DEF Taken
    <3>3. SetOf(ic.addr)' = SetOf(ic.addr)
      BY <3>2 DEF SetOf, LineOf
    <3>4. Awaited(w, s)'
      BY <3>2, <3>3 DEF Awaited
    <3> QED BY <3>4
  <2>2. ~Awaited(w, s)
    BY <2>1 DEF Awaited
  <2>3. dataRam'[w][a] = dataRam[w][a] /\ tagRam'[w][s] = tagRam[w][s]
    BY <1>6, <1>10, <1>11, <1>12, <1>14, <2>1
  <2>4. IsPair(dataRam[w][a], PairAt(tagRam[w][s].tag, a), Owes)
    BY <1>1, <1>8, <2>2, <2>3 DEF RamsHold
  <2> QED BY <1>9, <2>3, <2>4
<1> QED BY <1>13, <1>14

LEMMA ErrIsFaultKept ==
  ASSUME FrontInv, NEW halves \in IssueChoices, NEW guess \in Predictions, NEW arReady \in {FALSE, rbus = <<>>},
         NEW beat \in Beats, FrontClock(halves, guess, arReady, beat)
  PROVE ErrIsFault'
<1>1. FrontTypeOK /\ BusInStep /\ Counts /\ ErrIsFault
  BY DEF FrontInv
<1>2. Ticks(arReady, beat) /\ text' = text
  BY <1>1, ClockParts
<1> PICK pair \in Nat : pair = FetchPC \div 2
  BY <1>1, FetchTypes
<1>3. /\ ic'.lookup <=> Taken \/ (ic.lookup /\ ~ReqValid)
      /\ ic'.addr = IF Taken THEN pair ELSE ic.addr
      /\ ic'.err <=> (beat # <<>> /\ beat[1].err) \/ (ic.err /\ ~ReqValid)
  BY <1>2, CacheMoves
<1>4. (ic.lookup /\ ~ReqValid => ~ReqAccept) /\ (ReqValid => ic.state = "LOOKUP")
  BY <1>1, Waits
<1>5. beat # <<>> => ic.state = "REFILL" /\ (beat[1].err => InLine(text.faults, ic.addr))
  BY <1>1, BeatInLine
<1>6. ic.state = "REFILL" => ic.lookup
  BY <1>1 DEF BusInStep
<1>7. ic'.err => ic.lookup /\ ~ReqValid /\ InLine(text.faults, ic.addr)
  BY <1>1, <1>3, <1>4, <1>5, <1>6 DEF ErrIsFault
<1>8. ic'.err => ic'.lookup /\ ic'.addr = ic.addr
  BY <1>3, <1>4, <1>7 DEF Taken
<1> QED BY <1>2, <1>7, <1>8 DEF ErrIsFault, InLine
(* What waits and is to be dropped stays so.                               *)
LEMMA DropStays ==
  ASSUME FrontTypeOK, FetchInStep, NEW halves \in IssueChoices, NEW next \in FetchPCs, NEW low \in BOOLEAN,
         FetchTick(next, low), IssueTick(halves)
  PROVE /\ LateDropped /\ Busy => LateDropped'
        /\ BranchRequest /\ fe.mmu => fe'.branch.on
        /\ issue.fence /\ issue.csr # "branch" => issue'.fence
<1>1. fe'.branch = BranchAfter
  BY BranchMoves
<1>2. issue.fence /\ issue.csr # "branch" => issue'.fence
  BY FenceMoves
<1>3. issue.csr = "branch" => BranchRequest
  BY DEF BranchRequest
<1>4. Requests => ~Busy
  BY DEF Requests
<1>5. Busy /\ (BranchRequest \/ fe.branch.on) => BranchAfter.on
  BY <1>4 DEF BranchAfter
<1>6. BranchRequest /\ fe.mmu => BranchAfter.on
  BY DEF BranchAfter
<1> QED BY <1>1, <1>2, <1>3, <1>5, <1>6 DEF LateDropped

(* A lookup finds what it asks for.                                        *)
LEMMA LookupHolds ==
  ASSUME FrontInv, ic.state \in {"LOOKUP", "RELOOKUP"}, NEW p \in Nat, NEW w \in Ways,
         tagRam[w][SetOf(p)].valid, tagRam[w][SetOf(p)].tag = TagOf(p)
  PROVE IsPair(dataRam[w][p % RamWords], p, Owes)
<1>1. RamsHold
  BY DEF FrontInv
<1> DEFINE a == p % RamWords
<1>2. a \in 0..(RamWords - 1) /\ LineOf(a) = SetOf(p) /\ PairAt(TagOf(p), a) = p
  BY AddressOf
<1>3. ~Awaited(w, LineOf(a))
  BY DEF Awaited
<1>4. IsPair(dataRam[w][a], PairAt(tagRam[w][LineOf(a)].tag, a), Owes)
  BY <1>1, <1>2, <1>3 DEF RamsHold
<1> QED BY <1>2, <1>4

LEMMA OutputsKept ==
  ASSUME FrontInv, NEW halves \in IssueChoices, NEW guess \in Predictions, NEW arReady \in {FALSE, rbus = <<>>},
         NEW beat \in Beats, FrontClock(halves, guess, arReady, beat)
  PROVE WalkDropped' /\ OutputsHold'
<1>1. FrontTypeOK /\ BusInStep /\ FetchInStep /\ WalkDropped /\ CacheTypeOK
  BY DEF FrontInv, FrontTypeOK
<1>2. Ticks(arReady, beat) /\ IssueTick(halves) /\ FetchTick(guess.next, guess.low)
      /\ guess.next \in FetchPCs /\ guess.low \in BOOLEAN
  BY <1>1, ClockParts
<1> PICK pair \in Nat : pair = FetchPC \div 2
  BY <1>1, FetchTypes
<1>3. /\ ic'.lookup <=> Taken \/ (ic.lookup /\ ~ReqValid)
      /\ ic'.addr = IF Taken THEN pair ELSE ic.addr
      /\ \A w \in Ways : /\ ic'.tag[w] = tagRam[w][TagAddr(pair)]
                         /\ ic'.data[w] = dataRam[w][DataAddr(pair)]
  BY <1>2, CacheMoves
<1>4. /\ ic.state = "FLUSH" => ic'.state \in {"FLUSH", "LOOKUP"}
      /\ ic.state = "LOOKUP" /\ Misses => ic'.state = "REFILL"
      /\ ic.state = "LOOKUP" /\ ~Misses => /\ ic'.state \in {"FLUSH", "LOOKUP"}
                                           /\ ic'.state = "FLUSH" <=> Flush
      /\ ic.state = "REFILL" => ic'.state \in {"RELOOKUP", "REFILL"}
      /\ ic.state = "RELOOKUP" => ic'.state = "LOOKUP"
  BY <1>1, <1>2, CacheStates
<1>5. ic.state \in {"FLUSH", "LOOKUP", "REFILL", "RELOOKUP"} /\ ic.addr \in Nat
  BY <1>1 DEF CacheTypeOK, CacheRegs
<1>6. /\ ReqAccept => ic.state = "LOOKUP"
      /\ ReqValid => ic.state = "LOOKUP"
      /\ ic.state = "LOOKUP" /\ ic.lookup /\ ~Misses => ReqValid
  BY <1>1, Waits
<1>7. /\ LateDropped /\ Busy => LateDropped'
      /\ issue.fence /\ issue.csr # "branch" => issue'.fence
  BY <1>1, <1>2, DropStays
<1>8. ASSUME ic.state = "FLUSH", ic'.lookup
      PROVE LateDropped'
  <2>1. ic.lookup /\ ~ReqValid
    BY <1>3, <1>6, <1>8 DEF Taken
  <2>2. LateDropped /\ Busy
    BY <1>1, <1>8, <2>1 DEF WalkDropped, Busy, FetchInStep
  <2> QED BY <1>7, <2>2
<1>9. WalkDropped'
  <2>1. ASSUME ic.state = "LOOKUP", ic'.state = "FLUSH"
        PROVE LateDropped'
    <3>1. Flush
      BY <1>4, <2>1
    <3>2. issue.fence /\ issue.csr # "branch"
      BY <1>1, <3>1 DEF Flush, FetchInStep
    <3> QED BY <1>7, <3>2 DEF LateDropped
  <2> QED BY <1>4, <1>5, <1>8, <2>1 DEF WalkDropped
<1>10. OutputsHold'
  <2> SUFFICES ASSUME ic'.lookup, ic'.state = "LOOKUP", ~LateDropped', NEW w \in Ways, Hit(w)'
               PROVE IsPair(ic'.data[w], ic'.addr, Owes')
    BY DEF OutputsHold
  <2>1. Owes' = Owes
    BY OwesStays
  <2>2. ic.state \in {"LOOKUP", "RELOOKUP"}
    BY <1>4, <1>5, <1>8
  <2>3. ic'.tag[w].valid /\ ic'.tag[w].tag = TagOf(ic'.addr)
    BY DEF Hit, TagOf, RamWords
  <2>4. PICK p \in Nat : p = ic'.addr
    BY <1>3, <1>5
  <2>5. TagAddr(pair) = SetOf(p) /\ DataAddr(pair) = p % RamWords
    <3>1. CASE ic.state = "LOOKUP"
      <4>1. Taken
        BY <1>3, <1>4, <1>6, <3>1
      <4>2. p = pair
        BY <1>3, <2>4, <4>1
      <4> QED BY <3>1, <4>2 DEF TagAddr, DataAddr
    <3>2. CASE ic.state = "RELOOKUP"
      <4>1. p = ic.addr
        BY <1>3, <1>6, <2>4, <3>2 DEF Taken
      <4> QED BY <3>2, <4>1 DEF TagAddr, DataAddr
    <3> QED BY <2>2, <3>1, <3>2
  <2>6. tagRam[w][SetOf(p)].valid /\ tagRam[w][SetOf(p)].tag = TagOf(p)
    BY <1>3, <2>3, <2>4, <2>5
  <2>7. IsPair(dataRam[w][p % RamWords], p, Owes)
    BY <2>2, <2>6, LookupHolds
  <2> QED BY <1>3, <2>1, <2>4, <2>5, <2>7
<1> QED BY <1>9, <1>10

(* What is handed to the queue or kept in the skid buffer.                 *)
LEMMA FetchedHolds ==
  ASSUME FrontInv, FetchValid, ~LateDropped
  PROVE IsItem(Fetched, text.faults, Owes)
<1>1. FrontTypeOK /\ CacheTypeOK /\ BusInStep /\ FetchInStep /\ ErrIsFault /\ OutputsHold /\ SkidHolds
  BY DEF FrontInv, FrontTypeOK
<1>2. CASE fe.skid # <<>>
  <2>1. Fetched = fe.skid[1]
    BY <1>2, Zenon DEF Fetched
  <2> QED BY <1>1, <1>2, <2>1 DEF SkidHolds
<1>3. CASE fe.skid = <<>>
  <2>1. ReqValid
    BY <1>3 DEF FetchValid
  <2>2. ic.lookup /\ ic.state = "LOOKUP" /\ AnyHit /\ fe.pair = ic.addr
    BY <1>1, <2>1 DEF ReqValid, FetchInStep
  <2>3. IsPair(Inst, ic.addr, Owes)
    <3>1. PICK w \in Ways : Hit(w)
      BY <2>2 DEF AnyHit
    <3>2. CASE Hit(0) \/ ~Hit(1)
      <4>1. Hit(0)
        BY <3>1, <3>2 DEF Ways
      <4>2. Inst = ic.data[0] /\ 0 \in Ways
        BY <3>2 DEF Inst, Ways
      <4> QED BY <1>1, <2>2, <4>1, <4>2 DEF OutputsHold
    <3>3. CASE ~(Hit(0) \/ ~Hit(1))
      <4>1. Hit(1) /\ Inst = ic.data[1] /\ 1 \in Ways
        BY <3>3 DEF Inst, Ways
      <4> QED BY <1>1, <2>2, <4>1 DEF OutputsHold
    <3> QED BY <3>2, <3>3
  <2>4. /\ Fetched.pair = fe.pair /\ Fetched.inst = Inst /\ Fetched.fault = ic.err
    BY <1>3 DEF Fetched
  <2>5. ic.err => InLine(text.faults, ic.addr)
    BY <1>1 DEF ErrIsFault
  <2> QED BY <2>2, <2>3, <2>4, <2>5, Zenon DEF IsItem
<1> QED BY <1>2, <1>3

LEMMA SkidKept ==
  ASSUME FrontInv, NEW halves \in IssueChoices, NEW guess \in Predictions, NEW arReady \in {FALSE, rbus = <<>>},
         NEW beat \in Beats, FrontClock(halves, guess, arReady, beat)
  PROVE SkidHolds'
<1>1. FrontTypeOK /\ FetchInStep
  BY DEF FrontInv
<1>2. Ticks(arReady, beat) /\ IssueTick(halves) /\ FetchTick(guess.next, guess.low) /\ text' = text
      /\ guess.next \in FetchPCs /\ guess.low \in BOOLEAN
  BY <1>1, ClockParts
<1>3. fe'.skid = IF FetchValid /\ ~FetchAccept THEN <<Fetched>> ELSE <<>>
  BY <1>1, <1>2, BranchMoves
<1>4. /\ BranchRequest /\ fe.mmu => fe'.branch.on
      /\ issue.fence /\ issue.csr # "branch" => issue'.fence
  BY <1>1, <1>2, DropStays
<1> SUFFICES ASSUME fe'.skid # <<>>, ~LateDropped' PROVE IsItem(fe'.skid[1], text'.faults, Owes')
  BY DEF SkidHolds
<1>5. FetchValid /\ fe'.skid[1] = Fetched
  BY <1>3
<1>6. ~Branch
  BY <1>5 DEF FetchValid, Drop
<1>7. ~fe.branch.on /\ (BranchRequest => fe.mmu)
  BY <1>6 DEF Branch
<1>8. ~issue.fence
  <2>1. issue.csr = "branch" => BranchRequest
    BY DEF BranchRequest
  <2> QED BY <1>4, <1>7, <2>1 DEF LateDropped
<1>9. IsItem(Fetched, text.faults, Owes)
  BY <1>5, <1>7, <1>8, FetchedHolds DEF LateDropped
<1>10. Owes' = Owes
  BY <1>8, OwesStays
<1> QED BY <1>2, <1>5, <1>9, <1>10

(* Without a flush the pointers stay as far apart as slots are in use, and *)
(* a slot that is in use then was so before or has been pushed to.         *)
LEMMA RingKept ==
  ASSUME FrontTypeOK, FifoInStep, NEW halves, FifoTick(halves), ~BranchRequest
  PROVE  /\ FifoInStep'
         /\ \A k \in 0..(fifo'.count - 1) :
               \/ Pushes /\ SlotAt(fifo'.rd, k) = fifo.wr
               \/ \E j \in 0..(fifo.count - 1) : SlotAt(fifo'.rd, k) = SlotAt(fifo.rd, j)
<1> DEFINE pop == PopComplete(halves)
<1>1. /\ fifo.count \in 0..Depth /\ fifo.rd \in Slots
      /\ Pushes \in BOOLEAN /\ pop \in BOOLEAN
  BY DEF FrontTypeOK, FifoRegs, Pushes, FetchValid, PopComplete
<1>2. /\ fifo'.count = CountAfter(fifo.count, Pushes, pop)
      /\ fifo'.rd = IF pop THEN Following(fifo.rd) ELSE fifo.rd
      /\ fifo'.wr = IF Pushes THEN Following(fifo.wr) ELSE fifo.wr
      /\ \A slot \in Slots : SameWords(fifo'.entry[slot], Written(slot))
      /\ (Pushes => fifo.count # Depth) /\ (pop => fifo.count # 0)
  BY FifoMoves
<1>3. fifo.wr = SlotAt(fifo.rd, fifo.count)
  BY DEF FifoInStep
<1> HIDE DEF pop
<1>4. /\ fifo'.wr = SlotAt(fifo'.rd, fifo'.count)
      /\ \A k \in 0..(fifo'.count - 1) :
            \/ Pushes /\ SlotAt(fifo'.rd, k) = fifo.wr
            \/ \E j \in 0..(fifo.count - 1) : SlotAt(fifo'.rd, k) = SlotAt(fifo.rd, j)
  <2>1. PICK r \in Slots, c \in 0..Depth : r = fifo.rd /\ c = fifo.count
    BY <1>1
  <2>2. PICK d, q, v : d = fifo'.count /\ q = fifo'.rd /\ v = fifo'.wr
    OBVIOUS
  <2>3. SlotAt(r, c) = fifo.wr
    BY <1>3, <2>1
  <2>4. ASSUME pop
        PROVE  /\ v = SlotAt(q, d)
               /\ \A k \in 0..(d - 1) : \/ Pushes /\ SlotAt(q, k) = SlotAt(r, c)
                                        \/ \E j \in 0..(c - 1) : SlotAt(q, k) = SlotAt(r, j)
    <3>1. q = Following(r) /\ c \in 1..Depth
      BY <1>2, <2>1, <2>2, <2>4, SlotsAre
    <3>2. \A k \in 0..(c - 1) : SlotAt(q, k) = SlotAt(r, k + 1)
      BY <3>1, SlotFollows, SlotsAre
    <3>3. CASE Pushes
      <4>1. d = c /\ c # Depth /\ v = Following(SlotAt(r, c))
        BY <1>2, <2>1, <2>2, <2>3, <2>4, <3>3 DEF CountAfter
      <4>2. v = SlotAt(r, c + 1) /\ SlotAt(q, c) = SlotAt(r, c + 1)
        BY <3>1, <4>1, SlotFollows, SlotsAre
      <4>3. ASSUME NEW k \in 0..(d - 1)
            PROVE  SlotAt(q, k) = SlotAt(r, c) \/ \E j \in 0..(c - 1) : SlotAt(q, k) = SlotAt(r, j)
        <5>1. SlotAt(q, k) = SlotAt(r, k + 1)
          BY <3>2, <4>1
        <5>2. k + 1 = c \/ k + 1 \in 0..(c - 1)
          BY <4>1
        <5> QED BY <5>1, <5>2
      <4> QED BY <3>3, <4>1, <4>2, <4>3
    <3>4. CASE ~Pushes
      <4>1. d = c - 1 /\ v = SlotAt(r, c)
        BY <1>2, <2>1, <2>2, <2>3, <2>4, <3>4 DEF CountAfter
      <4>2. v = SlotAt(q, d)
        BY <3>1, <3>2, <4>1
      <4>3. ASSUME NEW k \in 0..(d - 1)
            PROVE  \E j \in 0..(c - 1) : SlotAt(q, k) = SlotAt(r, j)
        <5>1. SlotAt(q, k) = SlotAt(r, k + 1) /\ k + 1 \in 0..(c - 1)
          BY <3>1, <3>2, <4>1
        <5> QED BY <5>1
      <4> QED BY <4>2, <4>3
    <3> QED BY <3>3, <3>4
  <2>5. ASSUME ~pop
        PROVE  /\ v = SlotAt(q, d)
               /\ \A k \in 0..(d - 1) : \/ Pushes /\ SlotAt(q, k) = SlotAt(r, c)
                                        \/ \E j \in 0..(c - 1) : SlotAt(q, k) = SlotAt(r, j)
    <3>1. q = r
      BY <1>2, <2>1, <2>2, <2>5
    <3>2. CASE Pushes
      <4>1. d = c + 1 /\ c # Depth /\ v = Following(SlotAt(r, c))
        BY <1>2, <2>1, <2>2, <2>3, <2>5, <3>2 DEF CountAfter
      <4>2. v = SlotAt(q, d)
        BY <3>1, <4>1, SlotFollows, SlotsAre
      <4>3. \A k \in 0..(d - 1) : k = c \/ k \in 0..(c - 1)
        BY <4>1
      <4> QED BY <3>1, <3>2, <4>2, <4>3
    <3>3. CASE ~Pushes
      <4>1. d = c /\ v = SlotAt(r, c)
        BY <1>2, <2>1, <2>2, <2>3, <2>5, <3>3 DEF CountAfter
      <4> QED BY <3>1, <4>1
    <3> QED BY <3>2, <3>3
  <2>6. /\ v = SlotAt(q, d)
        /\ \A k \in 0..(d - 1) : \/ Pushes /\ SlotAt(q, k) = SlotAt(r, c)
                                 \/ \E j \in 0..(c - 1) : SlotAt(q, k) = SlotAt(r, j)
    BY <2>4, <2>5
  <2> QED BY <2>1, <2>2, <2>3, <2>6, Zenon
<1>5. FifoInStep'
  BY <1>4 DEF FifoInStep, SlotAt
<1> QED BY <1>4, <1>5

LEMMA QueueKept ==
  ASSUME FrontInv, NEW halves \in IssueChoices, NEW guess \in Predictions, NEW arReady \in {FALSE, rbus = <<>>},
         NEW beat \in Beats, FrontClock(halves, guess, arReady, beat)
  PROVE FifoInStep' /\ QueueHolds'
<1>1. FrontTypeOK /\ FetchInStep /\ FifoInStep /\ QueueHolds
  BY DEF FrontInv
<1>2. Ticks(arReady, beat) /\ IssueTick(halves) /\ FetchTick(guess.next, guess.low) /\ text' = text
      /\ guess.next \in FetchPCs /\ guess.low \in BOOLEAN /\ FifoTick(halves)
  BY <1>1, ClockParts
<1>3. issue.fence /\ issue.csr # "branch" => issue'.fence
  BY <1>1, <1>2, DropStays
<1>4. CASE BranchRequest
  <2>1. fifo'.count = 0 /\ fifo'.rd = 0 /\ fifo'.wr = 0
    BY <1>1, <1>2, <1>4, FifoFlushes
  <2>2. FifoInStep'
    BY <2>1, SlotsAre DEF FifoInStep, SlotAt
  <2>3. 0..(fifo'.count - 1) = {}
    BY <2>1
  <2> QED BY <2>2, <2>3 DEF QueueHolds
<1>5. CASE ~BranchRequest
  <2>1. /\ FifoInStep'
        /\ \A k \in 0..(fifo'.count - 1) :
              \/ Pushes /\ SlotAt(fifo'.rd, k) = fifo.wr
              \/ \E j \in 0..(fifo.count - 1) : SlotAt(fifo'.rd, k) = SlotAt(fifo.rd, j)
    BY <1>1, <1>2, <1>5, RingKept
  <2>2. \A slot \in Slots : SameWords(fifo'.entry[slot], Written(slot))
    BY <1>1, <1>2, <1>5, FifoMoves
  <2>3. ASSUME ~issue'.fence, NEW k \in 0..(fifo'.count - 1)
        PROVE  IsItem(fifo'.entry[SlotAt(fifo'.rd, k)], text'.faults, Owes')
    <3> DEFINE slot == SlotAt(fifo'.rd, k)
    <3>1. ~issue.fence
      BY <1>3, <1>5, <2>3 DEF BranchRequest
    <3>2. Owes' = Owes
      BY <3>1, OwesStays
    <3>3. slot \in Slots
      <4>1. fifo'.rd \in Slots /\ fifo'.count \in 0..Depth
        BY <1>1, <1>2, FifoType DEF FifoRegs
      <4> QED BY <4>1, SlotsAre DEF SlotAt
    <3>4. SameWords(fifo'.entry[slot], Written(slot))
      BY <2>2, <3>3
    <3>5. CASE Pushes /\ slot = fifo.wr
      <4>1. Written(slot) = Pushed
        BY <3>5 DEF Written
      <4>2. IsItem(Fetched, text.faults, Owes)
        <5>1. FetchValid /\ ~fe.branch.on
          BY <3>5 DEF Pushes, FetchValid, Drop, Branch
        <5> QED BY <3>1, <5>1, FetchedHolds DEF LateDropped
      <4>3. /\ Pushed.pair = Fetched.pair /\ Pushed.fault = Fetched.fault
            /\ Pushed.inst = IF Fetched.fault THEN <<Garbage, Garbage>> ELSE Fetched.inst
        BY DEF Pushed
      <4>4. IsItem(Pushed, text.faults, Owes)
        BY <4>2, <4>3 DEF IsItem
      <4> QED BY <1>2, <3>2, <3>4, <4>1, <4>4 DEF SameWords, IsItem
    <3>6. CASE ~(Pushes /\ slot = fifo.wr)
      <4>1. PICK j \in 0..(fifo.count - 1) : slot = SlotAt(fifo.rd, j)
        BY <2>1, <3>6
      <4>2. Written(slot) = fifo.entry[slot]
        BY <3>6 DEF Written
      <4>3. IsItem(fifo.entry[slot], text.faults, Owes)
        BY <1>1, <3>1, <4>1 DEF QueueHolds
      <4> QED BY <1>2, <3>2, <3>4, <4>2, <4>3 DEF SameWords, IsItem
    <3> QED BY <3>5, <3>6
  <2>4. QueueHolds'
    BY <2>3 DEF QueueHolds, SlotAt
  <2> QED BY <2>1, <2>4
<1> QED BY <1>4, <1>5

LEMMA FrontInvInit == FrontInit => FrontInv
<1> SUFFICES ASSUME FrontInit PROVE FrontInv
  OBVIOUS
<1>1. FrontTypeOK
  BY FrontTypeInit
<1>2. /\ ic.state = "FLUSH" /\ ~ic.lookup /\ ic.flushAddr = 0 /\ ~ic.ar /\ ~ic.err /\ ic.idx = 0
  BY DEF FrontInit, ICacheInit
<1>3. /\ ~fe.fetching /\ fe.skid = <<>> /\ rbus = <<>> /\ code = 0
  BY DEF FrontInit
<1>4. issue.csr = "branch" /\ ~issue.fence
  BY DEF FrontInit
<1>5. Owes = 0 /\ owed["flush"].now = 0
  BY DEF FrontInit, Owes
<1>6. FetchInStep /\ Counts /\ BusInStep /\ Refilling
  BY <1>2, <1>3, <1>4, <1>5 DEF FetchInStep, Counts, BusInStep, Refilling
<1>7. Cleared
  BY <1>2, Sizes DEF Cleared
<1>8. RamsHold /\ ErrIsFault /\ WalkDropped /\ OutputsHold /\ SkidHolds
  BY <1>2, <1>3 DEF RamsHold, ErrIsFault, WalkDropped, OutputsHold, SkidHolds
<1>9. FifoInStep /\ QueueHolds
  <2>1. fifo.count = 0 /\ fifo.rd = 0 /\ fifo.wr = 0
    BY DEF FrontInit
  <2>2. 0..(fifo.count - 1) = {}
    BY <2>1
  <2> QED BY <2>1, <2>2, SlotsAre DEF FifoInStep, SlotAt, QueueHolds
<1> QED BY <1>1, <1>6, <1>7, <1>8, <1>9 DEF FrontInv

LEMMA FrontInvStep == FrontInv /\ [FrontNext]_frontVars => FrontInv'
<1> SUFFICES ASSUME FrontInv, [FrontNext]_frontVars PROVE FrontInv'
  OBVIOUS
<1>0. FrontTypeOK'
  BY FrontTypeStep DEF FrontInv
<1>1. CASE UNCHANGED frontVars
  <2>1. /\ ic' = ic /\ tagRam' = tagRam /\ dataRam' = dataRam /\ text' = text /\ fe' = fe /\ fifo' = fifo
        /\ issue' = issue /\ rbus' = rbus /\ code' = code /\ owed' = owed
    BY <1>1 DEF frontVars, cacheVars
  <2>2. FetchInStep' /\ Counts' /\ BusInStep'
    BY <2>1 DEF FrontInv, FetchInStep, Counts, BusInStep, Owes, LineOf
  <2>3. Refilling' /\ Cleared'
    BY <2>1, Zenon DEF FrontInv, Refilling, Cleared, Refilled, Owes
  <2>4. RamsHold' /\ ErrIsFault'
    BY <2>1, Zenon DEF FrontInv, RamsHold, ErrIsFault, Owes, Awaited
  <2>5. WalkDropped' /\ OutputsHold'
    BY <2>1, Zenon DEF FrontInv, WalkDropped, OutputsHold, LateDropped, Owes, Hit
  <2>6. SkidHolds' /\ FifoInStep' /\ QueueHolds'
    BY <2>1, Zenon DEF FrontInv, SkidHolds, FifoInStep, QueueHolds, SlotAt, LateDropped, Owes
  <2> QED BY <1>0, <2>2, <2>3, <2>4, <2>5, <2>6 DEF FrontInv
<1>2. ASSUME NEW halves \in IssueChoices, NEW guess \in Predictions, NEW arReady \in {FALSE, rbus = <<>>},
             NEW beat \in Beats, FrontClock(halves, guess, arReady, beat)
      PROVE FrontInv'
  <2>1. FetchInStep' /\ Counts' /\ BusInStep'
    BY <1>2, FetchInStepKept, CountsKept, BusInStepKept
  <2>2. Refilling' /\ Cleared' /\ RamsHold'
    BY <1>2, RefillingKept, ClearedKept, RamsHoldKept
  <2>3. ErrIsFault' /\ WalkDropped' /\ OutputsHold' /\ SkidHolds' /\ FifoInStep' /\ QueueHolds'
    BY <1>2, ErrIsFaultKept, OutputsKept, SkidKept, QueueKept
  <2> QED BY <1>0, <2>1, <2>2, <2>3 DEF FrontInv
<1> QED BY <1>1, <1>2, Zenon DEF FrontNext

-----------------------------------------------------------------------------
(* What the issue stage takes                                              *)

LEMMA HeadHolds ==
  ASSUME FrontInv, MayIssue
  PROVE IsItem(FifoHead, text.faults, Owes) /\ FifoHead \in FifoEntries
<1>1. FrontTypeOK /\ FetchInStep /\ QueueHolds
  BY DEF FrontInv
<1>2. Offered # {} /\ ~issue.fence
  BY <1>1 DEF MayIssue, Selects, Matches, FetchInStep
<1>3. fifo.count # 0
  BY <1>2 DEF Offered
<1>4. fifo.count \in 0..Depth /\ fifo.rd \in Slots /\ FifoHead \in FifoEntries
  BY <1>1 DEF FrontTypeOK, FifoRegs, FifoHead
<1>5. 0 \in 0..(fifo.count - 1) /\ SlotAt(fifo.rd, 0) = fifo.rd
  BY <1>3, <1>4, SlotsAre DEF SlotAt
<1> QED BY <1>1, <1>2, <1>4, <1>5 DEF QueueHolds, FifoHead

LEMMA InvIssuesItsWord == FrontInv => IssuesItsWord
<1> SUFFICES ASSUME FrontInv, MayIssue
             PROVE IF FifoHead.fault THEN \E pc \in text.faults : LineOf(pc \div 2) = LineOf(FifoHead.pair)
                   ELSE \A half \in {h \in FifoHead.halves : 2 * FifoHead.pair + h >= issue.pc} :
                           FifoHead.inst[half + 1].pc = 2 * FifoHead.pair + half
  BY DEF IssuesItsWord
<1> PICK x \in FifoEntries : x = FifoHead
  BY HeadHolds
<1>1. IsItem(x, text.faults, Owes)
  BY HeadHolds
<1>2. CASE x.fault
  BY <1>1, <1>2 DEF IsItem, InLine
<1>3. CASE ~x.fault
  <2>1. x.inst[1].pc = 2 * x.pair /\ x.inst[2].pc = 2 * x.pair + 1
    BY <1>1, <1>3 DEF IsItem, IsPair, IsWord
  <2>2. x.halves \subseteq {0, 1} /\ x.pair \in Nat
    BY DEF FifoEntries
  <2>3. \A half \in x.halves : x.inst[half + 1].pc = 2 * x.pair + half
    BY <2>1, <2>2
  <2> QED BY <1>3, <2>3
<1> QED BY <1>2, <1>3

LEMMA InvFlushSeen == FrontInv => FlushSeen
<1> SUFFICES ASSUME FrontInv, MayIssue, ~FifoHead.fault, NEW half \in FifoHead.halves,
                    LineOf(FifoHead.pair) = CodeLine
             PROVE FifoHead.inst[half + 1].version >= owed["flush"].now
  BY DEF FlushSeen, Sees
<1> PICK x \in FifoEntries : x = FifoHead
  BY HeadHolds
<1>1. IsPair(x.inst, x.pair, Owes)
  BY HeadHolds DEF IsItem
<1>2. half \in {0, 1} /\ x.pair \in Nat
  BY DEF FifoEntries
<1>3. (2 * x.pair) \div 2 = x.pair /\ (2 * x.pair + 1) \div 2 = x.pair
  BY <1>2
<1>4. x.inst[half + 1].version \in Nat /\ x.inst[half + 1].version >= Owes
  BY <1>1, <1>2, <1>3 DEF IsPair, IsWord
<1>5. Owes >= owed["flush"].now /\ Owes \in Nat /\ owed["flush"].now \in Nat
  BY DEF FrontInv, Counts, FrontTypeOK, Owes
<1> QED BY <1>4, <1>5

LEMMA FrontInvHolds == FrontSpec => []FrontInv
<1>1. FrontInit => FrontInv
  BY FrontInvInit
<1>2. FrontInv /\ [FrontNext]_frontVars => FrontInv'
  BY FrontInvStep
<1> QED BY <1>1, <1>2, PTL DEF FrontSpec

(* For every program, cache size, queue depth and predictor: what the      *)
(* issue stage may take is the word of the pc it expects, and a fault is   *)
(* one of its line, whatever the skid buffer, the drop of late answers,    *)
(* the RAMs that answer a clock later and the refill mix up on the way.    *)
THEOREM IssuesItsWordHolds == FrontSpec => []IssuesItsWord
<1>1. FrontInv => IssuesItsWord
  BY InvIssuesItsWord
<1> QED BY <1>1, FrontInvHolds, PTL

(* After a flush of the instruction cache that the CSR unit has ended with *)
(* its branch, nothing is issued that memory held before the flush.        *)
THEOREM FlushSeenHolds == FrontSpec => []FlushSeen
<1>1. FrontInv => FlushSeen
  BY InvFlushSeen
<1> QED BY <1>1, FrontInvHolds, PTL

=============================================================================
