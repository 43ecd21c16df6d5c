------------------------------- MODULE ICache -------------------------------
(***************************************************************************)
(* The instruction cache (icache.v): two ways, a walk over the sets that   *)
(* clears the tags, a lookup in RAMs that answer a clock later with what   *)
(* they held before a write (read first), and refills of a whole line in   *)
(* beats of half a pair.  One step is one clock.                           *)
(*                                                                         *)
(* Addresses are those of pairs of instructions (64 bits).  The request    *)
(* that names one line to invalidate is left out: biriscv_fetch.v ties it  *)
(* to 0.                                                                   *)
(***************************************************************************)
EXTENDS Naturals, Sequences

CONSTANTS
    NumTags,     \* tags in use
    NumSets,     \* sets (256 in the code)
    LineWords,   \* pairs in a line (4 in the code)
    Garbage      \* a word nobody wrote

ASSUME ICacheAssumption == /\ NumTags \in Nat \ {0} /\ NumSets \in Nat \ {0}
                           /\ LineWords \in Nat \ {0}

VARIABLES
    ic,          \* the registers, with the outputs of the RAMs
    tagRam, dataRam

Ways == 0..1
LineBeats == 2 * LineWords
RamWords == NumSets * LineWords
Pairs == 0..(NumTags * RamWords - 1)
LineOf(pair) == pair \div LineWords
SetOf(pair) == LineOf(pair) % NumSets
TagOf(pair) == pair \div RamWords

NoTag == [valid |-> FALSE, tag |-> 0]
ICacheInit ==
    /\ ic = [state |-> "FLUSH", lookup |-> FALSE, addr |-> 0, flushAddr |-> 0, way |-> 0,
             ar |-> FALSE, err |-> FALSE, idx |-> 0, lower |-> Garbage, writeAddr |-> 0,
             tag |-> [w \in Ways |-> NoTag], data |-> [w \in Ways |-> <<Garbage, Garbage>>]]
    /\ \E e \in {NoTag, [valid |-> TRUE, tag |-> 0]} :
          tagRam = [w \in Ways |-> [s \in 0..(NumSets - 1) |-> e]]
    /\ dataRam = [w \in Ways |-> [a \in 0..(RamWords - 1) |-> <<Garbage, Garbage>>]]

-----------------------------------------------------------------------------
(* The answer and the next state.                                          *)
Hit(w) == ic.tag[w].valid /\ ic.tag[w].tag = TagOf(ic.addr)
AnyHit == \E w \in Ways : Hit(w)
ReqValid == ic.lookup /\ ic.state = "LOOKUP" /\ AnyHit
Misses == ic.lookup /\ ic.state = "LOOKUP" /\ ~AnyHit
ReqAccept == ic.state = "LOOKUP" /\ ~Misses
Inst == ic.data[IF Hit(0) \/ ~Hit(1) THEN 0 ELSE 1]

LineArValid == Misses \/ ic.ar

NextStateWhenIdle(flush, last) ==
    CASE ic.state = "FLUSH" -> IF ic.flushAddr = NumSets - 1 THEN "LOOKUP" ELSE "FLUSH"
      [] ic.state = "LOOKUP" -> IF Misses THEN "REFILL" ELSE IF flush /\ ~ic.lookup THEN "FLUSH" ELSE "LOOKUP"
      [] ic.state = "REFILL" -> IF last THEN "RELOOKUP" ELSE "REFILL"
      [] ic.state = "RELOOKUP" -> "LOOKUP"
NextState(flush, last) ==
    CASE ic.state = "FLUSH" -> IF ic.flushAddr = NumSets - 1 THEN "LOOKUP" ELSE "FLUSH"
      [] ic.state = "LOOKUP" -> IF Misses THEN "REFILL" ELSE IF flush THEN "FLUSH" ELSE "LOOKUP"
      [] ic.state = "REFILL" -> IF last THEN "RELOOKUP" ELSE "REFILL"
      [] ic.state = "RELOOKUP" -> "LOOKUP"

-----------------------------------------------------------------------------
(* The RAMs: where they are addressed and what is written there.           *)
TagAddr(pair) == IF ic.state = "FLUSH" THEN ic.flushAddr
                 ELSE IF ic.state = "LOOKUP" THEN SetOf(pair) ELSE SetOf(ic.addr)
DataAddr(pair) == IF ic.state = "REFILL" THEN ic.writeAddr
                  ELSE IF ic.state = "RELOOKUP" THEN ic.addr % RamWords ELSE pair % RamWords

TagsAfter(pair, last) ==
    [w \in Ways |->
        IF ic.state = "FLUSH" THEN [tagRam[w] EXCEPT ![TagAddr(pair)] = NoTag]
        ELSE IF ic.state = "REFILL" /\ last /\ ic.way = w
        THEN [tagRam[w] EXCEPT ![TagAddr(pair)] = [valid |-> TRUE, tag |-> TagOf(ic.addr)]]
        ELSE tagRam[w]]

(* Every beat is written; the second of a pair overwrites it with both.    *)
DataAfter(pair, beat) ==
    [w \in Ways |-> IF beat # <<>> /\ ic.way = w
                    THEN [dataRam[w] EXCEPT ![DataAddr(pair)] = <<ic.lower, beat[1].word>>]
                    ELSE dataRam[w]]

(* The write address starts at the line and moves on with every pair.      *)
WriteAddrLate(beat) ==
    IF Misses THEN (LineOf(ic.addr) * LineWords) % RamWords
    ELSE IF ic.state = "REFILL" /\ beat # <<>> /\ ic.idx % 2 = 0 THEN (ic.writeAddr + 1) % RamWords
    ELSE ic.writeAddr
WriteAddr(beat) ==
    IF Misses THEN (LineOf(ic.addr) * LineWords) % RamWords
    ELSE IF ic.state = "REFILL" /\ beat # <<>> /\ ic.idx % 2 = 1 THEN (ic.writeAddr + 1) % RamWords
    ELSE ic.writeAddr

(* One clock: a request for a pair, the pulse that flushes, the ready of   *)
(* the read address channel, and at most one beat [word, last, err].       *)
ICacheTick(rd, pair, flush, arReady, beat) ==
    LET last == beat # <<>> /\ beat[1].last
        taken == rd /\ ReqAccept
    IN  /\ ic' = [state |-> NextState(flush, last),
                  lookup |-> taken \/ (ic.lookup /\ ~ReqValid),
                  addr |-> IF taken THEN pair ELSE ic.addr,
                  flushAddr |-> IF ic.state = "FLUSH" THEN (ic.flushAddr + 1) % NumSets ELSE 0,
                  way |-> IF last THEN 1 - ic.way ELSE ic.way,
                  ar |-> LineArValid /\ ~arReady,
                  err |-> (beat # <<>> /\ beat[1].err) \/ (ic.err /\ ~ReqValid),
                  idx |-> IF last THEN 0 ELSE IF beat # <<>> THEN ic.idx + 1 ELSE ic.idx,
                  lower |-> IF beat # <<>> THEN beat[1].word ELSE ic.lower,
                  writeAddr |-> WriteAddr(beat),
                  tag |-> [w \in Ways |-> tagRam[w][TagAddr(pair)]],
                  data |-> [w \in Ways |-> dataRam[w][DataAddr(pair)]]]
        /\ tagRam' = TagsAfter(pair, last)
        /\ dataRam' = DataAfter(pair, beat)
=============================================================================
