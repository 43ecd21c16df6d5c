---------------------------- MODULE MCDCacheCore ----------------------------
(* A cache of two lines of two words and three tags.  Each word of memory    *)
(* starts with contents of its own, the number of its address, so that a word     *)
(* fetched from or sent to a wrong place is seen.                            *)
EXTENDS DCacheCore

A(t, l, w) == [tag |-> t, line |-> l, word |-> w]
R(op, a, d) == [op |-> op, addr |-> a, data |-> d]

AddrSet == [tag : 0 .. 2, line : 0 .. 1, word : 0 .. 1]
MemoryOf == [a \in AddrSet |-> 4 * a.tag + 2 * a.line + a.word]
New == 12
Zero == 13
DataSet == 0 .. 13

(* What a tag RAM may hold at power on: nothing, or a dirty line.            *)
PowerOn == {ZeroEntry, Entry(TRUE, TRUE, 0)}
Cleared == {ZeroEntry}

Idle == {R("none", A(0, 0, 0), Zero), R("none", A(0, 1, 0), Zero)}
Reads == {R("rd", A(t, 0, 0), Zero) : t \in 0 .. 2}
Writes == {R("wr", A(t, 0, 0), New) : t \in 0 .. 1} \cup {R("wr", A(0, 1, 1), New)}
Maintenance == {R("flush", A(0, 0, 0), Zero), R("wb", A(0, 0, 1), Zero),
                R("wb", A(0, 1, 0), Zero)}
Invalidates == {R("inval", A(0, l, 0), Zero) : l \in 0 .. 1}

Coherence == Idle \cup Reads \cup Writes \cup Maintenance

(* One line, for the bus errors; an eviction needs its third tag.  With one  *)
(* line in use an invalidate compares the tags it should.                    *)
Faults == {R("none", A(0, 0, 0), Zero), R("wr", A(0, 0, 0), New), R("rd", A(1, 0, 0), Zero),
           R("rd", A(2, 0, 0), Zero), R("flush", A(0, 0, 0), Zero), R("wb", A(0, 0, 1), Zero),
           R("inval", A(0, 0, 0), Zero)}

(* Every operation, with invalidates of both lines.                          *)
Everything == {R("none", A(0, 0, 0), Zero), R("wr", A(0, 0, 0), New), R("rd", A(1, 0, 0), Zero),
               R("wr", A(0, 1, 1), New), R("flush", A(0, 0, 0), Zero),
               R("wb", A(0, 1, 0), Zero)} \cup Invalidates
=============================================================================
