------------------------------ MODULE HexToCoe ------------------------------
(***************************************************************************)
(* hex_to_coe.cpp: the contents of a memory from an Intel HEX file, one    *)
(* record at a time.  A data record lies within 64 KB, as linkers write    *)
(* them.  The high address of a type 4 record is added as it stands, not   *)
(* shifted by 16: what is checked is for files that leave it zero.         *)
(***************************************************************************)
EXTENDS Naturals, Sequences

CONSTANTS
    MaxAddress,   \* max_address (0xFFFF)
    MaxCount,     \* byte_count
    MaxRecords,   \* bound on the records of a file
    RowBytes      \* bytes in a line of the output (32)

ASSUME HexAssumption ==
    /\ {MaxAddress, MaxCount, MaxRecords} \subseteq Nat /\ RowBytes \in Nat \ {0}
    /\ (MaxAddress + 1) % RowBytes = 0

VARIABLES
    coe   \* [at, record: those read, buffer, address_offset, rows: the output,
          \*  ghosts: hex, the bytes of the file, and high, was one above 64 KB]

Bytes == 0..MaxAddress
default_value == 0

HexInit == coe = [at |-> "records", record |-> 0, buffer |-> [a \in Bytes |-> default_value],
                  address_offset |-> 0, rows |-> <<>>, hex |-> [a \in Bytes |-> default_value], high |-> FALSE]

(* A byte is named for the record and the place it comes from.             *)
DataByte(i) == coe.record * MaxCount + i + 1
BufferedLong(address, byte_count) ==
    [a \in Bytes |-> IF a \in address..(address + byte_count)
                     THEN DataByte(a - address) ELSE coe.buffer[a]]
Buffered(address, byte_count) ==
    [a \in Bytes |-> IF a \in address..(address + byte_count - 1)
                     THEN DataByte(a - address) ELSE coe.buffer[a]]

(* Only the first address is checked; the invalid are passed over.         *)
DataRecord(addr16, byte_count) ==
    LET address == coe.address_offset + addr16
    IN  coe' = [coe EXCEPT
            !.record = @ + 1,
            !.buffer = IF address <= MaxAddress THEN Buffered(address, byte_count) ELSE @,
            !.hex = [a \in Bytes |-> IF a \in addr16..(addr16 + byte_count - 1)
                                     THEN DataByte(a - addr16) ELSE @[a]]]
HighAddress(high) == coe' = [coe EXCEPT !.record = @ + 1, !.address_offset = high,
                                      !.high = @ \/ high > 0]
OtherRecord == coe' = [coe EXCEPT !.record = @ + 1]

Records ==
    /\ coe.at = "records" /\ coe.record < MaxRecords
    /\ \/ \E addr16 \in Bytes, n \in 0..MaxCount :
              addr16 + n <= MaxAddress + 1 /\ DataRecord(addr16, n)
       \/ \E high \in 0..1 : HighAddress(high)
       \/ OtherRecord
EndOfFile == coe.at = "records" /\ coe' = [coe EXCEPT !.at = "rows"]

(* One line of the output.                                                 *)
WriteRow ==
    LET i == Len(coe.rows) * RowBytes
    IN  /\ coe.at = "rows" /\ i <= MaxAddress
        /\ coe' = [coe EXCEPT !.rows = Append(@, [j \in 1..RowBytes |-> coe.buffer[i + j - 1]])]

HexNext == Records \/ EndOfFile \/ WriteRow
HexSpec == HexInit /\ [][HexNext]_coe

-----------------------------------------------------------------------------
(* The rows of the output, end to end, are the bytes of the file: the last *)
(* record that names an address gives its byte, the others are zero.       *)
CoeHoldsHex ==
    (Len(coe.rows) * RowBytes > MaxAddress /\ ~coe.high) =>
        /\ Len(coe.rows) * RowBytes = MaxAddress + 1
        /\ \A r \in DOMAIN coe.rows :
              coe.rows[r] = [j \in 1..RowBytes |-> coe.hex[(r - 1) * RowBytes + (j - 1)]]
=============================================================================
