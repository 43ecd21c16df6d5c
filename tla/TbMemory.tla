------------------------------ MODULE TbMemory ------------------------------
(***************************************************************************)
(* The memory of the tb_top bench (tb_memory.h): regions of byte arrays in *)
(* a short table, of which the instruction memory and the data memory have *)
(* one each; both tables point to the same arrays.                         *)
(***************************************************************************)
EXTENDS Integers, Sequences, FiniteSetsExt

CONSTANTS
    Space,        \* addresses there are (2^32 in the code); sums wrap
    MaxRegions    \* TB_MEM_MAX_REGIONS

ASSUME SpaceAssumption == Space \in Nat \ {0}
ASSUME MaxRegionsAssumption == MaxRegions \in Nat \ {0}

VARIABLES
    memory   \* [icache, dcache: regions [base, size, array]; arrays: the bytes]

tb_mem_region(base, size, array) == [base |-> base, size |-> size, array |-> array]
match(region, addr) ==
    addr >= region.base /\ addr < (region.base + region.size) % Space

tb_memory == <<>>

Holding(regions, addr) == {k \in DOMAIN regions : match(regions[k], addr)}
valid_addr(regions, addr) == Holding(regions, addr % Space) # {}

(* The table is searched in order, and so are overlaps: by both ends of    *)
(* the new region only.                                                    *)
add_region(regions, region) ==
    IF /\ Len(regions) < MaxRegions
       /\ ~valid_addr(regions, region.base)
       /\ ~valid_addr(regions, region.base + region.size - 1)
    THEN Append(regions, region) ELSE regions

(* The region an access goes to, of a valid address.                       *)
RegionOf(regions, addr) == regions[Min(Holding(regions, addr))]
get_array(regions, addr) == RegionOf(regions, addr).array
region_read(m, region, addr) == m.arrays[region.array][addr - region.base]
read(m, regions, addr) == region_read(m, RegionOf(regions, addr), addr)

(* Bytes written one after the other, each to a valid address of its own.  *)
Cell(regions, addr) == <<get_array(regions, addr), addr - RegionOf(regions, addr).base>>
write(m, regions, bytes) ==
    LET Here(k, o) == {a \in DOMAIN bytes : Cell(regions, a) = <<k, o>>}
    IN  [m EXCEPT !.arrays = [k \in DOMAIN @ |-> [o \in DOMAIN @[k] |->
            IF Here(k, o) = {} THEN @[k][o] ELSE bytes[CHOOSE a \in Here(k, o) : TRUE]]]]

TbMemoryInit == memory = [icache |-> tb_memory, dcache |-> tb_memory, arrays |-> <<>>]
=============================================================================
