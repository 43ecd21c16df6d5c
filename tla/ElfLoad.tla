------------------------------ MODULE ElfLoad -------------------------------
(***************************************************************************)
(* The ELF loader of the test benches (elf_load.cpp, one copy in each)     *)
(* with the memories it loads: the region table of tb_top, which makes     *)
(* room for each section, and the TCM of tb_tcm.  A file is what the       *)
(* library gives of it, section by section; a byte is named for the        *)
(* section and the place it comes from.                                    *)
(***************************************************************************)
EXTENDS TbMemory

CONSTANTS
    Align,          \* regions are aligned and rounded to it (32 in the code)
    TcmSize,       \* MEM_SIZE of tb_tcm, whose MEM_BASE is 0
    SectionAddrs,  \* sh_addr
    SectionSizes,  \* sh_size
    MaxSections    \* bound on the sections of a file

ASSUME LineAssumption == Align \in Nat \ {0} /\ Space % Align = 0
ASSUME FileAssumption ==
    TcmSize \in Nat /\ SectionAddrs \subseteq Nat /\ SectionSizes \subseteq Nat

VARIABLES
    tcm,     \* the bytes of the TCM of tb_tcm
    loader   \* [bench, at, section: section_idx, image: ghost, what was sent]

Unset == -1
(* A section that ends with the address space is left out: the sum in the *)
(* assertion of tb_tcm is 0 for it.                                        *)
Addresses == 0..(Space - 1)
Sections == {s \in [addr : SectionAddrs, size : SectionSizes, alloc : BOOLEAN, progbits : BOOLEAN] :
                s.addr + s.size < Space}
Byte(section, i) == section * 16 + i + 1

LoadInit ==
    /\ TbMemoryInit
    /\ tcm = [a \in 0..(TcmSize - 1) |-> Unset]
    /\ loader \in [bench : {"tb_top", "tb_tcm"}, at : {"open"}, section : {0},
                   image : {[a \in Addresses |-> Unset]}]

(* Any of the early returns, of which the caller sees only false.          *)
Open(found) ==
    /\ loader.at = "open"
    /\ loader' = [loader EXCEPT !.at = IF found THEN "sections" ELSE "false"]
    /\ UNCHANGED <<memory, tcm>>

-----------------------------------------------------------------------------
(* tb_top: what is already there is skipped at both ends.                  *)
SkipTaken(regions, base) ==
    (base + Min({k \in 0..Space : ~valid_addr(regions, base + k)})) % Space
CutTaken(regions, base, size) ==
    size - Min({k \in 0..size : ~valid_addr(regions, base + size - k - 1)})

memsetNone(array, size) == array
memset(array, size) == [o \in DOMAIN array |-> IF o < size THEN 0 ELSE array[o]]

(* The memory with room for a section, or none when get_array asserts: the *)
(* table is full, or the region ends where addresses wrap.                 *)
create_memory(m, addr, len) ==
    LET base == SkipTaken(m.icache, addr - (addr % Align))
        size == CutTaken(m.icache, base, len + ((-len) % Align))
        region == tb_mem_region(base, size, Len(m.arrays) + 1)
        icache == add_region(m.icache, region)
        arrays == IF icache = m.icache THEN m.arrays
                  ELSE Append(m.arrays, [o \in 0..(size - 1) |-> Unset])
        array == get_array(icache, base)
    IN  IF ~valid_addr(icache, base) THEN {}
        ELSE {[icache |-> icache,
               dcache |-> add_region(m.dcache, tb_mem_region(base, size, array)),
               arrays |-> [arrays EXCEPT ![array] = memset(@, size)]]}

(* Where the bytes of a section go, and what they are.                     *)
Places(s) == {(s.addr + i) % Space : i \in 0..(s.size - 1)}
ByteAt(s, addr) == Byte(loader.section, (addr - s.addr) % Space)
Filled(s, m) == write(m, m.dcache, [a \in Places(s) |-> ByteAt(s, a)])

Sent(s) == [a \in Addresses |->
    IF a \notin Places(s) THEN loader.image[a]
    ELSE IF s.progbits THEN ByteAt(s, a)
    ELSE IF loader.image[a] = Unset THEN 0 ELSE loader.image[a]]

NextSection(at, image) ==
    loader' = [loader EXCEPT !.at = at, !.section = @ + 1, !.image = image]

(* A section without SHF_ALLOC is passed over.  A write out of range       *)
(* asserts and ends the program, so what was written before it is left out. *)
TopSection(s) ==
    /\ loader.bench = "tb_top" /\ loader.at = "sections" /\ loader.section < MaxSections
    /\ UNCHANGED tcm
    /\ IF ~s.alloc \/ s.size = 0 THEN UNCHANGED memory /\ NextSection("sections", loader.image)
       ELSE LET room == create_memory(memory, s.addr, s.size)
                fits == \A m \in room : \A a \in Places(s) : valid_addr(m.dcache, a)
            IN  IF room = {} \/ (s.progbits /\ ~fits)
                THEN UNCHANGED memory /\ NextSection("assert", loader.image)
                ELSE \E m \in room :
                        /\ memory' = IF s.progbits THEN Filled(s, m) ELSE m
                        /\ NextSection("sections", Sent(s))

(* tb_tcm: the memory is there; a section that would reach its last byte   *)
(* is refused by an assertion.                                             *)
TcmHolds(s) == (s.addr + s.size) % Space < TcmSize
TcmSection(s) ==
    /\ loader.bench = "tb_tcm" /\ loader.at = "sections" /\ loader.section < MaxSections
    /\ UNCHANGED memory
    /\ IF ~s.alloc \/ s.size = 0 THEN UNCHANGED tcm /\ NextSection("sections", loader.image)
       ELSE IF ~TcmHolds(s) THEN UNCHANGED tcm /\ NextSection("assert", loader.image)
       ELSE /\ tcm' = [a \in DOMAIN tcm |->
                          IF s.progbits /\ a \in Places(s) THEN ByteAt(s, a) ELSE tcm[a]]
            /\ NextSection("sections", Sent(s))

Loaded ==
    /\ loader.at = "sections"
    /\ loader' = [loader EXCEPT !.at = "true"]
    /\ UNCHANGED <<memory, tcm>>

LoadNext ==
    \/ \E found \in BOOLEAN : Open(found)
    \/ \E s \in Sections : TopSection(s) \/ TcmSection(s)
    \/ Loaded

-----------------------------------------------------------------------------
(* A file that loads is in memory as it is in the file, on the instruction *)
(* and on the data side, however its sections lie to each other: the last  *)
(* one to write a byte wins, and what only has room is zero (in tb_tcm it  *)
(* is left as it was).                                                     *)
LoadedImage ==
    loader.at = "true" => \A a \in Addresses :
        LET byte == loader.image[a]
        IN  IF loader.bench = "tb_tcm" THEN byte > 0 => tcm[a] = byte
            ELSE /\ byte > 0 => valid_addr(memory.dcache, a)
                 /\ (byte # Unset /\ valid_addr(memory.dcache, a)) =>
                        /\ read(memory, memory.dcache, a) = byte
                        /\ valid_addr(memory.icache, a)
                        /\ read(memory, memory.icache, a) = byte
=============================================================================
