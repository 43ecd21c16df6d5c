# biRISC-V in TLA+

A verification development for the biRISC-V core and the system built around
it: its caches and buses, the SystemC benches that simulate it and the programs
that run on it. The specifications are translated from the source. A step of a
hardware module is a clock edge; a step of a software module is one access or
one call, or in `Hello`, where program and hardware meet, again a clock. Each
module names the source it stands for; `PROJECT.json` maps every definition to
its lines.

## 1. The system

The core is a dual-issue, in-order RV32IM pipeline. Everything is clocked RTL:
no threads, but many machines that advance in the same clock and hand each
other requests by valid/accept pairs, with buses that refuse, delay and fail.
Nothing is persisted, so there is no crash recovery; reset is `Init`. Around it
are two SystemC benches, two programs for the CPU, one of them interrupted, and
a tool that turns a program into memory contents.

| Component | State it keeps | Operations | Talks to |
|---|---|---|---|
| Fetch (`biriscv_fetch.v`, `biriscv_frontend.v`) | pc, pending branch, outstanding fetch, skid buffer | fetch, redirect, stall, fence.i pulse | prediction, instruction cache or MMU, decode |
| Instruction cache (`icache/`) | two ways of tags and data, lookup in hand, flush counter, AXI read | lookup, refill, flush walk | fetch, AXI |
| Prediction (`biriscv_npc.v`) | BTB, history counters, real and speculative history and return stack | predict, correct | fetch, execution |
| Decode and fetch queue (`biriscv_decode.v`) | two entries of two words, popped separately; optional stage | push, pop one or two, flush | fetch, issue |
| Issue (`biriscv_issue.v`) | expected pc, divide and CSR pending flags | select, pair, scoreboard, bypass, block | all units |
| Pipeline control (`biriscv_pipe_ctrl.v`, twice) | stages E1, E2, WB of one pipe, squash flag | advance, stall, squash, commit | issue, units, CSR unit |
| CSR unit (`biriscv_csr.v`, `biriscv_csr_regfile.v`) | CSRs, privilege, interrupt launch flag, redirect | read/write, trap, return, interrupt | issue, fetch |
| ALU, multiplier, divider, register file | result registers; divider busy and counter; live values | compute | issue |
| Load/store unit (`biriscv_lsu.v`) | access in E1, outstanding flag, answer queue | issue, wait, fault, dummy answer | issue, MMU or data memory |
| MMU (`biriscv_mmu.v`) | two one-entry TLBs, walk state, port owner | translate, walk, flush | fetch, load/store unit |
| Data cache controller (`dcache_core.v`) | tag and data RAMs, request in hand, flush walk, burst counters, error | read, write, flush, writeback, invalidate | mux, AXI bridge |
| Data memory port (`dcache_mux.v`, `dcache_if_pmem.v`, `dcache_pmem_mux.v`) | who owns the answer path, queues of uncached accesses | route, hold | load/store unit, cache, bridge |
| AXI bridge (`dcache_axi.v`, `dcache_axi_axi.v`) | request queue, two beat counters, answers awaited, channel inhibits, skid buffer | issue bursts, count answers | port, AXI slave |
| TCM (`tcm/`) | RAM, port arbitration, AXI burst and answer queues | CPU access, external burst | core, AXI master, boot loader |
| Peripheral bus and slaves (`bus_mux/`, `axi4_lib/`, `mtimer/`, `peripherial/`) | registers, FIFOs, flags, interrupt lines | register read and write, events | core, outside world |
| Boot loader (`BootLoader.sv`) | reset and load machines, byte counter, AXI-lite writer | hold reset, load memory | serial line, TCM, core reset |
| Memory of the bench (`tb_axi4_mem.cpp`) | queues of single reads and writes, the address of the write burst, outputs | take, unroll, delay, answer | AXI ports of the core |
| Simulator (`tb/tb_top`, `tb/tb_tcm`) | region table or TCM image, clock limit, wave file, exit and signal handlers | load an ELF file, clock, stop, abort | design, operating system |
| Hello (`sw/Hello`) | message index, of main and of the handler | set up, send, handle a timer tick | UART, timer, interrupt CSRs |
| Segger_pr (`Dhry/Segger_pr`) | Dhrystone's globals and records, origin of the time | run, time, print | UART, machine timer |
| `hex_to_coe.cpp` | address, image, high address | read records, write rows | files |

How they interact. Fetch sends pairs of words through the queue to issue, which
picks the ones at the expected pc and sends up to two a clock into the pipes.
Execution, the CSR unit at write-back and issue itself (on a word it did not
expect) redirect fetch. Memory instructions leave for the load/store unit in
E1 and answer in E2, where they stall both pipes and may raise an exception
that squashes everything younger. The load/store unit's single port goes
through the MMU to the cache or, uncached, around it, and both share one AXI
port, with answers routed by registered ownership flags instead of tags.

What makes it hard: several registered decisions are used a clock or more
after they were taken (interrupt launch, tag read address, answer routing,
dirty bits on their way into the RAM); squash, stall and interrupt can fall
in one clock; bursts are counted at three places; the AXI channels take address
and data independently; and every one of these has to end with an answer.

What makes each component correct:

* cache controller: a read returns the last write, clean lines equal memory,
  one copy of a line, flush and writeback reach memory, errors reach the
  request that met them, every request is answered;
* issue and pipes: the program cannot tell the pipeline from a sequential
  machine; traps and interrupts are precise; nothing with a side effect is
  repeated; blocking flags clear;
* memory path: each access reaches the bus once and whole, is answered, and an
  access behind a fault is called back;
* fetch and instruction cache: what issues is the word of the pc that is
  expected, no older than the last flush, and there is always a next one;
* fetch queue: no word doubled, reordered or offered again by partial pops, pushes
  and flushes, and none lost for good (issue asks again for a pc it is not shown);
* MMU: a translation is that of the page table since the last sfence.vma;
* CSR unit: no interrupt is lost in a read-modify-write, traps go to the right
  privilege and returns restore what the trap saved;
* prediction: never changes what is computed;
* arithmetic units: the results the ISA defines, corner cases included;
* TCM, adapters and peripherals: each bus access is answered and has its
  effect once; no port starves;
* memory of the bench: it is a slave the data path can live with, and reads
  see the writes before them;
* simulator: the design runs only on a program that loaded, the memory then
  holds the file, and no way out leaves a wave file open;
* programs: no byte lost or repeated, ticks answered, times the counter had,
  the values the program prints as expected.

## 2. Modules and what they stand for

| Module | Models | Checked by |
|---|---|---|
| `DCacheCore` | `dcache_core.v` with its RAMs; bus and memory external | `dcache_*` |
| `CachedMemory` | what a write-back cache promises (abstract) | refined by `DCacheCore` |
| `DCacheCoreProofs`, `DCacheDataProofs` | theorems about `DCacheCore`: types, tags and errors; bursts, words, and that it implements `CachedMemory` | TLAPS |
| `Pipeline` | `biriscv_issue.v`, two `biriscv_pipe_ctrl.v`, and the parts of `biriscv_csr.v`, `biriscv_csr_regfile.v`, `biriscv_divider.v`, `biriscv_exec.v` they depend on | `pipeline_*` |
| `SequentialCore` | one instruction after another (abstract) | refined by `Pipeline` |
| `PipelineProofs` | theorems about traps, CSR operations, interrupts and repeated stores in `Pipeline` | TLAPS |
| `PipelineRefinementProofs` | `Pipeline` implements `SequentialCore` | TLAPS |
| `LoadStore` | `biriscv_lsu.v` | through `MemoryPath` |
| `AxiBridge` | `dcache_axi.v`, `dcache_axi_axi.v`, and the external slave | through `MemoryPath` |
| `MemoryPath` | `dcache.v`: both of the above with `dcache_mux.v`, `dcache_if_pmem.v`, `dcache_pmem_mux.v`, and the bursts the controller makes | `memory_path` |
| `MemoryPort` | one access at a time, carried out once, then answered (abstract) | refined by `MemoryPath` |
| `MemoryPathProofs` | theorems about `MemoryPath`, and that it implements `MemoryPort` | TLAPS |
| `BenchSlave`, `BenchPath` | `tb_axi4_mem.cpp`, and `MemoryPath` in front of it | `memory_path` |
| `BenchPathProofs` | theorems about `BenchPath`, and that it is a `MemoryPath` | TLAPS |
| `ICache` | `icache.v` with its RAMs | through `Frontend` |
| `Frontend` | `biriscv_fetch.v`, the queue of `biriscv_decode.v`, the pc check of `biriscv_issue.v`, over `ICache` and a memory that changes | `core_lives`, `fetch_fence` |
| `FrontendProofs` | theorems about `Frontend` with `ICache` | TLAPS |
| `TbMemory`, `ElfLoad`, `TestBench` | `tb_memory.h`; `elf_load.cpp` of both benches; `main.cpp`, `testbench.h`, `testbench_vbase.h` | `software` |
| `Uart`, `Hello` | the UART's transmitter; `sw/Hello/Source/main.c` with timer and interrupt registers | `software` |
| `Dhrystone`, `Segger` | the procedures and the main program of `Segger_pr` | `software` |
| `HexToCoe` | `sw/hex_to_coe.cpp` | `software` |
| `SoftwareProofs` | theorems about `Hello`, `Segger`, `TestBench` and `HexToCoe` | TLAPS |
| `MCDCacheCore`, `MCPipeline`, `MCMemoryPath` | values of the constants for TLC | |
| `MCCore` | `MCPipeline` and `Frontend` side by side, one of them moving | `core_lives`, `fetch_fence` |
| `MCSoftware` | the four parts of the software side by side, one of them moving | `software` |

### DCacheCore

A variable per register or RAM (`state` is `state_q`, `req` the request buffer
`mem_*_m_q`, `flush` the three flush registers, `pmem` the burst registers and
the skid buffer), plus the external `bus` and `mem` and the ghost `arch`, what
the program last wrote. An action is a way the state machine moves on; it sets
every register at that edge, so a RAM write, the RAM's registered output and
the next state move together. Tag RAMs are write first and data RAMs read
first, as the RAM modules say. The environment chooses the next request, and
whether the bus accepts and answers.

Abstracted: byte strobes (a word is written whole), request tags, the address
of later beats. `Junk` is what RAM holds at power on or a failed read returns.

### Pipeline

`head` is what the frontend offers: any pair of words, right or wrong, at any
time, so every prediction, queue and cache timing is included. `e1`, `e2`, `wb`
are pairs of slots. An instruction is a kind, a destination, one source (the
second has the same bypass logic) and a target; its result is the successor of
its source, so reading a stale register shows. Memory latency, memory faults,
the load/store unit's refusal, the length of a division, the interrupt line
and the value written to mstatus are all chosen freely each clock.

The interrupt inhibit in `biriscv_issue.v:724` looks at the class of the head
word without its valid bit. The model keeps that: `StaleCsr` is what the buffer
may show when it holds nothing. `SequentialCore` is the meaning of a program;
the mapping takes the registers with the writes now in WB and the pc of the
oldest instruction not yet there.

### LoadStore, AxiBridge, MemoryPath

Tick operators per block, one `Clock` that wires them as `dcache.v` does. The
cache controller is reduced to the bursts an access can cause (none, a refill,
an eviction and a refill, any evictions for maintenance), sent at any pace. A
beat carries its line and number, so one that goes astray is seen. `bus` is
the AXI slave: it takes any subset of what is offered and answers only what it
has the whole of. `WFirst` says whether it may take the first data of a burst
before the address. `BenchPath` puts the memory of the bench there instead:
what `MemoryPath` assumes of a slave is the invariant `MeetsContract`.

### ICache, Frontend

`ic` holds the registers of `icache.v` and the registered outputs of its RAMs,
`fe` those of `biriscv_fetch.v` (for both values of SUPPORT_MMU, translation
off), `fifo` those of `fetch_fifo`: the count, the two pointers and the entries
with their valid bits, which a flush leaves as they are (`FifoFlushed`). `issue` is the expected pc and an instruction on its way to the CSR unit, whose
trap or fence.i ends in a branch. Free are the predictor (any target, any
half), when an instruction issues, how long a trap takes, and the memory, which
answers a burst at any pace, may fail where `faults` says so and is rewritten
by the program. A word is its pc and the version of its line, so a stale, lost
or swapped word shows. `owed` is a ghost: what was in memory at the pulse of a
fence.i, from the moment the fence.i has completed.

### Software

* `Hello`: `cpu` is the rest of the operations of main and of the handler;
  `timer` and `csr` step in every clock, the program takes one access or none.
* `Segger`: `pc` is a label of `dhry`; `g` and `loc` are its memory, `get` a
  call that reads the timer's halves, `text` what printf still has to send.
  Strings are told apart, not spelt out.
* `TestBench`: `sim.at` is where `process`, `sc_main` or `abort()` is, and
  `sigint_handler` may come before any step. `ElfLoad` takes any file, section by
  section, into the region table of `tb_top` or the TCM of `tb_tcm`.
* `HexToCoe`: one record a step, into the image that becomes rows.

## 3. Runs

| Run | Question | Result |
|---|---|---|
| `dcache_coherent` | Do all operations but invalidate keep every word where it can be found, and does the core implement `CachedMemory`? | holds |
| `dcache_errors` | The same with failing beats and invalidates of the line in use; are errors attributed and requests answered? | holds |
| `dcache_inval_drops` | Does an invalidate mark its line invalid? | violated |
| `pipeline_data` | Do chained operands survive every latency and pairing? | holds |
| `pipeline_traps` | Are traps, branches and fences precise? | holds |
| `pipeline_interrupts` | The same with interrupts, with the extra decode stage and without the slow bypasses; is a store ever repeated? | holds |
| `pipeline_repeat` | Without the extra stage, can a store be repeated? | violated |
| `pipeline_divide` | Can a division take another's answer? | violated |
| `core_lives` | Do divisions, CSR accesses and memory accesses end? Does the issue stage get the word it expects, after a flush the new one, and always one again? | holds |
| `fetch_fence` | Does every fence.i flush the instruction cache? | violated |
| `memory_path` | Is each access carried out once, whole, and answered, by any slave and by the bench's? Does the bench's keep the contract? | holds |
| `software` | Do the programs, the simulator and the HEX tool keep their promises, whatever interrupts them? | holds |

### Bounds, and why they are enough

* Cache: two ways as in the code, two lines, two words, three tags. Three tags
  fill both ways and force an eviction; two lines let a maintenance operation
  look at the wrong set and make the flush walk advance and end; two words
  give a burst a first and a last beat. Each word starts with contents of its
  own, so one fetched from a wrong place is seen. The error run keeps all
  requests on one line, where the third tag still forces evictions. Longer
  bursts, more lines and more tags are covered by the proofs.
* Pipeline: four words are two pairs, run round and round; four instructions
  fill both pipes for two clocks, and the state holds six in flight. Each run
  takes every program over its instructions, or a stated subset: in the data
  run, one of two programs that differ by a rotation of a pair, and at most
  one division. Registers 0 to 2 and three values tell apart a chain of three;
  the other runs use registers 0 and 1 and values 0 and 1.
* Memory path: bursts of four beats (eight in the code: a first, a last and
  two between tell as much), two addresses (an access and a stranger), two
  evictions per maintenance operation, three accesses queued in the bench's
  memory before it refuses (128 in the code), so that a burst fills it.
* Frontend: three lines of two pairs for the two ways of one set (256 sets of
  four pairs in the code), so that lines replace each other and the write
  address of a refill moves; the code's queue of two, so that both pointers wrap;
  one rewrite of one line.
  One program has a branch and a jump back, with a predictor that may jump
  anywhere there; one rewrites its own line, traps and fences; one runs over a line
  that may fail, and trap. With one set the flush walk is one clock; the tags of both
  ways may hold a valid entry at power on.
* Software: a FIFO of two bytes and a message of two, so that it can be full
  and an interrupt fall inside the word; two runs of Dhrystone, the second on
  what the first left; three values of the timer's low word and seven of the
  whole (`MaxTime`), so that it wraps between two reads; up to three sections
  of 0, 5 or 9 bytes at four addresses, in lines of four bytes (`Align`, 32 in
  the code), a space of 20, three regions (10) and a TCM of eight bytes, so
  that sections share lines, overlap, wrap and do not fit; no limit, or one of
  0 or 2 clocks; up to three HEX records of two bytes.

### Fairness

* `dcache_errors`: the clock does not stop, and the bus accepts what stays
  requested and answers a burst it has. AXI obliges a slave to both.
* `core_lives`: weak fairness, of the pipeline, of a clock in which memory
  answers what is in E2, a running division ends and the load/store unit does
  not refuse (the division counts down in `biriscv_divider.v`; the rest is
  `memory_path`); of the frontend, of a clock in which the memory goes on with
  a burst it has or takes a new one, what may issue issues, and a trap or a
  fence.i gets a stage further. The predictor stays free.
* `memory_path`: weak fairness of a clock in which the slave takes what is
  offered and answers what is due, and the controller goes on with its bursts,
  which `dcache_errors` shows it does; in front of the bench's memory, of a
  clock in which every coin it tosses for a delay falls on none.
* `software`, for `Hello` only: clocks go on, the CPU goes on in main and in
  the handler, and takes the interrupts it may take.

The other runs state no fairness.

## 4. Proofs

Each theorem holds for every value of the constants that its module's named
assumptions admit, and for every behaviour of what is external or free in the
model: the bus, the frontend's offers, the answers of the units.

### Data cache controller

For every number of tags and lines, every line length from 2 to 256 words,
every set of requests and every bus behaviour, under `SizeAssumption`,
`DataAssumption`, `RequestAssumption`, `PowerOnAssumption`, `BusAssumption`:

* `TypeCorrect`: `Spec => []TypeOK`. `TypeOK` alone is not inductive: the
  buffer of a refill could outgrow a line and index past the memory. The
  invariant `TypeInv` adds `RefillBeats`: beats received and beats to come add
  up to a line. Each action has a step, with lemmas for the RAM operators and
  for entering an eviction or a refill.
* `OneCopy`: `Spec => []NoAlias`. Nothing forbids two equal tags by itself, so
  `TagInv` adds `Control` (which request is in hand in which state), `ClearedInv`
  (what RESET has cleared), `FreshTags` (the tags that decide are those of the
  right set), and `OtherWayFree` (while a way is replaced, the other does not
  hold the new line). `FreshTags` is the delicate one: it does not cover
  INVALIDATE, which is just the finding below, and the proof shows that an
  invalidate of the wrong set still never creates a second copy.
* `ErrorAttributed`: `Spec => []ErrorHasOwner`, from `Control`.
* `BeatsCorrect`: `Spec => []BeatsMatch`, from `BurstInv`, which adds to
  `TagInv` what is known of the set at work while it is evicted, flushed or
  written (`ControlInv`), and the skid buffer and the bus (`Beats`).

What is in the words is claimed for programs without invalidates
(`NoInvalidates`: no request is one), since an invalidate drops a line of its own
choice (finding 1), dirty or not; flushes, writebacks and bus errors are in.
The invariant `DataInv` says where each word is: in the request that writes it
(`Buffered`), in a way that holds its line and is not being refilled (`InWay`),
in memory if no way holds it dirty (`InMem`), and, of a burst, which words have
been sent or have come (`EvictData`, `RefillData`). From it:

* `NoWriteLost`, `CleanLines`, `FlushCorrect`, `WritebackCorrect`: `Coherent`,
  `CleanIsMemory`, `FlushReachesMemory`, `WritebackReachesMemory`.
* `CacheRefines`: `Spec => ImplementsCachedMemory`. Each action maps to a step
  of `CachedMemory` or to a stutter; the hard ones are the end of an eviction,
  which may not write a word that is not current, and a read's answer.

### Pipeline

For every program, set of words, registers and values, every switch
(`LoadBypass`, `MulBypass`, `ExtraDecode`, `Interrupts`, `MemFaults`), and every
answer of the units. `PCsAssumption` says what is paired: pcs come in pairs of
an even and the next odd word, as the fetch width of the code has it. The type
invariant is `PipeType`; a clock is taken apart into a few shapes (the pipes
wait, move with nothing issued, or with one or two words).

* `TrapsAlone`, `CsrMoves`, `InterruptsEnabled`: `TrapAlone`, `CsrNotHeld`,
  `InterruptEnabled`, from `OrderInv`: what may be in the second pipe
  (`InPairs`), that a trap in WB has nothing behind it, makes the squash and ends
  before the frontend hears of it (`Traps`), that a CSR operation is alone in the
  pipes with its pending flag up (`CsrAlone`), and that nothing which may
  disable interrupts is between a launch and its arrival (`Launched`).
* `NotRepeated`: `Spec => []MemoryNotRepeated`, from `RepeatInv`: what may leave E1
  with an exception is alone in its pair (`Alone`), and behind an interrupt in E1
  nothing issues but another interrupt or a CSR operation that the second one
  waits for (`LaunchedAgain`). For that the issue stage's buffer must be clean
  while the frontend has nothing to offer: an old word there would hold the second
  interrupt back and let a store go in its place. This is what `ExtraDecode` gives
  and why it is a hypothesis: without the stage the property is false (finding 2).
  The other hypothesis, `JumpsAligned`, leaves out jumps that may turn out
  misaligned: the store at a predicted target goes out before the exception does
  (`biriscv_lsu.v:312`, see the hazards).
* `RunsInOrder`: `Spec => ImplementsSequentialCore`, from `FlowInv`: each stage
  holds the instruction of its pc with the operand it has after all the older
  ones (`InOrder`), the pc of the next is where it goes (`Follows`), the CSR
  unit's and the divider's answers are for what is in E1 (`CsrOwn`, `DivOwn`).
  Nothing is claimed of what is younger than an exception in the pipes. The
  lemma `Bypass` says that the operand the issue stage picks is that of the
  register after all that are on their way.

  Two hypotheses leave out what the code gets wrong. `DivisionsEnd`: a program
  that divides is not interrupted and has no jump that may fault, because the
  divider goes on with an abandoned division (finding 3). `SatpWritesOnly`: a
  swap with satp does not ask for the old value, which it never gets
  (`biriscv_pipe_ctrl.v:406`). Programs without divisions are proved with
  interrupts, memory faults and misaligned jumps.

### Memory path

For every set of addresses, every burst length from 2 to 256 beats, every
number of evictions and every slave, under `AddrsAssumption`,
`BeatsAssumption`, `EvictionsAssumption` and `NoBeatAssumption` (the empty skid
buffer is none of the beats). One hypothesis leaves out what the code gets
wrong: `AddressFirst`, no slave takes the first data before their address, which
the slaves of the repository do not do and after which `BurstsWhole` is false
(section 5).

* `PathTyped`, `Once`, `Whole`: `Spec => []TypeOK`, `[]AccessedOnce`,
  `[]BurstsWhole`. None of them is inductive: that a burst is whole depends on
  two beat counters, an inhibit flag and the skid buffer agreeing on how far it
  is. The invariant `PathInv` follows the one access that is awaited. `LsuInv`
  says that there is at most one and that the load/store unit's queue and
  the mux's counter and owner flag agree about it. `WayInv` says where it is: in the
  queue of `dcache_if_pmem.v`; in the bridge; or in the controller, as the bursts
  still to be made. `Writing` and `Reading` give every register of the bridge as
  a function of how much of a burst has been put in, taken and answered.
  The proof has a lemma for each thing that may happen to a burst (a beat is
  put in, a channel takes its part, the slave answers), then a clock in which
  nothing, an uncached access or a cached one is awaited.
* `Stable`: `Spec => AxiStable`. While nothing is taken the head of the request
  queue stays; data left behind by their address are held in the skid buffer.
* `CalledBack`: `Spec => FaultCallsBack`, from `PathInv` and the clock of the
  load/store unit.
* `PortImplemented`: `Spec => ImplementsMemoryPort`. A clock is a stutter until the
  awaited access is carried out (`Serve`) and then until it is answered; the
  clock of an answer may ask for the next one, because the bridge is empty then.

About the bench's memory behind it (`BenchPathProofs`), for every depth of its
queues and whatever it draws for its delays. `CountsUp` says that bursts count
upwards, as those of both caches do, and that addresses are numbers.

* `KeepsContract`, `NoReadOvertakes`: `BenchSpec => []MeetsContract`,
  `[]ReadsSeeWrites`. `BenchInv` adds to `PathInv` what the memory has of the
  burst on the bus (`Bench`): of a write, the recorded address is that of the
  beat to come and the queue holds the last of those that came (`SlaveTakes`);
  of a read, the queue and the beat being given make up what is still due
  (`SlaveGives`). `ReadyInv` is what its two ready signals promise: the address
  is never refused when data are taken for none. The contract is proved first,
  so that a clock of the bench is one of `MemoryPath` and `PathInv` carries over.
* `BenchIsAPath`: `BenchSpec => Spec`, so the theorems above hold of the bench.

### Fetch path

For every number of tags and sets, every line length and queue depth, every set
of programs (flow, predicted targets, fences, traps, stores and faults) and
whatever the predictor names and the memory takes its time for, under
`ICacheAssumption`, `TextsAssumption` and `DepthAssumption`.

* `FrontTypesHold`: `FrontSpec => []FrontTypeOK`. No pc leaves the program, no RAM
  is addressed outside, no counter of a burst passes a line. It needs the RAM
  address of a pair and of a beat to be taken apart by division, for which the
  lemmas `DivUnique`, `NthOf`, `AddressOf`, `LineStart` and `BeatOf` are there.
* `IssuesItsWordHolds`, `FlushSeenHolds`: `FrontSpec => []IssuesItsWord`,
  `[]FlushSeen`, from one invariant, `FrontInv`. It follows a word on its way: the
  half that waits for its other half and the pairs of the line that have come
  (`Refilling`); a valid tag names what its line holds (`RamsHold`), but not that
  of the way under refill, which is still the old one until the last beat; a
  hit shows the pair asked for (`OutputsHold`), and so do the skid buffer and the
  queue. Of the queue this is said of the slots in use only (`QueueHolds`), for a
  flush leaves old words behind: the pointers are as far apart as entries are
  counted (`FifoInStep`), so a push writes a slot out of use (`RingKept`). With each word goes its version, at least that of the last flush
  the cache looked at (`Owes`). Three parts say why what is late does no harm.
  `WalkDropped`: a fetch that sits out a walk of the tags is dropped by a branch,
  for its first lookup after the walk shows the tags of another set, still those
  of the walk's address. `LateDropped`: what was fetched before the walk may be
  older, but waits for that branch. `ErrIsFault`: an error is that of the line
  waited for, as long as it is waited for.

### Simulator and programs

About the simulator, for every program file and its sections, every memory,
alignment and cycle limit (this and the rest in `SoftwareProofs`):

* `ClockedLoaded`: `TestBenchSpec => []RunsLoaded`. That a clock needs a loaded
  program follows from `LoadFirst`: nothing is clocked before the load, and
  the phases with clocks are entered loaded or with `sc_stop` called.
* `FileClosed`: `TestBenchSpec => []WaveClosed`. The invariant needs who is
  registered when (`Registered`), that an open file keeps its pointer until it
  is flushed and closed (`Reachable`), and that the second `exit`, of a SIGINT
  that fell into `abort()`, finds nothing left to do (`ExitTwice`).

About `Segger_pr`, for every width of the timer's low word,
every depth of the FIFO and however slow the line:

* `TimeShown`: `SeggerSpec => []MtimeWithin`. `TimeInv` says what a call knows
  after each read; the last step needs `Between`: two values with the same
  high word share it with all between them, so the low word read between them
  belongs to it.
* `TextKeptWhole`: `SeggerSpec => []TextWhole`. `TextInv` says that what the line
  has carried, the FIFO holds and is still to be written is what was printed,
  that a write follows a look at a FIFO with room, and that `printf` returns
  before the program goes on.
* `LoopCommentsTrue`: `SeggerSpec => []LoopCommentsHold`, for every number of runs, the
  million of the code among them: the values in the comments of `dhry`'s loop and in
  its report, not those in the headers of three procedures, which are wrong
  (section 5). `CommentInv` says for each label of `dhry` what is known
  there of the two records (`Linked`, `Joined`), the globals (`Marked`, `InPlace`),
  the counter in the array (`Counted`: ten and the runs so far) and the locals.
  There is a lemma for each procedure; that of `Proc_1` follows the two records
  through its assignments (`With`, `WithField`).

About `hello`, for every length of its word, every depth of the FIFO and a period
that may end in any clock:

* `WordSentOnce`: `HelloSpec => []MainWordWhole`. `EndsInWord` says what `main` has
  left: its loop is last and its index is set just before; `SentSoFar` that nothing
  is sent before the loop, that in it the index counts what was sent, and that it
  is left with the whole word. A handler may come between any two steps: it
  counts with the global `i`, and `main`'s index is its own (`HandlerSteps`).

About `hex_to_coe`, for every size of the memory, every width of a row that divides
it and however many records a file has:

* `RowsHoldFile`: `HexSpec => []CoeHoldsHex`. `HexInv` says that the buffer is the file
  as long as no record is above 64 KB, and that the rows are the buffer from its
  beginning; `RowsEndTogether`, that the last row ends with the memory.

About the loader, for every size of the address space, alignment and length of the
region table, and any sections, of any number, that do not wrap (`SpaceAssumption`,
`LineAssumption`, `FileAssumption`):

* `ImageLoaded`: `TestBenchSpec => []LoadedImage`. `LoadInv` is of every address, in
  every phase of the load: both tables are the same, no region wraps, and the first
  region that holds an address has at its cell the byte that was last sent there, or
  zero (`ImageKept`). A region that is made keeps what was found (`GrownFinds`),
  because the table is searched from its beginning, and a write reaches the cells of
  its own addresses only (`SameFirst`). The searches for a free address end because
  the last address is in no region (`LastIsFree`). What a search returns is a
  minimum; that there is one (`LeastOf`) rests on the library's well-foundedness of
  `<`.

### Only model-checked

Liveness stays with TLC, because the prover handles neither ENABLED nor fairness;
so would the value of a recursive definition for every input. No module that is
proved about uses RECURSIVE. Every invariant of a passing run has a theorem.

## 5. Findings

1. `dcache_core.v:245`: an invalidate compares tags of the previous request's
   set, so the line it names stays valid (`dcache_inval_drops`); `docs/custom.md`
   says it is marked invalid.
2. `biriscv_issue.v:724`: with the default decode, an interrupt can be launched
   so that a store behind it reaches memory, is squashed and runs again after
   the handler (`pipeline_repeat`). With the extra stage it cannot.
3. `biriscv_divider.v:182`: a division abandoned by an interrupt can answer the
   next one (`pipeline_divide`).
4. `biriscv_fetch.v:267`: a fence.i that retires while the instruction cache
   refills is lost (`fetch_fence`): its pulse lasts a clock, and the register
   that should hold it follows `icache_invalidate_o`, which is 0.
   `docs/custom.md:38` says that fence.i flushes the cache. What the cache does
   see, it flushes: `FlushSeen` holds.

Met while modelling, without a run of their own:

* `dcache_axi_axi.v:184`: a slave that takes the first data before the address
  gets an address of another queue entry, or none; with `WFirst = TRUE` TLC
  shows `BurstsWhole` violated. The slaves of the repository do not do that.
* `biriscv_pipe_ctrl.v:406`: a swap with satp never writes its destination.
* Fetch may ask twice for a branch target when the branch comes while a fetch
  is awaited; the issue stage's pc check drops the second.
* `icache.v:521`: a line with a failed beat is valid; the error is shown with
  the next answer, be it dropped, and later hits are clean.
* Benches: `m_verilate_vcd` is not initialised when waves are off
  (`testbench_vbase.h`), so `abort()` may follow a wild pointer; SIGINT between
  the opening of the wave file and `tb =` (`main.cpp:143`) leaves the file open
  (`WaveClosed` speaks of the bench `tb` knows); `tb_top` has no process that
  dumps its Verilator waves, and a delayed start never turns the trace on;
  `--cycles` counts clocks, its help says instructions; `create_memory` rounds
  the size without the offset of an unaligned base; a region that ends with the
  address space never matches; the TCM loader refuses a section that reaches
  the last byte, leaves NOBITS sections as they were, and its assertion's sum
  overflows for a section that ends at 2^32, which the model leaves out.
* `hex_to_coe.cpp` adds the high address of a type 4 record unshifted, and its
  `assert(1)` checks nothing.
* `Hello` does not look at the FIFO: what exceeds it is lost.
* Three comments that head Dhrystone's procedures are wrong: `Proc_2`'s
  (`main.c:623`) says that its parameter is 1 and becomes 4, it becomes 5, as
  the comment after the call (497) says; `Proc_3`'s (644) that its parameter
  becomes `Ptr_Glob`, it becomes `Ptr_Glob->Ptr_Comp`; `Func_1`'s (780) that the
  first call compares 'H' and 'R', the code compares 'R' and 'Y'.
  `LoopCommentsHold` leaves them out.

## 6. Not modelled, and the plan

Not modelled yet, with the reason for each in `PROJECT.json`: the MMU, the CSR
registers beyond what `Pipeline` and `Hello` use, prediction, arithmetic, TCM
and its adapters, the peripherals beyond the UART's transmitter and the timer's
period interrupt. Left out of modelled parts: the MMU's page fault and the
buffer of the extra decode stage in `Frontend`; in the benches the reset
generator, the SystemC wave file, the symbol lookup and the copies of files
(`main.cpp`, `axi4.h`, `testbench_vbase.h` of `tb_tcm` equal those of `tb_top`);
in the programs the handlers of interrupts that are never enabled (`Hello`
65-82, Segger's 87-206), the run-time library and the start-up code. Not
planned: Verilog stimulus, board files, trace helpers, output-only
peripherals. The hazards list names, for most of the planned parts, what their
modules have to settle; beyond it stand the MMU's unchecked second-level error
(`biriscv_mmu.v:250`) and its shared port (:487), starvation and depth of the
TCM's queues (`tcm_mem.v:214`, `tcm_mem_pmem.v:221`), the halves of the timer's
compare register (`mtimer.sv:66`), the UART's read-to-clear flags
(`UART.sv:206`) and the boot loader's byte counter (`BootLoader.sv:281`).

Modules to come, in order:

1. `CsrUnit`: interrupt pending bits, delegation, trap and return stacks,
   refining a sequential privilege machine.
2. `Mmu`: walk, TLBs and the shared port, composed with a page table that
   software rewrites between fences.
3. `Arithmetic`: divider and multiplier as functions over narrow words against
   quotient, remainder and product; ALU shifts and comparisons.
4. `DportPath` and `Tcm`: the adapter that drops maintenance, bursts, starvation.
5. `BootLoad` and `Peripherals`: byte writer, AXI-lite slave, compare register,
   read-to-clear flags.
6. `NextPc`: real against speculative history and return stack.

Small independent components will share a run, one of them moving at a time.

## 7. Running

    tlc -config DCacheCore.cfg MCDCacheCore
    tlc -config PipelineData.cfg MCPipeline
    tlc -config MemoryPath.cfg MCMemoryPath
    tlc -config CoreLives.cfg MCCore
    tlc -config Software.cfg MCSoftware
    tlapm DCacheCoreProofs.tla
    tlapm DCacheDataProofs.tla
    tlapm PipelineProofs.tla
    tlapm PipelineRefinementProofs.tla
    tlapm MemoryPathProofs.tla
    tlapm BenchPathProofs.tla
    tlapm FrontendProofs.tla
    tlapm SoftwareProofs.tla
