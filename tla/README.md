# CHERI-TrEE in TLA+

CHERI-TrEE adds enclaves to a capability machine.  Software gives a code section
to `EInitCode` and a data section to `EInitData`; the machine checks that nobody
else can reach either, measures the code, and keeps the measurement in a small
trusted table under an *enclave id*.  From then on the id's four object types
belong to the enclave: one (`id·4+2`) seals its two sections together, two
(`id·4`, `id·4+1`) are its signing and encryption seals.  `EStoreId` tells
anybody which code stands behind a seal.

The repository holds the design three times: as an ISA specification in Sail
(`src/sail`), as hardware in the Proteus core (`src/proteus`, SpinalHDL) and as
hypervisor code for the Morello board (`src/morello`, C at exception level 2).
This directory models each as a state machine, states what all of them
promise as an abstract specification, checks the models with TLC and proves
invariants of the Sail model with TLAPS.  It also models what the enclaves stand
on and what runs in them: the pipelines and buses of the Proteus core, the
tagged memory, the trusted trap handler and the attestation software.

Contents: [inventory](#1-inventory), [modules](#2-modules),
[runs](#3-runs), [proofs](#4-proofs), [findings](#5-findings),
[limits](#6-what-is-not-modelled), [plan](#7-plan).

## 1. Inventory

| Component | State | Operations | Source |
|---|---|---|---|
| Sail enclave table | `ETable` (128 slots), `EidCounter` | `getId`, `findFreeIdx`, `addTempMapping`, `makeMappingPerm`, `removeMapping`, `gen_eid` | `cheri_enclave.sail`, `cheri_insts.sail` |
| Sail enclave instructions | registers, special registers, tagged memory | `EInitCode`, `EInitData`, `EStoreId`, `IsUnique`, `EDeinit` | `cheri_insts.sail` 2161–2670 |
| Sail capability instructions | the same | move, narrow, seal, unseal, load, store, special registers, `CInvoke`, traps | `cheri_insts.sail`, `cheri_sys_exceptions.sail` |
| Proteus identity store | 32 entries, search index, id counter | `initEntry`, `getUnfinishedEntry`, `finishEntry`, `getHash`, one entry per clock cycle | `IdentityStore.scala`, `EnclaveIdManager.scala`, `EnclaveId.scala` |
| Proteus enclave instructions | five nested state machines in the memory stage | `initFsm`, `initDataFsm` with `uniquenessFsm` and `hashFsm`, `storeIdFsm` | `EnclaveInit.scala` |
| Proteus memory tagger | tag memory, word counter, words read so far, scan index | data accesses, capability loads and stores, tag scan | `MemoryTagger.scala` |
| Proteus data bus controller | one buffered command | `read`, `write`, with commands and responses in any cycle | `MemBus.scala` (`MemBusControl`) |
| Proteus instruction bus, fetch | queues of commands and responses, commands to ignore | prefetch, restart, delivery | `MemBus.scala` (`IBusControl`), `Fetcher.scala` |
| Proteus static pipeline | five stages, the last write, CSRs | scheduling, forwarding, flushing, traps, interrupts | `scheduling/static`, `TrapHandler.scala`, `CsrFile.scala` |
| Proteus dynamic pipeline | reorder buffer, reservation stations, bus arbiter | dispatch, execution, broadcast, retirement, jumps | `scheduling/dynamic` |
| Proteus execution units | multiplier step | arithmetic, multiplication, branches, loads and stores, CSR swaps | `IntAlu`, `MulDiv`, `BranchUnit`, `Lsu`, `CsrFile` |
| Proteus attestation software | enclaves' sections and stacks, main's structs | loading, attestation, calls and returns between enclaves | `proteuscode/capattest` |
| Trusted trap handler | trap data of each section | trap, untrusted handler, return | `trusted_traps.S`, `trusted_init.c` |
| Morello enclave software | enclaves' stacks | the same calls and returns with another stack discipline | `EL1Code/enclavecode` |
| Morello EL2 trusted base | `identityStore`, `IDCounter` | `EINIT_CODE`, `EINIT_DATA`, `ESTORE_ID` with their sweeps and hash | `EL2Code/instructions` |
| Morello EL2 exception handling | saved EL1 registers | vector, dispatch by exception and HVC number, return | `exceptionHandlerFuncsEL2N.c`, `vectorTableEL2N.S` |
| Morello EL1 set-up, boot | page tables, vectors | boot, printing | `EL1Code`, `bootup` |
| Third-party code | | SHA-256, SpinalCrypto, sail-riscv, riscv-formal, riscv-tests | |

**How they interact.**  In the Sail model every instruction is atomic and all
state is global; what makes it hard is that *software* runs in between, and can
copy, split, store, reload and seal capabilities in any order.  In the Proteus
core one instruction is many cycles of several state machines.  The memory stage
drives the store and the scan by lines that it raises in a cycle, and the answers
are pulses; the store keeps searching when the line falls, and an answer goes to
whoever listens in that cycle.  Writeback happens a cycle after the memory stage,
and an interrupt can come between the two.  On Morello the instructions are
hypervisor calls: the vector saves the registers of EL1, the handler works on
that copy and on the memory of EL1, and a fault inside the handler ends in a
vector that branches to itself.

Underneath, the Proteus stages talk over wires within a cycle: an instruction in
writeback, a hazard in the memory stage or a multiplier that is not ready decides
in the same cycle what every earlier stage does.  The memory stage's commands go
through one bus controller to the tagger and through another to memory, each
remembering a command that the stage may have given up since.  The fetch stage
runs behind a controller that is always some commands ahead of it.  In software,
an enclave's registers go to the untrusted handler and back through its own data
section, and enclaves call each other with return capabilities kept on stacks
that survive between invocations.

**What makes each part correct.**

* Table: ids are never reused, a slot is found if there is one, and a walk that
  stops at the first hit finds the only one.
* `EInitData`: after success the only capabilities to the two sections are the
  sealed ones, wherever programs put copies before; the identity is that of the
  code that will run; the keys are where only the enclave will find them.
* Identity store: each instruction gets its own answer, and every answer is about
  the entry that was asked for.
* Hypervisor calls: what a call leaves in the two registers that its sweep does
  not look at, and what remains of a call that fails half-way, keeps the promises.
* State machines: the sweep looks at every register and every tagged granule; an
  entry, its hash and its seals go together although they are written in different
  cycles; every instruction ends; a result is not lost.
* Pipelines: registers, CSRs and memory change as if one instruction ran after
  the other; a trap leaves nothing of its instruction behind; nobody waits for
  ever.
* Buses: a command that was given up harms no later one; every access is answered;
  a capability is read and written whole, with its tag.
* Software: a result that main accepts is a reading of a sensor whose identity was
  checked; code that was interrupted goes on as it was; every invocation returns.

The hazards behind these properties, with the lines at which they bite, are
listed in `PROJECT.json` under `hazards`.

## 2. Modules

| Module | What it is | Extends |
|---|---|---|
| `EnclaveTCB` | the abstract trusted base: the life of an id and its identity | |
| `SailTable` | `ETable` and `EidCounter` as operators | |
| `SailEnclave` | the Sail machine: enclave instructions and programs | `SailTable` |
| `SailProofs` | theorems about `SailEnclave`: types, table, implementation of `EnclaveTCB`, isolation, measurement | `SailEnclave`, `TLAPS`, `FiniteSetTheorems` |
| `ProteusStore` | the identity store, one cycle as a function | |
| `ProteusScan` | the tag scan, one cycle as a function | |
| `ProteusEnclave` | the state machines that drive both | the two above |
| `ProteusProofs` | theorems about `ProteusEnclave`: store, measurement, refinement, sweep, lost answers, left-over searches | `ProteusEnclave`, `TLAPS`, `FiniteSetTheorems` |
| `MorelloTCB` | `identityStore` and `IDCounter` as operators | |
| `MorelloEL2` | the hypervisor calls and EL1 software | `MorelloTCB` |
| `MorelloProofs` | theorems about `MorelloEL2` | `MorelloEL2`, `TLAPS`, `FiniteSetTheorems` |
| `RiscvISA` | the instructions the pipelines are checked with, one at a time | |
| `MemBusControl` | the data bus controller, one cycle as a function | |
| `StaticPipeline` | the in-order pipeline | the two above |
| `StaticPipelineProofs` | theorems about `StaticPipeline` | `StaticPipeline`, `TLAPS` |
| `DynamicPipeline` | the out-of-order pipeline | `RiscvISA` |
| `DynamicPipelineProofs` | theorems about `DynamicPipeline` | `DynamicPipeline`, `TLAPS` |
| `InstructionBus` | fetch stage and prefetching bus controller | |
| `InstructionBusProofs` | theorems about `InstructionBus` | `InstructionBus`, `TLAPS`, `SequenceTheorems` |
| `TaggedWords` | addresses, granules and accesses of the tagged memory | |
| `AtomicTaggedMemory` | the abstract tagged memory: one access at a time | `TaggedWords` |
| `TaggedMemory` | tagger and its two bus controllers | `TaggedWords`, `MemBusControl` |
| `TaggedMemoryProofs` | theorems about `TaggedMemory` | `TaggedMemory`, `TLAPS` |
| `EnclaveTraps` | the trusted trap handler | |
| `LocalAttestation` | main, user and sensor enclaves, on Proteus and on Morello | `EnclaveTraps` |
| `LocalAttestationProofs` | theorems about `LocalAttestation` | `LocalAttestation`, `TLAPS` |
| `MC...` | constants for TLC, one per model | |

### EnclaveTCB

`status[e]` goes `unused → temp → perm → gone` and never back; `identity[e]` is
set by the step to `perm` and by no other.  `Capacity` bounds the live ids.  The
three detailed modules are mapped to it by a refinement mapping (`TCB == INSTANCE
EnclaveTCB WITH ...`) and checked against it (`RefinesTCB`).  The property is
stated as `[][tcb' # tcb => TCB!Next]_vars`: whenever the concrete registers of
the trusted base change, the abstract one takes a step.  That is stronger than
`[][TCB!Next]_TCB!vars`, because a change of the registers may not be a stutter.  In `MorelloEL2` it may:
an entry taken after the ids have run out has no counterpart in `EnclaveTCB`.

### SailTable, SailEnclave

The Sail functions walk the table by recursion on the index and stop at the
first entry with the id; `Hit` names that entry.  A Sail `option` is a set of at
most one element.  An instruction is one action with two disjuncts: it succeeds,
or it raises an exception.  The exception is not abstracted away: it moves `PCC`
to `MEPCC` and enters the handler, and so changes what the next sweep sees.

*Memory* is a row of granules, each holding a data word or a tagged capability.
A capability has bounds in granules, permissions and an otype.  Its *address* is
not kept; where an instruction uses the address of an operand, any address is
tried (`StoreKey`, `EStoreId`, loads and stores).  Untagged register contents are
one value, `Null`: every instruction that is modelled rejects them first.

*Programs* are the other capability instructions, in any order, with any
operands: `CMove`, `CClearTag`, `CSetBounds`, `CAndPerm`, `CSealEntry`, `CSeal`,
`CUnseal`, loads and stores through registers and `DDC`, `CSpecialRW`, `CInvoke`,
traps and `MRET`.  Only their successful executions are actions; a refused one
does what `Trap` does.

*The start* is the state after boot code has given up the reset capabilities.
The machine resets with full authority in `PCC`, `DDC` and friends, including
sealing authority over every otype; no promise can hold while that is around, and
the source says so by leaving it to software.  So `BootCaps` gives the registers
what they hold over the arena, and `OsCap`, outside the arena, is where the
handler runs.

`enclave` is a history variable: what each successful `EInitData` claimed and
whether the enclave was entered.  No action reads it.

### ProteusStore, ProteusScan, ProteusEnclave

`StoreCycle(s, req)` maps the store's registers and the request on its port to
the next registers and the answer of the cycle.  `ScanNext` and `ScanItem` do
the same for the tag scan.  An action of `ProteusEnclave` is one clock cycle of
the whole: it says what the state machine in the memory stage does, and `Clock`
moves the store and the scan in the same cycle.  Each state of a state machine
is an action with the source's name: `CheckCs1Valid`, `CheckRegs`, `GetAddress`,
`HashWord`, `StoreHash` and so on; `pc` says which one is active and `cur` holds
its counter (`currentReg`, `currentAddress`, `hashIdx`).

`wb` is the result in writeback.  In the next cycle it reaches the register file
(`Retire`), or an interrupt drops it (`Interrupt`) and execution resumes at the
instruction, which software may then run again.  `issued`, `sealed` and `keys`
are what software has come to hold; the operands of later instructions are
chosen from them (`Operand1`), so the model offers the hardware no capability
that the hardware could not have produced.

`view` stands for the rest of the machine during a sweep: one more capability at
some place, with a tag and bounds, and the set of tagged granules.  One such
capability is enough to ask whether the sweep finds it, because the sweep looks
at one place at a time and stops at the first overlap.

`Wait` is a cycle in which a bus or the hash core is not ready.

### MorelloTCB, MorelloEL2

`MorelloTCB` has the C functions on the store as operators; the searches run from
entry 0 and stop at the first match (`First`).  In `MorelloEL2` a hypervisor call
is one action, because EL1 stands still and EL2 takes no interrupts: the case of
`syncHandlerEL2N`, the whole call, and what the vector puts back (`Return`: the
result in `c0`, the old `c0` in `c1`, the old `c1` gone).  `Hang` is a fault in
EL2; `hung` never ends (`Spin`).

EL2 checks few of its operands, so the model has to say what happens to bad ones.
An untagged operand is read for its bits only (`Bits`, bounded by `Untagged`).
The address of a capability and whether its length is *ragged* (no whole number
of granules or words) are chosen at the call.  `Readable` says when a load through
the unsealed code works, `SweepLoads` and `Loads` whether `codeCap_sweep` and
`generateHash` load at all: code shorter than a granule is not searched and a
ragged length is not hashed, and then the call goes through with a hash that
nobody has written (`generateHash` is any element of `Hash`).

*EL1 software* moves, narrows, loads, stores and branches; these instructions are
Morello's and not in the repository.  `enclave` is a history variable as in
`SailEnclave`.

### RiscvISA, StaticPipeline, DynamicPipeline

A `Cycle` is one clock cycle.  Wires are functions of the registers and of the
lines from outside; registers are variables and change together.  A fetch
returns *any* instruction of the configuration's `program`, so a run covers every
instruction sequence over that set.  `RiscvISA` has one instruction of each kind
that the scheduling code tells apart, and `Execute`, what it does when
instructions run one at a time; the properties compare the pipelines with it.

`StaticPipeline`: `pipe[s]` is `isValidReg` of a stage and the pipeline registers
before it; `isValid`, `isReady`, `hazard`, `isStalled` and `isDone` are the lines
of `Stage.scala`, computed from WB backwards.  `forward` is `resolveHazard`,
`Held` is what a waiting stage keeps.  The bus and the multiplier answer in a
cycle of their choice (`Lines`, `BusAllows`, `MulAllows`).  `archPc` is a history
variable: the address of the instruction that should retire next.
`lastWrittenRd` and the register file have no reset value
(`DataHazardResolver.scala:64`), so `Init` is a moment after boot code has written
them.

`DynamicPipeline`: `rob` is the ring of `ReorderBuffer.scala`, `rs` the registers
of the stations, `maskLocked` the round-robin arbiter of the common data bus.
`order` is a history variable: the instructions in the buffer.  The build of the
repository has no trap handler and no load-store unit in this pipeline, so there
are no traps or loads here; an encoding no unit decodes would stall dispatch for
ever (`dynamic/Scheduler.scala:57`) and is in no program.

### InstructionBus

`Bus` is a cycle of `IBusControl`, `Read` and `Idle` a cycle of the fetch stage
that runs or does not.  An address is a word number and stands for the instruction
there.  The memory takes commands and answers them in order, when it likes; the
head of an empty `cmdFifo` is any address, as in the hardware.  `settled` is a
prophecy of the environment: from then on nothing stalls or jumps.

### MemBusControl, TaggedMemory, AtomicTaggedMemory

`CmdNext` is `currentCmd` after a cycle; `readValid` and `accepted` are what the
client is told.  `StaticPipeline` and `TaggedMemory` use the same definitions, the
latter twice: in the memory stage, and behind the tagger.  `Cycle` of
`TaggedMemory` is a cycle of all three.  `AtomicTaggedMemory` says what the memory
stage may rely on: accesses one at a time, a capability stored whole and with its
tag.  In the refinement mapping a capability store takes effect with its first
word (`performed`): `words` and `tags` are what they will be when the words under
way have been written.  That is sound because the memory stage is the only client
and does not drop a capability store.

### EnclaveTraps, LocalAttestation

The registers of the running code are one record `regs`: where it is (`at`), the
section in `c31`, and what it keeps in the other registers across a step.
`TrustedTrap` and `TrapReturn` are `_trusted_trap_handler` and
`_trusted_trap_return`; between them the untrusted handler may invoke enclaves.
`want` is a history variable: the registers at the trap.  A step of
`LocalAttestation` is a stretch of assembly between two points at which traps
can tell a difference: `EnclaveEntry`, `EnclaveInvoke`, `SetSensorEnclave`, `Read`
and so on have the source's labels.  `memory.port` says whose software runs: the
Morello port pushes and pops in another order and stores `csp` once at the end.
`readings` is a history variable.

A `struct enclave` is a record of whose seals it holds; its code and data
capabilities are taken to be those of the enclave of its encryption seal.
`set_sensor_enclave` does not compare `code_cap` with the seals, so a struct put
together differently is outside this model.

## 3. Runs

Sail, all small enough to exhaust:

| Run | Instance | Shows |
|---|---|---|
| `SailIsolation` | 2 registers, 3 granules, 2 table entries, 1 id, data memory | `TypeOK`, `TableOK`, `Exclusive`, `OneCodeSection`, `IsUniqueSound` |
| `SailLifecycle` | 2 registers, 2 granules, 1 entry, 2 ids, executable memory, 2 words | `Measured`, `KeyConfined`, `RefinesTCB` |
| `SailSpecial` | 1 id, with `DDC` open to programs | `Exclusive` |

*Why the bounds are enough to matter.*  Three granules allow a code section, a
data section and a place to hide a copy outside both; two registers are what
`EInitData` takes, so a third copy has to go through memory, which is the case
the memory sweep is for.  `SailLifecycle` has more ids than entries, so slots are
reused and ids run out, and `OtypeWidth` and `Reserved` are chosen so that the
next id would run into the reserved otypes.  `SailSpecial` adds the one place
that is neither register nor memory.  `Asked` and `MinLength` bound the operands
only.

Proteus, cycle by cycle:

| Run | Instance | Shows |
|---|---|---|
| `ProteusStore` | 3 entries, 4 ids, 2 sections, interrupts, stale operands | `StoreConsistent` (`TypeOK`, `EntriesOK`, `SealsFollowHash`), `Measured`, `EStoreIdRight` (`AttestsAsked`, `IdInBounds`), `RefinesTCB` |
| `ProteusProgress` | 2 entries, 3 ids, no interrupts, 4 registers, 2 special registers, 3 granules, every place and six bounds | `SweepSound`, `NothingLost`, `EInitCodeFailsWhenFull`, `Terminates` |
| `ProteusScanSkips` | neighbouring tagged granules | `SweepSound` violated, see section 5 |

*Why these bounds.*  Three entries (`ProteusStore`) have a first, an inner and a last one; one id
more than entries makes both kinds of "full" reachable.  The sections have one
and two words, so the hash loop runs once and more than once.  The bounds of the
hidden capability touch each section from each side, share exactly one byte with
it, or miss it by one.  The passing runs stay away from the operands for which
the disagreements of section 5 happen, and the `.cfg` says so by its constants:
`ProteusProgress` uses `SparseViews`, has `Interrupts = FALSE` and asks
`EStoreId` about otypes an id can have; lengths are multiples of four (with any
other `hashFsm` never meets `top`, and `Terminates` fails).  `ProteusStore` on the other hand keeps
interrupts and abandoned searches: its safety properties hold in spite of them.

Morello:

| Run | Instance | Shows |
|---|---|---|
| `MorelloCalls` | 3 registers, 2 granules, 2 entries, 1 id, software writes the PCC | `StoreInOrder` (with `TypeOK`), `Exclusive`, `Measured`, `KeyConfined`, `RefinesTCB` |

*Why these bounds.*  `c0` and `c1` are the operands, `c2` is the register the sweep
looks at; memory and the PCC (`CELR_EL2` during the call) are the other places for
a copy.  More entries than ids makes the end of the ids reachable, as in the
repository's benchmark builds.  Each granule can be code or data or both, so the
sections can coincide; `Measured` excludes that case and ragged code by its
premise, since section 5 is about the one and `generateHash` gives up on the
other.

Pipelines, buses and software:

| Run | Instance | Shows |
|---|---|---|
| `StaticOrder` | 3 registers, 2 values, 3 program counters, 4 programs, multiplier up to 2 cycles, bus up to 1 extra | `PipeInOrder` (with `TypeOK`), `StallsEnd`, `OperandsForwarded`, `StoresInOrder`, `TrapsPrecise` |
| `DynamicOrder` | 3 registers, buffer of 3 entries (2 with jumps), multiplier up to 2 cycles | `RobConsistent` (with `TypeOK`), `RetiresInOrder`, `Progress` |
| `Fetching` | 6 words, latency 2, queue of 2, 3 commands in flight | `PrefetchInOrder` (with `TypeOK`), `FetchesRight`, `Fetches` |
| `TagsAtomic` | capabilities of 3 words, 3 granules of which 2 have tags | `RefinesAtomic`, `Answered` |
| `Attestation` | 3 enclaves (a user, a sensor, one the handler calls), both ports, 2 traps, 2 uses | `AttestedSensor`, `ResultIsReading`, `StackInSection` (with `TypeOK`), `ResumesAsInterrupted`, `InvocationsReturn` |

*Why these bounds.*  Two writable registers give a producer and a consumer that
differ, two values tell a fresh from a stale operand, and five stages are all
occupied within any program since it is chosen as it runs.  The four programs of
`StaticOrder` put together what interacts (arithmetic with branches, loads with
stores, CSR swaps, traps with interrupts); together they would be too many states.
Three buffer entries wrap around and have an entry that is neither oldest nor
newest.  In `Fetching` the memory holds as many commands as `cmdFifo` has places
(`ibusLatency + 1`), and six words are enough that an old stream cannot pass for
a new one.  Three words of a capability have a first, an inner and a last one; the
granule without a tag is the one beyond the memory that has them.  `MaxTraps = 2`
is the first number at which a handler's enclave is itself interrupted.

*Fairness.*  It is stated where liveness is.

* `ProteusEnclave`, `WF_vars(Busy)`: the clock runs, and a bus access or hash
  round ends at some time.  `Wait` may be taken any number of times but not
  forever.  No fairness on issuing instructions or on interrupts.
* `DynamicPipeline`, `WF_vars(Next)`: the clock runs.  `MulSteps` bounds the
  multiplier, as the counter of `MulDiv.scala` does.
* `InstructionBus`, `WF_vars(Next)`: the clock runs.  `Fetches` is about the time
  from `settled` on, when the memory takes a command in every cycle and answers
  `ibusLatency` cycles later, which is what the parameter says of it.
* `TaggedMemory`, `WF_vars(Cycle(Ready, Responds))`: the memory takes the command
  it is offered and answers it at some time.
* `LocalAttestation`, weak fairness of code that runs, and strong fairness of
  `Return`: a handler may invoke enclaves, but returns to what it interrupted in the
  end.  None on `Trap`, nor on what `main` does next.

`StaticPipeline` needs none: `StallsEnd` says of every state that the oldest
instruction moves as soon as the memory and the multiplier let it.  The Sail and
Morello specifications state safety only.

*Deadlock* is checked in every run but `Attestation`, where `main` has nothing
left to do after `MaxUses` uses and `MaxTraps` traps; that it gets there is
`InvocationsReturn`.

*Mutants.*  Each property of a passing run has a mutated operator in the module
(marked `Mutant:`) that changes one definition as a slip in the code would, and
that makes TLC find the property violated.

## 4. Proofs

Eight modules hold theorems that TLAPS checks for every value of the constants
that satisfies the named assumptions: every number of registers, granules,
entries, ids and otypes, every capability length, every set of enclaves, words
and boot capabilities, any number of traps.  Each safety property follows the same
scheme: an inductive invariant, checked by TLC first, one lemma per action that
the action keeps it, and one lemma that it implies the property.

### Sail

| Theorem | Statement |
|---|---|
| `SailProofs!TypeCorrect` | `Spec => []TypeOK` |
| `SailProofs!TableCorrect` | `Spec => []TableOK`: no two entries share an id; every id was issued by `gen_eid`; none of its otypes is reserved |
| `SailProofs!ExclusiveCorrect` | `Spec => []Exclusive` |
| `SailProofs!KeyConfinedCorrect` | `Spec => []KeyConfined` |
| `SailProofs!OneCodeSectionCorrect` | `Spec => []OneCodeSection` |
| `SailProofs!MeasuredCorrect` | `Spec => []Measured` |
| `SailProofs!IsUniqueCorrect` | `Spec => []IsUniqueSound` |
| `SailProofs!SailRefinesTCB` | `Spec => RefinesTCB` |
| `SailProofs!SailImplementsTCB` | `Spec => TCB!Spec` |

*Types.*  `TypeOK` is not inductive: a trap loads `PCC` from `MTCC`, so the
invariant is `Inv == TypeOK /\ scr.MTCC = OsCap`.  Two steps are not bookkeeping.
`EInitData` puts `make_hash` into the table, and that is a string of *words* only
if the code section holds no capability: `HashType` gets this from the sweep
(`sweep_mem2`), and the section is inside the arena because `OsCap` in `MTCC` is
one of the registers that the sweep compares it with.  And the seals of an id are
otypes only because `gen_eid` stops below the reserved ones (`GenEidFacts`).

*The table.*  `TableInv(table, counter)` says what `TableOK` says of any table and
counter.  `AddTempInv`: the id of `gen_eid` is the counter, every id in the table
is below it, so no entry has it.  `RemoveInv` and `MakePermInv`: the other two
functions add no id.  `ProgramsKeepTCB`: nothing else writes the table.

*Isolation.*  `IsoInv` adds to the above five conjuncts that need each other.

* `Isolated` is `Exclusive` and `KeyConfined` seen from one holder of capabilities
  at a time, so that an action that writes one register disturbs one instance.
* `ClaimedIssued`: an enclave with sections has an id below the counter whose
  entry is not temporary.  Without it a new `EInitData` could claim sections for
  an enclave that has some.
* `Minted`: a key covers the four otypes of one id, and a seal belongs to an id
  already issued.  Without it a seal for the id that `gen_eid` will give out next
  could lie ready, and `OneCodeSection` would fail at the next `EInitCode`.
* `OneCodeSection` makes the capability that `EInitData` measures the one that it
  grants; `Measured` is kept because nobody reaches the section (`Isolated`).

The programs' instructions are dealt with by one idea, `Derivable`: whatever a
program can compute from what it holds respects every enclave, carries a seal
that was made before, and is no second capability with the seal of a temporary
entry.  One lemma per instruction shows its result derivable; one lemma shows
that writing a derivable value keeps `IsoInv`.  `EInitData` is the other half:
what passed the sweep is isolated at that moment.

*Refinement.*  Each of `EInitCode`, `EInitData` and the removal of an entry is
`Create`, `Attest` or `Remove` of `EnclaveTCB`.  The bound on live ids is a pigeon-hole
argument (`RoomLeft`): live ids are mapped one to one into the slots other than
the free one.

### Morello

| Theorem | Statement |
|---|---|
| `MorelloProofs!StoreInOrderCorrect` | `Spec => []StoreInOrder` |
| `MorelloProofs!ExclusiveCorrect` | `Spec => []Exclusive` |
| `MorelloProofs!KeyConfinedCorrect` | `Spec => []KeyConfined` |
| `MorelloProofs!MeasuredCorrect` | `Spec => []Measured` |
| `MorelloProofs!MorelloRefinesTCB` | `Spec => RefinesTCB` |

`MInv` has the store filled to some `k` with ids counted up to `k` or to the last
one there is (`StoreOK`); every tagged value one that the calls can have made,
keys only of ready entries (`Known`); `Isolated` as above; and sections only for
ready entries (`ClaimedReady`).  `StoreOK` is what makes the search for an
unfinished entry by otype find the entry of that id and no other.

### Proteus

| Theorem | Statement |
|---|---|
| `ProteusProofs!StoreConsistentCorrect` | `Spec => []StoreConsistent` |
| `ProteusProofs!MeasuredCorrect` | `Spec => []Measured` |
| `ProteusProofs!EStoreIdCorrect` | `Spec => []EStoreIdRight`, if no buffer's address is past its top |
| `ProteusProofs!ProteusRefinesTCB` | `Spec => RefinesTCB` |
| `ProteusProofs!NothingLostCorrect` | `Spec => []NothingLost`, if `Interrupts = FALSE` |
| `ProteusProofs!FailsWhenFullCorrect` | `Spec => EInitCodeFailsWhenFull`, if refused operands carry no id |
| `ProteusProofs!SweepSoundCorrect` | `Spec => []SweepSound`, if no two neighbouring granules are tagged |

Here an instruction takes many cycles and store, tag scan and memory stage move
together, so the invariant `PInv` relates three state machines.

* `Filled`: the entries in use are the first `nextId` ones and entry `i` has id `i`;
  a search for a free entry has passed used ones only.
* `Searching`: in which states of the memory stage each search of the store can
  be seen.  A search for an unfinished entry may outlive the instruction that
  asked for it and be answered to another; the invariant allows that and
  shows that the store stays consistent all the same.
* `Staged`, `Presented`, `Working`: which instruction is in which state, that its
  sealed operand came from an `EInitCode` or carries a seal of a ready enclave, and
  that the entry `EInitData` has found is still used and unfinished.
* `Sealed`: ready entries have their seals, but for the one `STORE_SEAL` comes to.

Four of these theorems are conditional.  Section 5 lists for each condition a run
in which it does not hold and the property is violated, and the runs that check
the properties satisfy it.  For `SweepSound` the invariant `Swept` says how far
registers and memory have been looked at; its conjunct `InStep` is the point of
the proof: during `GET_CAP` the scan is already past the granule that follows,
and `SparseTags` says that nothing was missed there.  For `FailsWhenFull` it is
`NoStaleSearch`: no search outlives the `EInitData` that asked for it.

### The instruction bus of Proteus

| Theorem | Statement |
|---|---|
| `InstructionBusProofs!PrefetchInOrderCorrect` | `Spec => []PrefetchInOrder`, if `MaxInFlight <= depth` |
| `InstructionBusProofs!FetchesRightCorrect` | `Spec => FetchesRight`, if `MaxInFlight <= depth` |

`BInv` has three parts: the types; `Labelled`, the memory works on exactly what
`cmdFifo` holds, so every response gets its own address; and `StreamOf`, which joins
the commands behind the ones to be ignored with the command register, the last of
them or, while it waits for the bus, the next.  A restart is the hard step: the
number to ignore is counted in a cycle in which one command may be answered and
another taken, and `FlushFits` shows that the counter is wide enough for it.  The
condition says that the memory keeps to the latency the bus was built for.  With
`MaxInFlight = depth + 1` TLC finds `PrefetchInOrder` violated: the push into the
full `cmdFifo` is lost.

### The tagged memory of Proteus

| Theorem | Statement |
|---|---|
| `TaggedMemoryProofs!TaggedMemoryInvariant` | `Spec => []TInv` |
| `TaggedMemoryProofs!TaggedMemoryRefinesAtomic` | `Spec => RefinesAtomic` |

Both are unconditional.  `TInv` says what the controllers may hold: the one in
front of the tagger (`StageCtrl`) nothing, the write of the store that is under
way, or a read, perhaps of a load that was dropped; the one behind it
(`TaggerCtrl`) nothing, or the command that the tagger still asks for, waiting or
sent, and the external memory works on that and nothing else.  `Owned` is the
conjunct that makes dropping harmless: a data request that the first controller
has not buffered has not reached the second one either.  `WordByWord` says of a
capability under way that as many of its words as the counter tells are those
stored, or those read.  A step then is a stutter but for four: the last word of a
data store with the tag it clears, of a data load, of a capability load and of a
capability store with the tag it sets; these are steps of `AtomicTaggedMemory`.
The arithmetic of words and granules (`WordOfGranule`, `GranuleOfWord`) is proved
from the assumption that a capability has at least two words.

### The in-order pipeline of Proteus

| Theorem | Statement |
|---|---|
| `StaticPipelineProofs!InOrderPipeline` | `Spec => []PipeInOrder` |
| `StaticPipelineProofs!OperandsAreRight` | `Spec => OperandsForwarded` |
| `StaticPipelineProofs!StallsAlwaysEnd` | `Spec => []StallsEnd` |
| `StaticPipelineProofs!StoresAreInOrder` | `Spec => StoresInOrder`, if `NoSwapBeforeStore` |
| `StaticPipelineProofs!TrapsArePrecise` | `Spec => TrapsPrecise`, if `NothingToRepeat` |

They hold for every number of registers, values and addresses, every program, and
every latency of the multiplier and of the memory.  `SInv` says what each stage
knows:

* `OperandsWB`, `OperandsMEM`, `OperandsEX`: the value a stage holds of a register
  may be stale while a later stage writes that register.  It has to be right only
  when none does any more; and then it is right, or `lastWrittenRd` has the register
  (`Kept`).  This is why the code needs `lastWrittenRd`: the writer can leave WB while
  the reader is held.  `LastOK` says that `lastWrittenRd` agrees with the register
  file.
* `ResultsMEM`, `ResultsWB`: what an instruction has computed is what `Execute` gives
  on the registers as the instructions before it will leave them (`Seen1`, `Seen2`),
  whose values were known when it left EX (`Known1`).
* `PathOK`: each stage holds the instruction after that of the next stage on the
  program's path, and `pc` is the one after ID.  Behind an instruction that is bound
  to jump in WB (`Stops`) it may be anywhere, since the jump will flush it.
* `TrapsOK`: an instruction has its trap recorded from the stage on that detects it.
* `BusOK`: a request waits on the bus only for the load or store in MEM, and with WB
  empty.  So nothing can flush the instruction a request belongs to.
* `StoresOK`, for stores: the request carries the value that the register has.

A cycle moves the pipeline in one of four ways, and each has its lemmas: a jump in
WB empties the stages before it; MEM waits, and with it EX and ID; EX waits; or all
move.  `StallsEnd` takes the lines with which memory and multiplier answer at
once and shows that the oldest stage is done under them.

*Conditions.*  `NoSwapBeforeStore`: no program has both CSR swaps and stores.
`NothingToRepeat`: a program that is interrupted has neither.  `SwapThenStore` and
`SwapInterrupted` (section 5) each break one and violate the property.  Every
configuration of `StaticOrder` satisfies both.  The other three theorems have no
condition.

### The out-of-order pipeline of Proteus

| Theorem | Statement |
|---|---|
| `DynamicPipelineProofs!ReorderBufferConsistent` | `Spec => []RobConsistent`, if `NoneLeftWaiting` and `NamesWhatItWrites` |
| `DynamicPipelineProofs!RetirementInOrder` | `Spec => RetiresInOrder`, if `NoneLeftWaiting` and `NamesWhatItWrites` |

`DInv` compares the ring of entries with `order`, the instructions dispatched and
not retired yet; place `n` of `order` is entry `oldestIndex + n` modulo the capacity.

* `Counted`: `newestIndex` and `isFull` together tell how many instructions there
  are.  Neither does so alone: the two indices are equal in an empty and in a full
  buffer.
* `BufferOK`: each entry has the destination of its instruction (`InOrder`); an
  entry that is ready has the result the instruction gives on the operands it
  should see (`Results`); and of the instructions that name a register one is the
  last (`Freshest`), which the lookup then finds.  That a last one exists is an
  induction over the length of the buffer; as a conjunct it is kept step by step
  and needs none.
* `StationsOK`: a station that is not idle works on one place, an entry that is not
  ready has one station, and its operands are right (`Sourced`) or name the entry
  that will have them (`Awaits`).  "Right" is relative to a place: the value of the
  last instruction before it that names the register, or of the register file if
  there is none.
* `Served`: a station that waits for the bus is not the one served last, so it is
  served before that one asks again.

A cycle does everything at once.  The proof takes it as three changes of a record
of the buffer, each of which keeps `BufferOK` and `StationsOK`: the message on the
bus marks an entry ready and supplies those who await it (`Marks`), the oldest entry
goes and its value moves to the register file (`Drops`), and the new instruction
comes in with its operands (`Adds`).  A jump empties the buffer instead; then nobody
may be left waiting (`JumpStops`).

*Conditions.*  `NoneLeftWaiting`: programs with jumps run with a buffer of at most two
entries.  `NamesWhatItWrites`: an instruction that writes no register has no `rd`
bits either.  Both are what the code needs: `JumpConfigs` and `BranchConfigs`
(section 5) each break one and violate the property.  `DynamicOrder` satisfies both.

### The attestation software

| Theorem | Statement |
|---|---|
| `LocalAttestationProofs!SensorIsAttested` | `Spec => []AttestedSensor` |
| `LocalAttestationProofs!AttestationInvariant` | `Spec => []AInv`, if `Separate` and `Roomy` |
| `LocalAttestationProofs!StacksStayInSection` | `Spec => []StackInSection`, if `Separate` and `Roomy` |
| `LocalAttestationProofs!AcceptedResultIsReading` | `Spec => []ResultIsReading`, if `Separate` and `Roomy` |
| `LocalAttestationProofs!TrapsAreInvisible` | `Spec => ResumesAsInterrupted`, if `Separate` and `Roomy` |

`SensorIsAttested` needs no condition: a sensor is stored by `set_sensor_enclave`
only, and no other update of a data section reaches that field, wherever a stack
pointer points (`OnlySetsSensors`).

The others rest on `AInv`, which follows an invocation through its stages.

* `Stage(r, e)`: nine stages from `main`'s `CInvoke` to `enclave_exit`, each with the
  labels it spans, who is in `cra`, and what the stack of the caller holds: while
  the sensor runs, the three slots on top are `main`'s arguments, `main`'s return
  address and the place to go on (`InCall`), and all other stacks are at rest
  (`OthersRest`).  At rest the stack of a Morello enclave is empty; that of a Proteus
  enclave holds at most one slot for each use so far (`Left`), because the last pop
  is not stored (section 5).
* `Answered(u)`: from the sensor's `read` on, the buffer of `u` has the reading and the
  nonce of this call, which is what makes the result that `main` accepts a reading.
* `Levels`: how deep traps are nested.  `main` and its enclaves run (`Level0`); they
  are trapped and the handler runs (`Level1`); the handler has invoked an enclave
  (`Level2`); that enclave is trapped (`Level3`); or a trap without a section has
  stopped everything (`Faulted`).  At each level the stage of the code below holds
  of the registers kept in its section, since the enclave that a handler invokes
  changes no data (`HandlerEnclaveStep`).  A third trap cannot come: the handler
  that runs then has already invoked.

*Conditions.*  `Separate`: handlers invoke enclaves that `main` does not invoke, and
which run the user code.  `Roomy`: if the sensor is used at all the stack has three
slots, and on Proteus two more than the number of uses.  Both are necessary in
this sense: with `HandlerCalls` an enclave of `MainCalls` TLC finds
`ResumesAsInterrupted` violated, with `HandlerCalls` the sensor it finds
`StackInSection` violated, and with one use more than `Roomy` allows
`StackInSection` is violated again (section 5).  `WindowTraps` and `TrapData` are
arbitrary: a trap that finds no section stops the program and breaks none of these
properties, only `InvocationsReturn`.  `Attestation` satisfies the conditions.

### Assumptions and limits

*Assumptions*, all in the modules that declare the constants and evaluated by
TLC in every run of those modules.  Sail: `TableSizeAssumption`,
`OtypeAssumption` (the number of otypes is a multiple of four with room for the
two reserved ones and one enclave), `NoneAssumption`, `SailAssumption` (boot
capabilities are unsealed and inside the arena, `OsCap` is not), `PermAssumption`.
Morello: `StoreAssumption`, `MorelloAssumption`, `HashAssumption` (every string of
words as long as a section can be is a hash; as elsewhere the hash is
injective).  Proteus: `StoreAssumption`, `IdsAssumption` (four otypes for each
entry fit into the width of an otype), `ProteusAssumption` (among others, that
the absence of a result is not a result).  Instruction bus: `BusAssumption`.
Tagged memory: `MemoryAssumption` (among others, that `None` is no address).
Pipelines: `ISAAssumption`, `StaticAssumption`, `DynamicAssumption`.
Software: `TrapsAssumption`, `AttestationAssumption`.

*Only model-checked.*  Liveness under fairness (`Terminates`, `Progress`, `Fetches`,
`Answered`, `InvocationsReturn`) is out of the prover's reach.  Every other property of a passing run is a theorem,
some under conditions on programs or use that the text above names.
`CodeHoldsNoCap` of Morello is false (section 5).

## 5. Findings

One finding is kept as a run with `expect: violation`:

`ProteusScanSkips`: in the cycle that reports a tagged granule `findNext` is
still up, so the scan moves past the next granule while the first is read: of two
neighbouring tagged granules the second is not checked (`MemoryTagger.scala:203`).
`cheri_insts.sail:2559` says of `EInitData` that it fails if the memory sweep finds
an overlap.

**Other disagreements.**  These were met while modelling.  Each shows as a
violation when the constants of a run are changed as said; the passing runs use
values for which the properties hold, and say so.

| Change | Property | The code does | Against |
|---|---|---|---|
| `ProteusStore`: `Buffers <- PastTop` | `EStoreIdRight` | `EnclaveInit.scala:441`: `length - offset` wraps when the address is past `top` | `cheri_insts.sail:2177`, "*cs2* is also used as the authority for" the store |
| `ProteusProgress`: `Interrupts = TRUE` | `NothingLost` | `cheri/RegisterFile.scala:131`: an interrupt in writeback drops the only capability to a new entry | `cheri_insts.sail:2512`, "*cs1* is sealed and the result is stored in *cd*" |
| `ProteusProgress`: `Untagged = {2}`, `Asked = {0, 2, 5, 6, 7}` | `EInitCodeFailsWhenFull` | `EnclaveInit.scala:342`: a refused `EInitData` leaves its search running, and the next `EInitCode` takes the answer | `cheri_insts.sail:2513` |
| `ProteusProgress`: `Asked = {2, 15}` | `Terminates` | `IdentityStore.scala:139`: a refused `getHash` is answered on a port `storeIdFsm` (`EnclaveInit.scala:452`) does not listen to | `cheri_insts.sail:2178`, "If the otype is found in the TCB, *rd* is set to 1, otherwise to 0" |
| `MorelloCalls`: check `CodeHoldsNoCap` | `CodeHoldsNoCap` | `regsweep.c:123`: `c0` and `c1` are not compared with each other; with the data section inside the code, the key is stored into code that was searched and hashed | `EINIT_DATA.c:48`, "5. Verify code_cap does not contain any capabilities" |
| `StaticOrder`: `Configs <- SwapThenStore` | `StoresInOrder` | `Lsu.scala:206` issues a store when its instruction is valid, stalled or not: with a CSR instruction as producer the stale value is written first | `Stage.scala:23`, on `isRunning`: "Use in stage logic to know when to process an instruction" |
| `StaticOrder`: `Configs <- SwapInterrupted` | `TrapsPrecise` | `CsrFile.scala:178` writes when WB is valid, also in the cycle of an interrupt; after the handler the swap happens again | `TrapHandler.scala:143-150`, "this can never happen" |
| `DynamicOrder`: `Configs <- JumpConfigs` | `RobConsistent`, `RetiresInOrder` | `ReservationStation.scala:114`: a jump resets a station that executes, not one that waits for operands; its message goes to an entry of the new stream | `ReorderBuffer.scala:144`, the reset of the buffer |
| `DynamicOrder`: `Configs <- BranchConfigs` | `RetiresInOrder` | `Decoder.scala:95` gives branches and stores an `RD`, and `ReorderBuffer.scala:111` finds their entries when it looks for the writer of a register | `ReorderBuffer.scala:105`, "return the freshest" |
| `Attestation`: `MaxUses = 11`, `StackSlots = 12` | `StackInSection` | `user_enclave.S:146`: the last pop is not stored, so each call keeps a slot; the stack grows into the data below it | layout at `enclave_entry.S:10-12` |
| `Attestation`: `HandlerCalls` with an enclave of `MainCalls` | `ResumesAsInterrupted` | `trusted_traps.S:212-226`: a trap in an enclave that is already interrupted overwrites the address at which it goes on | `trusted_traps.S:26-29`, "Just clear state and jump to untrusted handler" |
| `Attestation`: `WindowTraps = TRUE` | `InvocationsReturn` | `trusted_traps.S:14-19`: a trap between `enclave_exit` and the caller's restore of `c31` finds no section to save to and faults again | |
| `Fetching`: `ibusLatency = 1`, `MaxInFlight = 1` | `Fetches` | `MemBus.scala:418`: with a memory that serves one command at a time, and takes none in the cycle in which it answers, the fetch starts over for ever | the comment there names a "restart loop" |

Two more came up in the proofs.  An attempt to prove `Measured` of Proteus for
sections of any length fails on an empty one: `hashFsm` moves the address on
before it compares it with `top` (`EnclaveInit.scala:268`), so the address goes
round once and the hash is that of all memory.  `Measured` therefore speaks of
the words of a section that has some.  And `entered` in `MorelloEL2` is the
history of one enclave: when `EINIT_DATA` claims sections the record starts
anew.

The comments of the Sail model are the nearest thing to a specification that the
enclave instructions of Proteus have; the Sail code itself behaves as they say in
those cases.

Two comments of the Sail source do not describe its code, and the modules follow
the code: `EInitCode` runs no sweep (`cheri_insts.sail:2511` says it does), and
`make_hash` hashes the contents of the section only (2235 says `base` as well),
so equal code at two addresses has one identity.

## 6. What is not modelled

* **Compressed bounds** (CHERI Concentrate): bounds are exact here.  Setting an
  address to the base is always representable, so those error paths are not
  taken.
* **Sealing authority from elsewhere.**  Programs seal with keys that `EInitData`
  made.  A machine whose boot code keeps authority over all otypes can forge any
  seal; the model assumes it does not.
* **The hash function** is injective: an identity is the string of words.
* **Virtual memory and caches.**  `PccManager` and address translation are the
  identity in `InstructionBus`.
* **Pipelines**: division and the other arithmetic operations, access widths,
  misaligned jump targets, `NoPipeliningScheduler` and the debug hook of
  `riscv-formal`.  `claimPipeline` appears only as the enclave instructions use it.
* **Misaligned capability accesses.**  `TaggedMemory` addresses capabilities by
  granule, as `cheri.h:56` aligns them; `cheri/Lsu.scala:213` lets other addresses
  through and `MemoryTagger.scala:71` then takes the tag of the granule in which the
  access begins.
* **The CHERI plugins of Proteus**, beyond loads and stores: the capability
  instructions are those of `SailEnclave`.
* **Morello**: registers of EL0, which `scrs_sweep` does not read either (the
  repository runs nothing at EL0); exceptions taken to EL1; the use of keys after
  an enclave has been entered; sections shorter than a granule but of whole words.
* **Set-up and I/O**: boot code, page tables, UART, `printf`, microbenchmarks, the
  bodies of system calls.  They run once, or in a straight line, and keep no state
  the rest depends on.
* **Third-party code** under `src/`: SoftFloat, the C and OCaml emulators of
  `sail-riscv` with the base RISC-V specification, `riscv-formal`, `riscv-tests`,
  SpinalCrypto, SHA-256, the `printf` library.  Most lines of the repository are of
  this kind.  They are sequential arithmetic, I/O or test programs, and the enclave
  extension changes none of them, so the models cover a small part of the tree by
  lines although they cover most of what the project itself adds.

## 7. Plan

1. Done: the trusted base on all three platforms (`EnclaveTCB`, `SailTable`,
   `SailEnclave`, `ProteusStore`, `ProteusScan`, `ProteusEnclave`, `MorelloTCB`,
   `MorelloEL2`) and the first theorems on the Sail model.
2. Done: what the enclaves stand on (`RiscvISA`, `MemBusControl`, `StaticPipeline`,
   `DynamicPipeline`, `InstructionBus`, `TaggedMemory` with `AtomicTaggedMemory`) and
   what runs in them (`EnclaveTraps`, `LocalAttestation`).
3. Done: proofs about the trusted base on all three platforms: isolation,
   measurement, consistency of the stores, the sweep, and that each implements
   `EnclaveTCB`.
4. Done: the instruction bus delivers what was asked for.
5. Done: the tagger and its bus controllers implement the atomic tagged memory,
   and the attestation software keeps stacks, results and interrupted code.
6. Done: the out-of-order pipeline is consistent and retires in order, for buffers
   of every size.
7. Done: the in-order pipeline executes what the program says, and does not stall
   without a cause.
