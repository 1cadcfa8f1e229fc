# TLA+ models of the AVM core (arb-avm-cpp)

These modules model the Arbitrum Virtual Machine interpreter in
`src/packages/arb-avm-cpp/avm/src/`:

- `datastack.cpp`: the value stack and its lazily built cumulative hash.
- `machine.cpp`: the machine state, the opcode handlers, the `run`/`runOne` loop, the state hash, the one-step proof, the loader, and the inbox calls.

TLC checks the models under the configurations listed below. `PROJECT.json`
records the components, runs, mutants, the map from each definition to its
source lines, the findings and the hazards.

## The system

| Part | Code | What it does |
|---|---|---|
| datastack | `datastack.cpp`, `datastack.hpp` | A vector of values, bottom first, plus a cache `hashes` of the hash of every prefix. `push` leaves the cache alone. `popClear` and `prepForMod(n)` cut it back. `addHash`, `calculateAllHashes`, `hash()` and `marshalForProof` extend it on demand. |
| opcode handlers | `machine.cpp` 382-941 | One static function per opcode. A handler reads operands with `assumeInt`/`assumeTuple`, which throw `bad_pop_type`; `get_element`/`set_element` throw `bad_tuple_index`; `assumeInt64` throws `int_out_of_bounds`. |
| dispatch | `MachineState::runOp`, 944-1147 | A switch on the opcode. NOP, ERROR and HALT are handled inline; an unknown opcode throws `runtime_error`. |
| interpreter | `Machine::run`, `Machine::runOne`, 297-379 | `run` resets the assertion context, promotes Blocked to Extensive, and calls `runOne` up to `stepCount` times. It un-counts a step that blocked. On Error with errpc set, it moves pc to errpc. `runOne` pushes the instruction's immediate, dispatches, and turns the two caught exceptions into Error. |
| state hash and proof | `MachineState::hash`, `marshalForProof`, 57-117 and 242-283 | The hash is 0 when Halted, 1 on Error, otherwise Keccak of six words. The proof consists of the six words (code point replaced by its nextHash), the base hashes of both stacks after popping the slots the opcode's signature names, and the popped values. |
| loader | `opsToCodePoints`, `deserialize`, 25-37 and 165-201 | Checks the version, links the code points from the tail, and sets the static value and pc = 0. |
| inbox | 203-233, 285-295 | `sendOnchainMessage` conses onto `pendingInbox` and credits the balance. `deliverOnchainMessages` moves the pending batch into `inbox`. `sendOffchainMessages` delivers a batch directly. |

The machine is single threaded and `run` is not re-entrant (spec section 5).
The only concurrency is therefore the embedder's choice of which call to make
next: `run` slices of any length, interleaved with the three message calls.
That choice, the programs, and the inputs (messages, time bounds, step
counts) are what the models enumerate.

## Modules

| Module | Models | State / actions |
|---|---|---|
| `DataStack` | `datastack.cpp` and the `datastack.hpp` operations | An operator library over `[values, hashes]`. `AddHash`, `CalculateAllHashes`, `HashResult`, `PopForProof` and `MarshalForProof` are translated from the source. `Push`, `PopClear`, `PrepForMod` and `SetSlot` follow spec 4.D, because the header is not under `src/`. `StackHashOf` is the from-scratch reference. `RebuildHash` is the verifier's fold. |
| `DataStackSpec` | one stack driven by any client | Variables `stk` and `lastResult`. Actions `PushOp`, `PopOp`, `ModifyOp` (prepForMod then a slot write, as every modifying handler does), `HashOp` and `MarshalOp`. |
| `AbstractStack` | what the datastack promises | Variables `contents` (the values, bottom first) and `answer` (the last query's result). Actions `Push`, `Pop`, `Write`, `Hash` and `Proof`. There is no cache: both queries compute their answer from the contents. `DataStackSpec` instantiates it with `contents <- stk.values, answer <- lastResult` and checks `Abstract!Spec` as the property `RefinesAbstractStack`. |
| `AVMArith` | the numeric kernels of 427-673 | Operators on `WordBits`-bit words. The two's-complement references and the spec's wording of BYTE and SIGNEXTEND sit beside the kernels. |
| `ArithCheck` | the kernels, exhaustively | One state per (opcode, a, b); the single action `Compute` applies the kernel. |
| `AVMValue` | values and hashes (`value.cpp`, not under src) | Num/Tuple/CodePoint records. A Keccak hash is modelled as a collision-free term that starts with its type tag. |
| `MachineOps` | every handler and `runOp` | Each handler maps a machine record to `[st, exc]`, where `exc` is the exception the handler throws. |
| `Machine` | run/runOne, hash, proof, loader, inbox | Variables `m` (the MachineState), `loop` (run's `i`, `stepCount`, whether runOne returned < 0, and, as ghosts, the state the call started from and its hash), `lastAssertion`, `hostFault` (an exception or undefined behaviour that reached the embedder), `received` (ghost: every message handed over), and `credited`/`paid` (ghost: per token, the currency that `sendOnchainMessage` credited and the currency of the messages that the Assertions handed out). `Init` loads each program; `LoaderFault` translates `opsToCodePoints`' linking loop in scaled uint64 and records the undefined behaviour of its first out-of-range index (with no operations, `size - 1` wraps). Actions `RunStart`, `RunStep` (one `runOne`), `RunEnd`, `SendOnchain`, `DeliverOnchain` and `SendOffchain` (the empty batch included). |
| `AtomicRun` | `run()` as spec 4.F states it | Variables `mach`, `assertion` and `fault`. `Run(n, tb)` is one atomic call. The RECURSIVE `Steps` executes up to `n` steps and counts those that did not block. `RunAborted` is a call that a step's exception ends. `Call` is any message call. The step and the message calls are constant parameters. `Machine` instantiates the module with `mach <- IF loop.active THEN loop.pre ELSE m` and `Step <- RunOne`, and checks `Atomic!Spec` as `RefinesAtomicRun`. |
| `MCDataStack`, `MCMachine` | instances for TLC | Hash functions for model values, and a suite of programs (.ao files as records of operations and a static value). |

`run` is split into three actions so that TLC can record coverage for each
step. While `loop.active` holds, the embedder actions are disabled, so the
model's behaviours are exactly those of a synchronous `run`.

Widths are scaled down, and each is named by a constant:

| Constant | Value | Code width |
|---|---|---|
| `WordBits` | 6 | 256 |
| `ByteBits` | 2 | 8 |
| `PcBits` | 4 | 64, so the unset code point has pc 15 |
| `IndexBits` | 2 | the uint32 cast of tuple indices |

Every edge the code has stays reachable at these widths: min_int, -1, byte
index ≥ word size, exponent > uint64 max, and pc = uint64 max.

## Runs

| Run | Cfg | Expect | What it shows |
|---|---|---|---|
| datastack | `MCDataStack.cfg` | pass | Up to depth 4 over two values, every interleaving of the stack operations keeps every cached hash equal to the from-scratch hash of the slots under it (`HashCacheConsistent`). `hash()` and the proof's rebuild return the hash of the real contents (`QueryResultsCorrect`). The cached stack implements the cache-free `AbstractStack` (`RefinesAbstractStack`). |
| arith_signed | `ArithSigned.cfg` | pass | SDIV, SMOD, SLT and SGT equal the two's-complement reference on all 64×64 word pairs. |
| arith_operand_order | `ArithOperandOrder.cfg` | violation | BYTE and SIGNEXTEND take their index from stack[1], while spec 4.E puts it on top (`OperandOrderMatchesSpec`). |
| machine | `MCMachine.cfg` | pass | Nine programs, described below, run in slices of 1 or 4 steps, interleaved with up to two messages delivered on chain or off chain. Properties: `TypeOK`, `ProofRoundTrip`, `InboxHoldsEveryMessageOnce`, `TokensConserved`, `BlockedRetryIsIdempotent`, `ProofCoversStepFootprint`, `RefinesAtomicRun`, `InboxReturnsOnlyNewMessages`, and under `FairSpec` the liveness property `BlockedResumesWhenReady`. |
| machine_blocked_retry | `MachineBlockedRetry.cfg` | violation | A blocked INBOX with an immediate grows the stack on each retry. |
| machine_error_handler | `MachineErrorHandler.cfg` | violation | Under `FairSpec` the machine stays in Error forever, although errpc is set. |
| machine_exp_overflow | `MachineExpOverflow.cfg` | violation | A SEND, then EXP with an exponent wider than uint64, in one `run()`. `int_out_of_bounds` escapes `run()`, and the currency the SEND debited is in no Assertion (`TokensConserved`). |
| machine_index_wrap | `MachineIndexWrap.cfg` | violation | TGET with index 2^IndexBits on a 1-tuple returns slot 0 (uint32 cast) instead of Error. |
| machine_wrong_version | `MachineWrongVersion.cfg` | violation | After a rejected .ao version, the empty machine's first step reads `code[0]` of empty code. |
| machine_empty_code | `MachineEmptyCode.cfg` | violation | An .ao of the current version with `codeCount = 0` makes `opsToCodePoints` index an empty vector at load (`cps.size() - 1` wraps). |
| machine_push_witness | `MachinePushWitness.cfg` | violation | For the spec's scenario 5, `[PUSH(7), HALT]`, `marshalForProof` at pc 0 erases the first entry of NOP's empty stack-pop signature (`ProofWitnessDefined`). |
| machine_unset_jump | `MachineUnsetJump.cfg` | violation | A JUMP to the unset errpc makes the next step read `code[15]` of a 3-instruction program. |

The machine run's programs:

- arithmetic with immediates;
- modular/byte/sign-extend arithmetic through DUP;
- tuples, TGET/TSET/TLEN and HASH/TYPE;
- a blocking INBOX loop using PCPUSH/AUXPUSH/AUXPOP/JUMP;
- SEND/NBSEND/GETTIME/LOG;
- CJUMP both ways, STACKEMPTY, SPUSH/RSET/RPUSH, ERRPUSH, BREAKPOINT;
- an ERRSET handler followed by a division by zero;
- SWAP2 and MOD, then an out-of-range TGET;
- a bad operand type.

Together they reach every opcode family except ERROR, which the taken CJUMP
skips, and both caught failures (`bad_pop_type`, `bad_tuple_index`). None of
them lets an exception escape, so `HostNeverFaults` is checked only by the
violation runs that reach the uncaught paths.

The properties, stated in the modules beside their definitions, are:

- `ProofRoundTrip`: in every running state, the verifier's reconstruction from `marshalForProof`'s witness equals `MachineState::hash()`.
- `ProofCoversStepFootprint`: a step never changes a slot of either stack below the slots its proof signature pops. Otherwise the verifier would rebuild the post-state from the wrong base.
- `HostNeverFaults` (violation runs): no exception and no undefined behaviour (an out-of-range code read, the loader's wrapped loop) reaches the embedder.
- `InboxHoldsEveryMessageOnce`: inbox plus pending tuple hold, as a bag, exactly the messages handed over.
- `BlockedRetryIsIdempotent`: a run that starts Blocked and blocks again without a step leaves the state hash unchanged.
- `RefinesAtomicRun`: every behaviour of `Machine` is one of `AtomicRun`. This covers the loop counter, the `i--` after a blocked step, the errpc resume, and the exception that aborts the call.
- `InboxReturnsOnlyNewMessages`: an INBOX that completes on an inbox the program already read returns an inbox with more messages. An empty delivery must not wake it.
- `TokensConserved`: whenever no `run()` is in progress (including after an aborted one), for every token, the balance plus the currency the Assertions have handed out equals the currency credited on chain.
- `ProofWitnessDefined`: in every running state with pc in the code, an operation with an immediate has a stack-pop entry for `marshalForProof` to erase.
- `BlockedResumesWhenReady` (liveness): a machine blocked on INBOX or SEND whose condition holds eventually leaves Blocked.
- `RefinesAbstractStack`: every behaviour of `DataStackSpec` is a behaviour of `AbstractStack`.
- `OutOfRangeIndexIsError`: a TGET/TSET with an index not below the tuple's size ends the step in Error.
- `ErrorHandlerResumes` (liveness): Error with errpc set leads to a non-Error status.

Each property of a passing run has a mutant in `PROJECT.json`: a faulty
variant of one mapped definition (a dropped cache link, a swapped pair of
hashes, a missing reset...) under which TLC finds
the property violated.

### Bounds

- `MaxDepth = 4` for the datastack reaches every cache shape: empty, partial and full caches, and a write below a cached prefix.
- `MaxStack = 4` limits both stacks before a `run`.
- `MaxMessages = 2` is enough for an on-chain message to be pending while an off-chain batch overtakes it.
- `StepCounts = {1, 4}` gives both single steps (a proof after every step) and multi-step slices that block or end in the middle.
- `TimeBounds` has two values, so that GETTIME's result depends on the slice.
- The two messages carry currency in two different tokens (`MsgA` token 0, `MsgB` token 1), so that `TokensConserved` distinguishes tokens: a SEND charged to the wrong token, or a balance credited to the wrong one, breaks the per-token equation. This instance has about 190,000 distinct states (about 3 minutes with coverage).

### Fairness

`FairSpec` assumes weak fairness of `RunStart`, `RunStep` and `RunEnd`.
Fairness of `RunStart` means the embedder keeps calling `run()` while it can.
`RunStep` and `RunEnd` are fair because the loop of a synchronous call runs to
its end. No fairness is assumed for message delivery: nothing in the code
obliges the embedder to send messages. `BlockedResumesWhenReady` is therefore
conditional on the awaited inbox or balance having arrived.
Its condition is stable: the inbox only grows, and the balance only grows
between runs.

## Not modelled

- The byte-level .ao parsing, value marshalling and the proof buffer layout. These are serialisation; the models keep the fields that are read back.
- `TuplePool`.
- Printing.
- Keccak itself, assumed collision free.
- `datastack.hpp`, `value.cpp`, `opcodes.hpp`, `message.cpp` and `tokenTracker.cpp` are not under `src/`. Their behaviour comes from the spec and is marked `spec_modelled` in the map:
  - push/pop/prepForMod;
  - value hashes;
  - the stack-pop signature table;
  - message decoding and token spending.

  A pop from an empty stack raises `stack_too_small`. Spec 7a calls it a machine Error, but runOne's catch (machine.cpp:372-376) names only `bad_pop_type` and `bad_tuple_index`, so in the model it escapes `run()` like any uncaught exception. No program of the runs underflows.

## Plan for later work

The second token has been added (see Bounds). What is left, and why it is not planned:

- An abstract "one step" machine from pre-hash to post-hash that `Machine` would refine through `MachineHash`. Its step relation would have to recover a state from its hash, and hashes are modelled as collision-free terms. A refinement through them would restate `ProofRoundTrip` and `ProofCoversStepFootprint`, which already check the per-step contract of `marshalForProof` against the executed step. The refinement of `run()` into `AtomicRun` covers the abstraction that can be stated.
- The byte-level loader (`deserialize`, machine.cpp:165-201). It reads from a `char*` with no length: a truncated file, a missing extension terminator, or a `codeCount` larger than the file read past the buffer. The model loads the `.ao` as a record whose fields are the values read, so these over-reads are listed as a hazard with no property. Catching them needs a model of the buffer bytes, which would be a transliteration of the parser.
