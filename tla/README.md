# Formal models of mass-core

TLA+ models of the mass-core sources under `src/`, the TLC runs that check
them on small instances, and TLAPS proofs that hold for every value of the
constants.

## 1. The system, and what is under `src/`

The repository's sources in `src/` are a set of separate pieces. Several
files hold more than one Go file; parts of a file are named by line range
below.

| Part | Where | What it does | State it changes |
|---|---|---|---|
| Script engine | `txscript/engine.go` 1-733 | `NewEngine` builds an engine for one transaction input. `Execute` runs `Step` until done, then `CheckErrorCondition`. For a witness program, `Step` hands over from the pkScript to the two witness scripts, and `verifyWitnessProgram` appends them, together with a CSV lock script for staking and binding outputs. | scripts, pc (`scriptIdx`, `scriptOff`), data, alt and condition stacks, `numOps` |
| Chain parameters | `txscript/engine.go` 734-970 (package config) | The `Params` of the main network, `Register` of a network, the address, HD key-id and Bech32 lookups, and `UpdateGenesisBlock` for mock chains; `init()` runs `UpdateGenesisBlock` and `Register(&ChainParams)`. | the four registry maps, `ChainParams.GenesisBlock`, `ChainID`, `GenesisHash`, `genesisHeader` |
| Future-block filter | `netsync/prophet.go` (copied at `txscript/engine.go` 971-996) | Rejects a batch as soon as one block's timestamp is more than 3s after the wall clock, read again for each block. | none (reads the clock) |
| Disk-space check | `database/disk/disk_windows.go` 1-33 | `CheckDiskSpaceWin`: are free bytes ≥ additional + MinDiskSpace? | none |
| Punishment store | `disk_windows.go` 34-168 (package ldb) | The PUNISH, BANPK and BANHGT tables: insert, drop, exists, fetch, and `insertBlockPunishments` into a storage batch that the caller commits or discards. | the tables, a storage batch |
| Challenge calculation | `disk_windows.go` 169-208 (package blockchain) | `calcNextChallenge` walks back through min(MaxReferredBlocks, height+1) headers. | none |
| Tests and test exports | `trie/*_test.go`, `poc/*_test.go`, `unnamed/part_000` | Tests of the trie and the PoC proofs; blockchain test exports. | - |

`spec.md` describes a Merkle-Patricia trie: encoding, node model, trie core,
node database and iterators. Its implementation is not under `src/`; only its
tests are (`trie/database_test.go`, `trie/iterator_test.go`). Modules of it
will be modelled from the spec and marked `spec_modelled` in the map.

How the pieces interact: the engine is called once per input by the
blockchain's validation. The flags it receives, such as `ScriptMASSip2`,
depend on the height, so the flag set is an input of the model. The other
parts share no state with the engine.

Sources of concurrency and failure in this code:
- The engine is sequential. `Execute` is one loop on one goroutine.
- The hard part is the order of steps inside `Step`: the end of a script, the
  witness hand-over, the appended scripts and the zero-length skip.
- Also hard are the limits (`MaxOpsPerScript`, `maxStackSize`, the
  `frozenPeriod` arithmetic) and which inputs reach acceptance.
- The storage code can fail part-way through a batch.
- The disk check, the frozen period and the challenge window do arithmetic
  on 64-bit integers that wraps.
- The registry is filled by `Register` calls in any order, and a mock chain
  replaces the genesis block after `init()`.
- The future-block filter reads the wall clock, which may be set back or
  forward, once per block.

## 2. Modules

### `ScriptEngine.tla`: the script engine

**State.** The variables mirror the `Engine` struct (`engine.go` 24-43):
- `scripts`, `scriptIdx` and `scriptOff`, all 0-based as in the code;
- `dstack` and `astack`, each a sequence with the bottom first;
- `condStack` and `numOps`;
- the inputs `pkScript`, `tx` (the spent input) and `flags`;
- `phase`, which records where the caller is (before `NewEngine`, in
  `Execute`'s loop, at its final `CheckErrorCondition`, returned), and `err`.

**Data abstraction.**
- An opcode is one of 13 kinds (`OpKinds`): true/false pushes, an oversized
  push, `OP_NOP`, `OP_DROP`, `OP_TOALTSTACK`, `OP_FROMALTSTACK`, `OP_IF`,
  `OP_ELSE`, `OP_ENDIF`, `OP_CHECKSEQUENCEVERIFY`, a disabled opcode and an
  always-illegal conditional (`OP_VERIF`). They cover every path through
  `executeOpcode`: disabled, illegal, counted, oversized push, non-executing
  branch, and the opfunc.
- A stack element is the boolean it is read as.
- A script's bytes are classified as empty, ok, too big or malformed; these
  are the outcomes of the `maxScriptSize` test and `parseScript`.
- What `extractWitnessProgramInfo` finds in a pkScript is a record field: no
  witness program, or its version and its extension program (none, staking,
  binding, unknown, invalid).
- The two cryptographic and consensus facts are booleans of the input:
  whether the last witness element hashes to the program (`hashOK`), and
  whether the input's sequence satisfies a CSV lock (`lockOK`).
- Whether a staking frozen period is in range is `frozenOK`.

**Actions.** Each action models a whole Go function, including its early
returns in their order:
- `NewEngine` covers lines 625-733.
- `Step` covers 213-290. It is split into `StepInScript` (the opcode is not
  the last of its script) and `StepEndScript`/`EndScript` (end of script).
  The end of a script includes the MissingEndif check, the alt-stack drop,
  the `numOps` reset, the witness hand-over with its depth check and
  `verifyWitnessProgram`, and the skip of one zero-length script.
- `CheckErrorCondition` covers 179-205, with `finalScript = true` as
  `Execute` calls it.
- `Reject(e)` is every `return err` of `Execute`.
- `Next` is `Execute`'s loop (294-314).

**Operators.**
- `ExecuteOpcode` (69-108) returns the new stacks and count.
- `OpFunc` gives the opfunc semantics. The opfuncs are in `opcode.go`, which
  is not under `src/`; they follow the standard script semantics of these
  opcodes.
- `VerifyWitnessProgram` (513-620) returns the scripts to append or the
  error.
- `ValidPC` (121-132), `IsBranchExecuting` (59-64) and `StackFits` (232).

Early-return chains are written as `IF ... ELSE IF` (a `CASE` with arms that
overlap would not mean "first match"). The `CASE` of `OpFunc` has disjoint
arms.

Two things in the code are dead, and the model keeps them dead:
- the minimal-data check (99-105), because `verifyMinimalData` is never set;
- the element-size check at 613-617, because it reads a data stack that
  `Step` emptied at 254.

### `MC_ScriptEngine.tla`: instances for TLC

- `MCScripts` has one-opcode scripts of every kind, plus two-opcode scripts
  over pushes, `OP_IF`/`OP_ENDIF` and `OP_TOALTSTACK`.
- `MCRedeemScripts` has scripts that read or close what the first witness
  element left. One of them, `<<NOP,NOP,NOP,TRUE>>`, counts three
  operations.
- `MCWitnessPkScripts` has eight witness programs: P2WSH; staking with an
  in-range and an out-of-range frozen period; binding; an unknown extension;
  an invalid one; a program that pushes a bad depth; version 1.
- `MCWitnessInputs` combines every pair of scripts with valid and broken
  witnesses (an empty, too-big or malformed element, the wrong count) and
  with both values of `hashOK` and `lockOK`.
- `MCPlainPkScripts` holds non-witness pkScripts, including one that counts
  three operations (`<<TRUE, IF, ENDIF, NOP>>`), and the empty, too-big and malformed byte strings.

### `ScriptEngine_proofs.tla`: TLAPS proofs (section 5)

### `FrozenPeriod.tla`: the staking lock (`engine.go` 543-566)

The staking branch of `verifyWitnessProgram` at a parametric word width
`Width` (64 in the build). `VerifyStaking(ok, fp)` is one staking input:
`makeScriptNum` (not in this repository) fails or yields any int64 `fp`;
`StakingLock` is the guard `frozenPeriod < 0 || frozenPeriod+1 < 0` with
Go's wrapping int64 addition (`AddI`), the increment and the `uint64`
conversion written by `PutUint64` (`ToUint64`). `ScriptEngine` abstracts the
same check to the flag `frozenOK`; this module justifies that abstraction.
`MC_FrozenPeriod` takes 7-bit words, so every int64 value, MaxInt64
included, is tried. `FrozenPeriod_proofs` proves the property for every
width (section 5).

### `PunishmentLedger.tla` and `PunishmentStore.tla`: the punishment tables

`PunishmentLedger` is the abstract specification: `pending` (PUNISH),
`banned` (BANPK), `banIndex` (BANHGT without its count) and `tip`, with
three atomic operations: `AddPending`, `DropPending`, and `BanBlock(area)`,
which bans every key of a block's punishment area at `tip+1`.

`PunishmentStore` is the code (`disk_windows.go` 34-168). Its state is the
committed tables `punish`, `banpk`, `banhgt` (with the uint16 count) and
`tip`, plus one open storage `batch`. Actions:
- `InsertPunishment(pk)`: the direct put, refusing keys of the wrong length;
- `BuildInsertBatch`, `BuildDropBatch`, `BuildBlockBatch`: the helpers
  `insertPunishments`, `dropPunishments` and `insertBlockPunishments`. Each
  walks its key list in order and returns at the first key that fails
  (`InvalidKeys`, a `broken` encoding, a failing `insertFaultPk`, a failing
  put), leaving the writes made so far in the batch (`Done`, `StopAt`);
- `Commit` and `Discard`: the caller writes the batch when the helper
  returned nil and drops it otherwise. The caller is not in this repository
  (`spec_modelled`).

`Ledger == INSTANCE PunishmentLedger WITH ...` maps the committed tables to
the ledger; `RefinesLedger` is the ledger's specification as a property.
`MC_PunishmentStore`: keys `k1`, `k2` of a valid length and `kBad` of an
invalid one, heights 1..2, areas of up to 2 keys (a key twice in one area,
a key banned twice, a failure after a first write).

### `DiskSpace.tla`: `CheckDiskSpaceWin` (`disk_windows.go` 17-33)

`Check(add, ok)` is one call: the kernel reports the free bytes `avail` when
`GetDiskFreeSpaceExW` succeeds (`ok`) and 0 otherwise; the result is
`int64 >= int64(uint64(add + MinDiskSpace))` at width `Width` (`AddU`,
`ToInt64`). `SpaceChanges` lets other writers change the free space between
calls. `MC_DiskSpace` uses 5-bit words and a reserve of 3; `safe` requests
stay below MaxInt - MinDiskSpace, `wrap` takes every uint64.

### `NextChallenge.tla`: the challenge window (`disk_windows.go` 169-208)

A block tree (`count`, `parent`, `height`) grows by `ConnectBlock` and the
best node moves by `SetBest` (both from the caller, `spec_modelled`).
`CalcNextChallenge` (184-194) reads the best node into `lastNode`, computes
`size = ReferredSize` (MaxReferredBlocks, lowered to `Height+1` in uint64
when smaller) and starts the loop (`pc = "walk"`, `refNode = lastNode`).
Each `CollectHeader` step is one iteration (195-198): it appends `refNode`
to `headers` and moves to its `Parent`; reading a nil node is recorded as
`Nil` and ends the call, where the code panics. `HandOver` (199-200) ends
the loop after `size` iterations. The loop holds no lock, so its steps
interleave with `ConnectBlock` and `SetBest`. `MC_NextChallenge`: 3-bit heights up to 6,
windows of 3, 7 nodes (forks included); heights stop one below the largest
3-bit word (see section 6).

### `ChainConfig.tla`: network registry and genesis (`engine.go` 761-962)

State: the four maps of package config (`pubKeyHashAddrIDs`,
`scriptHashAddrIDs`, `hdPrivToPubKeyIDs`, `bech32SegwitPrefixes`), the ghost
`registered` (the networks passed to `Register`), the genesis variables
(`genesisBlockHeader` for `ChainParams.GenesisBlock.Header`, `genesisHeader`,
`chainID`, `genesisHash`) and `initDone`. Actions: `PackageInit` (the
package `init()`: `UpdateGenesisBlock(ChainParams.GenesisBlock)` then
`Register(&ChainParams)`), `Register(params)` and
`UpdateGenesisBlock(body)`. The lookups are operators. Strings are records
(word, upper case or not, "1" appended or not); a header is its body and its
ChainID; `GetChainID` and `BlockHash` (package wire) are injective functions.
`MC_ChainConfig` numbers networks: the standard ones have their own HD
magics and lower-case hrps as `ChainParams` does (`MCNets`); the mock body
`"mock"` gives the instance of the violation run.

### `FutureBlocks.tla`: `preventBlocksFromFuture` (`prophet.go` 11-26)

State: the wall `clock`, the batch's timestamps `blocks`, the loop index
`i`, the clock reading taken for each block checked (`readAt`) and
`result`. `CheckBlock` is one iteration (`preventBlockFromFuture`: read the
clock, refuse when `now + 3s` is before the timestamp), `Finish` the
`return nil` after the loop, and `SetClock(t)` any setting of the wall clock
(NTP or an operator; `spec_modelled`). `MC_FutureBlocks`: batches of up to
3 blocks with timestamps and clock readings in 0..5 s and a tolerance of
3 s, so both sides of the boundary `ts = now + 3` occur.

## 3. Properties

Each property is checked by a run and broken by a mutant of the code it is
about (the `mutants` of `PROJECT.json`).

- **TypeOK.** The types, with `numOps ∈ 0..MaxOpsPerScript`: the op limit of
  line 83 is checked before a count is kept.
- **ScriptBoundaryClean.** Whenever a script starts, no `OP_IF` is open, the
  alt stack is empty and `numOps = 0`. This covers lines 239-246 across the
  witness hand-over.
- **WitnessEnforced.** A witness program is accepted only when:
  - the version is 0;
  - the witness has exactly two elements;
  - the last element hashes to the program;
  - both elements were appended, and run, as the last two scripts.
- **LockEnforced.** A staking output, and a binding output under MASSip2, is
  spent only by an input whose sequence satisfies the lock.
- **PCStaysValid.** `validPC` never fails: empty elements are refused and a
  single zero-length script is skipped (lines 281, 528 and 632).
- **ExecuteTerminates** (liveness). `Execute` returns.
- **NoUnexpectedWitness** (the violation run). See section 4.
- **LockIsNextPeriod** (FrozenPeriod). A decoded frozen period is accepted
  iff it is in 0..MaxInt64-1, and the lock written is then exactly
  `frozenPeriod+1`, positive as an int64. Breaking it takes the one value,
  MaxInt64, whose successor wraps.
- **RefinesLedger** (PunishmentStore, action property). Every step on the
  committed tables is a ledger step or a stutter: a failure in the middle of
  `insertBlockPunishments` never reaches the tables, and a committed block
  bans all its keys at once.
- **CheckExact** (DiskSpace). The last answer of `CheckDiskSpaceWin` is
  exact: room iff the kernel succeeded and reported at least
  `additional + MinDiskSpace` bytes, counted without wrap.
- **ChallengeWindow** (NextChallenge). Once a call has left its loop, the
  headers it handed to the challenge calculation are the newest
  `min(MaxReferredBlocks, Height+1)` blocks of the chain below the node it
  read, newest first, each the parent of the one before; no nil node is
  read, however blocks were connected or the best node moved meanwhile.
- **HDKeyLookup** (ChainConfig). After any sequence of `Register` calls, the
  HD private magic of each registered network maps to its own public magic,
  and every other id is refused with `ErrUnknownHDKeyID`.
- **SegwitPrefixRecognised** (ChainConfig). `IsBech32SegwitPrefix` accepts
  `hrp + "1"` of each registered network in either case, and nothing else.
- **GenesisConsistent** (ChainConfig, the violation run). After `init()` and
  every `UpdateGenesisBlock`, `GenesisHash` is the hash of
  `ChainParams.GenesisBlock`'s header and `ChainID` is its ChainID.
- **FilterExact** (FutureBlocks). A returned `preventBlocksFromFuture` gave
  nil iff it checked every block and each was within 3 s of the clock
  reading taken for it; on error the last block checked is the first one
  from the future.

## 4. Runs

| Run | Bounds | Checks | Result |
|---|---|---|---|
| `engine_witness` | MaxOps 2, MaxStack 3, 8 witness pkScripts × witness inputs × 2 flag sets | TypeOK, ScriptBoundaryClean, WitnessEnforced, LockEnforced, PCStaysValid, ExecuteTerminates | pass, 135,294 states, about 30s |
| `engine_plain` | MaxOps 1, MaxStack 1, non-witness pkScripts and refused byte strings | TypeOK, ExecuteTerminates | pass, 548 states |
| `engine_unexpected_witness` | MaxOps 1, MaxStack 1, non-witness pkScripts with a witness | NoUnexpectedWitness | violation |
| `frozen_period` | 7-bit words: every int64 | LockIsNextPeriod | pass, 257 states |
| `punishment_store` | 3 keys (1 of a bad length), heights 1..2, areas ≤ 2 | TypeOK, RefinesLedger | pass, 5,224 states |
| `disk_space_safe` | 5-bit words, reserve 3, requests ≤ MaxInt - 3 | CheckExact | pass, 6,672 states |
| `disk_space_wrap` | 5-bit words, every uint64 request | CheckExact | violation |
| `next_challenge` | 3-bit heights ≤ 6, window 3, 7 nodes | ChallengeWindow | pass, 181,385 states |
| `config_registry` | 8 standard networks, 2 genesis bodies | HDKeyLookup, SegwitPrefixRecognised | pass, 257 states |
| `config_mock_genesis` | a mock genesis body | GenesisConsistent | violation |
| `future_blocks` | batches ≤ 3, times 0..5 s, tolerance 3 s | FilterExact | pass, 518,322 states, about 20 s |

Why the bounds are enough:
- With MaxOps 2 and three counted opcodes, the ops limit is both reached and
  exceeded.
- With MaxStack 3, two witness scripts of two pushes each overflow after the
  hand-over. The runs reach the overflow error, the MissingEndif error, and
  accepted staking and binding spends.
- Each mutant of `PROJECT.json` is caught under the cfg of its run.
- Deadlock checking is off because a returned engine (accepted or rejected)
  really stops. The same holds for `future_blocks`: a returned
  `preventBlocksFromFuture` stops once the clock has reached its bound.
- `frozen_period` tries every int64 of a 7-bit word; the guard, the wrap and
  the conversion depend only on the distance to MaxInt and MinInt, which a
  small width has as well as 64 bits.
- `punishment_store` reaches a failure after a first write of an area, a key
  twice in one area and a key banned again at a later height.
- `next_challenge` has forks and chains longer than the window, so both the
  `Height+1` and the `MaxReferredBlocks` size occur.
- `config_registry` registers every subset of eight networks in every order,
  ChainParams among them, and installs mock genesis blocks in between.

**Fairness.** `FairSpec` assumes weak fairness of `Next`. The code justifies
it: `Execute` is one sequential loop that calls `Step` again until it
reports done or an error, so an enabled step is always taken.
`FutureBlocks` has no fairness and no liveness property: its loop is a
`range` over a finite slice with no blocking call, so that it returns says
nothing about this code.

**Finding (engine_unexpected_witness).** `NewEngine` checks for witness data
only inside the witness-program branch (lines 655-663), and there the program
is never nil. An input that spends a non-witness pkScript while carrying
witness data is executed with the witness ignored, and can be accepted. The
check kept commented out at 684-689 says that in this case there MUST NOT be
any witness data. The same rule is BIP141's.

**Finding (disk_space_wrap).** `CheckDiskSpaceWin` adds `additional` and
`MinDiskSpace` as uint64 and compares after `int64(...)`. A request near
2^64 wraps to a small sum, and one at or above 2^63 becomes negative, so
the check answers "room" even when `GetDiskFreeSpaceExW` failed and 0
bytes were read (`disk_windows.go:32`).

`Register`'s doc comment promises `ErrDuplicateNet` for a network already
registered, and the code always returns nil (`engine.go:777`). Registering
the same `Params` again writes the same entries, so the registry cannot
show the difference; the model does not record the return value, and no
run is spent on it.

**Finding (config_mock_genesis).** `UpdateGenesisBlock` installs the mock
block and gives it the new ChainID, but hashes the package's
`genesisHeader`: for a mock block whose other header fields differ,
`ChainParams.GenesisHash` is not its hash (`engine.go:953`).

## 5. Proofs

### `ScriptEngine_proofs.tla`

The proofs assume only `EngineAssumption`:
- both limits are naturals;
- the pkScripts, inputs and flag sets have the shapes the model reads;
- every script that parsed (`bytes` is `ok` or `large`) has at least one
  opcode (`ParsedNonEmpty`). `parseScript` returns one opcode per push or
  operation of a non-empty byte string. `NewEngine` refuses an empty
  pkScript before parsing it, and `verifyWitnessProgram` refuses an empty
  witness element with `ErrWitnessLength`, so this holds of every script
  the engine runs.
  Without it `Step` would index an empty script, which is exactly what
  `PCStaysValid` rules out.

**The inductive invariant.** `Inv` is `TypeOK /\ FreshEngine /\
ScriptBoundaryClean /\ StackBounded`. `StackBounded` (the data and alt
stacks together within `maxStackSize` once an opcode has run) is not a run's
property, since it restates the single check at line 232; it is carried so
that `CheckErrorCondition` keeps the alt stack within `TypeOK`. `FreshEngine` says the engine is
untouched before `NewEngine`. It is needed because `NewEngine` starts the
first script from whatever stacks the state holds, and `ScriptBoundaryClean`
alone says nothing about the state before it.

Three more invariants are proved inductive on top of `Inv` (`SpecAll`):
- `PCInv`: the inputs stay among the constants, every script is non-empty
  (`AllNonEmpty`), a running engine has a valid program counter, and
  `ErrPastInputScripts` is never returned.
- `WInv`: the script list is empty, the pkScript alone, or, after a
  successful `verifyWitnessProgram`, the pkScript followed by what it
  returned; an engine past `NewEngine` has a script; a witness program
  reaches the check only after the hand-over (two scripts or more); while
  the pkScript runs, it is the only script.
- `LInv`: when a lock is required and not satisfied and the hand-over has
  happened, the engine is still running the lock script (at its
  `OP_TRUE` with no `OP_IF` open, or at its `OP_CHECKSEQUENCEVERIFY` with
  an element on the stack) or has rejected. `WitnessEnforced` and
  `LockEnforced` speak of the final state only; these invariants carry what
  happened at the hand-over, many steps earlier, to it.

**Theorems.**
- `InvInductive`: `Spec => []Inv`; `TypeCorrect` and `BoundaryClean`
  follow from it, for every `MaxOpsPerScript`,
  `MaxStackSize` and input.
- `PCValid`: `Spec => []PCStaysValid`.
- `WitnessEnforcedThm`: `Spec => []WitnessEnforced`.
- `LockEnforcedThm`: `Spec => []LockEnforced`.

**How the proof is built.**
- There is one lemma per action: `NewEngineInv`, `StepInv`,
  `CheckErrorConditionInv`. `StepInv` rests on `StepBodyInv`, which proves
  the body of `Step` for an arbitrary result `r` of `executeOpcode`, so the
  opcode semantics are never unfolded there. They share `RejectInv` (a returned error keeps
  the invariant) and `EndScriptInv` (a script end with every `OP_IF` closed
  resets the alt stack and count). The same layout serves `PCInv`
  (`NewEnginePC`, `StepPC`, `CheckErrorConditionPC`), `WInv` (`StepWInv`,
  `NextWInv`) and `LInv` (`StepLInv`, `NextLInv`).
- `StepCases` gives the four outcomes of a `Step`: an error, the next
  opcode, the next script, or the hand-over to the witness.
- These rest on lemmas about the operators:
  - `OpFuncType`: one case per opfunc arm, each arm resolved first and then
    typed;
  - `ExecuteOpcodeType`: the op-count bound;
  - `VerifyWitnessProgramType`, `VerifyWitnessProgramScripts`,
    `VerifyWitnessProgramOk` (what a successful call checked and returned),
    and `ExtraScripts` and `HandedOver` (the scripts after the hand-over,
    element by element);
  - `ExecPushTrue` and `ExecCSVFails`: the two opcodes of the lock script;
  - `PopTopType`, `ExceptType`, `ConcatNonEmpty` and `LastTwo` (the last
    two elements of a sequence as a `SubSeq`), the sequence facts coming
    from the library's `SequenceTheorems`.
- `ExecuteTerminates` stays with TLC (liveness).

### `ChainConfig_proofs.tla`

`HDKeyLookupCorrect` and `SegwitPrefixCorrect`: `Spec => []HDKeyLookup`
and `Spec => []SegwitPrefixRecognised`, for every set of networks that
satisfies `StandardNets`: no two networks share an HD private magic, and no
hrp is in upper case. Neither conjunct can be dropped: `Register`
overwrites the HD map entry of an earlier network with the same magic
(two networks sharing it cannot both be answered), and
`IsBech32SegwitPrefix` lower-cases only the query (the upper-case hazard). `MC_ChainConfig` states
`StandardNets(MCNets)` as an assumption, so TLC checks the hypothesis holds
of the instance the run uses. The inductive invariant `RInv` says the maps
hold exactly the entries of the registered networks; `RegisteredRInv` is
the step of one `Register`, and `RInvHDKeyLookup` and `RInvSegwit` derive
the properties from it. `Registered` writes the map update as an explicit
function, because the prover cannot expand TLC's `:>` and `@@`.

### `FutureBlocks_proofs.tla`

`FilterCorrect`: `Spec => []FilterExact` for every tolerance, clock range
and batch length (`FutureAssumption`), however the wall clock moves. The
invariant `FInv` says that while the loop runs `readAt` holds one reading
per block passed, each of which was within tolerance of its reading
(`Checked`); that after `return nil` every block passed; and that after an
error the last reading is that of the first block from the future. It is
needed because `FilterExact` speaks only of the result, while the readings
that justify it were taken at earlier `CheckBlock` steps.

### `FrozenPeriod_proofs.tla`

From `FrozenAssumption` (Width and 2^(Width-1) positive naturals):
`StakingLockCorrect`: `Spec => []LockIsNextPeriod` for every width. The
inductive invariant is `TypeOK /\ LockIsNextPeriod` (the property speaks
only of the last call, so the type invariant suffices). It rests on
`AddOne` (the wrapping successor is `fp+1` below MaxInt and MinInt at
MaxInt) and `StakingLockDecoded` (the guard and lock for a decoded period),
which use `ModSmall` and `ModRange`.

### `PunishmentLedger_proofs.tla`

`LedgerConsistency`: `LedgerSpec => []LedgerConsistent`, by the inductive
invariant `LedgerTypeOK /\ LedgerConsistent`. `BanBlock` keeps it because
every height in BANHGT and every ban in BANPK is below `tip+1`.

### `PunishmentStore_proofs.tla`

`Refinement`: `Spec => RefinesLedger` for every set of keys, heights and
area sizes (`StoreAssumption`). The invariant `SInv` is `TypeOK /\
BatchOK`; `BatchOK` says that a batch whose helper returned nil holds
exactly the writes of one ledger operation (for a block: every key of the
area banned at `tip+1`, deleted from PUNISH and listed in BANHGT, with
`tip < MaxHeight`). It is needed because the refinement step is the
`Commit`, while the content of the batch was decided at the earlier
`Build...` step. Lemmas per helper (`BlockBatchOK`, `InsertBatchOK`,
`DropBatchOK`), `CommitCases`, `CommitSInv`, `NextSInv`; then
`InitRefines`, `CommitRefines` and `NextRefines` map every step to a ledger
step or a stutter. `TypeCorrect`: `Spec => []TypeOK`, from `SInv`. With
the ledger's `LedgerConsistency`, the refinement gives that BANPK and
BANHGT agree on the committed tables for every value of the constants.

### `DiskSpace_proofs.tla`

`SafeCheckExact`: under `SafeRequests` (a reserve in 1..MaxInt and requests
at most MaxInt - MinDiskSpace), `Spec => []CheckExact` for every width. The
invariant adds `additional \in Requests` to `TypeOK /\ CheckExact`, because
the arithmetic lemma `CheckArith` holds only for requests in range. The
run `disk_space_wrap` shows the hypothesis is needed.

### `NextChallenge_proofs.tla`

`ChallengeWindowCorrect`: under `HeightsBelowTop` (`MaxHeight <
Modulus - 1`, no block at the largest height, where `Height+1` wraps; the
hazard at `disk_windows.go:190`, which `MC_NextChallenge` assumes as
`MCHeightsBelowTop`), `Spec => []ChallengeWindow` for every width, window
size and tree size. The inductive invariant `CInv` is `TypeOK /\ TreeOK /\
WalkOK`, plus `lastNode # Nil` while the loop runs:
`TreeOK` says every node is genesis (no parent, height 0) or one above its
parent, which `ConnectBlock` keeps because it only adds nodes and never
changes an existing `Parent`. `WalkOK` describes a call in flight: `size`
is `Window(height[lastNode])`, the headers read so far are the nodes of
heights `h, h-1, ...` down the parent chain, and `refNode` is the parent of
the last one. It is needed because `ChallengeWindow` speaks only of
finished calls, while the loop builds the window one step at a time.
`CollectCInv` uses `TreeOK` to show that, while fewer than `size <= h+1`
headers have been read, the last one read has height `h-(n-1) > 0`, so it
is not genesis and its parent, of height `h-n`, is a real node, never
`Nil`. TLC checks `CInv` on all states of the
`next_challenge` instance. The proof uses no recursion, since the walk is a
sequence of steps.

### Only model-checked

- Liveness (`ExecuteTerminates`): TLAPS does not reason about
  `ENABLED` and fairness here.
- The violation runs (`engine_unexpected_witness`, `disk_space_wrap`,
  `config_mock_genesis`): they show a property
  fails, which TLC's counterexample establishes.

## 6. Not modelled, and why

- The signature and public-key encoding checks (`engine.go` 323-477). They
  are pure byte predicates with no effect on the engine's control beyond an
  error; their opcodes are not among the modelled kinds.
- The disassembly, GetStack/SetStack and curPC helpers. The engine's own
  control does not call them in a way that changes state.
- The element-size check at `engine.go` 613-617: it reads the data stack
  after `Step` emptied it (254), so it never fails; no property can observe
  a check that never runs (hazard listed).
- The constant fields of `Params` (ports, seeds, PoC limits, subsidy,
  checkpoints): data that no operation changes.
- `challenge.CalcNextChallenge`, `CalcNextTarget` and the difficulty
  package: not in this repository; `calcNextTarget` only forwards to them.
- `makeScriptNum`, `GetChainID`, `BlockHash`, the storage batch and
  `insertFaultPk`: not in this repository; modelled by their effect (any
  int64, injective functions, a set of writes, a step that may fail).
- Two boundaries are recorded as hazards rather than runs:
  `lastNode.Height+1` wraps to 0 at the largest uint64 height
  (`disk_windows.go:190`), which no chain reaches, so `next_challenge`
  keeps heights below it; and an hrp registered in upper case is never
  recognised, since `Register` stores it as given and
  `IsBech32SegwitPrefix` lower-cases only the query (`engine.go:784`), a
  case ChainParams does not have, so `config_registry` keeps lower-case
  hrps.
- The uint16 count of BANHGT is computed modulo 2^16 but never read back in
  this repository, so no reader can be misled by it, and an area of 65536
  keys is beyond TLC.
- The Merkle-Patricia trie of `spec.md`: its code is not under `src/`, only
  its tests.
- Test helpers (`poc`, `unnamed/part_000`): no system state.

## 7. Plan for the next sittings

1. The trie of `spec.md`, modelled from the spec (`spec_modelled`), with an
   abstract key-value specification and a refinement.
