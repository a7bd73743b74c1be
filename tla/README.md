# Formal models of the Quantaureum node (qau)

TLA+ models of the parts of the Go node under `src/` that decide which blocks
are final, which block is the head, who may take part in consensus, how a committee
signs a seal and how calls run in parallel. TLC
checks them on small instances; TLAPS proves the central invariants for every
value of the constants. The code is the reference: every definition names, in
`PROJECT.json` under `map`, the lines it translates.

| module | models | form |
|---|---|---|
| `BlockTree` | headers, slots, epochs, chains, checkpoint arithmetic | constants only |
| `QPOSFinality` | the finality state of the QPOS engine and its durable copy | one operator per method |
| `QPOSFinality_proof` | its theorems | TLAPS |
| `NodeChain` | the node around the engine: store, head, import, production, fork acceptance, rollback, restart | one action per locked section |
| `NodeChain_proof` | its theorems, among them that it implements `QPOSFinality` | TLAPS |
| `Slashing` | evidence queue, SlashingManager, ValidatorManager, slash marks | one action per locked section |
| `Slashing_proof` | its theorems | TLAPS |
| `SingleUse` | what the signing journal promises | abstract specification |
| `SingleUseRecord` | the journal's record and its allowed transitions | operators |
| `ThresholdSigning` | parties, driver and journal of one signing session | one action per journal write, broadcast or message |
| `ThresholdSigning_proof` | its theorems, among them that it implements `SingleUse` | TLAPS |
| `SealSubset` | which members sign which attempt | operators |
| `SealAttempts` | the attempts to seal one slot, on every node of the committee | one action per locked section |
| `SealAttempts_proof` | its theorems | TLAPS |
| `MVMemory` | the multi-version memory of parallel calls | operators |
| `ParallelQVM` | rounds, validation, retries and fallback of parallel calls | one action per memory access |
| `ParallelQVM_facts`, `ParallelQVM_proof` | its invariant with lemmas on its operators and the workers' steps; the other steps with the theorems | TLAPS |
| `MC...` | instances for TLC; `MCNodeForks` and `MCNodeEngine` put two nodes with different constants side by side, `MCSealing` the two layers of sealing | |
| `MCNodeForks_proof` | the producing node of `MCNodeForks` inherits the theorems of `NodeChain` | TLAPS |

## 1. The system

A node (`src/node`) keeps one chain of blocks in a store
(`src/qaudb/block/block_store.go`), executes them against a state database and
runs a proof-of-stake engine, QPOS (`src/consensus`). Time is divided into slots,
32 to an epoch. A validator elected for a slot proposes a block; committees attest
to it. The *checkpoint* of an epoch is the block on its boundary slot, or the last
block before it. A checkpoint is *justified* by votes of two thirds of the stake
and *finalized* when the next epoch is justified on top of it (Casper FFG). A QTD
seal, a threshold signature of a committee over one block, finalizes at once.

What interacts:

* **QPOS finality state** (`qpos.go`, `qpos_finality.go`, `qpos_forkchoice.go`,
  `qpos_proposer.go`, `r101_epoch_root_backfill.go`, `qtd_finality.go`).
  State: justified and finalized checkpoint; `epochBlockRoots`, the checkpoint
  root of each epoch; `slotBlockRoots`, the canonical block of each slot; the pin of
  the finalized checkpoint's slot; the set of replayed headers; QTD seals; the flag
  that a durable write is outstanding. Every method locks `q.mu`. The durable record
  is written by a callback under that lock.
* **Node** (`node.go`, `syncer.go`, `block_producer.go`, `adapters.go`,
  `state_trust.go`, `r107_finality_persist.go`). State: the head, under `n.mu`; the
  store; the syncer's fork bookkeeping; whether the state is still trusted.
  Goroutines: the insert loop, the pending-block paths, the producer, the operator's
  fork recovery. They call the engine between their own locked sections.
* **Slashing** (`slashing.go`, `qpos_slashing.go`, `validator.go`,
  `validator_manager.go`). Three objects with a lock each: QPOS with its evidence
  queue and slash marks, the SlashingManager with signing info, recorded offenses and
  pending lists, and the ValidatorManager with stakes and bans. What crosses from one
  to another runs on a goroutine; two ten-second loops (queue drain, pending sync)
  pick up what was missed; the offense records are on disk.
* **Sealing** (`tdilithium3_signing_*.go` and `wallet/tss/protocol`). For each slot a
  node runs *attempts*, each with a subset of the committee as signers. An attempt runs
  candidate *sessions* of the threshold signature; in each the signers go through four
  rounds and each keeps a durable record, because material of a session must be
  used once. The completed signature is the seal that `CompleteSeal` of the engine and
  `Seal` of the node consume.
* **Parallel calls** (`src/qvm/parallel`). A batch of contract calls is executed by
  workers over a memory that keeps one version per call and key; a round is validated
  and repeated on a conflict, and when the retries are spent the batch is executed in
  order.

The other parts (transaction pool, interpreter, bridge, rollup, economics, network, wallet
and so on) are inventoried in section 11 and in `PROJECT.json` under `components`.

## 2. QPOSFinality: the finality engine

`qpos` is a record with the engine's fields and `disk`, the durable record.
Each method is an operator from the record before the call to the record after it,
since a method holds `q.mu` from start to end: `SetEpochBlockRoot`,
`EnsureEpochBlockRoot`, `RecordSlotRoot` with `ReconcileCanonicalSeal`,
`ApplyBlockHeader`, `AdoptHeaderFinality`, `JustifyPrevEpoch` (the part of
`tryUpdateFinality` after the votes are counted), `CompleteSeal`,
`BackfillEpochRoots`, `ReanchorSlotRoots` with the re-drive of seals, `StartUp`.
A write's argument `ok` says whether the database takes it; `PutFinalityState`'s own
refusals are `PutFinalityStateAccepts`.

`Next` lets any caller call any method with any block at any time, with failing
writes and restarts in between. This is weaker than what the node does. It is the
contract the engine must keep whoever calls it, and `NodeChain` is checked and proved
to stay within it (`DrivesEngine`). A re-anchor's plan is one of `ReanchorPlans`: a
segment above an ancestor (`PlanAbove`), or the end of a walk that met none
(`PlanUnrooted`).

Abstractions. A block is its hash, and a header is the five fields finality reads.
The weighing of votes is a quorum that forms or does not. A header's checkpoints
satisfy `finalized <= justified <= epoch`: the upper bounds are validated
(`HeaderFinalityCheckpointsValid`), the order is that of the proposer's own ratchet
and is an assumption (`HeaderAssumption`). `ReanchorFinalityToGenesis` is called only
in the start-up that the environment variable `QAU_FINALITY_REANCHOR` selects. The
idempotency set of `ApplyBlockHeader` evicts arbitrary members (Go map order).
Fields `currentSlot` and `currentEpoch` are never assigned in the code, so the prune
cutoffs that use them have no effect and are left out.

## 3. NodeChain: the node around the engine

State: `store` (one block per height), `head`, one `job` per import goroutine with
its program counter, `prod`, `operator`, the syncer's `forks`, `trusted`,
`lastEpoch`, `backfilled`. A step ends where the code releases a lock, so two
goroutines interleave exactly where they can in the code.

| actor | steps |
|---|---|
| insert, pending | `Receive` or `ReceiveFork`; `PutBlock`; `ApplyBlock`; `TruncateForFork`; for insert also `DecideHead` (under `n.mu`), `WriteSlotRoot`, `AdoptFinality`, `WriteEpochRoot`, `EnsureEpochState` |
| producer | `BuildBlock`, `CommitProduced`, `ProducedEpochRoot`, `ProducedEnsure` (these hold `n.mu`), `StoreProduced` with the conflict reload |
| operator | `RollbackHead`, `RollbackStore` |
| environment | `TryUpdateFinality`, `Seal`, `Backfill`, `RestartNode` |

`CommitHeadSwitch` is `commitHeadSwitchWithHintLocked` with its plan, its finality
veto and its refusals; it is used by import, conflict reload and rollback as in the
code.

Abstractions. Whether the node is in sync mode, and whether enough peers agreed on a
fork, are free choices, so the counters behind them are left out;
`clearForkAcceptedBelow` is applied after every import. The pending buffer is a later
delivery. A quorum is one beacon block with a source epoch; two quorums never vote
for two checkpoints of one epoch (`QuorumAssumption`). A failure of the state
database shows only as a loss of trust. The latest block is the highest stored one.

## 4. Slashing

A goroutine is a member of `calls`, and its `op` names the locked section it runs
next. `draining` holds what each drain has taken from the queue and not submitted;
`sync` is the progress of `SyncPendingSlashes`. `cuts` is a history variable.
`IndexOf` is the engine's index of an address, by which marks are kept.

Abstractions. An offense is what `createOffenseKey` tells apart. Double votes stand
for all permanent reasons, downtime for the temporary ones. A unit of time is a jail
term, and `Tick` waits until goroutines, drains and sync have nothing left to do,
as an hour is long against ten seconds. The 60-second rate limit may or may not have
run out whenever it applies. A restart happens only when all validators are in
the set, because the set is then rebuilt from genesis. `SaveSlashingRecord` does not
fail. Investigations, the reporter's reward, the deferred deactivation, the broadcast
of evidence and the ministries' own records are left out. `Unjail` and
`HandleBlockFinalized` have no caller in production code yet; they are modelled as
public operations.

## 5. ThresholdSigning: one session of the threshold signature

A session has `Threshold` signers. Those in `Local` are modelled in full: `journal`, the
durable record of a signer (`sign_journal.go`), and `party`, every party object its node
builds for the session (`sign_executor.go`, `sign_executor_party.go`) together with the
loop that drives it (`tdilithium3_signing_slot.go`). The other signers are seen through
their messages, `RemoteSays`, which may contradict each other.

A party draws its randomness when it is built, so the k-th party of a signer is the draw
`k` its payloads come from. A node builds a second party for a session when a seal
request is announced again, after a restart or beside a candidate that is still running.

| step | code |
|---|---|
| `Start`, `StartCommit` | `start`: two journal transactions, then the commit message |
| `Deliver` | the gate's `Observe`, `deliver` and the rounds of `advanceLocked` that write nothing durable |
| `Reject`, `Respond`, `Combine` | the rounds of `advanceLocked` that write the journal |
| `Send`, `SendFails`, `Close` | the driver's loop: broadcast, give up, `Finish` |
| `Crash` | memory is lost, `OpenSigningJournal` burns every open record |

A step lies between two journal transactions, two broadcasts or two messages: there
another party of the node, or a crash, can come in. Messages stay in `sent`, so they
arrive in any order, again or never.

`SingleUse` is the abstract specification: a record only moves forward and binds one
draw, and a signer says only what its record named *before*. `SingleUseSpec` is that
specification under the mapping `record <- journal`, `said <-` what the signer has put
on the wire; `ThresholdSigning` is checked and proved to implement it.

Abstractions. A payload is the draw it comes from; a reveal opens a commit of the same
draw. Whether a signer's own response passes the rejection test, and whether the public
combine checks pass, are free choices. Envelope signatures are taken as verified.

## 6. SealAttempts: getting one slot sealed

`node` holds, for every member of the committee, whether its pending seal exists, the
number of ordinals admitted, its runs (goroutines of `tdilithium3SealSigningRun`), the
starts about to latch, the latch and its waiters, the attempts its journal consumed, and
the announcements on their way to it. Who signs attempt k is `schedule`, computed by
`SealSubset` as the code does (a round-robin of pairs that sit out, filtered by stake);
TLC evaluates for the pinned sizes 6 and 7 that every pair sits out once per cycle
(`EveryPairOnce`), that every member but the bye sits out two of six attempts
(`EveryMemberSitsOut`) and that the signers keep the required stake (`StakeKept`).

Actions: `Propose`, `Receive` (`handleQTDSealRequest`), `PendingArrives`, `Latch`, `Poll`,
`Fire`, `Expire` (the deferred start and its waiter), `Leave`, `Join`, `Seal`,
`Unreachable`, `Silence`, `Setback`, `AdvanceAttempt` (the loop of a run), `CloseWindow`.

Abstractions. An attempt seals when all its signers take part; what happens inside is
section 5. There are no clocks. What the code's time-outs (15 s for a candidate, 30 s for
a latch, the retry window) make unlikely and not impossible is allowed, but counted as a
*mishap*: an announcement or a goroutine that is overtaken, an expired latch, a filtered
attempt, the end of the window. A candidate is given up for silence only when nothing
else is left to happen (`Settled`). The whole path is behind an experimental switch and
excluded on mainnet; the model is of a node that has it on. Requests are for one block of the slot. The executor
permit and the prebuilt shells are left out.

## 7. ParallelQVM: parallel calls

The node builds a `ParallelQVM` only when parallel execution is enabled, which
production configurations refuse (`node.go:2605`); `Execute` works in consensus mode only.

State: the batch `calls`; `mem`, the versions per account (`MVMemory`); `base`, the state
below; one record per worker; the channel `ready`, the dependency graph `deps`,
`completed`, `results` with read and write sets, incarnations, retries and the `stage`
of `Execute`. A worker's step is one access to the shared memory, so a read and the write
of another call interleave as in the code. `Round` is the start of a round with the
dependency analysis (none under speculation), `FinishRound` the validation, with the
merge or the next round, `SequentialCall` one call of the fallback. The calls ready at the
start are queued in any order (`Orders`, a Go map's iteration); those a completed call
releases in the order of the batch (`InOrder`).

The calls are transfers to accounts without code (`executeTransfer`). Left out: runs of
the interpreter, snapshots and reverts, panics, the stop channel, metrics, and the code,
nonce and storage keys, which the memory treats as it treats balances.

## 8. Runs

`tlc -config <run>.cfg <module>`. Deadlock is checked where the specification
always has a next step (`QPOSFinality`). In the other runs the node may have nothing
left to receive or do, so `CHECK_DEADLOCK FALSE` is set.

| run | module | checks | distinct states |
|---|---|---|---|
| `QPOSFinality` | MCQPOSFinality | `TypeOK`, `FinalizedNotAboveJustified`, `DurableRecordRestorable`, `DurableUnlessPending`, `DiskNotAhead`, `DurableFinalityIrrevocable`, `OnlyCanonicalRootsDurable`, `CheckpointRootsKept` | 38,857 |
| `NodeForks` | MCNodeForks | `NodeTypeOK`, `HeadCompatibleWithFinalized`, `ProducerHeadBacked`, `ProducerNoGhostSlotRoots`, `FinalizedBlockKept` | 181,743 |
| `NodeEngine` | MCNodeEngine | `DurableRecordRestorable`, `DrivesEngine` | 277,158 |
| `SlashingRaces` | MCSlashing | `BanNotLost`, `PermanentBanSticks` | 799,661 |
| `SlashingChurn` | MCSlashing | `OneCutPerOffense`, `SlashingTypeOK`, `ManagersAgreeOnBans` | 3.0 million |
| `SlashingLive` | MCSlashing | `OthersEvidenceKept`, `QueuedOffenderBanned` | 70,736 |
| `Sealing` | MCSealing | `TypeOK`, `RejectedSlotOpensNothing`, `SlotConsumed`, `SingleUseSpec`; `SealTypeOK`, `OneAttemptLive`, `AttemptsOneByOne`, `LatchResolves`, `CommitteeSeals` | 295,337 |
| `ParallelQVM` | MCParallelQVM | `ParallelTypeOK`, `ValidatedIsSerial`, `FallbackIsSerial`, `ContractCallsInOrder`, `ExecuteReturns` | 410,530 |
| `NodeForkRace` | MCNodeChain | `FinalizedBlockKept`, violated | |
| `SlashingReindex` | MCSlashing | `OnlyOffendersBarred`, violated | |
| `SlashingAfterRestart` | MCSlashing | `RecordedBanEnforced`, violated | |
| `ParallelFallback` | MCParallelQVM | `SequentialConsistency`, violated | |

**QPOSFinality.** Can any order of calls, failed writes and restarts leave on disk a
record that is unrestorable, moved back, re-rooted, taken from a placeholder or out of
step with memory, or prune a root still in use? No. Two blocks fork at genesis. `a` sits
on the boundary of epoch 2 and `b` misses that of epoch 3, so both ways of finding a
checkpoint root occur and the branches disagree. Room for two epoch roots makes
pruning run with the checkpoints in every relative position. The constraint `Few`
allows two seals, two replayed headers or one of each.

**NodeForks.** Two nodes side by side, one per behaviour. The first produces blocks
and races both import goroutines, seals and one restart over both branches. The second
imports with one goroutine, accepts a fork at height 1 and learns finality from votes and
headers. In both the head never conflicts with the finalized block and the store keeps
it. At rest the trusted producer also has its head in the store and no slot root of a
dropped block. With a fork *and* seals `FinalizedBlockKept` fails, which is what
`NodeForkRace` shows.

**NodeEngine.** The detailed node implements the engine's specification: each step is
one call of `QPOSFinality` or leaves the engine alone, so what is proved of
`QPOSFinality` holds of the node. The mapping is the identity on `qpos`. Again two nodes:
one with seals, forks, failing writes, the operator's re-anchor and a restart, whose own
block sits on an epoch boundary, and one whose operator rolls back while it imports and
produces. One node with all of it exceeds what TLC does in a few minutes.

**SlashingRaces.** A double vote and a downtime offense of one validator, over all
interleavings of submission, marking, sync, unjail and the passing of a jail term.

**SlashingChurn.** A validator leaves and rejoins the set and the node restarts once,
while its evidence is still on its way over several paths.

**SlashingLive.** Three double votes of two validators and a queue of one entry.
Evidence about one validator never displaces another's; whatever got into the queue
ends in a permanent ban.

**Sealing.** The two layers share no variable and every property is about one of them, so
each is explored with the other at rest. *Session:* signer 1's node builds two parties and
signer 2's one, signer 3 accepts and rejects and may reveal another draw; one crash, one
failed write or broadcast. *Attempts:* a committee of four, one member that may be down,
one whose pending seal is late, one mishap. Only one attempt is live on a node,
ordinals are admitted one by one, no latch stays unwatched, and the slot is sealed or its
window passes. The slots 0 and 2 of the cycle and another late member were checked too
(722,000 and 143,000 states).

**ParallelQVM.** All batches of up to three of six transfers, three workers, with and
without speculation. A round that is validated has the balances and outcomes of serial
execution, and so has the fallback when every call can pay.

### Bounds

| bound | value | why it is enough |
|---|---|---|
| `SlotsPerEpoch` | 2 | a boundary and a non-boundary slot; the code only tests `slot % 32 = 0` and divides |
| `MaxEpoch` | 2, 3 | epoch 2 is the first in which `tryUpdateFinality` acts; 3 is the first for which the prune cutoff is above 1 |
| `MaxEpochRoots` | 2, 10 | 2 makes pruning happen in a short run; in the node runs it never does, as in the code's first ten epochs |
| blocks | 3 to 5 | two branches of two blocks disagree on a checkpoint and have a common ancestor. The own block of `NodeForks` misses the boundary; section 10 says what a boundary block does |
| `MaxRestarts`, `MaxCrashes` | 0 or 1 | a second restart starts from a disk the first could have left |
| validators, offenses | 2, up to 3 | one offender, one bystander whose index or queue entry can be touched |
| `MaxEvidenceQueue`, `MaxEvidencePerValidator` | 1 or 2 | the queue is full after one or two entries |
| `MaxCalls` | 1 or 2 | bounds only when another offense is observed; marks, drains and sync add their own goroutines |
| `MaxTime`, `JailDuration` | 0 or 1, 1 | a jail that is over and one that is not |
| `Threshold`, `Values`, `MaxFaults` | 3, 2, 1 | two modelled signers and one seen by its messages; two draws tell a second transcript from the first. The pinned rows are 4 of 6 and 5 of 7; the theorems are for every threshold |
| `Size`, `MaxAttempts` | 4, 4 | two sit out, as in the pinned rows; a slot's two pairs come twice |
| `MaxOffline`, `MaxMishaps` | 1, 1 | the header of `tdilithium3_signing_seal.go` promises one offline member; with more of either the attempts can run out |
| batches, `Workers`, `MaxRetries` | up to 3 calls, 3, 2 | a reader between two writers; one worker per call; two repeated rounds and the fallback |

### Fairness

`SlashingLive`: `FairSpec` has weak fairness of each goroutine (the Go scheduler runs a
runnable goroutine, and none blocks forever: the locks are held over finite sections), of
the wiring of the manager at start-up, and of the two loops, which are tickers that run
until shutdown. Nothing makes an offense, a transaction, a restart or the end of a jail
term happen.

`Sealing`: weak fairness of `SealWork` as a whole, the goroutines, timers and deliveries of
the online members; an announcement that no mishap touches arrives. Mishaps need not
happen. The session layer has none.

`ParallelQVM`: weak fairness of each worker and of the steps of `Execute`, all of them
goroutines that never block except on the channel the model has.

## 9. Proofs

Eight modules hold theorems; `tlapm <module>.tla` checks each in some minutes.

| module | theorems |
|---|---|
| `QPOSFinality_proof` | `TypeCorrect`, `FinalizedBehind`, `NothingLost`, `NothingResurrected`, `DurableIrrevocable`, `PlaceholdersNotDurable`, `RestartPossible`, `RootsKept` |
| `NodeChain_proof` | `NodeDrivesEngine`, `NodeTypeCorrect`, `NodeKeepsFinality`, `HeadStored`, `StoreKept`, `SlotRootsInvariance`, `NoGhosts`, `NoGhostsInReach`, `CheckpointsInvariance`, `HeadFollowsFinality`, `GateProtects`, `GateKeepsFinalized` |
| `MCNodeForks_proof` | `ProducerHeadStored`, `ProducerLeavesNoGhosts` |
| `Slashing_proof` | `TypeCorrect`, `SlashedOnce`, `BansAgree`, `BanSticks`, `BanArrives`, `RecordsEnforced`, `OffendersBarred`, `OthersKept` |
| `ThresholdSigning_proof` | `TypeCorrect`, `NoSecondTranscript`, `RejectionHolds`, `Refinement`, `FourConsume` |
| `SealAttempts_proof` | `OrdinalsInRange`, `SingleLiveRun`, `OrdinalsOneByOne` |
| `ParallelQVM_facts`, `ParallelQVM_proof` | `TypeCorrect`, `Validated`, `Fallback`, `ConsistentUnlessTainted`, `ContractOrder` |

**Assumptions.** `ConstantsAssumption`, `HeaderAssumption`, `TreeAssumption`,
`FinalityConstantsAssumption` for the engine, with `NodeConstantsAssumption` for the
node; `SlashingConstants`, `NoneIsNoEntry` for slashing, `NoneAssumption` and
`SigningAssumption` for signing, `SealAssumption` for the attempts, `ParallelAssumption`
for the parallel calls. They are typing of the constants, the parent and height rules of
block validation, and the order of a header's checkpoints discussed in section 2. Sets of
blocks, validators, offenses, signers, nodes, workers and accounts, the batches, the
schedule of signers, the epoch length and all bounds are arbitrary. Some results have a
hypothesis of their own. All but `OneInserter` exclude behaviours that do break a
property, as the named runs or section 10 show; `OneInserter` limits the proof, and
whether the theorems hold without it is open.

| hypothesis | says | needed by |
|---|---|---|
| `Undisturbed` | no fork is accepted below the head, no operator rolls back, no write is refused | `HeadStored`, `StoreKept`, the slot roots, the checkpoints, `HeadFollowsFinality`, `MCNodeForks_proof` |
| `[][ReachesAncestor]_vars`, or all heights below `MaxReorgDepth` | a head switch finds the common ancestor | the slot roots: `SlotRootsInvariance`, `NoGhosts`; `NoGhostsInReach`, `ProducerLeavesNoGhosts` |
| `OwnInsideEpochs` | the node does not propose on the first slot of an epoch | `CheckpointsInvariance`, `HeadFollowsFinality` |
| `OneInserter` | one goroutine inserts, nothing is produced, no operator rolls back | `GateProtects`, `GateKeepsFinalized` |
| `[][GateStands]_vars` | finality gains no block between the gate and the truncation | the same (run `NodeForkRace`) |
| `[]SlotKnown` | the engine does not understate the finalized block's slot | `GateKeepsFinalized` |
| `[][NobodyLeaves]_vars` | no validator withdraws its whole stake | `BanSticks`, `BanArrives`, `RecordsEnforced`, `OffendersBarred` (run `SlashingReindex`) |
| `[][StaysUp]_vars` | the node does not restart | `BanSticks`, `RecordsEnforced` (run `SlashingAfterRestart`) |
| `FailuresIsolated` | no call that moves value shares an account with an earlier one that cannot be paid in its turn | `ConsistentUnlessTainted` (run `ParallelFallback`) |
| `Threshold <= 4` | at most the four signers of the constant `0xF` | `FourConsume` |

**Engine.** None of the checked properties is inductive by itself. For instance
`DurableUnlessPending` survives a write only if the record is valid, which needs
`FinalizedNotAboveJustified`; that survives a restart only because the record on disk
is valid. The inductive invariant is

    IInv(q)  ==  q has its type
              /\ q.finalized.epoch <= q.justified.epoch
              /\ ValidFinalityState(q.disk)
              /\ callback and nothing pending  =>  disk = memory
              /\ callback and no operator re-anchor  =>  disk not ahead of memory

and `Safe(q, r)` says that the step from `q` to `r` establishes `IInv(r)`, moves no
durable epoch back, changes no durable finalized root and writes only recorded roots.
There is one lemma per method (`PersistSafe`, `CommittedSafe`, `JustifySafe`,
`AdoptSafe`, `SealSafe`, `SetEpochSafe`, `BackfillSafe`, `ReanchorSafe`, `StartUpSafe`
and so on), `SafeThen` composes them where a method calls another, and `StepSafe`
combines them over `Next`. The first six theorems follow.

`RestartPossible` (`DurableRecordRestorable`) needs no more: a valid record whose epoch-0
roots are genesis passes each test of `RestoreFinalityState` on a new engine. `RootsKept`
(`CheckpointRootsKept`) is an action property with its own chain of lemmas over `Kept(q, r)`,
one per method. Its core is that the prune cutoff lies at or below the lower of the two
checkpoints, and that a re-anchor leaves the roots of their epochs alone.

**Node.** `NodeInv` is the typing of the node's state with what the steps rely on: one
stored block per height and never without genesis, a goroutine that works has a block other
than genesis in hand, a pending truncation starts above genesis. Each of the node's actions
has a lemma that it keeps `NodeInv`, and one that under `NodeInv` it is a step of the engine
or leaves the engine alone. Together they give `NodeDrivesEngine` (`NodeSpec => Spec`), under
the identity on `qpos`. The hard part is the head switch: the engine admits only plans of
`ReanchorPlans`, and the node computes its plan by walking two chains through a store with
gaps. `PlanIsPlan` shows that the walk always ends in one of them; it rests on `ChainOrder`
(heights and slots grow together) and `WalkFacts` (a walk has no holes). The engine's
theorems then hold of the node; `NodeKeepsFinality` states the three that matter most.

`HeadStored` (`HeadBacked`) and `StoreKept` (`FinalizedBlockKept`, and that the store only
grows) assume `Undisturbed`: no fork is accepted below the head, no operator rolls back,
no write is refused. The first two are needed: section 10 and `NodeForkRace` show what
happens otherwise; a refused write of a produced block leaves the head on a block that is
not stored. Votes, seals, production, the races of both import goroutines and restarts are all
in. The invariant `Backed` says that the store is closed under parents, that a goroutine past
its put has its block in the store and before it the parent, and that the head is stored
or is the block the producer is about to store. Closure is what makes
`truncateFragmentedChain` a no-op at a restart (`NoGap`).

On top of `Backed` come the roots. `RootsFrom(q, r, S, E)` says of an engine call that the
slot roots it adds are blocks of `S` at their own slot and the epoch roots it adds are
from `E`; each method's lemma in `QPOSFinality_proof` gives its `S` and `E`, and `StepRoots`
shows that the node only calls with stored blocks or its head. So every slot root names a
stored block or the head (`SlotRootsInvariance`): when an import takes the height of the
produced head, the head switch of `reloadConflictHeadLocked` cleans the slot of the block it
replaces, provided its walks reach the common ancestor (`ReplacedSlotCleaned`). `NoGhosts` and `NoGhostsInReach` (`NoGhostSlotRoots`)
are its consequences for a node at rest; `HeadRooted`, the head's parent is stored, turns a
bound on the heights into a bound on the walks. `CheckpointsInvariance` says the same of the
epoch roots and, because only recorded roots become durable, of the record on disk. Since
the store is one chain, a stored finalized block and a stored head are compatible:
`HeadFollowsFinality` (`HeadCompatibleWithFinalized`). `MCNodeForks_proof` transfers
`HeadStored` and `NoGhostsInReach` to the producing node of the composed run: while it
moves, `NodeForks` is a behaviour of `NodeSpec`, and the choice between its two nodes is made once.

`GateProtects` is about the node that does accept forks, at any height, with refused writes
and restarts. `GateInv` says that the store is closed under parents and that a truncation
under way starts above every stored block that finality protects. `GateSound` is the reason
for looking at the last block kept: above it every stored block has a later slot
(`SlotsGrow`). Hence no stored block at or below the finalized slot is ever deleted unless
finality grows in between, and not the finalized block if its slot is known
(`GateKeepsFinalized`, `FinalizedBlockKept`).

**Slashing.** `ShapeCorrect` is the typing every other proof needs. `SlashedOnce`
(`OneCutPerOffense`) rests on `CutInv`: an offense that cut a stake is recorded in the
manager *and* on disk, so neither a second path nor a restart cuts again. `BansAgree`
(`ManagersAgreeOnBans`) is inductive together with `Shape`. `BanSticks`, `BanArrives`,
`RecordsEnforced` and `OffendersBarred` (`PermanentBanSticks`, `BanNotLost`,
`RecordedBanEnforced`, `OnlyOffendersBarred`) hold until a validator leaves the set, the
first and the third also until the node restarts: marks are kept by index and in memory.
Two of these properties are violated by runs; the theorems say that the departure
and the restart are the only ways to violate them. The invariants are `SetInv`, the set
does not change, since a restart rebuilds the same one; `BanInv`, a ban the manager
decided is in the engine or in a goroutine about to mark it; `RecordInv`, a permanent
offense on record is a ban of the manager; and `BarredInv`, whatever can still put a mark
into the engine belongs to an offender, as the marks already there do.
`TypeCorrect` (`SlashingTypeOK`) adds `Bounds`
to `Shape`: both caps of the evidence queue, and no address twice in the set. It needs what
`queueSlashingEvidenceLocked` does in each of its cases (`QueueCases`) and that removing an
entry makes room against its validator alone (`RemoveAgainst`). `OthersKept`
(`OthersEvidenceKept`) uses the same cases: an order-preserving bijection between the
positions of the evidence against another validator before and after.

**Signing.** What a signer says is safe only relative to its record, and the record only
relative to the party that writes it, so the inductive invariant ties the three together:
the record binds one draw (`Bound`), a live party owns that draw (`Owned`), and no message
of a local signer is out that its record does not name (`Licensed`). A crash or a refused
start burns the record, which is why a second party never becomes an owner. The bits need
their own part (`BitsHeld`, `BitsUnique`, `BitsOpened`): a stored response implies that
every other local signer announced acceptance. From it follow `TypeCorrect`,
`NoSecondTranscript` (all that a signer broadcasts comes from one draw), `RejectionHolds`
(`RejectedSlotOpensNothing`) and `Refinement` (`SingleUseSpec`: initial states map to
initial states, each step to a step of `SingleUse` or a stutter). `FourConsume` proves
`SlotConsumed` for at most four signers, the bound the code's mask imposes.

**Attempts.** `OneAttemptLive` is not inductive: nothing in it stops a returning run from
dropping its successor's entry. `Good` adds that a run's attempt is on record, that a live
run is the one the session map holds, that the map holds one run at most, and that a run
that announced has a next ordinal. `OrdinalsInRange` (`SealTypeOK`), `SingleLiveRun`
(`OneAttemptLive`) and `OrdinalsOneByOne` (`AttemptsOneByOne`) follow, for any committee,
schedule and number of attempts, offline members and mishaps.

**Parallel calls.** That a validated round is serial is an argument about the whole round:
every call's reads must turn out to be what the calls before it wrote. The inductive
invariant `IInv` keeps what the round leaves for that argument. `QueueInv`: a call is queued
or in hand at most once, and not before the graph releases it. `GraphInv`: without
speculation the calls of one contract are ordered. `MemInv` and `WorkerInv`: a version in the
memory is of a call that moves value and touches that account, and a worker's read and write
sets are those of the steps it has made. `ResultInv`: a stored result is a transfer computed
from its reads. At validation each read equals the final version below the call, so by
least counterexample over the batch each read is the serial balance (`Validated`). `Fallback`
rests on `FallbackInv`: after n calls the memory shows the next one the serial balances,
whatever the last round left above it, outside the accounts of calls that could not pay
(`Tainted`): what the last round wrote there is never overwritten. When no later call moves
value over a tainted account, every call finds the serial balances and decides as it would
serially, which gives `ConsistentUnlessTainted` (`SequentialConsistency`), the property that
`ParallelFallback` violates without that hypothesis. `ContractOrder` is `GraphInv` with
`QueueInv`.

**Induction and recursive functions.** The library's induction theorems cannot be
instantiated here, so the proofs argue by least counterexample: `LeastNat` from the
well-foundedness of the naturals, `FromParents` for properties that pass from a block's
parent to the block, `FirstPosition` for the first entry of a queue. A recursive function is only
known to be *some* solution of its equation if there is one; `SerialIsDefined` and
`LineageIsDefined` construct one (call by call; as the least sets closed under parents), after which the equations can be used.

**Only model-checked.** Liveness under fairness is out of the prover's reach:
`QueuedOffenderBanned`, `LatchResolves`, `CommitteeSeals` and `ExecuteReturns`.
`EveryPairOnce`, `EveryMemberSitsOut` and `StakeKept` compute the pinned schedules.
Every invariant and action property of a passing run is stated by a theorem. What the
theorems leave to TLC is the node of `NodeForks` that accepts a fork and learns finality
from votes: `HeadCompatibleWithFinalized` is proved for the producing kind alone, and
`SlotKnown`, a hypothesis of `GateKeepsFinalized`, is not an invariant (section 10).
The invariants of the proofs were model-checked as well: `SlotRootsBacked` and
`CheckpointsStored` on the producing node of `NodeForks` (73,932 states), `GateInv` on a tree
of five blocks with forks accepted at two heights, a seal and a restart (281,429), `SetInv`,
`BanInv`, `RecordInv` and `BarredInv` in the instance of `SlashingRaces` (799,661),
`FallbackInv` in that of `ParallelQVM` (410,530).

## 10. Behaviours that bound the claims

Four runs show where the code does something else than its comments say; each is
recorded under `findings` with the lines.

* `NodeForkRace`: the finality gate of an accepted fork (`syncer.go:1054`) and the
  truncation (`syncer.go:1063`) are separate. A seal that completes in between
  finalizes a block that is then deleted.
* `SlashingReindex`: `RemoveStakingValidator` shifts indices, the marks stay, and a
  bystander inherits one.
* `SlashingAfterRestart`: the offense records are reloaded for the duplicate check
  only; the ban itself is not re-applied.
* `ParallelFallback`: the sequential fallback runs over the memory of the last parallel
  round. A call that fails in it leaves the versions it wrote in that round, and later
  calls read them: with balances 2, 1 and 0 of accounts a, b and c, the calls a to b
  of 1, a to c of 2 and c to b of 1 end with 1, 3 and 1. `FallbackIsSerial` is therefore
  claimed when every call can pay in its turn. `ConsistentUnlessTainted` shows that the
  accounts of calls that cannot pay are the only ones affected.

Others came up while the passing runs were being set up. They are the reason for the
restrictions stated there. Each is reachable in the model when the restriction is
lifted:

* An accepted fork truncates and returns without storing the block, and the insert
  loop moves the head to it (`syncer.go:1121`). `HeadBacked` and `NoGhostSlotRoots` are
  therefore claimed for the node that accepts none (`ProducerHeadBacked`,
  `ProducerNoGhostSlotRoots`).
* A head switch whose ancestor cannot be located leaves old slot roots in place while
  nothing is finalized (`node.go:10138`). A late seal of an abandoned block then
  passes the slot-root test. `HeadCompatibleWithFinalized` is claimed with seals or with
  accepted forks, not with both.
* A head switch walks at most `MaxReorgDepth` blocks back on each branch. When an import
  replaces a produced head above a longer branch, the slot root of the replaced block stays.
  The theorems on slot roots exclude it (`ReachesAncestor`).
* A produced block on an epoch boundary has its epoch root recorded before it is stored
  (`block_producer.go:1904` and `:3664`). A seal in between makes it durable; a crash then leaves a
  finalized block the store does not have, and the node may take another block at that
  height for its head. `HeadCompatibleWithFinalized` is claimed for own blocks inside
  epochs (`OwnInsideEpochs`).
* `EnsureEpochBlockRoot` takes the parent of whichever block finds the epoch without a root
  (`block_producer.go:194`, `qpos_forkchoice.go:468`). That block may lie in the middle of
  the epoch, when the earlier ones were stored without becoming the head, and its parent
  above the boundary. Once that root is finalized
  `FinalizedCheckpointSlot` answers with the boundary, and the gate lets a fork truncate the
  finalized block. `GateKeepsFinalized` excludes it (`SlotKnown`).
* `RollbackToFork` has the same gate-then-truncate shape as the fork branch, and an
  import past its head switch writes its slot root after the rollback
  (`adapters.go:1912`). `FinalizedBlockKept` and `NoGhostSlotRoots` are claimed without
  rollbacks.
* When storing a produced block fails for another reason than a conflict, the failure
  is only logged and the head stays on an unstored block (`block_producer.go:3678`).
  `ProducerHeadBacked` is claimed while block writes succeed.
* At start the store's tip becomes the head, and only its epoch is compared with the
  finalized checkpoint (`r107_finality_persist.go:121`). `HeadCompatibleWithFinalized`
  is claimed across a restart for the node that accepts no fork.
* `ApplyBlockHeader` writes a boundary block's epoch root without the guard of the
  other writers (`qpos_proposer.go:826`), so the root of a finalized epoch can change in
  memory. The durable root does not (`DurableFinalityIrrevocable`).
* Once the epoch-0 root has been pruned (more than ten epoch roots,
  nothing justified), a late block of epoch 0 lets `EnsureEpochBlockRoot` record another root for it,
  although "epoch 0 root is immutable once set" (`qpos_finality.go:387`), and a checkpoint
  still at epoch 0 takes it. `RestoreFinalityState` would refuse that record, so
  `DurableRecordRestorable` is claimed for records whose epoch-0 roots are genesis or unset
  (`GenesisAnchored`).
* The prune cutoff spares the justified epoch only when it is greater than 1
  (`qpos_forkchoice.go:552`). `CheckpointRootsKept` says so.
* The operator's re-anchor is refused by the store, which only accepts growth, so a
  later start without the flag restores the checkpoint (`qpos_finality.go:532`).
  `DiskNotAhead` is claimed without it.
* A double vote submitted while a temporary mark is in place is only recorded
  (`slashing.go:2861`); the goroutine of an earlier unjail removes the mark of a later
  jail (`qpos_slashing.go:817`); an unjailed validator is not re-activated in the
  engine's set (`qpos_slashing.go:849`). `QueuedOffenderBanned` is claimed for
  permanent offenses alone, and nothing is claimed of temporary marks.
* `missingLocked` compares the responses seen with the constant `0xF`
  (`sign_executor.go:766`) and not with the mask of all signers. With five signers a party
  that holds exactly the first four responses closes without burning its record,
  although "Every outcome but a signature consumes the one-time material"
  (`sign_executor_party.go:437`). `SlotConsumed` is claimed for up to four signers. With
  three, as in the run, the comparison always reports a missing input, which is the
  outcome it has at four for every party that lacks a response.
* A run whose context was cancelled sees its candidates end in silence and announces the
  next attempt before `tdilithium3SealSigningAdvance` tells it to stop: a duplicate
  announcement, which the receivers absorb.
* A waiter that saw the pending seal deletes the slot's latch even when a newer start has
  replaced it (`tdilithium3_signing_seal.go:649`), and an announcement refused because it
  overtook a lower one is not sent again. Both cost a start; `CommitteeSeals` shows that
  the slot survives one of them.
* A run announces the next ordinal before it records it, so its own record can lag and
  refuse the announcement after that.
* With a member down *and* a latch that expires, or two mishaps, the attempts of a
  committee of four can run out. The header of `tdilithium3_signing_seal.go` says that one
  offline member never stops sealing (lines 9 and 10) and, further down (62 to 64), that
  with seven members the one with the bye sits out no attempt of the slot;
  `EveryMemberSitsOut` states the latter.
* The read set of a parallel call keeps one version per key, so a call that reads a key
  after its own write always conflicts. A transfer to oneself is therefore never
  validated and always ends in the fallback.

## 11. Inventory and what is left out

State, operations and hard behaviours of each part; the hazards with their lines are in
`PROJECT.json`.

| part | state and operations | hard behaviours | status |
|---|---|---|---|
| QPOS finality | section 2 | failed writes, restart, placeholder roots, pruning, reorgs | modelled but for vote weighing |
| Node chain | section 3 | goroutines between locks, forks, rollback, crash | modelled but for counters, snap sync, execution |
| Slashing | section 4 | asynchronous marks, duplicates, restart, index shifts | modelled but for investigations and rewards |
| Attestations, committees | vote store, stake tally, double and surround detection | late votes, pruning against detection, set changes within an epoch | planned |
| LMD-GHOST store, activation, exit and withdrawal queues, inactivity leak | block tree with weights, queues | pruning to a root not in the map; churn limits | planned |
| QTD committees, three chambers, ministries | drafts, reviews, seals, hand-off | seal before block, committee change during a seal | effect of a seal modelled, rest planned |
| Voting and checkpoint managers of the shard layer, cross-links, data availability | rounds, quorums | conflicting checkpoints | planned |
| Random beacon, sealed bids | commit and reveal rounds | missing or late reveals | planned |
| Threshold signing | section 5 | crash between a write and a broadcast, second party for a session | modelled but for the cryptography |
| Seal attempts | section 6 | overtaken announcements, late pending seal, cancelled runs | modelled but for permits and prebuilt shells |
| Threshold key generation and resharing, ML-DSA signing | session files, ledger | crash between two writes | planned |
| Snap sync, history expiry, trie pruning | sync state, snapshots | sync against import and rollback | planned |
| Transaction pool, miner | per-account nonces, limits | replacement at the limit, reinjection after a reorg | planned |
| Parallel calls | section 7 | stale reads, retries, fallback | modelled for transfers |
| Block-STM executor (`executor.go`, `scheduler.go`) | incarnations | stale results of aborted incarnations | not modelled: nothing constructs a `ParallelExecutor` |
| Bridge, relayer | lock, mint, burn, unlock; tasks | time-out against late completion, retry of what was done | planned |
| Rollup, economics, governance | batches, challenges, stakes, proposals | windows, rounding | planned |
| Circuit breaker, shutdown; upgrades; multisig wallet; network mesh; light client | counters; versions; proposals; peers; committee updates | unsynchronised counters; crash in a migration; re-execution | planned |
| Cryptography, privacy proofs, VM opcodes and JIT | | mathematics or semantics no small instance covers; a verified message is taken as given | not modelled |
| RPC, GraphQL, codecs, types, logging, metrics, audit scanners, commands, SDKs, simulators | | input and output, or observation only | not modelled |

Liveness of finality (that honest votes finalize) is not stated yet, because it
depends on the vote processing that is assumed here.

### Plan

1. `Attestations`: vote admission, tally and detection; `TryUpdateFinality` becomes a
   consequence of it and its detection feeds `Slashing`. Then liveness of finality.
2. `ForkChoiceStore` and the validator life cycle (activation, exit, withdrawal,
   ValidatorManager elections), composed with `Slashing`.
3. `QTDSeal`: collection, committee hand-off and announcement, refining `Seal`.
4. The DKG and reshare sessions and the ML-DSA journal, as further implementations of
   `SingleUse`; `Migration`, `CircuitBreaker`, `MultisigProposal`: small crash and
   concurrency models, each with an abstract specification it implements.
5. `AssetLock` with its relayer: conservation of locked and minted amounts under
   retries and time-outs. `ParallelQVM` with storage and reverts. `TxPool`.
6. Proofs: `SlotKnown` from a hypothesis on `EnsureEpochBlockRoot` alone;
   `HeadCompatibleWithFinalized` for the node that accepts forks; then the invariants of the
   new modules.
