------------------------------ MODULE NodeChain ------------------------------
(***************************************************************************)
(* How a node drives the finality engine: the block store, the head, and   *)
(* the goroutines that move them.                                          *)
(*                                                                         *)
(*   insert    blockInsertLoop: ProcessBlock, the head switch under n.mu,  *)
(*             then the canonical writes to the engine, one lock at a time *)
(*   pending   ProcessPendingBlocks and the replay of checkSync: only      *)
(*             ProcessBlock                                                *)
(*   prod      the block producer: build, commit under n.mu, store         *)
(*   operator  forkRecoveryBackend.RollbackToFork                          *)
(*                                                                         *)
(* Votes, seals, the epoch-root backfill and restarts happen at any time.  *)
(* Whether the syncer is in sync mode, and whether enough peers agreed on  *)
(* a fork, are free choices.                                               *)
(***************************************************************************)
EXTENDS QPOSFinality

CONSTANTS
  Workers,        \* the import goroutines of the run, a subset of {"insert", "pending"}
  OwnBlocks,      \* the blocks this node may produce; the others come from peers
  Quorums,        \* the votes two thirds of the stake may cast: [beacon, source]
  SealableBlocks, \* the blocks whose QTD seal may complete
  ForkPoints,     \* the heights at which the syncer may accept a fork
  RollbackHeights,\* the heights the operator may roll back to
  DiskOutcomes,   \* {TRUE}, or BOOLEAN when writes of the finality record may fail
  MaxRestarts     \* bound: restarts of the node

ASSUME NodeConstantsAssumption ==
  /\ Workers \subseteq {"insert", "pending"}
  /\ OwnBlocks \subseteq Blocks /\ SealableBlocks \subseteq Blocks \ {Genesis}
  /\ Quorums \subseteq [beacon : Blocks, source : Epochs]
  /\ ForkPoints \subseteq Nat /\ RollbackHeights \subseteq Nat \ {0}
  /\ DiskOutcomes \subseteq BOOLEAN
  /\ MaxRestarts \in Nat

(***************************************************************************)
(* Two thirds of the stake never vote for two targets of one epoch.        *)
(***************************************************************************)
ASSUME QuorumAssumption ==
  \A q, r \in Quorums : EpochOf(q.beacon) = EpochOf(r.beacon) =>
    CheckpointOn(q.beacon, EpochOf(q.beacon)) = CheckpointOn(r.beacon, EpochOf(r.beacon))

VARIABLES
  store,      \* the block store: the stored blocks, at most one per height
  head,       \* n.currentBlock
  job,        \* what each import goroutine is doing
  prod,       \* what the producer is doing
  operator,   \* the fork height of a rollback whose truncation is outstanding, or 0
  forks,      \* the syncer's forkAbandonedHash and forkRefusedFinality, by fork height
  trusted,    \* the state-trust flag: no hard break since the start
  lastEpoch,  \* the epoch of lastKnownBlockTime, -1 when no block was applied
  backfilled, \* r101LastBackfillEpoch
  restarts

chainVars == <<store, head>>
progress  == <<job, prod, operator>>
memory    == <<forks, trusted, lastEpoch, backfilled>>

vars == <<qpos, chainVars, progress, memory, restarts>>

Idle == [pc |-> "idle", blk |-> Genesis, from |-> 0, ours |-> NoRoot]

JobSteps  == {"idle", "put", "truncate", "apply", "decide", "slot", "adopt", "epoch", "ensure"}
ProdSteps == {"idle", "built", "epoch", "ensure", "put"}

(* n.mu is held by the producer between moving the head and its last write. *)
MuFree == prod.pc \notin {"epoch", "ensure"}

Stored(h) == {b \in store : HeightOf(b) = h}

LatestBlock == Highest(store)

Heights  == {HeightOf(b) : b \in Blocks}
NoForks  == [abandoned |-> [h \in Heights |-> NoRoot], refused |-> {}]
NoBuild  == [pc |-> "idle", blk |-> Genesis]

NodeInit ==
  /\ Init
  /\ store = {Genesis}
  /\ head = Genesis
  /\ job = [w \in Workers |-> Idle]
  /\ prod = NoBuild
  /\ operator = 0
  /\ forks = NoForks
  /\ trusted = TRUE
  /\ lastEpoch = -1
  /\ backfilled = 0
  /\ restarts = 0

-----------------------------------------------------------------------------
(* Fork choice *)

ShouldSwitch(b, syncing) ==
  \/ HeightOf(b) > HeightOf(head)
  \/ HeightOf(b) = HeightOf(head) /\ SlotOf(b) < SlotOf(head)
  \/ HeightOf(b) = HeightOf(head) /\ SlotOf(b) = SlotOf(head) /\ HashOrder[b] < HashOrder[head]
  \/ syncing /\ HeightOf(b) < HeightOf(head) /\ Stored(HeightOf(head)) = {}

(* The highest ancestor of b the truncated store still holds: its parent or none. *)
TruncationAncestorHint(b) == IF b # Genesis /\ ParentOf(b) \in store THEN ParentOf(b) ELSE NoRoot

SwitchPlan(b, hint) ==
  LET plan == ReanchorPlan(store, b, head, hint)
  IN IF plan.ancestor = NoRoot /\ hint = NoRoot /\ head \notin store
     THEN ReanchorPlan(store, b, head, TruncationAncestorHint(b))
     ELSE plan

(* Mutant: only a missing ancestor is refused. *)
SwitchRefusedUnlessRooted(plan) ==
  plan.ancestor = NoRoot /\ HasFinalityFloor(qpos) /\ FinalizedCheckpointSlot(qpos) > 0

SwitchRefused(plan) ==
  \/ plan.ancestor = NoRoot /\ HasFinalityFloor(qpos) /\ FinalizedCheckpointSlot(qpos) > 0
  \/ ReanchorConflictsWithFinality(qpos, plan)

(* commitHeadSwitchWithHintLocked, when the switch is accepted. *)
CommitHeadSwitch(b, hint, ok) ==
  /\ head' = b
  /\ IF ParentOf(b) = head THEN qpos' = qpos
     ELSE LET plan == SwitchPlan(b, hint)
          IN ~SwitchRefused(plan) /\ qpos' \in ReanchorAndRedrive(qpos, plan, ok)

HeadSwitchRefused(b, hint) == ParentOf(b) # head /\ SwitchRefused(SwitchPlan(b, hint))

-----------------------------------------------------------------------------
(* ProcessBlock *)

GoTo(w, pc) == job' = [job EXCEPT ![w].pc = pc]
Done(w)     == job' = [job EXCEPT ![w] = Idle]

(* The insert loop goes on to fork choice, the pending paths are done. *)
Imported(w) == IF w = "insert" THEN GoTo(w, "decide") ELSE Done(w)

(***************************************************************************)
(* A block arrives.  One already stored goes straight to fork choice, one  *)
(* whose parent is stored is validated and will be put.  A block that has  *)
(* to wait for its parent changes nothing.                                 *)
(***************************************************************************)
Receive(w, b) ==
  /\ job[w].pc = "idle"
  /\ \/ b \in store /\ w = "insert" /\ job' = [job EXCEPT ![w] = [Idle EXCEPT !.pc = "decide", !.blk = b]]
     \/ b \notin store /\ ParentOf(b) \in store /\ job' = [job EXCEPT ![w] = [Idle EXCEPT !.pc = "put", !.blk = b]]
  /\ UNCHANGED <<qpos, chainVars, prod, operator, memory, restarts>>

(* Mutant: the gate looks at the first block deleted instead of the last one kept. *)
RollbackBelowFinalityOffByOne(q, from) ==
  HasFinalityFloor(q) /\ \E first \in Stored(from) : SlotOf(first) < FinalizedCheckpointSlot(q)

RollbackBelowFinality(q, from) ==
  /\ HasFinalityFloor(q)
  /\ \/ from = 0
     \/ Stored(from - 1) = {}
     \/ \E kept \in Stored(from - 1) : SlotOf(kept) < FinalizedCheckpointSlot(q)

(* findForkRollbackPoint: the parent's height, or a checkpoint below it. *)
ForkRollbackPoints(h) == ForkPoints \cap (2 .. h - 1 \cup {h})

(***************************************************************************)
(* A block arrives whose parent contradicts our block at the parent's      *)
(* height h.  It is dropped when the fork at h was refused before or when  *)
(* it descends from the branch abandoned there.  Otherwise it may be       *)
(* accepted, which only the finality gate can refuse: the gate is          *)
(* evaluated here, the truncation follows.                                 *)
(***************************************************************************)
ReceiveFork(w, b) ==
  LET h       == HeightOf(b) - 1
      cleared == [forks EXCEPT !.abandoned[h] = NoRoot]
  IN /\ job[w].pc = "idle"
     /\ h > 0 /\ b \notin store /\ ParentOf(b) \notin store /\ Stored(h) # {}
     /\ h \notin forks.refused /\ forks.abandoned[h] # ParentOf(b)
     /\ \/ forks' = cleared /\ job' = job
        \/ \E from \in ForkRollbackPoints(h) :
             IF RollbackBelowFinality(qpos, from)
             THEN forks' = [cleared EXCEPT !.refused = @ \cup {from}] /\ job' = job
             ELSE \E ours \in Stored(h) :
                    /\ forks' = cleared
                    /\ job' = [job EXCEPT ![w] = [pc |-> "truncate", blk |-> b, from |-> from, ours |-> ours]]
     /\ UNCHANGED <<qpos, chainVars, prod, operator, trusted, lastEpoch, backfilled, restarts>>

(***************************************************************************)
(* DeleteBlocksFromHeight and onForkRollback, whose rollback of the state  *)
(* may fail and then costs the trust; ProcessBlock returns nil without     *)
(* storing the block.                                                      *)
(***************************************************************************)
TruncateForFork(w, ok) ==
  /\ job[w].pc = "truncate"
  /\ IF ok THEN /\ store' = {b \in store : HeightOf(b) < job[w].from}
                /\ forks' = [forks EXCEPT !.abandoned[job[w].from] = job[w].ours]
                /\ trusted' \in {trusted, FALSE}
     ELSE UNCHANGED <<store, forks, trusted>>
  /\ Imported(w)
  /\ UNCHANGED <<qpos, head, prod, operator, lastEpoch, backfilled, restarts>>

ClearForkAcceptedBelow(height) ==
  [forks EXCEPT !.abandoned = [h \in Heights |-> IF h < height THEN NoRoot ELSE @[h]]]

(* Mutant: the height index is not looked at. *)
PutBlockUnchecked(w) ==
  LET b == job[w].blk
  IN /\ job[w].pc = "put"
     /\ store' = store \cup {b}
     /\ Imported(w) /\ forks' = ClearForkAcceptedBelow(HeightOf(b))
     /\ UNCHANGED <<qpos, head, prod, operator, trusted, lastEpoch, backfilled, restarts>>

(* PutBlockWithIndex refuses a second block at a height.  In sync mode the block is not applied. *)
PutBlock(w) ==
  LET b == job[w].blk
  IN /\ job[w].pc = "put"
     /\ \/ Stored(HeightOf(b)) \ {b} # {} /\ store' = store /\ Done(w) /\ forks' = forks
        \/ /\ Stored(HeightOf(b)) \ {b} = {} /\ store' = store \cup {b}
           /\ \/ GoTo(w, "apply") /\ forks' = forks
              \/ Imported(w) /\ forks' = ClearForkAcceptedBelow(HeightOf(b))
     /\ UNCHANGED <<qpos, head, prod, operator, trusted, lastEpoch, backfilled, restarts>>

(* applyBlockInternal: the header is replayed first, the execution may then fail. *)
ApplyBlock(w) ==
  LET b == job[w].blk
  IN /\ job[w].pc = "apply"
     /\ lastEpoch' = IF EpochOf(b) > lastEpoch THEN EpochOf(b) ELSE lastEpoch
     /\ IF b \in store THEN CallApplyBlockHeader(b) ELSE qpos' = qpos
     /\ \/ Imported(w) /\ forks' = ClearForkAcceptedBelow(HeightOf(b))
        \/ Done(w) /\ forks' = forks
     /\ UNCHANGED <<chainVars, prod, operator, trusted, backfilled, restarts>>

-----------------------------------------------------------------------------
(* blockInsertLoop after ProcessBlock *)

DecideHead(w, ok) ==
  LET b == job[w].blk
  IN /\ job[w].pc = "decide" /\ MuFree
     /\ \E syncing \in BOOLEAN :
          \/ ShouldSwitch(b, syncing) /\ CommitHeadSwitch(b, NoRoot, ok) /\ GoTo(w, "slot")
          \/ /\ ~ShouldSwitch(b, syncing) \/ HeadSwitchRefused(b, NoRoot)
             /\ Done(w) /\ UNCHANGED <<qpos, head>>
     /\ UNCHANGED <<store, prod, operator, memory, restarts>>

(* The canonical writes follow outside n.mu, each under the engine's own lock. *)
WriteSlotRoot(w, ok) ==
  /\ job[w].pc = "slot"
  /\ CallSetSlotBlockRoot(job[w].blk, ok)
  /\ GoTo(w, "adopt")
  /\ UNCHANGED <<chainVars, prod, operator, memory, restarts>>

AdoptFinality(w, ok) ==
  /\ job[w].pc = "adopt"
  /\ CallAdoptHeaderFinality(job[w].blk, ok)
  /\ GoTo(w, IF IsBoundary(SlotOf(job[w].blk)) THEN "epoch" ELSE "ensure")
  /\ UNCHANGED <<chainVars, prod, operator, memory, restarts>>

WriteEpochRoot(w, ok) ==
  /\ job[w].pc = "epoch"
  /\ CallSetEpochBlockRoot(job[w].blk, ok)
  /\ GoTo(w, "ensure")
  /\ UNCHANGED <<chainVars, prod, operator, memory, restarts>>

EnsureEpochState(w, ok) ==
  /\ job[w].pc = "ensure"
  /\ CallEnsureEpochBlockRoot(job[w].blk, ok)
  /\ Done(w)
  /\ UNCHANGED <<chainVars, prod, operator, memory, restarts>>

-----------------------------------------------------------------------------
(* tryProduceBlock and postCommitBlock *)

(* The header carries the checkpoints the engine held while the block was built. *)
BuildBlock(b) ==
  /\ prod.pc = "idle" /\ trusted /\ ParentOf(b) = head
  /\ Header[b].justifiedEpoch = qpos.justified.epoch /\ Header[b].finalizedEpoch = qpos.finalized.epoch
  /\ prod' = [pc |-> "built", blk |-> b]
  /\ UNCHANGED <<qpos, chainVars, job, operator, memory, restarts>>

(***************************************************************************)
(* Under n.mu: discard when the tip or the state has moved, else move the  *)
(* head and write the roots.  A state that cannot be promoted costs the    *)
(* trust besides.                                                          *)
(***************************************************************************)
CommitProduced(ok) ==
  LET b == prod.blk
  IN /\ prod.pc = "built"
     /\ \/ prod' = NoBuild /\ trusted' \in {trusted, FALSE} /\ UNCHANGED <<qpos, head>>
        \/ /\ head = ParentOf(b)
           /\ head' = b
           /\ CallSetSlotBlockRoot(b, ok)
           /\ prod' = [prod EXCEPT !.pc = IF IsBoundary(SlotOf(b)) THEN "epoch" ELSE "ensure"]
           /\ trusted' = trusted
     /\ UNCHANGED <<store, job, operator, forks, lastEpoch, backfilled, restarts>>

ProducedEpochRoot(ok) ==
  /\ prod.pc = "epoch"
  /\ CallSetEpochBlockRoot(prod.blk, ok)
  /\ prod' = [prod EXCEPT !.pc = "ensure"]
  /\ UNCHANGED <<chainVars, job, operator, memory, restarts>>

ProducedEnsure(ok) ==
  /\ prod.pc = "ensure"
  /\ CallEnsureEpochBlockRoot(prod.blk, ok)
  /\ prod' = [prod EXCEPT !.pc = "put"]
  /\ UNCHANGED <<chainVars, job, operator, memory, restarts>>

(* Mutant: the conflict is only logged. *)
ReloadConflictHeadIgnored(b, ok) == UNCHANGED <<qpos, head, trusted>>

(***************************************************************************)
(* reloadConflictHeadLocked: the head follows the block a peer got stored  *)
(* first.  The node's state is then that of another block, and trust is    *)
(* lost unless the two state roots agree; it is also lost when the finality *)
(* gate refuses the reload.                                                *)
(***************************************************************************)
ReloadConflictHead(b, ok) ==
  LET canonical == CHOOSE c \in Stored(HeightOf(b)) : TRUE
  IN IF head # b THEN UNCHANGED <<qpos, head, trusted>>
     ELSE IF HeadSwitchRefused(canonical, NoRoot) THEN trusted' = FALSE /\ UNCHANGED <<qpos, head>>
     ELSE CommitHeadSwitch(canonical, NoRoot, ok) /\ trusted' \in {trusted, FALSE}

(* A write the database refuses is only logged: the head stays on the block. *)
StoreProduced(ok) ==
  LET b == prod.blk
  IN /\ prod.pc = "put"
     /\ lastEpoch' = IF EpochOf(b) > lastEpoch THEN EpochOf(b) ELSE lastEpoch
     /\ IF Stored(HeightOf(b)) \ {b} # {} THEN ReloadConflictHead(b, ok) /\ store' = store
        ELSE store' = (IF ok THEN store \cup {b} ELSE store) /\ UNCHANGED <<qpos, head, trusted>>
     /\ prod' = NoBuild
     /\ UNCHANGED <<job, operator, forks, backfilled, restarts>>

-----------------------------------------------------------------------------
(* The other actors *)

(* RollbackToFork moves the head down first, under n.mu; a refusal aborts it. *)
RollbackHead(from, ok) ==
  /\ operator = 0 /\ MuFree
  /\ \E kept \in Stored(from - 1) :
       /\ ~(HasFinalityFloor(qpos) /\ SlotOf(kept) < FinalizedCheckpointSlot(qpos))
       /\ HeightOf(kept) <= HeightOf(head)
       /\ IF kept = head THEN UNCHANGED <<qpos, head>> ELSE CommitHeadSwitch(kept, kept, ok)
  /\ operator' = from
  /\ UNCHANGED <<store, job, prod, memory, restarts>>

(* Truncating the store or rolling back the state may fail, which costs the trust. *)
RollbackStore(ok) ==
  /\ operator # 0
  /\ IF ok THEN store' = {b \in store : HeightOf(b) < operator} /\ trusted' \in {trusted, FALSE}
     ELSE store' = store /\ trusted' = FALSE
  /\ operator' = 0
  /\ UNCHANGED <<qpos, head, job, prod, forks, lastEpoch, backfilled, restarts>>

(* The vote filters of tryUpdateFinality, for the votes of a quorum. *)
Counted(vote) ==
  LET e == EpochOf(vote.beacon)
  IN /\ vote.source < e /\ vote.source <= qpos.justified.epoch
     /\ vote.source > 0 => qpos.epochBlockRoots[vote.source] = CheckpointOn(vote.beacon, vote.source)
     /\ qpos.epochBlockRoots[e] = CheckpointOn(vote.beacon, e)
     /\ qpos.slotBlockRoots[SlotOf(vote.beacon)] \in {NoRoot, vote.beacon}

(* The epoch is that of the last applied block; before there is one, the clock's. *)
CurrentEpochs == IF lastEpoch >= 0 THEN {lastEpoch} ELSE EpochOf(LatestBlock) .. MaxEpoch

TryUpdateFinality(ok) ==
  /\ \E current \in CurrentEpochs :
       /\ current >= 2
       /\ \E vote \in Quorums : EpochOf(vote.beacon) = current - 1 /\ Counted(vote)
       /\ CallTryUpdateFinality(current - 1, ok)
  /\ UNCHANGED <<chainVars, progress, memory, restarts>>

Seal(b, ok) ==
  /\ CallCompleteSeal(b, ok)
  /\ UNCHANGED <<chainVars, progress, memory, restarts>>

(* maybeBackfillEpochRootsLocked, once per epoch of the stored tip. *)
Backfill(oldest, ok) ==
  /\ EpochOf(LatestBlock) >= 2 /\ EpochOf(LatestBlock) > backfilled
  /\ CallBackfillEpochRoots(LatestBlock, oldest, ok)
  /\ backfilled' = EpochOf(LatestBlock)
  /\ UNCHANGED <<chainVars, progress, forks, trusted, lastEpoch, restarts>>

(* The blocks up to the first gap of the store (FindContinuousTip). *)
Continuous == {b \in store : Chain(b) \subseteq store}

PersistedFinalityFitsStore(q) == q.finalized.epoch <= EpochOf(LatestBlock)

(* truncateFragmentedChain: the blocks above a gap are dropped unless that would touch finality. *)
TruncationBlocked(q) ==
  Continuous # store /\ RollbackBelowFinality(q, HeightOf(Highest(Continuous)) + 1)

(***************************************************************************)
(* A crash at any point and the start that follows.  The head is the       *)
(* stored tip; a checkpoint the tip's epoch does not reach costs the trust *)
(* (checkPersistedFinalityBacking); blocks above a gap are dropped last.   *)
(***************************************************************************)
RestartNode(reanchor, ok) ==
  LET started == StartUp(qpos.disk, store, LatestBlock, reanchor, ok)
  IN /\ restarts < MaxRestarts
     /\ reanchor => OperatorReanchor
     /\ qpos' = started
     /\ head' = LatestBlock
     /\ store' = IF TruncationBlocked(started) THEN store ELSE Continuous
     /\ trusted' = (PersistedFinalityFitsStore(started) /\ ~TruncationBlocked(started))
     /\ job' = [w \in Workers |-> Idle]
     /\ prod' = NoBuild
     /\ operator' = 0 /\ forks' = NoForks /\ lastEpoch' = -1 /\ backfilled' = 0
     /\ restarts' = restarts + 1

NodeNext ==
  \/ \E w \in Workers :
       \/ \E b \in Blocks \ ({Genesis} \cup OwnBlocks) : Receive(w, b) \/ ReceiveFork(w, b)
       \/ PutBlock(w)
       \/ ApplyBlock(w)
  \/ \E w \in Workers, ok \in DiskOutcomes :
       \/ TruncateForFork(w, ok)
       \/ DecideHead(w, ok)
       \/ WriteSlotRoot(w, ok)
       \/ AdoptFinality(w, ok)
       \/ WriteEpochRoot(w, ok)
       \/ EnsureEpochState(w, ok)
  \/ \E b \in OwnBlocks : BuildBlock(b)
  \/ \E ok \in DiskOutcomes :
       \/ CommitProduced(ok)
       \/ ProducedEpochRoot(ok)
       \/ ProducedEnsure(ok)
       \/ StoreProduced(ok)
       \/ \E from \in RollbackHeights : RollbackHead(from, ok)
       \/ RollbackStore(ok)
       \/ TryUpdateFinality(ok)
       \/ \E b \in SealableBlocks : Seal(b, ok)
       \/ \E oldest \in Epochs : Backfill(oldest, ok)
       \/ \E reanchor \in BOOLEAN : RestartNode(reanchor, ok)

NodeSpec == NodeInit /\ [][NodeNext]_vars

-----------------------------------------------------------------------------
(* Properties *)

(* The state of the node has its types and the store one block per height. *)
NodeTypeOK ==
  /\ qpos \in QPOSState
  /\ Genesis \in store /\ store \subseteq Blocks
  /\ \A b, c \in store : HeightOf(b) = HeightOf(c) => b = c
  /\ head \in Blocks
  /\ job \in [Workers -> [pc : JobSteps, blk : Blocks, from : Nat, ours : Root]]
  /\ prod \in [pc : ProdSteps, blk : Blocks]
  /\ operator \in {0} \cup RollbackHeights
  /\ forks \in [abandoned : [Heights -> Root], refused : SUBSET Heights]
  /\ trusted \in BOOLEAN
  /\ lastEpoch \in {-1} \cup Epochs /\ backfilled \in Epochs /\ restarts \in 0 .. MaxRestarts

Quiet == (\A w \in Workers : job[w].pc = "idle") /\ prod.pc = "idle" /\ operator = 0

(* The engine's finalized checkpoint is the one made durable: no placeholder. *)
HasFinalizedBlock == qpos.finalized.epoch > 0 /\ qpos.finalized = qpos.disk.finalized

(* Between two imports the head never lies on a branch that conflicts with   *)
(* the finalized block: fork choice, the conflict reload, the rollback and   *)
(* the restart only point it at a descendant (or, on a store that lags, at   *)
(* an ancestor) of it.  A node that lost trust in its state keeps following  *)
(* the chain and is exempt.                                                  *)
HeadCompatibleWithFinalized ==
  Quiet /\ trusted /\ HasFinalizedBlock =>
    qpos.finalized.root \in Chain(head) \/ head \in Chain(qpos.finalized.root)

(* The store never drops the finalized block once it holds it.               *)
FinalizedBlockKept ==
  [][HasFinalizedBlock /\ qpos.finalized.root \in store => qpos.finalized.root \in store']_vars

(* A node that still trusts its state has its head in the store whenever no  *)
(* import, production or rollback is under way, so the next block it builds  *)
(* or imports finds its parent.                                              *)
HeadBacked == Quiet /\ trusted => head \in store

(* Between two imports every slot root names a block of the head's chain or  *)
(* of the store: no write is left behind for a block both have dropped.      *)
NoGhostSlotRoots ==
  Quiet => \A s \in Slots : qpos.slotBlockRoots[s] \in {NoRoot} \cup store \cup Chain(head)

(* Every step of the node is one call of the finality engine or none. *)
DrivesEngine == Spec
=============================================================================
