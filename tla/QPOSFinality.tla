---------------------------- MODULE QPOSFinality ----------------------------
(***************************************************************************)
(* The finality state of the QPOS engine and its durable copy.             *)
(*                                                                         *)
(* Every method of consensus.QPOS that touches the justified and finalized *)
(* checkpoints, the epoch roots, the slot roots or the checkpoint pin is   *)
(* one operator from the state before the call to the state after it (a    *)
(* method runs under q.mu, so a call is atomic).  The durable record of    *)
(* the block store is part of the state: it is written by the callback the *)
(* methods invoke, under the same lock.  ok says whether the database      *)
(* accepts a write made during the call.                                   *)
(*                                                                         *)
(* The specification at the end lets any caller call any method with any   *)
(* block, which is what the methods must survive; module NodeChain shows   *)
(* how the node really calls them.                                         *)
(***************************************************************************)
EXTENDS BlockTree

CONSTANTS
  MaxEpochRoots,     \* epochBlockRoots is pruned beyond this size (10 in the code)
  OperatorReanchor   \* may the operator start the node with QAU_FINALITY_REANCHOR=1?

ASSUME FinalityConstantsAssumption ==
  /\ MaxEpochRoots \in Nat
  /\ OperatorReanchor \in BOOLEAN

Checkpoint == [epoch : Epochs, root : Root]
NoCheckpoint == [epoch |-> 0, root |-> NoRoot]

(* The record PutFinalityState writes; a missing key loads as NoRecord. *)
FinalityRecord == [justified : Checkpoint, finalized : Checkpoint]
NoRecord == [justified |-> NoCheckpoint, finalized |-> NoCheckpoint]

QPOSState ==
  [justified       : Checkpoint,
   finalized       : Checkpoint,
   epochBlockRoots : [Epochs -> Root],       \* NoRoot: no entry
   slotBlockRoots  : [Slots -> Root],
   pin             : [root : Root, slot : Slots],
   applied         : SUBSET Blocks,          \* appliedBlockRoots
   sealed          : SUBSET Blocks,          \* QTD instantFinalizedSlots, by block
   pending         : BOOLEAN,                \* finalityPersistPending
   callback        : BOOLEAN,                \* finalityPersist # nil
   disk            : FinalityRecord]

Known(roots) == {k \in DOMAIN roots : roots[k] # NoRoot}

Record(q) == [justified |-> q.justified, finalized |-> q.finalized]

NoPin == [root |-> NoRoot, slot |-> 0]

-----------------------------------------------------------------------------
(* The durable record *)

ValidFinalityState(r) ==
  /\ r.finalized.epoch <= r.justified.epoch
  /\ r.finalized.epoch = r.justified.epoch => r.finalized.root = r.justified.root
  /\ r.justified.epoch > 0 => r.justified.root # NoRoot
  /\ r.finalized.epoch > 0 => r.finalized.root # NoRoot

(* Mutant: the finalized root is compared with nothing. *)
PutFinalityStateAcceptsUnrooted(old, new) ==
  /\ ValidFinalityState(new)
  /\ new.justified.epoch >= old.justified.epoch
  /\ new.finalized.epoch >= old.finalized.epoch

(***************************************************************************)
(* PutFinalityState refuses an invalid record, one that moves a checkpoint *)
(* back and one that changes the root of a checkpoint already finalized.   *)
(***************************************************************************)
PutFinalityStateAccepts(old, new) ==
  LET justifiedRootImmutable ==
        old.finalized.epoch > 0 /\ old.justified.epoch <= old.finalized.epoch
  IN /\ ValidFinalityState(new)
     /\ new.justified.epoch >= old.justified.epoch
     /\ new.finalized.epoch >= old.finalized.epoch
     /\ new.justified.epoch = old.justified.epoch /\ old.justified.epoch > 0 /\ justifiedRootImmutable
          => new.justified.root = old.justified.root
     /\ new.finalized.epoch = old.finalized.epoch /\ old.finalized.epoch > 0
          => new.finalized.root = old.finalized.root

Canonical(q, c) ==
  c.epoch > 0 => q.epochBlockRoots[c.epoch] # NoRoot /\ q.epochBlockRoots[c.epoch] = c.root

(* Mutant: only the presence of checkpoint roots is looked at. *)
HasSomeFinalityRoots(q) == \A c \in {q.justified, q.finalized} : c.epoch > 0 => c.root # NoRoot

HasCanonicalFinalityRoots(q) == Canonical(q, q.justified) /\ Canonical(q, q.finalized)

PersistFinality(q, ok) ==
  IF ~q.callback THEN q
  ELSE IF ~HasCanonicalFinalityRoots(q) THEN [q EXCEPT !.pending = TRUE]
  ELSE IF q.pending /\ ok /\ PutFinalityStateAccepts(q.disk, Record(q))
       THEN [q EXCEPT !.disk = Record(q), !.pending = FALSE]
       ELSE q

-----------------------------------------------------------------------------
(* The slot of the finalized checkpoint block *)

SlotsHolding(q) ==
  {s \in Slots : s <= EpochStartSlot(q.finalized.epoch) /\ q.slotBlockRoots[s] = q.finalized.root}

PinFinalizedCheckpointSlot(q) ==
  IF q.finalized.root = NoRoot THEN [q EXCEPT !.pin = NoPin]
  ELSE IF q.pin.root = q.finalized.root \/ SlotsHolding(q) = {} THEN q
  ELSE [q EXCEPT !.pin = [root |-> q.finalized.root, slot |-> Max(SlotsHolding(q))]]

SetFinalizedCheckpointSlot(q, root, slot) ==
  IF root = NoRoot \/ root # q.finalized.root \/ slot > EpochStartSlot(q.finalized.epoch) THEN q
  ELSE [q EXCEPT !.pin = [root |-> root, slot |-> slot]]

HasFinalityFloor(q) == ~(q.finalized.epoch = 0 /\ q.finalized.root = NoRoot)

FinalizedCheckpointSlot(q) ==
  LET boundary == EpochStartSlot(q.finalized.epoch)
  IN IF q.finalized.root = NoRoot THEN boundary
     ELSE IF q.pin.root = q.finalized.root /\ q.pin.slot <= boundary THEN q.pin.slot
     ELSE IF SlotsHolding(q) = {} THEN boundary
     ELSE Max(SlotsHolding(q))

-----------------------------------------------------------------------------
(* Epoch roots and slot roots *)

SetGenesisRoot(q) ==
  IF q.epochBlockRoots[0] # NoRoot THEN q
  ELSE [q EXCEPT !.epochBlockRoots[0] = Genesis, !.slotBlockRoots[0] = Genesis]

(* A checkpoint whose epoch root has just been written takes the new root. *)
Reconciled(c, e, root) == IF c.epoch = e THEN [c EXCEPT !.root = root] ELSE c

(* Mutant: the prune cutoff before R104, which follows the finalized epoch alone. *)
EpochPruneCutoffByFinalized(q, e) == IF q.finalized.epoch > 1 THEN q.finalized.epoch - 1 ELSE e

(* The epoch roots below the result are dropped once there are too many. *)
EpochPruneCutoff(q, e) ==
  LET byFinalized == IF q.finalized.epoch > 1 THEN q.finalized.epoch - 1 ELSE e
  IN IF q.justified.epoch > 1 /\ q.justified.epoch - 1 < byFinalized
     THEN q.justified.epoch - 1 ELSE byFinalized

PruneEpochRoots(q, e) ==
  IF Cardinality(Known(q.epochBlockRoots)) <= MaxEpochRoots THEN q
  ELSE [q EXCEPT !.epochBlockRoots =
          [k \in Epochs |-> IF k < EpochPruneCutoff(q, e) THEN NoRoot ELSE @[k]]]

FinalizedRootFrozen(q, e, root) ==
  /\ e = q.finalized.epoch /\ e > 0
  /\ q.epochBlockRoots[e] \notin {NoRoot, root}

SetEpochBlockRoot(q, e, root, ok) ==
  LET j == Reconciled(q.justified, e, root)
      f == Reconciled(q.finalized, e, root)
      written == [q EXCEPT !.epochBlockRoots[e] = root,
                           !.justified = j,
                           !.finalized = f,
                           !.pending = @ \/ j # q.justified \/ f # q.finalized]
      persisted == IF written.pending THEN PersistFinality(written, ok) ELSE written
  IN IF FinalizedRootFrozen(q, e, root) THEN q ELSE PruneEpochRoots(persisted, e)

EnsureEpochBlockRoot(q, e, root, ok) ==
  IF q.epochBlockRoots[e] # NoRoot THEN q ELSE SetEpochBlockRoot(q, e, root, ok)

(***************************************************************************)
(* The bulk write of the roots rebuilt from the store (NoRoot: nothing     *)
(* rebuilt for that epoch).  A registered genesis root and the recorded    *)
(* root of the finalized epoch are kept; nothing is pruned.                *)
(***************************************************************************)
BackfillEpochRoots(q, roots, ok) ==
  LET skipped(e) == \/ roots[e] = NoRoot
                    \/ e = 0 /\ q.epochBlockRoots[0] # NoRoot
                    \/ FinalizedRootFrozen(q, e, roots[e])
      reconciled(c) == IF skipped(c.epoch) THEN c ELSE Reconciled(c, c.epoch, roots[c.epoch])
      written == [q EXCEPT !.epochBlockRoots = [e \in Epochs |-> IF skipped(e) THEN @[e] ELSE roots[e]],
                           !.justified = reconciled(@),
                           !.finalized = reconciled(@),
                           !.pending = @ \/ reconciled(q.justified) # q.justified
                                         \/ reconciled(q.finalized) # q.finalized]
  IN IF written.pending THEN PersistFinality(written, ok) ELSE written

(* The slot roots below the result are dropped once there are too many.  The cutoff by *)
(* q.currentSlot is inert: nothing assigns that field (nor q.currentEpoch).            *)
SlotPruneCutoff(q, slot) ==
  IF q.finalized.epoch > 1 THEN EpochStartSlot(q.finalized.epoch - 1)
  ELSE IF slot > 2 * SlotsPerEpoch THEN slot - 2 * SlotsPerEpoch
  ELSE 0

(* Mutant: the checkpoint is pinned one slot late. *)
RecordSlotRootLate(q, b) ==
  [q EXCEPT !.slotBlockRoots[SlotOf(b)] = b,
            !.pin = IF b = q.finalized.root THEN [root |-> b, slot |-> SlotOf(b) + 1] ELSE @]

RecordSlotRoot(q, b) ==
  LET written == [q EXCEPT !.slotBlockRoots[SlotOf(b)] = b,
                           !.pin = IF b = q.finalized.root THEN [root |-> b, slot |-> SlotOf(b)] ELSE @]
  IN IF Cardinality(Known(written.slotBlockRoots)) <= 3 * SlotsPerEpoch THEN written
     ELSE [written EXCEPT !.slotBlockRoots =
             [s \in Slots |-> IF s < SlotPruneCutoff(q, SlotOf(b)) THEN NoRoot ELSE @[s]]]

(***************************************************************************)
(* ApplyBlockHeader, the replay of a block's header once its body has been *)
(* executed.  It is idempotent by block hash.  The idempotency set evicts  *)
(* arbitrary members when it is full, so the call is a set of results.     *)
(***************************************************************************)
AppliedAfter(q, b) ==
  LET all  == q.applied \cup {b}
      drop == Cardinality(all) - 3 * SlotsPerEpoch
  IN IF drop <= 0 \/ SlotOf(b) < 3 * SlotsPerEpoch THEN {all}
     ELSE {all \ D : D \in kSubset(drop, all)}

ApplyBlockHeader(q, b, applied) ==
  IF b \in q.applied THEN q
  ELSE [q EXCEPT !.applied = applied,
                 !.slotBlockRoots[SlotOf(b)] = b,
                 !.epochBlockRoots[EpochOf(b)] =
                    IF IsBoundary(SlotOf(b)) /\ (EpochOf(b) > 0 \/ @ = NoRoot) THEN b ELSE @]

-----------------------------------------------------------------------------
(* How the checkpoints advance *)

(* Mutant: the change is not marked for persistence. *)
CommittedUnmarked(q, j, f, ok) ==
  PersistFinality(PinFinalizedCheckpointSlot([q EXCEPT !.justified = j, !.finalized = f]), ok)

Committed(q, j, f, ok) ==
  PersistFinality(PinFinalizedCheckpointSlot([q EXCEPT !.justified = j, !.finalized = f,
                    !.pending = @ \/ j # q.justified \/ f # q.finalized]), ok)

(***************************************************************************)
(* tryUpdateFinality once the votes for the previous epoch are enough: the *)
(* epoch becomes justified, and the checkpoint justified before becomes    *)
(* final when it is the epoch directly below.                              *)
(***************************************************************************)
JustifyPrevEpoch(q, prev, ok) ==
  LET old     == q.justified.epoch
      oldRoot == q.epochBlockRoots[old]
      j == IF prev > old THEN [epoch |-> prev, root |-> q.epochBlockRoots[prev]] ELSE q.justified
      f == IF /\ oldRoot # NoRoot
              /\ old = prev - 1
              /\ old > q.finalized.epoch \/ (old = q.finalized.epoch /\ q.finalized.root = NoRoot)
           THEN [epoch |-> old, root |-> oldRoot] ELSE q.finalized
  IN Committed(q, j, f, ok)

(* A checkpoint learnt from a header: the recorded root, else the header's own hash. *)
AdoptedCheckpoint(q, c, epoch, b) ==
  IF epoch <= c.epoch THEN c
  ELSE [epoch |-> epoch,
        root  |-> IF q.epochBlockRoots[epoch] # NoRoot THEN q.epochBlockRoots[epoch] ELSE b]

AdoptHeaderFinality(q, b, ok) ==
  LET j == AdoptedCheckpoint(q, q.justified, Header[b].justifiedEpoch, b)
      f == AdoptedCheckpoint(q, q.finalized, Header[b].finalizedEpoch, b)
  IN IF ~HeaderFinalityCheckpointsValid(Header[b]) \/ <<j, f>> = <<q.justified, q.finalized>> THEN q
     ELSE Committed(q, j, f, ok)

(* The slot root decides whether a sealed block is canonical; the epoch root is positive evidence only. *)
SealMatches(q, b) ==
  LET slotRoot == q.slotBlockRoots[SlotOf(b)]
  IN IF slotRoot # NoRoot THEN slotRoot = b ELSE q.epochBlockRoots[EpochOf(b)] = b

(* Mutant: a seal raises the finalized checkpoint only. *)
AdvanceForSealFinalizedOnly(q, b, ok) ==
  LET e == EpochOf(b)
      c == [epoch |-> e, root |-> IF q.epochBlockRoots[e] # NoRoot THEN q.epochBlockRoots[e] ELSE b]
  IN IF ~SealMatches(q, b) \/ e <= q.finalized.epoch THEN q ELSE Committed(q, q.justified, c, ok)

AdvanceForSeal(q, b, ok) ==
  LET e    == EpochOf(b)
      c    == [epoch |-> e, root |-> IF q.epochBlockRoots[e] # NoRoot THEN q.epochBlockRoots[e] ELSE b]
      f    == IF e > q.finalized.epoch THEN c ELSE q.finalized
      j    == IF e > q.justified.epoch THEN c ELSE q.justified
  IN IF ~SealMatches(q, b) THEN q
     ELSE IF <<j, f>> # <<q.justified, q.finalized>> THEN Committed(q, j, f, ok)
     ELSE IF q.pending THEN PersistFinality(q, ok) ELSE q

CompleteSeal(q, b, ok) == AdvanceForSeal([q EXCEPT !.sealed = @ \cup {b}], b, ok)

(* reconcileCanonicalSeal: the canonical root of b's slot has just landed and is b. *)
ReconcileCanonicalSeal(q, b, ok) == IF b \in q.sealed THEN AdvanceForSeal(q, b, ok) ELSE q

-----------------------------------------------------------------------------
(* Reorganisations *)

MaxReorgDepth == 2 * SlotsPerEpoch

(***************************************************************************)
(* planSlotReanchor: the segment the new head brings above the common      *)
(* ancestor with the replaced head, found by walking both chains through   *)
(* the store.  hint is an ancestor known to the caller, or NoRoot.         *)
(***************************************************************************)
ReanchorPlan(store, newHead, oldHead, hint) ==
  LET new    == Walk(store, newHead, MaxReorgDepth)
      common == new \cap Walk(store, oldHead, MaxReorgDepth)
      anc    == IF common # {} THEN Highest(common) ELSE IF hint \in new THEN hint ELSE NoRoot
  IN [ancestor     |-> anc,
      segment      |-> {b \in new : SlotOf(b) > (IF anc = NoRoot THEN 0 ELSE SlotOf(anc))},
      replacedSlot |-> SlotOf(oldHead)]

HasCleanRange(plan) ==
  \/ plan.segment # {}
  \/ plan.ancestor # NoRoot /\ plan.replacedSlot > SlotOf(plan.ancestor)

CleanMin(plan) ==
  IF plan.ancestor # NoRoot THEN SlotOf(plan.ancestor) + 1
  ELSE Min({SlotOf(b) : b \in plan.segment})

CleanMax(plan) == Max({SlotOf(b) : b \in plan.segment} \cup {plan.replacedSlot})

ReanchorConflictsWithFinality(q, plan) ==
  HasCleanRange(plan) /\ HasFinalityFloor(q) /\ CleanMin(plan) <= FinalizedCheckpointSlot(q)

SegmentRootAt(plan, slot) ==
  LET at == {b \in plan.segment : SlotOf(b) = slot}
  IN IF at = {} THEN NoRoot ELSE CHOOSE b \in at : TRUE

(* The first epoch whose boundary the abandoned range reaches. *)
FirstReachedEpoch(plan) == (CleanMin(plan) + SlotsPerEpoch - 1) \div SlotsPerEpoch

ReanchoredEpochRoot(q, plan, e) ==
  LET fromSegment == EpochRootFrom(plan.segment, e)
      old         == q.epochBlockRoots[e]
  IN IF e \in {q.justified.epoch, q.finalized.epoch} \/ e < FirstReachedEpoch(plan) THEN old
     ELSE IF fromSegment # NoRoot THEN fromSegment
     ELSE IF old # NoRoot THEN plan.ancestor
     ELSE NoRoot

(* Mutant: the slots of the new segment are written, the abandoned ones not cleaned. *)
ReanchorSlotRootsUncleaned(q, plan) ==
  [q EXCEPT !.slotBlockRoots = [s \in Slots |-> IF SegmentRootAt(plan, s) # NoRoot
                                                THEN SegmentRootAt(plan, s) ELSE @[s]]]

(***************************************************************************)
(* ReanchorSlotRootsBounded on a plan that does not conflict with finality *)
(* (a conflicting plan changes nothing and the caller keeps its head).     *)
(***************************************************************************)
ReanchorSlotRoots(q, plan) ==
  IF ~HasCleanRange(plan) THEN q
  ELSE [q EXCEPT
          !.slotBlockRoots = [s \in Slots |-> IF CleanMin(plan) <= s /\ s <= CleanMax(plan)
                                              THEN SegmentRootAt(plan, s) ELSE @[s]],
          !.epochBlockRoots = [e \in Epochs |-> ReanchoredEpochRoot(q, plan, e)]]

(***************************************************************************)
(* The re-drive of the seals of the re-anchored slots.  Several seals are  *)
(* driven in map order; the result is that of a seal of the highest epoch. *)
(***************************************************************************)
SealsToRedrive(q, plan) ==
  LET S == q.sealed \cap plan.segment
  IN {b \in S : \A c \in S : EpochOf(c) <= EpochOf(b)}

ReanchorAndRedrive(q, plan, ok) ==
  LET r == ReanchorSlotRoots(q, plan)
  IN IF SealsToRedrive(q, plan) = {} THEN {r}
     ELSE {AdvanceForSeal(r, b, ok) : b \in SealsToRedrive(q, plan)}

-----------------------------------------------------------------------------
(* Start-up *)

NewQPOS(disk) ==
  [justified |-> NoCheckpoint, finalized |-> NoCheckpoint,
   epochBlockRoots |-> [e \in Epochs |-> NoRoot], slotBlockRoots |-> [s \in Slots |-> NoRoot],
   pin |-> NoPin, applied |-> {}, sealed |-> {},
   pending |-> FALSE, callback |-> FALSE, disk |-> disk]

(* Mutant: an epoch-0 root is refused once the genesis root is registered. *)
RestoreAcceptsBeforeGenesis(q, r) ==
  /\ r.finalized.epoch <= r.justified.epoch
  /\ \A c \in {r.justified, r.finalized} :
       c.epoch = 0 /\ c.root # NoRoot => q.epochBlockRoots[0] = NoRoot

(* The refusals of RestoreFinalityState, for the record r. *)
RestoreAccepts(q, r) ==
  /\ r.finalized.epoch <= r.justified.epoch
  /\ r.finalized.epoch = r.justified.epoch /\ r.justified.epoch > 0 => r.justified.root = r.finalized.root
  /\ r.justified.epoch > 0 => r.justified.root # NoRoot
  /\ r.finalized.epoch > 0 => r.finalized.root # NoRoot
  /\ r.justified.epoch >= q.justified.epoch /\ r.finalized.epoch >= q.finalized.epoch
  /\ q.justified.epoch > 0 /\ r.justified.epoch = q.justified.epoch => r.justified.root = q.justified.root
  /\ q.finalized.epoch > 0 /\ r.finalized.epoch = q.finalized.epoch => r.finalized.root = q.finalized.root
  /\ \A c \in {r.justified, r.finalized} :
       c.epoch = 0 /\ c.root # NoRoot => q.epochBlockRoots[0] \in {NoRoot, c.root}
  /\ r.justified.epoch = 0 /\ r.finalized.epoch = 0 /\ r.justified.root # NoRoot /\ r.finalized.root # NoRoot
       => r.justified.root = r.finalized.root

RestoredRoot(r, e, old) ==
  IF e = r.finalized.epoch /\ r.finalized.root # NoRoot THEN r.finalized.root
  ELSE IF e = r.justified.epoch /\ r.justified.root # NoRoot THEN r.justified.root
  ELSE old

RestoreFinalityState(q, r) ==
  LET restored == [q EXCEPT
        !.justified = r.justified,
        !.finalized = r.finalized,
        !.epochBlockRoots = [e \in Epochs |-> RestoredRoot(r, e, @[e])],
        !.slotBlockRoots[0] = RestoredRoot(r, 0, @)]
  IN [restored EXCEPT !.pending = @ /\ ~HasCanonicalFinalityRoots(restored)]

SetFinalityPersistCallback(q, ok) ==
  PersistFinality([q EXCEPT !.callback = TRUE,
                            !.pending = @ \/ ~HasCanonicalFinalityRoots(q)], ok)

(* The store lookup of pinFinalizedCheckpointSlot: it only finds a block on the stored chain. *)
PinFromStore(q, store) ==
  IF q.finalized.root \notin store THEN q
  ELSE SetFinalizedCheckpointSlot(q, q.finalized.root, SlotOf(q.finalized.root))

(* A record that is refused leaves the callback uninstalled. *)
ConfigureQPOSFinalityPersistence(q, store, ok) ==
  IF ~RestoreAccepts(q, q.disk) THEN q
  ELSE SetFinalityPersistCallback(PinFromStore(RestoreFinalityState(q, q.disk), store), ok)

ReanchorFinalityToGenesis(q, ok) ==
  LET c == [epoch |-> 0, root |-> q.epochBlockRoots[0]]
  IN IF c.root = NoRoot THEN q
     ELSE PersistFinality([q EXCEPT !.justified = c, !.finalized = c, !.pending = TRUE], ok)

(* Mutant: the re-anchor does not ask whether the operator wanted it. *)
StartUpReanchored(disk, store, latest, reanchor, ok) ==
  ReanchorFinalityToGenesis(
    AdoptHeaderFinality(
      ConfigureQPOSFinalityPersistence(SetGenesisRoot(NewQPOS(disk)), store, ok), latest, ok), ok)

(***************************************************************************)
(* The start-up of the engine on a store whose latest block is latest: the *)
(* genesis root, the durable record, the stored head's own checkpoints and *)
(* last the operator's re-anchor.                                          *)
(***************************************************************************)
StartUp(disk, store, latest, reanchor, ok) ==
  LET configured == ConfigureQPOSFinalityPersistence(SetGenesisRoot(NewQPOS(disk)), store, ok)
      seeded     == AdoptHeaderFinality(configured, latest, ok)
  IN IF reanchor THEN ReanchorFinalityToGenesis(seeded, ok) ELSE seeded

-----------------------------------------------------------------------------
(* The specification: any caller, any method, any block *)

VARIABLE qpos

Init == qpos = StartUp(NoRecord, {Genesis}, Genesis, FALSE, TRUE)

CallSetSlotBlockRoot(b, ok) == qpos' = ReconcileCanonicalSeal(RecordSlotRoot(qpos, b), b, ok)

CallSetEpochBlockRoot(b, ok) ==
  /\ IsBoundary(SlotOf(b))
  /\ qpos' = SetEpochBlockRoot(qpos, EpochOf(b), b, ok)

CallEnsureEpochBlockRoot(b, ok) == qpos' = EnsureEpochBlockRoot(qpos, EpochOf(b), ParentOf(b), ok)

CallApplyBlockHeader(b) == \E applied \in AppliedAfter(qpos, b) : qpos' = ApplyBlockHeader(qpos, b, applied)

CallAdoptHeaderFinality(b, ok) == qpos' = AdoptHeaderFinality(qpos, b, ok)

(* A vote only counts for a target whose root is recorded. *)
CallTryUpdateFinality(prev, ok) ==
  /\ prev > 0
  /\ qpos.epochBlockRoots[prev] # NoRoot
  /\ qpos' = JustifyPrevEpoch(qpos, prev, ok)

(* One seal record per slot. *)
CallCompleteSeal(b, ok) ==
  /\ \A c \in qpos.sealed : SlotOf(c) # SlotOf(b)
  /\ qpos' = CompleteSeal(qpos, b, ok)

(* The roots of the epochs from oldest up to the one before the tip's. *)
BackfillRoots(tip, oldest) ==
  [e \in Epochs |-> IF oldest <= e /\ e < EpochOf(tip)
                    THEN EpochRootFrom({b \in Chain(tip) : EpochOf(b) >= oldest}, e) ELSE NoRoot]

CallBackfillEpochRoots(tip, oldest, ok) == qpos' = BackfillEpochRoots(qpos, BackfillRoots(tip, oldest), ok)

(* A plan with the ancestor a, and one of a walk that ended above every ancestor. *)
PlanAbove(newHead, a, old) ==
  [ancestor |-> a, segment |-> {b \in Chain(newHead) : SlotOf(b) > SlotOf(a)}, replacedSlot |-> SlotOf(old)]

PlanUnrooted(newHead, a, old) ==
  [ancestor |-> NoRoot, segment |-> {b \in Chain(newHead) \ {Genesis} : SlotOf(b) >= SlotOf(a)},
   replacedSlot |-> SlotOf(old)]

(* Every plan a head switch to newHead can hand over. *)
ReanchorPlans(newHead) ==
  {PlanAbove(newHead, a, old) : a \in Chain(newHead), old \in Blocks} \cup
  {PlanUnrooted(newHead, a, old) : a \in Chain(newHead), old \in Blocks}

CallReanchorSlotRoots(newHead, ok) ==
  \E plan \in ReanchorPlans(newHead) :
    /\ ~ReanchorConflictsWithFinality(qpos, plan)
    /\ qpos' \in ReanchorAndRedrive(qpos, plan, ok)

Restart(store, latest, reanchor, ok) ==
  /\ reanchor => OperatorReanchor
  /\ qpos' = StartUp(qpos.disk, store, latest, reanchor, ok)

Next ==
  \/ \E b \in Blocks \ {Genesis}, ok \in BOOLEAN :
       \/ CallSetSlotBlockRoot(b, ok)
       \/ CallSetEpochBlockRoot(b, ok)
       \/ CallEnsureEpochBlockRoot(b, ok)
       \/ CallAdoptHeaderFinality(b, ok)
       \/ CallCompleteSeal(b, ok)
  \/ \E b \in Blocks \ {Genesis} : CallApplyBlockHeader(b)
  \/ \E prev \in Epochs, ok \in BOOLEAN : CallTryUpdateFinality(prev, ok)
  \/ \E tip \in Blocks, oldest \in Epochs, ok \in BOOLEAN : CallBackfillEpochRoots(tip, oldest, ok)
  \/ \E newHead \in Blocks, ok \in BOOLEAN : CallReanchorSlotRoots(newHead, ok)
  \/ \E store \in {{}, Blocks}, latest \in Blocks, reanchor \in BOOLEAN, ok \in BOOLEAN :
       Restart(store, latest, reanchor, ok)

Spec == Init /\ [][Next]_qpos

-----------------------------------------------------------------------------
(* Properties *)

(* The fields of the engine hold values of their Go types. *)
TypeOK == qpos \in QPOSState

(* tryUpdateFinality, header adoption, seals, restore and re-anchor never let *)
(* the finalized epoch overtake the justified one.                            *)
FinalizedNotAboveJustified == qpos.finalized.epoch <= qpos.justified.epoch

(* A checkpoint of epoch 0 names the genesis block or nothing.                *)
GenesisAnchored(r) == \A c \in {r.justified, r.finalized} : c.epoch = 0 => c.root \in {NoRoot, Genesis}

(* Whatever the methods did and in whatever order, the record on disk is one  *)
(* that RestoreFinalityState accepts on a freshly created engine, so a crash  *)
(* at any moment is followed by a start with persistence enabled.  The one    *)
(* refusal left is a root of epoch 0 other than genesis, which                *)
(* EnsureEpochBlockRoot can write once the genesis root has been pruned.      *)
DurableRecordRestorable ==
  GenesisAnchored(qpos.disk) => RestoreAccepts(SetGenesisRoot(NewQPOS(qpos.disk)), qpos.disk)

(* "Disk state cannot lag behind a committed finality transition"             *)
(* (SetFinalityPersistCallback): when persistence is enabled and no write is  *)
(* pending, the durable record is exactly the checkpoints held in memory.     *)
DurableUnlessPending == qpos.callback /\ ~qpos.pending => qpos.disk = Record(qpos)

(* The durable checkpoints are never ahead of the ones in memory, as long as  *)
(* the operator does not reset the latter: a crash can only lose finality     *)
(* that was not yet written, never resurrect some the engine had given up.    *)
DiskNotAhead ==
  qpos.callback /\ ~OperatorReanchor =>
    /\ qpos.disk.justified.epoch <= qpos.justified.epoch
    /\ qpos.disk.finalized.epoch <= qpos.finalized.epoch

(* Durable finality is irrevocable: the durable epochs never decrease and the *)
(* root of a durable finalized epoch never changes, across crashes, failed    *)
(* writes and the operator's re-anchor.                                       *)
DurableFinalityIrrevocable ==
  [][/\ qpos'.disk.justified.epoch >= qpos.disk.justified.epoch
     /\ qpos'.disk.finalized.epoch >= qpos.disk.finalized.epoch
     /\ qpos.disk.finalized.epoch > 0 /\ qpos'.disk.finalized.epoch = qpos.disk.finalized.epoch
          => qpos'.disk.finalized.root = qpos.disk.finalized.root]_qpos

(* The hash of a header stands in for a checkpoint root only until the epoch  *)
(* root is known (adoptCheckpointRoot).  Such a placeholder is never durable: *)
(* whatever is written was recorded in epochBlockRoots when it was written.   *)
OnlyCanonicalRootsDurable ==
  [][qpos'.disk # qpos.disk =>
       \A c \in {qpos'.disk.justified, qpos'.disk.finalized} :
         c.epoch > 0 => c.root \in {qpos.epochBlockRoots[c.epoch], qpos'.epochBlockRoots[c.epoch]}]_qpos

RootKept(e) == qpos.epochBlockRoots[e] # NoRoot => qpos'.epochBlockRoots[e] # NoRoot

Restarted ==
  qpos' \in {StartUp(qpos.disk, store, latest, reanchor, ok) :
               store \in {{}, Blocks}, latest \in Blocks, reanchor \in BOOLEAN, ok \in BOOLEAN}

(* Votes name the justified checkpoint as their source and are dropped when   *)
(* its root is unknown.  While the engine runs, neither the pruning of        *)
(* setEpochBlockRootLocked nor a re-anchor drops the recorded root of the     *)
(* justified or the finalized epoch once these are past epoch 1.              *)
CheckpointRootsKept ==
  [][(\A e \in {qpos.justified.epoch, qpos.finalized.epoch} : e > 1 => RootKept(e)) \/ Restarted]_qpos
=============================================================================
