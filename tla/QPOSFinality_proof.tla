------------------------- MODULE QPOSFinality_proof -------------------------
(***************************************************************************)
(* Proofs about QPOSFinality, for every block tree, epoch length and       *)
(* number of epochs.                                                       *)
(***************************************************************************)
EXTENDS QPOSFinality, WellFoundedInduction, TLAPS

(* Every nonempty set of naturals has a least element. *)
LEMMA LeastNat ==
  ASSUME NEW T \in SUBSET Nat, T # {}
  PROVE  \E x \in T : \A y \in T : x <= y
<1> DEFINE R == OpToRel(<, Nat)
<1>1. IsWellFoundedOn(R, Nat)
  BY NatLessThanWellFounded, Zenon
<1>2. \E x \in T : \A y \in T : ~(<<y, x>> \in R)
  <2> HIDE DEF R
  <2> QED BY <1>1, WFMin, Zenon
<1>3. \A x, y \in T : x > y => <<y, x>> \in R
  BY DEF OpToRel
<1>4. PICK x \in T : \A y \in T : ~(<<y, x>> \in R)
  BY <1>2, Zenon
<1>5. \A y \in T : ~(x > y)
  <2> HIDE DEF R
  <2> QED BY <1>3, <1>4, Zenon
<1> QED BY <1>5

(* Max picks an element of a nonempty set of naturals that is bounded. *)
LEMMA MaxInSet ==
  ASSUME NEW N \in Nat, NEW S \in SUBSET (0 .. N), S # {}
  PROVE  Max(S) \in S /\ \A y \in S : Max(S) >= y
<1> DEFINE T == {N - s : s \in S}
<1>1. T \in SUBSET Nat /\ T # {}
  <2>1. PICK s \in S : TRUE
    BY Zenon
  <2>2. N - s \in T
    BY <2>1
  <2>3. \A r \in S : N - r \in Nat
    OBVIOUS
  <2> QED BY <2>2, <2>3
<1>2. PICK x \in T : \A y \in T : x <= y
  BY <1>1, LeastNat, Zenon
<1>3. PICK s \in S : x = N - s
  OBVIOUS
<1>4. \A y \in S : s >= y
  <2> TAKE y \in S
  <2>1. N - y \in T
    OBVIOUS
  <2>2. x <= N - y
    BY <1>2, <2>1
  <2> QED BY <1>3, <2>2
<1> QED BY <1>4, Zenon DEF Max

(* A nonempty set of blocks has a lowest member. *)
LEMMA LowestInSet ==
  ASSUME NEW S \in SUBSET Blocks, S # {}
  PROVE  Lowest(S) \in S
<1>1. \A b \in Blocks : HeightOf(b) \in Nat
  BY HeaderAssumption DEF HeightOf, HeaderType
<1> DEFINE T == {HeightOf(b) : b \in S}
<1>2. T \in SUBSET Nat /\ T # {}
  BY <1>1
<1>3. PICK x \in T : \A y \in T : x <= y
  BY <1>2, LeastNat, Zenon
<1>4. PICK b \in S : x = HeightOf(b)
  OBVIOUS
<1>5. \A c \in S : HeightOf(b) <= HeightOf(c)
  BY <1>3, <1>4
<1> QED BY <1>5 DEF Lowest

(* Header fields have their types. *)
LEMMA HeaderFacts ==
  ASSUME NEW b \in Blocks
  PROVE  /\ SlotOf(b) \in Slots
         /\ EpochOf(b) \in Epochs
         /\ ParentOf(b) \in Root
         /\ Header[b].justifiedEpoch \in Epochs
         /\ Header[b].finalizedEpoch \in Epochs
         /\ Header[b].finalizedEpoch <= Header[b].justifiedEpoch
BY HeaderAssumption DEF HeaderType, SlotOf, ParentOf

(* The root an epoch gets from a segment of blocks is a block or no root. *)
LEMMA EpochRootFromType ==
  ASSUME NEW S \in SUBSET Blocks, NEW e
  PROVE  EpochRootFrom(S, e) \in Root
<1> DEFINE inEpoch == {b \in S : EpochOf(b) = e}
<1>1. CASE inEpoch = {}
  BY <1>1 DEF EpochRootFrom, Root
<1>2. CASE inEpoch # {}
  <2>1. Lowest(inEpoch) \in Blocks
    BY <1>2, LowestInSet
  <2> HIDE DEF inEpoch
  <2>2. ParentOf(Lowest(inEpoch)) \in Root
    BY <2>1, HeaderFacts
  <2>3. EpochRootFrom(S, e) \in {NoRoot, Lowest(inEpoch), ParentOf(Lowest(inEpoch))}
    BY DEF EpochRootFrom, inEpoch
  <2> QED BY <2>1, <2>2, <2>3 DEF Root
<1> QED BY <1>1, <1>2

(* So are the roots rebuilt from the store. *)
LEMMA BackfillRootsType ==
  ASSUME NEW tip, NEW oldest
  PROVE  BackfillRoots(tip, oldest) \in [Epochs -> Root]
<1>1. \A e \in Epochs : EpochRootFrom({b \in Chain(tip) : EpochOf(b) >= oldest}, e) \in Root
  BY EpochRootFromType DEF Chain
<1> QED BY <1>1 DEF BackfillRoots, Root

(* Epoch 0 and slot 0 exist, and the slots are an interval. *)
LEMMA ZeroInRange == 0 \in Epochs /\ 0 \in Slots /\ \E N \in Nat : Slots = 0 .. N
<1>1. (MaxEpoch + 1) * SlotsPerEpoch - 1 \in Nat
  <2>1. \A m, n \in Nat : (m + 1) * (n + 1) - 1 = m * n + m + n
    OBVIOUS
  <2>2. \A m, n \in Nat : m * n + m + n \in Nat
    OBVIOUS
  <2>3. SlotsPerEpoch = (SlotsPerEpoch - 1) + 1 /\ SlotsPerEpoch - 1 \in Nat /\ MaxEpoch \in Nat
    BY ConstantsAssumption
  <2> QED BY <2>1, <2>2, <2>3
<1> QED BY <1>1, ConstantsAssumption DEF Epochs, Slots

-----------------------------------------------------------------------------
(* What every state of the engine satisfies. *)
IInv(q) ==
  /\ q \in QPOSState
  /\ q.finalized.epoch <= q.justified.epoch
  /\ ValidFinalityState(q.disk)
  /\ q.callback /\ ~q.pending => q.disk = Record(q)
  /\ q.callback /\ ~OperatorReanchor =>
       /\ q.disk.justified.epoch <= q.justified.epoch
       /\ q.disk.finalized.epoch <= q.finalized.epoch

(* What every step does to the durable record. *)
DiskMonotone(q, r) ==
  /\ r.disk.justified.epoch >= q.disk.justified.epoch
  /\ r.disk.finalized.epoch >= q.disk.finalized.epoch
  /\ q.disk.finalized.epoch > 0 /\ r.disk.finalized.epoch = q.disk.finalized.epoch
       => r.disk.finalized.root = q.disk.finalized.root

WrittenCanonical(q, r) ==
  r.disk # q.disk =>
    \A c \in {r.disk.justified, r.disk.finalized} :
      c.epoch > 0 => c.root \in {q.epochBlockRoots[c.epoch], r.epochBlockRoots[c.epoch]}

Safe(q, r) == IInv(r) /\ DiskMonotone(q, r) /\ WrittenCanonical(q, r)

(* What every call does to the recorded roots of the checkpoints past epoch 1. *)
Kept(q, r) ==
  \A e \in {q.justified.epoch, q.finalized.epoch} :
    e > 1 /\ q.epochBlockRoots[e] # NoRoot => r.epochBlockRoots[e] # NoRoot

(* A call that leaves the recorded roots alone. *)
SameRoots(r, q) == r.epochBlockRoots = q.epochBlockRoots /\ r.slotBlockRoots = q.slotBlockRoots

(* A call that drops recorded roots, keeps them, or records the slots of the *)
(* blocks of S and epochs with the roots of E.                               *)
RootsFrom(q, r, S, E) ==
  /\ \A s \in Slots : r.slotBlockRoots[s] \in {NoRoot, q.slotBlockRoots[s]} \cup {b \in S : SlotOf(b) = s}
  /\ \A e \in Epochs : r.epochBlockRoots[e] \in {NoRoot, q.epochBlockRoots[e]} \cup E

(* A state with the same durable record satisfies what is said of the record. *)
LEMMA SameDisk ==
  ASSUME NEW q, IInv(q), NEW r, IInv(r), r.disk = q.disk
  PROVE  Safe(q, r)
BY DEF Safe, IInv, DiskMonotone, WrittenCanonical, QPOSState, FinalityRecord, Checkpoint, Epochs

(* persistFinalityLocked keeps the invariant and writes only canonical roots; *)
(* it changes nothing but the durable record and the pending flag.            *)
LEMMA PersistSafe ==
  ASSUME NEW q, IInv(q), NEW ok, NEW r, r = PersistFinality(q, ok)
  PROVE  /\ Safe(q, r)
         /\ r \in {q, [q EXCEPT !.pending = TRUE], [q EXCEPT !.disk = Record(q), !.pending = FALSE]}
         /\ r.disk # q.disk => HasCanonicalFinalityRoots(q) /\ r.disk = Record(q)
         /\ SameRoots(r, q)
<1>0. q \in QPOSState /\ Record(q) \in FinalityRecord
  BY DEF IInv, QPOSState, Record, FinalityRecord
<1>1. CASE r = q
  BY <1>1, SameDisk DEF SameRoots
<1>2. CASE r = [q EXCEPT !.pending = TRUE]
  <2>1. IInv(r) /\ r.disk = q.disk /\ SameRoots(r, q)
    BY <1>2, <1>0, Zenon DEF IInv, QPOSState, Record, SameRoots
  <2>2. Safe(q, r)
    BY <2>1, SameDisk
  <2> QED BY <2>1, <2>2, <1>2
<1>3. CASE /\ q.pending
           /\ HasCanonicalFinalityRoots(q)
           /\ PutFinalityStateAccepts(q.disk, Record(q))
           /\ r = [q EXCEPT !.disk = Record(q), !.pending = FALSE]
  <2>1. /\ r \in QPOSState /\ r.disk = Record(q) /\ r.justified = q.justified
        /\ r.finalized = q.finalized /\ SameRoots(r, q)
        /\ Record(r) = Record(q)
    BY <1>3, <1>0, Zenon DEF QPOSState, Record, SameRoots
  <2>2. IInv(r)
    BY <2>1, <1>3, <1>0 DEF IInv, PutFinalityStateAccepts, Record, QPOSState, FinalityRecord, Checkpoint, Epochs
  <2>3. DiskMonotone(q, r)
    BY <2>1, <1>3, <1>0 DEF DiskMonotone, PutFinalityStateAccepts, Record, QPOSState, FinalityRecord, Checkpoint, Epochs
  <2>4. WrittenCanonical(q, r)
    BY <2>1, <1>3 DEF WrittenCanonical, HasCanonicalFinalityRoots, Canonical, Record
  <2> QED BY <2>1, <2>2, <2>3, <2>4, <1>3 DEF Safe
<1> QED BY <1>1, <1>2, <1>3 DEF PersistFinality

(* A change of the maps and the pin alone keeps the invariant. *)
LEMMA SameCheckpoints ==
  ASSUME NEW q, IInv(q), NEW r \in QPOSState,
         r.justified = q.justified, r.finalized = q.finalized, r.pending = q.pending,
         r.callback = q.callback, r.disk = q.disk
  PROVE  IInv(r) /\ Safe(q, r)
<1>1. IInv(r)
  BY DEF IInv, Record
<1> QED BY <1>1, SameDisk

(* Two steps in a row, the second of which does not touch the epoch roots. *)
LEMMA SafeThen ==
  ASSUME NEW q, IInv(q), NEW p, IInv(p), NEW r, p.disk = q.disk, Safe(p, r),
         p.epochBlockRoots = q.epochBlockRoots \/ r.epochBlockRoots = p.epochBlockRoots
  PROVE  Safe(q, r)
BY DEF Safe, DiskMonotone, WrittenCanonical

(* The checkpoint-slot pin is the only thing the pin operators change. *)
LEMMA PinSafe ==
  ASSUME NEW q, IInv(q), NEW r, r = PinFinalizedCheckpointSlot(q)
  PROVE  IInv(r) /\ Safe(q, r) /\ r.disk = q.disk /\ SameRoots(r, q)
<1>0. q \in QPOSState /\ NoPin \in [root : Root, slot : Slots]
  BY ZeroInRange DEF IInv, NoPin, Root
<1>1. CASE r = q
  BY <1>1, SameDisk DEF SameRoots
<1>2. CASE r = [q EXCEPT !.pin = NoPin]
  <2>1. /\ r \in QPOSState /\ r.justified = q.justified /\ r.finalized = q.finalized
        /\ r.pending = q.pending /\ r.callback = q.callback /\ r.disk = q.disk
        /\ SameRoots(r, q)
    BY <1>0, <1>2 DEF QPOSState, SameRoots
  <2> QED BY <2>1, SameCheckpoints
<1>3. CASE /\ SlotsHolding(q) # {}
           /\ r = [q EXCEPT !.pin = [root |-> q.finalized.root, slot |-> Max(SlotsHolding(q))]]
  <2>1. SlotsHolding(q) \in SUBSET Slots
    BY DEF SlotsHolding
  <2>2. Max(SlotsHolding(q)) \in Slots
    BY <1>3, <2>1, ZeroInRange, MaxInSet
  <2>3. q.finalized.root \in Root
    BY <1>0 DEF QPOSState, Checkpoint
  <2>4. /\ r \in QPOSState /\ r.justified = q.justified /\ r.finalized = q.finalized
        /\ r.pending = q.pending /\ r.callback = q.callback /\ r.disk = q.disk
        /\ SameRoots(r, q)
    BY <1>0, <1>3, <2>2, <2>3 DEF QPOSState, SameRoots
  <2> QED BY <2>4, SameCheckpoints
<1> QED BY <1>1, <1>2, <1>3 DEF PinFinalizedCheckpointSlot

(* Checkpoints that only move forward, committed and persisted. *)
LEMMA CommittedSafe ==
  ASSUME NEW q, IInv(q), NEW ok, NEW j \in Checkpoint, NEW f \in Checkpoint,
         f.epoch <= j.epoch, j.epoch >= q.justified.epoch, f.epoch >= q.finalized.epoch,
         NEW r, r = Committed(q, j, f, ok)
  PROVE  Safe(q, r) /\ SameRoots(r, q)
<1> DEFINE p == [q EXCEPT !.justified = j, !.finalized = f,
                          !.pending = @ \/ j # q.justified \/ f # q.finalized]
<1>1. q \in QPOSState
  BY DEF IInv
<1>2. p \in QPOSState /\ p.justified = j /\ p.finalized = f /\ p.callback = q.callback /\ p.disk = q.disk
      /\ SameRoots(p, q)
      /\ p.pending = (q.pending \/ j # q.justified \/ f # q.finalized)
  BY <1>1, Zenon DEF QPOSState, SameRoots
<1>3. r = PersistFinality(PinFinalizedCheckpointSlot(p), ok)
  BY DEF Committed
<1> HIDE DEF p
<1>4. IInv(p)
  BY <1>1, <1>2 DEF IInv, Record, QPOSState, FinalityRecord, Checkpoint, Epochs
<1> DEFINE w == PinFinalizedCheckpointSlot(p)
<1>5. IInv(w) /\ w.disk = p.disk /\ SameRoots(w, p)
  BY <1>4, PinSafe
<1>6. r = PersistFinality(w, ok)
  BY <1>3
<1> HIDE DEF w
<1>7. Safe(w, r) /\ SameRoots(r, w)
  BY <1>5, <1>6, PersistSafe, Zenon
<1> QED BY <1>2, <1>5, <1>7, SafeThen DEF SameRoots

(* tryUpdateFinality *)
LEMMA JustifySafe ==
  ASSUME NEW q, IInv(q), NEW prev \in Epochs, NEW ok, NEW r, r = JustifyPrevEpoch(q, prev, ok)
  PROVE  Safe(q, r) /\ Kept(q, r) /\ SameRoots(r, q)
<1> DEFINE old     == q.justified.epoch
           oldRoot == q.epochBlockRoots[old]
           j == IF prev > old THEN [epoch |-> prev, root |-> q.epochBlockRoots[prev]] ELSE q.justified
           f == IF /\ oldRoot # NoRoot
                   /\ old = prev - 1
                   /\ old > q.finalized.epoch \/ (old = q.finalized.epoch /\ q.finalized.root = NoRoot)
                THEN [epoch |-> old, root |-> oldRoot] ELSE q.finalized
<1>1. /\ q.justified \in Checkpoint /\ q.finalized \in Checkpoint
      /\ q.epochBlockRoots \in [Epochs -> Root] /\ q.finalized.epoch <= q.justified.epoch
  BY DEF IInv, QPOSState
<1>a. old \in Epochs /\ oldRoot \in Root /\ q.epochBlockRoots[prev] \in Root
  BY <1>1 DEF Checkpoint
<1>b. \A e \in Epochs, root \in Root : [epoch |-> e, root |-> root] \in Checkpoint
  BY DEF Checkpoint
<1>2. j \in Checkpoint /\ j.epoch >= q.justified.epoch
  <2>1. CASE prev > old
    BY <2>1, <1>a, <1>b DEF Epochs
  <2>2. CASE ~(prev > old)
    BY <2>2, <1>1 DEF Checkpoint, Epochs
  <2> QED BY <2>1, <2>2
<1>3. f \in Checkpoint /\ f.epoch >= q.finalized.epoch /\ f.epoch <= q.justified.epoch
  <2>1. CASE f = [epoch |-> old, root |-> oldRoot]
    BY <2>1, <1>1, <1>a, <1>b DEF Epochs
  <2>2. CASE f = q.finalized
    BY <2>2, <1>1 DEF Checkpoint, Epochs
  <2> QED BY <2>1, <2>2
<1>4. r = Committed(q, j, f, ok)
  BY DEF JustifyPrevEpoch
<1> HIDE DEF j, f
<1>5. f.epoch <= j.epoch
  BY <1>1, <1>2, <1>3 DEF Checkpoint, Epochs
<1> QED BY <1>2, <1>3, <1>4, <1>5, CommittedSafe DEF Kept, SameRoots

(* adoptCheckpointRoot: an adopted checkpoint is the newer of the two. *)
LEMMA AdoptedCheckpointFacts ==
  ASSUME NEW q, q.epochBlockRoots \in [Epochs -> Root], NEW c \in Checkpoint,
         NEW epoch \in Epochs, NEW b \in Blocks
  PROVE  LET n == AdoptedCheckpoint(q, c, epoch, b)
         IN n \in Checkpoint /\ n.epoch >= c.epoch /\ n.epoch >= epoch /\ n.epoch \in {c.epoch, epoch}
<1> DEFINE root == IF q.epochBlockRoots[epoch] # NoRoot THEN q.epochBlockRoots[epoch] ELSE b
<1>1. root \in Root
  BY DEF Root
<1>2. AdoptedCheckpoint(q, c, epoch, b) = IF epoch <= c.epoch THEN c ELSE [epoch |-> epoch, root |-> root]
  BY DEF AdoptedCheckpoint
<1> HIDE DEF root
<1>3. [epoch |-> epoch, root |-> root] \in Checkpoint
  BY <1>1 DEF Checkpoint
<1>4. c.epoch \in Epochs
  BY DEF Checkpoint
<1> QED BY <1>2, <1>3, <1>4 DEF Epochs

(* AdoptHeaderFinality *)
LEMMA AdoptSafe ==
  ASSUME NEW q, IInv(q), NEW b \in Blocks, NEW ok, NEW r, r = AdoptHeaderFinality(q, b, ok)
  PROVE  Safe(q, r) /\ SameRoots(r, q)
<1> DEFINE hj == Header[b].justifiedEpoch
           hf == Header[b].finalizedEpoch
           j  == AdoptedCheckpoint(q, q.justified, hj, b)
           f  == AdoptedCheckpoint(q, q.finalized, hf, b)
<1>1. /\ q.justified \in Checkpoint /\ q.finalized \in Checkpoint
      /\ q.epochBlockRoots \in [Epochs -> Root] /\ q.finalized.epoch <= q.justified.epoch
  BY DEF IInv, QPOSState
<1>2. hj \in Epochs /\ hf \in Epochs /\ hf <= hj
  BY HeaderFacts
<1> HIDE DEF hj, hf
<1>3. j \in Checkpoint /\ j.epoch >= q.justified.epoch /\ j.epoch >= hj
  BY <1>1, <1>2, AdoptedCheckpointFacts
<1>4. f \in Checkpoint /\ f.epoch >= q.finalized.epoch /\ f.epoch \in {hf, q.finalized.epoch}
  BY <1>1, <1>2, AdoptedCheckpointFacts
<1>5. r = q \/ r = Committed(q, j, f, ok)
  BY DEF AdoptHeaderFinality, hj, hf
<1> HIDE DEF j, f
<1>6. f.epoch <= j.epoch
  BY <1>1, <1>2, <1>3, <1>4 DEF Checkpoint, Epochs
<1>7. CASE r = q
  BY <1>7, SameDisk DEF SameRoots
<1>8. CASE r = Committed(q, j, f, ok)
  BY <1>3, <1>4, <1>6, <1>8, CommittedSafe
<1> QED BY <1>5, <1>7, <1>8

(* advanceQPOSFinalityForSeal *)
LEMMA SealSafe ==
  ASSUME NEW q, IInv(q), NEW b \in Blocks, NEW ok, NEW r, r = AdvanceForSeal(q, b, ok)
  PROVE  Safe(q, r) /\ SameRoots(r, q)
<1> DEFINE e == EpochOf(b)
           c == [epoch |-> e, root |-> IF q.epochBlockRoots[e] # NoRoot THEN q.epochBlockRoots[e] ELSE b]
           f == IF e > q.finalized.epoch THEN c ELSE q.finalized
           j == IF e > q.justified.epoch THEN c ELSE q.justified
<1>1. /\ q.justified \in Checkpoint /\ q.finalized \in Checkpoint
      /\ q.epochBlockRoots \in [Epochs -> Root] /\ q.finalized.epoch <= q.justified.epoch
  BY DEF IInv, QPOSState
<1>2. e \in Epochs
  BY HeaderFacts
<1>3. \/ r = q
      \/ r = Committed(q, j, f, ok)
      \/ r = PersistFinality(q, ok)
  BY DEF AdvanceForSeal
<1> HIDE DEF e
<1>4. c \in Checkpoint /\ c.epoch = e
  BY <1>1, <1>2 DEF Checkpoint, Root
<1> HIDE DEF c
<1>5. /\ j \in Checkpoint /\ f \in Checkpoint /\ f.epoch <= j.epoch
      /\ j.epoch >= q.justified.epoch /\ f.epoch >= q.finalized.epoch
  BY <1>1, <1>2, <1>4 DEF Checkpoint, Epochs
<1> HIDE DEF j, f
<1>6. CASE r = q
  BY <1>6, SameDisk DEF SameRoots
<1>7. CASE r = Committed(q, j, f, ok)
  BY <1>5, <1>7, CommittedSafe
<1>8. CASE r = PersistFinality(q, ok)
  BY <1>8, PersistSafe, Zenon
<1> QED BY <1>3, <1>6, <1>7, <1>8

(* completeSealLockedFinalize *)
LEMMA CompleteSealSafe ==
  ASSUME NEW q, IInv(q), NEW b \in Blocks, NEW ok, NEW r, r = CompleteSeal(q, b, ok)
  PROVE  Safe(q, r) /\ Kept(q, r) /\ SameRoots(r, q)
<1> DEFINE p == [q EXCEPT !.sealed = @ \cup {b}]
<1>1. /\ p \in QPOSState /\ p.justified = q.justified /\ p.finalized = q.finalized
      /\ p.pending = q.pending /\ p.callback = q.callback /\ p.disk = q.disk
      /\ SameRoots(p, q)
  BY DEF IInv, QPOSState, SameRoots
<1>2. r = AdvanceForSeal(p, b, ok)
  BY DEF CompleteSeal
<1> HIDE DEF p
<1>3. IInv(p)
  BY <1>1, SameCheckpoints
<1>4. Safe(p, r) /\ SameRoots(r, p)
  BY <1>2, <1>3, SealSafe
<1> QED BY <1>1, <1>3, <1>4, SafeThen DEF Kept, SameRoots

(* Reconciling a checkpoint with a new root keeps its epoch. *)
LEMMA ReconciledFacts ==
  ASSUME NEW c \in Checkpoint, NEW e, NEW root \in Root
  PROVE  /\ Reconciled(c, e, root) \in Checkpoint
         /\ Reconciled(c, e, root).epoch = c.epoch
BY DEF Reconciled, Checkpoint

(* A write of epoch roots together with the checkpoints of the same epochs. *)
LEMMA ReconcileWriteSafe ==
  ASSUME NEW q, IInv(q), NEW p \in QPOSState,
         p.justified.epoch = q.justified.epoch, p.finalized.epoch = q.finalized.epoch,
         p.pending = (q.pending \/ p.justified # q.justified \/ p.finalized # q.finalized),
         p.callback = q.callback, p.disk = q.disk
  PROVE  IInv(p)
BY DEF IInv, Record, QPOSState, FinalityRecord, Checkpoint, Epochs

(* Pruning keeps the root just written when it is a checkpoint's, and the roots *)
(* of the checkpoints past epoch 1.                                             *)
LEMMA PruneSafe ==
  ASSUME NEW q, IInv(q), NEW e \in Epochs, NEW r, r = PruneEpochRoots(q, e)
  PROVE  /\ IInv(r) /\ r.disk = q.disk /\ RootsFrom(q, r, {}, {})
         /\ \A k \in {q.justified.epoch, q.finalized.epoch} :
              k > 1 \/ k = e => r.epochBlockRoots[k] = q.epochBlockRoots[k]
<1> DEFINE ebr == [k \in Epochs |-> IF k < EpochPruneCutoff(q, e) THEN NoRoot ELSE q.epochBlockRoots[k]]
<1>1. CASE r = q
  BY <1>1 DEF RootsFrom
<1>2. CASE r = [q EXCEPT !.epochBlockRoots = ebr]
  <2>1. q \in QPOSState /\ ebr \in [Epochs -> Root]
    BY DEF IInv, QPOSState, Root
  <2>2. \A k \in {q.justified.epoch, q.finalized.epoch} :
          k \in Epochs /\ (k > 1 \/ k = e => ~(k < EpochPruneCutoff(q, e)))
    <3>1. q.justified.epoch \in Epochs /\ q.finalized.epoch \in Epochs /\ q.finalized.epoch <= q.justified.epoch
      BY DEF IInv, QPOSState, Checkpoint
    <3> QED BY <3>1, ConstantsAssumption DEF EpochPruneCutoff, Epochs
  <2>3. \A k \in {q.justified.epoch, q.finalized.epoch} : k > 1 \/ k = e => ebr[k] = q.epochBlockRoots[k]
    BY <2>2
  <2>a. \A k \in Epochs : ebr[k] \in {NoRoot, q.epochBlockRoots[k]}
    OBVIOUS
  <2> HIDE DEF ebr
  <2>4. /\ r \in QPOSState /\ r.justified = q.justified /\ r.finalized = q.finalized
        /\ r.pending = q.pending /\ r.callback = q.callback /\ r.disk = q.disk /\ r.epochBlockRoots = ebr
        /\ r.slotBlockRoots = q.slotBlockRoots
    BY <1>2, <2>1 DEF QPOSState
  <2>5. IInv(r)
    BY <2>4, SameCheckpoints
  <2>6. RootsFrom(q, r, {}, {})
    BY <2>a, <2>4 DEF RootsFrom
  <2> QED BY <2>3, <2>4, <2>5, <2>6
<1> QED BY <1>1, <1>2 DEF PruneEpochRoots

(* setEpochBlockRootLocked *)
LEMMA SetEpochSafe ==
  ASSUME NEW q, IInv(q), NEW e \in Epochs, NEW root \in Root, NEW ok, NEW r, r = SetEpochBlockRoot(q, e, root, ok)
  PROVE  Safe(q, r) /\ RootsFrom(q, r, {}, {root}) /\ (root # NoRoot => Kept(q, r))
<1> DEFINE j == Reconciled(q.justified, e, root)
           f == Reconciled(q.finalized, e, root)
           ebr == [q.epochBlockRoots EXCEPT ![e] = root]
           p == [q EXCEPT !.epochBlockRoots[e] = root, !.justified = j, !.finalized = f,
                          !.pending = @ \/ j # q.justified \/ f # q.finalized]
           w == IF p.pending THEN PersistFinality(p, ok) ELSE p
<1>1. r = q \/ r = PruneEpochRoots(w, e)
  BY DEF SetEpochBlockRoot
<1>2. q.justified \in Checkpoint /\ q.finalized \in Checkpoint /\ q.epochBlockRoots \in [Epochs -> Root]
  BY DEF IInv, QPOSState
<1>3. j \in Checkpoint /\ f \in Checkpoint /\ j.epoch = q.justified.epoch /\ f.epoch = q.finalized.epoch
  BY <1>2, ReconciledFacts
<1>4. /\ ebr \in [Epochs -> Root]
      /\ \A k \in Epochs : ebr[k] = IF k = e THEN root ELSE q.epochBlockRoots[k]
  BY <1>2
<1>5. p = [q EXCEPT !.epochBlockRoots = ebr, !.justified = j, !.finalized = f,
                    !.pending = @ \/ j # q.justified \/ f # q.finalized]
  BY DEF IInv, QPOSState
<1>6. /\ IInv(p) /\ p.disk = q.disk /\ p.epochBlockRoots = ebr /\ p.slotBlockRoots = q.slotBlockRoots
      /\ p.justified.epoch = q.justified.epoch /\ p.finalized.epoch = q.finalized.epoch
  <2> HIDE DEF j, f, ebr, p
  <2>1. /\ p \in QPOSState /\ p.justified = j /\ p.finalized = f /\ p.callback = q.callback
        /\ p.disk = q.disk /\ p.epochBlockRoots = ebr /\ p.slotBlockRoots = q.slotBlockRoots
        /\ p.pending = (q.pending \/ j # q.justified \/ f # q.finalized)
    BY <1>3, <1>4, <1>5, Zenon DEF IInv, QPOSState
  <2> QED BY <1>3, <2>1, ReconcileWriteSafe
<1>7. CASE r = q
  BY <1>7, SameDisk DEF Kept, RootsFrom
<1>8. CASE r = PruneEpochRoots(w, e)
  <2> HIDE DEF ebr, j, f, p
  <2>1. /\ IInv(w) /\ DiskMonotone(p, w) /\ SameRoots(w, p)
        /\ w.justified = p.justified /\ w.finalized = p.finalized
        /\ w.disk # p.disk => HasCanonicalFinalityRoots(p) /\ w.disk = Record(p)
    <3>1. CASE w = p
      BY <3>1, <1>6, SameDisk DEF Safe, SameRoots
    <3>2. CASE w = PersistFinality(p, ok)
      <4> HIDE DEF w
      <4>1. /\ Safe(p, w)
            /\ w \in {p, [p EXCEPT !.pending = TRUE], [p EXCEPT !.disk = Record(p), !.pending = FALSE]}
            /\ w.disk # p.disk => HasCanonicalFinalityRoots(p) /\ w.disk = Record(p)
        BY <3>2, <1>6, PersistSafe, Zenon
      <4>2. p \in QPOSState
        BY <1>6 DEF IInv
      <4> QED BY <4>1, <4>2, Zenon DEF Safe, QPOSState, SameRoots
    <3> QED BY <3>1, <3>2
  <2> HIDE DEF w
  <2>2. /\ IInv(r) /\ r.disk = w.disk /\ RootsFrom(w, r, {}, {})
        /\ \A k \in {w.justified.epoch, w.finalized.epoch} :
             k > 1 \/ k = e => r.epochBlockRoots[k] = w.epochBlockRoots[k]
    BY <1>8, <2>1, PruneSafe
  <2>3. DiskMonotone(q, r)
    BY <1>6, <2>1, <2>2 DEF DiskMonotone
  <2>4. WrittenCanonical(q, r)
    <3> SUFFICES ASSUME r.disk # q.disk, NEW c \in {p.justified, p.finalized}, c.epoch > 0
                 PROVE  c.root \in {q.epochBlockRoots[c.epoch], r.epochBlockRoots[c.epoch]}
      BY <1>6, <2>1, <2>2 DEF WrittenCanonical, Record
    <3>1. c.root = ebr[c.epoch] /\ c.epoch \in Epochs
      BY <1>6, <2>1, <2>2 DEF SameRoots, HasCanonicalFinalityRoots, Canonical, IInv, QPOSState, Checkpoint
    <3>2. c.epoch = e => r.epochBlockRoots[e] = ebr[e]
      BY <1>6, <2>1, <2>2 DEF SameRoots
    <3> QED BY <3>1, <3>2, <1>4
  <2>5. ASSUME root # NoRoot PROVE Kept(q, r)
    <3>1. q.justified.epoch \in Epochs /\ q.finalized.epoch \in Epochs
      BY <1>2 DEF Checkpoint
    <3>2. \A k \in {q.justified.epoch, q.finalized.epoch} : k > 1 => r.epochBlockRoots[k] = ebr[k]
      BY <1>6, <2>1, <2>2 DEF SameRoots
    <3> QED BY <3>1, <3>2, <2>5, <1>4 DEF Kept
  <2>6. RootsFrom(q, r, {}, {root})
    BY <1>4, <1>6, <2>1, <2>2 DEF RootsFrom, SameRoots
  <2> QED BY <2>2, <2>3, <2>4, <2>5, <2>6 DEF Safe
<1> QED BY <1>1, <1>7, <1>8

(* EnsureEpochBlockRoot *)
LEMMA EnsureSafe ==
  ASSUME NEW q, IInv(q), NEW e \in Epochs, NEW root \in Root, NEW ok, NEW r,
         r = EnsureEpochBlockRoot(q, e, root, ok)
  PROVE  Safe(q, r) /\ RootsFrom(q, r, {}, {root}) /\ (root # NoRoot => Kept(q, r))
<1>1. CASE r = q
  BY <1>1, SameDisk DEF Kept, RootsFrom
<1>2. CASE r = SetEpochBlockRoot(q, e, root, ok)
  BY <1>2, SetEpochSafe
<1> QED BY <1>1, <1>2 DEF EnsureEpochBlockRoot

(* BackfillEpochRoots *)
LEMMA BackfillSafe ==
  ASSUME NEW q, IInv(q), NEW roots \in [Epochs -> Root], NEW ok, NEW r, r = BackfillEpochRoots(q, roots, ok)
  PROVE  Safe(q, r) /\ Kept(q, r) /\ RootsFrom(q, r, {}, {roots[e] : e \in Epochs})
<1> DEFINE skipped(e) == \/ roots[e] = NoRoot
                         \/ e = 0 /\ q.epochBlockRoots[0] # NoRoot
                         \/ FinalizedRootFrozen(q, e, roots[e])
           j == IF skipped(q.justified.epoch) THEN q.justified
                ELSE Reconciled(q.justified, q.justified.epoch, roots[q.justified.epoch])
           f == IF skipped(q.finalized.epoch) THEN q.finalized
                ELSE Reconciled(q.finalized, q.finalized.epoch, roots[q.finalized.epoch])
           ebr == [e \in Epochs |-> IF skipped(e) THEN q.epochBlockRoots[e] ELSE roots[e]]
           p == [q EXCEPT !.epochBlockRoots = ebr, !.justified = j, !.finalized = f,
                          !.pending = @ \/ j # q.justified \/ f # q.finalized]
<1>1. r = p \/ r = PersistFinality(p, ok)
  BY DEF BackfillEpochRoots, IInv, QPOSState
<1>2. q.justified \in Checkpoint /\ q.finalized \in Checkpoint /\ q.epochBlockRoots \in [Epochs -> Root]
  BY DEF IInv, QPOSState
<1>3. j \in Checkpoint /\ f \in Checkpoint /\ j.epoch = q.justified.epoch /\ f.epoch = q.finalized.epoch
  <2>1. q.justified.epoch \in Epochs /\ q.finalized.epoch \in Epochs
    BY <1>2 DEF Checkpoint
  <2>2. roots[q.justified.epoch] \in Root /\ roots[q.finalized.epoch] \in Root
    BY <2>1
  <2> QED BY <1>2, <2>2, ReconciledFacts
<1>4. /\ ebr \in [Epochs -> Root]
      /\ \A e \in Epochs : q.epochBlockRoots[e] # NoRoot => ebr[e] # NoRoot
      /\ \A e \in Epochs : ebr[e] \in {q.epochBlockRoots[e], roots[e]}
  BY <1>2
<1>a. \A t : t.epochBlockRoots = ebr /\ t.slotBlockRoots = q.slotBlockRoots =>
        Kept(q, t) /\ RootsFrom(q, t, {}, {roots[e] : e \in Epochs})
  <2>1. q.justified.epoch \in Epochs /\ q.finalized.epoch \in Epochs
    BY <1>2 DEF Checkpoint
  <2> HIDE DEF ebr
  <2> QED BY <2>1, <1>4 DEF Kept, RootsFrom
<1> HIDE DEF j, f, ebr
<1>5. IInv(p) /\ p.disk = q.disk /\ p.epochBlockRoots = ebr /\ p.slotBlockRoots = q.slotBlockRoots
  <2>1. /\ p \in QPOSState /\ p.justified = j /\ p.finalized = f /\ p.callback = q.callback
        /\ p.disk = q.disk /\ p.epochBlockRoots = ebr /\ p.slotBlockRoots = q.slotBlockRoots
        /\ p.pending = (q.pending \/ j # q.justified \/ f # q.finalized)
    BY <1>3, <1>4, Zenon DEF IInv, QPOSState
  <2> HIDE DEF p
  <2> QED BY <1>3, <2>1, ReconcileWriteSafe
<1> HIDE DEF p
<1>6. CASE r = p
  BY <1>5, <1>6, <1>a, SameDisk
<1>7. CASE r = PersistFinality(p, ok)
  <2>1. Safe(p, r) /\ SameRoots(r, p)
    BY <1>5, <1>7, PersistSafe, Zenon
  <2> QED BY <1>5, <1>a, <2>1, SafeThen DEF SameRoots
<1> QED BY <1>1, <1>6, <1>7

(* SetSlotBlockRoot, before the seal of the slot is re-driven *)
LEMMA RecordSlotSafe ==
  ASSUME NEW q, IInv(q), NEW b \in Blocks, NEW r, r = RecordSlotRoot(q, b)
  PROVE  IInv(r) /\ r.disk = q.disk /\ r.epochBlockRoots = q.epochBlockRoots /\ RootsFrom(q, r, {b}, {})
<1> DEFINE pn == IF b = q.finalized.root THEN [root |-> b, slot |-> SlotOf(b)] ELSE q.pin
           w  == [q EXCEPT !.slotBlockRoots[SlotOf(b)] = b, !.pin = pn]
           sbr == [s \in Slots |-> IF s < SlotPruneCutoff(q, SlotOf(b)) THEN NoRoot ELSE w.slotBlockRoots[s]]
<1>1. r = w \/ r = [w EXCEPT !.slotBlockRoots = sbr]
  BY DEF RecordSlotRoot, IInv, QPOSState
<1>2. q \in QPOSState /\ SlotOf(b) \in Slots /\ b \in Root
  BY HeaderFacts DEF IInv, Root
<1>3. pn \in [root : Root, slot : Slots]
  BY <1>2 DEF QPOSState
<1> HIDE DEF pn
<1>4. /\ w \in QPOSState /\ w.justified = q.justified /\ w.finalized = q.finalized
      /\ w.pending = q.pending /\ w.callback = q.callback /\ w.disk = q.disk
      /\ w.epochBlockRoots = q.epochBlockRoots
  BY <1>2, <1>3, Zenon DEF QPOSState
<1>a. \A s \in Slots : w.slotBlockRoots[s] = IF s = SlotOf(b) THEN b ELSE q.slotBlockRoots[s]
  BY <1>2, <1>3 DEF QPOSState
<1> HIDE DEF w
<1>5. sbr \in [Slots -> Root]
  BY <1>4 DEF QPOSState, Root
<1>b. \A s \in Slots : sbr[s] \in {NoRoot, w.slotBlockRoots[s]}
  OBVIOUS
<1> HIDE DEF sbr
<1>6. /\ r \in QPOSState /\ r.justified = q.justified /\ r.finalized = q.finalized
      /\ r.pending = q.pending /\ r.callback = q.callback /\ r.disk = q.disk
      /\ r.epochBlockRoots = q.epochBlockRoots /\ r.slotBlockRoots \in {w.slotBlockRoots, sbr}
  BY <1>1, <1>4, <1>5 DEF QPOSState
<1>7. RootsFrom(q, r, {b}, {})
  BY <1>6, <1>a, <1>b DEF RootsFrom
<1> QED BY <1>6, <1>7, SameCheckpoints

(* SetSlotBlockRoot *)
LEMMA SetSlotSafe ==
  ASSUME NEW q, IInv(q), NEW b \in Blocks, NEW ok, NEW r,
         r = ReconcileCanonicalSeal(RecordSlotRoot(q, b), b, ok)
  PROVE  Safe(q, r) /\ Kept(q, r) /\ RootsFrom(q, r, {b}, {})
<1> DEFINE p == RecordSlotRoot(q, b)
<1>1. IInv(p) /\ p.disk = q.disk /\ p.epochBlockRoots = q.epochBlockRoots /\ RootsFrom(q, p, {b}, {})
  BY RecordSlotSafe
<1>2. r = p \/ r = AdvanceForSeal(p, b, ok)
  BY DEF ReconcileCanonicalSeal
<1> HIDE DEF p
<1>3. Safe(p, r) /\ SameRoots(r, p)
  BY <1>1, <1>2, SameDisk, SealSafe DEF SameRoots
<1> QED BY <1>1, <1>3, SafeThen DEF Kept, SameRoots, RootsFrom

(* ApplyBlockHeader *)
LEMMA ApplySafe ==
  ASSUME NEW q, IInv(q), NEW b \in Blocks, NEW applied \in AppliedAfter(q, b), NEW r,
         r = ApplyBlockHeader(q, b, applied)
  PROVE  Safe(q, r) /\ Kept(q, r) /\ RootsFrom(q, r, {b}, {b})
<1> DEFINE root == IF IsBoundary(SlotOf(b)) /\ (EpochOf(b) > 0 \/ q.epochBlockRoots[EpochOf(b)] = NoRoot)
                   THEN b ELSE q.epochBlockRoots[EpochOf(b)]
           sbr == [q.slotBlockRoots EXCEPT ![SlotOf(b)] = b]
           ebr == [q.epochBlockRoots EXCEPT ![EpochOf(b)] = root]
<1>1. q \in QPOSState /\ SlotOf(b) \in Slots /\ EpochOf(b) \in Epochs /\ b \in Root
  BY HeaderFacts DEF IInv, Root
<1>2. applied \in SUBSET Blocks
  <2>1. q.applied \cup {b} \in SUBSET Blocks
    BY <1>1 DEF QPOSState
  <2> QED BY <2>1 DEF AppliedAfter
<1>3. root \in Root /\ root \in {b, q.epochBlockRoots[EpochOf(b)]}
  BY <1>1 DEF QPOSState
<1>4. r = q \/ r = [q EXCEPT !.applied = applied, !.slotBlockRoots = sbr, !.epochBlockRoots = ebr]
  BY <1>1 DEF ApplyBlockHeader, QPOSState
<1> HIDE DEF root
<1>5. /\ sbr \in [Slots -> Root] /\ ebr \in [Epochs -> Root]
      /\ \A e \in Epochs : q.epochBlockRoots[e] # NoRoot => ebr[e] # NoRoot
      /\ \A e \in Epochs : ebr[e] \in {b, q.epochBlockRoots[e]}
      /\ \A s \in Slots : sbr[s] = IF s = SlotOf(b) THEN b ELSE q.slotBlockRoots[s]
  BY <1>1, <1>3, ConstantsAssumption DEF QPOSState
<1> HIDE DEF sbr, ebr
<1>6. /\ r \in QPOSState /\ r.justified = q.justified /\ r.finalized = q.finalized
      /\ r.pending = q.pending /\ r.callback = q.callback /\ r.disk = q.disk
      /\ r.epochBlockRoots \in {q.epochBlockRoots, ebr} /\ r.slotBlockRoots \in {q.slotBlockRoots, sbr}
  BY <1>1, <1>2, <1>4, <1>5, Zenon DEF QPOSState
<1>7. Kept(q, r)
  <2>1. q.justified.epoch \in Epochs /\ q.finalized.epoch \in Epochs
    BY <1>1 DEF QPOSState, Checkpoint
  <2> QED BY <2>1, <1>5, <1>6 DEF Kept
<1>8. RootsFrom(q, r, {b}, {b})
  BY <1>5, <1>6 DEF RootsFrom
<1> QED BY <1>6, <1>7, <1>8, SameCheckpoints

(* reanchorSlotRoots with the re-drive of the seals *)
LEMMA ReanchorSafe ==
  ASSUME NEW q, IInv(q), NEW newHead \in Blocks, NEW plan \in ReanchorPlans(newHead), NEW ok,
         NEW r \in ReanchorAndRedrive(q, plan, ok)
  PROVE  /\ Safe(q, r) /\ Kept(q, r)
         /\ RootsFrom(q, r, plan.segment, {plan.ancestor} \cup {EpochRootFrom(plan.segment, e) : e \in Epochs})
         /\ HasCleanRange(plan) => \A s \in CleanMin(plan) .. CleanMax(plan) :
              s \in Slots => r.slotBlockRoots[s] \in {NoRoot} \cup plan.segment
<1> DEFINE p   == ReanchorSlotRoots(q, plan)
           sbr == [s \in Slots |-> IF CleanMin(plan) <= s /\ s <= CleanMax(plan)
                                   THEN SegmentRootAt(plan, s) ELSE q.slotBlockRoots[s]]
           ebr == [e \in Epochs |-> ReanchoredEpochRoot(q, plan, e)]
           E   == {plan.ancestor} \cup {EpochRootFrom(plan.segment, e) : e \in Epochs}
           Drawn(t) == /\ RootsFrom(q, t, plan.segment, E)
                       /\ HasCleanRange(plan) => \A s \in CleanMin(plan) .. CleanMax(plan) :
                            s \in Slots => t.slotBlockRoots[s] \in {NoRoot} \cup plan.segment
<1>1. q \in QPOSState
  BY DEF IInv
<1>2. plan.ancestor \in Root /\ plan.segment \in SUBSET Blocks
  BY DEF ReanchorPlans, PlanAbove, PlanUnrooted, Chain, Root
<1>3. sbr \in [Slots -> Root]
  <2>1. \A s \in Slots : SegmentRootAt(plan, s) \in Root
    BY <1>2 DEF SegmentRootAt, Root
  <2>2. \A s \in Slots : q.slotBlockRoots[s] \in Root
    BY <1>1 DEF QPOSState
  <2> QED BY <2>1, <2>2
<1>4. ebr \in [Epochs -> Root]
  <2>1. \A e \in Epochs : EpochRootFrom(plan.segment, e) \in Root /\ q.epochBlockRoots[e] \in Root /\ NoRoot \in Root
    BY <1>1, <1>2, EpochRootFromType DEF QPOSState, Root
  <2>2. \A e \in Epochs : ReanchoredEpochRoot(q, plan, e) \in
                            {EpochRootFrom(plan.segment, e), q.epochBlockRoots[e], plan.ancestor, NoRoot}
    BY DEF ReanchoredEpochRoot
  <2> QED BY <1>2, <2>1, <2>2
<1>a. \A e \in {q.justified.epoch, q.finalized.epoch} : ebr[e] = q.epochBlockRoots[e]
  BY <1>1 DEF ReanchoredEpochRoot, QPOSState, Checkpoint
<1>b. \A s \in Slots : /\ sbr[s] \in {NoRoot, q.slotBlockRoots[s]} \cup {b \in plan.segment : SlotOf(b) = s}
                       /\ s \in CleanMin(plan) .. CleanMax(plan) => sbr[s] \in {NoRoot} \cup plan.segment
  <2>1. \A s \in Slots : SegmentRootAt(plan, s) \in {NoRoot} \cup {b \in plan.segment : SlotOf(b) = s}
    BY DEF SegmentRootAt
  <2>2. \A s \in Slots : \/ sbr[s] = SegmentRootAt(plan, s)
                         \/ sbr[s] = q.slotBlockRoots[s] /\ s \notin CleanMin(plan) .. CleanMax(plan)
    OBVIOUS
  <2> HIDE DEF sbr
  <2> QED BY <2>1, <2>2
<1>c. \A e \in Epochs : ebr[e] \in {NoRoot, q.epochBlockRoots[e]} \cup E
  BY DEF ReanchoredEpochRoot
<1>5. (~HasCleanRange(plan) /\ p = q) \/ p = [q EXCEPT !.slotBlockRoots = sbr, !.epochBlockRoots = ebr]
  BY <1>1 DEF ReanchorSlotRoots, QPOSState
<1>6. r = p \/ \E b \in q.sealed : r = AdvanceForSeal(p, b, ok)
  BY DEF ReanchorAndRedrive, SealsToRedrive
<1> HIDE DEF p, sbr, ebr, E
<1>7. /\ p \in QPOSState /\ p.justified = q.justified /\ p.finalized = q.finalized
      /\ p.pending = q.pending /\ p.callback = q.callback /\ p.disk = q.disk
      /\ \/ p.epochBlockRoots = q.epochBlockRoots /\ p.slotBlockRoots = q.slotBlockRoots /\ ~HasCleanRange(plan)
         \/ p.epochBlockRoots = ebr /\ p.slotBlockRoots = sbr
  BY <1>1, <1>3, <1>4, <1>5, Zenon DEF QPOSState
<1>8. IInv(p) /\ Safe(q, p) /\ \A t : t.epochBlockRoots = p.epochBlockRoots => Kept(q, t)
  BY <1>7, <1>a, SameCheckpoints DEF Kept
<1>d. ASSUME NEW t, SameRoots(t, p) PROVE Drawn(t)
  <2>1. RootsFrom(q, t, plan.segment, E)
    BY <1>7, <1>b, <1>c, <1>d, Zenon DEF RootsFrom, SameRoots
  <2>2. HasCleanRange(plan) => t.slotBlockRoots = sbr
    BY <1>7, <1>d DEF SameRoots
  <2> QED BY <2>1, <2>2, <1>b
<1>9. CASE r = p
  BY <1>8, <1>9, <1>d DEF SameRoots, E
<1>10. CASE \E b \in q.sealed : r = AdvanceForSeal(p, b, ok)
  <2>1. PICK b \in q.sealed : r = AdvanceForSeal(p, b, ok)
    BY <1>10
  <2>2. b \in Blocks
    BY <1>1 DEF QPOSState
  <2>3. Safe(p, r) /\ SameRoots(r, p)
    BY <1>8, <2>1, <2>2, SealSafe
  <2>4. Safe(q, r) /\ Kept(q, r)
    BY <1>7, <1>8, <2>3, SafeThen DEF SameRoots
  <2> QED BY <2>3, <2>4, <1>d DEF E
<1> QED BY <1>6, <1>9, <1>10

-----------------------------------------------------------------------------
(* A restart *)

(* A fresh engine has recorded the genesis block and the roots of the durable *)
(* record d, and no others.                                                   *)
StartedRoots(d, q) ==
  /\ \A s \in Slots : q.slotBlockRoots[s] = IF s = 0 THEN Genesis ELSE NoRoot
  /\ q.epochBlockRoots[0] = Genesis
  /\ \A e \in Epochs \ {0} : \/ q.epochBlockRoots[e] = NoRoot
                            \/ \E c \in {d.justified, d.finalized} : c.epoch = e /\ q.epochBlockRoots[e] = c.root

(* NewQPOS and SetGenesisRoot: an engine without a callback. *)
LEMMA NewEngine ==
  ASSUME NEW disk \in FinalityRecord, ValidFinalityState(disk), NEW n, n = SetGenesisRoot(NewQPOS(disk))
  PROVE  IInv(n) /\ n.disk = disk /\ ~n.callback /\ ~n.pending /\ StartedRoots(disk, n)
<1> DEFINE m   == NewQPOS(disk)
           ebr == [m.epochBlockRoots EXCEPT ![0] = Genesis]
           sbr == [m.slotBlockRoots EXCEPT ![0] = Genesis]
<1>1. NoCheckpoint \in Checkpoint /\ NoPin \in [root : Root, slot : Slots] /\ Genesis \in Root
  BY ZeroInRange, ConstantsAssumption DEF NoCheckpoint, Checkpoint, NoPin, Root
<1>2. [e \in Epochs |-> NoRoot] \in [Epochs -> Root] /\ [s \in Slots |-> NoRoot] \in [Slots -> Root]
  BY DEF Root
<1>3. /\ m \in QPOSState /\ m.justified = NoCheckpoint /\ m.finalized = NoCheckpoint
      /\ m.disk = disk /\ m.callback = FALSE /\ m.pending = FALSE
      /\ m.epochBlockRoots = [e \in Epochs |-> NoRoot] /\ m.slotBlockRoots = [s \in Slots |-> NoRoot]
  BY <1>1, <1>2 DEF NewQPOS, QPOSState
<1> HIDE DEF m
<1>a. /\ \A s \in Slots : sbr[s] = IF s = 0 THEN Genesis ELSE NoRoot
      /\ \A e \in Epochs : ebr[e] = IF e = 0 THEN Genesis ELSE NoRoot
  BY <1>3
<1>4. ebr \in [Epochs -> Root] /\ sbr \in [Slots -> Root]
  BY <1>1, <1>3, Zenon DEF QPOSState
<1>5. n = [m EXCEPT !.epochBlockRoots = ebr, !.slotBlockRoots = sbr]
  BY <1>3, ZeroInRange DEF SetGenesisRoot, m, QPOSState
<1> HIDE DEF ebr, sbr
<1>6. /\ n \in QPOSState /\ n.justified = NoCheckpoint /\ n.finalized = NoCheckpoint
      /\ n.disk = disk /\ n.callback = FALSE /\ n.pending = FALSE
      /\ n.epochBlockRoots = ebr /\ n.slotBlockRoots = sbr
  BY <1>3, <1>4, <1>5, Zenon DEF QPOSState
<1>7. StartedRoots(disk, n)
  BY <1>6, <1>a, ZeroInRange DEF StartedRoots
<1> QED BY <1>6, <1>7 DEF IInv, NoCheckpoint

(* configureQPOSFinalityPersistence restores the record and rewrites nothing. *)
LEMMA ConfigureSafe ==
  ASSUME NEW n, IInv(n), ~n.callback, ~n.pending, StartedRoots(n.disk, n), NEW store \in SUBSET Blocks, NEW ok, NEW r,
         r = ConfigureQPOSFinalityPersistence(n, store, ok)
  PROVE  IInv(r) /\ r.disk = n.disk /\ StartedRoots(n.disk, r)
<1> DEFINE d   == n.disk
           ebr == [e \in Epochs |-> RestoredRoot(d, e, n.epochBlockRoots[e])]
           sbr == [n.slotBlockRoots EXCEPT ![0] = RestoredRoot(d, 0, @)]
           a   == [n EXCEPT !.justified = d.justified, !.finalized = d.finalized,
                            !.epochBlockRoots = ebr, !.slotBlockRoots = sbr]
           p   == RestoreFinalityState(n, d)
           w   == PinFromStore(p, store)
           c   == [w EXCEPT !.callback = TRUE, !.pending = @ \/ ~HasCanonicalFinalityRoots(w)]
<1>1. CASE r = n
  BY <1>1
<1>2. CASE RestoreAccepts(n, d) /\ r = PersistFinality(c, ok)
  <2>1. n \in QPOSState /\ d \in FinalityRecord /\ d.justified \in Checkpoint /\ d.finalized \in Checkpoint
    BY DEF IInv, QPOSState, FinalityRecord
  <2>2. \A e \in Epochs, old \in Root : RestoredRoot(d, e, old) \in Root
    BY <2>1 DEF RestoredRoot, Checkpoint
  <2>3. ebr \in [Epochs -> Root] /\ sbr \in [Slots -> Root]
    BY <2>1, <2>2, ZeroInRange DEF QPOSState
  <2>a. ebr[0] = Genesis /\ \A s \in Slots : sbr[s] = n.slotBlockRoots[s]
    <3>1. n.slotBlockRoots[0] = Genesis /\ n.epochBlockRoots[0] = Genesis /\ Genesis # NoRoot
      BY ZeroInRange, ConstantsAssumption DEF StartedRoots
    <3>2. \A x \in {d.justified, d.finalized} : x.epoch = 0 /\ x.root # NoRoot => x.root = Genesis
      BY <1>2, <3>1 DEF RestoreAccepts
    <3>3. RestoredRoot(d, 0, Genesis) = Genesis
      BY <3>2 DEF RestoredRoot
    <3> QED BY <2>1, <3>1, <3>3, ZeroInRange DEF QPOSState
  <2>b. \A e \in Epochs \ {0} : \/ ebr[e] = n.epochBlockRoots[e]
                               \/ \E x \in {d.justified, d.finalized} : x.epoch = e /\ ebr[e] = x.root
    BY DEF RestoredRoot
  <2>4. p = [a EXCEPT !.pending = @ /\ ~HasCanonicalFinalityRoots(a)]
    BY <2>1 DEF RestoreFinalityState, QPOSState
  <2> HIDE DEF ebr, sbr
  <2>5. /\ a \in QPOSState /\ a.justified = d.justified /\ a.finalized = d.finalized
        /\ a.callback = n.callback /\ a.pending = n.pending /\ a.disk = n.disk
        /\ a.epochBlockRoots = ebr /\ a.slotBlockRoots = sbr
    BY <2>1, <2>3, Zenon DEF QPOSState
  <2> HIDE DEF a, p
  <2>6. /\ p \in QPOSState /\ p.justified = d.justified /\ p.finalized = d.finalized
        /\ p.callback = FALSE /\ p.pending = FALSE /\ p.disk = n.disk
        /\ p.epochBlockRoots = ebr /\ p.slotBlockRoots = sbr
    BY <2>4, <2>5 DEF QPOSState
  <2>7. /\ w \in QPOSState /\ w.justified = d.justified /\ w.finalized = d.finalized
        /\ w.callback = FALSE /\ w.pending = FALSE /\ w.disk = n.disk
        /\ w.epochBlockRoots = ebr /\ w.slotBlockRoots = sbr
    <3>1. CASE w = p
      BY <3>1, <2>6
    <3>2. CASE p.finalized.root \in store /\ w = [p EXCEPT !.pin = [root |-> p.finalized.root, slot |-> SlotOf(p.finalized.root)]]
      <4>1. p.finalized.root \in Root /\ SlotOf(p.finalized.root) \in Slots
        BY <3>2, HeaderFacts DEF Root
      <4> HIDE DEF w
      <4> QED BY <3>2, <4>1, <2>6 DEF QPOSState
    <3> QED BY <3>1, <3>2, Zenon DEF PinFromStore, SetFinalizedCheckpointSlot
  <2> HIDE DEF w
  <2>8. /\ c \in QPOSState /\ c.justified = d.justified /\ c.finalized = d.finalized
        /\ c.callback = TRUE /\ c.disk = d
        /\ c.epochBlockRoots = ebr /\ c.slotBlockRoots = sbr
    BY <2>7, Zenon DEF QPOSState
  <2> HIDE DEF c
  <2>9. Record(c) = c.disk
    BY <2>1, <2>8 DEF Record, FinalityRecord
  <2>10. IInv(c)
    BY <2>1, <2>8, <2>9 DEF IInv, ValidFinalityState, FinalityRecord, Checkpoint, Epochs
  <2>11. IInv(r) /\ (r.disk # c.disk => r.disk = Record(c)) /\ SameRoots(r, c)
    BY <1>2, <2>10, PersistSafe, Zenon DEF Safe
  <2>12. StartedRoots(n.disk, r)
    <3>1. r.epochBlockRoots = ebr /\ r.slotBlockRoots = sbr
      BY <2>8, <2>11 DEF SameRoots
    <3> QED BY <3>1, <2>a, <2>b DEF StartedRoots
  <2> QED BY <2>8, <2>9, <2>11, <2>12
<1> QED BY <1>1, <1>2 DEF ConfigureQPOSFinalityPersistence, SetFinalityPersistCallback

(* ReanchorFinalityToGenesis *)
LEMMA GenesisReanchorSafe ==
  ASSUME NEW q, IInv(q), OperatorReanchor, NEW ok, NEW r, r = ReanchorFinalityToGenesis(q, ok)
  PROVE  /\ Safe(q, r) /\ SameRoots(r, q)
         /\ r.disk # q.disk => r.disk.justified.epoch = 0 /\ r.disk.finalized.epoch = 0
<1> DEFINE c == [epoch |-> 0, root |-> q.epochBlockRoots[0]]
           p == [q EXCEPT !.justified = c, !.finalized = c, !.pending = TRUE]
<1>1. q \in QPOSState /\ c \in Checkpoint /\ c.epoch = 0
  BY ZeroInRange DEF IInv, QPOSState, Checkpoint
<1>2. r = q \/ r = PersistFinality(p, ok)
  BY DEF ReanchorFinalityToGenesis
<1> HIDE DEF c
<1>3. /\ p \in QPOSState /\ p.justified = c /\ p.finalized = c /\ p.pending = TRUE
      /\ p.disk = q.disk /\ SameRoots(p, q)
  BY <1>1, Zenon DEF QPOSState, SameRoots
<1> HIDE DEF p
<1>4. IInv(p)
  BY <1>1, <1>3 DEF IInv
<1>5. CASE r = q
  BY <1>5, SameDisk DEF SameRoots
<1>6. CASE r = PersistFinality(p, ok)
  <2>1. Safe(p, r) /\ SameRoots(r, p) /\ (r.disk # p.disk => r.disk = Record(p))
    BY <1>4, <1>6, PersistSafe, Zenon
  <2>2. Safe(q, r)
    BY <1>3, <1>4, <2>1, SafeThen DEF SameRoots
  <2> QED BY <1>1, <1>3, <2>1, <2>2 DEF Record, SameRoots
<1> QED BY <1>2, <1>5, <1>6

(* The whole start-up, from the durable record a state left behind. *)
LEMMA StartUpSafe ==
  ASSUME NEW q, q.disk \in FinalityRecord, ValidFinalityState(q.disk), NEW store \in SUBSET Blocks,
         NEW latest \in Blocks, NEW reanchor \in BOOLEAN, reanchor => OperatorReanchor, NEW ok, NEW r,
         r = StartUp(q.disk, store, latest, reanchor, ok)
  PROVE  Safe(q, r) /\ StartedRoots(q.disk, r)
<1> DEFINE n == SetGenesisRoot(NewQPOS(q.disk))
           c == ConfigureQPOSFinalityPersistence(n, store, ok)
           w == AdoptHeaderFinality(c, latest, ok)
<1>1. r = IF reanchor THEN ReanchorFinalityToGenesis(w, ok) ELSE w
  BY DEF StartUp
<1>2. IInv(n) /\ n.disk = q.disk /\ ~n.callback /\ ~n.pending /\ StartedRoots(q.disk, n)
  BY NewEngine
<1> HIDE DEF n
<1>3. IInv(c) /\ c.disk = q.disk /\ StartedRoots(q.disk, c)
  BY <1>2, ConfigureSafe
<1> HIDE DEF c
<1>4. Safe(c, w) /\ SameRoots(w, c)
  BY <1>3, AdoptSafe
<1> HIDE DEF w
<1>a. StartedRoots(q.disk, w)
  BY <1>3, <1>4 DEF SameRoots, StartedRoots
<1>5. Safe(q, w)
  <2>1. DiskMonotone(q, w)
    BY <1>3, <1>4, Zenon DEF Safe, DiskMonotone
  <2>2. WrittenCanonical(q, w)
    BY <1>3, <1>4, Zenon DEF Safe, WrittenCanonical, SameRoots
  <2> QED BY <1>4, <2>1, <2>2 DEF Safe
<1>6. CASE ~reanchor
  BY <1>1, <1>5, <1>6, <1>a
<1>7. CASE reanchor
  <2>1. /\ Safe(w, r) /\ SameRoots(r, w)
        /\ r.disk # w.disk => r.disk.justified.epoch = 0 /\ r.disk.finalized.epoch = 0
    BY <1>1, <1>5, <1>7, GenesisReanchorSafe DEF Safe
  <2>2. DiskMonotone(q, r)
    <3>1. q.disk \in FinalityRecord /\ w.disk \in FinalityRecord /\ r.disk \in FinalityRecord
      BY <1>5, <2>1 DEF Safe, IInv, QPOSState
    <3> QED BY <1>5, <2>1, <3>1 DEF Safe, DiskMonotone, FinalityRecord, Checkpoint, Epochs
  <2>3. WrittenCanonical(q, r)
    BY <1>5, <2>1, Zenon DEF Safe, WrittenCanonical, SameRoots
  <2>4. StartedRoots(q.disk, r)
    BY <1>a, <2>1 DEF SameRoots, StartedRoots
  <2> QED BY <2>1, <2>2, <2>3, <2>4 DEF Safe
<1> QED BY <1>6, <1>7

-----------------------------------------------------------------------------
(* Theorems *)

(* Every call and every restart keeps the invariant, never moves the durable *)
(* record back and writes only recorded roots to it.                         *)
LEMMA StepSafe ==
  ASSUME IInv(qpos), Next
  PROVE  Safe(qpos, qpos')
<1>1. ASSUME NEW b \in Blocks, NEW ok \in BOOLEAN, CallSetSlotBlockRoot(b, ok) PROVE Safe(qpos, qpos')
  BY <1>1, SetSlotSafe DEF CallSetSlotBlockRoot
<1>2. ASSUME NEW b \in Blocks, NEW ok \in BOOLEAN, CallSetEpochBlockRoot(b, ok) PROVE Safe(qpos, qpos')
  BY <1>2, SetEpochSafe, HeaderFacts DEF CallSetEpochBlockRoot, Root
<1>3. ASSUME NEW b \in Blocks, NEW ok \in BOOLEAN, CallEnsureEpochBlockRoot(b, ok) PROVE Safe(qpos, qpos')
  BY <1>3, EnsureSafe, HeaderFacts DEF CallEnsureEpochBlockRoot
<1>4. ASSUME NEW b \in Blocks, CallApplyBlockHeader(b) PROVE Safe(qpos, qpos')
  BY <1>4, ApplySafe DEF CallApplyBlockHeader
<1>5. ASSUME NEW b \in Blocks, NEW ok \in BOOLEAN, CallAdoptHeaderFinality(b, ok) PROVE Safe(qpos, qpos')
  BY <1>5, AdoptSafe DEF CallAdoptHeaderFinality
<1>6. ASSUME NEW b \in Blocks, NEW ok \in BOOLEAN, CallCompleteSeal(b, ok) PROVE Safe(qpos, qpos')
  BY <1>6, CompleteSealSafe DEF CallCompleteSeal
<1>7. ASSUME NEW newHead \in Blocks, NEW ok \in BOOLEAN, CallReanchorSlotRoots(newHead, ok) PROVE Safe(qpos, qpos')
  BY <1>7, ReanchorSafe DEF CallReanchorSlotRoots
<1>8. ASSUME NEW prev \in Epochs, NEW ok \in BOOLEAN, CallTryUpdateFinality(prev, ok) PROVE Safe(qpos, qpos')
  BY <1>8, JustifySafe DEF CallTryUpdateFinality
<1>9. ASSUME NEW tip \in Blocks, NEW oldest \in Epochs, NEW ok \in BOOLEAN, CallBackfillEpochRoots(tip, oldest, ok)
      PROVE  Safe(qpos, qpos')
  BY <1>9, BackfillRootsType, BackfillSafe DEF CallBackfillEpochRoots
<1>10. ASSUME NEW store \in {{}, Blocks}, NEW latest \in Blocks, NEW reanchor \in BOOLEAN, NEW ok \in BOOLEAN,
              Restart(store, latest, reanchor, ok)
       PROVE  Safe(qpos, qpos')
  <2>1. qpos.disk \in FinalityRecord /\ ValidFinalityState(qpos.disk) /\ store \in SUBSET Blocks
    BY DEF IInv, QPOSState
  <2> QED BY <1>10, <2>1, StartUpSafe, Zenon DEF Restart
<1> QED BY <1>1, <1>2, <1>3, <1>4, <1>5, <1>6, <1>7, <1>8, <1>9, <1>10 DEF Next

(* Every call keeps the recorded roots of the checkpoints past epoch 1. *)
LEMMA StepKept ==
  ASSUME IInv(qpos), Next
  PROVE  Kept(qpos, qpos') \/ Restarted
<1>1. ASSUME NEW b \in Blocks \ {Genesis}, NEW ok \in BOOLEAN,
             \/ CallSetSlotBlockRoot(b, ok) \/ CallAdoptHeaderFinality(b, ok) \/ CallCompleteSeal(b, ok)
      PROVE  Kept(qpos, qpos')
  <2>1. CASE CallSetSlotBlockRoot(b, ok)
    BY <2>1, SetSlotSafe, Zenon DEF CallSetSlotBlockRoot
  <2>2. CASE CallAdoptHeaderFinality(b, ok)
    BY <2>2, AdoptSafe DEF CallAdoptHeaderFinality, Kept, SameRoots
  <2>3. CASE CallCompleteSeal(b, ok)
    BY <2>3, CompleteSealSafe, Zenon DEF CallCompleteSeal
  <2> QED BY <1>1, <2>1, <2>2, <2>3
<1>2. ASSUME NEW b \in Blocks \ {Genesis}, NEW ok \in BOOLEAN, CallSetEpochBlockRoot(b, ok) PROVE Kept(qpos, qpos')
  <2>1. b \in Root /\ b # NoRoot /\ EpochOf(b) \in Epochs
    BY HeaderFacts, ConstantsAssumption DEF Root
  <2> QED BY <1>2, <2>1, SetEpochSafe, Zenon DEF CallSetEpochBlockRoot
<1>3. ASSUME NEW b \in Blocks \ {Genesis}, NEW ok \in BOOLEAN, CallEnsureEpochBlockRoot(b, ok) PROVE Kept(qpos, qpos')
  <2>1. ParentOf(b) \in Root /\ ParentOf(b) # NoRoot /\ EpochOf(b) \in Epochs
    BY HeaderFacts, TreeAssumption, ConstantsAssumption
  <2> QED BY <1>3, <2>1, EnsureSafe DEF CallEnsureEpochBlockRoot
<1>4. ASSUME NEW b \in Blocks, CallApplyBlockHeader(b) PROVE Kept(qpos, qpos')
  BY <1>4, ApplySafe DEF CallApplyBlockHeader
<1>5. ASSUME NEW newHead \in Blocks, NEW ok \in BOOLEAN, CallReanchorSlotRoots(newHead, ok) PROVE Kept(qpos, qpos')
  BY <1>5, ReanchorSafe DEF CallReanchorSlotRoots
<1>6. ASSUME NEW prev \in Epochs, NEW ok \in BOOLEAN, CallTryUpdateFinality(prev, ok) PROVE Kept(qpos, qpos')
  BY <1>6, JustifySafe DEF CallTryUpdateFinality
<1>7. ASSUME NEW tip \in Blocks, NEW oldest \in Epochs, NEW ok \in BOOLEAN, CallBackfillEpochRoots(tip, oldest, ok)
      PROVE  Kept(qpos, qpos')
  BY <1>7, BackfillRootsType, BackfillSafe DEF CallBackfillEpochRoots
<1>8. ASSUME NEW store \in {{}, Blocks}, NEW latest \in Blocks, NEW reanchor \in BOOLEAN, NEW ok \in BOOLEAN,
             Restart(store, latest, reanchor, ok)
      PROVE  Restarted
  BY <1>8 DEF Restart, Restarted
<1> QED BY <1>1, <1>2, <1>3, <1>4, <1>5, <1>6, <1>7, <1>8 DEF Next

(* The inductive invariant holds in every reachable state. *)
THEOREM Invariance == Spec => []IInv(qpos)
<1>1. Init => IInv(qpos)
  <2> SUFFICES ASSUME Init PROVE IInv(qpos)
    OBVIOUS
  <2> DEFINE z == [NewQPOS(NoRecord) EXCEPT !.pending = FALSE]
  <2>1. NoRecord \in FinalityRecord /\ ValidFinalityState(NoRecord)
    <3>1. NoCheckpoint \in Checkpoint /\ NoCheckpoint.epoch = 0
      BY ZeroInRange DEF NoCheckpoint, Checkpoint, Root
    <3>2. NoRecord.justified = NoCheckpoint /\ NoRecord.finalized = NoCheckpoint
      BY DEF NoRecord
    <3>3. NoRecord \in FinalityRecord
      BY <3>1 DEF NoRecord, FinalityRecord
    <3> QED BY <3>1, <3>2, <3>3 DEF ValidFinalityState
  <2>2. z.disk = NoRecord
    BY DEF NewQPOS
  <2> HIDE DEF z
  <2>3. {Genesis} \in SUBSET Blocks /\ Genesis \in Blocks
    BY ConstantsAssumption
  <2>4. qpos = StartUp(z.disk, {Genesis}, Genesis, FALSE, TRUE)
    BY <2>2 DEF Init
  <2>5. Safe(z, qpos)
    BY <2>1, <2>2, <2>3, <2>4, StartUpSafe, Zenon
  <2> QED BY <2>5 DEF Safe
<1>2. IInv(qpos) /\ [Next]_qpos => IInv(qpos)'
  <2>1. IInv(qpos) /\ Next => IInv(qpos')
    BY StepSafe DEF Safe
  <2>2. IInv(qpos)' <=> IInv(qpos')
    BY DEF IInv, QPOSState, Record, ValidFinalityState
  <2>3. IInv(qpos) /\ UNCHANGED qpos => IInv(qpos')
    OBVIOUS
  <2> QED BY <2>1, <2>2, <2>3
<1> QED BY <1>1, <1>2, PTL DEF Spec

(* The fields of the engine keep their types. *)
THEOREM TypeCorrect == Spec => []TypeOK
<1>1. IInv(qpos) => TypeOK
  BY DEF IInv, TypeOK
<1> QED BY <1>1, Invariance, PTL

(* The finalized epoch never overtakes the justified one, whichever of the   *)
(* four adoption paths moves them.                                           *)
THEOREM FinalizedBehind == Spec => []FinalizedNotAboveJustified
<1>1. IInv(qpos) => FinalizedNotAboveJustified
  BY DEF IInv, FinalizedNotAboveJustified
<1> QED BY <1>1, Invariance, PTL

(* With persistence enabled and no write pending, disk and memory agree. *)
THEOREM NothingLost == Spec => []DurableUnlessPending
<1>1. IInv(qpos) => DurableUnlessPending
  BY DEF IInv, DurableUnlessPending
<1> QED BY <1>1, Invariance, PTL

(* Without an operator re-anchor the disk is never ahead of memory. *)
THEOREM NothingResurrected == Spec => []DiskNotAhead
<1>1. IInv(qpos) => DiskNotAhead
  BY DEF IInv, DiskNotAhead
<1> QED BY <1>1, Invariance, PTL

(* Durable finality is irrevocable across calls, failed writes and restarts. *)
THEOREM DurableIrrevocable == Spec => DurableFinalityIrrevocable
<1>1. IInv(qpos) /\ [Next]_qpos =>
        [/\ qpos'.disk.justified.epoch >= qpos.disk.justified.epoch
         /\ qpos'.disk.finalized.epoch >= qpos.disk.finalized.epoch
         /\ qpos.disk.finalized.epoch > 0 /\ qpos'.disk.finalized.epoch = qpos.disk.finalized.epoch
              => qpos'.disk.finalized.root = qpos.disk.finalized.root]_qpos
  BY StepSafe DEF Safe, DiskMonotone
<1> QED BY <1>1, Invariance, PTL DEF Spec, DurableFinalityIrrevocable

(* A header hash standing in for an unknown root is never written to disk. *)
THEOREM PlaceholdersNotDurable == Spec => OnlyCanonicalRootsDurable
<1>1. IInv(qpos) /\ [Next]_qpos =>
        [qpos'.disk # qpos.disk =>
           \A c \in {qpos'.disk.justified, qpos'.disk.finalized} :
             c.epoch > 0 => c.root \in {qpos.epochBlockRoots[c.epoch], qpos'.epochBlockRoots[c.epoch]}]_qpos
  BY StepSafe, Zenon DEF Safe, WrittenCanonical
<1> QED BY <1>1, Invariance, PTL DEF Spec, OnlyCanonicalRootsDurable

(* The durable record can be restored by a fresh engine after any crash. *)
THEOREM RestartPossible == Spec => []DurableRecordRestorable
<1>1. IInv(qpos) => DurableRecordRestorable
  <2> SUFFICES ASSUME IInv(qpos), GenesisAnchored(qpos.disk)
               PROVE  RestoreAccepts(SetGenesisRoot(NewQPOS(qpos.disk)), qpos.disk)
    BY DEF DurableRecordRestorable
  <2> DEFINE n == SetGenesisRoot(NewQPOS(qpos.disk))
  <2>1. n.justified = NoCheckpoint /\ n.finalized = NoCheckpoint /\ n.epochBlockRoots[0] = Genesis
    BY ZeroInRange DEF SetGenesisRoot, NewQPOS
  <2>2. qpos.disk \in FinalityRecord /\ ValidFinalityState(qpos.disk)
    BY DEF IInv, QPOSState
  <2> DEFINE r == qpos.disk
  <2> HIDE DEF n
  <2>3. n.justified.epoch = 0 /\ n.finalized.epoch = 0
    BY <2>1 DEF NoCheckpoint
  <2>4. r.justified.epoch \in Nat /\ r.finalized.epoch \in Nat
    BY <2>2 DEF FinalityRecord, Checkpoint, Epochs
  <2>5. \A c \in {r.justified, r.finalized} : c.epoch = 0 => c.root \in {NoRoot, Genesis}
    BY DEF GenesisAnchored
  <2> HIDE DEF r
  <2>6. RestoreAccepts(n, r)
    <3>1. r.finalized.epoch <= r.justified.epoch
      BY <2>2 DEF ValidFinalityState, r
    <3>2. /\ r.finalized.epoch = r.justified.epoch => r.finalized.root = r.justified.root
          /\ r.justified.epoch > 0 => r.justified.root # NoRoot
          /\ r.finalized.epoch > 0 => r.finalized.root # NoRoot
      BY <2>2 DEF ValidFinalityState, r
    <3>3. \A c \in {r.justified, r.finalized} :
            c.epoch = 0 /\ c.root # NoRoot => n.epochBlockRoots[0] \in {NoRoot, c.root}
      BY <2>1, <2>5
    <3>4. /\ r.justified.epoch >= n.justified.epoch /\ r.finalized.epoch >= n.finalized.epoch
          /\ ~(n.justified.epoch > 0) /\ ~(n.finalized.epoch > 0)
          /\ r.justified.epoch = 0 /\ r.finalized.epoch = 0 => r.finalized.epoch = r.justified.epoch
      BY <2>3, <2>4
    <3> QED BY <3>1, <3>2, <3>3, <3>4, Zenon DEF RestoreAccepts
  <2> QED BY <2>6 DEF n, r
<1> QED BY <1>1, Invariance, PTL

(* The recorded roots of the justified and the finalized epoch survive every *)
(* pruning and every re-anchor.                                              *)
THEOREM RootsKept == Spec => CheckpointRootsKept
<1>1. IInv(qpos) /\ [Next]_qpos =>
        [(\A e \in {qpos.justified.epoch, qpos.finalized.epoch} : e > 1 => RootKept(e)) \/ Restarted]_qpos
  BY StepKept DEF Kept, RootKept
<1> QED BY <1>1, Invariance, PTL DEF Spec, CheckpointRootsKept
=============================================================================
