--------------------------- MODULE NodeChain_proof ---------------------------
(***************************************************************************)
(* Proofs about NodeChain: every step of the node is a call of the         *)
(* finality engine or leaves it alone, for every block tree and every node *)
(* configuration, so that what QPOSFinality_proof shows of the engine      *)
(* holds of the engine inside the node.                                    *)
(***************************************************************************)
EXTENDS NodeChain, QPOSFinality_proof

-----------------------------------------------------------------------------
(* Heights and chains *)

(* The tree facts the headers give: heights count the steps from genesis *)
(* and slots grow.                                                       *)
LEMMA HeightFacts ==
  /\ \A b \in Blocks : HeightOf(b) \in Nat /\ SlotOf(b) \in Nat
  /\ HeightOf(Genesis) = 0 /\ SlotOf(Genesis) = 0
  /\ \A b \in Blocks \ {Genesis} :
       /\ ParentOf(b) \in Blocks
       /\ SlotOf(b) > SlotOf(ParentOf(b))
       /\ HeightOf(b) = HeightOf(ParentOf(b)) + 1
BY HeaderAssumption, TreeAssumption DEF HeightOf, SlotOf, HeaderType, Slots

(* What holds of genesis and passes from a parent to its children holds of *)
(* every block; P is the set of the blocks it holds of.                    *)
LEMMA FromParents ==
  ASSUME NEW P, Genesis \in P,
         \A b \in Blocks \ {Genesis} : ParentOf(b) \in P => b \in P
  PROVE  Blocks \subseteq P
<1> SUFFICES ASSUME NEW x \in Blocks, x \notin P PROVE FALSE
  OBVIOUS
<1> DEFINE T == {HeightOf(b) : b \in Blocks \ P}
<1>1. T \in SUBSET Nat /\ T # {}
  BY HeightFacts
<1>2. PICK n \in T : \A m \in T : n <= m
  BY <1>1, LeastNat, Zenon
<1>3. PICK b \in Blocks \ P : n = HeightOf(b)
  OBVIOUS
<1>4. b # Genesis /\ ParentOf(b) \in Blocks \ P
  BY <1>3, HeightFacts
<1>5. HeightOf(ParentOf(b)) \in T
  BY <1>4
<1>6. n <= HeightOf(ParentOf(b))
  BY <1>2, <1>5
<1>7. HeightOf(b) = HeightOf(ParentOf(b)) + 1 /\ HeightOf(ParentOf(b)) \in Nat
  BY <1>4, HeightFacts
<1> QED BY <1>3, <1>6, <1>7

(* A block is never higher than its slot, so that heights are bounded. *)
LEMMA HeightBound == \E N \in Nat : \A b \in Blocks : HeightOf(b) <= N
<1> DEFINE P == {b \in Blocks : HeightOf(b) <= SlotOf(b)}
<1>1. Genesis \in P
  BY HeightFacts, ConstantsAssumption
<1>2. ASSUME NEW b \in Blocks \ {Genesis}, ParentOf(b) \in P PROVE b \in P
  BY <1>2, HeightFacts
<1>3. Blocks \subseteq P
  <2> HIDE DEF P
  <2> QED BY <1>1, <1>2, FromParents
<1>4. PICK N \in Nat : Slots = 0 .. N
  BY ZeroInRange
<1>5. \A b \in Blocks : SlotOf(b) \in 0 .. N
  BY <1>4, HeaderFacts
<1>6. \A b \in Blocks : HeightOf(b) <= N
  BY <1>3, <1>5, HeightFacts
<1> QED BY <1>6

(* A nonempty set of blocks has a highest member. *)
LEMMA HighestInSet ==
  ASSUME NEW S \in SUBSET Blocks, S # {}
  PROVE  Highest(S) \in S /\ \A c \in S : HeightOf(c) <= HeightOf(Highest(S))
<1>1. PICK N \in Nat : \A b \in Blocks : HeightOf(b) <= N
  BY HeightBound
<1> DEFINE T == {N - HeightOf(b) : b \in S}
<1>2. T \in SUBSET Nat /\ T # {}
  <2>1. \A b \in S : N - HeightOf(b) \in Nat
    BY <1>1, HeightFacts
  <2>2. PICK b \in S : TRUE
    BY Zenon
  <2>3. N - HeightOf(b) \in T
    BY <2>2
  <2> QED BY <2>1, <2>3
<1>3. PICK x \in T : \A y \in T : x <= y
  BY <1>2, LeastNat, Zenon
<1>4. PICK b \in S : x = N - HeightOf(b)
  OBVIOUS
<1>5. \A c \in S : HeightOf(c) <= HeightOf(b)
  <2> TAKE c \in S
  <2>1. x <= N - HeightOf(c)
    BY <1>3
  <2> QED BY <1>4, <2>1, HeightFacts
<1> QED BY <1>5, Zenon DEF Highest

(***************************************************************************)
(* The recursion of Lineage has a solution: the least set that holds b and *)
(* the parents of its members.                                             *)
(***************************************************************************)
LEMMA LineageIsDefined ==
  Lineage = [b \in Blocks |-> {b} \cup (IF b = Genesis THEN {} ELSE Lineage[ParentOf(b)])]
<1> DEFINE Closed(S) == \A c \in S : c # Genesis => ParentOf(c) \in S
           Anc(b) == {a \in Blocks : \A S \in SUBSET Blocks : b \in S /\ Closed(S) => a \in S}
           F == [b \in Blocks |-> Anc(b)]
           Body(f) == [b \in Blocks |-> {b} \cup (IF b = Genesis THEN {} ELSE f[ParentOf(b)])]
<1>1. ASSUME NEW b \in Blocks PROVE b \in Anc(b) /\ Anc(b) \in SUBSET Blocks /\ Closed(Anc(b))
  <2>1. b \in Anc(b) /\ Anc(b) \in SUBSET Blocks
    OBVIOUS
  <2>2. ASSUME NEW c \in Anc(b), c # Genesis PROVE ParentOf(c) \in Anc(b)
    <3>1. ParentOf(c) \in Blocks
      BY <2>2, HeightFacts
    <3>2. ASSUME NEW S \in SUBSET Blocks, b \in S, Closed(S) PROVE ParentOf(c) \in S
      BY <2>2, <3>2
    <3> QED BY <3>1, <3>2
  <2> QED BY <2>1, <2>2
<1>2. Anc(Genesis) = {Genesis}
  <2>1. {Genesis} \in SUBSET Blocks /\ Closed({Genesis})
    BY ConstantsAssumption
  <2>2. Genesis \in Anc(Genesis)
    BY <1>1, ConstantsAssumption
  <2>3. \A a \in Anc(Genesis) : a \in {Genesis}
    BY <2>1, Zenon
  <2> QED BY <2>2, <2>3, Zenon
<1>3. ASSUME NEW b \in Blocks \ {Genesis} PROVE Anc(b) = {b} \cup Anc(ParentOf(b))
  <2> DEFINE p == ParentOf(b)
  <2>1. p \in Blocks
    BY HeightFacts
  <2>2. p \in Anc(p) /\ Anc(p) \in SUBSET Blocks /\ Closed(Anc(p))
    BY <1>1, <2>1
  <2>3. ASSUME NEW a \in Anc(b) PROVE a \in {b} \cup Anc(p)
    <3>1. {b} \cup Anc(p) \in SUBSET Blocks
      BY <2>2
    <3>2. Closed({b} \cup Anc(p))
      BY <2>2
    <3> QED BY <2>3, <3>1, <3>2, Zenon
  <2>4. ASSUME NEW a \in Anc(p) PROVE a \in Anc(b)
    <3>1. ASSUME NEW S \in SUBSET Blocks, b \in S, Closed(S) PROVE a \in S
      BY <3>1, <2>4
    <3> QED BY <2>4, <3>1
  <2>5. b \in Anc(b)
    BY <1>1
  <2> QED BY <2>3, <2>4, <2>5
<1> HIDE DEF Anc
<1>4. F = Body(F)
  BY <1>2, <1>3, HeightFacts
<1>5. Lineage = CHOOSE f : f = Body(f)
  BY DEF Lineage
<1> HIDE DEF F, Body
<1>6. Lineage = Body(Lineage)
  BY <1>4, <1>5, Zenon
<1> QED BY <1>6, Zenon DEF Body

(* A chain is a block on top of its parent's chain. *)
LEMMA ChainFacts ==
  /\ Chain(Genesis) = {Genesis}
  /\ \A b \in Blocks \ {Genesis} : Chain(b) = {b} \cup Chain(ParentOf(b))
<1>1. Lineage[Genesis] = {Genesis}
  BY LineageIsDefined, ConstantsAssumption, Zenon
<1>2. \A b \in Blocks \ {Genesis} : Lineage[b] = {b} \cup Lineage[ParentOf(b)]
  BY LineageIsDefined, Zenon
<1> QED BY <1>1, <1>2, ConstantsAssumption DEF Chain

(* A block is on its own chain, and above the rest of it. *)
LEMMA ChainTop ==
  \A b \in Blocks :
    b \in Chain(b) /\ \A c \in Chain(b) \ {b} : HeightOf(c) < HeightOf(b) /\ SlotOf(c) < SlotOf(b)
<1> DEFINE Top(b) == \A c \in Chain(b) \ {b} : HeightOf(c) < HeightOf(b) /\ SlotOf(c) < SlotOf(b)
           P == {b \in Blocks : Top(b)}
<1>1. Genesis \in P
  BY ChainFacts, ConstantsAssumption
<1>2. ASSUME NEW b \in Blocks \ {Genesis}, ParentOf(b) \in P PROVE b \in P
  <2> DEFINE p == ParentOf(b)
  <2>1. p \in Blocks /\ SlotOf(b) > SlotOf(p) /\ HeightOf(b) = HeightOf(p) + 1 /\ Chain(b) = {b} \cup Chain(p)
    BY HeightFacts, ChainFacts
  <2>2. \A c \in Chain(p) : c \in Blocks /\ (c = p \/ (HeightOf(c) < HeightOf(p) /\ SlotOf(c) < SlotOf(p)))
    BY <1>2 DEF Chain
  <2> HIDE DEF p
  <2>3. ASSUME NEW c \in Chain(b) \ {b} PROVE HeightOf(c) < HeightOf(b) /\ SlotOf(c) < SlotOf(b)
    <3>1. c \in Chain(p) /\ c \in Blocks
      BY <2>1, <2>2
    <3> QED BY <2>1, <2>2, <3>1, HeightFacts
  <2> QED BY <2>3
<1>3. Blocks \subseteq P
  <2> HIDE DEF P
  <2> QED BY <1>1, <1>2, FromParents
<1> QED BY <1>3, ChainFacts, ConstantsAssumption

(* Along a chain, heights and slots grow together. *)
LEMMA ChainOrder ==
  \A b \in Blocks : \A c, d \in Chain(b) : HeightOf(c) < HeightOf(d) <=> SlotOf(c) < SlotOf(d)
<1> DEFINE Ordered(b) == \A c, d \in Chain(b) : HeightOf(c) < HeightOf(d) <=> SlotOf(c) < SlotOf(d)
           P == {b \in Blocks : Ordered(b)}
<1>1. Genesis \in P
  <2>1. \A c \in Chain(Genesis) : c = Genesis
    BY ChainFacts
  <2> QED BY <2>1, ConstantsAssumption, HeightFacts
<1>2. ASSUME NEW b \in Blocks \ {Genesis}, ParentOf(b) \in P PROVE b \in P
  <2>1. \A c \in Chain(b) : c \in Blocks /\ (c = b \/ c \in Chain(ParentOf(b)))
    BY ChainFacts DEF Chain
  <2>2. ASSUME NEW c \in Chain(b), NEW d \in Chain(b) PROVE HeightOf(c) < HeightOf(d) <=> SlotOf(c) < SlotOf(d)
    <3>1. CASE c = d
      BY <3>1, <2>1, HeightFacts
    <3>2. CASE c = b /\ d # b
      <4>1. HeightOf(d) < HeightOf(b) /\ SlotOf(d) < SlotOf(b)
        BY <3>2, ChainTop
      <4> QED BY <3>2, <4>1, <2>1, HeightFacts
    <3>3. CASE d = b /\ c # b
      BY <3>3, ChainTop
    <3>4. CASE c # b /\ d # b
      BY <3>4, <2>1, <1>2
    <3> QED BY <3>1, <3>2, <3>3, <3>4
  <2> QED BY <2>2
<1>3. Blocks \subseteq P
  <2> HIDE DEF P
  <2> QED BY <1>1, <1>2, FromParents
<1> QED BY <1>3

(* A walk towards genesis has no holes: with a block it holds all of the *)
(* tip's chain above it.                                                 *)
LEMMA WalkFacts ==
  ASSUME NEW st, NEW tip \in Blocks, NEW W, W = Walk(st, tip, MaxReorgDepth)
  PROVE  /\ tip \in W /\ W \subseteq Chain(tip)
         /\ \A a \in W, c \in Chain(tip) : HeightOf(a) <= HeightOf(c) => c \in W
<1>1. MaxReorgDepth \in Nat /\ MaxReorgDepth > 0
  BY ConstantsAssumption DEF MaxReorgDepth
<1>2. \A c \in Chain(tip) : c \in Blocks /\ HeightOf(c) \in Nat /\ HeightOf(tip) \in Nat
  BY HeightFacts DEF Chain
<1>3. tip \in Chain(tip) /\ \A c \in Chain(tip) : HeightOf(tip) <= HeightOf(c) => c = tip
  BY ChainTop, <1>2
<1>4. tip \in W
  BY <1>1, <1>2, <1>3 DEF Walk
<1>5. ASSUME NEW a \in W, NEW c \in Chain(tip), HeightOf(a) <= HeightOf(c) PROVE c \in W
  <2>1. /\ a \in Chain(tip) /\ HeightOf(tip) - HeightOf(a) < MaxReorgDepth
        /\ \A d \in Chain(tip) : HeightOf(a) <= HeightOf(d) /\ d # tip => d \in st
    BY DEF Walk
  <2>2. HeightOf(tip) - HeightOf(c) < MaxReorgDepth
    BY <1>1, <1>2, <1>5, <2>1
  <2>3. \A d \in Chain(tip) : HeightOf(c) <= HeightOf(d) => HeightOf(a) <= HeightOf(d)
    BY <1>2, <1>5, <2>1
  <2> QED BY <2>1, <2>2, <2>3 DEF Walk
<1> QED BY <1>4, <1>5 DEF Walk

(* planSlotReanchor hands over a plan of the kind the engine is prepared for. *)
LEMMA PlanIsPlan ==
  ASSUME NEW st, NEW newHead \in Blocks, NEW oldHead \in Blocks, NEW hint
  PROVE  ReanchorPlan(st, newHead, oldHead, hint) \in ReanchorPlans(newHead)
<1> DEFINE C      == Chain(newHead)
           new    == Walk(st, newHead, MaxReorgDepth)
           common == new \cap Walk(st, oldHead, MaxReorgDepth)
           anc    == IF common # {} THEN Highest(common) ELSE IF hint \in new THEN hint ELSE NoRoot
           plan   == ReanchorPlan(st, newHead, oldHead, hint)
           seg    == {b \in new : SlotOf(b) > (IF anc = NoRoot THEN 0 ELSE SlotOf(anc))}
<1>1. plan = [ancestor |-> anc, segment |-> seg, replacedSlot |-> SlotOf(oldHead)]
  BY DEF ReanchorPlan
<1>2. newHead \in new /\ new \subseteq C /\ \A a \in new, c \in C : HeightOf(a) <= HeightOf(c) => c \in new
  BY WalkFacts
<1>3. \A c \in C : c \in Blocks /\ HeightOf(c) \in Nat /\ SlotOf(c) \in Nat
  BY HeightFacts DEF Chain
<1>4. \A c, d \in C : HeightOf(c) < HeightOf(d) <=> SlotOf(c) < SlotOf(d)
  BY ChainOrder
<1>5. anc \in new \/ anc = NoRoot
  <2>1. common \in SUBSET Blocks /\ common \subseteq new
    BY <1>2, <1>3
  <2> HIDE DEF common
  <2>2. common # {} => Highest(common) \in common
    BY <2>1, HighestInSet
  <2> QED BY <2>1, <2>2
<1> SUFFICES plan \in ReanchorPlans(newHead)
  OBVIOUS
<1> HIDE DEF new, C, anc, plan
<1>6. CASE anc \in new
  <2>1. anc # NoRoot
    BY <1>2, <1>3, <1>6, ConstantsAssumption
  <2>2. \A b \in C : SlotOf(b) > SlotOf(anc) => b \in new
    <3> TAKE b \in C
    <3>1. anc \in C /\ (SlotOf(anc) < SlotOf(b) => HeightOf(anc) < HeightOf(b))
      BY <1>2, <1>4, <1>6
    <3> QED BY <1>2, <1>3, <1>6, <3>1
  <2>3. seg = {b \in C : SlotOf(b) > SlotOf(anc)}
    BY <1>2, <2>1, <2>2
  <2>4. anc \in Chain(newHead) /\ plan = PlanAbove(newHead, anc, oldHead)
    BY <1>1, <1>2, <1>6, <2>3 DEF C, PlanAbove
  <2> QED BY <2>4 DEF ReanchorPlans
<1>7. CASE anc = NoRoot
  <2>1. new \in SUBSET Blocks /\ new # {}
    BY <1>2, <1>3
  <2>2. PICK a \in new : \A b \in new : HeightOf(a) <= HeightOf(b)
    <3> DEFINE T == {HeightOf(b) : b \in new}
    <3>1. T \in SUBSET Nat /\ T # {}
      BY <2>1, HeightFacts
    <3>2. PICK x \in T : \A y \in T : x <= y
      BY <3>1, LeastNat, Zenon
    <3> QED BY <3>2
  <2>3. a \in C /\ \A b \in C : b \in new <=> SlotOf(b) >= SlotOf(a)
    <3>1. a \in C
      BY <1>2, <2>2
    <3>2. ASSUME NEW b \in C PROVE b \in new <=> HeightOf(b) >= HeightOf(a)
      BY <1>2, <1>3, <2>2, <3>1
    <3>3. ASSUME NEW b \in C PROVE HeightOf(b) >= HeightOf(a) <=> SlotOf(b) >= SlotOf(a)
      BY <1>3, <1>4, <3>1
    <3> QED BY <3>1, <3>2, <3>3
  <2>4. \A b \in C : SlotOf(b) > 0 <=> b # Genesis
    BY <1>3, HeightFacts
  <2>5. seg = {b \in C \ {Genesis} : SlotOf(b) >= SlotOf(a)}
    BY <1>2, <1>7, <2>3, <2>4
  <2>6. a \in Chain(newHead) /\ plan = PlanUnrooted(newHead, a, oldHead)
    BY <1>1, <1>7, <2>3, <2>5 DEF C, PlanUnrooted
  <2> QED BY <2>6 DEF ReanchorPlans
<1> QED BY <1>5, <1>6, <1>7

-----------------------------------------------------------------------------
(* What every state of the node satisfies beside the engine's own invariant. *)

StoreOK ==
  /\ Genesis \in store /\ store \subseteq Blocks
  /\ \A b, c \in store : HeightOf(b) = HeightOf(c) => b = c
  /\ head \in Blocks

(* A goroutine at work has a block other than genesis in hand, and a         *)
(* truncation under way starts above genesis.                                *)
JobOK ==
  /\ job \in [Workers -> [pc : JobSteps, blk : Blocks, from : Nat, ours : Root]]
  /\ \A w \in Workers : /\ job[w].pc # "idle" => job[w].blk # Genesis
                        /\ job[w].pc = "truncate" => job[w].from > 0

ProdOK ==
  /\ prod \in [pc : ProdSteps, blk : Blocks]
  /\ prod.pc # "idle" => prod.blk # Genesis /\ prod.blk \in OwnBlocks

ForksOK == forks \in [abandoned : [Heights -> Root], refused : SUBSET Heights]

CountersOK ==
  /\ operator \in {0} \cup RollbackHeights
  /\ trusted \in BOOLEAN
  /\ lastEpoch \in {-1} \cup Epochs /\ backfilled \in Epochs /\ restarts \in 0 .. MaxRestarts

NodeInv == StoreOK /\ JobOK /\ ProdOK /\ ForksOK /\ CountersOK

-----------------------------------------------------------------------------
(* Each step of the node is a step of the engine *)

(* Restoring looks at one block of the store: an empty store and a full one are *)
(* all the cases there are.                                                     *)
LEMMA StartUpStore ==
  ASSUME NEW disk, NEW st \in SUBSET Blocks, NEW latest, NEW reanchor, NEW ok
  PROVE  \E s \in {{}, Blocks} : StartUp(disk, st, latest, reanchor, ok) = StartUp(disk, s, latest, reanchor, ok)
<1> DEFINE n == SetGenesisRoot(NewQPOS(disk))
           p == RestoreFinalityState(n, n.disk)
<1>1. ASSUME NEW s, PinFromStore(p, st) = PinFromStore(p, s)
      PROVE  StartUp(disk, st, latest, reanchor, ok) = StartUp(disk, s, latest, reanchor, ok)
  <2>1. ConfigureQPOSFinalityPersistence(n, st, ok) = ConfigureQPOSFinalityPersistence(n, s, ok)
    BY <1>1, Zenon DEF ConfigureQPOSFinalityPersistence
  <2> HIDE DEF n
  <2> QED BY <2>1, Zenon DEF StartUp, n
<1> HIDE DEF p
<1>2. CASE p.finalized.root \in st
  <2>1. PinFromStore(p, st) = PinFromStore(p, Blocks)
    BY <1>2, Zenon DEF PinFromStore
  <2> QED BY <1>1, <2>1, Zenon
<1>3. CASE p.finalized.root \notin st
  <2>1. PinFromStore(p, st) = PinFromStore(p, {})
    BY <1>3, Zenon DEF PinFromStore
  <2> QED BY <1>1, <2>1, Zenon
<1> QED BY <1>2, <1>3

(* commitHeadSwitchWithHintLocked: the engine is left alone or re-anchored. *)
LEMMA SwitchDrives ==
  ASSUME StoreOK, NEW b \in Blocks, NEW hint, NEW ok \in BOOLEAN, CommitHeadSwitch(b, hint, ok)
  PROVE  head' = b /\ (Next \/ qpos' = qpos)
<1>1. CASE ParentOf(b) = head
  BY <1>1 DEF CommitHeadSwitch
<1>2. CASE ParentOf(b) # head
  <2> DEFINE plan == SwitchPlan(b, hint)
  <2>1. ~SwitchRefused(plan) /\ qpos' \in ReanchorAndRedrive(qpos, plan, ok) /\ head' = b
    BY <1>2, Zenon DEF CommitHeadSwitch
  <2>2. head \in Blocks
    BY DEF StoreOK
  <2>3. plan \in ReanchorPlans(b)
    BY <2>2, PlanIsPlan, Zenon DEF SwitchPlan
  <2> HIDE DEF plan
  <2>4. CallReanchorSlotRoots(b, ok)
    BY <2>1, <2>3, Zenon DEF SwitchRefused, CallReanchorSlotRoots
  <2> QED BY <2>1, <2>4, Zenon DEF Next
<1> QED BY <1>1, <1>2

(* The stored tip is a stored block. *)
LEMMA LatestInStore == StoreOK => LatestBlock \in store /\ LatestBlock \in Blocks
BY HighestInSet DEF StoreOK, LatestBlock

(* The calls of a goroutine that has a block in hand. *)
LEMMA CallsDrive ==
  ASSUME NEW b \in Blocks \ {Genesis}, NEW ok \in BOOLEAN,
         \/ CallSetSlotBlockRoot(b, ok) \/ CallSetEpochBlockRoot(b, ok) \/ CallEnsureEpochBlockRoot(b, ok)
         \/ CallAdoptHeaderFinality(b, ok) \/ CallCompleteSeal(b, ok) \/ CallApplyBlockHeader(b)
  PROVE  Next
BY Zenon DEF Next

(* Every step of the node is a call of the engine or leaves it alone. *)
LEMMA StepDrives ==
  ASSUME NodeInv, NodeNext
  PROVE  Next \/ qpos' = qpos
<1>1. ASSUME NEW w \in Workers, job[w].pc # "idle" PROVE job[w].blk \in Blocks \ {Genesis}
  BY <1>1 DEF NodeInv, JobOK
<1>2. prod.pc # "idle" => prod.blk \in Blocks \ {Genesis}
  BY DEF NodeInv, ProdOK
<1>3. StoreOK /\ head \in Blocks /\ LatestBlock \in Blocks /\ store \in SUBSET Blocks
  BY LatestInStore DEF NodeInv, StoreOK
<1>4. ASSUME NEW w \in Workers, NEW b \in Blocks, Receive(w, b) \/ ReceiveFork(w, b) PROVE qpos' = qpos
  BY <1>4, Zenon DEF Receive, ReceiveFork
<1>5. ASSUME NEW w \in Workers, PutBlock(w) PROVE qpos' = qpos
  BY <1>5 DEF PutBlock
<1>6. ASSUME NEW w \in Workers, ApplyBlock(w) PROVE Next \/ qpos' = qpos
  <2>1. PICK b \in Blocks \ {Genesis} : b = job[w].blk
    BY <1>1, <1>6 DEF ApplyBlock
  <2>2. CallApplyBlockHeader(b) \/ qpos' = qpos
    BY <1>6, <2>1 DEF ApplyBlock, CallApplyBlockHeader
  <2> QED BY <2>2, CallsDrive, Zenon
<1>7. ASSUME NEW w \in Workers, NEW ok \in BOOLEAN, TruncateForFork(w, ok) PROVE qpos' = qpos
  BY <1>7 DEF TruncateForFork
<1>8. ASSUME NEW w \in Workers, NEW ok \in BOOLEAN, DecideHead(w, ok) PROVE Next \/ qpos' = qpos
  <2>1. PICK b \in Blocks : b = job[w].blk
    BY <1>1, <1>8 DEF DecideHead
  <2>2. CommitHeadSwitch(b, NoRoot, ok) \/ qpos' = qpos
    BY <1>8, <2>1 DEF DecideHead, CommitHeadSwitch
  <2> QED BY <1>3, <2>2, SwitchDrives
<1>9. ASSUME NEW w \in Workers, NEW ok \in BOOLEAN,
             \/ WriteSlotRoot(w, ok) \/ AdoptFinality(w, ok) \/ WriteEpochRoot(w, ok) \/ EnsureEpochState(w, ok)
      PROVE  Next
  <2>1. PICK b \in Blocks \ {Genesis} : b = job[w].blk
    BY <1>1, <1>9 DEF WriteSlotRoot, AdoptFinality, WriteEpochRoot, EnsureEpochState
  <2>2. \/ CallSetSlotBlockRoot(b, ok) \/ CallAdoptHeaderFinality(b, ok)
        \/ CallSetEpochBlockRoot(b, ok) \/ CallEnsureEpochBlockRoot(b, ok)
    BY <1>9, <2>1 DEF WriteSlotRoot, AdoptFinality, WriteEpochRoot, EnsureEpochState,
                      CallSetSlotBlockRoot, CallAdoptHeaderFinality, CallSetEpochBlockRoot, CallEnsureEpochBlockRoot
  <2> QED BY <2>2, CallsDrive
<1>10. ASSUME NEW b \in OwnBlocks, BuildBlock(b) PROVE qpos' = qpos
  BY <1>10 DEF BuildBlock
<1>11. ASSUME NEW ok \in BOOLEAN, CommitProduced(ok) \/ ProducedEpochRoot(ok) \/ ProducedEnsure(ok)
       PROVE  Next \/ qpos' = qpos
  <2>1. PICK b \in Blocks \ {Genesis} : b = prod.blk
    BY <1>2, <1>11, Zenon DEF CommitProduced, ProducedEpochRoot, ProducedEnsure
  <2>2. \/ qpos' = qpos
        \/ CallSetSlotBlockRoot(b, ok) \/ CallSetEpochBlockRoot(b, ok) \/ CallEnsureEpochBlockRoot(b, ok)
    BY <1>11, <2>1, Zenon DEF CommitProduced, ProducedEpochRoot, ProducedEnsure,
                       CallSetSlotBlockRoot, CallSetEpochBlockRoot, CallEnsureEpochBlockRoot
  <2> QED BY <2>2, CallsDrive
<1>12. ASSUME NEW ok \in BOOLEAN, StoreProduced(ok) PROVE Next \/ qpos' = qpos
  <2> DEFINE S == Stored(HeightOf(prod.blk))
  <2>1. CASE S = {}
    BY <1>12, <2>1 DEF StoreProduced
  <2>2. CASE S # {}
    <3>1. PICK c \in S : c = CHOOSE d \in S : TRUE
      BY <2>2
    <3>2. qpos' = qpos \/ CommitHeadSwitch(c, NoRoot, ok)
      BY <1>12, <3>1, Zenon DEF StoreProduced, ReloadConflictHead, CommitHeadSwitch
    <3>3. c \in Blocks
      BY <1>3 DEF Stored
    <3> QED BY <1>3, <3>2, <3>3, SwitchDrives
  <2> QED BY <2>1, <2>2
<1>13. ASSUME NEW ok \in BOOLEAN, NEW from \in RollbackHeights, RollbackHead(from, ok) PROVE Next \/ qpos' = qpos
  <2>1. qpos' = qpos \/ \E kept \in store : CommitHeadSwitch(kept, kept, ok)
    BY <1>13, Zenon DEF RollbackHead, Stored
  <2> QED BY <1>3, <2>1, SwitchDrives
<1>14. ASSUME NEW ok \in BOOLEAN, RollbackStore(ok) PROVE qpos' = qpos
  BY <1>14 DEF RollbackStore
<1>15. ASSUME NEW ok \in BOOLEAN, TryUpdateFinality(ok) PROVE Next
  <2>1. PICK current \in CurrentEpochs : current >= 2 /\ CallTryUpdateFinality(current - 1, ok)
    BY <1>15 DEF TryUpdateFinality
  <2>2. current - 1 \in Epochs
    <3>1. EpochOf(LatestBlock) \in Epochs /\ lastEpoch \in {-1} \cup Epochs /\ MaxEpoch \in Nat
      BY <1>3, HeaderFacts, ConstantsAssumption DEF NodeInv, CountersOK
    <3> QED BY <2>1, <3>1 DEF CurrentEpochs, Epochs
  <2> QED BY <2>1, <2>2, Zenon DEF Next
<1>16. ASSUME NEW ok \in BOOLEAN, NEW b \in SealableBlocks, Seal(b, ok) PROVE Next
  <2>1. b \in Blocks \ {Genesis} /\ CallCompleteSeal(b, ok)
    BY <1>16, NodeConstantsAssumption DEF Seal
  <2> QED BY <2>1, CallsDrive
<1>17. ASSUME NEW ok \in BOOLEAN, NEW oldest \in Epochs, Backfill(oldest, ok) PROVE Next
  <2>1. PICK tip \in Blocks : tip = LatestBlock
    BY <1>3
  <2>2. CallBackfillEpochRoots(tip, oldest, ok)
    BY <1>17, <2>1 DEF Backfill, CallBackfillEpochRoots
  <2> QED BY <2>2, Zenon DEF Next
<1>18. ASSUME NEW ok \in BOOLEAN, NEW reanchor \in BOOLEAN, RestartNode(reanchor, ok) PROVE Next
  <2>1. PICK latest \in Blocks, st \in SUBSET Blocks : latest = LatestBlock /\ st = store
    BY <1>3
  <2>2. (reanchor => OperatorReanchor) /\ qpos' = StartUp(qpos.disk, st, latest, reanchor, ok)
    BY <1>18, <2>1, Zenon DEF RestartNode
  <2>3. PICK s \in {{}, Blocks} : qpos' = StartUp(qpos.disk, s, latest, reanchor, ok)
    BY <2>2, StartUpStore
  <2>4. Restart(s, latest, reanchor, ok)
    BY <2>2, <2>3, Zenon DEF Restart
  <2> QED BY <2>4, Zenon DEF Next
<1> QED
  <2>1. \A ok \in DiskOutcomes : ok \in BOOLEAN
    BY NodeConstantsAssumption
  <2> QED BY <2>1, <1>4, <1>5, <1>6, <1>7, <1>8, <1>9, <1>10, <1>11, <1>12, <1>13, <1>14, <1>15, <1>16, <1>17, <1>18 DEF NodeNext

-----------------------------------------------------------------------------
(* Each step keeps the invariant of the node *)

(* A goroutine that goes on to its next step keeps its block. *)
LEMMA GoToJob ==
  ASSUME JobOK, NEW w \in Workers, NEW pc \in JobSteps \ {"truncate"}, job[w].pc # "idle", GoTo(w, pc)
  PROVE  JobOK'
<1>1. job' = [job EXCEPT ![w].pc = pc]
  BY DEF GoTo
<1> QED BY <1>1 DEF JobOK

(* A goroutine that is done forgets its block. *)
LEMMA DoneJob ==
  ASSUME JobOK, NEW w \in Workers, Done(w)
  PROVE  JobOK'
<1>1. Idle \in [pc : JobSteps, blk : Blocks, from : Nat, ours : Root] /\ Idle.pc = "idle"
  BY ConstantsAssumption DEF Idle, JobSteps, Root
<1>2. job' = [job EXCEPT ![w] = Idle]
  BY DEF Done
<1> QED BY <1>1, <1>2 DEF JobOK

(* The end of ProcessBlock: on to fork choice, or done. *)
LEMMA ImportedJob ==
  ASSUME JobOK, NEW w \in Workers, job[w].pc # "idle", Imported(w)
  PROVE  JobOK'
<1>1. "decide" \in JobSteps \ {"truncate"}
  BY DEF JobSteps
<1> QED BY <1>1, GoToJob, DoneJob DEF Imported

(* A goroutine takes up a block. *)
LEMMA StartedJob ==
  ASSUME JobOK, NEW w \in Workers, NEW j \in [pc : JobSteps, blk : Blocks \ {Genesis}, from : Nat, ours : Root],
         j.pc = "truncate" => j.from > 0, job' = [job EXCEPT ![w] = j]
  PROVE  JobOK'
BY DEF JobOK

(* Every height below a block's is the height of a block. *)
LEMMA HeightsBelow == \A b \in Blocks : \A n \in 0 .. HeightOf(b) : n \in Heights
<1> DEFINE P == {b \in Blocks : \A n \in 0 .. HeightOf(b) : n \in Heights}
<1>1. Genesis \in P
  BY HeightFacts, ConstantsAssumption DEF Heights
<1>2. ASSUME NEW b \in Blocks \ {Genesis}, ParentOf(b) \in P PROVE b \in P
  <2>1. HeightOf(b) \in Heights /\ HeightOf(b) = HeightOf(ParentOf(b)) + 1 /\ HeightOf(ParentOf(b)) \in Nat
    BY HeightFacts DEF Heights
  <2>2. \A n \in 0 .. HeightOf(b) : n = HeightOf(b) \/ n \in 0 .. HeightOf(ParentOf(b))
    BY <2>1
  <2> QED BY <1>2, <2>1, <2>2
<1>3. Blocks \subseteq P
  <2> HIDE DEF P
  <2> QED BY <1>1, <1>2, FromParents
<1> QED BY <1>3

(* The syncer's fork memory of a fresh start has its types. *)
LEMMA NoForksOK == NoForks \in [abandoned : [Heights -> Root], refused : SUBSET Heights]
BY DEF NoForks, Root

(* ClearForkAcceptedBelow keeps the types of the fork memory. *)
LEMMA ClearedForks == ForksOK => \A h \in Nat : ClearForkAcceptedBelow(h) \in [abandoned : [Heights -> Root], refused : SUBSET Heights]
BY DEF ForksOK, ClearForkAcceptedBelow, Root

(* What the import of a block changes *)
LEMMA ReceiveInv ==
  ASSUME NodeInv, NEW w \in Workers, NEW b \in Blocks \ {Genesis}, Receive(w, b)
  PROVE  NodeInv'
<1>1. JobOK'
  <2>1. \A pc \in {"decide", "put"} :
          LET j == [Idle EXCEPT !.pc = pc, !.blk = b]
          IN j \in [pc : JobSteps, blk : Blocks \ {Genesis}, from : Nat, ours : Root] /\ j.pc # "truncate"
    BY Zenon DEF Idle, JobSteps, Root
  <2>2. \E pc \in {"decide", "put"} : job' = [job EXCEPT ![w] = [Idle EXCEPT !.pc = pc, !.blk = b]]
    BY DEF Receive
  <2> QED BY <2>1, <2>2, StartedJob, Zenon DEF NodeInv
<1> QED BY <1>1 DEF NodeInv, StoreOK, ProdOK, ForksOK, CountersOK, Receive, chainVars, memory

(* A block on a fork: the memory of refused forks stays within the heights, *)
(* and a truncation it opens starts above genesis.                          *)
LEMMA ReceiveForkInv ==
  ASSUME NodeInv, NEW w \in Workers, NEW b \in Blocks \ {Genesis}, ReceiveFork(w, b)
  PROVE  NodeInv'
<1> DEFINE h       == HeightOf(b) - 1
           cleared == [forks EXCEPT !.abandoned[h] = NoRoot]
<1>1. h \in Heights /\ h \in Nat /\ HeightOf(b) \in Nat /\ h > 0
  <2>1. h > 0
    BY Zenon DEF ReceiveFork
  <2>2. h \in Heights /\ h \in Nat /\ HeightOf(b) \in Nat
    BY HeightFacts DEF Heights
  <2> QED BY <2>1, <2>2
<1>2. \A from \in ForkRollbackPoints(h) : from \in Nat /\ from > 0 /\ from \in Heights
  <2>1. \A from \in ForkRollbackPoints(h) : from \in 0 .. HeightOf(b) /\ from > 0
    BY <1>1 DEF ForkRollbackPoints
  <2> QED BY <1>1, <2>1, HeightsBelow
<1>3. cleared \in [abandoned : [Heights -> Root], refused : SUBSET Heights]
  BY <1>1 DEF NodeInv, ForksOK, Root
<1>4. /\ \/ forks' = cleared
         \/ \E from \in ForkRollbackPoints(h) : forks' = [cleared EXCEPT !.refused = @ \cup {from}]
      /\ \/ job' = job
         \/ \E from \in ForkRollbackPoints(h), ours \in Stored(h) :
              job' = [job EXCEPT ![w] = [pc |-> "truncate", blk |-> b, from |-> from, ours |-> ours]]
  <2>1. \/ forks' = cleared /\ job' = job
        \/ \E from \in ForkRollbackPoints(h) :
             IF RollbackBelowFinality(qpos, from)
             THEN forks' = [cleared EXCEPT !.refused = @ \cup {from}] /\ job' = job
             ELSE \E ours \in Stored(h) :
                    /\ forks' = cleared
                    /\ job' = [job EXCEPT ![w] = [pc |-> "truncate", blk |-> b, from |-> from, ours |-> ours]]
    BY Zenon DEF ReceiveFork
  <2> HIDE DEF h, cleared
  <2> QED BY <2>1, Zenon
<1> HIDE DEF h, cleared
<1>5. ForksOK'
  BY <1>2, <1>3, <1>4 DEF ForksOK
<1>6. JobOK'
  <2>1. CASE job' = job
    BY <2>1 DEF NodeInv, JobOK
  <2>2. ASSUME NEW from \in ForkRollbackPoints(h), NEW ours \in Stored(h),
               job' = [job EXCEPT ![w] = [pc |-> "truncate", blk |-> b, from |-> from, ours |-> ours]]
        PROVE  JobOK'
    <3> DEFINE j == [pc |-> "truncate", blk |-> b, from |-> from, ours |-> ours]
    <3>1. from \in Nat /\ from > 0 /\ ours \in Root
      BY <1>2 DEF NodeInv, StoreOK, Stored, Root
    <3>2. j \in [pc : JobSteps, blk : Blocks \ {Genesis}, from : Nat, ours : Root] /\ j.from > 0
      BY <3>1 DEF JobSteps
    <3>3. job' = [job EXCEPT ![w] = j]
      BY <2>2
    <3> HIDE DEF j
    <3> QED BY <3>2, <3>3, StartedJob, Zenon DEF NodeInv
  <2> QED BY <1>4, <2>1, <2>2
<1> QED BY <1>5, <1>6, Zenon DEF NodeInv, StoreOK, ProdOK, CountersOK, ReceiveFork, chainVars

(* A store cut above genesis keeps its shape. *)
LEMMA CutStore ==
  ASSUME StoreOK, NEW n \in Nat \ {0}, store' = {b \in store : HeightOf(b) < n}, head' = head
  PROVE  StoreOK'
BY HeightFacts DEF StoreOK

(* A truncation keeps genesis. *)
LEMMA TruncateInv ==
  ASSUME NodeInv, NEW w \in Workers, NEW ok \in BOOLEAN, TruncateForFork(w, ok)
  PROVE  NodeInv'
<1>1. job[w].pc = "truncate" /\ job[w].from \in Nat \ {0} /\ job[w].ours \in Root
  BY DEF NodeInv, JobOK, TruncateForFork
<1>2. JobOK'
  BY <1>1, ImportedJob DEF NodeInv, TruncateForFork
<1>3. StoreOK'
  <2>1. CASE ok
    <3>1. PICK n \in Nat \ {0} : n = job[w].from
      BY <1>1
    <3>2. store' = {b \in store : HeightOf(b) < n} /\ head' = head
      BY <2>1, <3>1 DEF TruncateForFork
    <3> QED BY <3>2, CutStore DEF NodeInv
  <2>2. CASE ~ok
    BY <2>2 DEF NodeInv, StoreOK, TruncateForFork
  <2> QED BY <2>1, <2>2
<1>4. ForksOK' /\ trusted' \in BOOLEAN
  <2>1. CASE ok
    <3>1. PICK n \in Nat, r \in Root : n = job[w].from /\ r = job[w].ours
      BY <1>1
    <3>2. forks' = [forks EXCEPT !.abandoned[n] = r] /\ trusted' \in {trusted, FALSE}
      BY <2>1, <3>1, Zenon DEF TruncateForFork
    <3> QED BY <3>2, Zenon DEF NodeInv, ForksOK, CountersOK
  <2>2. CASE ~ok
    BY <2>2 DEF NodeInv, ForksOK, CountersOK, TruncateForFork
  <2> QED BY <2>1, <2>2
<1> QED BY <1>2, <1>3, <1>4 DEF NodeInv, ProdOK, CountersOK, TruncateForFork

(* PutBlockWithIndex keeps one block per height. *)
LEMMA PutInv ==
  ASSUME NodeInv, NEW w \in Workers, PutBlock(w)
  PROVE  NodeInv'
<1>1. PICK b \in Blocks : b = job[w].blk
  BY DEF NodeInv, JobOK
<1>2. /\ job[w].pc = "put"
      /\ \/ store' = store /\ Done(w) /\ forks' = forks
         \/ /\ Stored(HeightOf(b)) \ {b} = {} /\ store' = store \cup {b}
            /\ \/ GoTo(w, "apply") /\ forks' = forks
               \/ Imported(w) /\ forks' = ClearForkAcceptedBelow(HeightOf(b))
  BY <1>1, Zenon DEF PutBlock
<1>3. JobOK'
  <2>1. "apply" \in JobSteps \ {"truncate"}
    BY DEF JobSteps
  <2> QED BY <1>2, <2>1, GoToJob, DoneJob, ImportedJob DEF NodeInv
<1>4. ForksOK'
  BY <1>2, ClearedForks, HeightFacts DEF NodeInv, ForksOK
<1>5. StoreOK'
  <2>1. head' = head
    BY DEF PutBlock
  <2> QED BY <1>2, <2>1 DEF NodeInv, StoreOK, Stored
<1>6. ProdOK' /\ CountersOK'
  BY DEF NodeInv, ProdOK, CountersOK, PutBlock
<1> QED BY <1>3, <1>4, <1>5, <1>6 DEF NodeInv

(* Applying a block moves the clock's epoch only to an epoch of the run. *)
LEMMA ApplyInv ==
  ASSUME NodeInv, NEW w \in Workers, ApplyBlock(w)
  PROVE  NodeInv'
<1>1. PICK b \in Blocks : b = job[w].blk
  BY DEF NodeInv, JobOK
<1>2. /\ job[w].pc = "apply"
      /\ lastEpoch' \in {EpochOf(b), lastEpoch}
      /\ \/ Imported(w) /\ forks' = ClearForkAcceptedBelow(HeightOf(b))
         \/ Done(w) /\ forks' = forks
  BY <1>1, Zenon DEF ApplyBlock
<1>3. JobOK'
  BY <1>2, DoneJob, ImportedJob DEF NodeInv
<1>4. ForksOK'
  BY <1>2, ClearedForks, HeightFacts DEF NodeInv, ForksOK
<1>5. CountersOK'
  <2>1. EpochOf(b) \in Epochs
    BY HeaderFacts
  <2>2. UNCHANGED <<operator, trusted, backfilled, restarts>>
    BY DEF ApplyBlock
  <2> QED BY <1>2, <2>1, <2>2 DEF NodeInv, CountersOK
<1>6. StoreOK' /\ ProdOK'
  BY DEF NodeInv, StoreOK, ProdOK, ApplyBlock, chainVars
<1> QED BY <1>3, <1>4, <1>5, <1>6 DEF NodeInv

(* Fork choice points the head at the imported block or leaves it. *)
LEMMA DecideInv ==
  ASSUME NodeInv, NEW w \in Workers, NEW ok \in BOOLEAN, DecideHead(w, ok)
  PROVE  NodeInv'
<1>1. job[w].pc = "decide" /\ job[w].blk \in Blocks
  BY DEF NodeInv, JobOK, DecideHead
<1>2. \/ head' = job[w].blk /\ GoTo(w, "slot")
      \/ head' = head /\ Done(w)
  BY Zenon DEF DecideHead, CommitHeadSwitch
<1>3. JobOK'
  <2>1. "slot" \in JobSteps \ {"truncate"}
    BY DEF JobSteps
  <2> QED BY <1>1, <1>2, <2>1, GoToJob, DoneJob DEF NodeInv
<1>4. StoreOK'
  <2>1. store' = store
    BY DEF DecideHead
  <2>2. StoreOK
    BY DEF NodeInv
  <2>3. head' \in Blocks
    BY <1>1, <1>2, <2>2 DEF StoreOK
  <2> QED BY <2>1, <2>2, <2>3 DEF StoreOK
<1>5. ProdOK' /\ ForksOK' /\ CountersOK'
  BY DEF NodeInv, ProdOK, ForksOK, CountersOK, DecideHead, memory
<1> QED BY <1>3, <1>4, <1>5 DEF NodeInv

(* The four writes of an import leave everything but the engine and the step alone. *)
LEMMA WritesInv ==
  ASSUME NodeInv, NEW w \in Workers, NEW ok \in BOOLEAN,
         \/ WriteSlotRoot(w, ok) \/ AdoptFinality(w, ok) \/ WriteEpochRoot(w, ok) \/ EnsureEpochState(w, ok)
  PROVE  NodeInv'
<1>1. /\ job[w].pc # "idle"
      /\ GoTo(w, "adopt") \/ GoTo(w, "epoch") \/ GoTo(w, "ensure") \/ Done(w)
      /\ UNCHANGED <<chainVars, prod, operator, memory, restarts>>
  BY Zenon DEF WriteSlotRoot, AdoptFinality, WriteEpochRoot, EnsureEpochState
<1>2. JobOK'
  <2>1. {"adopt", "epoch", "ensure"} \subseteq JobSteps \ {"truncate"}
    BY DEF JobSteps
  <2> QED BY <1>1, <2>1, GoToJob, DoneJob DEF NodeInv
<1>3. StoreOK' /\ ProdOK'
  BY <1>1 DEF NodeInv, StoreOK, ProdOK, chainVars
<1>4. ForksOK' /\ CountersOK'
  BY <1>1 DEF NodeInv, ForksOK, CountersOK, memory
<1> QED BY <1>2, <1>3, <1>4 DEF NodeInv

(* An idle producer has its types. *)
LEMMA NoBuildOK == NoBuild \in [pc : ProdSteps, blk : Blocks] /\ NoBuild.pc = "idle"
BY ConstantsAssumption DEF NoBuild, ProdSteps

(* The producer builds on its head, so never genesis. *)
LEMMA BuildInv ==
  ASSUME NodeInv, NEW b \in OwnBlocks, BuildBlock(b)
  PROVE  NodeInv'
<1>1. b \in Blocks /\ b # Genesis
  BY NodeConstantsAssumption, ConstantsAssumption, TreeAssumption DEF BuildBlock, NodeInv, StoreOK, ParentOf
<1>2. ProdOK'
  BY <1>1 DEF BuildBlock, ProdOK, ProdSteps
<1> QED BY <1>2 DEF NodeInv, StoreOK, JobOK, ForksOK, CountersOK, BuildBlock, chainVars, memory

(* Committing a produced block moves the head to it or discards it. *)
LEMMA CommitInv ==
  ASSUME NodeInv, NEW ok \in BOOLEAN, CommitProduced(ok)
  PROVE  NodeInv'
<1>1. /\ prod.pc = "built"
      /\ \/ prod' = NoBuild /\ head' = head
         \/ head' = prod.blk /\ prod' = [prod EXCEPT !.pc = IF IsBoundary(SlotOf(prod.blk)) THEN "epoch" ELSE "ensure"]
      /\ trusted' \in {trusted, FALSE}
      /\ UNCHANGED <<store, job, operator, forks, lastEpoch, backfilled, restarts>>
  BY Zenon DEF CommitProduced
<1>2. ProdOK' /\ head' \in Blocks
  BY <1>1, NoBuildOK DEF NodeInv, StoreOK, ProdOK, ProdSteps
<1> QED BY <1>1, <1>2, Zenon DEF NodeInv, StoreOK, JobOK, ForksOK, CountersOK

(* The producer's two writes after the commit touch its step and the engine *)
(* only.                                                                    *)
LEMMA ProducedInv ==
  ASSUME NodeInv, NEW ok \in BOOLEAN, ProducedEpochRoot(ok) \/ ProducedEnsure(ok)
  PROVE  NodeInv'
<1>1. /\ prod.pc # "idle"
      /\ \E pc \in {"ensure", "put"} : prod' = [prod EXCEPT !.pc = pc]
      /\ UNCHANGED <<chainVars, job, operator, memory, restarts>>
  BY DEF ProducedEpochRoot, ProducedEnsure
<1>2. ProdOK'
  BY <1>1 DEF NodeInv, ProdOK, ProdSteps
<1> QED BY <1>1, <1>2 DEF NodeInv, StoreOK, JobOK, ForksOK, CountersOK, chainVars, memory

(* Storing the produced block, or following the block that took its height. *)
LEMMA StoreProducedInv ==
  ASSUME NodeInv, NEW ok \in BOOLEAN, StoreProduced(ok)
  PROVE  NodeInv'
<1>1. PICK b \in Blocks : b = prod.blk
  BY DEF NodeInv, ProdOK
<1>2. /\ lastEpoch' \in {EpochOf(b), lastEpoch}
      /\ IF Stored(HeightOf(b)) \ {b} # {} THEN ReloadConflictHead(b, ok) /\ store' = store
         ELSE store' \in {store, store \cup {b}} /\ UNCHANGED <<head, trusted>>
      /\ prod' = NoBuild
      /\ UNCHANGED <<job, operator, forks, backfilled, restarts>>
  BY <1>1, Zenon DEF StoreProduced
<1>3. StoreOK' /\ trusted' \in BOOLEAN
  <2>1. CASE Stored(HeightOf(b)) \ {b} # {}
    <3> DEFINE canonical == CHOOSE c \in Stored(HeightOf(b)) : TRUE
    <3>1. canonical \in Stored(HeightOf(b))
      BY <2>1, Zenon
    <3>2. head' \in {head, canonical} /\ trusted' \in {trusted, FALSE} /\ store' = store
      BY <1>2, <2>1, Zenon DEF ReloadConflictHead, CommitHeadSwitch
    <3> HIDE DEF canonical
    <3> QED BY <3>1, <3>2, Zenon DEF NodeInv, StoreOK, CountersOK, Stored
  <2>2. CASE Stored(HeightOf(b)) \ {b} = {}
    BY <1>2, <2>2 DEF NodeInv, StoreOK, CountersOK, Stored
  <2> QED BY <2>1, <2>2
<1>4. CountersOK'
  BY <1>2, <1>3, HeaderFacts DEF NodeInv, CountersOK
<1>5. JobOK' /\ ProdOK' /\ ForksOK'
  BY <1>2, NoBuildOK DEF NodeInv, JobOK, ProdOK, ForksOK
<1> QED BY <1>3, <1>4, <1>5 DEF NodeInv

(* The two halves of an operator rollback. *)
LEMMA RollbackInv ==
  ASSUME NodeInv, NEW ok \in BOOLEAN, RollbackStore(ok) \/ \E from \in RollbackHeights : RollbackHead(from, ok)
  PROVE  NodeInv'
<1>1. CASE RollbackStore(ok)
  <2>1. operator \in Nat \ {0}
    BY <1>1, NodeConstantsAssumption DEF NodeInv, CountersOK, RollbackStore
  <2>2. PICK n \in Nat \ {0} : n = operator
    BY <2>1
  <2>3. /\ store' \in {store, {b \in store : HeightOf(b) < n}} /\ head' = head
        /\ trusted' \in {trusted, FALSE} /\ operator' = 0
    BY <1>1, <2>2, Zenon DEF RollbackStore
  <2>4. StoreOK'
    BY <2>3, CutStore DEF NodeInv, StoreOK
  <2> QED BY <1>1, <2>3, <2>4, Zenon DEF NodeInv, JobOK, ProdOK, ForksOK, CountersOK, RollbackStore
<1>2. ASSUME NEW from \in RollbackHeights, RollbackHead(from, ok) PROVE NodeInv'
  <2>1. head' \in Blocks
    BY <1>2 DEF NodeInv, StoreOK, RollbackHead, CommitHeadSwitch, Stored
  <2> QED BY <1>2, <2>1 DEF NodeInv, StoreOK, JobOK, ProdOK, ForksOK, CountersOK, RollbackHead, memory
<1> QED BY <1>1, <1>2

(* Votes, seals and the backfill touch the engine only. *)
LEMMA EngineOnlyInv ==
  ASSUME NodeInv, NEW ok \in BOOLEAN,
         \/ TryUpdateFinality(ok) \/ (\E b \in SealableBlocks : Seal(b, ok))
         \/ \E oldest \in Epochs : Backfill(oldest, ok)
  PROVE  NodeInv'
<1>1. /\ backfilled' \in {backfilled, EpochOf(LatestBlock)}
      /\ UNCHANGED <<chainVars, progress, forks, trusted, lastEpoch, restarts>>
  BY DEF TryUpdateFinality, Seal, Backfill, memory
<1>2. EpochOf(LatestBlock) \in Epochs
  BY LatestInStore, HeaderFacts DEF NodeInv
<1> QED BY <1>1, <1>2 DEF NodeInv, StoreOK, JobOK, ProdOK, ForksOK, CountersOK, chainVars, progress

(* A restart keeps the stored chain from genesis up to the first gap, or *)
(* the whole store.                                                      *)
LEMMA RestartInv ==
  ASSUME NodeInv, NEW reanchor \in BOOLEAN, NEW ok \in BOOLEAN, RestartNode(reanchor, ok)
  PROVE  NodeInv'
<1>1. /\ restarts < MaxRestarts /\ restarts' = restarts + 1
      /\ head' = LatestBlock /\ store' \in {store, Continuous} /\ trusted' \in BOOLEAN
      /\ job' = [w \in Workers |-> Idle] /\ prod' = NoBuild
      /\ operator' = 0 /\ forks' = NoForks /\ lastEpoch' = -1 /\ backfilled' = 0
  BY DEF RestartNode
<1>2. StoreOK'
  <2>1. Genesis \in Continuous /\ Continuous \subseteq store
    BY ChainFacts DEF Continuous, NodeInv, StoreOK
  <2> QED BY <1>1, <2>1, LatestInStore DEF NodeInv, StoreOK
<1>3. JobOK'
  <2>1. Idle \in [pc : JobSteps, blk : Blocks, from : Nat, ours : Root] /\ Idle.pc = "idle"
    BY ConstantsAssumption DEF Idle, JobSteps, Root
  <2> QED BY <1>1, <2>1 DEF JobOK
<1>4. ProdOK' /\ ForksOK'
  BY <1>1, NoBuildOK, NoForksOK DEF ProdOK, ForksOK
<1>5. CountersOK'
  BY <1>1, ZeroInRange, NodeConstantsAssumption DEF NodeInv, CountersOK
<1> QED BY <1>2, <1>3, <1>4, <1>5 DEF NodeInv

(* Every step of the node keeps the invariant. *)
LEMMA StepInv ==
  ASSUME NodeInv, NodeNext
  PROVE  NodeInv'
<1>1. \A ok \in DiskOutcomes : ok \in BOOLEAN
  BY NodeConstantsAssumption
<1>2. CASE \E w \in Workers :
             \/ \E b \in Blocks \ ({Genesis} \cup OwnBlocks) : Receive(w, b) \/ ReceiveFork(w, b)
             \/ PutBlock(w)
             \/ ApplyBlock(w)
  BY <1>2, ReceiveInv, ReceiveForkInv, PutInv, ApplyInv
<1>3. CASE \E w \in Workers, ok \in DiskOutcomes :
             \/ TruncateForFork(w, ok)
             \/ DecideHead(w, ok)
             \/ WriteSlotRoot(w, ok)
             \/ AdoptFinality(w, ok)
             \/ WriteEpochRoot(w, ok)
             \/ EnsureEpochState(w, ok)
  BY <1>1, <1>3, TruncateInv, DecideInv, WritesInv
<1>4. CASE \E b \in OwnBlocks : BuildBlock(b)
  BY <1>4, BuildInv
<1>5. ASSUME NEW ok \in DiskOutcomes,
             \/ CommitProduced(ok)
             \/ ProducedEpochRoot(ok)
             \/ ProducedEnsure(ok)
             \/ StoreProduced(ok)
             \/ \E from \in RollbackHeights : RollbackHead(from, ok)
             \/ RollbackStore(ok)
      PROVE  NodeInv'
  BY <1>1, <1>5, CommitInv, ProducedInv, StoreProducedInv, RollbackInv
<1>6. ASSUME NEW ok \in DiskOutcomes,
             \/ TryUpdateFinality(ok)
             \/ \E b \in SealableBlocks : Seal(b, ok)
             \/ \E oldest \in Epochs : Backfill(oldest, ok)
             \/ \E reanchor \in BOOLEAN : RestartNode(reanchor, ok)
      PROVE  NodeInv'
  BY <1>1, <1>6, EngineOnlyInv, RestartInv
<1> QED BY <1>2, <1>3, <1>4, <1>5, <1>6, Zenon DEF NodeNext

-----------------------------------------------------------------------------
(* Theorems *)

(* Whatever the import goroutines, the producer, the operator and crashes do, *)
(* the store holds genesis and at most one block per height, a goroutine at   *)
(* work holds a block with a parent, and no truncation reaches genesis.       *)
THEOREM NodeInvariance == NodeSpec => []NodeInv
<1>1. NodeInit => NodeInv
  <2>1. Idle \in [pc : JobSteps, blk : Blocks, from : Nat, ours : Root] /\ Idle.pc = "idle"
    BY ConstantsAssumption DEF Idle, JobSteps, Root
  <2> QED BY <2>1, NoBuildOK, NoForksOK, ConstantsAssumption, NodeConstantsAssumption, ZeroInRange
          DEF NodeInit, NodeInv, StoreOK, JobOK, ProdOK, ForksOK, CountersOK
<1>2. NodeInv /\ UNCHANGED vars => NodeInv'
  BY DEF NodeInv, StoreOK, JobOK, ProdOK, ForksOK, CountersOK, vars, chainVars, progress, memory
<1>3. NodeInv /\ [NodeNext]_vars => NodeInv'
  BY <1>2, StepInv
<1> QED BY <1>1, <1>3, PTL DEF NodeSpec

(* The node implements the finality engine's specification: every step of     *)
(* ProcessBlock, of the insert loop, of the producer, of a rollback and of a  *)
(* restart is one call the engine's specification allows, with arguments it   *)
(* allows, or leaves the engine alone.                                        *)
THEOREM NodeDrivesEngine == NodeSpec => DrivesEngine
<1>1. NodeInit => Init
  BY DEF NodeInit
<1>2. NodeInv /\ UNCHANGED vars => qpos' = qpos
  BY DEF vars
<1>3. NodeInv /\ [NodeNext]_vars => [Next]_qpos
  BY <1>2, StepDrives
<1> QED BY <1>1, <1>3, NodeInvariance, PTL DEF NodeSpec, DrivesEngine, Spec

(* The state of the node has its types: what the engine contributes comes     *)
(* from the engine's own invariant, through the refinement.                   *)
THEOREM NodeTypeCorrect == NodeSpec => []NodeTypeOK
<1>1. NodeInv /\ IInv(qpos) => NodeTypeOK
  BY DEF NodeInv, StoreOK, JobOK, ProdOK, ForksOK, CountersOK, NodeTypeOK, IInv
<1>2. NodeSpec => Spec
  BY NodeDrivesEngine DEF DrivesEngine
<1> QED BY <1>1, <1>2, NodeInvariance, Invariance, PTL

(* What is proved of the engine holds of the engine the node drives: after a  *)
(* crash at any point of an import, of a production or of a rollback the      *)
(* durable record can be restored, durable finality is never revoked, and the *)
(* roots of the two checkpoints are never lost.                               *)
THEOREM NodeKeepsFinality ==
  NodeSpec => []DurableRecordRestorable /\ DurableFinalityIrrevocable /\ CheckpointRootsKept
<1>1. NodeSpec => Spec
  BY NodeDrivesEngine DEF DrivesEngine
<1> QED BY <1>1, RestartPossible, DurableIrrevocable, RootsKept, PTL

-----------------------------------------------------------------------------
(* The store and the head of a node on its own chain *)

(* No fork is accepted below the head, no operator rolls back, no write fails. *)
Undisturbed == ForkPoints = {} /\ RollbackHeights = {} /\ DiskOutcomes = {TRUE}

StoreClosed == \A b \in store \ {Genesis} : ParentOf(b) \in store

Later == {"apply", "decide", "slot", "adopt", "epoch", "ensure"}

(* A goroutine that validated a block found its parent in the store; past the *)
(* put the block itself is there.                                             *)
JobsBacked ==
  \A w \in Workers : /\ job[w].pc # "truncate"
                     /\ job[w].pc = "put" => ParentOf(job[w].blk) \in store
                     /\ job[w].pc \in Later => job[w].blk \in store

ProdBacked == prod.pc # "idle" => ParentOf(prod.blk) \in store

(* The head is stored, or it is the block the producer is about to store. *)
HeadOK == trusted => head \in store \/ (head = prod.blk /\ prod.pc \in {"epoch", "ensure", "put"})

Backed == StoreClosed /\ JobsBacked /\ ProdBacked /\ HeadOK /\ operator = 0

(* A growing store backs the goroutines that do not move. *)
LEMMA SameJobs ==
  ASSUME JobsBacked, store \subseteq store', job' = job
  PROVE  JobsBacked'
BY DEF JobsBacked

(* A goroutine whose block is stored may go on to any later step. *)
LEMMA MovedJob ==
  ASSUME JobOK, JobsBacked, NEW w \in Workers, store \subseteq store', job[w].blk \in store',
         Imported(w) \/ Done(w) \/ \E pc \in Later : GoTo(w, pc)
  PROVE  JobsBacked'
<1>1. Idle.pc = "idle"
  BY DEF Idle
<1>2. \/ job' = [job EXCEPT ![w] = Idle]
      \/ \E pc \in Later : job' = [job EXCEPT ![w].pc = pc]
  BY DEF Imported, Done, GoTo, Later
<1>3. CASE job' = [job EXCEPT ![w] = Idle]
  BY <1>1, <1>3 DEF JobOK, JobsBacked, Later
<1>4. ASSUME NEW pc \in Later, job' = [job EXCEPT ![w].pc = pc] PROVE JobsBacked'
  <2>1. job'[w].pc = pc /\ job'[w].blk = job[w].blk /\ \A v \in Workers \ {w} : job'[v] = job[v]
    BY <1>4 DEF JobOK
  <2>2. pc # "truncate" /\ pc # "put"
    BY DEF Later
  <2> QED BY <2>1, <2>2 DEF JobsBacked
<1> QED BY <1>2, <1>3, <1>4

(* Receiving a block whose parent is stored. *)
LEMMA ReceiveBacked ==
  ASSUME Undisturbed, NodeInv, Backed, NEW w \in Workers, NEW b \in Blocks \ {Genesis}, Receive(w, b)
  PROVE  Backed' /\ store \subseteq store'
<1>1. /\ UNCHANGED <<store, head, prod, operator, trusted>>
      /\ \/ b \in store /\ job' = [job EXCEPT ![w] = [Idle EXCEPT !.pc = "decide", !.blk = b]]
         \/ ParentOf(b) \in store /\ job' = [job EXCEPT ![w] = [Idle EXCEPT !.pc = "put", !.blk = b]]
  BY Zenon DEF Receive, chainVars, memory
<1>2. JobsBacked'
  <2>1. \/ b \in store /\ job'[w].pc = "decide" /\ job'[w].blk = b
        \/ ParentOf(b) \in store /\ job'[w].pc = "put" /\ job'[w].blk = b
    BY <1>1, Zenon DEF NodeInv, JobOK, Idle
  <2>2. \A v \in Workers \ {w} : job'[v] = job[v]
    BY <1>1 DEF NodeInv, JobOK
  <2>3. store' = store /\ "put" \notin Later
    BY <1>1 DEF Later
  <2> QED BY <2>1, <2>2, <2>3 DEF Backed, JobsBacked
<1> QED BY <1>1, <1>2 DEF Backed, StoreClosed, ProdBacked, HeadOK

(* Without a fork height a block on a fork opens no truncation. *)
LEMMA ReceiveForkBacked ==
  ASSUME Undisturbed, NodeInv, Backed, NEW w \in Workers, NEW b \in Blocks \ {Genesis}, ReceiveFork(w, b)
  PROVE  Backed' /\ store \subseteq store'
<1>1. ForkRollbackPoints(HeightOf(b) - 1) = {}
  BY DEF ForkRollbackPoints, Undisturbed
<1>2. job' = job
  BY <1>1, Zenon DEF ReceiveFork
<1>3. UNCHANGED <<store, head, prod, operator, trusted>>
  BY Zenon DEF ReceiveFork, chainVars
<1>4. JobsBacked'
  BY <1>2, <1>3, SameJobs DEF Backed
<1> QED BY <1>3, <1>4 DEF Backed, StoreClosed, ProdBacked, HeadOK

(* Putting a block above its stored parent. *)
LEMMA PutBacked ==
  ASSUME Undisturbed, NodeInv, Backed, NEW w \in Workers, PutBlock(w)
  PROVE  Backed' /\ store \subseteq store'
<1>1. PICK b \in Blocks : b = job[w].blk
  BY DEF NodeInv, JobOK
<1>2. /\ job[w].pc = "put"
      /\ \/ store' = store /\ Done(w)
         \/ store' = store \cup {b} /\ (GoTo(w, "apply") \/ Imported(w))
      /\ UNCHANGED <<head, prod, operator, trusted>>
  BY <1>1, Zenon DEF PutBlock
<1>3. ParentOf(b) \in store
  BY <1>1, <1>2 DEF Backed, JobsBacked
<1>4. JobsBacked'
  <2>1. CASE store' = store /\ Done(w)
    BY <2>1 DEF Done, Idle, Backed, JobsBacked, NodeInv, JobOK, Later
  <2>2. CASE store' = store \cup {b} /\ (GoTo(w, "apply") \/ Imported(w))
    <3>1. "apply" \in Later
      BY DEF Later
    <3> QED BY <1>1, <2>2, <3>1, MovedJob DEF Backed, NodeInv
  <2> QED BY <1>2, <2>1, <2>2
<1> QED BY <1>2, <1>3, <1>4 DEF Backed, StoreClosed, ProdBacked, HeadOK

(* Applying a stored block. *)
LEMMA ApplyBacked ==
  ASSUME Undisturbed, NodeInv, Backed, NEW w \in Workers, ApplyBlock(w)
  PROVE  Backed' /\ store \subseteq store'
<1>1. job[w].pc = "apply" /\ (Imported(w) \/ Done(w)) /\ UNCHANGED <<store, head, prod, operator, trusted>>
  BY Zenon DEF ApplyBlock, chainVars
<1>2. job[w].blk \in store
  BY <1>1 DEF Backed, JobsBacked, Later
<1>3. JobsBacked'
  BY <1>1, <1>2, MovedJob, Zenon DEF Backed, NodeInv
<1> QED BY <1>1, <1>3 DEF Backed, StoreClosed, ProdBacked, HeadOK

(* Fork choice moves the head to a stored block. *)
LEMMA DecideBacked ==
  ASSUME Undisturbed, NodeInv, Backed, NEW w \in Workers, NEW ok \in DiskOutcomes, DecideHead(w, ok)
  PROVE  Backed' /\ store \subseteq store'
<1>1. job[w].pc = "decide" /\ UNCHANGED <<store, prod, operator, trusted>>
  BY Zenon DEF DecideHead, memory
<1>2. \/ head' = job[w].blk /\ GoTo(w, "slot")
      \/ head' = head /\ Done(w)
  BY Zenon DEF DecideHead, CommitHeadSwitch
<1>3. job[w].blk \in store /\ "slot" \in Later
  BY <1>1, Zenon DEF Backed, JobsBacked, Later
<1>4. JobsBacked'
  BY <1>1, <1>2, <1>3, MovedJob, Zenon DEF Backed, NodeInv
<1> QED BY <1>1, <1>2, <1>3, <1>4 DEF Backed, StoreClosed, ProdBacked, HeadOK

(* The writes that follow fork choice. *)
LEMMA WritesBacked ==
  ASSUME Undisturbed, NodeInv, Backed, NEW w \in Workers, NEW ok \in DiskOutcomes,
         WriteSlotRoot(w, ok) \/ AdoptFinality(w, ok) \/ WriteEpochRoot(w, ok) \/ EnsureEpochState(w, ok)
  PROVE  Backed' /\ store \subseteq store'
<1>1. /\ job[w].pc \in Later
      /\ GoTo(w, "adopt") \/ GoTo(w, "epoch") \/ GoTo(w, "ensure") \/ Done(w)
      /\ UNCHANGED <<store, head, prod, operator, trusted>>
  BY Zenon DEF WriteSlotRoot, AdoptFinality, WriteEpochRoot, EnsureEpochState, chainVars, memory, Later
<1>2. job[w].blk \in store /\ {"adopt", "epoch", "ensure"} \subseteq Later
  BY <1>1, Zenon DEF Backed, JobsBacked, Later
<1>3. JobsBacked'
  BY <1>1, <1>2, MovedJob, Zenon DEF Backed, NodeInv
<1> QED BY <1>1, <1>3 DEF Backed, StoreClosed, ProdBacked, HeadOK

(* The producer builds on a stored head. *)
LEMMA BuildBacked ==
  ASSUME Undisturbed, NodeInv, Backed, NEW b \in OwnBlocks, BuildBlock(b)
  PROVE  Backed' /\ store \subseteq store'
<1>1. /\ UNCHANGED <<store, head, job, operator, trusted>>
      /\ trusted /\ prod.pc = "idle" /\ ParentOf(b) = head /\ prod'.pc = "built" /\ prod'.blk = b
  BY DEF BuildBlock, chainVars, memory
<1>2. head \in store
  BY <1>1 DEF Backed, HeadOK
<1>3. JobsBacked'
  BY <1>1, SameJobs DEF Backed
<1> QED BY <1>1, <1>2, <1>3, Zenon DEF Backed, StoreClosed, ProdBacked, HeadOK

(* Committing a produced block. *)
LEMMA CommitBacked ==
  ASSUME Undisturbed, NodeInv, Backed, NEW ok \in DiskOutcomes, CommitProduced(ok)
  PROVE  Backed' /\ store \subseteq store'
<1>1. /\ prod.pc = "built"
      /\ \/ prod'.pc = "idle" /\ head' = head /\ trusted' \in {trusted, FALSE}
         \/ /\ head' = prod.blk /\ trusted' = trusted
            /\ prod'.pc \in {"epoch", "ensure"} /\ prod'.blk = prod.blk
      /\ UNCHANGED <<store, job, operator>>
  <2>1. /\ prod.pc = "built"
        /\ \/ prod' = NoBuild /\ head' = head /\ trusted' \in {trusted, FALSE}
           \/ /\ head' = prod.blk /\ trusted' = trusted
              /\ \E pc \in {"epoch", "ensure"} : prod' = [prod EXCEPT !.pc = pc]
        /\ UNCHANGED <<store, job, operator>>
    BY Zenon DEF CommitProduced
  <2>2. NoBuild.pc = "idle" /\ prod \in [pc : ProdSteps, blk : Blocks]
    BY DEF NoBuild, NodeInv, ProdOK
  <2> QED BY <2>1, <2>2, Zenon
<1>2. JobsBacked'
  BY <1>1, SameJobs DEF Backed
<1>3. StoreClosed' /\ operator' = 0 /\ store \subseteq store'
  BY <1>1 DEF Backed, StoreClosed
<1>4. ProdBacked'
  BY <1>1, Zenon DEF Backed, ProdBacked
<1>5. HeadOK'
  BY <1>1, Zenon DEF Backed, HeadOK
<1> QED BY <1>2, <1>3, <1>4, <1>5 DEF Backed

(* The producer's writes between the commit and the put. *)
LEMMA ProducedBacked ==
  ASSUME Undisturbed, NodeInv, Backed, NEW ok \in DiskOutcomes, ProducedEpochRoot(ok) \/ ProducedEnsure(ok)
  PROVE  Backed' /\ store \subseteq store'
<1>1. /\ prod.pc \in {"epoch", "ensure"} /\ prod'.pc \in {"ensure", "put"} /\ prod'.blk = prod.blk
      /\ UNCHANGED <<store, head, job, operator, trusted>>
  BY DEF ProducedEpochRoot, ProducedEnsure, NodeInv, ProdOK, chainVars, memory
<1>2. JobsBacked'
  BY <1>1, SameJobs DEF Backed
<1> QED BY <1>1, <1>2 DEF Backed, StoreClosed, ProdBacked, HeadOK

(* The produced block is stored, or the head follows the block that took its height. *)
LEMMA StoreProducedBacked ==
  ASSUME Undisturbed, NodeInv, Backed, NEW ok \in DiskOutcomes, StoreProduced(ok)
  PROVE  Backed' /\ store \subseteq store'
<1>1. PICK b \in Blocks : b = prod.blk
  BY DEF NodeInv, ProdOK
<1>2. /\ prod.pc = "put" /\ prod'.pc = "idle" /\ UNCHANGED <<job, operator>>
      /\ IF Stored(HeightOf(b)) \ {b} # {} THEN ReloadConflictHead(b, ok) /\ store' = store
         ELSE store' = (IF ok THEN store \cup {b} ELSE store) /\ UNCHANGED <<head, trusted>>
  BY <1>1 DEF StoreProduced, NoBuild
<1>3. ParentOf(b) \in store /\ (trusted => head \in store \cup {b})
  BY <1>1, <1>2 DEF Backed, ProdBacked, HeadOK
<1>4. StoreClosed' /\ (trusted' => head' \in store') /\ store \subseteq store'
  <2>1. CASE Stored(HeightOf(b)) \ {b} # {}
    <3> DEFINE canonical == CHOOSE c \in Stored(HeightOf(b)) : TRUE
    <3>1. canonical \in store
      BY <2>1, Zenon DEF Stored
    <3>2. /\ store' = store
          /\ \/ head # b /\ head' = head /\ trusted' = trusted
             \/ trusted' = FALSE
             \/ head' = canonical
      BY <1>2, <2>1, Zenon DEF ReloadConflictHead, CommitHeadSwitch
    <3> HIDE DEF canonical
    <3> QED BY <1>3, <3>1, <3>2 DEF Backed, StoreClosed
  <2>2. CASE Stored(HeightOf(b)) \ {b} = {}
    <3>1. ok
      BY DEF Undisturbed
    <3> QED BY <1>2, <1>3, <2>2, <3>1, Zenon DEF Backed, StoreClosed
  <2> QED BY <2>1, <2>2
<1>5. JobsBacked'
  BY <1>2, <1>4, SameJobs DEF Backed
<1> QED BY <1>2, <1>4, <1>5, Zenon DEF Backed, ProdBacked, HeadOK

(* A store closed under parents has no gap for the restart to truncate at. *)
LEMMA NoGap == StoreOK /\ StoreClosed => Continuous = store
<1> SUFFICES ASSUME StoreOK, StoreClosed PROVE Continuous = store
  OBVIOUS
<1>1. PICK S \in SUBSET Blocks : S = store
  BY DEF StoreOK
<1> DEFINE P == {b \in Blocks : b \in S => Chain(b) \subseteq S}
<1>2. Genesis \in P
  BY ChainFacts, ConstantsAssumption
<1>3. ASSUME NEW b \in Blocks \ {Genesis}, ParentOf(b) \in P PROVE b \in P
  BY <1>1, <1>3, ChainFacts DEF StoreClosed
<1>4. Blocks \subseteq P
  <2> HIDE DEF P
  <2> QED BY <1>2, <1>3, FromParents
<1> QED BY <1>1, <1>4 DEF Continuous

(* Votes, seals and the backfill. *)
LEMMA EngineOnlyBacked ==
  ASSUME Undisturbed, NodeInv, Backed, NEW ok \in DiskOutcomes,
         \/ TryUpdateFinality(ok) \/ (\E b \in SealableBlocks : Seal(b, ok))
         \/ \E oldest \in Epochs : Backfill(oldest, ok)
  PROVE  Backed' /\ store \subseteq store'
<1>1. UNCHANGED <<store, head, job, prod, operator, trusted>>
  BY DEF TryUpdateFinality, Seal, Backfill, chainVars, progress, memory
<1>2. JobsBacked'
  BY <1>1, SameJobs DEF Backed
<1> QED BY <1>1, <1>2 DEF Backed, StoreClosed, ProdBacked, HeadOK

(* A restart finds no gap to truncate at. *)
LEMMA RestartBacked ==
  ASSUME Undisturbed, NodeInv, Backed, NEW ok \in DiskOutcomes,
         NEW reanchor \in BOOLEAN, RestartNode(reanchor, ok)
  PROVE  Backed' /\ store \subseteq store'
<1>1. Continuous = store
  BY NoGap DEF NodeInv, Backed
<1>2. /\ head' = LatestBlock /\ store' = store /\ operator' = 0
      /\ prod'.pc = "idle" /\ \A w \in Workers : job'[w].pc = "idle"
  BY <1>1 DEF RestartNode, NoBuild, Idle
<1>3. LatestBlock \in store
  BY LatestInStore DEF NodeInv
<1> QED BY <1>2, <1>3, Zenon DEF Backed, StoreClosed, JobsBacked, ProdBacked, HeadOK, Later

(* Every step of an undisturbed node keeps its blocks backed, and its store *)
(* only grows.                                                              *)
LEMMA StepBacked ==
  ASSUME Undisturbed, NodeInv, Backed, NodeNext
  PROVE  Backed' /\ store \subseteq store'
<1>1. CASE \E w \in Workers :
             \/ \E b \in Blocks \ ({Genesis} \cup OwnBlocks) : Receive(w, b) \/ ReceiveFork(w, b)
             \/ PutBlock(w)
             \/ ApplyBlock(w)
  BY <1>1, ReceiveBacked, ReceiveForkBacked, PutBacked, ApplyBacked
<1>2. CASE \E w \in Workers, ok \in DiskOutcomes :
             \/ TruncateForFork(w, ok) \/ DecideHead(w, ok) \/ WriteSlotRoot(w, ok) \/ AdoptFinality(w, ok)
             \/ WriteEpochRoot(w, ok) \/ EnsureEpochState(w, ok)
  <2>1. \A w \in Workers, ok \in DiskOutcomes : ~TruncateForFork(w, ok)
    BY Zenon DEF TruncateForFork, Backed, JobsBacked
  <2> QED BY <1>2, <2>1, DecideBacked, WritesBacked
<1>3. CASE \E b \in OwnBlocks : BuildBlock(b)
  BY <1>3, BuildBacked
<1>4. ASSUME NEW ok \in DiskOutcomes,
             CommitProduced(ok) \/ ProducedEpochRoot(ok) \/ ProducedEnsure(ok) \/ StoreProduced(ok)
      PROVE  Backed' /\ store \subseteq store'
  BY <1>4, CommitBacked, ProducedBacked, StoreProducedBacked
<1>5. ASSUME NEW ok \in DiskOutcomes,
             (\E from \in RollbackHeights : RollbackHead(from, ok)) \/ RollbackStore(ok)
      PROVE  FALSE
  BY <1>5 DEF Undisturbed, Backed, RollbackStore
<1>6. ASSUME NEW ok \in DiskOutcomes,
             \/ TryUpdateFinality(ok)
             \/ \E b \in SealableBlocks : Seal(b, ok)
             \/ \E oldest \in Epochs : Backfill(oldest, ok)
             \/ \E reanchor \in BOOLEAN : RestartNode(reanchor, ok)
      PROVE  Backed' /\ store \subseteq store'
  BY <1>6, EngineOnlyBacked, RestartBacked
<1> QED BY <1>1, <1>2, <1>3, <1>4, <1>5, <1>6, Zenon DEF NodeNext

(* Every block an undisturbed node stores, imports, produces or stands on *)
(* has its parent in the store.                                           *)
THEOREM BackedInvariance ==
  ASSUME Undisturbed
  PROVE  NodeSpec => []Backed
<1>1. NodeInit => Backed
  BY DEF NodeInit, Backed, StoreClosed, JobsBacked, ProdBacked, HeadOK, Idle, NoBuild, Later
<1>2. Backed /\ UNCHANGED vars => Backed'
  BY DEF Backed, StoreClosed, JobsBacked, ProdBacked, HeadOK, vars, chainVars, progress, memory
<1>3. NodeInv /\ Backed /\ [NodeNext]_vars => Backed'
  BY <1>2, StepBacked
<1> QED BY <1>1, <1>3, NodeInvariance, PTL DEF NodeSpec

(* A node that accepts no fork, is not rolled back by its operator and whose  *)
(* writes succeed never stands on a block it has not stored once its          *)
(* producer is idle, as long as it trusts its state: not when an import takes *)
(* the height of a block it is producing (the conflict reload), not after a   *)
(* crash between moving the head and storing the block.                       *)
THEOREM HeadStored ==
  ASSUME Undisturbed
  PROVE  NodeSpec => []HeadBacked
<1>1. Backed => HeadBacked
  BY DEF Backed, HeadOK, HeadBacked, Quiet
<1> QED BY <1>1, BackedInvariance, PTL

(* The store of that node never loses a block, at a restart neither: every    *)
(* stored block has its parent in the store, so truncateFragmentedChain finds *)
(* no gap.  A finalized block it holds is therefore kept.                     *)
THEOREM StoreKept ==
  ASSUME Undisturbed
  PROVE  NodeSpec => [][store \subseteq store']_vars /\ FinalizedBlockKept
<1>1. NodeInv /\ Backed /\ [NodeNext]_vars =>
        /\ [store \subseteq store']_vars
        /\ [HasFinalizedBlock /\ qpos.finalized.root \in store => qpos.finalized.root \in store']_vars
  BY StepBacked
<1> QED BY <1>1, NodeInvariance, BackedInvariance, PTL DEF NodeSpec, FinalizedBlockKept

-----------------------------------------------------------------------------
(* The roots an undisturbed node has recorded *)

(* The recorded slot roots are blocks of S at their own slots, the recorded *)
(* epoch roots and the durable checkpoints blocks of S.                     *)
SlotsIn(q, S) ==
  \A s \in Slots : q.slotBlockRoots[s] # NoRoot =>
    SlotOf(q.slotBlockRoots[s]) = s /\ q.slotBlockRoots[s] \in S

EpochsIn(q, S) == \A e \in Epochs : q.epochBlockRoots[e] \in {NoRoot} \cup S

DiskIn(q, S) == \A c \in {q.disk.justified, q.disk.finalized} : c.epoch > 0 => c.root \in S

SlotRootsBacked == SlotsIn(qpos, store \cup {head})

CheckpointsStored == EpochsIn(qpos, store) /\ DiskIn(qpos, store)

(* No block this node produces lies on the first slot of an epoch. *)
OwnInsideEpochs == \A b \in OwnBlocks : ~IsBoundary(SlotOf(b))

(* A head switch finds the ancestor the two branches share within the reach *)
(* of planSlotReanchor; a restart rebuilds the roots instead.               *)
ReachesAncestor ==
  \/ head' = head \/ restarts' # restarts
  \/ Walk(store, head', MaxReorgDepth) \cap Walk(store, head, MaxReorgDepth) # {}

RootStep ==
  /\ SlotRootsBacked /\ ReachesAncestor => SlotRootsBacked'
  /\ CheckpointsStored /\ OwnInsideEpochs => EpochsIn(qpos, store)'

(* Roots drawn from stored blocks, by a step that leaves the old head stored *)
(* or the head.                                                              *)
LEMMA SlotsDrawn ==
  ASSUME SlotRootsBacked, NEW S, NEW E, RootsFrom(qpos, qpos', S, E), store \subseteq store',
         head \in store' \cup {head'}, S \subseteq store' \cup {head'}
  PROVE  SlotRootsBacked'
<1>1. \A s \in Slots : qpos'.slotBlockRoots[s] \in {NoRoot, qpos.slotBlockRoots[s]} \cup {b \in S : SlotOf(b) = s}
  BY DEF RootsFrom
<1> QED BY <1>1 DEF SlotRootsBacked, SlotsIn

(* The same of the epoch roots. *)
LEMMA EpochsDrawn ==
  ASSUME CheckpointsStored, NEW S, NEW E, RootsFrom(qpos, qpos', S, E), store \subseteq store',
         E \subseteq store' \cup {NoRoot}
  PROVE  EpochsIn(qpos, store)'
<1>1. \A e \in Epochs : qpos'.epochBlockRoots[e] \in {NoRoot, qpos.epochBlockRoots[e]} \cup E
  BY DEF RootsFrom
<1> QED BY <1>1 DEF CheckpointsStored, EpochsIn

(* A step that draws its slot roots from S and its epoch roots from E. *)
LEMMA RootsDrawn ==
  ASSUME NEW S, NEW E, RootsFrom(qpos, qpos', S, E), store \subseteq store',
         head \in store' \cup {head'}, S \subseteq store' \cup {head'}, E \subseteq store' \cup {NoRoot}
  PROVE  RootStep
BY SlotsDrawn, EpochsDrawn DEF RootStep

(* A call that leaves the roots alone, and no call at all. *)
LEMMA RootsSame ==
  ASSUME SameRoots(qpos', qpos) \/ qpos' = qpos, store \subseteq store', head \in store' \cup {head'}
  PROVE  RootStep
<1>1. RootsFrom(qpos, qpos', {}, {})
  BY DEF SameRoots, RootsFrom
<1> QED BY <1>1, RootsDrawn

(* With a block its whole chain is stored. *)
LEMMA ChainStored ==
  ASSUME StoreOK, StoreClosed, NEW b \in store
  PROVE  Chain(b) \subseteq store
BY NoGap DEF Continuous

(* A chain has a block at each height below its tip's. *)
LEMMA ChainHeights == \A b \in Blocks : \A n \in 0 .. HeightOf(b) : \E a \in Chain(b) : HeightOf(a) = n
<1> DEFINE P == {b \in Blocks : \A n \in 0 .. HeightOf(b) : \E a \in Chain(b) : HeightOf(a) = n}
<1>1. Genesis \in P
  BY HeightFacts, ChainFacts, ConstantsAssumption
<1>2. ASSUME NEW b \in Blocks \ {Genesis}, ParentOf(b) \in P PROVE b \in P
  <2>1. /\ HeightOf(b) = HeightOf(ParentOf(b)) + 1 /\ HeightOf(ParentOf(b)) \in Nat
        /\ Chain(b) = {b} \cup Chain(ParentOf(b))
    BY HeightFacts, ChainFacts
  <2>2. \A n \in 0 .. HeightOf(b) : n = HeightOf(b) \/ n \in 0 .. HeightOf(ParentOf(b))
    BY <2>1
  <2> QED BY <1>2, <2>1, <2>2
<1>3. Blocks \subseteq P
  <2> HIDE DEF P
  <2> QED BY <1>1, <1>2, FromParents
<1> QED BY <1>3

(* A store that is closed under parents and has one block per height is one chain. *)
LEMMA StoreIsChain ==
  ASSUME StoreOK, StoreClosed, NEW b \in store, NEW c \in store
  PROVE  b \in Chain(c) \/ c \in Chain(b)
<1>1. ASSUME NEW x \in store, NEW y \in store, HeightOf(x) <= HeightOf(y) PROVE x \in Chain(y)
  <2>1. x \in Blocks /\ y \in Blocks /\ HeightOf(x) \in 0 .. HeightOf(y)
    BY <1>1, HeightFacts DEF StoreOK
  <2>2. PICK a \in Chain(y) : HeightOf(a) = HeightOf(x)
    BY <2>1, ChainHeights
  <2>3. a \in store
    BY <2>2, ChainStored
  <2> QED BY <2>2, <2>3 DEF StoreOK
<1>2. HeightOf(b) <= HeightOf(c) \/ HeightOf(c) <= HeightOf(b)
  BY HeightFacts DEF StoreOK
<1> QED BY <1>1, <1>2

(* The root an epoch gets from stored blocks is a stored block. *)
LEMMA SegmentStored ==
  ASSUME StoreOK, StoreClosed, NEW S \in SUBSET store, NEW e
  PROVE  EpochRootFrom(S, e) \in store \cup {NoRoot}
<1> DEFINE inEpoch == {b \in S : EpochOf(b) = e}
<1>1. inEpoch \in SUBSET Blocks /\ inEpoch \subseteq store
  BY DEF StoreOK
<1>2. CASE inEpoch = {}
  BY <1>2 DEF EpochRootFrom
<1>3. CASE inEpoch # {}
  <2>1. Lowest(inEpoch) \in store
    BY <1>1, <1>3, LowestInSet
  <2> HIDE DEF inEpoch
  <2>2. ParentOf(Lowest(inEpoch)) \in store \cup {NoRoot}
    BY <2>1, TreeAssumption DEF StoreClosed, ParentOf
  <2>3. EpochRootFrom(S, e) \in {NoRoot, Lowest(inEpoch), ParentOf(Lowest(inEpoch))}
    BY DEF EpochRootFrom, inEpoch
  <2> QED BY <2>1, <2>2, <2>3
<1> QED BY <1>2, <1>3

(* The plan of a switch to a stored block consists of stored blocks. *)
LEMMA PlanStored ==
  ASSUME StoreOK, StoreClosed, NEW c \in store, NEW plan \in ReanchorPlans(c)
  PROVE  /\ plan.segment \subseteq store
         /\ {plan.ancestor} \cup {EpochRootFrom(plan.segment, e) : e \in Epochs} \subseteq store \cup {NoRoot}
<1>1. plan.segment \subseteq Chain(c) /\ plan.ancestor \in Chain(c) \cup {NoRoot}
  BY DEF ReanchorPlans, PlanAbove, PlanUnrooted
<1>2. plan.segment \in SUBSET store /\ plan.ancestor \in store \cup {NoRoot}
  BY <1>1, ChainStored
<1>3. \A e \in Epochs : EpochRootFrom(plan.segment, e) \in store \cup {NoRoot}
  BY <1>2, SegmentStored
<1> QED BY <1>2, <1>3

(***************************************************************************)
(* The replaced head was never stored, the new one is: their common        *)
(* ancestor is below the replaced head, whose slot is therefore cleaned.   *)
(***************************************************************************)
LEMMA ReplacedSlotCleaned ==
  ASSUME StoreOK, StoreClosed, NEW c \in store, head \notin store,
         Walk(store, c, MaxReorgDepth) \cap Walk(store, head, MaxReorgDepth) # {},
         NEW plan, plan = SwitchPlan(c, NoRoot)
  PROVE  HasCleanRange(plan) /\ SlotOf(head) \in CleanMin(plan) .. CleanMax(plan)
<1> DEFINE new    == Walk(store, c, MaxReorgDepth)
           common == new \cap Walk(store, head, MaxReorgDepth)
           anc    == Highest(common)
           seg    == {b \in new : SlotOf(b) > SlotOf(anc)}
<1>1. c \in Blocks /\ head \in Blocks /\ store \subseteq Blocks
  BY DEF StoreOK
<1>2. common \subseteq Chain(head) /\ common \subseteq store /\ common \in SUBSET Blocks /\ new \subseteq Blocks
  BY <1>1, ChainStored, Zenon DEF Walk, Chain
<1>3. anc \in common
  <2>1. common # {}
    OBVIOUS
  <2> HIDE DEF common
  <2> QED BY <1>2, <2>1, HighestInSet
<1>4. anc # NoRoot /\ anc \in Blocks /\ SlotOf(anc) < SlotOf(head)
  <2>1. anc \in Chain(head) \ {head} /\ anc \in Blocks
    BY <1>2, <1>3
  <2> HIDE DEF anc
  <2> QED BY <2>1, <1>1, ChainTop, ConstantsAssumption
<1>5. plan = [ancestor |-> anc, segment |-> seg, replacedSlot |-> SlotOf(head)]
  <2>1. ReanchorPlan(store, c, head, NoRoot) = [ancestor |-> anc, segment |-> seg, replacedSlot |-> SlotOf(head)]
    BY <1>4, Zenon DEF ReanchorPlan
  <2> HIDE DEF anc, seg
  <2>2. ReanchorPlan(store, c, head, NoRoot).ancestor # NoRoot
    BY <2>1, <1>4
  <2> QED BY <2>1, <2>2, Zenon DEF SwitchPlan
<1> HIDE DEF anc
<1>6. seg \subseteq Blocks
  BY <1>2
<1> HIDE DEF seg
<1>7. plan.ancestor = anc /\ plan.segment = seg /\ plan.replacedSlot = SlotOf(head)
  BY <1>5
<1>8. HasCleanRange(plan) /\ CleanMin(plan) = SlotOf(anc) + 1
  BY <1>4, <1>7 DEF HasCleanRange, CleanMin
<1>9. CleanMax(plan) \in Slots /\ CleanMax(plan) >= SlotOf(head)
  <2> DEFINE T == {SlotOf(b) : b \in seg} \cup {SlotOf(head)}
  <2>1. PICK N \in Nat : Slots = 0 .. N
    BY ZeroInRange
  <2>2. T \in SUBSET (0 .. N) /\ SlotOf(head) \in T
    BY <1>1, <1>6, <2>1, HeaderFacts
  <2>3. CleanMax(plan) = Max(T)
    BY <1>7 DEF CleanMax
  <2> HIDE DEF T
  <2>4. Max(T) \in T /\ \A y \in T : Max(T) >= y
    BY <2>2, MaxInSet
  <2> QED BY <2>1, <2>2, <2>3, <2>4, Zenon
<1> QED BY <1>1, <1>4, <1>8, <1>9, HeightFacts DEF Slots

(* A head switch to a stored block records stored blocks, and cleans the slot *)
(* of a replaced head that was never stored.                                  *)
LEMMA SwitchRoots ==
  ASSUME IInv(qpos), StoreOK, StoreClosed, NEW c \in store, NEW ok, CommitHeadSwitch(c, NoRoot, ok),
         store' = store, restarts \in Nat, restarts' = restarts
  PROVE  RootStep
<1>1. head' = c /\ c \in Blocks /\ head \in Blocks
  BY DEF CommitHeadSwitch, StoreOK
<1>2. CASE ParentOf(c) = head
  <2>1. qpos' = qpos
    BY <1>2 DEF CommitHeadSwitch
  <2>2. c # Genesis
    BY <1>1, <1>2, TreeAssumption, ConstantsAssumption DEF ParentOf
  <2>3. head \in store
    BY <1>2, <2>2 DEF StoreClosed
  <2> QED BY <2>1, <2>3, RootsSame
<1>3. CASE ParentOf(c) # head
  <2> DEFINE plan == SwitchPlan(c, NoRoot)
             E    == {plan.ancestor} \cup {EpochRootFrom(plan.segment, e) : e \in Epochs}
  <2>1. qpos' \in ReanchorAndRedrive(qpos, plan, ok)
    BY <1>3, Zenon DEF CommitHeadSwitch
  <2>2. plan \in ReanchorPlans(c)
    BY <1>1, PlanIsPlan, Zenon DEF SwitchPlan
  <2>3. SlotRootsBacked /\ ReachesAncestor /\ head \notin store =>
          HasCleanRange(plan) /\ SlotOf(head) \in CleanMin(plan) .. CleanMax(plan)
    <3>1. ReachesAncestor /\ head \notin store =>
            Walk(store, c, MaxReorgDepth) \cap Walk(store, head, MaxReorgDepth) # {}
      BY <1>1 DEF ReachesAncestor
    <3> QED BY <3>1, ReplacedSlotCleaned, Zenon
  <2> HIDE DEF plan
  <2>4. /\ RootsFrom(qpos, qpos', plan.segment, E)
        /\ HasCleanRange(plan) => \A s \in CleanMin(plan) .. CleanMax(plan) :
             s \in Slots => qpos'.slotBlockRoots[s] \in {NoRoot} \cup plan.segment
    BY <1>1, <2>1, <2>2, ReanchorSafe, Zenon
  <2>5. plan.segment \subseteq store /\ E \subseteq store \cup {NoRoot}
    BY <2>2, PlanStored, Zenon
  <2> HIDE DEF E
  <2>6. CheckpointsStored => EpochsIn(qpos, store)'
    BY <2>4, <2>5, EpochsDrawn
  <2>7. CASE head \in store
    BY <2>4, <2>5, <2>7, RootsDrawn, Zenon
  <2>8. CASE head \notin store
    <3> SUFFICES ASSUME SlotRootsBacked, ReachesAncestor PROVE SlotRootsBacked'
      BY <2>6 DEF RootStep
    <3>1. \A s \in Slots : \/ qpos'.slotBlockRoots[s] \in {NoRoot, qpos.slotBlockRoots[s]}
                           \/ SlotOf(qpos'.slotBlockRoots[s]) = s /\ qpos'.slotBlockRoots[s] \in store
      BY <2>4, <2>5 DEF RootsFrom
    <3>2. qpos'.slotBlockRoots[SlotOf(head)] \in {NoRoot} \cup store
      BY <1>1, <2>3, <2>4, <2>5, <2>8, HeaderFacts, Zenon
    <3>3. \A s \in Slots : qpos'.slotBlockRoots[s] # NoRoot =>
            SlotOf(qpos'.slotBlockRoots[s]) = s /\ qpos'.slotBlockRoots[s] \in store
      BY <3>1, <3>2 DEF SlotRootsBacked, SlotsIn
    <3> QED BY <3>3 DEF SlotRootsBacked, SlotsIn
  <2> QED BY <2>7, <2>8
<1> QED BY <1>2, <1>3

(* applyBlockInternal records a stored block. *)
LEMMA ApplyRoots ==
  ASSUME IInv(qpos), NodeInv, Backed, NEW w \in Workers, ApplyBlock(w)
  PROVE  RootStep
<1>1. PICK b \in Blocks : b = job[w].blk
  BY DEF NodeInv, JobOK
<1>2. b \in store /\ CallApplyBlockHeader(b) /\ store' = store /\ head' = head
  <2>1. job[w].pc = "apply" /\ store' = store /\ head' = head
    BY Zenon DEF ApplyBlock, chainVars
  <2>2. b \in store
    BY <1>1, <2>1 DEF Backed, JobsBacked, Later
  <2> QED BY <1>1, <2>1, <2>2, Zenon DEF ApplyBlock, CallApplyBlockHeader
<1>3. RootsFrom(qpos, qpos', {b}, {b})
  BY <1>2, ApplySafe DEF CallApplyBlockHeader
<1> QED BY <1>2, <1>3, RootsDrawn

(* Fork choice *)
LEMMA DecideRoots ==
  ASSUME IInv(qpos), NodeInv, Backed, NEW w \in Workers, NEW ok, DecideHead(w, ok)
  PROVE  RootStep
<1>1. PICK b \in Blocks : b = job[w].blk
  BY DEF NodeInv, JobOK
<1>2. job[w].pc = "decide" /\ store' = store /\ restarts' = restarts
  BY Zenon DEF DecideHead
<1>3. b \in store
  BY <1>1, <1>2 DEF Backed, JobsBacked, Later
<1>4. CommitHeadSwitch(b, NoRoot, ok) \/ (qpos' = qpos /\ head' = head)
  BY <1>1, Zenon DEF DecideHead, CommitHeadSwitch
<1>5. StoreOK /\ StoreClosed /\ restarts \in Nat
  BY DEF NodeInv, Backed, CountersOK
<1> QED BY <1>2, <1>3, <1>4, <1>5, SwitchRoots, RootsSame

(* The canonical writes of the insert loop *)
LEMMA WritesRoots ==
  ASSUME IInv(qpos), NodeInv, Backed, NEW w \in Workers, NEW ok,
         WriteSlotRoot(w, ok) \/ AdoptFinality(w, ok) \/ WriteEpochRoot(w, ok) \/ EnsureEpochState(w, ok)
  PROVE  RootStep
<1>1. PICK b \in Blocks : b = job[w].blk
  BY DEF NodeInv, JobOK
<1>2. job[w].pc \in Later \ {"idle"} /\ store' = store /\ head' = head
  BY Zenon DEF WriteSlotRoot, AdoptFinality, WriteEpochRoot, EnsureEpochState, chainVars, Later
<1>3. b \in store /\ b # Genesis /\ ParentOf(b) \in store
  BY <1>1, <1>2 DEF Backed, JobsBacked, StoreClosed, NodeInv, JobOK
<1>w. /\ store \subseteq store' /\ head \in store' \cup {head'}
      /\ {b} \subseteq store' \cup {head'} /\ {} \subseteq store' \cup {head'}
      /\ {b} \subseteq store' \cup {NoRoot} /\ {ParentOf(b)} \subseteq store' \cup {NoRoot}
      /\ {} \subseteq store' \cup {NoRoot}
  BY <1>2, <1>3
<1>4. b \in Root /\ ParentOf(b) \in Root /\ EpochOf(b) \in Epochs
  BY HeaderFacts DEF Root
<1>5. \/ CallSetSlotBlockRoot(b, ok) \/ CallAdoptHeaderFinality(b, ok)
      \/ CallSetEpochBlockRoot(b, ok) \/ CallEnsureEpochBlockRoot(b, ok)
  BY <1>1, Zenon DEF WriteSlotRoot, AdoptFinality, WriteEpochRoot, EnsureEpochState,
              CallSetSlotBlockRoot, CallAdoptHeaderFinality, CallSetEpochBlockRoot, CallEnsureEpochBlockRoot
<1>6. CASE CallSetSlotBlockRoot(b, ok)
  <2>1. RootsFrom(qpos, qpos', {b}, {})
    BY <1>6, SetSlotSafe, Zenon DEF CallSetSlotBlockRoot
  <2> QED BY <1>w, <2>1, RootsDrawn
<1>7. CASE CallAdoptHeaderFinality(b, ok)
  <2>1. SameRoots(qpos', qpos)
    BY <1>7, AdoptSafe, Zenon DEF CallAdoptHeaderFinality
  <2> QED BY <1>2, <2>1, RootsSame
<1>8. CASE CallSetEpochBlockRoot(b, ok)
  <2>1. RootsFrom(qpos, qpos', {}, {b})
    BY <1>4, <1>8, SetEpochSafe, Zenon DEF CallSetEpochBlockRoot
  <2> QED BY <1>w, <2>1, RootsDrawn
<1>9. CASE CallEnsureEpochBlockRoot(b, ok)
  <2>1. RootsFrom(qpos, qpos', {}, {ParentOf(b)})
    BY <1>4, <1>9, EnsureSafe, Zenon DEF CallEnsureEpochBlockRoot
  <2> QED BY <1>w, <2>1, RootsDrawn
<1> QED BY <1>5, <1>6, <1>7, <1>8, <1>9

(* The producer moves the head from a stored block to its own and records it. *)
LEMMA CommitRoots ==
  ASSUME IInv(qpos), NodeInv, Backed, NEW ok, CommitProduced(ok)
  PROVE  RootStep
<1>1. PICK b \in Blocks : b = prod.blk
  BY DEF NodeInv, ProdOK
<1>2. /\ prod.pc = "built" /\ store' = store
      /\ \/ qpos' = qpos /\ head' = head
         \/ head = ParentOf(b) /\ head' = b /\ CallSetSlotBlockRoot(b, ok)
  BY <1>1, Zenon DEF CommitProduced, CallSetSlotBlockRoot
<1>3. ParentOf(b) \in store
  BY <1>1, <1>2 DEF Backed, ProdBacked
<1>4. CASE qpos' = qpos /\ head' = head
  BY <1>2, <1>4, RootsSame
<1>5. CASE head = ParentOf(b) /\ head' = b /\ CallSetSlotBlockRoot(b, ok)
  <2>1. RootsFrom(qpos, qpos', {b}, {})
    BY <1>5, SetSlotSafe, Zenon DEF CallSetSlotBlockRoot
  <2> QED BY <1>2, <1>3, <1>5, <2>1, RootsDrawn
<1> QED BY <1>2, <1>4, <1>5

(* The epoch root of an own block on a boundary, and the stored parent's. *)
LEMMA ProducedRoots ==
  ASSUME IInv(qpos), NodeInv, Backed, NEW ok, ProducedEpochRoot(ok) \/ ProducedEnsure(ok)
  PROVE  RootStep
<1>1. PICK b \in Blocks : b = prod.blk
  BY DEF NodeInv, ProdOK
<1>2. /\ prod.pc # "idle" /\ store' = store /\ head' = head
      /\ CallSetEpochBlockRoot(b, ok) \/ CallEnsureEpochBlockRoot(b, ok)
  BY <1>1 DEF ProducedEpochRoot, ProducedEnsure, chainVars, CallSetEpochBlockRoot, CallEnsureEpochBlockRoot
<1>3. ParentOf(b) \in store /\ b \in OwnBlocks
  BY <1>1, <1>2 DEF Backed, ProdBacked, NodeInv, ProdOK
<1>4. b \in Root /\ ParentOf(b) \in Root /\ EpochOf(b) \in Epochs
  BY HeaderFacts DEF Root
<1>5. CASE CallSetEpochBlockRoot(b, ok)
  <2>1. RootsFrom(qpos, qpos', {}, {b})
    BY <1>4, <1>5, SetEpochSafe, Zenon DEF CallSetEpochBlockRoot
  <2>2. SlotRootsBacked => SlotRootsBacked'
    BY <1>2, <2>1, SlotsDrawn
  <2>3. ~OwnInsideEpochs
    BY <1>3, <1>5 DEF CallSetEpochBlockRoot, OwnInsideEpochs
  <2> QED BY <2>2, <2>3 DEF RootStep
<1>6. CASE CallEnsureEpochBlockRoot(b, ok)
  <2>1. RootsFrom(qpos, qpos', {}, {ParentOf(b)})
    BY <1>4, <1>6, EnsureSafe, Zenon DEF CallEnsureEpochBlockRoot
  <2> QED BY <1>2, <1>3, <2>1, RootsDrawn
<1> QED BY <1>2, <1>5, <1>6

(* The produced block is stored, or the head follows the block that took its height. *)
LEMMA StoreProducedRoots ==
  ASSUME IInv(qpos), NodeInv, Backed, NEW ok, StoreProduced(ok)
  PROVE  RootStep
<1>1. PICK b \in Blocks : b = prod.blk
  BY DEF NodeInv, ProdOK
<1>2. /\ restarts' = restarts
      /\ IF Stored(HeightOf(b)) \ {b} # {} THEN ReloadConflictHead(b, ok) /\ store' = store
         ELSE store' = (IF ok THEN store \cup {b} ELSE store) /\ UNCHANGED <<qpos, head>>
  BY <1>1, Zenon DEF StoreProduced
<1>3. StoreOK /\ StoreClosed /\ restarts \in Nat
  BY DEF NodeInv, Backed, CountersOK
<1>4. CASE Stored(HeightOf(b)) \ {b} # {}
  <2> DEFINE canonical == CHOOSE c \in Stored(HeightOf(b)) : TRUE
  <2>1. canonical \in store
    BY <1>4, Zenon DEF Stored
  <2>2. store' = store /\ (CommitHeadSwitch(canonical, NoRoot, ok) \/ (qpos' = qpos /\ head' = head))
    BY <1>2, <1>4, Zenon DEF ReloadConflictHead
  <2> HIDE DEF canonical
  <2>3. CASE qpos' = qpos /\ head' = head
    BY <2>2, <2>3, RootsSame
  <2>4. CASE CommitHeadSwitch(canonical, NoRoot, ok)
    BY <1>2, <1>3, <2>1, <2>2, <2>4, SwitchRoots
  <2> QED BY <2>2, <2>3, <2>4
<1>5. CASE Stored(HeightOf(b)) \ {b} = {}
  <2>1. store \subseteq store' /\ qpos' = qpos /\ head' = head
    BY <1>2, <1>5, Zenon
  <2> QED BY <2>1, RootsSame
<1> QED BY <1>4, <1>5

(* Votes and seals record nothing, the backfill blocks of the stored chain. *)
LEMMA EngineOnlyRoots ==
  ASSUME IInv(qpos), NodeInv, Backed, NEW ok,
         \/ TryUpdateFinality(ok) \/ (\E b \in SealableBlocks : Seal(b, ok))
         \/ \E oldest \in Epochs : Backfill(oldest, ok)
  PROVE  RootStep
<1>1. store' = store /\ head' = head
  BY DEF TryUpdateFinality, Seal, Backfill, chainVars
<1>2. CASE TryUpdateFinality(ok)
  <2>1. EpochOf(LatestBlock) \in Epochs /\ lastEpoch \in {-1} \cup Epochs /\ MaxEpoch \in Nat
    BY LatestInStore, HeaderFacts, ConstantsAssumption DEF NodeInv, CountersOK
  <2>2. PICK current \in CurrentEpochs : current >= 2 /\ CallTryUpdateFinality(current - 1, ok)
    BY <1>2 DEF TryUpdateFinality
  <2>3. current - 1 \in Epochs
    BY <2>1, <2>2 DEF CurrentEpochs, Epochs
  <2>4. SameRoots(qpos', qpos)
    BY <2>2, <2>3, JustifySafe, Zenon DEF CallTryUpdateFinality
  <2> QED BY <1>1, <2>4, RootsSame
<1>3. CASE \E b \in SealableBlocks : Seal(b, ok)
  <2>1. PICK b \in Blocks : CallCompleteSeal(b, ok)
    BY <1>3, NodeConstantsAssumption DEF Seal
  <2>2. SameRoots(qpos', qpos)
    BY <2>1, CompleteSealSafe, Zenon DEF CallCompleteSeal
  <2> QED BY <1>1, <2>2, RootsSame
<1>4. CASE \E oldest \in Epochs : Backfill(oldest, ok)
  <2>1. PICK oldest \in Epochs, tip \in store : tip = LatestBlock /\ CallBackfillEpochRoots(tip, oldest, ok)
    BY <1>4, LatestInStore DEF Backfill, NodeInv
  <2> DEFINE roots == BackfillRoots(tip, oldest)
  <2>2. roots \in [Epochs -> Root]
    BY BackfillRootsType
  <2>3. \A e \in Epochs : roots[e] \in store \cup {NoRoot}
    <3>1. Chain(tip) \subseteq store /\ StoreOK /\ StoreClosed
      BY ChainStored DEF NodeInv, Backed
    <3>2. \A e \in Epochs : EpochRootFrom({b \in Chain(tip) : EpochOf(b) >= oldest}, e) \in store \cup {NoRoot}
      BY <3>1, SegmentStored
    <3> QED BY <3>2 DEF BackfillRoots
  <2>4. qpos' = BackfillEpochRoots(qpos, roots, ok)
    BY <2>1, Zenon DEF CallBackfillEpochRoots
  <2> HIDE DEF roots
  <2>5. RootsFrom(qpos, qpos', {}, {roots[e] : e \in Epochs})
    BY <2>2, <2>4, BackfillSafe, Zenon
  <2>6. {roots[e] : e \in Epochs} \subseteq store \cup {NoRoot}
    BY <2>3
  <2> QED BY <1>1, <2>5, <2>6, RootsDrawn
<1> QED BY <1>2, <1>3, <1>4

(* A fresh engine knows genesis and the durable checkpoints. *)
LEMMA StartedStored ==
  ASSUME NEW d, NEW q, StartedRoots(d, q), NEW S, Genesis \in S
  PROVE  /\ SlotsIn(q, S)
         /\ (\A c \in {d.justified, d.finalized} : c.epoch > 0 => c.root \in S) => EpochsIn(q, S)
<1>1. SlotOf(Genesis) = 0
  BY HeightFacts
<1>2. SlotsIn(q, S)
  BY <1>1 DEF SlotsIn, StartedRoots
<1>3. ASSUME \A c \in {d.justified, d.finalized} : c.epoch > 0 => c.root \in S, NEW e \in Epochs
      PROVE  q.epochBlockRoots[e] \in {NoRoot} \cup S
  <2>1. CASE e = 0
    BY <2>1 DEF StartedRoots
  <2>2. CASE e # 0
    <3>1. e > 0
      BY <2>2, ConstantsAssumption DEF Epochs
    <3> QED BY <1>3, <2>2, <3>1 DEF StartedRoots
  <2> QED BY <2>1, <2>2
<1> QED BY <1>2, <1>3 DEF EpochsIn

(* A restart rebuilds the roots from the durable record. *)
LEMMA RestartRoots ==
  ASSUME IInv(qpos), NodeInv, Backed, NEW ok, NEW reanchor \in BOOLEAN, RestartNode(reanchor, ok), NodeInv'
  PROVE  RootStep
<1>1. PICK latest \in Blocks, st \in SUBSET Blocks : latest = LatestBlock /\ st = store
  BY LatestInStore DEF NodeInv, StoreOK
<1>2. (reanchor => OperatorReanchor) /\ qpos' = StartUp(qpos.disk, st, latest, reanchor, ok)
  BY <1>1, Zenon DEF RestartNode
<1>3. qpos.disk \in FinalityRecord /\ ValidFinalityState(qpos.disk)
  BY DEF IInv, QPOSState
<1>4. StartedRoots(qpos.disk, qpos')
  BY <1>2, <1>3, StartUpSafe, Zenon
<1>5. store' = store
  <2>1. Continuous = store
    BY NoGap DEF NodeInv, Backed
  <2> QED BY <2>1 DEF RestartNode
<1>6. Genesis \in store' /\ Genesis \in store' \cup {head'}
  BY Zenon DEF NodeInv, StoreOK
<1>7. SlotsIn(qpos', store' \cup {head'})
  BY <1>4, <1>6, StartedStored, Zenon
<1>8. CheckpointsStored => EpochsIn(qpos', store')
  BY <1>4, <1>5, <1>6, StartedStored DEF CheckpointsStored, DiskIn
<1> QED BY <1>7, <1>8, Zenon DEF RootStep, SlotRootsBacked, SlotsIn, EpochsIn

(* Every step of an undisturbed node records stored blocks, or the head. *)
LEMMA StepRoots ==
  ASSUME Undisturbed, IInv(qpos), NodeInv, Backed, NodeNext
  PROVE  RootStep
<1>1. store \subseteq store' /\ NodeInv'
  BY StepBacked, StepInv
<1>2. ASSUME NEW w \in Workers, NEW b \in Blocks, Receive(w, b) \/ ReceiveFork(w, b) PROVE RootStep
  <2>1. qpos' = qpos /\ head' = head
    BY <1>2, Zenon DEF Receive, ReceiveFork, chainVars
  <2> QED BY <1>1, <2>1, RootsSame
<1>3. ASSUME NEW w \in Workers, PutBlock(w) PROVE RootStep
  <2>1. qpos' = qpos /\ head' = head
    BY <1>3, Zenon DEF PutBlock
  <2> QED BY <1>1, <2>1, RootsSame
<1>4. ASSUME NEW b \in OwnBlocks, BuildBlock(b) PROVE RootStep
  <2>1. qpos' = qpos /\ head' = head
    BY <1>4, Zenon DEF BuildBlock, chainVars
  <2> QED BY <1>1, <2>1, RootsSame
<1>5. ASSUME NEW w \in Workers, NEW ok \in DiskOutcomes, TruncateForFork(w, ok) PROVE FALSE
  BY <1>5, Zenon DEF TruncateForFork, Backed, JobsBacked
<1>6. ASSUME NEW ok \in DiskOutcomes,
             (\E from \in RollbackHeights : RollbackHead(from, ok)) \/ RollbackStore(ok)
      PROVE  FALSE
  BY <1>6 DEF Undisturbed, Backed, RollbackStore
<1>7. CASE \E w \in Workers :
             \/ \E b \in Blocks \ ({Genesis} \cup OwnBlocks) : Receive(w, b) \/ ReceiveFork(w, b)
             \/ PutBlock(w)
             \/ ApplyBlock(w)
  BY <1>7, <1>2, <1>3, ApplyRoots
<1>8. CASE \E w \in Workers, ok \in DiskOutcomes :
             \/ TruncateForFork(w, ok) \/ DecideHead(w, ok) \/ WriteSlotRoot(w, ok) \/ AdoptFinality(w, ok)
             \/ WriteEpochRoot(w, ok) \/ EnsureEpochState(w, ok)
  BY <1>8, <1>5, DecideRoots, WritesRoots
<1>9. ASSUME NEW ok \in DiskOutcomes,
             CommitProduced(ok) \/ ProducedEpochRoot(ok) \/ ProducedEnsure(ok) \/ StoreProduced(ok)
      PROVE  RootStep
  BY <1>9, CommitRoots, ProducedRoots, StoreProducedRoots
<1>10. ASSUME NEW ok \in DiskOutcomes,
              \/ TryUpdateFinality(ok)
              \/ \E b \in SealableBlocks : Seal(b, ok)
              \/ \E oldest \in Epochs : Backfill(oldest, ok)
              \/ \E reanchor \in BOOLEAN : RestartNode(reanchor, ok)
       PROVE  RootStep
  BY <1>1, <1>10, EngineOnlyRoots, RestartRoots
<1> QED BY <1>4, <1>6, <1>7, <1>8, <1>9, <1>10, Zenon DEF NodeNext

(* What is durable is stored: a write of the record takes a recorded root. *)
LEMMA StepDurable ==
  ASSUME Undisturbed, OwnInsideEpochs, IInv(qpos), NodeInv, Backed, NodeNext, CheckpointsStored
  PROVE  CheckpointsStored'
<1>1. store \subseteq store' /\ EpochsIn(qpos, store)'
  BY StepBacked, StepRoots DEF RootStep
<1>2. Safe(qpos, qpos') \/ qpos' = qpos
  BY StepDrives, StepSafe
<1>3. CASE qpos'.disk = qpos.disk
  BY <1>1, <1>3 DEF CheckpointsStored, DiskIn
<1>4. CASE qpos'.disk # qpos.disk
  <2>1. IInv(qpos') /\ WrittenCanonical(qpos, qpos')
    BY <1>2, <1>4 DEF Safe
  <2>2. \A c \in {qpos'.disk.justified, qpos'.disk.finalized} :
          c.epoch > 0 => c.epoch \in Epochs /\ c.root # NoRoot
    BY <2>1 DEF IInv, QPOSState, FinalityRecord, Checkpoint, ValidFinalityState
  <2>3. ASSUME NEW c \in {qpos'.disk.justified, qpos'.disk.finalized}, c.epoch > 0 PROVE c.root \in store'
    <3>1. c.root \in {qpos.epochBlockRoots[c.epoch], qpos'.epochBlockRoots[c.epoch]}
      BY <1>4, <2>1, <2>3, Zenon DEF WrittenCanonical
    <3>2. c.epoch \in Epochs /\ c.root # NoRoot
      BY <2>2, <2>3
    <3> QED BY <1>1, <3>1, <3>2, Zenon DEF CheckpointsStored, EpochsIn
  <2> QED BY <1>1, <2>3 DEF CheckpointsStored, DiskIn
<1> QED BY <1>3, <1>4

(* A genesis start records the genesis block alone. *)
LEMMA InitRoots == NodeInit => SlotRootsBacked /\ CheckpointsStored
<1> SUFFICES ASSUME NodeInit PROVE SlotRootsBacked /\ CheckpointsStored
  OBVIOUS
<1> DEFINE z == NewQPOS(NoRecord)
<1>1. /\ NoRecord \in FinalityRecord /\ ValidFinalityState(NoRecord)
      /\ NoRecord.justified.epoch = 0 /\ NoRecord.finalized.epoch = 0
  BY ZeroInRange DEF NoRecord, FinalityRecord, NoCheckpoint, Checkpoint, Root, ValidFinalityState
<1>2. z.disk = NoRecord
  BY DEF NewQPOS
<1> HIDE DEF z
<1>3. {Genesis} \in SUBSET Blocks /\ Genesis \in Blocks
  BY ConstantsAssumption
<1>4. qpos = StartUp(z.disk, {Genesis}, Genesis, FALSE, TRUE) /\ store = {Genesis} /\ head = Genesis
  BY <1>2 DEF NodeInit, Init
<1>5. Safe(z, qpos) /\ StartedRoots(NoRecord, qpos)
  BY <1>1, <1>2, <1>3, <1>4, StartUpSafe, Zenon
<1>6. SlotRootsBacked /\ EpochsIn(qpos, store)
  <2>1. Genesis \in store /\ Genesis \in store \cup {head}
    BY <1>4
  <2>2. \A c \in {NoRecord.justified, NoRecord.finalized} : c.epoch > 0 => c.root \in store
    BY <1>1
  <2>3. SlotsIn(qpos, store \cup {head})
    BY <1>5, <2>1, StartedStored, Zenon
  <2>4. EpochsIn(qpos, store)
    BY <1>5, <2>1, <2>2, StartedStored, Zenon
  <2> QED BY <2>3, <2>4 DEF SlotRootsBacked
<1>7. DiskIn(qpos, store)
  <2>1. ASSUME NEW c \in {qpos.disk.justified, qpos.disk.finalized}, c.epoch > 0 PROVE c.root \in store
    <3>0. qpos.disk \in FinalityRecord /\ ValidFinalityState(qpos.disk)
      BY <1>5, Zenon DEF Safe, IInv, QPOSState
    <3>1. c.epoch \in Epochs /\ c.root # NoRoot /\ qpos.disk # z.disk
      <4>1. c.epoch \in Epochs /\ c.root # NoRoot
        BY <2>1, <3>0 DEF FinalityRecord, Checkpoint, ValidFinalityState
      <4>2. qpos.disk # NoRecord
        BY <1>1, <2>1 DEF Epochs
      <4> QED BY <4>1, <4>2, <1>2
    <3>2. c.root \in {z.epochBlockRoots[c.epoch], qpos.epochBlockRoots[c.epoch]}
      BY <1>5, <2>1, <3>1, Zenon DEF Safe, WrittenCanonical
    <3>3. z.epochBlockRoots[c.epoch] = NoRoot
      BY <3>1, Zenon DEF z, NewQPOS
    <3> QED BY <1>6, <3>1, <3>2, <3>3 DEF EpochsIn
  <2> QED BY <2>1 DEF DiskIn
<1> QED BY <1>6, <1>7 DEF CheckpointsStored

(***************************************************************************)
(* On a node that accepts no fork below its head, is not rolled back by    *)
(* its operator and whose writes succeed, every slot root names a stored   *)
(* block at its own slot, or the head, at every moment: also between the   *)
(* commit of a produced block and its put, and after an import has taken   *)
(* the block's height.  The hypothesis on the reach of planSlotReanchor is *)
(* needed: a head switch that has to look for the common ancestor further  *)
(* than MaxReorgDepth leaves the slot root of the replaced block behind.   *)
(***************************************************************************)
THEOREM SlotRootsInvariance ==
  ASSUME Undisturbed
  PROVE  NodeSpec /\ [][ReachesAncestor]_vars => []SlotRootsBacked
<1>1. NodeInit => SlotRootsBacked
  BY InitRoots
<1>2. SlotRootsBacked /\ UNCHANGED vars => SlotRootsBacked'
  BY DEF SlotRootsBacked, SlotsIn, vars, chainVars
<1>3. IInv(qpos) /\ NodeInv /\ Backed /\ SlotRootsBacked /\ [NodeNext]_vars /\ [ReachesAncestor]_vars => SlotRootsBacked'
  <2>1. IInv(qpos) /\ NodeInv /\ Backed /\ SlotRootsBacked /\ NodeNext /\ ReachesAncestor => SlotRootsBacked'
    BY StepRoots DEF RootStep
  <2> QED BY <1>2, <2>1
<1>4. NodeSpec => Spec
  BY NodeDrivesEngine DEF DrivesEngine
<1> QED BY <1>1, <1>3, <1>4, Invariance, NodeInvariance, BackedInvariance, PTL DEF NodeSpec

(* Between two imports no slot root of such a node names a block that both *)
(* the store and the head's chain have dropped.                            *)
THEOREM NoGhosts ==
  ASSUME Undisturbed
  PROVE  NodeSpec /\ [][ReachesAncestor]_vars => []NoGhostSlotRoots
<1>1. NodeInv /\ SlotRootsBacked => NoGhostSlotRoots
  <2> SUFFICES ASSUME NodeInv, SlotRootsBacked PROVE NoGhostSlotRoots
    OBVIOUS
  <2>1. head \in Chain(head)
    BY ChainTop, Zenon DEF NodeInv, StoreOK
  <2> QED BY <2>1 DEF SlotRootsBacked, SlotsIn, NoGhostSlotRoots
<1> QED BY <1>1, SlotRootsInvariance, NodeInvariance, PTL

(* The parent of the head is stored, whether or not the node trusts its state. *)
HeadRooted == ParentOf(head) \in store \cup {NoRoot}

(* The head moves to a stored block or to an own block above a stored one. *)
LEMMA StepHead ==
  ASSUME Undisturbed, NodeInv, Backed, NodeNext
  PROVE  head' = head \/ ParentOf(head') \in store \cup {NoRoot}
<1>1. \A b \in store : ParentOf(b) \in store \cup {NoRoot}
  BY TreeAssumption DEF Backed, StoreClosed, ParentOf
<1>2. ASSUME NEW w \in Workers,
             \/ \E b \in Blocks \ ({Genesis} \cup OwnBlocks) : Receive(w, b) \/ ReceiveFork(w, b)
             \/ PutBlock(w)
             \/ ApplyBlock(w)
      PROVE  head' = head
  BY <1>2, Zenon DEF Receive, ReceiveFork, PutBlock, ApplyBlock, chainVars
<1>3. ASSUME NEW w \in Workers, NEW ok \in DiskOutcomes, DecideHead(w, ok) PROVE head' = head \/ head' \in store
  <2>1. job[w].pc = "decide" /\ head' \in {head, job[w].blk}
    BY <1>3, Zenon DEF DecideHead, CommitHeadSwitch
  <2> QED BY <2>1, Zenon DEF Backed, JobsBacked, Later
<1>4. ASSUME NEW w \in Workers, NEW ok \in DiskOutcomes,
             \/ TruncateForFork(w, ok) \/ WriteSlotRoot(w, ok) \/ AdoptFinality(w, ok)
             \/ WriteEpochRoot(w, ok) \/ EnsureEpochState(w, ok)
      PROVE  head' = head
  BY <1>4, Zenon DEF TruncateForFork, WriteSlotRoot, AdoptFinality, WriteEpochRoot, EnsureEpochState, chainVars
<1>5. ASSUME NEW b \in OwnBlocks, BuildBlock(b) PROVE head' = head
  BY <1>5, Zenon DEF BuildBlock, chainVars
<1>6. ASSUME NEW ok \in DiskOutcomes, CommitProduced(ok) PROVE head' = head \/ ParentOf(head') \in store
  <2>1. prod.pc = "built" /\ head' \in {head, prod.blk}
    BY <1>6, Zenon DEF CommitProduced
  <2> QED BY <2>1 DEF Backed, ProdBacked
<1>7. ASSUME NEW ok \in DiskOutcomes, StoreProduced(ok) PROVE head' = head \/ head' \in store
  <2> DEFINE S == Stored(HeightOf(prod.blk))
  <2>1. head' = head \/ (S \ {prod.blk} # {} /\ head' = CHOOSE c \in S : TRUE)
    BY <1>7, Zenon DEF StoreProduced, ReloadConflictHead, CommitHeadSwitch
  <2>2. S \ {prod.blk} # {} => (CHOOSE c \in S : TRUE) \in store
    BY Zenon DEF Stored
  <2> QED BY <2>1, <2>2, Zenon
<1>8. ASSUME NEW ok \in DiskOutcomes,
             (\E from \in RollbackHeights : RollbackHead(from, ok)) \/ RollbackStore(ok)
      PROVE  FALSE
  BY <1>8 DEF Undisturbed, Backed, RollbackStore
<1>9. ASSUME NEW ok \in DiskOutcomes,
             \/ ProducedEpochRoot(ok) \/ ProducedEnsure(ok) \/ TryUpdateFinality(ok)
             \/ (\E b \in SealableBlocks : Seal(b, ok)) \/ (\E oldest \in Epochs : Backfill(oldest, ok))
      PROVE  head' = head
  BY <1>9, Zenon DEF ProducedEpochRoot, ProducedEnsure, TryUpdateFinality, Seal, Backfill, chainVars
<1>10. ASSUME NEW ok \in DiskOutcomes, NEW reanchor \in BOOLEAN, RestartNode(reanchor, ok) PROVE head' \in store
  BY <1>10, LatestInStore DEF RestartNode, NodeInv
<1> QED BY <1>1, <1>2, <1>3, <1>4, <1>5, <1>6, <1>7, <1>8, <1>9, <1>10 DEF NodeNext

(* Below a block whose parent is stored a walk as long as the chain reaches genesis. *)
LEMMA WalkReachesGenesis ==
  ASSUME StoreOK, StoreClosed, NEW b \in Blocks, ParentOf(b) \in store \cup {NoRoot},
         HeightOf(b) < MaxReorgDepth
  PROVE  Genesis \in Walk(store, b, MaxReorgDepth)
<1>1. \A c \in Chain(b) : c # b => c \in store
  <2>1. CASE b = Genesis
    BY <2>1, ChainFacts
  <2>2. CASE b # Genesis
    <3>1. ParentOf(b) \in store /\ Chain(b) = {b} \cup Chain(ParentOf(b))
      BY <2>2, ChainFacts, HeightFacts, ConstantsAssumption
    <3> QED BY <3>1, ChainStored
  <2> QED BY <2>1, <2>2
<1>2. Genesis \in Chain(b)
  <2>1. HeightOf(b) \in Nat
    BY HeightFacts
  <2>2. PICK a \in Chain(b) : HeightOf(a) = 0
    BY <2>1, ChainHeights
  <2>3. a = Genesis
    <3>1. a \in Blocks
      BY DEF Chain
    <3>2. a # Genesis => HeightOf(a) = HeightOf(ParentOf(a)) + 1 /\ HeightOf(ParentOf(a)) \in Nat
      BY <3>1, HeightFacts
    <3> QED BY <2>2, <3>2
  <2> QED BY <2>2, <2>3
<1>3. HeightOf(b) - HeightOf(Genesis) < MaxReorgDepth
  BY HeightFacts
<1> QED BY <1>1, <1>2, <1>3 DEF Walk

(***************************************************************************)
(* While the chain is shorter than MaxReorgDepth no head switch is out of  *)
(* reach, so that no slot root is ever left behind.                        *)
(***************************************************************************)
THEOREM NoGhostsInReach ==
  ASSUME Undisturbed, \A b \in Blocks : HeightOf(b) < MaxReorgDepth
  PROVE  NodeSpec => []NoGhostSlotRoots
<1>1. NodeInit => HeadRooted
  BY TreeAssumption DEF NodeInit, HeadRooted, ParentOf
<1>2. NodeInv /\ Backed /\ HeadRooted /\ [NodeNext]_vars => HeadRooted'
  <2>1. HeadRooted /\ UNCHANGED vars => HeadRooted'
    BY DEF HeadRooted, vars, chainVars
  <2>2. NodeInv /\ Backed /\ HeadRooted /\ NodeNext => HeadRooted'
    BY StepHead, StepBacked DEF HeadRooted
  <2> QED BY <2>1, <2>2
<1>3. NodeInv /\ Backed /\ HeadRooted /\ [NodeNext]_vars => [ReachesAncestor]_vars
  <2> SUFFICES ASSUME NodeInv, Backed, HeadRooted, NodeNext PROVE ReachesAncestor
    OBVIOUS
  <2>1. StoreOK /\ StoreClosed /\ head \in Blocks /\ head' \in Blocks
    BY StepInv, Zenon DEF NodeInv, Backed, StoreOK
  <2>2. Genesis \in Walk(store, head, MaxReorgDepth)
    BY <2>1, WalkReachesGenesis DEF HeadRooted
  <2>3. CASE head' = head
    BY <2>3 DEF ReachesAncestor
  <2>4. CASE head' # head
    <3>1. PICK b \in Blocks : b = head'
      BY <2>1
    <3>2. ParentOf(b) \in store \cup {NoRoot}
      BY <2>4, <3>1, StepHead
    <3>3. Genesis \in Walk(store, b, MaxReorgDepth)
      BY <2>1, <3>2, WalkReachesGenesis
    <3> QED BY <2>2, <3>1, <3>3 DEF ReachesAncestor
  <2> QED BY <2>3, <2>4
<1> QED BY <1>1, <1>2, <1>3, NoGhosts, NodeInvariance, BackedInvariance, PTL DEF NodeSpec

(***************************************************************************)
(* The epoch roots a node has recorded and the checkpoints in its durable  *)
(* record are blocks it has stored, when it produces no block on an epoch  *)
(* boundary: only the producer records a block before it is stored.        *)
(***************************************************************************)
THEOREM CheckpointsInvariance ==
  ASSUME Undisturbed, OwnInsideEpochs
  PROVE  NodeSpec => []CheckpointsStored
<1>1. NodeInit => CheckpointsStored
  BY InitRoots
<1>2. CheckpointsStored /\ UNCHANGED vars => CheckpointsStored'
  BY DEF CheckpointsStored, EpochsIn, DiskIn, vars, chainVars
<1>3. IInv(qpos) /\ NodeInv /\ Backed /\ CheckpointsStored /\ [NodeNext]_vars => CheckpointsStored'
  BY <1>2, StepDurable
<1>4. NodeSpec => Spec
  BY NodeDrivesEngine DEF DrivesEngine
<1> QED BY <1>1, <1>3, <1>4, Invariance, NodeInvariance, BackedInvariance, PTL DEF NodeSpec

(***************************************************************************)
(* The head of such a node and the finalized block are on one chain        *)
(* whenever no import or production is under way and the state is trusted: *)
(* both are stored, and the store is one chain.  This covers headers,      *)
(* votes and seals in any order, conflict reloads, and crashes between any *)
(* two steps.                                                              *)
(***************************************************************************)
THEOREM HeadFollowsFinality ==
  ASSUME Undisturbed, OwnInsideEpochs
  PROVE  NodeSpec => []HeadCompatibleWithFinalized
<1>1. NodeInv /\ Backed /\ HeadBacked /\ CheckpointsStored => HeadCompatibleWithFinalized
  <2> SUFFICES ASSUME NodeInv, Backed, HeadBacked, CheckpointsStored, Quiet, trusted, HasFinalizedBlock
               PROVE  qpos.finalized.root \in Chain(head) \/ head \in Chain(qpos.finalized.root)
    BY DEF HeadCompatibleWithFinalized
  <2>1. head \in store
    BY DEF HeadBacked
  <2>2. qpos.finalized.root \in store
    BY DEF HasFinalizedBlock, CheckpointsStored, DiskIn
  <2>3. StoreOK /\ StoreClosed
    BY DEF NodeInv, Backed
  <2> QED BY <2>1, <2>2, <2>3, StoreIsChain
<1> QED BY <1>1, HeadStored, CheckpointsInvariance, NodeInvariance, BackedInvariance, PTL

-----------------------------------------------------------------------------
(* A node that accepts forks *)

(* One goroutine inserts blocks, nothing is produced and no operator rolls back. *)
OneInserter == (\A v, w \in Workers : v = w) /\ OwnBlocks = {} /\ RollbackHeights = {}

(* The blocks the finality gate is there to keep. *)
Protected(q) == {b \in Blocks : HasFinalityFloor(q) /\ SlotOf(b) <= FinalizedCheckpointSlot(q)}

(* Finality gains no block between the gate and the truncation it let through. *)
GateStands == \A w \in Workers : job[w].pc = "truncate" => Protected(qpos') \subseteq Protected(qpos)

GateInv ==
  /\ StoreClosed /\ prod.pc = "idle"
  /\ \A w \in Workers :
       /\ job[w].pc = "put" => ParentOf(job[w].blk) \in store
       /\ job[w].pc = "truncate" => \A b \in store \cap Protected(qpos) : HeightOf(b) < job[w].from

GateStep == GateInv' /\ Protected(qpos) \cap store \subseteq store'

(* The finalized checkpoint's slot is a number, wherever it is read from. *)
LEMMA CheckpointSlotType ==
  ASSUME NEW q \in QPOSState PROVE FinalizedCheckpointSlot(q) \in Nat
<1>1. PICK N \in Nat : Slots = 0 .. N
  BY ZeroInRange
<1>2. EpochStartSlot(q.finalized.epoch) \in Nat /\ q.pin.slot \in Nat
  BY <1>1, ConstantsAssumption DEF QPOSState, Checkpoint, Epochs, EpochStartSlot
<1>3. SlotsHolding(q) \in SUBSET (0 .. N)
  BY <1>1 DEF SlotsHolding
<1>4. SlotsHolding(q) # {} => Max(SlotsHolding(q)) \in Nat
  <2>1. PICK S \in SUBSET (0 .. N) : S = SlotsHolding(q)
    BY <1>3
  <2>2. S # {} => Max(S) \in S
    BY MaxInSet
  <2> QED BY <2>1, <2>2
<1> QED BY <1>2, <1>4, Zenon DEF FinalizedCheckpointSlot

(* The store is one chain: above a stored block every stored block has a *)
(* later slot.                                                           *)
LEMMA SlotsGrow ==
  ASSUME StoreOK, StoreClosed, NEW a \in store, NEW b \in store, HeightOf(a) < HeightOf(b)
  PROVE  SlotOf(a) < SlotOf(b)
<1> DEFINE Bad == {c \in store : HeightOf(a) < HeightOf(c) /\ ~(SlotOf(a) < SlotOf(c))}
           T   == {HeightOf(c) : c \in Bad}
<1> SUFFICES ASSUME Bad # {} PROVE FALSE
  OBVIOUS
<1>1. store \subseteq Blocks /\ a \in Blocks
  BY DEF StoreOK
<1>2. T \in SUBSET Nat /\ T # {}
  BY <1>1, HeightFacts
<1>3. PICK n \in T : \A m \in T : n <= m
  BY <1>2, LeastNat, Zenon
<1>4. PICK c \in Bad : n = HeightOf(c)
  OBVIOUS
<1>5. c # Genesis
  BY <1>1, <1>4, HeightFacts
<1>6. ParentOf(c) \in store /\ c \in Blocks \ {Genesis}
  BY <1>1, <1>4, <1>5 DEF StoreClosed
<1>7. /\ HeightOf(c) = HeightOf(ParentOf(c)) + 1 /\ SlotOf(c) > SlotOf(ParentOf(c))
      /\ HeightOf(ParentOf(c)) \in Nat /\ HeightOf(a) \in Nat
      /\ SlotOf(c) \in Nat /\ SlotOf(ParentOf(c)) \in Nat /\ SlotOf(a) \in Nat
  BY <1>1, <1>6, HeightFacts
<1>8. ParentOf(c) \notin Bad
  <2> SUFFICES ASSUME ParentOf(c) \in Bad PROVE FALSE
    OBVIOUS
  <2>1. n <= HeightOf(ParentOf(c))
    BY <1>3
  <2> QED BY <1>4, <1>7, <2>1
<1>9. CASE HeightOf(ParentOf(c)) = HeightOf(a)
  <2>1. ParentOf(c) = a
    BY <1>6, <1>9 DEF StoreOK
  <2> QED BY <1>4, <1>7, <2>1
<1>10. CASE HeightOf(a) < HeightOf(ParentOf(c))
  BY <1>4, <1>6, <1>7, <1>8, <1>10
<1>11. HeightOf(a) < HeightOf(c)
  BY <1>4
<1> HIDE DEF Bad, T
<1>12. HeightOf(ParentOf(c)) = HeightOf(a) \/ HeightOf(a) < HeightOf(ParentOf(c))
  BY <1>7, <1>11
<1> QED BY <1>9, <1>10, <1>12, Zenon

(* What rollbackBelowFinality lets through deletes no protected block. *)
LEMMA GateSound ==
  ASSUME StoreOK, StoreClosed, qpos \in QPOSState, NEW from \in Nat, ~RollbackBelowFinality(qpos, from)
  PROVE  \A b \in store \cap Protected(qpos) : HeightOf(b) < from
<1> SUFFICES ASSUME NEW b \in store, HasFinalityFloor(qpos), SlotOf(b) <= FinalizedCheckpointSlot(qpos),
                    ~(HeightOf(b) < from)
             PROVE  FALSE
  BY DEF Protected
<1>1. FinalizedCheckpointSlot(qpos) \in Nat
  BY CheckpointSlotType
<1>2. PICK kept \in Stored(from - 1) : ~(SlotOf(kept) < FinalizedCheckpointSlot(qpos))
  BY DEF RollbackBelowFinality
<1>3. kept \in store /\ HeightOf(kept) = from - 1 /\ kept \in Blocks /\ b \in Blocks
  BY <1>2 DEF Stored, StoreOK
<1>4. HeightOf(kept) < HeightOf(b) /\ SlotOf(kept) \in Nat /\ SlotOf(b) \in Nat
  BY <1>3, HeightFacts
<1>5. SlotOf(kept) < SlotOf(b)
  BY <1>3, <1>4, SlotsGrow
<1> QED BY <1>1, <1>2, <1>4, <1>5

(* A step that moves neither the goroutine nor the store keeps the gate. *)
LEMMA GateFrame ==
  ASSUME GateInv, GateStands \/ qpos' = qpos, store' = store, job' = job, prod'.pc = prod.pc
  PROVE  GateStep
<1>1. ASSUME NEW w \in Workers, job[w].pc = "truncate", NEW b \in store \cap Protected(qpos)'
      PROVE  HeightOf(b) < job[w].from
  <2>1. b \in Protected(qpos)
    BY <1>1 DEF GateStands, Protected
  <2> QED BY <1>1, <2>1 DEF GateInv
<1>2. StoreClosed' /\ prod'.pc = "idle"
  BY Zenon DEF GateInv, StoreClosed
<1> QED BY <1>1, <1>2 DEF GateStep, GateInv

(* Nor does one after which the only goroutine neither puts nor truncates. *)
LEMMA GateLeft ==
  ASSUME OneInserter, JobOK, GateInv, NEW w \in Workers,
         Imported(w) \/ Done(w) \/ \E pc \in Later : GoTo(w, pc),
         StoreClosed', Protected(qpos) \cap store \subseteq store', prod'.pc = prod.pc
  PROVE  GateStep
<1>1. \/ job' = [job EXCEPT ![w] = Idle]
      \/ \E pc \in Later : job' = [job EXCEPT ![w].pc = pc]
  BY DEF Imported, Done, GoTo, Later
<1>2. job'[w].pc \in Later \cup {"idle"}
  BY <1>1 DEF JobOK, Idle
<1>3. job'[w].pc # "put" /\ job'[w].pc # "truncate"
  BY <1>2 DEF Later
<1>4. \A v \in Workers : v = w
  BY DEF OneInserter
<1> QED BY <1>3, <1>4 DEF GateStep, GateInv

(* A block whose parent is stored, or a stored one, arrives. *)
LEMMA ReceiveGate ==
  ASSUME OneInserter, NodeInv, GateInv, NEW w \in Workers, NEW b \in Blocks, Receive(w, b)
  PROVE  GateStep
<1>1. /\ UNCHANGED <<qpos, store, prod>>
      /\ \/ job' = [job EXCEPT ![w] = [Idle EXCEPT !.pc = "decide", !.blk = b]]
         \/ ParentOf(b) \in store /\ job' = [job EXCEPT ![w] = [Idle EXCEPT !.pc = "put", !.blk = b]]
  BY Zenon DEF Receive, chainVars
<1>2. \/ job'[w].pc = "decide"
      \/ ParentOf(b) \in store /\ job'[w].pc = "put" /\ job'[w].blk = b
  BY <1>1, Zenon DEF NodeInv, JobOK, Idle
<1>3. \A v \in Workers : v = w
  BY DEF OneInserter
<1>4. StoreClosed'
  BY <1>1, Zenon DEF GateInv, StoreClosed
<1> QED BY <1>1, <1>2, <1>3, <1>4 DEF GateStep, GateInv

(* A fork is dropped, refused or let through by the gate. *)
LEMMA ReceiveForkGate ==
  ASSUME OneInserter, IInv(qpos), NodeInv, GateInv, NEW w \in Workers, NEW b \in Blocks, ReceiveFork(w, b)
  PROVE  GateStep
<1>1. UNCHANGED <<qpos, store, prod>>
  BY Zenon DEF ReceiveFork, chainVars
<1>2. CASE job' = job
  BY <1>1, <1>2, GateFrame
<1>3. ASSUME NEW from \in ForkRollbackPoints(HeightOf(b) - 1), NEW ours,
             ~RollbackBelowFinality(qpos, from),
             job' = [job EXCEPT ![w] = [pc |-> "truncate", blk |-> b, from |-> from, ours |-> ours]]
      PROVE  GateStep
  <2>1. from \in Nat
    BY NodeConstantsAssumption DEF ForkRollbackPoints
  <2>2. \A x \in store \cap Protected(qpos) : HeightOf(x) < from
    BY <1>3, <2>1, GateSound DEF GateInv, NodeInv, IInv
  <2>3. job'[w].pc = "truncate" /\ job'[w].from = from
    BY <1>3 DEF NodeInv, JobOK
  <2>4. \A v \in Workers : v = w
    BY Zenon DEF OneInserter
  <2>5. StoreClosed' /\ Protected(qpos)' = Protected(qpos)
    BY <1>1 DEF GateInv, StoreClosed, Protected
  <2> QED BY <1>1, <2>2, <2>3, <2>4, <2>5 DEF GateStep, GateInv
<1>4. \/ job' = job
      \/ \E from \in ForkRollbackPoints(HeightOf(b) - 1) :
           /\ ~RollbackBelowFinality(qpos, from)
           /\ \E ours \in Stored(HeightOf(b) - 1) :
                job' = [job EXCEPT ![w] = [pc |-> "truncate", blk |-> b, from |-> from, ours |-> ours]]
  BY Zenon DEF ReceiveFork
<1> QED BY <1>2, <1>3, <1>4

(* The put adds a block above its stored parent. *)
LEMMA PutGate ==
  ASSUME OneInserter, NodeInv, GateInv, NEW w \in Workers, PutBlock(w)
  PROVE  GateStep
<1>1. /\ job[w].pc = "put" /\ prod' = prod /\ store' \in {store, store \cup {job[w].blk}}
      /\ Done(w) \/ GoTo(w, "apply") \/ Imported(w)
  BY Zenon DEF PutBlock
<1>2. ParentOf(job[w].blk) \in store
  BY <1>1 DEF GateInv
<1>3. StoreClosed'
  BY <1>1, <1>2 DEF GateInv, StoreClosed
<1>4. "apply" \in Later /\ store \subseteq store'
  BY <1>1 DEF Later
<1> QED BY <1>1, <1>3, <1>4, GateLeft DEF NodeInv

(* The truncation deletes what the gate said it would. *)
LEMMA TruncateGate ==
  ASSUME OneInserter, NodeInv, GateInv, NEW w \in Workers, NEW ok, TruncateForFork(w, ok)
  PROVE  GateStep
<1>1. /\ job[w].pc = "truncate" /\ prod' = prod /\ Imported(w)
      /\ store' = store \/ store' = {b \in store : HeightOf(b) < job[w].from}
  BY Zenon DEF TruncateForFork
<1>2. Protected(qpos) \cap store \subseteq store'
  BY <1>1 DEF GateInv
<1>3. StoreClosed'
  <2>1. CASE store' = store
    BY <2>1 DEF GateInv, StoreClosed
  <2>2. CASE store' = {b \in store : HeightOf(b) < job[w].from}
    <3> SUFFICES ASSUME NEW b \in store' \ {Genesis} PROVE ParentOf(b) \in store'
      BY DEF StoreClosed
    <3>1. b \in store /\ HeightOf(b) < job[w].from /\ ParentOf(b) \in store /\ b \in Blocks \ {Genesis}
      BY <2>2 DEF GateInv, StoreClosed, NodeInv, StoreOK
    <3>2. HeightOf(b) = HeightOf(ParentOf(b)) + 1 /\ HeightOf(ParentOf(b)) \in Nat /\ job[w].from \in Nat
      BY <3>1, HeightFacts DEF NodeInv, JobOK
    <3>3. HeightOf(ParentOf(b)) < job[w].from
      BY <3>1, <3>2
    <3> QED BY <2>2, <3>1, <3>3
  <2> QED BY <1>1, <2>1, <2>2
<1> QED BY <1>1, <1>2, <1>3, GateLeft DEF NodeInv

(* The steps of the goroutine that leave the store alone. *)
LEMMA MoveGate ==
  ASSUME OneInserter, NodeInv, GateInv, NEW w \in Workers, NEW ok,
         \/ ApplyBlock(w) \/ DecideHead(w, ok) \/ WriteSlotRoot(w, ok) \/ AdoptFinality(w, ok)
         \/ WriteEpochRoot(w, ok) \/ EnsureEpochState(w, ok)
  PROVE  GateStep
<1>1. /\ store' = store /\ prod' = prod
      /\ \/ Imported(w) \/ Done(w)
         \/ GoTo(w, "slot") \/ GoTo(w, "adopt") \/ GoTo(w, "epoch") \/ GoTo(w, "ensure")
  BY Zenon DEF ApplyBlock, DecideHead, WriteSlotRoot, AdoptFinality, WriteEpochRoot, EnsureEpochState, chainVars
<1>2. {"slot", "adopt", "epoch", "ensure"} \subseteq Later
  BY DEF Later
<1>3. StoreClosed'
  BY <1>1 DEF GateInv, StoreClosed
<1>4. Imported(w) \/ Done(w) \/ \E pc \in Later : GoTo(w, pc)
  BY <1>1, <1>2
<1> QED BY <1>1, <1>3, <1>4, GateLeft DEF NodeInv

(* A seal, a quorum or a backfill moves the engine alone. *)
LEMMA EngineGate ==
  ASSUME GateInv, GateStands, NEW ok,
         \/ TryUpdateFinality(ok)
         \/ \E b \in SealableBlocks : Seal(b, ok)
         \/ \E oldest \in Epochs : Backfill(oldest, ok)
  PROVE  GateStep
<1>1. UNCHANGED <<store, job, prod>>
  BY Zenon DEF TryUpdateFinality, Seal, Backfill, chainVars, progress
<1> QED BY <1>1, GateFrame

(* A restart forgets the truncation and finds no gap to truncate at. *)
LEMMA RestartGate ==
  ASSUME NodeInv, GateInv, NEW ok, NEW reanchor, RestartNode(reanchor, ok)
  PROVE  GateStep
<1>1. Continuous = store
  BY NoGap DEF NodeInv, GateInv
<1>2. store' = store /\ job' = [w \in Workers |-> Idle] /\ prod' = NoBuild
  BY <1>1, Zenon DEF RestartNode
<1>3. prod'.pc = "idle" /\ \A w \in Workers : job'[w].pc = "idle"
  BY <1>2 DEF NoBuild, Idle
<1>4. StoreClosed'
  BY <1>2 DEF GateInv, StoreClosed
<1> QED BY <1>2, <1>3, <1>4 DEF GateStep, GateInv

(* Every step of a node with one inserter. *)
LEMMA StepGate ==
  ASSUME OneInserter, IInv(qpos), NodeInv, GateInv, NodeNext, GateStands
  PROVE  GateStep
<1>1. CASE \E w \in Workers :
             \/ \E b \in Blocks \ ({Genesis} \cup OwnBlocks) : Receive(w, b) \/ ReceiveFork(w, b)
             \/ PutBlock(w)
             \/ ApplyBlock(w)
  BY <1>1, ReceiveGate, ReceiveForkGate, PutGate, MoveGate
<1>2. CASE \E w \in Workers, ok \in DiskOutcomes :
             \/ TruncateForFork(w, ok) \/ DecideHead(w, ok) \/ WriteSlotRoot(w, ok) \/ AdoptFinality(w, ok)
             \/ WriteEpochRoot(w, ok) \/ EnsureEpochState(w, ok)
  BY <1>2, TruncateGate, MoveGate
<1>3. ASSUME NEW b \in OwnBlocks, BuildBlock(b) PROVE FALSE
  BY <1>3 DEF OneInserter
<1>4. ASSUME NEW ok \in DiskOutcomes,
             CommitProduced(ok) \/ ProducedEpochRoot(ok) \/ ProducedEnsure(ok) \/ StoreProduced(ok)
      PROVE  FALSE
  BY <1>4 DEF CommitProduced, ProducedEpochRoot, ProducedEnsure, StoreProduced, GateInv
<1>5. ASSUME NEW ok \in DiskOutcomes,
             (\E from \in RollbackHeights : RollbackHead(from, ok)) \/ RollbackStore(ok)
      PROVE  FALSE
  BY <1>5 DEF OneInserter, RollbackStore, NodeInv, CountersOK
<1>6. ASSUME NEW ok \in DiskOutcomes,
             \/ TryUpdateFinality(ok)
             \/ \E b \in SealableBlocks : Seal(b, ok)
             \/ \E oldest \in Epochs : Backfill(oldest, ok)
             \/ \E reanchor \in BOOLEAN : RestartNode(reanchor, ok)
      PROVE  GateStep
  BY <1>6, EngineGate, RestartGate
<1> QED BY <1>1, <1>2, <1>3, <1>4, <1>5, <1>6, Zenon DEF NodeNext

(***************************************************************************)
(* ProcessBlock's rollbackBelowFinality: a node with one inserter, also    *)
(* one that accepts forks at any height, restarts and fails to write,      *)
(* never deletes a stored block at or below the finalized checkpoint's     *)
(* slot, provided finality does not grow between the gate and the          *)
(* truncation: the two are not one step of the code.                       *)
(***************************************************************************)
THEOREM GateProtects ==
  ASSUME OneInserter
  PROVE  NodeSpec /\ [][GateStands]_vars =>
           []GateInv /\ [][Protected(qpos) \cap store \subseteq store']_vars
<1>1. NodeInit => GateInv
  BY DEF NodeInit, GateInv, StoreClosed, Idle, NoBuild
<1>2. GateInv /\ UNCHANGED vars => GateInv'
  BY DEF GateInv, StoreClosed, Protected, vars, chainVars, progress
<1>3. IInv(qpos) /\ NodeInv /\ GateInv /\ [NodeNext]_vars /\ [GateStands]_vars =>
        GateInv' /\ [Protected(qpos) \cap store \subseteq store']_vars
  <2>1. IInv(qpos) /\ NodeInv /\ GateInv /\ NodeNext /\ GateStands =>
          GateInv' /\ Protected(qpos) \cap store \subseteq store'
    BY StepGate DEF GateStep
  <2> QED BY <1>2, <2>1
<1>4. NodeSpec => Spec
  BY NodeDrivesEngine DEF DrivesEngine
<1> QED BY <1>1, <1>3, <1>4, Invariance, NodeInvariance, PTL DEF NodeSpec

(* The engine's slot of the finalized checkpoint reaches the finalized block. *)
SlotKnown == HasFinalizedBlock => SlotOf(qpos.finalized.root) <= FinalizedCheckpointSlot(qpos)

(***************************************************************************)
(* ... and so never deletes the finalized block, as long as the engine     *)
(* does not understate its slot.  It does after EnsureEpochBlockRoot took  *)
(* the parent of a block in the middle of an epoch for the epoch's root.   *)
(***************************************************************************)
THEOREM GateKeepsFinalized ==
  ASSUME OneInserter
  PROVE  NodeSpec /\ [][GateStands]_vars /\ []SlotKnown => FinalizedBlockKept
<1>1. NodeInv /\ SlotKnown /\ [Protected(qpos) \cap store \subseteq store']_vars =>
        [HasFinalizedBlock /\ qpos.finalized.root \in store => qpos.finalized.root \in store']_vars
  <2> SUFFICES ASSUME NodeInv, SlotKnown, Protected(qpos) \cap store \subseteq store',
                      HasFinalizedBlock, qpos.finalized.root \in store
               PROVE  qpos.finalized.root \in store'
    OBVIOUS
  <2>1. HasFinalityFloor(qpos)
    BY DEF HasFinalizedBlock, HasFinalityFloor
  <2>2. qpos.finalized.root \in Protected(qpos)
    BY <2>1 DEF NodeInv, StoreOK, SlotKnown, Protected
  <2> QED BY <2>2
<1> QED BY <1>1, GateProtects, NodeInvariance, PTL DEF FinalizedBlockKept
=============================================================================
