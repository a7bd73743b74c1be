------------------------------ MODULE BlockTree ------------------------------
(***************************************************************************)
(* The blocks a node can ever see and the checkpoint arithmetic of QPOS.   *)
(*                                                                         *)
(* A block is identified with its hash.  Its header fixes the parent, the  *)
(* height, the slot and the two finality checkpoints its proposer stamped  *)
(* into it, so a run is given one finite tree of blocks and everything a   *)
(* node does is a choice among them.                                       *)
(***************************************************************************)
EXTENDS Integers, FiniteSets, FiniteSetsExt

CONSTANTS
  Blocks,         \* the block hashes of the run
  Genesis,        \* the genesis block
  Header,         \* [Blocks -> header record], see HeaderType
  HashOrder,      \* [Blocks -> Nat], the order of the hashes as big-endian integers
  NoRoot,         \* types.Hash{}: "no root", a missing map entry or a zero hash
  SlotsPerEpoch,  \* 32 in the code
  MaxEpoch        \* bound: no block of the run lies beyond this epoch

Root   == Blocks \cup {NoRoot}
Epochs == 0 .. MaxEpoch
Slots  == 0 .. (MaxEpoch + 1) * SlotsPerEpoch - 1

SlotToEpoch(slot)     == slot \div SlotsPerEpoch
EpochStartSlot(epoch) == epoch * SlotsPerEpoch
IsBoundary(slot)      == slot % SlotsPerEpoch = 0

SlotOf(b)   == Header[b].slot
ParentOf(b) == Header[b].parent
HeightOf(b) == Header[b].height
EpochOf(b)  == SlotToEpoch(SlotOf(b))

HeaderType ==
  [parent : Root, height : Nat, slot : Slots, justifiedEpoch : Epochs, finalizedEpoch : Epochs]

(***************************************************************************)
(* HeaderFinalityCheckpointsValid: the block validator rejects a header    *)
(* whose checkpoints lie beyond its own epoch.                             *)
(***************************************************************************)
HeaderFinalityCheckpointsValid(h) ==
  /\ h.justifiedEpoch <= SlotToEpoch(h.slot)
  /\ h.finalizedEpoch <= SlotToEpoch(h.slot)

ASSUME ConstantsAssumption ==
  /\ SlotsPerEpoch \in Nat \ {0}
  /\ MaxEpoch \in Nat
  /\ Genesis \in Blocks
  /\ NoRoot \notin Blocks

(***************************************************************************)
(* What block validation guarantees of every header that is imported.  The *)
(* last conjunct is not validated: a proposer stamps its own ratchet into  *)
(* the header, where the finalized epoch never exceeds the justified one.  *)
(***************************************************************************)
ASSUME HeaderAssumption ==
  /\ Header \in [Blocks -> HeaderType]
  /\ \A b \in Blocks : /\ EpochOf(b) \in Epochs
                       /\ HeaderFinalityCheckpointsValid(Header[b])
                       /\ Header[b].finalizedEpoch <= Header[b].justifiedEpoch

ASSUME TreeAssumption ==
  /\ Header[Genesis].parent = NoRoot /\ Header[Genesis].height = 0 /\ Header[Genesis].slot = 0
  /\ \A b \in Blocks \ {Genesis} :
       /\ ParentOf(b) \in Blocks
       /\ SlotOf(b) > SlotOf(ParentOf(b))
       /\ HeightOf(b) = HeightOf(ParentOf(b)) + 1

-----------------------------------------------------------------------------
(* Chains.  Chain(b) is b with all its ancestors. *)

Lineage[b \in Blocks] == {b} \cup (IF b = Genesis THEN {} ELSE Lineage[ParentOf(b)])

Chain(b) == Lineage[b] \cap Blocks

Highest(S) == CHOOSE b \in S : \A c \in S : HeightOf(c) <= HeightOf(b)
Lowest(S)  == CHOOSE b \in S : \A c \in S : HeightOf(b) <= HeightOf(c)

(***************************************************************************)
(* The checkpoint of epoch e on the chain of b: the block on the epoch's   *)
(* boundary slot, else the highest block below it.                         *)
(***************************************************************************)
CheckpointOn(b, e) == Highest({a \in Chain(b) : SlotOf(a) <= EpochStartSlot(e)})

(***************************************************************************)
(* Blocks are walked from a tip towards genesis through the block store    *)
(* for at most depth blocks; the tip itself need not be stored.            *)
(***************************************************************************)
Walk(store, tip, depth) ==
  {a \in Chain(tip) :
     /\ HeightOf(tip) - HeightOf(a) < depth
     /\ \A c \in Chain(tip) : HeightOf(a) <= HeightOf(c) /\ c # tip => c \in store}

(***************************************************************************)
(* The root an epoch gets from the first block of the epoch in a segment:  *)
(* the block's own hash when it sits on the boundary slot, else the hash   *)
(* of its parent.                                                          *)
(***************************************************************************)
EpochRootFrom(segment, e) ==
  LET inEpoch == {b \in segment : EpochOf(b) = e}
      first   == Lowest(inEpoch)
  IN IF inEpoch = {} THEN NoRoot
     ELSE IF IsBoundary(SlotOf(first)) THEN first ELSE ParentOf(first)
=============================================================================
