------------------------------- MODULE MCSealing -------------------------------
(***************************************************************************)
(* Sealing on a small committee: the attempts of one slot (SealAttempts)   *)
(* and one candidate session of one attempt (ThresholdSigning).  The two   *)
(* share no variable and every property is about one of them, so their     *)
(* parallel composition is explored one layer at a time: the other rests   *)
(* in its initial state.                                                   *)
(***************************************************************************)
EXTENDS ThresholdSigning, SealAttempts, SealSubset

CONSTANTS Size, Slots

VARIABLE layer

\* The transcript of signer j computed from draw v, with the given bits.
Transcript(j, v, bits) ==
  {Message(j, kind, v, None) : kind \in {"commit", "reveal", "response"}}
    \cup {Message(j, "acceptance", v, b) : b \in bits}

\* Signer 1's node may build two parties, signer 2's node one.
TwoForOne == {<<1, 1>>, <<1, 2>>, <<2, 1>>}

\* For signers 1 and 2 of three: signer 3 may accept or reject, tell one of
\* them the first and the other the second, and send a reveal of another draw.
ThirdSigner == Transcript(3, 1, Bits) \cup {Message(3, "reveal", 2, None)}

Committee == Positions(Size)

EqualStakes == [p \in Committee |-> 1]

\* Two members sit out, as in the pinned rows 4 of 6 and 5 of 7.
SlotSchedules ==
  {[a \in Ordinals |-> Subset(Size, Size - 2, slot, a, EqualStakes, 0)] :
      slot \in Slots}

allVars == <<vars, sealVars, layer>>

SealingInit ==
  /\ Init /\ SealInit
  /\ layer \in {"session", "attempts"}
  /\ layer = "session" => offline = {}

SealingNext ==
  \/ layer = "session" /\ Next /\ UNCHANGED <<sealVars, layer>>
  \/ layer = "attempts" /\ SealNext /\ UNCHANGED <<vars, layer>>

\* Goroutines, timers and delivery keep going; mishaps need not happen.
SealingSpec ==
  /\ SealingInit /\ [][SealingNext]_allVars
  /\ WF_allVars(layer = "attempts" /\ SealWork /\ UNCHANGED <<vars, layer>>)

\* The attempts of a slot, when it is their layer that moves.
CommitteeSeals == layer = "attempts" => SlotSealed
================================================================================
