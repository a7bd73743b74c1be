------------------------------ MODULE SealSubset ------------------------------
(* Which committee positions sign which attempt of which slot                *)
(* (src/node/tdilithium3_signing_seal.go): the committee minus one pair, the *)
(* pairs being those of the round-robin round the slot falls in.             *)
EXTENDS Integers, FiniteSets, SequencesExt

Positions(size) == 0 .. size - 1

\* The circle method: an odd committee plays with a bye.
Players(size) == size + (size % 2)

CycleLength(size) == Players(size) - 1

\* tdilithium3SealRoundPairs before the sort. The pair that holds the bye
\* leaves nobody out and is dropped.
RoundPairs(size, slot) ==
    LET last == Players(size) - 1
        round == slot % last
        facing(k) == {(round + k) % last, (round - k + last) % last}
    IN  {pair \in {{round, last}} \cup
                  {facing(k) : k \in 1 .. Players(size) \div 2 - 1} :
            pair \subseteq Positions(size)}

\* The pairs of a round are disjoint, so their least members order them.
Sorted(pairs) ==
    SetToSortSeq(pairs, LAMBDA p, q : \A b \in q : \E a \in p : a < b)

Stake(stakes, set) == SumFunctionOnSet(stakes, set)

\* weights.admits: the stake of those who stay must reach the required weight.
Admits(size, stakes, required, pair) ==
    Stake(stakes, Positions(size) \ pair) >= required

\* tdilithium3SealAttemptPairs. No two rounds of a cycle share a pair, so the
\* code's duplicate check has nothing to refuse.
AttemptPairs(size, slot, stakes, required) ==
    LET admitted(round) == SelectSeq(Sorted(RoundPairs(size, round)),
                             LAMBDA p : Admits(size, stakes, required, p))
        cycle == FlattenSeq([k \in 1 .. CycleLength(size) |-> admitted(slot + k - 1)])
    IN  SubSeq(cycle, 1, IF Len(cycle) < size \div 2 THEN Len(cycle)
                                                     ELSE size \div 2)

\* tdilithium3SealSigningSubset of a canonically ordered committee.
Subset(size, threshold, slot, attempt, stakes, required) ==
    LET pairs == AttemptPairs(size, slot, stakes, required)
    IN  IF size - threshold # 2 \/ pairs = << >>
        THEN Positions(threshold)
        ELSE Positions(size) \ pairs[(attempt % Len(pairs)) + 1]

-------------------------------------------------------------------------------
(* What the comment on tdilithium3SealSigningSubset says of the walk, for     *)
(* the pinned committees of 6 and 7. TLC evaluates it.                        *)
PairsOf(size) == {p \in SUBSET Positions(size) : Cardinality(p) = 2}

Cycle(size) == 0 .. CycleLength(size) - 1

\* Over one full cycle every pair sits out exactly once.
ASSUME EveryPairOnce ==
    \A size \in {6, 7} : \A p \in PairsOf(size) :
        Cardinality({slot \in Cycle(size) : p \in RoundPairs(size, slot)}) = 1

\* Of the six attempts of a slot every member but the bye sits out two.
ASSUME EveryMemberSitsOut ==
    \A size \in {6, 7} : \A slot \in Cycle(size) : \A m \in Positions(size) :
        LET equal == [p \in Positions(size) |-> 1]
            out == {a \in 0 .. 5 : m \notin Subset(size, size - 2, slot, a, equal, 0)}
        IN  Cardinality(out) = IF size = 7 /\ m = slot % 7 THEN 0 ELSE 2

\* When some pair can be spared, the signers of every attempt hold the
\* required stake, here two thirds of stakes of 1 or 3.
ASSUME StakeKept ==
    \A slot \in {0, 3} : \A a \in 0 .. 5 : \A stakes \in [Positions(6) -> {1, 3}] :
        LET required == (2 * Stake(stakes, Positions(6)) + 2) \div 3
            signers == Subset(6, 4, slot, a, stakes, required)
        IN  /\ Cardinality(signers) = 4
            /\ (\E p \in PairsOf(6) : Admits(6, stakes, required, p))
                  => Stake(stakes, signers) >= required
===============================================================================
