-------------------------- MODULE ParallelQVM_proof --------------------------
(***************************************************************************)
(* Proofs about ParallelQVM, for every batch of transfers, every number of *)
(* workers and every bound on the retries.                                 *)
(***************************************************************************)
EXTENDS ParallelQVM_facts

-----------------------------------------------------------------------------
(* The rounds *)

(* Outside a round no call is in hand. *)
LEMMA NobodyRuns ==
  ASSUME QueueInv, stage # "running", NEW w \in Workers
  PROVE  worker[w].pc = "idle"
BY DEF QueueInv, InHand

(* A round starts with the calls that no other call holds back. *)
LEMMA RoundStepInv == ASSUME IInv, Round PROVE IInv'
<1>1. /\ stage = "round" /\ stage' = "running" /\ mem' = Clear(Accounts)
      /\ results' = [i \in Calls |-> NoResult]
      /\ deps' = IF speculative THEN {} ELSE AnalyzeDependencies
      /\ completed' = {}
      /\ ready' \in Orders(Calls \ Waiting(deps', {}))
      /\ UNCHANGED <<calls, speculative, base, incarnations, touched, worker, retries>>
  BY DEF Round
<1>2. TypeInv /\ QueueInv /\ RoundInv
  BY DEF IInv
<1>3. Calls' = Calls /\ VersionType' = VersionType /\ ResultType' = ResultType
      /\ WorkerType' = WorkerType
  BY <1>1, TypesUnchanged
<1>4. /\ ready' \in Seq(Calls \ Waiting(deps', {})) /\ ready' \in Seq(Calls)
      /\ \A m, n \in DOMAIN ready' : m # n => ready'[m] # ready'[n]
  BY <1>1, <1>2, ListingFacts
<1>5. TypeInv'
  <2>1. mem' \in [Accounts -> Partial(Calls, VersionType)]
    BY <1>1, ClearFacts, Zenon
  <2>2. results' \in [Calls -> ResultType]
    BY <1>1, NoResultType
  <2>3. deps' \subseteq Calls \X Calls
    BY <1>1 DEF AnalyzeDependencies
  <2>4. completed' \subseteq Calls /\ stage' \in Stages
    BY <1>1 DEF Stages
  <2> QED BY <1>1, <1>2, <1>3, <1>4, <2>1, <2>2, <2>3, <2>4 DEF TypeInv
<1>6. QueueInv'
  <2>1. Waiting(deps, completed)' = Waiting(deps', {})
    BY <1>1 DEF Waiting
  <2>2. \A n \in DOMAIN ready' : ready'[n] \notin Waiting(deps', {})
    <3>1. \A n \in DOMAIN ready' : ready'[n] \in Calls \ Waiting(deps', {})
      BY <1>4
    <3> QED BY <3>1
  <2>3. \A w \in Workers : ~InHand(w)'
    BY <1>1, <1>2, NobodyRuns DEF InHand
  <2> QED BY <1>1, <1>4, <2>1, <2>2, <2>3 DEF QueueInv
<1>7. GraphInv'
  <2> SUFFICES ASSUME ~speculative, NEW j \in Calls, NEW i \in 1 .. j - 1,
                      calls[i].contract = calls[j].contract
               PROVE  <<j, i>> \in deps'
    BY <1>1, <1>3 DEF GraphInv
  <2>1. i \in Calls /\ i < j
    BY <1>2, BatchFacts
  <2>2. <<j, i>> \in AnalyzeDependencies
    BY <2>1 DEF AnalyzeDependencies, hasConflict
  <2> QED BY <1>1, <2>2
<1>8. RoundInv'
  BY <1>1, <1>2, <1>3 DEF RoundInv
<1>9. MemInv'
  <2>1. OwnVersions(mem')
    BY <1>1, ClearFacts, Zenon
  <2> QED BY <1>1, <2>1 DEF MemInv, OwnVersions, Parties
<1>10. WorkerInv'
  BY <1>1, <1>2, NobodyRuns DEF WorkerInv, WorkerOK
<1>11. ResultInv'
  BY <1>1, <1>3 DEF ResultInv, NoResult
<1>12. FallbackInv' /\ ValidatedIsSerial'
  BY <1>1 DEF FallbackInv, ValidatedIsSerial
<1> QED BY <1>5, <1>6, <1>7, <1>8, <1>9, <1>10, <1>11, <1>12 DEF IInv

(* A round ends: it is accepted, repeated or left to the fallback. *)
LEMMA FinishRoundInv == ASSUME IInv, FinishRound PROVE IInv'
<1> DEFINE failed == \E i \in Calls : ~results[i].success
           bad == {i \in Calls : Invalid(i)}
           valid == ~failed /\ bad = {}
<1>1. /\ stage = "running" /\ completed = Calls
      /\ \A w \in Workers : worker[w].pc = "idle"
      /\ retries' = retries + 1
      /\ touched' = [i \in Calls |->
                       [touched[i] EXCEPT !.writes = @ \cup DOMAIN results[i].writes]]
      /\ base' = IF valid THEN Merged(results) ELSE base
      /\ incarnations' = IF failed \/ valid THEN incarnations
                         ELSE [incarnations EXCEPT ![Min(bad)] = @ + 1]
      /\ stage' = IF valid THEN "validated"
                  ELSE IF retries' < MaxRetries THEN "round" ELSE "sequential"
      /\ completed' = IF valid \/ retries' < MaxRetries THEN completed ELSE {}
      /\ UNCHANGED <<calls, speculative, mem, results, ready, deps, worker>>
  BY Zenon DEF FinishRound
<1>2. TypeInv /\ QueueInv /\ RoundInv /\ MemInv /\ ResultInv
  BY DEF IInv
<1>3. valid => Merged(results) = Serial[Len(calls)] /\ \A i \in Calls : Payable(i)
  <2> SUFFICES ASSUME valid PROVE Merged(results) = Serial[Len(calls)] /\ \A i \in Calls : Payable(i)
    OBVIOUS
  <2>1. \A i \in Calls : results[i].success
    OBVIOUS
  <2>2. \A i \in Calls : ~StaleRead(i)
    BY DEF Invalid
  <2> QED BY <1>1, <1>2, <2>1, <2>2, ValidRound
<1>4. ~valid => Calls # {}
  OBVIOUS
<1> HIDE DEF failed, bad, valid
<1>5. /\ Calls' = Calls /\ VersionType' = VersionType /\ ResultType' = ResultType
      /\ WorkerType' = WorkerType /\ Serial' = Serial
  BY <1>1, TypesUnchanged, SerialUnchanged
<1>6. /\ base = Balances /\ retries < MaxRetries /\ retries \in Nat /\ MaxRetries \in Nat
      /\ incarnations \in [Calls -> 0 .. MaxRetries]
      /\ \A i \in Calls : incarnations[i] <= retries
  BY <1>1, <1>2, ParallelAssumption DEF RoundInv, TypeInv
<1>7. /\ incarnations' \in [Calls -> 0 .. MaxRetries]
      /\ \A i \in Calls : incarnations'[i] <= retries'
  <2>1. CASE failed \/ valid
    BY <1>1, <1>6, <2>1
  <2>2. CASE ~(failed \/ valid)
    <3>1. incarnations' = [incarnations EXCEPT ![Min(bad)] = @ + 1]
      BY <1>1, <2>2
    <3>2. \A i \in Calls : incarnations'[i] \in {incarnations[i], incarnations[i] + 1}
      BY <1>6, <3>1
    <3>3. incarnations' = [i \in Calls |-> incarnations'[i]]
      BY <1>6, <3>1, Zenon
    <3>4. \A i \in Calls : incarnations'[i] \in 0 .. MaxRetries /\ incarnations'[i] <= retries + 1
      BY <1>6, <3>2
    <3>5. retries' = retries + 1
      BY <1>1
    <3>6. incarnations' \in [Calls -> 0 .. MaxRetries]
      BY <3>3, <3>4
    <3> QED BY <3>4, <3>5, <3>6
  <2> QED BY <2>1, <2>2
<1>8. base' \in [Accounts -> Nat]
  <2>1. Serial[Len(calls)] \in [Accounts -> Nat]
    BY <1>2, BatchFacts, SerialFacts
  <2> QED BY <1>1, <1>2, <1>3, <2>1 DEF TypeInv
<1>9. touched' \in [Calls -> [reads : SUBSET Accounts, writes : SUBSET Accounts]]
  <2>1. touched \in [Calls -> [reads : SUBSET Accounts, writes : SUBSET Accounts]]
    BY <1>2 DEF TypeInv
  <2>2. \A i \in Calls : DOMAIN results[i].writes \subseteq Accounts
    <3> TAKE i \in Calls
    <3>1. results[i].writes \in Partial(Accounts, Nat)
      BY <1>2 DEF TypeInv, ResultType
    <3> QED BY <3>1, PartialFacts
  <2> QED BY <1>1, <2>1, <2>2
<1>10. TypeInv'
  <2>1. stage' \in Stages
    BY <1>1 DEF Stages
  <2>2. retries' \in 0 .. MaxRetries
    BY <1>1, <1>6
  <2>3. completed' \subseteq Calls
    BY <1>1
  <2> QED BY <1>1, <1>2, <1>5, <1>7, <1>8, <1>9, <2>1, <2>2, <2>3 DEF TypeInv
<1>11. stage' \in {"validated", "round", "sequential"}
  BY <1>1
<1>12. QueueInv'
  <2>1. ready = <<>>
    <3>1. ready \in Seq(Calls)
      BY <1>2 DEF TypeInv
    <3>2. \A n \in DOMAIN ready : ready[n] \notin Calls
      BY <1>1, <1>2 DEF QueueInv
    <3> QED BY <3>1, <3>2
  <2>2. \A w \in Workers : ~InHand(w)'
    BY <1>1 DEF InHand
  <2> QED BY <1>1, <1>11, <2>1, <2>2 DEF QueueInv
<1>13. GraphInv' /\ ResultInv'
  BY <1>11 DEF GraphInv, ResultInv
<1>14. RoundInv'
  <2>1. stage' = "sequential" => completed' = {} /\ Calls # {}
    BY <1>1, <1>4
  <2>2. stage' \in {"round", "running"} => base' = base /\ retries' < MaxRetries
    BY <1>1
  <2> QED BY <1>5, <1>6, <1>7, <2>1, <2>2 DEF RoundInv
<1>15. MemInv'
  BY <1>1, <1>2 DEF MemInv, OwnVersions, Parties
<1>16. WorkerInv'
  BY <1>1 DEF WorkerInv, WorkerOK
<1>17. FallbackInv'
  <2> SUFFICES ASSUME stage' = "sequential" PROVE FallbackInv'
    BY <1>11 DEF FallbackInv
  <2>1. completed' = {} /\ base' = Balances
    BY <1>1, <1>6
  <2>2. (TypeInv /\ completed = {} /\ base = Balances => SerialUpTo(0))'
    BY SerialStart, PTL
  <2>3. SerialUpTo(0)'
    BY <1>10, <2>1, <2>2
  <2>4. 0 \in 0 .. Len(calls)'
    BY <1>1, <1>2, BatchFacts
  <2> QED BY <2>3, <2>4, Zenon DEF FallbackInv
<1>18. ValidatedIsSerial'
  <2> SUFFICES ASSUME stage' = "validated"
               PROVE  base' = Serial'[Len(calls')] /\ \A i \in Calls' : Payable(i)'
    BY DEF ValidatedIsSerial
  <2>1. valid
    BY <1>1
  <2>2. base' = Serial[Len(calls)] /\ \A i \in Calls : Payable(i)
    BY <1>1, <1>3, <2>1
  <2>3. \A i \in Calls : Payable(i)' = Payable(i)
    BY <1>1, <1>5 DEF Payable
  <2> QED BY <1>1, <1>5, <2>2, <2>3
<1> QED BY <1>10, <1>12, <1>13, <1>14, <1>15, <1>16, <1>17, <1>18 DEF IInv

-----------------------------------------------------------------------------
(* The fallback *)

(* Deleting versions leaves the others. *)
LEMMA DeleteFacts ==
  ASSUME NEW m \in [Accounts -> Partial(Calls, VersionType)], OwnVersions(m),
         NEW tx, NEW inc
  PROVE  /\ DeleteVersion(m, tx, inc) \in [Accounts -> Partial(Calls, VersionType)]
         /\ OwnVersions(DeleteVersion(m, tx, inc))
<1> DEFINE kept(a) == {u \in DOMAIN m[a] : ~(u = tx /\ m[a][u].inc = inc)}
           n == DeleteVersion(m, tx, inc)
<1>1. n = [a \in Accounts |-> Restrict(m[a], kept(a))]
  BY DEF DeleteVersion
<1>2. ASSUME NEW a \in Accounts
      PROVE  /\ Restrict(m[a], kept(a)) \in Partial(Calls, VersionType)
             /\ DOMAIN Restrict(m[a], kept(a)) \subseteq DOMAIN m[a]
             /\ \A u \in DOMAIN Restrict(m[a], kept(a)) : Restrict(m[a], kept(a))[u] = m[a][u]
  <2>1. m[a] \in Partial(Calls, VersionType)
    OBVIOUS
  <2>2. DOMAIN m[a] \subseteq Calls /\ \A u \in DOMAIN m[a] : m[a][u] \in VersionType
    BY <2>1, PartialFacts
  <2>3. kept(a) \subseteq DOMAIN m[a]
    OBVIOUS
  <2> HIDE DEF kept
  <2>4. Restrict(m[a], kept(a)) = [u \in kept(a) |-> m[a][u]]
    BY DEF Restrict
  <2>5. Restrict(m[a], kept(a)) \in [kept(a) -> VersionType] /\ kept(a) \in SUBSET Calls
    BY <2>2, <2>3, <2>4
  <2>6. Restrict(m[a], kept(a)) \in Partial(Calls, VersionType)
    BY <2>5, Zenon DEF Partial
  <2> QED BY <2>3, <2>4, <2>6
<1> HIDE DEF kept, n
<1>3. n \in [Accounts -> Partial(Calls, VersionType)]
  BY <1>1, <1>2
<1>4. \A a \in Accounts : DOMAIN n[a] \subseteq DOMAIN m[a] /\ \A u \in DOMAIN n[a] : n[a][u] = m[a][u]
  BY <1>1, <1>2
<1>5. OwnVersions(n)
  BY <1>4 DEF OwnVersions
<1> QED BY <1>3, <1>5 DEF n

(* Deleting the versions of a call leaves an account it has not written. *)
LEMMA DeleteOther ==
  ASSUME NEW m \in [Accounts -> Partial(Calls, VersionType)], NEW a \in Accounts, NEW tx, NEW inc,
         tx \notin DOMAIN m[a]
  PROVE  DeleteVersion(m, tx, inc)[a] = m[a]
<1> DEFINE kept == {u \in DOMAIN m[a] : ~(u = tx /\ m[a][u].inc = inc)}
<1>1. DeleteVersion(m, tx, inc)[a] = Restrict(m[a], kept)
  BY DEF DeleteVersion
<1>2. kept = DOMAIN m[a]
  OBVIOUS
<1>3. m[a] = [u \in DOMAIN m[a] |-> m[a][u]]
  <2>1. m[a] \in Partial(Calls, VersionType)
    OBVIOUS
  <2> QED BY <2>1 DEF Partial
<1> HIDE DEF kept
<1> QED BY <1>1, <1>2, <1>3 DEF Restrict

\* The result of call i alone, as executeSequentially applies it.
Alone(i, r) == [j \in {i} |-> r]

(* Applying one result changes what it has written. *)
LEMMA MergedOne ==
  ASSUME NEW i \in Nat, NEW r \in ResultType
  PROVE  Merged(Alone(i, r)) =
           [a \in Accounts |-> IF r.success /\ a \in DOMAIN r.writes THEN r.writes[a] ELSE base[a]]
<1> DEFINE rs == [j \in {i} |-> r]
           W(a) == {j \in DOMAIN rs : rs[j].success /\ a \in DOMAIN rs[j].writes}
<1>1. Merged(rs) = [a \in Accounts |-> IF W(a) = {} THEN base[a] ELSE rs[Max(W(a))].writes[a]]
  BY Zenon DEF Merged
<1>4. r.success \in BOOLEAN
  BY DEF ResultType
<1>2. ASSUME NEW a \in Accounts
      PROVE  (IF W(a) = {} THEN base[a] ELSE rs[Max(W(a))].writes[a]) =
             IF r.success /\ a \in DOMAIN r.writes THEN r.writes[a] ELSE base[a]
  <2>1. CASE r.success /\ a \in DOMAIN r.writes
    <3>1. W(a) = {i} /\ rs[i] = r
      BY <1>4, <2>1
    <3>2. {i} \in SUBSET (0 .. i) /\ {i} # {}
      OBVIOUS
    <3>3. Max({i}) = i
      BY <3>2, MaxFacts
    <3> HIDE DEF W, rs
    <3> QED BY <2>1, <3>1, <3>3
  <2>2. CASE ~(r.success /\ a \in DOMAIN r.writes)
    <3>1. W(a) = {}
      BY <2>2
    <3> QED BY <2>2, <3>1
  <2> QED BY <2>1, <2>2
<1> HIDE DEF W, rs
<1>3. Merged(rs) = [a \in Accounts |->
                      IF r.success /\ a \in DOMAIN r.writes THEN r.writes[a] ELSE base[a]]
  BY <1>1, <1>2
<1> QED BY <1>3 DEF rs, Alone

\* What executeSequentially does with call i and its result r.
Applied(i, r) ==
  LET c == calls[i]
      from == find(mem, c.caller, i, base)
      to == find(mem, c.contract, i, base)
  IN  /\ r.success = (c.value = 0 \/ from.val >= c.value)
      /\ IF r.success /\ c.value > 0
         THEN /\ DOMAIN r.writes = Parties(i)
              /\ IF c.caller = c.contract THEN r.writes[c.caller] = from.val
                 ELSE /\ r.writes[c.caller] = from.val - c.value
                      /\ r.writes[c.contract] = to.val + c.value
              /\ mem' = add(add(mem, c.caller, i, incarnations[i], r.writes[c.caller]),
                            c.contract, i, incarnations[i], r.writes[c.contract])
         ELSE /\ DOMAIN r.writes = {}
              /\ \/ mem' = mem
                 \/ ~r.success /\ mem' = DeleteVersion(mem, i, incarnations[i])
      /\ results' = [results EXCEPT ![i] = r]
      /\ base' = [a \in Accounts |-> IF a \in DOMAIN r.writes THEN r.writes[a] ELSE base[a]]
      /\ touched' = [touched EXCEPT ![i].reads = @ \cup DOMAIN r.reads]
      /\ completed' = completed \cup {i}
      /\ stage' = IF completed' = Calls THEN "fallback" ELSE "sequential"
      /\ UNCHANGED <<calls, speculative, incarnations, ready, deps, worker, retries>>

(* SequentialCall applies the first call that is left, on what find returns. *)
LEMMA SequentialFacts ==
  ASSUME IInv, SequentialCall
  PROVE  \E i \in Calls \ completed, r \in ResultType :
           (\A m \in Calls \ completed : i <= m) /\ Applied(i, r)
<1> DEFINE i == Min(Calls \ completed)
           c == calls[i]
           from == GetBalance(i, <<>>, c.caller)
           success == c.value = 0 \/ from.val >= c.value
           debited == put(<<>>, c.caller, from.val - c.value)
           to == GetBalance(i, debited, c.contract)
           writes == IF success /\ c.value > 0
                     THEN put(debited, c.contract, to.val + c.value) ELSE <<>>
           reads == IF c.value = 0 THEN <<>>
                    ELSE IF success
                         THEN recordRead(recordRead(<<>>, c.caller, from), c.contract, to)
                    ELSE recordRead(<<>>, c.caller, from)
           written(m, a) == add(m, a, i, incarnations[i], writes[a])
           r == [success |-> success, reads |-> reads, writes |-> writes,
                 incarnation |-> incarnations[i]]
<1>1. /\ stage = "sequential"
      /\ results' = [results EXCEPT ![i] = r]
      /\ mem' = CASE writes # <<>> -> written(written(mem, c.caller), c.contract)
                  [] ~success /\ Len(calls) = 1 -> DeleteVersion(mem, i, incarnations[i])
                  [] OTHER -> mem
      /\ base' = Merged([j \in {i} |-> results'[i]])
      /\ touched' = [touched EXCEPT ![i].reads = @ \cup DOMAIN reads]
      /\ completed' = completed \cup {i}
      /\ stage' = IF completed' = Calls THEN "fallback" ELSE "sequential"
      /\ UNCHANGED <<calls, speculative, incarnations, ready, deps, worker, retries>>
  BY Zenon DEF SequentialCall
<1>2. TypeInv /\ RoundInv /\ MemInv
  BY DEF IInv
<1>3. i \in Calls \ completed /\ \A m \in Calls \ completed : i <= m
  <2> DEFINE T == Calls \ completed
  <2>1. T \in SUBSET Nat /\ T # {}
    <3>1. completed \subseteq Calls /\ completed # Calls
      BY <1>1, <1>2, Zenon DEF TypeInv, RoundInv
    <3>2. Calls \in SUBSET Nat
      BY <1>2, BatchFacts
    <3> QED BY <3>1, <3>2, Zenon
  <2> HIDE DEF T
  <2>2. \E x \in T : \A y \in T : x <= y
    BY <2>1, LeastNat, Zenon
  <2>3. Min(T) \in T /\ \A y \in T : Min(T) <= y
    BY <2>2, Zenon DEF Min
  <2> QED BY <2>3 DEF T
<1> HIDE DEF i
<1>4. /\ i \in Calls /\ i \in Nat \ {0} /\ incarnations[i] \in 0 .. MaxRetries
      /\ c.caller \in Accounts /\ c.contract \in Accounts /\ c.value \in Nat
  BY <1>2, <1>3, BatchFacts DEF TypeInv
<1>5. /\ DOMAIN <<>> = {} /\ <<>> \in Partial(Accounts, VersionType)
      /\ <<>> \in Partial(Accounts, Nat)
  BY EmptyMap
<1>6. from \in VersionType /\ from = find(mem, c.caller, i, base) /\ from.val \in Nat
  <2>1. from \in VersionType /\ from = find(mem, c.caller, i, base)
    BY <1>2, <1>4, <1>5, GetBalanceFacts
  <2> QED BY <2>1 DEF VersionType
<1> HIDE DEF c, from
<1>7. success => /\ debited \in Partial(Accounts, Nat) /\ DOMAIN debited = {c.caller}
                 /\ debited[c.caller] = from.val - c.value
  <2> SUFFICES ASSUME success
               PROVE  /\ debited \in Partial(Accounts, Nat) /\ DOMAIN debited = {c.caller}
                      /\ debited[c.caller] = from.val - c.value
    OBVIOUS
  <2>1. from.val - c.value \in Nat
    BY <1>4, <1>6
  <2>2. debited \in Partial(Accounts, Nat)
    BY <1>4, <1>5, <2>1, PutType
  <2>3. DOMAIN debited = {c.caller} /\ debited[c.caller] = from.val - c.value
    BY DEF put
  <2> QED BY <2>2, <2>3
<1> HIDE DEF debited
<1>8. success => /\ to \in VersionType /\ to.val \in Nat
                 /\ to.val = IF c.caller = c.contract THEN from.val - c.value
                             ELSE find(mem, c.contract, i, base).val
  <2> SUFFICES ASSUME success
               PROVE  /\ to \in VersionType /\ to.val \in Nat
                      /\ to.val = IF c.caller = c.contract THEN from.val - c.value
                                  ELSE find(mem, c.contract, i, base).val
    OBVIOUS
  <2>1. /\ to \in VersionType
        /\ c.contract \in DOMAIN debited => to = Version(i, incarnations[i], debited[c.contract])
        /\ c.contract \notin DOMAIN debited => to = find(mem, c.contract, i, base)
    BY <1>2, <1>4, <1>7, GetBalanceFacts
  <2>2. to.val \in Nat
    BY <2>1 DEF VersionType
  <2> HIDE DEF to, success
  <2> QED BY <1>7, <2>1, <2>2 DEF Version
<1> HIDE DEF to
<1>9. /\ writes # <<>> => mem' = written(written(mem, c.caller), c.contract)
      /\ writes = <<>> => \/ mem' = mem
                          \/ ~success /\ mem' = DeleteVersion(mem, i, incarnations[i])
  <2> DEFINE m2 == written(written(mem, c.caller), c.contract)
             gone == DeleteVersion(mem, i, incarnations[i])
  <2>1. mem' = CASE writes # <<>> -> m2
                 [] ~success /\ Len(calls) = 1 -> gone
                 [] OTHER -> mem
    BY <1>1, Zenon
  <2>3. writes # <<>> => success
    OBVIOUS
  <2> HIDE DEF m2, gone, writes, success
  <2>2. /\ writes # <<>> => mem' = m2
        /\ writes = <<>> => mem' = mem \/ (~success /\ mem' = gone)
    BY <2>1, <2>3
  <2> QED BY <2>2, Zenon DEF m2, gone
<1>10. CASE success /\ c.value > 0
  <2>1. writes = put(debited, c.contract, to.val + c.value)
    BY <1>10
  <2>2. /\ DOMAIN writes = {c.caller, c.contract}
        /\ writes[c.contract] = to.val + c.value
        /\ c.caller # c.contract => writes[c.caller] = from.val - c.value
    BY <1>7, <1>10, <2>1 DEF put
  <2>3. writes \in Partial(Accounts, Nat)
    <3>1. to.val + c.value \in Nat
      BY <1>4, <1>8, <1>10
    <3> QED BY <1>4, <1>7, <1>10, <2>1, <3>1, PutType
  <2>4. reads \in Partial(Accounts, VersionType)
    <3> HIDE DEF success
    <3>1. put(<<>>, c.caller, from) \in Partial(Accounts, VersionType)
      BY <1>4, <1>5, <1>6, PutType
    <3>2. put(put(<<>>, c.caller, from), c.contract, to) \in Partial(Accounts, VersionType)
      BY <1>4, <1>8, <1>10, <3>1, PutType
    <3> QED BY <1>4, <1>10, <3>2 DEF recordRead
  <2> HIDE DEF writes, reads
  <2>5. r \in ResultType /\ r.success = TRUE /\ r.writes = writes /\ r.reads = reads
    <3>1. success = TRUE
      BY <1>10
    <3> HIDE DEF success
    <3>2. incarnations[i] \in Int
      BY <1>4
    <3> QED BY <2>3, <2>4, <3>1, <3>2 DEF ResultType
  <2>6. writes # <<>>
    BY <1>5, <2>2, Zenon
  <2>7. mem' = written(written(mem, c.caller), c.contract)
    BY <1>9, <2>6, Zenon
  <2>8. base' = [a \in Accounts |-> IF a \in DOMAIN r.writes THEN r.writes[a] ELSE base[a]]
    <3>1. results'[i] = r
      BY <1>1, <1>2, <1>4 DEF TypeInv
    <3> HIDE DEF r
    <3>2. base' = Merged(Alone(i, r))
      BY <1>1, <3>1 DEF Alone
    <3>3. r \in ResultType /\ i \in Nat
      BY <1>4, <2>5
    <3>4. base' = [a \in Accounts |-> IF r.success /\ a \in DOMAIN r.writes THEN r.writes[a] ELSE base[a]]
      BY <3>2, <3>3, MergedOne, Zenon
    <3> QED BY <2>5, <3>4
  <2>9. c.caller = c.contract => writes[c.caller] = from.val
    BY <1>4, <1>6, <1>8, <1>10, <2>2
  <2>10. c.caller # c.contract =>
           /\ writes[c.caller] = from.val - c.value
           /\ writes[c.contract] = find(mem, c.contract, i, base).val + c.value
    BY <1>8, <1>10, <2>2
  <2> HIDE DEF r, success
  <2>11. Applied(i, r)
    <3>1. calls[i] = c
      BY DEF c
    <3>2. DOMAIN r.writes = Parties(i)
      BY <2>2, <2>5, <3>1 DEF Parties
    <3>3. from.val >= c.value
      BY <1>4, <1>6, <1>10 DEF success
    <3>4. mem' = add(add(mem, c.caller, i, incarnations[i], r.writes[c.caller]),
                     c.contract, i, incarnations[i], r.writes[c.contract])
      BY <2>5, <2>7
    <3>5. touched' = [touched EXCEPT ![i].reads = @ \cup DOMAIN r.reads]
      BY <1>1, <2>5
    <3> QED BY <1>1, <1>6, <1>10, <2>5, <2>8, <2>9, <2>10, <3>1, <3>2, <3>3, <3>4, <3>5, Zenon
            DEF Applied
  <2> QED BY <1>3, <2>5, <2>11
<1>11. CASE ~(success /\ c.value > 0)
  <2>1. writes = <<>> /\ success \in BOOLEAN
    BY <1>11
  <2>2. reads \in Partial(Accounts, VersionType)
    <3>1. put(<<>>, c.caller, from) \in Partial(Accounts, VersionType)
      BY <1>4, <1>5, <1>6, PutType
    <3> QED BY <1>4, <1>5, <1>11, <3>1 DEF recordRead
  <2> HIDE DEF writes, reads
  <2>3. r \in ResultType /\ r.success = success /\ r.writes = <<>> /\ r.reads = reads
    BY <1>4, <1>5, <2>1, <2>2 DEF ResultType
  <2>4. mem' = mem \/ (~success /\ mem' = DeleteVersion(mem, i, incarnations[i]))
    BY <1>9, <2>1, Zenon
  <2>5. base' = [a \in Accounts |-> IF a \in DOMAIN r.writes THEN r.writes[a] ELSE base[a]]
    <3>1. results'[i] = r
      BY <1>1, <1>2, <1>4 DEF TypeInv
    <3> HIDE DEF r
    <3>2. base' = Merged(Alone(i, r))
      BY <1>1, <3>1 DEF Alone
    <3>3. r \in ResultType /\ i \in Nat
      BY <1>4, <2>3
    <3>4. base' = [a \in Accounts |-> IF r.success /\ a \in DOMAIN r.writes THEN r.writes[a] ELSE base[a]]
      BY <3>2, <3>3, MergedOne, Zenon
    <3> QED BY <1>5, <2>3, <3>4
  <2> HIDE DEF r
  <2>6. Applied(i, r)
    <3>1. calls[i] = c
      BY DEF c
    <3>2. r.success = (c.value = 0 \/ find(mem, c.caller, i, base).val >= c.value)
      BY <1>6, <2>3
    <3>3. touched' = [touched EXCEPT ![i].reads = @ \cup DOMAIN r.reads]
      BY <1>1, <2>3
    <3> HIDE DEF success
    <3> QED BY <1>1, <1>5, <1>11, <2>3, <2>4, <2>5, <3>1, <3>2, <3>3 DEF Applied
  <2> QED BY <1>3, <2>3, <2>6
<1> QED BY <1>10, <1>11

(* What the last visible writer of an account left is what a call finds. *)
LEMMA FindWritten ==
  ASSUME NEW m, NEW a, NEW i \in Nat, NEW b, i \in DOMAIN m[a], DOMAIN m[a] \subseteq Nat
  PROVE  find(m, a, i + 1, b) = m[a][i]
<1> DEFINE S == visible(m, a, i + 1)
<1>1. i \in S /\ S \in SUBSET (0 .. i)
  BY DEF visible
<1> HIDE DEF S
<1>2. Max(S) \in S /\ i <= Max(S)
  BY <1>1, MaxFacts, Zenon
<1>3. Max(S) = i
  <2>1. Max(S) \in 0 .. i
    BY <1>1, <1>2, Zenon
  <2> QED BY <1>2, <2>1
<1> QED BY <1>1, <1>3 DEF find, S

(* What Serial and the tainted accounts are after the step that applies a call. *)
LEMMA TaintedAfter ==
  ASSUME TypeInv, calls' = calls, NEW n \in Nat, n + 1 \in Calls
  PROVE  /\ Serial' = Serial /\ \A k \in Calls : Payable(k)' <=> Payable(k)
         /\ Tainted(n + 1)' = Tainted(n) \cup (IF Payable(n + 1) THEN {} ELSE Parties(n + 1))
<1>1. Serial' = Serial
  BY SerialUnchanged
<1>2. /\ \A k \in Nat : Payable(k)' <=> Payable(k)
      /\ \A k \in Nat : Parties(k)' = Parties(k)
  BY <1>1 DEF Payable, Parties
<1>3. \A k \in Calls : k \in Nat
  BY BatchFacts
<1>4. \A k : k \in 1 .. n + 1 <=> k \in 1 .. n \/ k = n + 1
  OBVIOUS
<1>5. \A k \in 1 .. n + 1 : k \in Nat
  OBVIOUS
<1>6. {k \in 1 .. n + 1 : ~Payable(k)'}
        = {k \in 1 .. n : ~Payable(k)} \cup (IF Payable(n + 1) THEN {} ELSE {n + 1})
  BY <1>2, <1>4, <1>5, Zenon
<1> QED BY <1>1, <1>2, <1>3, <1>4, <1>5, <1>6 DEF Tainted

(* A call that moves something has no tainted account. *)
LEMMA NotTainted ==
  ASSUME TypeInv, FailuresIsolated, NEW n \in Nat, n + 1 \in Calls, calls[n + 1].value > 0
  PROVE  Parties(n + 1) \cap Tainted(n) = {}
<1>1. \A k \in 1 .. n : k \in Calls /\ k < n + 1
  BY BatchFacts
<1> QED BY <1>1, Zenon DEF FailuresIsolated, Tainted

(* A call that is paid in its turn leaves the serial balances, in the base     *)
(* state and in the memory: its own versions hide those of its last round, and *)
(* an account it has nothing to do with has no version of it.                  *)
LEMMA SequentialPaid ==
  ASSUME TypeInv, MemInv, FailuresIsolated,
         NEW n \in Nat, n + 1 \in Calls, SerialUpTo(n), Payable(n + 1),
         NEW r \in ResultType, Applied(n + 1, r),
         mem' \in [Accounts -> Partial(Calls, VersionType)]
  PROVE  SerialUpTo(n + 1)'
<1> DEFINE i == n + 1
           c == calls[i]
           b == Serial[n]
<1>1. /\ c.caller \in Accounts /\ c.contract \in Accounts /\ c.value \in Nat
      /\ i \in 1 .. Len(calls) /\ n \in 0 .. Len(calls) /\ Len(calls) \in Nat /\ i - 1 = n
  BY BatchFacts
<1>2. /\ Serial' = Serial /\ b \in [Accounts -> Nat] /\ Serial[i] = Paid(b, c)
      /\ Serial[i] \in [Accounts -> Nat]
  <2>1. calls' = calls
    BY DEF Applied
  <2>2. Serial' = Serial
    BY <2>1, SerialUnchanged
  <2>3. /\ \A k \in 1 .. Len(calls) : Serial[k] = Paid(Serial[k - 1], calls[k])
        /\ \A k \in 0 .. Len(calls) : Serial[k] \in [Accounts -> Nat]
    BY SerialFacts
  <2> QED BY <1>1, <2>2, <2>3
<1>3. /\ base = b /\ \A a \in Accounts \ Tainted(n) : find(mem, a, i, base).val = b[a]
      /\ completed = 1 .. n /\ \A k \in 1 .. n : results[k].success <=> Payable(k)
  BY DEF SerialUpTo
<1>t. c.value > 0 => c.caller \notin Tainted(n) /\ c.contract \notin Tainted(n)
  BY NotTainted DEF Parties
<1>a. /\ \A k \in Calls : Payable(k)' <=> Payable(k)
      /\ Tainted(i)' = Tainted(n)
  BY TaintedAfter DEF Applied
<1>4. b[c.caller] >= c.value
  BY <1>1 DEF Payable
<1> HIDE DEF i, c, b
<1>5. /\ r.success = (c.value = 0 \/ find(mem, c.caller, i, base).val >= c.value)
      /\ r.success /\ c.value > 0 =>
           /\ DOMAIN r.writes = {c.caller, c.contract}
           /\ c.caller = c.contract => r.writes[c.caller] = find(mem, c.caller, i, base).val
           /\ c.caller # c.contract =>
                /\ r.writes[c.caller] = find(mem, c.caller, i, base).val - c.value
                /\ r.writes[c.contract] = find(mem, c.contract, i, base).val + c.value
           /\ mem' = add(add(mem, c.caller, i, incarnations[i], r.writes[c.caller]),
                         c.contract, i, incarnations[i], r.writes[c.contract])
      /\ ~(r.success /\ c.value > 0) => DOMAIN r.writes = {} /\ (r.success => mem' = mem)
      /\ results' = [results EXCEPT ![i] = r]
      /\ base' = [a \in Accounts |-> IF a \in DOMAIN r.writes THEN r.writes[a] ELSE base[a]]
      /\ completed' = completed \cup {i}
  BY Zenon DEF Applied, Parties, i, c
<1>6. r.success
  <2>1. c.value = 0 \/ c.value > 0
    BY <1>1
  <2> QED BY <1>1, <1>3, <1>4, <1>5, <1>t, <2>1, Zenon
<1>7. /\ c.value = 0 => DOMAIN r.writes = {} /\ mem' = mem
      /\ c.value > 0 =>
           /\ DOMAIN r.writes = {c.caller, c.contract}
           /\ c.caller = c.contract => r.writes[c.caller] = b[c.caller]
           /\ c.caller # c.contract => /\ r.writes[c.caller] = b[c.caller] - c.value
                                       /\ r.writes[c.contract] = b[c.contract] + c.value
           /\ mem' = add(add(mem, c.caller, i, incarnations[i], r.writes[c.caller]),
                         c.contract, i, incarnations[i], r.writes[c.contract])
  <2>1. c.value = 0 \/ c.value > 0
    BY <1>1
  <2>2. ~(c.value = 0 /\ c.value > 0)
    BY <1>1
  <2> QED BY <1>1, <1>3, <1>5, <1>6, <1>t, <2>1, <2>2, Zenon
<1>8. \A a \in Accounts : base'[a] = Serial[i][a]
  <2> TAKE a \in Accounts
  <2>1. base'[a] = IF a \in DOMAIN r.writes THEN r.writes[a] ELSE b[a]
    BY <1>3, <1>5
  <2>2. Serial[i] = [[b EXCEPT ![c.caller] = @ - c.value] EXCEPT ![c.contract] = @ + c.value]
    BY <1>1, <1>2, <1>4 DEF Paid
  <2>3. CASE c.value = 0
    BY <1>1, <1>2, <1>7, <2>1, <2>2, <2>3
  <2>4. CASE c.value > 0 /\ c.caller = c.contract
    BY <1>1, <1>2, <1>7, <2>1, <2>2, <2>4
  <2>5. CASE c.value > 0 /\ c.caller # c.contract
    BY <1>1, <1>2, <1>7, <2>1, <2>2, <2>5
  <2> QED BY <1>1, <2>3, <2>4, <2>5
<1>9. base' = Serial'[i]
  BY <1>2, <1>5, <1>8
<1>10. ASSUME NEW a \in Accounts \ Tainted(n) PROVE find(mem', a, i + 1, base').val = Serial'[i][a]
  <2>1. mem \in [Accounts -> Partial(Calls, VersionType)]
    BY DEF TypeInv
  <2>2. DOMAIN mem[a] \subseteq Calls /\ DOMAIN mem'[a] \subseteq Calls
    <3>1. mem[a] \in Partial(Calls, VersionType) /\ mem'[a] \in Partial(Calls, VersionType)
      BY <2>1
    <3> QED BY <3>1, PartialFacts
  <2>3. \A u \in Calls : u \in Nat
    BY BatchFacts
  <2>4. i \in Nat /\ i \in Calls
    BY <1>1 DEF i
  <2>5. CASE c.value > 0 /\ a \in {c.caller, c.contract}
    <3>1. i \in DOMAIN mem'[a] /\ mem'[a][i].val = r.writes[a]
      <4> DEFINE v(x) == Version(i, incarnations[i], r.writes[x])
                 m1 == [mem EXCEPT ![c.caller] = put(mem[c.caller], i, v(c.caller))]
      <4>1. mem' = [m1 EXCEPT ![c.contract] = put(m1[c.contract], i, v(c.contract))]
        BY <1>7, <2>5, Zenon DEF add
      <4> HIDE DEF v
      <4>2. mem'[a] = IF a = c.contract THEN put(m1[c.contract], i, v(a))
                      ELSE put(mem[a], i, v(a))
        BY <1>1, <2>1, <2>5, <4>1
      <4> HIDE DEF m1
      <4>3. i \in DOMAIN mem'[a] /\ mem'[a][i] = v(a)
        BY <4>2 DEF put
      <4> QED BY <4>3 DEF v, Version
    <3>2. find(mem', a, i + 1, base') = mem'[a][i]
      <4>1. DOMAIN mem'[a] \subseteq Nat
        BY <2>2, <2>3
      <4> QED BY <2>4, <3>1, <4>1, FindWritten
    <3>3. base'[a] = r.writes[a]
      BY <1>5, <1>7, <2>5
    <3> QED BY <1>9, <3>1, <3>2, <3>3
  <2>6. CASE ~(c.value > 0 /\ a \in {c.caller, c.contract})
    <3>1. mem'[a] = mem[a] /\ base'[a] = base[a]
      <4>1. CASE c.value = 0
        BY <1>5, <1>7, <4>1
      <4>2. CASE c.value > 0
        <5>1. a # c.caller /\ a # c.contract
          BY <2>6, <4>2
        <5>2. mem'[a] = mem[a]
          BY <1>7, <2>1, <4>2, <5>1 DEF add
        <5>3. base'[a] = base[a]
          BY <1>5, <1>7, <4>2, <5>1
        <5> QED BY <5>2, <5>3
      <4> QED BY <1>1, <4>1, <4>2
    <3>2. i \notin DOMAIN mem[a]
      BY <2>6 DEF MemInv, OwnVersions, Parties, c
    <3>3. visible(mem', a, i + 1) = visible(mem, a, i)
      <4>1. ASSUME NEW u \in DOMAIN mem[a] PROVE (u < i + 1) <=> (u < i)
        <5>1. u \in Nat /\ u # i
          BY <2>2, <2>3, <3>2
        <5> QED BY <2>4, <5>1
      <4> QED BY <3>1, <4>1, Zenon DEF visible
    <3>4. find(mem', a, i + 1, base') = find(mem, a, i, base)
      BY <3>1, <3>3, Zenon DEF find
    <3> QED BY <1>3, <1>9, <3>1, <3>4
  <2> QED BY <2>5, <2>6
<1>11. completed' = 1 .. i
  BY <1>3, <1>5 DEF i
<1>12. \A k \in 1 .. i : results'[k].success <=> Payable(k)'
  <2> TAKE k \in 1 .. i
  <2>1. results \in [Calls -> ResultType] /\ k \in Calls /\ (k = i \/ k \in 1 .. n)
    BY <1>1, BatchFacts DEF TypeInv, i
  <2>2. i \in Calls /\ Payable(i)
    BY DEF i
  <2> QED BY <1>3, <1>5, <1>6, <1>a, <2>1, <2>2
<1>13. i \in Nat /\ \A a \in Accounts \ Tainted(i)' : find(mem', a, i + 1, base').val = Serial'[i][a]
  BY <1>1, <1>10, <1>a
<1> QED BY <1>9, <1>11, <1>12, <1>13, Zenon DEF SerialUpTo, i

(* A call that cannot be paid in its turn is refused and leaves the balances; *)
(* what its last round wrote stays in the memory, in its own accounts only.   *)
LEMMA SequentialRefused ==
  ASSUME TypeInv, MemInv, FailuresIsolated,
         NEW n \in Nat, n + 1 \in Calls, SerialUpTo(n), ~Payable(n + 1),
         NEW r \in ResultType, Applied(n + 1, r)
  PROVE  SerialUpTo(n + 1)'
<1> DEFINE i == n + 1
           c == calls[i]
           b == Serial[n]
<1>1. /\ c.caller \in Accounts /\ c.contract \in Accounts /\ c.value \in Nat
      /\ i \in 1 .. Len(calls) /\ n \in 0 .. Len(calls) /\ Len(calls) \in Nat /\ i - 1 = n
  BY BatchFacts
<1>2. b \in [Accounts -> Nat] /\ Serial[i] = Paid(b, c)
  <2>1. /\ \A k \in 1 .. Len(calls) : Serial[k] = Paid(Serial[k - 1], calls[k])
        /\ \A k \in 0 .. Len(calls) : Serial[k] \in [Accounts -> Nat]
    BY SerialFacts
  <2> QED BY <1>1, <2>1
<1>3. /\ base = b /\ \A a \in Accounts \ Tainted(n) : find(mem, a, i, base).val = b[a]
      /\ completed = 1 .. n /\ \A k \in 1 .. n : results[k].success <=> Payable(k)
  BY DEF SerialUpTo
<1>4. b[c.caller] < c.value /\ c.value > 0
  BY <1>1, <1>2 DEF Payable
<1>5. c.caller \notin Tainted(n) /\ Parties(i) = {c.caller, c.contract}
  BY <1>4, NotTainted DEF Parties
<1>6. /\ Serial' = Serial /\ \A k \in Calls : Payable(k)' <=> Payable(k)
      /\ Tainted(i)' = Tainted(n) \cup Parties(i)
  BY TaintedAfter DEF Applied
<1>7. ~r.success
  <2>1. find(mem, c.caller, i, base).val = b[c.caller]
    BY <1>1, <1>3, <1>5
  <2>2. r.success = (c.value = 0 \/ find(mem, c.caller, i, base).val >= c.value)
    BY Zenon DEF Applied
  <2>3. ~(c.value = 0 \/ b[c.caller] >= c.value)
    BY <1>1, <1>2, <1>4
  <2> QED BY <2>1, <2>2, <2>3, Zenon
<1>8. /\ DOMAIN r.writes = {} /\ (mem' = mem \/ mem' = DeleteVersion(mem, i, incarnations[i]))
      /\ results' = [results EXCEPT ![i] = r]
      /\ base' = [a \in Accounts |-> IF a \in DOMAIN r.writes THEN r.writes[a] ELSE base[a]]
      /\ completed' = completed \cup {i}
  BY <1>7, Zenon DEF Applied
<1>9. base' = base /\ Serial[i] = b
  BY <1>1, <1>2, <1>3, <1>4, <1>8 DEF Paid
<1>10. ASSUME NEW a \in Accounts \ (Tainted(n) \cup Parties(i))
       PROVE  find(mem', a, i + 1, base') = find(mem, a, i, base)
  <2>1. mem \in [Accounts -> Partial(Calls, VersionType)]
    BY DEF TypeInv
  <2>2. DOMAIN mem[a] \subseteq Nat /\ mem[a] \in Partial(Calls, VersionType)
    <3>1. mem[a] \in Partial(Calls, VersionType)
      BY <2>1
    <3> QED BY <3>1, PartialFacts, BatchFacts
  <2>3. i \notin DOMAIN mem[a]
    BY DEF MemInv, OwnVersions
  <2>4. mem'[a] = mem[a]
    BY <1>8, <2>1, <2>2, <2>3, DeleteOther
  <2>5. visible(mem', a, i + 1) = visible(mem, a, i)
    <3>1. ASSUME NEW u \in DOMAIN mem[a] PROVE (u < i + 1) <=> (u < i)
      <4>1. u \in Nat /\ u # i
        BY <2>2, <2>3
      <4> QED BY <1>1, <4>1
    <3> QED BY <2>4, <3>1, Zenon DEF visible
  <2> QED BY <1>9, <2>4, <2>5, Zenon DEF find
<1>11. completed' = 1 .. i
  BY <1>3, <1>8
<1>12. \A k \in 1 .. i : results'[k].success <=> Payable(k)'
  <2> TAKE k \in 1 .. i
  <2>1. results \in [Calls -> ResultType] /\ k \in Calls /\ (k = i \/ k \in 1 .. n)
    BY <1>1, BatchFacts DEF TypeInv
  <2> QED BY <1>3, <1>6, <1>7, <1>8, <2>1
<1>13. \A a \in Accounts \ Tainted(i)' : find(mem', a, i + 1, base').val = Serial'[i][a]
  BY <1>3, <1>6, <1>9, <1>10
<1>14. base' = Serial'[i]
  BY <1>3, <1>6, <1>9
<1> HIDE DEF b, c
<1> QED BY <1>11, <1>12, <1>13, <1>14, Zenon DEF SerialUpTo

(* A call of the fallback. *)
LEMMA SequentialInv == ASSUME IInv, SequentialCall PROVE IInv'
<1>1. PICK i \in Calls \ completed, r \in ResultType :
        (\A m \in Calls \ completed : i <= m) /\ Applied(i, r)
  BY SequentialFacts
<1>2. TypeInv /\ QueueInv /\ RoundInv /\ MemInv /\ FallbackInv /\ stage = "sequential"
  BY Zenon DEF IInv, SequentialCall
<1>3. /\ results' = [results EXCEPT ![i] = r]
      /\ base' = [a \in Accounts |-> IF a \in DOMAIN r.writes THEN r.writes[a] ELSE base[a]]
      /\ touched' = [touched EXCEPT ![i].reads = @ \cup DOMAIN r.reads]
      /\ completed' = completed \cup {i}
      /\ stage' = IF completed' = Calls THEN "fallback" ELSE "sequential"
      /\ UNCHANGED <<calls, speculative, incarnations, ready, deps, worker, retries>>
  BY <1>1, Zenon DEF Applied
<1>4. /\ Calls' = Calls /\ VersionType' = VersionType /\ ResultType' = ResultType
      /\ WorkerType' = WorkerType /\ Serial' = Serial
  BY <1>3, TypesUnchanged, SerialUnchanged
<1>5. /\ r.writes \in Partial(Accounts, Nat) /\ r.reads \in Partial(Accounts, VersionType)
      /\ DOMAIN r.writes \subseteq Accounts /\ \A a \in DOMAIN r.writes : r.writes[a] \in Nat
      /\ DOMAIN r.reads \subseteq Accounts
  <2>1. r.writes \in Partial(Accounts, Nat) /\ r.reads \in Partial(Accounts, VersionType)
    BY DEF ResultType
  <2> QED BY <2>1, PartialFacts
<1>6. mem' \in [Accounts -> Partial(Calls, VersionType)] /\ OwnVersions(mem')
  <2>1. mem \in [Accounts -> Partial(Calls, VersionType)] /\ OwnVersions(mem)
    BY <1>2 DEF TypeInv, MemInv
  <2>2. CASE r.success /\ calls[i].value > 0
    <3> DEFINE from == calls[i].caller
               to == calls[i].contract
               m1 == add(mem, from, i, incarnations[i], r.writes[from])
    <3>1. DOMAIN r.writes = Parties(i)
          /\ mem' = add(m1, to, i, incarnations[i], r.writes[to])
      BY <1>1, <2>2, Zenon DEF Applied
    <3>2. from \in Parties(i) /\ to \in Parties(i)
      BY DEF Parties
    <3>3. r.writes[from] \in Nat /\ r.writes[to] \in Nat
      BY <1>5, <3>1, <3>2
    <3> HIDE DEF from, to
    <3>4. m1 \in [Accounts -> Partial(Calls, VersionType)] /\ OwnVersions(m1)
      BY <1>2, <2>1, <2>2, <3>2, <3>3, AddFacts
    <3> HIDE DEF m1
    <3>5. /\ add(m1, to, i, incarnations[i], r.writes[to])
               \in [Accounts -> Partial(Calls, VersionType)]
          /\ OwnVersions(add(m1, to, i, incarnations[i], r.writes[to]))
      BY <1>2, <2>2, <3>2, <3>3, <3>4, AddFacts
    <3> QED BY <3>1, <3>5
  <2>3. CASE ~(r.success /\ calls[i].value > 0)
    <3>1. mem' = mem \/ mem' = DeleteVersion(mem, i, incarnations[i])
      BY <1>1, <2>3, Zenon DEF Applied
    <3>2. /\ DeleteVersion(mem, i, incarnations[i]) \in [Accounts -> Partial(Calls, VersionType)]
          /\ OwnVersions(DeleteVersion(mem, i, incarnations[i]))
      BY <2>1, DeleteFacts, Zenon
    <3> QED BY <2>1, <3>1, <3>2, Zenon
  <2> QED BY <2>2, <2>3
<1>7. TypeInv'
  <2>1. base' \in [Accounts -> Nat]
    <3>1. base \in [Accounts -> Nat]
      BY <1>2 DEF TypeInv
    <3> QED BY <1>3, <1>5, <3>1
  <2>2. touched' \in [Calls -> [reads : SUBSET Accounts, writes : SUBSET Accounts]]
    <3>1. touched \in [Calls -> [reads : SUBSET Accounts, writes : SUBSET Accounts]]
      BY <1>2 DEF TypeInv
    <3> QED BY <1>3, <1>5, <3>1
  <2>3. results' \in [Calls -> ResultType] /\ completed' \subseteq Calls /\ stage' \in Stages
    BY <1>2, <1>3 DEF TypeInv, Stages
  <2> QED BY <1>2, <1>3, <1>4, <1>6, <2>1, <2>2, <2>3, Zenon DEF TypeInv
<1>8. stage' \in {"fallback", "sequential"}
  BY <1>3
<1>9. QueueInv'
  <2>1. ready' = <<>>
    BY <1>2, <1>3 DEF QueueInv
  <2>2. \A w \in Workers : ~InHand(w)'
    BY <1>2, <1>3, NobodyRuns DEF InHand
  <2> QED BY <1>8, <2>1, <2>2 DEF QueueInv
<1>10. GraphInv' /\ ResultInv' /\ ValidatedIsSerial'
  BY <1>8 DEF GraphInv, ResultInv, ValidatedIsSerial
<1>11. RoundInv'
  BY <1>2, <1>3, <1>4, <1>8 DEF RoundInv
<1>12. MemInv'
  BY <1>3, <1>6 DEF MemInv, OwnVersions, Parties
<1>13. WorkerInv'
  BY <1>2, <1>3, NobodyRuns DEF WorkerInv, WorkerOK
<1>14. FallbackInv'
  <2>1. FailuresIsolated' => FailuresIsolated
    BY <1>3, <1>4 DEF FailuresIsolated, Payable, Parties
  <2> SUFFICES ASSUME FailuresIsolated
               PROVE  \E n \in 0 .. Len(calls) : /\ SerialUpTo(n)'
                                                 /\ stage' = "fallback" => n = Len(calls)
    BY <1>3, <1>4, <2>1 DEF FallbackInv
  <2>2. PICK n \in 0 .. Len(calls) : SerialUpTo(n)
    BY <1>2 DEF FallbackInv
  <2>3. Len(calls) \in Nat /\ Calls = 1 .. Len(calls) /\ completed = 1 .. n
    BY <1>2, <2>2, BatchFacts DEF SerialUpTo
  <2>4. i = n + 1 /\ n \in Nat
    <3>1. n + 1 \in Calls \ completed
      BY <2>3, <1>1
    <3>2. i <= n + 1 /\ i \in Nat /\ i > n
      BY <1>1, <2>3, <3>1
    <3> QED BY <2>3, <3>2
  <2>5. SerialUpTo(n + 1)'
    BY <1>1, <1>2, <1>6, <2>2, <2>4, SequentialPaid, SequentialRefused
  <2>6. n + 1 \in 0 .. Len(calls)
    BY <1>1, <2>3, <2>4
  <2>7. stage' = "fallback" => n + 1 = Len(calls)
    <3> SUFFICES ASSUME stage' = "fallback" PROVE n + 1 = Len(calls)
      OBVIOUS
    <3>1. completed' = Calls
      BY <1>3
    <3>2. 1 .. n + 1 = 1 .. Len(calls)
      BY <1>3, <2>3, <2>4, <3>1
    <3>3. Len(calls) \in 1 .. Len(calls)
      BY <1>1, <2>3
    <3> QED BY <2>3, <2>4, <2>6, <3>2, <3>3
  <2> QED BY <2>5, <2>6, <2>7, Zenon
<1> QED BY <1>7, <1>9, <1>10, <1>11, <1>12, <1>13, <1>14 DEF IInv

-----------------------------------------------------------------------------
(* The theorems *)

(* A step that changes nothing preserves the invariant. *)
LEMMA UnchangedInv ==
  ASSUME IInv,
         UNCHANGED <<calls, speculative, base, mem, incarnations, touched, results>>,
         UNCHANGED <<ready, deps, completed, worker, retries, stage>>
  PROVE  IInv'
<1>1. /\ Calls' = Calls /\ VersionType' = VersionType /\ ResultType' = ResultType
      /\ WorkerType' = WorkerType /\ Serial' = Serial
  BY TypesUnchanged, SerialUnchanged
<1>2. TypeInv'
  BY <1>1 DEF IInv, TypeInv
<1>3. QueueInv' /\ RoundInv' /\ GraphInv'
  BY <1>1 DEF IInv, QueueInv, RoundInv, GraphInv, Waiting, InHand
<1>4. MemInv' /\ WorkerInv' /\ ResultInv'
  <2>1. MemInv /\ WorkerInv /\ ResultInv
    BY DEF IInv
  <2>2. MemInv'
    BY <2>1 DEF MemInv, OwnVersions, Parties
  <2>3. WorkerInv'
    <3> SUFFICES ASSUME NEW w \in Workers PROVE WorkerOK(w)'
      BY DEF WorkerInv
    <3>1. WorkerOK(w) /\ worker'[w] = worker[w]
      BY <2>1 DEF WorkerInv
    <3> QED BY <3>1, Zenon DEF WorkerOK, Funded, Debited, Both, FromBase, Parties
  <2>4. ResultInv'
    <3> SUFFICES ASSUME stage = "running", NEW i \in Calls, results[i].success
                 PROVE  Outcome(i)'
      BY <1>1 DEF ResultInv
    <3>1. Outcome(i)
      BY <2>1 DEF ResultInv
    <3> QED BY <3>1, OtherResults
  <2> QED BY <2>2, <2>3, <2>4
<1>5. FallbackInv' /\ ValidatedIsSerial'
  BY <1>1 DEF IInv, FallbackInv, ValidatedIsSerial, SerialUpTo, Payable, FailuresIsolated,
    Tainted, Parties
<1> QED BY <1>2, <1>3, <1>4, <1>5 DEF IInv

(* Every step of Execute and of its workers preserves the invariant. *)
LEMMA StepInv == IInv /\ [Next]_vars => IInv'
<1> SUFFICES ASSUME IInv, [Next]_vars PROVE IInv'
  OBVIOUS
<1>1. CASE Round
  BY <1>1, RoundStepInv
<1>2. CASE FinishRound
  BY <1>2, FinishRoundInv
<1>3. CASE SequentialCall
  BY <1>3, SequentialInv
<1>4. ASSUME NEW w \in Workers, Turn(w) PROVE IInv'
  <2>1. CASE NextCall(w)
    BY <2>1, NextCallInv
  <2>2. CASE ReadCaller(w)
    BY <2>2, ReadCallerInv
  <2>3. CASE WriteCaller(w)
    BY <2>3, WriteCallerInv
  <2>4. CASE ReadContract(w)
    BY <2>4, ReadContractInv
  <2>5. CASE WriteContract(w)
    BY <2>5, WriteContractInv
  <2> QED BY <1>4, <2>1, <2>2, <2>3, <2>4, <2>5 DEF Turn
<1>5. CASE UNCHANGED vars
  <2>1. /\ UNCHANGED <<calls, speculative, base, mem, incarnations, touched, results>>
        /\ UNCHANGED <<ready, deps, completed, worker, retries, stage>>
    BY <1>5 DEF vars
  <2> QED BY <2>1, UnchangedInv
<1> QED BY <1>1, <1>2, <1>3, <1>4, <1>5 DEF Next

(* The invariant holds throughout. *)
THEOREM Invariance == Spec => []IInv
BY InitInv, StepInv, PTL DEF Spec

(* Types, and what the scheduler's channel and the balances rest on: nothing is *)
(* queued twice, so QueueReady's buffered send never blocks, and no read or     *)
(* write of executeTransfer takes an account below zero.                        *)
THEOREM TypeCorrect == Spec => []ParallelTypeOK
<1>1. IInv => ParallelTypeOK
  <2> SUFFICES ASSUME IInv PROVE ParallelTypeOK
    OBVIOUS
  <2>1. TypeInv /\ QueueInv
    BY DEF IInv
  <2>2. \A a \in Accounts : \A i \in DOMAIN mem[a] : i \in Calls /\ mem[a][i] \in VersionType
    <3> TAKE a \in Accounts
    <3>1. mem[a] \in Partial(Calls, VersionType)
      BY <2>1 DEF TypeInv
    <3> QED BY <3>1, PartialFacts
  <2>3. ASSUME NEW i \in Calls
        PROVE  /\ results[i].success \in BOOLEAN
               /\ \A a \in DOMAIN results[i].reads : results[i].reads[a] \in VersionType
               /\ \A a \in DOMAIN results[i].writes : results[i].writes[a] \in Nat
    <3>1. /\ results[i].success \in BOOLEAN
          /\ results[i].reads \in Partial(Accounts, VersionType)
          /\ results[i].writes \in Partial(Accounts, Nat)
      BY <2>1 DEF TypeInv, ResultType
    <3> QED BY <3>1, PartialFacts
  <2>4. Len(ready) = Cardinality({ready[n] : n \in DOMAIN ready})
    <3>1. ready \in Seq(Calls)
      BY <2>1 DEF TypeInv
    <3>2. \A m, n \in DOMAIN ready : m # n => ready[m] # ready[n]
      BY <2>1 DEF QueueInv
    <3> QED BY <3>1, <3>2, NoRepetition, Zenon
  <2>5. \A w \in Workers : worker[w].pc = "idle" \/ worker[w].call \in Calls \ completed
    BY <2>1 DEF QueueInv, InHand
  <2> QED BY <2>1, <2>2, <2>3, <2>4, <2>5 DEF ParallelTypeOK, TypeInv
<1> QED BY <1>1, Invariance, PTL

(* A round that validateResults accepts has given the balances and the outcome *)
(* of the serial execution, in whatever order the workers' accesses happened.  *)
THEOREM Validated == Spec => []ValidatedIsSerial
<1>1. IInv => ValidatedIsSerial
  BY DEF IInv
<1> QED BY <1>1, Invariance, PTL

(* When every call is payable in its turn, executeSequentially ends with the *)
(* serial balances in spite of the versions the last round has left in the   *)
(* memory.                                                                   *)
THEOREM Fallback == Spec => []FallbackIsSerial
<1>1. IInv => FallbackIsSerial
  <2> SUFFICES ASSUME IInv, stage = "fallback", \A i \in Calls : Payable(i)
               PROVE  base = Serial[Len(calls)] /\ \A i \in Calls : results[i].success
    BY DEF FallbackIsSerial
  <2>1. SerialUpTo(Len(calls))
    BY DEF IInv, FallbackInv, FailuresIsolated
  <2>2. Calls = 1 .. Len(calls)
    BY BatchFacts DEF IInv
  <2> QED BY <2>1, <2>2 DEF SerialUpTo
<1> QED BY <1>1, Invariance, PTL

(* "maintaining sequential consistency" holds whichever way Execute ends, as   *)
(* long as no call that cannot be paid shares an account with a later one: the *)
(* versions executeSequentially leaves behind are the only way to lose it.     *)
THEOREM ConsistentUnlessTainted == Spec => [](FailuresIsolated => SequentialConsistency)
<1>1. IInv => (FailuresIsolated => SequentialConsistency)
  <2> SUFFICES ASSUME IInv, FailuresIsolated, Done PROVE base = Serial[Len(calls)]
    BY DEF SequentialConsistency
  <2>1. CASE stage = "validated"
    BY <2>1 DEF IInv, ValidatedIsSerial
  <2>2. CASE stage = "fallback"
    <3>1. SerialUpTo(Len(calls))
      BY <2>2 DEF IInv, FallbackInv
    <3> QED BY <3>1 DEF SerialUpTo
  <2> QED BY <2>1, <2>2 DEF Done
<1> QED BY <1>1, Invariance, PTL

(* Without speculation a call of a contract is in hand only when the calls of *)
(* that contract before it have completed: AnalyzeDependencies puts an edge   *)
(* between them and MarkComplete releases a call after its last edge.         *)
THEOREM ContractOrder == Spec => []ContractCallsInOrder
<1>1. IInv => ContractCallsInOrder
  <2> SUFFICES ASSUME IInv, ~speculative, NEW w \in Workers, worker[w].pc # "idle",
                      NEW i \in 1 .. worker[w].call - 1,
                      calls[i].contract = calls[worker[w].call].contract
               PROVE  i \in completed
    BY DEF ContractCallsInOrder
  <2>1. /\ stage = "running" /\ worker[w].call \in Calls
        /\ worker[w].call \notin Waiting(deps, completed)
    BY DEF IInv, QueueInv, InHand
  <2>2. <<worker[w].call, i>> \in deps
    BY <2>1 DEF IInv, GraphInv
  <2> QED BY <2>1, <2>2 DEF Waiting
<1> QED BY <1>1, Invariance, PTL
=============================================================================
