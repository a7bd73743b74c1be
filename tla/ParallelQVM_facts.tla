-------------------------- MODULE ParallelQVM_facts --------------------------
(***************************************************************************)
(* The inductive invariant of ParallelQVM, the facts about the batch, the  *)
(* memory, the serial execution and the queue on which the proofs in       *)
(* ParallelQVM_proof rest, and that the steps of the workers preserve the  *)
(* invariant.                                                              *)
(***************************************************************************)
EXTENDS ParallelQVM, WellFoundedInduction, FiniteSetTheorems, TLAPS

-----------------------------------------------------------------------------
(* The inductive invariant *)

\* The Go maps with keys in K and values in V.
Partial(K, V) == UNION {[S -> V] : S \in SUBSET K}

CallType == [caller : Accounts, contract : Accounts, value : Nat]

ResultType ==
  [success : BOOLEAN, reads : Partial(Accounts, VersionType),
   writes : Partial(Accounts, Nat), incarnation : Int]

WorkerType ==
  [pc : {"idle", "caller", "debit", "contract", "credit"}, call : Nat,
   reads : Partial(Accounts, VersionType), writes : Partial(Accounts, Nat)]

TypeInv ==
  /\ calls \in Batches /\ speculative \in BOOLEAN /\ stage \in Stages
  /\ base \in [Accounts -> Nat]
  /\ mem \in [Accounts -> Partial(Calls, VersionType)]
  /\ incarnations \in [Calls -> 0 .. MaxRetries]
  /\ touched \in [Calls -> [reads : SUBSET Accounts, writes : SUBSET Accounts]]
  /\ results \in [Calls -> ResultType]
  /\ ready \in Seq(Calls)
  /\ deps \subseteq Calls \X Calls /\ completed \subseteq Calls
  /\ worker \in [Workers -> WorkerType]
  /\ retries \in 0 .. MaxRetries

InHand(w) == worker[w].pc # "idle"

\* A call is queued or in hand at most once, before it completes, and only when
\* the graph holds it back no longer.
QueueInv ==
  /\ \A m, n \in DOMAIN ready : m # n => ready[m] # ready[n]
  /\ \A n \in DOMAIN ready : ready[n] \notin completed \cup Waiting(deps, completed)
  /\ \A w \in Workers : InHand(w) =>
        /\ stage = "running"
        /\ worker[w].call \in Calls \ (completed \cup Waiting(deps, completed))
        /\ \A n \in DOMAIN ready : ready[n] # worker[w].call
        /\ \A v \in Workers : v # w /\ InHand(v) => worker[v].call # worker[w].call
  /\ stage = "running" => completed \cap Waiting(deps, completed) = {}
  /\ stage # "running" => ready = <<>>

\* Without speculation the graph has an edge between any two calls of a contract.
GraphInv ==
  stage = "running" /\ ~speculative =>
    \A j \in Calls : \A i \in 1 .. j - 1 :
      calls[i].contract = calls[j].contract => <<j, i>> \in deps

\* The rounds read the balances of the base state and are counted.
RoundInv ==
  /\ stage \in {"round", "running"} => base = Balances /\ retries < MaxRetries
  /\ \A i \in Calls : incarnations[i] <= retries
  /\ stage = "sequential" => completed # Calls

Parties(i) == {calls[i].caller, calls[i].contract}

\* Only a call that moves something writes, and only its two accounts.
OwnVersions(m) ==
  \A a \in Accounts : \A u \in DOMAIN m[a] :
    m[a][u].tx = u /\ calls[u].value > 0 /\ a \in Parties(u)

MemInv == OwnVersions(mem)

\* What was read from the base state is what the base state has.
FromBase(reads) == \A a \in DOMAIN reads : reads[a].tx = Base => reads[a].val = base[a]

\* Call i has read enough of its sender's balance.
Funded(i, reads) ==
  LET c == calls[i]
  IN  /\ c.value > 0 /\ FromBase(reads)
      /\ DOMAIN reads = {c.caller} /\ reads[c.caller].val >= c.value

\* The writes so far take the value from the sender's account.
Debited(i, reads, writes) ==
  LET c == calls[i]
  IN  DOMAIN writes = {c.caller} /\ writes[c.caller] = reads[c.caller].val - c.value

\* A call's reads and debit when both accounts are read: a self-transfer has
\* read its own write.
Both(i, reads, writes) ==
  LET c == calls[i]
  IN  /\ c.value > 0 /\ FromBase(reads)
      /\ DOMAIN reads = Parties(i) /\ DOMAIN writes = {c.caller}
      /\ IF c.caller = c.contract THEN reads[c.caller].tx = i
         ELSE /\ reads[c.caller].val >= c.value
              /\ writes[c.caller] = reads[c.caller].val - c.value

WorkerOK(w) ==
  LET i == worker[w].call
      reads == worker[w].reads
      writes == worker[w].writes
  IN  /\ worker[w].pc = "debit" => Funded(i, reads)
      /\ worker[w].pc = "contract" => Funded(i, reads) /\ Debited(i, reads, writes)
      /\ worker[w].pc = "credit" => Both(i, reads, writes)

WorkerInv == \A w \in Workers : WorkerOK(w)

\* What a successful call of the round has read and written.
Outcome(i) ==
  LET r == results[i]
      c == calls[i]
  IN  IF c.value = 0 THEN DOMAIN r.writes = {}
      ELSE /\ DOMAIN r.reads = Parties(i) /\ DOMAIN r.writes = Parties(i)
           /\ FromBase(r.reads)
           /\ IF c.caller = c.contract THEN r.reads[c.caller].tx = i
              ELSE /\ r.reads[c.caller].val >= c.value
                   /\ r.writes[c.caller] = r.reads[c.caller].val - c.value
                   /\ r.writes[c.contract] = r.reads[c.contract].val + c.value

ResultInv == stage = "running" => \A i \in Calls : results[i].success => Outcome(i)

\* No call that moves something comes after one that shares an account with it
\* and cannot be paid in its turn.
FailuresIsolated ==
  \A i, j \in Calls :
    i < j /\ ~Payable(i) /\ calls[j].value > 0 => Parties(i) \cap Parties(j) = {}

\* The accounts of the first n calls that cannot be paid in their turn: what the
\* last round has written to them is never overwritten.
Tainted(n) == UNION {Parties(i) : i \in {k \in 1 .. n : ~Payable(k)}}

\* The fallback after its first n calls: outside the tainted accounts the memory
\* shows call n + 1 the serial balances, whatever the last round has left in it
\* for later calls.
SerialUpTo(n) ==
  /\ completed = 1 .. n /\ base = Serial[n]
  /\ \A i \in 1 .. n : results[i].success <=> Payable(i)
  /\ \A a \in Accounts \ Tainted(n) : find(mem, a, n + 1, base).val = Serial[n][a]

FallbackInv ==
  stage \in {"sequential", "fallback"} /\ FailuresIsolated =>
    \E n \in 0 .. Len(calls) : /\ SerialUpTo(n)
                               /\ stage = "fallback" => n = Len(calls)

IInv ==
  /\ TypeInv /\ QueueInv /\ GraphInv /\ RoundInv /\ MemInv /\ WorkerInv
  /\ ResultInv /\ FallbackInv /\ ValidatedIsSerial

-----------------------------------------------------------------------------
(* Least and greatest naturals: the proofs argue by the least counterexample *)
(* where a reader would say "by induction".                                  *)

(* Every nonempty set of naturals has a least element. *)
LEMMA LeastNat ==
  ASSUME NEW T \in SUBSET Nat, T # {}
  PROVE  \E x \in T : \A y \in T : x <= y
<1> DEFINE R == OpToRel(<, Nat)
<1>1. IsWellFoundedOn(R, Nat)
  BY NatLessThanWellFounded, Zenon
<1>2. \E x \in T : \A y \in T : ~(<<y, x>> \in R)
  <2> HIDE DEF R
  <2> QED BY <1>1, WFMin, Zenon
<1>3. \A x, y \in T : x > y => <<y, x>> \in R
  BY DEF OpToRel
<1>4. PICK x \in T : \A y \in T : ~(<<y, x>> \in R)
  BY <1>2, Zenon
<1>5. \A y \in T : ~(x > y)
  <2> HIDE DEF R
  <2> QED BY <1>3, <1>4, Zenon
<1> QED BY <1>5

(* Every nonempty set of naturals up to N has a greatest element. *)
LEMMA GreatestNat ==
  ASSUME NEW N \in Nat, NEW S \in SUBSET (0 .. N), S # {}
  PROVE  \E x \in S : \A y \in S : x >= y
<1> DEFINE T == {N - s : s \in S}
<1>1. T \in SUBSET Nat /\ T # {}
  <2>1. PICK s \in S : TRUE
    BY Zenon
  <2>2. N - s \in T
    BY <2>1
  <2>3. T \in SUBSET Nat
    OBVIOUS
  <2> QED BY <2>2, <2>3
<1>2. PICK x \in T : \A y \in T : x <= y
  BY <1>1, LeastNat, Zenon
<1>3. PICK s \in S : x = N - s
  OBVIOUS
<1>4. \A y \in S : s >= y
  <2> TAKE y \in S
  <2>1. N - y \in T
    OBVIOUS
  <2>2. x <= N - y
    BY <1>2, <2>1
  <2> QED BY <1>3, <2>2
<1> QED BY <1>4, Zenon

(* What holds of 0 and passes from every natural below N to the next holds *)
(* up to N; P is the set of the naturals it holds of.                      *)
LEMMA UpTo ==
  ASSUME NEW N \in Nat, NEW P,
         0 \in P,
         \A n \in 1 .. N : n - 1 \in P => n \in P
  PROVE  \A n \in 0 .. N : n \in P
<1> SUFFICES ASSUME NEW m \in 0 .. N, m \notin P PROVE FALSE
  OBVIOUS
<1> DEFINE T == {n \in 0 .. N : n \notin P}
<1>1. T \in SUBSET Nat /\ T # {}
  OBVIOUS
<1>2. PICK x \in T : \A y \in T : x <= y
  <2> HIDE DEF T
  <2> QED BY <1>1, LeastNat, Zenon
<1>3. x \in 1 .. N /\ x - 1 \notin T
  BY <1>2
<1> QED BY <1>3

-----------------------------------------------------------------------------
(* Maps, versions and the memory *)

(* A partial map has its keys and values in the given sets. *)
LEMMA PartialFacts ==
  ASSUME NEW K, NEW V, NEW f \in Partial(K, V)
  PROVE  DOMAIN f \subseteq K /\ \A x \in DOMAIN f : f[x] \in V
BY DEF Partial

(* put changes the entry of one key. *)
LEMMA PutFacts ==
  ASSUME NEW f, NEW k, NEW v
  PROVE  /\ DOMAIN put(f, k, v) = DOMAIN f \cup {k}
         /\ put(f, k, v)[k] = v
         /\ \A x \in DOMAIN f : x # k => put(f, k, v)[x] = f[x]
BY DEF put

(* put keeps a partial map partial. *)
LEMMA PutType ==
  ASSUME NEW K, NEW V, NEW f \in Partial(K, V), NEW k \in K, NEW v \in V
  PROVE  put(f, k, v) \in Partial(K, V)
<1>1. put(f, k, v) \in [DOMAIN f \cup {k} -> V]
  BY PartialFacts DEF put
<1>2. DOMAIN f \cup {k} \in SUBSET K
  BY PartialFacts
<1> QED BY <1>1, <1>2, Zenon DEF Partial

(* The empty map is partial and has no keys. *)
LEMMA EmptyMap ==
  ASSUME NEW K, NEW V
  PROVE  DOMAIN <<>> = {} /\ <<>> \in Partial(K, V)
<1>1. DOMAIN <<>> = {} /\ <<>> \in [{} -> V]
  OBVIOUS
<1> QED BY <1>1 DEF Partial

(* A batch is a sequence of transfers between accounts. *)
LEMMA BatchTyped ==
  ASSUME calls \in Batches
  PROVE  /\ calls \in Seq(CallType)
         /\ Len(calls) \in Nat /\ Calls = 1 .. Len(calls)
         /\ \A i \in Calls : /\ i \in Nat \ {0}
                             /\ calls[i].caller \in Accounts
                             /\ calls[i].contract \in Accounts
                             /\ calls[i].value \in Nat
<1>1. calls \in Seq(CallType)
  BY ParallelAssumption, Zenon DEF CallType
<1>2. Len(calls) \in Nat /\ Calls = 1 .. Len(calls)
  BY <1>1 DEF Calls
<1>3. \A i \in Calls : calls[i] \in CallType
  BY <1>1 DEF Calls
<1> QED BY <1>1, <1>2, <1>3 DEF CallType

(* The same of the batch of a state that satisfies the invariant. *)
LEMMA BatchFacts ==
  ASSUME TypeInv
  PROVE  /\ calls \in Seq(CallType)
         /\ Len(calls) \in Nat /\ Calls = 1 .. Len(calls)
         /\ \A i \in Calls : /\ i \in Nat \ {0}
                             /\ calls[i].caller \in Accounts
                             /\ calls[i].contract \in Accounts
                             /\ calls[i].value \in Nat
BY BatchTyped DEF TypeInv

(* Max picks the greatest of the first naturals. *)
LEMMA MaxFacts ==
  ASSUME NEW n \in Nat, NEW S \in SUBSET (0 .. n), S # {}
  PROVE  Max(S) \in S /\ \A k \in S : k <= Max(S)
<1>1. \E j \in S : \A k \in S : j >= k
  BY GreatestNat, Zenon
<1>2. Max(S) \in S /\ \A k \in S : Max(S) >= k
  BY <1>1, Zenon DEF Max
<1> QED BY <1>2

(* Max picks the greatest member of a nonempty set of calls. *)
LEMMA MaxOfCalls ==
  ASSUME TypeInv, NEW S \in SUBSET Calls, S # {}
  PROVE  Max(S) \in S /\ \A u \in S : u <= Max(S)
<1>1. S \in SUBSET (0 .. Len(calls)) /\ Len(calls) \in Nat
  BY BatchFacts
<1> QED BY <1>1, MaxFacts, Zenon

(* What find returns is a version of the memory or the base state's value. *)
LEMMA FindFacts ==
  ASSUME TypeInv, MemInv, NEW a \in Accounts, NEW i \in Calls
  PROVE  /\ find(mem, a, i, base) \in VersionType
         /\ find(mem, a, i, base).tx = Base => find(mem, a, i, base).val = base[a]
<1> DEFINE S == visible(mem, a, i)
<1>1. mem[a] \in Partial(Calls, VersionType)
  BY DEF TypeInv
<1>2. S \subseteq DOMAIN mem[a] /\ S \subseteq Calls
  BY <1>1, PartialFacts DEF visible
<1>3. CASE S = {}
  <2>1. find(mem, a, i, base) = Version(Base, 0, base[a])
    BY <1>3 DEF find
  <2>2. base[a] \in Nat /\ MaxRetries \in Nat
    BY ParallelAssumption DEF TypeInv
  <2> QED BY <2>1, <2>2 DEF Version, VersionType, Base
<1>4. CASE S # {}
  <2>1. Max(S) \in S
    <3> HIDE DEF S
    <3> QED BY <1>2, <1>4, MaxOfCalls
  <2>2. find(mem, a, i, base) = mem[a][Max(S)]
    BY <1>4 DEF find
  <2>3. mem[a][Max(S)] \in VersionType
    BY <1>1, <1>2, <2>1, PartialFacts, Zenon
  <2>4. mem[a][Max(S)].tx # Base
    <3>1. mem[a][Max(S)].tx = Max(S)
      BY <1>2, <2>1, Zenon DEF MemInv, OwnVersions
    <3>2. Max(S) \in Nat \ {0}
      BY <1>2, <2>1, BatchFacts, Zenon
    <3> QED BY <3>1, <3>2 DEF Base
  <2> QED BY <2>2, <2>3, <2>4, Zenon
<1> QED BY <1>3, <1>4

-----------------------------------------------------------------------------
(* The serial execution *)

\* One call on the balances b.
Paid(b, c) ==
  IF b[c.caller] < c.value THEN b
  ELSE [[b EXCEPT ![c.caller] = @ - c.value] EXCEPT ![c.contract] = @ + c.value]

(* A call turns balances into balances. *)
LEMMA PaidType ==
  ASSUME NEW b \in [Accounts -> Nat], NEW c \in CallType
  PROVE  Paid(b, c) \in [Accounts -> Nat]
BY DEF Paid, CallType

(* The recursion of Serial has a solution, and Serial is one. *)
LEMMA SerialIsDefined ==
  ASSUME TypeInv
  PROVE  Serial = [n \in 0 .. Len(calls) |->
                     IF n = 0 THEN Balances ELSE Paid(Serial[n - 1], calls[n])]
<1> DEFINE N == Len(calls)
           B == [Accounts -> Nat]
           Good(f, n) == /\ f \in [0 .. n -> B] /\ f[0] = Balances
                         /\ \A k \in 1 .. n : f[k] = Paid(f[k - 1], calls[k])
           Has(n) == \E f : Good(f, n)
           P == {n \in 0 .. N : Has(n)}
           Body(f) == [n \in 0 .. N |-> IF n = 0 THEN Balances ELSE Paid(f[n - 1], calls[n])]
<1>1. N \in Nat /\ \A k \in 1 .. N : calls[k] \in CallType
  BY BatchFacts
<1>2. Has(0)
  <2> DEFINE f == [k \in 0 .. 0 |-> Balances]
  <2>1. Good(f, 0)
    BY ParallelAssumption
  <2> QED BY <2>1, Zenon
<1>3. ASSUME NEW n \in 1 .. N, Has(n - 1) PROVE Has(n)
  <2>1. PICK f : Good(f, n - 1)
    BY <1>3, Zenon
  <2> DEFINE g == [k \in 0 .. n |-> IF k = n THEN Paid(f[n - 1], calls[n]) ELSE f[k]]
  <2>2. f[n - 1] \in B /\ calls[n] \in CallType
    BY <1>1, <2>1
  <2>3. Paid(f[n - 1], calls[n]) \in B
    BY <2>2, PaidType
  <2>4. g \in [0 .. n -> B] /\ g[0] = Balances
    BY <1>1, <2>1, <2>3
  <2>5. \A k \in 1 .. n : g[k] = Paid(g[k - 1], calls[k])
    BY <1>1, <2>1
  <2> QED BY <2>4, <2>5, Zenon
<1>4. Has(N)
  <2> HIDE DEF Has
  <2>1. 0 \in P /\ \A n \in 1 .. N : n - 1 \in P => n \in P
    BY <1>1, <1>2, <1>3
  <2> HIDE DEF P, N
  <2>2. \A n \in 0 .. N : n \in P
    BY <1>1, <2>1, UpTo, Zenon
  <2>3. N \in P
    BY <1>1, <2>2
  <2> QED BY <2>3, Zenon DEF P
<1>5. PICK f : Good(f, N)
  BY <1>4
<1>6. f = Body(f)
  BY <1>1, <1>5
<1>7. Serial = CHOOSE g : g = Body(g)
  BY Zenon DEF Serial, Paid
<1> HIDE DEF Body
<1>8. Serial = Body(Serial)
  BY <1>6, <1>7, Zenon
<1> QED BY <1>8 DEF Body

(* Serial starts with the base state's balances and runs call after call. *)
LEMMA SerialFacts ==
  ASSUME TypeInv
  PROVE  /\ Serial[0] = Balances
         /\ \A n \in 1 .. Len(calls) : Serial[n] = Paid(Serial[n - 1], calls[n])
         /\ \A n \in 0 .. Len(calls) : Serial[n] \in [Accounts -> Nat]
<1> DEFINE N == Len(calls)
           P == {n \in 0 .. N : Serial[n] \in [Accounts -> Nat]}
<1>1. N \in Nat /\ \A k \in 1 .. N : calls[k] \in CallType
  BY BatchFacts
<1>2. \A n \in 0 .. N : Serial[n] = IF n = 0 THEN Balances ELSE Paid(Serial[n - 1], calls[n])
  BY SerialIsDefined
<1>3. Serial[0] = Balances
  BY <1>1, <1>2
<1>4. \A n \in 1 .. N : Serial[n] = Paid(Serial[n - 1], calls[n])
  BY <1>1, <1>2
<1>5. 0 \in P
  BY <1>1, <1>3, ParallelAssumption
<1>6. \A n \in 1 .. N : n - 1 \in P => n \in P
  BY <1>1, <1>4, PaidType, SMTT(30)
<1>7. \A n \in 0 .. N : n \in P
  <2> HIDE DEF P, N
  <2> QED BY <1>1, <1>5, <1>6, UpTo, Zenon
<1> QED BY <1>3, <1>4, <1>7

(* The serial execution depends on the batch only. *)
LEMMA SerialUnchanged ==
  ASSUME calls' = calls
  PROVE  Serial' = Serial
BY SMT DEF Serial

-----------------------------------------------------------------------------
(* A round that is accepted *)

\* The calls among the first n that have written a, and what the last of them
\* has made of its balance.
Writers(n, a) == {j \in 1 .. n : a \in DOMAIN results[j].writes}

BalanceAfter(n, a) ==
  IF Writers(n, a) = {} THEN base[a] ELSE results[Max(Writers(n, a))].writes[a]

(* The last writer is a writer, and no other comes after it. *)
LEMMA LastWriterFacts ==
  ASSUME NEW n \in Nat, NEW a, Writers(n, a) # {}
  PROVE  /\ Max(Writers(n, a)) \in Writers(n, a)
         /\ \A k \in Writers(n, a) : k <= Max(Writers(n, a))
<1>1. Writers(n, a) \in SUBSET (0 .. n)
  BY DEF Writers
<1> QED BY <1>1, MaxFacts, Zenon

(* A call that has not written an account leaves its balance. *)
LEMMA BalanceKept ==
  ASSUME NEW n \in Nat \ {0}, NEW a, a \notin DOMAIN results[n].writes
  PROVE  BalanceAfter(n, a) = BalanceAfter(n - 1, a)
<1>1. Writers(n, a) = Writers(n - 1, a)
  BY DEF Writers
<1> QED BY <1>1, Zenon DEF BalanceAfter

(* A call that has written an account determines its balance. *)
LEMMA BalanceWritten ==
  ASSUME NEW n \in Nat \ {0}, NEW a, a \in DOMAIN results[n].writes
  PROVE  BalanceAfter(n, a) = results[n].writes[a]
<1>1. n \in Writers(n, a) /\ \A k \in Writers(n, a) : k \in Nat /\ k <= n
  BY DEF Writers
<1>2. Max(Writers(n, a)) \in Writers(n, a) /\ n <= Max(Writers(n, a))
  BY <1>1, LastWriterFacts
<1>3. Max(Writers(n, a)) = n
  BY <1>1, <1>2
<1> QED BY <1>1, <1>3 DEF BalanceAfter

(* The version call n is compared with has the balance after the calls before *)
(* it, and is never call n's own.                                             *)
LEMMA FinalVersion ==
  ASSUME NEW n \in Nat \ {0}, NEW a,
         \A j \in 1 .. n - 1 : results[j].success
  PROVE  /\ getFinalWriteVersion(a, n).val = BalanceAfter(n - 1, a)
         /\ getFinalWriteVersion(a, n).tx # n
         /\ getFinalWriteVersion(a, n).tx = Base => BalanceAfter(n - 1, a) = base[a]
<1> DEFINE F == getFinalWriteVersion(a, n)
           L == Max(Writers(n - 1, a))
<1>1. Writers(n - 1, a) = {j \in 1 .. n - 1 : results[j].success /\ a \in DOMAIN results[j].writes}
  BY DEF Writers
<1>2. F = IF Writers(n - 1, a) = {} THEN Version(Base, 0, base[a])
          ELSE Version(L, incarnations[L], results[L].writes[a])
  BY <1>1, Zenon DEF getFinalWriteVersion
<1>3. CASE Writers(n - 1, a) = {}
  <2>1. F = Version(Base, 0, base[a]) /\ BalanceAfter(n - 1, a) = base[a]
    BY <1>2, <1>3, Zenon DEF BalanceAfter
  <2> HIDE DEF F
  <2> QED BY <2>1 DEF Version, Base, F
<1>4. CASE Writers(n - 1, a) # {}
  <2>1. F = Version(L, incarnations[L], results[L].writes[a])
    BY <1>2, <1>4, Zenon
  <2>2. BalanceAfter(n - 1, a) = results[L].writes[a]
    BY <1>4, Zenon DEF BalanceAfter
  <2>3. L \in Writers(n - 1, a)
    BY <1>4, LastWriterFacts
  <2>4. L \in 1 .. n - 1
    BY <2>3 DEF Writers
  <2> HIDE DEF F, L
  <2> QED BY <2>1, <2>2, <2>4 DEF Version, Base, F
<1> QED BY <1>3, <1>4

(* A call whose reads are what the calls before it have left does what it does *)
(* in the serial execution.                                                    *)
LEMMA CallOfRound ==
  ASSUME TypeInv, ResultInv, stage = "running", NEW n \in Calls,
         \A i \in Calls : results[i].success,
         ~StaleRead(n),
         \A a \in Accounts : BalanceAfter(n - 1, a) = Serial[n - 1][a]
  PROVE  Payable(n) /\ \A a \in Accounts : BalanceAfter(n, a) = Serial[n][a]
<1> DEFINE c == calls[n]
           r == results[n]
           b == Serial[n - 1]
           F(a) == getFinalWriteVersion(a, n)
<1>1. /\ n \in Nat \ {0} /\ n \in 1 .. Len(calls) /\ n - 1 \in 0 .. Len(calls)
      /\ c.caller \in Accounts /\ c.contract \in Accounts /\ c.value \in Nat
  BY BatchFacts
<1>2. b \in [Accounts -> Nat] /\ Serial[n] = Paid(b, c)
  BY <1>1, SerialFacts
<1>3. Outcome(n)
  BY DEF ResultInv
<1>4. CASE c.value = 0
  <2>1. \A a \in Accounts : BalanceAfter(n, a) = b[a]
    BY <1>1, <1>3, <1>4, BalanceKept DEF Outcome
  <2>2. Payable(n)
    BY <1>1, <1>2, <1>4 DEF Payable
  <2>3. \A a \in Accounts : Paid(b, c)[a] = b[a]
    <3> HIDE DEF b, c
    <3> QED BY <1>1, <1>2, <1>4 DEF Paid
  <2> QED BY <1>2, <2>1, <2>2, <2>3
<1>5. CASE c.value # 0
  <2>1. /\ DOMAIN r.reads = Parties(n) /\ DOMAIN r.writes = Parties(n)
        /\ FromBase(r.reads)
        /\ IF c.caller = c.contract THEN r.reads[c.caller].tx = n
           ELSE /\ r.reads[c.caller].val >= c.value
                /\ r.writes[c.caller] = r.reads[c.caller].val - c.value
                /\ r.writes[c.contract] = r.reads[c.contract].val + c.value
    BY <1>3, <1>5 DEF Outcome
  <2>2. ASSUME NEW a \in Parties(n)
        PROVE  r.reads[a].tx # n /\ r.reads[a].val = b[a]
    <3>1. a \in DOMAIN r.reads /\ a \in Accounts
      BY <1>1, <2>1 DEF Parties
    <3>2. r.reads[a].tx = F(a).tx /\ (F(a).tx # Base => r.reads[a] = F(a))
      BY <3>1 DEF StaleRead
    <3>3. /\ F(a).val = BalanceAfter(n - 1, a) /\ F(a).tx # n
          /\ F(a).tx = Base => BalanceAfter(n - 1, a) = base[a]
      <4>1. \A j \in 1 .. n - 1 : results[j].success
        BY <1>1, BatchFacts
      <4> QED BY <1>1, <4>1, FinalVersion
    <3>4. BalanceAfter(n - 1, a) = b[a]
      BY <3>1
    <3>5. r.reads[a].tx = Base => r.reads[a].val = base[a]
      BY <2>1, <3>1, Zenon DEF FromBase
    <3> HIDE DEF F, b, r
    <3> QED BY <3>2, <3>3, <3>4, <3>5
  <2>3. c.caller # c.contract
    BY <2>1, <2>2 DEF Parties
  <2>4. /\ r.reads[c.caller].val = b[c.caller]
        /\ r.reads[c.contract].val = b[c.contract]
    BY <2>2 DEF Parties
  <2>5. /\ b[c.caller] >= c.value
        /\ r.writes[c.caller] = b[c.caller] - c.value
        /\ r.writes[c.contract] = b[c.contract] + c.value
    BY <2>1, <2>3, <2>4
  <2>6. Payable(n)
    BY <2>5 DEF Payable
  <2>7. ASSUME NEW a \in Accounts PROVE BalanceAfter(n, a) = Paid(b, c)[a]
    <3>1. a \in Parties(n) => BalanceAfter(n, a) = r.writes[a]
      BY <1>1, <2>1, BalanceWritten
    <3>2. a \notin Parties(n) => BalanceAfter(n, a) = b[a]
      BY <1>1, <2>1, BalanceKept
    <3> HIDE DEF b, r
    <3>3. Paid(b, c)[a] = IF a = c.caller THEN b[a] - c.value
                          ELSE IF a = c.contract THEN b[a] + c.value ELSE b[a]
      <4> HIDE DEF c
      <4> QED BY <1>1, <1>2, <2>3, <2>5 DEF Paid
    <3> QED BY <2>5, <3>1, <3>2, <3>3 DEF Parties
  <2> QED BY <1>2, <2>6, <2>7
<1> QED BY <1>4, <1>5

(* A round that validateResults accepts is the serial execution. *)
LEMMA ValidRound ==
  ASSUME TypeInv, RoundInv, ResultInv, stage = "running",
         \A i \in Calls : results[i].success,
         \A i \in Calls : ~StaleRead(i)
  PROVE  Merged(results) = Serial[Len(calls)] /\ \A i \in Calls : Payable(i)
<1> DEFINE N == Len(calls)
           Same(n) == \A a \in Accounts : BalanceAfter(n, a) = Serial[n][a]
           P == {n \in 0 .. N : Same(n)}
<1>1. N \in Nat /\ Calls = 1 .. N
  BY BatchFacts
<1>2. Same(0)
  <2>1. base = Balances /\ Serial[0] = Balances
    BY SerialFacts DEF RoundInv
  <2>2. \A a \in Accounts : Writers(0, a) = {}
    BY DEF Writers
  <2> QED BY <2>1, <2>2 DEF BalanceAfter
<1>3. \A n \in 1 .. N : Same(n - 1) => Payable(n) /\ Same(n)
  BY <1>1, CallOfRound
<1>4. \A n \in 0 .. N : Same(n)
  <2> HIDE DEF Same
  <2>1. 0 \in P /\ \A n \in 1 .. N : n - 1 \in P => n \in P
    BY <1>1, <1>2, <1>3
  <2> HIDE DEF P, N
  <2>2. \A n \in 0 .. N : n \in P
    BY <1>1, <2>1, UpTo, Zenon
  <2> QED BY <2>2 DEF P
<1>5. \A i \in Calls : Payable(i)
  <2> HIDE DEF Same
  <2> QED BY <1>1, <1>3, <1>4
<1>6. \A a \in Accounts : Merged(results)[a] = BalanceAfter(N, a)
  <2> TAKE a \in Accounts
  <2>1. DOMAIN results = 1 .. N
    BY <1>1 DEF TypeInv
  <2>2. Writers(N, a) = {i \in DOMAIN results : results[i].success /\ a \in DOMAIN results[i].writes}
    BY <1>1, <2>1 DEF Writers
  <2>3. Merged(results)[a] = IF Writers(N, a) = {} THEN base[a]
                             ELSE results[Max(Writers(N, a))].writes[a]
    BY <2>2, Zenon DEF Merged
  <2> QED BY <2>3, Zenon DEF BalanceAfter
<1>7. Serial[N] \in [Accounts -> Nat]
  BY <1>1, SerialFacts
<1>8. Merged(results) = [a \in Accounts |-> Merged(results)[a]]
  BY Zenon DEF Merged
<1>9. \A a \in Accounts : Merged(results)[a] = Serial[N][a]
  BY <1>1, <1>4, <1>6
<1> HIDE DEF N
<1> QED BY <1>5, <1>7, <1>8, <1>9 DEF N

-----------------------------------------------------------------------------
(* The types, and what the memory holds *)

(* The types depend on the batch only. *)
LEMMA TypesUnchanged ==
  ASSUME calls' = calls
  PROVE  /\ Calls' = Calls /\ VersionType' = VersionType
         /\ ResultType' = ResultType /\ WorkerType' = WorkerType
BY DEF Calls, VersionType, ResultType, WorkerType

(* add keeps the memory one of its calls' own versions. *)
LEMMA AddFacts ==
  ASSUME TypeInv, NEW m \in [Accounts -> Partial(Calls, VersionType)], OwnVersions(m),
         NEW i \in Calls, calls[i].value > 0, NEW a \in Parties(i), NEW b \in Nat
  PROVE  /\ add(m, a, i, incarnations[i], b) \in [Accounts -> Partial(Calls, VersionType)]
         /\ OwnVersions(add(m, a, i, incarnations[i], b))
<1> DEFINE v == Version(i, incarnations[i], b)
           n == add(m, a, i, incarnations[i], b)
<1>1. a \in Accounts
  BY BatchFacts DEF Parties
<1>2. v \in VersionType /\ v.tx = i
  BY DEF TypeInv, Version, VersionType
<1>3. n = [m EXCEPT ![a] = put(m[a], i, v)]
  BY DEF add
<1> HIDE DEF v, n
<1>4. m[a] \in Partial(Calls, VersionType)
  BY <1>1
<1>5. put(m[a], i, v) \in Partial(Calls, VersionType)
  BY <1>2, <1>4, PutType, Zenon
<1>6. n \in [Accounts -> Partial(Calls, VersionType)]
  BY <1>3, <1>5, Zenon
<1>7. /\ DOMAIN n[a] = DOMAIN m[a] \cup {i} /\ n[a][i] = v
      /\ \A u \in DOMAIN m[a] : u # i => n[a][u] = m[a][u]
      /\ \A x \in Accounts \ {a} : n[x] = m[x]
  <2>1. n[a] = put(m[a], i, v) /\ \A x \in Accounts \ {a} : n[x] = m[x]
    BY <1>1, <1>3
  <2>2. /\ DOMAIN put(m[a], i, v) = DOMAIN m[a] \cup {i} /\ put(m[a], i, v)[i] = v
        /\ \A u \in DOMAIN m[a] : u # i => put(m[a], i, v)[u] = m[a][u]
    BY DEF put
  <2> QED BY <2>1, <2>2
<1>8. ASSUME NEW x \in Accounts, NEW u \in DOMAIN n[x]
      PROVE  n[x][u].tx = u /\ calls[u].value > 0 /\ x \in Parties(u)
  <2>1. CASE x = a /\ u = i
    BY <1>2, <1>7, <2>1
  <2>2. CASE ~(x = a /\ u = i)
    <3>1. u \in DOMAIN m[x] /\ n[x][u] = m[x][u]
      BY <1>7, <1>8, <2>2
    <3> QED BY <3>1 DEF OwnVersions
  <2> QED BY <2>1, <2>2
<1>9. OwnVersions(n)
  BY <1>8, Zenon DEF OwnVersions
<1> QED BY <1>6, <1>9 DEF n

(* Clear leaves no versions. *)
LEMMA ClearFacts ==
  ASSUME NEW V
  PROVE  /\ Clear(Accounts) \in [Accounts -> Partial(Calls, V)]
         /\ OwnVersions(Clear(Accounts))
         /\ \A a \in Accounts : Clear(Accounts)[a] = <<>>
<1>1. <<>> \in Partial(Calls, V) /\ DOMAIN <<>> = {}
  BY EmptyMap
<1> QED BY <1>1 DEF Clear, OwnVersions

(* The record a call starts from has no result. *)
LEMMA NoResultType == NoResult \in ResultType /\ Idle \in WorkerType
<1>1. <<>> \in Partial(Accounts, VersionType) /\ <<>> \in Partial(Accounts, Nat)
  BY EmptyMap
<1> QED BY <1>1 DEF NoResult, Idle, ResultType, WorkerType

(* Before its first call the fallback sees the base state's balances, whatever *)
(* the memory holds: no version is visible to the first call.                  *)
LEMMA SerialStart == TypeInv /\ completed = {} /\ base = Balances => SerialUpTo(0)
<1> SUFFICES ASSUME TypeInv, completed = {}, base = Balances PROVE SerialUpTo(0)
  OBVIOUS
<1>1. Serial[0] = Balances
  BY SerialFacts
<1>2. ASSUME NEW a \in Accounts PROVE find(mem, a, 0 + 1, base).val = base[a]
  <2>1. mem[a] \in Partial(Calls, VersionType)
    BY DEF TypeInv
  <2>2. \A u \in DOMAIN mem[a] : u \in Nat \ {0}
    BY <2>1, PartialFacts, BatchFacts
  <2>3. visible(mem, a, 0 + 1) = {}
    BY <2>2 DEF visible
  <2> QED BY <2>3 DEF find, Version
<1> QED BY <1>1, <1>2 DEF SerialUpTo

(* The invariant holds when Execute begins. *)
LEMMA InitInv == Init => IInv
<1> SUFFICES ASSUME Init PROVE IInv
  OBVIOUS
<1> USE DEF Init
<1>1. /\ Len(calls) \in Nat /\ Calls = 1 .. Len(calls) /\ calls \in Batches
  BY BatchTyped
<1>2. TypeInv
  <2>1. mem \in [Accounts -> Partial(Calls, VersionType)]
    BY ClearFacts, Zenon
  <2>2. results \in [Calls -> ResultType] /\ worker \in [Workers -> WorkerType]
    BY NoResultType
  <2> QED BY <1>1, <2>1, <2>2, ParallelAssumption DEF TypeInv, Stages
<1>3. QueueInv
  BY DEF QueueInv, InHand, Idle
<1>4. GraphInv /\ ResultInv /\ ValidatedIsSerial
  BY DEF GraphInv, ResultInv, ValidatedIsSerial
<1>5. RoundInv
  <2>1. stage = "sequential" => 1 \in Calls
    BY <1>1
  <2>2. 0 < MaxRetries
    BY ParallelAssumption
  <2> QED BY <2>1, <2>2 DEF RoundInv
<1>6. MemInv
  BY ClearFacts, Zenon DEF MemInv
<1>7. WorkerInv
  BY DEF WorkerInv, WorkerOK, Idle
<1>8. FallbackInv
  <2>1. SerialUpTo(0)
    BY <1>2, SerialStart
  <2>2. stage # "fallback" /\ 0 \in 0 .. Len(calls)
    BY <1>1
  <2> QED BY <2>1, <2>2, Zenon DEF FallbackInv
<1> QED BY <1>2, <1>3, <1>4, <1>5, <1>6, <1>7, <1>8 DEF IInv

-----------------------------------------------------------------------------
(* The scheduler's queue *)

(* The calls held back are calls, and completing one frees some of them. *)
LEMMA WaitingFacts ==
  ASSUME TypeInv, NEW done, NEW i
  PROVE  /\ Waiting(deps, done) \subseteq Calls
         /\ Waiting(deps, done \cup {i}) \subseteq Waiting(deps, done)
BY DEF TypeInv, Waiting

(* A listing of a set of calls is a sequence of calls without repetition. *)
LEMMA ListingFacts ==
  ASSUME TypeInv, NEW S \in SUBSET Calls, NEW s \in Orders(S)
  PROVE  /\ s \in Seq(S) /\ s \in Seq(Calls)
         /\ \A m, n \in DOMAIN s : m # n => s[m] # s[n]
<1>1. IsFiniteSet(Calls)
  BY BatchFacts, FS_Interval
<1>2. Cardinality(S) \in Nat
  BY <1>1, FS_Subset, FS_CardinalityType
<1>3. /\ s \in [1 .. Cardinality(S) -> S]
      /\ \A m, n \in 1 .. Cardinality(S) : m # n => s[m] # s[n]
  BY DEF Orders, Bijection, Injection, IsInjective
<1> QED BY <1>2, <1>3

(* A sequence without repetition has as many elements as places. *)
LEMMA NoRepetition ==
  ASSUME NEW S, NEW s \in Seq(S), \A m, n \in DOMAIN s : m # n => s[m] # s[n]
  PROVE  Len(s) = Cardinality({s[n] : n \in DOMAIN s})
<1> DEFINE D == 1 .. Len(s)
           T == {s[n] : n \in DOMAIN s}
<1>1. Len(s) \in Nat /\ DOMAIN s = D
  OBVIOUS
<1>2. s \in Bijection(D, T)
  BY <1>1 DEF Bijection, Injection, Surjection, IsInjective
<1>3. IsFiniteSet(D) /\ Cardinality(D) = Len(s)
  BY <1>1, FS_Interval
<1>4. Cardinality(T) = Cardinality(D)
  <2> HIDE DEF D, T
  <2> QED BY <1>2, <1>3, FS_Bijection, Zenon DEF ExistsBijection
<1> QED BY <1>3, <1>4

(* Storing a result and marking its call complete keeps the queue in order: the *)
(* calls it queues were held back until now, so they are queued once.           *)
LEMMA CompleteQueue ==
  ASSUME TypeInv, QueueInv, NEW w \in Workers, InHand(w),
         NEW success \in BOOLEAN, NEW reads \in Partial(Accounts, VersionType),
         NEW writes \in Partial(Accounts, Nat),
         CompleteCall(w, success, reads, writes),
         calls' = calls, deps' = deps, stage' = stage
  PROVE  /\ ready' \in Seq(Calls) /\ completed' \subseteq Calls
         /\ results' \in [Calls -> ResultType]
         /\ worker' \in [Workers -> WorkerType]
         /\ QueueInv'
<1> DEFINE i == worker[w].call
           S == newlyReady(i)
           held == Waiting(deps, completed)
           held1 == Waiting(deps, completed \cup {i})
<1>1. /\ i \in Calls /\ i \notin completed /\ i \notin held /\ stage = "running"
      /\ completed \cap held = {}
  BY Zenon DEF QueueInv
<1>2. PICK s \in Orders(S) : ready' = ready \o s
  BY Zenon DEF CompleteCall
<1>3. S = held \ held1 /\ held \subseteq Calls /\ held1 \subseteq held
  BY WaitingFacts, Zenon DEF newlyReady
<1>4. S \in SUBSET Calls
  BY <1>3
<1>5. s \in Seq(S) /\ s \in Seq(Calls) /\ \A m, n \in DOMAIN s : m # n => s[m] # s[n]
  <2> HIDE DEF S
  <2> QED BY <1>2, <1>4, ListingFacts
<1>6. ready \in Seq(Calls) /\ completed \subseteq Calls
  BY DEF TypeInv
<1>7. ready' \in Seq(Calls)
  BY <1>2, <1>5, <1>6
<1>8. completed' = completed \cup {i} /\ completed' \subseteq Calls
  BY <1>1, <1>6 DEF CompleteCall
<1>9. results' \in [Calls -> ResultType]
  <2>1. incarnations[i] \in Int
    BY <1>1 DEF TypeInv
  <2>2. results' = [results EXCEPT ![i] = [success |-> success, reads |-> reads,
                       writes |-> writes, incarnation |-> incarnations[i]]]
    BY DEF CompleteCall
  <2>3. results \in [Calls -> ResultType]
    BY DEF TypeInv
  <2> HIDE DEF i
  <2>4. [success |-> success, reads |-> reads, writes |-> writes,
         incarnation |-> incarnations[i]] \in ResultType
    BY <2>1 DEF ResultType
  <2> QED BY <2>2, <2>3, <2>4, Zenon
<1>10. worker' = [worker EXCEPT ![w] = Idle] /\ worker \in [Workers -> WorkerType]
  BY DEF CompleteCall, TypeInv
<1>11. worker' \in [Workers -> WorkerType]
  BY <1>10, NoResultType
<1>12. /\ ~InHand(w)'
       /\ \A v \in Workers \ {w} : InHand(v)' = InHand(v) /\ worker'[v] = worker[v]
  BY <1>10 DEF InHand, Idle
<1>13. /\ DOMAIN ready' = 1 .. Len(ready) + Len(s)
       /\ \A n \in DOMAIN ready' :
            \/ n \in DOMAIN ready /\ ready'[n] = ready[n]
            \/ n - Len(ready) \in DOMAIN s /\ ready'[n] = s[n - Len(ready)]
       /\ Len(ready) \in Nat /\ DOMAIN ready = 1 .. Len(ready)
  BY <1>2, <1>5, <1>6
<1> HIDE DEF S, i, held, held1
<1>14. \A n \in DOMAIN s : s[n] \in held /\ s[n] \notin held1
  <2>1. \A n \in DOMAIN s : s[n] \in S
    BY <1>5
  <2> QED BY <1>3, <2>1
<1>15. \A n \in DOMAIN ready : ready[n] \notin completed \cup held /\ ready[n] # i
  BY Zenon DEF QueueInv, held, i
<1>16. \A m, n \in DOMAIN ready' : m # n => ready'[m] # ready'[n]
  <2> SUFFICES ASSUME NEW m \in DOMAIN ready', NEW n \in DOMAIN ready', m # n
               PROVE  ready'[m] # ready'[n]
    OBVIOUS
  <2>1. CASE m \in DOMAIN ready /\ ready'[m] = ready[m]
    <3>1. CASE n \in DOMAIN ready /\ ready'[n] = ready[n]
      BY <2>1, <3>1 DEF QueueInv
    <3>2. CASE n - Len(ready) \in DOMAIN s /\ ready'[n] = s[n - Len(ready)]
      BY <1>14, <1>15, <2>1, <3>2
    <3> QED BY <1>13, <3>1, <3>2
  <2>2. CASE m - Len(ready) \in DOMAIN s /\ ready'[m] = s[m - Len(ready)]
    <3>1. CASE n \in DOMAIN ready /\ ready'[n] = ready[n]
      BY <1>14, <1>15, <2>2, <3>1
    <3>2. CASE n - Len(ready) \in DOMAIN s /\ ready'[n] = s[n - Len(ready)]
      <4>1. m - Len(ready) # n - Len(ready)
        BY <1>13
      <4> QED BY <1>5, <2>2, <3>2, <4>1
    <3> QED BY <1>13, <3>1, <3>2
  <2> QED BY <1>13, <2>1, <2>2
<1>17. Waiting(deps, completed)' = held1
  BY <1>8 DEF Waiting, held1
<1>18. \A n \in DOMAIN ready' : ready'[n] \notin completed' \cup held1
  <2> TAKE n \in DOMAIN ready'
  <2>1. CASE n \in DOMAIN ready /\ ready'[n] = ready[n]
    BY <1>3, <1>8, <1>15, <2>1
  <2>2. CASE n - Len(ready) \in DOMAIN s /\ ready'[n] = s[n - Len(ready)]
    BY <1>1, <1>8, <1>14, <2>2
  <2> QED BY <1>13, <2>1, <2>2
<1>19. ASSUME NEW v \in Workers, InHand(v)'
       PROVE  /\ worker'[v].call \in Calls \ (completed' \cup held1)
              /\ \A n \in DOMAIN ready' : ready'[n] # worker'[v].call
              /\ \A u \in Workers : u # v /\ InHand(u)' => worker'[u].call # worker'[v].call
  <2>1. v # w /\ InHand(v) /\ worker'[v] = worker[v]
    BY <1>12, <1>19
  <2>2. /\ worker[v].call \in Calls \ (completed \cup held)
        /\ \A n \in DOMAIN ready : ready[n] # worker[v].call
        /\ \A u \in Workers : u # v /\ InHand(u) => worker[u].call # worker[v].call
    BY <2>1, Zenon DEF QueueInv, held
  <2>3. worker[v].call # i
    BY <2>1, <2>2 DEF i
  <2>4. worker'[v].call \in Calls \ (completed' \cup held1)
    BY <1>3, <1>8, <2>1, <2>2, <2>3
  <2>5. ASSUME NEW n \in DOMAIN ready' PROVE ready'[n] # worker'[v].call
    <3>1. CASE n \in DOMAIN ready /\ ready'[n] = ready[n]
      BY <2>1, <2>2, <3>1
    <3>2. CASE n - Len(ready) \in DOMAIN s /\ ready'[n] = s[n - Len(ready)]
      BY <1>14, <2>1, <2>2, <3>2
    <3> QED BY <1>13, <3>1, <3>2
  <2>6. \A u \in Workers : u # v /\ InHand(u)' => worker'[u].call # worker'[v].call
    BY <1>12, <2>1, <2>2
  <2> QED BY <2>4, <2>5, <2>6
<1>20. completed' \cap held1 = {}
  BY <1>1, <1>3, <1>8
<1>21. QueueInv'
  <2>1. stage' = "running" /\ Calls' = Calls
    BY <1>1, TypesUnchanged
  <2> QED BY <1>16, <1>17, <1>18, <1>19, <1>20, <2>1 DEF QueueInv
<1> QED BY <1>7, <1>8, <1>9, <1>11, <1>21

(* A worker that goes on with its call leaves the queue in order. *)
LEMMA SameCall ==
  ASSUME QueueInv, NEW w \in Workers, InHand(w),
         calls' = calls, deps' = deps, stage' = stage,
         ready' = ready, completed' = completed,
         worker'[w].call = worker[w].call,
         \A v \in Workers \ {w} : worker'[v] = worker[v]
  PROVE  QueueInv'
<1>1. Calls' = Calls /\ Waiting(deps, completed)' = Waiting(deps, completed)
  BY TypesUnchanged DEF Waiting
<1>2. \A v \in Workers : worker'[v].call = worker[v].call /\ (InHand(v)' => InHand(v))
  BY DEF InHand
<1> QED BY <1>1, <1>2 DEF QueueInv

-----------------------------------------------------------------------------
(* The steps of a worker *)

(* What a worker's step leaves alone. *)
LEMMA RunningFrame ==
  ASSUME IInv, stage = "running",
         UNCHANGED <<calls, speculative, base, incarnations, deps, retries, stage>>
  PROVE  GraphInv' /\ RoundInv' /\ FallbackInv' /\ ValidatedIsSerial'
<1>1. Calls' = Calls
  BY TypesUnchanged
<1>2. GraphInv'
  BY <1>1 DEF IInv, GraphInv
<1>3. RoundInv'
  BY <1>1 DEF IInv, RoundInv
<1>4. FallbackInv' /\ ValidatedIsSerial'
  BY DEF FallbackInv, ValidatedIsSerial
<1> QED BY <1>2, <1>3, <1>4

(* The worker whose step it is not keeps its state. *)
LEMMA OtherWorkers ==
  ASSUME WorkerInv, NEW w \in Workers, calls' = calls, base' = base,
         \A v \in Workers \ {w} : worker'[v] = worker[v],
         WorkerOK(w)'
  PROVE  WorkerInv'
<1> SUFFICES ASSUME NEW v \in Workers \ {w} PROVE WorkerOK(v)'
  BY DEF WorkerInv
<1>1. WorkerOK(v) /\ worker'[v] = worker[v]
  BY DEF WorkerInv
<1> QED BY <1>1, Zenon DEF WorkerOK, Funded, Debited, Both, FromBase, Parties

(* A result depends on the balances of the base state and on the call. *)
LEMMA OtherResults ==
  ASSUME NEW i \in Calls, Outcome(i), results'[i] = results[i], calls' = calls, base' = base
  PROVE  Outcome(i)'
BY DEF Outcome, FromBase, Parties

(* What a call reads of a balance: its own write, or what find returns. *)
LEMMA GetBalanceFacts ==
  ASSUME TypeInv, MemInv, NEW i \in Calls, NEW a \in Accounts,
         NEW writes \in Partial(Accounts, Nat)
  PROVE  /\ GetBalance(i, writes, a) \in VersionType
         /\ GetBalance(i, writes, a).tx = Base => GetBalance(i, writes, a).val = base[a]
         /\ a \in DOMAIN writes => GetBalance(i, writes, a) = Version(i, incarnations[i], writes[a])
         /\ a \notin DOMAIN writes => GetBalance(i, writes, a) = find(mem, a, i, base)
<1>1. CASE a \in DOMAIN writes
  <2>1. GetBalance(i, writes, a) = Version(i, incarnations[i], writes[a])
    BY <1>1 DEF GetBalance
  <2>2. writes[a] \in Nat /\ incarnations[i] \in 0 .. MaxRetries /\ i \in Nat \ {0}
    BY <1>1, PartialFacts, BatchFacts DEF TypeInv
  <2> QED BY <1>1, <2>1, <2>2 DEF Version, VersionType, Base
<1>2. CASE a \notin DOMAIN writes
  <2>1. GetBalance(i, writes, a) = find(mem, a, i, base)
    BY <1>2 DEF GetBalance
  <2> QED BY <1>2, <2>1, FindFacts
<1> QED BY <1>1, <1>2

(* A worker takes the first call of the queue. *)
LEMMA NextCallInv == ASSUME IInv, NEW w \in Workers, NextCall(w) PROVE IInv'
<1> DEFINE new == [Idle EXCEPT !.call = Head(ready), !.pc = "caller"]
<1>1. /\ UNCHANGED <<calls, speculative, base, mem, incarnations, touched, results, deps,
                     completed, retries, stage>>
      /\ stage = "running" /\ ready # <<>>
      /\ worker' = [worker EXCEPT ![w] = new] /\ ready' = Tail(ready)
      /\ ~InHand(w)
  BY DEF NextCall, InHand
<1>2. TypeInv /\ QueueInv /\ MemInv /\ WorkerInv /\ ResultInv
  BY DEF IInv
<1>3. Calls' = Calls /\ VersionType' = VersionType /\ ResultType' = ResultType
      /\ WorkerType' = WorkerType
  BY <1>1, TypesUnchanged
<1>4. ready \in Seq(Calls) /\ worker \in [Workers -> WorkerType]
  BY <1>2 DEF TypeInv
<1>5. /\ Len(ready) \in Nat \ {0} /\ DOMAIN ready = 1 .. Len(ready)
      /\ ready' \in Seq(Calls) /\ DOMAIN ready' = 1 .. Len(ready) - 1
      /\ \A n \in DOMAIN ready' : n + 1 \in DOMAIN ready /\ ready'[n] = ready[n + 1]
      /\ Head(ready) = ready[1] /\ Head(ready) \in Calls
  BY <1>1, <1>4
<1>6. /\ new.call = Head(ready) /\ new.pc = "caller" /\ new.reads = <<>> /\ new.writes = <<>>
      /\ new \in WorkerType
  <2>1. Head(ready) \in Nat
    BY <1>2, <1>5, BatchFacts
  <2>2. <<>> \in Partial(Accounts, VersionType) /\ <<>> \in Partial(Accounts, Nat)
    BY EmptyMap
  <2> QED BY <2>1, <2>2, Zenon DEF Idle, WorkerType
<1> HIDE DEF new
<1>7. worker' \in [Workers -> WorkerType] /\ worker'[w] = new
      /\ \A v \in Workers \ {w} : worker'[v] = worker[v]
  BY <1>1, <1>4, <1>6
<1>8. TypeInv'
  BY <1>1, <1>2, <1>3, <1>5, <1>7 DEF TypeInv
<1>9. Waiting(deps, completed)' = Waiting(deps, completed)
  BY <1>1 DEF Waiting
<1>10. QueueInv'
  <2>1. \A m, n \in DOMAIN ready' : m # n => ready'[m] # ready'[n]
    BY <1>2, <1>5 DEF QueueInv
  <2>2. \A n \in DOMAIN ready' : ready'[n] \notin completed \cup Waiting(deps, completed)
    BY <1>2, <1>5 DEF QueueInv
  <2>3. /\ Head(ready) \in Calls \ (completed \cup Waiting(deps, completed))
        /\ \A n \in DOMAIN ready' : ready'[n] # Head(ready)
        /\ \A v \in Workers : InHand(v) => worker[v].call # Head(ready)
    BY <1>2, <1>5 DEF QueueInv
  <2>4. ASSUME NEW v \in Workers, InHand(v)'
        PROVE  /\ worker'[v].call \in Calls \ (completed \cup Waiting(deps, completed))
               /\ \A n \in DOMAIN ready' : ready'[n] # worker'[v].call
               /\ \A u \in Workers : u # v /\ InHand(u)' => worker'[u].call # worker'[v].call
    <3>1. \A u \in Workers \ {w} : worker'[u] = worker[u] /\ InHand(u)' = InHand(u)
      BY <1>7 DEF InHand
    <3>2. worker'[w].call = Head(ready)
      BY <1>6, <1>7
    <3>3. CASE v = w
      BY <2>3, <3>1, <3>2, <3>3
    <3>4. CASE v # w
      <4>1. /\ worker[v].call \in Calls \ (completed \cup Waiting(deps, completed))
            /\ \A n \in DOMAIN ready : ready[n] # worker[v].call
            /\ \A u \in Workers : u # v /\ InHand(u) => worker[u].call # worker[v].call
        BY <1>2, <2>4, <3>1, <3>4 DEF QueueInv
      <4> QED BY <1>5, <2>3, <2>4, <3>1, <3>2, <3>4, <4>1
    <3> QED BY <3>3, <3>4
  <2> QED BY <1>1, <1>2, <1>3, <1>9, <2>1, <2>2, <2>4 DEF QueueInv
<1>11. GraphInv' /\ RoundInv' /\ FallbackInv' /\ ValidatedIsSerial'
  BY <1>1, RunningFrame
<1>12. MemInv' /\ ResultInv'
  BY <1>1, <1>2, <1>3, OtherResults DEF MemInv, OwnVersions, Parties, ResultInv
<1>13. WorkerInv'
  <2>1. WorkerOK(w)'
    BY <1>6, <1>7 DEF WorkerOK
  <2> QED BY <1>1, <1>2, <1>7, <2>1, OtherWorkers
<1> QED BY <1>8, <1>10, <1>11, <1>12, <1>13 DEF IInv

(* A worker with a call in hand: what the invariant says of the call. *)
LEMMA CallInHand ==
  ASSUME IInv, NEW w \in Workers, InHand(w)
  PROVE  LET i == worker[w].call
         IN  /\ stage = "running" /\ i \in Calls /\ worker[w] \in WorkerType
             /\ worker[w].reads \in Partial(Accounts, VersionType)
             /\ worker[w].writes \in Partial(Accounts, Nat)
             /\ i \in Nat \ {0} /\ incarnations[i] \in 0 .. MaxRetries
             /\ calls[i].caller \in Accounts /\ calls[i].contract \in Accounts
             /\ calls[i].value \in Nat
             /\ calls[i].caller \in Parties(i) /\ calls[i].contract \in Parties(i)
<1>1. stage = "running" /\ worker[w].call \in Calls
  BY Zenon DEF IInv, QueueInv
<1>2. worker[w] \in WorkerType /\ incarnations[worker[w].call] \in 0 .. MaxRetries /\ TypeInv
  BY <1>1 DEF IInv, TypeInv
<1>3. /\ worker[w].reads \in Partial(Accounts, VersionType)
      /\ worker[w].writes \in Partial(Accounts, Nat)
  BY <1>2 DEF WorkerType
<1> QED BY <1>1, <1>2, <1>3, BatchFacts DEF Parties

(* A call that ends with what its result should say keeps the invariant, given *)
(* the memory's part of it.                                                    *)
LEMMA CompleteInv ==
  ASSUME IInv, NEW w \in Workers, InHand(w), NEW i \in Calls, i = worker[w].call,
         NEW success \in BOOLEAN, NEW reads \in Partial(Accounts, VersionType),
         NEW writes \in Partial(Accounts, Nat),
         CompleteCall(w, success, reads, writes),
         UNCHANGED <<calls, speculative, base, incarnations, deps, retries, stage>>,
         mem' \in [Accounts -> Partial(Calls, VersionType)], MemInv',
         touched' \in [Calls -> [reads : SUBSET Accounts, writes : SUBSET Accounts]],
         success => Outcome(i)'
  PROVE  IInv'
<1>1. TypeInv /\ QueueInv /\ WorkerInv /\ ResultInv
  BY DEF IInv
<1>2. stage = "running" /\ i \in Calls
  BY CallInHand
<1>3. /\ Calls' = Calls /\ VersionType' = VersionType /\ ResultType' = ResultType
      /\ WorkerType' = WorkerType
  BY TypesUnchanged
<1>4. /\ ready' \in Seq(Calls) /\ completed' \subseteq Calls
      /\ results' \in [Calls -> ResultType]
      /\ worker' \in [Workers -> WorkerType]
      /\ QueueInv'
  BY <1>1, CompleteQueue
<1>5. TypeInv'
  BY <1>1, <1>3, <1>4 DEF TypeInv
<1>6. GraphInv' /\ RoundInv' /\ FallbackInv' /\ ValidatedIsSerial'
  BY <1>2, RunningFrame
<1>7. WorkerInv'
  <2>1. worker' = [worker EXCEPT ![w] = Idle] /\ worker \in [Workers -> WorkerType]
    BY <1>1 DEF CompleteCall, TypeInv
  <2>2. worker'[w] = Idle /\ \A v \in Workers \ {w} : worker'[v] = worker[v]
    BY <2>1
  <2>3. WorkerOK(w)'
    BY <2>2, SMTT(30) DEF WorkerOK, Idle
  <2> QED BY <1>1, <2>2, <2>3, OtherWorkers
<1>8. ResultInv'
  <2>1. results \in [Calls -> ResultType]
    BY <1>1 DEF TypeInv
  <2>2. results'[i].success = success /\ \A j \in Calls \ {i} : results'[j] = results[j]
    BY <1>2, <2>1 DEF CompleteCall
  <2>3. ASSUME NEW j \in Calls, results'[j].success PROVE Outcome(j)'
    <3>1. CASE j = i
      BY <2>2, <2>3, <3>1
    <3>2. CASE j # i
      <4>1. Outcome(j) /\ results'[j] = results[j]
        BY <1>1, <1>2, <2>2, <2>3, <3>2 DEF ResultInv
      <4> QED BY <4>1, OtherResults
    <3> QED BY <3>1, <3>2
  <2> QED BY <1>3, <2>3 DEF ResultInv
<1> QED BY <1>4, <1>5, <1>6, <1>7, <1>8 DEF IInv

(* A call that goes on keeps the invariant, given the memory's part of it. *)
LEMMA GoOnInv ==
  ASSUME IInv, NEW w \in Workers, InHand(w), NEW new \in WorkerType,
         new.call = worker[w].call, worker' = [worker EXCEPT ![w] = new],
         UNCHANGED <<calls, speculative, base, incarnations, results, ready, deps,
                     completed, retries, stage>>,
         mem' \in [Accounts -> Partial(Calls, VersionType)], MemInv',
         touched' \in [Calls -> [reads : SUBSET Accounts, writes : SUBSET Accounts]],
         WorkerOK(w)'
  PROVE  IInv'
<1>1. TypeInv /\ QueueInv /\ WorkerInv /\ ResultInv
  BY DEF IInv
<1>2. stage = "running"
  BY CallInHand
<1>3. /\ Calls' = Calls /\ VersionType' = VersionType /\ ResultType' = ResultType
      /\ WorkerType' = WorkerType
  BY TypesUnchanged
<1>4. worker \in [Workers -> WorkerType]
  BY <1>1 DEF TypeInv
<1>5. /\ worker' \in [Workers -> WorkerType] /\ worker'[w] = new
      /\ \A v \in Workers \ {w} : worker'[v] = worker[v]
  BY <1>4
<1>6. TypeInv'
  BY <1>1, <1>3, <1>5 DEF TypeInv
<1>7. QueueInv'
  BY <1>1, <1>5, SameCall
<1>8. GraphInv' /\ RoundInv' /\ FallbackInv' /\ ValidatedIsSerial'
  BY <1>2, RunningFrame
<1>9. WorkerInv'
  BY <1>1, <1>5, OtherWorkers
<1>10. ResultInv'
  BY <1>1, <1>3, OtherResults DEF ResultInv
<1> QED BY <1>6, <1>7, <1>8, <1>9, <1>10 DEF IInv

(* What touches an account keeps the type of the touched keys. *)
LEMMA AccessType ==
  ASSUME TypeInv, NEW i \in Calls, NEW field \in {"reads", "writes"}, NEW a \in Accounts,
         Access(i, field, a)
  PROVE  touched' \in [Calls -> [reads : SUBSET Accounts, writes : SUBSET Accounts]]
<1>1. touched \in [Calls -> [reads : SUBSET Accounts, writes : SUBSET Accounts]]
  BY DEF TypeInv
<1>2. touched' = [touched EXCEPT ![i][field] = @ \cup {a}]
  BY DEF Access
<1>3. touched[i] \in [reads : SUBSET Accounts, writes : SUBSET Accounts]
  BY <1>1
<1>4. CASE field = "reads"
  BY <1>1, <1>2, <1>3, <1>4
<1>5. CASE field = "writes"
  BY <1>1, <1>2, <1>3, <1>5
<1> QED BY <1>4, <1>5

(* The sender's balance is read: the call is done when it moves nothing, fails *)
(* when the balance does not suffice, and goes on otherwise.                   *)
LEMMA ReadCallerInv == ASSUME IInv, NEW w \in Workers, ReadCaller(w) PROVE IInv'
<1>1. PICK i \in Calls : i = worker[w].call
  <2>1. InHand(w)
    BY DEF ReadCaller, Running, InHand
  <2> QED BY <2>1, CallInHand
<1> DEFINE c == calls[i]
           v == GetBalance(i, <<>>, c.caller)
           reads == recordRead(<<>>, c.caller, v)
<1>2. /\ InHand(w) /\ worker[w].pc = "caller"
      /\ UNCHANGED <<calls, speculative, base, mem, incarnations, deps, retries, stage>>
  BY DEF ReadCaller, Running, InHand
<1>3. TypeInv /\ MemInv
  BY DEF IInv
<1>4. /\ worker[w] \in WorkerType /\ i \in Nat \ {0}
      /\ c.caller \in Accounts /\ c.contract \in Accounts /\ c.value \in Nat
  BY <1>1, <1>2, CallInHand
<1>5. /\ DOMAIN <<>> = {} /\ <<>> \in Partial(Accounts, VersionType)
      /\ <<>> \in Partial(Accounts, Nat)
  BY EmptyMap
<1>6. v \in VersionType /\ (v.tx = Base => v.val = base[c.caller]) /\ v.val \in Nat
  <2>1. v \in VersionType /\ (v.tx = Base => v.val = base[c.caller])
    BY <1>3, <1>4, <1>5, GetBalanceFacts
  <2> QED BY <2>1 DEF VersionType
<1>7. /\ reads \in Partial(Accounts, VersionType)
      /\ DOMAIN reads = {c.caller} /\ reads[c.caller] = v
  <2> HIDE DEF v, c
  <2>1. recordRead(<<>>, c.caller, v) = put(<<>>, c.caller, v)
    BY DEF recordRead
  <2>2. put(<<>>, c.caller, v) \in Partial(Accounts, VersionType)
    BY <1>4, <1>5, <1>6, PutType
  <2>3. DOMAIN put(<<>>, c.caller, v) = {c.caller} /\ put(<<>>, c.caller, v)[c.caller] = v
    BY DEF put
  <2> QED BY <2>1, <2>2, <2>3
<1>8. mem' \in [Accounts -> Partial(Calls, VersionType)] /\ MemInv'
  BY <1>2, <1>3 DEF TypeInv, MemInv, OwnVersions, Parties
<1>9. /\ c.value = 0 => CompleteCall(w, TRUE, <<>>, <<>>) /\ UNCHANGED touched
      /\ c.value # 0 => Access(i, "reads", c.caller)
      /\ c.value # 0 /\ v.val < c.value => CompleteCall(w, FALSE, reads, <<>>)
      /\ c.value # 0 /\ ~(v.val < c.value) =>
           /\ worker' = [worker EXCEPT ![w].pc = "debit", ![w].reads = reads]
           /\ UNCHANGED <<results, completed, ready>>
  BY <1>1, Zenon DEF ReadCaller
<1>10. touched' \in [Calls -> [reads : SUBSET Accounts, writes : SUBSET Accounts]]
  <2>1. CASE c.value = 0
    BY <1>3, <1>9, <2>1 DEF TypeInv
  <2>2. CASE c.value # 0
    <3> HIDE DEF c
    <3> QED BY <1>3, <1>4, <1>9, <2>2, AccessType
  <2> QED BY <2>1, <2>2
<1>11. CASE c.value = 0
  <2>1. CompleteCall(w, TRUE, <<>>, <<>>)
    BY <1>9, <1>11, Zenon
  <2>2. Outcome(i)'
    <3>1. results \in [Calls -> ResultType]
      BY <1>3 DEF TypeInv
    <3>2. results'[i].writes = <<>>
      BY <1>1, <2>1, <3>1 DEF CompleteCall
    <3>3. calls'[i].value = 0
      BY <1>2, <1>11
    <3> QED BY <1>5, <3>2, <3>3 DEF Outcome
  <2> QED BY <1>1, <1>2, <1>5, <1>8, <1>10, <2>1, <2>2, CompleteInv, Zenon
<1>12. CASE c.value # 0 /\ v.val < c.value
  <2> HIDE DEF reads, v, c
  <2>1. CompleteCall(w, FALSE, reads, <<>>)
    BY <1>9, <1>12, Zenon
  <2> QED BY <1>1, <1>2, <1>5, <1>7, <1>8, <1>10, <2>1, CompleteInv, Zenon
<1>13. CASE c.value # 0 /\ ~(v.val < c.value)
  <2> DEFINE new == [worker[w] EXCEPT !.pc = "debit", !.reads = reads]
  <2> HIDE DEF reads, v, c
  <2>1. worker \in [Workers -> WorkerType]
    BY <1>3 DEF TypeInv
  <2>2. worker' = [worker EXCEPT ![w] = new] /\ UNCHANGED <<results, completed, ready>>
    BY <1>9, <1>13, <2>1, Zenon
  <2>3. /\ new \in WorkerType /\ new.call = i /\ new.pc = "debit" /\ new.reads = reads
    BY <1>1, <1>4, <1>7, Zenon DEF WorkerType
  <2> HIDE DEF new
  <2>4. worker'[w] = new
    BY <2>1, <2>2
  <2>5. c.value > 0 /\ v.val >= c.value
    BY <1>4, <1>6, <1>13
  <2>6. WorkerOK(w)'
    <3>1. worker'[w].call = i /\ worker'[w].pc = "debit" /\ worker'[w].reads = reads
      BY <2>3, <2>4
    <3>2. calls'[i] = c /\ base' = base
      BY <1>2 DEF c
    <3> QED BY <1>6, <1>7, <2>5, <3>1, <3>2 DEF WorkerOK, Funded, FromBase
  <2> QED BY <1>1, <1>2, <1>8, <1>10, <2>2, <2>3, <2>6, GoOnInv, Zenon
<1> QED BY <1>11, <1>12, <1>13

(* The debit is written. *)
LEMMA WriteCallerInv == ASSUME IInv, NEW w \in Workers, WriteCaller(w) PROVE IInv'
<1>1. PICK i \in Calls : i = worker[w].call
  <2>1. InHand(w)
    BY Zenon DEF WriteCaller, Running, InHand
  <2> QED BY <2>1, CallInHand
<1> DEFINE c == calls[i]
           r == worker[w].reads
           b == r[c.caller].val - c.value
           writes == put(<<>>, c.caller, b)
           new == [worker[w] EXCEPT !.pc = "contract", !.writes = writes]
<1>2. /\ InHand(w) /\ worker[w].pc = "debit"
      /\ UNCHANGED <<calls, speculative, base, incarnations, touched, results, ready,
                     deps, completed, retries, stage>>
      /\ mem' = add(mem, c.caller, i, incarnations[i], b)
      /\ worker' = [worker EXCEPT ![w].pc = "contract", ![w].writes = writes]
  BY <1>1, Zenon DEF WriteCaller, Running, InHand
<1>3. TypeInv /\ MemInv /\ WorkerOK(w)
  BY DEF IInv, WorkerInv
<1>4. /\ worker[w] \in WorkerType /\ r \in Partial(Accounts, VersionType)
      /\ c.caller \in Accounts /\ c.value \in Nat /\ c.caller \in Parties(i)
  BY <1>1, <1>2, CallInHand, Zenon
<1>5. /\ c.value > 0 /\ DOMAIN r = {c.caller} /\ r[c.caller].val >= c.value /\ FromBase(r)
  BY <1>1, <1>2, <1>3, Zenon DEF WorkerOK, Funded
<1>6. b \in Nat
  <2>1. r[c.caller] \in VersionType
    BY <1>4, <1>5, PartialFacts
  <2>2. r[c.caller].val \in Nat
    BY <2>1 DEF VersionType
  <2> QED BY <1>4, <1>5, <2>2
<1>7. writes \in Partial(Accounts, Nat) /\ DOMAIN writes = {c.caller} /\ writes[c.caller] = b
  <2> HIDE DEF b, c
  <2>1. <<>> \in Partial(Accounts, Nat)
    BY EmptyMap
  <2>2. put(<<>>, c.caller, b) \in Partial(Accounts, Nat)
    BY <1>4, <1>6, <2>1, PutType
  <2>3. DOMAIN put(<<>>, c.caller, b) = {c.caller} /\ put(<<>>, c.caller, b)[c.caller] = b
    BY DEF put
  <2> QED BY <2>2, <2>3
<1> HIDE DEF b
<1>8. mem' \in [Accounts -> Partial(Calls, VersionType)] /\ MemInv'
  <2>1. mem \in [Accounts -> Partial(Calls, VersionType)] /\ OwnVersions(mem)
    BY <1>3 DEF TypeInv, MemInv
  <2>2. mem' \in [Accounts -> Partial(Calls, VersionType)] /\ OwnVersions(mem')
    BY <1>2, <1>3, <1>4, <1>5, <1>6, <2>1, AddFacts
  <2> QED BY <1>2, <2>2 DEF MemInv, OwnVersions, Parties
<1> HIDE DEF writes
<1>9. worker \in [Workers -> WorkerType]
  BY <1>3 DEF TypeInv
<1>10. worker' = [worker EXCEPT ![w] = new]
  BY <1>2, <1>9, Zenon
<1>11. /\ new \in WorkerType /\ new.call = i /\ new.pc = "contract"
       /\ new.reads = r /\ new.writes = writes
  BY <1>1, <1>4, <1>7, Zenon DEF WorkerType
<1> HIDE DEF new, r, c
<1>12. WorkerOK(w)'
  <2>1. worker'[w] = new
    BY <1>9, <1>10
  <2>2. /\ worker'[w].call = i /\ worker'[w].pc = "contract"
        /\ worker'[w].reads = r /\ worker'[w].writes = writes
    BY <1>11, <2>1
  <2>3. calls'[i] = c /\ base' = base
    BY <1>2 DEF c
  <2>4. \A a \in DOMAIN r : r[a].tx = Base => r[a].val = base[a]
    BY <1>5 DEF FromBase
  <2> QED BY <1>5, <1>7, <2>2, <2>3, <2>4 DEF WorkerOK, Funded, Debited, FromBase, b
<1>13. touched' \in [Calls -> [reads : SUBSET Accounts, writes : SUBSET Accounts]]
  BY <1>2, <1>3 DEF TypeInv
<1> QED BY <1>1, <1>2, <1>8, <1>10, <1>11, <1>12, <1>13, GoOnInv, Zenon

(* The recipient's balance is read: the sender's own write if it is the sender. *)
LEMMA ReadContractInv == ASSUME IInv, NEW w \in Workers, ReadContract(w) PROVE IInv'
<1>1. PICK i \in Calls : i = worker[w].call
  <2>1. InHand(w)
    BY DEF ReadContract, Running, InHand
  <2> QED BY <2>1, CallInHand
<1> DEFINE c == calls[i]
           r == worker[w].reads
           writes == worker[w].writes
           v == GetBalance(i, writes, c.contract)
           reads == put(r, c.contract, v)
           new == [worker[w] EXCEPT !.pc = "credit", !.reads = reads]
<1>2. /\ InHand(w) /\ worker[w].pc = "contract"
      /\ UNCHANGED <<calls, speculative, base, mem, incarnations, results, ready, deps,
                     completed, retries, stage>>
      /\ Access(i, "reads", c.contract)
  BY <1>1 DEF ReadContract, Running, InHand
<1>3. TypeInv /\ MemInv /\ WorkerOK(w) /\ worker \in [Workers -> WorkerType]
  BY DEF IInv, WorkerInv, TypeInv
<1>4. worker' = [worker EXCEPT ![w] = new]
  <2>1. worker' = [worker EXCEPT ![w].pc = "credit", ![w].reads = recordRead(@, c.contract, v)]
    BY <1>1, Zenon DEF ReadContract
  <2>2. recordRead(r, c.contract, v) = reads
    BY DEF recordRead
  <2> HIDE DEF v, c
  <2> QED BY <1>3, <2>1, <2>2, Zenon
<1>5. /\ worker[w] \in WorkerType /\ r \in Partial(Accounts, VersionType)
      /\ writes \in Partial(Accounts, Nat) /\ i \in Nat \ {0}
      /\ c.caller \in Accounts /\ c.contract \in Accounts /\ c.value \in Nat
  BY <1>1, <1>2, CallInHand
<1>6. /\ c.value > 0 /\ DOMAIN r = {c.caller} /\ r[c.caller].val >= c.value /\ FromBase(r)
      /\ DOMAIN writes = {c.caller} /\ writes[c.caller] = r[c.caller].val - c.value
  BY <1>1, <1>2, <1>3, Zenon DEF WorkerOK, Funded, Debited
<1>7. /\ v \in VersionType /\ (v.tx = Base => v.val = base[c.contract])
      /\ c.contract \in DOMAIN writes => v.tx = i
  <2>1. /\ v \in VersionType /\ (v.tx = Base => v.val = base[c.contract])
        /\ c.contract \in DOMAIN writes => v = Version(i, incarnations[i], writes[c.contract])
    BY <1>3, <1>5, GetBalanceFacts
  <2> QED BY <2>1, SMTT(30) DEF Version
<1> HIDE DEF v
<1>8. /\ reads \in Partial(Accounts, VersionType)
      /\ DOMAIN reads = {c.caller, c.contract} /\ reads[c.contract] = v
      /\ c.caller # c.contract => reads[c.caller] = r[c.caller]
  <2> HIDE DEF c, r, writes
  <2>1. put(r, c.contract, v) \in Partial(Accounts, VersionType)
    BY <1>5, <1>7, PutType
  <2>2. /\ DOMAIN put(r, c.contract, v) = {c.caller, c.contract}
        /\ put(r, c.contract, v)[c.contract] = v
        /\ c.caller # c.contract => put(r, c.contract, v)[c.caller] = r[c.caller]
    BY <1>6 DEF put
  <2> QED BY <2>1, <2>2
<1> HIDE DEF reads
<1>9. mem' \in [Accounts -> Partial(Calls, VersionType)] /\ MemInv'
  BY <1>2, <1>3 DEF TypeInv, MemInv, OwnVersions, Parties
<1>10. /\ new \in WorkerType /\ new.call = i /\ new.pc = "credit"
       /\ new.reads = reads /\ new.writes = writes
  <2> HIDE DEF c
  <2> QED BY <1>1, <1>5, <1>8, Zenon DEF WorkerType
<1> HIDE DEF new, r, writes, c
<1>11. WorkerOK(w)'
  <2>1. worker'[w] = new
    BY <1>3, <1>4
  <2>2. /\ worker'[w].call = i /\ worker'[w].pc = "credit"
        /\ worker'[w].reads = reads /\ worker'[w].writes = writes
    BY <1>10, <2>1
  <2>3. calls'[i] = c /\ base' = base
    BY <1>2, Zenon DEF c
  <2>4. \A a \in DOMAIN reads : reads[a].tx = Base => reads[a].val = base[a]
    BY <1>6, <1>7, <1>8 DEF FromBase
  <2> QED BY <1>6, <1>7, <1>8, <2>2, <2>3, <2>4 DEF WorkerOK, Both, FromBase, Parties
<1>12. touched' \in [Calls -> [reads : SUBSET Accounts, writes : SUBSET Accounts]]
  BY <1>2, <1>3, <1>5, AccessType
<1> QED BY <1>1, <1>2, <1>4, <1>9, <1>10, <1>11, <1>12, GoOnInv, Zenon

(* The credit is written and the call is done. *)
LEMMA WriteContractInv == ASSUME IInv, NEW w \in Workers, WriteContract(w) PROVE IInv'
<1>1. PICK i \in Calls : i = worker[w].call
  <2>1. InHand(w)
    BY Zenon DEF WriteContract, Running, InHand
  <2> QED BY <2>1, CallInHand
<1> DEFINE c == calls[i]
           r == worker[w].reads
           b == r[c.contract].val + c.value
           writes == put(worker[w].writes, c.contract, b)
<1>2. /\ InHand(w) /\ worker[w].pc = "credit"
      /\ UNCHANGED <<calls, speculative, base, incarnations, touched, deps, retries, stage>>
      /\ mem' = add(mem, c.contract, i, incarnations[i], b)
      /\ CompleteCall(w, TRUE, r, writes)
  BY <1>1, Zenon DEF WriteContract, Running, InHand
<1>3. TypeInv /\ MemInv /\ WorkerOK(w)
  BY DEF IInv, WorkerInv
<1>4. /\ worker[w].writes \in Partial(Accounts, Nat) /\ r \in Partial(Accounts, VersionType)
      /\ c.contract \in Accounts /\ c.value \in Nat /\ c.contract \in Parties(i)
  BY <1>1, <1>2, CallInHand, Zenon
<1>5. Both(i, r, worker[w].writes)
  BY <1>1, <1>2, <1>3, Zenon DEF WorkerOK
<1>6. /\ c.value > 0 /\ Parties(i) = {c.caller, c.contract} /\ DOMAIN r = {c.caller, c.contract}
      /\ \A a \in DOMAIN r : r[a].tx = Base => r[a].val = base[a]
      /\ DOMAIN worker[w].writes = {c.caller}
      /\ c.caller = c.contract => r[c.caller].tx = i
      /\ c.caller # c.contract => /\ r[c.caller].val >= c.value
                                  /\ worker[w].writes[c.caller] = r[c.caller].val - c.value
  BY <1>5, Zenon DEF Both, FromBase, Parties
<1>7. calls'[i] = c /\ calls' = calls /\ base' = base
  BY <1>2, Zenon
<1> HIDE DEF c, r
<1>8. b \in Nat
  <2>1. r[c.contract] \in VersionType
    BY <1>4, <1>6, PartialFacts
  <2>2. r[c.contract].val \in Nat
    BY <2>1 DEF VersionType
  <2> QED BY <1>4, <2>2
<1> HIDE DEF b
<1>9. /\ writes \in Partial(Accounts, Nat) /\ DOMAIN writes = {c.caller, c.contract}
      /\ writes[c.contract] = b
      /\ c.caller # c.contract => writes[c.caller] = worker[w].writes[c.caller]
  <2>1. writes \in Partial(Accounts, Nat)
    BY <1>4, <1>8, PutType
  <2>2. DOMAIN worker[w].writes = {c.caller}
    BY <1>6, Zenon
  <2>3. /\ DOMAIN writes = {c.caller, c.contract}
        /\ writes[c.contract] = b
        /\ c.caller # c.contract => writes[c.caller] = worker[w].writes[c.caller]
    BY <2>2 DEF put
  <2> QED BY <2>1, <2>3
<1> HIDE DEF writes
<1>10. mem' \in [Accounts -> Partial(Calls, VersionType)] /\ MemInv'
  <2>1. mem \in [Accounts -> Partial(Calls, VersionType)] /\ OwnVersions(mem)
    BY <1>3 DEF TypeInv, MemInv
  <2>2. calls[i].value > 0
    BY <1>6 DEF c
  <2>3. mem' \in [Accounts -> Partial(Calls, VersionType)] /\ OwnVersions(mem')
    BY <1>2, <1>3, <1>4, <1>8, <2>1, <2>2, AddFacts
  <2> QED BY <1>7, <2>3 DEF MemInv, OwnVersions, Parties
<1>11. Outcome(i)'
  <2>1. results \in [Calls -> ResultType]
    BY <1>3 DEF TypeInv
  <2>2. results'[i].reads = r /\ results'[i].writes = writes
    BY <1>1, <1>2, <2>1 DEF CompleteCall
  <2>3. c.caller # c.contract => /\ writes[c.caller] = r[c.caller].val - c.value
                                 /\ writes[c.contract] = r[c.contract].val + c.value
    BY <1>6, <1>9 DEF b
  <2> QED BY <1>4, <1>6, <1>7, <1>9, <2>2, <2>3 DEF Outcome, FromBase, Parties
<1>12. touched' \in [Calls -> [reads : SUBSET Accounts, writes : SUBSET Accounts]]
  BY <1>2, <1>3, Zenon DEF TypeInv
<1> QED BY <1>1, <1>2, <1>4, <1>9, <1>10, <1>11, <1>12, CompleteInv, Zenon
=============================================================================
