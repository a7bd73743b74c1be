----------------------------- MODULE ParallelQVM -----------------------------
(* One batch of calls in ParallelQVM.Execute (src/qvm/parallel): workers run *)
(* the calls over a shared multi-version memory, the reads of all calls are  *)
(* validated at the end of the round, an invalid round is repeated, and      *)
(* after MaxRetries rounds the calls run one after the other.                *)
(* The calls are transfers to accounts without code, so the keys are         *)
(* balances.  A worker's step is one access to the shared memory; what it    *)
(* does in between touches its own wrapper only.                             *)
EXTENDS MVMemory, FiniteSets, Sequences

CONSTANTS
    Accounts,
    Balances,    \* the balances of the base state
    Batches,     \* the batches at hand, sequences of calls
    Speculation, \* the values of EnableSpeculativeExecution at hand
    Workers,
    MaxRetries

VARIABLES
    calls,       \* the batch
    speculative,
    base,        \* the base state
    mem,         \* pq.mvMemory
    incarnations,
    touched,     \* per call: the keys its runs have read and written so far
    results,     \* per call: its result in this round
    ready,       \* the scheduler's channel of calls
    deps,        \* its graph: <<j, i>> when call j waits for call i
    completed,
    worker,      \* per worker: the call in hand and its wrapper
    retries,
    stage        \* where Execute is

vars == <<calls, speculative, base, mem, incarnations, touched, results, ready, deps,
          completed, worker, retries, stage>>

Calls == DOMAIN calls

ASSUME ParallelAssumption ==
    /\ Balances \in [Accounts -> Nat]
    /\ MaxRetries \in Nat \ {0}
    /\ Speculation \subseteq BOOLEAN
    /\ \A b \in Batches : b \in Seq([caller : Accounts, contract : Accounts, value : Nat])

Idle == [pc |-> "idle", call |-> 0, reads |-> <<>>, writes |-> <<>>]

NoResult == [success |-> FALSE, reads |-> <<>>, writes |-> <<>>, incarnation |-> -1]

Stages == {"round", "running", "sequential", "validated", "fallback"}

Done == stage \in {"validated", "fallback"}

Init ==
    /\ calls \in Batches
    /\ speculative \in Speculation
    /\ base = Balances
    /\ mem = Clear(Accounts)
    /\ incarnations = [i \in Calls |-> 0]
    /\ touched = [i \in Calls |-> [reads |-> {}, writes |-> {}]]
    /\ results = [i \in Calls |-> NoResult]
    /\ ready = <<>> /\ deps = {} /\ completed = {}
    /\ worker = [w \in Workers |-> Idle]
    /\ retries = 0
    /\ stage = IF Len(calls) = 1 THEN "sequential" ELSE "round"

------------------------------------------------------------------------------
\* The scheduler

\* A bug: calls of one contract are only compared by what they have touched.
hasConflictByTouch(i, j) ==
    \/ touched[i].writes \cap (touched[j].writes \cup touched[j].reads) # {}
    \/ touched[i].reads \cap touched[j].writes # {}

hasConflict(i, j) ==
    \/ touched[i].writes \cap (touched[j].writes \cup touched[j].reads) # {}
    \/ touched[i].reads \cap touched[j].writes # {}
    \/ calls[i].contract = calls[j].contract

AnalyzeDependencies ==
    {e \in Calls \X Calls : e[2] < e[1] /\ hasConflict(e[2], e[1])}

\* The calls the graph holds back once the calls of done have completed.
Waiting(graph, done) == {e[1] : e \in {d \in graph : d[2] \notin done}}

\* The sequences that list the calls of S.
Orders(S) == Bijection(1 .. Cardinality(S), S)

\* Execute starts a round.  The nodes of the graph are in a Go map, so the
\* ready ones are queued in any order.
Round ==
    /\ stage = "round"
    /\ mem' = Clear(Accounts)
    /\ results' = [i \in Calls |-> NoResult]
    /\ deps' = IF speculative THEN {} ELSE AnalyzeDependencies
    /\ completed' = {}
    /\ ready' \in Orders(Calls \ Waiting(deps', {}))
    /\ stage' = "running"
    /\ UNCHANGED <<calls, speculative, base, incarnations, touched, worker, retries>>

\* A bug: the calls that become ready are not queued.
newlyReadyNone(i) == {}

\* A bug: every call that waits for nothing is queued, not only the new ones.
newlyReadyAll(i) == Calls \ Waiting(deps, completed \cup {i})

\* MarkComplete: the dependents of i that wait for nothing else.
newlyReady(i) == Waiting(deps, completed) \ Waiting(deps, completed \cup {i})

\* A node's dependents are in the order of the batch.
InOrder(s) == \A m, n \in DOMAIN s : m < n => s[m] < s[n]

\* The end of a worker's turn: the result is stored and the call completed.
\* Nobody reads a result before the round is over.
CompleteCall(w, success, reads, writes) ==
    LET i == worker[w].call
    IN  /\ results' = [results EXCEPT ![i] =
                         [success |-> success, reads |-> reads, writes |-> writes,
                          incarnation |-> incarnations[i]]]
        /\ completed' = completed \cup {i}
        /\ \E s \in Orders(newlyReady(i)) : InOrder(s) /\ ready' = ready \o s
        /\ worker' = [worker EXCEPT ![w] = Idle]

------------------------------------------------------------------------------
\* The state a call sees

\* GetBalance: the call's own writes, then the memory, then the base state.
GetBalance(i, writes, a) ==
    IF a \in DOMAIN writes THEN Version(i, incarnations[i], writes[a])
                           ELSE find(mem, a, i, base)

\* A read is recorded under its key: a later read replaces an earlier one.
recordRead(reads, a, version) == put(reads, a, version)

Access(i, field, a) ==
    touched' = [touched EXCEPT ![i][field] = @ \cup {a}]

\* A worker takes a call.  A call that moves nothing succeeds at once.
NextCall(w) ==
    /\ stage = "running" /\ worker[w].pc = "idle" /\ ready # <<>>
    /\ worker' = [worker EXCEPT ![w] = [Idle EXCEPT !.call = Head(ready), !.pc = "caller"]]
    /\ ready' = Tail(ready)
    /\ UNCHANGED <<calls, speculative, base, mem, incarnations, touched, results, deps,
                   completed, retries, stage>>

Running(w, pc) == worker[w].pc = pc

\* executeTransfer, access by access: read the sender's balance, which may
\* not suffice, ...
ReadCaller(w) ==
    LET i == worker[w].call
        c == calls[i]
        v == GetBalance(i, <<>>, c.caller)
        reads == recordRead(<<>>, c.caller, v)
    IN  /\ Running(w, "caller")
        /\ IF c.value = 0
           THEN CompleteCall(w, TRUE, <<>>, <<>>) /\ UNCHANGED touched
           ELSE /\ Access(i, "reads", c.caller)
                /\ IF v.val < c.value
                   THEN CompleteCall(w, FALSE, reads, <<>>)
                   ELSE /\ worker' = [worker EXCEPT ![w].pc = "debit", ![w].reads = reads]
                        /\ UNCHANGED <<results, completed, ready>>
        /\ UNCHANGED <<calls, speculative, base, mem, incarnations, deps, retries, stage>>

\* ... write it, ...
WriteCaller(w) ==
    LET i == worker[w].call
        c == calls[i]
        b == worker[w].reads[c.caller].val - c.value
    IN  /\ Running(w, "debit")
        /\ mem' = add(mem, c.caller, i, incarnations[i], b)
        /\ worker' = [worker EXCEPT ![w].pc = "contract", ![w].writes = put(<<>>, c.caller, b)]
        /\ UNCHANGED <<calls, speculative, base, incarnations, touched, results, ready,
                       deps, completed, retries, stage>>

\* ... read the recipient's ...
ReadContract(w) ==
    LET i == worker[w].call
        c == calls[i]
        v == GetBalance(i, worker[w].writes, c.contract)
    IN  /\ Running(w, "contract")
        /\ Access(i, "reads", c.contract)
        /\ worker' = [worker EXCEPT ![w].pc = "credit", ![w].reads = recordRead(@, c.contract, v)]
        /\ UNCHANGED <<calls, speculative, base, mem, incarnations, results, ready, deps,
                       completed, retries, stage>>

\* ... and write it.
WriteContract(w) ==
    LET i == worker[w].call
        c == calls[i]
        b == worker[w].reads[c.contract].val + c.value
    IN  /\ Running(w, "credit")
        /\ mem' = add(mem, c.contract, i, incarnations[i], b)
        /\ CompleteCall(w, TRUE, worker[w].reads, put(worker[w].writes, c.contract, b))
        /\ UNCHANGED <<calls, speculative, base, incarnations, touched, deps, retries, stage>>

------------------------------------------------------------------------------
\* The end of a round

\* MergeResults and applyStateChanges: later calls override earlier ones.
\* The wrapper's changes and its write set agree, both are set by SetBalance.
Merged(rs) ==
    [a \in Accounts |->
        LET writers == {i \in DOMAIN rs : rs[i].success /\ a \in DOMAIN rs[i].writes}
        IN  IF writers = {} THEN base[a]
            ELSE rs[Max(writers)].writes[a]]

\* The version call i should have read: that of the last call before it that
\* wrote the key.
getFinalWriteVersion(a, i) ==
    LET writers == {j \in 1 .. i - 1 : results[j].success /\ a \in DOMAIN results[j].writes}
        last == Max(writers)
    IN  IF writers = {} THEN Version(Base, 0, base[a])
        ELSE Version(last, incarnations[last], results[last].writes[a])

\* A bug: only a read of another writer's value is a conflict, a read of the
\* base state never is.
StaleReadUnlessBase(i) ==
    \E a \in DOMAIN results[i].reads :
        LET read == results[i].reads[a]
        IN  read.tx # Base /\ read # getFinalWriteVersion(a, i)

\* Some read of call i is not what the final writes before it say: incarnation,
\* index and value are compared.
StaleRead(i) ==
    \E a \in DOMAIN results[i].reads :
        LET read == results[i].reads[a]
            final == getFinalWriteVersion(a, i)
        IN  \/ read.tx # final.tx
            \/ final.tx # Base /\ read # final

\* A result of an earlier incarnation fails validation like a stale read.
Invalid(i) == results[i].incarnation # incarnations[i] \/ StaleRead(i)

\* validateResults: no call may have failed, no read may be stale; the first
\* call found at fault is marked for retry.
FinishRound ==
    LET failed == \E i \in Calls : ~results[i].success
        bad == {i \in Calls : Invalid(i)}
        valid == ~failed /\ bad = {}
    IN  /\ stage = "running" /\ completed = Calls
        /\ \A w \in Workers : worker[w].pc = "idle"
        /\ retries' = retries + 1
        /\ touched' = [i \in Calls |->
                         [touched[i] EXCEPT !.writes = @ \cup DOMAIN results[i].writes]]
        /\ base' = IF valid THEN Merged(results) ELSE base
        /\ incarnations' = IF failed \/ valid THEN incarnations
                           ELSE [incarnations EXCEPT ![Min(bad)] = @ + 1]
        /\ stage' = IF valid THEN "validated"
                    ELSE IF retries' < MaxRetries THEN "round" ELSE "sequential"
        /\ completed' = IF valid \/ retries' < MaxRetries THEN completed ELSE {}
        /\ UNCHANGED <<calls, speculative, mem, results, ready, deps, worker>>

------------------------------------------------------------------------------
\* The fallback, and a batch of one call

\* executeSequentially runs the next call to its end and applies its changes.
\* Execute does the same with a batch of one call, and deletes the versions of
\* the call if it failed.  The memory is not cleared first.
SequentialCall ==
    LET i == Min(Calls \ completed)
        c == calls[i]
        from == GetBalance(i, <<>>, c.caller)
        success == c.value = 0 \/ from.val >= c.value
        debited == put(<<>>, c.caller, from.val - c.value)
        to == GetBalance(i, debited, c.contract)
        writes == IF success /\ c.value > 0
                  THEN put(debited, c.contract, to.val + c.value) ELSE <<>>
        reads == IF c.value = 0 THEN <<>>
                 ELSE IF success
                      THEN recordRead(recordRead(<<>>, c.caller, from), c.contract, to)
                 ELSE recordRead(<<>>, c.caller, from)
        written(m, a) == add(m, a, i, incarnations[i], writes[a])
    IN  /\ stage = "sequential"
        /\ results' = [results EXCEPT ![i] =
                         [success |-> success, reads |-> reads, writes |-> writes,
                          incarnation |-> incarnations[i]]]
        /\ mem' = CASE writes # <<>> -> written(written(mem, c.caller), c.contract)
                    [] ~success /\ Len(calls) = 1 -> DeleteVersion(mem, i, incarnations[i])
                    [] OTHER -> mem
        /\ base' = Merged([j \in {i} |-> results'[i]])
        /\ touched' = [touched EXCEPT ![i].reads = @ \cup DOMAIN reads]
        /\ completed' = completed \cup {i}
        /\ stage' = IF completed' = Calls THEN "fallback" ELSE "sequential"
        /\ UNCHANGED <<calls, speculative, incarnations, ready, deps, worker, retries>>

Turn(w) == NextCall(w) \/ ReadCaller(w) \/ WriteCaller(w) \/ ReadContract(w) \/ WriteContract(w)

Next ==
    \/ Round \/ FinishRound \/ SequentialCall
    \/ \E w \in Workers : Turn(w)

\* The workers and the caller of Execute are goroutines that never block.
Fairness ==
    /\ WF_vars(Round) /\ WF_vars(FinishRound) /\ WF_vars(SequentialCall)
    /\ \A w \in Workers : WF_vars(Turn(w))

Spec == Init /\ [][Next]_vars /\ Fairness

------------------------------------------------------------------------------
\* Properties

\* The reference: the balances after the first n calls of the batch, one after
\* the other; a transfer the sender cannot pay changes nothing.
Serial[n \in 0 .. Len(calls)] ==
    IF n = 0 THEN Balances
    ELSE LET c == calls[n]
             b == Serial[n - 1]
         IN  IF b[c.caller] < c.value THEN b
             ELSE [[b EXCEPT ![c.caller] = @ - c.value] EXCEPT ![c.contract] = @ + c.value]

Payable(i) == Serial[i - 1][calls[i].caller] >= calls[i].value

VersionType == [tx : Calls \cup {Base}, inc : 0 .. MaxRetries, val : Nat]

\* Every variable keeps its type, the channel holds no call twice and so never
\* more than its capacity, a sender is never overdrawn.
ParallelTypeOK ==
    /\ calls \in Batches /\ speculative \in BOOLEAN /\ stage \in Stages
    /\ base \in [Accounts -> Nat]
    /\ \A a \in Accounts : \A i \in DOMAIN mem[a] : i \in Calls /\ mem[a][i] \in VersionType
    /\ incarnations \in [Calls -> 0 .. MaxRetries]
    /\ touched \in [Calls -> [reads : SUBSET Accounts, writes : SUBSET Accounts]]
    /\ \A i \in Calls : /\ results[i].success \in BOOLEAN
                        /\ \A a \in DOMAIN results[i].reads : results[i].reads[a] \in VersionType
                        /\ \A a \in DOMAIN results[i].writes : results[i].writes[a] \in Nat
    /\ Len(ready) = Cardinality({ready[n] : n \in DOMAIN ready})
    /\ deps \subseteq Calls \X Calls /\ completed \subseteq Calls
    /\ \A w \in Workers : worker[w].pc = "idle" \/ worker[w].call \in Calls \ completed
    /\ retries \in 0 .. MaxRetries

\* validateResults: a round it accepts has left the balances, and given every
\* call the outcome, of the serial execution of the batch.
ValidatedIsSerial ==
    stage = "validated" => base = Serial[Len(calls)] /\ \A i \in Calls : Payable(i)

\* The fallback reads the memory the last round left behind.  Still, when every
\* call is payable in its turn, it ends with the balances of the serial
\* execution: each call overwrites what it wrote in that round before a later
\* call reads it.
FallbackIsSerial ==
    stage = "fallback" /\ (\A i \in Calls : Payable(i)) =>
        base = Serial[Len(calls)] /\ \A i \in Calls : results[i].success

\* Without speculation hasConflict keeps the calls of one contract in order:
\* while one is in hand, those before it have completed.
ContractCallsInOrder ==
    ~speculative =>
        \A w \in Workers : worker[w].pc # "idle" =>
            \A i \in 1 .. worker[w].call - 1 :
                calls[i].contract = calls[worker[w].call].contract => i \in completed

\* What ParallelQVM promises ("maintaining sequential consistency"): whichever
\* way Execute ends, the balances are those of the serial execution.  A call
\* that fails in the fallback leaves the versions of its last round in the
\* memory (executeSequentially does not clear it), where later calls read them.
SequentialConsistency == Done => base = Serial[Len(calls)]

\* Execute returns: no round waits for a call that nobody will queue, and the
\* retries are bounded.
ExecuteReturns == <>Done
==============================================================================
