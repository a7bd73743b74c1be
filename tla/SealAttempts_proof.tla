-------------------------- MODULE SealAttempts_proof --------------------------
(* What holds of the seal attempts of a slot for every committee, schedule   *)
(* and number of attempts, offline members and mishaps: the ordinals stay in *)
(* range, a node has one live run at most, and its ordinals grow one by one. *)
EXTENDS SealAttempts, TLAPS

NodeSet == [pending : BOOLEAN, seen : 0 .. MaxAttempts, runs : SUBSET Runs,
            deferring : SUBSET Ordinals, latch : SUBSET Ordinals,
            waiters : SUBSET Waiters, used : SUBSET Ordinals, inbox : SUBSET Ordinals]

\* A run's attempt is on record, a run the session map has lost is cancelled,
\* and one that has announced its successor has a successor to go on to.
RunGood(n, r) ==
    /\ r.attempt < n.seen
    /\ r.live => r.held
    /\ r.phase = "announced" => r.attempt + 1 \in Ordinals

\* The session map points to one run at most.
OneHeld(n) == \A r, s \in n.runs : r.held /\ s.held => r = s

Good(n) == n \in NodeSet /\ (\A r \in n.runs : RunGood(n, r)) /\ OneHeld(n)

\* m may follow n.
OneOn(n, m) == m.seen <= IF n.seen = 0 THEN 2 ELSE n.seen + 1

-------------------------------------------------------------------------------
\* Recording an admissible ordinal moves the record up by one at most.
LEMMA RecordedGood ==
    ASSUME NEW n, Good(n), NEW k \in Ordinals
    PROVE  /\ Good(Recorded(n, k))
           /\ k < Recorded(n, k).seen
           /\ Recorded(n, k).runs = n.runs
           /\ Admissible(n, k) => OneOn(n, Recorded(n, k))
<1> DEFINE m == Recorded(n, k)
<1>1. n \in NodeSet /\ n.seen \in 0 .. MaxAttempts /\ n.runs \subseteq Runs
  BY DEF Good, NodeSet
<1>2. /\ m.runs = n.runs
      /\ m.seen = IF k < n.seen THEN n.seen ELSE k + 1
  BY <1>1 DEF Recorded, NodeSet
<1>3. m \in NodeSet
  BY <1>1, SealAssumption DEF Recorded, NodeSet, Ordinals
<1>4. k < m.seen /\ n.seen <= m.seen
  BY <1>1, <1>2, SealAssumption DEF Ordinals
<1>5. ASSUME NEW r \in m.runs PROVE RunGood(m, r)
  <2>1. r \in Runs /\ RunGood(n, r)
    BY <1>1, <1>2 DEF Good
  <2>2. r.attempt \in Int /\ m.seen \in Int /\ n.seen \in Int
    BY <2>1, <1>1, <1>3 DEF Runs, Ordinals, NodeSet
  <2> HIDE DEF m
  <2> QED BY <2>1, <2>2, <1>4 DEF RunGood
<1>6. OneHeld(m)
  BY <1>2 DEF Good, OneHeld
<1>7. Admissible(n, k) => OneOn(n, m)
  BY <1>1, <1>2 DEF Admissible, OneOn, Ordinals
<1> QED BY <1>2, <1>3, <1>4, <1>5, <1>6, <1>7 DEF Good

\* The fields other than seen and runs play no part in Good.
LEMMA SameRuns ==
    ASSUME NEW n, Good(n), NEW m \in NodeSet, m.seen = n.seen, m.runs = n.runs
    PROVE  Good(m) /\ OneOn(n, m)
<1>1. n.seen \in Int
  BY DEF Good, NodeSet
<1>2. OneOn(n, m)
  BY <1>1 DEF OneOn
<1> QED BY <1>2 DEF Good, RunGood, OneHeld

\* A run that returns takes only itself away.
LEMMA FewerRuns ==
    ASSUME NEW n, Good(n), NEW S \in SUBSET n.runs
    PROVE  LET m == [n EXCEPT !.runs = S] IN Good(m) /\ OneOn(n, m)
<1> DEFINE m == [n EXCEPT !.runs = S]
<1>1. n \in NodeSet /\ n.seen \in Int
  BY DEF Good, NodeSet
<1>2. m \in NodeSet /\ m.seen = n.seen /\ m.runs = S
  BY <1>1 DEF NodeSet
<1> HIDE DEF m
<1>3. OneOn(n, m)
  BY <1>1, <1>2 DEF OneOn
<1>4. Good(m)
  BY <1>2 DEF Good, RunGood, OneHeld
<1> QED BY <1>3, <1>4 DEF m

\* A returning run leaves the others as they are.
LEMMA ForgetGood ==
    ASSUME NEW n, Good(n), NEW r
    PROVE  Good(Forget(n, r)) /\ OneOn(n, Forget(n, r))
<1>1. Forget(n, r) = [n EXCEPT !.runs = n.runs \ {r}]
  BY DEF Forget, Good, NodeSet
<1> QED BY <1>1, FewerRuns

\* A run that moves on keeps its place in the session map.
LEMMA MovedGood ==
    ASSUME NEW n, Good(n), NEW r \in n.runs, NEW s \in Runs,
           s.held = r.held, s.live = r.live, RunGood(n, s)
    PROVE  /\ Good(Moved(n, r, s)) /\ OneOn(n, Moved(n, r, s))
           /\ Moved(n, r, s).seen = n.seen
<1> DEFINE m == Moved(n, r, s)
<1>1. n \in NodeSet /\ n.seen \in Int
  BY DEF Good, NodeSet
<1>2. m \in NodeSet /\ m.seen = n.seen /\ m.runs = (n.runs \ {r}) \cup {s}
  BY <1>1 DEF NodeSet, Moved
<1> HIDE DEF m
<1>3. OneOn(n, m)
  BY <1>1, <1>2 DEF OneOn
<1>4. OneHeld(m)
  BY <1>2 DEF Good, OneHeld
<1>5. \A t \in m.runs : RunGood(m, t)
  BY <1>2 DEF Good, RunGood
<1> QED BY <1>2, <1>3, <1>4, <1>5 DEF Good, m

\* The latch is no part of Good.
LEMMA DeferGood ==
    ASSUME NEW n, Good(n), NEW k \in Ordinals
    PROVE  Good(Defer(n, k)) /\ OneOn(n, Defer(n, k))
<1>1. n \in NodeSet
  BY DEF Good
<1>2. [ordinal |-> k, phase |-> "polling"] \in Waiters
  BY DEF Waiters
<1>3. /\ Defer(n, k) \in NodeSet
      /\ Defer(n, k).seen = n.seen /\ Defer(n, k).runs = n.runs
  BY <1>1, <1>2, Zenon DEF Defer, NodeSet
<1> QED BY <1>3, SameRuns

\* A new session takes the place of the older one, whose run is cancelled.
LEMMA BeginGood ==
    ASSUME NEW n, Good(n), NEW k \in Ordinals, Admissible(n, k)
    PROVE  Good(Begin(n, k)) /\ OneOn(n, Begin(n, k))
<1>1. n \in NodeSet /\ n.seen \in Int /\ n.runs \subseteq Runs
  BY DEF Good, NodeSet
<1>2. CASE \E r \in n.runs : r.held /\ r.attempt >= k
  <2>1. Begin(n, k) = n
    BY <1>2, Zenon DEF Begin
  <2> QED BY <2>1, <1>1, SameRuns
<1>3. CASE ~\E r \in n.runs : r.held /\ r.attempt >= k
  <2> DEFINE q == Recorded(n, k)
             cancelled(r) == [r EXCEPT !.held = FALSE, !.live = FALSE]
             old(r) == IF r.held THEN cancelled(r) ELSE r
             new == [attempt |-> k, phase |-> "trying", held |-> TRUE, live |-> TRUE]
             S == {old(r) : r \in n.runs} \cup {new}
             m == Begin(n, k)
  <2>1. Good(q) /\ k < q.seen /\ q.runs = n.runs /\ OneOn(n, q)
    BY RecordedGood
  <2>2. m = [q EXCEPT !.runs = S]
    BY <1>3, <2>1 DEF Begin, Good, NodeSet
  <2>3. new \in Runs
    BY DEF Runs, Phases
  <2>4. \A r \in n.runs : /\ old(r) \in Runs /\ ~old(r).held /\ old(r).attempt = r.attempt
                          /\ old(r).phase = r.phase
                          /\ old(r).live => r.live /\ ~r.held
    BY <1>1, Zenon DEF Runs
  <2>5. S \in SUBSET Runs
    BY <2>3, <2>4, Zenon
  <2> HIDE DEF q
  <2>6. m \in NodeSet /\ m.seen = q.seen /\ m.runs = S
    BY <2>1, <2>2, <2>5, Zenon DEF Good, NodeSet
  <2> HIDE DEF m
  <2>7. ASSUME NEW t \in S PROVE RunGood(m, t) /\ (t.held => t = new)
    <3>1. CASE t = new
      BY <3>1, <2>1, <2>6, Zenon DEF RunGood
    <3>2. CASE \E r \in n.runs : t = old(r)
      <4>1. PICK r \in n.runs : t = old(r)
        BY <3>2, Zenon
      <4>2. RunGood(n, r) /\ RunGood(q, r)
        BY <2>1, Zenon DEF Good
      <4> HIDE DEF old
      <4> QED BY <4>1, <4>2, <2>4, <2>6 DEF RunGood
    <3> QED BY <3>1, <3>2, Zenon
  <2>8. OneHeld(m)
    BY <2>6, <2>7, Zenon DEF OneHeld
  <2>9. OneOn(n, m)
    BY <2>1, <2>6, Zenon DEF OneOn
  <2> QED BY <2>6, <2>7, <2>8, <2>9, Zenon DEF Good, m
<1> QED BY <1>2, <1>3

\* A start, announced, latched or local.
LEMMA StartGood ==
    ASSUME NEW n, Good(n), NEW k \in Ordinals
    PROVE  Good(StartAttempt(n, k)) /\ OneOn(n, StartAttempt(n, k))
<1> DEFINE m == StartAttempt(n, k)
<1>1. n \in NodeSet /\ Good(n) /\ OneOn(n, n)
  <2>1. n \in NodeSet
    BY DEF Good
  <2> QED BY <2>1, SameRuns
<1>2. CASE k >= MaxAttempts \/ (k > 0 /\ ~open) \/ ~Admissible(n, k) \/ sealed
  BY <1>1, <1>2 DEF StartAttempt
<1>3. CASE ~(k >= MaxAttempts \/ (k > 0 /\ ~open) \/ ~Admissible(n, k) \/ sealed)
  <2>1. CASE ~n.pending
    <3> DEFINE q == Recorded(n, k)
    <3>1. Good(q) /\ OneOn(n, q)
      BY <1>3, RecordedGood
    <3>2. m = [q EXCEPT !.deferring = @ \cup {k}]
      BY <1>3, <2>1 DEF StartAttempt
    <3> HIDE DEF q
    <3>3. m \in NodeSet /\ m.seen = q.seen /\ m.runs = q.runs
      BY <3>1, <3>2 DEF Good, NodeSet
    <3>4. Good(m)
      BY <3>1, <3>3, SameRuns
    <3> QED BY <3>1, <3>3, <3>4 DEF OneOn
  <2>2. CASE n.pending
    BY <1>3, <2>2, BeginGood DEF StartAttempt
  <2> QED BY <2>1, <2>2
<1> QED BY <1>2, <1>3

-------------------------------------------------------------------------------
\* The inductive invariant without the variables other than node.
NodesGood == node \in [Nodes -> NodeSet] /\ \A i \in Nodes : Good(node[i])

\* What every step does to the nodes.
Stepped ==
    /\ node' \in [Nodes -> NodeSet]
    /\ \A j \in Nodes : Good(node'[j]) /\ OneOn(node[j], node'[j])

Others ==
    /\ schedule \in Schedules /\ sealed \in BOOLEAN /\ offline \subseteq Nodes
    /\ open \in BOOLEAN /\ mishaps \in 0 .. MaxMishaps

\* A good node stays as it is.
LEMMA GoodStays ==
    ASSUME NEW n, Good(n)
    PROVE  n \in NodeSet /\ OneOn(n, n)
<1>1. n \in NodeSet
  BY DEF Good
<1> QED BY <1>1, SameRuns

\* One node moves.
LEMMA SetGood ==
    ASSUME NodesGood, NEW i \in Nodes, NEW n, Good(n), OneOn(node[i], n), SetNode(i, n)
    PROVE  Stepped
<1>1. \A j \in Nodes : node'[j] = IF j = i THEN n ELSE node[j]
  BY DEF NodesGood, SetNode
<1>2. n \in NodeSet
  BY GoodStays
<1>3. node' \in [Nodes -> NodeSet]
  BY <1>2 DEF NodesGood, SetNode
<1>4. \A j \in Nodes : Good(node[j]) /\ OneOn(node[j], node[j])
  BY GoodStays DEF NodesGood
<1> QED BY <1>1, <1>3, <1>4 DEF Stepped

\* A broadcast fills inboxes and nothing else.
LEMMA AnnouncedGood ==
    ASSUME NodesGood, NEW i \in Nodes, NEW k \in Ordinals
    PROVE  LET g == Announced(node, i, k)
           IN  /\ g \in [Nodes -> NodeSet] /\ g[i] = node[i]
               /\ \A j \in Nodes : Good(g[j]) /\ OneOn(node[j], g[j])
<1> DEFINE g == Announced(node, i, k)
<1>1. \A j \in Nodes : /\ g[j] \in NodeSet
                       /\ g[j].seen = node[j].seen /\ g[j].runs = node[j].runs
  BY DEF NodesGood, Announced, NodeSet
<1>2. g = [j \in Nodes |-> g[j]] /\ g[i] = node[i]
  BY DEF Announced
<1> HIDE DEF g
<1>3. g \in [Nodes -> NodeSet]
  BY <1>1, <1>2
<1>4. \A j \in Nodes : Good(g[j]) /\ OneOn(node[j], g[j])
  BY <1>1, SameRuns DEF NodesGood
<1> QED BY <1>2, <1>3, <1>4 DEF g

\* A failed attempt announces a successor only if there is one.
LEMMA RetryGood ==
    ASSUME NodesGood, NEW i \in Nodes, NEW r \in node[i].runs, Retry(i, r)
    PROVE  Stepped
<1>1. Good(node[i]) /\ r \in Runs /\ RunGood(node[i], r)
  BY DEF NodesGood, Good, NodeSet
<1>2. CASE r.attempt + 1 < MaxAttempts /\ open
  <2> DEFINE s == [r EXCEPT !.phase = "announced"]
             g == Announced(node, i, r.attempt + 1)
             m == Moved(node[i], r, s)
  <2>1. r.attempt + 1 \in Ordinals
    BY <1>1, <1>2, SealAssumption DEF Runs, Ordinals
  <2>2. /\ s \in Runs /\ s.held = r.held /\ s.live = r.live
        /\ s.attempt = r.attempt /\ s.phase = "announced"
    BY <1>1 DEF Runs, Phases
  <2> HIDE DEF s
  <2>3. RunGood(node[i], s)
    BY <1>1, <2>1, <2>2 DEF RunGood
  <2>4. Good(m) /\ OneOn(node[i], m)
    BY <1>1, <2>2, <2>3, MovedGood
  <2>5. /\ g \in [Nodes -> NodeSet] /\ g[i] = node[i]
        /\ \A j \in Nodes : Good(g[j]) /\ OneOn(node[j], g[j])
    BY <2>1, AnnouncedGood
  <2>6. node' = [g EXCEPT ![i] = m]
    BY <1>2, <2>5 DEF Retry, s
  <2>7. m \in NodeSet
    BY <2>4, GoodStays
  <2> HIDE DEF g, m
  <2>8. \A j \in Nodes : node'[j] = IF j = i THEN m ELSE g[j]
    BY <2>5, <2>6
  <2>9. node' \in [Nodes -> NodeSet]
    BY <2>5, <2>6, <2>7
  <2> QED BY <2>4, <2>5, <2>8, <2>9 DEF Stepped
<1>3. CASE ~(r.attempt + 1 < MaxAttempts /\ open)
  BY <1>1, <1>3, ForgetGood, SetGood DEF Retry
<1> QED BY <1>2, <1>3

\* A start after a change of the fields that Good does not look at.
LEMMA StartAfter ==
    ASSUME NodesGood, NEW i \in Nodes, NEW k \in Ordinals, NEW m \in NodeSet,
           m.seen = node[i].seen, m.runs = node[i].runs, SetNode(i, StartAttempt(m, k))
    PROVE  Stepped
<1>1. Good(m)
  BY SameRuns DEF NodesGood
<1>2. Good(StartAttempt(m, k)) /\ OneOn(m, StartAttempt(m, k))
  BY <1>1, StartGood
<1>3. OneOn(node[i], StartAttempt(m, k))
  BY <1>2 DEF OneOn
<1> QED BY <1>2, <1>3, SetGood

\* A run that goes on to its next attempt records it first (the code does both
\* under one lock): the two orders give the same node.
LEMMA AdvanceGood ==
    ASSUME NodesGood, NEW i \in Nodes, NEW r \in node[i].runs, r.held,
           r.attempt + 1 \in Ordinals,
           SetNode(i, Recorded(Moved(node[i], r, [r EXCEPT !.attempt = @ + 1,
                                                           !.phase = "trying"]),
                               r.attempt + 1))
    PROVE  Stepped
<1> DEFINE n == node[i]
           k == r.attempt + 1
           s == [r EXCEPT !.attempt = @ + 1, !.phase = "trying"]
           q == Recorded(n, k)
           m == Moved(q, r, s)
<1>1. Good(n) /\ n \in NodeSet /\ n.seen \in Int /\ r \in Runs /\ RunGood(n, r)
  BY DEF NodesGood, Good, NodeSet
<1>2. /\ s \in Runs /\ s.held = r.held /\ s.live = r.live
      /\ s.attempt = k /\ s.phase = "trying"
  BY <1>1, Zenon DEF Runs, Phases
<1>3. Recorded(Moved(n, r, s), k) = m
  BY <1>1, Zenon DEF Recorded, Moved, NodeSet
<1>4. Admissible(n, k)
  BY <1>1 DEF Admissible, RunGood, Runs, Ordinals
<1>5. Good(q) /\ k < q.seen /\ q.runs = n.runs /\ OneOn(n, q)
  BY <1>1, <1>4, RecordedGood
<1>6. SetNode(i, m)
  BY <1>3
<1> HIDE DEF n, k, s, q
<1>7. RunGood(q, s)
  BY <1>1, <1>2, <1>5 DEF RunGood
<1>8. Good(m) /\ m.seen = q.seen
  BY <1>2, <1>5, <1>7, MovedGood, Zenon DEF n
<1> HIDE DEF m
<1>9. OneOn(node[i], m)
  BY <1>5, <1>8 DEF OneOn, n
<1> QED BY <1>6, <1>8, <1>9, SetGood

\* Every step of a run keeps its node good.
LEMMA RunStep ==
    ASSUME NodesGood, NEW i \in Nodes, NEW r \in node[i].runs,
           \/ Leave(i, r) \/ Join(i, r) \/ Unreachable(i, r)
           \/ Silence(i, r) \/ Setback(i, r) \/ AdvanceAttempt(i, r)
    PROVE  Stepped
<1>1. Good(node[i]) /\ r \in Runs /\ RunGood(node[i], r) /\ node[i] \in NodeSet
  BY DEF NodesGood, Good, NodeSet
<1>2. CASE Leave(i, r)
  BY <1>1, <1>2, ForgetGood, SetGood DEF Leave
<1>3. CASE Join(i, r)
  <2> DEFINE s == [r EXCEPT !.phase = "signing"]
             m == Moved(node[i], r, s)
             q == [m EXCEPT !.used = @ \cup {r.attempt}]
  <2>1. /\ s \in Runs /\ s.held = r.held /\ s.live = r.live
        /\ s.attempt = r.attempt /\ s.phase = "signing"
    BY <1>1 DEF Runs, Phases
  <2>2. SetNode(i, q)
    BY <1>3 DEF Join
  <2> HIDE DEF s
  <2>3. RunGood(node[i], s)
    BY <1>1, <2>1 DEF RunGood
  <2>4. Good(m) /\ m.seen = node[i].seen
    BY <1>1, <2>1, <2>3, MovedGood
  <2> HIDE DEF m
  <2>5. q \in NodeSet /\ q.seen = m.seen /\ q.runs = m.runs
    BY <1>1, <2>4 DEF Good, NodeSet, Runs
  <2> HIDE DEF q
  <2>6. Good(q) /\ OneOn(node[i], q)
    BY <2>4, <2>5, SameRuns DEF OneOn
  <2> QED BY <2>2, <2>6, SetGood
<1>4. CASE Unreachable(i, r) \/ Silence(i, r) \/ Setback(i, r)
  BY <1>4, RetryGood DEF Unreachable, Silence, Setback
<1>5. CASE AdvanceAttempt(i, r)
  <2>1. CASE ~r.held
    BY <1>1, <1>5, <2>1, ForgetGood, SetGood DEF AdvanceAttempt
  <2>2. CASE r.held
    <3> DEFINE k == r.attempt + 1
               s == [r EXCEPT !.attempt = @ + 1, !.phase = "trying"]
               m == Moved(node[i], r, s)
    <3>1. k \in Ordinals
      BY <1>1, <1>5 DEF AdvanceAttempt, RunGood
    <3>2. SetNode(i, Recorded(m, k))
      BY <1>5, <2>2 DEF AdvanceAttempt
    <3> QED BY <3>1, <3>2, <1>1, <2>2, AdvanceGood, Zenon
  <2> QED BY <2>1, <2>2
<1> QED BY <1>2, <1>3, <1>4, <1>5

\* Every step of a waiter does.
LEMMA WaiterStep ==
    ASSUME NodesGood, NEW i \in Nodes, NEW w \in node[i].waiters,
           Poll(i, w) \/ Fire(i, w) \/ Expire(i, w)
    PROVE  Stepped
<1>1. Good(node[i]) /\ node[i] \in NodeSet /\ w \in Waiters
  BY DEF NodesGood, Good, NodeSet
<1>2. CASE Poll(i, w)
  <2>1. [w EXCEPT !.phase = "firing"] \in Waiters
    BY <1>1 DEF Waiters
  <2>2. PICK W \in SUBSET Waiters : SetNode(i, [node[i] EXCEPT !.waiters = W])
    <3>1. CASE SetNode(i, [node[i] EXCEPT !.waiters = @ \ {w}])
      <4>1. node[i].waiters \ {w} \in SUBSET Waiters
        BY <1>1 DEF NodeSet
      <4> QED BY <1>1, <3>1, <4>1, Zenon DEF NodeSet
    <3>2. CASE SetNode(i, [node[i] EXCEPT !.waiters =
                              (@ \ {w}) \cup {[w EXCEPT !.phase = "firing"]}])
      <4>1. (node[i].waiters \ {w}) \cup {[w EXCEPT !.phase = "firing"]} \in SUBSET Waiters
        BY <1>1, <2>1 DEF NodeSet
      <4> QED BY <1>1, <3>2, <4>1, Zenon DEF NodeSet
    <3> QED BY <1>2, <3>1, <3>2 DEF Poll
  <2> DEFINE m == [node[i] EXCEPT !.waiters = W]
  <2>3. m \in NodeSet /\ m.seen = node[i].seen /\ m.runs = node[i].runs
    BY <1>1 DEF NodeSet
  <2> HIDE DEF m
  <2>4. Good(m) /\ OneOn(node[i], m)
    BY <1>1, <2>3, SameRuns
  <2> QED BY <2>2, <2>4, SetGood DEF m
<1>3. CASE Fire(i, w)
  <2> DEFINE m == [node[i] EXCEPT !.waiters = @ \ {w}, !.latch = {}]
  <2>1. m \in NodeSet /\ m.seen = node[i].seen /\ m.runs = node[i].runs
    BY <1>1, Zenon DEF NodeSet
  <2>2. w.ordinal \in Ordinals /\ SetNode(i, StartAttempt(m, w.ordinal))
    BY <1>1, <1>3 DEF Waiters, Fire
  <2> HIDE DEF m
  <2> QED BY <2>1, <2>2, StartAfter
<1>4. CASE Expire(i, w)
  <2> DEFINE m == [node[i] EXCEPT !.waiters = @ \ {w}, !.latch = {}]
  <2>1. m \in NodeSet /\ m.seen = node[i].seen /\ m.runs = node[i].runs
    BY <1>1, Zenon DEF NodeSet
  <2>2. SetNode(i, m)
    BY <1>4 DEF Expire
  <2> HIDE DEF m
  <2>3. Good(m) /\ OneOn(node[i], m)
    BY <1>1, <2>1, SameRuns
  <2> QED BY <2>2, <2>3, SetGood
<1> QED BY <1>2, <1>3, <1>4

\* So do the proposal, a message, a latch and the pending seal.
LEMMA NodeStep ==
    ASSUME NodesGood, NEW i \in Nodes,
           \/ \E k \in node[i].inbox : Receive(i, k)
           \/ \E k \in node[i].deferring : Latch(i, k)
           \/ PendingArrives(i)
    PROVE  Stepped
<1>1. Good(node[i]) /\ node[i] \in NodeSet
  BY DEF NodesGood, Good
<1>2. CASE \E k \in node[i].inbox : Receive(i, k)
  <2>1. PICK k \in node[i].inbox : Receive(i, k)
    BY <1>2
  <2> DEFINE m == [node[i] EXCEPT !.inbox = @ \ {k}]
  <2>2. /\ m \in NodeSet /\ m.seen = node[i].seen /\ m.runs = node[i].runs
        /\ k \in Ordinals
    BY <1>1 DEF NodeSet
  <2>3. SetNode(i, StartAttempt(m, k))
    BY <2>1 DEF Receive
  <2> HIDE DEF m
  <2> QED BY <2>2, <2>3, StartAfter
<1>3. CASE \E k \in node[i].deferring : Latch(i, k)
  <2>1. PICK k \in node[i].deferring : Latch(i, k)
    BY <1>3
  <2> DEFINE m == [node[i] EXCEPT !.deferring = @ \ {k}]
  <2>2. /\ m \in NodeSet /\ m.seen = node[i].seen /\ m.runs = node[i].runs
        /\ k \in Ordinals
    BY <1>1 DEF NodeSet
  <2>3. SetNode(i, Defer(m, k))
    BY <2>1 DEF Latch
  <2> HIDE DEF m
  <2>4. Good(m)
    BY <1>1, <2>2, SameRuns
  <2>5. Good(Defer(m, k)) /\ OneOn(node[i], Defer(m, k))
    BY <2>2, <2>4, DeferGood DEF OneOn
  <2> QED BY <2>3, <2>5, SetGood
<1>4. CASE PendingArrives(i)
  <2> DEFINE m == [node[i] EXCEPT !.pending = TRUE]
  <2>1. m \in NodeSet /\ m.seen = node[i].seen /\ m.runs = node[i].runs
    BY <1>1, Zenon DEF NodeSet
  <2>2. SetNode(i, m)
    BY <1>4 DEF PendingArrives
  <2> HIDE DEF m
  <2>3. Good(m) /\ OneOn(node[i], m)
    BY <1>1, <2>1, SameRuns
  <2> QED BY <2>2, <2>3, SetGood
<1> QED BY <1>2, <1>3, <1>4

\* So does the announcement of attempt 0, with the start of the proposer.
LEMMA ProposeStep ==
    ASSUME NodesGood, Propose
    PROVE  Stepped
<1> DEFINE g == Announced(node, Proposer, 0)
           m == StartAttempt(node[Proposer], 0)
<1>1. 0 \in Ordinals /\ Proposer \in Nodes
  BY SealAssumption DEF Ordinals
<1>2. /\ g \in [Nodes -> NodeSet] /\ g[Proposer] = node[Proposer]
      /\ \A j \in Nodes : Good(g[j]) /\ OneOn(node[j], g[j])
  BY <1>1, AnnouncedGood
<1>3. Good(m) /\ OneOn(node[Proposer], m)
  BY <1>1, StartGood DEF NodesGood
<1>4. node' = [g EXCEPT ![Proposer] = m]
  BY <1>1, <1>2 DEF Propose
<1>5. m \in NodeSet
  BY <1>3, GoodStays
<1> HIDE DEF g, m
<1>6. \A j \in Nodes : node'[j] = IF j = Proposer THEN m ELSE g[j]
  BY <1>2, <1>4
<1>7. node' \in [Nodes -> NodeSet]
  BY <1>2, <1>4, <1>5, Zenon
<1> QED BY <1>2, <1>3, <1>6, <1>7 DEF Stepped

\* The seal ends the runs of its attempt.
LEMMA SealStep ==
    ASSUME NodesGood, NEW k \in Ordinals, Seal(k)
    PROVE  Stepped
<1> DEFINE S(j) == {r \in node[j].runs : ~(r.attempt = k /\ r.phase = "signing")}
           m(j) == [node[j] EXCEPT !.runs = S(j)]
<1>1. node' = [j \in Nodes |-> m(j)]
  BY DEF Seal
<1>2. ASSUME NEW j \in Nodes PROVE m(j) \in NodeSet /\ Good(m(j)) /\ OneOn(node[j], m(j))
  <2>1. Good(node[j]) /\ S(j) \in SUBSET node[j].runs
    BY DEF NodesGood
  <2> HIDE DEF S
  <2>2. Good(m(j)) /\ OneOn(node[j], m(j))
    BY <2>1, FewerRuns
  <2> HIDE DEF m
  <2> QED BY <2>2, GoodStays
<1> HIDE DEF m
<1> QED BY <1>1, <1>2 DEF Stepped

-------------------------------------------------------------------------------
\* Initially no node has a run or a record.
LEMMA InitGood == SealInit => NodesGood /\ Others
<1> SUFFICES ASSUME SealInit PROVE NodesGood /\ Others
  OBVIOUS
<1>1. ASSUME NEW i \in Nodes PROVE Boot(i) \in NodeSet /\ Boot(i).runs = {}
  BY SealAssumption DEF Boot, NodeSet
<1>2. \A i \in Nodes : Good(Boot(i))
  BY <1>1 DEF Good, OneHeld
<1>3. NodesGood
  BY <1>1, <1>2 DEF SealInit, NodesGood
<1>4. 0 \in 0 .. MaxMishaps
  BY SealAssumption
<1>5. Others
  BY <1>4, Zenon DEF SealInit, Others
<1> QED BY <1>3, <1>5

\* A step of the nodes, whoever takes it.
LEMMA StepGood ==
    ASSUME NodesGood, SealNext
    PROVE  Stepped
<1>1. CASE Propose
  BY <1>1, ProposeStep
<1>2. CASE \E k \in Ordinals : Seal(k)
  BY <1>2, SealStep
<1>3. CASE CloseWindow
  <2>1. node' = node
    BY <1>3 DEF CloseWindow
  <2>2. \A j \in Nodes : Good(node[j]) /\ OneOn(node[j], node[j])
    BY GoodStays DEF NodesGood
  <2> QED BY <2>1, <2>2 DEF NodesGood, Stepped
<1>4. ASSUME NEW i \in Nodes,
             \/ \E k \in node[i].inbox : Receive(i, k)
             \/ \E k \in node[i].deferring : Latch(i, k)
             \/ PendingArrives(i)
      PROVE  Stepped
  BY <1>4, NodeStep
<1>5. ASSUME NEW i \in Nodes, NEW w \in node[i].waiters,
             Poll(i, w) \/ Fire(i, w) \/ Expire(i, w)
      PROVE  Stepped
  BY <1>5, WaiterStep
<1>6. ASSUME NEW i \in Nodes, NEW r \in node[i].runs,
             \/ Leave(i, r) \/ Join(i, r) \/ Unreachable(i, r)
             \/ Silence(i, r) \/ Setback(i, r) \/ AdvanceAttempt(i, r)
      PROVE  Stepped
  BY <1>6, RunStep
<1> QED BY <1>1, <1>2, <1>3, <1>4, <1>5, <1>6, Zenon DEF SealNext, SealWork

\* The variables other than node keep their types.
LEMMA StepOthers ==
    ASSUME Others, SealNext
    PROVE  Others'
<1>1. Mishap \/ UNCHANGED mishaps => mishaps' \in 0 .. MaxMishaps
  BY SealAssumption DEF Mishap, Others
<1> DEFINE Kept == /\ UNCHANGED <<schedule, offline>>
                   /\ sealed' \in {sealed, TRUE} /\ open' \in {open, FALSE}
                   /\ Mishap \/ UNCHANGED mishaps
<1>2. ASSUME Propose \/ CloseWindow \/ \E k \in Ordinals : Seal(k)
      PROVE  Kept
  BY <1>2, Zenon DEF Propose, CloseWindow, Seal
<1>3. ASSUME NEW i \in Nodes,
             \/ \E k \in node[i].inbox : Receive(i, k)
             \/ \E k \in node[i].deferring : Latch(i, k)
             \/ PendingArrives(i)
      PROVE  Kept
  BY <1>3, Zenon DEF Receive, PendingArrives, Latch, Unless
<1>4. ASSUME NEW i \in Nodes, NEW w \in node[i].waiters,
             Poll(i, w) \/ Fire(i, w) \/ Expire(i, w)
      PROVE  Kept
  BY <1>4, Zenon DEF Poll, Fire, Expire
<1>5. ASSUME NEW i \in Nodes, NEW r \in node[i].runs,
             \/ Leave(i, r) \/ Join(i, r) \/ Unreachable(i, r)
             \/ Silence(i, r) \/ Setback(i, r) \/ AdvanceAttempt(i, r)
      PROVE  Kept
  BY <1>5, Zenon DEF Leave, Join, Unreachable, Silence, Setback, AdvanceAttempt
<1> HIDE DEF Kept
<1>6. Kept
  BY <1>2, <1>3, <1>4, <1>5, Zenon DEF SealNext, SealWork
<1> QED BY <1>1, <1>6, Zenon DEF Others, Kept

\* The inductive invariant: every node's runs are on record, the session map
\* points to one run at most, and every other run is cancelled.
LEMMA Inductive == SealSpec => [](NodesGood /\ Others)
<1>1. SealInit => NodesGood /\ Others
  BY InitGood
<1>2. NodesGood /\ Others /\ [SealNext]_sealVars => (NodesGood /\ Others)'
  <2> SUFFICES ASSUME NodesGood, Others, [SealNext]_sealVars
               PROVE  (NodesGood /\ Others)'
    OBVIOUS
  <2>1. CASE SealNext
    <3>1. Stepped
      BY <2>1, StepGood
    <3>2. NodesGood'
      BY <3>1 DEF Stepped, NodesGood
    <3> QED BY <2>1, <3>2, StepOthers
  <2>2. CASE UNCHANGED sealVars
    BY <2>2 DEF sealVars, NodesGood, Others
  <2> QED BY <2>1, <2>2
<1> QED BY <1>1, <1>2, PTL DEF SealSpec

\* No node records, announces, latches or runs an ordinal beyond
\* tdilithium3SealSigningMaxAttempts, whatever that bound is.
THEOREM OrdinalsInRange == SealSpec => []SealTypeOK
<1>1. NodesGood /\ Others => SealTypeOK
  BY DEF NodesGood, Others, SealTypeOK, NodeSet
<1> QED BY <1>1, Inductive, PTL

\* tdilithium3SealSigningStart cancels the run it replaces and
\* tdilithium3SealSigningForget drops only its own entry, so no committee, no
\* schedule and no order of messages gives a node two live runs of a slot.
THEOREM SingleLiveRun == SealSpec => []OneAttemptLive
<1>1. NodesGood => OneAttemptLive
  BY DEF NodesGood, Good, RunGood, OneHeld, OneAttemptLive
<1> QED BY <1>1, Inductive, PTL

\* tdilithium3SealOrdinalAdmissible and the record every start and every
\* advance makes keep a node's ordinals growing one by one.
THEOREM OrdinalsOneByOne == SealSpec => AttemptsOneByOne
<1> DEFINE Grows == \A i \in Nodes :
                       node'[i].seen <= IF node[i].seen = 0 THEN 2 ELSE node[i].seen + 1
<1>1. NodesGood /\ [SealNext]_sealVars => [Grows]_sealVars
  <2> SUFFICES ASSUME NodesGood, SealNext PROVE Grows
    OBVIOUS
  <2> QED BY StepGood DEF Stepped, OneOn
<1> QED BY <1>1, Inductive, PTL DEF SealSpec, AttemptsOneByOne
===============================================================================
