----------------------------- MODULE SealAttempts -----------------------------
(* How a committee gets one slot sealed                                       *)
(* (src/node/tdilithium3_signing_seal.go): the proposer announces attempt 0, *)
(* the signers of an attempt run it together, one whose attempt failed       *)
(* announces the next, and a node that hears of an attempt before its own    *)
(* pending seal exists latches the start until the seal appears.             *)
(* What one attempt does is ThresholdSigning's subject; here it seals when   *)
(* all its signers take part.                                                *)
(* Clocks are left out. What the code's timing makes unlikely, not           *)
(* impossible, is allowed but counted as a mishap: an overtaken message or   *)
(* goroutine, an expired latch, a filtered attempt, the end of the slot's    *)
(* retry window.                                                             *)
EXTENDS Integers, FiniteSets

CONSTANTS
    Nodes,        \* committee positions
    Proposer,     \* the slot's proposer
    MaxAttempts,  \* tdilithium3SealSigningMaxAttempts
    Schedules,    \* the slots at hand: who signs which attempt
    Late,         \* nodes whose pending seal is still to come
    MaxOffline,   \* how many members may be down
    MaxMishaps    \* how often something else may go wrong

VARIABLES
    schedule,     \* the signers of every attempt of the slot
    node,         \* the state of every node, see Boot
    sealed,       \* the slot's threshold signature is out
    offline,      \* nodes that are down for the whole slot
    open,         \* the slot's retry window
    mishaps

sealVars == <<schedule, node, sealed, offline, open, mishaps>>

Ordinals == 0 .. MaxAttempts - 1

ASSUME SealAssumption ==
    /\ MaxAttempts \in Nat \ {0}
    /\ MaxOffline \in Nat /\ MaxMishaps \in Nat
    /\ Schedules \subseteq [Ordinals -> SUBSET Nodes]
    /\ Proposer \in Nodes /\ Late \subseteq Nodes

Phases == {"trying", "signing", "announced"}

Runs == [attempt : Ordinals, phase : Phases, held : BOOLEAN, live : BOOLEAN]

Waiters == [ordinal : Ordinals, phase : {"polling", "firing"}]

\* Whether a node has the pending seal, the number of ordinals it has admitted,
\* its runs (goroutines) of the slot, the starts about to latch, the latched
\* ordinal and its waiters, the attempts its journal has consumed and the
\* announcements on their way to it. A run is held while the session map points
\* to it and live until its context is cancelled.
Boot(i) == [pending |-> i \notin Late, seen |-> 0, runs |-> {},
            deferring |-> {}, latch |-> {}, waiters |-> {}, used |-> {}, inbox |-> {}]

SealInit ==
    /\ schedule \in Schedules
    /\ node = [i \in Nodes |-> Boot(i)]
    /\ offline \in SUBSET (Nodes \ {Proposer})
    /\ Cardinality(offline) <= MaxOffline
    /\ sealed = FALSE /\ open = TRUE /\ mishaps = 0

\* tdilithium3SealOrdinalRecordLocked: seen is the highest ordinal plus one.
Recorded(n, k) == [n EXCEPT !.seen = IF k < @ THEN @ ELSE k + 1]

\* Mutant: the bound on an announced ordinal is one too low.
AdmissibleBelow(n, k) == k < IF n.seen = 0 THEN 1 ELSE n.seen

\* tdilithium3SealOrdinalAdmissible.
Admissible(n, k) == k <= IF n.seen = 0 THEN 1 ELSE n.seen

\* Mutant: a newer latch inherits the older one's waiter.
DeferOneWaiter(n, k) ==
    IF \E l \in n.latch : l >= k THEN n
    ELSE [n EXCEPT !.latch = {k},
                   !.waiters = IF n.latch = {}
                               THEN @ \cup {[ordinal |-> k, phase |-> "polling"]}
                               ELSE @]

\* deferTDilithium3SealStart.
Defer(n, k) ==
    IF \E l \in n.latch : l >= k THEN n
    ELSE [n EXCEPT !.latch = {k},
                   !.waiters = @ \cup {[ordinal |-> k, phase |-> "polling"]}]

\* The last part of tdilithium3SealSigningStart, under its lock: the session
\* of a lower attempt is cancelled and replaced.
Begin(n, k) ==
    IF \E r \in n.runs : r.held /\ r.attempt >= k THEN n
    ELSE [Recorded(n, k) EXCEPT
            !.runs = {IF r.held THEN [r EXCEPT !.held = FALSE, !.live = FALSE]
                                ELSE r : r \in @}
                     \cup {[attempt |-> k, phase |-> "trying",
                            held |-> TRUE, live |-> TRUE]}]

\* tdilithium3SealSigningStart.
StartAttempt(n, k) ==
    IF \/ k >= MaxAttempts
       \/ k > 0 /\ ~open
       \/ ~Admissible(n, k)
       \/ sealed
    THEN n
    ELSE IF ~n.pending THEN [Recorded(n, k) EXCEPT !.deferring = @ \cup {k}]
    ELSE Begin(n, k)

\* Mutant: a returning run drops the slot's entry whoever owns it.
ForgetSlot(n, r) ==
    [n EXCEPT !.runs = {[s EXCEPT !.held = FALSE] : s \in @ \ {r}}]

\* The run returns: tdilithium3SealSigningForget drops its own session entry.
Forget(n, r) == [n EXCEPT !.runs = @ \ {r}]

\* Run r has become s.
Moved(n, r, s) == [n EXCEPT !.runs = (@ \ {r}) \cup {s}]

SetNode(i, n) == node' = [node EXCEPT ![i] = n]

Online(i) == i \in Nodes \ offline

\* What a broadcast of attempt k by node i leaves in the other inboxes.
Announced(f, i, k) ==
    [j \in Nodes |-> IF j = i \/ j \in offline THEN f[j]
                     ELSE [f[j] EXCEPT !.inbox = @ \cup {k}]]

Mishap == mishaps < MaxMishaps /\ mishaps' = mishaps + 1

\* A waiter about to fire and a run that has announced go on at once.
Prompt(i) ==
    /\ \A w \in node[i].waiters : w.phase = "polling"
    /\ \A r \in node[i].runs : r.phase # "announced"

\* A step that overtakes what should come before it is a mishap.
Unless(overtakes) == IF overtakes THEN Mishap ELSE UNCHANGED mishaps

-------------------------------------------------------------------------------
\* requestQTDSeal of the slot's proposer, once.
Propose ==
    /\ Online(Proposer) /\ node[Proposer].seen = 0
    /\ node' = [Announced(node, Proposer, 0) EXCEPT
                   ![Proposer] = StartAttempt(@, 0)]
    /\ UNCHANGED <<schedule, sealed, offline, open, mishaps>>

\* handleQTDSealRequest. Announcements arrive in any order, and only a signer
\* of attempt k - 1 sends attempt k.
Receive(i, k) ==
    /\ Online(i) /\ k \in node[i].inbox
    /\ SetNode(i, StartAttempt([node[i] EXCEPT !.inbox = @ \ {k}], k))
    /\ Unless(~Prompt(i) \/ \E l \in node[i].inbox : l < k)
    /\ UNCHANGED <<schedule, sealed, offline, open>>

\* The local approval of the block creates the pending seal.
PendingArrives(i) ==
    /\ Online(i) /\ ~node[i].pending
    /\ SetNode(i, [node[i] EXCEPT !.pending = TRUE])
    /\ UNCHANGED <<schedule, sealed, offline, open, mishaps>>

\* deferTDilithium3SealStart of the start that found no pending seal. The seal
\* may have come in between, and an older latch's waiter begun to fire.
Latch(i, k) ==
    /\ Online(i) /\ k \in node[i].deferring
    /\ SetNode(i, Defer([node[i] EXCEPT !.deferring = @ \ {k}], k))
    /\ Unless(~Prompt(i))
    /\ UNCHANGED <<schedule, sealed, offline, open>>

\* A round of runDeferredTDilithium3SealStart: the waiter of another ordinal
\* dies, the one that sees the pending seal goes on to fire.
Poll(i, w) ==
    /\ Online(i) /\ w \in node[i].waiters /\ w.phase = "polling"
    /\ \/ /\ w.ordinal \notin node[i].latch
          /\ SetNode(i, [node[i] EXCEPT !.waiters = @ \ {w}])
       \/ /\ w.ordinal \in node[i].latch /\ node[i].pending
          /\ SetNode(i, [node[i] EXCEPT !.waiters =
                            (@ \ {w}) \cup {[w EXCEPT !.phase = "firing"]}])
    /\ UNCHANGED <<schedule, sealed, offline, open, mishaps>>

\* Its last part deletes whichever latch the slot has by then.
Fire(i, w) ==
    /\ Online(i) /\ w \in node[i].waiters /\ w.phase = "firing"
    /\ SetNode(i, StartAttempt([node[i] EXCEPT !.waiters = @ \ {w}, !.latch = {}],
                               w.ordinal))
    /\ UNCHANGED <<schedule, sealed, offline, open, mishaps>>

\* The latch's deadline of 30 s. A member that gets its block that late is as
\* good as down.
Expire(i, w) ==
    /\ Online(i) /\ w \in node[i].waiters /\ w.phase = "polling"
    /\ w.ordinal \in node[i].latch /\ ~node[i].pending
    /\ Cardinality(offline) < MaxOffline /\ Mishap
    /\ SetNode(i, [node[i] EXCEPT !.waiters = @ \ {w}, !.latch = {}])
    /\ UNCHANGED <<schedule, sealed, offline, open>>

\* tdilithium3SealSigningRun, the top of its loop and the early returns of
\* tdilithium3SealSigningAttempt: a cancelled run returns, so does one that
\* does not sign this attempt or whose journal has consumed it.
Leave(i, r) ==
    /\ Online(i) /\ r \in node[i].runs
    /\ \/ ~r.live /\ r.phase # "announced"
       \/ /\ r.phase = "trying"
          /\ i \notin schedule[r.attempt] \/ r.attempt \in node[i].used
    /\ SetNode(i, Forget(node[i], r))
    /\ UNCHANGED <<schedule, sealed, offline, open, mishaps>>

\* Mutant: the sessions are derived from the retry's ordinal.
JoinNext(i, r) ==
    /\ Online(i) /\ r \in node[i].runs /\ r.phase = "trying"
    /\ i \in schedule[r.attempt] /\ r.attempt \notin node[i].used
    /\ SetNode(i, [Moved(node[i], r, [r EXCEPT !.phase = "signing"])
                     EXCEPT !.used = @ \cup {r.attempt + 1}])
    /\ UNCHANGED <<schedule, sealed, offline, open, mishaps>>

\* The candidate sessions of the attempt are built and started.
Join(i, r) ==
    /\ Online(i) /\ r \in node[i].runs /\ r.phase = "trying"
    /\ i \in schedule[r.attempt] /\ r.attempt \notin node[i].used
    /\ SetNode(i, [Moved(node[i], r, [r EXCEPT !.phase = "signing"])
                     EXCEPT !.used = @ \cup {r.attempt}])
    /\ UNCHANGED <<schedule, sealed, offline, open, mishaps>>

\* Node j takes part in attempt k.
Signing(j, k) ==
    /\ j \notin offline
    /\ \E r \in node[j].runs : r.attempt = k /\ r.phase = "signing"

\* All signers of attempt k take part: each gets the signature, submits it
\* (submitTDilithium3SealSignature) and returns. Every node hears of the seal.
Seal(k) ==
    /\ \A j \in schedule[k] : Signing(j, k)
    /\ node' = [j \in Nodes |->
                   [node[j] EXCEPT !.runs =
                      {r \in @ : ~(r.attempt = k /\ r.phase = "signing")}]]
    /\ sealed' = TRUE
    /\ UNCHANGED <<schedule, offline, open, mishaps>>

\* Nothing is left to do but wait for a silent signer: a candidate times out
\* after 15 s, later than any announcement, poll or pause takes.
Settled ==
    \A j \in Nodes \ offline :
        /\ node[j].inbox = {} /\ node[j].deferring = {} /\ node[j].waiters = {}
        /\ \A r \in node[j].runs : r.live /\ r.phase = "signing"

\* A failed attempt in tdilithium3SealSigningRun: RetryAllowed, then the
\* announcement of the next ordinal.
Retry(i, r) ==
    IF r.attempt + 1 < MaxAttempts /\ open
    THEN node' = [Announced(node, i, r.attempt + 1) EXCEPT
                     ![i] = Moved(@, r, [r EXCEPT !.phase = "announced"])]
    ELSE SetNode(i, Forget(node[i], r))

\* The binding finds a signer that has no peer.
Unreachable(i, r) ==
    /\ Online(i) /\ r \in node[i].runs /\ r.phase = "trying"
    /\ i \in schedule[r.attempt] /\ schedule[r.attempt] \cap offline # {}
    /\ Retry(i, r)
    /\ UNCHANGED <<schedule, sealed, offline, open, mishaps>>

\* Every candidate of the attempt ends in silence: a signer is missing, or the
\* run was cancelled, which the slot driver reports the same way.
Silence(i, r) ==
    /\ Online(i) /\ r \in node[i].runs /\ r.phase = "signing"
    /\ \/ ~r.live
       \/ Settled /\ \E j \in schedule[r.attempt] : ~Signing(j, r.attempt)
    /\ Retry(i, r)
    /\ UNCHANGED <<schedule, sealed, offline, open, mishaps>>

\* Every candidate was filtered, or a signer still to come was too late.
Setback(i, r) ==
    /\ Online(i) /\ r \in node[i].runs /\ r.live /\ r.phase = "signing"
    /\ Mishap
    /\ Retry(i, r)
    /\ UNCHANGED <<schedule, sealed, offline, open>>

\* Mutant: the entry moves on and the loop counts the attempt once more.
AdvanceAttemptTwice(i, r) ==
    /\ Online(i) /\ r \in node[i].runs /\ r.phase = "announced"
    /\ SetNode(i, IF r.held /\ r.attempt + 2 < MaxAttempts
                  THEN Recorded(Moved(node[i], r, [r EXCEPT !.attempt = @ + 2,
                                                            !.phase = "trying"]),
                                r.attempt + 2)
                  ELSE Forget(node[i], r))
    /\ UNCHANGED <<schedule, sealed, offline, open, mishaps>>

\* tdilithium3SealSigningAdvance and the pause after it.
AdvanceAttempt(i, r) ==
    /\ Online(i) /\ r \in node[i].runs /\ r.phase = "announced"
    /\ SetNode(i, IF r.held
                  THEN Recorded(Moved(node[i], r, [r EXCEPT !.attempt = @ + 1,
                                                            !.phase = "trying"]),
                                r.attempt + 1)
                  ELSE Forget(node[i], r))
    /\ UNCHANGED <<schedule, sealed, offline, open, mishaps>>

\* The slot's retry window passes.
CloseWindow ==
    /\ open /\ open' = FALSE
    /\ Mishap
    /\ UNCHANGED <<schedule, sealed, node, offline>>

SealWork ==
    \/ Propose
    \/ \E k \in Ordinals : Seal(k)
    \/ \E i \in Nodes :
          \/ \E k \in node[i].inbox : Receive(i, k)
          \/ \E k \in node[i].deferring : Latch(i, k)
          \/ PendingArrives(i)
          \/ \E w \in node[i].waiters : Poll(i, w) \/ Fire(i, w)
          \/ \E r \in node[i].runs :
                \/ Leave(i, r) \/ Join(i, r) \/ Unreachable(i, r)
                \/ Silence(i, r) \/ AdvanceAttempt(i, r)

SealNext ==
    \/ SealWork
    \/ CloseWindow
    \/ \E i \in Nodes :
          \/ \E w \in node[i].waiters : Expire(i, w)
          \/ \E r \in node[i].runs : Setback(i, r)

SealSpec == SealInit /\ [][SealNext]_sealVars

FairSealSpec == SealSpec /\ WF_sealVars(SealWork)

-------------------------------------------------------------------------------
\* Every field keeps its type; no node admits, announces, latches or runs an
\* ordinal beyond tdilithium3SealSigningMaxAttempts.
SealTypeOK ==
    /\ schedule \in Schedules
    /\ node \in [Nodes -> [pending : BOOLEAN, seen : 0 .. MaxAttempts, runs : SUBSET Runs,
                           deferring : SUBSET Ordinals, latch : SUBSET Ordinals,
                           waiters : SUBSET Waiters, used : SUBSET Ordinals,
                           inbox : SUBSET Ordinals]]
    /\ sealed \in BOOLEAN /\ offline \subseteq Nodes /\ open \in BOOLEAN
    /\ mishaps \in 0 .. MaxMishaps

\* "Only one attempt of one slot may be live at once" (the file's header):
\* whatever the order of announcements, retries, latched starts and returns of
\* older runs, a node has at most one run of the slot it has not cancelled.
OneAttemptLive ==
    \A i \in Nodes : \A r, s \in node[i].runs : r.live /\ s.live => r = s

\* "Attempts advance one ordinal at a time" (tdilithium3SealOrdinalAdmissible):
\* no announcement, however late or early it arrives, makes a node skip the
\* attempt of another signer subset.
AttemptsOneByOne ==
    [][\A i \in Nodes :
          node'[i].seen <= IF node[i].seen = 0 THEN 2 ELSE node[i].seen + 1]_sealVars

\* A latched start fires, dies with its deadline or is superseded by one that
\* does: no slot keeps a latch that nobody watches. (Only a node whose pending
\* seal is late ever latches.)
LatchResolves == \A i \in Late : node[i].latch # {} ~> node[i].latch = {}

\* The committee seals the slot before its attempts are spent, or the retry
\* window passes, although a member is down and one thing goes wrong on top:
\* an attempt is filtered, an announcement overtaken, a latch deleted by an
\* older waiter. (With one member offline a slot "still gets two attempts
\* without it".)
SlotSealed == <>(sealed \/ ~open)
===============================================================================
