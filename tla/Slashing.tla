------------------------------- MODULE Slashing -------------------------------
(***************************************************************************)
(* From an observed offense to a ban: the evidence queue and the slash     *)
(* marks of the QPOS engine, the ValidatorManager and the SlashingManager. *)
(*                                                                         *)
(* No step changes the engine (q.mu) and the manager (sm.mu) under one     *)
(* lock: what crosses from one to the other runs in a goroutine of its     *)
(* own, so between any two locked sections everything else may happen.  A  *)
(* goroutine is a member of calls; its op names the locked section it      *)
(* executes next.                                                          *)
(***************************************************************************)
EXTENDS Integers, Sequences, FiniteSets, Functions

CONSTANTS
  Validators,              \* the validator addresses
  AddressOrder,            \* the addresses in ascending order: the order a restart inserts them
  Offenses,                \* the offenses of the run, see OffenseType
  Stakers,                 \* the validators that send stake and unstake transactions
  None,                    \* "no entry"
  FullStake,               \* the stake of a validator that was never slashed
  MinStakeAmount,          \* below it a validator cannot be active
  JailDuration,            \* in units of now
  MaxEvidenceQueue,        \* 10,000 in the code
  MaxEvidencePerValidator, \* 32 in the code
  MaxTime,                 \* bound on now
  MaxCalls,                \* bound: goroutines in flight when a new offense is observed
  MaxRestarts              \* bound: restarts of the node

(***************************************************************************)
(* An offense is what createOffenseKey tells apart.  Double votes,         *)
(* surround votes and double signing take the whole stake and ban for      *)
(* ever; downtime takes a fraction and jails.                              *)
(***************************************************************************)
OffenseType    == [addr : Validators, reason : {"DoubleVote", "Downtime"}, height : Nat]
IsPermanent(e) == e.reason = "DoubleVote"

ASSUME SlashingConstants ==
  /\ Offenses \subseteq OffenseType
  /\ None \notin Offenses
  /\ Stakers \subseteq Validators
  /\ AddressOrder \in Seq(Validators)
  /\ \A v \in Validators : \E i \in DOMAIN AddressOrder : AddressOrder[i] = v
  /\ \A i, j \in DOMAIN AddressOrder : AddressOrder[i] = AddressOrder[j] => i = j
  /\ FullStake \in Nat /\ MinStakeAmount \in 1 .. FullStake
  /\ JailDuration \in Nat \ {0} /\ MaxTime \in Nat
  /\ MaxEvidenceQueue \in Nat \ {0} /\ MaxEvidencePerValidator \in Nat \ {0}
  /\ MaxCalls \in Nat /\ MaxRestarts \in Nat

VARIABLES
  engine,   \* QPOS: validators, slashedValidators, evidenceQueue, slashingManager
  vm,       \* ValidatorManager.validators
  manager,  \* SlashingManager: signingInfo, slashedOffenses, lastSubmissions, pending*Addrs
  records,  \* the slashing_record keys in the database
  calls,    \* the goroutines in flight
  draining, \* the evidence each drain took from the queue and has not submitted yet
  sync,     \* where SyncPendingSlashes is
  now,      \* the block time
  restarts,
  cuts      \* history: how often each offense reduced a stake

vars == <<engine, vm, manager, records, calls, draining, sync, now, restarts, cuts>>

Indices == DOMAIN AddressOrder
Times   == 0 .. MaxTime + JailDuration
Entry   == [permanent : BOOLEAN, jailUntil : Times]
Info    == [jailedUntil : Times, permanent : BOOLEAN]

ASSUME NoneIsNoEntry == None \notin Entry /\ None \notin Info

Ops     == {"submit", "check", "slash", "record", "mark", "clear", "unmark", "clearUnjail"}
Drains  == {"startup", "loop"}
Sources == Drains \cup {"direct", "report", "slash", "unjail", "sync"}

Call == [op : Ops, src : Sources, addr : Validators, ev : Offenses \cup {None},
         permanent : BOOLEAN, jailUntil : Times]

Submission(src, e)             == [op |-> "submit", src |-> src, addr |-> e.addr, ev |-> e,
                                   permanent |-> FALSE, jailUntil |-> 0]
Marking(src, v, e, perm, till) == [op |-> "mark", src |-> src, addr |-> v, ev |-> e,
                                   permanent |-> perm, jailUntil |-> till]
Unmarking(src, v)              == [op |-> "unmark", src |-> src, addr |-> v, ev |-> None,
                                   permanent |-> FALSE, jailUntil |-> 0]

Done(c)     == calls \ {c}
Goto(c, op) == Done(c) \cup {[c EXCEPT !.op = op]}

-----------------------------------------------------------------------------
(* The engine.  Its marks are kept by the validator's index in the set. *)

Members       == {engine.set[i] : i \in DOMAIN engine.set}
IndexOf(v)    == CHOOSE i \in DOMAIN engine.set : engine.set[i] = v
IsSlashed(v)  == v \in Members /\ engine.slashed[IndexOf(v)] # None
BannedForever(v) == IsSlashed(v) /\ engine.slashed[IndexOf(v)].permanent

RemoveAt(seq, i) == [k \in 1 .. Len(seq) - 1 |-> seq[IF k < i THEN k ELSE k + 1]]

\* Mutant of QueueSlashingEvidence: the former global first-in-first-out eviction.
QueueSlashingEvidenceFIFO(queue, e) ==
  IF Len(queue) < MaxEvidenceQueue THEN Append(queue, e) ELSE Append(Tail(queue), e)

(***************************************************************************)
(* queueSlashingEvidenceLocked: a cap per validator, and when the queue is *)
(* full a validator only ever displaces its own oldest entry.              *)
(***************************************************************************)
QueueSlashingEvidence(queue, e) ==
  LET own    == {i \in DOMAIN queue : queue[i].addr = e.addr}
      oldest == CHOOSE i \in own : \A j \in own : i <= j
  IN IF Cardinality(own) >= MaxEvidencePerValidator THEN queue
     ELSE IF Len(queue) < MaxEvidenceQueue THEN Append(queue, e)
     ELSE IF own = {} THEN queue
     ELSE Append(RemoveAt(queue, oldest), e)

\* Mutant of MarkedEntry: the last mark wins.
MarkedEntryLastWins(old, perm, till) == [permanent |-> perm, jailUntil |-> till]

\* Mutant of MarkedEntry: a validator that is marked already is left as it is.
MarkedEntryFirstWins(old, perm, till) ==
  IF old = None THEN [permanent |-> perm, jailUntil |-> till] ELSE old

(***************************************************************************)
(* What MarkValidatorSlashedByAddress leaves at the validator's index: a   *)
(* permanent entry is kept, a temporary one is upgraded or prolonged.      *)
(***************************************************************************)
MarkedEntry(old, perm, till) ==
  IF old = None THEN [permanent |-> perm, jailUntil |-> till]
  ELSE IF old.permanent THEN old
  ELSE IF perm THEN [permanent |-> TRUE, jailUntil |-> 0]
  ELSE [old EXCEPT !.jailUntil = IF till > @ THEN till ELSE @]

-----------------------------------------------------------------------------
(* Observing an offense. *)

(***************************************************************************)
(* ProcessAttestation with a conflicting vote.  A slashed or inactive      *)
(* validator's attestation is rejected before it is compared.  The         *)
(* evidence is queued and, when the manager is wired, also submitted by a  *)
(* goroutine of its own.                                                   *)
(***************************************************************************)
ProcessAttestation(e) ==
  /\ IsPermanent(e)
  /\ e.addr \in Members /\ ~IsSlashed(e.addr) /\ e.addr \in engine.active
  /\ Cardinality(calls) < MaxCalls /\ Submission("direct", e) \notin calls
  /\ engine' = [engine EXCEPT !.queue = QueueSlashingEvidence(@, e)]
  /\ calls' = IF engine.wired THEN calls \cup {Submission("direct", e)} ELSE calls
  /\ UNCHANGED <<vm, manager, records, draining, sync, now, restarts, cuts>>

(***************************************************************************)
(* HandleBlockFinalized finds an active validator (GetActiveValidators)    *)
(* over the downtime threshold, and its evidence is submitted.             *)
(***************************************************************************)
HandleBlockFinalized(e) ==
  /\ ~IsPermanent(e) /\ engine.wired
  /\ vm[e.addr].active /\ ~vm[e.addr].permanent /\ vm[e.addr].jailedUntil <= now
  /\ Cardinality(calls) < MaxCalls /\ Submission("report", e) \notin calls
  /\ calls' = calls \cup {Submission("report", e)}
  /\ UNCHANGED <<engine, vm, manager, records, draining, sync, now, restarts, cuts>>

(***************************************************************************)
(* SetSlashingManager wires the manager and takes the whole queue; so does *)
(* every tick of drainEvidenceQueueLoop once the manager is wired.  What   *)
(* was taken is submitted outside the lock, one entry after another.       *)
(***************************************************************************)
\* Mutant of SetSlashingManager: the queue is emptied and nothing is submitted.
SetSlashingManagerForgets ==
  /\ ~engine.wired
  /\ engine' = [engine EXCEPT !.wired = TRUE, !.queue = <<>>]
  /\ UNCHANGED <<vm, manager, records, calls, draining, sync, now, restarts, cuts>>

SetSlashingManager ==
  /\ ~engine.wired
  /\ engine' = [engine EXCEPT !.wired = TRUE, !.queue = <<>>]
  /\ draining' = [draining EXCEPT !["startup"] = engine.queue]
  /\ UNCHANGED <<vm, manager, records, calls, sync, now, restarts, cuts>>

DrainTakes ==
  /\ engine.wired /\ engine.queue # <<>>
  /\ draining["loop"] = <<>> /\ \A c \in calls : c.src # "loop"
  /\ engine' = [engine EXCEPT !.queue = <<>>]
  /\ draining' = [draining EXCEPT !["loop"] = engine.queue]
  /\ UNCHANGED <<vm, manager, records, calls, sync, now, restarts, cuts>>

DrainSubmits(d) ==
  /\ draining[d] # <<>> /\ \A c \in calls : c.src # d
  /\ calls' = calls \cup {Submission(d, Head(draining[d]))}
  /\ draining' = [draining EXCEPT ![d] = Tail(@)]
  /\ UNCHANGED <<engine, vm, manager, records, sync, now, restarts, cuts>>

-----------------------------------------------------------------------------
(* SubmitEvidence, in three locked sections. *)

LimitKey(e) == <<e.addr, e.reason>>

(***************************************************************************)
(* SubmitEvidence up to the stake check.  A second submission for the same *)
(* reason and validator is rejected within sixty seconds of the last one,  *)
(* and those may be over or not.  A validator without stake cannot be      *)
(* slashed.  An error ends the goroutine; its caller only logs it.         *)
(***************************************************************************)
SubmitEvidence(c) ==
  /\ c.op = "submit"
  /\ \/ /\ LimitKey(c.ev) \in manager.limited \/ vm[c.addr].stake = 0
        /\ calls' = Done(c)
     \/ /\ vm[c.addr].stake > 0
        /\ calls' = Goto(c, "check")
  /\ manager' = [manager EXCEPT !.limited = @ \cup {LimitKey(c.ev)}]
  /\ UNCHANGED <<engine, vm, records, draining, sync, now, restarts, cuts>>

(***************************************************************************)
(* SubmitEvidence asks the engine whether it slashed the validator         *)
(* already; if so the offense is recorded and nothing else.                *)
(***************************************************************************)
CheckSlashedByQPOS(c) ==
  /\ c.op = "check"
  /\ calls' = Goto(c, IF IsSlashed(c.addr) THEN "record" ELSE "slash")
  /\ UNCHANGED <<engine, vm, manager, records, draining, sync, now, restarts, cuts>>

RecordOffenseOnly(c) ==
  /\ c.op = "record"
  /\ manager' = [manager EXCEPT !.offenses = @ \cup {c.ev}]
  /\ calls' = Done(c)
  /\ UNCHANGED <<engine, vm, records, draining, sync, now, restarts, cuts>>

(***************************************************************************)
(* slash, all of it under sm.mu: the stake, the jail in both managers, the *)
(* record in memory and on disk, the pending entry and the goroutine that  *)
(* will mark the validator in the engine.                                  *)
(***************************************************************************)
StakeAfter(e) == IF IsPermanent(e) \/ vm[e.addr].stake = 0 THEN 0 ELSE vm[e.addr].stake - 1

\* Mutant of Jailed: a temporary offense replaces the signing info of a banned validator.
JailedReplaced(e) == [jailedUntil |-> now + JailDuration, permanent |-> IsPermanent(e)]

Jailed(e) ==
  LET old == manager.signing[e.addr]
  IN [jailedUntil |-> now + JailDuration,
      permanent   |-> IsPermanent(e) \/ (old # None /\ old.permanent)]

AlreadySlashed(e) == e \in manager.offenses

Slash(c) ==
  /\ c.op = "slash"
  /\ LET e == c.ev
         v == c.addr
     IN \/ /\ AlreadySlashed(e)
           /\ calls' = Done(c)
           /\ UNCHANGED <<vm, manager, records, cuts>>
        \/ /\ ~AlreadySlashed(e)
           /\ vm' = [vm EXCEPT ![v] = [stake |-> StakeAfter(e), active |-> FALSE,
                                       jailedUntil |-> now + JailDuration,
                                       permanent |-> @.permanent \/ IsPermanent(e)]]
           /\ manager' = [manager EXCEPT !.signing[v] = Jailed(e), !.offenses = @ \cup {e},
                                         !.pendingSlashed = @ \cup {v}]
           /\ records' = records \cup {e}
           /\ cuts' = [cuts EXCEPT ![e] = @ + 1]
           /\ calls' = Done(c) \cup {Marking("slash", v, e, IsPermanent(e), now + JailDuration)}
  /\ UNCHANGED <<engine, draining, sync, now, restarts>>

-----------------------------------------------------------------------------
(* Marking and unmarking in the engine. *)

(***************************************************************************)
(* MarkValidatorSlashedByAddress.  It fails for an address outside the set *)
(* and then leaves the pending entry to SyncPendingSlashes.  Only a new    *)
(* entry deactivates the validator.                                        *)
(***************************************************************************)
MarkValidatorSlashedByAddress(c) ==
  /\ c.op = "mark"
  /\ \/ /\ c.addr \notin Members
        /\ calls' = Done(c)
        /\ UNCHANGED engine
     \/ /\ c.addr \in Members
        /\ LET i == IndexOf(c.addr)
           IN engine' = [engine EXCEPT
                           !.slashed[i] = MarkedEntry(@, c.permanent, c.jailUntil),
                           !.active = IF IsSlashed(c.addr) THEN @ ELSE @ \ {c.addr}]
        /\ calls' = Goto(c, "clear")
  /\ UNCHANGED <<vm, manager, records, draining, sync, now, restarts, cuts>>

\* The pending entry is removed under pendingSlashedMu, after q.mu was released.
ClearPendingSlash(c) ==
  /\ c.op = "clear"
  /\ manager' = [manager EXCEPT !.pendingSlashed = @ \ {c.addr}]
  /\ calls' = Done(c)
  /\ UNCHANGED <<engine, vm, records, draining, sync, now, restarts, cuts>>

(***************************************************************************)
(* UnmarkValidatorSlashed succeeds without an effect for an address        *)
(* outside the set and for one without an entry; it refuses to lift a      *)
(* permanent entry.  Refused, the goroutine of Unjail leaves the pending   *)
(* entry, and SyncPendingSlashes drops it.                                 *)
(***************************************************************************)
UnmarkValidatorSlashed(c) ==
  /\ c.op = "unmark"
  /\ \/ /\ BannedForever(c.addr)
        /\ calls' = IF c.src = "sync" THEN Goto(c, "clearUnjail") ELSE Done(c)
        /\ UNCHANGED engine
     \/ /\ ~BannedForever(c.addr)
        /\ engine' = IF IsSlashed(c.addr)
                     THEN [engine EXCEPT !.slashed[IndexOf(c.addr)] = None] ELSE engine
        /\ calls' = Goto(c, "clearUnjail")
  /\ UNCHANGED <<vm, manager, records, draining, sync, now, restarts, cuts>>

ClearPendingUnjail(c) ==
  /\ c.op = "clearUnjail"
  /\ manager' = [manager EXCEPT !.pendingUnjail = @ \ {c.addr}]
  /\ calls' = Done(c)
  /\ UNCHANGED <<engine, vm, records, draining, sync, now, restarts, cuts>>

(***************************************************************************)
(* Unjail clears the jail time first.  A validator whose stake no longer   *)
(* suffices then gets an error and stays inactive; the others become       *)
(* active and are unmarked by a goroutine.                                 *)
(***************************************************************************)
Unjail(v) ==
  /\ manager.signing[v] # None /\ ~manager.signing[v].permanent
  /\ manager.signing[v].jailedUntil \in 1 .. now
  /\ LET free == vm[v].stake >= MinStakeAmount
     IN /\ vm' = IF free THEN [vm EXCEPT ![v].active = TRUE, ![v].jailedUntil = 0] ELSE vm
        /\ manager' = [manager EXCEPT !.signing[v].jailedUntil = 0,
                                      !.pendingUnjail = IF free THEN @ \cup {v} ELSE @]
        /\ calls' = IF free THEN calls \cup {Unmarking("unjail", v)} ELSE calls
  /\ UNCHANGED <<engine, records, draining, sync, now, restarts, cuts>>

-----------------------------------------------------------------------------
(* SyncPendingSlashes, once per tick of syncPendingSlashesLoop. *)

SyncIsBusy == \E c \in calls : c.src = "sync"

SyncBegins ==
  /\ sync.phase = "idle" /\ manager.pendingSlashed \cup manager.pendingUnjail # {}
  /\ sync' = [phase |-> "slashes", todo |-> manager.pendingSlashed]
  /\ UNCHANGED <<engine, vm, manager, records, calls, draining, now, restarts, cuts>>

(***************************************************************************)
(* What a pending slash is re-applied as, read from signingInfo: without   *)
(* an entry a permanent ban; with an entry whose jail time was cleared a   *)
(* fresh jail term.                                                        *)
(***************************************************************************)
Resync(v) ==
  LET info == manager.signing[v]
  IN IF info = None THEN [permanent |-> TRUE, jailUntil |-> 0]
     ELSE [permanent |-> info.permanent,
           jailUntil |-> IF info.jailedUntil = 0 /\ ~info.permanent
                         THEN now + JailDuration ELSE info.jailedUntil]

SyncSlash(v) ==
  /\ sync.phase = "slashes" /\ v \in sync.todo /\ ~SyncIsBusy
  /\ calls' = calls \cup {Marking("sync", v, None, Resync(v).permanent, Resync(v).jailUntil)}
  /\ sync' = [sync EXCEPT !.todo = @ \ {v}]
  /\ UNCHANGED <<engine, vm, manager, records, draining, now, restarts, cuts>>

SyncTurnsToUnjails ==
  /\ sync.phase = "slashes" /\ sync.todo = {} /\ ~SyncIsBusy
  /\ sync' = [phase |-> "unjails", todo |-> manager.pendingUnjail]
  /\ UNCHANGED <<engine, vm, manager, records, calls, draining, now, restarts, cuts>>

SyncUnjail(v) ==
  /\ sync.phase = "unjails" /\ v \in sync.todo /\ ~SyncIsBusy
  /\ calls' = calls \cup {Unmarking("sync", v)}
  /\ sync' = [sync EXCEPT !.todo = @ \ {v}]
  /\ UNCHANGED <<engine, vm, manager, records, draining, now, restarts, cuts>>

SyncEnds ==
  /\ sync.phase = "unjails" /\ sync.todo = {} /\ ~SyncIsBusy
  /\ sync' = [phase |-> "idle", todo |-> {}]
  /\ UNCHANGED <<engine, vm, manager, records, calls, draining, now, restarts, cuts>>

-----------------------------------------------------------------------------
(* The validator set follows the staking transactions of applied blocks. *)

\* Mutant of AddStakingValidator: a known address is appended once more.
AddStakingValidatorTwice(v) ==
  /\ v \in Stakers
  /\ engine' = [engine EXCEPT !.set = Append(@, v), !.active = @ \cup {v}]
  /\ UNCHANGED <<vm, manager, records, calls, draining, sync, now, restarts, cuts>>

(***************************************************************************)
(* syncStakingFromBlock for a stake: AddStakingValidator appends a new     *)
(* address and re-activates a known one.  The ValidatorManager knows every *)
(* address already, so nothing is registered there.                        *)
(***************************************************************************)
AddStakingValidator(v) ==
  /\ v \in Stakers
  /\ engine' = [engine EXCEPT !.set = IF v \in Members THEN @ ELSE Append(@, v),
                              !.active = @ \cup {v}]
  /\ engine' # engine
  /\ UNCHANGED <<vm, manager, records, calls, draining, sync, now, restarts, cuts>>

(***************************************************************************)
(* syncValidatorSetAfterUnstake of a whole stake: the validators behind    *)
(* the removed one move up by one index; slashedValidators is not touched. *)
(***************************************************************************)
RemoveStakingValidator(v) ==
  /\ v \in Stakers \cap Members
  /\ engine' = [engine EXCEPT !.set = RemoveAt(@, IndexOf(v)), !.active = @ \ {v}]
  /\ vm' = [vm EXCEPT ![v].active = FALSE]
  /\ UNCHANGED <<manager, records, calls, draining, sync, now, restarts, cuts>>

(***************************************************************************)
(* A unit of time is a jail term (an hour): the goroutines, the drain and  *)
(* the ten-second sync are done with everything they can do by then.       *)
(***************************************************************************)
Tick ==
  /\ now < MaxTime
  /\ calls = {} /\ sync.phase = "idle" /\ engine.queue = <<>>
  /\ \A d \in Drains : draining[d] = <<>>
  /\ manager.pendingSlashed \cap Members = {} /\ manager.pendingUnjail = {}
  /\ now' = now + 1
  /\ UNCHANGED <<engine, vm, manager, records, calls, draining, sync, restarts, cuts>>

-----------------------------------------------------------------------------
FreshEngine == [set |-> AddressOrder, active |-> Validators,
                slashed |-> [i \in Indices |-> None], queue |-> <<>>, wired |-> FALSE]
FreshVM     == [v \in Validators |-> [stake |-> FullStake, active |-> TRUE,
                                      jailedUntil |-> 0, permanent |-> FALSE]]
NoDrain     == [d \in Drains |-> <<>>]
SyncIdle    == [phase |-> "idle", todo |-> {}]

\* Mutant of FreshManager: the persisted records are not loaded.
FreshManagerUnloaded(stored) ==
  [signing |-> [v \in Validators |-> None], offenses |-> {}, limited |-> {},
   pendingSlashed |-> {}, pendingUnjail |-> {}]

\* NewSlashingManager followed by LoadSlashingRecords.
FreshManager(stored) ==
  [signing |-> [v \in Validators |-> None], offenses |-> stored, limited |-> {},
   pendingSlashed |-> {}, pendingUnjail |-> {}]

Init ==
  /\ engine = FreshEngine /\ vm = FreshVM /\ manager = FreshManager({}) /\ records = {}
  /\ calls = {} /\ draining = NoDrain /\ sync = SyncIdle
  /\ now = 0 /\ restarts = 0 /\ cuts = [e \in Offenses |-> 0]

(***************************************************************************)
(* A restart keeps the slashing records and loses every other part of the  *)
(* state.  The ValidatorManager is filled from genesis, stakes included,   *)
(* and the set from it in the order of the addresses.                      *)
(***************************************************************************)
Restart ==
  /\ restarts < MaxRestarts /\ Members = Validators
  /\ engine' = FreshEngine /\ vm' = FreshVM /\ manager' = FreshManager(records)
  /\ calls' = {} /\ draining' = NoDrain /\ sync' = SyncIdle
  /\ restarts' = restarts + 1
  /\ UNCHANGED <<records, now, cuts>>

Goroutine(c) ==
  \/ SubmitEvidence(c) \/ CheckSlashedByQPOS(c) \/ RecordOffenseOnly(c) \/ Slash(c)
  \/ MarkValidatorSlashedByAddress(c) \/ ClearPendingSlash(c)
  \/ UnmarkValidatorSlashed(c) \/ ClearPendingUnjail(c)

SyncPendingSlashes ==
  \/ SyncBegins \/ SyncTurnsToUnjails \/ SyncEnds
  \/ \E v \in Validators : SyncSlash(v) \/ SyncUnjail(v)

Next ==
  \/ \E e \in Offenses : ProcessAttestation(e) \/ HandleBlockFinalized(e)
  \/ SetSlashingManager \/ DrainTakes \/ \E d \in Drains : DrainSubmits(d)
  \/ \E c \in calls : Goroutine(c)
  \/ SyncPendingSlashes
  \/ \E v \in Validators : Unjail(v) \/ AddStakingValidator(v) \/ RemoveStakingValidator(v)
  \/ Tick \/ Restart

Spec == Init /\ [][Next]_vars

(***************************************************************************)
(* Goroutines run, the two ten-second loops tick, start-up wires the       *)
(* manager.  Nothing makes an offense, a transaction, a restart or the     *)
(* passing of a jail term happen.                                          *)
(***************************************************************************)
FairSpec ==
  /\ Spec
  /\ \A v \in Validators, op \in Ops, src \in Sources :
       WF_vars(\E c \in calls : c.addr = v /\ c.op = op /\ c.src = src /\ Goroutine(c))
  /\ WF_vars(SetSlashingManager) /\ WF_vars(DrainTakes)
  /\ \A d \in Drains : WF_vars(DrainSubmits(d))
  /\ WF_vars(SyncPendingSlashes)

-----------------------------------------------------------------------------
(* Properties. *)

EngineType ==
  [set : Seq(Validators), active : SUBSET Validators,
   slashed : [Indices -> Entry \cup {None}], queue : Seq(Offenses), wired : BOOLEAN]

ManagerType ==
  [signing : [Validators -> Info \cup {None}], offenses : SUBSET Offenses,
   limited : SUBSET {LimitKey(e) : e \in Offenses},
   pendingSlashed : SUBSET Validators, pendingUnjail : SUBSET Validators]

(***************************************************************************)
(* Every variable has its type, the set holds no address twice, and the    *)
(* evidence queue respects its bounds (MaxEvidenceQueue,                   *)
(* MaxEvidencePerValidator).                                               *)
(***************************************************************************)
SlashingTypeOK ==
  /\ engine \in EngineType
  /\ \A i, j \in DOMAIN engine.set : engine.set[i] = engine.set[j] => i = j
  /\ Len(engine.queue) <= MaxEvidenceQueue
  /\ \A v \in Validators :
       Cardinality({i \in DOMAIN engine.queue : engine.queue[i].addr = v})
         <= MaxEvidencePerValidator
  /\ vm \in [Validators -> [stake : 0 .. FullStake, active : BOOLEAN,
                            jailedUntil : Times, permanent : BOOLEAN]]
  /\ manager \in ManagerType
  /\ records \subseteq Offenses
  /\ calls \subseteq Call
  /\ draining \in [Drains -> Seq(Offenses)]
  /\ sync \in [phase : {"idle", "slashes", "unjails"}, todo : SUBSET Validators]
  /\ now \in 0 .. MaxTime /\ restarts \in 0 .. MaxRestarts
  /\ cuts \in [Offenses -> Nat]

(***************************************************************************)
(* The same offense reaches the manager several times: by the goroutine of *)
(* the detection, from the queue at start-up or in the loop, and again     *)
(* after a restart.  It reduces a stake once (slashedOffenses, reloaded by *)
(* LoadSlashingRecords).                                                   *)
(***************************************************************************)
OneCutPerOffense == \A e \in Offenses : cuts[e] <= 1

PermanentlySlashed(v) == manager.signing[v] # None /\ manager.signing[v].permanent

(***************************************************************************)
(* Between slash and the engine's mark a ban is always on its way: a       *)
(* validator the manager banned for ever is banned in the engine too, or   *)
(* a goroutine that will mark it permanently is in flight, or its pending  *)
(* entry is still there for SyncPendingSlashes.                            *)
(***************************************************************************)
BanNotLost ==
  \A v \in Validators :
    PermanentlySlashed(v) /\ v \in Members =>
      \/ BannedForever(v)
      \/ v \in manager.pendingSlashed
      \/ \E c \in calls : c.op = "mark" /\ c.addr = v /\ c.permanent

(***************************************************************************)
(* The two managers agree on who is banned for ever, and such a validator  *)
(* is inactive and has no stake left, also when a temporary slash, an      *)
(* Unjail or a staking transaction races the permanent one (slash,         *)
(* MarkPermanentlySlashed, SetActive).                                     *)
(***************************************************************************)
ManagersAgreeOnBans ==
  \A v \in Validators :
    /\ vm[v].permanent = PermanentlySlashed(v)
    /\ vm[v].permanent => ~vm[v].active /\ vm[v].stake = 0

(***************************************************************************)
(* No later mark, sync or unjail takes a permanent ban back, whatever the  *)
(* order the goroutines run in (MarkValidatorSlashedByAddress keeps it,    *)
(* UnmarkValidatorSlashed refuses).                                        *)
(***************************************************************************)
PermanentBanSticks ==
  [][\A v \in Validators : BannedForever(v) => BannedForever(v)']_vars

\* Where the queue holds evidence against v.
Against(queue, v) == {i \in DOMAIN queue : queue[i].addr = v}

\* The evidence the two queues hold against v is the same, in the same order.
SameAgainst(old, new, v) ==
  \E f \in Bijection(Against(new, v), Against(old, v)) :
    /\ \A k \in Against(new, v) : new[k] = old[f[k]]
    /\ \A k, l \in Against(new, v) : k < l => f[k] < f[l]

(***************************************************************************)
(* Queueing evidence against one validator never displaces evidence        *)
(* against another (queueSlashingEvidenceLocked): a step that puts         *)
(* evidence into the queue leaves what is queued against others as it is.  *)
(***************************************************************************)
OthersEvidenceKept ==
  [][\A e \in Offenses : ProcessAttestation(e) =>
       \A v \in Validators \ {e.addr} : SameAgainst(engine.queue, engine'.queue, v)]_vars

Offenders == {e.addr : e \in manager.offenses}

(***************************************************************************)
(* The engine bars a validator only for an offense of its own: an address  *)
(* that CanPropose and CanAttest reject as slashed has a recorded offense  *)
(* (UnmarkValidatorSlashed: "identified by address (not index) to handle   *)
(* the case where the validator set has been reshuffled").                 *)
(***************************************************************************)
OnlyOffendersBarred == \A v \in Validators : IsSlashed(v) => v \in Offenders

SlashingQuiet ==
  calls = {} /\ sync.phase = "idle" /\ manager.pendingSlashed \cup manager.pendingUnjail = {}

(***************************************************************************)
(* An offense whose stake cut is on record keeps its validator barred, or  *)
(* the ban is on its way, across restarts too (slash, CON-003: "if the     *)
(* node crashes before it executes").                                      *)
(***************************************************************************)
RecordedBanEnforced ==
  SlashingQuiet => \A e \in records : IsPermanent(e) /\ e.addr \in Members => BannedForever(e.addr)

(***************************************************************************)
(* Evidence that reached the queue bars the validator for ever in the end, *)
(* whether it was queued before or after the manager was wired and         *)
(* whichever of its copies the rate limit lets through.                    *)
(***************************************************************************)
QueuedOffenderBanned ==
  \A v \in Validators :
    (\E i \in DOMAIN engine.queue : engine.queue[i].addr = v) ~> BannedForever(v)
=============================================================================
