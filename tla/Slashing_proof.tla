--------------------------- MODULE Slashing_proof ---------------------------
(***************************************************************************)
(* Slashing for any validators, offenses and bounds: no offense cuts a     *)
(* stake twice, the two managers agree on bans, and, until somebody leaves *)
(* the validator set, a permanent ban reaches the engine, stays there      *)
(* while the node is up, and nobody but an offender is barred.             *)
(***************************************************************************)
EXTENDS Slashing, SequenceTheorems, FiniteSetTheorems, TLAPS

VMType ==
  [Validators -> [stake : Nat, active : BOOLEAN, jailedUntil : Times, permanent : BOOLEAN]]

EvidenceOps == {"submit", "check", "slash", "record"}

CallsOK(S) ==
  /\ S \in SUBSET Call
  /\ \A c \in S : c.op \in EvidenceOps => c.ev \in Offenses /\ c.ev.addr = c.addr

\* What the evidence paths need of the state's types.
Shape ==
  /\ engine \in EngineType
  /\ vm \in VMType
  /\ manager \in ManagerType
  /\ records \in SUBSET Offenses
  /\ CallsOK(calls)
  /\ draining \in [Drains -> Seq(Offenses)]
  /\ now \in 0 .. MaxTime
  /\ restarts \in Nat
  /\ cuts \in [Offenses -> Nat]

-----------------------------------------------------------------------------
(* The operators. *)

\* A jail term that starts now is a time.
LEMMA JailTermIsTime ==
  ASSUME now \in 0 .. MaxTime PROVE now + JailDuration \in Times /\ 0 \in Times
BY SlashingConstants DEF Times

\* A sequence without one of its elements is a sequence over the same set.
LEMMA RemoveAtType ==
  ASSUME NEW S, NEW seq \in Seq(S), Len(seq) > 0, NEW i
  PROVE  RemoveAt(seq, i) \in Seq(S)
<1> DEFINE n == Len(seq) - 1
           r == [k \in 1 .. n |-> seq[IF k < i THEN k ELSE k + 1]]
<1>1. n \in Nat
  OBVIOUS
<1>2. \A k \in 1 .. n : seq[IF k < i THEN k ELSE k + 1] \in S
  <2> TAKE k \in 1 .. n
  <2>1. k \in 1 .. Len(seq) /\ k + 1 \in 1 .. Len(seq)
    OBVIOUS
  <2> QED
    BY <2>1
<1>3. r \in [1 .. n -> S]
  BY <1>2
<1> QED
  BY <1>1, <1>3 DEF RemoveAt

\* The queue stays a sequence of offenses whatever is put into it.
LEMMA QueueType ==
  ASSUME NEW queue \in Seq(Offenses), NEW e \in Offenses
  PROVE  QueueSlashingEvidence(queue, e) \in Seq(Offenses)
<1> DEFINE own    == {i \in DOMAIN queue : queue[i].addr = e.addr}
           oldest == CHOOSE i \in own : \A j \in own : i <= j
<1>1. Append(queue, e) \in Seq(Offenses)
  OBVIOUS
<1>2. ASSUME ~(Len(queue) < MaxEvidenceQueue)
      PROVE  Append(RemoveAt(queue, oldest), e) \in Seq(Offenses)
  <2>1. Len(queue) > 0
    BY <1>2, SlashingConstants
  <2>2. RemoveAt(queue, oldest) \in Seq(Offenses)
    BY <2>1, RemoveAtType
  <2> HIDE DEF oldest
  <2> QED
    BY <2>2
<1> HIDE DEF own, oldest
<1>3. QueueSlashingEvidence(queue, e) \in
        {queue, Append(queue, e), Append(RemoveAt(queue, oldest), e)}
      /\ (Len(queue) < MaxEvidenceQueue => QueueSlashingEvidence(queue, e) \in {queue, Append(queue, e)})
  BY DEF QueueSlashingEvidence, own, oldest
<1> QED
  BY <1>1, <1>2, <1>3

\* A mark is an entry, and it keeps a permanent entry permanent.
LEMMA MarkedEntryType ==
  ASSUME NEW old \in Entry \cup {None}, NEW perm \in BOOLEAN, NEW till \in Times
  PROVE  /\ MarkedEntry(old, perm, till) \in Entry
         /\ MarkedEntry(old, perm, till) # None
         /\ perm => MarkedEntry(old, perm, till).permanent
         /\ old # None /\ old.permanent => MarkedEntry(old, perm, till).permanent
<1>1. 0 \in Times
  BY SlashingConstants DEF Times
<1>2. MarkedEntry(old, perm, till) \in Entry
  BY <1>1 DEF MarkedEntry, Entry
<1> QED
  BY <1>1, <1>2, NoneIsNoEntry, Zenon DEF MarkedEntry, Entry

-----------------------------------------------------------------------------
(* Types. *)

\* A node that starts has the shape.
LEMMA InitShape == Init => Shape
<1> SUFFICES ASSUME Init PROVE Shape
  OBVIOUS
<1> USE DEF Init
<1>1. engine \in EngineType
  <2>1. AddressOrder \in Seq(Validators) /\ <<>> \in Seq(Offenses)
    BY SlashingConstants
  <2> QED
    BY <2>1 DEF FreshEngine, EngineType
<1>2. vm \in VMType
  BY SlashingConstants DEF FreshVM, VMType, Times
<1>3. manager \in ManagerType
  BY DEF FreshManager, ManagerType
<1> QED
  BY <1>1, <1>2, <1>3, SlashingConstants DEF Shape, NoDrain, CallsOK

\* Goroutines that end, move on or are started keep calls well-formed.
LEMMA CallsSteps ==
  ASSUME CallsOK(calls)
  PROVE  /\ \A c \in calls : c \in Call /\ c.addr \in Validators /\ CallsOK(Done(c))
         /\ \A c \in calls, op \in Ops :
              (op \in EvidenceOps => c.op \in EvidenceOps) => CallsOK(Goto(c, op))
         /\ \A S, d : CallsOK(S) /\ d \in Call /\ d.op \notin EvidenceOps => CallsOK(S \cup {d})
         /\ \A src \in Sources, e \in Offenses : CallsOK(calls \cup {Submission(src, e)})
<1>1. ASSUME NEW c \in calls
      PROVE  c \in Call /\ c.addr \in Validators /\ CallsOK(Done(c))
  BY DEF CallsOK, Call, Done
<1>2. ASSUME NEW c \in calls, NEW op \in Ops, op \in EvidenceOps => c.op \in EvidenceOps
      PROVE  CallsOK(Goto(c, op))
  <2> DEFINE d == [c EXCEPT !.op = op]
  <2>1. d \in Call /\ d.op = op /\ d.ev = c.ev /\ d.addr = c.addr
    BY DEF CallsOK, Call
  <2> HIDE DEF d
  <2> QED
    BY <1>2, <2>1, Zenon DEF CallsOK, Goto, Done, d
<1>3. ASSUME NEW S, NEW d, CallsOK(S), d \in Call, d.op \notin EvidenceOps
      PROVE  CallsOK(S \cup {d})
  BY <1>3 DEF CallsOK
<1>4. ASSUME NEW src \in Sources, NEW e \in Offenses
      PROVE  CallsOK(calls \cup {Submission(src, e)})
  <2> DEFINE d == Submission(src, e)
  <2>1. 0 \in Times /\ e.addr \in Validators
    BY SlashingConstants DEF Times, OffenseType
  <2>2. d \in Call /\ d.ev = e /\ d.addr = e.addr
    BY <2>1 DEF Submission, Call, Ops
  <2> HIDE DEF d
  <2> QED
    BY <2>2 DEF CallsOK, d
<1> QED
  BY <1>1, <1>2, <1>3, <1>4

\* Every locked section, transaction, tick and restart keeps the shape.
LEMMA NextShape == Shape /\ [Next]_vars => Shape'
<1> SUFFICES ASSUME Shape, [Next]_vars PROVE Shape'
  OBVIOUS
<1> USE DEF Shape
<1>t. now + JailDuration \in Times /\ 0 \in Times
  BY JailTermIsTime
<1>s. {"direct", "report", "startup", "loop"} \subseteq Sources /\ Drains \subseteq Sources
  BY DEF Sources, Drains
<1>e. <<>> \in Seq(Offenses)
  OBVIOUS
<1>1. ASSUME NEW e \in Offenses, ProcessAttestation(e) PROVE Shape'
  <2>1. engine' \in EngineType
    <3>1. QueueSlashingEvidence(engine.queue, e) \in Seq(Offenses)
      BY QueueType DEF EngineType
    <3> QED
      BY <1>1, <3>1, Zenon DEF ProcessAttestation, EngineType
  <2>2. CallsOK(calls')
    BY <1>1, <1>s, CallsSteps DEF ProcessAttestation
  <2> QED
    BY <1>1, <2>1, <2>2 DEF ProcessAttestation, CallsOK
<1>2. ASSUME NEW e \in Offenses, HandleBlockFinalized(e) PROVE Shape'
  <2>2. CallsOK(calls')
    BY <1>2, <1>s, CallsSteps DEF HandleBlockFinalized
  <2> QED
    BY <1>2, <2>2 DEF HandleBlockFinalized, CallsOK
<1>3. ASSUME SetSlashingManager PROVE Shape'
  <2>1. engine' \in EngineType /\ engine.queue \in Seq(Offenses)
    BY <1>3, <1>e, Zenon DEF SetSlashingManager, EngineType
  <2> QED
    BY <1>3, <2>1, Zenon DEF SetSlashingManager, CallsOK
<1>4. ASSUME DrainTakes PROVE Shape'
  <2>1. engine' \in EngineType /\ engine.queue \in Seq(Offenses)
    BY <1>4, <1>e, Zenon DEF DrainTakes, EngineType
  <2> QED
    BY <1>4, <2>1, Zenon DEF DrainTakes, CallsOK
<1>5. ASSUME NEW d \in Drains, DrainSubmits(d) PROVE Shape'
  <2>1. Head(draining[d]) \in Offenses /\ Tail(draining[d]) \in Seq(Offenses)
    BY <1>5 DEF DrainSubmits
  <2>2. draining' \in [Drains -> Seq(Offenses)]
    BY <1>5, <2>1 DEF DrainSubmits
  <2>3. CallsOK(calls')
    BY <1>5, <1>s, <2>1, CallsSteps DEF DrainSubmits
  <2> QED
    BY <1>5, <2>2, <2>3 DEF DrainSubmits, CallsOK
<1>6. ASSUME NEW c \in calls, Goroutine(c) PROVE Shape'
  <2>0. c \in Call /\ c.addr \in Validators
    BY CallsSteps
  <2>a. \A op \in EvidenceOps : c.op = op => c.ev \in Offenses /\ c.ev.addr = c.addr
    BY DEF CallsOK
  <2>b. {"check", "slash", "record", "clear", "clearUnjail"} \subseteq Ops
        /\ "clear" \notin EvidenceOps /\ "clearUnjail" \notin EvidenceOps
        /\ {"submit", "check", "slash", "record"} \subseteq EvidenceOps
    BY DEF Ops, EvidenceOps
  <2>1. CASE SubmitEvidence(c)
    <3>1. manager' \in ManagerType
      BY <2>1, <2>a, <2>b, Zenon DEF SubmitEvidence, ManagerType
    <3>2. CallsOK(calls')
      BY <2>1, <2>b, CallsSteps DEF SubmitEvidence
    <3> QED
      BY <2>1, <3>1, <3>2 DEF SubmitEvidence, CallsOK
  <2>2. CASE CheckSlashedByQPOS(c)
    <3>2. CallsOK(calls')
      BY <2>2, <2>b, CallsSteps DEF CheckSlashedByQPOS
    <3> QED
      BY <2>2, <3>2 DEF CheckSlashedByQPOS, CallsOK
  <2>3. CASE RecordOffenseOnly(c)
    <3>1. manager' \in ManagerType
      BY <2>3, <2>a, <2>b, Zenon DEF RecordOffenseOnly, ManagerType
    <3>2. CallsOK(calls')
      BY <2>3, CallsSteps DEF RecordOffenseOnly
    <3> QED
      BY <2>3, <3>1, <3>2 DEF RecordOffenseOnly, CallsOK
  <2>4. CASE Slash(c)
    <3>1. c.ev \in Offenses /\ c.ev.addr = c.addr /\ IsPermanent(c.ev) \in BOOLEAN
      BY <2>4, <2>a, <2>b DEF Slash, IsPermanent
    <3>2. CASE UNCHANGED <<vm, manager, records, cuts>> /\ calls' = Done(c)
      <4>1. CallsOK(calls')
        BY <3>2, CallsSteps
      <4> QED
        BY <2>4, <3>2, <4>1 DEF Slash, CallsOK
    <3>3. CASE ~AlreadySlashed(c.ev)
      <4> DEFINE d == Marking("slash", c.addr, c.ev, IsPermanent(c.ev), now + JailDuration)
                 w == [stake |-> StakeAfter(c.ev), active |-> FALSE,
                       jailedUntil |-> now + JailDuration,
                       permanent |-> vm[c.addr].permanent \/ IsPermanent(c.ev)]
                 jailed == Jailed(c.ev)
      <4>0. /\ vm' = [vm EXCEPT ![c.addr] = w]
            /\ manager' = [manager EXCEPT !.signing = [@ EXCEPT ![c.addr] = jailed],
                                          !.offenses = @ \cup {c.ev},
                                          !.pendingSlashed = @ \cup {c.addr}]
            /\ records' = records \cup {c.ev}
            /\ cuts' = [cuts EXCEPT ![c.ev] = @ + 1]
            /\ calls' = Done(c) \cup {d}
        BY <2>4, <3>3 DEF Slash
      <4>1. jailed \in Info
        BY <1>t, <3>1, <2>0 DEF Jailed, Info, ManagerType
      <4>3. w \in [stake : Nat, active : BOOLEAN, jailedUntil : Times, permanent : BOOLEAN]
        <5>1. StakeAfter(c.ev) \in Nat
          BY <3>1, <2>0 DEF StakeAfter, VMType
        <5> QED
          BY <5>1, <3>1, <2>0, <1>t DEF VMType
      <4>5. d \in Call /\ d.op \notin EvidenceOps
        BY <1>t, <3>1, <2>0 DEF Marking, Call, Ops, Sources, EvidenceOps
      <4> HIDE DEF d, w, jailed
      <4>2. manager' \in ManagerType
        BY <4>0, <4>1, <3>1, <2>0, Zenon DEF ManagerType
      <4>4. vm' \in VMType
        BY <4>0, <4>3, <2>0 DEF VMType
      <4>8. CallsOK(calls')
        BY <4>0, <4>5, CallsSteps, Zenon
      <4>9. cuts' \in [Offenses -> Nat] /\ records' \in SUBSET Offenses
        BY <4>0, <3>1
      <4> QED
        BY <2>4, <4>2, <4>4, <4>8, <4>9 DEF Slash, CallsOK
    <3> QED
      BY <2>4, <3>2, <3>3 DEF Slash
  <2>5. CASE MarkValidatorSlashedByAddress(c)
    <3> DEFINE new(i) == MarkedEntry(engine.slashed[i], c.permanent, c.jailUntil)
    <3>1. c.permanent \in BOOLEAN /\ c.jailUntil \in Times
      BY <2>0 DEF Call
    <3>2. \A i \in Indices : new(i) \in Entry
      BY <3>1, MarkedEntryType, Zenon DEF EngineType
    <3>3. engine' \in EngineType
      <4>1. CASE UNCHANGED engine
        BY <4>1
      <4>2. CASE c.addr \in Members
        <5> DEFINE i == IndexOf(c.addr)
                   act == IF IsSlashed(c.addr) THEN engine.active ELSE engine.active \ {c.addr}
        <5>1. engine' = [engine EXCEPT !.slashed = [@ EXCEPT ![i] = new(i)], !.active = act]
          BY <2>5, <4>2 DEF MarkValidatorSlashedByAddress
        <5>2. act \in SUBSET Validators
          BY DEF EngineType
        <5> HIDE DEF i, act, new
        <5>3. [engine.slashed EXCEPT ![i] = new(i)] \in [Indices -> Entry \cup {None}]
          BY <3>2, Zenon DEF EngineType
        <5> QED
          BY <5>1, <5>2, <5>3, Zenon DEF EngineType
      <4> QED
        BY <2>5, <4>1, <4>2 DEF MarkValidatorSlashedByAddress
    <3>4. CallsOK(calls')
      BY <2>5, <2>b, CallsSteps DEF MarkValidatorSlashedByAddress
    <3> QED
      BY <2>5, <3>3, <3>4 DEF MarkValidatorSlashedByAddress, CallsOK
  <2>6. CASE ClearPendingSlash(c)
    <3>1. manager' \in ManagerType
      BY <2>6, Zenon DEF ClearPendingSlash, ManagerType
    <3>2. CallsOK(calls')
      BY <2>6, CallsSteps DEF ClearPendingSlash
    <3> QED
      BY <2>6, <3>1, <3>2 DEF ClearPendingSlash, CallsOK
  <2>7. CASE UnmarkValidatorSlashed(c)
    <3>3. engine' \in EngineType
      <4> DEFINE i == IndexOf(c.addr)
      <4>1. engine' = engine \/ engine' = [engine EXCEPT !.slashed = [@ EXCEPT ![i] = None]]
        BY <2>7 DEF UnmarkValidatorSlashed
      <4> HIDE DEF i
      <4>2. [engine.slashed EXCEPT ![i] = None] \in [Indices -> Entry \cup {None}]
        BY Zenon DEF EngineType
      <4> QED
        BY <4>1, <4>2, Zenon DEF EngineType
    <3>4. CallsOK(calls')
      BY <2>7, <2>b, CallsSteps DEF UnmarkValidatorSlashed
    <3> QED
      BY <2>7, <3>3, <3>4 DEF UnmarkValidatorSlashed, CallsOK
  <2>8. CASE ClearPendingUnjail(c)
    <3>1. manager' \in ManagerType
      BY <2>8, Zenon DEF ClearPendingUnjail, ManagerType
    <3>2. CallsOK(calls')
      BY <2>8, CallsSteps DEF ClearPendingUnjail
    <3> QED
      BY <2>8, <3>1, <3>2 DEF ClearPendingUnjail, CallsOK
  <2> QED
    BY <1>6, <2>1, <2>2, <2>3, <2>4, <2>5, <2>6, <2>7, <2>8 DEF Goroutine
<1>7. ASSUME SyncPendingSlashes PROVE Shape'
  <2>1. CASE SyncBegins \/ SyncTurnsToUnjails \/ SyncEnds
    BY <2>1 DEF SyncBegins, SyncTurnsToUnjails, SyncEnds, CallsOK
  <2>2. ASSUME NEW v \in Validators, SyncSlash(v) PROVE Shape'
    <3> DEFINE d == Marking("sync", v, None, Resync(v).permanent, Resync(v).jailUntil)
    <3>1. Resync(v).permanent \in BOOLEAN /\ Resync(v).jailUntil \in Times
      BY <1>t, Zenon DEF Resync, ManagerType, Info
    <3>2. d \in Call /\ d.op \notin EvidenceOps
      BY <3>1 DEF Marking, Call, Ops, Sources, EvidenceOps
    <3> HIDE DEF d
    <3>3. CallsOK(calls')
      BY <2>2, <3>2, CallsSteps, Zenon DEF SyncSlash, d
    <3> QED
      BY <2>2, <3>3 DEF SyncSlash, CallsOK
  <2>3. ASSUME NEW v \in Validators, SyncUnjail(v) PROVE Shape'
    <3>1. Unmarking("sync", v) \in Call /\ Unmarking("sync", v).op \notin EvidenceOps
      BY <1>t DEF Unmarking, Call, Ops, Sources, EvidenceOps
    <3>2. CallsOK(calls')
      BY <2>3, <3>1, CallsSteps DEF SyncUnjail
    <3> QED
      BY <2>3, <3>2 DEF SyncUnjail, CallsOK
  <2> QED
    BY <1>7, <2>1, <2>2, <2>3 DEF SyncPendingSlashes
<1>8. ASSUME NEW v \in Validators, Unjail(v) PROVE Shape'
  <2>1. manager' \in ManagerType
    BY <1>8, <1>t, Zenon DEF Unjail, ManagerType, Info
  <2>2. vm' \in VMType
    BY <1>8, <1>t, Zenon DEF Unjail, VMType
  <2>3. Unmarking("unjail", v) \in Call /\ Unmarking("unjail", v).op \notin EvidenceOps
    BY <1>t DEF Unmarking, Call, Ops, Sources, EvidenceOps
  <2>4. CallsOK(calls')
    BY <1>8, <2>3, CallsSteps DEF Unjail
  <2> QED
    BY <1>8, <2>1, <2>2, <2>4 DEF Unjail, CallsOK
<1>9. ASSUME NEW v \in Validators, AddStakingValidator(v) PROVE Shape'
  <2> DEFINE new == IF v \in Members THEN engine.set ELSE Append(engine.set, v)
  <2>1. engine' = [engine EXCEPT !.set = new, !.active = @ \cup {v}]
    BY <1>9 DEF AddStakingValidator
  <2>2. new \in Seq(Validators)
    BY DEF EngineType
  <2> HIDE DEF new
  <2>3. engine' \in EngineType
    BY <2>1, <2>2, Zenon DEF EngineType
  <2> QED
    BY <1>9, <2>3 DEF AddStakingValidator, CallsOK
<1>10. ASSUME NEW v \in Validators, RemoveStakingValidator(v) PROVE Shape'
  <2>1. engine.set \in Seq(Validators) /\ Len(engine.set) > 0
    BY <1>10 DEF RemoveStakingValidator, Members, EngineType
  <2>2. RemoveAt(engine.set, IndexOf(v)) \in Seq(Validators)
    BY <2>1, RemoveAtType
  <2>3. engine' \in EngineType
    BY <1>10, <2>2, Zenon DEF RemoveStakingValidator, EngineType
  <2>4. vm' \in VMType
    BY <1>10, Zenon DEF RemoveStakingValidator, VMType
  <2> QED
    BY <1>10, <2>3, <2>4 DEF RemoveStakingValidator, CallsOK
<1>11. CASE Tick
  BY <1>11, SlashingConstants DEF Tick, CallsOK
<1>12. CASE Restart
  <2>1. engine' \in EngineType
    <3>1. AddressOrder \in Seq(Validators)
      BY SlashingConstants
    <3> QED
      BY <1>12, <1>e, <3>1 DEF Restart, FreshEngine, EngineType
  <2>2. vm' \in VMType
    BY <1>12, SlashingConstants DEF Restart, FreshVM, VMType, Times
  <2>3. manager' \in ManagerType
    BY <1>12 DEF Restart, FreshManager, ManagerType
  <2> QED
    BY <1>12, <2>1, <2>2, <2>3 DEF Restart, NoDrain, CallsOK
<1>13. CASE UNCHANGED vars
  BY <1>13 DEF vars, CallsOK
<1> QED
  BY <1>1, <1>2, <1>3, <1>4, <1>5, <1>6, <1>7, <1>8, <1>9, <1>10, <1>11, <1>12, <1>13 DEF Next

\* The engine, the two managers and every goroutine in flight keep their types
\* (slash, MarkValidatorSlashedByAddress, SyncPendingSlashes and the rest).
THEOREM ShapeCorrect == Spec => []Shape
BY InitShape, NextShape, PTL DEF Spec

-----------------------------------------------------------------------------
(* One cut per offense. *)

(***************************************************************************)
(* An offense that cut a stake is both in slashedOffenses and on disk, so  *)
(* neither a second submission nor a restart forgets it.                   *)
(***************************************************************************)
CutInv ==
  \A e \in Offenses : cuts[e] = 0 \/ (cuts[e] = 1 /\ e \in manager.offenses /\ e \in records)

\* Only slash counts a cut, and it records the offense in memory and on disk.
LEMMA NextCut == Shape /\ CutInv /\ [Next]_vars => CutInv'
<1> SUFFICES ASSUME Shape, CutInv, [Next]_vars PROVE CutInv'
  OBVIOUS
<1> USE DEF CutInv
<1>1. CASE UNCHANGED <<cuts, records>> /\ manager.offenses \subseteq manager'.offenses
  BY <1>1
<1>2. ASSUME NEW c \in calls, Goroutine(c) PROVE CutInv'
  <2>1. CASE Slash(c)
    <3>1. CASE UNCHANGED <<vm, manager, records, cuts>>
      BY <3>1
    <3>2. CASE ~AlreadySlashed(c.ev)
      <4>1. c.ev \in Offenses
        BY <2>1 DEF Slash, Shape, CallsOK, EvidenceOps
      <4>2. cuts[c.ev] = 0
        BY <4>1, <3>2 DEF AlreadySlashed
      <4>3. /\ manager'.offenses = manager.offenses \cup {c.ev}
            /\ records' = records \cup {c.ev}
            /\ cuts' = [cuts EXCEPT ![c.ev] = @ + 1]
        BY <2>1, <3>2, Zenon DEF Slash, Shape, ManagerType
      <4> QED
        BY <4>1, <4>2, <4>3 DEF Shape
    <3> QED
      BY <2>1, <3>1, <3>2 DEF Slash
  <2>2. CASE ~Slash(c)
    <3>1. UNCHANGED <<cuts, records>> /\ manager.offenses \subseteq manager'.offenses
      BY <1>2, <2>2 DEF Goroutine, SubmitEvidence, CheckSlashedByQPOS, RecordOffenseOnly,
        MarkValidatorSlashedByAddress, ClearPendingSlash, UnmarkValidatorSlashed,
        ClearPendingUnjail, Shape, ManagerType
    <3> QED
      BY <1>1, <3>1
  <2> QED
    BY <2>1, <2>2
<1>3. CASE Restart
  BY <1>3 DEF Restart, FreshManager
<1>4. CASE UNCHANGED vars
  BY <1>4, <1>1 DEF vars
<1>5. ASSUME NEW v \in Validators, Unjail(v) PROVE CutInv'
  BY <1>1, <1>5 DEF Unjail, Shape, ManagerType
<1> QED
  BY <1>1, <1>2, <1>3, <1>4, <1>5, Zenon DEF Next, ProcessAttestation, HandleBlockFinalized,
    SetSlashingManager, DrainTakes, DrainSubmits, SyncPendingSlashes, SyncBegins, SyncSlash,
    SyncTurnsToUnjails, SyncUnjail, SyncEnds, AddStakingValidator, RemoveStakingValidator, Tick

(***************************************************************************)
(* slash: whatever the number of submissions, drains and restarts, an      *)
(* offense reduces a stake at most once.                                   *)
(***************************************************************************)
THEOREM SlashedOnce == Spec => []OneCutPerOffense
<1>1. Init => CutInv
  BY DEF Init, CutInv
<1>2. Shape /\ CutInv => OneCutPerOffense
  BY DEF CutInv, OneCutPerOffense
<1> QED
  BY <1>1, <1>2, NextCut, ShapeCorrect, PTL DEF Spec

-----------------------------------------------------------------------------
(* The managers agree on bans. *)

\* slash sets both flags; SetActive, staking and Unjail leave a banned validator alone.
LEMMA NextAgree == Shape /\ ManagersAgreeOnBans /\ [Next]_vars => ManagersAgreeOnBans'
<1> SUFFICES ASSUME Shape, ManagersAgreeOnBans, [Next]_vars PROVE ManagersAgreeOnBans'
  OBVIOUS
<1> USE DEF ManagersAgreeOnBans, PermanentlySlashed
<1>1. CASE vm' = vm /\ manager'.signing = manager.signing
  BY <1>1
<1>2. ASSUME NEW c \in calls, Goroutine(c) PROVE ManagersAgreeOnBans'
  <2>1. CASE Slash(c)
    <3>1. CASE UNCHANGED <<vm, manager, records, cuts>>
      BY <3>1
    <3>2. CASE ~AlreadySlashed(c.ev)
      <4> DEFINE w == [stake |-> StakeAfter(c.ev), active |-> FALSE,
                       jailedUntil |-> now + JailDuration,
                       permanent |-> vm[c.addr].permanent \/ IsPermanent(c.ev)]
                 jailed == Jailed(c.ev)
      <4>1. c.ev \in Offenses /\ c.ev.addr = c.addr /\ c.addr \in Validators
        BY <2>1, CallsSteps DEF Slash, Shape, CallsOK, EvidenceOps
      <4>2. vm' = [vm EXCEPT ![c.addr] = w] /\ manager'.signing = [manager.signing EXCEPT ![c.addr] = jailed]
        BY <2>1, <3>2, Zenon DEF Slash, Shape, ManagerType
      <4>3. jailed \in Info
        <5>1. now + JailDuration \in Times
          BY JailTermIsTime DEF Shape
        <5> QED
          BY <5>1, <4>1 DEF Jailed, Info, Shape, ManagerType, IsPermanent
      <4>4. jailed.permanent = (IsPermanent(c.ev) \/ vm[c.addr].permanent)
        BY <4>1 DEF Jailed, Shape, VMType, ManagerType, Info, IsPermanent
      <4>5. w.permanent = jailed.permanent /\ w.active = FALSE /\ (w.permanent => w.stake = 0)
        BY <4>1, <4>4 DEF StakeAfter, Shape, VMType, IsPermanent
      <4>6. jailed # None
        BY <4>3, NoneIsNoEntry
      <4> HIDE DEF w, jailed
      <4>7. vm'[c.addr] = w /\ manager'.signing[c.addr] = jailed
        BY <4>1, <4>2 DEF Shape, VMType, ManagerType
      <4>8. \A u \in Validators : u # c.addr =>
              vm'[u] = vm[u] /\ manager'.signing[u] = manager.signing[u]
        BY <4>1, <4>2 DEF Shape, VMType, ManagerType
      <4>9. jailed.permanent \in BOOLEAN
        BY <4>3 DEF Info
      <4> SUFFICES ASSUME NEW u \in Validators
                   PROVE  /\ vm'[u].permanent = PermanentlySlashed(u)'
                          /\ vm'[u].permanent => ~vm'[u].active /\ vm'[u].stake = 0
        OBVIOUS
      <4>10. CASE u = c.addr
        BY <4>10, <4>5, <4>6, <4>7, <4>9
      <4>11. CASE u # c.addr
        BY <4>8, <4>11
      <4> QED
        BY <4>10, <4>11
    <3> QED
      BY <2>1, <3>1, <3>2 DEF Slash
  <2>2. CASE ~Slash(c)
    <3>1. vm' = vm /\ manager'.signing = manager.signing
      BY <1>2, <2>2 DEF Goroutine, SubmitEvidence, CheckSlashedByQPOS, RecordOffenseOnly,
        MarkValidatorSlashedByAddress, ClearPendingSlash, UnmarkValidatorSlashed,
        ClearPendingUnjail, Shape, ManagerType
    <3> QED
      BY <1>1, <3>1
  <2> QED
    BY <2>1, <2>2
<1>3. CASE Restart
  BY <1>3, Zenon DEF Restart, FreshManager, FreshVM
<1>4. CASE UNCHANGED vars
  BY <1>4, <1>1 DEF vars
<1>5. ASSUME NEW v \in Validators, Unjail(v) PROVE ManagersAgreeOnBans'
  <2>1. ~vm[v].permanent /\ manager.signing[v] \in Info
    BY <1>5, Zenon DEF Unjail, Shape, ManagerType
  <2>2. \A u \in Validators : vm'[u].permanent = vm[u].permanent
                             /\ (u # v => vm'[u] = vm[u])
    BY <1>5 DEF Unjail, Shape, VMType
  <2>3. \A u \in Validators : u # v => manager'.signing[u] = manager.signing[u]
    BY <1>5 DEF Unjail, Shape, ManagerType
  <2>4. manager'.signing[v].permanent = FALSE
    BY <1>5, <2>1 DEF Unjail, Shape, ManagerType, Info
  <2> QED
    BY <2>1, <2>2, <2>3, <2>4, Zenon
<1>6. ASSUME NEW v \in Validators, RemoveStakingValidator(v) PROVE ManagersAgreeOnBans'
  BY <1>6 DEF RemoveStakingValidator, Shape, VMType
<1> QED
  BY <1>1, <1>2, <1>3, <1>4, <1>5, <1>6, Zenon DEF Next, ProcessAttestation, HandleBlockFinalized,
    SetSlashingManager, DrainTakes, DrainSubmits, SyncPendingSlashes, SyncBegins, SyncSlash,
    SyncTurnsToUnjails, SyncUnjail, SyncEnds, AddStakingValidator, Tick

(***************************************************************************)
(* SlashingManager and ValidatorManager agree on who is banned for ever,   *)
(* and a banned validator is inactive and without stake, for any           *)
(* interleaving of slashes, unjails, staking transactions and restarts.    *)
(***************************************************************************)
THEOREM BansAgree == Spec => []ManagersAgreeOnBans
<1>1. Init => ManagersAgreeOnBans
  <2> SUFFICES ASSUME Init, NEW v \in Validators
               PROVE  /\ vm[v].permanent = PermanentlySlashed(v)
                      /\ vm[v].permanent => ~vm[v].active /\ vm[v].stake = 0
    BY DEF ManagersAgreeOnBans
  <2>1. vm[v].permanent = FALSE /\ manager.signing[v] = None
    BY DEF Init, FreshVM, FreshManager
  <2> QED
    BY <2>1, Zenon DEF PermanentlySlashed
<1> QED
  BY <1>1, NextAgree, ShapeCorrect, PTL DEF Spec

-----------------------------------------------------------------------------
(* Bans in the engine, while nobody leaves the set. *)

\* A step in which no validator withdraws its whole stake.
NobodyLeaves == \A v \in Validators : ~RemoveStakingValidator(v)

\* A step in which the node does not restart.
StaysUp == ~Restart

SetInv == engine.set = AddressOrder

\* Everybody is in the set, at an index of their own.
LEMMA IndexFacts ==
  ASSUME SetInv
  PROVE  /\ Members = Validators
         /\ \A v \in Validators : IndexOf(v) \in Indices /\ engine.set[IndexOf(v)] = v
<1>1. \A v \in Validators : \E i \in DOMAIN engine.set : engine.set[i] = v
  BY SlashingConstants DEF SetInv
<1>2. \A v \in Validators : IndexOf(v) \in Indices /\ engine.set[IndexOf(v)] = v
  BY <1>1 DEF IndexOf, Indices, SetInv
<1>3. Members = Validators
  BY <1>1, SlashingConstants DEF Members, SetInv
<1> QED
  BY <1>2, <1>3

\* Until somebody leaves, the validator set does not change: a restart rebuilds the same one.
LEMMA NextSet ==
  Shape /\ SetInv /\ [Next]_vars /\ [NobodyLeaves]_vars => SetInv'
<1> SUFFICES ASSUME Shape, SetInv, [Next]_vars, [NobodyLeaves]_vars PROVE SetInv'
  OBVIOUS
<1>u. CASE UNCHANGED vars
  BY <1>u DEF vars, SetInv
<1>0. CASE Restart
  BY <1>0 DEF Restart, FreshEngine, SetInv
<1>1. ASSUME NEW v \in Validators, AddStakingValidator(v) PROVE engine'.set = engine.set
  BY <1>1, IndexFacts DEF AddStakingValidator, Shape, EngineType
<1>2. ASSUME NEW c \in calls, Goroutine(c) PROVE engine'.set = engine.set
  BY <1>2, Zenon DEF Goroutine, SubmitEvidence, CheckSlashedByQPOS, RecordOffenseOnly, Slash,
    MarkValidatorSlashedByAddress, ClearPendingSlash, UnmarkValidatorSlashed,
    ClearPendingUnjail, Shape, EngineType
<1>3. ASSUME NEW e \in Offenses, ProcessAttestation(e) PROVE engine'.set = engine.set
  BY <1>3 DEF ProcessAttestation, Shape, EngineType
<1>4. ASSUME SetSlashingManager \/ DrainTakes PROVE engine'.set = engine.set
  BY <1>4, Zenon DEF SetSlashingManager, DrainTakes, Shape, EngineType
<1> QED
  BY <1>u, <1>0, <1>1, <1>2, <1>3, <1>4, Zenon DEF Next, NobodyLeaves, HandleBlockFinalized, DrainSubmits,
    SyncPendingSlashes, SyncBegins, SyncSlash, SyncTurnsToUnjails, SyncUnjail, SyncEnds,
    Unjail, Tick, SetInv

\* What a ban is, once everybody has an index.
LEMMA BannedAt ==
  ASSUME SetInv, NEW v \in Validators
  PROVE  BannedForever(v) <=> engine.slashed[IndexOf(v)] # None
                              /\ engine.slashed[IndexOf(v)].permanent
BY IndexFacts DEF BannedForever, IsSlashed

\* The same in the next state.
LEMMA BannedAfter ==
  ASSUME SetInv, SetInv', NEW v \in Validators
  PROVE  BannedForever(v)' <=> engine'.slashed[IndexOf(v)] # None
                               /\ engine'.slashed[IndexOf(v)].permanent
<1>1. engine'.set = engine.set
  BY DEF SetInv
<1>2. IndexOf(v)' = IndexOf(v) /\ Members' = Members
  BY <1>1 DEF IndexOf, Members
<1>3. v \in Members'
  BY <1>2, IndexFacts
<1> QED
  BY <1>2, <1>3 DEF BannedForever, IsSlashed

(***************************************************************************)
(* A step of a running node either leaves the marks alone, or marks one    *)
(* validator, or unmarks one that is not banned for ever.                  *)
(***************************************************************************)
LEMMA StepKeepsBans ==
  ASSUME Shape, SetInv, SetInv', [Next]_vars, [NobodyLeaves]_vars, [StaysUp]_vars,
         NEW v \in Validators, BannedForever(v)
  PROVE  BannedForever(v)'
<1>1. engine.slashed[IndexOf(v)] # None /\ engine.slashed[IndexOf(v)].permanent
  BY BannedAt
<1>i. IndexOf(v) \in Indices
  BY IndexFacts
<1>2. SUFFICES engine'.slashed[IndexOf(v)] # None /\ engine'.slashed[IndexOf(v)].permanent
  BY BannedAfter
<1>3. CASE engine'.slashed = engine.slashed
  BY <1>1, <1>3
<1>4. ASSUME NEW c \in calls, MarkValidatorSlashedByAddress(c)
      PROVE  engine'.slashed[IndexOf(v)] # None /\ engine'.slashed[IndexOf(v)].permanent
  <2> DEFINE i == IndexOf(c.addr)
             new == MarkedEntry(engine.slashed[i], c.permanent, c.jailUntil)
  <2>1. CASE UNCHANGED engine
    BY <1>1, <2>1
  <2>2. CASE c.addr \in Members
    <3>1. engine'.slashed = [engine.slashed EXCEPT ![i] = new]
      BY <1>4, <2>2, Zenon DEF MarkValidatorSlashedByAddress, Shape, EngineType
    <3>2. c.addr \in Validators /\ c.permanent \in BOOLEAN /\ c.jailUntil \in Times
      BY DEF Shape, CallsOK, Call
    <3>3. i \in Indices
      BY <3>2, IndexFacts
    <3>4. engine.slashed[i] \in Entry \cup {None}
      BY <3>3 DEF Shape, EngineType
    <3>5. new # None /\ (engine.slashed[i] # None /\ engine.slashed[i].permanent => new.permanent)
      BY <3>2, <3>4, MarkedEntryType, Zenon
    <3> HIDE DEF i, new
    <3> QED
      BY <1>1, <1>i, <3>1, <3>3, <3>5 DEF Shape, EngineType
  <2> QED
    BY <1>4, <2>1, <2>2 DEF MarkValidatorSlashedByAddress
<1>5. ASSUME NEW c \in calls, UnmarkValidatorSlashed(c)
      PROVE  engine'.slashed[IndexOf(v)] # None /\ engine'.slashed[IndexOf(v)].permanent
  <2> DEFINE i == IndexOf(c.addr)
  <2>1. CASE engine' = engine
    BY <1>1, <2>1
  <2>2. CASE ~BannedForever(c.addr) /\ engine' = [engine EXCEPT !.slashed[i] = None]
    <3>1. c.addr \in Validators /\ c.addr # v
      BY <2>2 DEF Shape, CallsOK, Call
    <3>2. i # IndexOf(v)
      BY <3>1, IndexFacts
    <3> HIDE DEF i
    <3> QED
      BY <1>1, <1>i, <2>2, <3>2 DEF Shape, EngineType
  <2> QED
    BY <1>5, <2>1, <2>2 DEF UnmarkValidatorSlashed
<1>u. CASE UNCHANGED vars
  BY <1>1, <1>u DEF vars
<1>6. ASSUME NEW u \in Validators, AddStakingValidator(u) PROVE engine'.slashed = engine.slashed
  BY <1>6 DEF AddStakingValidator, Shape, EngineType
<1>7. ASSUME NEW c \in calls, Goroutine(c)
      PROVE  engine'.slashed[IndexOf(v)] # None /\ engine'.slashed[IndexOf(v)].permanent
  BY <1>3, <1>4, <1>5, <1>7 DEF Goroutine, SubmitEvidence, CheckSlashedByQPOS,
    RecordOffenseOnly, Slash, ClearPendingSlash, ClearPendingUnjail
<1>8. ASSUME NEW e \in Offenses, ProcessAttestation(e) PROVE engine'.slashed = engine.slashed
  BY <1>8 DEF ProcessAttestation, Shape, EngineType
<1>9. ASSUME SetSlashingManager \/ DrainTakes PROVE engine'.slashed = engine.slashed
  BY <1>9, Zenon DEF SetSlashingManager, DrainTakes, Shape, EngineType
<1> QED
  BY <1>u, <1>3, <1>6, <1>7, <1>8, <1>9, Zenon DEF Next, NobodyLeaves, StaysUp,
    HandleBlockFinalized, DrainSubmits, SyncPendingSlashes, SyncBegins, SyncSlash,
    SyncTurnsToUnjails, SyncUnjail, SyncEnds, Unjail, Tick

\* The shape and the constant validator set hold throughout.
LEMMA SetCorrect == Spec /\ [][NobodyLeaves]_vars => [](Shape /\ SetInv)
<1>1. Init => SetInv
  BY DEF Init, FreshEngine, SetInv
<1> QED
  BY <1>1, NextSet, ShapeCorrect, PTL DEF Spec

(***************************************************************************)
(* MarkValidatorSlashedByAddress and UnmarkValidatorSlashed: until a       *)
(* validator leaves the set or the node restarts, no goroutine, sync,      *)
(* unjail or stake lifts a permanent ban.                                  *)
(***************************************************************************)
THEOREM BanSticks ==
  Spec /\ [][NobodyLeaves]_vars /\ [][StaysUp]_vars => PermanentBanSticks
<1>1. Shape /\ SetInv /\ [Next]_vars /\ [NobodyLeaves]_vars /\ [StaysUp]_vars =>
        [\A v \in Validators : BannedForever(v) => BannedForever(v)']_vars
  BY NextSet, StepKeepsBans
<1> QED
  BY <1>1, SetCorrect, PTL DEF Spec, PermanentBanSticks

-----------------------------------------------------------------------------
(* Bans reach the engine. *)

MarkInFlight(S, v) == \E c \in S : c.op = "mark" /\ c.addr = v /\ c.permanent

BanInv ==
  \A v \in Validators : PermanentlySlashed(v) => BannedForever(v) \/ MarkInFlight(calls, v)

\* A ban the manager decided stays in the engine or in a goroutine that will mark it.
LEMMA NextBan ==
  Shape /\ SetInv /\ SetInv' /\ BanInv /\ [Next]_vars /\ [NobodyLeaves]_vars => BanInv'
<1> SUFFICES ASSUME Shape, SetInv, SetInv', BanInv, [Next]_vars, [NobodyLeaves]_vars,
                    NEW v \in Validators, PermanentlySlashed(v)'
             PROVE  BannedForever(v)' \/ MarkInFlight(calls', v)
  BY DEF BanInv
<1>r. SUFFICES ASSUME ~Restart PROVE BannedForever(v)' \/ MarkInFlight(calls', v)
  <2>1. CASE Restart
    BY <2>1 DEF Restart, FreshManager, PermanentlySlashed
  <2> QED
    BY <2>1
<1>0. CASE BannedForever(v)
  BY <1>0, <1>r, StepKeepsBans DEF StaysUp
<1>1. CASE manager'.signing[v] = manager.signing[v] /\ calls \subseteq calls'
  BY <1>0, <1>1 DEF BanInv, PermanentlySlashed, MarkInFlight
<1>2. ASSUME NEW c \in calls, Goroutine(c) PROVE BannedForever(v)' \/ MarkInFlight(calls', v)
  <2>0. calls \ {c} \subseteq calls'
    BY <1>2 DEF Goroutine, SubmitEvidence, CheckSlashedByQPOS, RecordOffenseOnly, Slash,
      MarkValidatorSlashedByAddress, ClearPendingSlash, UnmarkValidatorSlashed,
      ClearPendingUnjail, Done, Goto
  <2>1. CASE Slash(c)
    <3>1. c.op = "slash" /\ c.ev \in Offenses /\ c.ev.addr = c.addr /\ c.addr \in Validators
      BY <2>1, CallsSteps DEF Slash, Shape, CallsOK, EvidenceOps
    <3>2. MarkInFlight(calls, v) => MarkInFlight(calls', v)
      BY <2>0, <3>1 DEF MarkInFlight
    <3>3. CASE manager' = manager
      BY <1>0, <3>2, <3>3 DEF BanInv, PermanentlySlashed
    <3>4. CASE ~AlreadySlashed(c.ev)
      <4>1. manager'.signing = [manager.signing EXCEPT ![c.addr] = Jailed(c.ev)]
        BY <2>1, <3>4, Zenon DEF Slash, Shape, ManagerType
      <4>2. CASE v = c.addr /\ IsPermanent(c.ev)
        <5> DEFINE d == Marking("slash", c.addr, c.ev, IsPermanent(c.ev), now + JailDuration)
        <5>1. d \in calls'
          BY <2>1, <3>4 DEF Slash
        <5>2. d.op = "mark" /\ d.addr = v /\ d.permanent
          BY <4>2 DEF Marking
        <5> QED
          BY <5>1, <5>2 DEF MarkInFlight
      <4>3. CASE v = c.addr /\ ~IsPermanent(c.ev)
        <5>1. manager'.signing[v] = Jailed(c.ev)
          BY <4>1, <4>3 DEF Shape, ManagerType
        <5>2. PermanentlySlashed(v)
          <6>1. Jailed(c.ev).permanent
            BY <5>1 DEF PermanentlySlashed
          <6>2. Jailed(c.ev).permanent
                  = (IsPermanent(c.ev) \/ (manager.signing[v] # None /\ manager.signing[v].permanent))
            BY <4>3, <3>1 DEF Jailed
          <6> QED
            BY <6>1, <6>2, <4>3, Zenon DEF PermanentlySlashed
        <5> QED
          BY <5>2, <1>0, <3>2 DEF BanInv
      <4>4. CASE v # c.addr
        <5>1. manager'.signing[v] = manager.signing[v]
          BY <4>1, <4>4 DEF Shape, ManagerType
        <5> QED
          BY <5>1, <1>0, <3>2 DEF BanInv, PermanentlySlashed
      <4> QED
        BY <4>2, <4>3, <4>4
    <3> QED
      BY <2>1, <3>3, <3>4 DEF Slash
  <2>2. CASE ~Slash(c)
    <3>1. manager'.signing = manager.signing
      BY <1>2, <2>2 DEF Goroutine, SubmitEvidence, CheckSlashedByQPOS, RecordOffenseOnly,
        MarkValidatorSlashedByAddress, ClearPendingSlash, UnmarkValidatorSlashed,
        ClearPendingUnjail, Shape, ManagerType
    <3>2. BannedForever(v) \/ MarkInFlight(calls, v)
      BY <3>1 DEF BanInv, PermanentlySlashed
    <3>3. CASE ~(c.op = "mark" /\ c.addr = v /\ c.permanent)
      BY <1>0, <2>0, <3>2, <3>3 DEF MarkInFlight
    <3>4. CASE c.op = "mark" /\ c.addr = v /\ c.permanent
      <4> DEFINE i == IndexOf(v)
                 new == MarkedEntry(engine.slashed[i], c.permanent, c.jailUntil)
      <4>1. MarkValidatorSlashedByAddress(c)
        BY <1>2, <3>4 DEF Goroutine, SubmitEvidence, CheckSlashedByQPOS, RecordOffenseOnly,
          Slash, ClearPendingSlash, UnmarkValidatorSlashed, ClearPendingUnjail
      <4>2. engine'.slashed = [engine.slashed EXCEPT ![i] = new]
        BY <4>1, <3>4, IndexFacts, Zenon DEF MarkValidatorSlashedByAddress, Shape, EngineType
      <4>3. i \in Indices /\ engine.slashed[i] \in Entry \cup {None}
        BY IndexFacts DEF Shape, EngineType
      <4>4. c.permanent \in BOOLEAN /\ c.jailUntil \in Times
        BY DEF Shape, CallsOK, Call
      <4>5. new # None /\ new.permanent
        BY <3>4, <4>3, <4>4, MarkedEntryType, Zenon
      <4>6. engine'.slashed[i] = new
        BY <4>2, <4>3 DEF Shape, EngineType
      <4> QED
        BY <4>5, <4>6, BannedAfter
    <3> QED
      BY <3>3, <3>4
  <2> QED
    BY <2>1, <2>2
<1>u. CASE UNCHANGED vars
  BY <1>1, <1>u DEF vars
<1>3. ASSUME NEW u \in Validators, AddStakingValidator(u)
      PROVE  BannedForever(v)' \/ MarkInFlight(calls', v)
  BY <1>1, <1>3 DEF AddStakingValidator
<1>4. ASSUME NEW u \in Validators, Unjail(u) PROVE BannedForever(v)' \/ MarkInFlight(calls', v)
  <2>1. calls \subseteq calls'
    BY <1>4 DEF Unjail
  <2>2. CASE u = v
    <3>1. manager'.signing[v] = [manager.signing[v] EXCEPT !.jailedUntil = 0]
      BY <1>4, <2>2 DEF Unjail, Shape, ManagerType
    <3>2. ~manager.signing[v].permanent /\ manager.signing[v] \in Info
      BY <1>4, <2>2 DEF Unjail, Shape, ManagerType
    <3>3. ~manager'.signing[v].permanent
      BY <3>1, <3>2 DEF Info
    <3> QED
      BY <3>3 DEF PermanentlySlashed
  <2>3. CASE u # v
    <3>1. manager'.signing[v] = manager.signing[v]
      BY <1>4, <2>3 DEF Unjail, Shape, ManagerType
    <3> QED
      BY <1>1, <2>1, <3>1
  <2> QED
    BY <2>2, <2>3
<1> QED
  BY <1>u, <1>r, <1>1, <1>2, <1>3, <1>4 DEF Next, NobodyLeaves, ProcessAttestation, HandleBlockFinalized,
    SetSlashingManager, DrainTakes, DrainSubmits, SyncPendingSlashes, SyncBegins, SyncSlash,
    SyncTurnsToUnjails, SyncUnjail, SyncEnds, Tick

(***************************************************************************)
(* slash and SyncPendingSlashes: until a validator leaves the set, a       *)
(* permanent ban the manager decided is in the engine or on its way there, *)
(* also when the node restarts and forgets what it decided.                *)
(***************************************************************************)
THEOREM BanArrives == Spec /\ [][NobodyLeaves]_vars => []BanNotLost
<1>1. Init => BanInv
  BY DEF Init, FreshManager, BanInv, PermanentlySlashed
<1>2. BanInv => BanNotLost
  BY DEF BanInv, BanNotLost, MarkInFlight
<1> QED
  BY <1>1, <1>2, NextBan, SetCorrect, PTL DEF Spec

-----------------------------------------------------------------------------
(* A recorded ban is enforced until the node restarts. *)

RecordInv == \A e \in records : IsPermanent(e) => PermanentlySlashed(e.addr)

\* slash writes the record and the signing info under one lock; nothing clears a permanent entry.
LEMMA NextRecord ==
  Shape /\ RecordInv /\ [Next]_vars /\ [StaysUp]_vars => RecordInv'
<1> SUFFICES ASSUME Shape, RecordInv, [Next]_vars, [StaysUp]_vars PROVE RecordInv'
  OBVIOUS
<1>0. ~Restart \/ UNCHANGED vars
  BY DEF StaysUp
<1>1. CASE records' = records /\ manager'.signing = manager.signing
  BY <1>1 DEF RecordInv, PermanentlySlashed
<1>2. ASSUME NEW c \in calls, Goroutine(c) PROVE RecordInv'
  <2>1. CASE Slash(c) /\ ~AlreadySlashed(c.ev)
    <3>1. c.ev \in Offenses /\ c.ev.addr = c.addr /\ c.addr \in Validators
      BY <2>1, CallsSteps DEF Slash, Shape, CallsOK, EvidenceOps
    <3>2. /\ manager'.signing = [manager.signing EXCEPT ![c.addr] = Jailed(c.ev)]
          /\ records' = records \cup {c.ev}
      BY <2>1, Zenon DEF Slash, Shape, ManagerType
    <3>3. Jailed(c.ev) \in Info
      <4>1. now + JailDuration \in Times
        BY JailTermIsTime DEF Shape
      <4> QED
        BY <4>1, <3>1 DEF Jailed, Info, Shape, ManagerType, IsPermanent
    <3>4. Jailed(c.ev).permanent = (IsPermanent(c.ev) \/ PermanentlySlashed(c.addr))
      BY <3>1 DEF Jailed, PermanentlySlashed
    <3>5. Jailed(c.ev) # None
      BY <3>3, NoneIsNoEntry
    <3>6. PermanentlySlashed(c.addr)' <=> Jailed(c.ev).permanent
      BY <3>1, <3>2, <3>5 DEF PermanentlySlashed, Shape, ManagerType
    <3>7. \A u \in Validators : u # c.addr => (PermanentlySlashed(u)' <=> PermanentlySlashed(u))
      BY <3>1, <3>2 DEF PermanentlySlashed, Shape, ManagerType
    <3>8. \A e \in records : e.addr \in Validators
      BY SlashingConstants DEF Shape, OffenseType
    <3> QED
      BY <3>1, <3>2, <3>4, <3>6, <3>7, <3>8, Zenon DEF RecordInv
  <2>2. CASE ~(Slash(c) /\ ~AlreadySlashed(c.ev))
    <3>1. records' = records /\ manager'.signing = manager.signing
      BY <1>2, <2>2 DEF Goroutine, SubmitEvidence, CheckSlashedByQPOS, RecordOffenseOnly, Slash,
        MarkValidatorSlashedByAddress, ClearPendingSlash, UnmarkValidatorSlashed,
        ClearPendingUnjail, Shape, ManagerType
    <3> QED
      BY <1>1, <3>1
  <2> QED
    BY <2>1, <2>2
<1>3. ASSUME NEW v \in Validators, Unjail(v) PROVE RecordInv'
  <2>1. records' = records /\ ~PermanentlySlashed(v)
    BY <1>3 DEF Unjail, PermanentlySlashed
  <2>2. \A u \in Validators : u # v => manager'.signing[u] = manager.signing[u]
    BY <1>3 DEF Unjail, Shape, ManagerType
  <2>3. \A e \in records : e.addr \in Validators
    BY SlashingConstants DEF Shape, OffenseType
  <2> QED
    BY <2>1, <2>2, <2>3, Zenon DEF RecordInv, PermanentlySlashed
<1> QED
  BY <1>0, <1>1, <1>2, <1>3, Zenon DEF Next, vars, ProcessAttestation, HandleBlockFinalized,
    SetSlashingManager, DrainTakes, DrainSubmits, SyncPendingSlashes, SyncBegins, SyncSlash,
    SyncTurnsToUnjails, SyncUnjail, SyncEnds, AddStakingValidator, RemoveStakingValidator, Tick

(***************************************************************************)
(* slash and LoadSlashingRecords: as long as the process lives and nobody  *)
(* leaves the set, a permanent offense on record bars its validator in the *)
(* engine once the goroutines and the sync are done.  What a restart or a  *)
(* changed set loses are the only ways a recorded ban goes unenforced.     *)
(***************************************************************************)
THEOREM RecordsEnforced ==
  Spec /\ [][NobodyLeaves]_vars /\ [][StaysUp]_vars => []RecordedBanEnforced
<1>1. Init => BanInv /\ RecordInv
  BY DEF Init, FreshManager, BanInv, RecordInv, PermanentlySlashed
<1>2. Shape /\ BanInv /\ RecordInv => RecordedBanEnforced
  <2> SUFFICES ASSUME Shape, BanInv, RecordInv, SlashingQuiet,
                      NEW e \in records, IsPermanent(e)
               PROVE  BannedForever(e.addr)
    BY DEF RecordedBanEnforced
  <2>1. e.addr \in Validators /\ PermanentlySlashed(e.addr)
    BY SlashingConstants DEF Shape, OffenseType, RecordInv
  <2>2. ~MarkInFlight(calls, e.addr)
    BY DEF SlashingQuiet, MarkInFlight
  <2> QED
    BY <2>1, <2>2 DEF BanInv
<1> QED
  BY <1>1, <1>2, NextBan, NextRecord, SetCorrect, PTL DEF Spec

-----------------------------------------------------------------------------
(* Only offenders are barred until a validator leaves the set. *)

(***************************************************************************)
(* Whatever can still put a mark into the engine (a mark goroutine, a      *)
(* pending entry, the sync's list) belongs to an offender, as every mark   *)
(* already there does.                                                     *)
(***************************************************************************)
BarredInv ==
  /\ \A v \in Validators : engine.slashed[IndexOf(v)] # None => v \in Offenders
  /\ \A c \in calls : c.op = "mark" => c.addr \in Offenders
  /\ manager.pendingSlashed \subseteq Offenders
  /\ sync.phase = "slashes" => sync.todo \subseteq Offenders

\* A step that adds no mark, no mark goroutine and no pending entry keeps it.
LEMMA BarredFrame ==
  ASSUME SetInv, SetInv', BarredInv,
         \A v \in Validators : engine'.slashed[IndexOf(v)] # None => engine.slashed[IndexOf(v)] # None,
         \A c \in calls' : c.op = "mark" => c \in calls,
         manager'.pendingSlashed \subseteq manager.pendingSlashed,
         manager.offenses \subseteq manager'.offenses,
         sync'.phase = "slashes" =>
           sync'.todo \subseteq (IF sync.phase = "slashes" THEN sync.todo ELSE {})
                                  \cup manager.pendingSlashed
  PROVE  BarredInv'
<1>1. Offenders \subseteq Offenders'
  BY DEF Offenders
<1>2. \A v : IndexOf(v)' = IndexOf(v)
  BY DEF IndexOf, SetInv
<1> QED
  BY <1>1, <1>2 DEF BarredInv

\* A goroutine that ends or turns to another section is no mark goroutine afterwards.
LEMMA NoMarkStarted ==
  ASSUME CallsOK(calls), NEW c \in calls, NEW op \in Ops, op # "mark"
  PROVE  \A x \in Done(c) \cup Goto(c, op) : x.op = "mark" => x \in calls
<1>1. [c EXCEPT !.op = op].op = op
  BY DEF CallsOK, Call
<1> QED
  BY <1>1 DEF Done, Goto

\* slash makes an offender of the validator it queues for marking.
LEMMA SlashBarred ==
  ASSUME Shape, SetInv, SetInv', BarredInv, NEW c \in calls, Slash(c) PROVE BarredInv'
<1>1. c.ev \in Offenses /\ c.ev.addr = c.addr
  BY CallsSteps DEF Slash, Shape, CallsOK, EvidenceOps
<1>2. engine' = engine /\ sync' = sync
  BY DEF Slash
<1>3. CASE AlreadySlashed(c.ev)
  <2>1. manager' = manager /\ calls' \subseteq calls
    BY <1>3 DEF Slash, Done
  <2> QED
    BY <1>2, <2>1, BarredFrame
<1>4. CASE ~AlreadySlashed(c.ev)
  <2> DEFINE d == Marking("slash", c.addr, c.ev, IsPermanent(c.ev), now + JailDuration)
  <2>1. /\ manager'.offenses = manager.offenses \cup {c.ev}
        /\ manager'.pendingSlashed = manager.pendingSlashed \cup {c.addr}
    BY <1>4, Zenon DEF Slash, Shape, ManagerType
  <2>2. calls' = Done(c) \cup {d}
    BY <1>4 DEF Slash
  <2>3. Offenders' = Offenders \cup {c.addr}
    BY <1>1, <2>1 DEF Offenders
  <2>4. d.addr = c.addr
    BY DEF Marking
  <2>5. \A v : IndexOf(v)' = IndexOf(v)
    BY <1>2 DEF IndexOf
  <2> HIDE DEF d
  <2>6. \A x \in calls' : x.op = "mark" => x.addr \in Offenders'
    BY <2>2, <2>3, <2>4 DEF BarredInv, Done
  <2> QED
    BY <1>2, <2>1, <2>3, <2>5, <2>6 DEF BarredInv
<1> QED
  BY <1>3, <1>4

\* A mark goroutine bars the offender it was started for.
LEMMA MarkBarred ==
  ASSUME Shape, SetInv, SetInv', BarredInv, NEW c \in calls, MarkValidatorSlashedByAddress(c)
  PROVE  BarredInv'
<1>1. c.op = "mark" /\ manager' = manager /\ sync' = sync
  BY DEF MarkValidatorSlashedByAddress
<1>2. c.addr \in Offenders /\ c.addr \in Validators
  BY <1>1 DEF BarredInv, Shape, CallsOK, Call
<1>3. \A x \in calls' : x.op = "mark" => x \in calls
  <2>1. calls' \in {Done(c), Goto(c, "clear")}
    BY DEF MarkValidatorSlashedByAddress
  <2>2. "clear" \in Ops
    BY DEF Ops
  <2> QED
    BY <2>1, <2>2, NoMarkStarted DEF Shape
<1>4. Offenders' = Offenders /\ \A v : IndexOf(v)' = IndexOf(v)
  BY <1>1 DEF Offenders, IndexOf, SetInv
<1>5. \A v \in Validators : v # c.addr =>
        engine'.slashed[IndexOf(v)] = engine.slashed[IndexOf(v)]
  <2> SUFFICES ASSUME NEW v \in Validators, v # c.addr
               PROVE  engine'.slashed[IndexOf(v)] = engine.slashed[IndexOf(v)]
    OBVIOUS
  <2>1. IndexOf(v) # IndexOf(c.addr) /\ IndexOf(v) \in Indices
    BY <1>2, IndexFacts
  <2>2. CASE UNCHANGED engine
    BY <2>2
  <2>3. CASE c.addr \in Members
    <3> DEFINE new == MarkedEntry(engine.slashed[IndexOf(c.addr)], c.permanent, c.jailUntil)
    <3>1. engine'.slashed = [engine.slashed EXCEPT ![IndexOf(c.addr)] = new]
      BY <2>3, Zenon DEF MarkValidatorSlashedByAddress, Shape, EngineType
    <3> HIDE DEF new
    <3> QED
      BY <2>1, <3>1 DEF Shape, EngineType
  <2> QED
    BY <2>2, <2>3 DEF MarkValidatorSlashedByAddress
<1>6. \A v \in Validators : engine'.slashed[IndexOf(v)] # None => v \in Offenders
  BY <1>2, <1>5 DEF BarredInv
<1> QED
  BY <1>1, <1>3, <1>4, <1>6 DEF BarredInv

\* The other locked sections start no mark and lift at most one.
LEMMA GoroutineBarred ==
  ASSUME Shape, SetInv, SetInv', BarredInv, NEW c \in calls, Goroutine(c) PROVE BarredInv'
<1>1. CASE Slash(c)
  BY <1>1, SlashBarred
<1>2. CASE MarkValidatorSlashedByAddress(c)
  BY <1>2, MarkBarred
<1>3. CASE ~Slash(c) /\ ~MarkValidatorSlashedByAddress(c)
  <2>1. \E op \in Ops \ {"mark"} : calls' \in {Done(c), Goto(c, op)}
    BY <1>3 DEF Goroutine, SubmitEvidence, CheckSlashedByQPOS, RecordOffenseOnly,
      ClearPendingSlash, UnmarkValidatorSlashed, ClearPendingUnjail, Ops
  <2>2. \A x \in calls' : x.op = "mark" => x \in calls
    BY <2>1, NoMarkStarted DEF Shape
  <2>3. /\ manager'.pendingSlashed \subseteq manager.pendingSlashed
        /\ manager.offenses \subseteq manager'.offenses
        /\ sync' = sync
    BY <1>3 DEF Goroutine, SubmitEvidence, CheckSlashedByQPOS, RecordOffenseOnly,
      ClearPendingSlash, UnmarkValidatorSlashed, ClearPendingUnjail, Shape, ManagerType
  <2>4. \A v \in Validators : engine'.slashed[IndexOf(v)] # None => engine.slashed[IndexOf(v)] # None
    <3>1. CASE engine' = engine
      BY <3>1
    <3>2. CASE engine' = [engine EXCEPT !.slashed[IndexOf(c.addr)] = None]
      BY <3>2, IndexFacts DEF Shape, EngineType
    <3> QED
      BY <1>3, <3>1, <3>2 DEF Goroutine, SubmitEvidence, CheckSlashedByQPOS, RecordOffenseOnly,
        ClearPendingSlash, UnmarkValidatorSlashed, ClearPendingUnjail
  <2> QED
    BY <2>2, <2>3, <2>4, BarredFrame
<1> QED
  BY <1>1, <1>2, <1>3

\* The sync marks only what it finds pending.
LEMMA SyncBarred ==
  ASSUME Shape, SetInv, SetInv', BarredInv, SyncPendingSlashes PROVE BarredInv'
<1>1. engine' = engine /\ manager' = manager
  BY DEF SyncPendingSlashes, SyncBegins, SyncSlash, SyncTurnsToUnjails, SyncUnjail, SyncEnds
<1>2. CASE SyncBegins \/ SyncTurnsToUnjails \/ SyncEnds
  <2>1. calls' = calls
    BY <1>2 DEF SyncBegins, SyncTurnsToUnjails, SyncEnds
  <2>2. sync'.phase = "slashes" => sync'.todo = manager.pendingSlashed
    BY <1>2 DEF SyncBegins, SyncTurnsToUnjails, SyncEnds
  <2> QED
    BY <1>1, <2>1, <2>2, BarredFrame
<1>3. ASSUME NEW v \in Validators, SyncUnjail(v) PROVE BarredInv'
  <2>1. Unmarking("sync", v).op # "mark" /\ calls' = calls \cup {Unmarking("sync", v)}
    BY <1>3 DEF SyncUnjail, Unmarking
  <2>2. sync.phase = "unjails" /\ sync' = [sync EXCEPT !.todo = @ \ {v}]
    BY <1>3 DEF SyncUnjail
  <2>3. sync'.phase = "unjails"
    BY <2>2 DEF Shape
  <2> QED
    BY <1>1, <2>1, <2>3, BarredFrame
<1>4. ASSUME NEW v \in Validators, SyncSlash(v) PROVE BarredInv'
  <2> DEFINE d == Marking("sync", v, None, Resync(v).permanent, Resync(v).jailUntil)
  <2>1. calls' = calls \cup {d} /\ d.addr = v
    BY <1>4 DEF SyncSlash, Marking
  <2>2. v \in Offenders
    BY <1>4 DEF SyncSlash, BarredInv
  <2>3. sync'.todo \subseteq Offenders
    BY <1>4 DEF SyncSlash, BarredInv
  <2>4. Offenders' = Offenders /\ \A u : IndexOf(u)' = IndexOf(u)
    BY <1>1 DEF Offenders, IndexOf
  <2> HIDE DEF d
  <2> QED
    BY <1>1, <2>1, <2>2, <2>3, <2>4 DEF BarredInv
<1> QED
  BY <1>2, <1>3, <1>4 DEF SyncPendingSlashes

\* Every step of a node, restarts included, bars offenders only.
LEMMA NextBarred ==
  Shape /\ SetInv /\ SetInv' /\ BarredInv /\ [Next]_vars /\ [NobodyLeaves]_vars => BarredInv'
<1> SUFFICES ASSUME Shape, SetInv, SetInv', BarredInv, [Next]_vars, [NobodyLeaves]_vars
             PROVE  BarredInv'
  OBVIOUS
<1>1. CASE /\ engine'.slashed = engine.slashed /\ manager' = manager /\ sync' = sync
           /\ \A c \in calls' : c.op = "mark" => c \in calls
  BY <1>1, BarredFrame
<1>2. ASSUME NEW c \in calls, Goroutine(c) PROVE BarredInv'
  BY <1>2, GoroutineBarred
<1>3. CASE SyncPendingSlashes
  BY <1>3, SyncBarred
<1>4. CASE Restart
  <2>1. /\ \A v \in Validators : engine'.slashed[IndexOf(v)] = None
        /\ manager'.pendingSlashed = {} /\ calls' = {} /\ sync'.phase = "idle"
    BY <1>4, IndexFacts DEF Restart, FreshEngine, FreshManager, SyncIdle
  <2>2. \A v : IndexOf(v)' = IndexOf(v)
    BY DEF IndexOf, SetInv
  <2> QED
    BY <2>1, <2>2 DEF BarredInv
<1>5. ASSUME NEW v \in Validators, AddStakingValidator(v) PROVE BarredInv'
  BY <1>1, <1>5 DEF AddStakingValidator, Shape, EngineType
<1>6. ASSUME NEW v \in Validators, Unjail(v) PROVE BarredInv'
  <2>1. /\ engine' = engine /\ sync' = sync
        /\ manager'.pendingSlashed = manager.pendingSlashed
        /\ manager'.offenses = manager.offenses
    BY <1>6 DEF Unjail, Shape, ManagerType
  <2>2. Unmarking("unjail", v).op # "mark"
    BY DEF Unmarking
  <2>3. \A c \in calls' : c.op = "mark" => c \in calls
    BY <1>6, <2>2 DEF Unjail
  <2> QED
    BY <2>1, <2>3, BarredFrame
<1>7. ASSUME NEW e \in Offenses, ProcessAttestation(e) \/ HandleBlockFinalized(e) PROVE BarredInv'
  <2>1. Submission("direct", e).op # "mark" /\ Submission("report", e).op # "mark"
    BY DEF Submission
  <2>2. \A c \in calls' : c.op = "mark" => c \in calls
    BY <1>7, <2>1 DEF ProcessAttestation, HandleBlockFinalized
  <2>3. engine'.slashed = engine.slashed /\ manager' = manager /\ sync' = sync
    BY <1>7 DEF ProcessAttestation, HandleBlockFinalized, Shape, EngineType
  <2> QED
    BY <1>1, <2>2, <2>3
<1>8. CASE SetSlashingManager \/ DrainTakes
  BY <1>1, <1>8 DEF SetSlashingManager, DrainTakes, Shape, EngineType
<1>9. ASSUME NEW d \in Drains, DrainSubmits(d) PROVE BarredInv'
  <2>1. Submission(d, Head(draining[d])).op # "mark"
    BY DEF Submission
  <2> QED
    BY <1>1, <1>9, <2>1 DEF DrainSubmits
<1>10. CASE Tick \/ UNCHANGED vars
  BY <1>1, <1>10 DEF Tick, vars
<1> QED
  BY <1>2, <1>3, <1>4, <1>5, <1>6, <1>7, <1>8, <1>9, <1>10, Zenon DEF Next, NobodyLeaves

(***************************************************************************)
(* slash, SyncPendingSlashes and MarkValidatorSlashedByAddress: until a    *)
(* validator leaves the set, CanPropose and CanAttest reject as slashed    *)
(* only validators with a recorded offense, restarts included.  The marks  *)
(* kept by index go wrong through a departure and no other way.            *)
(***************************************************************************)
THEOREM OffendersBarred == Spec /\ [][NobodyLeaves]_vars => []OnlyOffendersBarred
<1>1. Init => BarredInv
  <2> SUFFICES ASSUME Init PROVE BarredInv
    OBVIOUS
  <2>1. SetInv
    BY DEF Init, FreshEngine, SetInv
  <2> QED
    BY <2>1, IndexFacts DEF Init, FreshEngine, FreshManager, SyncIdle, BarredInv
<1>2. SetInv /\ BarredInv => OnlyOffendersBarred
  BY DEF BarredInv, OnlyOffendersBarred, IsSlashed
<1> QED
  BY <1>1, <1>2, NextBarred, SetCorrect, PTL DEF Spec

-----------------------------------------------------------------------------
(* The evidence queue and the validator set keep their bounds. *)

\* Neither cap of the queue is exceeded.
Capped(queue) ==
  /\ Len(queue) <= MaxEvidenceQueue
  /\ \A v \in Validators : Cardinality(Against(queue, v)) <= MaxEvidencePerValidator

\* The positions of a queue are finitely many.
LEMMA AgainstFinite ==
  ASSUME NEW queue \in Seq(Offenses), NEW v
  PROVE  /\ Against(queue, v) \in SUBSET (1 .. Len(queue))
         /\ IsFiniteSet(Against(queue, v)) /\ Cardinality(Against(queue, v)) \in Nat
<1>1. Against(queue, v) \in SUBSET (1 .. Len(queue))
  BY DEF Against
<1>2. IsFiniteSet(1 .. Len(queue))
  BY FS_Interval
<1> QED BY <1>1, <1>2, FS_Subset, FS_CardinalityType

\* Removing a position moves the evidence behind it up by one.
LEMMA RemoveAgainst ==
  ASSUME NEW queue \in Seq(Offenses), NEW i \in 1 .. Len(queue), NEW v,
         NEW new, new = RemoveAt(queue, i)
  PROVE  /\ new \in Seq(Offenses) /\ Len(new) = Len(queue) - 1
         /\ \E f \in Bijection(Against(new, v), Against(queue, v) \ {i}) :
              /\ \A k \in Against(new, v) : new[k] = queue[f[k]]
              /\ \A k, l \in Against(new, v) : k < l => f[k] < f[l]
<1> DEFINE n == Len(queue) - 1
           up(k) == IF k < i THEN k ELSE k + 1
           f == [k \in Against(new, v) |-> up(k)]
           T == Against(queue, v) \ {i}
<1>1. new \in Seq(Offenses)
  BY RemoveAtType
<1>2. n \in Nat /\ new = [k \in 1 .. n |-> queue[up(k)]]
  BY DEF RemoveAt
<1>3. Len(new) = n /\ DOMAIN new = 1 .. n
  BY <1>1, <1>2
<1>4. \A k \in 1 .. n : new[k] = queue[up(k)] /\ up(k) \in 1 .. Len(queue) /\ up(k) # i
  BY <1>2
<1>5. \A k \in Against(new, v) : k \in 1 .. n /\ up(k) \in T
  BY <1>3, <1>4 DEF Against
<1>6. \A k, l \in 1 .. n : k < l => up(k) < up(l)
  OBVIOUS
<1>7. \A j \in T : \E k \in Against(new, v) : j = up(k)
  <2> SUFFICES ASSUME NEW j \in T PROVE \E k \in Against(new, v) : j = up(k)
    OBVIOUS
  <2> DEFINE k == IF j < i THEN j ELSE j - 1
  <2>1. j \in 1 .. Len(queue) /\ queue[j].addr = v /\ j # i
    BY DEF Against
  <2>2. k \in 1 .. n /\ up(k) = j
    BY <2>1
  <2>3. new[k] = queue[j]
    BY <1>4, <2>2
  <2>4. k \in Against(new, v)
    BY <1>3, <2>1, <2>2, <2>3 DEF Against
  <2> QED BY <2>2, <2>4
<1> HIDE DEF up, T
<1>8. f \in [Against(new, v) -> T]
  BY <1>5
<1>9. f \in Injection(Against(new, v), T)
  <2>1. \A k, l \in Against(new, v) : f[k] = f[l] => k = l
    <3> SUFFICES ASSUME NEW k \in Against(new, v), NEW l \in Against(new, v), up(k) = up(l) PROVE k = l
      OBVIOUS
    <3>1. k \in 1 .. n /\ l \in 1 .. n
      BY <1>5
    <3> QED BY <3>1 DEF up
  <2> QED BY <1>8, <2>1 DEF Injection, IsInjective
<1>10. f \in Bijection(Against(new, v), T)
  BY <1>7, <1>8, <1>9 DEF Bijection, Surjection
<1>11. \A k \in Against(new, v) : new[k] = queue[f[k]]
  BY <1>4, <1>5
<1>12. \A k, l \in Against(new, v) : k < l => f[k] < f[l]
  BY <1>5, <1>6
<1> QED BY <1>1, <1>3, <1>10, <1>11, <1>12 DEF T

\* Every nonempty set of positions has a first one.
LEMMA FirstPosition ==
  ASSUME NEW T \in SUBSET Nat, T # {}
  PROVE  \E x \in T : \A y \in T : x <= y
<1> DEFINE R == OpToRel(<, Nat)
<1>1. PICK x \in T : \A y \in T : ~(<<y, x>> \in R)
  <2>1. IsWellFoundedOn(R, Nat)
    BY NatLessThanWellFounded, Zenon
  <2> HIDE DEF R
  <2> QED BY <2>1, WFMin, Zenon
<1>2. \A y \in T : ~(y < x)
  BY <1>1 DEF OpToRel
<1> QED BY <1>2

\* The four outcomes of queueSlashingEvidenceLocked.
LEMMA QueueCases ==
  ASSUME NEW queue \in Seq(Offenses), NEW e \in Offenses, NEW new, new = QueueSlashingEvidence(queue, e)
  PROVE  \/ new = queue
         \/ /\ Cardinality(Against(queue, e.addr)) < MaxEvidencePerValidator
            /\ \/ Len(queue) < MaxEvidenceQueue /\ new = Append(queue, e)
               \/ \E i \in Against(queue, e.addr) : new = Append(RemoveAt(queue, i), e)
<1> DEFINE own    == Against(queue, e.addr)
           oldest == CHOOSE i \in own : \A j \in own : i <= j
<1>1. own \in SUBSET Nat /\ Cardinality(own) \in Nat
  BY AgainstFinite
<1>2. own # {} => oldest \in own
  <2> SUFFICES ASSUME own # {} PROVE oldest \in own
    OBVIOUS
  <2>1. \E i \in own : \A j \in own : i <= j
    BY <1>1, FirstPosition
  <2> HIDE DEF own
  <2> QED BY <2>1, Zenon
<1>3. new = IF Cardinality(own) >= MaxEvidencePerValidator THEN queue
            ELSE IF Len(queue) < MaxEvidenceQueue THEN Append(queue, e)
            ELSE IF own = {} THEN queue
            ELSE Append(RemoveAt(queue, oldest), e)
  BY Zenon DEF QueueSlashingEvidence, Against
<1> HIDE DEF own, oldest
<1>4. Cardinality(own) >= MaxEvidencePerValidator \/ Cardinality(own) < MaxEvidencePerValidator
  BY <1>1, SlashingConstants
<1> QED BY <1>2, <1>3, <1>4 DEF own

\* queueSlashingEvidenceLocked never exceeds either cap.
LEMMA QueueCapped ==
  ASSUME NEW queue \in Seq(Offenses), Capped(queue), NEW e \in Offenses,
         NEW new, new = QueueSlashingEvidence(queue, e)
  PROVE  Capped(new)
<1>c. MaxEvidenceQueue \in Nat /\ MaxEvidencePerValidator \in Nat /\ Len(queue) \in Nat /\ e.addr \in Validators
  BY SlashingConstants DEF OffenseType
<1>1. ASSUME NEW mid \in Seq(Offenses), Len(mid) < MaxEvidenceQueue,
             \A v \in Validators : Cardinality(Against(mid, v)) <= Cardinality(Against(queue, v)),
             Cardinality(Against(queue, e.addr)) < MaxEvidencePerValidator, new = Append(mid, e)
      PROVE  Capped(new)
  <2>1. /\ Len(new) = Len(mid) + 1
        /\ \A v : v # e.addr => Against(new, v) = Against(mid, v)
        /\ Against(new, e.addr) = Against(mid, e.addr) \cup {Len(mid) + 1}
    <3>1. new = Append(mid, e)
      BY <1>1
    <3> QED BY <3>1 DEF Against
  <2>2. Cardinality(Against(new, e.addr)) <= Cardinality(Against(mid, e.addr)) + 1
    <3>1. IsFiniteSet(Against(mid, e.addr)) /\ Cardinality(Against(mid, e.addr)) \in Nat
      BY AgainstFinite
    <3>2. PICK A, x : A = Against(mid, e.addr) /\ x = Len(mid) + 1
      OBVIOUS
    <3>3. Cardinality(A \cup {x}) = IF x \in A THEN Cardinality(A) ELSE Cardinality(A) + 1
      BY <3>1, <3>2, FS_AddElement, Zenon
    <3>4. Against(new, e.addr) = A \cup {x}
      BY <2>1, <3>2
    <3> QED BY <3>1, <3>2, <3>3, <3>4
  <2>3. \A v \in Validators : /\ Cardinality(Against(mid, v)) \in Nat /\ Cardinality(Against(queue, v)) \in Nat
                              /\ Cardinality(Against(new, v)) \in Nat
    <3>1. new \in Seq(Offenses)
      BY <1>1
    <3> QED BY <3>1, AgainstFinite
  <2>4. \A v \in Validators : Cardinality(Against(new, v)) <= MaxEvidencePerValidator
    <3> SUFFICES ASSUME NEW v \in Validators PROVE Cardinality(Against(new, v)) <= MaxEvidencePerValidator
      OBVIOUS
    <3>1. CASE v = e.addr
      BY <1>1, <1>c, <2>2, <2>3, <3>1
    <3>2. CASE v # e.addr
      <4>1. Against(new, v) = Against(mid, v)
        BY <2>1, <3>2
      <4> QED BY <1>1, <1>c, <2>3, <4>1 DEF Capped
    <3> QED BY <3>1, <3>2
  <2> QED BY <1>1, <1>c, <2>1, <2>4 DEF Capped
<1>2. CASE new = queue
  BY <1>2
<1>3. CASE /\ Cardinality(Against(queue, e.addr)) < MaxEvidencePerValidator
           /\ Len(queue) < MaxEvidenceQueue /\ new = Append(queue, e)
  <2>1. \A v \in Validators : Cardinality(Against(queue, v)) <= Cardinality(Against(queue, v))
    BY AgainstFinite
  <2> QED BY <1>1, <1>3, <2>1
<1>4. ASSUME NEW i \in Against(queue, e.addr), new = Append(RemoveAt(queue, i), e),
             Cardinality(Against(queue, e.addr)) < MaxEvidencePerValidator
      PROVE  Capped(new)
  <2> DEFINE mid == RemoveAt(queue, i)
  <2>0. i \in 1 .. Len(queue)
    BY AgainstFinite
  <2>1. mid \in Seq(Offenses) /\ Len(mid) = Len(queue) - 1
    BY <2>0, RemoveAgainst
  <2>2. ASSUME NEW v \in Validators PROVE Cardinality(Against(mid, v)) <= Cardinality(Against(queue, v))
    <3>1. PICK f \in Bijection(Against(mid, v), Against(queue, v) \ {i}) : TRUE
      BY <2>0, RemoveAgainst
    <3>2. f \in Injection(Against(mid, v), Against(queue, v))
      BY <3>1 DEF Bijection, Injection, Surjection, IsInjective
    <3> QED BY <3>2, AgainstFinite, FS_Injection
  <2>3. Len(mid) < MaxEvidenceQueue
    BY <1>c, <2>1 DEF Capped
  <2> HIDE DEF mid
  <2>4. new = Append(mid, e)
    BY <1>4 DEF mid
  <2> QED BY <1>1, <1>4, <2>1, <2>2, <2>3, <2>4
<1> QED BY <1>2, <1>3, <1>4, QueueCases

\* A queue that keeps v's positions and entries keeps the evidence against v.
LEMMA SamePositions ==
  ASSUME NEW old \in Seq(Offenses), NEW new, NEW v, Against(new, v) = Against(old, v),
         \A k \in Against(old, v) : new[k] = old[k]
  PROVE  SameAgainst(old, new, v)
<1> DEFINE A == Against(old, v)
           f == [k \in A |-> k]
<1>1. f \in Bijection(A, A)
  BY DEF Bijection, Injection, Surjection, IsInjective
<1>2. (\A k \in A : new[k] = old[f[k]]) /\ (\A k, l \in A : k < l => f[k] < f[l])
  OBVIOUS
<1> HIDE DEF f
<1> QED BY <1>1, <1>2 DEF SameAgainst

\* queueSlashingEvidenceLocked displaces no evidence against another validator.
LEMMA QueueKeepsOthers ==
  ASSUME NEW queue \in Seq(Offenses), NEW e \in Offenses, NEW v, v # e.addr,
         NEW new, new = QueueSlashingEvidence(queue, e)
  PROVE  SameAgainst(queue, new, v)
<1>0. Against(queue, v) \in SUBSET (1 .. Len(queue))
  BY AgainstFinite
<1>1. CASE new = queue
  BY <1>1, SamePositions
<1>2. CASE new = Append(queue, e)
  <2>1. Against(new, v) = Against(queue, v) /\ \A k \in Against(queue, v) : new[k] = queue[k]
    BY <1>0, <1>2 DEF Against
  <2> QED BY <2>1, SamePositions
<1>3. ASSUME NEW i \in Against(queue, e.addr), new = Append(RemoveAt(queue, i), e)
      PROVE  SameAgainst(queue, new, v)
  <2> DEFINE mid == RemoveAt(queue, i)
  <2>1. i \in 1 .. Len(queue) /\ i \notin Against(queue, v)
    BY AgainstFinite DEF Against
  <2>2. mid \in Seq(Offenses)
    BY <2>1, RemoveAgainst
  <2>3. PICK f \in Bijection(Against(mid, v), Against(queue, v) \ {i}) :
               /\ \A k \in Against(mid, v) : mid[k] = queue[f[k]]
               /\ \A k, l \in Against(mid, v) : k < l => f[k] < f[l]
    BY <2>1, RemoveAgainst
  <2> HIDE DEF mid
  <2>4. Against(new, v) = Against(mid, v) /\ \A k \in Against(mid, v) : new[k] = mid[k]
    <3>1. new = Append(mid, e)
      BY <1>3 DEF mid
    <3>2. Against(mid, v) \in SUBSET (1 .. Len(mid))
      BY <2>2, AgainstFinite
    <3> QED BY <2>2, <3>1, <3>2 DEF Against
  <2>5. Against(queue, v) \ {i} = Against(queue, v)
    BY <2>1
  <2>6. f \in Bijection(Against(new, v), Against(queue, v))
    BY <2>3, <2>4, <2>5, Zenon
  <2>7. \A k \in Against(new, v) : new[k] = queue[f[k]]
    BY <2>3, <2>4
  <2>8. \A k, l \in Against(new, v) : k < l => f[k] < f[l]
    BY <2>3, <2>4
  <2> QED BY <2>6, <2>7, <2>8, Zenon DEF SameAgainst
<1> QED BY <1>1, <1>2, <1>3, QueueCases

\* An address sequence without repetitions.
Distinct(set) == \A i, j \in DOMAIN set : set[i] = set[j] => i = j

\* The set stays without repetitions when a validator leaves.
LEMMA RemoveDistinct ==
  ASSUME NEW set \in Seq(Validators), Distinct(set), NEW i \in 1 .. Len(set)
  PROVE  Distinct(RemoveAt(set, i))
BY DEF Distinct, RemoveAt

\* The set stays without repetitions when a new address is appended.
LEMMA AppendDistinct ==
  ASSUME NEW set \in Seq(Validators), Distinct(set), NEW v \in Validators,
         \A i \in DOMAIN set : set[i] # v
  PROVE  Distinct(Append(set, v))
BY DEF Distinct

(***************************************************************************)
(* What SlashingTypeOK says beyond Shape, and the distinct addresses that  *)
(* make IndexOf the only index of a member.                                *)
(***************************************************************************)
Bounds ==
  /\ Distinct(engine.set)
  /\ Capped(engine.queue)
  /\ \A v \in Validators : vm[v].stake <= FullStake
  /\ sync \in [phase : {"idle", "slashes", "unjails"}, todo : SUBSET Validators]
  /\ restarts <= MaxRestarts

\* An empty queue respects its caps.
LEMMA EmptyCapped == Capped(<<>>)
<1>1. \A v \in Validators : Against(<<>>, v) = {}
  BY DEF Against
<1>2. Len(<<>>) = 0 /\ \A v \in Validators : Cardinality(Against(<<>>, v)) = 0
  BY <1>1, FS_EmptySet
<1>3. 0 <= MaxEvidenceQueue /\ 0 <= MaxEvidencePerValidator
  BY SlashingConstants
<1> QED BY <1>2, <1>3 DEF Capped

\* A goroutine cuts a stake or moves a mark; it never touches the set or the queue.
LEMMA GoroutineBounds ==
  ASSUME Shape, Bounds, NEW c \in calls, Goroutine(c)
  PROVE  Bounds'
<1>0. c \in Call /\ c.addr \in Validators
  BY CallsSteps DEF Shape
<1>1. engine'.set = engine.set /\ engine'.queue = engine.queue
  BY Zenon DEF Goroutine, SubmitEvidence, CheckSlashedByQPOS, RecordOffenseOnly, Slash,
         MarkValidatorSlashedByAddress, ClearPendingSlash, UnmarkValidatorSlashed, ClearPendingUnjail,
         Shape, EngineType
<1>2. sync' = sync /\ restarts' = restarts
  BY Zenon DEF Goroutine, SubmitEvidence, CheckSlashedByQPOS, RecordOffenseOnly, Slash,
         MarkValidatorSlashedByAddress, ClearPendingSlash, UnmarkValidatorSlashed, ClearPendingUnjail
<1>3. \A v \in Validators : vm'[v].stake <= FullStake
  <2>1. CASE vm' = vm
    BY <2>1 DEF Bounds
  <2>2. CASE Slash(c)
    <3> DEFINE e == c.ev
    <3>1. e \in Offenses /\ e.addr = c.addr
      BY <2>2 DEF Slash, Shape, CallsOK, EvidenceOps
    <3>2. StakeAfter(e) <= FullStake
      BY <1>0, <3>1, SlashingConstants, SMTT(30) DEF StakeAfter, Bounds, Shape, VMType
    <3>3. vm' = vm \/ \E r : r.stake = StakeAfter(e) /\ vm' = [vm EXCEPT ![c.addr] = r]
      BY <2>2, Zenon DEF Slash
    <3> HIDE DEF e
    <3> QED BY <1>0, <3>2, <3>3 DEF Bounds, Shape, VMType
  <2> QED BY <2>1, <2>2, Zenon DEF Goroutine, SubmitEvidence, CheckSlashedByQPOS, RecordOffenseOnly,
         MarkValidatorSlashedByAddress, ClearPendingSlash, UnmarkValidatorSlashed, ClearPendingUnjail
<1> QED BY <1>1, <1>2, <1>3 DEF Bounds

\* A new engine and a new ValidatorManager are within their bounds.
LEMMA FreshBounds ==
  /\ Distinct(FreshEngine.set) /\ Capped(FreshEngine.queue)
  /\ \A v \in Validators : FreshVM[v].stake <= FullStake
  /\ SyncIdle \in [phase : {"idle", "slashes", "unjails"}, todo : SUBSET Validators]
<1>1. FreshEngine.set = AddressOrder /\ FreshEngine.queue = <<>>
  BY DEF FreshEngine
<1>2. Distinct(AddressOrder)
  BY SlashingConstants DEF Distinct
<1>3. \A v \in Validators : FreshVM[v].stake <= FullStake
  BY SlashingConstants DEF FreshVM
<1>4. SyncIdle \in [phase : {"idle", "slashes", "unjails"}, todo : SUBSET Validators]
  BY DEF SyncIdle
<1> QED BY <1>1, <1>2, <1>3, <1>4, EmptyCapped

\* Every step keeps the bounds.
LEMMA NextBounds == Shape /\ Bounds /\ [Next]_vars => Bounds'
<1> SUFFICES ASSUME Shape, Bounds, [Next]_vars PROVE Bounds'
  OBVIOUS
<1>e. engine \in EngineType /\ engine.set \in Seq(Validators) /\ engine.queue \in Seq(Offenses)
  BY DEF Shape, EngineType
<1>1. ASSUME NEW e \in Offenses, ProcessAttestation(e) PROVE Bounds'
  <2>1. engine'.set = engine.set /\ engine'.queue = QueueSlashingEvidence(engine.queue, e)
    BY <1>e, <1>1 DEF ProcessAttestation, EngineType
  <2>2. PICK q \in Seq(Offenses) : q = engine.queue
    BY <1>e
  <2>3. Capped(QueueSlashingEvidence(q, e))
    BY <2>2, QueueCapped DEF Bounds
  <2>4. vm' = vm /\ sync' = sync /\ restarts' = restarts
    BY <1>1 DEF ProcessAttestation
  <2> QED BY <2>1, <2>2, <2>3, <2>4 DEF Bounds
<1>2. CASE SetSlashingManager \/ DrainTakes
  <2>1. engine'.set = engine.set /\ engine'.queue = <<>> /\ vm' = vm /\ sync' = sync /\ restarts' = restarts
    BY <1>e, <1>2 DEF SetSlashingManager, DrainTakes, EngineType
  <2> QED BY <2>1, EmptyCapped DEF Bounds
<1>3. ASSUME NEW c \in calls, Goroutine(c) PROVE Bounds'
  BY <1>3, GoroutineBounds
<1>4. CASE SyncPendingSlashes
  <2>1. manager.pendingSlashed \in SUBSET Validators /\ manager.pendingUnjail \in SUBSET Validators
    BY DEF Shape, ManagerType
  <2>2. sync' \in [phase : {"idle", "slashes", "unjails"}, todo : SUBSET Validators]
    BY <1>4, <2>1 DEF SyncPendingSlashes, SyncBegins, SyncTurnsToUnjails, SyncEnds, SyncSlash, SyncUnjail, Bounds
  <2>3. engine' = engine /\ vm' = vm /\ restarts' = restarts
    BY <1>4 DEF SyncPendingSlashes, SyncBegins, SyncTurnsToUnjails, SyncEnds, SyncSlash, SyncUnjail
  <2> QED BY <2>2, <2>3 DEF Bounds
<1>5. ASSUME NEW v \in Validators, Unjail(v) PROVE Bounds'
  <2>1. \A u \in Validators : vm'[u].stake = vm[u].stake
    BY <1>5 DEF Unjail, Shape, VMType
  <2>2. engine' = engine /\ sync' = sync /\ restarts' = restarts
    BY <1>5 DEF Unjail
  <2> QED BY <2>1, <2>2 DEF Bounds
<1>6. ASSUME NEW v \in Validators, AddStakingValidator(v) PROVE Bounds'
  <2>1. /\ engine'.set = (IF v \in Members THEN engine.set ELSE Append(engine.set, v))
        /\ engine'.queue = engine.queue /\ vm' = vm /\ sync' = sync /\ restarts' = restarts
    BY <1>e, <1>6 DEF AddStakingValidator, EngineType
  <2>2. PICK s \in Seq(Validators) : s = engine.set
    BY <1>e
  <2>3. Distinct(engine'.set)
    BY <2>1, <2>2, AppendDistinct DEF Bounds, Members
  <2> QED BY <2>1, <2>3 DEF Bounds
<1>7. ASSUME NEW v \in Validators, RemoveStakingValidator(v) PROVE Bounds'
  <2>1. /\ engine'.set = RemoveAt(engine.set, IndexOf(v)) /\ v \in Members
        /\ engine'.queue = engine.queue /\ sync' = sync /\ restarts' = restarts
    BY <1>e, <1>7 DEF RemoveStakingValidator, EngineType
  <2>2. PICK i \in DOMAIN engine.set : i = IndexOf(v)
    BY <2>1, Zenon DEF Members, IndexOf
  <2>3. PICK s \in Seq(Validators) : s = engine.set
    BY <1>e
  <2>4. Distinct(engine'.set)
    BY <2>1, <2>2, <2>3, RemoveDistinct, SMTT(30) DEF Bounds
  <2>5. \A u \in Validators : vm'[u].stake = vm[u].stake
    <3>1. vm' = [vm EXCEPT ![v].active = FALSE]
      BY <1>7 DEF RemoveStakingValidator
    <3>2. vm \in VMType
      BY DEF Shape
    <3> QED BY <3>1, <3>2 DEF VMType
  <2> QED BY <2>1, <2>4, <2>5 DEF Bounds
<1>8. CASE Restart
  <2>1. engine' = FreshEngine /\ vm' = FreshVM /\ sync' = SyncIdle /\ restarts < MaxRestarts /\ restarts' = restarts + 1
    BY <1>8 DEF Restart
  <2>2. restarts' <= MaxRestarts
    BY <2>1, SlashingConstants DEF Shape
  <2> QED BY <2>1, <2>2, FreshBounds DEF Bounds
<1>9. CASE \/ UNCHANGED vars \/ Tick \/ (\E e \in Offenses : HandleBlockFinalized(e)) \/ \E d \in Drains : DrainSubmits(d)
  <2>1. engine' = engine /\ vm' = vm /\ sync' = sync /\ restarts' = restarts
    BY <1>9 DEF vars, Tick, HandleBlockFinalized, DrainSubmits
  <2> QED BY <2>1 DEF Bounds
<1> QED BY <1>1, <1>2, <1>3, <1>4, <1>5, <1>6, <1>7, <1>8, <1>9, Zenon DEF Next

(***************************************************************************)
(* Whatever is observed, drained, staked and restarted, the evidence queue *)
(* respects both caps, the validator set holds no address twice, and no    *)
(* stake grows above the genesis stake.                                    *)
(***************************************************************************)
THEOREM TypeCorrect == Spec => []SlashingTypeOK
<1>1. Init => Bounds
  <2> SUFFICES ASSUME Init PROVE Bounds
    OBVIOUS
  <2>1. engine = FreshEngine /\ vm = FreshVM /\ sync = SyncIdle /\ restarts = 0
    BY DEF Init
  <2>2. restarts <= MaxRestarts
    BY <2>1, SlashingConstants
  <2> QED BY <2>1, <2>2, FreshBounds DEF Bounds
<1>2. Shape /\ Bounds => SlashingTypeOK
  <2> SUFFICES ASSUME Shape, Bounds PROVE SlashingTypeOK
    OBVIOUS
  <2>1. vm \in [Validators -> [stake : 0 .. FullStake, active : BOOLEAN, jailedUntil : Times, permanent : BOOLEAN]]
    <3>1. vm \in VMType /\ \A v \in Validators : vm[v].stake <= FullStake
      BY DEF Shape, Bounds
    <3>2. ASSUME NEW r \in [stake : Nat, active : BOOLEAN, jailedUntil : Times, permanent : BOOLEAN], r.stake <= FullStake
          PROVE  r \in [stake : 0 .. FullStake, active : BOOLEAN, jailedUntil : Times, permanent : BOOLEAN]
      BY <3>2, SlashingConstants
    <3> QED BY <3>1, <3>2, Zenon DEF VMType
  <2>2. restarts \in Nat /\ restarts <= MaxRestarts
    BY DEF Shape, Bounds
  <2>3. restarts \in 0 .. MaxRestarts
    BY <2>2, SlashingConstants
  <2>4. Distinct(engine.set) /\ Capped(engine.queue) /\ sync \in [phase : {"idle", "slashes", "unjails"}, todo : SUBSET Validators]
    BY DEF Bounds
  <2>5. records \subseteq Offenses /\ calls \subseteq Call
    BY Zenon DEF Shape, CallsOK
  <2> QED BY <2>1, <2>3, <2>4, <2>5, Zenon DEF Shape, Capped, Against, Distinct, SlashingTypeOK
<1> QED BY <1>1, <1>2, NextBounds, ShapeCorrect, PTL DEF Spec

(***************************************************************************)
(* Queueing evidence against one validator keeps all evidence against the  *)
(* others and its order, at both caps and for any queue: an offender can   *)
(* only displace evidence against itself.                                  *)
(***************************************************************************)
THEOREM OthersKept == Spec => OthersEvidenceKept
<1>1. ASSUME Shape, NEW e \in Offenses, ProcessAttestation(e), NEW v \in Validators \ {e.addr}
      PROVE  SameAgainst(engine.queue, engine'.queue, v)
  <2>1. PICK q \in Seq(Offenses) : q = engine.queue
    BY <1>1 DEF Shape, EngineType
  <2>2. engine'.queue = QueueSlashingEvidence(q, e)
    BY <1>1, <2>1 DEF ProcessAttestation, Shape, EngineType
  <2>3. SameAgainst(q, QueueSlashingEvidence(q, e), v)
    BY QueueKeepsOthers
  <2> QED BY <2>1, <2>2, <2>3
<1>2. Shape /\ [Next]_vars =>
        [\A e \in Offenses : ProcessAttestation(e) =>
           \A v \in Validators \ {e.addr} : SameAgainst(engine.queue, engine'.queue, v)]_vars
  BY <1>1
<1> QED BY <1>2, ShapeCorrect, PTL DEF Spec, OthersEvidenceKept
=============================================================================
