----------------------- MODULE ThresholdSigning_proof -----------------------
(***************************************************************************)
(* Proofs about ThresholdSigning, for every threshold, every set of local  *)
(* signers and of parties they build, and whatever the other signers say.  *)
(*                                                                         *)
(* The inductive invariant says how the durable record of a signer, the    *)
(* party that runs for it and what it has broadcast hang together: the     *)
(* record binds one draw (Bound), a live party owns that draw (Owned), and *)
(* nothing was said that the record does not name (Licensed).  The bits    *)
(* are tracked separately (Bits...): a signer announces one bit, a bit a   *)
(* party holds was announced, and a stored response means that every local *)
(* signer announced acceptance.                                            *)
(***************************************************************************)
EXTENDS ThresholdSigning, TLAPS

Terminal == {"Finalized", "Burned"}

\* A record binds one value, in the order of its stages.
Bound(r) ==
  /\ Validate(r)
  /\ r.commitment # None => r.commitment = r.prepared
  /\ r.response # None => r.response = r.commitment
  /\ r.state \in {"Created", "Prepared"} => r.commitment = None
  /\ r.state \in {"Created", "Prepared", "Committed"} => r.response = None

\* A party that has not run yet.
Fresh(p) ==
  /\ p.parts = [j \in Signers |-> None] /\ p.accepts = [j \in Signers |-> None]
  /\ ~p.rejected /\ ~p.burned /\ ~p.signature

\* Party p of signer i, draw k, beside the signer's record r.
Owned(i, k, p, r) ==
  /\ p.phase \in {"unbuilt", "prepared"} => Fresh(p)
  /\ p.phase = "prepared" => r.prepared = k
  /\ p.phase = "running" =>
       /\ r.commitment = k
       /\ p.parts[i] # None <=> r.response # None
       /\ r.response # None => AllAccepted(p)
       /\ \A n \in 1..Len(p.outbound) :
            /\ p.outbound[n] = "response" => r.response = k
            /\ p.outbound[n] = "acceptance" => p.accepts[i] # None
       /\ p.rejected => p.burned
       /\ p.burned => r.state = "Burned"
       /\ p.signature => r.state = "Finalized"

Licensed(r, m) == m.value = IF m.kind = "response" THEN r.response ELSE r.commitment

Types ==
  /\ journal \in [Local -> SingleUseRecords]
  /\ party \in [Builds -> Parties]
  /\ sent \subseteq Messages
  /\ crashes \in 0..MaxCrashes /\ faults \in 0..MaxFaults

Records ==
  /\ \A i \in Local : Bound(journal[i])
  /\ \A q \in Builds : Owned(q[1], q[2], party[q], journal[q[1]])
  /\ \A m \in sent : m.from \in Local => Licensed(journal[m.from], m)

Announced(i, bit) == \E m \in sent : m.from = i /\ m.kind = "acceptance" /\ m.bit = bit

\* What a running party holds as bits: its own is the one it announced, the
\* others were announced.
BitsHeld ==
  \A q \in Builds : party[q].phase = "running" =>
    \A j \in Local, b \in Bits :
      /\ j = q[1] /\ Announced(j, b) => party[q].accepts[j] = b
      /\ j # q[1] /\ party[q].accepts[j] = b => Announced(j, b)

BitsUnique == \A i \in Local : ~(Announced(i, "yes") /\ Announced(i, "no"))

\* A stored response: every local signer has said yes, or can say nothing else.
BitsOpened ==
  \A i \in Local : journal[i].response # None =>
    /\ ~Announced(i, "no")
    /\ \A j \in Local \ {i} : Announced(j, "yes")

IInv == Types /\ Records /\ BitsHeld /\ BitsUnique /\ BitsOpened

------------------------------------------------------------------------------
(* Records.                                                                 *)

\* What a record names stays named, and a finished record stays as it is.
Keeps(r, t) ==
  /\ r.prepared # None => t.prepared = r.prepared
  /\ r.commitment # None => t.commitment = r.commitment
  /\ r.response # None => t.response = r.response
  /\ r.state \in Terminal => t = r

\* An allowed transition with the bound draw keeps a record well formed, and
\* keeps everything the record already names.
LEMMA TransitionBound ==
  ASSUME NEW r \in SingleUseRecords, Bound(r), NEW next \in Stages, NEW v \in Payload,
         allowedSingleUseTransition(r.state, next),
         next # "Burned" => v \in Values,
         next \in {"Committed", "Responded", "Finalized"} => v = r.prepared
  PROVE  LET t == Transition(r, next, v) IN
         t \in SingleUseRecords /\ Bound(t) /\ t.state = next /\ Keeps(r, t)
<1> DEFINE t == Transition(r, next, v)
<1>1. t \in SingleUseRecords
  BY DEF SingleUseRecords, Transition, Payload
<1>2. t.state = next
  BY DEF Transition
<1>3. Keeps(r, t)
  BY NoneAssumption DEF Keeps, Terminal, Bound, Validate, NewSingleUseRecord, Transition, allowedSingleUseTransition, Live, Stages, SingleUseRecords
<1>4. Bound(t)
  BY NoneAssumption DEF Bound, Validate, NewSingleUseRecord, Transition, allowedSingleUseTransition, Live, Stages, SingleUseRecords
<1> QED
  BY <1>1, <1>2, <1>3, <1>4

------------------------------------------------------------------------------
(* What a step is: one of eight effects on one party, its signer's record   *)
(* and the wire.                                                            *)

Turns(q, p) == party' = [party EXCEPT ![q] = p]

Writes(q, next) == CanAdvance(q[1], next) /\ journal' = Written(q[1], next, q[2])

Ends(q) ==
  /\ Turns(q, Closed(party[q])) /\ sent' = sent
  /\ journal' \in {journal, Burnt(q[1])}

Prepares(q) ==
  /\ party[q].phase = "unbuilt" /\ sent' = sent
  /\ Writes(q, "Prepared") /\ Turns(q, [party[q] EXCEPT !.phase = "prepared"])

Commits(q) ==
  /\ party[q].phase = "prepared" /\ sent' = sent
  /\ Writes(q, "Committed")
  /\ Turns(q, [party[q] EXCEPT !.phase = "running", !.commits[q[1]] = q[2],
                               !.outbound = <<"commit">>])

Receives(q) ==
  /\ party[q].phase = "running" /\ party[q].outbound = <<>> /\ sent' = sent /\ journal' = journal
  /\ \E m \in sent, bit \in Bits :
       /\ m.from # q[1] /\ Entered(party[q], m) = None
       /\ Turns(q, Rounds(q[1], q[2], Enter(party[q], m), bit))

Rejects(q) ==
  /\ party[q].phase = "running" /\ sent' = sent
  /\ CanAdvance(q[1], "Burned") /\ journal' = Burnt(q[1])
  /\ Turns(q, [party[q] EXCEPT !.rejected = TRUE, !.burned = TRUE])

Responds(q) ==
  /\ party[q].phase = "running" /\ AllAccepted(party[q]) /\ sent' = sent
  /\ Writes(q, "Responded")
  /\ Turns(q, [party[q] EXCEPT !.parts[q[1]] = q[2], !.outbound = Append(@, "response")])

Combines(q) ==
  /\ party[q].phase = "running" /\ sent' = sent
  /\ Writes(q, "Finalized") /\ Turns(q, [party[q] EXCEPT !.signature = TRUE])

Sends(q) ==
  /\ party[q].phase = "running" /\ party[q].outbound # <<>> /\ journal' = journal
  /\ sent' = sent \cup {Outgoing(q)}
  /\ Turns(q, [party[q] EXCEPT !.outbound = Tail(@)])

\* A node that stops: its parties are gone, and its record may be burned.
Stops(i) ==
  /\ sent' = sent /\ journal' \in {journal, Burnt(i)}
  /\ party' = [q \in Builds |->
                 IF q[1] = i /\ party[q].phase # "unbuilt" THEN Closed(party[q]) ELSE party[q]]

Effect(q) ==
  \/ Ends(q) \/ Prepares(q) \/ Commits(q) \/ Receives(q)
  \/ Rejects(q) \/ Responds(q) \/ Combines(q) \/ Sends(q)

\* Every action of a party has one of the eight effects.
LEMMA StepEffect ==
  ASSUME Types, NEW q \in Builds, Step(q)
  PROVE  Effect(q) /\ crashes' = crashes /\ faults' \in {faults, faults + 1} /\ faults' \in 0..MaxFaults
<1> USE DEF Effect, Turns, Writes, Ends
<1>0. ASSUME BurnAndClose(q, party[q])
      PROVE  /\ party' = [party EXCEPT ![q] = Closed(party[q])]
             /\ journal' \in {journal, Burnt(q[1])}
             /\ faults' \in {faults, faults + 1} /\ faults' \in 0..MaxFaults
  BY <1>0, SigningAssumption DEF BurnAndClose, Closes, Fault, Types
<1>1. ASSUME NEW next, NEW done, Advance(q, next, done)
      PROVE  /\ \/ Writes(q, next) /\ Turns(q, done)
                \/ Turns(q, Closed(party[q])) /\ journal' \in {journal, Burnt(q[1])}
             /\ faults' \in {faults, faults + 1} /\ faults' \in 0..MaxFaults
  BY <1>0, <1>1, SigningAssumption DEF Advance, Closes, Fault, Types
<1>2. CASE Start(q)
  BY <1>2, <1>1 DEF Start, Prepares
<1>3. CASE StartCommit(q)
  BY <1>3, <1>1 DEF StartCommit, Commits
<1>4. CASE Send(q)
  BY <1>4 DEF Send, Sends, Quiet, Types
<1>5. ASSUME NEW m \in sent, Deliver(q, m) PROVE Effect(q) /\ crashes' = crashes /\ faults' \in {faults, faults + 1} /\ faults' \in 0..MaxFaults
  BY <1>5, <1>0 DEF Deliver, Receives, Quiet, Types
<1>6. CASE Reject(q)
  BY <1>6, SigningAssumption DEF Reject, Rejects, Closes, Fault, Types
<1>7. CASE Respond(q)
  BY <1>7, <1>1 DEF Respond, Responds
<1>8. CASE Combine(q)
  BY <1>8, <1>0, <1>1 DEF Combine, Combines
<1>9. CASE Close(q)
  BY <1>9, <1>0 DEF Close, Closes, Types
<1>10. CASE SendFails(q)
  BY <1>10, SigningAssumption DEF SendFails, Closes, Fault, Types
<1> QED
  BY <1>2, <1>3, <1>4, <1>5, <1>6, <1>7, <1>8, <1>9, <1>10 DEF Step

------------------------------------------------------------------------------
(* What a write to one record does to the rest of the invariant.            *)

JournalStep(i) ==
  /\ journal' \in [Local -> SingleUseRecords]
  /\ \A j \in Local : Bound(journal'[j]) /\ Keeps(journal[j], journal'[j])
  /\ \A j \in Local \ {i} : journal'[j] = journal[j]

\* A burn, or nothing: what the record names does not change.
LEMMA BurnStep ==
  ASSUME Types, Records, NEW i \in Local, journal' \in {journal, Burnt(i)}
  PROVE  /\ JournalStep(i)
         /\ \A j \in Local : journal'[j].response = journal[j].response
<1>1. CASE journal' = journal
  BY <1>1 DEF JournalStep, Keeps, Types, Records
<1>2. CASE CanAdvance(i, "Burned") /\ journal' = Written(i, "Burned", None)
  <2>1. journal[i] \in SingleUseRecords /\ Bound(journal[i])
    BY DEF Types, Records
  <2> DEFINE t == Transition(journal[i], "Burned", None)
  <2>2. t \in SingleUseRecords /\ Bound(t) /\ Keeps(journal[i], t)
    BY <1>2, <2>1, TransitionBound DEF CanAdvance, Stages, Payload
  <2>3. t.response = journal[i].response
    BY DEF Transition
  <2>4. journal' = [journal EXCEPT ![i] = t]
    BY <1>2 DEF Written
  <2> HIDE DEF t
  <2> QED
    BY <2>1, <2>2, <2>3, <2>4 DEF JournalStep, Keeps, Types, Records
<1> QED
  BY <1>1, <1>2 DEF Burnt

\* A write of the party's own draw.
LEMMA WriteStep ==
  ASSUME Types, Records, NEW q \in Builds,
         NEW next \in {"Prepared", "Committed", "Responded", "Finalized"}, Writes(q, next),
         next # "Prepared" => q[2] = journal[q[1]].prepared
  PROVE  /\ JournalStep(q[1])
         /\ journal'[q[1]] = Transition(journal[q[1]], next, q[2])
<1>1. q[1] \in Local /\ q[2] \in Values
  BY SigningAssumption
<1>2. journal[q[1]] \in SingleUseRecords /\ Bound(journal[q[1]])
  BY <1>1 DEF Types, Records
<1> DEFINE t == Transition(journal[q[1]], next, q[2])
<1>3. t \in SingleUseRecords /\ Bound(t) /\ Keeps(journal[q[1]], t)
  BY <1>1, <1>2, TransitionBound DEF Writes, CanAdvance, Stages, Payload
<1>4. journal' = [journal EXCEPT ![q[1]] = t]
  BY DEF Writes, Written
<1> HIDE DEF t
<1>5. JournalStep(q[1]) /\ journal'[q[1]] = t
  BY <1>1, <1>2, <1>3, <1>4 DEF JournalStep, Keeps, Types, Records
<1> QED
  BY <1>5 DEF t

\* A party keeps owning its record when another one writes to it, unless that
\* write is a response.
LEMMA OwnedKept ==
  ASSUME NEW i \in Local, NEW k \in Values, NEW p \in Parties,
         NEW r \in SingleUseRecords, NEW t \in SingleUseRecords,
         Owned(i, k, p, r), Keeps(r, t), p.phase = "running" => t.response = r.response
  PROVE  Owned(i, k, p, t)
  BY NoneAssumption DEF Owned, Keeps, Terminal

\* A message the record licensed stays licensed.
LEMMA LicenceKept ==
  ASSUME NEW r \in SingleUseRecords, NEW t \in SingleUseRecords, NEW m \in Messages,
         Licensed(r, m), Keeps(r, t)
  PROVE  Licensed(t, m)
  BY NoneAssumption DEF Licensed, Keeps, Messages

\* Two live parties of one signer are one.
LEMMA OneLive ==
  ASSUME Types, Records, NEW q \in Builds, NEW s \in Builds, q[1] = s[1],
         party[q].phase \in {"prepared", "running"}, party[s].phase \in {"prepared", "running"}
  PROVE  q = s
<1>1. q[1] \in Local /\ q[2] \in Values /\ s[2] \in Values /\ q = <<q[1], q[2]>> /\ s = <<s[1], s[2]>>
  BY SigningAssumption
<1>2. Bound(journal[q[1]])
  BY <1>1 DEF Records
<1>3. journal[q[1]].prepared = q[2] /\ journal[q[1]].prepared = s[2]
  BY <1>1, <1>2, NoneAssumption DEF Records, Owned, Bound
<1> QED
  BY <1>1, <1>3
------------------------------------------------------------------------------
(* The invariant is kept: what all effects on one party have in common.     *)

\* Types and records, for an effect that broadcasts nothing.
LEMMA RecordsKept ==
  ASSUME Types, Records, NEW q \in Builds, NEW p \in Parties, Turns(q, p), sent' = sent,
         JournalStep(q[1]), Owned(q[1], q[2], p, journal'[q[1]]),
         \A s \in Builds \ {q} : s[1] = q[1] /\ party[s].phase = "running" =>
            journal'[q[1]].response = journal[q[1]].response,
         crashes' \in 0..MaxCrashes, faults' \in 0..MaxFaults
  PROVE  Types' /\ Records'
<1>1. Types'
  BY DEF Types, Turns, JournalStep
<1>2. \A j \in Local : Bound(journal'[j])
  BY DEF JournalStep
<1>3. ASSUME NEW s \in Builds PROVE Owned(s[1], s[2], party'[s], journal'[s[1]])
  <2>1. CASE s = q
    BY <2>1 DEF Turns, Types
  <2>2. CASE s # q
    <3>1. s[1] \in Local /\ s[2] \in Values /\ q[1] \in Local
      BY SigningAssumption
    <3>2. party'[s] = party[s] /\ party[s] \in Parties
      BY <2>2 DEF Turns, Types
    <3>3. /\ journal[s[1]] \in SingleUseRecords /\ journal'[s[1]] \in SingleUseRecords
          /\ Keeps(journal[s[1]], journal'[s[1]])
          /\ Owned(s[1], s[2], party[s], journal[s[1]])
      BY <3>1 DEF JournalStep, Types, Records
    <3>4. party[s].phase = "running" => journal'[s[1]].response = journal[s[1]].response
      BY <2>2, <3>1 DEF JournalStep
    <3> QED
      BY <3>1, <3>2, <3>3, <3>4, OwnedKept
  <2> QED
    BY <2>1, <2>2
<1>4. ASSUME NEW m \in sent', m.from \in Local PROVE Licensed(journal'[m.from], m)
  <2>1. m \in Messages /\ Licensed(journal[m.from], m)
    BY <1>4 DEF Types, Records
  <2>2. /\ journal[m.from] \in SingleUseRecords /\ journal'[m.from] \in SingleUseRecords
        /\ Keeps(journal[m.from], journal'[m.from])
    BY <1>4 DEF JournalStep, Types
  <2> QED
    BY <2>1, <2>2, LicenceKept
<1> QED
  BY <1>1, <1>2, <1>3, <1>4 DEF Records

\* The bits, for an effect that broadcasts nothing and leaves the party's bits
\* alone or ends it.
LEMMA BitsKept ==
  ASSUME Types, BitsHeld, BitsUnique, BitsOpened, NEW q \in Builds, NEW p, Turns(q, p),
         sent' = sent,
         p.phase = "running" => party[q].phase = "running" /\ p.accepts = party[q].accepts
  PROVE  /\ BitsHeld' /\ BitsUnique'
         /\ (\A j \in Local : journal'[j].response = journal[j].response) => BitsOpened'
<1>1. \A i, b : Announced(i, b)' <=> Announced(i, b)
  BY DEF Announced
<1>2. BitsUnique'
  BY <1>1 DEF BitsUnique
<1>3. ASSUME \A j \in Local : journal'[j].response = journal[j].response PROVE BitsOpened'
  BY <1>1, <1>3 DEF BitsOpened
<1>4. BitsHeld'
  <2>1. ASSUME NEW s \in Builds, party'[s].phase = "running"
        PROVE  party[s].phase = "running" /\ party'[s].accepts = party[s].accepts
    BY <2>1 DEF Turns, Types
  <2> QED
    BY <1>1, <2>1 DEF BitsHeld
<1> QED
  BY <1>2, <1>3, <1>4

\* A closed party is a party, and owns nothing of the record.
LEMMA ClosedParty ==
  ASSUME NEW p \in Parties
  PROVE  /\ Closed(p) \in Parties /\ Closed(p).phase = "closed"
         /\ \A i, k, r : Owned(i, k, Closed(p), r)
<1>1. Unbuilt \in Parties
  BY DEF Unbuilt, Parties, Payload
<1>2. Closed(p) \in Parties /\ Closed(p).phase = "closed"
  BY <1>1, Zenon DEF Closed, Parties
<1> QED
  BY <1>2 DEF Owned

------------------------------------------------------------------------------
(* The invariant is kept, effect by effect.                                 *)

\* A party that ends, with or without a burn, keeps the invariant.
LEMMA EndsKept ==
  ASSUME IInv, NEW q \in Builds, Ends(q), crashes' \in 0..MaxCrashes, faults' \in 0..MaxFaults
  PROVE  IInv'
<1>1. q[1] \in Local /\ party[q] \in Parties
  BY SigningAssumption DEF IInv, Types
<1>2. JournalStep(q[1]) /\ \A j \in Local : journal'[j].response = journal[j].response
  BY <1>1, BurnStep DEF IInv, Ends
<1>3. /\ Closed(party[q]) \in Parties /\ Closed(party[q]).phase = "closed"
      /\ Owned(q[1], q[2], Closed(party[q]), journal'[q[1]])
  BY <1>1, ClosedParty
<1>4. Types' /\ Records'
  BY <1>1, <1>2, <1>3, RecordsKept DEF IInv, Ends
<1>5. BitsHeld' /\ BitsUnique' /\ BitsOpened'
  BY <1>2, <1>3, BitsKept DEF IInv, Ends
<1> QED
  BY <1>4, <1>5 DEF IInv

\* So does a start that stores the prepared draw,
LEMMA PreparesKept ==
  ASSUME IInv, NEW q \in Builds, Prepares(q), crashes' \in 0..MaxCrashes, faults' \in 0..MaxFaults
  PROVE  IInv'
<1> DEFINE p == [party[q] EXCEPT !.phase = "prepared"]
<1>1. q[1] \in Local /\ q[2] \in Values /\ party[q] \in Parties /\ party[q].phase = "unbuilt"
  BY SigningAssumption DEF IInv, Types, Prepares
<1>2. JournalStep(q[1]) /\ journal'[q[1]] = Transition(journal[q[1]], "Prepared", q[2])
  BY WriteStep DEF IInv, Prepares
<1>3. Fresh(party[q])
  BY <1>1 DEF IInv, Records, Owned
<1>4. p \in Parties /\ Fresh(p) /\ p.phase = "prepared"
  BY <1>1, <1>3 DEF Parties, Fresh
<1>5. journal'[q[1]].prepared = q[2]
  BY <1>2 DEF Transition
<1>6. Owned(q[1], q[2], p, journal'[q[1]])
  BY <1>4, <1>5 DEF Owned
<1>7. \A j \in Local : journal'[j].response = journal[j].response
  BY <1>2 DEF JournalStep, Transition
<1>8. Turns(q, p) /\ sent' = sent
  BY DEF Prepares
<1> HIDE DEF p
<1>9. Types' /\ Records'
  BY <1>1, <1>2, <1>4, <1>6, <1>7, <1>8, RecordsKept DEF IInv
<1>10. BitsHeld' /\ BitsUnique' /\ BitsOpened'
  BY <1>4, <1>7, <1>8, BitsKept DEF IInv
<1> QED
  BY <1>9, <1>10 DEF IInv

\* one that stores the commitment and queues it,
LEMMA CommitsKept ==
  ASSUME IInv, NEW q \in Builds, Commits(q), crashes' \in 0..MaxCrashes, faults' \in 0..MaxFaults
  PROVE  IInv'
<1> DEFINE i == q[1]
           p == [party[q] EXCEPT !.phase = "running", !.commits[q[1]] = q[2],
                                 !.outbound = <<"commit">>]
<1>1. /\ i \in Local /\ i \in Signers /\ q[2] \in Values
      /\ party[q] \in Parties /\ party[q].phase = "prepared"
      /\ journal[i] \in SingleUseRecords /\ Bound(journal[i]) /\ journal[i].state = "Prepared"
  BY SigningAssumption DEF IInv, Types, Records, Commits, Writes, CanAdvance, allowedSingleUseTransition
<1>2. Fresh(party[q]) /\ journal[i].prepared = q[2]
  BY <1>1 DEF IInv, Records, Owned
<1>3. JournalStep(i) /\ journal'[i] = Transition(journal[i], "Committed", q[2])
  BY <1>2, WriteStep DEF IInv, Commits
<1>4. /\ p \in Parties /\ p.phase = "running" /\ p.outbound = <<"commit">>
      /\ p.parts = [j \in Signers |-> None] /\ p.accepts = [j \in Signers |-> None]
      /\ ~p.rejected /\ ~p.burned /\ ~p.signature
  <2>1. [party[q].commits EXCEPT ![i] = q[2]] \in [Signers -> Payload]
    BY <1>1 DEF Parties, Payload
  <2>2. <<"commit">> \in Seq(Kinds)
    BY DEF Kinds
  <2>3. /\ p \in Parties /\ p.phase = "running" /\ p.outbound = <<"commit">>
        /\ p.parts = party[q].parts /\ p.accepts = party[q].accepts
        /\ p.rejected = party[q].rejected /\ p.burned = party[q].burned
        /\ p.signature = party[q].signature
    BY <1>1, <2>1, <2>2, Zenon DEF Parties
  <2> QED
    BY <1>2, <2>3 DEF Fresh
<1>5. journal[i].response = None /\ journal[i].commitment = None
  BY <1>1 DEF Bound
<1>6. journal'[i].commitment = q[2] /\ journal'[i].response = None
  BY <1>3, <1>5 DEF Transition
<1>7. Turns(q, p) /\ sent' = sent
  BY DEF Commits
<1> HIDE DEF p
<1>8. Owned(i, q[2], p, journal'[i])
  BY <1>1, <1>4, <1>6, NoneAssumption DEF Owned
<1>9. Types' /\ Records'
  BY <1>1, <1>3, <1>4, <1>5, <1>6, <1>7, <1>8, RecordsKept DEF IInv
<1>10. \A j, b : Announced(j, b)' <=> Announced(j, b)
  BY <1>7 DEF Announced
<1>11. \A j \in Local : journal'[j].response = journal[j].response
  BY <1>3, <1>5, <1>6 DEF JournalStep
<1>12. \A b : ~Announced(i, b)
  <2>1. ASSUME NEW m \in sent, m.from = i PROVE m.kind # "acceptance"
    <3>1. m.value \in Values /\ Licensed(journal[i], m)
      BY <1>1, <2>1 DEF IInv, Types, Records, Messages
    <3> QED
      BY <1>5, <3>1, NoneAssumption DEF Licensed
  <2> QED
    BY <2>1 DEF Announced
<1>13. BitsHeld'
  <2>1. ASSUME NEW s \in Builds, party'[s].phase = "running", NEW j \in Local, NEW b \in Bits
        PROVE  /\ j = s[1] /\ Announced(j, b) => party'[s].accepts[j] = b
               /\ j # s[1] /\ party'[s].accepts[j] = b => Announced(j, b)
    <3>1. CASE s = q
      <4>1. party'[s].accepts[j] = None
        BY <1>4, <1>7, <3>1, SigningAssumption DEF Turns, IInv, Types
      <4> QED
        BY <1>12, <3>1, <4>1, SigningAssumption
    <3>2. CASE s # q
      BY <1>7, <2>1, <3>2 DEF Turns, IInv, Types, BitsHeld
    <3> QED
      BY <3>1, <3>2
  <2> QED
    BY <1>10, <2>1 DEF BitsHeld
<1> QED
  BY <1>9, <1>10, <1>11, <1>13 DEF IInv, BitsUnique, BitsOpened

\* a rejection, which burns the record,
LEMMA RejectsKept ==
  ASSUME IInv, NEW q \in Builds, Rejects(q), crashes' \in 0..MaxCrashes, faults' \in 0..MaxFaults
  PROVE  IInv'
<1> DEFINE i == q[1]
           p == [party[q] EXCEPT !.rejected = TRUE, !.burned = TRUE]
<1>1. /\ i \in Local /\ q[2] \in Values /\ party[q] \in Parties /\ party[q].phase = "running"
      /\ journal[i] \in SingleUseRecords /\ Owned(i, q[2], party[q], journal[i])
  BY SigningAssumption DEF IInv, Types, Records, Rejects
<1>2. JournalStep(i) /\ \A j \in Local : journal'[j].response = journal[j].response
  BY <1>1, BurnStep DEF IInv, Rejects
<1>3. /\ journal'[i].state = "Burned"
      /\ journal'[i].commitment = journal[i].commitment
      /\ journal'[i].response = journal[i].response
      /\ journal[i].state \notin Terminal
  BY <1>1 DEF Rejects, Burnt, Written, Transition, CanAdvance, allowedSingleUseTransition, Live, Terminal, IInv, Types
<1>4. /\ p \in Parties /\ p.phase = "running" /\ p.outbound = party[q].outbound
      /\ p.parts = party[q].parts /\ p.accepts = party[q].accepts
      /\ p.rejected /\ p.burned /\ p.signature = party[q].signature
  BY <1>1, Zenon DEF Parties
<1>5. ~p.signature
  BY <1>1, <1>3, <1>4 DEF Owned, Terminal
<1>6. Turns(q, p) /\ sent' = sent
  BY DEF Rejects
<1> HIDE DEF p
<1>7. Owned(i, q[2], p, journal'[i])
  BY <1>1, <1>3, <1>4, <1>5 DEF Owned, AllAccepted
<1>8. Types' /\ Records'
  BY <1>1, <1>2, <1>4, <1>6, <1>7, RecordsKept DEF IInv
<1>9. BitsHeld' /\ BitsUnique' /\ BitsOpened'
  BY <1>1, <1>2, <1>4, <1>6, BitsKept DEF IInv
<1> QED
  BY <1>8, <1>9 DEF IInv

\* the finished signature,
LEMMA CombinesKept ==
  ASSUME IInv, NEW q \in Builds, Combines(q), crashes' \in 0..MaxCrashes, faults' \in 0..MaxFaults
  PROVE  IInv'
<1> DEFINE i == q[1]
           p == [party[q] EXCEPT !.signature = TRUE]
<1>1. /\ i \in Local /\ q[2] \in Values /\ party[q] \in Parties /\ party[q].phase = "running"
      /\ journal[i] \in SingleUseRecords /\ Bound(journal[i])
      /\ Owned(i, q[2], party[q], journal[i]) /\ journal[i].state = "Responded"
  BY SigningAssumption DEF IInv, Types, Records, Combines, Writes, CanAdvance, allowedSingleUseTransition
<1>2. journal[i].prepared = q[2]
  BY <1>1, NoneAssumption DEF Owned, Bound
<1>3. JournalStep(i) /\ journal'[i] = Transition(journal[i], "Finalized", q[2])
  BY <1>2, WriteStep DEF IInv, Combines
<1>4. /\ journal'[i].state = "Finalized"
      /\ journal'[i].commitment = journal[i].commitment
      /\ journal'[i].response = journal[i].response
  BY <1>3 DEF Transition
<1>5. /\ p \in Parties /\ p.phase = "running" /\ p.outbound = party[q].outbound
      /\ p.parts = party[q].parts /\ p.accepts = party[q].accepts
      /\ p.rejected = party[q].rejected /\ p.burned = party[q].burned
  BY <1>1, Zenon DEF Parties
<1>6. ~p.burned /\ ~p.rejected
  BY <1>1, <1>5 DEF Owned
<1>7. Turns(q, p) /\ sent' = sent
  BY DEF Combines
<1> HIDE DEF p
<1>8. Owned(i, q[2], p, journal'[i])
  BY <1>1, <1>4, <1>5, <1>6 DEF Owned, AllAccepted
<1>9. Types' /\ Records'
  BY <1>1, <1>3, <1>4, <1>5, <1>7, <1>8, RecordsKept DEF IInv
<1>10. BitsHeld' /\ BitsUnique' /\ BitsOpened'
  BY <1>1, <1>3, <1>4, <1>5, <1>7, BitsKept DEF IInv, JournalStep
<1> QED
  BY <1>9, <1>10 DEF IInv

\* a response, stored once every signer has accepted,
LEMMA RespondsKept ==
  ASSUME IInv, NEW q \in Builds, Responds(q), crashes' \in 0..MaxCrashes, faults' \in 0..MaxFaults
  PROVE  IInv'
<1> DEFINE i == q[1]
           p == [party[q] EXCEPT !.parts[q[1]] = q[2], !.outbound = Append(@, "response")]
<1>1. /\ i \in Local /\ i \in Signers /\ q[2] \in Values
      /\ party[q] \in Parties /\ party[q].phase = "running" /\ AllAccepted(party[q])
      /\ journal[i] \in SingleUseRecords /\ Bound(journal[i])
      /\ Owned(i, q[2], party[q], journal[i]) /\ journal[i].state = "Committed"
  BY SigningAssumption DEF IInv, Types, Records, Responds, Writes, CanAdvance, allowedSingleUseTransition
<1>2. journal[i].prepared = q[2]
  BY <1>1, NoneAssumption DEF Owned, Bound
<1>3. JournalStep(i) /\ journal'[i] = Transition(journal[i], "Responded", q[2])
  BY <1>2, WriteStep DEF IInv, Responds
<1>4. journal'[i].commitment = q[2] /\ journal'[i].response = q[2]
  BY <1>1, <1>3 DEF Transition, Owned
<1>5. /\ p \in Parties /\ p.phase = "running" /\ p.outbound = Append(party[q].outbound, "response")
      /\ p.parts[i] = q[2] /\ p.accepts = party[q].accepts
      /\ p.rejected = party[q].rejected /\ p.burned = party[q].burned
      /\ p.signature = party[q].signature
  <2>1. [party[q].parts EXCEPT ![i] = q[2]] \in [Signers -> Payload]
    BY <1>1 DEF Parties, Payload
  <2>2. Append(party[q].outbound, "response") \in Seq(Kinds)
    BY <1>1 DEF Parties, Kinds
  <2>3. [party[q].parts EXCEPT ![i] = q[2]][i] = q[2]
    BY <1>1 DEF Parties
  <2> QED
    BY <1>1, <2>1, <2>2, <2>3, Zenon DEF Parties
<1>6. ~p.burned /\ ~p.rejected /\ ~p.signature
  BY <1>1, <1>5 DEF Owned
<1>7. \A n \in 1..Len(p.outbound) : p.outbound[n] = "acceptance" => p.accepts[i] # None
  BY <1>1, <1>5, SigningAssumption DEF AllAccepted, Bits
<1>8. Turns(q, p) /\ sent' = sent
  BY DEF Responds
<1> HIDE DEF p
<1>9. Owned(i, q[2], p, journal'[i])
  BY <1>1, <1>4, <1>5, <1>6, <1>7, NoneAssumption DEF Owned, AllAccepted
<1>10. \A s \in Builds \ {q} : s[1] = i => party[s].phase # "running"
  BY <1>1, OneLive DEF IInv
<1>11. Types' /\ Records'
  BY <1>3, <1>5, <1>8, <1>9, <1>10, RecordsKept DEF IInv
<1>12. BitsHeld' /\ BitsUnique'
  BY <1>1, <1>5, <1>8, BitsKept DEF IInv
<1>13. BitsOpened'
  <2>1. \A j, b : Announced(j, b)' <=> Announced(j, b)
    BY <1>8 DEF Announced
  <2>2. "yes" \in Bits /\ "no" \in Bits
    BY DEF Bits
  <2>3. ~Announced(i, "no") /\ \A j \in Local \ {i} : Announced(j, "yes")
    BY <1>1, <2>2, SigningAssumption DEF IInv, BitsHeld, AllAccepted
  <2>4. \A j \in Local \ {i} : journal'[j].response = journal[j].response
    BY <1>3 DEF JournalStep
  <2> QED
    BY <1>1, <2>1, <2>3, <2>4 DEF IInv, BitsOpened
<1> QED
  BY <1>11, <1>12, <1>13 DEF IInv

\* What message m and the rounds it completes make of signer i's party p.
Received(i, p, m, r) ==
  /\ r \in Parties /\ r.phase = p.phase /\ r.parts[i] = p.parts[i]
  /\ r.burned = p.burned /\ r.rejected = p.rejected /\ r.signature = p.signature
  /\ \A n \in 1..Len(r.outbound) :
       /\ r.outbound[n] # "response"
       /\ r.outbound[n] = "acceptance" => r.accepts[i] # None
  /\ p.accepts[i] # None => r.accepts[i] = p.accepts[i]
  /\ \A j \in Signers \ {i} :
       IF m.kind = "acceptance" /\ m.from = j THEN r.accepts[j] = m.bit
                                              ELSE r.accepts[j] = p.accepts[j]

\* What delivering a message does to a party of signer i.
LEMMA RoundsEffect ==
  ASSUME NEW i \in Signers, NEW k \in Values, NEW p \in Parties, NEW m \in Messages,
         NEW bit \in Bits, m.from # i, p.outbound = <<>>
  PROVE  Received(i, p, m, Rounds(i, k, Enter(p, m), bit))
<1> DEFINE e == Enter(p, m)
<1>1. /\ e \in Parties /\ e.phase = p.phase /\ e.parts[i] = p.parts[i] /\ e.outbound = <<>>
      /\ e.burned = p.burned /\ e.rejected = p.rejected /\ e.signature = p.signature
      /\ e.accepts[i] = p.accepts[i]
      /\ \A j \in Signers \ {i} :
           IF m.kind = "acceptance" /\ m.from = j THEN e.accepts[j] = m.bit
                                                  ELSE e.accepts[j] = p.accepts[j]
  <2>0. m.from \in Signers /\ m.value \in Payload /\ m.bit \in Bits \cup {None}
    BY DEF Messages, Payload
  <2>1. CASE m.kind = "commit"
    <3>1. e = [p EXCEPT !.commits[m.from] = m.value]
      BY <2>1 DEF Enter
    <3> QED
      BY <2>0, <2>1, <3>1 DEF Parties
  <2>2. CASE m.kind = "reveal"
    <3>1. e = [p EXCEPT !.reveals[m.from] = m.value]
      BY <2>2 DEF Enter
    <3> QED
      BY <2>0, <2>2, <3>1 DEF Parties
  <2>3. CASE m.kind = "acceptance"
    <3>1. e = [p EXCEPT !.accepts[m.from] = m.bit]
      BY <2>3 DEF Enter
    <3> QED
      BY <2>0, <2>3, <3>1 DEF Parties
  <2>4. CASE m.kind = "response"
    <3>1. e = [p EXCEPT !.parts[m.from] = m.value]
      BY <2>4 DEF Enter
    <3> QED
      BY <2>0, <2>4, <3>1 DEF Parties
  <2> QED
    BY <2>1, <2>2, <2>3, <2>4 DEF Messages, Kinds
<1> HIDE DEF e
<1> DEFINE r == IF Complete(e.commits) /\ e.reveals[i] = None
                THEN [e EXCEPT !.reveals[i] = k, !.outbound = Append(@, "reveal")] ELSE e
<1>2. /\ r \in Parties /\ r.phase = e.phase /\ r.parts = e.parts /\ r.accepts = e.accepts
      /\ r.burned = e.burned /\ r.rejected = e.rejected /\ r.signature = e.signature
      /\ r.outbound \in {<<>>, <<"reveal">>}
  <2>1. [e.reveals EXCEPT ![i] = k] \in [Signers -> Payload]
    BY <1>1 DEF Parties, Payload
  <2>2. Append(e.outbound, "reveal") \in Seq(Kinds) /\ Append(e.outbound, "reveal") = <<"reveal">>
    BY <1>1 DEF Kinds
  <2> QED
    BY <1>1, <2>1, <2>2, Zenon DEF Parties
<1> HIDE DEF r
<1> DEFINE t == IF Complete(r.commits) /\ Complete(r.reveals) /\ r.accepts[i] = None
                THEN [r EXCEPT !.accepts[i] = bit, !.outbound = Append(@, "acceptance")] ELSE r
<1>3. /\ t \in Parties /\ t.phase = r.phase /\ t.parts = r.parts
      /\ t.burned = r.burned /\ t.rejected = r.rejected /\ t.signature = r.signature
      /\ r.accepts[i] # None => t.accepts[i] = r.accepts[i]
      /\ \A j \in Signers \ {i} : t.accepts[j] = r.accepts[j]
      /\ \A n \in 1..Len(t.outbound) :
           /\ t.outbound[n] # "response"
           /\ t.outbound[n] = "acceptance" => t.accepts[i] # None
  <2>1. r.outbound \in Seq(Kinds) /\ \A n \in 1..Len(r.outbound) : r.outbound[n] = "reveal"
    <3>1. CASE r.outbound = <<>>
      BY <3>1
    <3>2. CASE r.outbound = <<"reveal">>
      BY <3>2 DEF Kinds
    <3> QED
      BY <1>2, <3>1, <3>2
  <2>2. Append(r.outbound, "acceptance") \in Seq(Kinds)
    BY <2>1 DEF Kinds
  <2>3. \A n \in 1..Len(Append(r.outbound, "acceptance")) : Append(r.outbound, "acceptance")[n] # "response"
    BY <2>1
  <2>4. CASE Complete(r.commits) /\ Complete(r.reveals) /\ r.accepts[i] = None
    <3>1. [r.accepts EXCEPT ![i] = bit] \in [Signers -> Bits \cup {None}]
      BY <1>2 DEF Parties
    <3>2. t = [r EXCEPT !.accepts[i] = bit, !.outbound = Append(@, "acceptance")]
      BY <2>4
    <3>3. /\ t \in Parties /\ t.phase = r.phase /\ t.parts = r.parts
          /\ t.burned = r.burned /\ t.rejected = r.rejected /\ t.signature = r.signature
          /\ t.accepts = [r.accepts EXCEPT ![i] = bit]
          /\ t.outbound = Append(r.outbound, "acceptance")
      BY <1>2, <2>2, <3>1, <3>2, Zenon DEF Parties
    <3>4. t.accepts[i] = bit /\ \A j \in Signers \ {i} : t.accepts[j] = r.accepts[j]
      BY <1>2, <3>3 DEF Parties
    <3> QED
      BY <2>3, <2>4, <3>3, <3>4, SigningAssumption
  <2>5. CASE ~(Complete(r.commits) /\ Complete(r.reveals) /\ r.accepts[i] = None)
    <3>1. t = r
      BY <2>5
    <3> QED
      BY <1>2, <2>1, <3>1, Zenon
  <2> QED
    BY <2>4, <2>5
<1>4. Rounds(i, k, e, bit) = t
  BY DEF Rounds, r, t
<1> HIDE DEF t
<1> QED
  BY <1>1, <1>2, <1>3, <1>4 DEF e, Received

\* a message with the rounds it completes,
LEMMA ReceivesKept ==
  ASSUME IInv, NEW q \in Builds, Receives(q), crashes' \in 0..MaxCrashes, faults' \in 0..MaxFaults
  PROVE  IInv'
<1> DEFINE i == q[1]
<1>1. PICK m \in sent, bit \in Bits :
        /\ m.from # i /\ Entered(party[q], m) = None
        /\ Turns(q, Rounds(i, q[2], Enter(party[q], m), bit))
  BY DEF Receives
<1> DEFINE p == Rounds(i, q[2], Enter(party[q], m), bit)
<1>2. /\ i \in Local /\ i \in Signers /\ q[2] \in Values /\ m \in Messages
      /\ party[q] \in Parties /\ party[q].phase = "running" /\ party[q].outbound = <<>>
      /\ journal[i] \in SingleUseRecords /\ Owned(i, q[2], party[q], journal[i])
  BY SigningAssumption DEF IInv, Types, Records, Receives
<1>3. /\ p \in Parties /\ p.phase = "running" /\ p.parts[i] = party[q].parts[i]
      /\ p.burned = party[q].burned /\ p.rejected = party[q].rejected
      /\ p.signature = party[q].signature
      /\ \A n \in 1..Len(p.outbound) :
           /\ p.outbound[n] # "response"
           /\ p.outbound[n] = "acceptance" => p.accepts[i] # None
      /\ party[q].accepts[i] # None => p.accepts[i] = party[q].accepts[i]
      /\ \A j \in Signers \ {i} :
           IF m.kind = "acceptance" /\ m.from = j THEN p.accepts[j] = m.bit
                                                  ELSE p.accepts[j] = party[q].accepts[j]
  <2>1. Received(i, party[q], m, p)
    BY <1>1, <1>2, RoundsEffect, Zenon
  <2> HIDE DEF p
  <2> QED
    BY <1>2, <2>1, Zenon DEF Received
<1>4. Turns(q, p) /\ sent' = sent /\ journal' = journal
  BY <1>1 DEF Receives
<1> HIDE DEF p
<1>5. AllAccepted(party[q]) => AllAccepted(p)
  <2>1. m.kind = "acceptance" => party[q].accepts[m.from] = None
    BY <1>1 DEF Entered
  <2> QED
    BY <1>2, <1>3, <2>1, SigningAssumption DEF AllAccepted, Bits, Messages
<1>6. Owned(i, q[2], p, journal'[i])
  BY <1>2, <1>3, <1>4, <1>5 DEF Owned
<1>7. JournalStep(i)
  BY <1>4 DEF JournalStep, Keeps, IInv, Types, Records
<1>8. Types' /\ Records'
  BY <1>3, <1>4, <1>6, <1>7, RecordsKept DEF IInv
<1>9. \A j, b : Announced(j, b)' <=> Announced(j, b)
  BY <1>4 DEF Announced
<1>10. BitsHeld'
  <2>1. ASSUME NEW s \in Builds, party'[s].phase = "running", NEW j \in Local, NEW b \in Bits
        PROVE  /\ j = s[1] /\ Announced(j, b) => party'[s].accepts[j] = b
               /\ j # s[1] /\ party'[s].accepts[j] = b => Announced(j, b)
    <3>1. CASE s = q
      <4>1. party'[s] = p
        BY <1>4, <3>1 DEF Turns, IInv, Types
      <4>2. j = i /\ Announced(j, b) => p.accepts[j] = b
        BY <1>2, <1>3, SigningAssumption DEF IInv, BitsHeld
      <4>3. j # i /\ p.accepts[j] = b => Announced(j, b)
        <5>1. CASE m.kind = "acceptance" /\ m.from = j
          BY <1>1, <1>3, <5>1, SigningAssumption DEF Announced
        <5>2. CASE ~(m.kind = "acceptance" /\ m.from = j)
          BY <1>2, <1>3, <5>2, SigningAssumption DEF IInv, BitsHeld
        <5> QED
          BY <5>1, <5>2
      <4> QED
        BY <3>1, <4>1, <4>2, <4>3
    <3>2. CASE s # q
      BY <1>4, <2>1, <3>2 DEF Turns, IInv, Types, BitsHeld
    <3> QED
      BY <3>1, <3>2
  <2> QED
    BY <1>9, <2>1 DEF BitsHeld
<1> QED
  BY <1>4, <1>8, <1>9, <1>10 DEF IInv, BitsUnique, BitsOpened

\* a message that leaves,
LEMMA SendsKept ==
  ASSUME IInv, NEW q \in Builds, Sends(q), crashes' \in 0..MaxCrashes, faults' \in 0..MaxFaults
  PROVE  IInv'
<1> DEFINE i == q[1]
           p == [party[q] EXCEPT !.outbound = Tail(@)]
           m == Outgoing(q)
<1>1. /\ i \in Local /\ i \in Signers /\ q[2] \in Values
      /\ party[q] \in Parties /\ party[q].phase = "running"
      /\ party[q].outbound \in Seq(Kinds) /\ party[q].outbound # <<>>
      /\ journal[i] \in SingleUseRecords /\ Bound(journal[i])
      /\ Owned(i, q[2], party[q], journal[i])
  BY SigningAssumption DEF IInv, Types, Records, Sends, Parties
<1>2. /\ p \in Parties /\ p.phase = "running" /\ p.outbound = Tail(party[q].outbound)
      /\ p.parts = party[q].parts /\ p.accepts = party[q].accepts
      /\ p.rejected = party[q].rejected /\ p.burned = party[q].burned
      /\ p.signature = party[q].signature
  <2>1. Tail(party[q].outbound) \in Seq(Kinds)
    BY <1>1
  <2> QED
    BY <1>1, <2>1, Zenon DEF Parties
<1>3. /\ Head(party[q].outbound) \in Kinds
      /\ Head(party[q].outbound) = party[q].outbound[1] /\ 1 \in 1..Len(party[q].outbound)
  BY <1>1
<1>4. /\ m \in Messages /\ m.from = i /\ m.value = q[2] /\ m.kind = Head(party[q].outbound)
      /\ m.kind = "acceptance" => m.bit = party[q].accepts[i] /\ m.bit \in Bits
  BY <1>1, <1>3, Zenon DEF Outgoing, Message, Messages, Parties, Owned
<1>5. Licensed(journal[i], m)
  BY <1>1, <1>3, <1>4 DEF Licensed, Owned
<1>6. Owned(i, q[2], p, journal[i])
  <2>1. \A n \in 1..Len(p.outbound) : n + 1 \in 1..Len(party[q].outbound) /\ p.outbound[n] = party[q].outbound[n + 1]
    BY <1>1, <1>2
  <2> QED
    BY <1>1, <1>2, <2>1 DEF Owned, AllAccepted
<1>7. Turns(q, p) /\ sent' = sent \cup {m} /\ journal' = journal
  BY DEF Sends
<1> HIDE DEF p, m
<1>8. Types'
  BY <1>2, <1>4, <1>7 DEF IInv, Types, Turns
<1>9. Records'
  <2>1. \A s \in Builds : Owned(s[1], s[2], party'[s], journal'[s[1]])
    BY <1>6, <1>7 DEF IInv, Types, Records, Turns
  <2>2. \A n \in sent' : n.from \in Local => Licensed(journal'[n.from], n)
    BY <1>4, <1>5, <1>7 DEF IInv, Records
  <2> QED
    BY <1>7, <2>1, <2>2 DEF IInv, Records
<1>10. \A j, b : Announced(j, b)' <=>
         Announced(j, b) \/ (m.kind = "acceptance" /\ j = i /\ b = m.bit)
  BY <1>4, <1>7 DEF Announced
<1>11. m.kind = "acceptance" => \A b \in Bits : Announced(i, b) => b = m.bit
  BY <1>1, <1>4, SigningAssumption DEF IInv, BitsHeld
<1>12. BitsUnique'
  BY <1>10, <1>11 DEF IInv, BitsUnique, Bits
<1>13. BitsOpened'
  <2>1. ASSUME journal[i].response # None, m.kind = "acceptance" PROVE m.bit = "yes"
    BY <1>1, <1>4, <2>1 DEF Owned, AllAccepted
  <2> QED
    BY <1>1, <1>7, <1>10, <2>1 DEF IInv, BitsOpened
<1>14. BitsHeld'
  <2>1. ASSUME NEW s \in Builds, party'[s].phase = "running", NEW j \in Local, NEW b \in Bits
        PROVE  /\ j = s[1] /\ Announced(j, b)' => party'[s].accepts[j] = b
               /\ j # s[1] /\ party'[s].accepts[j] = b => Announced(j, b)'
    <3>1. party[s].phase = "running" /\ party'[s].accepts = party[s].accepts
      BY <1>1, <1>2, <1>7, <2>1 DEF Turns, IInv, Types
    <3>2. s[1] = i => s = q
      BY <1>1, <3>1, OneLive DEF IInv
    <3> QED
      BY <1>4, <1>10, <3>1, <3>2, SigningAssumption DEF IInv, BitsHeld
  <2> QED
    BY <2>1 DEF BitsHeld
<1> QED
  BY <1>8, <1>9, <1>12, <1>13, <1>14 DEF IInv

\* and a crash with the recovery of the journal.
LEMMA StopsKept ==
  ASSUME IInv, NEW i \in Local, Stops(i), crashes' \in 0..MaxCrashes, faults' \in 0..MaxFaults
  PROVE  IInv'
<1>1. JournalStep(i) /\ \A j \in Local : journal'[j].response = journal[j].response
  BY BurnStep DEF IInv, Stops
<1>2. ASSUME NEW s \in Builds
      PROVE  /\ party'[s] \in Parties /\ Owned(s[1], s[2], party'[s], journal'[s[1]])
             /\ party'[s].phase = "running" => party'[s] = party[s]
  <2>1. s[1] \in Local /\ s[2] \in Values /\ party[s] \in Parties
    BY SigningAssumption DEF IInv, Types
  <2>2. /\ journal[s[1]] \in SingleUseRecords /\ journal'[s[1]] \in SingleUseRecords
        /\ Keeps(journal[s[1]], journal'[s[1]])
        /\ Owned(s[1], s[2], party[s], journal[s[1]])
    BY <1>1, <2>1 DEF JournalStep, IInv, Types, Records
  <2>3. Owned(s[1], s[2], party[s], journal'[s[1]])
    BY <1>1, <2>1, <2>2, OwnedKept
  <2>4. party'[s] \in {party[s], Closed(party[s])}
    BY DEF Stops
  <2> QED
    BY <2>1, <2>3, <2>4, ClosedParty
<1>3. Types'
  BY <1>1, <1>2 DEF Stops, JournalStep, IInv, Types
<1>4. \A m \in sent' : m.from \in Local => Licensed(journal'[m.from], m)
  BY <1>1, LicenceKept DEF Stops, JournalStep, IInv, Types, Records
<1>5. Records'
  BY <1>1, <1>2, <1>4 DEF JournalStep, Records
<1>6. \A j, b : Announced(j, b)' <=> Announced(j, b)
  BY DEF Announced, Stops
<1>7. BitsHeld' /\ BitsUnique' /\ BitsOpened'
  BY <1>1, <1>2, <1>6 DEF IInv, BitsHeld, BitsUnique, BitsOpened
<1> QED
  BY <1>3, <1>5, <1>7 DEF IInv

\* A crash stops the parties of a node.
LEMMA CrashEffect ==
  ASSUME Types, NEW i \in Local, Crash(i)
  PROVE  Stops(i) /\ crashes' \in 0..MaxCrashes /\ faults' = faults
<1>1. journal' \in {journal, Burnt(i)}
  BY DEF Crash, Burnt, CanAdvance, allowedSingleUseTransition, Live
<1> QED
  BY <1>1, SigningAssumption DEF Crash, Stops, Types

\* The invariant holds when no party is built and every record is new.
LEMMA InitInv == Init => IInv
<1> SUFFICES ASSUME Init PROVE IInv
  OBVIOUS
<1>1. Unbuilt \in Parties /\ Unbuilt.phase = "unbuilt" /\ Fresh(Unbuilt)
  BY DEF Unbuilt, Parties, Payload, Fresh
<1>2. NewSingleUseRecord \in SingleUseRecords /\ Bound(NewSingleUseRecord)
  BY DEF NewSingleUseRecord, SingleUseRecords, Payload, Stages, Bound, Validate
<1>3. Types
  BY <1>1, <1>2, SigningAssumption DEF Init, Types
<1>4. Records
  <2>1. \A q \in Builds : q[1] \in Local /\ Owned(q[1], q[2], party[q], journal[q[1]])
    BY <1>1, SigningAssumption DEF Init, Owned
  <2> QED
    BY <1>2, <2>1, SigningAssumption DEF Init, Records
<1>5. BitsHeld /\ BitsUnique /\ BitsOpened
  BY <1>1, SigningAssumption DEF Init, BitsHeld, BitsUnique, BitsOpened, Announced, NewSingleUseRecord
<1> QED
  BY <1>3, <1>4, <1>5 DEF IInv

\* Every step keeps it: one case per effect.
LEMMA NextInv == IInv /\ [Next]_vars => IInv'
<1> SUFFICES ASSUME IInv, [Next]_vars PROVE IInv'
  OBVIOUS
<1>0. Types
  BY DEF IInv
<1>1. ASSUME NEW q \in Builds, Step(q) PROVE IInv'
  <2>1. Effect(q) /\ crashes' \in 0..MaxCrashes /\ faults' \in 0..MaxFaults
    BY <1>0, <1>1, StepEffect DEF Types
  <2> QED
    BY <2>1, EndsKept, PreparesKept, CommitsKept, ReceivesKept, RejectsKept, RespondsKept,
       CombinesKept, SendsKept DEF Effect
<1>2. ASSUME NEW i \in Local, Crash(i) PROVE IInv'
  BY <1>0, <1>2, CrashEffect, StopsKept DEF Types
<1>3. CASE UNCHANGED vars
  <2>1. UNCHANGED <<journal, party, sent, crashes, faults>>
    BY <1>3 DEF vars
  <2>2. Types'
    BY <1>0, <2>1, Zenon DEF Types
  <2>3. Records'
    BY <2>1, Zenon DEF IInv, Records
  <2>4. BitsHeld'
    BY <2>1 DEF IInv, BitsHeld, Announced
  <2>5. BitsUnique' /\ BitsOpened'
    BY <2>1 DEF IInv, BitsUnique, BitsOpened, Announced
  <2> QED
    BY <2>2, <2>3, <2>4, <2>5, Zenon DEF IInv
<1> QED
  BY <1>1, <1>2, <1>3 DEF Next

------------------------------------------------------------------------------
(* Theorems.                                                                *)

\* The inductive invariant.
LEMMA Invariance == Spec => []IInv
  BY InitInv, NextInv, PTL DEF Spec

\* Every variable keeps its type, and every record is one Validate accepts.
THEOREM TypeCorrect == Spec => []TypeOK
<1>1. IInv => TypeOK
  BY Zenon DEF IInv, Types, Records, Bound, TypeOK
<1> QED
  BY <1>1, Invariance, PTL

\* However many parties a node builds for a session, all it broadcasts comes
\* from one draw of its randomness.
THEOREM NoSecondTranscript == Spec => []OneTranscript
<1>1. IInv => OneTranscript
  <2> SUFFICES ASSUME IInv, NEW i \in Local, NEW m \in sent, NEW n \in sent,
                      m.from = i, n.from = i
               PROVE  m.value = n.value
    BY DEF OneTranscript, SU!OneTranscript, Said
  <2>1. /\ m.value \in Values /\ n.value \in Values /\ Bound(journal[i])
        /\ Licensed(journal[i], m) /\ Licensed(journal[i], n)
    BY DEF IInv, Types, Records, Messages
  <2> QED
    BY <2>1, NoneAssumption DEF Licensed, Bound
<1> QED
  BY <1>1, Invariance, PTL

\* A rejection announced by one local signer keeps the responses of all of them
\* in.
THEOREM RejectionHolds == Spec => []RejectedSlotOpensNothing
<1>1. IInv => RejectedSlotOpensNothing
  <2> SUFFICES ASSUME IInv, NEW m \in sent, NEW n \in sent,
                      m.from \in Local, m.kind = "acceptance", m.bit = "no",
                      n.from \in Local, n.kind = "response"
               PROVE  FALSE
    BY DEF RejectedSlotOpensNothing
  <2>1. journal[n.from].response # None
    BY NoneAssumption DEF IInv, Types, Records, Licensed, Messages
  <2>2. Announced(m.from, "no")
    BY DEF Announced
  <2> QED
    BY <2>1, <2>2 DEF IInv, BitsOpened, BitsUnique
<1> QED
  BY <1>1, Invariance, PTL
------------------------------------------------------------------------------
(* The refinement.                                                          *)

said == [i \in Local |-> Said(i)]

\* The abstract journal has its record operators from the same module.
LEMMA SameRecords ==
  /\ SU!Stages = Stages /\ SU!NewSingleUseRecord = NewSingleUseRecord
  /\ \A r, next, v : SU!Transition(r, next, v) = Transition(r, next, v)
  /\ \A c, next : SU!allowedSingleUseTransition(c, next) <=> allowedSingleUseTransition(c, next)
  BY DEF SU!Stages, Stages, SU!NewSingleUseRecord, NewSingleUseRecord, SU!Transition, Transition,
         SU!allowedSingleUseTransition, allowedSingleUseTransition, SU!Live, Live

\* A burn, or nothing, is a step of the abstract journal or a stutter.
LEMMA BurnRefines ==
  ASSUME IInv, NEW i \in Local, journal' \in {journal, Burnt(i)}, sent' = sent
  PROVE  [SU!Next]_<<journal, said>>
<1>1. said' = said
  BY DEF said, Said
<1>2. CASE CanAdvance(i, "Burned") /\ journal' = Written(i, "Burned", None)
  <2>1. SU!Advance(i)
    BY <1>1, <1>2, SameRecords, Zenon DEF SU!Advance, Written, CanAdvance, Stages, said
  <2> QED
    BY <2>1 DEF SU!Next
<1>3. CASE journal' = journal
  BY <1>1, <1>3
<1> QED
  BY <1>2, <1>3 DEF Burnt

\* So is a write of the party's own draw.
LEMMA WriteRefines ==
  ASSUME IInv, NEW q \in Builds, sent' = sent,
         NEW next \in {"Prepared", "Committed", "Responded", "Finalized"}, Writes(q, next),
         next # "Prepared" => q[2] = journal[q[1]].prepared
  PROVE  [SU!Next]_<<journal, said>>
<1>1. q[1] \in Local /\ q[2] \in Values
  BY SigningAssumption
<1>2. said' = said
  BY DEF said, Said
<1>3. SU!Advance(q[1])
  BY <1>1, <1>2, SameRecords, Zenon DEF SU!Advance, Writes, Written, CanAdvance, Stages, said
<1> QED
  BY <1>1, <1>3 DEF SU!Next

\* A sent message is one the abstract record licenses.
LEMMA SendRefines ==
  ASSUME IInv, NEW q \in Builds, Sends(q)
  PROVE  [SU!Next]_<<journal, said>>
<1> DEFINE i == q[1]
           m == Outgoing(q)
<1>1. /\ i \in Local /\ q[2] \in Values
      /\ party[q] \in Parties /\ party[q].phase = "running"
      /\ party[q].outbound \in Seq(Kinds) /\ party[q].outbound # <<>>
      /\ Owned(i, q[2], party[q], journal[i])
  BY SigningAssumption DEF IInv, Types, Records, Sends, Parties
<1>2. /\ Head(party[q].outbound) \in Kinds
      /\ Head(party[q].outbound) = party[q].outbound[1] /\ 1 \in 1..Len(party[q].outbound)
  BY <1>1
<1>3. m.from = i /\ m.value = q[2] /\ m.kind = Head(party[q].outbound)
  BY DEF Outgoing, Message
<1>4. SU!Licence(journal[i], m.kind) = m.value
  BY <1>1, <1>2, <1>3 DEF SU!Licence, Owned
<1>5. sent' = sent \cup {m} /\ journal' = journal
  BY DEF Sends
<1> HIDE DEF m
<1>6. \A j \in Local : Said(j)' = IF j = i THEN Said(j) \cup {<<m.kind, m.value>>} ELSE Said(j)
  BY <1>3, <1>5 DEF Said
<1>7. said' = [said EXCEPT ![i] = @ \cup {<<m.kind, m.value>>}]
  BY <1>1, <1>6, Zenon DEF said
<1>8. SU!Say(i, m.kind)
  BY <1>1, <1>3, <1>4, <1>5, <1>7, NoneAssumption, Zenon DEF SU!Say, said
<1> QED
  BY <1>1, <1>2, <1>3, <1>8 DEF SU!Next, SU!Kinds, Kinds

\* The parties, their drivers, the crashes and the faults implement the
\* single-use journal.
THEOREM Refinement == Spec => SingleUseSpec
<1>1. Init => SU!Init
  <2> SUFFICES ASSUME Init PROVE SU!Init
    OBVIOUS
  <2>1. \A i \in Local : Said(i) = {}
    BY SigningAssumption DEF Init, Said
  <2> QED
    BY <2>1, SameRecords DEF Init, SU!Init
<1>2. IInv /\ [Next]_vars => [SU!Next]_<<journal, said>>
  <2> SUFFICES ASSUME IInv, [Next]_vars PROVE [SU!Next]_<<journal, said>>
    OBVIOUS
  <2>0. Types /\ Records
    BY DEF IInv
  <2>1. ASSUME NEW q \in Builds, Step(q) PROVE [SU!Next]_<<journal, said>>
    <3>1. Effect(q) /\ q[1] \in Local
      BY <2>0, <2>1, StepEffect, SigningAssumption
    <3>2. Owned(q[1], q[2], party[q], journal[q[1]]) /\ Bound(journal[q[1]]) /\ q[2] \in Values
      BY <2>0, <3>1, SigningAssumption DEF Records
    <3>3. CASE Ends(q)
      BY <3>1, <3>3, BurnRefines DEF Ends
    <3>4. CASE Prepares(q)
      BY <3>4, WriteRefines DEF Prepares
    <3>5. CASE Commits(q)
      BY <3>2, <3>5, WriteRefines DEF Commits, Owned
    <3>6. CASE Receives(q)
      BY <3>1, <3>6, BurnRefines DEF Receives
    <3>7. CASE Rejects(q)
      BY <3>1, <3>7, BurnRefines DEF Rejects
    <3>8. CASE Responds(q)
      <4>1. journal[q[1]].prepared = q[2]
        BY <3>2, <3>8, NoneAssumption DEF Responds, Owned, Bound
      <4> QED
        BY <3>8, <4>1, WriteRefines DEF Responds
    <3>9. CASE Combines(q)
      <4>1. journal[q[1]].prepared = q[2]
        BY <3>2, <3>9, NoneAssumption DEF Combines, Owned, Bound
      <4> QED
        BY <3>9, <4>1, WriteRefines DEF Combines
    <3>10. CASE Sends(q)
      BY <3>10, SendRefines
    <3> QED
      BY <3>1, <3>3, <3>4, <3>5, <3>6, <3>7, <3>8, <3>9, <3>10 DEF Effect
  <2>2. ASSUME NEW i \in Local, Crash(i) PROVE [SU!Next]_<<journal, said>>
    BY <2>0, <2>2, CrashEffect, BurnRefines DEF Stops
  <2>3. CASE UNCHANGED vars
    BY <2>3 DEF vars, said, Said
  <2> QED
    BY <2>1, <2>2, <2>3 DEF Next
<1> QED
  BY <1>1, <1>2, Invariance, PTL DEF Spec, SingleUseSpec, SU!Spec, said

------------------------------------------------------------------------------
(* The slot is consumed.                                                    *)

\* With at most four signers the mask of missingLocked is the full one, so an
\* idle party that neither burned nor signed misses an input.
LEMMA QuietMisses ==
  ASSUME IInv, Threshold <= 4, NEW q \in Builds, Quiet(q[1], party[q]), ~Over(party[q])
  PROVE  Missing(party[q])
<1> DEFINE p == party[q]
<1> SUFFICES ASSUME ~Missing(p) PROVE FALSE
  OBVIOUS
<1>1. Complete(p.accepts) /\ Seen(p.parts) = 1..4 /\ q[1] \in Signers
  BY SigningAssumption DEF Missing
<1>2. Threshold = 4 /\ Signers = 1..4
  <2>1. 4 \in Signers
    BY <1>1 DEF Seen
  <2> QED
    BY <2>1, SigningAssumption DEF Signers
<1>3. Complete(p.parts) /\ p.parts[q[1]] # None
  BY <1>1, <1>2 DEF Complete, Seen
<1>4. AllAccepted(p)
  BY <1>3 DEF IInv, Records, Owned, Quiet
<1> QED
  BY <1>3, <1>4 DEF Quiet, MustCombine, Over

Consumed(q) ==
  party[q].phase = "closed" /\ faults = 0 => journal[q[1]].state \in Terminal

\* Up to four signers, the step that closes a party finds or leaves its record
\* consumed, unless the disk fails.
LEMMA CloseConsumes ==
  ASSUME IInv, Threshold <= 4, NEW q \in Builds, Step(q), party[q].phase # "closed",
         party'[q].phase = "closed", faults' = 0
  PROVE  journal'[q[1]].state \in Terminal
<1> DEFINE i == q[1]
<1>1. /\ i \in Local /\ journal \in [Local -> SingleUseRecords] /\ party \in [Builds -> Parties]
      /\ party[q] \in Parties /\ journal[i] \in SingleUseRecords /\ faults \in Nat
      /\ Owned(i, q[2], party[q], journal[i])
  BY SigningAssumption DEF IInv, Types, Records
<1>2. ~Fault
  BY <1>1 DEF Fault
<1>3. ASSUME journal' = Burnt(i) PROVE journal'[i].state \in Terminal
  BY <1>1, <1>3 DEF Burnt, Written, Transition, CanAdvance, allowedSingleUseTransition, Live, Terminal, SingleUseRecords, Stages
<1>4. party[q].burned \/ party[q].signature => journal[i].state \in Terminal
  BY <1>1 DEF Owned, Fresh, Parties, Terminal
<1>5. ASSUME BurnAndClose(q, party[q]) PROVE journal'[i].state \in Terminal
  BY <1>2, <1>3, <1>4, <1>5 DEF BurnAndClose
<1>6. ASSUME NEW next, NEW done, Advance(q, next, done), done.phase # "closed"
      PROVE  journal'[i].state \in Terminal
  BY <1>1, <1>2, <1>5, <1>6 DEF Advance
<1>7. CASE Start(q)
  <2>1. [party[q] EXCEPT !.phase = "prepared"].phase # "closed"
    BY <1>1 DEF Parties
  <2> QED
    BY <1>6, <1>7, <2>1, Zenon DEF Start
<1>8. CASE StartCommit(q)
  <2>1. [party[q] EXCEPT !.phase = "running", !.commits[q[1]] = q[2], !.outbound = <<"commit">>].phase # "closed"
    BY <1>1 DEF Parties
  <2> QED
    BY <1>6, <1>8, <2>1, Zenon DEF StartCommit
<1>9. CASE Respond(q)
  <2>1. [party[q] EXCEPT !.parts[q[1]] = q[2], !.outbound = Append(@, "response")].phase # "closed"
    BY <1>1, <1>9 DEF Parties, Respond
  <2> QED
    BY <1>6, <1>9, <2>1, Zenon DEF Respond
<1>10. CASE Combine(q)
  <2>1. [party[q] EXCEPT !.signature = TRUE].phase # "closed"
    BY <1>1, <1>10 DEF Parties, Combine
  <2> QED
    BY <1>5, <1>6, <1>10, <2>1, Zenon DEF Combine
<1>11. CASE Close(q)
  <2>1. CASE FinishBurns(party[q])
    BY <1>5, <1>11, <2>1 DEF Close
  <2>2. CASE ~FinishBurns(party[q])
    <3>1. Over(party[q]) /\ party[q].phase = "running"
      BY <1>11, <2>2, QuietMisses DEF Close, FinishBurns, Quiet
    <3>2. journal[i].state \in Terminal
      BY <1>1, <3>1 DEF Over, Owned, Terminal
    <3> QED
      BY <1>11, <2>2, <3>2 DEF Close
  <2> QED
    BY <2>1, <2>2
<1>12. CASE Reject(q)
  <2>1. CASE CanAdvance(i, "Burned")
    BY <1>1, <1>2, <1>3, <1>12, <2>1 DEF Reject
  <2>2. CASE ~CanAdvance(i, "Burned")
    BY <1>1, <1>2, <1>12, <2>2 DEF Reject, CanAdvance, allowedSingleUseTransition, Live, Terminal, SingleUseRecords, Stages
  <2> QED
    BY <2>1, <2>2
<1>13. ASSUME NEW m \in sent, Deliver(q, m) PROVE journal'[i].state \in Terminal
  <2>1. CASE Entered(party[q], m) # None \/ Mismatch(Enter(party[q], m))
    BY <1>5, <1>13, <2>1 DEF Deliver
  <2>2. CASE ~(Entered(party[q], m) # None \/ Mismatch(Enter(party[q], m)))
    <3>1. PICK bit \in Bits : party' = [party EXCEPT ![q] = Rounds(i, q[2], Enter(party[q], m), bit)]
      BY <1>13, <2>2 DEF Deliver
    <3>2. party[q].phase = "running" /\ party[q].outbound = <<>> /\ m.from # i /\ m \in Messages
      BY <1>13 DEF Deliver, Quiet, IInv, Types
    <3>3. Rounds(i, q[2], Enter(party[q], m), bit).phase = "running"
      <4>1. i \in Signers /\ q[2] \in Values
        BY SigningAssumption
      <4>2. Received(i, party[q], m, Rounds(i, q[2], Enter(party[q], m), bit))
        BY <1>1, <3>2, <4>1, RoundsEffect, Zenon
      <4> QED
        BY <3>2, <4>2, Zenon DEF Received
    <3> QED
      BY <1>1, <3>1, <3>3
  <2> QED
    BY <2>1, <2>2
<1>14. CASE Send(q)
  <2>1. party[q].phase = "running" /\ party'[q] = [party[q] EXCEPT !.outbound = Tail(@)]
    BY <1>1, <1>14 DEF Send, Quiet
  <2> QED
    BY <1>1, <2>1 DEF Parties
<1>15. CASE SendFails(q)
  BY <1>2, <1>15 DEF SendFails
<1> QED
  BY <1>7, <1>8, <1>9, <1>10, <1>11, <1>12, <1>13, <1>14, <1>15, Zenon DEF Step

\* With at most four signers, a party that is over leaves no live record behind.
THEOREM FourConsume == Threshold <= 4 => (Spec => []SlotConsumed)
<1> SUFFICES ASSUME Threshold <= 4 PROVE Spec => []SlotConsumed
  OBVIOUS
<1> DEFINE J == \A q \in Builds : Consumed(q)
<1>1. Init => J
  BY DEF Init, Consumed, Unbuilt
<1>2. IInv /\ J /\ [Next]_vars => J'
  <2> SUFFICES ASSUME IInv, J, [Next]_vars, NEW s \in Builds,
                      party'[s].phase = "closed", faults' = 0
               PROVE  journal'[s[1]].state \in Terminal
    BY DEF Consumed
  <2>0. Types /\ Records /\ s[1] \in Local
    BY SigningAssumption DEF IInv
  <2>1. ASSUME NEW q \in Builds, Step(q) PROVE journal'[s[1]].state \in Terminal
    <3>0. Effect(q) /\ faults = 0 /\ q[1] \in Local
      BY <2>0, <2>1, StepEffect, SigningAssumption DEF Types
    <3>1. \E p : Turns(q, p)
      BY <3>0 DEF Effect, Ends, Prepares, Commits, Receives, Rejects, Responds, Combines, Sends
    <3>2. CASE s = q /\ party[q].phase # "closed"
      BY <2>1, <3>2, CloseConsumes
    <3>3. CASE s # q \/ party[q].phase = "closed"
      <4>1. journal[s[1]].state \in Terminal
        BY <2>0, <3>0, <3>1, <3>3 DEF Consumed, Turns, Types
      <4>2. \A next \in Stages : CanAdvance(s[1], next) => FALSE
        BY <4>1 DEF CanAdvance, allowedSingleUseTransition, Terminal, Live
      <4>3. journal'[s[1]] = journal[s[1]]
        BY <2>0, <3>0, <4>2 DEF Effect, Ends, Prepares, Commits, Receives, Rejects, Responds,
           Combines, Sends, Writes, Burnt, Written, Types, Stages
      <4> QED
        BY <4>1, <4>3
    <3> QED
      BY <3>2, <3>3
  <2>2. ASSUME NEW i \in Local, Crash(i) PROVE journal'[s[1]].state \in Terminal
    <3>1. faults = 0 /\ party[s] \in Parties /\ journal[s[1]] \in SingleUseRecords
      BY <2>0, <2>2 DEF Crash, Types
    <3>2. CASE party[s].phase = "closed"
      <4>1. journal[s[1]].state \in Terminal
        BY <3>1, <3>2 DEF Consumed
      <4> QED
        BY <2>0, <2>2, <4>1 DEF Crash, Written, Terminal, Types
    <3>3. CASE party[s].phase # "closed"
      <4>1. s[1] = i /\ party[s].phase \in {"prepared", "running"}
        BY <2>2, <3>1, <3>3 DEF Crash, Parties
      <4>2. journal[i].prepared # None
        <5>1. Owned(s[1], s[2], party[s], journal[i]) /\ Bound(journal[i])
          BY <2>0, <4>1, Zenon DEF Records
        <5>2. s[2] \in Values
          BY SigningAssumption
        <5> QED
          BY <4>1, <5>1, <5>2, NoneAssumption DEF Owned, Bound
      <4>3. journal[i].state # "Created"
        BY <2>0, <4>1, <4>2 DEF Records, Bound, Validate, NewSingleUseRecord
      <4>4. CASE journal[i].state \in {"Prepared", "Committed", "Responded"}
        BY <2>0, <2>2, <4>1, <4>4 DEF Crash, Written, Transition, Terminal, Types
      <4>5. CASE journal[i].state \notin {"Prepared", "Committed", "Responded"}
        BY <2>2, <3>1, <4>1, <4>3, <4>5 DEF Crash, Terminal, SingleUseRecords, Stages
      <4> QED
        BY <4>4, <4>5
    <3> QED
      BY <3>2, <3>3
  <2>3. CASE UNCHANGED vars
    BY <2>3 DEF vars, Consumed
  <2> QED
    BY <2>1, <2>2, <2>3 DEF Next
<1>3. J => SlotConsumed
  BY DEF Consumed, SlotConsumed, Terminal
<1> HIDE DEF J
<1> QED
  BY <1>1, <1>2, <1>3, Invariance, PTL DEF Spec
==============================================================================
