-------------------------- MODULE ThresholdSigning --------------------------
(***************************************************************************)
(* One session of the Dilithium3 threshold signature that seals a slot     *)
(* (wallet/tss/protocol/dilithium3v1, driven by node/tdilithium3_signing_  *)
(* slot.go).  A session has the Threshold active signers 1..Threshold in   *)
(* ascending order.  Those in Local are modelled in full: their durable    *)
(* journal (sign_journal.go), and every party object a node builds for the *)
(* session (sign_executor_party.go around signingExecutorSigner), with its *)
(* four rounds commit, reveal, acceptance and response.  The others are    *)
(* seen only through their messages, RemoteSays.                           *)
(*                                                                         *)
(* A party draws fresh randomness when it is built, so the k-th party of a *)
(* signer is also the value k its payloads are computed from: commit k is  *)
(* opened by reveal k, and response k answers the challenge with draw k.   *)
(* A node may build a second party for the same session: the seal request  *)
(* is announced again after a restart, or while the candidate of an        *)
(* earlier request is still running.                                       *)
(*                                                                         *)
(* A step is what lies between two journal transactions, two broadcasts or *)
(* two messages taken from the inbox: the party's lock keeps the rest      *)
(* together, but another party of the node, or a crash, can come between.  *)
(* Messages are never removed from sent: they may arrive in any order,     *)
(* again (the retransmission ticker) or never (the deadline).              *)
(***************************************************************************)
EXTENDS SingleUseRecord, Naturals, FiniteSets, Sequences

CONSTANTS Threshold,     \* number of active signers, 4 or 5 in the pinned rows
          Local,         \* signers modelled by their own state
          Builds,        \* the parties their nodes may build: signer and draw
          RemoteSays,    \* messages the other signers may have broadcast
          MaxCrashes,    \* bound on crashes of local nodes
          MaxFaults      \* bound on failed journal transactions and broadcasts

VARIABLES journal,       \* [Local -> SingleUseRecords], durable
          party,         \* [Builds -> Parties], in memory
          sent,          \* every message ever broadcast
          crashes, faults

vars == <<journal, party, sent, crashes, faults>>

Signers == 1..Threshold
Kinds   == {"commit", "reveal", "acceptance", "response"}
Bits    == {"yes", "no"}

Message(i, kind, v, bit) == [from |-> i, kind |-> kind, value |-> v, bit |-> bit]

Messages == [from : Signers, kind : Kinds, value : Values, bit : Bits \cup {None}]

ASSUME SigningAssumption ==
  /\ Threshold \in Nat /\ Local \subseteq Signers /\ Builds \subseteq Local \X Values
  /\ RemoteSays \subseteq {m \in Messages : m.from \notin Local}
  /\ None \notin Bits
  /\ MaxCrashes \in Nat /\ MaxFaults \in Nat

Parties ==
  [phase     : {"unbuilt", "prepared", "running", "closed"},
   commits   : [Signers -> Payload],
   reveals   : [Signers -> Payload],
   accepts   : [Signers -> Bits \cup {None}],
   parts     : [Signers -> Payload],
   outbound  : Seq(Kinds),
   burned    : BOOLEAN,
   rejected  : BOOLEAN,
   signature : BOOLEAN]

Unbuilt ==
  [phase |-> "unbuilt", commits |-> [j \in Signers |-> None],
   reveals |-> [j \in Signers |-> None], accepts |-> [j \in Signers |-> None],
   parts |-> [j \in Signers |-> None], outbound |-> <<>>,
   burned |-> FALSE, rejected |-> FALSE, signature |-> FALSE]

\* A party after its driver returned: nothing of it is used again.
Closed(p) == [Unbuilt EXCEPT !.phase = "closed", !.signature = p.signature]

Seen(f)     == {j \in Signers : f[j] # None}
Complete(f) == Seen(f) = Signers

Init ==
  /\ journal = [i \in Local |-> NewSingleUseRecord]
  /\ party   = [q \in Builds |-> Unbuilt]
  /\ sent    = RemoteSays
  /\ crashes = 0
  /\ faults  = 0

------------------------------------------------------------------------------
(* The journal: SigningJournal.Advance, one transaction.                    *)

CanAdvance(i, next) == allowedSingleUseTransition(journal[i].state, next)

Written(i, next, k) == [journal EXCEPT ![i] = Transition(@, next, k)]

Burnt(i) == IF CanAdvance(i, "Burned") THEN Written(i, "Burned", None) ELSE journal

\* A transaction or a broadcast that fails.
Fault == faults < MaxFaults /\ faults' = faults + 1

Closes(q, p) == party' = [party EXCEPT ![q] = Closed(p)]

\* burnLocked and the driver's return: the party is over.  One that burned or
\* signed before does not burn again; otherwise its journal entry is burned,
\* unless that is refused or the disk fails.
BurnAndClose(q, p) ==
  /\ Closes(q, p)
  /\ \/ /\ journal' = IF p.burned \/ p.signature THEN journal ELSE Burnt(q[1])
        /\ UNCHANGED faults
     \/ Fault /\ UNCHANGED journal

\* Mutant of Advance: a failed transaction is not noticed.
AdvanceUnchecked(q, next, done) ==
  \/ /\ CanAdvance(q[1], next)
     /\ party' = [party EXCEPT ![q] = done]
     /\ \/ journal' = Written(q[1], next, q[2]) /\ UNCHANGED faults
        \/ Fault /\ UNCHANGED journal
  \/ /\ ~CanAdvance(q[1], next)
     /\ BurnAndClose(q, party[q])

\* One Advance of a running party: done is the party once the transaction has
\* committed; a refused or failed one burns the session (failLocked).
Advance(q, next, done) ==
  \/ /\ CanAdvance(q[1], next)
     /\ journal' = Written(q[1], next, q[2])
     /\ party' = [party EXCEPT ![q] = done]
     /\ UNCHANGED faults
  \/ /\ ~CanAdvance(q[1], next)
     /\ BurnAndClose(q, party[q])
  \/ /\ CanAdvance(q[1], next)
     /\ Fault
     /\ Closes(q, party[q])
     /\ journal' \in {journal, Burnt(q[1])}

------------------------------------------------------------------------------
(* SigningExecutorParty.Start: two journal transactions, then the commit.   *)

\* The durable binding of the draw.  A session that already has a record is
\* refused, and the refusal burns that record.
Start(q) ==
  /\ party[q].phase = "unbuilt"
  /\ Advance(q, "Prepared", [party[q] EXCEPT !.phase = "prepared"])
  /\ UNCHANGED <<sent, crashes>>

\* The commitment is durable before the commit message is queued.
StartCommit(q) ==
  /\ party[q].phase = "prepared"
  /\ Advance(q, "Committed", [party[q] EXCEPT !.phase = "running",
                                              !.commits[q[1]] = q[2],
                                              !.outbound = <<"commit">>])
  /\ UNCHANGED <<sent, crashes>>

------------------------------------------------------------------------------
(* The driver's loop: pump, deliver, deadline.                              *)

Over(p) == p.burned \/ p.rejected \/ p.signature

\* Mutant of AllAccepted: one acceptance is enough.
AllAcceptedAny(p) == \E j \in Signers : p.accepts[j] = "yes"

AllAccepted(p) == \A j \in Signers : p.accepts[j] = "yes"

\* The two round transitions of advanceLocked that write the journal.
MustAnswer(i, p)  == Complete(p.accepts) /\ ~p.rejected /\ p.parts[i] = None
MustCombine(p)    == Complete(p.parts) /\ AllAccepted(p) /\ ~p.rejected /\ ~p.signature

\* Deliver has returned and the party is idle: its driver may take a message.
Quiet(i, p) == p.phase = "running" /\ ~MustAnswer(i, p) /\ ~MustCombine(p)

\* checkDigestsLocked: a reveal that does not open the commit of its sender.
Mismatch(p) ==
  \E j \in Seen(p.commits) \cap Seen(p.reveals) : p.commits[j] # p.reveals[j]

\* Rounds 2 and 3a of advanceLocked, which touch only the party: the reveal
\* once every commit is in, the challenge and this signer's own bit once every
\* reveal is in.
Rounds(i, k, p, bit) ==
  LET open == Complete(p.commits) /\ p.reveals[i] = None
      r == IF open THEN [p EXCEPT !.reveals[i] = k, !.outbound = Append(@, "reveal")] ELSE p
      test == Complete(r.commits) /\ Complete(r.reveals) /\ r.accepts[i] = None
  IN IF test THEN [r EXCEPT !.accepts[i] = bit, !.outbound = Append(@, "acceptance")] ELSE r

\* The table a message of this kind is entered in, as a field of the party.
Entered(p, m) ==
  CASE m.kind = "commit"     -> p.commits[m.from]
    [] m.kind = "reveal"     -> p.reveals[m.from]
    [] m.kind = "acceptance" -> p.accepts[m.from]
    [] m.kind = "response"   -> p.parts[m.from]

Content(m) == IF m.kind = "acceptance" THEN m.bit ELSE m.value

Enter(p, m) ==
  CASE m.kind = "commit"     -> [p EXCEPT !.commits[m.from] = m.value]
    [] m.kind = "reveal"     -> [p EXCEPT !.reveals[m.from] = m.value]
    [] m.kind = "acceptance" -> [p EXCEPT !.accepts[m.from] = m.bit]
    [] m.kind = "response"   -> [p EXCEPT !.parts[m.from] = m.value]

\* SigningExecutorParty.Deliver: the gate (SigningExecutorGate.Observe) skips an
\* identical retransmission, a second payload for one round is a conflict, and
\* a fresh message is entered.  Conflict and mismatch end the slot.
Deliver(q, m) ==
  LET i == q[1] IN LET k == q[2] IN LET p == party[q] IN
  /\ Quiet(i, p) /\ p.outbound = <<>> /\ ~Over(p)
  /\ m.from # i
  /\ Entered(p, m) # Content(m)
  /\ IF Entered(p, m) # None \/ Mismatch(Enter(p, m))
     THEN BurnAndClose(q, p)
     ELSE /\ \E bit \in Bits :
               party' = [party EXCEPT ![q] = Rounds(i, k, Enter(p, m), bit)]
          /\ UNCHANGED <<journal, faults>>
  /\ UNCHANGED <<sent, crashes>>

\* Some signer rejected the slot: no response leaves this one, and its material
\* is consumed.  The driver still sends what was queued before.
Reject(q) ==
  LET i == q[1] IN LET p == party[q] IN
  /\ p.phase = "running" /\ MustAnswer(i, p) /\ ~AllAccepted(p)
  /\ \/ /\ CanAdvance(i, "Burned")
        /\ journal' = Burnt(i)
        /\ party' = [party EXCEPT ![q] = [p EXCEPT !.rejected = TRUE, !.burned = TRUE]]
        /\ UNCHANGED faults
     \/ ~CanAdvance(i, "Burned") /\ Closes(q, p) /\ UNCHANGED <<journal, faults>>
     \/ Fault /\ Closes(q, p) /\ UNCHANGED journal
  /\ UNCHANGED <<sent, crashes>>

\* Every bit is in and true: the response is durable before it is queued.
Respond(q) ==
  LET i == q[1] IN LET p == party[q] IN
  /\ p.phase = "running" /\ MustAnswer(i, p) /\ AllAccepted(p)
  /\ Advance(q, "Responded", [p EXCEPT !.parts[i] = q[2],
                                       !.outbound = Append(@, "response")])
  /\ UNCHANGED <<sent, crashes>>

\* Every part is in: the public combine checks, and the signature.  A failed
\* check burns the session.
Combine(q) ==
  LET p == party[q] IN
  /\ p.phase = "running" /\ MustCombine(p)
  /\ \/ Advance(q, "Finalized", [p EXCEPT !.signature = TRUE])
     \/ BurnAndClose(q, p)
  /\ UNCHANGED <<sent, crashes>>

\* The oldest queued message of a party; an acceptance carries the party's bit.
Outgoing(q) ==
  LET kind == Head(party[q].outbound) IN
  Message(q[1], kind, q[2], IF kind = "acceptance" THEN party[q].accepts[q[1]] ELSE None)

\* pump: the driver broadcasts what the party queued, oldest first.
Send(q) ==
  /\ Quiet(q[1], party[q]) /\ party[q].outbound # <<>>
  /\ sent' = sent \cup {Outgoing(q)}
  /\ party' = [party EXCEPT ![q].outbound = Tail(@)]
  /\ UNCHANGED <<journal, crashes, faults>>

\* Mutant of Missing: responses are not counted among the missing inputs.
MissingButParts(p) ==
  ~Complete(p.commits) \/ ~Complete(p.reveals) \/ ~Complete(p.accepts)

\* missingLocked: whether an input is still owed.  The last test compares the
\* parts seen with the constant mask 0xF, the first four signers.
Missing(p) ==
  \/ ~Complete(p.commits) \/ ~Complete(p.reveals) \/ ~Complete(p.accepts)
  \/ Seen(p.parts) # 1..4

\* Whether SigningExecutorParty.Finish burns: the party is still live and
\* misses an input.
FinishBurns(p) == ~Over(p) /\ Missing(p)

\* The driver's loop sees a finished party, or its deadline has passed.
Close(q) ==
  LET p == party[q] IN
  /\ Quiet(q[1], p) /\ p.outbound = <<>>
  /\ IF FinishBurns(p) THEN BurnAndClose(q, p)
                       ELSE Closes(q, p) /\ UNCHANGED <<journal, faults>>
  /\ UNCHANGED <<sent, crashes>>

\* A broadcast fails and the slot is given up.  (One that fails after it reached
\* somebody is Send followed by this action or by Close.)
SendFails(q) ==
  LET p == party[q] IN
  /\ Quiet(q[1], p) /\ p.outbound # <<>>
  /\ Fault
  /\ Closes(q, p)
  /\ journal' = IF FinishBurns(p) THEN Burnt(q[1]) ELSE journal
  /\ UNCHANGED <<sent, crashes>>

\* The node stops and comes back: memory is lost, and OpenSigningJournal burns
\* every record that is not terminal.
Crash(i) ==
  /\ crashes < MaxCrashes
  /\ crashes' = crashes + 1
  /\ party' = [q \in Builds |->
                 IF q[1] = i /\ party[q].phase # "unbuilt" THEN Closed(party[q]) ELSE party[q]]
  /\ journal' = IF journal[i].state \in {"Prepared", "Committed", "Responded"}
                THEN Written(i, "Burned", None) ELSE journal
  /\ UNCHANGED <<sent, faults>>

Step(q) ==
  \/ Start(q) \/ StartCommit(q) \/ Send(q) \/ (\E m \in sent : Deliver(q, m))
  \/ Reject(q) \/ Respond(q) \/ Combine(q) \/ Close(q) \/ SendFails(q)

Next == (\E q \in Builds : Step(q)) \/ (\E i \in Local : Crash(i))

Spec == Init /\ [][Next]_vars

------------------------------------------------------------------------------
(* Properties.                                                              *)

\* Every variable keeps its type, and every journal record passes the test
\* that reading it back applies (decodeSigningJournalRecord, Validate).
TypeOK ==
  /\ journal \in [Local -> SingleUseRecords]
  /\ \A i \in Local : Validate(journal[i])
  /\ party \in [Builds -> Parties]
  /\ sent \subseteq Messages
  /\ crashes \in 0..MaxCrashes /\ faults \in 0..MaxFaults

\* What signer i has put on the wire.
Said(i) == {<<m.kind, m.value>> : m \in {n \in sent : n.from = i}}

\* The promise of the journal (SingleUse), which the parties, the driver, the
\* crashes and the disk faults implement together: a signer's record only moves
\* forward and binds one draw, and all that leaves the signer is what its record
\* named BEFORE the message left (start and advanceLocked write, then queue).
SU == INSTANCE SingleUse WITH record <- journal, said <- [i \in Local |-> Said(i)]

SingleUseSpec == SU!Spec

\* All that a signer ever broadcasts in a session comes from one draw of its
\* randomness, however many parties its node builds for the session.
OneTranscript == SU!OneTranscript

\* allAcceptedLocked: once a local signer announced that it rejects the slot, no
\* local signer has released, or will release, a response for it.
RejectedSlotOpensNothing ==
  \A m, n \in sent :
    ~(/\ m.from \in Local /\ m.kind = "acceptance" /\ m.bit = "no"
      /\ n.from \in Local /\ n.kind = "response")

\* SigningExecutorParty.Finish: "Every outcome but a signature consumes the
\* one-time material" (sign_executor_party.go:437-440), unless the disk failed.
SlotConsumed ==
  \A q \in Builds :
    party[q].phase = "closed" /\ faults = 0 => journal[q[1]].state \in {"Finalized", "Burned"}
==============================================================================
