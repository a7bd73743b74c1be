------------------------------ MODULE SingleUse ------------------------------
(***************************************************************************)
(* What a single-use signing journal promises, for every signer of one     *)
(* session and with no parties, crashes, files or messages in sight: the   *)
(* durable record moves forward only, it binds ONE value (one draw of the  *)
(* signer's randomness) and what the signer says in public is what its     *)
(* record already names.  A signer may say something again, and it may     *)
(* still say what it had bound after its record was burned (a message that *)
(* was queued, a retransmission), but it never says anything else.         *)
(***************************************************************************)
EXTENDS SingleUseRecord

CONSTANT Local          \* the signers whose journals are described

VARIABLES record,       \* [Local -> SingleUseRecords], the durable records
          said          \* [Local -> SUBSET (Kinds \X Values)], all a signer released

Kinds == {"commit", "reveal", "acceptance", "response"}

\* The field of the record that licenses a message of this kind.
Licence(r, kind) == IF kind = "response" THEN r.response ELSE r.commitment

Init ==
  /\ record = [i \in Local |-> NewSingleUseRecord]
  /\ said   = [i \in Local |-> {}]

\* The first step binds a value and every later one binds the same value; a
\* burn binds nothing.
Advance(i) ==
  \E next \in Stages : \E v \in IF next = "Burned" THEN {None} ELSE Values :
    /\ allowedSingleUseTransition(record[i].state, next)
    /\ next \in {"Committed", "Responded", "Finalized"} => v = record[i].prepared
    /\ record' = [record EXCEPT ![i] = Transition(@, next, v)]
    /\ UNCHANGED said

Say(i, kind) ==
  /\ Licence(record[i], kind) # None
  /\ said' = [said EXCEPT ![i] = @ \cup {<<kind, Licence(record[i], kind)>>}]
  /\ UNCHANGED record

Next == \E i \in Local : Advance(i) \/ \E kind \in Kinds : Say(i, kind)

Spec == Init /\ [][Next]_<<record, said>>

\* All that a signer ever says in a session comes from one draw of randomness.
OneTranscript == \A i \in Local : \A m, n \in said[i] : m[2] = n[2]
==============================================================================
