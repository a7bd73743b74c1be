--------------------------- MODULE SingleUseRecord ---------------------------
(***************************************************************************)
(* The one-time signing record of wallet/tss/protocol/single_use.go: the   *)
(* states a threshold-signing session goes through, the moves between them *)
(* and the digest each move stores.  A record names, for every step that   *)
(* was taken, WHICH payload was bound by it.  A payload is a digest in the *)
(* code; here it is the value it was computed from, a member of Values.    *)
(* The hash chain (Sequence, PreviousHash) follows from the moves and is   *)
(* left out.                                                               *)
(***************************************************************************)
CONSTANTS Values,   \* what a payload can be computed from
          None      \* the zero hash: the step was not taken

ASSUME NoneAssumption == None \notin Values

Stages == {"Created", "Prepared", "Committed", "Responded", "Finalized", "Burned"}
Live   == {"Created", "Prepared", "Committed", "Responded"}

Payload == Values \cup {None}

SingleUseRecords ==
  [state : Stages, prepared : Payload, commitment : Payload,
   response : Payload, signature : Payload]

\* NewSingleUseRecordForProtocol: nothing bound yet.
NewSingleUseRecord ==
  [state |-> "Created", prepared |-> None, commitment |-> None,
   response |-> None, signature |-> None]

\* Burning is possible from every live state; the other moves go one step on.
allowedSingleUseTransition(current, next) ==
  \/ next = "Burned"    /\ current \in Live
  \/ next = "Prepared"  /\ current = "Created"
  \/ next = "Committed" /\ current = "Prepared"
  \/ next = "Responded" /\ current = "Committed"
  \/ next = "Finalized" /\ current = "Responded"

\* Mutant of Transition: the response is released but its digest is not stored.
TransitionUnstored(r, next, v) ==
  [state      |-> next,
   prepared   |-> IF next = "Prepared"  THEN v ELSE r.prepared,
   commitment |-> IF next = "Committed" THEN v ELSE r.commitment,
   response   |-> r.response,
   signature  |-> IF next = "Finalized" THEN v ELSE r.signature]

\* Transition: the new state, and the payload stored in that step's own field.
\* A burn stores nothing, and keeps what earlier steps stored.
Transition(r, next, v) ==
  [state      |-> next,
   prepared   |-> IF next = "Prepared"  THEN v ELSE r.prepared,
   commitment |-> IF next = "Committed" THEN v ELSE r.commitment,
   response   |-> IF next = "Responded" THEN v ELSE r.response,
   signature  |-> IF next = "Finalized" THEN v ELSE r.signature]

\* Validate: a record that took a step carries the payload of that step.
Validate(r) ==
  /\ r.state = "Created" => r = NewSingleUseRecord
  /\ r.state \in {"Prepared", "Committed", "Responded", "Finalized"} => r.prepared # None
  /\ r.state \in {"Committed", "Responded", "Finalized"} => r.commitment # None
  /\ r.state \in {"Responded", "Finalized"} => r.response # None
  /\ r.state = "Finalized" => r.signature # None
==============================================================================
