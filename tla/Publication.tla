----------------------------- MODULE Publication -----------------------------
(***************************************************************************)
(* What the panel asks of an engine supervisor, and nothing more: "is this *)
(* protocol really listening right now?".  The world decides what listens; *)
(* the supervisor decides what is published, and may only ever publish a   *)
(* protocol that is listening when it does so.  Until it first publishes   *)
(* the answer is Unknown.                                                  *)
(***************************************************************************)
CONSTANTS Protocols, Unknown

VARIABLES
    listening,  \* the protocols some engine process serves
    published   \* the protocols a subscription may contain, or Unknown

Init == published = Unknown /\ listening = {}

Publish ==
    /\ published' # Unknown
    /\ published' \subseteq listening
    /\ UNCHANGED listening

\* Engines boot, exit and crash, and nobody has looked yet.
World ==
    /\ listening' \in SUBSET Protocols
    /\ UNCHANGED published

Next == Publish \/ World

Spec == Init /\ [][Next]_<<listening, published>>
=============================================================================
