--------------------------- MODULE BlockDelivery ---------------------------
(***************************************************************************)
(* What a source block decoder promises its caller: it remembers which     *)
(* encoding symbols have arrived, and after every call it hands out the    *)
(* block exactly when those symbols are enough to recover it.  Neither the *)
(* order nor the number of arrivals of a symbol matters.                   *)
(***************************************************************************)
CONSTANTS
  EncodingIds,         \* encoding symbol ids that may arrive
  Blocks,
  None,
  Recoverable(_, _)    \* Recoverable(block, ids): the ids suffice to recover it

VARIABLES
  block,               \* the block that was sent
  arrived,
  answer

Init ==
  /\ block \in Blocks
  /\ arrived = {}
  /\ answer = None

Arrive(ids) ==
  /\ arrived' = arrived \cup ids
  /\ answer' = IF Recoverable(block, arrived') THEN block ELSE None
  /\ UNCHANGED block

Next == \E ids \in SUBSET EncodingIds : Arrive(ids)

Spec == Init /\ [][Next]_<<block, arrived, answer>>
=============================================================================
