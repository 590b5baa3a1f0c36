--------------------------- MODULE ObjectDelivery ---------------------------
(***************************************************************************)
(* What a Decoder promises its caller: asked at any time, it answers with  *)
(* the object exactly when the packets that have arrived suffice for every *)
(* block.  How the blocks' packets interleave, which of the calls brought  *)
(* them, and what was answered before makes no difference.                 *)
(***************************************************************************)
CONSTANTS
  Packets,        \* packets that may arrive
  Enough(_),      \* Enough(arrived): they suffice for every block
  None,
  Unit            \* what a call returns that returns nothing

VARIABLES
  object,
  arrived,
  answer          \* what the last call has returned

vars == <<object, arrived, answer>>

Answer(packets) == answer' = IF Enough(packets) THEN object ELSE None

Init == arrived = {} /\ answer = None

\* decode
Exchange(p) ==
  /\ arrived' = arrived \cup {p}
  /\ Answer(arrived')
  /\ UNCHANGED object

\* add_new_packet
Arrive(p) ==
  /\ arrived' = arrived \cup {p}
  /\ answer' = Unit
  /\ UNCHANGED object

\* get_result
Ask ==
  /\ Answer(arrived)
  /\ UNCHANGED <<object, arrived>>

Next == Ask \/ \E p \in Packets : Exchange(p) \/ Arrive(p)

Spec == Init /\ [][Next]_vars
=============================================================================
