------------------------ MODULE IndependentMatrices ------------------------
(***************************************************************************)
(* What DenseOctetMatrix promises: matrices are values.  A clone is equal  *)
(* when it is made, and from then on no change of one shows in the other.  *)
(***************************************************************************)
CONSTANTS Matrices, Values, None

VARIABLE content    \* what each matrix holds; None if there is no such matrix

Init == content = [m \in Matrices |-> None]

New(m, value) == content[m] = None /\ content' = [content EXCEPT ![m] = value]
Clone(m, n) ==
  content[m] # None /\ content[n] = None /\ content' = [content EXCEPT ![n] = content[m]]
Set(m, value) == content[m] # None /\ content' = [content EXCEPT ![m] = value]
Drop(m) == content[m] # None /\ content' = [content EXCEPT ![m] = None]

Next ==
  \E m \in Matrices :
    \/ Drop(m)
    \/ \E value \in Values : New(m, value) \/ Set(m, value)
    \/ \E n \in Matrices : Clone(m, n)

Spec == Init /\ [][Next]_content
=============================================================================
