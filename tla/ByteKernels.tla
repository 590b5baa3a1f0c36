---------------------------- MODULE ByteKernels ----------------------------
(***************************************************************************)
(* The loops over bytes that add, multiply and compare symbols.  Where the *)
(* processor has vectors and a slice is long enough for them, vectors are  *)
(* taken four at a time, then one at a time, and the rest byte by byte.    *)
(*                                                                         *)
(* A byte is a formal sum, the set of the pairs (byte, factor) that occur  *)
(* an odd number of times in it, so that a call stands for the calls with  *)
(* any contents.  Which bytes are not zero is known where it matters.      *)
(***************************************************************************)
EXTENDS Integers, Sequences, FiniteSets, SequencesExt, SmallField
CONSTANTS Lane,          \* bytes in a vector: 32
          MaxLen,        \* bytes in the longest slice
          DestCounts,    \* destinations that one source may be added to at once
          SourceCounts,  \* sources that may be added at once
          StackMax,      \* coefficients for which there is room: 64
          Coefficients   \* the columns of coefficients considered
KernelAssumption ==
  /\ Lane \in Nat \ {0} /\ Lane % 2 = 0 /\ MaxLen \in Nat /\ StackMax \in Nat
  /\ DestCounts \subseteq Nat /\ SourceCounts \subseteq Nat
  /\ Coefficients \subseteq Seq(F)

Alpha == 2

VARIABLES call,      \* what is called
          len,       \* bytes in each slice
          nonzero,   \* the bytes tested that are not zero; of a sum, when added
          avx2,      \* avx2_available()
          bytes,     \* the destinations
          offset,    \* bytes done
          touched,   \* bytes read or written by the last step
          seen,      \* something that is not zero was met: combined
          phase,
          verdict    \* what the call answers, if it does
vars == <<call, len, nonzero, avx2, bytes, offset, touched, seen, phase, verdict>>

\* One factor for every destination.
Call(name, dests, sources, factors) ==
  [name |-> name, dests |-> dests, sources |-> sources, factors |-> factors]
Ones(n) == [r \in 1 .. n |-> One]

Updates ==
  {Call("add", n, 1, Ones(n)) : n \in DestCounts} \cup {Call("add", 1, n, Ones(1)) : n \in SourceCounts}
  \cup {Call("mul", 1, 1, <<f>>) : f \in F}
  \cup {Call("alpha", 1, 1, Ones(1)), Call("alpha_xor_2", 3, 1, Ones(3))}
  \cup {Call("column", Len(c), 1, c) : c \in Coefficients}
Tests ==
  {Call("is_zero", 0, 1, <<>>), Call("add_check", 1, 1, Ones(1))}
  \cup {Call("xor_is_zero", 0, n, <<>>) : n \in SourceCounts}
  \cup {Call("mulassign", 1, 0, <<f>>) : f \in F}

-----------------------------------------------------------------------------
(* Bytes. *)

Plus(p, q) == (p \cup q) \ (p \cap q)
Times(f, p) == IF f = Zero THEN {} ELSE {<<t[1], FTimes(f, t[2])>> : t \in p}
Source(s, o) == {<<<<"source", s, o>>, One>>}
Old(r, o) == {<<<<"dest", r, o>>, One>>}
SourceSum(o) == {<<<<"source", s, o>>, One>> : s \in 1 .. call.sources}

\* What the single bytes of the rest are updated to.  The first destination of
\* alpha_xor_2 is the prefix, which is updated before it is added.
Prefix(o) == Plus(Times(Alpha, bytes[1][o]), Source(1, o))
ByteUpdate(r, o) ==
  CASE call.name = "mulassign" -> Times(call.factors[r], bytes[r][o])
    [] call.name = "alpha" \/ (call.name = "alpha_xor_2" /\ r = 1) -> Prefix(o)
    [] call.name = "alpha_xor_2" /\ r # 1 -> Plus(bytes[r][o], Prefix(o))
    [] call.name \in {"mul", "column"} ->
         Plus(bytes[r][o], Times(call.factors[r], Source(1, o)))
    [] OTHER -> Plus(bytes[r][o], SourceSum(o))

\* The rows of a column with a coefficient that is not zero, from the first;
\* each has tables of its own.
ColumnRows ==
  LET upTo[r \in 0 .. call.dests] ==
        IF r = 0 THEN <<>>
        ELSE IF call.factors[r] = Zero THEN upTo[r - 1] ELSE Append(upTo[r - 1], r)
  IN  upTo[call.dests]

\* Faulty variant: tables are numbered as rows are.
TableOfRow(k) == IF k <= Len(ColumnRows) THEN call.factors[k] ELSE Zero
\* The coefficient that the tables at place k are for.
Table(k) == call.factors[ColumnRows[k]]

ColumnUpdate(r, o) ==
  IF \E k \in DOMAIN ColumnRows : ColumnRows[k] = r
  THEN LET k == CHOOSE k \in DOMAIN ColumnRows : ColumnRows[k] = r
       IN  Plus(bytes[r][o], Times(Table(k), Source(1, o)))
  ELSE bytes[r][o]
VectorUpdate(r, o) == IF call.name = "column" THEN ColumnUpdate(r, o) ELSE ByteUpdate(r, o)

-----------------------------------------------------------------------------
Init ==
  /\ len \in 0 .. MaxLen
  /\ avx2 \in BOOLEAN
  /\ \/ call \in Updates /\ nonzero = {}
     \/ call \in Tests /\ nonzero \in {{}} \cup {{o} : o \in 0 .. len - 1}
  /\ bytes = [r \in 1 .. call.dests |-> [o \in 0 .. len - 1 |-> Old(r, o)]]
  /\ offset = 0 /\ touched = {} /\ seen = FALSE
  /\ phase = "start" /\ verdict = "none"

\* Slices that are shorter are not worth a vector.
Threshold ==
  IF call.name \in {"add", "add_check", "is_zero", "xor_is_zero"} THEN 2 * Lane ELSE Lane
UsesVectors ==
  avx2 /\ len - offset >= Threshold /\ (call.name = "column" => call.dests <= StackMax)

Return(answer) == phase' = "done" /\ verdict' = answer

\* Nothing is to be done for a factor of zero or one, or for zeros.
NothingToDo ==
  \/ call.name = "mul" /\ call.factors[1] = Zero
  \/ call.name = "mulassign" /\ call.factors[1] # Zero
       /\ (call.factors[1] = One \/ nonzero = {})
Skip ==
  /\ phase = "start" /\ NothingToDo
  /\ offset' = len
  /\ Return("none")
  /\ UNCHANGED <<call, len, nonzero, avx2, bytes, touched, seen>>

Fills == call.name = "mulassign" /\ call.factors[1] = Zero
Fill ==
  /\ phase = "start" /\ Fills
  /\ bytes' = [bytes EXCEPT ![1] = [o \in 0 .. len - 1 |-> {}]]
  /\ offset' = len
  /\ Return("none")
  /\ UNCHANGED <<call, len, nonzero, avx2, touched, seen>>

\* Most bytes that are not zero are found among the first.
PrefixLen == IF len < Lane \div 2 THEN len ELSE Lane \div 2
CheckPrefix ==
  /\ phase = "start" /\ call.name = "is_zero"
  /\ touched' = 0 .. PrefixLen - 1
  /\ IF nonzero \cap touched' # {}
     THEN Return("nonzero") /\ UNCHANGED offset
     ELSE offset' = PrefixLen /\ phase' = "checked" /\ UNCHANGED verdict
  /\ UNCHANGED <<call, len, nonzero, avx2, bytes, seen>>

Enter ==
  /\ IF call.name = "is_zero" THEN phase = "checked"
     ELSE phase = "start" /\ ~NothingToDo /\ ~Fills
  /\ phase' = IF UsesVectors THEN "vectors" ELSE "rest"
  /\ UNCHANGED <<call, len, nonzero, avx2, bytes, offset, touched, seen, verdict>>

-----------------------------------------------------------------------------
\* Tests return at the first chunk with something that is not zero, updates
\* remember that there was something.
ReturnsEarly(chunk) == call.name \in {"is_zero", "xor_is_zero"} /\ nonzero \cap chunk # {}

AfterChunk(lanes) == offset + lanes * Lane

\* lanes vectors from the offset on.
Vectors(lanes) ==
  LET chunk == offset .. offset + lanes * Lane - 1
  IN  /\ touched' = chunk
      /\ bytes' = [r \in DOMAIN bytes |-> [o \in DOMAIN bytes[r] |->
                     IF o \in chunk THEN VectorUpdate(r, o) ELSE bytes[r][o]]]
      /\ seen' = (seen \/ nonzero \cap chunk # {})
      /\ offset' = AfterChunk(lanes)
      /\ IF ReturnsEarly(chunk) THEN Return("nonzero") ELSE UNCHANGED <<phase, verdict>>
      /\ UNCHANGED <<call, len, nonzero, avx2>>

Fits(lanes) == offset + lanes * Lane <= len

FourVectors == phase = "vectors" /\ Fits(4) /\ Vectors(4)
OneVector == phase = "vectors" /\ ~Fits(4) /\ Fits(1) /\ Vectors(1)

\* Faulty variant: only the rest counts.
RestAnswer(rest) == IF nonzero \cap rest = {} THEN "zero" ELSE "nonzero"
Answer(rest) ==
  IF call.name \notin {"is_zero", "xor_is_zero", "add_check"} THEN "none"
  ELSE IF nonzero \cap rest = {} /\ ~(call.name = "add_check" /\ seen) THEN "zero" ELSE "nonzero"

Rest ==
  /\ phase = "rest" \/ (phase = "vectors" /\ ~Fits(4) /\ ~Fits(1))
  /\ touched' = offset .. len - 1
  /\ bytes' = [r \in DOMAIN bytes |-> [o \in DOMAIN bytes[r] |->
                 IF o >= offset THEN ByteUpdate(r, o) ELSE bytes[r][o]]]
  /\ offset' = len
  /\ Return(Answer(touched'))
  /\ UNCHANGED <<call, len, nonzero, avx2, seen>>

Done == phase = "done" /\ UNCHANGED vars

Next == Skip \/ Fill \/ CheckPrefix \/ Enter \/ FourVectors \/ OneVector \/ Rest \/ Done

Spec == Init /\ [][Next]_vars

-----------------------------------------------------------------------------
TypeInv ==
  /\ call \in Updates \cup Tests
  /\ len \in 0 .. MaxLen /\ offset \in 0 .. len
  /\ DOMAIN bytes = 1 .. call.dests
  /\ \A r \in DOMAIN bytes : DOMAIN bytes[r] = 0 .. len - 1
  /\ phase \in {"start", "checked", "vectors", "rest", "done"}
  /\ verdict \in {"none", "zero", "nonzero"}

\* No vector reaches past the end of a slice: loads and stores are unchecked
\* (octets.rs 713-1401).
StaysInside == touched \subseteq 0 .. len - 1

\* The reference: what a byte of destination r should become.
Wanted(r, o) ==
  CASE call.name = "mulassign" -> Times(call.factors[r], Old(r, o))
    [] call.name = "alpha" \/ (call.name = "alpha_xor_2" /\ r = 1) ->
         {<<<<"dest", 1, o>>, Alpha>>, <<<<"source", 1, o>>, One>>}
    [] call.name = "alpha_xor_2" /\ r # 1 ->
         Old(r, o) \cup {<<<<"dest", 1, o>>, Alpha>>, <<<<"source", 1, o>>, One>>}
    [] OTHER -> Old(r, o) \cup UNION {Times(call.factors[r], Source(s, o)) : s \in 1 .. call.sources}

\* Every byte of every destination is updated once and from the bytes at its
\* own offset, those before the offset already and those after it not yet:
\* four vectors, single ones and the rest leave nothing out and overlap
\* nowhere, and each row of a column gets its own coefficient, also after rows
\* that are skipped (octets.rs 44-469, 713-1316).
EachByteOnce ==
  \A r \in DOMAIN bytes : \A o \in DOMAIN bytes[r] :
    \/ bytes[r][o] = IF o < offset THEN Wanted(r, o) ELSE Old(r, o)
    \/ call.name = "mulassign" /\ nonzero = {}    \* products of zeros

\* The answer is zero exactly if all bytes are, wherever the one that is not
\* lies (octets.rs 475-563, 1028-1055, 1320-1401).
VerdictIsRight ==
  phase = "done" /\ call.name \in {"is_zero", "xor_is_zero", "add_check"} =>
    verdict = IF nonzero = {} THEN "zero" ELSE "nonzero"
=============================================================================
