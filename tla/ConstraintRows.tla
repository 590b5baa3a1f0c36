---------------------------- MODULE ConstraintRows ----------------------------
(***************************************************************************)
(* The binary rows of a constraint matrix as they are built: the columns   *)
(* of the LDPC rows, one after the other, and of one encoded row, drawn    *)
(* from six numbers.  toggle_unique appends a column to a row and takes on *)
(* trust that it is not there yet.  The numbers that rand makes from its   *)
(* tables are any numbers.                                                 *)
(***************************************************************************)
EXTENDS Integers, Sequences, SequencesExt, FiniteSetsExt
CONSTANTS Parameters,    \* rows <<K', J, S, H, W>> of the table, upwards
          LdpcSymbols,   \* block sizes whose LDPC rows are built
          EncodedSymbols,\* block sizes whose encoded rows are built
          DegreeValues   \* values of the number that the degree is drawn from
ParametersAssumption ==
  /\ Parameters \in Seq(Nat \X Nat \X Nat \X Nat \X Nat)
  /\ LdpcSymbols \cup EncodedSymbols \subseteq 1 .. Parameters[Len(Parameters)][1]
  /\ DegreeValues \subseteq 0 .. 1048575

VARIABLES symbols,   \* symbols of the block
          rows,      \* matrix rows as sequences of columns, from row 0
          next,      \* the next step of fill_ldpc_rows, from 0
          tuple      \* of the encoded row, if there is one
vars == <<symbols, rows, next, tuple>>

-----------------------------------------------------------------------------
(***************************************************************************)
(* Systematic constants.                                                   *)
(***************************************************************************)
\* The first row of the table for at least this many symbols.
parameters_uncached(n) ==
  Parameters[Min({i \in DOMAIN Parameters : Parameters[i][1] >= n})]

S == parameters_uncached(symbols)[3]
W == parameters_uncached(symbols)[5]
L == LET p == parameters_uncached(symbols) IN p[1] + p[3] + p[4]
num_pi_symbols == L - W

\* Odd factors up to the square root.
is_prime(n) ==
  \/ n = 2
  \/ n > 2 /\ n % 2 = 1 /\ \A f \in 3 .. n : f % 2 = 1 /\ f * f <= n => n % f # 0

\* A prime is met before twice the number.
next_prime(n) == CHOOSE q \in n .. 2 * n : is_prime(q) /\ \A r \in n .. q - 1 : ~is_prime(r)

calculate_p1 == next_prime(num_pi_symbols)

-----------------------------------------------------------------------------
(***************************************************************************)
(* The LDPC rows.                                                          *)
(***************************************************************************)
\* toggle_unique for every <<row, column>> of a sequence.
xor_one_unique(matrix, entries) ==
  FoldLeft(LAMBDA m, entry : [m EXCEPT ![entry[1]] = Append(@, entry[2])], matrix, entries)

B == W - S

LdpcStep(i) == 1 + (i \div S)

FillLdpcColumn ==
  /\ tuple = <<>> /\ next < B
  /\ LET a == LdpcStep(next)
         first == next % S
     IN rows' = xor_one_unique(rows, <<<<first, next>>, <<(first + a) % S, next>>,
                                       <<(first + 2 * a) % S, next>>>>)
  /\ next' = next + 1
  /\ UNCHANGED <<symbols, tuple>>

OwnColumn(i) == W - S + i

FillLdpcRow ==
  /\ tuple = <<>> /\ next \in B .. B + S - 1
  /\ LET i == next - B
         p == num_pi_symbols
     IN rows' = xor_one_unique(rows, <<<<i, W + (i % p)>>, <<i, W + ((i + 1) % p)>>, <<i, OwnColumn(i)>>>>)
  /\ next' = next + 1
  /\ UNCHANGED <<symbols, tuple>>

-----------------------------------------------------------------------------
(***************************************************************************)
(* Encoded rows.                                                           *)
(***************************************************************************)
Degrees == <<5243, 529531, 704294, 791675, 844104, 879057, 904023, 922747, 937311, 948962,
             958494, 966438, 973160, 978921, 983914, 988283, 992138, 995565, 998631, 1001391,
             1003887, 1006157, 1008229, 1010129, 1011876, 1013490, 1014983, 1016370, 1017662,
             1048576>>

deg(v) == Min({Min({d \in DOMAIN Degrees : v < Degrees[d]}), W - 2})

\* <<d, a, b, d1, a1, b1>> for the numbers that rand gives: all walks over LT
\* columns, and all over PI columns.
Tuples ==
  LET degrees == {deg(v) : v \in DegreeValues}
      extra(d) == IF d < 4 THEN 2 .. 3 ELSE {2}
      p1 == calculate_p1
  IN {<<d, 1 + step, start, Min(extra(d)), 1, 0>> :
        d \in degrees, step \in 0 .. W - 2, start \in 0 .. W - 1}
     \cup UNION {{<<d, 1, 0, d1, 1 + step, start>> :
                   d1 \in extra(d), step \in 0 .. p1 - 2, start \in 0 .. p1 - 1} : d \in degrees}

add_mod_once(value, addend, modulus) ==
  IF value + addend >= modulus THEN value + addend - modulus ELSE value + addend

\* The place where a walk over P1 places next comes to one with a column.
SkipToPi(b1, a1, p1) ==
  LET skip[b \in 0 .. p1 - 1] ==
        IF b >= num_pi_symbols THEN skip[add_mod_once(b, a1, p1)] ELSE b
  IN skip[b1]

LtWalk(b, a, d, w) ==
  LET place[k \in 1 .. d] == IF k = 1 THEN b ELSE add_mod_once(place[k - 1], a, w)
  IN place

PiWalk(b1, a1, d1, p1) ==
  LET at[k \in 1 .. d1] ==
        SkipToPi(IF k = 1 THEN b1 ELSE add_mod_once(at[k - 1], a1, p1), a1, p1)
  IN [k \in 1 .. d1 |-> W + at[k]]

enc_indices(t) == LtWalk(t[3], t[2], t[1], W) \o PiWalk(t[6], t[5], t[4], calculate_p1)

FillEncodedRow(t) ==
  /\ tuple' = t
  /\ rows' = [r \in {S} |-> enc_indices(t)]
  /\ UNCHANGED <<symbols, next>>

Filled == tuple # <<>> \/ (next = B + S /\ symbols \notin EncodedSymbols)

Init ==
  /\ symbols \in LdpcSymbols \cup EncodedSymbols
  /\ rows = [r \in 0 .. S - 1 |-> <<>>]
  /\ next = 0
  /\ tuple = <<>>

Next ==
  \/ FillLdpcColumn
  \/ FillLdpcRow
  \/ /\ symbols \in EncodedSymbols /\ tuple = <<>> /\ next = B + S
     /\ \E t \in Tuples : FillEncodedRow(t)
  \/ Filled /\ UNCHANGED vars

Spec == Init /\ [][Next]_vars

-----------------------------------------------------------------------------
TypeInv ==
  /\ symbols \in LdpcSymbols \cup EncodedSymbols
  /\ next \in 0 .. B + S
  /\ \A r \in DOMAIN rows : rows[r] \in Seq(0 .. L - 1)

\* What toggle_unique takes on trust holds: no column is toggled twice in a
\* row, so appending gives the row that toggling would.  It rests on the
\* step being less than S in LDPC rows, on W and P1 being primes, and on the
\* degree being less than W (constraint_matrix.rs 119-146, 244-271).
NoColumnTwice == \A r \in DOMAIN rows : IsInjective(rows[r])

\* Once filled, every LT column but the last S is in three LDPC rows, and each
\* of the last S in the row of its own.
LdpcColumnsCovered ==
  next = B + S /\ tuple = <<>> =>
    \A column \in 0 .. W - 1 :
      LET of == {r \in DOMAIN rows : column \in Range(rows[r])}
      IN IF column < B THEN Cardinality(of) = 3 ELSE of = {column - B}

\* No two columns of the first ones are in the same three LDPC rows: such
\* columns could not be told from one another by these rows.
LdpcColumnsDiffer ==
  next = B + S /\ tuple = <<>> =>
    \A c1, c2 \in 0 .. B - 1 :
      (\A r \in DOMAIN rows : c1 \in Range(rows[r]) <=> c2 \in Range(rows[r])) => c1 = c2

\* An encoded row has as many LT columns as its degree and two or three PI
\* columns, within the matrix: the walk over P1 places leaves the places
\* without a column in the end, and never passes them as columns of the next
\* block of the matrix (constraint_matrix.rs 273-305).
EncodedRowHasItsColumns ==
  tuple # <<>> =>
    LET columns == Range(rows[S])
    IN /\ Cardinality(columns \cap (0 .. W - 1)) = tuple[1]
       /\ Cardinality(columns \cap (W .. L - 1)) = tuple[4]
=============================================================================
