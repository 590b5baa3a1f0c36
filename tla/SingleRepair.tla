---------------------------- MODULE SingleRepair ----------------------------
(***************************************************************************)
(* The shortcut for a block of which one source symbol is lost and one     *)
(* repair symbol received.  The rows of the matrix are recognised, by its  *)
(* marks or by comparing their columns; the known symbols are taken out of *)
(* the repair symbol, and the rest divided by the lost symbol's            *)
(* coefficient.  What is returned is no solution: it is zero but for one   *)
(* entry, from which the decoder rebuilds the lost symbol.                 *)
(*                                                                         *)
(* A symbol is a vector over the source symbols.                           *)
(***************************************************************************)
EXTENDS Integers, Sequences, FiniteSets, Functions, SmallField
CONSTANTS K, KPrime, S, H,
          RowOf,           \* the row of each ISI
          InverseMatrix    \* the inverse of the matrix of a block without loss

L == S + H + KPrime
Col == 0 .. L - 1
Source == 0 .. K - 1
Isi == DOMAIN RowOf

\* Comparing columns cannot tell a repair row from an equal source row; that
\* there is no such pair among them is a property of the code's tables.
RepairAssumption ==
  /\ S \in Nat /\ H \in Nat /\ KPrime \in Nat /\ K \in 1 .. KPrime
  /\ Isi \subseteq Nat /\ 0 .. KPrime \subseteq Isi
  /\ InverseMatrix \in [Col -> [Col -> F]]
  /\ \A isi \in Isi : RowOf[isi] \in [Col -> {Zero, One}] /\ Support(RowOf[isi]) # {}
  /\ \A i \in 0 .. KPrime - 1 :
       /\ Combination(RowOf[i], InverseMatrix, L) = VUnit(Col, S + H + i)
       /\ \A isi \in Isi \ {i} : RowOf[isi] # RowOf[i]

NotYet == -1

VARIABLES kind,      \* plan or direct: how the known symbols are taken out
          isis,      \* the ISIs of the rows after the LDPC rows
          marked,    \* the matrix keeps marks, as sparse ones do
          phase,     \* rows, gather, the outcome, or none
          rows,      \* what the rows were recognised as
          known,     \* known symbols still to be taken out, as <<ISI, row>>
          symbols,   \* the slab that was passed in
          known_symbols, missing_symbol,
          decoded
vars == <<kind, isis, marked, phase, rows, known, symbols, known_symbols, missing_symbol,
          decoded>>

\* How much of each source symbol is in a repair symbol, as SystematicPlan
\* shows it for the transposed plan and for replay.
Coefficients(row) ==
  LET from_D == Combination(row, InverseMatrix, L)
  IN [i \in Source |-> from_D[S + H + i]]

\* The symbol of an ISI: padding is zero.
SymbolOf(isi) ==
  IF isi \in Source THEN VUnit(Source, isi)
  ELSE IF isi < KPrime THEN VZero(Source) ELSE Coefficients(RowOf[isi])

MatrixRow == S .. S + KPrime - 1
RowIsi(row) == isis[row - S + 1]

\* Decoders put source symbols in order and repair symbols last; the routine
\* accepts other orders.
Init ==
  /\ kind \in {"plan", "direct"} /\ marked \in BOOLEAN
  /\ isis \in {q \in [1 .. KPrime -> Isi] : IsInjective(q)}
  /\ symbols = [i \in Col |->
       IF i < S + H THEN VZero(Source) ELSE SymbolOf(isis[i - S - H + 1])]
  /\ phase = "rows" /\ rows = <<>> /\ known = <<>>
  /\ known_symbols = <<>> /\ missing_symbol = <<>> /\ decoded = <<>>

-----------------------------------------------------------------------------
(***************************************************************************)
(* Recognising the rows.                                                   *)
(***************************************************************************)
NoRows == <<>>
Contiguous(missing) == [missing |-> missing, repair |-> S + KPrime - 1, layout |-> NoRows]

\* Source symbols in order but for one, and a repair symbol last: what the mark
\* for one lost symbol says, as EncodedRows shows it, and the marks of rows.
contiguous_missing ==
  {m \in 0 .. KPrime - 1 :
     /\ RowIsi(S + KPrime - 1) >= KPrime
     /\ \A offset \in 0 .. KPrime - 2 :
          RowIsi(S + offset) = IF offset < m THEN offset ELSE offset + 1}

\* By the marks of rows a row is known by its ISI, and without them by its columns.
matrix_row_matches_systematic(row, isi, byMarks) ==
  isi < KPrime /\ IF byMarks THEN RowIsi(row) = isi ELSE RowOf[RowIsi(row)] = RowOf[isi]

MayBeRepair(row, byMarks) == byMarks => RowIsi(row) >= KPrime

Pass(scan, row, byMarks) ==
  IF matrix_row_matches_systematic(row, scan.expected, byMarks)
  THEN [scan EXCEPT !.pairs = Append(@, <<scan.expected, row>>), !.expected = @ + 1]
  ELSE IF /\ scan.missing = NotYet /\ scan.expected + 1 < KPrime
          /\ matrix_row_matches_systematic(row, scan.expected + 1, byMarks)
  THEN [scan EXCEPT !.missing = scan.expected, !.expected = @ + 2,
                    !.pairs = Append(@, <<scan.expected + 1, row>>)]
  ELSE IF scan.repair = NotYet /\ MayBeRepair(row, byMarks)
  THEN [scan EXCEPT !.repair = row,
                    !.missing = IF @ = NotYet THEN scan.expected ELSE @,
                    !.expected = IF scan.missing = NotYet THEN @ + 1 ELSE @]
  ELSE [scan EXCEPT !.fits = FALSE]

Scanned(byMarks) ==
  LET after[j \in 0 .. KPrime] ==
        IF j = 0
        THEN [expected |-> 0, missing |-> NotYet, repair |-> NotYet, pairs |-> <<>>,
              fits |-> TRUE]
        ELSE IF after[j - 1].fits THEN Pass(after[j - 1], S + j - 1, byMarks) ELSE after[j - 1]
  IN after[KPrime]

FromScan(byMarks) ==
  LET scan == Scanned(byMarks)
      complete == /\ scan.fits /\ NotYet \notin {scan.missing, scan.repair}
                  /\ scan.expected = KPrime /\ Len(scan.pairs) + 1 = KPrime
  IN IF ~complete THEN NoRows
     ELSE IF scan.repair = S + KPrime - 1 THEN Contiguous(scan.missing)
     ELSE [missing |-> scan.missing, repair |-> scan.repair, layout |-> scan.pairs]

classify_single_repair_systematic_rows ==
  IF marked /\ contiguous_missing # {}
  THEN Contiguous(CHOOSE m \in contiguous_missing : TRUE)
  ELSE IF marked /\ FromScan(TRUE) # NoRows THEN FromScan(TRUE)
  ELSE FromScan(FALSE)

-----------------------------------------------------------------------------
(***************************************************************************)
(* The lost symbol.                                                        *)
(***************************************************************************)
RepairCoefficients(found) == Coefficients(RowOf[RowIsi(found.repair)])

Fits(found) ==
  found # NoRows /\ found.missing < K /\ RepairCoefficients(found)[found.missing] # Zero

\* Faulty variant: symbols behind the gap are looked for in their own place.
RowInPlace(isi, missing) == S + isi

\* Rows behind the gap have moved up by one.
RowPastGap(isi, missing) == S + IF isi < missing THEN isi ELSE isi - 1

KnownSources(found) ==
  IF found.layout = NoRows
  THEN [j \in 1 .. K - 1 |-> LET isi == IF j <= found.missing THEN j - 1 ELSE j
                            IN <<isi, RowPastGap(isi, found.missing)>>]
  ELSE found.layout

Recognise ==
  /\ phase = "rows"
  /\ LET found == classify_single_repair_systematic_rows
     IN IF Fits(found)
        THEN /\ rows' = found /\ known' = KnownSources(found)
             /\ missing_symbol' = symbols[found.repair + H]
             /\ known_symbols' = [i \in Col |-> VZero(Source)]
             /\ phase' = "gather"
        ELSE phase' = "none" /\ UNCHANGED <<rows, known, missing_symbol, known_symbols>>
  /\ UNCHANGED <<kind, isis, marked, symbols, decoded>>

SymbolOfRow(row) == symbols[row + H]

\* With coefficients, known symbols are taken out one by one; here and below
\* padding is passed over.
TakeOut ==
  /\ phase = "gather" /\ kind = "plan" /\ known # <<>>
  /\ missing_symbol' =
       IF Head(known)[1] >= K THEN missing_symbol
       ELSE VPlus(missing_symbol,
              VTimes(RepairCoefficients(rows)[Head(known)[1]], SymbolOfRow(Head(known)[2])))
  /\ known' = Tail(known)
  /\ UNCHANGED <<kind, isis, marked, phase, rows, symbols, known_symbols, decoded>>

\* Without, a block is put together in which the lost symbol is zero.
PutInPlace ==
  /\ phase = "gather" /\ kind = "direct" /\ known # <<>>
  /\ known_symbols' =
       IF Head(known)[1] >= K THEN known_symbols
       ELSE [known_symbols EXCEPT ![S + H + Head(known)[1]] = SymbolOfRow(Head(known)[2])]
  /\ known' = Tail(known)
  /\ UNCHANGED <<kind, isis, marked, phase, rows, symbols, missing_symbol, decoded>>

\* The repair symbol that the block put together would have.
known_repair_symbol ==
  LET intermediate == [c \in Col |-> Combination(InverseMatrix[c], known_symbols, L)]
  IN Combination(RowOf[RowIsi(rows.repair)], intermediate, L)

\* The slab that is returned has one entry of the lost symbol's row.
StandIn(symbol) ==
  [c \in Col |-> IF c = LeadingColumn(RowOf[rows.missing]) THEN symbol ELSE VZero(Source)]

Divide ==
  /\ phase = "gather" /\ known = <<>>
  /\ LET rest == IF kind = "direct" THEN VPlus(missing_symbol, known_repair_symbol)
                                    ELSE missing_symbol
     IN missing_symbol' = VTimes(FInverse(RepairCoefficients(rows)[rows.missing]), rest)
  /\ decoded' = StandIn(missing_symbol')
  /\ phase' = "decoded"
  /\ UNCHANGED <<kind, isis, marked, rows, known, symbols, known_symbols>>

Answered == phase \in {"decoded", "none"} /\ UNCHANGED vars

Next == Recognise \/ TakeOut \/ PutInPlace \/ Divide \/ Answered
Spec == Init /\ [][Next]_vars

\* The decoder: a source symbol is the sum of the columns of its row.
rebuild_source_symbol_into(i) == Combination(RowOf[i], decoded, L)

-----------------------------------------------------------------------------
TypeInv ==
  /\ phase \in {"rows", "gather", "decoded", "none"}
  /\ phase \in {"gather", "decoded"} => rows.missing \in Source /\ rows.repair \in MatrixRow
  /\ Len(known) < KPrime

\* Every source symbol that was not received is rebuilt from what is returned,
\* though it satisfies no row but one: the decoder must not need a second
\* symbol, and the rows must have been taken for what they are
\* (pi_solver.rs 7689-7877, 7902-8061; decoder.rs 201-238).
LostAreRebuilt ==
  phase = "decoded" =>
    \A i \in Source \ Range(isis) : rebuild_source_symbol_into(i) = VUnit(Source, i)

\* With marks or without, the shortcut is taken for the rows it is for: source
\* symbols in order, and a repair symbol that tells the lost one, at the end
\* (pi_solver.rs 7707-7713, 7880-7964).
TakenWhereItFits ==
  phase = "none" =>
    ~ \E m \in contiguous_missing \cap Source : Coefficients(RowOf[isis[KPrime]])[m] # Zero
=============================================================================
