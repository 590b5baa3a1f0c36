----------------------------- MODULE RowLayout -----------------------------
(***************************************************************************)
(* Where the rows of a constraint matrix and their symbols lie.  The D     *)
(* vector holds S LDPC symbols, H HDPC symbols and then the symbols of the *)
(* encoded rows; the binary matrix holds the LDPC rows and the encoded     *)
(* rows without a gap.  Rows and columns are counted from 0.               *)
(***************************************************************************)
EXTENDS Naturals

\* The place in D of the symbol of a row of the binary matrix.
mapped_binary_symbol_row(row, s, h) == IF row < s THEN row ELSE row + h

\* The source row of each row when the HDPC rows are put last; the binary
\* matrix has `height` rows.
HdpcLastOrder(s, h, height) ==
  [row \in 0 .. height + h - 1 |->
     IF row < height THEN mapped_binary_symbol_row(row, s, h)
                     ELSE s + (row - height)]
=============================================================================
