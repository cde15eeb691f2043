------------------------- MODULE ConnectedComponents -------------------------
(***************************************************************************)
(* What the labelling of an image promises: the connected regions of       *)
(* pixels above the positive threshold are numbered 1, 2, ..., those below *)
(* the negative threshold -1, -2, ..., in the order in which the columns   *)
(* of the sky meet them, however many threads label the image and whatever *)
(* order they work in.                                                     *)
(*                                                                         *)
(* Pixels are named <<row, column>> as the image is stored.  In the        *)
(* default build the image is left as the inverse FFT returns it, with its *)
(* quadrants swapped, so that pixels next to each other in the sky may be  *)
(* at opposite margins of the matrix; a build with FFTSHIFT stores the sky *)
(* as it is.                                                               *)
(***************************************************************************)
EXTENDS Integers, FiniteSets, FiniteSetsExt

CONSTANT
  Calls     \* the calls considered, records of
            \*   rows, cols: size of the image
            \*   image: [Pixel -> {-1, 0, 1}], below, between, above the thresholds
            \*   conn8: TRUE for labeling_8con, FALSE for labeling_4con
            \*   fftshift: the FFTSHIFT build option
            \*   find_negative: the findNegative template parameter

VARIABLES call, result

avars == <<call, result>>

Rows == call.rows
Cols == call.cols

Pixel == (0 .. Rows - 1) \X (0 .. Cols - 1)

SkyRow(r) == IF call.fftshift THEN r ELSE (r + Rows \div 2) % Rows
SkyCol(c) == IF call.fftshift THEN c ELSE (c + Cols \div 2) % Cols

Near(a, b) == a - b \in {-1, 0, 1}

Adjacent(p, q) ==
  /\ p # q
  /\ Near(SkyRow(p[1]), SkyRow(q[1]))
  /\ Near(SkyCol(p[2]), SkyCol(q[2]))
  /\ call.conn8 \/ p[1] = q[1] \/ p[2] = q[2]

\* +1 for a pixel of a positive source, -1 for one of a negative source.
Polarity(p) ==
  IF call.image[p] = -1 /\ ~ call.find_negative THEN 0 ELSE call.image[p]

\* The connected components of polarity s: each pixel joins the components of
\* the pixels before it that it is adjacent to.
Components(s) ==
  LET Join(q, parts) ==
        LET touched == {C \in parts : \E r \in C : Adjacent(q, r)}
        IN  (parts \ touched) \union {{q} \union UNION touched}
  IN  FoldSet(Join, {}, {q \in Pixel : Polarity(q) = s})

\* Position of a pixel in the scan: columns as they lie in the sky, each from
\* the top of the matrix.
ScanPosition(p) == SkyCol(p[2]) * Rows + p[1]

\* Where the scan meets component C for the first time.
FirstMet(C) ==
  LET positions == {ScanPosition(q) : q \in C}
  IN  CHOOSE x \in positions : \A y \in positions : x <= y

Labelling ==
  LET \* Each component with its number.
      numbered(s) ==
        LET starts == {FirstMet(C) : C \in Components(s)}
        IN  {[pixels |-> C, number |-> s * Cardinality({x \in starts : x <= FirstMet(C)})] :
               C \in Components(s)}
      labels == numbered(1) \union numbered(-1)
  IN  [map |-> [p \in Pixel |->
                  IF Polarity(p) = 0 THEN 0
                  ELSE (CHOOSE l \in labels : p \in l.pixels).number],
       pos |-> Cardinality(Components(1)),
       neg |-> Cardinality(Components(-1))]

AInit ==
  /\ call \in Calls
  /\ result = {}

\* The image has been labelled.  (result' # {} follows from the next conjunct:
\* it keeps TLC from computing the labelling at every step that is no answer.)
Label ==
  /\ result = {}
  /\ result' # {}
  /\ result' = {Labelling}
  /\ UNCHANGED call

ASpec == AInit /\ [][Label]_avars
==============================================================================
