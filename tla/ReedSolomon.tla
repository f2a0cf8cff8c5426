------------------------------ MODULE ReedSolomon ------------------------------
(***************************************************************************)
(* The Reed-Solomon code of the download frames                            *)
(* (Samples/ReedSolomon/src/rs.c) over a field of 2^MM elements instead of *)
(* 2^8.  A symbol is in polynomial form, or in index form: its logarithm,  *)
(* -1 for zero.  The tables s, reg and z of the decoder hold index forms   *)
(* in unsigned bytes.                                                      *)
(*                                                                         *)
(* A definition named Bug... is the next definition with a mistake in it,  *)
(* used to see that a property can fail.  Nothing else refers to it.       *)
(***************************************************************************)
EXTENDS Integers, FiniteSets, TLC, Bitwise, FiniteSetsExt

CONSTANTS
  MM,   \* mm, bits of a symbol
  PP,   \* pp, the irreducible polynomial
  TT    \* tt, "number of errors that can be corrected"

NN == 2^MM - 1   \* nn
KK == NN - 2 * TT   \* kk

ASSUME RsConstants ==
  /\ MM \in Nat \ {0} /\ PP \in [0..MM -> {0, 1}] /\ TT \in Nat \ {0} /\ KK > 0

Symbols == 0..NN
\* The sum in the field.
Add == [x \in Symbols, y \in Symbols |-> x ^^ y]

\* The sum of the values of a function.
AddOver(f) == FoldFunction(LAMBDA a, b : Add[a, b], 0, f)

-----------------------------------------------------------------------------
\* _generate_gf_; the element behind the table's last is zero.
Alpha[i \in 0..NN] ==
  IF i = NN THEN 0
  ELSE IF i < MM THEN 2^i
  ELSE IF i = MM THEN AddOver([j \in {k \in 0..(MM - 1) : PP[k] # 0} |-> 2^j])
  ELSE IF Alpha[i - 1] >= 2^(MM - 1)
       THEN Add[Alpha[MM], 2 * (Alpha[i - 1] - 2^(MM - 1))]
       ELSE 2 * Alpha[i - 1]

AlphaTo == [i \in 0..NN |-> Alpha[i]]
IndexOf == [x \in Symbols |-> IF x = 0 THEN -1 ELSE CHOOSE i \in 0..(NN - 1) : AlphaTo[i] = x]

Pow(i) == AlphaTo[i % NN]

\* An index form that is stored in a byte.
Byte(i) == i % 2^MM

\* _gen_poly_: the product of the X + alpha^i, before its conversion.
Gen[i \in 1..(2 * TT)] ==
  IF i = 1 THEN [j \in 0..(2 * TT) |-> CASE j = 0 -> 2 [] j = 1 -> 1 [] OTHER -> 0]
  ELSE [j \in 0..(2 * TT) |->
         IF j = i THEN 1
         ELSE IF j > i THEN 0
         ELSE LET raised == IF Gen[i - 1][j] # 0 THEN Pow(IndexOf[Gen[i - 1][j]] + i) ELSE 0
              IN  IF j = 0 THEN raised ELSE Add[Gen[i - 1][j - 1], raised]]

GenPoly == Gen[2 * TT]
Gg == [j \in 0..(2 * TT) |-> IndexOf[GenPoly[j]]]

\* RS_Encode: the shift register after the symbols data[i..kk-1], from the last on.
Register(data) ==
  LET R[i \in 0..KK] ==
        IF i = KK THEN [j \in 0..(2 * TT - 1) |-> 0]
        ELSE LET old      == R[i + 1]
                 feedback == IndexOf[Add[data[i], old[2 * TT - 1]]]
             IN  [j \in 0..(2 * TT - 1) |->
                   Add[IF j = 0 THEN 0 ELSE old[j - 1],
                       IF feedback # -1 /\ Gg[j] # -1 THEN Pow(Gg[j] + feedback) ELSE 0]]
  IN  R[0]

Encode(data) ==
  LET parity == Register(data)
  IN [i \in 0..(NN - 1) |-> IF i < KK THEN data[i] ELSE parity[i - KK]]

-----------------------------------------------------------------------------
Syndrome(word, i) ==
  AddOver([j \in {k \in 0..(NN - 1) : word[k] # 0} |-> Pow(IndexOf[word[j]] + i * j)])

\* s, reg and z: a zero is not -1 any more but 2^MM - 1, and the tests for -1 fail.
StoredIndex(x) == Byte(IndexOf[x])

\* alpha_to of an index form, 0 when it is -1.
Poly(i) == IF i = -1 THEN 0 ELSE AlphaTo[i]

Degrees == 0..(2 * TT)
One == [i \in Degrees |-> IF i = 0 THEN 1 ELSE 0]

\* A row of the iteration: d, l, u_lu and elp.  The rows are counted from 0.
Row0    == [d |-> 0, l |-> 0, lu |-> -1, elp |-> One]
Row1(s) == [d |-> s[1], l |-> 0, lu |-> 0, elp |-> One]

\* The row q before row u with a discrepancy and the greatest u_lu.
Best(row, u) ==
  LET found == {j \in 0..(u - 1) : row[j].d # -1}
  IN  CHOOSE q \in found : \A j \in found :
        row[j].lu < row[q].lu \/ (row[j].lu = row[q].lu /\ j <= q)

\* The term of degree k of row q, moved to its place in row u+1.
Moved(row, u, q, k) ==
  IF k \in 0..row[q].l /\ row[q].elp[k] # 0
  THEN Pow(row[u].d + NN - row[q].d + IndexOf[row[q].elp[k]]) ELSE 0

\* A step of the iteration: the next error location polynomial and its degree.
Merged(row, u, q) ==
  [l   |-> IF row[u].l > row[q].l + u - q THEN row[u].l ELSE row[q].l + u - q,
   elp |-> [i \in Degrees |-> Add[Moved(row, u, q, i - (u - q)), row[u].elp[i]]]]

NextElp(row, u) ==
  IF row[u].d = -1 THEN [l |-> row[u].l, elp |-> row[u].elp]
  ELSE Merged(row, u, Best(row, u))

\* d[u+1]; none is computed after the last syndrome.
Discrepancy(s, n, u) ==
  IF u = 2 * TT THEN -1
  ELSE IndexOf[Add[Poly(s[u + 1]),
                   AddOver([i \in {k \in 1..n.l : s[u + 1 - k] # -1 /\ n.elp[k] # 0} |->
                              Pow(s[u + 1 - i] + IndexOf[n.elp[i]])])]]

NextRow(s, n, u) == [d |-> Discrepancy(s, n, u), l |-> n.l, lu |-> u - n.l, elp |-> n.elp]

\* The iteration ends when there are more errors than can be corrected.
LastRow(row) ==
  row[CHOOSE u \in 2..(2 * TT + 1) :
        /\ u = 2 * TT + 1 \/ row[u].l > TT
        /\ \A v \in 2..(u - 1) : row[v].l <= TT]

\* The Berlekamp iteration: the last row.
Located(s) ==
  LET Rows[u \in 0..(2 * TT)] ==
        IF u = 0 THEN (0 :> Row0) @@ (1 :> Row1(s))
        ELSE Rows[u - 1] @@ ((u + 1) :> NextRow(s, NextElp(Rows[u - 1], u), u))
  IN  LastRow(Rows[2 * TT])

\* The last power is not tried.
BugTried == 1..(NN - 1)

Tried == 1..NN

\* The i at which the polynomial, with its coefficients from reg, is zero.
Roots(e) ==
  {i \in Tried : Add[1, AddOver([j \in {k \in 1..e.l : StoredIndex(e.elp[k]) # -1} |->
                                   Pow(StoredIndex(e.elp[j]) + j * i)])] = 0}

\* The polynomial z
Zed(s, e) ==
  [i \in 1..e.l |->
    StoredIndex(Add[Add[Poly(s[i]), e.elp[i]],
                    AddOver([j \in {k \in 1..(i - 1) : s[k] # -1 /\ e.elp[i - k] # 0} |->
                               Pow(IndexOf[e.elp[i - j]] + s[j])])])]

\* The value of the error at a root; its place is nn - root.
ErrorAt(root, roots, z) ==
  LET above == Add[1, AddOver([j \in {k \in DOMAIN z : z[k] # -1} |-> Pow(z[j] + j * root)])]
      below == MapThenSumSet(LAMBDA r : IndexOf[Add[1, Pow(NN - r + root)]], roots \ {root})
  IN  IF above = 0 THEN 0 ELSE Pow(IndexOf[above] - (below % NN) + NN)

Mended(word, roots, z) ==
  [p \in 0..(NN - 1) |->
    IF NN - p \in roots THEN Add[word[p], ErrorAt(NN - p, roots, z)] ELSE word[p]]

\* What is done with the error location polynomial.
Repaired(word, s, e) ==
  IF e.l > TT \/ Cardinality(Roots(e)) # e.l THEN [ret |-> 0, word |-> word]
  ELSE [ret |-> 1, word |-> Mended(word, Roots(e), Zed(s, e))]

Stored(word) == [i \in 1..(2 * TT) |-> StoredIndex(Syndrome(word, i))]

\* RS_Decode: what it returns and leaves in the buffer.
Decode(word) ==
  IF \A i \in 1..(2 * TT) : Syndrome(word, i) = 0 THEN [ret |-> 1, word |-> word]
  ELSE Repaired(word, Stored(word), Located(Stored(word)))
=============================================================================
