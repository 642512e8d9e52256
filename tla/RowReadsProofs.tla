---------------------------- MODULE RowReadsProofs ----------------------------
(***************************************************************************)
(* What is proved of RowReads: the rows that lists and iterations read are *)
(* the frame's, no native copy writes outside what is allocated, and a     *)
(* finished matrix has every entry at its place, for every number of rows  *)
(* and columns, every window and every width of usize.                     *)
(*                                                                         *)
(* IInv says, step by step of a conversion, what lies in memory: a copy    *)
(* puts elements (PutGet) and disturbs nothing beside them (PutKeeps),     *)
(* offsets cut a buffer into strings (ByteIsOf), and a matrix's places are *)
(* distinct (PlacesAre).  Sums, names and first nulls are recursive        *)
(* functions, of which existence and values are proved by induction on a   *)
(* set of numbers (InductionOnSet, from LeastNat).                         *)
(***************************************************************************)
EXTENDS RowReads, SequenceTheorems, WellFoundedInduction, TLAPS

-----------------------------------------------------------------------------
(* Numbers.                                                                *)

\* A set of numbers has a least one, and what it inherits from 0 on is all numbers.
LEMMA LeastNat ==
  ASSUME NEW T, T \subseteq Nat, T # {}
  PROVE  \E k \in T : \A m \in T : k <= m
<1> DEFINE R == OpToRel(<, Nat)
<1>1. IsWellFoundedOn(R, Nat)
  BY NatLessThanWellFounded
<1>2. \A x, y \in Nat : x < y => <<x, y>> \in R
  BY SMT DEF OpToRel
<1> HIDE DEF R
<1>3. \E x \in T : \A y \in T : ~ (<<y, x>> \in R)
  BY <1>1, WFMin
<1>4. \A x, y \in Nat : ~(x < y) => y <= x
  OBVIOUS
<1> QED BY <1>2, <1>3, <1>4, Zenon

LEMMA InductionOnSet ==
  ASSUME NEW T, 0 \in T, \A k \in Nat : k \in T => k + 1 \in T
  PROVE  \A k \in Nat : k \in T
<1> DEFINE Out == Nat \ T
<1> SUFFICES ASSUME Out # {} PROVE FALSE
  OBVIOUS
<1>1. PICK k \in Out : \A m \in Out : k <= m
  <2>1. Out \subseteq Nat
    OBVIOUS
  <2> HIDE DEF Out
  <2> QED BY <2>1, LeastNat
<1>2. k # 0 /\ k \in Nat /\ k - 1 \in Nat /\ k - 1 < k
  BY <1>1
<1>3. k - 1 \in T
  BY <1>1, <1>2
<1>4. (k - 1) + 1 \in T
  BY <1>2, <1>3
<1> QED BY <1>1, <1>2, <1>4

LEMMA TimesGrows ==
  ASSUME NEW k \in Nat, NEW x \in Int, NEW y \in Int, x <= y
  PROVE  k * x <= k * y
<1>1. k * (y - x) >= 0
  OBVIOUS
<1>2. k * (y - x) = k * y - k * x
  OBVIOUS
<1> QED BY <1>1, <1>2

LEMMA Quotient ==
  ASSUME NEW a \in Int, NEW b \in Nat \ {0}
  PROVE  /\ a \div b \in Int
         /\ b * (a \div b) <= a
         /\ a - b * (a \div b) \in 0 .. b - 1
         /\ a % b = a - b * (a \div b)
OBVIOUS

\* A number has one quotient and one remainder.
LEMMA PairIsUnique ==
  ASSUME NEW k \in Nat, NEW a \in Int, NEW b \in 0 .. k - 1, NEW c \in Int, NEW d \in 0 .. k - 1,
         k * a + b = k * c + d
  PROVE  a = c /\ b = d
<1>1. ASSUME NEW x \in Int, NEW p \in 0 .. k - 1, NEW y \in Int, NEW q \in 0 .. k - 1,
             k * x + p = k * y + q, x < y
      PROVE  FALSE
  <2>1. k * (x + 1) <= k * y
    BY <1>1, TimesGrows
  <2>2. k * (x + 1) = k * x + k
    OBVIOUS
  <2>3. k * x \in Int /\ k * y \in Int
    OBVIOUS
  <2> QED BY <1>1, <2>1, <2>2, <2>3
<1>2. ~(a < c) /\ ~(c < a)
  BY <1>1
<1>3. a = c
  BY <1>2
<1>4. k * a \in Int
  OBVIOUS
<1> QED BY <1>3, <1>4

-----------------------------------------------------------------------------
(* Sequences.                                                              *)

\* Length and domain of a sequence given as a function, and what Append makes of it.
LEMMA LenIs ==
  ASSUME NEW k \in Nat, NEW s, s = [i \in 1 .. k |-> s[i]]
  PROVE  Len(s) = k /\ DOMAIN s = 1 .. k
<1> DEFINE S == {s[i] : i \in 1 .. k}
<1>1. s \in [1 .. k -> S]
  OBVIOUS
<1> HIDE DEF S
<1>2. s \in Seq(S)
  BY <1>1
<1> QED BY <1>1, <1>2

LEMMA AppendIs ==
  ASSUME NEW k \in Nat, NEW s, s = [i \in 1 .. k |-> s[i]], NEW e
  PROVE  Append(s, e) = [i \in 1 .. k + 1 |-> IF i = k + 1 THEN e ELSE s[i]]
<1> DEFINE S == {s[i] : i \in 1 .. k} \cup {e}
<1>1. s \in [1 .. k -> S] /\ e \in S
  OBVIOUS
<1> HIDE DEF S
<1>2. s \in Seq(S)
  BY <1>1
<1>3. Len(s) = k
  BY <1>1, <1>2
<1> QED BY <1>1, <1>2, <1>3, AppendProperties

-----------------------------------------------------------------------------
(* Memory: what is put is got, and what is put elsewhere stays.            *)

Widths == {1, 2, 4, 8}

LEMMA PutDomain ==
  ASSUME NEW m, NEW at \in Nat, NEW w \in Widths, NEW k \in Nat, NEW els, Len(els) = k
  PROVE  DOMAIN Put(m, at, w, els) = DOMAIN m \cup Bytes(at, w * k)
BY DEF Put

LEMMA BytesAre ==
  ASSUME NEW b \in Nat, NEW w \in Widths
  PROVE  Bytes(b, w) = {b + q : q \in 0 .. w - 1}
<1>1. w \in Nat
  BY DEF Widths
<1>2. ASSUME NEW x \in Bytes(b, w) PROVE x - b \in 0 .. w - 1 /\ x = b + (x - b)
  BY <1>1 DEF Bytes
<1>3. ASSUME NEW q \in 0 .. w - 1 PROVE b + q \in Bytes(b, w)
  BY <1>1 DEF Bytes
<1> QED BY <1>2, <1>3

\* The bytes of the i-th of k elements of w bytes each.
LEMMA Placed ==
  ASSUME NEW w \in Widths, NEW k \in Nat, NEW i \in 1 .. k, NEW q \in 0 .. w - 1
  PROVE  /\ w * (i - 1) + q \in 0 .. w * k - 1
         /\ (w * (i - 1) + q) \div w = i - 1
         /\ (w * (i - 1) + q) % w = q
<1>1. CASE w = 1
  BY <1>1
<1>2. CASE w = 2
  BY <1>2
<1>3. CASE w = 4
  BY <1>3
<1>4. CASE w = 8
  BY <1>4
<1> QED BY <1>2, <1>3, <1>4 DEF Widths

\* An element that was put is got.
LEMMA PutGet ==
  ASSUME NEW m, NEW at \in Nat, NEW w \in Widths, NEW k \in Nat, NEW els, Len(els) = k,
         NEW i \in 1 .. k, NEW b, b = at + w * (i - 1)
  PROVE  Get(Put(m, at, w, els), b, w) = els[i]
<1> DEFINE p == Put(m, at, w, els)
<1>0. w \in Nat /\ w * (i - 1) \in Nat /\ w * k \in Nat /\ 0 \in 0 .. w - 1
  BY DEF Widths
<1>2. ASSUME NEW q \in 0 .. w - 1, NEW x, x = b + q
      PROVE  x \in Bytes(at, w * k) /\ ((x - at) \div w) + 1 = i /\ (x - at) % w = q
  <2>1. x - at = w * (i - 1) + q
    BY <1>0, <1>2
  <2>2. w * (i - 1) + q \in 0 .. w * k - 1
    BY Placed
  <2>3. x \in Bytes(at, w * k)
    <3> DEFINE y == w * (i - 1)  z == w * k
    <3>1. y \in Nat /\ z \in Nat /\ y + q \in 0 .. z - 1 /\ x = at + y + q
      BY <1>0, <1>2, <2>2
    <3> HIDE DEF y, z
    <3>2. x \in at .. (at + z - 1)
      BY <3>1
    <3> QED BY <3>2 DEF Bytes, z
  <2>4. (w * (i - 1) + q) \div w = i - 1 /\ (w * (i - 1) + q) % w = q
    BY Placed
  <2> QED BY <2>1, <2>3, <2>4
<1>5. b \in Nat
  BY <1>0
<1>3. ASSUME NEW q \in 0 .. w - 1 PROVE b + q \in DOMAIN p /\ p[b + q] = <<els[i], q>>
  <2>1. PICK x : x = b + q
    OBVIOUS
  <2>2. x \in Bytes(at, w * Len(els)) /\ ((x - at) \div w) + 1 = i /\ (x - at) % w = q
    BY <1>2, <2>1
  <2>3. x \in DOMAIN p /\ p[x] = <<els[((x - at) \div w) + 1], (x - at) % w>>
    BY <2>2 DEF Put
  <2> QED BY <2>1, <2>2, <2>3
<1> HIDE DEF p
<1>6. Bytes(b, w) \subseteq DOMAIN p
  BY <1>3, <1>5, BytesAre
<1>7. p[b] = <<els[i], 0>>
  <2>1. p[b + 0] = <<els[i], 0>>
    BY <1>0, <1>3
  <2> QED BY <1>5, <2>1
<1>8. Get(p, b, w) = els[i]
  BY <1>3, <1>6, <1>7 DEF Get
<1> QED BY <1>8 DEF p

\* An element beside those that are put stays.
LEMMA PutKeeps ==
  ASSUME NEW m, NEW at \in Nat, NEW w \in Widths, NEW k \in Nat, NEW els, Len(els) = k,
         NEW b \in Nat, NEW v \in Widths, b + v <= at \/ at + w * k <= b, Bytes(b, v) \subseteq DOMAIN m
  PROVE  Get(Put(m, at, w, els), b, v) = Get(m, b, v)
<1> DEFINE p == Put(m, at, w, els)
<1>0. v \in Nat /\ w * k \in Nat /\ 0 \in 0 .. v - 1
  BY DEF Widths
<1>2. ASSUME NEW q \in 0 .. v - 1 PROVE b + q \in DOMAIN p /\ p[b + q] = m[b + q]
  <2>1. b + q \in Bytes(b, v) /\ b + q \notin Bytes(at, w * k)
    BY <1>0 DEF Bytes
  <2> QED BY <2>1 DEF Put
<1> HIDE DEF p
<1>4. p[b] = m[b]
  BY <1>0, <1>2
<1>5. Bytes(b, v) \subseteq DOMAIN p
  BY <1>2, BytesAre
<1>6. \A q \in 0 .. v - 1 : p[b + q] = m[b + q]
  BY <1>2
<1>7. Get(p, b, v) = Get(m, b, v)
  BY <1>4, <1>5, <1>6 DEF Get
<1> QED BY <1>7 DEF p

-----------------------------------------------------------------------------
(* Strings: where each ends, and which byte of a buffer is whose.          *)

\* The sums of lengths exist, grow, and differ by the lengths.
LEMMA EndsExist ==
  ASSUME NEW k \in Nat, NEW f \in [1 .. k -> Int]
  PROVE  \E g : g = [r \in 0 .. k |-> IF r = 0 THEN 0 ELSE g[r - 1] + f[r]]
<1> DEFINE SumUpTo(g, l) == g[0] = 0 /\ \A i \in 1 .. l : g[i] = g[i - 1] + f[i]
           T == {l \in Nat : l <= k => \E g \in [0 .. l -> Int] : SumUpTo(g, l)}
<1>1. 0 \in T
  <2>1. [i \in 0 .. 0 |-> 0] \in [0 .. 0 -> Int] /\ SumUpTo([i \in 0 .. 0 |-> 0], 0)
    OBVIOUS
  <2> QED BY <2>1
<1>2. ASSUME NEW l \in Nat, l \in T PROVE l + 1 \in T
  <2>1. SUFFICES ASSUME l + 1 <= k PROVE \E g \in [0 .. l + 1 -> Int] : SumUpTo(g, l + 1)
    <3> HIDE DEF SumUpTo
    <3>1. l + 1 \in Nat
      OBVIOUS
    <3> QED BY <3>1
  <2>2. PICK g \in [0 .. l -> Int] : SumUpTo(g, l)
    BY <1>2, <2>1
  <2> DEFINE h == [i \in 0 .. l + 1 |-> IF i = l + 1 THEN g[l] + f[l + 1] ELSE g[i]]
  <2>3. h \in [0 .. l + 1 -> Int]
    BY <2>1, <2>2
  <2>4. SumUpTo(h, l + 1)
    BY <2>1, <2>2
  <2> QED BY <2>3, <2>4
<1> HIDE DEF T
<1>3. k \in T
  BY <1>1, <1>2, InductionOnSet
<1>4. PICK g \in [0 .. k -> Int] : SumUpTo(g, k)
  BY <1>3 DEF T
<1>5. g = [r \in 0 .. k |-> IF r = 0 THEN 0 ELSE g[r - 1] + f[r]]
  BY <1>4
<1> QED BY <1>5

AreEnds(ends, k, f) ==
  /\ ends \in [0 .. k -> Nat] /\ ends[0] = 0
  /\ \A i \in 1 .. k : ends[i] = ends[i - 1] + f[i]
  /\ \A a, b \in 0 .. k : a <= b => ends[a] <= ends[b]

LEMMA EndsAre ==
  ASSUME NEW k \in Nat, NEW f \in [1 .. k -> Nat]
  PROVE  AreEnds(EndsOf(f), k, f)
<1> DEFINE Sums(g) == g = [r \in 0 .. k |-> IF r = 0 THEN 0 ELSE g[r - 1] + f[r]]
<1>1. f = [i \in 1 .. k |-> f[i]]
  OBVIOUS
<1>2. Len(f) = k
  BY <1>1, LenIs
<1>3. EndsOf(f) = CHOOSE g : Sums(g)
  BY <1>2 DEF EndsOf
<1>4. \E g : Sums(g)
  <2>1. f \in [1 .. k -> Int]
    OBVIOUS
  <2> QED BY <2>1, EndsExist, SMTT(30)
<1> HIDE DEF Sums
<1>5. PICK g : g = EndsOf(f)
  OBVIOUS
<1>6. Sums(g)
  BY <1>3, <1>4, <1>5
<1>7. g[0] = 0 /\ DOMAIN g = 0 .. k /\ \A i \in 1 .. k : g[i] = g[i - 1] + f[i]
  BY <1>6 DEF Sums
<1>8. \A i \in 0 .. k : g[i] \in Nat
  <2> DEFINE T == {i \in Nat : i <= k => g[i] \in Nat}
  <2>1. 0 \in T
    BY <1>7
  <2>2. \A i \in Nat : i \in T => i + 1 \in T
    <3> SUFFICES ASSUME NEW i \in Nat, i \in T, i + 1 <= k PROVE g[i + 1] \in Nat
      OBVIOUS
    <3>1. i + 1 \in 1 .. k /\ (i + 1) - 1 = i /\ g[i] \in Nat /\ f[i + 1] \in Nat
      OBVIOUS
    <3> QED BY <1>7, <3>1
  <2> HIDE DEF T
  <2>3. \A i \in Nat : i \in T
    BY <2>1, <2>2, InductionOnSet
  <2> QED BY <2>3 DEF T
<1>9. ASSUME NEW a \in 0 .. k PROVE \A b \in a .. k : g[a] <= g[b]
  <2> DEFINE T == {i \in Nat : a + i <= k => g[a] <= g[a + i]}
  <2>1. 0 \in T
    BY <1>8
  <2>2. \A i \in Nat : i \in T => i + 1 \in T
    <3> SUFFICES ASSUME NEW i \in Nat, i \in T, a + (i + 1) <= k PROVE g[a] <= g[a + (i + 1)]
      OBVIOUS
    <3>1. PICK c : c = a + (i + 1)
      OBVIOUS
    <3>2. c \in 1 .. k /\ c - 1 = a + i /\ a + i \in 0 .. k
      BY <3>1
    <3>3. g[a] <= g[a + i]
      BY <3>2
    <3>4. g[c] = g[c - 1] + f[c] /\ f[c] \in Nat
      BY <1>7, <3>2
    <3>5. g[a] \in Nat /\ g[a + i] \in Nat
      BY <1>8, <3>2
    <3> HIDE DEF T
    <3> QED BY <3>1, <3>2, <3>3, <3>4, <3>5
  <2> HIDE DEF T
  <2>3. \A i \in Nat : i \in T
    BY <2>1, <2>2, InductionOnSet
  <2>4. ASSUME NEW b \in a .. k PROVE g[a] <= g[b]
    <3>1. b - a \in T /\ b - a \in Nat /\ a + (b - a) = b
      BY <2>3
    <3> QED BY <3>1 DEF T
  <2> QED BY <2>4
<1>10. g = [i \in 0 .. k |-> g[i]]
  BY <1>6 DEF Sums
<1>11. g \in [0 .. k -> Nat]
  BY <1>8, <1>10
<1>12. \A a, b \in 0 .. k : a <= b => g[a] <= g[b]
  BY <1>9
<1> QED BY <1>5, <1>7, <1>11, <1>12 DEF AreEnds

\* Which string the byte x is of.
OwnerOf(ends, k, x) == CHOOSE q \in 1 .. k : ends[q - 1] < x /\ x <= ends[q]

\* A byte of the i-th string is written, and is of that string only.
IsByte(ends, k, f, i, x, y) ==
  /\ k \in Nat /\ f \in [1 .. k -> Nat] /\ AreEnds(ends, k, f)
  /\ i \in 1 .. k /\ x \in 1 .. f[i] /\ y = ends[i - 1] + x

LEMMA ByteIsOf ==
  ASSUME NEW ends, NEW k, NEW f, NEW i, NEW x, NEW y, IsByte(ends, k, f, i, x, y)
  PROVE  /\ y \in 1 .. ends[k] /\ y - ends[i - 1] = x
         /\ OwnerOf(ends, k, y) = i
<1>0. /\ k \in Nat /\ f \in [1 .. k -> Nat] /\ AreEnds(ends, k, f)
      /\ i \in 1 .. k /\ x \in 1 .. f[i] /\ y = ends[i - 1] + x
  BY DEF IsByte
<1>1. /\ ends \in [0 .. k -> Nat] /\ \A q \in 1 .. k : ends[q] = ends[q - 1] + f[q]
      /\ \A p, q \in 0 .. k : p <= q => ends[p] <= ends[q]
  BY <1>0 DEF AreEnds
<1>2. i \in 0 .. k /\ i - 1 \in 0 .. k /\ k \in 0 .. k /\ i <= k
  BY <1>0
<1>3. /\ ends[i - 1] \in Nat /\ ends[i] \in Nat /\ ends[i] = ends[i - 1] + f[i]
      /\ ends[i] <= ends[k] /\ f[i] \in Nat /\ ends[k] \in Nat
  BY <1>0, <1>1, <1>2
<1>4. ends[i - 1] < y /\ y <= ends[i] /\ y \in 1 .. ends[k] /\ y - ends[i - 1] = x
  <2>1. PICK before, after, last, length :
          before = ends[i - 1] /\ after = ends[i] /\ last = ends[k] /\ length = f[i]
    OBVIOUS
  <2>2. /\ before \in Nat /\ after \in Nat /\ last \in Nat /\ length \in Nat
        /\ after = before + length /\ after <= last /\ x \in 1 .. length /\ y = before + x
    BY <1>0, <1>3, <2>1
  <2>3. before < y /\ y <= after /\ y \in 1 .. last /\ y - before = x
    BY <2>2
  <2> QED BY <2>1, <2>3
<1>5. ASSUME NEW q \in 1 .. k, ends[q - 1] < y, y <= ends[q] PROVE q = i
  <2>1. q - 1 \in 0 .. k /\ i - 1 \in 0 .. k /\ q \in 0 .. k /\ i \in 0 .. k
    BY <1>0
  <2>2. /\ ends[q - 1] \in Nat /\ ends[i - 1] \in Nat /\ ends[q] \in Nat /\ ends[i] \in Nat
        /\ q <= i - 1 => ends[q] <= ends[i - 1]
        /\ i <= q - 1 => ends[i] <= ends[q - 1]
        /\ y \in Int
    BY <1>1, <1>4, <2>1
  <2>3. ~(q <= i - 1) /\ ~(i <= q - 1)
    BY <1>4, <1>5, <2>2
  <2> QED BY <2>1, <2>3
<1>6. OwnerOf(ends, k, y) = i
  BY <1>0, <1>4, <1>5 DEF OwnerOf
<1> QED BY <1>4, <1>6

-----------------------------------------------------------------------------
(* The names of a categorical's rows.                                      *)

NamesUpTo(rows, g, l) ==
  /\ g[0] = <<>>
  /\ \A r \in 1 .. l : g[r] = IF rows[r] = Null \/ Contains(g[r - 1], rows[r]) THEN g[r - 1]
                              ELSE Append(g[r - 1], rows[r])

\* The recursive function of names exists.
LEMMA NamesExist ==
  ASSUME NEW k \in Nat, NEW rows \in [1 .. k -> Nat \cup {Null}]
  PROVE  \E g : g = [r \in 0 .. k |->
                       IF r = 0 THEN <<>>
                       ELSE IF rows[r] = Null \/ Contains(g[r - 1], rows[r]) THEN g[r - 1]
                       ELSE Append(g[r - 1], rows[r])]
<1> DEFINE T == {l \in Nat : l <= k => \E g : DOMAIN g = 0 .. l /\ g = [i \in DOMAIN g |-> g[i]] /\ NamesUpTo(rows, g, l)}
<1>1. 0 \in T
  <2> DEFINE h == [i \in 0 .. 0 |-> <<>>]
  <2>1. DOMAIN h = 0 .. 0 /\ h = [i \in DOMAIN h |-> h[i]] /\ NamesUpTo(rows, h, 0)
    BY DEF NamesUpTo
  <2> QED BY <2>1
<1>2. ASSUME NEW l \in Nat, l \in T PROVE l + 1 \in T
  <2>1. SUFFICES ASSUME l + 1 <= k
                 PROVE  \E g : DOMAIN g = 0 .. l + 1 /\ g = [i \in DOMAIN g |-> g[i]] /\ NamesUpTo(rows, g, l + 1)
    OBVIOUS
  <2>2. PICK g : DOMAIN g = 0 .. l /\ NamesUpTo(rows, g, l)
    BY <1>2, <2>1
  <2>3. PICK e : e = IF rows[l + 1] = Null \/ Contains(g[l], rows[l + 1]) THEN g[l]
                     ELSE Append(g[l], rows[l + 1])
    OBVIOUS
  <2> DEFINE h == [i \in 0 .. l + 1 |-> IF i = l + 1 THEN e ELSE g[i]]
  <2>4. DOMAIN h = 0 .. l + 1 /\ h = [i \in DOMAIN h |-> h[i]]
    OBVIOUS
  <2>5. h[l + 1] = e /\ \A i \in 0 .. l : h[i] = g[i]
    OBVIOUS
  <2> HIDE DEF h
  <2>6. h[0] = <<>>
    BY <2>2, <2>5 DEF NamesUpTo
  <2>7. ASSUME NEW r \in 1 .. l + 1
        PROVE  h[r] = IF rows[r] = Null \/ Contains(h[r - 1], rows[r]) THEN h[r - 1]
                      ELSE Append(h[r - 1], rows[r])
    <3>1. h[r - 1] = g[r - 1]
      BY <2>5
    <3>2. CASE r = l + 1
      BY <2>3, <2>5, <3>1, <3>2
    <3>3. CASE r \in 1 .. l
      BY <2>2, <2>5, <3>1, <3>3 DEF NamesUpTo
    <3> QED BY <3>2, <3>3
  <2> QED BY <2>4, <2>6, <2>7 DEF NamesUpTo
<1> HIDE DEF T
<1>3. k \in T
  BY <1>1, <1>2, InductionOnSet
<1>4. PICK g : DOMAIN g = 0 .. k /\ g = [i \in DOMAIN g |-> g[i]] /\ NamesUpTo(rows, g, k)
  BY <1>3 DEF T
<1> DEFINE h == [r \in 0 .. k |->
                   IF r = 0 THEN <<>>
                   ELSE IF rows[r] = Null \/ Contains(g[r - 1], rows[r]) THEN g[r - 1]
                   ELSE Append(g[r - 1], rows[r])]
<1>5. ASSUME NEW r \in 0 .. k PROVE g[r] = h[r]
  <2>1. r = 0 \/ (r \in 1 .. k /\ r # 0)
    OBVIOUS
  <2> QED BY <1>4, <2>1, Zenon DEF NamesUpTo
<1>6. h = [i \in 0 .. k |-> h[i]]
  OBVIOUS
<1> HIDE DEF h
<1>7. g = h
  BY <1>4, <1>5, <1>6
<1> QED BY <1>7 DEF h

\* Every row has its name among them, and there are no more names than rows.
LEMMA NamesAre ==
  ASSUME NEW k \in Nat, NEW rows \in [1 .. k -> Nat \cup {Null}],
         NEW names, names = NamesIn(rows)
  PROVE  /\ names \in Seq(Nat) /\ Len(names) <= k
         /\ \A r \in 1 .. k : rows[r] # Null => \E q \in 1 .. Len(names) : names[q] = rows[r]
<1> DEFINE Named(g) == g = [r \in 0 .. k |->
                              IF r = 0 THEN <<>>
                              ELSE IF rows[r] = Null \/ Contains(g[r - 1], rows[r]) THEN g[r - 1]
                              ELSE Append(g[r - 1], rows[r])]
<1>1. Len(rows) = k
  BY LenIs
<1>2. \E g : Named(g)
  BY NamesExist
<1>3. NamesIn(rows) = (CHOOSE g : Named(g))[k]
  BY <1>1 DEF NamesIn
<1> HIDE DEF Named
<1>4. PICK g : Named(g) /\ NamesIn(rows) = g[k]
  BY <1>2, <1>3
<1>5. NamesUpTo(rows, g, k)
  <2>1. g[0] = <<>>
    BY <1>4 DEF Named
  <2>2. ASSUME NEW r \in 1 .. k
        PROVE  g[r] = IF rows[r] = Null \/ Contains(g[r - 1], rows[r]) THEN g[r - 1]
                      ELSE Append(g[r - 1], rows[r])
    <3>1. r \in 0 .. k /\ r # 0
      OBVIOUS
    <3> QED BY <1>4, <3>1, Zenon DEF Named
  <2> QED BY <2>1, <2>2 DEF NamesUpTo
<1> DEFINE Good(l) == /\ g[l] \in Seq(Nat) /\ Len(g[l]) <= l
                      /\ \A r \in 1 .. l : rows[r] # Null => \E q \in 1 .. Len(g[l]) : g[l][q] = rows[r]
           T == {l \in Nat : l <= k => Good(l)}
<1>6. 0 \in T
  <2>1. g[0] = <<>>
    BY <1>5 DEF NamesUpTo
  <2>2. <<>> \in Seq(Nat) /\ Len(<<>>) = 0
    OBVIOUS
  <2>3. g[0] \in Seq(Nat) /\ Len(g[0]) <= 0
    BY <2>1, <2>2
  <2> QED BY <2>3
<1>7. ASSUME NEW l \in Nat, l \in T PROVE l + 1 \in T
  <2> SUFFICES ASSUME l + 1 <= k PROVE Good(l + 1)
    OBVIOUS
  <2>1. Good(l) /\ l + 1 \in 1 .. k /\ (l + 1) - 1 = l
    BY <1>7
  <2>2. g[l + 1] = IF rows[l + 1] = Null \/ Contains(g[l], rows[l + 1]) THEN g[l]
                   ELSE Append(g[l], rows[l + 1])
    BY <1>5, <2>1 DEF NamesUpTo
  <2>3. \A r \in 1 .. l + 1 : r \in 1 .. l \/ r = l + 1
    OBVIOUS
  <2>4. CASE rows[l + 1] = Null \/ Contains(g[l], rows[l + 1])
    <3>1. g[l + 1] = g[l]
      BY <2>2, <2>4
    <3>2. rows[l + 1] # Null => \E q \in 1 .. Len(g[l]) : g[l][q] = rows[l + 1]
      BY <2>1, <2>4 DEF Contains
    <3> QED BY <2>1, <2>3, <3>1, <3>2
  <2>5. CASE ~(rows[l + 1] = Null \/ Contains(g[l], rows[l + 1]))
    <3>1. g[l + 1] = Append(g[l], rows[l + 1]) /\ rows[l + 1] \in Nat
      BY <2>1, <2>2, <2>5
    <3>2. /\ g[l + 1] \in Seq(Nat) /\ Len(g[l + 1]) = Len(g[l]) + 1
          /\ g[l + 1][Len(g[l]) + 1] = rows[l + 1]
          /\ \A q \in 1 .. Len(g[l]) : g[l + 1][q] = g[l][q]
      BY <2>1, <3>1, AppendProperties
    <3>3. Len(g[l]) \in Nat /\ Len(g[l]) <= l
      BY <2>1
    <3>4. \E q \in 1 .. Len(g[l + 1]) : g[l + 1][q] = rows[l + 1]
      BY <3>2, <3>3
    <3>5. ASSUME NEW r \in 1 .. l, rows[r] # Null
          PROVE  \E q \in 1 .. Len(g[l + 1]) : g[l + 1][q] = rows[r]
      <4>1. PICK q \in 1 .. Len(g[l]) : g[l][q] = rows[r]
        BY <2>1, <3>5
      <4>2. q \in 1 .. Len(g[l + 1]) /\ g[l + 1][q] = rows[r]
        BY <3>2, <3>3, <4>1
      <4> QED BY <4>2
    <3>6. Len(g[l + 1]) <= l + 1
      BY <3>2, <3>3
    <3> QED BY <2>3, <3>2, <3>4, <3>5, <3>6
  <2> QED BY <2>4, <2>5
<1> HIDE DEF T
<1>8. k \in T
  BY <1>6, <1>7, InductionOnSet
<1> QED BY <1>4, <1>8 DEF T

-----------------------------------------------------------------------------
(* The inductive invariant.                                                *)

Windowed   == form \in {"series", "frame"}
Converting == form # "matrix" /\ pc \in {"column", "copy", "size", "names", "collect"}
Copying    == pc \in {"copy", "size", "names", "collect"}

\* What an instance is given, and keeps.
Configured ==
  /\ form \in {"list", "series", "frame", "matrix", "native"}
  /\ n \in 0 .. MaxRows
  /\ Len(cols) \in Nat /\ DOMAIN cols = 1 .. Len(cols)
  /\ \A c \in DOMAIN cols : cols[c] \in Columns
  /\ Len(cols) * n <= MaxCells
  /\ form \in {"series", "native"} => Len(cols) = 1
  /\ form \in {"matrix", "native"} => \A c \in DOMAIN cols : cols[c].dtype \in F64Convertible
  /\ size \in 0 .. MaxRows /\ (Windowed => size >= 1)
  /\ order \in {"fortran", "c"} /\ policy \in {"fill", "error"}

\* Where each form is in its course.
Controlled ==
  /\ pos \in 0 .. n /\ first \in 0 .. pos /\ (~Windowed => pos = 0)
  /\ j \in 1 .. Len(cols) + 1 /\ Len(built) <= Len(cols)
  /\ form = "native" => pc \in {"native", "done", "refused"}
  /\ form = "matrix" => pc \in {"column", "double", "raised", "done"}
  /\ form = "list"   => pc \in {"column", "copy", "size", "names", "collect", "raised", "done"}
  /\ Windowed => pc \in {"idle", "column", "copy", "size", "names", "collect", "raised", "too early"}
  /\ Copying \/ pc = "double" => j <= Len(cols)
  /\ pc = "copy" => column.dtype \in Physical \cup {"zoned", "decimal", "categorical"}
  /\ pc \in {"size", "names"} => column.dtype \in {"string", "categorical"}
  /\ Windowed /\ Converting => first < n
  /\ got = None \/ got[1] \in 0 .. n - 1

\* The rows of the window as a program is to read them.
RowsOf(c) == [r \in 1 .. count |-> Expected(cols[c].dtype, cols[c].rows[first + r])]

\* The columns converted so far are right, and a block is what was built.
BuiltRight == Converting => built = [c \in 1 .. j - 1 |-> RowsOf(c)]

BlockRight ==
  /\ block = None \/ DOMAIN block = DOMAIN cols
  /\ form = "list" /\ pc = "done" => block = [c \in DOMAIN cols |-> RowsOf(c)]
  /\ ~Resumes =>
       /\ block = None => pos = 0
       /\ pc \in {"idle", "too early"} /\ block # None =>
            block = [c \in DOMAIN cols |-> RowsOf(c)] /\ first < n
       /\ got # None =>
            got[2] = [c \in DOMAIN cols |-> Expected(cols[c].dtype, cols[c].rows[got[1] + 1])]

\* Which entries of the validity buffer have been written, and how.
ValidWritten ==
  \/ pc = "collect"
  \/ pc \in {"size", "names"} /\ column.dtype = "categorical"

ValidRight ==
  /\ valid = None \/ valid \in Seq({0, 1})
  /\ Copying =>
       /\ ~HasNulls(j) => valid = None
       /\ HasNulls(j) => valid \in [1 .. count -> {0, 1}]
       /\ ValidWritten /\ HasNulls(j) => \A r \in 1 .. count : valid[r] = 0 <=> window[r] = Null

\* What is allocated.
RoomRight ==
  /\ DOMAIN mem \subseteq room
  /\ form = "frame" /\ Converting => room = Bytes(0, ScratchBytes(count))
  /\ form # "frame" /\ Copying => OwnBytes \subseteq room
  /\ form # "frame" /\ pc \in {"size", "names"} /\ column.dtype = "categorical" =>
       Bytes(Apart, 8 * (Len(table) + 1)) \subseteq room

\* What lies in memory before a column is collected.
CodesRight ==
  /\ table \in Seq(Nat) /\ Len(table) <= count
  /\ Bytes(0, 4 * count) \subseteq DOMAIN mem
  /\ \A r \in 1 .. count : window[r] # Null =>
       \E q \in 1 .. Len(table) : table[q] = window[r] /\ Get(mem, 4 * (r - 1), 4) = q - 1

ElementsRight ==
  \A r \in 1 .. count : window[r] # Null => Element(r - 1) = Expected(column.dtype, window[r])

StageRight ==
  /\ pc \in {"size", "names"} /\ column.dtype = "categorical" => CodesRight
  /\ pc = "names" => Len(buf) = Ends(Len(Strings))
  /\ pc = "collect" => ElementsRight

\* What lies in a matrix before column k + 1 is put there.
At(c, r) == IF order = "fortran" THEN (c - 1) * n + r ELSE (r - 1) * Len(cols) + c

MatrixUpTo(k) ==
  /\ DOMAIN mem = {At(c, r) : c \in 1 .. k, r \in 1 .. n}
  /\ \A c \in 1 .. k, r \in 1 .. n :
       /\ mem[At(c, r)] = cols[c].rows[r]
       /\ policy = "error" => cols[c].rows[r] # Null

MatrixRight ==
  /\ form = "matrix" /\ pc # "raised" => MatrixUpTo(j - 1)
  /\ form = "matrix" /\ pc = "double" => room = 1 .. n * Len(cols)
  /\ form = "matrix" /\ pc = "done" => j = Len(cols) + 1
  /\ pc = "native" => DOMAIN mem = {}

IInv ==
  /\ Configured /\ Controlled
  /\ BuiltRight /\ BlockRight
  /\ ValidRight /\ RoomRight /\ StageRight
  /\ MatrixRight

-----------------------------------------------------------------------------
(* What follows of columns and windows.                                    *)

\* Dtypes, their entries and widths, as sets.
LEMMA DataAre ==
  /\ Dtypes = {"int8", "int16", "int32", "int64", "boolean", "zoned", "string", "categorical",
               "decimal", "null"}
  /\ Physical = {"int8", "int16", "int32", "int64", "boolean"}
  /\ \A d \in Dtypes : Data[d] \subseteq Int
  /\ Data["boolean"] = {0, 1} /\ Data["decimal"] = {-5, 6} /\ Data["null"] = {}
  /\ Data["string"] \subseteq Nat /\ Data["categorical"] \subseteq Nat
  /\ \A d \in Physical : Width[d] \in Widths
  /\ Width["boolean"] = 1
<1>1. Dtypes = {"int8", "int16", "int32", "int64", "boolean", "zoned", "string", "categorical",
               "decimal", "null"}
  BY DEF Dtypes, Data
<1>2. Physical = {"int8", "int16", "int32", "int64", "boolean"}
  BY DEF Physical, Width
<1>3. /\ Data["int8"] = {1, 2} /\ Data["int16"] = {1, 2} /\ Data["int32"] = {1, 2}
      /\ Data["int64"] = {1, 2} /\ Data["boolean"] = {0, 1} /\ Data["zoned"] = {1, 2}
      /\ Data["string"] = {0, 2} /\ Data["categorical"] = {0, 2} /\ Data["decimal"] = {-5, 6}
      /\ Data["null"] = {}
  BY DEF Data
<1>4. /\ Width["int8"] = 1 /\ Width["int16"] = 2 /\ Width["int32"] = 4 /\ Width["int64"] = 8
      /\ Width["boolean"] = 1
  BY DEF Width
<1>5. \A d \in Dtypes : Data[d] \subseteq Int
  BY <1>1, <1>3
<1>6. \A d \in Physical : Width[d] \in Widths
  BY <1>2, <1>4 DEF Widths
<1> QED BY <1>1, <1>2, <1>3, <1>4, <1>5, <1>6

\* The rows of a column are entries of its dtype, or null.
LEMMA ColumnIs ==
  ASSUME Configured, NEW c \in DOMAIN cols
  PROVE  /\ cols[c].dtype \in Dtypes
         /\ cols[c].rows \in [1 .. n -> Data[cols[c].dtype] \cup {Null}]
         /\ \A r \in 1 .. n : cols[c].rows[r] \in Int \cup {Null}
<1>1. cols[c] \in Columns
  BY DEF Configured
<1>2. PICK d \in Dtypes : cols[c] \in [dtype : {d}, rows : [1 .. n -> Data[d] \cup {Null}]]
  BY <1>1 DEF Columns
<1>3. cols[c].dtype = d /\ cols[c].rows \in [1 .. n -> Data[d] \cup {Null}]
  BY <1>2
<1>4. Data[d] \subseteq Int
  BY DataAre
<1> QED BY <1>3, <1>4

\* A window lies within the rows.
LEMMA CountIs ==
  ASSUME Configured, Controlled
  PROVE  /\ n \in Nat /\ first \in 0 .. n /\ pos \in 0 .. n
         /\ count \in 0 .. n /\ first + count \in 0 .. n
         /\ ~Windowed => first = 0 /\ count = n
         /\ Windowed /\ first < n => count >= 1
         /\ Windowed => count <= size /\ (count = size \/ first + count = n)
         /\ count <= MaxRows
<1>1. /\ n \in 0 .. MaxRows /\ MaxRows \in Nat /\ size \in 0 .. MaxRows
      /\ Windowed => size >= 1
  BY ConstantsAssumption DEF Configured
<1>2. pos \in 0 .. n /\ first \in 0 .. pos /\ (~Windowed => pos = 0)
  BY DEF Controlled
<1>3. count = IF Windowed THEN (IF size < n - first THEN size ELSE n - first) ELSE n
  BY DEF count, Windowed
<1> QED BY <1>1, <1>2, <1>3

\* The window of the column under conversion.
LEMMA WindowIs ==
  ASSUME Configured, Controlled, j <= Len(cols)
  PROVE  /\ j \in DOMAIN cols /\ column = cols[j]
         /\ column.dtype \in Dtypes
         /\ window \in [1 .. count -> Data[column.dtype] \cup {Null}]
         /\ window \in [1 .. count -> Int \cup {Null}]
         /\ Len(window) = count
         /\ \A r \in 1 .. count : window[r] = column.rows[first + r]
         /\ ~HasNulls(j) => \A r \in 1 .. count : window[r] # Null
<1>1. j \in DOMAIN cols /\ column = cols[j]
  <2>1. DOMAIN cols = 1 .. Len(cols) /\ Len(cols) \in Nat /\ j \in 1 .. Len(cols) + 1
    BY DEF Configured, Controlled
  <2> QED BY <2>1 DEF column
<1>2. /\ column.dtype \in Dtypes /\ Data[column.dtype] \subseteq Int
      /\ column.rows \in [1 .. n -> Data[column.dtype] \cup {Null}]
  BY <1>1, ColumnIs, DataAre
<1>3. \A r \in 1 .. count : first + r \in 1 .. n
  BY CountIs
<1>4. \A r \in 1 .. count : column.rows[first + r] \in Data[column.dtype] \cup {Null}
  BY <1>2, <1>3
<1>5. window \in [1 .. count -> Data[column.dtype] \cup {Null}]
  BY <1>4 DEF window
<1>6. window \in [1 .. count -> Int \cup {Null}]
  BY <1>2, <1>5
<1>7. Len(window) = count
  BY CountIs, LenIs DEF window
<1>8. \A r \in 1 .. count : window[r] = column.rows[first + r]
  BY DEF window
<1>9. ~HasNulls(j) => \A r \in 1 .. count : window[r] # Null
  BY <1>1, <1>2, <1>3, <1>8 DEF HasNulls
<1> QED BY <1>1, <1>2, <1>5, <1>6, <1>7, <1>8, <1>9

\* What a row reads as is a value.
Values == Int \cup BOOLEAN \cup (Int \X Int) \cup {Null}

LEMMA ExpectedIs ==
  ASSUME NEW d, NEW v \in Int \cup {Null}
  PROVE  Expected(d, v) \in Values
<1>1. CASE v = Null
  BY <1>1 DEF Expected, Values
<1>2. CASE v # Null
  <2>1. v \in Int /\ Wall(v) \in Int
    BY <1>2 DEF Wall
  <2>2. CASE d = "boolean"
    BY <1>2, <2>2 DEF Expected, Values
  <2>3. CASE d = "zoned"
    BY <1>2, <2>1, <2>3 DEF Expected, Values
  <2>4. CASE d # "boolean" /\ d # "zoned"
    BY <1>2, <2>1, <2>4 DEF Expected, Values
  <2> QED BY <2>2, <2>3, <2>4
<1> QED BY <1>1, <1>2

\* A block of the window's rows is not None.
LEMMA RowsAreABlock ==
  ASSUME Configured, Controlled, NEW b, b = [c \in DOMAIN cols |-> RowsOf(c)]
  PROVE  b # None /\ Len(b) = Len(cols) /\ \A c \in DOMAIN cols : Len(b[c]) = count
<1>1. ASSUME NEW c \in DOMAIN cols
      PROVE  RowsOf(c) \in Seq(Values) /\ Len(RowsOf(c)) = count
  <2>1. \A r \in 1 .. count : cols[c].rows[first + r] \in Int \cup {Null}
    BY ColumnIs, CountIs
  <2>2. \A r \in 1 .. count : Expected(cols[c].dtype, cols[c].rows[first + r]) \in Values
    BY <2>1, ExpectedIs
  <2>3. RowsOf(c) \in [1 .. count -> Values]
    BY <2>2 DEF RowsOf
  <2>4. count \in Nat
    BY CountIs
  <2> QED BY <2>3, <2>4
<1>2. DOMAIN cols = 1 .. Len(cols) /\ Len(cols) \in Nat
  BY DEF Configured
<1> DEFINE S == Seq(Values)
<1>3. b \in [1 .. Len(cols) -> S]
  BY <1>1, <1>2
<1> HIDE DEF S
<1>4. b \in Seq(S) /\ Len(b) = Len(cols)
  BY <1>2, <1>3
<1>5. b # None
  BY <1>4, ConstantsAssumption DEF S, Values
<1> QED BY <1>1, <1>4, <1>5

-----------------------------------------------------------------------------
(* What steps leave alone.                                                 *)

LEMMA FixedKeeps ==
  ASSUME Configured, Fixed
  PROVE  Configured'
BY DEF Configured, Fixed, Columns, Windowed

LEMMA SameWindow ==
  ASSUME Fixed, first' = first
  PROVE  /\ count' = count /\ \A c : RowsOf(c)' = RowsOf(c) /\ HasNulls(c)' = HasNulls(c)
         /\ Windowed' = Windowed
<1>1. count' = count
  BY DEF Fixed, count
<1> QED BY <1>1 DEF Fixed, RowsOf, Windowed, HasNulls

LEMMA SameColumn ==
  ASSUME Fixed, first' = first, j' = j
  PROVE  column' = column /\ window' = window /\ HasNulls(j)' = HasNulls(j) /\ OwnBytes' = OwnBytes
<1>1. column' = column /\ count' = count
  BY SameWindow DEF Fixed, column
<1> QED BY <1>1 DEF Fixed, window, HasNulls, OwnBytes

LEMMA MatrixSame ==
  ASSUME UNCHANGED <<n, cols, order, policy, mem>>, NEW k
  PROVE  MatrixUpTo(k)' = MatrixUpTo(k)
<1>1. \A c, r : At(c, r)' = At(c, r)
  BY DEF At
<1> QED BY <1>1 DEF MatrixUpTo

\* A step that leaves the block alone, and does not put it to use.
LEMMA CalmKeeps ==
  ASSUME IInv, Calm, pc' \notin {"idle", "too early"}, form = "list" => pc' # "done"
  PROVE  Configured' /\ BlockRight'
<1>1. Configured'
  BY FixedKeeps DEF IInv, Calm
<1>2. pos' = pos /\ block' = block /\ got' = got /\ cols' = cols /\ form' = form
  BY DEF Calm, Fixed
<1> QED BY <1>1, <1>2 DEF IInv, BlockRight

\* A step of a conversion that stays at its column.
LEMMA CopyingKeeps ==
  ASSUME IInv, Copying, Calm, UNCHANGED <<first, j, built>>,
         pc' \in {"size", "names", "collect"},
         pc' \in {"size", "names"} => column.dtype \in {"string", "categorical"}
  PROVE  Configured' /\ Controlled' /\ BuiltRight' /\ BlockRight' /\ MatrixRight'
<1>1. Configured' /\ BlockRight'
  BY CalmKeeps
<1>2. form \in {"list", "series", "frame"} /\ form' = form /\ n' = n /\ cols' = cols
  BY DEF IInv, Configured, Controlled, Copying, Calm, Fixed
<1>3. Converting /\ Converting' /\ Copying'
  BY <1>2 DEF Copying, Converting
<1>4. column' = column /\ Windowed' = Windowed
  BY SameColumn, SameWindow DEF Calm
<1>5. Controlled'
  BY <1>2, <1>3, <1>4 DEF IInv, Controlled, Calm, Windowed
<1>6. BuiltRight'
  BY <1>3, SameWindow DEF IInv, BuiltRight, Calm
<1>7. MatrixRight'
  BY <1>2 DEF MatrixRight
<1> QED BY <1>1, <1>5, <1>6, <1>7

\* What is known of a column while it is copied.
LEMMA CopyingIs ==
  ASSUME IInv, Copying
  PROVE  /\ Configured /\ Controlled /\ j <= Len(cols) /\ form \in {"list", "series", "frame"}
         /\ count \in Nat /\ count <= MaxRows /\ first \in Nat /\ n \in Nat /\ first + count <= n /\ n <= UsizeMax
         /\ valid = None <=> ~HasNulls(j)
         /\ valid # None => valid \in [1 .. count -> {0, 1}] /\ Len(valid) = count
<1>1. Configured /\ Controlled /\ j <= Len(cols) /\ form \in {"list", "series", "frame"}
  BY DEF IInv, Configured, Controlled, Copying
<1>2. /\ count \in Nat /\ count <= MaxRows /\ first \in Nat /\ n \in Nat /\ first + count <= n
      /\ n <= UsizeMax
  <2>1. n \in 0 .. MaxRows
    BY <1>1 DEF Configured
  <2> QED BY <1>1, <2>1, CountIs, ConstantsAssumption
<1>3. ~HasNulls(j) => valid = None
  BY DEF IInv, ValidRight
<1>4. HasNulls(j) => valid \in [1 .. count -> {0, 1}]
  BY DEF IInv, ValidRight
<1>5. valid \in [1 .. count -> {0, 1}] => valid # None /\ Len(valid) = count
  BY <1>2, ConstantsAssumption
<1> QED BY <1>1, <1>2, <1>3, <1>4, <1>5

\* No copy that the Racket side asks for is refused.
LEMMA CopiesFit ==
  ASSUME IInv, Copying
  PROVE  RowRange(first, count) /\ RowRange(0, count) /\ RoomFor(count, count)
<1>1. /\ count \in Nat /\ first \in Nat /\ n \in Nat /\ UsizeMax \in Nat /\ first + count <= n
      /\ n <= UsizeMax
  BY CopyingIs, ConstantsAssumption
<1>2. valid = None \/ Len(valid) = count
  BY CopyingIs
<1> QED BY <1>1, <1>2 DEF RowRange, RoomFor

\* Every copy of values writes the validity of the window's rows.
LEMMA WriteValidIs ==
  ASSUME IInv, Copying, Calm, first' = first, j' = j, WriteValid
  PROVE  ValidRight'
<1>1. column' = column /\ window' = window /\ HasNulls(j)' = HasNulls(j) /\ count' = count
  BY SameWindow, SameColumn DEF Calm
<1>2. count \in Nat
  BY CopyingIs
<1>3. CASE valid = None
  <2>1. valid' = None /\ ~HasNulls(j)
    BY <1>3, CopyingIs DEF WriteValid
  <2> QED BY <1>1, <2>1 DEF ValidRight
<1>4. CASE valid # None
  <2>1. valid' = [r \in 1 .. count |-> IF window[r] = Null THEN 0 ELSE 1] /\ HasNulls(j)
    BY <1>4, CopyingIs DEF WriteValid
  <2>2. valid' \in [1 .. count -> {0, 1}]
    BY <2>1
  <2>3. valid' \in Seq({0, 1})
    BY <1>2, <2>2
  <2>4. \A r \in 1 .. count : valid'[r] = 0 <=> window[r] = Null
    BY <2>1
  <2> QED BY <1>1, <2>1, <2>2, <2>3, <2>4 DEF ValidRight
<1> QED BY <1>3, <1>4

-----------------------------------------------------------------------------
(* Steps of control.                                                       *)

LEMMA FailsKeeps ==
  ASSUME IInv, Fails
  PROVE  IInv'
<1>1. pc' = "raised" /\ Calm /\ UNCHANGED <<first, j, built, mem, room, valid, buf, table>>
  BY DEF Fails
<1>2. Configured' /\ BlockRight'
  BY <1>1, CalmKeeps
<1>3. form # "native" /\ form' = form
  BY DEF IInv, Controlled, Configured, Fails, Calm, Fixed
<1>4. ~Copying' /\ ~Converting' /\ Windowed' = Windowed
  BY <1>1, SameWindow DEF Copying, Converting, Calm
<1>5. Controlled'
  BY <1>1, <1>3, <1>4 DEF IInv, Controlled, Calm, Fixed
<1>6. BuiltRight' /\ ValidRight' /\ RoomRight' /\ StageRight' /\ MatrixRight'
  BY <1>1, <1>4 DEF IInv, BuiltRight, ValidRight, RoomRight, StageRight, MatrixRight
<1> QED BY <1>2, <1>5, <1>6 DEF IInv

LEMMA ResumeKeeps ==
  ASSUME IInv, Resume
  PROVE  IInv'
<1>1. pc' = "idle" /\ Calm /\ UNCHANGED <<first, j, built, mem, room, valid, buf, table>> /\ Windowed
  BY DEF Resume, Windowed
<1>2. Configured'
  BY <1>1, FixedKeeps DEF IInv, Calm
<1>3. form' = form /\ n' = n /\ cols' = cols /\ pos' = pos /\ block' = block /\ got' = got
  BY <1>1 DEF Calm, Fixed
<1>4. ~Copying' /\ ~Converting' /\ Windowed' = Windowed
  BY <1>1, SameWindow DEF Copying, Converting, Calm
<1>5. Controlled'
  BY <1>1, <1>3, <1>4 DEF IInv, Controlled, Windowed
<1>6. ValidRight' /\ RoomRight' /\ StageRight' /\ MatrixRight' /\ BuiltRight'
  BY <1>1, <1>3, <1>4 DEF IInv, BuiltRight, ValidRight, RoomRight, StageRight, MatrixRight, Windowed
<1>7. BlockRight'
  <2>1. \A c : RowsOf(c)' = RowsOf(c)
    BY <1>1, SameWindow DEF Calm
  <2>2. form # "list"
    BY <1>1 DEF Windowed
  <2>3. ~Resumes /\ block # None => pc = "too early"
    BY DEF Resume
  <2> QED BY <1>1, <1>3, <2>1, <2>2, <2>3 DEF IInv, BlockRight
<1> QED BY <1>2, <1>5, <1>6, <1>7 DEF IInv

LEMMA FinishKeeps ==
  ASSUME IInv, Finish
  PROVE  IInv'
<1>1. pc' = "done" /\ Calm /\ UNCHANGED <<first, j, built, mem, room, valid, buf, table>>
  BY DEF Finish
<1>2. form = "matrix" /\ pc = "column" /\ j > Len(cols)
  BY DEF Finish
<1>3. Configured' /\ BlockRight'
  BY <1>1, <1>2, CalmKeeps
<1>4. ~Copying' /\ ~Converting' /\ Windowed' = Windowed
  BY <1>1, SameWindow DEF Copying, Converting, Calm
<1>5. UNCHANGED <<form, n, cols, order, policy>> /\ pos' = pos /\ got' = got
  BY <1>1 DEF Calm, Fixed
<1>6. Controlled'
  BY <1>1, <1>2, <1>4, <1>5 DEF IInv, Controlled, Windowed
<1>7. BuiltRight' /\ ValidRight' /\ RoomRight' /\ StageRight'
  BY <1>1, <1>2, <1>4, <1>5 DEF IInv, BuiltRight, ValidRight, RoomRight, StageRight
<1>8. MatrixUpTo(j - 1)
  BY <1>2 DEF IInv, MatrixRight
<1>9. j \in 1 .. Len(cols) + 1 /\ Len(cols) \in Nat
  BY DEF IInv, Controlled, Configured
<1>10. MatrixUpTo(j - 1)'
  BY <1>1, <1>5, <1>8, MatrixSame
<1>11. MatrixRight'
  BY <1>1, <1>2, <1>5, <1>9, <1>10 DEF MatrixRight
<1> QED BY <1>3, <1>6, <1>7, <1>11 DEF IInv

LEMMA HitKeeps ==
  ASSUME IInv, NEW i \in 0 .. pos, Hit(i)
  PROVE  IInv'
<1>1. pc = "idle" /\ i < n /\ i - first < Held /\ Fixed
  BY DEF Hit
<1>2. UNCHANGED <<first, block, j, built, mem, room, valid, buf, table>>
  BY DEF Hit
<1>3. UNCHANGED <<form, n, cols, size, order, policy>>
  BY <1>1 DEF Fixed
<1>4. Configured' /\ Windowed
  BY <1>1, FixedKeeps DEF IInv, Controlled, Configured, Windowed
<1>5. n \in Nat /\ pos \in 0 .. n /\ first \in 0 .. pos /\ i \in 0 .. n - 1
  BY <1>1, CountIs DEF IInv, Controlled
<1>6. \/ /\ got' = <<i, RowOf(block, i)>> /\ pos' = (IF i = pos THEN i + 1 ELSE pos) /\ pc' = "idle"
         /\ \A c \in DOMAIN block : i - first \in 0 .. Len(block[c]) - 1
      \/ pc' = "too early" /\ pos' = pos /\ got' = got
  BY <1>1 DEF Hit
<1>7. pos' \in 0 .. n /\ first \in 0 .. pos' /\ pc' \in {"idle", "too early"}
  <2>1. (i = pos /\ pos' = i + 1) \/ pos' = pos
    BY <1>6
  <2>2. pc' \in {"idle", "too early"}
    BY <1>6
  <2>3. CASE i = pos /\ pos' = i + 1
    <3>1. i + 1 \in 0 .. n /\ first \in 0 .. i
      BY <1>5, <2>3
    <3>2. first \in 0 .. i + 1
      BY <1>5, <3>1
    <3> QED BY <2>2, <2>3, <3>1, <3>2
  <2>4. CASE pos' = pos
    BY <1>5, <2>2, <2>4
  <2> QED BY <2>1, <2>3, <2>4
<1>8. got' = None \/ got'[1] \in 0 .. n - 1
  <2>1. got' = <<i, RowOf(block, i)>> \/ got' = got
    BY <1>6
  <2>2. got = None \/ got[1] \in 0 .. n - 1
    BY DEF IInv, Controlled
  <2> QED BY <1>5, <2>1, <2>2
<1>9. ~Copying' /\ ~Converting' /\ Windowed'
  BY <1>3, <1>4, <1>7 DEF Copying, Converting, Windowed
<1>10. Controlled'
  BY <1>2, <1>3, <1>7, <1>8, <1>9 DEF IInv, Controlled, Windowed
<1>11. BuiltRight' /\ ValidRight' /\ RoomRight' /\ StageRight' /\ MatrixRight'
  BY <1>2, <1>7, <1>9 DEF IInv, BuiltRight, ValidRight, RoomRight, StageRight, MatrixRight, Windowed
<1>12. BlockRight'
  <2>1. \A c : RowsOf(c)' = RowsOf(c)
    BY <1>1, <1>2, SameWindow
  <2>2. form # "list"
    BY <1>4 DEF Windowed
  <2>3. ASSUME ~Resumes
        PROVE  block # None /\ block = [c \in DOMAIN cols |-> RowsOf(c)] /\ first < n
    <3>1. ASSUME block = None PROVE FALSE
      <4>1. pos = 0 /\ Held = 0
        BY <2>3, <3>1 DEF IInv, BlockRight, Held
      <4> QED BY <1>1, <1>5, <4>1
    <3> QED BY <1>1, <2>3, <3>1 DEF IInv, BlockRight
  <2>4. ASSUME ~Resumes, got' # None
        PROVE  got'[2] = [c \in DOMAIN cols |-> Expected(cols[c].dtype, cols[c].rows[got'[1] + 1])]
    <3>1. CASE got' = got
      BY <2>4, <3>1 DEF IInv, BlockRight
    <3>2. CASE /\ got' = <<i, RowOf(block, i)>>
               /\ \A c \in DOMAIN block : i - first \in 0 .. Len(block[c]) - 1
      <4>1. ASSUME NEW c \in DOMAIN cols
            PROVE  block[c][i - first + 1] = Expected(cols[c].dtype, cols[c].rows[i + 1])
        <5>1. Len(block[c]) = count /\ block[c] = RowsOf(c) /\ c \in DOMAIN block
          BY <2>3, <2>4, RowsAreABlock DEF IInv
        <5>2. i - first + 1 \in 1 .. count /\ first + (i - first + 1) = i + 1
          BY <1>5, <3>2, <5>1, CountIs DEF IInv
        <5> QED BY <5>1, <5>2 DEF RowsOf
      <4>2. RowOf(block, i) = [c \in DOMAIN cols |-> block[c][i - first + 1]]
        BY <2>3, <2>4 DEF RowOf
      <4>3. got'[1] = i /\ got'[2] = RowOf(block, i)
        BY <3>2
      <4> QED BY <4>1, <4>2, <4>3
    <3> QED BY <1>6, <3>1, <3>2
  <2>5. block' = block /\ cols' = cols /\ form' = form /\ first' = first /\ n' = n
    BY <1>2, <1>3
  <2> QED BY <2>1, <2>2, <2>3, <2>4, <2>5 DEF IInv, BlockRight
<1> QED BY <1>4, <1>10, <1>11, <1>12 DEF IInv

LEMMA MissKeeps ==
  ASSUME IInv, NEW i \in 0 .. pos, Miss(i)
  PROVE  IInv'
<1>1. pc = "idle" /\ i < n /\ Calm /\ pc' = "column"
  BY DEF Miss
<1>2. first' = i /\ j' = 1 /\ built' = <<>> /\ mem' = <<>> /\ buf' = None /\ valid' = None /\ table' = <<>>
  BY DEF Miss
<1>3. UNCHANGED <<form, n, cols, size, order, policy, pos, block, got>>
  BY <1>1 DEF Calm, Fixed
<1>4. Configured' /\ BlockRight'
  BY <1>1, CalmKeeps
<1>5. Windowed /\ Windowed' /\ ~Copying'
  BY <1>1, <1>3 DEF IInv, Controlled, Configured, Windowed, Copying
<1>6. n \in Nat /\ pos \in 0 .. n /\ Len(cols) \in Nat /\ Len(<<>>) = 0
  BY CountIs DEF IInv, Configured
<1>7. Controlled'
  <2>1. /\ pos' \in 0 .. n' /\ first' \in 0 .. pos' /\ j' \in 1 .. Len(cols') + 1 /\ first' < n'
        /\ Len(built') <= Len(cols')
    BY <1>1, <1>2, <1>3, <1>6
  <2> QED BY <1>1, <1>3, <1>5, <2>1 DEF IInv, Controlled, Windowed, Converting
<1>8. BuiltRight'
  BY <1>2 DEF BuiltRight
<1>9. ValidRight' /\ StageRight' /\ MatrixRight'
  BY <1>1, <1>2, <1>5 DEF ValidRight, StageRight, MatrixRight, Windowed
<1>10. RoomRight'
  <2>1. form = "frame" => count' = IF size < n - i THEN size ELSE n - i
    BY <1>2, <1>3 DEF count
  <2>2. form = "frame" => room' = Bytes(0, ScratchBytes(count'))
    BY <2>1 DEF Miss
  <2> QED BY <1>1, <1>2, <1>3, <1>5, <2>2 DEF RoomRight
<1> QED BY <1>4, <1>7, <1>8, <1>9, <1>10 DEF IInv

LEMMA DeliverKeeps ==
  ASSUME IInv, Deliver
  PROVE  IInv'
<1>1. pc = "column" /\ j > Len(cols) /\ form # "matrix" /\ block' = built /\ Fixed
  BY DEF Deliver
<1>2. UNCHANGED <<first, j, built, mem, room, valid, buf, table>>
  BY DEF Deliver
<1>3. UNCHANGED <<form, n, cols, size, order, policy>>
  BY <1>1 DEF Fixed
<1>4. Configured'
  BY <1>1, FixedKeeps DEF IInv
<1>5. Converting /\ form \in {"list", "series", "frame"}
  BY <1>1 DEF IInv, Controlled, Configured, Converting
<1>6. /\ n \in Nat /\ pos \in 0 .. n /\ first \in 0 .. pos /\ Len(cols) \in Nat
      /\ DOMAIN cols = 1 .. Len(cols) /\ j = Len(cols) + 1
  BY <1>1, CountIs DEF IInv, Controlled, Configured
<1>7. built = [c \in DOMAIN cols |-> RowsOf(c)]
  BY <1>5, <1>6 DEF IInv, BuiltRight
<1>8. built # None
  BY <1>7, RowsAreABlock DEF IInv
<1>9. \A c : RowsOf(c)' = RowsOf(c)
  BY <1>1, <1>2, SameWindow
<1>10. \/ form = "list" /\ pc' = "done" /\ pos' = pos /\ got' = got
       \/ /\ Windowed /\ pc' = "idle" /\ got' = <<first, RowOf(built, first)>>
          /\ pos' = IF first = pos THEN first + 1 ELSE pos
  BY <1>5 DEF Deliver, Windowed
<1>11. Windowed => first < n /\ count >= 1
  BY <1>5, CountIs DEF IInv, Controlled
<1>12. pos' \in 0 .. n /\ first \in 0 .. pos' /\ (~Windowed => pos' = 0)
  <2>1. pos' = pos \/ (Windowed /\ pos' = IF first = pos THEN first + 1 ELSE pos)
    BY <1>10
  <2>2. ~Windowed => pos = 0
    BY DEF IInv, Controlled
  <2>3. ~Windowed => pos' = pos
    BY <1>10 DEF Windowed
  <2> QED BY <1>6, <1>11, <2>1, <2>2, <2>3
<1>13. ~Copying' /\ ~Converting' /\ Windowed' = Windowed
  BY <1>3, <1>10 DEF Copying, Converting, Windowed
<1>14. got' = None \/ got'[1] \in 0 .. n - 1
  <2>1. got' = got \/ (Windowed /\ got' = <<first, RowOf(built, first)>>)
    BY <1>10
  <2>2. got = None \/ got[1] \in 0 .. n - 1
    BY DEF IInv, Controlled
  <2> QED BY <1>6, <1>11, <2>1, <2>2
<1>15. Controlled'
  BY <1>2, <1>3, <1>5, <1>10, <1>12, <1>13, <1>14 DEF IInv, Controlled, Windowed
<1>16. BuiltRight' /\ ValidRight' /\ RoomRight' /\ StageRight' /\ MatrixRight'
  BY <1>1, <1>2, <1>3, <1>10, <1>13
  DEF IInv, BuiltRight, ValidRight, RoomRight, StageRight, MatrixRight, Windowed
<1>17. Windowed => RowOf(built, first) = [c \in DOMAIN cols |-> Expected(cols[c].dtype, cols[c].rows[first + 1])]
  <2>1. first - first + 1 = 1
    BY <1>6
  <2>2. RowOf(built, first) = [c \in DOMAIN cols |-> built[c][1]]
    BY <1>7, <2>1 DEF RowOf
  <2>3. ASSUME Windowed, NEW c \in DOMAIN cols
        PROVE  built[c][1] = Expected(cols[c].dtype, cols[c].rows[first + 1])
    <3>1. 1 \in 1 .. count
      BY <1>11, <2>3, CountIs DEF IInv
    <3> QED BY <1>7, <3>1 DEF RowsOf
  <2> QED BY <2>2, <2>3
<1>18. ASSUME ~Resumes, got' # None
       PROVE  got'[2] = [c \in DOMAIN cols |-> Expected(cols[c].dtype, cols[c].rows[got'[1] + 1])]
  <2>1. CASE got' = got
    BY <1>18, <2>1 DEF IInv, BlockRight
  <2>2. CASE Windowed /\ got' = <<first, RowOf(built, first)>>
    BY <1>17, <2>2
  <2> QED BY <1>10, <2>1, <2>2
<1>19. DOMAIN block' = DOMAIN cols /\ block' = [c \in DOMAIN cols |-> RowsOf(c)] /\ block' # None
  BY <1>1, <1>7, <1>8
<1>20. pc' = "idle" => first < n
  BY <1>10, <1>11
<1>21. BlockRight'
  BY <1>2, <1>3, <1>9, <1>18, <1>19, <1>20, <1>10 DEF BlockRight
<1> QED BY <1>4, <1>15, <1>16, <1>21 DEF IInv

\* What `collect` makes of the elements in memory is the window of the column.
LEMMA CollectKeeps ==
  ASSUME IInv, Collect
  PROVE  IInv'
<1> DEFINE rows == [r \in 1 .. count |-> IF valid # None /\ valid[r] = 0 THEN Null ELSE Element(r - 1)]
<1>1. pc = "collect" /\ built' = Append(built, rows) /\ j' = j + 1 /\ pc' = "column" /\ Calm
  BY DEF Collect
<1>2. UNCHANGED <<first, mem, room, valid, buf, table>>
  BY DEF Collect
<1>3. UNCHANGED <<form, n, cols, size, order, policy, pos, block, got>>
  BY <1>1 DEF Calm, Fixed
<1>4. Copying /\ Converting
  BY <1>1, CopyingIs DEF Copying, Converting
<1>5. Configured' /\ BlockRight'
  BY <1>1, CalmKeeps
<1>6. Configured /\ Controlled /\ j <= Len(cols) /\ form \in {"list", "series", "frame"}
  BY <1>4, CopyingIs
<1>7. j \in Nat \ {0} /\ Len(cols) \in Nat
  <2>1. Len(cols) \in Nat /\ j \in 1 .. Len(cols) + 1
    BY <1>6 DEF Controlled, Configured
  <2> QED BY <2>1
<1>8. rows = RowsOf(j)
  <2>1. ASSUME NEW r \in 1 .. count
        PROVE  rows[r] = Expected(cols[j].dtype, cols[j].rows[first + r])
    <3>1. column = cols[j] /\ window[r] = column.rows[first + r]
      BY <1>6, WindowIs
    <3>2. CASE window[r] = Null
      <4>1. HasNulls(j)
        BY <1>6, <3>2, WindowIs
      <4>2. valid # None /\ valid[r] = 0
        BY <1>1, <1>4, <3>2, <4>1, CopyingIs DEF IInv, ValidRight, ValidWritten
      <4>3. Expected(cols[j].dtype, window[r]) = Null
        BY <3>2 DEF Expected
      <4> QED BY <3>1, <4>2, <4>3
    <3>3. CASE window[r] # Null
      <4>1. ~(valid # None /\ valid[r] = 0)
        BY <1>1, <1>4, <3>3, CopyingIs DEF IInv, ValidRight, ValidWritten
      <4>2. Element(r - 1) = Expected(column.dtype, window[r])
        BY <1>1, <3>3 DEF IInv, StageRight, ElementsRight
      <4> QED BY <3>1, <4>1, <4>2
    <3> QED BY <3>2, <3>3
  <2> QED BY <2>1 DEF RowsOf
<1> HIDE DEF rows
<1>9. built' = [c \in 1 .. j |-> RowsOf(c)] /\ Len(built') = j
  <2>1. built = [c \in 1 .. j - 1 |-> RowsOf(c)]
    BY <1>4 DEF IInv, BuiltRight
  <2>2. built = [c \in 1 .. j - 1 |-> built[c]]
    BY <2>1
  <2>3. j - 1 \in Nat /\ (j - 1) + 1 = j
    BY <1>7
  <2>4. Append(built, rows) = [c \in 1 .. (j - 1) + 1 |-> IF c = (j - 1) + 1 THEN rows ELSE built[c]]
    BY <2>2, <2>3, AppendIs
  <2>5. \A c \in 1 .. j : c # j => c \in 1 .. j - 1
    BY <1>7
  <2>6. built' = [c \in 1 .. j |-> RowsOf(c)]
    BY <1>1, <1>8, <2>1, <2>3, <2>4, <2>5
  <2>7. built' = [c \in 1 .. j |-> built'[c]]
    BY <2>6
  <2>8. Len(built') = j
    BY <1>7, <2>7, LenIs
  <2> QED BY <2>6, <2>8
<1>10. BuiltRight'
  <2>1. \A c : RowsOf(c)' = RowsOf(c)
    BY <1>1, <1>2, SameWindow DEF Calm
  <2>2. j' - 1 = j
    BY <1>1, <1>7
  <2> QED BY <1>9, <2>1, <2>2 DEF BuiltRight
<1>11. ~Copying' /\ Windowed' = Windowed /\ pc' = "column" /\ form' # "matrix"
  BY <1>1, <1>3, <1>6 DEF Copying, Windowed
<1>12. j' \in 1 .. Len(cols) + 1 /\ Len(built') <= Len(cols)
  BY <1>1, <1>6, <1>7, <1>9
<1>13. Controlled'
  BY <1>1, <1>2, <1>3, <1>4, <1>6, <1>11, <1>12 DEF Controlled
<1>14. ValidRight' /\ StageRight' /\ MatrixRight'
  BY <1>1, <1>2, <1>11 DEF IInv, ValidRight, StageRight, MatrixRight
<1>15. count' = count
  BY <1>1, <1>2, SameWindow DEF Calm
<1>16. RoomRight'
  BY <1>1, <1>2, <1>3, <1>4, <1>11, <1>15 DEF IInv, RoomRight
<1> QED BY <1>5, <1>10, <1>13, <1>14, <1>16 DEF IInv

-----------------------------------------------------------------------------
(* Places in a matrix.                                                     *)

\* Numbers up to x * y, as quotient and remainder.
LEMMA RowMajor ==
  ASSUME NEW x \in Nat, NEW y \in Nat
  PROVE  /\ \A a \in 0 .. x - 1, b \in 1 .. y : a * y + b \in 1 .. x * y
         /\ \A p \in 1 .. x * y : \E a \in 0 .. x - 1, b \in 1 .. y : p = a * y + b
<1>1. ASSUME NEW a \in 0 .. x - 1, NEW b \in 1 .. y PROVE a * y + b \in 1 .. x * y
  <2>1. y * (a + 1) <= y * x /\ y * 0 <= y * a
    BY TimesGrows
  <2>2. y * (a + 1) = a * y + y /\ y * x = x * y /\ y * a = a * y /\ y * 0 = 0
    OBVIOUS
  <2>3. a * y \in Int /\ x * y \in Int
    OBVIOUS
  <2> QED BY <2>1, <2>2, <2>3
<1>2. ASSUME NEW p \in 1 .. x * y PROVE \E a \in 0 .. x - 1, b \in 1 .. y : p = a * y + b
  <2>1. y # 0
    OBVIOUS
  <2> DEFINE a == (p - 1) \div y
             b == (p - 1) - y * a + 1
  <2>2. p - 1 \in Nat /\ y \in Nat \ {0} /\ x * y \in Nat
    BY <2>1
  <2>3. a \in Int /\ y * a <= p - 1 /\ (p - 1) - y * a \in 0 .. y - 1
    BY <2>2, Quotient
  <2>4. y * a \in Int /\ y * a = a * y
    BY <2>3
  <2> HIDE DEF a
  <2>5. b \in 1 .. y /\ p = a * y + b
    BY <2>2, <2>3, <2>4
  <2>6. ~(x <= a)
    <3> SUFFICES ASSUME x <= a PROVE FALSE
      OBVIOUS
    <3>1. y * x <= y * a /\ y * x = x * y
      BY <2>3, TimesGrows
    <3> QED BY <2>2, <2>3, <2>4, <3>1
  <2>7. ~(a <= -1)
    <3> SUFFICES ASSUME a <= -1 PROVE FALSE
      OBVIOUS
    <3>1. y * a <= y * (-1) /\ y * (-1) = -y
      BY <2>3, TimesGrows
    <3> QED BY <2>2, <2>3, <2>4, <3>1
  <2>8. a \in 0 .. x - 1
    BY <2>3, <2>6, <2>7
  <2> HIDE DEF b
  <2> QED BY <2>5, <2>8
<1> QED BY <1>1, <1>2

\* Each place of a matrix is that of one entry.
LEMMA PlacesAre ==
  ASSUME Configured
  PROVE  /\ \A c \in 1 .. Len(cols), r \in 1 .. n : At(c, r) \in 1 .. n * Len(cols)
         /\ \A p \in 1 .. n * Len(cols) : \E c \in 1 .. Len(cols), r \in 1 .. n : p = At(c, r)
         /\ \A c, d \in 1 .. Len(cols), r, s \in 1 .. n : At(c, r) = At(d, s) => c = d /\ r = s
<1>1. n \in Nat /\ Len(cols) \in Nat
  BY ConstantsAssumption DEF Configured
<1> DEFINE k == Len(cols)
<1>2. k \in Nat /\ n * k = k * n
  BY <1>1
<1>3. CASE order = "fortran"
  <2>1. \A c, r : At(c, r) = (c - 1) * n + r
    BY <1>3 DEF At
  <2> HIDE DEF k
  <2>2. \A c \in 1 .. k, r \in 1 .. n : At(c, r) \in 1 .. n * k
    <3> SUFFICES ASSUME NEW c \in 1 .. k, NEW r \in 1 .. n PROVE At(c, r) \in 1 .. n * k
      OBVIOUS
    <3>1. c - 1 \in 0 .. k - 1
      BY <1>2
    <3>2. (c - 1) * n + r \in 1 .. k * n
      BY <1>1, <1>2, <3>1, RowMajor
    <3> QED BY <1>2, <2>1, <3>2
  <2>3. \A p \in 1 .. n * k : \E c \in 1 .. k, r \in 1 .. n : p = At(c, r)
    <3> SUFFICES ASSUME NEW p \in 1 .. n * k PROVE \E c \in 1 .. k, r \in 1 .. n : p = At(c, r)
      OBVIOUS
    <3>0. p \in 1 .. k * n
      BY <1>2
    <3>1. \E a \in 0 .. k - 1, r \in 1 .. n : p = a * n + r
      BY <1>1, <1>2, <3>0, RowMajor, Zenon
    <3>2. PICK a \in 0 .. k - 1, r \in 1 .. n : p = a * n + r
      BY <3>1
    <3>3. a + 1 \in 1 .. k /\ (a + 1) - 1 = a
      BY <1>2
    <3>4. p = At(a + 1, r)
      BY <2>1, <3>2, <3>3
    <3> QED BY <3>3, <3>4
  <2>4. \A c, d \in 1 .. k, r, s \in 1 .. n : At(c, r) = At(d, s) => c = d /\ r = s
    <3> SUFFICES ASSUME NEW c \in 1 .. k, NEW d \in 1 .. k, NEW r \in 1 .. n, NEW s \in 1 .. n,
                        At(c, r) = At(d, s)
                 PROVE  c = d /\ r = s
      OBVIOUS
    <3>1. (c - 1) * n + r = (d - 1) * n + s
      BY <2>1
    <3>2. (c - 1) * n = n * (c - 1) /\ (d - 1) * n = n * (d - 1)
      BY <1>1, <1>2
    <3>3. n * (c - 1) \in Int /\ n * (d - 1) \in Int
      BY <1>1, <1>2
    <3>4. n * (c - 1) + (r - 1) = n * (d - 1) + (s - 1)
      BY <1>1, <3>1, <3>2, <3>3
    <3>5. c - 1 \in Int /\ d - 1 \in Int /\ r - 1 \in 0 .. n - 1 /\ s - 1 \in 0 .. n - 1
      BY <1>1, <1>2
    <3>6. c - 1 = d - 1 /\ r - 1 = s - 1
      BY <1>1, <3>4, <3>5, PairIsUnique
    <3> QED BY <1>1, <1>2, <3>6
  <2> QED BY <2>2, <2>3, <2>4 DEF k
<1>4. CASE order # "fortran"
  <2>1. \A c, r : At(c, r) = (r - 1) * k + c
    BY <1>4 DEF At
  <2> HIDE DEF k
  <2>2. \A c \in 1 .. k, r \in 1 .. n : At(c, r) \in 1 .. n * k
    <3> SUFFICES ASSUME NEW c \in 1 .. k, NEW r \in 1 .. n PROVE At(c, r) \in 1 .. n * k
      OBVIOUS
    <3>1. r - 1 \in 0 .. n - 1
      BY <1>1
    <3>2. (r - 1) * k + c \in 1 .. n * k
      BY <1>1, <1>2, <3>1, RowMajor
    <3> QED BY <2>1, <3>2
  <2>3. \A p \in 1 .. n * k : \E c \in 1 .. k, r \in 1 .. n : p = At(c, r)
    <3> SUFFICES ASSUME NEW p \in 1 .. n * k PROVE \E c \in 1 .. k, r \in 1 .. n : p = At(c, r)
      OBVIOUS
    <3>1. \E a \in 0 .. n - 1, c \in 1 .. k : p = a * k + c
      BY <1>1, <1>2, RowMajor
    <3>2. PICK a \in 0 .. n - 1, c \in 1 .. k : p = a * k + c
      BY <3>1
    <3>3. a + 1 \in 1 .. n /\ (a + 1) - 1 = a
      BY <1>1
    <3>4. p = At(c, a + 1)
      BY <2>1, <3>2, <3>3
    <3> QED BY <3>3, <3>4
  <2>4. \A c, d \in 1 .. k, r, s \in 1 .. n : At(c, r) = At(d, s) => c = d /\ r = s
    <3> SUFFICES ASSUME NEW c \in 1 .. k, NEW d \in 1 .. k, NEW r \in 1 .. n, NEW s \in 1 .. n,
                        At(c, r) = At(d, s)
                 PROVE  c = d /\ r = s
      OBVIOUS
    <3>1. (r - 1) * k + c = (s - 1) * k + d
      BY <2>1
    <3>2. (r - 1) * k = k * (r - 1) /\ (s - 1) * k = k * (s - 1)
      BY <1>1, <1>2
    <3>3. k * (r - 1) \in Int /\ k * (s - 1) \in Int
      BY <1>1, <1>2
    <3>4. k * (r - 1) + (c - 1) = k * (s - 1) + (d - 1)
      BY <1>2, <3>1, <3>2, <3>3
    <3>5. r - 1 \in Int /\ s - 1 \in Int /\ c - 1 \in 0 .. k - 1 /\ d - 1 \in 0 .. k - 1
      BY <1>1, <1>2
    <3>6. r - 1 = s - 1 /\ c - 1 = d - 1
      BY <1>2, <3>4, <3>5, PairIsUnique
    <3> QED BY <1>1, <1>2, <3>6
  <2> QED BY <2>2, <2>3, <2>4 DEF k
<1> QED BY <1>3, <1>4

\* A fresh validity buffer is zeroed, and of the rows only nulls need it.
LEMMA ColumnKeeps ==
  ASSUME IInv, Column
  PROVE  IInv'
<1>1. pc = "column" /\ j <= Len(cols) /\ Calm /\ UNCHANGED <<first, j, built>>
  BY DEF Column
<1>2. UNCHANGED <<form, n, cols, size, order, policy, pos, block, got>>
  BY <1>1 DEF Calm, Fixed
<1>3. valid' = IF form # "matrix" /\ HasNulls(j) THEN [r \in 1 .. count |-> 0] ELSE None
  BY DEF Column
<1>4. pc' = CASE form = "matrix"                                 -> "double"
              [] form # "matrix" /\ column.dtype = "null"        -> "collect"
              [] form # "matrix" /\ column.dtype = "string"      -> "size"
              [] OTHER                                           -> "copy"
  BY DEF Column
<1>5. Configured /\ Controlled /\ form \in {"list", "series", "frame", "matrix"}
  BY <1>1 DEF IInv, Configured, Controlled
<1>6. /\ j \in DOMAIN cols /\ column = cols[j] /\ column.dtype \in Dtypes
      /\ window \in [1 .. count -> Data[column.dtype] \cup {Null}]
  BY <1>1, <1>5, WindowIs
<1>7. column' = column /\ window' = window /\ HasNulls(j)' = HasNulls(j) /\ OwnBytes' = OwnBytes
  BY <1>1, SameColumn DEF Calm
<1>8. count' = count /\ Windowed' = Windowed /\ \A c : RowsOf(c)' = RowsOf(c)
  BY <1>1, SameWindow DEF Calm
<1>9. count \in Nat
  BY <1>5, CountIs
<1>10. CASE form = "matrix"
  <2>1. pc' = "double" /\ valid' = None /\ room' = 1 .. n * Len(cols) /\ mem' = mem
    BY <1>3, <1>4, <1>10 DEF Column
  <2>2. Configured' /\ BlockRight'
    BY <1>1, <1>10, <2>1, CalmKeeps
  <2>3. ~Copying' /\ ~Converting'
    BY <2>1 DEF Copying, Converting
  <2>4. Controlled'
    <3>1. ~Windowed
      BY <1>10 DEF Windowed
    <3>2. /\ pos \in 0 .. n /\ first \in 0 .. pos /\ pos = 0
          /\ j \in 1 .. Len(cols) + 1 /\ Len(built) <= Len(cols)
          /\ got = None \/ got[1] \in 0 .. n - 1
      BY <1>5, <3>1 DEF Controlled
    <3> QED BY <1>1, <1>2, <1>8, <1>10, <2>1, <2>3, <3>1, <3>2 DEF Controlled
  <2>5. MatrixUpTo(j - 1)
    BY <1>1, <1>10 DEF IInv, MatrixRight
  <2>6. MatrixUpTo(j - 1)'
    BY <1>1, <1>2, <2>1, <2>5, MatrixSame
  <2>7. MatrixRight'
    BY <1>2, <2>1, <2>6 DEF MatrixRight
  <2>8. DOMAIN mem \subseteq 1 .. n * Len(cols)
    <3>1. j \in 1 .. Len(cols) + 1 /\ Len(cols) \in Nat
      BY <1>5 DEF Configured, Controlled
    <3>2. \A c \in 1 .. j - 1 : c \in 1 .. Len(cols)
      BY <1>1, <3>1
    <3>3. DOMAIN mem = {At(c, r) : c \in 1 .. j - 1, r \in 1 .. n}
      BY <2>5 DEF MatrixUpTo
    <3>4. \A c \in 1 .. Len(cols), r \in 1 .. n : At(c, r) \in 1 .. n * Len(cols)
      BY <1>5, PlacesAre
    <3> QED BY <3>2, <3>3, <3>4
  <2>9. RoomRight'
    BY <1>2, <1>10, <2>1, <2>3, <2>8 DEF RoomRight
  <2>10. BuiltRight' /\ ValidRight' /\ StageRight'
    BY <2>1, <2>3 DEF BuiltRight, ValidRight, StageRight
  <2> QED BY <2>2, <2>4, <2>7, <2>9, <2>10 DEF IInv
<1>11. CASE form # "matrix"
  <2>1. \/ column.dtype = "null" /\ pc' = "collect"
        \/ column.dtype = "string" /\ pc' = "size"
        \/ column.dtype \notin {"null", "string"} /\ pc' = "copy"
    BY <1>4, <1>11
  <2>2. Configured' /\ BlockRight'
    BY <1>1, <2>1, CalmKeeps
  <2>3. Copying' /\ Converting' /\ Converting
    BY <1>1, <1>2, <1>11, <2>1 DEF Copying, Converting
  <2>4. column.dtype \notin {"null", "string"} =>
          column.dtype \in Physical \cup {"zoned", "decimal", "categorical"}
    BY <1>6, DataAre
  <2>5. Controlled'
    BY <1>1, <1>2, <1>5, <1>7, <1>8, <1>11, <2>1, <2>3, <2>4 DEF Controlled
  <2>6. BuiltRight'
    BY <1>1, <1>8, <2>3 DEF IInv, BuiltRight
  <2>7. ValidRight'
    <3>1. ~HasNulls(j) => valid' = None
      BY <1>3
    <3>2. HasNulls(j) => valid' = [r \in 1 .. count |-> 0]
      BY <1>3, <1>11
    <3>3. HasNulls(j) => valid' \in [1 .. count -> {0, 1}] /\ valid' \in Seq({0, 1})
      BY <1>9, <3>2
    <3>4. ValidWritten' => column.dtype = "null"
      BY <1>7, <2>1 DEF ValidWritten
    <3>5. column.dtype = "null" => \A r \in 1 .. count : window[r] = Null
      BY <1>6, DataAre
    <3>6. ValidWritten' /\ HasNulls(j) => \A r \in 1 .. count : valid'[r] = 0 <=> window[r] = Null
      BY <3>2, <3>4, <3>5
    <3> QED BY <1>7, <1>8, <3>1, <3>3, <3>6 DEF ValidRight
  <2>8. RoomRight'
    <3>1. CASE form = "frame"
      <4>1. mem' = mem /\ room' = room
        BY <3>1 DEF Column
      <4> QED BY <1>2, <1>8, <2>3, <3>1, <4>1 DEF IInv, RoomRight
    <3>2. CASE form # "frame"
      <4>1. mem' = <<>> /\ room' = OwnBytes
        BY <1>11, <3>2 DEF Column
      <4>2. ~(pc' \in {"size", "names"} /\ column.dtype = "categorical")
        BY <2>1
      <4> QED BY <1>2, <1>7, <3>2, <4>1, <4>2 DEF RoomRight
    <3> QED BY <3>1, <3>2
  <2>9. StageRight'
    <3>1. pc' = "collect" => \A r \in 1 .. count : window[r] = Null
      BY <1>6, <2>1, DataAre
    <3> QED BY <1>7, <1>8, <2>1, <3>1 DEF StageRight, ElementsRight
  <2>10. MatrixRight'
    BY <1>2, <1>11, <2>1 DEF MatrixRight
  <2> QED BY <2>2, <2>5, <2>6, <2>7, <2>8, <2>9, <2>10 DEF IInv
<1> QED BY <1>10, <1>11

-----------------------------------------------------------------------------
(* Copies of elements of a fixed width.                                    *)

LEMMA RoomIs ==
  ASSUME IInv, Copying
  PROVE  /\ DOMAIN mem \subseteq room
         /\ form = "frame" => room = Bytes(0, 16 * (count + 1))
         /\ form # "frame" => OwnBytes \subseteq room
<1>1. form # "matrix" /\ Converting
  BY CopyingIs DEF Copying, Converting
<1> QED BY <1>1 DEF IInv, RoomRight, ScratchBytes, ScratchBytesPerRow

\* The bytes that a copy needs are allocated.
LEMMA NeededIs ==
  ASSUME IInv, Copying, NEW k \in Nat, k <= 16 * count, form # "frame" => OwnBytes = Bytes(0, k)
  PROVE  Bytes(0, k) \subseteq room
<1>1. count \in Nat
  BY CopyingIs
<1>2. Bytes(0, k) \subseteq Bytes(0, 16 * (count + 1))
  BY <1>1 DEF Bytes
<1> QED BY <1>2, RoomIs

\* A column that has been copied into memory, and is to be collected.
LEMMA CopiedKeeps ==
  ASSUME IInv, Copying, Calm, UNCHANGED <<first, j, built, room>>, pc' = "collect",
         DOMAIN mem' \subseteq room, ValidRight',
         \A r \in 1 .. count : window[r] # Null =>
            Element(r - 1)' = Expected(column.dtype, window[r])
  PROVE  IInv'
<1>1. Configured' /\ Controlled' /\ BuiltRight' /\ BlockRight' /\ MatrixRight'
  BY CopyingKeeps
<1>2. column' = column /\ window' = window /\ count' = count /\ OwnBytes' = OwnBytes /\ form' = form
  BY SameColumn, SameWindow DEF Calm, Fixed
<1>3. Converting
  BY CopyingIs DEF Copying, Converting
<1>4. RoomRight'
  BY <1>2, <1>3, RoomIs DEF IInv, RoomRight
<1>5. StageRight'
  BY <1>2 DEF StageRight, ElementsRight
<1> QED BY <1>1, <1>4, <1>5 DEF IInv

LEMMA CopyPhysicalKeeps ==
  ASSUME IInv, CopyPhysical
  PROVE  IInv'
<1> DEFINE w   == Width[column.dtype]
           els == [r \in 1 .. count |-> IF window[r] = Null THEN Junk ELSE window[r]]
<1>1. pc = "copy" /\ column.dtype \in Physical /\ Copying
  BY DEF CopyPhysical, Copying
<1>2. RowRange(first, count) /\ RoomFor(count, count)
  BY <1>1, CopiesFit
<1>3. mem' = Put(mem, 0, w, els) /\ WriteValid /\ pc' = "collect" /\ Calm
  BY <1>2 DEF CopyPhysical
<1>4. UNCHANGED <<first, j, built, room>>
  BY <1>2 DEF CopyPhysical
<1>5. column' = column /\ window' = window /\ count' = count
  BY <1>3, <1>4, SameColumn, SameWindow DEF Calm
<1>6. count \in Nat /\ Configured /\ Controlled /\ j <= Len(cols)
  BY <1>1, CopyingIs
<1>7. w \in Widths
  BY <1>1, DataAre
<1>8. Len(els) = count
  BY <1>6, LenIs
<1>9. OwnBytes = Bytes(0, w * count)
  <2>1. column.dtype \notin {"zoned", "decimal", "string", "categorical", "null"}
    BY <1>1, DataAre
  <2> QED BY <1>1, <2>1 DEF OwnBytes
<1> HIDE DEF w
<1>10. DOMAIN mem' \subseteq room
  <2>1. DOMAIN mem' = DOMAIN mem \cup Bytes(0, w * count)
    <3> HIDE DEF els
    <3> QED BY <1>3, <1>8 DEF Put
  <2>2. w * count \in Nat /\ w * count <= 16 * count
    BY <1>6, <1>7 DEF Widths
  <2>3. Bytes(0, w * count) \subseteq room
    BY <1>1, <1>9, <2>2, NeededIs
  <2> QED BY <1>1, <2>1, <2>3, RoomIs
<1>11. ValidRight'
  BY <1>1, <1>3, <1>4, WriteValidIs
<1>12. ASSUME NEW r \in 1 .. count, window[r] # Null
       PROVE  Element(r - 1)' = Expected(column.dtype, window[r])
  <2>1. els[r] = window[r]
    BY <1>12
  <2>2. Get(mem', w * (r - 1), w) = window[r]
    <3> HIDE DEF els
    <3>1. PICK b : b = w * (r - 1)
      OBVIOUS
    <3>2. b = 0 + w * (r - 1)
      BY <1>6, <1>7, <3>1 DEF Widths
    <3>3. Get(Put(mem, 0, w, els), b, w) = els[r]
      BY <1>6, <1>7, <1>8, <3>2, PutGet
    <3> QED BY <1>3, <2>1, <3>1, <3>3
  <2>3. window[r] \in Data[column.dtype]
    BY <1>6, <1>12, WindowIs
  <2>4. CASE column.dtype = "boolean"
    <3>1. w = 1 /\ window[r] \in {0, 1}
      BY <2>3, <2>4, DataAre DEF w
    <3>2. w * (r - 1) = r - 1
      BY <1>6, <3>1
    <3>3. Get(mem', r - 1, 1) = window[r] /\ window[r] # Junk
      BY <2>2, <3>1, <3>2, ConstantsAssumption
    <3>4. Element(r - 1)' = IF Get(mem', r - 1, 1) = Junk THEN Junk ELSE Get(mem', r - 1, 1) # 0
      BY <1>5, <2>4 DEF Element
    <3>5. Expected(column.dtype, window[r]) = (window[r] = 1)
      BY <1>12, <2>4 DEF Expected
    <3> QED BY <3>1, <3>3, <3>4, <3>5
  <2>5. CASE column.dtype # "boolean"
    <3>1. column.dtype \notin {"zoned", "decimal", "string", "categorical", "null"}
      BY <1>1, DataAre
    <3>2. Element(r - 1)' = Get(mem', w * (r - 1), w)
      BY <1>1, <1>5, <2>5, <3>1 DEF Element, w
    <3>3. Expected(column.dtype, window[r]) = window[r]
      BY <1>12, <2>5, <3>1 DEF Expected
    <3> QED BY <2>2, <3>2, <3>3
  <2> QED BY <2>4, <2>5
<1> QED BY <1>1, <1>3, <1>4, <1>10, <1>11, <1>12, CopiedKeeps

LEMMA CopyZonedKeeps ==
  ASSUME IInv, CopyZoned
  PROVE  IInv'
<1> DEFINE instants == [r \in 1 .. count |-> IF window[r] = Null THEN Junk ELSE window[r]]
           walls    == [r \in 1 .. count |-> IF window[r] = Null THEN Junk ELSE Wall(window[r])]
           half     == Put(mem, 0, 8, instants)
<1>1. pc = "copy" /\ column.dtype = "zoned" /\ Copying
  BY DEF CopyZoned, Copying
<1>2. RowRange(0, count) /\ RoomFor(count, count)
  BY <1>1, CopiesFit
<1>3. mem' = Put(half, 8 * count, 8, walls) /\ WriteValid /\ pc' = "collect" /\ Calm
  BY <1>2 DEF CopyZoned
<1>4. UNCHANGED <<first, j, built, room>>
  BY <1>2 DEF CopyZoned
<1>5. column' = column /\ window' = window /\ count' = count
  BY <1>3, <1>4, SameColumn, SameWindow DEF Calm
<1>6. count \in Nat /\ 8 * count \in Nat /\ 8 \in Widths /\ 0 \in Nat
  BY <1>1, CopyingIs DEF Widths
<1>7. Len(instants) = count /\ Len(walls) = count
  BY <1>6, LenIs
<1>8. OwnBytes = Bytes(0, 16 * count)
  <2>1. column.dtype \notin Physical
    BY <1>1, DataAre
  <2> QED BY <1>1, <2>1 DEF OwnBytes
<1>13. \A r \in 1 .. count : window[r] # Null => instants[r] = window[r] /\ walls[r] = Wall(window[r])
  OBVIOUS
<1> HIDE DEF instants, walls
<1>9. DOMAIN half = DOMAIN mem \cup Bytes(0, 8 * count)
  BY <1>7 DEF Put
<1> HIDE DEF half
<1>10. DOMAIN mem' \subseteq room
  <2>1. DOMAIN mem' = DOMAIN half \cup Bytes(8 * count, 8 * count)
    BY <1>3, <1>7 DEF Put
  <2>2. Bytes(0, 16 * count) \subseteq room
    BY <1>1, <1>6, <1>8, NeededIs
  <2>3. Bytes(0, 8 * count) \subseteq Bytes(0, 16 * count) /\ Bytes(8 * count, 8 * count) \subseteq Bytes(0, 16 * count)
    BY <1>6 DEF Bytes
  <2> QED BY <1>1, <1>9, <2>1, <2>2, <2>3, RoomIs
<1>11. ValidRight'
  BY <1>1, <1>3, <1>4, WriteValidIs
<1>12. ASSUME NEW r \in 1 .. count, window[r] # Null
       PROVE  Element(r - 1)' = Expected(column.dtype, window[r])
  <2>1. Get(mem', 8 * count + 8 * (r - 1), 8) = Wall(window[r])
    <3>1. PICK w \in Widths, at \in Nat : w = 8 /\ at = 8 * count
      BY <1>6
    <3>2. PICK b : b = 8 * count + 8 * (r - 1)
      OBVIOUS
    <3>3. b = at + w * (r - 1)
      BY <3>1, <3>2
    <3>4. Get(Put(half, at, w, walls), b, w) = walls[r]
      BY <1>6, <1>7, <3>3, PutGet
    <3> QED BY <1>3, <1>12, <1>13, <3>1, <3>2, <3>4
  <2>2. Get(mem', 8 * (r - 1), 8) = window[r]
    <3>0. PICK b : b = 8 * (r - 1)
      OBVIOUS
    <3>1. b \in Nat /\ b + 8 <= 8 * count /\ b = 0 + 8 * (r - 1)
      BY <1>6, <3>0
    <3>2. Bytes(b, 8) \subseteq DOMAIN half
      BY <1>6, <1>9, <3>1 DEF Bytes
    <3>3. Get(half, b, 8) = instants[r]
      <4>1. PICK w \in Widths : w = 8
        BY <1>6
      <4>2. b = 0 + w * (r - 1)
        BY <3>1, <4>1
      <4>3. Get(Put(mem, 0, w, instants), b, w) = instants[r]
        BY <1>6, <1>7, <4>2, PutGet
      <4> QED BY <4>1, <4>3 DEF half
    <3>4. Get(Put(half, 8 * count, 8, walls), b, 8) = Get(half, b, 8)
      BY <1>6, <1>7, <3>1, <3>2, PutKeeps
    <3>5. Get(mem', b, 8) = window[r]
      BY <1>3, <1>12, <1>13, <3>1, <3>3, <3>4
    <3> QED BY <3>0, <3>5
  <2>3. column.dtype \notin Physical
    BY <1>1, DataAre
  <2>4. Element(r - 1)' = <<Get(mem', 8 * (r - 1), 8), Get(mem', 8 * count + 8 * (r - 1), 8)>>
    BY <1>1, <1>5, <2>3 DEF Element
  <2>5. Expected(column.dtype, window[r]) = <<window[r], Wall(window[r])>>
    BY <1>1, <1>12 DEF Expected
  <2> QED BY <2>1, <2>2, <2>4, <2>5
<1> QED BY <1>1, <1>3, <1>4, <1>10, <1>11, <1>12, CopiedKeeps

LEMMA CopyDecimalKeeps ==
  ASSUME IInv, CopyDecimal
  PROVE  IInv'
<1> DEFINE bits(v) == (IF v = Null THEN 0 ELSE v) % 16
           els     == [k \in 1 .. 2 * count |->
                         LET v == bits(window[(k + 1) \div 2]) IN IF k % 2 = 1 THEN v % 4 ELSE v \div 4]
           words   == IF 2 * count <= UsizeMax THEN 2 * count ELSE UsizeMax
<1>1. pc = "copy" /\ column.dtype = "decimal" /\ Copying
  BY DEF CopyDecimal, Copying
<1>6. /\ count \in Nat /\ 2 * count \in Nat /\ 8 \in Widths /\ 0 \in Nat /\ UsizeMax \in Nat
      /\ Configured /\ Controlled /\ j <= Len(cols)
  BY <1>1, CopyingIs, ConstantsAssumption DEF Widths
<1>2. RowRange(first, count) /\ RoomFor(count, count) /\ words <= 2 * count
  BY <1>1, <1>6, CopiesFit
<1>3. mem' = Put(mem, 0, 8, els) /\ WriteValid /\ pc' = "collect" /\ Calm
  BY <1>2 DEF CopyDecimal
<1>4. UNCHANGED <<first, j, built, room>>
  BY <1>2 DEF CopyDecimal
<1>5. column' = column /\ window' = window /\ count' = count
  BY <1>3, <1>4, SameColumn, SameWindow DEF Calm
<1>7. Len(els) = 2 * count
  BY <1>6, LenIs
<1>8. OwnBytes = Bytes(0, 16 * count)
  <2>1. column.dtype \notin Physical
    BY <1>1, DataAre
  <2> QED BY <1>1, <2>1 DEF OwnBytes
<1>10. DOMAIN mem' \subseteq room
  <2>1. DOMAIN mem' = DOMAIN mem \cup Bytes(0, 8 * (2 * count))
    <3> HIDE DEF els
    <3> QED BY <1>3, <1>7 DEF Put
  <2>2. Bytes(0, 16 * count) \subseteq room
    BY <1>1, <1>6, <1>8, NeededIs
  <2>3. 8 * (2 * count) = 16 * count
    BY <1>6
  <2> QED BY <1>1, <2>1, <2>2, <2>3, RoomIs
<1>11. ValidRight'
  BY <1>1, <1>3, <1>4, WriteValidIs
<1>12. ASSUME NEW r \in 1 .. count, window[r] # Null
       PROVE  Element(r - 1)' = Expected(column.dtype, window[r])
  <2>1. window[r] \in {-5, 6}
    BY <1>1, <1>6, <1>12, WindowIs, DataAre
  <2> DEFINE b == window[r] % 16
  <2>2. els[2 * r - 1] = b % 4 /\ els[2 * r] = b \div 4
    <3>1. /\ 2 * r - 1 \in 1 .. 2 * count /\ ((2 * r - 1) + 1) \div 2 = r /\ (2 * r - 1) % 2 = 1
          /\ 2 * r \in 1 .. 2 * count /\ (2 * r + 1) \div 2 = r /\ (2 * r) % 2 = 0
      BY <1>6
    <3>2. bits(window[r]) = b
      BY <1>12
    <3> HIDE DEF b, bits
    <3> QED BY <3>1, <3>2
  <2>3. \A k \in 1 .. 2 * count : Get(mem', 8 * (k - 1), 8) = els[k]
    <3> HIDE DEF els
    <3> SUFFICES ASSUME NEW k \in 1 .. 2 * count PROVE Get(mem', 8 * (k - 1), 8) = els[k]
      OBVIOUS
    <3>1. PICK at : at = 8 * (k - 1)
      OBVIOUS
    <3>2. Get(Put(mem, 0, 8, els), at, 8) = els[k]
      <4>1. PICK w \in Widths : w = 8
        BY <1>6
      <4>2. at = 0 + w * (k - 1)
        BY <1>6, <3>1, <4>1
      <4>3. Get(Put(mem, 0, w, els), at, w) = els[k]
        BY <1>6, <1>7, <4>2, PutGet
      <4> QED BY <4>1, <4>3
    <3> QED BY <1>3, <3>1, <3>2
  <2> HIDE DEF els
  <2>4. Get(mem', 16 * (r - 1), 8) = b % 4 /\ Get(mem', 16 * (r - 1) + 8, 8) = b \div 4
    <3>1. /\ 2 * r - 1 \in 1 .. 2 * count /\ 8 * ((2 * r - 1) - 1) = 16 * (r - 1)
          /\ 2 * r \in 1 .. 2 * count /\ 8 * (2 * r - 1) = 16 * (r - 1) + 8
      BY <1>6
    <3> HIDE DEF b
    <3> QED BY <2>2, <2>3, <3>1
  <2>5. column.dtype \notin Physical
    BY <1>1, DataAre
  <2>6. Element(r - 1)' =
          LET low == Get(mem', 16 * (r - 1), 8)  high == Get(mem', 16 * (r - 1) + 8, 8)
          IN IF Junk \in {low, high} THEN Junk
             ELSE low + 4 * (IF high >= 2 THEN high - 4 ELSE high)
    BY <1>1, <1>5, <2>5 DEF Element
  <2>7. Expected(column.dtype, window[r]) = window[r]
    BY <1>1, <1>12 DEF Expected
  <2>8. CASE window[r] = -5
    <3>0. PICK v \in Int : v = -5 /\ v = window[r]
      BY <2>8
    <3>1. b % 4 = 3 /\ b \div 4 = 2
      <4>1. PICK m \in Nat \ {0} : m = 16
        OBVIOUS
      <4>2. v \div m \in Int /\ v - m * (v \div m) \in 0 .. m - 1 /\ v % m = v - m * (v \div m)
        BY Quotient
      <4> DEFINE q == v \div m
      <4>3. q \in Int /\ -5 - 16 * q \in 0 .. 15 /\ v % m = -5 - 16 * q
        BY <3>0, <4>1, <4>2
      <4> HIDE DEF q
      <4>4. v % m = 11
        BY <4>3
      <4>5. b = 11
        BY <3>0, <4>1, <4>4
      <4> HIDE DEF b
      <4> QED BY <4>5
    <3>2. Junk # 3 /\ Junk # 2
      BY ConstantsAssumption
    <3> HIDE DEF b
    <3> QED BY <2>4, <2>6, <2>7, <2>8, <3>1, <3>2
  <2>9. CASE window[r] = 6
    <3>1. b % 4 = 2 /\ b \div 4 = 1
      BY <2>9
    <3>2. Junk # 1 /\ Junk # 2
      BY ConstantsAssumption
    <3> HIDE DEF b
    <3> QED BY <2>4, <2>6, <2>7, <2>9, <3>1, <3>2
  <2> QED BY <2>1, <2>8, <2>9
<1> QED BY <1>1, <1>3, <1>4, <1>10, <1>11, <1>12, CopiedKeeps

-----------------------------------------------------------------------------
(* Copies of strings, and of the names of categoricals.                    *)

\* Each row is given the local code of its name.
LEMMA CopyCatKeeps ==
  ASSUME IInv, CopyCat
  PROVE  IInv'
<1> DEFINE names == NamesIn(window)
           els   == [r \in 1 .. count |-> CodeIn(names, window[r])]
<1>1. pc = "copy" /\ column.dtype = "categorical" /\ Copying
  BY DEF CopyCat, Copying
<1>2. RowRange(first, count) /\ RoomFor(count, count)
  BY <1>1, CopiesFit
<1>3. table' = names /\ mem' = Put(mem, 0, 4, els) /\ WriteValid /\ pc' = "size" /\ Calm
  BY <1>2 DEF CopyCat
<1>4. /\ UNCHANGED <<first, j, built, buf>>
      /\ room' = IF form = "frame" THEN room ELSE room \cup Bytes(Apart, 8 * (Len(names) + 1))
  BY <1>2, <1>3 DEF CopyCat
<1>5. column' = column /\ window' = window /\ count' = count /\ OwnBytes' = OwnBytes /\ form' = form
  BY <1>3, <1>4, SameColumn, SameWindow DEF Calm, Fixed
<1>6. count \in Nat /\ Configured /\ Controlled /\ j <= Len(cols) /\ 4 \in Widths
  BY <1>1, CopyingIs DEF Widths
<1>7. Configured' /\ Controlled' /\ BuiltRight' /\ BlockRight' /\ MatrixRight'
  BY <1>1, <1>3, <1>4, CopyingKeeps
<1>8. ValidRight'
  BY <1>1, <1>3, <1>4, WriteValidIs
<1>9. /\ names \in Seq(Nat) /\ Len(names) <= count
      /\ \A r \in 1 .. count : window[r] # Null => \E q \in 1 .. Len(names) : names[q] = window[r]
  <2>1. window \in [1 .. count -> Nat \cup {Null}]
    BY <1>1, <1>6, WindowIs, DataAre
  <2>2. PICK rows, k : rows = window /\ k = count
    OBVIOUS
  <2>3. k \in Nat /\ rows \in [1 .. k -> Nat \cup {Null}]
    BY <1>6, <2>1, <2>2
  <2>4. PICK s : s = NamesIn(rows)
    OBVIOUS
  <2>5. /\ s \in Seq(Nat) /\ Len(s) <= k
        /\ \A r \in 1 .. k : rows[r] # Null => \E q \in 1 .. Len(s) : s[q] = rows[r]
    BY <2>3, <2>4, NamesAre
  <2> QED BY <2>2, <2>4, <2>5
<1> HIDE DEF names
<1>10. Len(els) = count
  BY <1>6, LenIs
<1>11. \A r \in 1 .. count : els[r] = CodeIn(names, window[r])
  OBVIOUS
<1> HIDE DEF els
<1>12. DOMAIN mem' = DOMAIN mem \cup Bytes(0, 4 * count)
  BY <1>3, <1>10 DEF Put
<1>13. RoomRight'
  <2>1. OwnBytes = Bytes(0, 4 * count)
    <3>1. column.dtype \notin Physical
      BY <1>1, DataAre
    <3> QED BY <1>1, <3>1 DEF OwnBytes
  <2>2. 4 * count \in Nat /\ 4 * count <= 16 * count
    BY <1>6
  <2>3. Bytes(0, 4 * count) \subseteq room
    BY <1>1, <2>1, <2>2, NeededIs
  <2>4. DOMAIN mem' \subseteq room'
    BY <1>1, <1>4, <1>12, <2>3, RoomIs
  <2>5. form = "frame" => room' = Bytes(0, ScratchBytes(count))
    BY <1>1, <1>4, RoomIs DEF ScratchBytes, ScratchBytesPerRow
  <2>6. form # "frame" => OwnBytes \subseteq room' /\ Bytes(Apart, 8 * (Len(table') + 1)) \subseteq room'
    BY <1>1, <1>3, <1>4, RoomIs
  <2>7. Apart' = Apart
    BY DEF Apart
  <2> QED BY <1>5, <2>4, <2>5, <2>6, <2>7 DEF RoomRight
<1>14. ASSUME NEW r \in 1 .. count, window[r] # Null
       PROVE  \E q \in 1 .. Len(names) : names[q] = window[r] /\ Get(mem', 4 * (r - 1), 4) = q - 1
  <2>1. DOMAIN names = 1 .. Len(names)
    BY <1>9
  <2>2. PICK q : q = CHOOSE k \in DOMAIN names : names[k] = window[r]
    OBVIOUS
  <2>3. q \in 1 .. Len(names) /\ names[q] = window[r]
    BY <1>9, <1>14, <2>1, <2>2
  <2>4. els[r] = q - 1
    BY <1>11, <1>14, <2>2 DEF CodeIn
  <2>5. PICK w \in Widths : w = 4
    BY <1>6
  <2>8. PICK b : b = 4 * (r - 1)
    OBVIOUS
  <2>6. b = 0 + w * (r - 1)
    BY <1>6, <2>5, <2>8
  <2>7. Get(Put(mem, 0, w, els), b, w) = els[r]
    BY <1>6, <1>10, <2>6, PutGet
  <2> QED BY <1>3, <2>3, <2>4, <2>5, <2>7, <2>8
<1>15. StageRight'
  <2>1. CodesRight'
    BY <1>3, <1>5, <1>9, <1>12, <1>14 DEF CodesRight
  <2> QED BY <1>3, <2>1 DEF StageRight
<1> QED BY <1>7, <1>8, <1>13, <1>15 DEF IInv

\* The strings that are sized and copied.
LEMMA StringsAre ==
  ASSUME IInv, pc \in {"size", "names"}
  PROVE  /\ Len(Strings) \in Nat /\ Len(Strings) <= count
         /\ DOMAIN Strings = 1 .. Len(Strings)
         /\ Lengths \in [1 .. Len(Strings) -> Nat]
         /\ \A i \in 1 .. Len(Strings) : Strings[i] # Null => Lengths[i] = Strings[i]
         /\ column.dtype \in {"string", "categorical"}
         /\ column.dtype = "string" => Strings = window /\ Len(Strings) = count
         /\ column.dtype = "categorical" => Strings = table /\ \A i \in 1 .. Len(Strings) : Strings[i] # Null
         /\ Ends(Len(Strings)) \in Nat
<1>1. Configured /\ Controlled /\ j <= Len(cols) /\ count \in Nat /\ Copying
  BY CopyingIs DEF Copying
<1>2. column.dtype \in {"string", "categorical"}
  BY <1>1 DEF Controlled
<1>3. CASE column.dtype = "string"
  <2>1. Strings = window
    BY <1>3 DEF Strings
  <2>2. window \in [1 .. count -> Nat \cup {Null}] /\ Len(window) = count
    BY <1>1, <1>3, WindowIs, DataAre
  <2>3. DOMAIN Strings = 1 .. count /\ Len(Strings) = count /\ \A i \in 1 .. count : Strings[i] \in Nat \cup {Null}
    BY <2>1, <2>2
  <2>4. Lengths \in [1 .. Len(Strings) -> Nat]
    BY <2>3 DEF Lengths
  <2>5. Ends(Len(Strings)) \in Nat
    BY <1>1, <2>3, <2>4, EndsAre DEF Ends, AreEnds
  <2> QED BY <1>1, <1>3, <2>1, <2>3, <2>4, <2>5 DEF Lengths
<1>4. CASE column.dtype = "categorical"
  <2>1. Strings = table /\ CodesRight
    BY <1>4 DEF Strings, IInv, StageRight
  <2>2. table \in Seq(Nat) /\ Len(table) <= count
    BY <2>1 DEF CodesRight
  <2>3. /\ DOMAIN Strings = 1 .. Len(Strings) /\ Len(Strings) \in Nat
        /\ \A i \in 1 .. Len(Strings) : Strings[i] \in Nat
    BY <2>1, <2>2
  <2>4. Lengths \in [1 .. Len(Strings) -> Nat]
    BY <2>3 DEF Lengths
  <2>5. Ends(Len(Strings)) \in Nat
    BY <2>3, <2>4, EndsAre DEF Ends, AreEnds
  <2> QED BY <1>4, <2>1, <2>2, <2>3, <2>4, <2>5, ConstantsAssumption DEF Lengths
<1> QED BY <1>2, <1>3, <1>4

\* Steps that stay at a column and change no number of strings keep them.
LEMMA SameStrings ==
  ASSUME Fixed, UNCHANGED <<first, j, table>>
  PROVE  Strings' = Strings /\ Lengths' = Lengths /\ Names' = Names
         /\ \A i : Ends(i)' = Ends(i)
<1>1. column' = column /\ window' = window /\ count' = count /\ form' = form
  BY SameColumn, SameWindow DEF Fixed
<1>2. Strings' = Strings
  BY <1>1 DEF Strings
<1>3. Lengths' = Lengths
  BY <1>2 DEF Lengths
<1>4. Names' = Names
  BY <1>1 DEF Names, Apart
<1> QED BY <1>2, <1>3, <1>4 DEF Ends

LEMMA SizeStringsKeeps ==
  ASSUME IInv, SizeStrings
  PROVE  IInv'
<1>1. pc = "size" /\ pc' = "names" /\ Calm /\ buf' = [k \in 1 .. Ends(Len(Strings)) |-> Junk]
  BY DEF SizeStrings
<1>2. UNCHANGED <<first, j, built, mem, room, valid, table>>
  BY DEF SizeStrings
<1>3. Copying /\ Copying' /\ column.dtype \in {"string", "categorical"}
  BY <1>1, StringsAre DEF Copying
<1>4. Configured' /\ Controlled' /\ BuiltRight' /\ BlockRight' /\ MatrixRight'
  BY <1>1, <1>2, <1>3, CopyingKeeps
<1>5. /\ column' = column /\ window' = window /\ count' = count /\ OwnBytes' = OwnBytes /\ form' = form
      /\ HasNulls(j)' = HasNulls(j)
  BY <1>1, <1>2, SameColumn, SameWindow DEF Calm, Fixed
<1>6. ValidWritten' <=> ValidWritten
  BY <1>1, <1>5 DEF ValidWritten
<1>7. ValidRight'
  BY <1>2, <1>3, <1>5, <1>6 DEF IInv, ValidRight
<1>8. Converting
  BY <1>3, CopyingIs DEF Copying, Converting
<1>9. RoomRight'
  BY <1>1, <1>2, <1>3, <1>5, <1>8 DEF IInv, RoomRight, Apart
<1>10. CodesRight' <=> CodesRight
  BY <1>2, <1>5 DEF CodesRight
<1>11. Len(buf') = Ends(Len(Strings))
  BY <1>1, StringsAre, LenIs
<1>12. Ends(Len(Strings))' = Ends(Len(Strings))
  BY <1>1, <1>2, SameStrings DEF Calm, Ends
<1>13. StageRight'
  BY <1>1, <1>5, <1>10, <1>11, <1>12 DEF IInv, StageRight
<1> QED BY <1>4, <1>7, <1>9, <1>13 DEF IInv
\* What lies between the offsets of the k-th string that was put at `at`.
StringIn(m, b, at, k) ==
  LET from == Get(m, at + 8 * k, 8)
      to   == Get(m, at + 8 * (k + 1), 8)
      length == to - from
  IN IF Junk \in {from, to} THEN Junk
     ELSE IF \A x \in 1 .. length : b[from + x] = <<length, x>> THEN length ELSE Junk

\* What offsets hold, and the bytes of a string of that length.
AreOffsets(els, ends, k) == Len(els) = k + 1 /\ \A q \in 1 .. k + 1 : els[q] = ends[q - 1]
AreBytes(b, from, length) == \A x \in 1 .. length : b[from + x] = <<length, x>>

\* A string that was copied with its neighbours is read as it was.
LEMMA StringIsRead ==
  ASSUME NEW m, NEW at \in Nat, NEW k \in Nat, NEW f \in [1 .. k -> Nat], NEW i \in 1 .. k,
         NEW ends, AreEnds(ends, k, f),
         NEW els, AreOffsets(els, ends, k), NEW b, AreBytes(b, ends[i - 1], f[i])
  PROVE  StringIn(Put(m, at, 8, els), b, at, i - 1) = f[i]
<1>1. /\ ends \in [0 .. k -> Nat] /\ \A q \in 1 .. k : ends[q] = ends[q - 1] + f[q]
      /\ \A x, y \in 0 .. k : x <= y => ends[x] <= ends[y]
  BY DEF AreEnds
<1>2. /\ i \in 0 .. k /\ i - 1 \in 0 .. k /\ k \in 0 .. k /\ i <= k /\ i \in 1 .. k + 1 /\ i + 1 \in 1 .. k + 1
      /\ (i + 1) - 1 = i /\ (i - 1) + 1 = i
  OBVIOUS
<1>3. ends[i - 1] \in Nat /\ ends[i] \in Nat /\ ends[i] = ends[i - 1] + f[i] /\ ends[i] <= ends[k] /\ f[i] \in Nat /\ ends[k] \in Nat
  BY <1>1, <1>2
<1>0. Len(els) = k + 1 /\ \A q \in 1 .. k + 1 : els[q] = ends[q - 1]
  BY DEF AreOffsets
<1> DEFINE p == Put(m, at, 8, els)
<1>4. \A q \in 1 .. k + 1 : Get(p, at + 8 * (q - 1), 8) = els[q]
  <2> SUFFICES ASSUME NEW q \in 1 .. k + 1 PROVE Get(p, at + 8 * (q - 1), 8) = els[q]
    OBVIOUS
  <2>1. PICK w \in Widths : w = 8
    BY DEF Widths
  <2>2. PICK x : x = at + 8 * (q - 1)
    OBVIOUS
  <2>3. PICK l : l = k + 1
    OBVIOUS
  <2>4. x = at + w * (q - 1) /\ l \in Nat /\ q \in 1 .. l /\ Len(els) = l
    BY <1>0, <2>1, <2>2, <2>3
  <2>5. Get(Put(m, at, w, els), x, w) = els[q]
    BY <2>4, PutGet
  <2> QED BY <2>1, <2>2, <2>5
<1> HIDE DEF p
<1>5. Get(p, at + 8 * (i - 1), 8) = ends[i - 1]
  BY <1>0, <1>2, <1>4
<1>6. Get(p, at + 8 * ((i - 1) + 1), 8) = ends[i]
  <2>1. Get(p, at + 8 * ((i + 1) - 1), 8) = els[i + 1] /\ els[i + 1] = ends[(i + 1) - 1]
    BY <1>0, <1>2, <1>4
  <2> QED BY <1>2, <2>1
<1>7. Junk \notin {ends[i - 1], ends[i]} /\ ends[i] - ends[i - 1] = f[i]
  BY <1>3, ConstantsAssumption
<1>9. StringIn(p, b, at, i - 1) = f[i]
  <2>1. (ends[i] - ends[i - 1] = f[i]) /\ \A x \in 1 .. ends[i] - ends[i - 1] : b[ends[i - 1] + x] = <<ends[i] - ends[i - 1], x>>
    BY <1>7 DEF AreBytes
  <2>2. StringIn(p, b, at, i - 1) = ends[i] - ends[i - 1]
    BY <1>5, <1>6, <1>7, <2>1, ZenonT(60) DEF StringIn
  <2> QED BY <2>1, <2>2
<1> QED BY <1>9 DEF p

\* The offsets have room of their own.
LEMMA NamesFit ==
  ASSUME IInv, pc = "names"
  PROVE  /\ Names \in Nat
         /\ Bytes(Names, 8 * (Len(Strings) + 1)) \subseteq room
         /\ column.dtype = "categorical" => 4 * count <= Names
<1>1. /\ Copying /\ count \in Nat /\ count <= MaxRows /\ MaxRows \in Nat
      /\ Len(Strings) \in Nat /\ Len(Strings) <= count /\ column.dtype \in {"string", "categorical"}
  BY CopyingIs, StringsAre, ConstantsAssumption DEF Copying
<1>2. PICK k : k = Len(Strings)
  OBVIOUS
<1>3. CASE column.dtype = "string"
  <2>1. Names = 0 /\ k = count
    BY <1>2, <1>3, StringsAre DEF Names
  <2>2. OwnBytes = Bytes(0, 8 * (count + 1))
    <3>1. column.dtype \notin Physical
      BY <1>3, DataAre
    <3> QED BY <1>3, <3>1 DEF OwnBytes
  <2>3. Bytes(0, 8 * (count + 1)) \subseteq Bytes(0, 16 * (count + 1))
    BY <1>1 DEF Bytes
  <2>4. Bytes(0, 8 * (count + 1)) \subseteq room
    BY <1>1, <2>2, <2>3, RoomIs
  <2> QED BY <1>2, <1>3, <2>1, <2>4
<1>4. CASE column.dtype = "categorical" /\ form = "frame"
  <2> DEFINE h == (count + 1) \div 2
  <2>1. Names = 8 * h
    BY <1>4 DEF Names, CodesBytes
  <2>2. h \in Nat /\ 2 * h <= count + 1 /\ count <= 2 * h
    BY <1>1
  <2> HIDE DEF h
  <2>3. 8 * h \in Nat /\ 4 * count <= 8 * h /\ 8 * h + 8 * (k + 1) <= 16 * (count + 1)
    BY <1>1, <1>2, <2>2
  <2>4. Bytes(8 * h, 8 * (k + 1)) \subseteq Bytes(0, 16 * (count + 1))
    BY <1>1, <1>2, <2>2, <2>3 DEF Bytes
  <2> QED BY <1>1, <1>2, <1>4, <2>1, <2>3, <2>4, RoomIs
<1>5. CASE column.dtype = "categorical" /\ form # "frame"
  <2>1. Names = Apart /\ Apart = 16 * (MaxRows + 1) /\ Strings = table
    BY <1>5 DEF Names, Apart, ScratchBytes, ScratchBytesPerRow, Strings
  <2>2. Apart \in Nat /\ 4 * count <= Apart
    BY <1>1, <2>1
  <2>3. Bytes(Apart, 8 * (Len(table) + 1)) \subseteq room
    BY <1>5 DEF IInv, RoomRight
  <2> QED BY <2>1, <2>2, <2>3
<1> QED BY <1>1, <1>3, <1>4, <1>5

\* Strings, and the names behind local codes, are read as they were copied.
LEMMA CopyStringsKeeps ==
  ASSUME IInv, CopyStrings
  PROVE  IInv'
<1> DEFINE els == [k \in 1 .. Len(Strings) + 1 |-> Ends(k - 1)]
<1>1. pc = "names" /\ Copying
  BY DEF CopyStrings, Copying
<1>2. /\ Len(Strings) \in Nat /\ Len(Strings) <= count /\ DOMAIN Strings = 1 .. Len(Strings)
      /\ Lengths \in [1 .. Len(Strings) -> Nat] /\ Ends(Len(Strings)) \in Nat
      /\ \A i \in 1 .. Len(Strings) : Strings[i] # Null => Lengths[i] = Strings[i]
      /\ column.dtype \in {"string", "categorical"}
  BY <1>1, StringsAre
<1>3. Ends(Len(Strings)) <= Len(buf) /\ Len(Strings) < OffsetsLen
  <2>1. Len(buf) = Ends(Len(Strings))
    BY <1>1 DEF IInv, StageRight
  <2> QED BY <1>2, <2>1 DEF OffsetsLen
<1>4. /\ buf' = [b \in 1 .. Ends(Len(Strings)) |->
                   LET r == CHOOSE k \in DOMAIN Strings : Ends(k - 1) < b /\ b <= Ends(k)
                   IN <<Strings[r], b - Ends(r - 1)>>]
      /\ mem' = Put(mem, Names, 8, els) /\ pc' = "collect" /\ Calm
  BY <1>3 DEF CopyStrings
<1>5. /\ IF column.dtype = "string" THEN WriteValid ELSE UNCHANGED valid
      /\ UNCHANGED <<first, j, built, room, table>>
  BY <1>3 DEF CopyStrings
<1>6. /\ column' = column /\ window' = window /\ count' = count /\ HasNulls(j)' = HasNulls(j)
      /\ Names' = Names
  BY <1>4, <1>5, SameColumn, SameWindow, SameStrings DEF Calm
<1>7. count \in Nat /\ Configured /\ Controlled /\ j <= Len(cols) /\ 8 \in Widths
  BY <1>1, CopyingIs DEF Widths
<1>8. Len(els) = Len(Strings) + 1 /\ \A q \in 1 .. Len(Strings) + 1 : els[q] = Ends(q - 1)
  <2>1. Len(Strings) + 1 \in Nat
    BY <1>2
  <2> QED BY <2>1, LenIs
<1> HIDE DEF els
<1>9. /\ Names \in Nat /\ Bytes(Names, 8 * (Len(Strings) + 1)) \subseteq room
      /\ column.dtype = "categorical" => 4 * count <= Names
  BY <1>1, NamesFit
<1>10. DOMAIN mem' \subseteq room
  <2>1. DOMAIN mem' = DOMAIN mem \cup Bytes(Names, 8 * (Len(Strings) + 1))
    BY <1>4, <1>8 DEF Put
  <2> QED BY <1>1, <1>9, <2>1, RoomIs
<1>11. ValidRight'
  <2>1. CASE column.dtype = "string"
    BY <1>1, <1>4, <1>5, <2>1, WriteValidIs
  <2>2. CASE column.dtype = "categorical"
    <3>1. valid' = valid /\ ValidWritten
      BY <1>1, <1>5, <2>2 DEF ValidWritten
    <3> QED BY <1>1, <1>6, <3>1 DEF IInv, ValidRight
  <2> QED BY <1>2, <2>1, <2>2
\* A string of the column is read as it was copied.
<1>12. ASSUME NEW i \in 1 .. Len(Strings), Strings[i] # Null
       PROVE  StringAt(i - 1)' = Strings[i]
  <2>1. PICK m, at, k, f, els1, b, ends, s :
          /\ m = mem /\ at = Names /\ k = Len(Strings) /\ f = Lengths /\ els1 = els
          /\ b = buf' /\ ends = EndsOf(f) /\ s = i
    OBVIOUS
  <2>2. /\ at \in Nat /\ k \in Nat /\ f \in [1 .. k -> Nat] /\ s \in 1 .. k /\ f[s] = Strings[i]
        /\ DOMAIN Strings = 1 .. k
    BY <1>2, <1>8, <1>9, <1>12, <2>1
  <2>9. AreEnds(ends, k, f)
    BY <2>1, <2>2, EndsAre
  <2>3. AreOffsets(els1, ends, k)
    BY <1>8, <2>1 DEF Ends, AreOffsets
  <2>4. ASSUME NEW x \in 1 .. f[s]
        PROVE  b[ends[s - 1] + x] = <<f[s], x>>
    <3>1. PICK y : y = ends[s - 1] + x
      OBVIOUS
    <3>2. y \in 1 .. ends[k] /\ y - ends[s - 1] = x /\ OwnerOf(ends, k, y) = s
      <4>1. IsByte(ends, k, f, s, x, y)
        BY <2>2, <2>9, <3>1 DEF IsByte
      <4> QED BY <4>1, ByteIsOf
    <3>3. \A q : Ends(q) = ends[q]
      BY <2>1 DEF Ends
    <3>4. y \in 1 .. Ends(Len(Strings))
      BY <2>1, <3>2, <3>3
    <3>5. (CHOOSE q \in DOMAIN Strings : Ends(q - 1) < y /\ y <= Ends(q)) = s
      BY <2>2, <3>2, <3>3 DEF OwnerOf
    <3>6. buf'[y] = <<Strings[s], y - Ends(s - 1)>>
      BY <1>4, <3>4, <3>5
    <3> QED BY <2>1, <2>2, <3>1, <3>2, <3>3, <3>6
  <2>7. AreBytes(b, ends[s - 1], f[s])
    BY <2>4 DEF AreBytes
  <2>5. StringIn(Put(m, at, 8, els1), b, at, s - 1) = f[s]
    BY <2>2, <2>3, <2>7, <2>9, StringIsRead
  <2>6. StringAt(i - 1)' = StringIn(mem', buf', Names, i - 1)
    BY <1>6 DEF StringAt, StringIn
  <2> QED BY <1>4, <2>1, <2>2, <2>5, <2>6
<1>13. ASSUME NEW r \in 1 .. count, window[r] # Null
       PROVE  Element(r - 1)' = Expected(column.dtype, window[r])
  <2>1. column.dtype \notin Physical
    BY <1>2, DataAre
  <2>2. CASE column.dtype = "string"
    <3>1. Strings = window /\ Len(Strings) = count
      BY <1>1, <2>2, StringsAre
    <3>2. StringAt(r - 1)' = window[r]
      BY <1>12, <1>13, <3>1
    <3>3. Element(r - 1)' = StringAt(r - 1)'
      BY <1>6, <2>1, <2>2 DEF Element
    <3>4. Expected(column.dtype, window[r]) = window[r]
      BY <1>13, <2>2 DEF Expected
    <3> QED BY <3>2, <3>3, <3>4
  <2>3. CASE column.dtype = "categorical"
    <3>1. CodesRight /\ Strings = table
      BY <1>1, <2>3 DEF IInv, StageRight, Strings
    <3>2. PICK q \in 1 .. Len(table) : table[q] = window[r] /\ Get(mem, 4 * (r - 1), 4) = q - 1
      BY <1>13, <3>1 DEF CodesRight
    <3>3. StringAt(q - 1)' = window[r]
      BY <1>12, <1>13, <3>1, <3>2
    <3>4. Get(mem', 4 * (r - 1), 4) = q - 1
      <4>1. PICK w \in Widths, v \in Widths : w = 8 /\ v = 4
        BY DEF Widths
      <4>2. PICK b : b = 4 * (r - 1)
        OBVIOUS
      <4>3. b \in Nat /\ b + v <= Names
        BY <1>7, <1>9, <2>3, <4>1, <4>2
      <4>4. Bytes(b, v) \subseteq DOMAIN mem
        <5>1. Bytes(b, v) \subseteq Bytes(0, 4 * count)
          BY <1>7, <4>1, <4>2 DEF Bytes
        <5> QED BY <3>1, <5>1 DEF CodesRight
      <4>5. Len(els) = Len(Strings) + 1 /\ Len(Strings) + 1 \in Nat
        BY <1>2, <1>8
      <4>6. Get(Put(mem, Names, w, els), b, v) = Get(mem, b, v)
        BY <1>9, <4>3, <4>4, <4>5, PutKeeps
      <4> QED BY <1>4, <3>2, <4>1, <4>2, <4>6
    <3>5. q - 1 # Junk
      BY <3>1, <3>2, ConstantsAssumption DEF CodesRight
    <3>6. Element(r - 1)' = IF Get(mem', 4 * (r - 1), 4) = Junk THEN Junk
                            ELSE StringAt(Get(mem, 4 * (r - 1), 4))'
      BY <1>6, <2>1, <2>3, <3>2, <3>4 DEF Element
    <3>7. Expected(column.dtype, window[r]) = window[r]
      BY <1>13, <2>3 DEF Expected
    <3> QED BY <3>2, <3>3, <3>4, <3>5, <3>6, <3>7
  <2> QED BY <1>2, <2>2, <2>3
<1> QED BY <1>1, <1>4, <1>5, <1>10, <1>11, <1>13, CopiedKeeps

-----------------------------------------------------------------------------
(* Doubles.                                                                *)

\* A column's offset and stride are its places.
LEMMA PlaceIs ==
  ASSUME Configured, Controlled, j <= Len(cols)
  PROVE  /\ Place[1] \in Nat /\ Place[2] \in Nat /\ Place[2] # 0
         /\ \A r \in 1 .. n : Place[1] + (r - 1) * Place[2] + 1 = At(j, r)
<1>1. n \in Nat /\ Len(cols) \in Nat /\ j \in 1 .. Len(cols)
  <2>1. Len(cols) \in Nat /\ j \in 1 .. Len(cols) + 1 /\ n \in 0 .. MaxRows
    BY DEF Configured, Controlled
  <2> QED BY <2>1, ConstantsAssumption
<1>2. CASE order = "fortran"
  <2>1. Place[1] = (j - 1) * n /\ Place[2] = 1 /\ \A r : At(j, r) = (j - 1) * n + r
    BY <1>2 DEF Place, At
  <2>2. (j - 1) * n \in Nat
    BY <1>1
  <2> QED BY <1>1, <2>1, <2>2
<1>3. CASE order # "fortran"
  <2>1. Place[1] = j - 1 /\ Place[2] = Len(cols) /\ \A r : At(j, r) = (r - 1) * Len(cols) + j
    BY <1>3 DEF Place, At
  <2>2. \A r \in 1 .. n : (r - 1) * Len(cols) \in Int
    BY <1>1
  <2>3. \A r \in 1 .. n : (j - 1) + (r - 1) * Len(cols) + 1 = (r - 1) * Len(cols) + j
    BY <1>1, <2>2
  <2> QED BY <1>1, <2>1, <2>3
<1> QED BY <1>2, <1>3

\* What `dataframe->f64vector` says of its destination holds.
LEMMA DoublesFit ==
  ASSUME Configured, Controlled, j <= Len(cols)
  PROVE  StridedFits(n * Len(cols), Place[1], Place[2])
<1>1. /\ Place[1] \in Nat /\ Place[2] \in Nat /\ Place[2] # 0
      /\ \A r \in 1 .. n : Place[1] + (r - 1) * Place[2] + 1 = At(j, r)
  BY PlaceIs
<1>2. n \in Nat /\ Len(cols) \in Nat /\ j \in 1 .. Len(cols) /\ Len(cols) * n <= UsizeMax /\ UsizeMax \in Nat
  <2>1. Len(cols) \in Nat /\ j \in 1 .. Len(cols) + 1 /\ n \in 0 .. MaxRows /\ Len(cols) * n <= MaxCells
    BY DEF Configured, Controlled
  <2> QED BY <2>1, ConstantsAssumption
<1>3. CASE n = 0
  BY <1>1, <1>3 DEF StridedFits
<1>4. CASE n # 0
  <2>1. n \in 1 .. n
    BY <1>2, <1>4
  <2>2. At(j, n) \in 1 .. n * Len(cols)
    BY <1>2, <2>1, PlacesAre
  <2>3. PICK offset, stride, cells : offset = Place[1] /\ stride = Place[2] /\ cells = n * Len(cols)
    OBVIOUS
  <2>4. offset + (n - 1) * stride + 1 = At(j, n)
    BY <1>1, <2>1, <2>3
  <2>5. cells = Len(cols) * n /\ cells \in Nat
    BY <1>2, <2>3
  <2>6. PICK last : last = (n - 1) * stride
    OBVIOUS
  <2>7. last \in Nat
    BY <1>1, <1>2, <1>4, <2>3, <2>6
  <2>8. last + offset + 1 <= cells
    BY <1>1, <2>2, <2>3, <2>4, <2>5, <2>6, <2>7
  <2>9. last <= UsizeMax /\ last + offset <= UsizeMax /\ last + offset < cells
    BY <1>1, <1>2, <2>3, <2>5, <2>7, <2>8
  <2>10. LastIndex(offset, stride) < cells
    BY <2>6, <2>9 DEF LastIndex
  <2> QED BY <1>1, <2>3, <2>10 DEF StridedFits
<1> QED BY <1>3, <1>4

\* A column without a null has n before its first one, and no other has.
LEMMA FirstNullIs ==
  ASSUME Configured, NEW c \in DOMAIN cols
  PROVE  FirstNull(c) < n <=> HasNulls(c)
<1>1. n \in Nat /\ DOMAIN cols[c].rows = 1 .. n
  BY ColumnIs, ConstantsAssumption DEF Configured
<1>2. CASE ~HasNulls(c)
  BY <1>1, <1>2 DEF FirstNull
<1>3. CASE HasNulls(c)
  <2> DEFINE T == {r \in 0 .. n - 1 : cols[c].rows[r + 1] = Null}
  <2>1. PICK q \in 1 .. n : cols[c].rows[q] = Null
    BY <1>1, <1>3 DEF HasNulls
  <2>2. q - 1 \in T
    BY <1>1, <2>1
  <2>3. T \subseteq Nat /\ T # {}
    <3>1. 0 .. n - 1 \subseteq Nat
      BY <1>1
    <3> QED BY <2>2, <3>1
  <2>4. \A r \in T : r \in 0 .. n - 1 /\ cols[c].rows[r + 1] = Null
    OBVIOUS
  <2>5. \A r \in 1 .. n : cols[c].rows[r] = Null => r - 1 \in T
    BY <1>1
  <2> HIDE DEF T
  <2>6. PICK k \in T : \A r \in T : k <= r
    BY <2>3, LeastNat
  <2>7. k \in 0 .. n - 1 /\ cols[c].rows[k + 1] = Null
    BY <2>4
  <2>8. ASSUME NEW r \in 1 .. k PROVE cols[c].rows[r] # Null
    <3>1. r \in 1 .. n /\ ~(k <= r - 1)
      BY <1>1, <2>7
    <3> QED BY <2>5, <2>6, <3>1
  <2>9. FirstNull(c) \in 0 .. n - 1
    BY <1>3, <2>7, <2>8 DEF FirstNull
  <2> QED BY <1>1, <1>3, <2>9
<1> QED BY <1>2, <1>3

LEMMA DoubleKeeps ==
  ASSUME IInv, Double
  PROVE  IInv'
<1>1. pc = "double" /\ form = "matrix"
  BY DEF Double, IInv, Controlled, Configured, Windowed
<1>2. Configured /\ Controlled /\ j <= Len(cols)
  BY <1>1 DEF IInv, Controlled
<1>3. StridedFits(n * Len(cols), Place[1], Place[2])
  BY <1>2, DoublesFit
<1>4. /\ PutStrided(Place[1], Place[2]) /\ UNCHANGED <<first, built, room, valid, buf, table>> /\ Calm
      /\ IF policy = "error" /\ FirstNull(j) < n THEN pc' = "raised" /\ UNCHANGED j
                                                 ELSE pc' = "column" /\ j' = j + 1
  BY <1>3 DEF Double
<1>5. UNCHANGED <<form, n, cols, size, order, policy, pos, block, got>>
  BY <1>4 DEF Calm, Fixed
<1>6. n \in Nat /\ Len(cols) \in Nat /\ j \in 1 .. Len(cols) /\ j \in DOMAIN cols /\ column = cols[j]
  <2>1. Len(cols) \in Nat /\ j \in 1 .. Len(cols) + 1 /\ n \in 0 .. MaxRows
    BY <1>2 DEF Configured, Controlled
  <2> QED BY <1>2, <2>1, WindowIs, ConstantsAssumption
<1>7. MatrixUpTo(j - 1) /\ room = 1 .. n * Len(cols)
  BY <1>1 DEF IInv, MatrixRight
<1> DEFINE new == {At(j, r) : r \in 1 .. n}
<1>8. PICK offset, stride : offset = Place[1] /\ stride = Place[2]
  OBVIOUS
<1>9. \A r \in 1 .. n : offset + (r - 1) * stride + 1 = At(j, r)
  BY <1>2, <1>8, PlaceIs
<1> DEFINE put == {offset + (k - 1) * stride + 1 : k \in 1 .. n}
<1>20. put = new
  BY <1>9
<1>21. mem' = [p \in DOMAIN mem \cup put |->
                 IF \E k \in 1 .. n : p = offset + (k - 1) * stride + 1
                 THEN column.rows[CHOOSE k \in 1 .. n : p = offset + (k - 1) * stride + 1]
                 ELSE mem[p]]
  BY <1>4, <1>8 DEF PutStrided
<1> HIDE DEF put
<1>22. \A c, d \in 1 .. Len(cols), r, s \in 1 .. n : At(c, r) = At(d, s) => c = d /\ r = s
  BY <1>2, PlacesAre
<1>10. \A r \in 1 .. n : mem'[At(j, r)] = column.rows[r]
  <2> SUFFICES ASSUME NEW r \in 1 .. n PROVE mem'[At(j, r)] = column.rows[r]
    OBVIOUS
  <2>1. PICK p : p = At(j, r)
    OBVIOUS
  <2>2. p = offset + (r - 1) * stride + 1
    BY <1>9, <2>1
  <2>3. p \in DOMAIN mem \cup put
    BY <1>20, <2>1
  <2>4. ASSUME NEW k \in 1 .. n, p = offset + (k - 1) * stride + 1 PROVE k = r
    <3>1. At(j, k) = At(j, r)
      BY <1>9, <2>1, <2>4
    <3> QED BY <1>6, <1>22, <3>1
  <2>5. (CHOOSE k \in 1 .. n : p = offset + (k - 1) * stride + 1) = r
    BY <2>2, <2>4
  <2> HIDE DEF new
  <2> QED BY <1>21, <2>1, <2>2, <2>3, <2>5
<1>11. \A c \in 1 .. j - 1, r \in 1 .. n : mem'[At(c, r)] = mem[At(c, r)]
  <2> SUFFICES ASSUME NEW c \in 1 .. j - 1, NEW r \in 1 .. n PROVE mem'[At(c, r)] = mem[At(c, r)]
    OBVIOUS
  <2>1. c \in 1 .. Len(cols) /\ c # j
    BY <1>6
  <2>2. PICK p : p = At(c, r)
    OBVIOUS
  <2>3. p \in DOMAIN mem
    BY <1>7, <2>2 DEF MatrixUpTo
  <2>4. ASSUME NEW k \in 1 .. n, p = offset + (k - 1) * stride + 1 PROVE FALSE
    <3>1. At(j, k) = At(c, r)
      BY <1>9, <2>2, <2>4
    <3> QED BY <1>6, <1>22, <2>1, <3>1
  <2> HIDE DEF new
  <2> QED BY <1>21, <2>2, <2>3, <2>4
<1>12. DOMAIN mem' = {At(c, r) : c \in 1 .. j, r \in 1 .. n}
  <2>1. DOMAIN mem' = DOMAIN mem \cup new
    <3> HIDE DEF new
    <3> QED BY <1>20, <1>21
  <2>2. DOMAIN mem = {At(c, r) : c \in 1 .. j - 1, r \in 1 .. n}
    BY <1>7 DEF MatrixUpTo
  <2>3. \A c : c \in 1 .. j <=> (c \in 1 .. j - 1 \/ c = j)
    BY <1>6
  <2> QED BY <2>1, <2>2, <2>3
<1>13. DOMAIN mem' \subseteq room'
  <2>1. \A c \in 1 .. j : c \in 1 .. Len(cols)
    BY <1>6
  <2>2. \A c \in 1 .. Len(cols), r \in 1 .. n : At(c, r) \in 1 .. n * Len(cols)
    BY <1>2, PlacesAre
  <2> QED BY <1>4, <1>7, <1>12, <2>1, <2>2
<1>14. pc' \in {"raised", "column"} /\ j' \in 1 .. Len(cols) + 1
  BY <1>4, <1>6
<1>15. Configured' /\ BlockRight'
  BY <1>1, <1>4, <1>14, CalmKeeps DEF IInv
<1>16. ~Copying' /\ ~Converting' /\ Windowed' = Windowed /\ ~Windowed
  BY <1>1, <1>5, <1>14 DEF Copying, Converting, Windowed
<1>17. Controlled'
  <2>1. UNCHANGED <<form, n, cols, pos, first, built, got>>
    BY <1>4, <1>5
  <2> QED BY <1>1, <1>14, <1>16, <2>1 DEF IInv, Controlled
<1>18. BuiltRight' /\ ValidRight' /\ RoomRight' /\ StageRight'
  BY <1>1, <1>4, <1>5, <1>13, <1>14, <1>16 DEF IInv, BuiltRight, ValidRight, RoomRight, StageRight
<1>19. MatrixRight'
  <2>1. CASE pc' = "raised"
    BY <1>1, <1>5, <2>1 DEF MatrixRight
  <2>2. CASE pc' = "column"
    <3>1. j' = j + 1 /\ j' - 1 = j /\ ~(policy = "error" /\ FirstNull(j) < n)
      BY <1>4, <1>6, <2>2
    <3>2. policy = "error" => \A r \in 1 .. n : column.rows[r] # Null
      BY <1>2, <1>6, <3>1, FirstNullIs, ColumnIs DEF HasNulls
    <3>3. \A c \in 1 .. j, r \in 1 .. n :
            /\ mem'[At(c, r)] = cols[c].rows[r]
            /\ policy = "error" => cols[c].rows[r] # Null
      <4> SUFFICES ASSUME NEW c \in 1 .. j, NEW r \in 1 .. n
                   PROVE  /\ mem'[At(c, r)] = cols[c].rows[r]
                          /\ policy = "error" => cols[c].rows[r] # Null
        OBVIOUS
      <4>1. CASE c = j
        BY <1>6, <1>10, <3>2, <4>1
      <4>2. CASE c # j
        <5>1. c \in 1 .. j - 1
          BY <1>6, <4>2
        <5> QED BY <1>7, <1>11, <5>1 DEF MatrixUpTo
      <4> QED BY <4>1, <4>2
    <3>4. PICK k : k = j
      OBVIOUS
    <3>5. \A c, r : At(c, r)' = At(c, r)
      BY <1>5 DEF At
    <3>6. MatrixUpTo(k)'
      BY <1>5, <1>12, <3>3, <3>4, <3>5 DEF MatrixUpTo
    <3> QED BY <1>1, <1>5, <2>2, <3>1, <3>4, <3>6 DEF MatrixRight
  <2> QED BY <1>14, <2>1, <2>2
<1> QED BY <1>15, <1>17, <1>18, <1>19 DEF IInv

\* A native copy as its tests call it writes within the destination it is told of.
LEMMA NativeKeeps ==
  ASSUME IInv, NEW length \in 0 .. UsizeMax, NEW offset \in 0 .. UsizeMax,
         NEW stride \in 0 .. UsizeMax, Native(length, offset, stride)
  PROVE  IInv'
<1>1. pc = "native" /\ form = "native"
  BY DEF Native, IInv, Controlled, Configured, Windowed
<1>2. n \in Nat /\ UsizeMax \in Nat /\ length \in Nat /\ offset \in Nat /\ stride \in Nat /\ length <= UsizeMax
  <2>1. n \in 0 .. MaxRows
    BY DEF IInv, Configured
  <2> QED BY <2>1, ConstantsAssumption
<1>3. Calm /\ UNCHANGED <<first, j, built, valid, buf, table>> /\ pc' \in {"done", "refused"}
  BY DEF Native, Refused
<1>4. UNCHANGED <<form, n, cols, size, order, policy, pos, block, got>>
  BY <1>3 DEF Calm, Fixed
<1>5. DOMAIN mem' \subseteq room'
  <2>1. DOMAIN mem = {}
    BY <1>1 DEF IInv, MatrixRight
  <2>2. CASE ~StridedFits(length, offset, stride)
    BY <2>1, <2>2 DEF Native, Refused
  <2>3. CASE StridedFits(length, offset, stride)
    <3>1. room' = 1 .. length /\ DOMAIN mem' = {offset + (k - 1) * stride + 1 : k \in 1 .. n}
      BY <2>1, <2>3 DEF Native, PutStrided
    <3>2. ASSUME NEW k \in 1 .. n PROVE offset + (k - 1) * stride + 1 \in 1 .. length
      <4>1. n # 0 /\ k - 1 \in Nat /\ k - 1 <= n - 1 /\ k - 1 \in Int /\ n - 1 \in Int
        BY <1>2
      <4>2. LastIndex(offset, stride) < length
        BY <2>3, <4>1 DEF StridedFits
      <4>3. PICK last, here : last = (n - 1) * stride /\ here = (k - 1) * stride
        OBVIOUS
      <4>4. last \in Nat /\ here \in Nat
        BY <1>2, <4>1, <4>3
      <4>5. here <= last
        <5>1. stride * (k - 1) <= stride * (n - 1)
          BY <1>2, <4>1, TimesGrows
        <5>2. stride * (k - 1) = (k - 1) * stride /\ stride * (n - 1) = (n - 1) * stride
          BY <1>2, <4>1
        <5> QED BY <4>3, <5>1, <5>2
      <4>6. last + offset < length
        <5>1. LastIndex(offset, stride) =
                IF last <= UsizeMax /\ last + offset <= UsizeMax THEN last + offset ELSE UsizeMax + 1
          BY <4>3 DEF LastIndex
        <5> QED BY <1>2, <4>2, <4>4, <5>1
      <4>7. offset + here + 1 \in 1 .. length
        BY <1>2, <4>4, <4>5, <4>6
      <4> QED BY <4>3, <4>7
    <3> QED BY <3>1, <3>2
  <2> QED BY <2>2, <2>3
<1>6. Configured' /\ BlockRight'
  BY <1>1, <1>3, CalmKeeps
<1>7. ~Copying' /\ ~Converting' /\ Windowed' = Windowed /\ ~Windowed
  BY <1>1, <1>3, <1>4 DEF Copying, Converting, Windowed
<1>8. Controlled'
  BY <1>1, <1>3, <1>4, <1>7 DEF IInv, Controlled
<1>9. BuiltRight' /\ ValidRight' /\ RoomRight' /\ StageRight' /\ MatrixRight'
  BY <1>1, <1>3, <1>4, <1>5, <1>7
  DEF IInv, BuiltRight, ValidRight, RoomRight, StageRight, MatrixRight
<1> QED BY <1>6, <1>8, <1>9 DEF IInv

-----------------------------------------------------------------------------
(* The invariant holds.                                                    *)

\* The invariant holds at first, and every step keeps it.
LEMMA InitIInv ==
  ASSUME Init
  PROVE  IInv
<1>1. MaxRows \in Nat /\ MaxCols \in Nat
  BY ConstantsAssumption
<1>2. /\ form \in {"list", "series", "frame", "matrix", "native"} /\ n \in 0 .. MaxRows
      /\ order \in {"fortran", "c"} /\ policy \in {"fill", "error"}
      /\ pos = 0 /\ first = 0 /\ block = None /\ got = None
      /\ j = 1 /\ built = <<>> /\ mem = <<>> /\ room = {} /\ valid = None /\ buf = None /\ table = <<>>
  BY DEF Init
<1>3. pc = CASE form \in {"series", "frame"} -> "idle"
             [] form = "native"             -> "native"
             [] OTHER                       -> "column"
  BY DEF Init
<1>4. PICK k \in 0 .. MaxCols : /\ k * n <= MaxCells /\ (form \in {"series", "native"} => k = 1)
                                /\ cols \in [1 .. k -> Columns]
  BY DEF Init
<1>5. Len(cols) = k /\ DOMAIN cols = 1 .. k /\ k \in Nat /\ \A c \in DOMAIN cols : cols[c] \in Columns
  <2>1. k \in Nat
    BY <1>1
  <2> QED BY <1>4, <2>1
<1>6. size \in 0 .. MaxRows /\ (Windowed => size >= 1)
  BY <1>1 DEF Init, Windowed
<1>7. Configured
  BY <1>2, <1>4, <1>5, <1>6 DEF Init, Configured
<1>8. /\ ~Copying /\ pc # "double" /\ pc \notin {"size", "names", "done", "too early"} /\ ~(Windowed /\ Converting)
      /\ form = "native" => pc = "native"
      /\ form \in {"list", "matrix"} => pc = "column"
      /\ Windowed => pc = "idle"
      /\ form # "frame" \/ ~Converting
  BY <1>2, <1>3 DEF Windowed, Converting, Copying
<1>9. Controlled
  <2>1. 0 \in 0 .. n /\ 0 \in 0 .. 0 /\ 1 \in 1 .. Len(cols) + 1 /\ Len(<<>>) <= Len(cols)
    BY <1>1, <1>2, <1>5
  <2>2. pos \in 0 .. n /\ first \in 0 .. pos /\ pos = 0 /\ j \in 1 .. Len(cols) + 1 /\ Len(built) <= Len(cols)
    <3>1. 0 \in 0 .. n
      BY <1>1, <1>2
    <3> QED BY <1>2, <2>1, <3>1
  <2>3. pc # "copy" /\ pc \notin {"size", "names"} /\ got = None
    BY <1>2, <1>8 DEF Copying
  <2> QED BY <1>8, <2>2, <2>3 DEF Controlled
<1>10. BuiltRight
  BY <1>2 DEF BuiltRight
<1>11. BlockRight
  BY <1>2, <1>8 DEF BlockRight
<1>12. ValidRight /\ RoomRight /\ StageRight
  <2>1. ValidRight
    BY <1>2, <1>8 DEF ValidRight
  <2>2. DOMAIN mem \subseteq room
    BY <1>2
  <2>3. RoomRight
    BY <1>8, <2>2 DEF RoomRight
  <2>4. pc # "collect"
    BY <1>8 DEF Copying
  <2>5. StageRight
    BY <1>8, <2>4 DEF StageRight
  <2> QED BY <2>1, <2>3, <2>5
<1>13. MatrixUpTo(0)
  BY <1>2 DEF MatrixUpTo
<1>14. MatrixRight
  <2>1. j - 1 = 0 /\ DOMAIN mem = {}
    BY <1>2
  <2> QED BY <1>8, <1>13, <2>1 DEF MatrixRight
<1> QED BY <1>7, <1>9, <1>10, <1>11, <1>12, <1>14 DEF IInv

LEMMA NextIInv ==
  ASSUME IInv, Next
  PROVE  IInv'
<1>1. ASSUME NEW i \in 0 .. pos, Hit(i) PROVE IInv'
  BY <1>1, HitKeeps
<1>2. ASSUME NEW i \in 0 .. pos, Miss(i) PROVE IInv'
  BY <1>2, MissKeeps
<1>3. ASSUME NEW length \in 0 .. UsizeMax, NEW offset \in 0 .. UsizeMax, NEW stride \in 0 .. UsizeMax,
             Native(length, offset, stride)
      PROVE  IInv'
  BY <1>3, NativeKeeps
<1> QED BY <1>1, <1>2, <1>3, ColumnKeeps, DeliverKeeps, FailsKeeps, ResumeKeeps, CopyPhysicalKeeps,
           CopyZonedKeeps, CopyDecimalKeeps, CopyCatKeeps, SizeStringsKeeps, CopyStringsKeeps,
           CollectKeeps, DoubleKeeps, FinishKeeps
        DEF Next

LEMMA StutterIInv ==
  ASSUME IInv, UNCHANGED vars
  PROVE  IInv'
<1>1. UNCHANGED <<form, n, cols, size, order, policy, pos, first, block, pc, j, built, mem, room,
                  valid, buf, table, got>>
  BY DEF vars
<1>2. Fixed /\ Calm
  BY <1>1 DEF Fixed, Calm
<1>3. Configured'
  BY <1>2, FixedKeeps DEF IInv
<1>4. /\ count' = count /\ column' = column /\ window' = window /\ OwnBytes' = OwnBytes
      /\ Windowed' = Windowed /\ HasNulls(j)' = HasNulls(j) /\ \A c : RowsOf(c)' = RowsOf(c)
      /\ Strings' = Strings /\ Lengths' = Lengths /\ Names' = Names
  BY <1>1, <1>2, SameWindow, SameColumn, SameStrings
<1>5. (Copying' <=> Copying) /\ (Converting' <=> Converting) /\ (ValidWritten' <=> ValidWritten)
  BY <1>1, <1>4 DEF Copying, Converting, ValidWritten
<1>6. Controlled' /\ BuiltRight' /\ BlockRight'
  <2>1. Controlled'
    BY <1>1, <1>4, <1>5 DEF IInv, Controlled
  <2>2. BuiltRight'
    BY <1>1, <1>4, <1>5 DEF IInv, BuiltRight
  <2>3. BlockRight'
    BY <1>1, <1>4 DEF IInv, BlockRight
  <2> QED BY <2>1, <2>2, <2>3
<1>7. ValidRight' /\ RoomRight'
  BY <1>1, <1>4, <1>5 DEF IInv, ValidRight, RoomRight, Apart
<1>8. StageRight'
  <2>1. CodesRight' <=> CodesRight
    BY <1>1, <1>4 DEF CodesRight
  <2>2. Ends(Len(Strings))' = Ends(Len(Strings))
    BY <1>4 DEF Ends
  <2>3. \A i : Element(i)' = Element(i)
    <3>1. \A i : StringAt(i)' = StringAt(i)
      BY <1>1, <1>4 DEF StringAt
    <3> QED BY <1>1, <1>4, <3>1 DEF Element
  <2>4. ElementsRight' <=> ElementsRight
    BY <1>4, <2>3 DEF ElementsRight
  <2> QED BY <1>1, <1>4, <2>1, <2>2, <2>4 DEF IInv, StageRight
<1>9. MatrixRight'
  <2>1. PICK k : k = j - 1
    OBVIOUS
  <2>2. MatrixUpTo(k)' = MatrixUpTo(k)
    BY <1>1, MatrixSame
  <2> QED BY <1>1, <2>1, <2>2 DEF IInv, MatrixRight
<1> QED BY <1>3, <1>6, <1>7, <1>8, <1>9 DEF IInv

\* Every reachable state satisfies the inductive invariant, whatever Resumes.
THEOREM SpecKeepsIInv ==
  Spec => []IInv
<1>1. Init => IInv
  BY InitIInv
<1>2. IInv /\ [Next]_vars => IInv'
  BY NextIInv, StutterIInv
<1> QED BY <1>1, <1>2, PTL DEF Spec

-----------------------------------------------------------------------------
(* The properties.                                                         *)

\* The module's state keeps its types.
THEOREM RowReadsAreTyped ==
  Spec => []TypeOK
<1>1. ASSUME IInv PROVE TypeOK
  <2>1. Configured /\ Controlled
    BY <1>1 DEF IInv
  <2>2. first \in 0 .. n /\ pos \in 0 .. n
    BY <2>1, CountIs
  <2>3. pc \in {"idle", "column", "copy", "size", "names", "collect", "double", "native",
                "raised", "too early", "refused", "done"}
    BY <2>1 DEF Configured, Controlled, Windowed
  <2>4. (valid = None \/ valid \in Seq({0, 1})) /\ (block = None \/ DOMAIN block = DOMAIN cols)
    BY <1>1 DEF IInv, ValidRight, BlockRight
  <2> QED BY <2>1, <2>2, <2>3, <2>4 DEF TypeOK, Configured, Controlled
<1> QED BY <1>1, SpecKeepsIInv, PTL

\* Whatever the window, the dtypes and the nulls, every row that an iteration
\* yields and every list that is returned is the frame's, unless a consumer
\* goes on after a later window's conversion raised.
THEOREM RowsReadRight ==
  ASSUME ~Resumes
  PROVE  Spec => []RightRow
<1>1. ASSUME IInv PROVE RightRow
  <2>1. got # None =>
          got[2] = [c \in DOMAIN cols |-> Expected(cols[c].dtype, cols[c].rows[got[1] + 1])]
    BY <1>1 DEF IInv, BlockRight
  <2>2. ASSUME form = "list", pc = "done"
        PROVE  block = [c \in DOMAIN cols |-> [r \in 1 .. n |-> Expected(cols[c].dtype, cols[c].rows[r])]]
    <3>1. block = [c \in DOMAIN cols |-> RowsOf(c)]
      BY <1>1, <2>2 DEF IInv, BlockRight
    <3>2. ~Windowed /\ n \in Nat
      BY <1>1, <2>2, CountIs DEF IInv, Windowed
    <3>3. first = 0 /\ count = n
      BY <1>1, <3>2, CountIs DEF IInv
    <3>4. \A c : RowsOf(c) = [r \in 1 .. n |-> Expected(cols[c].dtype, cols[c].rows[r])]
      BY <3>2, <3>3 DEF RowsOf
    <3> QED BY <3>1, <3>4
  <2> QED BY <2>1, <2>2 DEF RightRow
<1> QED BY <1>1, SpecKeepsIInv, PTL

\* A loop never trips over the end of a block, under the same proviso.
THEOREM NextIsReadable ==
  ASSUME ~Resumes
  PROVE  Spec => []NextReadable
<1>1. ASSUME IInv PROVE NextReadable
  <2> SUFFICES ASSUME pc = "idle", pos < n, pos - first < Held, NEW c \in DOMAIN block
               PROVE  pos - first \in 0 .. Len(block[c]) - 1
    BY DEF NextReadable
  <2>1. /\ Configured /\ Controlled /\ n \in Nat /\ pos \in 0 .. n /\ first \in 0 .. pos
        /\ count \in 0 .. n /\ first + count \in 0 .. n
    BY <1>1, CountIs DEF IInv, Controlled
  <2>2. Windowed
    BY <2>1 DEF Configured, Controlled, Windowed
  <2>3. count \in Nat /\ (count = size \/ first + count = n)
    BY <2>1, <2>2, CountIs
  <2>4. block # None
    <3>1. ASSUME block = None PROVE FALSE
      <4>1. pos = 0 /\ Held = 0
        BY <1>1, <3>1 DEF IInv, BlockRight, Held
      <4> QED BY <2>1, <4>1
    <3> QED BY <3>1
  <2>5. block = [d \in DOMAIN cols |-> RowsOf(d)]
    BY <1>1, <2>4 DEF IInv, BlockRight
  <2>6. \A d \in DOMAIN cols : Len(block[d]) = count
    BY <2>1, <2>5, RowsAreABlock
  <2>7. pos - first < count
    <3>1. CASE form = "frame"
      <4>1. Held = size
        BY <2>4, <3>1 DEF Held
      <4> QED BY <2>1, <2>3, <4>1
    <3>2. CASE form # "frame"
      <4>1. 1 \in DOMAIN cols
        BY <2>1, <2>2, <3>2 DEF Configured, Windowed
      <4>2. Held = count
        BY <2>4, <2>6, <3>2, <4>1 DEF Held
      <4> QED BY <4>2
    <3> QED BY <3>1, <3>2
  <2>8. Len(block[c]) = count
    BY <2>5, <2>6
  <2> QED BY <2>1, <2>3, <2>7, <2>8
<1> QED BY <1>1, SpecKeepsIInv, PTL

\* Every native copy writes only what is allocated, though the columns of a
\* window share one scratch buffer, and what the Racket side says of its
\* buffers is never refused: whether or not a consumer resumes.
THEOREM BuffersAlwaysFit ==
  Spec => []BuffersFit
<1>1. ASSUME IInv PROVE BuffersFit
  BY <1>1 DEF IInv, RoomRight, Controlled, Configured, Windowed, BuffersFit
<1> QED BY <1>1, SpecKeepsIInv, PTL

\* A finished matrix has every entry at its place in either order, has no
\* other, and has no null if nulls are errors.
THEOREM MatricesAreWhole ==
  Spec => []MatrixWhole
<1>1. ASSUME IInv PROVE MatrixWhole
  <2> SUFFICES ASSUME form = "matrix", pc = "done"
               PROVE  /\ DOMAIN mem = 1 .. n * Len(cols)
                      /\ \A c \in DOMAIN cols, r \in 1 .. n :
                           /\ mem[At(c, r)] = cols[c].rows[r]
                           /\ policy = "error" => cols[c].rows[r] # Null
    BY DEF MatrixWhole, At
  <2>1. Configured /\ j = Len(cols) + 1 /\ MatrixUpTo(j - 1)
    BY <1>1 DEF IInv, MatrixRight
  <2>2. j - 1 = Len(cols) /\ DOMAIN cols = 1 .. Len(cols)
    BY <2>1 DEF Configured
  <2>3. /\ DOMAIN mem = {At(c, r) : c \in 1 .. Len(cols), r \in 1 .. n}
        /\ \A c \in 1 .. Len(cols), r \in 1 .. n :
             /\ mem[At(c, r)] = cols[c].rows[r]
             /\ policy = "error" => cols[c].rows[r] # Null
    BY <2>1, <2>2 DEF MatrixUpTo
  <2>4. DOMAIN mem = 1 .. n * Len(cols)
    BY <2>1, <2>3, PlacesAre
  <2> QED BY <2>2, <2>3, <2>4
<1> QED BY <1>1, SpecKeepsIInv, PTL
=============================================================================
