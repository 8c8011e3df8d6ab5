--------------------------------- MODULE Quant ---------------------------------
(***************************************************************************)
(* The weight formats: what each of the walks in the code makes of the     *)
(* bytes of one block.  Four of them read a block:                         *)
(*   Elem      an element at a time, kernels.cpp (elem_at);                *)
(*   Unit      32 elements at a time, kernels.cpp (unit_acc);              *)
(*   Expanded  the whole block in file order, reference.rs (dequant);      *)
(*   Dot       the whole block against x, host_experts.rs (dot_row).       *)
(* A byte is the eight bits of it, a number the addresses of its bits, low *)
(* bit first: what is compared is which bits make an element, not what     *)
(* they are worth.  A weight is                                            *)
(*   d * sc * (q - less) - dmin * min.                                     *)
(* The half floats and the powers of two are modelled at the end, the half *)
(* floats with fewer bits.                                                 *)
(***************************************************************************)
EXTENDS Integers, FiniteSets, SequencesExt

CONSTANTS
  HalfExp, HalfMant,     \* bits of the exponent and of the mantissa of an f16: 5, 10
  FloatExp, FloatMant    \* and of an f32: 8, 23

QK_K == 256
QK8_0 == 32
QK_MXFP4 == 32
KQuants == {"q4_k", "q5_k", "q6_k"}
Types == KQuants \cup {"f32", "f16", "q8_0", "mxfp4"}

BlockBytes(type) ==
  CASE type = "f32" -> 4 [] type = "f16" -> 2 [] type = "q8_0" -> 2 + QK8_0
    [] type = "q4_k" -> 144 [] type = "q5_k" -> 176 [] type = "q6_k" -> 210
    [] type = "mxfp4" -> 1 + QK_MXFP4 \div 2
BlockElems(type) ==
  CASE type \in {"f32", "f16"} -> 1 [] type = "q8_0" -> QK8_0
    [] type = "mxfp4" -> QK_MXFP4 [] OTHER -> QK_K

\* n bits of a byte from bit lo on; whole bytes; a nibble.
Bits(byte, lo, n) == [k \in 1 .. n |-> 8 * byte + lo + k - 1]
Word(byte, bytes) == Bits(byte, 0, 8 * bytes)
Nibble(byte, high) == Bits(byte, IF high THEN 4 ELSE 0, 4)

Scaled(d, sc, q, less) ==
  [d |-> d, sc |-> sc, q |-> q, less |-> less, dmin |-> <<>>, min |-> <<>>]
Shifted(w, dmin, min) == [w EXCEPT !.dmin = dmin, !.min = min]

-----------------------------------------------------------------------------
(* What the walks share: the offsets of a block, and the eight 6-bit       *)
(* scales and eight 6-bit minima that twelve bytes hold.                   *)
ScaleMin(j) ==
  IF j < 4
  THEN [d |-> Bits(4 + j, 0, 6), m |-> Bits(4 + j + 4, 0, 6)]
  ELSE [d |-> Bits(4 + j + 4, 0, 4) \o Bits(4 + j - 4, 6, 2),
        m |-> Bits(4 + j + 4, 4, 4) \o Bits(4 + j, 6, 2)]
Affine(sub, q) == Shifted(Scaled(Word(0, 2), ScaleMin(sub).d, q, 0), Word(2, 2), ScaleMin(sub).m)
SixBit(sc, q) == Scaled(Word(208, 2), Word(192 + sc, 1), q, 32)

(* elem_at: element i of a block.                                          *)
Q4kElem(i) ==
  LET sub == i \div 32  n == sub \div 2
  IN Affine(sub, Nibble(16 + n * 32 + (i % 32), sub % 2 = 1))
Q5kElem(i) ==
  LET sub == i \div 32  n == sub \div 2  half == sub % 2  l == i % 32
  IN Affine(sub, Nibble(48 + n * 32 + l, half = 1) \o Bits(16 + l, 2 * n + half, 1))
Q6kElem(i) ==
  LET n == i \div 128  k == (i % 128) \div 32  l == i % 32
  IN SixBit(n * 8 + 2 * k + l \div 16,
            Nibble(n * 64 + (k % 2) * 32 + l, k >= 2) \o Bits(128 + n * 32 + l, 2 * k, 2))
Mxfp4Elem(i) == Scaled(Word(0, 1), <<>>, Nibble(1 + (i % 16), i >= 16), 0)
Q80Elem(i) == Scaled(Word(0, 2), <<>>, Word(2 + i, 1), 0)

Elem(type, i) ==
  CASE type = "q4_k" -> Q4kElem(i) [] type = "q5_k" -> Q5kElem(i)
    [] type = "q6_k" -> Q6kElem(i) [] type = "mxfp4" -> Mxfp4Elem(i)
    [] type = "q8_0" -> Q80Elem(i)
    [] OTHER -> Scaled(<<>>, <<>>, Word(0, BlockBytes(type)), 0)

(* unit_acc: what unit sub of a block adds up, as pairs of an activation's *)
(* place in the unit and the weight it is multiplied by.                   *)
UnitsPerBlock(type) == IF type \in {"q8_0", "mxfp4"} THEN 1 ELSE QK_K \div 32

Q4kUnit(sub) ==
  {<<l, Affine(sub, Nibble(16 + (sub \div 2) * 32 + l, sub % 2 = 1))>> : l \in 0 .. 31}
Q5kUnit(sub) ==
  {<<l, Affine(sub, Nibble(48 + (sub \div 2) * 32 + l, sub % 2 = 1) \o Bits(16 + l, sub, 1))>> :
     l \in 0 .. 31}
Q6kUnit(sub) ==
  LET n == sub \div 4  k == sub % 4
  IN UNION {{<<l, SixBit(n * 8 + 2 * k + half,
                         Nibble(n * 64 + (k % 2) * 32 + l, k >= 2)
                           \o Bits(128 + n * 32 + l, 2 * k, 2))>> :
               l \in half * 16 .. half * 16 + 15} : half \in 0 .. 1}
Halves(l) ==
  {<<l, Scaled(Word(0, 1), <<>>, Nibble(1 + l, FALSE), 0)>>,
   <<l + 16, Scaled(Word(0, 1), <<>>, Nibble(1 + l, TRUE), 0)>>}
Unit(type, sub) ==
  CASE type = "q4_k" -> Q4kUnit(sub) [] type = "q5_k" -> Q5kUnit(sub)
    [] type = "q6_k" -> Q6kUnit(sub) [] type = "mxfp4" -> UNION {Halves(l) : l \in 0 .. 15}
    [] type = "q8_0" -> {<<l, Scaled(Word(0, 2), <<>>, Word(2 + l, 1), 0)>> : l \in 0 .. 31}

(* dequant: a block in the order it is written.  The K-quants of four and  *)
(* five bits are written through a cursor, in passes of 64 elements.       *)
Pass4(p) ==
  [l \in 1 .. 32 |-> Affine(2 * p, Nibble(16 + 32 * p + l - 1, FALSE))]
    \o [l \in 1 .. 32 |-> Affine(2 * p + 1, Nibble(16 + 32 * p + l - 1, TRUE))]
Pass5(p) ==
  [l \in 1 .. 32 |->
     Affine(2 * p, Nibble(48 + 32 * p + l - 1, FALSE) \o Bits(16 + l - 1, 2 * p, 1))]
    \o [l \in 1 .. 32 |->
     Affine(2 * p + 1, Nibble(48 + 32 * p + l - 1, TRUE) \o Bits(16 + l - 1, 2 * p + 1, 1))]
InOrder(passes) ==
  LET all == FlattenSeq(passes) IN {<<w - 1, all[w]>> : w \in DOMAIN all}
Strips(n, l) ==
  {<<n * 128 + l + 32 * k,
     SixBit(n * 8 + l \div 16 + 2 * k,
            Nibble(n * 64 + l + 32 * (k % 2), k >= 2) \o Bits(128 + n * 32 + l, 2 * k, 2))>> :
     k \in 0 .. 3}
Expanded(type) ==
  CASE type = "q4_k" -> InOrder([p \in 1 .. 4 |-> Pass4(p - 1)])
    [] type = "q5_k" -> InOrder([p \in 1 .. 4 |-> Pass5(p - 1)])
    [] type = "q6_k" -> UNION {Strips(n, l) : n \in 0 .. 1, l \in 0 .. 31}
    [] type = "mxfp4" -> UNION {Halves(j) : j \in 0 .. 15}
    [] type = "q8_0" -> {<<j, Scaled(Word(0, 2), <<>>, Word(2 + j, 1), 0)>> : j \in 0 .. 31}
    [] OTHER -> {<<0, Scaled(<<>>, <<>>, Word(0, BlockBytes(type)), 0)>>}

(* dot_row: the formats the host multiplies.  A minimum is taken out of    *)
(* the inner loop, times the sum of the activations of its group of 32.    *)
HostTypes == {"q4_k", "q6_k", "mxfp4"}
GroupSums(g) == 32 * g .. 32 * g + 31
Products(j, c, l) ==
  LET i == 8 * c + l
  IN {<<64 * j + i, Scaled(Word(0, 2), ScaleMin(2 * j).d, Nibble(16 + j * 32 + i, FALSE), 0)>>,
      <<64 * j + 32 + i,
        Scaled(Word(0, 2), ScaleMin(2 * j + 1).d, Nibble(16 + j * 32 + i, TRUE), 0)>>}
Minima(g) == {<<i, Word(2, 2), ScaleMin(g).m>> : i \in GroupSums(g)}
DotQ4k ==
  LET plus == UNION {Products(j, c, l) : j \in 0 .. 3, c \in 0 .. 3, l \in 0 .. 7}
      minus == UNION {Minima(g) : g \in 0 .. 7}
  IN {<<tm[1][1], Shifted(tm[1][2], tm[2][2], tm[2][3])>> :
        tm \in {both \in plus \X minus : both[1][1] = both[2][1]}}
Strip(n, half, c, l) ==
  LET i == half * 16 + c * 8 + l
  IN {<<n * 128 + i + 32 * k,
        SixBit(n * 8 + half + 2 * k,
               Nibble(n * 64 + i + 32 * (k % 2), k >= 2) \o Bits(128 + n * 32 + i, 2 * k, 2))>> :
        k \in 0 .. 3}
Dot(type) ==
  CASE type = "q4_k" -> DotQ4k
    [] type = "q6_k" ->
         UNION {Strip(n, half, c, l) : n \in 0 .. 1, half \in 0 .. 1, c \in 0 .. 1, l \in 0 .. 7}
    [] type = "mxfp4" -> UNION {Halves(l) : l \in 0 .. 15}

-----------------------------------------------------------------------------
(* Half floats, scaled down: [e, m] are the exponent and the mantissa, the *)
(* sign is carried along and left out.                                     *)
Ones(bits) == 2^bits - 1
BiasOf(exp) == 2^(exp - 1) - 1
Rebias == BiasOf(FloatExp) - BiasOf(HalfExp)
Narrower == FloatMant - HalfMant
Halfs == [e : 0 .. Ones(HalfExp), m : 0 .. Ones(HalfMant)]
Floats == [e : 0 .. Ones(FloatExp), m : 0 .. Ones(FloatMant)]
IsNan(x, exp) == x.e = Ones(exp) /\ x.m # 0

\* How often a subnormal's mantissa is shifted until the implicit bit appears.
Shifts(m) == CHOOSE k \in 0 .. HalfMant : m * 2^k \in 2^HalfMant .. 2^(HalfMant + 1) - 1

F16ToF32(h) ==
  IF h.e = 0 /\ h.m = 0 THEN [e |-> 0, m |-> 0]
  ELSE IF h.e = 0
  THEN [e |-> Rebias + 1 - Shifts(h.m),
        m |-> (h.m * 2^Shifts(h.m) - 2^HalfMant) * 2^Narrower]
  ELSE IF h.e = Ones(HalfExp) THEN [e |-> Ones(FloatExp), m |-> h.m * 2^Narrower]
  ELSE [e |-> h.e + Rebias, m |-> h.m * 2^Narrower]

\* Of mant, the bits from shift on, and one more when the rest says so.
RoundsUp(rest, half, t) == rest > half \/ (rest = half /\ t % 2 = 1)
Rounded(mant, shift) ==
  LET t == mant \div 2^shift
  IN IF RoundsUp(mant % (2^shift), 2^(shift - 1), t) THEN t + 1 ELSE t

Infinity == [e |-> Ones(HalfExp), m |-> 0]
Assembled(e, t) ==
  IF t = 2^HalfMant
  THEN IF e + 1 >= Ones(HalfExp) THEN Infinity ELSE [e |-> e + 1, m |-> 0]
  ELSE [e |-> e, m |-> t]
Quiet(m) == 2^(HalfMant - 1) + ((m \div 2^Narrower) % (2^(HalfMant - 1)))

F32ToF16(f) ==
  LET exp == f.e - Rebias IN
  IF IsNan(f, FloatExp) THEN [e |-> Ones(HalfExp), m |-> Quiet(f.m)]
  ELSE IF exp >= Ones(HalfExp) THEN Infinity
  ELSE IF exp < -HalfMant THEN [e |-> 0, m |-> 0]
  ELSE IF exp <= 0
  THEN Assembled(0, Rounded(f.m + 2^FloatMant, Narrower + 1 - exp))
  ELSE Assembled(exp, Rounded(f.m, Narrower))

\* What a float is worth, in units of the smallest f32.
Worth(x, exp, mant) == IF x.e = 0 THEN x.m ELSE (x.m + 2^mant) * 2^(x.e - 1)
WorthOfHalf(h) == Worth(h, HalfExp, HalfMant) * 2^(Rebias + Narrower)
WorthOfFloat(f) == Worth(f, FloatExp, FloatMant)

(* MXFP4's scale, an f32 with its real widths, and its codes.              *)
E8m0Half(x) == IF x < 2 THEN [e |-> 0, m |-> 2^(21 + x)] ELSE [e |-> x - 1, m |-> 0]
Log2(f) ==
  IF f.e = 0 THEN (CHOOSE k \in 0 .. 22 : 2^k = f.m) - 149 ELSE f.e - 127
Kvalues == <<0, 1, 2, 3, 4, 6, 8, 12, 0, -1, -2, -3, -4, -6, -8, -12>>
\* Twice the value of an E2M1 code: a sign, two bits of exponent, one of mantissa.
TwiceE2m1(code) ==
  LET e == (code % 8) \div 2  m == code % 2
      v == IF e = 0 THEN m ELSE (2 + m) * 2^(e - 1)
  IN IF code >= 8 THEN -v ELSE v

-----------------------------------------------------------------------------
(* Every walk over a block makes the same weight of the same bits, and     *)
(* multiplies it by the same activation: the kernel that takes an element, *)
(* the one that takes 32, the reference both are tested against, and the   *)
(* host's own products.                                                    *)
WalksAgree(type) ==
  LET elems == {<<i, Elem(type, i)>> : i \in 0 .. BlockElems(type) - 1}
      units == UNION {{<<32 * sub + t[1], t[2]>> : t \in Unit(type, sub)} :
                        sub \in 0 .. UnitsPerBlock(type) - 1}
  IN /\ elems = Expanded(type)
     /\ type \notin {"f32", "f16"} => elems = units
     /\ type \in HostTypes => elems = Dot(type)

\* A block has no bit to spare, no two elements have a bit of a quant in common, and no
\* number has a bit in common with another.
Apart(s, t) == s = t \/ Range(s) \cap Range(t) = {}
Packed(type) ==
  LET E == {Elem(type, i) : i \in 0 .. BlockElems(type) - 1}
      quants == {w.q : w \in E}
      rest == UNION {{w.d, w.sc, w.dmin, w.min} : w \in E}
  IN /\ Cardinality(quants) = BlockElems(type)
     /\ \A s, t \in quants \cup rest : Apart(s, t)
     /\ UNION {Range(s) : s \in quants \cup rest} = 0 .. 8 * BlockBytes(type) - 1

\* A half float is widened exactly, and an f32 becomes the nearest half float, of two as
\* near the even one; a NaN stays one.
Distance(h, f) ==
  LET a == WorthOfHalf(h)  b == WorthOfFloat(f) IN IF a < b THEN b - a ELSE a - b
Nearest(h, f) ==
  \A g \in {x \in Halfs : ~IsNan(x, HalfExp)} \ {h} :
    \/ Distance(h, f) < Distance(g, f)
    \/ Distance(h, f) = Distance(g, f) /\ h.m % 2 = 0
Widened(h) ==
  IF IsNan(h, HalfExp) THEN IsNan(F16ToF32(h), FloatExp)
  ELSE /\ h.e < Ones(HalfExp) => WorthOfFloat(F16ToF32(h)) = WorthOfHalf(h)
       /\ F32ToF16(F16ToF32(h)) = h
Narrowed(f) ==
  IF IsNan(f, FloatExp) THEN IsNan(F32ToF16(f), HalfExp) ELSE Nearest(F32ToF16(f), f)

\* The scale of an MXFP4 block is half the one its byte names, and its codes are doubled.
Halved(x) == Log2(E8m0Half(x)) = x - 128
Doubled(code) == Kvalues[code + 1] = TwiceE2m1(code)
=============================================================================
