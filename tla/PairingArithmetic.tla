-------------------------- MODULE PairingArithmetic -------------------------
(*****************************************************************************)
(* The arithmetic under the on-chain proof check: limbs, points of the       *)
(* curve, the extension field and points of the twist.                       *)
(*****************************************************************************)
EXTENDS Integers, Sequences, FiniteSets, FiniteSetsExt, SequencesExt

-----------------------------------------------------------------------------
(***************************************************************************)
(* contracts/zk_verifier/src/curve.rs, U256 and the modular arithmetic on  *)
(* it.  A number is a sequence of limbs, the least significant first; the  *)
(* code has 4 limbs of 64 bits, here both are parameters.  The arithmetic  *)
(* that drops a carry, a borrow or a shifted-out bit is the code's: what   *)
(* it computes is compared with arithmetic on the numbers themselves.      *)
(***************************************************************************)

CONSTANTS
    Limbs,      \* 4 in the code
    Bits,       \* 64
    Moduli      \* the moduli, as numbers

VARIABLES
    limbA, limbB, limbM,    \* the operands and the modulus, as limbs
    given       \* they have been chosen

limbVars == <<limbA, limbB, limbM, given>>

Base == 2 ^ Bits
Width == Limbs * Bits
LimbPos == 1 .. Limbs
U == [LimbPos -> 0 .. Base - 1]

\* Sum of limbs * Base^(i-1) of a number of any length.
Value(x) ==
    LET v[i \in 0 .. Len(x)] == IF i = 0 THEN 0 ELSE v[i - 1] + x[i] * Base ^ (i - 1) IN v[Len(x)]
ToLimbs(n) == [i \in LimbPos |-> (n \div Base ^ (i - 1)) % Base]

LimbZero == [i \in LimbPos |-> 0]
FromU64(v) == [i \in LimbPos |-> IF i = 1 THEN v ELSE 0]

-----------------------------------------------------------------------------
\* Ord::cmp, as x < y: the most significant limb that differs decides.
LimbLess(x, y) == \E i \in LimbPos : x[i] < y[i] /\ \A j \in LimbPos : j > i => x[j] = y[j]

\* bit_length and bit
Bit(x, i) == i < Width /\ (x[i \div Bits + 1] \div 2 ^ (i % Bits)) % 2 = 1
LimbBitLength(x) ==
    IF x = LimbZero THEN 0
    ELSE 1 + CHOOSE i \in 0 .. Width - 1 : Bit(x, i) /\ \A j \in i + 1 .. Width - 1 : ~Bit(x, j)

\* sub_borrow: limb by limb; a limb borrows when either of its two
\* subtractions wraps.
SubBorrow(x, y) ==
    LET br[i \in 0 .. Limbs] == IF i = 0 THEN 0 ELSE IF x[i] < y[i] + br[i - 1] THEN 1 ELSE 0
    IN  [out |-> [i \in LimbPos |-> (x[i] - y[i] - br[i - 1] + 2 * Base) % Base], flag |-> br[Limbs] = 1]

\* add_carry
AddCarry(x, y) ==
    LET ca[i \in 0 .. Limbs] == IF i = 0 THEN 0 ELSE (x[i] + y[i] + ca[i - 1]) \div Base
    IN  [out |-> [i \in LimbPos |-> (x[i] + y[i] + ca[i - 1]) % Base], flag |-> ca[Limbs] = 1]

\* shl1_u256: the shifted number and the bit shifted out.
Shl1(x) ==
    [out |-> [i \in LimbPos |-> ((2 * x[i]) % Base) + (IF i = 1 THEN 0 ELSE x[i - 1] \div (Base \div 2))],
     flag |-> x[Limbs] >= Base \div 2]

\* mul_wide: schoolbook rows, each added into the accumulator with its carry
\* and the carry then rippled past the row.
Row(acc, i, x, y) ==
    LET st[j \in 0 .. 2 * Limbs] ==     \* after position j: the accumulator and the carry
            IF j < i THEN [acc |-> acc, carry |-> 0]
            ELSE LET old == st[j - 1]
                     k == j - i + 1
                     s == old.acc[j] + old.carry + (IF k \in LimbPos THEN x[i] * y[k] ELSE 0)
                 IN  [acc |-> [old.acc EXCEPT ![j] = s % Base], carry |-> s \div Base]
    IN  IF x[i] = 0 THEN acc ELSE st[2 * Limbs].acc

MulWide(x, y) ==
    LET rows[i \in 0 .. Limbs] == IF i = 0 THEN [n \in 1 .. 2 * Limbs |-> 0] ELSE Row(rows[i - 1], i, x, y)
    IN  rows[Limbs]

\* reduce_wide: binary long division from the top bit.  The bit the shift
\* pushes out of the remainder is ignored.
ReduceWide(x, mod) ==
    LET bit(i) == (x[i \div Bits + 1] \div 2 ^ (i % Bits)) % 2
        top == 2 * Width - 1
        r[i \in 0 .. top + 1] ==
            IF i = top + 1 THEN LimbZero
            ELSE LET s == [Shl1(r[i + 1]).out EXCEPT ![1] = @ + bit(i)]
                     d == SubBorrow(s, mod)
                 IN  IF d.flag THEN s ELSE d.out
    IN  r[0]

\* add_mod
AddMod(x, y, mod) ==
    LET s == AddCarry(x, y)
    IN  IF s.flag \/ ~LimbLess(s.out, mod) THEN SubBorrow(s.out, mod).out ELSE s.out

\* sub_mod
SubMod(x, y, mod) ==
    LET d == SubBorrow(x, y) IN IF d.flag THEN AddCarry(d.out, mod).out ELSE d.out

MulMod(x, y, mod) == ReduceWide(MulWide(x, y), mod)

\* Rem for U256, where the operand may exceed the modulus.
Rem(x, mod) ==
    IF LimbLess(x, mod) THEN x ELSE ReduceWide([i \in 1 .. 2 * Limbs |-> IF i \in LimbPos THEN x[i] ELSE 0], mod)

\* pow_mod: square and multiply from the least significant bit.
PowMod(base, exp, mod) ==
    LET st[i \in 0 .. Width] ==
            IF i = 0 THEN [res |-> FromU64(1), b |-> base]
            ELSE LET p == st[i - 1]
                 IN  [res |-> IF Bit(exp, i - 1) THEN MulMod(p.res, p.b, mod) ELSE p.res,
                      b |-> MulMod(p.b, p.b, mod)]
    IN  st[LimbBitLength(exp)].res

\* inv_mod, by Fermat: the modulus is prime.
InvMod(x, mod) == PowMod(x, SubBorrow(mod, FromU64(2)).out, mod)

-----------------------------------------------------------------------------
LimbTypeOK == limbA \in U /\ limbB \in U /\ limbM \in U /\ given \in BOOLEAN

LimbInit == limbA = LimbZero /\ limbB = LimbZero /\ limbM = ToLimbs(CHOOSE n \in Moduli : \A k \in Moduli : n <= k) /\ given = FALSE

\* The operands of one call.
Given(x, y, n) == ~given /\ given' = TRUE /\ limbA' = x /\ limbB' = y /\ limbM' = ToLimbs(n)
LimbNext == \E x, y \in U, n \in Moduli : Given(x, y, n)
LimbSpec == LimbInit /\ [][LimbNext]_limbVars

(***************************************************************************)
(* With a prime modulus whose top bit is clear, what FIELD_MODULUS and     *)
(* CURVE_ORDER are, every operation on limbs is the operation on numbers:  *)
(* no carry, borrow or shifted-out bit that the code drops ever matters.   *)
(***************************************************************************)
LimbsAreExact ==
    LET va == Value(limbA) vb == Value(limbB) vm == Value(limbM)
    IN  /\ LimbLess(limbA, limbB) = (va < vb)
        /\ Value(MulWide(limbA, limbB)) = va * vb
        /\ Value(Rem(limbA, limbM)) = va % vm
        /\ (va < vm /\ vb < vm) =>
             /\ Value(AddMod(limbA, limbB, limbM)) = (va + vb) % vm
             /\ Value(SubMod(limbA, limbB, limbM)) = (va - vb + vm) % vm
             /\ Value(MulMod(limbA, limbB, limbM)) = (va * vb) % vm
             /\ va # 0 => Value(MulMod(limbA, InvMod(limbA, limbM), limbM)) = 1

-----------------------------------------------------------------------------
(***************************************************************************)
(* contracts/zk_verifier/src/curve.rs, Point: the group of the curve       *)
(* y^2 = x^3 + 3 in Jacobian coordinates, over a small prime field.  The   *)
(* contract adds, doubles, negates and scales points one after the other   *)
(* without ever normalising them, so a point is reached in many            *)
(* representations; the model walks the group and keeps beside the         *)
(* Jacobian point the affine one that textbook chord and tangent give.     *)
(***************************************************************************)

CONSTANTS
    CurveP,          \* FIELD_MODULUS
    Order       \* CURVE_ORDER, the number of points

VARIABLES
    curvePt,         \* the Jacobian point, [x, y, z]
    curveRef         \* the affine point it should be, or O

curveVars == <<curvePt, curveRef>>

CurveFq == 0 .. CurveP - 1
CurveO == <<>>       \* infinity, as an affine point

\* Fq: arithmetic modulo P (LimbArithmetic has the limbs).
Add(x, y) == (x + y) % CurveP
Sub(x, y) == (x - y + CurveP) % CurveP
Mul(x, y) == (x * y) % CurveP
Neg(x) == IF x = 0 THEN 0 ELSE CurveP - x
Sq(x) == Mul(x, x)
Twice(x) == Add(x, x)
CurveInv(x) == IF x = 0 THEN 0 ELSE CHOOSE y \in CurveFq : Mul(x, y) = 1   \* x^(P-2) is 0 for 0

Infinity == [x |-> 1, y |-> 1, z |-> 0]
IsInfinity(p) == p.z = 0
Generator == [x |-> 1, y |-> 2, z |-> 1]

\* from_affine_checked
OnCurve(x, y) == Sq(y) = Add(Mul(Sq(x), x), 3 % CurveP)

PNeg(p) == IF IsInfinity(p) THEN p ELSE [p EXCEPT !.y = Neg(p.y)]

\* double
PDouble(p) ==
    IF IsInfinity(p) \/ p.y = 0 THEN Infinity
    ELSE LET a == Sq(p.x)
             b == Sq(p.y)
             c == Sq(b)
             d == Twice(Sub(Sub(Sq(Add(p.x, b)), a), c))
             e == Add(Twice(a), a)
             x3 == Sub(Sub(Sq(e), d), d)
         IN  [x |-> x3, y |-> Sub(Mul(e, Sub(d, x3)), Twice(Twice(Twice(c)))), z |-> Twice(Mul(p.y, p.z))]

\* The chord of two finite points that are neither equal nor opposite, from
\* u1, s1 and the differences h, r.
Chord(p, q, u1, s1, h, r) ==
    LET i == Sq(Twice(h))
        j == Mul(h, i)
        v == Mul(u1, i)
        x3 == Sub(Sub(Sub(Sq(Twice(r)), j), v), v)
    IN  [x |-> x3,
         y |-> Sub(Mul(Twice(r), Sub(v, x3)), Twice(Mul(s1, j))),
         z |-> Mul(Sub(Sub(Sq(Add(p.z, q.z)), Sq(p.z)), Sq(q.z)), h)]

PAdd_NoDouble(p, q) ==
    LET u1 == Mul(p.x, Sq(q.z))
        u2 == Mul(q.x, Sq(p.z))
        s1 == Mul(Mul(p.y, q.z), Sq(q.z))
        s2 == Mul(Mul(q.y, p.z), Sq(p.z))
    IN  IF IsInfinity(p) THEN q
        ELSE IF IsInfinity(q) THEN p
        ELSE Chord(p, q, u1, s1, Sub(u2, u1), Sub(s2, s1))

\* add: with the cases of infinity, of equal and of opposite points in
\* whatever representation they are.
PAdd(p, q) ==
    LET u1 == Mul(p.x, Sq(q.z))
        u2 == Mul(q.x, Sq(p.z))
        s1 == Mul(Mul(p.y, q.z), Sq(q.z))
        s2 == Mul(Mul(q.y, p.z), Sq(p.z))
        h == Sub(u2, u1)
        r == Sub(s2, s1)
    IN  IF IsInfinity(p) THEN q
        ELSE IF IsInfinity(q) THEN p
        ELSE IF h # 0 THEN Chord(p, q, u1, s1, h, r)
        ELSE IF r = 0 THEN PDouble(p)
        ELSE Infinity

\* mul_scalar: double and add from the top bit of the scalar.
CurveMulScalar(p, n) ==
    LET m[k \in 0 .. n] ==
            IF k = 0 THEN Infinity
            ELSE LET d == PDouble(m[k \div 2]) IN IF k % 2 = 1 THEN PAdd(d, p) ELSE d
    IN  m[n]

\* to_affine; infinity is (0, 0), which is not on the curve.
ToAffine(p) ==
    IF IsInfinity(p) THEN <<0, 0>>
    ELSE LET zi == CurveInv(p.z) IN <<Mul(p.x, Sq(zi)), Mul(p.y, Mul(Sq(zi), zi))>>

\* eq, by cross-multiplication.
PEq(p, q) ==
    \/ IsInfinity(p) /\ IsInfinity(q)
    \/ /\ ~IsInfinity(p) /\ ~IsInfinity(q)
       /\ Mul(p.x, Sq(q.z)) = Mul(q.x, Sq(p.z))
       /\ Mul(p.y, Mul(Sq(q.z), q.z)) = Mul(q.y, Mul(Sq(p.z), p.z))

-----------------------------------------------------------------------------
(* The group on affine points: chord and tangent. *)
Affine == {<<x, y>> \in CurveFq \X CurveFq : OnCurve(x, y)} \cup {CurveO}
Reps(a) == IF a = CurveO THEN {Infinity}
           ELSE {[x |-> Mul(a[1], Sq(z)), y |-> Mul(a[2], Mul(Sq(z), z)), z |-> z] : z \in 1 .. CurveP - 1}

AffAdd(a, b) ==
    LET line(s) == LET x == Sub(Sub(Sq(s), a[1]), b[1]) IN <<x, Sub(Mul(s, Sub(a[1], x)), a[2])>>
    IN  IF a = CurveO THEN b
        ELSE IF b = CurveO THEN a
        ELSE IF a[1] # b[1] THEN line(Mul(Sub(b[2], a[2]), CurveInv(Sub(b[1], a[1]))))
        ELSE IF a[2] = b[2] /\ a[2] # 0 THEN line(Mul(Mul(3 % CurveP, Sq(a[1])), CurveInv(Twice(a[2]))))
        ELSE CurveO
AffNeg(a) == IF a = CurveO THEN a ELSE <<a[1], Neg(a[2])>>
CurveMultiple(a, n) == LET m[k \in 0 .. n] == IF k = 0 THEN CurveO ELSE AffAdd(m[k - 1], a) IN m[n]

CurveTypeOK == curvePt \in [x : CurveFq, y : CurveFq, z : CurveFq] /\ curveRef \in Affine

CurveInit == curvePt = Infinity /\ curveRef = CurveO

CurveDoAdd(a, q) == curvePt' = PAdd(curvePt, q) /\ curveRef' = AffAdd(curveRef, a)
DoDouble == curvePt' = PDouble(curvePt) /\ curveRef' = AffAdd(curveRef, curveRef)
DoNeg == curvePt' = PNeg(curvePt) /\ curveRef' = AffNeg(curveRef)
DoMul(n) == curvePt' = CurveMulScalar(curvePt, n) /\ curveRef' = CurveMultiple(curveRef, n)

CurveNext == \/ \E a \in Affine : \E q \in Reps(a) : CurveDoAdd(a, q)
             \/ DoDouble
             \/ DoNeg
             \/ \E n \in 0 .. Order - 1 : DoMul(n)
CurveSpec == CurveInit /\ [][CurveNext]_curveVars

(***************************************************************************)
(* However a point was computed and however it is represented, it is the   *)
(* point of the curve the group law gives, it is infinity exactly when     *)
(* that is, eq tells it from every other point in every representation,    *)
(* and Order times it is infinity.                                         *)
(***************************************************************************)
GroupLawHolds ==
    /\ IsInfinity(curvePt) = (curveRef = CurveO)
    /\ curveRef # CurveO => ToAffine(curvePt) = curveRef
    /\ \A a \in Affine : \A q \in Reps(a) : PEq(curvePt, q) = (curveRef = a)
    /\ IsInfinity(CurveMulScalar(curvePt, Order))
    /\ PEq(PAdd(curvePt, CurveMulScalar(Generator, Order)), curvePt)

-----------------------------------------------------------------------------
(***************************************************************************)
(* contracts/zk_verifier/src/pairing.rs, ExtField<N>: polynomials of       *)
(* degree below N over a prime field, modulo x^N + Modulus.  The state is  *)
(* the loop of invert_with, an extended Euclid whose division only rounds  *)
(* (it is a port of py_ecc's poly_rounded_div), so that it is not obvious  *)
(* that the loop ends, nor that it ends with the inverse.  Polynomials are *)
(* sequences, the constant first, the work arrays one longer.              *)
(***************************************************************************)

CONSTANTS
    ExtP,          \* FIELD_MODULUS
    N,          \* the degree
    Modulus,    \* modulus_coeffs, possibly negative
    Inputs      \* the elements to invert, none of them zero

VARIABLES
    extX,                   \* self
    low, high, lm, hm,   \* the work arrays
    rounds,              \* rounds so far
    pc                   \* "idle", "loop", "done"

extVars == <<extX, low, high, lm, hm, rounds, pc>>

ExtFq == 0 .. ExtP - 1
ExtPos == 1 .. N
Work == 1 .. N + 1
Fadd(a, b) == (a + b) % ExtP
Fsub(a, b) == (a - b + ExtP) % ExtP
Fmul(a, b) == (a * b) % ExtP
Finv(a) == IF a = 0 THEN 0 ELSE CHOOSE b \in ExtFq : Fmul(a, b) = 1
FromI64(v) == ((v % ExtP) + ExtP) % ExtP                    \* fq_from_i64

EZero == [i \in ExtPos |-> 0]
EOne == [i \in ExtPos |-> IF i = 1 THEN 1 ELSE 0]
EAdd(a, b) == [i \in ExtPos |-> Fadd(a[i], b[i])]

\* deg_of; -1 for the zero polynomial.
Deg(c) == Max({-1} \cup {i - 1 : i \in {j \in DOMAIN c : c[j] # 0}})

\* mul_with: the product has degree at most 2N-2; its coefficients from the
\* top one down are folded into the lower ones.
Product(a, b) ==
    [k \in 1 .. 2 * N - 1 |->
        FoldSet(LAMBDA i, acc : Fadd(acc, Fmul(a[i], b[k - i + 1])), 0, {i \in ExtPos : k - i + 1 \in ExtPos})]

Fold(buf, top) ==       \* position top is the highest left
    [k \in DOMAIN buf |->
        IF k - (top - N) + 1 \in ExtPos THEN Fsub(buf[k], Fmul(buf[top], FromI64(Modulus[k - (top - N) + 1])))
        ELSE buf[k]]

EMul(a, b) ==
    LET reduced == FoldLeft(Fold, Product(a, b), [n \in 1 .. N - 1 |-> 2 * N - n])
    IN  SubSeq(reduced, 1, N)

-----------------------------------------------------------------------------
\* The rounded quotient of h by l: at each place the leading terms are
\* divided, and what is subtracted is the quotient so far, not its product
\* with l.
Quotient(h, l) ==
    LET dh == Deg(h)
        dl == Deg(l)
        inv == Finv(l[dl + 1])
        place(st, ii) ==
            LET o == [st.o EXCEPT ![ii + 1] = Fadd(@, Fmul(st.t[dl + ii + 1], inv))]
            IN  [o |-> o, t |-> [k \in Work |-> IF k - ii \in 1 .. dl + 1 THEN Fsub(st.t[k], o[k - ii]) ELSE st.t[k]]]
    IN  IF dh < dl THEN [k \in Work |-> 0]
        ELSE FoldLeft(place, [t |-> h, o |-> [k \in Work |-> 0]], [n \in 1 .. dh - dl + 1 |-> dh - dl - n + 1]).o

\* The nested loop: a minus q times b, cut at the length of the arrays.
ExtLess(a, b, q) ==
       [k \in Work |-> FoldSet(LAMBDA i, acc : Fsub(acc, Fmul(b[i], q[k - i + 1])), a[k], 1 .. k)]

Extended(a) == Append(a, 0)

ExtTypeOK ==
    /\ pc \in {"idle", "loop", "done"} /\ extX \in [ExtPos -> ExtFq]
    /\ \A w \in {low, high, lm, hm} : w \in [Work -> ExtFq]

ExtInit ==
       /\ extX = EZero /\ pc = "idle" /\ rounds = 0
       /\ low = Extended(EZero) /\ high = low /\ lm = low /\ hm = low

\* invert_with is called.
Begin(a) ==
    /\ pc = "idle" /\ pc' = "loop" /\ extX' = a
    /\ low' = Extended(a) /\ high' = [k \in Work |-> IF k = N + 1 THEN 1 ELSE FromI64(Modulus[k])]
    /\ lm' = Extended(EOne) /\ hm' = Extended(EZero) /\ UNCHANGED rounds

Round ==
    /\ pc = "loop" /\ Deg(low) > 0
    /\ LET q == Quotient(high, low)
       IN  /\ low' = ExtLess(high, low, q) /\ lm' = ExtLess(hm, lm, q)
           /\ high' = low /\ hm' = lm
    /\ rounds' = rounds + 1 /\ UNCHANGED <<extX, pc>>

Finish == pc = "loop" /\ Deg(low) <= 0 /\ pc' = "done" /\ UNCHANGED <<extX, low, high, lm, hm, rounds>>

ExtDone == pc = "done" /\ UNCHANGED extVars

ExtNext == (\E a \in Inputs : Begin(a)) \/ Round \/ Finish \/ ExtDone
ExtSpec == ExtInit /\ [][ExtNext]_extVars

\* The result: lm over the constant that low has become.
Inverted == [i \in ExtPos |-> Fmul(lm[i], Finv(low[1]))]

-----------------------------------------------------------------------------
\* A work array as an element: its top coefficient folded in.
AsElement(w) == [i \in ExtPos |-> Fsub(w[i], Fmul(w[N + 1], FromI64(Modulus[i])))]

(***************************************************************************)
(* Through all rounds lm * x is low and hm * x is high in the field, even *)
(* if the quotients are not those of a division, and at the end low is    *)
(* a constant other than 0: the result is the inverse.  Though a round     *)
(* need not lower the degree, there are at most 2N of them.                *)
(***************************************************************************)
InverseIsExact ==
    pc # "idle" =>
        /\ rounds <= 2 * N
        /\ EMul(AsElement(lm), extX) = AsElement(low)
        /\ EMul(AsElement(hm), extX) = AsElement(high)
        /\ pc = "done" => /\ low[1] # 0 /\ EMul(Inverted, extX) = EOne
                          /\ EMul(EAdd(EOne, Inverted), extX) = EAdd(extX, EOne)

-----------------------------------------------------------------------------
(***************************************************************************)
(* contracts/zk_verifier/src/pairing.rs, Fq2 and G2Point: affine points of *)
(* the twist y^2 = x^3 + 3/(9+u) over the field with u^2 = -1, here over a *)
(* small prime that is 3 modulo 4.  Infinity is (0, 0).  The model walks   *)
(* the points with the operations of the code.                             *)
(***************************************************************************)

CONSTANTS
    TwistP,            \* FIELD_MODULUS
    MaxScalar     \* scalars that are used

VARIABLES
    twistPt,           \* a point the code computed
    twistRef           \* the point chord and tangent give

twistVars == <<twistPt, twistRef>>

TwistFq == 0 .. TwistP - 1
TwistInv(a) == IF a = 0 THEN 0 ELSE CHOOSE b \in TwistFq : (a * b) % TwistP = 1
Fq2 == TwistFq \X TwistFq
TwistZero == <<0, 0>>
Add2(a, b) == <<(a[1] + b[1]) % TwistP, (a[2] + b[2]) % TwistP>>
Neg2(a) == <<(TwistP - a[1]) % TwistP, (TwistP - a[2]) % TwistP>>
Sub2(a, b) == Add2(a, Neg2(b))
Two(a) == Add2(a, a)
Mul2(a, b) == <<(a[1] * b[1] + (TwistP - 1) * a[2] * b[2]) % TwistP, (a[1] * b[2] + a[2] * b[1]) % TwistP>>   \* mul_with, u^2 + 1
Square2(a) == Mul2(a, a)
Conjugate(a) == <<a[1], (TwistP - a[2]) % TwistP>>

\* invert2, through the norm.
Invert2(a) ==
    LET n == TwistInv((a[1] * a[1] + a[2] * a[2]) % TwistP) IN <<(a[1] * n) % TwistP, ((TwistP - a[2]) * n) % TwistP>>

TwistB2 == Mul2(Invert2(<<9 % TwistP, 1>>), <<3 % TwistP, 0>>)

IsOnCurve(p) == Square2(p.y) = Add2(Mul2(Square2(p.x), p.x), TwistB2)
TwistO == [x |-> TwistZero, y |-> TwistZero]
Points == {p \in [x : Fq2, y : Fq2] : IsOnCurve(p)}

-----------------------------------------------------------------------------
\* The third point of a line of slope m through p and q, mirrored.
Third(p, q, m) ==
    LET x3 == Sub2(Sub2(Square2(m), p.x), q.x) IN [x |-> x3, y |-> Sub2(Mul2(m, Sub2(p.x, x3)), p.y)]

\* double: the slope is 3x^2 times twice the inverse of y.
GDouble(p) ==
    IF p = TwistO THEN p
    ELSE Third(p, p, Mul2(Add2(Two(Square2(p.x)), Square2(p.x)), Two(Invert2(p.y))))

GAdd(p, q) ==
    IF p = TwistO THEN q
    ELSE IF q = TwistO THEN p
    ELSE IF p.x # q.x THEN Third(p, q, Mul2(Sub2(q.y, p.y), Invert2(Sub2(q.x, p.x))))
    ELSE IF p.y = q.y THEN GDouble(p)
    ELSE TwistO

\* mul_scalar: a first loop doubles once for every bit below the top one, and
\* the second goes through the same bits again.
TwistBitLength(n) == IF n = 0 THEN 0 ELSE 1 + CHOOSE k \in 0 .. n : 2 ^ k <= n /\ n < 2 ^ (k + 1)

TwistMulScalar(p, n) ==
    LET first[k \in 0 .. TwistBitLength(n)] == IF k <= 1 THEN p ELSE GDouble(first[k - 1])
        second[k \in 1 .. TwistBitLength(n)] ==      \* after the k highest bits
            IF k = 1 THEN first[TwistBitLength(n)]
            ELSE LET d == GDouble(second[k - 1])
                 IN  IF (n \div 2 ^ (TwistBitLength(n) - k)) % 2 = 1 THEN GAdd(d, p) ELSE d
    IN  IF n = 0 THEN TwistO ELSE second[TwistBitLength(n)]

-----------------------------------------------------------------------------
(* Chord and tangent. *)
RefAdd(p, q) ==
    IF p = TwistO THEN q
    ELSE IF q = TwistO THEN p
    ELSE IF p.x # q.x THEN Third(p, q, Mul2(Sub2(q.y, p.y), Invert2(Sub2(q.x, p.x))))
    ELSE IF p.y = q.y /\ p.y # TwistZero
         THEN Third(p, p, Mul2(Add2(Two(Square2(p.x)), Square2(p.x)), Invert2(Two(p.y))))
    ELSE TwistO
TwistMultiple(p, n) == LET m[k \in 0 .. n] == IF k = 0 THEN TwistO ELSE RefAdd(m[k - 1], p) IN m[n]

TwistTypeOK == twistPt \in [x : Fq2, y : Fq2] /\ twistRef \in [x : Fq2, y : Fq2]

TwistInit == twistPt = TwistO /\ twistRef = TwistO

\* Points that are not equal are added.
TwistDoAdd(q) == twistPt # q /\ twistPt' = GAdd(twistPt, q) /\ twistRef' = RefAdd(twistRef, q)
TwistNext == \E q \in Points : TwistDoAdd(q)
TwistSpec == TwistInit /\ [][TwistNext]_twistVars

(***************************************************************************)
(* Sums of different points are those of chord and tangent and stay on the *)
(* twist, in any order: adding the same points the other way round gives   *)
(* the same point, and adding the opposite one takes a point away again.   *)
(***************************************************************************)
SumsStayOnTwist ==
    /\ twistPt = twistRef /\ (twistPt # TwistO => IsOnCurve(twistPt))
    /\ \A q \in Points \ {twistPt} : GAdd(twistPt, q) = GAdd(q, twistPt)
    /\ twistPt # TwistO /\ twistPt.y # TwistZero => GAdd(twistPt, [twistPt EXCEPT !.y = Neg2(twistPt.y)]) = TwistO

(***************************************************************************)
(* pairing.rs:326, "Scalar multiplication": n times a point is the point   *)
(* added n times.                                                          *)
(***************************************************************************)
ScalarIsMultiple ==
    twistPt.y # TwistZero => \A n \in 0 .. MaxScalar : TwistMulScalar(twistPt, n) = TwistMultiple(twistPt, n)

=============================================================================
