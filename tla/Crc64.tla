------------------------------- MODULE Crc64 -------------------------------
(***************************************************************************)
(* The checksums of an archive that are taken a piece at a time: the       *)
(* CRC-64 of the self-check and the CRC-32 of -hC.  Both have a table walk *)
(* that takes several bytes at once and one that folds long pieces with    *)
(* carry-less multiplication; the CRC-64 of two pieces can be joined to    *)
(* that of both.                                                           *)
(*                                                                         *)
(* A register, a byte or a lane is the set of its one bits, bit 0 being    *)
(* the one that leaves a register first.  Width, Lane and Stride scale     *)
(* the algorithms: 64, 128 and 8 for the CRC-64, 32, 128 and 8 for the     *)
(* CRC-32.  The constants the folds multiply by are powers of x; those     *)
(* written in the code are these.  The names of the machine are its own,   *)
(* so that it can be extended next to another.                             *)
(***************************************************************************)
EXTENDS Integers, Sequences, FiniteSets, FiniteSetsExt, SequencesExt

CONSTANTS
    Width,    \* bits of the register
    Poly,     \* the polynomial
    Lane,     \* bits of one of the four registers of a fold
    Stride,   \* bytes the table walk takes at once
    Texts,    \* what is read
    Chunks    \* the lengths of the pieces it may come in

\* What is assumed of the constants.
ASSUME CrcAssumption ==
    /\ {Width, Lane, Stride} \subseteq Nat \ {0}
    /\ Width % 8 = 0 /\ Stride * 8 >= Width
    /\ Lane % 16 = 0 /\ Lane >= 2 * Width
    /\ Poly \subseteq 0..(Width - 1) /\ Width - 1 \in Poly
    /\ Texts \subseteq Seq(SUBSET (0..7))
    /\ Chunks \subseteq Nat

VARIABLES
    text,     \* what is read
    upTo,     \* how much of it has been
    register, \* Crc64::v_, the register
    joined    \* the checksum of the pieces so far, joined

crcVars == <<text, upTo, register, joined>>

Ones == 0..(Width - 1)

Xor(a, b) == SymDiff(a, b)

Shifted(c, n) == {b - n : b \in {x \in c : x >= n}}

LowByte(c) == c \cap (0..7)

-----------------------------------------------------------------------------
(* The table walk *)

\* One bit leaves the register.
BitStep(c) == IF 0 \in c THEN Xor(Shifted(c, 1), Poly) ELSE Shifted(c, 1)

\* What a byte alone leaves in the register.
ByteTable == [b \in SUBSET (0..7) |-> FoldLeft(LAMBDA c, n: BitStep(c), b, [n \in 1..8 |-> n])]

\* Table s + 1: what it has left s bytes later.
ByteTables ==
    FoldLeft(LAMBDA T, s: Append(T, [b \in SUBSET (0..7) |->
                 Xor(ByteTable[LowByte(T[s][b])], Shifted(T[s][b], 8))]),
             <<ByteTable>>, [s \in 1..(Stride - 1) |-> s])

ByteStep(c, b) == Xor(ByteTable[Xor(LowByte(c), b)], Shifted(c, 8))

\* Stride bytes at once: those the register reaches are combined with it.
SliceStep(c, p) ==
    LET Under(i) == Xor(p[i], LowByte(Shifted(c, 8 * (i - 1))))
    IN FoldLeft(LAMBDA a, i: Xor(a, ByteTables[Stride - i + 1][Under(i)]), {}, [i \in 1..Stride |-> i])

\* UpdateTable.
UpdateTable(c, p) ==
    LET whole == Len(p) \div Stride
        Part(k) == SubSeq(p, (k - 1) * Stride + 1, k * Stride)
    IN FoldLeft(ByteStep,
                FoldLeft(LAMBDA a, k: SliceStep(a, Part(k)), c, [k \in 1..whole |-> k]),
                SubSeq(p, whole * Stride + 1, Len(p)))

-----------------------------------------------------------------------------
(* Folding *)

Half == Lane \div 2
LaneBytes == Lane \div 8

\* x^n modulo the polynomial, as the constants are written.
PowerOfX(n) == FoldLeft(LAMBDA c, i: BitStep(c), {Width - 1}, [i \in 1..n |-> i])

Powers == [n \in 0..(8 * Max({Len(t) : t \in Texts}) + Width) |-> PowerOfX(n)]

\* The factors that move a lane by one lane, and by four.
ByLane == [lo |-> PowerOfX(Lane + Width - 1), hi |-> PowerOfX(Half + Width - 1)]
ByFour == [lo |-> PowerOfX(4 * Lane + Width - 1), hi |-> PowerOfX(4 * Lane - Half + Width - 1)]

\* The product of two polynomials, carries left out.
Multiplied(a, b) == FoldSet(LAMBDA i, acc: Xor(acc, {i + j : j \in b}), {}, a)

\* Fold: a lane, moved.
Fold(x, k) == Xor(Multiplied(x \cap (0..(Half - 1)), k.lo), Multiplied(Shifted(x, Half), k.hi))

\* The lane that starts behind n bytes.
LaneAt(p, n) == UNION {{8 * (i - 1) + b : b \in p[n + i]} : i \in 1..LaneBytes}

BytesOf(x) == [i \in 1..LaneBytes |-> LowByte(Shifted(x, 8 * (i - 1)))]

\* Crc64Fold and Crc32Fold: the bytes taken, and a lane that leaves in an empty register
\* what they leave in this one.  Four lanes at a time, then one into the next, then
\* lane by lane.
CrcFold(c, p) ==
    IF Len(p) < 4 * LaneBytes THEN [used |-> 0, state |-> <<>>]
    ELSE LET Four(n) == [i \in 1..4 |-> LaneAt(p, n + (i - 1) * LaneBytes)]
             fours == Len(p) \div (4 * LaneBytes)
             rest == Len(p) \div LaneBytes - 4 * fours
             start == [Four(0) EXCEPT ![1] = Xor(@, c)]
             wide == FoldLeft(LAMBDA x, k: [i \in 1..4 |->
                                  Xor(Fold(x[i], ByFour), Four(4 * k * LaneBytes)[i])],
                              start, [k \in 1..(fours - 1) |-> k])
             one == FoldLeft(LAMBDA y, i: Xor(Fold(y, ByLane), wide[i]), wide[1], <<2, 3, 4>>)
             all == FoldLeft(LAMBDA y, k:
                                  Xor(Fold(y, ByLane), LaneAt(p, (4 * fours + k - 1) * LaneBytes)),
                             one, [k \in 1..rest |-> k])
         IN [used |-> (4 * fours + rest) * LaneBytes, state |-> BytesOf(all)]

\* Crc64::Update and UpdateCrc32, on a processor that can fold.
CrcUpdate(c, p) ==
    LET f == CrcFold(c, p)
    IN IF f.used = 0 THEN UpdateTable(c, p)
       ELSE UpdateTable(UpdateTable({}, f.state), SubSeq(p, f.used + 1, Len(p)))

CrcFinal(c) == Ones \ c

OfNothing == {}

CrcOf(p) == CrcFinal(CrcUpdate(Ones, p))

-----------------------------------------------------------------------------
(* Joining *)

\* Times: a linear map of registers is the sequence of what it makes of each bit.
Times(mat, c) == FoldSet(LAMBDA i, acc: Xor(acc, mat[i + 1]), {}, c)

Square(mat) == SubSeq([i \in 1..Width |-> Times(mat, mat[i])], 1, Width)

\* The map of one zero bit.
ZeroBit == [i \in 1..Width |-> IF i = 1 THEN Poly ELSE {i - 2}]

\* How many bits of a length are kept; the code keeps 64.
LengthBits == 8

\* ZeroBytes[n + 1]: the map of 2^n zero bytes.
ZeroBytes ==
    FoldLeft(LAMBDA Z, n: Append(Z, Square(Z[n])),
             <<Square(Square(Square(ZeroBit)))>>, [n \in 1..(LengthBits - 1) |-> n])

BitsOf(n) == {i \in 1..LengthBits : (n \div 2^(i - 1)) % 2 = 1}

\* Mutant: the map of eight zero bits is not squared once more for each bit of the length.
CombineByteOnce(a, b, len) ==
    IF len = 0 THEN a
    ELSE Xor(FoldSet(LAMBDA i, c: Times(ZeroBytes[1], c), a, BitsOf(len)), b)

\* Combine: the checksum of A followed by B, from both checksums and B's length.
Combine(a, b, len) ==
    IF len = 0 THEN a
    ELSE Xor(FoldSet(LAMBDA i, c: Times(ZeroBytes[i], c), a, BitsOf(len)), b)

-----------------------------------------------------------------------------
CrcInit ==
    /\ text \in Texts
    /\ upTo = 0
    /\ register = Ones
    /\ joined = OfNothing

\* Another piece is read: the running checksum takes it, and its own is joined to
\* those of the pieces before.
Feed(n) ==
    LET p == SubSeq(text, upTo + 1, upTo + n)
    IN /\ upTo + n <= Len(text)
       /\ upTo' = upTo + n
       /\ register' = CrcUpdate(register, p)
       /\ joined' = Combine(joined, CrcOf(p), n)
       /\ UNCHANGED text

CrcNext == \E n \in Chunks : Feed(n)

CrcTerminated == upTo = Len(text) /\ UNCHANGED crcVars

CrcSpec == CrcInit /\ [][CrcNext \/ CrcTerminated]_crcVars

-----------------------------------------------------------------------------
(* Properties *)

\* The checksum by its definition: the bits of the text, the first of them inverted, are
\* the coefficients of a polynomial; times x^Width it leaves this remainder.
Defined(p) ==
    LET Bits == 8 * Len(p)
        Exponents == Xor({Bits + Width - 1 - k : k \in {j \in 0..(Bits - 1) : j % 8 \in p[j \div 8 + 1]}},
                         Bits..(Bits + Width - 1))
    IN CrcFinal({b \in Ones : Cardinality({n \in Exponents : b \in Powers[n]}) % 2 = 1})

\* However a text is cut into pieces, by the tables, the folds or both: the running
\* checksum is the one of the definition, and so is the join of the pieces'
\* checksums (nz_selfcheck.h: "a file split across worker streams [...] compares
\* equal to the same file decoded whole").
TextJoins ==
    LET whole == Defined(SubSeq(text, 1, upTo))
    IN CrcFinal(register) = whole /\ joined = whole
=============================================================================
