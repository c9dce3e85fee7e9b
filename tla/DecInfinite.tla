---------------------------- MODULE DecInfinite ----------------------------
(***************************************************************************)
(* The encoding of decimals in bytes (decInfinite.c): the bit stream, the  *)
(* exponent as a modified Gamma code, the mantissa as ten-bit groups of    *)
(* three digits, and the decoder with its checks.                          *)
(*                                                                         *)
(* A decNumber is a record [kind, neg, exponent, digits, lsu]: lsu is the  *)
(* sequence of three-digit units, least significant first.  A byte is an   *)
(* integer 0 .. 255.                                                       *)
(***************************************************************************)
EXTENDS Integers, Sequences, SequencesExt

DECNUMDIGITS == 39
DECINF_EXPSIZE == 30
DECINF_MAXSIZE ==
    1 + (2 + 1 + (2 * DECINF_EXPSIZE - 1) + ((10 * DECNUMDIGITS) \div 3) - 1) \div 8
MaxAdjusted == 999999999

DecNumber(neg, exponent, digits, lsu) ==
    [kind |-> "finite", neg |-> neg, exponent |-> exponent, digits |-> digits, lsu |-> lsu]

Special(kind, neg) == [DecNumber(neg, 0, 1, <<0>>) EXCEPT !.kind = kind]

decNumberZero(neg) == DecNumber(neg, 0, 1, <<0>>)

D2U(digits) == (digits + 2) \div 3

finiteDecNumberIsZero(x) == x.lsu = <<0>> /\ x.digits = 1

AdjustedExponent(x) == x.exponent + x.digits - 1

(***************************************************************************)
(* The mantissa.                                                           *)
(***************************************************************************)
multies == <<131073, 26215, 5243, 1049, 210>>

Pow2 == <<1, 2, 4, 8, 16>>
Pow10 == <<1, 10, 100, 1000>>

\* u divided by ten to the power n, without dividing: u shifted right by n,
\* multiplied, and shifted right by 17.
QUOT10(u, n) == ((u \div Pow2[n + 1]) * multies[n + 1]) \div 131072

(***************************************************************************)
(* decShiftToMost: multiply by ten or a hundred so that the most           *)
(* significant unit has three digits.  The exponent is left alone.         *)
(***************************************************************************)
ShiftBy(msu) == CASE msu > 99 -> 0 [] msu \in 10 .. 99 -> 1 [] msu < 10 -> 2

\* What unit i becomes: its first digits go to the unit above, those of the
\* unit below come in.
shiftUnit(lsu, shift, i) ==
    LET keep == 3 - shift
        low == IF i = Len(lsu) THEN lsu[i] ELSE lsu[i] - Pow10[keep + 1] * QUOT10(lsu[i], keep)
        carry == IF i = 1 THEN 0 ELSE QUOT10(lsu[i - 1], keep)
    IN  low * Pow10[shift + 1] + carry

decShiftToMost(x) ==
    LET shift == ShiftBy(x.lsu[Len(x.lsu)])
    IN  IF shift = 0 THEN x
        ELSE [x EXCEPT !.digits = @ + shift,
                       !.lsu = [i \in DOMAIN @ |-> shiftUnit(x.lsu, shift, i)]]

\* Mutant: nine's complement.
decInfiniteComplementMantissa_Nines(x) ==
    [x EXCEPT !.lsu = [i \in DOMAIN @ |-> 999 - x.lsu[i]]]

\* Ten's complement: 999 minus each unit, plus one carried from the least
\* significant unit over the units that were zero.
decInfiniteComplementMantissa(x) ==
    LET nonzero == { i \in DOMAIN x.lsu : x.lsu[i] # 0 }
        first == Min(nonzero)
        unit(i) == CASE i < first -> 0
                     [] i = first -> 1000 - x.lsu[i]
                     [] i > first -> 999 - x.lsu[i]
    IN  [x EXCEPT !.lsu = [i \in DOMAIN @ |-> unit(i)]]

(***************************************************************************)
(* The bit stream being written: its bytes, the last of them current, and  *)
(* the number of free low bits in it.                                      *)
(***************************************************************************)
Room(p) == IF p.free = 0 THEN [bytes |-> Append(p.bytes, 0), free |-> 8] ELSE p

OrLast(bytes, b) == [bytes EXCEPT ![Len(bytes)] = @ + b]

\* The n low bits of a byte.
pack(p, bits, n) ==
    LET q == Room(p)
    IN  IF q.free < n
        THEN LET m == n - q.free
             IN  [bytes |-> Append(OrLast(q.bytes, (bits \div 2 ^ m) % 2 ^ q.free),
                                   (bits * 2 ^ (8 - m)) % 256),
                  free |-> 8 - m]
        ELSE [bytes |-> OrLast(q.bytes, (bits * 2 ^ (q.free - n)) % 2 ^ q.free),
              free |-> q.free - n]

\* A declet: the ten bits of a unit, from an even position.
packDeclet(p, unit) ==
    LET q == Room(p)
        out == (unit % 1024) * 2 ^ (q.free - 2)
    IN  [bytes |-> Append(OrLast(q.bytes, out \div 256), out % 256), free |-> q.free - 2]

packDeclets(p, units) ==
    LET after[i \in 0 .. Len(units)] == IF i = 0 THEN p ELSE packDeclet(after[i - 1], units[i])
    IN  after[Len(units)]

\* Mutant: one unit of trailing zeros is kept.
decInfinitePackMantissa_ZeroUnit(x, p) ==
    LET kept == { i \in DOMAIN x.lsu : x.lsu[i] # 0 }
    IN  packDeclets(p, Reverse(SubSeq(x.lsu, Min(kept), Len(x.lsu))) \o <<0>>)

\* Units of trailing zeros are left out; the most significant unit is first.
decInfinitePackMantissa(x, p) ==
    LET kept == { i \in DOMAIN x.lsu : x.lsu[i] # 0 }
        units == IF kept = {} THEN <<>> ELSE Reverse(SubSeq(x.lsu, Min(kept), Len(x.lsu)))
    IN  packDeclets(p, units)

(***************************************************************************)
(* The exponent.  Small ones are looked up: the tables for 0 .. 5 fill the *)
(* low five bits of the first byte, those for 6 .. 125 a second byte too.  *)
(***************************************************************************)
TINY_C_EXP == <<12, 8, 7, 6, 5, 4>>
TINY_EXP == <<16, 20, 24, 25, 26, 27>>
TINY_FREE == <<2, 2, 0, 0, 0, 0>>

SMALL_C_EXP ==
    << 960, 896, 832, 768, 704, 640, 576, 512, 496, 480, 464, 448, 432, 416, 400,
       384, 368, 352, 336, 320, 304, 288, 272, 256, 252, 248, 244, 240, 236, 232,
       228, 224, 220, 216, 212, 208, 204, 200, 196, 192, 188, 184, 180, 176, 172,
       168, 164, 160, 156, 152, 148, 144, 140, 136, 132, 128, 127, 126, 125, 124,
       123, 122, 121, 120, 119, 118, 117, 116, 115, 114, 113, 112, 111, 110, 109,
       108, 107, 106, 105, 104, 103, 102, 101, 100, 99, 98, 97, 96, 95, 94,
       93, 92, 91, 90, 89, 88, 87, 86, 85, 84, 83, 82, 81, 80, 79,
       78, 77, 76, 75, 74, 73, 72, 71, 70, 69, 68, 67, 66, 65, 64 >>

SMALL_EXP ==
    << 7168, 7232, 7296, 7360, 7424, 7488, 7552, 7616, 7680, 7696, 7712, 7728, 7744, 7760, 7776,
       7792, 7808, 7824, 7840, 7856, 7872, 7888, 7904, 7920, 7936, 7940, 7944, 7948, 7952, 7956,
       7960, 7964, 7968, 7972, 7976, 7980, 7984, 7988, 7992, 7996, 8000, 8004, 8008, 8012, 8016,
       8020, 8024, 8028, 8032, 8036, 8040, 8044, 8048, 8052, 8056, 8060, 8064, 8065, 8066, 8067,
       8068, 8069, 8070, 8071, 8072, 8073, 8074, 8075, 8076, 8077, 8078, 8079, 8080, 8081, 8082,
       8083, 8084, 8085, 8086, 8087, 8088, 8089, 8090, 8091, 8092, 8093, 8094, 8095, 8096, 8097,
       8098, 8099, 8100, 8101, 8102, 8103, 8104, 8105, 8106, 8107, 8108, 8109, 8110, 8111, 8112,
       8113, 8114, 8115, 8116, 8117, 8118, 8119, 8120, 8121, 8122, 8123, 8124, 8125, 8126, 8127 >>

\* Mutant: the boundary between two lengths is off by one.
SMALL_FREE_OffByOne(exp) ==
    CASE exp \in 6 .. 14 -> 6 [] exp \in 15 .. 29 -> 4 [] exp \in 30 .. 61 -> 2 [] exp \in 62 .. 125 -> 0

SMALL_FREE(exp) ==
    CASE exp \in 6 .. 13 -> 6 [] exp \in 14 .. 29 -> 4 [] exp \in 30 .. 61 -> 2 [] exp \in 62 .. 125 -> 0

ilog2(v) == CHOOSE n \in 0 .. 30 : v \div 2 ^ n = 1

\* The chunks of at most eight bits that n bits are packed and unpacked in.
Widths(n) == LET k == (n - 1) \div 8 IN <<n - 8 * k>> \o [i \in 1 .. k |-> 8]

\* The general case: a unary prefix of n ones and a zero, then the n low bits
\* of the offset exponent; complemented when T is 0.
packGamma(exp, T, p) ==
    LET n == ilog2(exp + 2)
        word == IF T = 1 THEN exp + 2 ELSE -(exp + 2) - 1
        prefix == [i \in 1 .. n \div 8 |-> <<IF T = 1 THEN 255 ELSE 0, 8>>]
                    \o << <<IF T = 1 THEN 254 ELSE 1, (n % 8) + 1>> >>
        w == Widths(n)
        value == [i \in DOMAIN w |-> <<(word \div 2 ^ (8 * (Len(w) - i))) % 256, w[i]>>]
        chunks == prefix \o value
        after[i \in 0 .. Len(chunks)] ==
            IF i = 0 THEN p ELSE pack(after[i - 1], chunks[i][1], chunks[i][2])
    IN  after[Len(chunks)]

decInfinitePackExponent(exp, T, p) ==
    CASE exp < 6 ->
            [bytes |-> OrLast(p.bytes, IF T = 1 THEN TINY_EXP[exp + 1] ELSE TINY_C_EXP[exp + 1]),
             free |-> TINY_FREE[exp + 1]]
      [] exp \in 6 .. 125 ->
            LET u == IF T = 1 THEN SMALL_EXP[exp - 5] ELSE SMALL_C_EXP[exp - 5]
            IN  [bytes |-> Append(OrLast(p.bytes, u \div 256), u % 256), free |-> SMALL_FREE(exp)]
      [] exp > 125 -> packGamma(exp, T, p)

(***************************************************************************)
(* decInfiniteFromNumber works on the number in place: the result is the   *)
(* bytes and what the number has become.  junk is what memory holds beyond *)
(* the units of the number, packed if digits were to say there are more.   *)
(***************************************************************************)
SpecialBytes ==
    { [number |-> Special("NaN", TRUE),       byte |-> 0],      \* 0x00
      [number |-> Special("infinity", TRUE),  byte |-> 32],     \* 0x20
      [number |-> decNumberZero(TRUE),        byte |-> 96],     \* 0x60
      [number |-> decNumberZero(FALSE),       byte |-> 128],    \* 0x80
      [number |-> Special("infinity", FALSE), byte |-> 192],    \* 0xC0
      [number |-> Special("NaN", FALSE),      byte |-> 224] }   \* 0xE0

\* The units that digits accounts for.
Extend(x, junk) ==
    [x EXCEPT !.lsu = @ \o [i \in 1 .. D2U(x.digits) - Len(@) |-> junk]]

decInfiniteFromNumber(x, junk) ==
    LET adj == AdjustedExponent(x)
        T == IF x.neg = (adj < 0) THEN 1 ELSE 0
        start == [bytes |-> <<IF x.neg THEN 32 ELSE 128>>, free |-> 5]
        p == decInfinitePackExponent(IF adj < 0 THEN -adj ELSE adj, T, start)
        shifted == Extend(decShiftToMost(x), junk)
        packed == IF x.neg THEN decInfiniteComplementMantissa(shifted) ELSE shifted
    IN  IF x.kind # "finite" \/ finiteDecNumberIsZero(x)
        THEN LET s == CHOOSE s \in SpecialBytes :
                        s.number.kind = x.kind /\ s.number.neg = x.neg
             IN  [bytes |-> <<s.byte>>, left |-> x]
        ELSE [bytes |-> decInfinitePackMantissa(packed, p).bytes, left |-> packed]

(***************************************************************************)
(* The decoder.  A position is a byte and the number of its low bits that  *)
(* have not been read.                                                     *)
(***************************************************************************)
Bit(byte, i) == (byte \div 2 ^ i) % 2

\* How many bits equal t there are in a byte from bit i downwards.
RunLength(byte, i, t) == Min({ r \in 0 .. i + 1 : r = i + 1 \/ Bit(byte, i - r) # t })

\* decInfiniteReadUnaryPrefix1 (t = 1) and 0.  The count is a uint_fast8_t.
decInfiniteReadUnaryPrefix(bytes, t) ==
    LET long == bytes[1] % 32 = 31 * t
        ends == { j \in 2 .. Len(bytes) : bytes[j] # 255 * t }
        run == IF long THEN RunLength(bytes[Min(ends)], 7, t) ELSE RunLength(bytes[1], 3, t)
        count == (5 + 8 * (Min(ends) - 2) + run) % 256
    IN  CASE ~long -> [n |-> 1 + run, pos |-> 1, free |-> 3 - run]
          [] long /\ ends = {} -> [n |-> 0, pos |-> 0, free |-> 0]
          [] long /\ ends # {} -> [n |-> IF count > DECINF_EXPSIZE THEN 0 ELSE count,
                                   pos |-> Min(ends), free |-> 7 - run]

NextByte(p) == IF p.free = 0 THEN [p EXCEPT !.pos = @ + 1, !.free = 8] ELSE p

\* The next n bits: [bits, pos, free].
unpack(bytes, p, n) ==
    LET q == NextByte(p)
        m == n - q.free
    IN  IF q.free < n
        THEN [bits |-> ((bytes[q.pos] * 2 ^ m) % 2 ^ n) + bytes[q.pos + 1] \div 2 ^ (8 - m),
              pos |-> q.pos + 1, free |-> 8 - m]
        ELSE [bits |-> (bytes[q.pos] \div 2 ^ (q.free - n)) % 2 ^ n,
              pos |-> q.pos, free |-> q.free - n]

BitsLeft(bytes, p) == 8 * (Len(bytes) - p.pos + 1) - (8 - p.free)

Rejected == [ok |-> FALSE]

\* The most significant bit is restored and the offset cancelled.
RestoreExponent(bits, n) == bits + (2 ^ n - 2)

\* Mutant: the length of the prefix is trusted.
ExponentTooLarge_Never(e) == FALSE

ExponentTooLarge(e) == e > MaxAdjusted

\* The exponent, and the position of the mantissa.
decInfiniteUnpackExponent(bytes) ==
    LET t == Bit(bytes[1], 4)
        prefix == decInfiniteReadUnaryPrefix(bytes, t)
        n == prefix.n
        w == Widths(n)
        Chunk(a, i) == LET u == unpack(bytes, a, w[i])
                       IN  [e |-> a.e * 2 ^ w[i] + u.bits, pos |-> u.pos, free |-> u.free]
        after[i \in 0 .. Len(w)] ==
            IF i = 0 THEN [e |-> 0, pos |-> prefix.pos, free |-> prefix.free]
            ELSE Chunk(after[i - 1], i)
        read == after[Len(w)]
        e == RestoreExponent(IF t = 1 THEN read.e ELSE 2 ^ n - 1 - read.e, n)
    IN  IF n = 0 THEN Rejected
        ELSE IF BitsLeft(bytes, prefix) < n THEN Rejected
        ELSE IF ExponentTooLarge(e) THEN Rejected
        ELSE [ok |-> TRUE, exponent |-> IF t = Bit(bytes[1], 7) THEN e ELSE -e,
              pos |-> read.pos, free |-> read.free]

\* The declets up to the end of the bytes, most significant first.
unpackDeclets(bytes, p, n) ==
    LET Declet(a) ==
            LET q == NextByte(a)
            IN  [units |-> Append(a.units, ((bytes[q.pos] % 2 ^ q.free) * 256 + bytes[q.pos + 1])
                                               \div 2 ^ (q.free - 2)),
                 pos |-> q.pos + 1, free |-> q.free - 2]
        after[i \in 0 .. n] ==
            IF i = 0 THEN [units |-> <<>>, pos |-> p.pos, free |-> p.free] ELSE Declet(after[i - 1])
    IN  after[n].units

decInfiniteUnpackMantissa(bytes, p, neg) ==
    LET n == BitsLeft(bytes, p) \div 10
        units == unpackDeclets(bytes, p, n)
        x == DecNumber(neg, 0, 3 * n, Reverse(units))
        number == IF neg THEN decInfiniteComplementMantissa(x) ELSE x
    IN  IF \/ n = 0 \/ 3 * n > DECNUMDIGITS
           \/ \E i \in DOMAIN units : units[i] > 999
           \/ units[n] = 0
           \/ n > 1 /\ neg /\ units[1] > 899
           \/ n > 1 /\ ~neg /\ units[1] = 0
        THEN Rejected
        ELSE [ok |-> TRUE, number |-> number]

decInfiniteToNumber(bytes) ==
    LET neg == bytes[1] \div 32 = 1
        exponent == decInfiniteUnpackExponent(bytes)
        mantissa == decInfiniteUnpackMantissa(bytes, exponent, neg)
        known == { s \in SpecialBytes : bytes = <<s.byte>> }
    IN  IF Len(bytes) = 1
        THEN IF known = {} THEN Rejected
             ELSE [ok |-> TRUE, number |-> (CHOOSE s \in known : TRUE).number]
        ELSE IF bytes[1] \div 32 \notin {1, 4} \/ bytes[1] \div 4 \in {35, 12} THEN Rejected
        ELSE IF ~exponent.ok THEN Rejected
        ELSE IF ~mantissa.ok THEN Rejected
        ELSE [ok |-> TRUE,
              number |-> [mantissa.number EXCEPT
                            !.exponent = exponent.exponent - mantissa.number.digits + 1]]

(***************************************************************************)
(* What decBits shows: the bits of the bytes in groups, which the text     *)
(* separates by spaces.                                                    *)
(***************************************************************************)
decInfiniteIsSpecial(bytes) == Len(bytes) = 1 /\ bytes[1] \in {0, 32, 192, 224}

\* The bit at position i, counted from 0 and from the left.
BitAt(bytes, i) == Bit(bytes[(i \div 8) + 1], 7 - (i % 8))

\* The bits from position i up to j, or up to the end.
Group(bytes, i, j) ==
    LET size == 8 * Len(bytes)
        bits == [k \in 1 .. size |-> BitAt(bytes, k - 1)]
    IN  SubSeq(bits, i + 1, IF j < size THEN j ELSE size)

\* Where the bits that repeat the one at position 3 end.
PrefixEnd(bytes) ==
    CHOOSE i \in 4 .. 8 * Len(bytes) :
        /\ \A k \in 4 .. i - 1 : BitAt(bytes, k) = BitAt(bytes, 3)
        /\ i = 8 * Len(bytes) \/ BitAt(bytes, i) # BitAt(bytes, 3)

\* Mutant: the bit that ends the prefix is counted as one of the exponent.
ExponentEnd_Terminator(bytes) == PrefixEnd(bytes) + ((PrefixEnd(bytes) - 3) % 256)

\* After the prefix and the bit that ends it, as many bits as the prefix has:
\* count is a uint8_t.
ExponentEnd(bytes) == PrefixEnd(bytes) + 1 + ((PrefixEnd(bytes) - 3) % 256)

decInfiniteToBits(bytes) ==
    LET size == 8 * Len(bytes)
        end == ExponentEnd(bytes)
        more == IF end >= size THEN 0 ELSE (size - end + 9) \div 10
    IN  IF decInfiniteIsSpecial(bytes)
        THEN <<Group(bytes, 0, 2), Group(bytes, 2, 3), Group(bytes, 3, 8)>>
        ELSE <<Group(bytes, 0, 2), Group(bytes, 2, 3), Group(bytes, 3, end)>>
                \o [k \in 1 .. more |-> Group(bytes, end + 10 * (k - 1), end + 10 * k)]
=============================================================================
