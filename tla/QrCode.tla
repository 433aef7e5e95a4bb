-------------------------------- MODULE QrCode --------------------------------
(***************************************************************************)
(* The QR code of the sign-in page: a version 3 symbol of level L with     *)
(* mask 0, in byte mode.  The arithmetic and the function patterns are     *)
(* operators; the division that makes the error correction is a step per   *)
(* byte, and drawCodewords, which walks over the symbol and leaves out     *)
(* what is reserved, a step per module.  A text is a sequence of bytes.    *)
(*                                                                         *)
(* The properties read the symbol the way ISO/IEC 18004 tells a scanner    *)
(* to: by the places of the patterns, the format and the codewords, not by *)
(* the walk that put them there.                                           *)
(***************************************************************************)
EXTENDS Integers, Sequences, FiniteSets

kSize == 29
DataCodewords == 55
EccCodewords == 15
Cells == (0..kSize - 1) \X (0..kSize - 1)     \* <<x, y>>

VARIABLES
    text,          \* the text asked for
    codewords,     \* codewords: the data bytes, later with their remainder
    divided,       \* ReedSolomonRemainder: the data bytes done
    remainder,     \* and what it has of the result
    dark,          \* modules_: the dark ones
    reserved,      \* reserved_
    right, vert, j, upward, bitIndex,    \* the loops of drawCodewords
    pc             \* "idle", or "divide" and "draw" in the two loops

loops == <<right, vert, j, upward, bitIndex>>
division == <<codewords, divided, remainder>>
qrVars == <<text, division, dark, reserved, loops, pc>>

CodewordsTypeOK ==
    /\ codewords \in Seq(0..255) /\ Len(codewords) \in {0, DataCodewords, DataCodewords + EccCodewords}
    /\ divided \in 0..DataCodewords /\ remainder \in [1..EccCodewords -> 0..255]

WalkTypeOK ==
    /\ dark \subseteq Cells /\ reserved \subseteq Cells
    /\ right \in -1..kSize - 1 /\ vert \in 0..kSize - 1 /\ j \in 0..1 /\ upward \in BOOLEAN
    /\ bitIndex \in 0..8 * (DataCodewords + EccCodewords)

QrTypeOK ==
    /\ pc \in {"idle", "divide", "draw"} /\ CodewordsTypeOK /\ WalkTypeOK
    /\ pc = "divide" => Len(codewords) = DataCodewords
    /\ pc = "draw" => right > 0 /\ Len(codewords) = DataCodewords + EccCodewords

-----------------------------------------------------------------------------
(* Codewords.                                                              *)

Bit(value, i) == (value \div 2^i) % 2
AppendBits(value, count) == [i \in 1..count |-> Bit(value, count - i)]

\* Exclusive or of numbers below 2^16, by fours of their bits.
HalfByte == [a \in 0..15 |-> [b \in 0..15 |->
    LET Sum(i) == 2^i * ((Bit(a, i) + Bit(b, i)) % 2) IN Sum(0) + Sum(1) + Sum(2) + Sum(3)]]
x ^^ y == LET Sum(i) == 16^i * HalfByte[(x \div 16^i) % 16][(y \div 16^i) % 16]
          IN Sum(0) + Sum(1) + Sum(2) + Sum(3)

\* Mutant: reduced by another polynomial.
ReducedByAes(w) == IF w > 255 THEN w ^^ 283 ELSE w

\* By 0x11D.
Reduced(w) == IF w > 255 THEN w ^^ 285 ELSE w

GfMul(x, y) ==
    LET z[i \in 0..8] == IF i = 0 THEN 0 ELSE Reduced(2 * z[i - 1]) ^^ (Bit(y, 8 - i) * x)
    IN IF x = 0 THEN 0 ELSE z[8]

GfPow2(power) == LET value[i \in 0..power] == IF i = 0 THEN 1 ELSE GfMul(value[i - 1], 2)
                 IN value[power]

\* The product of (x - 2^i) for i in 0 .. degree - 1, highest coefficient first.
ReedSolomonGenerator(degree) ==
    LET result[i \in 0..degree] ==
            IF i = 0 THEN <<1>>
            ELSE LET shifted == Append(result[i - 1], 0)
                     root == GfPow2(i - 1)
                 IN [k \in 1..i + 1 |->
                        shifted[k] ^^ (IF k = 1 THEN 0 ELSE GfMul(shifted[k - 1], root))]
    IN result[degree]

\* One byte of a long division: the leading coefficient goes away.
RemainderAfter(result, b, generator) ==
    LET shifted == Append(result, 0)
        factor == b ^^ result[1]
    IN Tail([i \in 1..Len(generator) |-> shifted[i] ^^ GfMul(generator[i], factor)])

\* Mode, length and text; the terminator and zeros to a whole byte; pad bytes.
Bits(t) ==
    LET chars[i \in 0..Len(t)] ==
            IF i = 0 THEN AppendBits(4, 4) \o AppendBits(Len(t), 8)
            ELSE chars[i - 1] \o AppendBits(t[i], 8)
        used == Len(chars[Len(t)])
        room == 8 * DataCodewords - used
        terminator == IF room < 4 THEN room ELSE 4
    IN chars[Len(t)] \o AppendBits(0, terminator + ((-(used + terminator)) % 8))

Byte(bits, n) ==
    LET value[i \in 0..8] == IF i = 0 THEN 0 ELSE 2 * value[i - 1] + bits[8 * n + i] IN value[8]

DataBytes(t) ==
    LET bits == Bits(t)
        given == Len(bits) \div 8
    IN [n \in 1..DataCodewords |->
            IF n <= given THEN Byte(bits, n - 1)
            ELSE IF (n - given) % 2 = 1 THEN 236 ELSE 17]

Generator == ReedSolomonGenerator(EccCodewords)

\* Mutant: one byte too many.
FitsWithOneMore(t) == Len(t) <= 54

\* A longer text has no codewords, and no symbol.
Fits(t) == Len(t) <= 53

-----------------------------------------------------------------------------
(* Function patterns: functions from the modules they reserve to whether   *)
(* they are dark.                                                          *)

Square(cx, cy, d) == Cells \cap ((cx - d..cx + d) \X (cy - d..cy + d))
Ring(cx, cy, d) == Square(cx, cy, d) \ Square(cx, cy, d - 1)

\* What is drawn outside of the symbol is not drawn.
drawFinder(cx, cy) ==
    [c \in Square(cx, cy, 4) |-> c \notin Ring(cx, cy, 2) \cup Ring(cx, cy, 4)]

drawAlignment(cx, cy) == [c \in Square(cx, cy, 2) |-> c \notin Ring(cx, cy, 1)]

Timing == [c \in {d \in Cells : 6 \in {d[1], d[2]} /\ d[1] + d[2] - 6 \in 8..kSize - 9} |->
              (c[1] + c[2]) % 2 = 0]

\* Level L is 1, the mask is 0; 1335 is 0x537, 21522 is 0x5412.
formatBits ==
    LET data == 8
        rem[i \in 10..15] ==
            IF i = 15 THEN data * 1024
            ELSE IF Bit(rem[i + 1], i) = 1 THEN rem[i + 1] ^^ (1335 * 2^(i - 10)) ELSE rem[i + 1]
    IN (data * 1024 + rem[10]) ^^ 21522

\* The two copies of bit i.
FormatPlace(i) ==
    <<  IF i <= 5 THEN <<8, i>> ELSE IF i <= 7 THEN <<8, i + 1>>
        ELSE IF i = 8 THEN <<7, 8>> ELSE <<14 - i, 8>>,
        IF i < 8 THEN <<kSize - 1 - i, 8>> ELSE <<8, kSize - 15 + i>>  >>

drawFormatBits ==
    LET copies == {<<i, n>> : i \in 0..14, n \in 1..2}
        Of(c) == CHOOSE p \in copies : FormatPlace(p[1])[p[2]] = c
        darkModule == <<8, kSize - 8>>
    IN [c \in {FormatPlace(p[1])[p[2]] : p \in copies} \cup {darkModule} |->
            c = darkModule \/ Bit(formatBits, Of(c)[1]) = 1]

\* What is drawn later goes over what was drawn before.
Over(later, before) ==
    [c \in DOMAIN later \cup DOMAIN before |-> IF c \in DOMAIN later THEN later[c] ELSE before[c]]

Finders == Over(drawFinder(3, kSize - 4), Over(drawFinder(kSize - 4, 3), drawFinder(3, 3)))
FunctionPatterns == Over(drawFormatBits, Over(drawAlignment(22, 22), Over(Timing, Finders)))

-----------------------------------------------------------------------------
(* The loops.                                                              *)

NoRemainder == [i \in 1..EccCodewords |-> 0]

QrInit ==
    /\ text = <<>> /\ codewords = <<>> /\ divided = 0 /\ remainder = NoRemainder
    /\ dark = {} /\ reserved = {}
    /\ right = -1 /\ vert = 0 /\ j = 0 /\ upward = FALSE /\ bitIndex = 0
    /\ pc = "idle"

\* A new builder for each text.
GenerateLoginQrMatrix(t) ==
    /\ pc = "idle"
    /\ text' = t
    /\ codewords' = IF Fits(t) THEN DataBytes(t) ELSE <<>>
    /\ pc' = IF Fits(t) THEN "divide" ELSE "idle"
    /\ divided' = 0 /\ remainder' = NoRemainder
    /\ dark' = {} /\ reserved' = {}
    /\ UNCHANGED loops

ReedSolomonRemainder ==
    /\ pc = "divide" /\ divided < Len(codewords)
    /\ divided' = divided + 1
    /\ remainder' = RemainderAfter(remainder, codewords[divided'], Generator)
    /\ UNCHANGED <<text, codewords, dark, reserved, loops, pc>>

\* drawFunctionPatterns, and the walk begins.
drawFunctionPatterns ==
    /\ pc = "divide" /\ divided = Len(codewords)
    /\ codewords' = codewords \o remainder
    /\ reserved' = DOMAIN FunctionPatterns
    /\ dark' = {c \in DOMAIN FunctionPatterns : FunctionPatterns[c]}
    /\ right' = kSize - 1 /\ vert' = 0 /\ j' = 0 /\ upward' = TRUE /\ bitIndex' = 0
    /\ pc' = "draw"
    /\ UNCHANGED <<text, divided, remainder>>

At == <<right - j, IF upward THEN kSize - 1 - vert ELSE vert>>
maskBit(c) == (c[1] + c[2]) % 2 = 0

\* After the last codeword the rest is light, but for the mask.
DataBit == /\ bitIndex < 8 * Len(codewords)
           /\ Bit(codewords[bitIndex \div 8 + 1], 7 - (bitIndex % 8)) = 1

NextBit == IF bitIndex < 8 * Len(codewords) THEN bitIndex + 1 ELSE bitIndex

\* Mutant: the alignment pattern is not spared.
isReservedButAlignment(c) == c \in reserved \ DOMAIN drawAlignment(22, 22)

isReserved(c) == c \in reserved

SetData ==
    IF isReserved(At) THEN UNCHANGED <<dark, bitIndex>>
    ELSE /\ dark' = IF DataBit # maskBit(At) THEN dark \cup {At} ELSE dark \ {At}
         /\ bitIndex' = NextBit

\* The column of the timing pattern belongs to no pair.
NextPair == right' = IF right - 2 = 6 THEN 5 ELSE right - 2

drawCodewords ==
    /\ pc = "draw"
    /\ SetData
    /\ j' = 1 - j
    /\ IF j = 0 THEN UNCHANGED <<right, vert, upward, pc>>
       ELSE IF vert < kSize - 1 THEN vert' = vert + 1 /\ UNCHANGED <<right, upward, pc>>
       ELSE /\ vert' = 0 /\ upward' = ~upward /\ NextPair
            /\ pc' = IF right' < 1 THEN "idle" ELSE "draw"
    /\ UNCHANGED <<text, division, reserved>>

BuildSymbol == ReedSolomonRemainder \/ drawFunctionPatterns \/ drawCodewords

-----------------------------------------------------------------------------
(* The standard's symbol, for the properties.                              *)

IsDark(c) == c \in dark
Drawn == pc = "idle" /\ codewords # <<>>

FinderPicture ==
    << <<1,1,1,1,1,1,1>>,
       <<1,0,0,0,0,0,1>>,
       <<1,0,1,1,1,0,1>>,
       <<1,0,1,1,1,0,1>>,
       <<1,0,1,1,1,0,1>>,
       <<1,0,0,0,0,0,1>>,
       <<1,1,1,1,1,1,1>> >>

AlignmentPicture ==
    << <<1,1,1,1,1>>,
       <<1,0,0,0,1>>,
       <<1,0,1,0,1>>,
       <<1,0,0,0,1>>,
       <<1,1,1,1,1>> >>

Shows(picture, left, top) ==
    \A row \in DOMAIN picture : \A column \in DOMAIN picture :
        IsDark(<<left + column - 1, top + row - 1>>) <=> picture[row][column] = 1

InCorner(c) == (c[1] < 8 /\ c[2] < 8) \/ (c[1] < 8 /\ c[2] > 20) \/ (c[1] > 20 /\ c[2] < 8)
Separator == {c \in Cells : InCorner(c) /\ (c[1] \in {7, 21} \/ c[2] \in {7, 21})}

\* The two copies of the format, bit 0 first.
FirstFormat == [i \in 1..6 |-> <<8, i - 1>>] \o << <<8, 7>>, <<8, 8>>, <<7, 8>> >>
                   \o [i \in 1..6 |-> <<6 - i, 8>>]
SecondFormat == [i \in 1..8 |-> <<29 - i, 8>>] \o [i \in 1..7 |-> <<8, 21 + i>>]

FormatWord(cells) ==
    LET value[i \in 0..Len(cells)] ==
            IF i = 0 THEN 0 ELSE value[i - 1] + (IF IsDark(cells[i]) THEN 2^(i - 1) ELSE 0)
    IN value[Len(cells)]

\* The format of level L and mask 0 under the format's own mask: a multiple of
\* x^10+x^8+x^5+x^4+x^2+x+1, so that three wrong modules can be put right.
FormatCode == {((a * 1335) ^^ (b * 2670)) ^^ (((c * 5340) ^^ (d * 10680)) ^^ (e * 21360)) :
                  a \in 0..1, b \in 0..1, c \in 0..1, d \in 0..1, e \in 0..1}
IsLowMask0(word) == word ^^ 21522 \in {f \in FormatCode : f \div 1024 = 8}

\* The modules that carry codewords, and in which order: by pairs of columns from
\* the right, up and down in turn, the right module of a pair before the left one.
DataCells ==
    {c \in Cells : /\ ~InCorner(c) /\ 6 \notin {c[1], c[2]}
                   /\ ~(c[1] \in 20..24 /\ c[2] \in 20..24)
                   /\ ~(8 \in {c[1], c[2]} /\ \E k \in {c[1], c[2]} : k > 20)
                   /\ ~(8 \in {c[1], c[2]} /\ c[1] < 9 /\ c[2] < 9)}

Reading ==
    LET Cell(k) == LET pair == k \div 58
                       row == (k % 58) \div 2
                   IN << (IF pair < 11 THEN 28 ELSE 27) - 2 * pair - (k % 2),
                         IF pair % 2 = 0 THEN 28 - row ELSE row >>
    IN SelectSeq([k \in 1..14 * 58 |-> Cell(k - 1)], LAMBDA c : c \in DataCells)

\* What stands in count bits from the given one on; mask 0 is over it.
Read(from, count) ==
    LET value[n \in 0..count] ==
            IF n = 0 THEN 0
            ELSE LET c == Reading[from + n]
                 IN 2 * value[n - 1] + (IF IsDark(c) # ((c[1] + c[2]) % 2 = 0) THEN 1 ELSE 0)
    IN value[count]

\* x times the power-th power of 2 in the field of the code.
TimesPower(x, power) ==
    LET y[n \in 0..power] ==
            IF n = 0 THEN x
            ELSE LET twice == 2 * y[n - 1] IN IF twice < 256 THEN twice ELSE twice ^^ 285
    IN y[power]

\* The codewords as a polynomial, at the power-th power of 2, by Horner's rule.
Syndrome(power) ==
    LET value[n \in 0..70] ==
            IF n = 0 THEN 0
            ELSE LET before == value[n - 1]
                     codeword == Read(8 * (n - 1), 8)
                 IN IF before = 0 THEN codeword ELSE TimesPower(before, power) ^^ codeword
    IN value[70]

-----------------------------------------------------------------------------
(* Properties.                                                             *)

\* Who scans the page gets its text: two equal formats say how to read, the mode is
\* bytes, the length and the bytes are the text's, up to the last of 53; a longer text
\* has no symbol rather than a wrong one (qr_code.h 81-127, 158-160, 190-213, 230-264).
Readable ==
    pc = "idle" =>
        IF codewords = <<>> THEN dark = {} /\ (text = <<>> \/ Len(text) > 53)
        ELSE /\ FormatWord(FirstFormat) = FormatWord(SecondFormat) /\ IsLowMask0(FormatWord(FirstFormat))
             /\ Read(0, 4) = 4 /\ Read(4, 8) = Len(text)
             /\ \A i \in DOMAIN text : Read(4 + 8 * i, 8) = text[i]

\* Glare and dirt do no harm: what is drawn is a word of the (70, 55) Reed-Solomon
\* code, with its fifteen roots, so that seven wrong codewords can be put right
\* (qr_code.h 31-79, 118-121).
Correctable == Drawn => \A power \in 0..EccCodewords - 1 : Syndrome(power) = 0

\* A camera finds the symbol and its grid: the data spares three finders with their
\* light borders, the alignment pattern, both timing lines and the dark module
\* (qr_code.h 136-188, 215-228).
PatternsShown ==
    Drawn =>
        /\ Shows(FinderPicture, 0, 0) /\ Shows(FinderPicture, 22, 0) /\ Shows(FinderPicture, 0, 22)
        /\ Shows(AlignmentPicture, 20, 20)
        /\ Separator \cap dark = {}
        /\ \A i \in 8..20 : /\ IsDark(<<i, 6>>) <=> i % 2 = 0
                            /\ IsDark(<<6, i>>) <=> i % 2 = 0
        /\ IsDark(<<8, 21>>)

-----------------------------------------------------------------------------
(* Inductive strengthening.                                                *)

\* From the first module of the walk to the end, what is reserved is as it was drawn.
PatternInv ==
    pc = "draw" \/ Drawn =>
        /\ reserved = DOMAIN FunctionPatterns
        /\ \A c \in reserved : IsDark(c) <=> FunctionPatterns[c]
===============================================================================
