---------------------------- MODULE ScreensProofs -----------------------------
(***************************************************************************)
(* Proofs about Screens.                                                   *)
(***************************************************************************)
EXTENDS Screens, MainMenuProofs, WireProofs

-----------------------------------------------------------------------------
(* The function patterns.                                                  *)

\* Where the format goes: along the two lines next to the finders.
LEMMA FormatPlaces ==
    /\ \A c \in DOMAIN drawFormatBits :
           \/ c[1] = 8 /\ c[2] \in (0..5) \cup {7, 8} \cup (21..28)
           \/ c[2] = 8 /\ c[1] \in (0..5) \cup {7} \cup (21..28)
    /\ <<8, 21>> \in DOMAIN drawFormatBits /\ drawFormatBits[<<8, 21>>]
<1> DEFINE copies == {<<i, n>> : i \in 0..14, n \in 1..2}
           Places == {FormatPlace(p[1])[p[2]] : p \in copies}
<1>1. \A i \in 0..14 : \A n \in 1..2 :
          LET c == FormatPlace(i)[n] IN
          \/ c[1] = 8 /\ c[2] \in (0..5) \cup {7, 8} \cup (21..28)
          \/ c[2] = 8 /\ c[1] \in (0..5) \cup {7} \cup (21..28)
  BY DEF FormatPlace, kSize
<1>2. \A c \in Places :
          \/ c[1] = 8 /\ c[2] \in (0..5) \cup {7, 8} \cup (21..28)
          \/ c[2] = 8 /\ c[1] \in (0..5) \cup {7} \cup (21..28)
  BY <1>1
<1>3. DOMAIN drawFormatBits = Places \cup {<<8, 21>>}
  BY DEF drawFormatBits, kSize
<1>4. drawFormatBits[<<8, 21>>]
  <2> DEFINE Of(c) == CHOOSE p \in copies : FormatPlace(p[1])[p[2]] = c
             Value(c) == c = <<8, 21>> \/ Bit(formatBits, Of(c)[1]) = 1
  <2>1. drawFormatBits = [c \in Places \cup {<<8, 21>>} |-> Value(c)]
    BY DEF drawFormatBits, kSize
  <2>2. Value(<<8, 21>>)
    OBVIOUS
  <2> HIDE DEF Value, Places
  <2> QED
    BY <2>1, <2>2, Zenon
<1> QED
  BY <1>2, <1>3, <1>4

\* What is drawn over something else is what shows.
LEMMA OverDraws ==
    ASSUME NEW later, NEW before, NEW c
    PROVE  /\ c \in DOMAIN Over(later, before) <=> c \in DOMAIN later \/ c \in DOMAIN before
           /\ c \in DOMAIN later => Over(later, before)[c] = later[c]
           /\ c \in DOMAIN before /\ c \notin DOMAIN later => Over(later, before)[c] = before[c]
BY DEF Over

\* What is neither format nor alignment shows as the timing, or the finders.
LEMMA OverPatterns ==
    ASSUME NEW c, c \notin DOMAIN drawFormatBits, c \notin DOMAIN drawAlignment(22, 22)
    PROVE  /\ c \in DOMAIN Timing =>
                 c \in DOMAIN FunctionPatterns /\ FunctionPatterns[c] = Timing[c]
           /\ c \in DOMAIN Finders \ DOMAIN Timing =>
                 c \in DOMAIN FunctionPatterns /\ FunctionPatterns[c] = Finders[c]
<1> DEFINE Lines == Over(Timing, Finders)
           Aligned == Over(drawAlignment(22, 22), Lines)
<1>1. /\ c \in DOMAIN Lines <=> c \in DOMAIN Timing \/ c \in DOMAIN Finders
      /\ c \in DOMAIN Timing => Lines[c] = Timing[c]
      /\ c \in DOMAIN Finders /\ c \notin DOMAIN Timing => Lines[c] = Finders[c]
  BY OverDraws
<1> HIDE DEF Lines
<1>2. /\ c \in DOMAIN Aligned <=> c \in DOMAIN drawAlignment(22, 22) \/ c \in DOMAIN Lines
      /\ c \in DOMAIN Lines => Aligned[c] = Lines[c]
  BY OverDraws
<1>3. FunctionPatterns = Over(drawFormatBits, Aligned)
  BY DEF FunctionPatterns, Lines
<1> HIDE DEF Aligned
<1>4. /\ c \in DOMAIN FunctionPatterns <=> c \in DOMAIN drawFormatBits \/ c \in DOMAIN Aligned
      /\ c \in DOMAIN Aligned => FunctionPatterns[c] = Aligned[c]
  BY <1>3, OverDraws
<1> QED
  BY <1>1, <1>2, <1>4

\* The three finders, with their borders, lie in three corners, and nothing is drawn over them.
LEMMA CornersAreFinders ==
    ASSUME NEW c \in Cells, InCorner(c)
    PROVE  /\ c \in DOMAIN FunctionPatterns
           /\ c[1] < 8 /\ c[2] < 8 => FunctionPatterns[c] = drawFinder(3, 3)[c]
           /\ c[1] > 20 => FunctionPatterns[c] = drawFinder(25, 3)[c]
           /\ c[2] > 20 => FunctionPatterns[c] = drawFinder(3, 25)[c]
<1>1. c \notin DOMAIN drawFormatBits
  BY FormatPlaces DEF InCorner, Cells, kSize
<1>2. c \notin DOMAIN drawAlignment(22, 22)
  BY DEF InCorner, Cells, kSize, drawAlignment, Square
<1>3. c \notin DOMAIN Timing
  BY DEF InCorner, Cells, kSize, Timing
<1>4. c \in DOMAIN drawFinder(3, 3) <=> c[1] < 8 /\ c[2] < 8
  BY DEF InCorner, Cells, kSize, drawFinder, Square
<1>5. c \in DOMAIN drawFinder(25, 3) <=> c[1] > 20
  BY DEF InCorner, Cells, kSize, drawFinder, Square
<1>6. c \in DOMAIN drawFinder(3, 25) <=> c[2] > 20
  BY DEF InCorner, Cells, kSize, drawFinder, Square
<1>7. c[1] \in 0..28 /\ c[2] \in 0..28 /\ kSize - 4 = 25
  BY DEF Cells, kSize
<1> DEFINE Right == Over(drawFinder(25, 3), drawFinder(3, 3))
<1>8. Finders = Over(drawFinder(3, 25), Right)
  BY <1>7 DEF Finders
<1>9. CASE c[1] < 8 /\ c[2] < 8
  <2>1. c \in DOMAIN Right /\ Right[c] = drawFinder(3, 3)[c]
    BY <1>4, <1>5, <1>7, <1>9, OverDraws
  <2>2. c \notin DOMAIN drawFinder(3, 25)
    BY <1>6, <1>7, <1>9
  <2> HIDE DEF Right
  <2>3. c \in DOMAIN Finders /\ Finders[c] = drawFinder(3, 3)[c]
    BY <1>8, <2>1, <2>2, OverDraws
  <2> QED
    BY <1>1, <1>2, <1>3, <1>7, <1>9, <2>3, OverPatterns
<1>10. CASE c[1] > 20
  <2>1. c \in DOMAIN Right /\ Right[c] = drawFinder(25, 3)[c]
    BY <1>5, <1>10, OverDraws
  <2>2. c \notin DOMAIN drawFinder(3, 25)
    BY <1>6, <1>7, <1>10 DEF InCorner
  <2> HIDE DEF Right
  <2>3. c \in DOMAIN Finders /\ Finders[c] = drawFinder(25, 3)[c]
    BY <1>8, <2>1, <2>2, OverDraws
  <2>4. c[2] < 8
    BY <1>7, <1>10 DEF InCorner
  <2> QED
    BY <1>1, <1>2, <1>3, <1>7, <1>10, <2>3, <2>4, OverPatterns
<1>11. CASE c[2] > 20
  <2>1. c \in DOMAIN Finders /\ Finders[c] = drawFinder(3, 25)[c]
    BY <1>6, <1>8, <1>11, OverDraws
  <2>2. c[1] < 8
    BY <1>7, <1>11 DEF InCorner
  <2> QED
    BY <1>1, <1>2, <1>3, <1>7, <1>11, <2>1, <2>2, OverPatterns
<1> QED
  BY <1>7, <1>9, <1>10, <1>11 DEF InCorner

\* The picture of a finder is drawFinder's, three modules from its middle on.
LEMMA FinderDrawn ==
    ASSUME NEW cx \in {3, 25}, NEW cy \in {3, 25}, NEW row \in 1..7, NEW column \in 1..7,
           NEW c \in Cells, c[1] = cx + column - 4, c[2] = cy + row - 4
    PROVE  /\ c \in Square(cx, cy, 4)
           /\ c \notin Ring(cx, cy, 2) \cup Ring(cx, cy, 4) <=> FinderPicture[row][column] = 1
<1>1. c = <<cx + column - 4, cy + row - 4>>
  BY DEF Cells, kSize
<1>2. c \in Square(cx, cy, 4)
  BY <1>1 DEF Square
<1>3. c \notin Ring(cx, cy, 4)
  BY <1>1 DEF Ring, Square
<1>4. c \in Ring(cx, cy, 2) <=> row \in 2..6 /\ column \in 2..6 /\ ~(row \in 3..5 /\ column \in 3..5)
  BY <1>1 DEF Ring, Square
<1>5. FinderPicture[row][column] = 1
          <=> ~(row \in 2..6 /\ column \in 2..6 /\ ~(row \in 3..5 /\ column \in 3..5))
  BY DEF FinderPicture
<1> QED
  BY <1>2, <1>3, <1>4, <1>5

\* What is drawn later leaves the alignment pattern and the timing lines as they are.
LEMMA AlignmentDrawn ==
    ASSUME NEW row \in 1..5, NEW column \in 1..5
    PROVE  /\ <<19 + column, 19 + row>> \in DOMAIN FunctionPatterns
           /\ FunctionPatterns[<<19 + column, 19 + row>>] <=> AlignmentPicture[row][column] = 1
<1> DEFINE c == <<19 + column, 19 + row>>
           Before == Over(Timing, Finders)
           Aligned == Over(drawAlignment(22, 22), Before)
<1>1. c \in Cells /\ c[1] - 22 = column - 3 /\ c[2] - 22 = row - 3
  BY DEF Cells, kSize
<1>2. c \notin DOMAIN drawFormatBits
  BY FormatPlaces
<1>3. c \in DOMAIN drawAlignment(22, 22)
  BY <1>1 DEF drawAlignment, Square
<1>4. drawAlignment(22, 22)[c] <=> c \notin Ring(22, 22, 1)
  BY <1>3 DEF drawAlignment
<1>5. c \in Ring(22, 22, 1) <=> row \in 2..4 /\ column \in 2..4 /\ ~(row = 3 /\ column = 3)
  BY <1>1 DEF Ring, Square
<1>6. AlignmentPicture[row][column] = 1
          <=> ~(row \in 2..4 /\ column \in 2..4 /\ ~(row = 3 /\ column = 3))
  BY DEF AlignmentPicture
<1> HIDE DEF c, Before
<1>7. c \in DOMAIN Aligned /\ Aligned[c] = drawAlignment(22, 22)[c]
  BY <1>3, OverDraws
<1>8. FunctionPatterns = Over(drawFormatBits, Aligned)
  BY DEF FunctionPatterns, Before
<1> HIDE DEF Aligned
<1>9. c \in DOMAIN FunctionPatterns /\ FunctionPatterns[c] = Aligned[c]
  BY <1>2, <1>7, <1>8, OverDraws
<1> QED
  BY <1>4, <1>5, <1>6, <1>7, <1>9 DEF c

\* The timing modules alternate in the picture of the reserved modules, dark on even places.
LEMMA TimingDrawn ==
    ASSUME NEW i \in 8..20, NEW c \in {<<i, 6>>, <<6, i>>}
    PROVE  c \in DOMAIN FunctionPatterns /\ (FunctionPatterns[c] <=> i % 2 = 0)
<1>1. c \in Cells /\ 6 \in {c[1], c[2]} /\ c[1] + c[2] = i + 6
  BY DEF Cells, kSize
<1>2. c \notin DOMAIN drawFormatBits
  BY FormatPlaces
<1>3. c \notin DOMAIN drawAlignment(22, 22)
  BY DEF drawAlignment, Square
<1>4. c \in DOMAIN Timing /\ (Timing[c] <=> (c[1] + c[2]) % 2 = 0)
  <2>1. c \in DOMAIN Timing
    BY <1>1 DEF Timing, kSize
  <2> QED
    BY <2>1 DEF Timing
<1>5. (c[1] + c[2]) % 2 = 0 <=> i % 2 = 0
  BY <1>1
<1> QED
  BY <1>2, <1>3, <1>4, <1>5, OverPatterns

\* The module at (8, 21) is reserved and dark in every symbol.
LEMMA DarkModuleDrawn ==
    <<8, 21>> \in DOMAIN FunctionPatterns /\ FunctionPatterns[<<8, 21>>]
<1> DEFINE c == <<8, 21>>
           Before == Over(drawAlignment(22, 22), Over(Timing, Finders))
<1>1. FunctionPatterns = Over(drawFormatBits, Before)
  BY DEF FunctionPatterns
<1> HIDE DEF Before
<1> QED
  BY <1>1, FormatPlaces, OverDraws

\* A symbol whose reserved modules are as they were drawn has what a camera looks for.
LEMMA SymbolShowsPatterns == PatternInv => PatternsShown
<1> SUFFICES ASSUME PatternInv, Drawn PROVE PatternsShown
  BY DEF PatternsShown
<1>1. \A c \in DOMAIN FunctionPatterns : IsDark(c) <=> FunctionPatterns[c]
  BY DEF PatternInv
<1>2. ASSUME NEW cx \in {3, 25}, NEW cy \in {3, 25}, cx = 3 \/ cy = 3
      PROVE  Shows(FinderPicture, cx - 3, cy - 3)
  <2> SUFFICES ASSUME NEW row \in 1..7, NEW column \in 1..7
               PROVE  IsDark(<<cx - 3 + column - 1, cy - 3 + row - 1>>) <=> FinderPicture[row][column] = 1
    <3>1. DOMAIN FinderPicture = 1..7
      BY DEF FinderPicture
    <3> QED
      BY <3>1 DEF Shows
  <2>1. PICK c : c = <<cx + column - 4, cy + row - 4>>
    OBVIOUS
  <2>2. drawFinder(cx, cy)[c] <=> FinderPicture[row][column] = 1
    <3>1. /\ c \in Square(cx, cy, 4)
          /\ c \notin Ring(cx, cy, 2) \cup Ring(cx, cy, 4) <=> FinderPicture[row][column] = 1
      <4>1. c \in Cells /\ c[1] = cx + column - 4 /\ c[2] = cy + row - 4
        BY <2>1 DEF Cells, kSize
      <4> HIDE <1>1, <1>2
      <4> QED
        BY <4>1, FinderDrawn, SMTT(30)
    <3> QED
      BY <3>1 DEF drawFinder
  <2>3. c \in Cells /\ InCorner(c)
    BY <1>2, <2>1 DEF Cells, kSize, InCorner
  <2>4. c \in DOMAIN FunctionPatterns /\ FunctionPatterns[c] = drawFinder(cx, cy)[c]
    <3>1. CASE cx = 25
      BY <2>1, <2>3, <3>1, <1>2, CornersAreFinders
    <3>2. CASE cy = 25
      BY <2>1, <2>3, <3>2, <1>2, CornersAreFinders
    <3>3. CASE cx = 3 /\ cy = 3
      BY <2>1, <2>3, <3>3, CornersAreFinders
    <3> QED
      BY <3>1, <3>2, <3>3
  <2>5. c = <<cx - 3 + column - 1, cy - 3 + row - 1>>
    BY <2>1
  <2> QED
    BY <1>1, <2>2, <2>4, <2>5
<1>3. Shows(AlignmentPicture, 20, 20)
  <2> SUFFICES ASSUME NEW row \in 1..5, NEW column \in 1..5
               PROVE  IsDark(<<20 + column - 1, 20 + row - 1>>) <=> AlignmentPicture[row][column] = 1
    <3>1. DOMAIN AlignmentPicture = 1..5
      BY DEF AlignmentPicture
    <3> QED
      BY <3>1 DEF Shows
  <2>1. <<20 + column - 1, 20 + row - 1>> = <<19 + column, 19 + row>>
    OBVIOUS
  <2> QED
    BY <1>1, <2>1, AlignmentDrawn
<1>4. Separator \cap dark = {}
  <2> SUFFICES ASSUME NEW c \in Separator PROVE ~IsDark(c)
    BY DEF IsDark
  <2>1. c \in Cells /\ InCorner(c) /\ (c[1] \in {7, 21} \/ c[2] \in {7, 21})
    BY DEF Separator
  <2>2. c \in DOMAIN FunctionPatterns
    BY <2>1, CornersAreFinders
  <2>3. ASSUME NEW cx \in {3, 25}, NEW cy \in {3, 25}, c \in Square(cx, cy, 4),
               c \notin Square(cx, cy, 3)
        PROVE  ~drawFinder(cx, cy)[c]
    <3>1. c \in Ring(cx, cy, 4)
      BY <2>3 DEF Ring
    <3> QED
      BY <2>3, <3>1 DEF drawFinder
  <2>4. ~FunctionPatterns[c]
    <3>1. CASE c[1] < 8 /\ c[2] < 8
      BY <2>1, <2>3, <3>1, CornersAreFinders DEF Square, Cells, kSize
    <3>2. CASE c[1] > 20
      BY <2>1, <2>3, <3>2, CornersAreFinders DEF Square, Cells, kSize, InCorner
    <3>3. CASE c[2] > 20
      BY <2>1, <2>3, <3>3, CornersAreFinders DEF Square, Cells, kSize, InCorner
    <3> QED
      BY <2>1, <3>1, <3>2, <3>3 DEF InCorner, Cells, kSize
  <2> QED
    BY <1>1, <2>2, <2>4
<1>5. \A i \in 8..20 : (IsDark(<<i, 6>>) <=> i % 2 = 0) /\ (IsDark(<<6, i>>) <=> i % 2 = 0)
  <2> SUFFICES ASSUME NEW i \in 8..20, NEW c \in {<<i, 6>>, <<6, i>>}
               PROVE  IsDark(c) <=> i % 2 = 0
    OBVIOUS
  <2> QED
    BY <1>1, TimingDrawn
<1>6. IsDark(<<8, 21>>)
  BY <1>1, DarkModuleDrawn
<1>7. /\ Shows(FinderPicture, 0, 0) /\ Shows(FinderPicture, 22, 0)
      /\ Shows(FinderPicture, 0, 22)
  <2>1. 3 - 3 = 0 /\ 25 - 3 = 22
    OBVIOUS
  <2>2. Shows(FinderPicture, 3 - 3, 3 - 3)
    BY <1>2
  <2>3. Shows(FinderPicture, 25 - 3, 3 - 3)
    BY <1>2
  <2>4. Shows(FinderPicture, 3 - 3, 25 - 3)
    BY <1>2
  <2> QED
    BY <2>1, <2>2, <2>3, <2>4
<1> QED
  BY <1>3, <1>4, <1>5, <1>6, <1>7 DEF PatternsShown

-----------------------------------------------------------------------------
(* The symbol.                                                             *)

\* The walk writes to one module, and only to one that is not reserved.
LEMMA WalkSpares ==
    ASSUME drawCodewords, NEW c \in reserved
    PROVE  IsDark(c)' <=> IsDark(c)
<1>1. CASE isReserved(At)
  BY <1>1 DEF drawCodewords, SetData, IsDark
<1>2. CASE ~isReserved(At)
  <2>1. c # At
    BY <1>2 DEF isReserved
  <2>2. dark' \in {dark \cup {At}, dark \ {At}}
    BY <1>2 DEF drawCodewords, SetData
  <2> QED
    BY <2>1, <2>2 DEF IsDark
<1> QED
  BY <1>1, <1>2

\* What happens to the symbol on the page.
SymbolStep ==
    \/ \E t : GenerateLoginQrMatrix(t)
    \/ BuildSymbol
    \/ codewords' = <<>> /\ pc' = pc /\ pc = "idle"
    \/ UNCHANGED qrVars

\* Neither building a symbol, nor choosing its mask, nor clearing it redraws a reserved module.
LEMMA PatternStep == PatternInv /\ SymbolStep => PatternInv'
<1> SUFFICES ASSUME PatternInv, SymbolStep PROVE PatternInv'
  OBVIOUS
<1> USE DEF PatternInv, Drawn
<1>1. ASSUME NEW t, GenerateLoginQrMatrix(t) PROVE PatternInv'
  BY <1>1 DEF GenerateLoginQrMatrix
<1>2. CASE ReedSolomonRemainder
  BY <1>2 DEF ReedSolomonRemainder
<1>3. CASE drawFunctionPatterns
  BY <1>3 DEF drawFunctionPatterns, IsDark
<1>4. CASE drawCodewords
  <2>1. pc = "draw" /\ reserved' = reserved
    BY <1>4 DEF drawCodewords
  <2>2. FunctionPatterns' = FunctionPatterns
    OBVIOUS
  <2> QED
    BY <1>4, <2>1, WalkSpares
<1>5. CASE codewords' = <<>> /\ pc' = pc /\ pc = "idle"
  BY <1>5
<1>6. CASE UNCHANGED qrVars
  BY <1>6 DEF qrVars, division, IsDark
<1> QED
  BY <1>1, <1>2, <1>3, <1>4, <1>5, <1>6 DEF SymbolStep, BuildSymbol

\* Whatever the screens do is one of that.
LEMMA ScreensStepIsSymbolStep == [ScreensNext]_screenVars => SymbolStep
<1> SUFFICES ASSUME [ScreensNext]_screenVars PROVE SymbolStep
  OBVIOUS
<1> USE DEF SymbolStep
<1>1. CASE SignIn
  <2>1. ASSUME NEW f \in Forms, PostForm(f) PROVE SymbolStep
    BY <2>1 DEF PostForm
  <2>2. ASSUME NEW t \in Tokens, PostJson(t) PROVE SymbolStep
    BY <2>2 DEF PostJson
  <2>3. ASSUME NEW a \in Answers, NEW s \in Styles, Answer(a, s) PROVE SymbolStep
    BY <2>3 DEF Answer
  <2>4. CASE RequestDeviceCode
    BY <2>4 DEF RequestDeviceCode
  <2>5. CASE ReadAnswer
    BY <2>5 DEF ReadAnswer
  <2>6. CASE Draw
    BY <2>6 DEF Draw
  <2>7. CASE LeavePage
    BY <2>7 DEF LeavePage
  <2> QED
    BY <1>1, <2>1, <2>2, <2>3, <2>4, <2>5, <2>6, <2>7 DEF SignIn, Next
<1>2. CASE OpenMenu \/ InMenu
  BY <1>2 DEF OpenMenu, InMenu, pageVars
<1>3. CASE UNCHANGED screenVars
  BY <1>3 DEF screenVars, pageVars
<1> QED
  BY <1>1, <1>2, <1>3 DEF ScreensNext

\* A camera finds every symbol that is shown, whatever its text: the walk over the
\* modules spares all patterns (qr_code.h 136-188, 215-265).
THEOREM PatternsCorrect == ScreensSpec => []PatternsShown
<1>1. ScreensInit => PatternInv
  BY DEF ScreensInit, Init, QrInit, PatternInv, Drawn
<1>2. PatternInv /\ [ScreensNext]_screenVars => PatternInv'
  BY PatternStep, ScreensStepIsSymbolStep
<1> QED
  BY <1>1, <1>2, SymbolShowsPatterns, PTL DEF ScreensSpec

-----------------------------------------------------------------------------
(* The page.                                                               *)

\* What is read is what a service wrote of an answer, and the page has its code.
PageInv ==
    /\ step = "read" =>
           answer \in Answers /\ \E style \in Styles : content = Written(answer, style)
    /\ PageShowsIssuedCode

\* A key that is looked for is a word.
LEMMA KeysAreWords == \A key \in Searched : key \in Atom /\ key \notin Marks
<1> SUFFICES ASSUME NEW key \in Searched PROVE key \in Atom /\ key \notin Marks
  OBVIOUS
<1>1. CASE key \in Fields
  <2>1. key \in Atom
    BY <1>1 DEF Fields, Atom
  <2>2. key # Quote /\ key # Backslash /\ key # Colon /\ key # Delimiter /\ key # Closing
    BY <1>1, Zenon DEF Fields, Quote, Backslash, Colon, Delimiter, Closing
  <2> QED
    BY <2>1, <2>2 DEF Marks
<1>2. CASE key \notin Fields
  <2>1. PICK a \in Answers : \E m \in Members(a) : key = m.key
    BY <1>2 DEF Searched, KeysOf
  <2>5. PICK m \in Members(a) : key = m.key
    BY <2>1
  <2>2. m \in Member /\ m # End
    BY <2>5, AnswersAssumption DEF IsSearchable, Members, Member
  <2>3. m.key \in Words
    BY <2>2 DEF Member
  <2>4. Words = STRING \ Marks
    BY Zenon DEF Words, Marks, Colon, Delimiter, Closing
  <2> QED
    BY <2>3, <2>4, <2>5 DEF Atom
<1> QED
  BY <1>1, <1>2

\* What a service wrote is read as StringsAreRead says.
LEMMA AnswerIsRead == PageInv => StringsAreRead
<1> SUFFICES ASSUME PageInv, step = "read"
             PROVE  \E style \in Styles :
                        /\ content = Written(answer, style)
                        /\ \A key \in Searched :
                               LET value == ExtractJsonStringValue(content, key)
                                   first == FirstOf(answer, key)
                               IN IF key \notin KeysOf(answer) THEN value = <<>>
                                  ELSE first.kind = "string" =>
                                           /\ value = Heard(first.text, style)
                                           /\ IsPlain(first.text, style) => value = first.text
  BY DEF StringsAreRead
<1>1. PICK style \in Styles : content = Written(answer, style)
  BY DEF PageInv
<1>2. IsSearchable(answer, Searched) /\ style \in Style
  BY AnswersAssumption, StylesAssumption DEF PageInv
<1>3. \A key \in Searched : key \in Atom /\ key \notin Marks
  BY KeysAreWords
<1>4. ASSUME NEW key \in Searched
      PROVE  /\ key \notin KeysOf(answer) =>
                    ExtractJsonStringValue(Written(answer, style), key) = <<>>
             /\ key \in KeysOf(answer) /\ FirstOf(answer, key).kind = "string" =>
                    LET said == FirstOf(answer, key).text
                    IN /\ ExtractJsonStringValue(Written(answer, style), key) = Heard(said, style)
                       /\ IsPlain(said, style) =>
                              ExtractJsonStringValue(Written(answer, style), key) = said
  BY <1>2, <1>3, StringsAreFound
<1> QED
  BY <1>1, <1>4, Zenon

\* The value of the first member with a key is one of the values with it.
LEMMA FirstIsValue ==
    ASSUME NEW a \in Answers, "user_code" \in KeysOf(a)
    PROVE  FirstOf(a, "user_code") \in ValuesOf(a, "user_code")
<1> DEFINE key == "user_code"
           K == {n \in DOMAIN a : a[n] # End /\ a[n].key = key}
<1>1. DOMAIN a \subseteq Nat
  BY AnswersAssumption DEF IsSearchable
<1>2. \E n \in DOMAIN a : a[n] # End /\ a[n].key = key
  BY DEF KeysOf, Members
<1>3. K \subseteq Nat /\ K # {}
  BY <1>1, <1>2
<1>4. Min(K) = CHOOSE i \in K : \A k \in K : i <= k
  BY DEF Min
<1>5. FirstOf(a, key) = a[Min(K)].value
  BY Zenon DEF FirstOf
<1> HIDE DEF K, key
<1>6. \E i \in K : \A k \in K : i <= k
  BY <1>3, LeastNumber
<1>7. PICK i \in K : i = Min(K)
  BY <1>4, <1>6, Zenon
<1>8. i \in DOMAIN a /\ a[i] # End /\ a[i].key = key
  BY DEF K
<1>9. a[i] \in Members(a)
  BY <1>8 DEF Members
<1>10. a[i].value \in ValuesOf(a, key)
  BY <1>8, <1>9 DEF ValuesOf
<1> QED
  BY <1>5, <1>7, <1>10 DEF key

\* A user code is written as it is.
LEMMA CodesArePlain ==
    ASSUME NEW code \in Seq(DOMAIN Ascii), NEW style
    PROVE  IsPlain(code, style)
<1>1. \A i \in DOMAIN code : code[i] \in DOMAIN Ascii
  OBVIOUS
<1>2. \A c \in DOMAIN Ascii : c \notin Optional /\ c \notin DOMAIN Letter /\ c \notin DOMAIN Coded
  BY CodesAssumption
<1> QED
  BY <1>1, <1>2 DEF IsPlain, IsNumbered

\* The user code that is read is that of the answer.
LEMMA UserCodeIsIssued ==
    ASSUME PageInv, RequestDeviceCode
    PROVE  UserCode = FirstOf(answer, "user_code").text /\ UserCode \in Seq(DOMAIN Ascii)
<1>1. step = "read" /\ answer \in Answers
  BY DEF PageInv, RequestDeviceCode
<1>2. "user_code" \in Searched /\ UserCode # <<>>
  BY DEF Searched, Fields, RequestDeviceCode, UserCode
<1>3. PICK style \in Styles :
          LET first == FirstOf(answer, "user_code")
          IN IF "user_code" \notin KeysOf(answer) THEN UserCode = <<>>
             ELSE first.kind = "string" => (IsPlain(first.text, style) => UserCode = first.text)
  BY <1>1, <1>2, AnswerIsRead, Zenon DEF StringsAreRead, UserCode
<1>4. "user_code" \in KeysOf(answer)
  BY <1>2, <1>3
<1>5. FirstOf(answer, "user_code") \in ValuesOf(answer, "user_code")
  BY <1>1, <1>4, FirstIsValue
<1>6. FirstOf(answer, "user_code").kind = "string" /\ FirstOf(answer, "user_code").text \in Seq(DOMAIN Ascii)
  BY <1>1, <1>5, CodesAssumption
<1>7. IsPlain(FirstOf(answer, "user_code").text, style)
  BY <1>6, CodesArePlain
<1> QED
  BY <1>3, <1>4, <1>6, <1>7

\* The answer gives the page its code.
LEMMA IssuedCodeIsShown ==
    ASSUME PageInv, RequestDeviceCode
    PROVE  PageShowsIssuedCode'
<1>1. answer' = answer
  BY DEF RequestDeviceCode, httpVars
<1>2. text' = Address \o [i \in DOMAIN UserCode |-> Ascii[UserCode[i]]]
  BY DEF RequestDeviceCode, GenerateLoginQrMatrix
<1> QED
  BY <1>1, <1>2, UserCodeIsIssued, Zenon DEF PageShowsIssuedCode

\* Every step of the screens keeps what the page owes to the answer it was read from.
LEMMA PageStep ==
    ASSUME PageInv, [ScreensNext]_screenVars
    PROVE  PageInv'
<1>1. ASSUME UNCHANGED <<step, answer, content, text>> PROVE PageInv'
  BY <1>1 DEF PageInv, PageShowsIssuedCode
<1>2. ASSUME step' \notin {"read", "page"} PROVE PageInv'
  BY <1>2 DEF PageInv, PageShowsIssuedCode
<1>3. CASE SignIn
  <2>1. ASSUME NEW f \in Forms, PostForm(f) PROVE PageInv'
    BY <1>2, <2>1 DEF PostForm
  <2>2. ASSUME NEW t \in Tokens, PostJson(t) PROVE PageInv'
    BY <1>2, <2>2 DEF PostJson
  <2>3. ASSUME NEW a \in Answers, NEW s \in Styles, Answer(a, s) PROVE PageInv'
    BY <2>3 DEF Answer, PageInv, PageShowsIssuedCode
  <2>4. CASE RequestDeviceCode
    BY <2>4, IssuedCodeIsShown DEF RequestDeviceCode, PageInv
  <2>5. CASE ReadAnswer
    BY <1>2, <2>5 DEF ReadAnswer
  <2>6. CASE Draw
    BY <1>1, <2>6 DEF Draw, httpVars, BuildSymbol, ReedSolomonRemainder, drawFunctionPatterns,
                      drawCodewords
  <2>7. CASE LeavePage
    BY <1>2, <2>7 DEF LeavePage
  <2> QED
    BY <1>3, <2>1, <2>2, <2>3, <2>4, <2>5, <2>6, <2>7 DEF SignIn, Next
<1>4. CASE OpenMenu \/ InMenu \/ UNCHANGED screenVars
  BY <1>1, <1>4 DEF OpenMenu, InMenu, screenVars, pageVars, qrVars, httpVars
<1> QED
  BY <1>3, <1>4 DEF ScreensNext

\* The invariant of the page.
LEMMA PageInvCorrect == ScreensSpec => []PageInv
<1>1. ScreensInit => PageInv
  BY DEF ScreensInit, Init, PageInv, PageShowsIssuedCode
<1>2. PageInv /\ [ScreensNext]_screenVars => PageInv'
  BY PageStep
<1> QED
  BY <1>1, <1>2, PTL DEF ScreensSpec

\* In every answer that IsSearchable, however it spaces and escapes, the search for a key
\* gives the text of the first member with that key, less the backslash of a character that
\* is written by a letter or a number, and nothing when there is none (App.cpp 851-880).
THEOREM StringsCorrect == ScreensSpec => []StringsAreRead
BY PageInvCorrect, AnswerIsRead, PTL

\* The page leads to the code the service issued, and to no other text of the answer, one
\* with the words of a key in it among them (App.cpp 851-880, 1961-1986, 2244).
THEOREM PageCorrect == ScreensSpec => []PageShowsIssuedCode
<1>1. PageInv => PageShowsIssuedCode
  BY DEF PageInv
<1> QED
  BY <1>1, PageInvCorrect, PTL

-----------------------------------------------------------------------------
(* The requests.                                                           *)

\* What is under way is what was written.
RequestInv ==
    /\ sent.kind = "form" => sent.fields \in Forms /\ body = MakeFormBody(sent.fields)
    /\ sent.kind = "json" =>
           /\ sent.token \in Tokens
           /\ body = <<"{", Quote, "identityToken", Quote, ":", Quote>>
                     \o JsonEscape(sent.token) \o <<Quote, "}">>

\* A sequence of six.
LEMMA SixAtoms ==
    ASSUME NEW X, NEW a \in X, NEW b \in X, NEW c \in X, NEW d \in X, NEW e \in X, NEW f \in X
    PROVE  <<a, b, c, d, e, f>> \in Seq(X) /\ Len(<<a, b, c, d, e, f>>) = 6
OBVIOUS

\* What follows a beginning.
LEMMA BehindLead ==
    ASSUME NEW X, NEW lead \in Seq(X), NEW e \in Seq(X), NEW p \in Nat \ {0}, p = Len(lead) + 1
    PROVE  SubSeq(lead \o e, p, Len(lead \o e)) = e
<1> DEFINE w == lead \o e
<1>1. w \in Seq(X) /\ Len(w) = Len(lead) + Len(e) /\ Len(lead) \in Nat /\ Len(e) \in Nat
  BY Appended
<1>2. PICK one \in Nat \ {0} : one = 1
  OBVIOUS
<1>3. Holds(w, one, lead \o e)
  BY <1>1, <1>2, HoldsAll
<1> HIDE DEF w
<1>4. Holds(w, one + Len(lead), e)
  BY <1>1, <1>3, HoldsTwo
<1>5. one + Len(lead) = p
  BY <1>1, <1>2
<1>6. SubSeq(w, p, p + Len(e) - 1) = e
  BY <1>1, <1>4, <1>5, HoldsCut
<1>7. p + Len(e) - 1 = Len(w)
  BY <1>1
<1> QED
  BY <1>6, <1>7 DEF w

\* What was written is read as it was meant.
LEMMA WrittenIsRead == RequestInv => RequestsAreRead
<1> SUFFICES ASSUME RequestInv PROVE RequestsAreRead
  OBVIOUS
<1>1. STRING \subseteq Atom
  BY DEF Atom
<1>2. ASSUME sent.kind = "form" PROVE FormFields(body) = sent.fields
  <2>1. PICK f \in Forms : f = sent.fields /\ body = MakeFormBody(f)
    BY <1>2 DEF RequestInv
  <2>2. f \in Seq(Seq(STRING) \X Seq(STRING)) /\ f # <<>>
    BY RequestsAssumption
  <2>3. Seq(STRING) \subseteq Seq(Atom)
    BY <1>1, SeqMonotonic
  <2>4. Seq(STRING) \X Seq(STRING) \subseteq Seq(Atom) \X Seq(Atom)
    BY <2>3
  <2>5. f \in Seq(Seq(Atom) \X Seq(Atom))
    BY <2>2, <2>4, SeqMonotonic
  <2> QED
    BY <2>1, <2>2, <2>5, FormBodyRoundTrip
<1>3. ASSUME sent.kind = "json" PROVE JsonString(SubSeq(body, 7, Len(body))) = sent.token
  <2>1. PICK t \in Tokens :
            /\ t = sent.token
            /\ body = <<"{", Quote, "identityToken", Quote, ":", Quote>>
                      \o JsonEscape(t) \o <<Quote, "}">>
    BY <1>3 DEF RequestInv
  <2>2. t \in Seq(Atom)
    BY <1>1, RequestsAssumption, SeqMonotonic
  <2> DEFINE X == Atom \cup {"{", "identityToken", ":"}
  <2>3. JsonEscape(t) \in Seq(X)
    BY <2>2, EscapedIsText, SeqMonotonic
  <2>4. Quote \in X /\ "}" \in X /\ "{" \in X /\ "identityToken" \in X /\ ":" \in X
    BY DEF Atom
  <2> HIDE DEF X
  <2>5. /\ <<"{", Quote, "identityToken", Quote, ":", Quote>> \in Seq(X)
        /\ Len(<<"{", Quote, "identityToken", Quote, ":", Quote>>) = 6
        /\ <<Quote, "}">> \in Seq(X)
    BY <2>4, SixAtoms, PairOf
  <2>6. SubSeq(body, 7, Len(body)) = JsonEscape(t) \o <<Quote, "}">>
    <3>1. PICK lead \in Seq(X), end \in Seq(X), token \in Seq(X) :
              /\ lead = <<"{", Quote, "identityToken", Quote, ":", Quote>> /\ Len(lead) = 6
              /\ end = <<Quote, "}">> /\ token = JsonEscape(t)
      BY <2>3, <2>5
    <3>2. body = lead \o token \o end
      BY <2>1, <3>1
    <3>3. PICK e \in Seq(X) : e = token \o end
      BY ConcatProperties
    <3>7. (lead \o token) \o end = lead \o (token \o end)
      BY ConcatAssociative
    <3>4. body = lead \o e
      BY <3>2, <3>3, <3>7
    <3>8. Len(lead) = 6
      BY <3>1
    <3>5. PICK p \in Nat \ {0} : p = 7 /\ p = Len(lead) + 1
      BY <3>8
    <3>6. SubSeq(body, p, Len(body)) = e
      BY <3>4, <3>5, BehindLead
    <3> QED
      BY <3>1, <3>3, <3>5, <3>6
  <2> QED
    BY <2>1, <2>2, <2>6, JsonRoundTrip
<1> QED
  BY <1>2, <1>3 DEF RequestsAreRead

\* The fields and the token of every request are read as they were meant, for any forms
\* and tokens and whatever characters are in them (App.cpp 911-963).
THEOREM RequestsCorrect == ScreensSpec => []RequestsAreRead
<1>1. ScreensInit => RequestInv
  BY DEF ScreensInit, Init, Nothing, RequestInv
<1>2. RequestInv /\ [ScreensNext]_screenVars => RequestInv'
  <2> SUFFICES ASSUME RequestInv, [ScreensNext]_screenVars PROVE RequestInv'
    OBVIOUS
  <2>1. ASSUME UNCHANGED <<sent, body>> PROVE RequestInv'
    BY <2>1 DEF RequestInv
  <2>2. CASE SignIn
    <3>1. ASSUME NEW f \in Forms, PostForm(f) PROVE RequestInv'
      BY <3>1 DEF PostForm, RequestInv
    <3>2. ASSUME NEW t \in Tokens, PostJson(t) PROVE RequestInv'
      BY <3>2 DEF PostJson, RequestInv
    <3>3. ASSUME NEW a \in Answers, NEW s \in Styles, Answer(a, s) PROVE RequestInv'
      BY <3>3 DEF Answer, Nothing, RequestInv
    <3>4. CASE RequestDeviceCode
      BY <2>1, <3>4 DEF RequestDeviceCode, httpVars
    <3>5. CASE ReadAnswer
      BY <2>1, <3>5 DEF ReadAnswer
    <3>6. CASE Draw
      BY <2>1, <3>6 DEF Draw, httpVars
    <3>7. CASE LeavePage
      BY <2>1, <3>7 DEF LeavePage
    <3> QED
      BY <2>2, <3>1, <3>2, <3>3, <3>4, <3>5, <3>6, <3>7 DEF SignIn, Next
  <2>3. CASE OpenMenu \/ InMenu \/ UNCHANGED screenVars
    BY <2>1, <2>3 DEF OpenMenu, InMenu, screenVars, pageVars, httpVars
  <2> QED
    BY <2>2, <2>3 DEF ScreensNext
<1> QED
  BY <1>1, <1>2, WrittenIsRead, PTL DEF ScreensSpec

-----------------------------------------------------------------------------
(* One screen at a time.                                                   *)

\* The menu is open, or the launcher signs somebody in, and a symbol is there only on
\* the page.
OneScreen ==
    /\ open => step = "post"
    /\ step \in {"post", "wait", "read", "page"}
    /\ step # "page" => pc = "idle" /\ codewords = <<>>

\* One thread draws: no menu opens over a page, and no page is left with its symbol
\* (App.cpp 2041-2140, 3011-3026).
LEMMA OneScreenCorrect == ScreensSpec => []OneScreen
<1>1. ScreensInit => OneScreen
  BY DEF ScreensInit, Init, QrInit, MenuInit, OneScreen
<1>2. OneScreen /\ [ScreensNext]_screenVars => OneScreen'
  <2> SUFFICES ASSUME OneScreen, [ScreensNext]_screenVars PROVE OneScreen'
    OBVIOUS
  <2> USE DEF OneScreen
  <2>1. CASE SignIn
    <3>1. ~open'
      BY <2>1 DEF SignIn, menuVars
    <3>2. ASSUME NEW f \in Forms, PostForm(f) PROVE OneScreen'
      BY <3>1, <3>2 DEF PostForm, qrVars, division
    <3>3. ASSUME NEW t \in Tokens, PostJson(t) PROVE OneScreen'
      BY <3>1, <3>3 DEF PostJson, qrVars, division
    <3>4. ASSUME NEW a \in Answers, NEW s \in Styles, Answer(a, s) PROVE OneScreen'
      BY <3>1, <3>4 DEF Answer, qrVars, division
    <3>5. CASE RequestDeviceCode
      BY <3>1, <3>5 DEF RequestDeviceCode
    <3>6. CASE ReadAnswer
      BY <3>1, <3>6 DEF ReadAnswer, qrVars, division
    <3>7. CASE Draw
      BY <3>1, <3>7 DEF Draw
    <3>8. CASE LeavePage
      BY <3>1, <3>8 DEF LeavePage
    <3> QED
      BY <2>1, <3>2, <3>3, <3>4, <3>5, <3>6, <3>7, <3>8 DEF SignIn, Next
  <2>2. CASE OpenMenu \/ InMenu
    <3>1. UNCHANGED <<step, pc, codewords>>
      BY <2>2 DEF OpenMenu, InMenu, pageVars, qrVars, division
    <3>2. open' => step = "post"
      BY <2>2 DEF OpenMenu, InMenu, Turn, KeyMoves
    <3> QED
      BY <3>1, <3>2
  <2>3. CASE UNCHANGED screenVars
    BY <2>3 DEF screenVars, pageVars, qrVars, division, menuVars
  <2> QED
    BY <2>1, <2>2, <2>3 DEF ScreensNext
<1> QED
  BY <1>1, <1>2, PTL DEF ScreensSpec

-----------------------------------------------------------------------------
(* Codewords are bytes.                                                    *)

\* What the places of four bits weigh.
LEMMA Weights ==
    /\ 2^0 = 1 /\ 2^1 = 2 /\ 2^2 = 4 /\ 2^3 = 8
    /\ 16^0 = 1 /\ 16^1 = 16 /\ 16^2 = 256 /\ 16^3 = 4096
OBVIOUS

\* A bit is 0 or 1.
LEMMA BitIsBit == ASSUME NEW value \in Nat, NEW i \in Nat PROVE Bit(value, i) \in 0..1
BY DEF Bit

\* What HalfByte is of, and what it makes of equal bits.
LEMMA HalfBytes ==
    /\ \A a, b \in 0..15 : HalfByte[a][b] \in 0..15
    /\ HalfByte[0][0] = 0 /\ HalfByte[1][1] = 0
<1>1. ASSUME NEW a \in 0..15, NEW b \in 0..15 PROVE HalfByte[a][b] \in 0..15
  <2>1. ASSUME NEW i \in Nat PROVE Bit(a, i) \in 0..1 /\ Bit(b, i) \in 0..1
    BY BitIsBit
  <2>2. HalfByte[a][b] = 1 * ((Bit(a, 0) + Bit(b, 0)) % 2) + 2 * ((Bit(a, 1) + Bit(b, 1)) % 2)
                       + 4 * ((Bit(a, 2) + Bit(b, 2)) % 2) + 8 * ((Bit(a, 3) + Bit(b, 3)) % 2)
    BY Weights DEF HalfByte
  <2> QED
    BY <2>1, <2>2
<1>2. HalfByte[0][0] = 0 /\ HalfByte[1][1] = 0
  BY Weights DEF HalfByte, Bit
<1> QED
  BY <1>1, <1>2

\* The exclusive or of bytes is a byte, and so is that of numbers whose higher bits agree.
LEMMA XorIsByte ==
    ASSUME NEW x \in 0..511, NEW y \in 0..511, x > 255 <=> y > 255
    PROVE  x ^^ y \in 0..255
<1>1. x ^^ y = 1 * HalfByte[(x \div 1) % 16][(y \div 1) % 16]
             + 16 * HalfByte[(x \div 16) % 16][(y \div 16) % 16]
             + 256 * HalfByte[(x \div 256) % 16][(y \div 256) % 16]
             + 4096 * HalfByte[(x \div 4096) % 16][(y \div 4096) % 16]
  BY Weights DEF ^^
<1>2. /\ (x \div 1) % 16 \in 0..15 /\ (x \div 16) % 16 \in 0..15
      /\ (y \div 1) % 16 \in 0..15 /\ (y \div 16) % 16 \in 0..15
  OBVIOUS
<1>3. (x \div 4096) % 16 = 0 /\ (y \div 4096) % 16 = 0
  OBVIOUS
<1>4. (x \div 256) % 16 = (y \div 256) % 16 /\ (x \div 256) % 16 \in {0, 1}
  OBVIOUS
<1>5. PICK low \in 0..15, high \in 0..15 :
          /\ low = HalfByte[(x \div 1) % 16][(y \div 1) % 16]
          /\ high = HalfByte[(x \div 16) % 16][(y \div 16) % 16]
  BY <1>2, HalfBytes
<1>6. /\ HalfByte[(x \div 256) % 16][(y \div 256) % 16] = 0
      /\ HalfByte[(x \div 4096) % 16][(y \div 4096) % 16] = 0
  BY <1>3, <1>4, HalfBytes
<1>7. x ^^ y = 1 * low + 16 * high + 256 * 0 + 4096 * 0
  BY <1>1, <1>5, <1>6
<1> QED
  BY <1>7

\* Twice a byte, reduced, is a byte.
LEMMA ReducedIsByte == ASSUME NEW z \in 0..255 PROVE Reduced(2 * z) \in 0..255
<1>1. PICK w \in 0..511 : w = 2 * z
  OBVIOUS
<1>2. CASE w > 255
  <2>1. PICK p \in 0..511 : p = 285 /\ p > 255
    OBVIOUS
  <2>2. w ^^ p \in 0..255
    BY <1>2, <2>1, XorIsByte
  <2> QED
    BY <1>1, <1>2, <2>1, <2>2 DEF Reduced
<1>3. CASE ~(w > 255)
  BY <1>1, <1>3 DEF Reduced
<1> QED
  BY <1>2, <1>3

\* The product of two bytes is a byte.
LEMMA GfMulIsByte == ASSUME NEW x \in 0..255, NEW y \in 0..255 PROVE GfMul(x, y) \in 0..255
<1> DEFINE Value(i, before) == Reduced(2 * before) ^^ (Bit(y, 8 - i) * x)
           V == [i \in 0..8 |-> 0..255]
           turn == [i \in 1..8 |-> [v \in V[i - 1] |-> Value(i, v)]]
           IsProduct(f) == f = [i \in 0..8 |-> IF i = 0 THEN 0 ELSE Value(i, f[i - 1])]
           z == CHOOSE f : IsProduct(f)
<1>1. ASSUME NEW i \in 1..8, NEW v \in 0..255 PROVE Value(i, v) \in 0..255
  <2>1. Bit(y, 8 - i) \in 0..1
    BY BitIsBit
  <2>2. Bit(y, 8 - i) * x \in 0..255
    BY <2>1
  <2>3. PICK a \in 0..255, b \in 0..255 : a = Reduced(2 * v) /\ b = Bit(y, 8 - i) * x
    BY <2>2, ReducedIsByte
  <2>4. a ^^ b \in 0..255
    <3>1. a \in 0..511 /\ b \in 0..511 /\ ~(a > 255) /\ ~(b > 255)
      OBVIOUS
    <3> QED
      BY <3>1, XorIsByte
  <2> QED
    BY <2>3, <2>4
<1> HIDE DEF Value
<1>2. \A i \in 0..8 : V[i] = 0..255
  OBVIOUS
<1>3. \A i \in 1..8 : V[i] = 0..255 /\ V[i - 1] = 0..255
  OBVIOUS
<1>4. \A i \in 1..8 : \A v \in V[i - 1] : turn[i][v] = Value(i, v) /\ turn[i][v] \in V[i]
  <2> SUFFICES ASSUME NEW i \in 1..8, NEW v \in V[i - 1]
               PROVE  turn[i][v] = Value(i, v) /\ turn[i][v] \in V[i]
    OBVIOUS
  <2> HIDE DEF V
  <2>1. turn[i][v] = Value(i, v)
    OBVIOUS
  <2>2. v \in 0..255 /\ V[i] = 0..255
    BY <1>3
  <2>3. Value(i, v) \in V[i]
    BY <1>1, <2>2
  <2> QED
    BY <2>1, <2>3
<1> HIDE DEF V, turn
<1>5. PICK h : IsTyped(h, 8, 0, turn, V)
  <2>1. PICK n \in Nat, base \in V[0] : n = 8 /\ base = 0
    BY <1>2
  <2>2. \E h : IsTyped(h, n, base, turn, V)
    BY <1>4, <2>1, TypedIteration
  <2> QED
    BY <2>1, <2>2
<1>6. IsProduct(h)
  <2>1. /\ h = [i \in 0..8 |-> h[i]] /\ h[0] = 0
        /\ \A i \in 1..8 : h[i] = turn[i][h[i - 1]] /\ h[i - 1] \in V[i - 1]
    BY <1>5 DEF IsTyped
  <2>2. \A i \in 1..8 : h[i] = Value(i, h[i - 1])
    BY <1>4, <2>1
  <2>3. \A i \in 0..8 : h[i] = IF i = 0 THEN 0 ELSE Value(i, h[i - 1])
    BY <2>1, <2>2
  <2> QED
    BY <2>1, <2>3
<1>7. IsProduct(z)
  BY <1>6
<1>8. z[0] = 0 /\ \A i \in 1..8 : z[i] = Value(i, z[i - 1])
  <2> HIDE DEF z
  <2> QED
    BY <1>7
<1>9. GfMul(x, y) = IF x = 0 THEN 0 ELSE z[8]
  BY DEF GfMul, Value
<1> HIDE DEF z
<1>10. \A i \in 0..8 : z[i] \in V[i]
  <2>1. PICK n \in Nat : n = 8
    OBVIOUS
  <2>2. \A i \in 1..8 : z[i - 1] \in V[i - 1] => z[i] \in V[i]
    BY <1>4, <1>8
  <2>3. z[0] \in V[0] /\ \A i \in 1..n : z[i - 1] \in V[i - 1] => z[i] \in V[i]
    BY <1>2, <1>8, <2>1, <2>2
  <2> QED
    BY <2>1, <2>3, Typed
<1> QED
  BY <1>2, <1>9, <1>10

\* A power of 2 is a byte.
LEMMA GfPow2IsByte == ASSUME NEW power \in Nat PROVE GfPow2(power) \in 0..255
<1> DEFINE V == [i \in 0..power |-> 0..255]
           turn == [i \in 1..power |-> [v \in V[i - 1] |-> GfMul(v, 2)]]
           IsPower(f) == f = [i \in 0..power |-> IF i = 0 THEN 1 ELSE GfMul(f[i - 1], 2)]
           value == CHOOSE f : IsPower(f)
<1>1. ASSUME NEW v \in 0..255 PROVE GfMul(v, 2) \in 0..255
  <2>1. PICK two \in 0..255 : two = 2
    OBVIOUS
  <2> QED
    BY <2>1, GfMulIsByte
<1>2. \A i \in 0..power : V[i] = 0..255
  OBVIOUS
<1>3. \A i \in 1..power : V[i] = 0..255 /\ V[i - 1] = 0..255
  <2> TAKE i \in 1..power
  <2>1. i - 1 \in 0..power /\ i \in 0..power
    OBVIOUS
  <2> HIDE DEF V
  <2> QED
    BY <1>2, <2>1
<1>4. \A i \in 1..power : \A v \in V[i - 1] : turn[i][v] = GfMul(v, 2) /\ turn[i][v] \in V[i]
  <2> SUFFICES ASSUME NEW i \in 1..power, NEW v \in V[i - 1]
               PROVE  turn[i][v] = GfMul(v, 2) /\ turn[i][v] \in V[i]
    OBVIOUS
  <2> HIDE DEF V
  <2>1. turn[i][v] = GfMul(v, 2)
    OBVIOUS
  <2>2. v \in 0..255 /\ V[i] = 0..255
    BY <1>3
  <2>3. GfMul(v, 2) \in V[i]
    BY <1>1, <2>2
  <2> QED
    BY <2>1, <2>3
<1> HIDE DEF V, turn
<1>5. PICK h : IsTyped(h, power, 1, turn, V)
  <2>1. PICK base \in V[0] : base = 1
    BY <1>2
  <2>2. \E h : IsTyped(h, power, base, turn, V)
    BY <1>4, TypedIteration
  <2> QED
    BY <2>1, <2>2
<1>6. IsPower(h)
  <2>1. /\ h = [i \in 0..power |-> h[i]] /\ h[0] = 1
        /\ \A i \in 1..power : h[i] = turn[i][h[i - 1]] /\ h[i - 1] \in V[i - 1]
    BY <1>5 DEF IsTyped
  <2>2. \A i \in 1..power : h[i] = GfMul(h[i - 1], 2)
    BY <1>4, <2>1
  <2>3. \A i \in 0..power : h[i] = IF i = 0 THEN 1 ELSE GfMul(h[i - 1], 2)
    BY <2>1, <2>2
  <2> QED
    BY <2>1, <2>3
<1>7. IsPower(value)
  BY <1>6
<1>8. value[0] = 1 /\ \A i \in 1..power : value[i] = GfMul(value[i - 1], 2)
  <2> HIDE DEF value
  <2> QED
    BY <1>7
<1>9. GfPow2(power) = value[power]
  BY DEF GfPow2
<1> HIDE DEF value
<1>10. \A i \in 0..power : value[i] \in V[i]
  <2>1. \A i \in 1..power : value[i - 1] \in V[i - 1] => value[i] \in V[i]
    BY <1>4, <1>8
  <2>2. value[0] \in V[0]
    BY <1>2, <1>8
  <2> QED
    BY <2>1, <2>2, Typed
<1> QED
  BY <1>2, <1>9, <1>10

\* A product of so many factors has one coefficient more, each of them a byte.
LEMMA GeneratorIsBytes ==
    ASSUME NEW degree \in Nat
    PROVE  ReedSolomonGenerator(degree) \in [1..degree + 1 -> 0..255]
<1> DEFINE Shifted(s) == Append(s, 0)
           Times(i, s) == [k \in 1..i + 1 |->
               Append(s, 0)[k] ^^ (IF k = 1 THEN 0 ELSE GfMul(Append(s, 0)[k - 1], GfPow2(i - 1)))]
           V == [i \in 0..degree |-> [1..i + 1 -> 0..255]]
           turn == [i \in 1..degree |-> [s \in V[i - 1] |-> Times(i, s)]]
           IsProduct(f) == f = [i \in 0..degree |-> IF i = 0 THEN <<1>> ELSE Times(i, f[i - 1])]
           result == CHOOSE f : IsProduct(f)
<1>1. ASSUME NEW i \in 1..degree, NEW s \in [1..i -> 0..255]
      PROVE  Times(i, s) \in [1..i + 1 -> 0..255]
  <2>1. s \in Seq(0..255) /\ Len(s) = i
    OBVIOUS
  <2>2. \A k \in 1..i + 1 : Append(s, 0)[k] \in 0..255
    BY <2>1
  <2>3. GfPow2(i - 1) \in 0..255
    BY GfPow2IsByte
  <2> SUFFICES ASSUME NEW k \in 1..i + 1
               PROVE  Append(s, 0)[k] ^^ (IF k = 1 THEN 0 ELSE GfMul(Append(s, 0)[k - 1], GfPow2(i - 1))) \in 0..255
    OBVIOUS
  <2>4. PICK a \in 0..255 : a = Append(s, 0)[k]
    BY <2>2
  <2>5. (IF k = 1 THEN 0 ELSE GfMul(Append(s, 0)[k - 1], GfPow2(i - 1))) \in 0..255
    <3>1. CASE k # 1
      <4>1. k - 1 \in 1..i + 1
        BY <3>1
      <4>2. PICK c \in 0..255, r \in 0..255 : c = Append(s, 0)[k - 1] /\ r = GfPow2(i - 1)
        BY <2>2, <2>3, <4>1
      <4>3. GfMul(c, r) \in 0..255
        BY GfMulIsByte
      <4> QED
        BY <3>1, <4>2, <4>3
    <3>2. CASE k = 1
      BY <3>2
    <3> QED
      BY <3>1, <3>2
  <2>6. PICK b \in 0..255 : b = (IF k = 1 THEN 0 ELSE GfMul(Append(s, 0)[k - 1], GfPow2(i - 1)))
    BY <2>5
  <2>7. a ^^ b \in 0..255
    <3>1. a \in 0..511 /\ b \in 0..511 /\ ~(a > 255) /\ ~(b > 255)
      OBVIOUS
    <3> QED
      BY <3>1, XorIsByte
  <2> QED
    BY <2>4, <2>6, <2>7
<1> HIDE DEF Times
<1>2. \A i \in 0..degree : V[i] = [1..i + 1 -> 0..255]
  OBVIOUS
<1>3. \A i \in 1..degree : V[i] = [1..i + 1 -> 0..255] /\ V[i - 1] = [1..i -> 0..255]
  <2> TAKE i \in 1..degree
  <2>1. i - 1 \in 0..degree /\ i \in 0..degree /\ (i - 1) + 1 = i
    OBVIOUS
  <2> HIDE DEF V
  <2> QED
    BY <1>2, <2>1
<1>4. \A i \in 1..degree : \A s \in V[i - 1] : turn[i][s] = Times(i, s) /\ turn[i][s] \in V[i]
  <2> SUFFICES ASSUME NEW i \in 1..degree, NEW s \in V[i - 1]
               PROVE  turn[i][s] = Times(i, s) /\ turn[i][s] \in V[i]
    OBVIOUS
  <2> HIDE DEF V
  <2>1. turn[i][s] = Times(i, s)
    OBVIOUS
  <2>2. s \in [1..i -> 0..255]
    BY <1>3
  <2>4. Times(i, s) \in [1..i + 1 -> 0..255]
    BY <1>1, <2>2
  <2>3. Times(i, s) \in V[i]
    BY <1>3, <2>4
  <2> QED
    BY <2>1, <2>3
<1> HIDE DEF V, turn
<1>11. <<1>> \in V[0]
  <2>1. <<1>> \in [1..1 -> 0..255] /\ 0 \in 0..degree /\ 0 + 1 = 1
    OBVIOUS
  <2> QED
    BY <1>2, <2>1
<1>5. PICK h : IsTyped(h, degree, <<1>>, turn, V)
  <2>2. PICK base \in V[0] : base = <<1>>
    BY <1>11
  <2>3. \E h : IsTyped(h, degree, base, turn, V)
    BY <1>4, TypedIteration
  <2> QED
    BY <2>2, <2>3
<1>6. IsProduct(h)
  <2>1. /\ h = [i \in 0..degree |-> h[i]] /\ h[0] = <<1>>
        /\ \A i \in 1..degree : h[i] = turn[i][h[i - 1]] /\ h[i - 1] \in V[i - 1]
    BY <1>5 DEF IsTyped
  <2>2. \A i \in 1..degree : h[i] = Times(i, h[i - 1])
    BY <1>4, <2>1
  <2>3. \A i \in 0..degree : h[i] = IF i = 0 THEN <<1>> ELSE Times(i, h[i - 1])
    <3> TAKE i \in 0..degree
    <3>1. i # 0 => i \in 1..degree
      OBVIOUS
    <3> QED
      BY <2>1, <2>2, <3>1
  <2> QED
    BY <2>1, <2>3
<1>7. IsProduct(result)
  BY <1>6
<1>8. result[0] = <<1>> /\ \A i \in 1..degree : result[i] = Times(i, result[i - 1])
  <2> HIDE DEF result
  <2> QED
    BY <1>7
<1>9. ReedSolomonGenerator(degree) = result[degree]
  BY DEF ReedSolomonGenerator, Times
<1> HIDE DEF result
<1>10. \A i \in 0..degree : result[i] \in V[i]
  <2>1. ASSUME NEW i \in 1..degree, result[i - 1] \in V[i - 1] PROVE result[i] \in V[i]
    <3>1. turn[i][result[i - 1]] = Times(i, result[i - 1]) /\ turn[i][result[i - 1]] \in V[i]
      BY <1>4, <2>1
    <3> QED
      BY <1>8, <3>1
  <2>2. result[0] \in V[0]
    BY <1>8, <1>11
  <2> QED
    BY <2>1, <2>2, Typed
<1> QED
  <2>1. degree \in 0..degree
    OBVIOUS
  <2>2. result[degree] \in V[degree] /\ V[degree] = [1..degree + 1 -> 0..255]
    BY <1>2, <1>10, <2>1
  <2> QED
    BY <1>9, <2>2

\* One byte of the division leaves as many bytes.
LEMMA RemainderIsBytes ==
    ASSUME NEW n \in Nat \ {0}, NEW result \in [1..n -> 0..255], NEW b \in 0..255,
           NEW generator \in [1..n + 1 -> 0..255]
    PROVE  RemainderAfter(result, b, generator) \in [1..n -> 0..255]
<1> DEFINE shifted == Append(result, 0)
           factor == b ^^ result[1]
           w == [i \in 1..Len(generator) |-> shifted[i] ^^ GfMul(generator[i], factor)]
<1>1. result \in Seq(0..255) /\ Len(result) = n
  BY FunctionIsSeq
<1>2. \A i \in 1..n + 1 : shifted[i] \in 0..255
  BY <1>1
<1>3. factor \in 0..255
  <2>1. PICK a \in 0..255 : a = result[1]
    OBVIOUS
  <2>2. b \in 0..511 /\ a \in 0..511 /\ ~(b > 255) /\ ~(a > 255)
    OBVIOUS
  <2> QED
    BY <2>1, <2>2, XorIsByte
<1> HIDE DEF shifted, factor
<1>4. ASSUME NEW i \in 1..n + 1 PROVE shifted[i] ^^ GfMul(generator[i], factor) \in 0..255
  <2>1. PICK a \in 0..255, g \in 0..255, c \in 0..255 :
            a = shifted[i] /\ g = generator[i] /\ c = factor
    BY <1>2, <1>3
  <2>2. PICK m \in 0..255 : m = GfMul(g, c)
    BY GfMulIsByte
  <2>3. a \in 0..511 /\ m \in 0..511 /\ ~(a > 255) /\ ~(m > 255)
    OBVIOUS
  <2> QED
    BY <2>1, <2>2, <2>3, XorIsByte
<1>5. Len(generator) = n + 1
  OBVIOUS
<1>6. w \in [1..n + 1 -> 0..255]
  BY <1>4, <1>5
<1>7. RemainderAfter(result, b, generator) = Tail(w)
  BY DEF RemainderAfter, shifted, factor
<1> HIDE DEF w
<1>8. w \in Seq(0..255) /\ Len(w) = n + 1
  BY <1>6
<1>9. Tail(w) \in Seq(0..255) /\ Len(Tail(w)) = n
  <2>1. w # <<>> /\ Len(w) - 1 = n
    BY <1>8
  <2> QED
    BY <1>8, <2>1, HeadTailProperties
<1>10. Tail(w) \in [1..n -> 0..255]
  <2>1. Tail(w) \in [1..Len(Tail(w)) -> 0..255]
    BY <1>9, LenProperties
  <2> QED
    BY <1>9, <2>1
<1> QED
  BY <1>7, <1>10

\* Bits of a value.
LEMMA AppendedBits ==
    ASSUME NEW value \in Nat, NEW count \in Nat
    PROVE  AppendBits(value, count) \in Seq(0..1)
<1>1. \A i \in 1..count : Bit(value, count - i) \in 0..1
  BY BitIsBit
<1> QED
  BY <1>1 DEF AppendBits

\* The bits of a text of bytes.
LEMMA BitsAreBits == ASSUME NEW t \in Seq(0..255) PROVE Bits(t) \in Seq(0..1)
<1> DEFINE n == Len(t)
           Start == AppendBits(4, 4) \o AppendBits(Len(t), 8)
           V == [i \in 0..n |-> Seq(0..1)]
           turn == [i \in 1..n |-> [v \in V[i - 1] |-> v \o AppendBits(t[i], 8)]]
           IsChars(f) == f = [i \in 0..n |-> IF i = 0 THEN Start ELSE f[i - 1] \o AppendBits(t[i], 8)]
           chars == CHOOSE f : IsChars(f)
<1>1. n \in Nat /\ \A i \in 1..n : AppendBits(t[i], 8) \in Seq(0..1)
  <2>1. n \in Nat
    OBVIOUS
  <2>2. ASSUME NEW i \in 1..n PROVE AppendBits(t[i], 8) \in Seq(0..1)
    <3>1. PICK v \in Nat, c \in Nat : v = t[i] /\ c = 8
      OBVIOUS
    <3> QED
      BY <3>1, AppendedBits
  <2> QED
    BY <2>1, <2>2
<1>2. Start \in Seq(0..1)
  <2>1. PICK four \in Nat, eight \in Nat, l \in Nat : four = 4 /\ eight = 8 /\ l = Len(t)
    BY <1>1
  <2>2. AppendBits(four, four) \in Seq(0..1) /\ AppendBits(l, eight) \in Seq(0..1)
    BY AppendedBits
  <2>3. AppendBits(four, four) \o AppendBits(l, eight) \in Seq(0..1)
    BY <2>2
  <2> QED
    BY <2>1, <2>3
<1> HIDE DEF n, Start
<1>3. \A i \in 0..n : V[i] = Seq(0..1)
  OBVIOUS
<1>4. \A i \in 1..n : V[i] = Seq(0..1) /\ V[i - 1] = Seq(0..1)
  <2> TAKE i \in 1..n
  <2>1. i - 1 \in 0..n /\ i \in 0..n
    BY <1>1
  <2> HIDE DEF V
  <2> QED
    BY <1>3, <2>1
<1>5. \A i \in 1..n : \A v \in V[i - 1] : /\ turn[i][v] = v \o AppendBits(t[i], 8)
                                         /\ turn[i][v] \in V[i]
  <2> SUFFICES ASSUME NEW i \in 1..n, NEW v \in V[i - 1]
               PROVE  /\ turn[i][v] = v \o AppendBits(t[i], 8)
                      /\ turn[i][v] \in V[i]
    OBVIOUS
  <2> HIDE DEF V
  <2>1. turn[i][v] = v \o AppendBits(t[i], 8)
    OBVIOUS
  <2>2. v \in Seq(0..1) /\ V[i] = Seq(0..1)
    BY <1>4
  <2>3. v \o AppendBits(t[i], 8) \in V[i]
    BY <1>1, <2>2
  <2> QED
    BY <2>1, <2>3
<1>6. Start \in V[0]
  BY <1>1, <1>2
<1> HIDE DEF V, turn
<1>7. PICK h : IsTyped(h, n, Start, turn, V)
  <2>1. PICK m \in Nat, base \in V[0] : m = n /\ base = Start
    BY <1>1, <1>6
  <2>2. \E h : IsTyped(h, m, base, turn, V)
    BY <1>5, <2>1, TypedIteration
  <2> QED
    BY <2>1, <2>2
<1>8. IsChars(h)
  <2>1. /\ h = [i \in 0..n |-> h[i]] /\ h[0] = Start
        /\ \A i \in 1..n : h[i] = turn[i][h[i - 1]] /\ h[i - 1] \in V[i - 1]
    BY <1>7 DEF IsTyped
  <2>2. \A i \in 1..n : h[i] = h[i - 1] \o AppendBits(t[i], 8)
    BY <1>5, <2>1
  <2>3. \A i \in 0..n : h[i] = IF i = 0 THEN Start ELSE h[i - 1] \o AppendBits(t[i], 8)
    <3> TAKE i \in 0..n
    <3>1. i # 0 => i \in 1..n
      BY <1>1
    <3> QED
      BY <2>1, <2>2, <3>1
  <2> QED
    BY <2>1, <2>3
<1>9. IsChars(chars)
  BY <1>8
<1>10. chars[0] = Start /\ \A i \in 1..n : chars[i] = chars[i - 1] \o AppendBits(t[i], 8)
  <2> HIDE DEF chars
  <2>1. 0 \in 0..n /\ \A i \in 1..n : i \in 0..n /\ i # 0
    BY <1>1
  <2>2. \A i \in 0..n : chars[i] = IF i = 0 THEN Start ELSE chars[i - 1] \o AppendBits(t[i], 8)
    BY <1>9, Zenon
  <2> QED
    BY <2>1, <2>2
<1> HIDE DEF chars
<1>11. \A i \in 0..n : chars[i] \in V[i]
  <2>1. \A i \in 1..n : chars[i - 1] \in V[i - 1] => chars[i] \in V[i]
    BY <1>5, <1>10
  <2>2. chars[0] \in V[0]
    BY <1>6, <1>10
  <2> QED
    BY <1>1, <2>1, <2>2, Typed
<1>12. chars[n] \in Seq(0..1)
  BY <1>1, <1>3, <1>11
<1> DEFINE used == Len(chars[n])
           room == 8 * DataCodewords - used
           terminator == IF room < 4 THEN room ELSE 4
           zeros == terminator + ((-(used + terminator)) % 8)
<1>13. Bits(t) = chars[n] \o AppendBits(0, zeros)
  BY Zenon DEF Bits, chars, n, Start
<1>14. AppendBits(0, zeros) \in Seq(0..1)
  <2>1. used \in Nat
    BY <1>12
  <2> HIDE DEF used
  <2>2. room \in Int
    BY <2>1 DEF DataCodewords
  <2> HIDE DEF room
  <2>3. PICK c \in Int : c = zeros
    BY <2>1, <2>2
  <2> HIDE DEF zeros
  <2>4. CASE c >= 0
    <3>1. PICK v \in Nat, m \in Nat : m = c /\ v = 0
      BY <2>4
    <3> QED
      BY <2>3, <3>1, AppendedBits
  <2>5. CASE ~(c >= 0)
    <3>1. PICK m \in Nat : 1..c = {} /\ 1..m = {}
      BY <2>5
    <3>2. AppendBits(0, c) \in [1..m -> 0..1]
      BY <3>1 DEF AppendBits
    <3> QED
      BY <2>3, <3>2, FunctionIsSeq
  <2> QED
    BY <2>4, <2>5
<1> QED
  BY <1>12, <1>13, <1>14

\* What eight bits are read as is a byte.
LEMMA ByteIsByte ==
    ASSUME NEW bits \in Seq(0..1), NEW n \in Nat, 8 * (n + 1) <= Len(bits)
    PROVE  Byte(bits, n) \in 0..255
<1> DEFINE Bound(i) == CASE i = 0 -> 0 [] i = 1 -> 1 [] i = 2 -> 3 [] i = 3 -> 7 [] i = 4 -> 15
                         [] i = 5 -> 31 [] i = 6 -> 63 [] i = 7 -> 127 [] i = 8 -> 255
           V == [i \in 0..8 |-> 0..Bound(i)]
           turn == [i \in 1..8 |-> [v \in V[i - 1] |-> 2 * v + bits[8 * n + i]]]
           IsValue(f) == f = [i \in 0..8 |-> IF i = 0 THEN 0 ELSE 2 * f[i - 1] + bits[8 * n + i]]
           value == CHOOSE f : IsValue(f)
<1>1. \A i \in 1..8 : Bound(i) = 2 * Bound(i - 1) + 1 /\ Bound(i) \in Nat /\ Bound(i - 1) \in Nat
  OBVIOUS
<1>2. Bound(0) = 0 /\ Bound(8) = 255
  OBVIOUS
<1>3. \A i \in 1..8 : bits[8 * n + i] \in 0..1
  <2> TAKE i \in 1..8
  <2>1. PICK k \in 1..Len(bits) : k = 8 * n + i
    OBVIOUS
  <2> QED
    BY <2>1
<1> HIDE DEF Bound
<1>4. \A i \in 0..8 : V[i] = 0..Bound(i)
  OBVIOUS
<1>5. \A i \in 1..8 : V[i] = 0..Bound(i) /\ V[i - 1] = 0..Bound(i - 1)
  <2> TAKE i \in 1..8
  <2>1. i - 1 \in 0..8 /\ i \in 0..8
    OBVIOUS
  <2> HIDE DEF V
  <2> QED
    BY <1>4, <2>1
<1>6. \A i \in 1..8 : \A v \in V[i - 1] :
          turn[i][v] = 2 * v + bits[8 * n + i] /\ turn[i][v] \in V[i]
  <2> SUFFICES ASSUME NEW i \in 1..8, NEW v \in V[i - 1]
               PROVE  turn[i][v] = 2 * v + bits[8 * n + i] /\ turn[i][v] \in V[i]
    OBVIOUS
  <2> HIDE DEF V
  <2>1. turn[i][v] = 2 * v + bits[8 * n + i]
    OBVIOUS
  <2>2. PICK b \in Nat, c \in Nat, d \in 0..1 :
            b = Bound(i - 1) /\ c = Bound(i) /\ c = 2 * b + 1 /\ d = bits[8 * n + i]
    BY <1>1, <1>3
  <2>3. v \in 0..b /\ V[i] = 0..c
    <3>1. V[i] = 0..Bound(i) /\ V[i - 1] = 0..Bound(i - 1)
      BY <1>5
    <3> QED
      BY <2>2, <3>1
  <2>4. 2 * v + d \in 0..c
    <3>1. c = 2 * b + 1
      BY <2>2
    <3>2. v \in Nat /\ v <= b
      BY <2>3
    <3> QED
      BY <3>1, <3>2
  <2> QED
    BY <2>1, <2>2, <2>3, <2>4
<1>7. V[0] = {0} /\ V[8] = 0..255
  <2>1. 0 \in 0..8 /\ 8 \in 0..8 /\ 0..0 = {0}
    OBVIOUS
  <2> HIDE DEF V
  <2>2. V[0] = 0..Bound(0) /\ V[8] = 0..Bound(8)
    BY <1>4, <2>1
  <2> QED
    BY <1>2, <2>1, <2>2
<1> HIDE DEF V, turn
<1>8. PICK h : IsTyped(h, 8, 0, turn, V)
  <2>1. PICK m \in Nat, base \in V[0] : m = 8 /\ base = 0
    BY <1>7
  <2>2. \E h : IsTyped(h, m, base, turn, V)
    BY <1>6, <2>1, TypedIteration
  <2> QED
    BY <2>1, <2>2
<1>9. IsValue(h)
  <2>1. /\ h = [i \in 0..8 |-> h[i]] /\ h[0] = 0
        /\ \A i \in 1..8 : h[i] = turn[i][h[i - 1]] /\ h[i - 1] \in V[i - 1]
    BY <1>8 DEF IsTyped
  <2>2. \A i \in 1..8 : h[i] = 2 * h[i - 1] + bits[8 * n + i]
    BY <1>6, <2>1
  <2>3. \A i \in 0..8 : h[i] = IF i = 0 THEN 0 ELSE 2 * h[i - 1] + bits[8 * n + i]
    <3> TAKE i \in 0..8
    <3>1. i # 0 => i \in 1..8
      OBVIOUS
    <3> QED
      BY <2>1, <2>2, <3>1
  <2> QED
    BY <2>1, <2>3
<1>10. IsValue(value)
  BY <1>9
<1>11. value[0] = 0 /\ \A i \in 1..8 : value[i] = 2 * value[i - 1] + bits[8 * n + i]
  <2> HIDE DEF value
  <2> QED
    BY <1>10
<1>12. Byte(bits, n) = value[8]
  BY DEF Byte
<1> HIDE DEF value
<1>13. \A i \in 0..8 : value[i] \in V[i]
  <2>1. PICK m \in Nat : m = 8
    OBVIOUS
  <2>2. \A i \in 1..8 : value[i - 1] \in V[i - 1] => value[i] \in V[i]
    BY <1>6, <1>11
  <2>3. value[0] \in V[0] /\ \A i \in 1..m : value[i - 1] \in V[i - 1] => value[i] \in V[i]
    BY <1>7, <1>11, <2>1, <2>2
  <2> QED
    BY <2>1, <2>3, Typed
<1> QED
  <2>1. value[8] \in V[8]
    BY <1>13
  <2> QED
    BY <1>7, <1>12, <2>1

\* The data codewords of a text are bytes.
LEMMA DataIsBytes ==
    ASSUME NEW t \in Seq(0..255)
    PROVE  DataBytes(t) \in [1..DataCodewords -> 0..255]
<1> DEFINE bits == Bits(t)
           given == Len(bits) \div 8
<1>1. bits \in Seq(0..1)
  BY BitsAreBits
<1> HIDE DEF bits
<1>2. PICK l \in Nat : l = Len(bits)
  BY <1>1
<1>3. ASSUME NEW n \in 1..DataCodewords, n <= given PROVE Byte(bits, n - 1) \in 0..255
  <2>1. PICK k \in Nat : k = n - 1 /\ k + 1 = n
    BY DEF DataCodewords
  <2>2. 8 * (k + 1) <= Len(bits)
    BY <1>2, <1>3, <2>1 DEF DataCodewords
  <2> QED
    BY <1>1, <2>1, <2>2, ByteIsByte
<1> DEFINE Codeword(n) == IF n <= given THEN Byte(bits, n - 1)
                          ELSE IF (n - given) % 2 = 1 THEN 236 ELSE 17
<1>4. \A n \in 1..DataCodewords : Codeword(n) \in 0..255
  BY <1>3
<1>5. DataBytes(t) = [n \in 1..DataCodewords |-> Codeword(n)]
  BY DEF DataBytes, bits
<1> HIDE DEF Codeword
<1> QED
  BY <1>4, <1>5
-----------------------------------------------------------------------------
(* Types.                                                                  *)

\* All patterns are drawn inside of the symbol.
LEMMA PatternsInside == DOMAIN FunctionPatterns \subseteq Cells
<1>1. \A i \in 0..14 : \A n \in 1..2 : FormatPlace(i)[n] \in Cells
  BY DEF FormatPlace, Cells, kSize
<1>2. DOMAIN drawFormatBits \subseteq Cells
  <2>1. <<8, 21>> \in Cells
    BY DEF Cells, kSize
  <2>2. DOMAIN drawFormatBits = {FormatPlace(p[1])[p[2]] : p \in {<<i, n>> : i \in 0..14, n \in 1..2}}
                               \cup {<<8, 21>>}
    BY DEF drawFormatBits, kSize
  <2> QED
    BY <1>1, <2>1, <2>2
<1>3. /\ DOMAIN drawAlignment(22, 22) \subseteq Cells /\ DOMAIN Timing \subseteq Cells
      /\ \A x, y : DOMAIN drawFinder(x, y) \subseteq Cells
  BY DEF drawAlignment, Timing, drawFinder, Square
<1>4. DOMAIN Finders \subseteq Cells
  BY <1>3 DEF Finders, Over
<1> QED
  BY <1>2, <1>3, <1>4 DEF FunctionPatterns, Over

\* A text of bytes becomes codewords of bytes.
LEMMA TextTyped ==
    ASSUME QrTypeOK, NEW t \in Seq(0..255), GenerateLoginQrMatrix(t)
    PROVE  QrTypeOK'
<1>1. /\ codewords' \in Seq(0..255)
      /\ Len(codewords') = IF Fits(t) THEN DataCodewords ELSE 0
  <2>1. CASE Fits(t)
    <3>1. PICK n \in Nat : n = DataCodewords
      BY DEF DataCodewords
    <3>2. codewords' \in [1..n -> 0..255]
      BY <2>1, <3>1, DataIsBytes DEF GenerateLoginQrMatrix
    <3> QED
      BY <2>1, <3>1, <3>2, FunctionIsSeq
  <2>2. CASE ~Fits(t)
    BY <2>2 DEF GenerateLoginQrMatrix
  <2> QED
    BY <2>1, <2>2
<1>2. pc' = IF Fits(t) THEN "divide" ELSE "idle"
  BY DEF GenerateLoginQrMatrix
<1>3. CodewordsTypeOK'
  <2>1. NoRemainder \in [1..EccCodewords -> 0..255] /\ 0 \in 0..DataCodewords
    BY DEF NoRemainder, DataCodewords
  <2> QED
    BY <1>1, <2>1 DEF GenerateLoginQrMatrix, CodewordsTypeOK
<1>4. WalkTypeOK'
  BY DEF GenerateLoginQrMatrix, QrTypeOK, WalkTypeOK, loops
<1> QED
  BY <1>1, <1>2, <1>3, <1>4 DEF QrTypeOK

\* The generator of the symbol's code.
LEMMA GeneratorTyped == Generator \in [1..EccCodewords + 1 -> 0..255]
<1>1. PICK n \in Nat : n = EccCodewords
  BY DEF EccCodewords
<1> QED
  BY <1>1, GeneratorIsBytes DEF Generator

\* The division, the patterns and the walk keep to bytes and to the symbol.
LEMMA SymbolTyped == QrTypeOK /\ BuildSymbol => QrTypeOK'
<1>1. ASSUME QrTypeOK, ReedSolomonRemainder PROVE QrTypeOK'
  <2>1. PICK n \in Nat \ {0} : n = EccCodewords
    BY DEF EccCodewords
  <2>2. CodewordsTypeOK /\ WalkTypeOK /\ pc = "divide" /\ Len(codewords) = DataCodewords
    BY <1>1 DEF ReedSolomonRemainder, QrTypeOK
  <2>3. divided' \in 1..DataCodewords
    BY <1>1, <2>2 DEF ReedSolomonRemainder, CodewordsTypeOK, DataCodewords
  <2>4. PICK b \in 0..255 : b = codewords[divided']
    <3>1. codewords \in Seq(0..255) /\ divided' \in 1..Len(codewords)
      BY <2>2, <2>3 DEF CodewordsTypeOK
    <3>2. codewords[divided'] \in 0..255
      BY <3>1, ElementOfSeq
    <3> QED
      BY <3>2
  <2>5. PICK generator \in [1..n + 1 -> 0..255] : generator = Generator
    BY <2>1, GeneratorTyped
  <2>6. PICK r \in [1..n -> 0..255] : r = remainder
    BY <2>1, <2>2 DEF CodewordsTypeOK
  <2>7. RemainderAfter(r, b, generator) \in [1..n -> 0..255]
    BY RemainderIsBytes
  <2>8. remainder' = RemainderAfter(r, b, generator)
    BY <1>1, <2>4, <2>5, <2>6 DEF ReedSolomonRemainder
  <2>9. CodewordsTypeOK'
    BY <1>1, <2>1, <2>2, <2>3, <2>7, <2>8 DEF ReedSolomonRemainder, CodewordsTypeOK
  <2>10. WalkTypeOK'
    BY <1>1, <2>2 DEF ReedSolomonRemainder, WalkTypeOK, loops
  <2> QED
    BY <1>1, <2>2, <2>9, <2>10 DEF ReedSolomonRemainder, QrTypeOK
<1>2. ASSUME QrTypeOK, drawFunctionPatterns PROVE QrTypeOK'
  <2>1. PICK n \in Nat : n = EccCodewords
    BY DEF EccCodewords
  <2>2. CodewordsTypeOK /\ Len(codewords) = DataCodewords
    BY <1>2 DEF drawFunctionPatterns, QrTypeOK
  <2>3. PICK s \in Seq(0..255), r \in Seq(0..255) :
            s = codewords /\ r = remainder /\ Len(s) = DataCodewords /\ Len(r) = EccCodewords
    BY <2>1, <2>2, FunctionIsSeq DEF CodewordsTypeOK
  <2>4. s \o r \in Seq(0..255) /\ Len(s \o r) = DataCodewords + EccCodewords
    BY <2>3, ConcatProperties
  <2>5. codewords' = s \o r
    BY <1>2, <2>3 DEF drawFunctionPatterns
  <2>6. CodewordsTypeOK'
    BY <1>2, <2>2, <2>4, <2>5 DEF drawFunctionPatterns, CodewordsTypeOK
  <2>7. reserved' \subseteq Cells /\ dark' \subseteq Cells
    <3> HIDE DEF Cells
    <3>1. reserved' = DOMAIN FunctionPatterns /\ dark' \subseteq DOMAIN FunctionPatterns
      BY <1>2 DEF drawFunctionPatterns
    <3> QED
      BY <3>1, PatternsInside
  <2>8. WalkTypeOK'
    BY <1>2, <2>7 DEF drawFunctionPatterns, WalkTypeOK, kSize, DataCodewords, EccCodewords
  <2> QED
    BY <1>2, <2>4, <2>5, <2>6, <2>8 DEF drawFunctionPatterns, QrTypeOK, kSize
<1>3. ASSUME QrTypeOK, drawCodewords PROVE QrTypeOK'
  <2>1. /\ pc = "draw" /\ right \in 1..28 /\ vert \in 0..28 /\ j \in 0..1 /\ upward \in BOOLEAN
        /\ dark \subseteq Cells /\ reserved \subseteq Cells
    BY <1>3 DEF drawCodewords, QrTypeOK, WalkTypeOK, kSize
  <2>2. At \in Cells
    BY <2>1 DEF At, Cells, kSize
  <2>3. dark' \subseteq Cells
    BY <1>3, <2>1, <2>2 DEF drawCodewords, SetData
  <2>4. bitIndex' \in 0..560
    <3>1. Len(codewords) = 70 /\ bitIndex \in 0..560
      BY <1>3, <2>1 DEF QrTypeOK, WalkTypeOK, DataCodewords, EccCodewords
    <3>2. NextBit \in 0..560
      BY <3>1 DEF NextBit
    <3> QED
      BY <1>3, <3>1, <3>2 DEF drawCodewords, SetData
  <2>5. vert' \in 0..28 /\ j' \in 0..1 /\ upward' \in BOOLEAN
    <3>1. vert' \in 0..28
      BY <1>3, <2>1 DEF drawCodewords, kSize
    <3>2. j' \in 0..1
      BY <1>3, <2>1 DEF drawCodewords
    <3>3. upward' = upward \/ upward' = ~upward
      BY <1>3, Zenon DEF drawCodewords
    <3>4. upward' \in BOOLEAN
      BY <2>1, <3>3
    <3> QED
      BY <3>1, <3>2, <3>4
  <2>6. right' \in -1..28 /\ pc' \in {"draw", "idle"} /\ (pc' = "draw" => right' > 0)
    <3>1. CASE right' = right /\ pc' = pc
      BY <2>1, <3>1
    <3>2. CASE NextPair /\ pc' = IF right' < 1 THEN "idle" ELSE "draw"
      <4>1. right' \in -1..28
        BY <2>1, <3>2 DEF NextPair
      <4> QED
        BY <3>2, <4>1
    <3> QED
      BY <1>3, <3>1, <3>2 DEF drawCodewords
  <2>7. WalkTypeOK'
    BY <1>3, <2>1, <2>3, <2>4, <2>5, <2>6
       DEF drawCodewords, WalkTypeOK, kSize, DataCodewords, EccCodewords
  <2>8. CodewordsTypeOK' /\ Len(codewords') = DataCodewords + EccCodewords
    BY <1>3, <2>1 DEF drawCodewords, division, QrTypeOK, CodewordsTypeOK
  <2> QED
    BY <2>6, <2>7, <2>8 DEF QrTypeOK
<1> QED
  BY <1>1, <1>2, <1>3 DEF BuildSymbol

\* The code of an answer has characters that have a byte.
LEMMA CodeTyped ==
    ASSUME PageInv, RequestDeviceCode
    PROVE  Address \o [i \in DOMAIN UserCode |-> Ascii[UserCode[i]]] \in Seq(0..255)
<1>6. PICK code \in Seq(DOMAIN Ascii) : code = UserCode
  BY UserCodeIsIssued
<1>7. [i \in DOMAIN code |-> Ascii[code[i]]] \in Seq(0..255)
  <2>1. PICK n \in Nat : DOMAIN code = 1..n
    OBVIOUS
  <2>2. \A i \in 1..n : code[i] \in DOMAIN Ascii
    BY <2>1
  <2>3. [i \in 1..n |-> Ascii[code[i]]] \in [1..n -> 0..255]
    BY <2>2, CodesAssumption
  <2> QED
    BY <2>1, <2>3, FunctionIsSeq
<1> QED
  BY <1>6, <1>7, CodesAssumption

\* The types of the page.
LEMMA PageTyped ==
    ASSUME PageTypeOK, PageInv, OneScreen, OneScreen', [ScreensNext]_screenVars
    PROVE  PageTypeOK'
<1> DEFINE SentOK == sent \in {Nothing} \cup [kind : {"form"}, fields : Forms]
                                      \cup [kind : {"json"}, token : Tokens]
           AnswerOK == answer \in Answers \cup {<<>>}
<1>1. QrTypeOK /\ SentOK /\ AnswerOK
  BY DEF PageTypeOK
<1>2. QrTypeOK' /\ SentOK' /\ AnswerOK' => PageTypeOK'
  BY DEF PageTypeOK, OneScreen
<1>3. UNCHANGED qrVars => QrTypeOK'
  BY <1>1 DEF qrVars, division, loops, QrTypeOK, CodewordsTypeOK, WalkTypeOK
<1>4. (UNCHANGED sent => SentOK') /\ (UNCHANGED answer => AnswerOK')
  BY <1>1
<1> HIDE DEF SentOK, AnswerOK
<1>5. CASE SignIn
  <2>1. ASSUME NEW f \in Forms, PostForm(f) PROVE PageTypeOK'
    BY <1>2, <1>3, <1>4, <2>1 DEF PostForm, SentOK
  <2>2. ASSUME NEW t \in Tokens, PostJson(t) PROVE PageTypeOK'
    BY <1>2, <1>3, <1>4, <2>2 DEF PostJson, SentOK
  <2>3. ASSUME NEW a \in Answers, NEW s \in Styles, Answer(a, s) PROVE PageTypeOK'
    BY <1>2, <1>3, <2>3 DEF Answer, SentOK, AnswerOK
  <2>4. CASE RequestDeviceCode
    <3>1. QrTypeOK'
      BY <1>1, <2>4, CodeTyped, TextTyped DEF RequestDeviceCode
    <3> QED
      BY <1>2, <1>4, <2>4, <3>1 DEF RequestDeviceCode, httpVars
  <2>5. CASE ReadAnswer
    BY <1>2, <1>3, <1>4, <2>5 DEF ReadAnswer, AnswerOK
  <2>6. CASE Draw
    BY <1>1, <1>2, <1>4, <2>6, SymbolTyped DEF Draw, httpVars
  <2>7. CASE LeavePage
    <3>1. QrTypeOK'
      BY <1>1, <2>7 DEF LeavePage, QrTypeOK, CodewordsTypeOK, WalkTypeOK, loops, NoRemainder,
                           DataCodewords
    <3> QED
      BY <1>2, <1>4, <2>7, <3>1 DEF LeavePage, AnswerOK
  <2> QED
    BY <1>5, <2>1, <2>2, <2>3, <2>4, <2>5, <2>6, <2>7 DEF SignIn, Next
<1>6. CASE OpenMenu \/ InMenu \/ UNCHANGED screenVars
  BY <1>2, <1>3, <1>4, <1>6 DEF OpenMenu, InMenu, screenVars, pageVars, httpVars
<1> QED
  BY <1>5, <1>6 DEF ScreensNext

-----------------------------------------------------------------------------
(* The menu.                                                               *)

\* Between sign-ins the menu is that of MainMenu, and what is proved of it holds after
\* any of them (App.cpp 1868-1959, 3011-3026).
THEOREM ScreensHaveMenu == ScreensSpec => MenuSpec
<1>1. ScreensInit => MenuInit
  BY DEF ScreensInit
<1>2. [ScreensNext]_screenVars => [MenuNext]_menuVars
  <2> SUFFICES ASSUME [ScreensNext]_screenVars PROVE [MenuNext]_menuVars
    OBVIOUS
  <2>1. CASE SignIn
    BY <2>1 DEF SignIn
  <2>2. CASE OpenMenu
    BY <2>2 DEF OpenMenu, MenuNext
  <2>3. CASE InMenu
    BY <2>3 DEF InMenu, MenuNext
  <2>4. CASE UNCHANGED screenVars
    BY <2>4 DEF screenVars
  <2> QED
    BY <2>1, <2>2, <2>3, <2>4 DEF ScreensNext
<1> QED
  BY <1>1, <1>2, PTL DEF ScreensSpec, MenuSpec

\* Over any number of sign-ins each menu keeps what MainMenu promises of one: in it a press
\* steers or chooses once, what is chosen was drawn, and signing out takes a direction.  A
\* key that is held when a menu opens counts as pressed in it, so one that is held through
\* a sign-out acts in the next menu too (App.cpp 1901-1957).
THEOREM ScreensMenuCorrect == ScreensSpec => []SignOutIsMeant /\ OncePerPress /\ ChosenWasDrawn
BY ScreensHaveMenu, SignOutMeant, OncePerPressCorrect, DrawnCorrect, PTL

-----------------------------------------------------------------------------
(* All types.                                                              *)

\* Type correctness of page and menu: every codeword is a byte, the walk over the
\* modules stays in the symbol and its bits in the codewords (App.cpp 1961-1986, qr_code.h 31-125, 158-167, 235-265).
THEOREM ScreensTypeCorrect == ScreensSpec => []ScreensTypeOK
<1>1. ScreensInit => PageTypeOK
  <2> SUFFICES ASSUME ScreensInit PROVE PageTypeOK
    OBVIOUS
  <2>1. CodewordsTypeOK
    BY DEF ScreensInit, Init, QrInit, CodewordsTypeOK, NoRemainder, DataCodewords
  <2>2. WalkTypeOK
    <3>1. upward \in BOOLEAN /\ dark \subseteq Cells /\ reserved \subseteq Cells
      BY DEF ScreensInit, Init, QrInit
    <3>2. right \in -1..28 /\ vert \in 0..28 /\ j \in 0..1 /\ bitIndex \in 0..560
      BY DEF ScreensInit, Init, QrInit
    <3> QED
      BY <3>1, <3>2 DEF WalkTypeOK, kSize, DataCodewords, EccCodewords
  <2> QED
    BY <2>1, <2>2 DEF ScreensInit, Init, QrInit, PageTypeOK, QrTypeOK
<1>2. /\ PageTypeOK /\ PageInv /\ OneScreen /\ OneScreen'
      /\ [ScreensNext]_screenVars
      => PageTypeOK'
  BY PageTyped
<1>3. PageTypeOK /\ MenuInv /\ OneScreen => ScreensTypeOK
  BY DEF ScreensTypeOK, MenuInv, OneScreen
<1>4. ScreensSpec => []MenuInv
  BY ScreensHaveMenu, MenuCorrect, PTL
<1> QED
  BY <1>1, <1>2, <1>3, <1>4, OneScreenCorrect, PageInvCorrect, PTL DEF ScreensSpec
===============================================================================
