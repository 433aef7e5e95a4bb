--------------------------------- MODULE Wire ---------------------------------
(***************************************************************************)
(* How the launcher writes its requests and reads the answers: no library, *)
(* but a search for a key and its value, and two escapings.  A text is a   *)
(* sequence of atoms: a character, a control character by its name, or a   *)
(* word whose letters do not matter.  The second half says what a service  *)
(* that keeps to the standards makes of a request, and how it writes an    *)
(* answer; no line of the repository stands behind it.                     *)
(***************************************************************************)
EXTENDS Integers, FiniteSets, SequencesExt

Quote == "\""
Backslash == "\\"
Numerals == <<"0", "1", "2", "3", "4", "5", "6", "7", "8", "9">>
Blanks == {" ", "TAB", "LF", "FF", "CR"}

\* Control characters with a letter of their own in JSON, and one without.
Letter == [BS |-> "b", FF |-> "f", LF |-> "n", CR |-> "r", TAB |-> "t"]
Coded == [SOH |-> <<"0", "0", "0", "1">>]

\* The characters a form has to encode, but for the blank.
Unsafe == {":", "/", "&", "=", "+", "%", "*", "LF", Quote, Backslash}
Hex == [c \in Unsafe |->
    CASE c = ":" -> <<"3", "A">> [] c = "/" -> <<"2", "F">> [] c = "&" -> <<"2", "6">>
      [] c = "=" -> <<"3", "D">> [] c = "+" -> <<"2", "B">> [] c = "%" -> <<"2", "5">>
      [] c = "*" -> <<"2", "A">> [] c = "LF" -> <<"0", "A">>
      [] c = Quote -> <<"2", "2">> [] c = Backslash -> <<"5", "C">>]

-----------------------------------------------------------------------------
(* Reading.                                                                *)

\* std::string::find: the first place from the given one on, or 0.
Find(content, what, from) ==
    LET places == {p \in from..Len(content) + 1 - Len(what) :
                      SubSeq(content, p, p + Len(what) - 1) = what}
    IN IF places = {} THEN 0 ELSE Min(places)

\* Where the colon after a key stands, or 0.
ColonAfter(content, key) ==
    LET keyPos == Find(content, <<Quote, key, Quote>>, 1)
    IN IF keyPos = 0 THEN 0 ELSE Find(content, <<":">>, keyPos + 3)

\* Mutant: the atom after a backslash is read by itself.
ValueWidthOfOne(content, p) == 1

\* In a value a backslash takes the next atom with it.
ValueWidth(content, p) == IF content[p] = Backslash THEN 2 ELSE 1

\* Whatever stands between the colon and the next quote is passed over; a value
\* that does not end is none.
ExtractJsonStringValue(content, key) ==
    LET colon == ColonAfter(content, key)
        start == Find(content, <<Quote>>, colon + 1) + 1
        end[p \in 1..Len(content) + 2] ==
            IF p > Len(content) \/ content[p] = Quote THEN p ELSE end[p + ValueWidth(content, p)]
        value[p \in 1..Len(content) + 2] ==
            IF p > Len(content) \/ content[p] = Quote THEN <<>>
            ELSE <<content[p + ValueWidth(content, p) - 1]>> \o value[p + ValueWidth(content, p)]
    IN IF colon = 0 \/ start = 1 \/ end[start] > Len(content) THEN <<>> ELSE value[start]

Numeral(atom) == CHOOSE d \in 0..9 : Numerals[d + 1] = atom

Signed(digits, sign) ==
    LET value[n \in 0..Len(digits)] ==
            IF n = 0 THEN 0 ELSE 10 * value[n - 1] + sign * Numeral(digits[n])
    IN value[Len(digits)]

\* Mutant: the smallest number is one too far.
OutOfRangeAlike(digits, sign) ==
    LET nonzero == {k \in DOMAIN digits : digits[k] # "0"}
        size == IF nonzero = {} THEN 0 ELSE Len(digits) + 1 - Min(nonzero)
        head == Signed(SubSeq(digits, 1, Len(digits) - 1), 1)
    IN size > 10 \/ (size = 10 /\ (head > 214748364 \/ (head = 214748364 /\ Numeral(Last(digits)) > 7)))

\* What std::stoi throws at, beside a text without digits: more than 32 bits.
OutOfRange(digits, sign) ==
    LET nonzero == {k \in DOMAIN digits : digits[k] # "0"}
        size == IF nonzero = {} THEN 0 ELSE Len(digits) + 1 - Min(nonzero)
        head == Signed(SubSeq(digits, 1, Len(digits) - 1), 1)
        last == Numeral(digits[Len(digits)])
    IN \/ size > 10
       \/ size = 10 /\ (head > 214748364 \/ (head = 214748364 /\ last > IF sign = 1 THEN 7 ELSE 8))

ExtractJsonIntValue(content, key, fallback) ==
    LET colon == ColonAfter(content, key)
        pos == Min({p \in colon + 1..Len(content) + 1 : p > Len(content) \/ content[p] \notin Blanks})
        sign == IF pos <= Len(content) /\ content[pos] = "-" THEN -1 ELSE 1
        from == IF sign = 1 THEN pos ELSE pos + 1
        end == Min({p \in from..Len(content) + 1 :
                       p > Len(content) \/ \A d \in 1..10 : content[p] # Numerals[d]})
        digits == SubSeq(content, from, end - 1)
    IN IF colon = 0 \/ digits = <<>> \/ OutOfRange(digits, sign) THEN fallback
       ELSE Signed(digits, sign)

-----------------------------------------------------------------------------
(* Writing.                                                                *)

\* Mutant: the quote is left out.
EscapeOfBackslashOnly(c) ==
    IF c = Backslash THEN <<Backslash, c>>
    ELSE IF c \in DOMAIN Letter THEN <<Backslash, Letter[c]>>
    ELSE IF c \in DOMAIN Coded THEN <<Backslash, "u">> \o Coded[c]
    ELSE <<c>>

EscapeOf(c) ==
    IF c \in {Backslash, Quote} THEN <<Backslash, c>>
    ELSE IF c \in DOMAIN Letter THEN <<Backslash, Letter[c]>>
    ELSE IF c \in DOMAIN Coded THEN <<Backslash, "u">> \o Coded[c]
    ELSE <<c>>

JsonEscape(value) == FlattenSeq([i \in DOMAIN value |-> EscapeOf(value[i])])

EncodeOf(c) ==
    IF c = " " THEN <<"+">> ELSE IF c \in DOMAIN Hex THEN <<"%">> \o Hex[c] ELSE <<c>>

FormUrlEncode(value) == FlattenSeq([i \in DOMAIN value |-> EncodeOf(value[i])])

\* fields is a sequence of pairs.
FieldText(field) == FormUrlEncode(field[1]) \o <<"=">> \o FormUrlEncode(field[2])

MakeFormBody(fields) ==
    FlattenSeq([n \in DOMAIN fields |->
        (IF n = 1 THEN <<>> ELSE <<"&">>) \o FieldText(fields[n])])

-----------------------------------------------------------------------------
(* The other side.                                                         *)

\* A JSON string up to its closing quote (RFC 8259, 7), character by character; none
\* takes more than six atoms.
JsonWidth(s, p) == IF s[p] # Backslash THEN 1 ELSE IF s[p + 1] = "u" THEN 6 ELSE 2

JsonCharacter(s, p) ==
    LET named == {c \in DOMAIN Letter : Letter[c] = s[p + 1]}
    IN CASE JsonWidth(s, p) = 1 -> s[p]
         [] JsonWidth(s, p) = 2 -> IF named = {} THEN s[p + 1] ELSE CHOOSE c \in named : TRUE
         [] JsonWidth(s, p) = 6 -> CHOOSE c \in DOMAIN Coded : Coded[c] = SubSeq(s, p + 2, p + 5)

JsonString(s) ==
    LET from[p \in 1..Len(s) + 6] ==
            IF p > Len(s) \/ s[p] = Quote THEN <<>>
            ELSE <<JsonCharacter(s, p)>> \o from[p + JsonWidth(s, p)]
    IN from[1]

\* One name or value of a form (application/x-www-form-urlencoded).
FormWidth(s, p) == IF s[p] = "%" THEN 3 ELSE 1

FormCharacter(s, p) ==
    IF s[p] = "%" THEN CHOOSE c \in DOMAIN Hex : Hex[c] = SubSeq(s, p + 1, p + 2)
    ELSE IF s[p] = "+" THEN " " ELSE s[p]

FormString(s) ==
    LET from[p \in 1..Len(s) + 3] ==
            IF p > Len(s) THEN <<>> ELSE <<FormCharacter(s, p)>> \o from[p + FormWidth(s, p)]
    IN from[1]

\* One field, cut at its first equals sign.
FormField(s) ==
    LET equals == Find(s, <<"=">>, 1)
    IN <<FormString(SubSeq(s, 1, equals - 1)), FormString(SubSeq(s, equals + 1, Len(s)))>>

\* The fields between the ampersands.
FormFields(body) ==
    LET from[p \in 1..Len(body) + 1] ==
            LET cut == Find(body, <<"&">>, p)
            IN IF cut = 0 THEN <<FormField(SubSeq(body, p, Len(body)))>>
               ELSE <<FormField(SubSeq(body, p, cut - 1))>> \o from[cut + 1]
    IN from[1]

\* An answer is a sequence of members; a member's value is a string, a number, null
\* or an object, whose members follow up to its end.  How it is written is up to the
\* service: with blanks or without, a slash escaped or not, and characters that need no
\* number written by one or not.
Style == [blank : BOOLEAN, slash : BOOLEAN, unicode : BOOLEAN]
End == [key |-> "", value |-> [kind |-> "end"]]

Optional == {"&", "+", Quote}
Digits(c) == IF c \in DOMAIN Coded THEN Coded[c] ELSE <<"0", "0">> \o Hex[c]
IsNumbered(c, style) == c \in DOMAIN Coded \/ (c \in Optional /\ style.unicode)

\* A character as the service writes it: atoms alone or behind a backslash.
CharUnits(c, style) ==
    IF IsNumbered(c, style) THEN << <<Backslash, "u">> >> \o [d \in 1..4 |-> <<Digits(c)[d]>>]
    ELSE IF c \in {Quote, Backslash} \/ (c = "/" /\ style.slash) THEN << <<Backslash, c>> >>
    ELSE IF c \in DOMAIN Letter THEN << <<Backslash, Letter[c]>> >>
    ELSE << <<c>> >>

Units(text, style) == FlattenSeq([i \in DOMAIN text |-> CharUnits(text[i], style)])

\* What is left of a text for a reader who drops the backslash and keeps what follows.
Heard(text, style) == [k \in DOMAIN Units(text, style) |-> Last(Units(text, style)[k])]

\* The text itself, when nothing in it is written by a letter or a number.
IsPlain(text, style) ==
    \A i \in DOMAIN text : text[i] \notin DOMAIN Letter /\ ~IsNumbered(text[i], style)

ValueText(v, style) ==
    CASE v.kind = "string" ->
            <<Quote>> \o FlattenSeq(Units(v.text, style)) \o <<Quote>>
      [] v.kind = "number" -> v.text
      [] v.kind = "null" -> <<"null">>
      [] v.kind = "object" -> <<"{">>

MemberText(m, style) ==
    IF m = End THEN <<"}">>
    ELSE <<Quote, m.key, Quote, ":">> \o (IF style.blank THEN <<" ">> ELSE <<>>)
         \o ValueText(m.value, style)

Comma(answer, n) ==
    IF n = 1 \/ answer[n] = End \/ answer[n - 1].value.kind = "object" THEN <<>> ELSE <<",">>

Written(answer, style) ==
    <<"{">> \o FlattenSeq([n \in DOMAIN answer |-> Comma(answer, n) \o MemberText(answer[n], style)])
          \o <<"}">>

Members(answer) == {answer[n] : n \in DOMAIN answer} \ {End}

KeysOf(answer) == {m.key : m \in Members(answer)}

\* The values of the members with a key, those of inner objects included.
ValuesOf(answer, key) == {m.value : m \in {k \in Members(answer) : k.key = key}}

\* The value of the first member with a key.
FirstOf(answer, key) ==
    answer[Min({n \in DOMAIN answer : answer[n] # End /\ answer[n].key = key})].value

\* What the search relies on: members with strings, numbers, nulls and objects, a key that
\* is one word, and no text that ends in a searched key, alone or behind a quote.  A key
\* may be there more than once.
Words == STRING \ {Quote, Backslash, ":", ",", "}"}
JsonValue == [kind : {"string"}, text : Seq(STRING)]
    \cup [kind : {"number"}, text : Seq(STRING \ {Quote}), fits : BOOLEAN, n : Int]
    \cup [kind : {"null", "object"}]

EndsInKey(text, keys) ==
    LET n == Len(text)
    IN n > 0 /\ text[n] \in keys /\ (n = 1 \/ text[n - 1] = Quote)

IsSearchable(answer, keys) ==
    /\ answer \in Seq([key : Words, value : JsonValue] \cup {End})
    /\ \A m \in Members(answer), style \in Style :
           m.value.kind = "string" => ~EndsInKey(Heard(m.value.text, style), keys)
===============================================================================
