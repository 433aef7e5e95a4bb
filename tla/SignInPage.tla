------------------------------ MODULE SignInPage ------------------------------
(***************************************************************************)
(* From a request to the page the player scans: Wire writes the requests   *)
(* of the sign-in and reads the answers, and a user code that was read     *)
(* goes into the symbol that QrCode draws.  LauncherAuth has the same      *)
(* calls as steps that succeed or fail; here they have their texts.        *)
(***************************************************************************)
EXTENDS QrCode, Wire

CONSTANTS
    Forms,      \* fields of the forms the launcher posts
    Tokens,     \* tokens and identities it puts into a JSON body
    Answers,    \* what the services answer
    Styles,     \* how they write it
    Address,    \* the page's address before the user code, in bytes
    Ascii       \* the byte of an atom

ASSUME StylesAssumption == Styles \subseteq Style
\* A form has at least one field, its names and values and the tokens are texts.
ASSUME RequestsAssumption ==
    /\ <<>> \notin Forms
    /\ \A f \in Forms : f \in Seq(Seq(STRING) \X Seq(STRING))
    /\ Tokens \subseteq Seq(STRING)
\* A user code is a text of characters that have a byte and are written as they are.
ASSUME CodesAssumption ==
    /\ Address \in Seq(0..255) /\ \A c \in DOMAIN Ascii : Ascii[c] \in 0..255
    /\ DOMAIN Ascii \cap (Optional \cup DOMAIN Letter \cup DOMAIN Coded) = {}
    /\ \A a \in Answers : \A value \in ValuesOf(a, "user_code") :
           value.kind = "string" /\ value.text \in Seq(DOMAIN Ascii)

Fields == {"user_code", "device_code", "verification_uri"}
Searched == Fields \cup UNION {KeysOf(a) : a \in Answers}

\* The keys that are looked for in an answer are found in it.
ASSUME AnswersAssumption == \A a \in Answers : IsSearchable(a, Searched)

VARIABLES
    step,       \* "post", "wait" for the answer, "read" it, or show the "page"
    sent,       \* what the request under way is to say
    body,       \* its text
    answer,     \* what the service says
    content     \* its text

httpVars == <<sent, body, answer, content>>
pageVars == <<qrVars, step, httpVars>>

Nothing == [kind |-> "nothing"]

PageTypeOK ==
    /\ QrTypeOK
    /\ step \in {"post", "wait", "read", "page"}
    /\ sent \in {Nothing} \cup [kind : {"form"}, fields : Forms] \cup [kind : {"json"}, token : Tokens]
    /\ answer \in Answers \cup {<<>>}
    /\ step # "page" => pc = "idle" /\ codewords = <<>>

Init ==
    /\ QrInit
    /\ step = "post" /\ sent = Nothing /\ body = <<>> /\ answer = <<>> /\ content = <<>>

-----------------------------------------------------------------------------
PostForm(fields) ==
    /\ step = "post"
    /\ sent' = [kind |-> "form", fields |-> fields] /\ body' = MakeFormBody(fields)
    /\ step' = "wait"
    /\ UNCHANGED <<qrVars, answer, content>>

\* The login's body; the Xbox ones have more around the token.
PostJson(token) ==
    /\ step = "post"
    /\ sent' = [kind |-> "json", token |-> token]
    /\ body' = <<"{", Quote, "identityToken", Quote, ":", Quote>> \o JsonEscape(token) \o <<Quote, "}">>
    /\ step' = "wait"
    /\ UNCHANGED <<qrVars, answer, content>>

Answer(a, style) ==
    /\ step = "wait"
    /\ answer' = a /\ content' = Written(a, style)
    /\ sent' = Nothing /\ body' = <<>>
    /\ step' = "read"
    /\ UNCHANGED qrVars

\* Mutant: the code for the service's own use is shown.
UserCodeOfDevice == ExtractJsonStringValue(content, "device_code")

UserCode == ExtractJsonStringValue(content, "user_code")

\* A device code whose answer has all it needs gets its page.
RequestDeviceCode ==
    /\ step = "read"
    /\ \A key \in Fields : ExtractJsonStringValue(content, key) # <<>>
    /\ GenerateLoginQrMatrix(Address \o [i \in DOMAIN UserCode |-> Ascii[UserCode[i]]])
    /\ step' = "page"
    /\ UNCHANGED httpVars

\* Other answers are read and done with; a device code that misses a field is an error.
ReadAnswer ==
    /\ step = "read"
    /\ \E key \in Fields : ExtractJsonStringValue(content, key) = <<>>
    /\ answer' = <<>> /\ content' = <<>>
    /\ step' = "post"
    /\ UNCHANGED <<qrVars, sent, body>>

Draw ==
    /\ step = "page" /\ BuildSymbol
    /\ UNCHANGED <<step, httpVars>>

\* The player signs in, or the code expires.
LeavePage ==
    /\ step = "page" /\ pc = "idle"
    /\ text' = <<>> /\ codewords' = <<>> /\ divided' = 0 /\ remainder' = NoRemainder
    /\ dark' = {} /\ reserved' = {}
    /\ answer' = <<>> /\ content' = <<>>
    /\ step' = "post"
    /\ UNCHANGED <<loops, pc, sent, body>>

Next ==
    \/ \E f \in Forms : PostForm(f)
    \/ \E t \in Tokens : PostJson(t)
    \/ \E a \in Answers, s \in Styles : Answer(a, s)
    \/ RequestDeviceCode \/ ReadAnswer \/ Draw \/ LeavePage

Spec == Init /\ [][Next]_pageVars

-----------------------------------------------------------------------------
(* Properties.                                                             *)

\* A service that reads forms and JSON strings by their standards gets the fields and
\* the token that were meant, whatever characters are in them (App.cpp 911-963).
RequestsAreRead ==
    /\ sent.kind = "form" => FormFields(body) = sent.fields
    /\ sent.kind = "json" => JsonString(SubSeq(body, 7, Len(body))) = sent.token

\* The search for a key gives the text of the first member with that key, in inner
\* objects too, and nothing when there is none, however the service spaces and escapes its
\* answer.  It gives the very text if the service wrote no character by a letter or a
\* number; of \n and \u0026 it keeps n and u0026, and loses nothing else
\* (App.cpp 851-880).
StringsAreRead ==
    step = "read" =>
        \E style \in Styles :
            /\ content = Written(answer, style)
            /\ \A key \in Searched :
                   LET value == ExtractJsonStringValue(content, key)
                       first == FirstOf(answer, key)
                   IN IF key \notin KeysOf(answer) THEN value = <<>>
                      ELSE first.kind = "string" =>
                               /\ value = Heard(first.text, style)
                               /\ IsPlain(first.text, style) => value = first.text

\* A number is found as well, up to both ends of 32 bits, and beyond them the fallback
\* (App.cpp 882-909).
NumbersAreRead ==
    step = "read" =>
        \A key \in Searched \cap KeysOf(answer) :
            LET first == FirstOf(answer, key)
            IN first.kind = "number" =>
                   ExtractJsonIntValue(content, key, -99) = IF first.fits THEN first.n ELSE -99

\* The symbol on the page leads to the code that the service issued, or, when it does
\* not fit, to none; a user code that is spoken of before is not taken for it
\* (App.cpp 854-880, 1961-1986, 2244).
PageShowsIssuedCode ==
    step = "page" =>
        LET code == FirstOf(answer, "user_code").text
        IN text = Address \o [i \in DOMAIN code |-> Ascii[code[i]]]
===============================================================================
