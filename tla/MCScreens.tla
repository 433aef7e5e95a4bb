------------------------------ MODULE MCScreens ------------------------------
(***************************************************************************)
(* An instance of Screens for TLC: forms, tokens and answers of the kinds  *)
(* the sign-in exchanges, with every character that needs care, user codes *)
(* of the usual length, at and over the limit of the symbol, and the keys  *)
(* of a keyboard and of a controller, two for each command of the menu.    *)
(***************************************************************************)
EXTENDS Screens, TLC

Text(t) == [kind |-> "string", text |-> t]
Int32(t, n) == [kind |-> "number", text |-> t, fits |-> TRUE, n |-> n]
TooLarge(t) == [kind |-> "number", text |-> t, fits |-> FALSE, n |-> 0]
Null == [kind |-> "null"]
Member(key, value) == [key |-> key, value |-> value]
Object(key, members) == <<Member(key, [kind |-> "object"])>> \o members \o <<End>>

\* https://www.microsoft.com/link?otc=
MCAddress == <<104, 116, 116, 112, 115, 58, 47, 47, 119, 119, 119, 46, 109, 105, 99, 114, 111,
               115, 111, 102, 116, 46, 99, 111, 109, 47, 108, 105, 110, 107, 63, 111, 116, 99, 61>>
MCAscii == [A |-> 65, K |-> 75, W |-> 87] @@ ("2" :> 50) @@ ("9" :> 57) @@ ("-" :> 45)

MCStyles == Style

MCForms ==
    {<< <<<<"client_id">>, <<"c36a9fb6">>>>, <<<<"scope">>, <<"XboxLive.signin", " ", "offline_access">>>> >>,
     << <<<<"grant_type">>, <<"urn", ":", "ietf">>>>, <<<<"device_code">>, <<"A", "&", "=", "+", "%", "2", "B">>>> >>,
     << <<<<"refresh_token">>, <<"M", ".", "/", "=", "=", " ", "*", Quote, Backslash, "LF">>>> >>,
     << <<<<"refresh_token">>, <<>>>>, <<<<"scope">>, <<" ", " ">>>> >>}

MCTokens ==
    {<<"XBL3.0", " ", "x", "=", "9", ";", "eyJ", ".", "/", "+">>,
     <<Quote, "A", Quote>>, <<Backslash, Backslash, Quote>>, <<"A", Backslash, "n", "LF">>,
     <<"BS", "FF", "CR", "TAB", "SOH", Backslash>>, <<>>}

Url == <<"https", ":", "/", "/", "microsoft.com", "/", "link">>

DeviceAnswer(code) ==
    << Member("user_code", Text(code)), Member("device_code", Text(<<"A", "9", "W">>)),
       Member("verification_uri", Text(Url)), Member("expires_in", Int32(<<"9", "0", "0">>, 900)),
       Member("interval", Int32(<<"5">>, 5)),
       Member("message", Text(<<"open", " ">> \o Url \o <<" ", Quote>> \o code \o <<Quote>>)) >>

\* The message first, with the words of a key in it, and numbers at the limits.
MessageFirst(code) ==
    << Member("message", Text(<<"the", " ", Quote, "user_code", Quote, ":", " ", Quote, "K", Quote, Backslash>>)),
       Member("interval", TooLarge(<<"2", "1", "4", "7", "4", "8", "3", "6", "4", "8">>)),
       Member("expires_in", Int32(<<"-", "0", "7">>, -7)),
       Member("verification_uri", Text(Url)), Member("device_code", Text(<<"W">>)),
       Member("user_code", Text(code)) >>

Repeated(atom, length) == [i \in 1..length |-> IF i % 5 = 0 THEN "-" ELSE atom]

MCAnswers ==
    {DeviceAnswer(<<"A", "K", "2", "9", "W", "W", "A", "2">>),
     MessageFirst(<<"K", "9">>),
     MessageFirst(Repeated("K", 18)),
     DeviceAnswer(Repeated("9", 19)),
     \* no device code
     << Member("error", Text(<<"authorization_pending">>)),
        Member("error_description", Text(<<"AADSTS70016", ":", " ", Quote, "2.0", Quote, "CR", "LF", "SOH", "n">>)),
        Member("error_uri", Text(Url)) >>,
     << Member("user_code", Text(<<>>)), Member("device_code", Text(<<"A">>)), Member("verification_uri", Text(Url)) >>,
     << Member("error", Text(<<"slow_down">>)), Member("interval", Int32(<<"1", "0">>, 10)) >>,
     << Member("interval", Int32(<<"2", "1", "4", "7", "4", "8", "3", "6", "4", "7">>, 2147483647)),
        Member("expires_in", Int32(<<"-", "2", "1", "4", "7", "4", "8", "3", "6", "4", "8">>, -2147483647 - 1)),
        Member("device_code", Text(<<"A", "&", "=", Backslash, "n", "LF">>)) >>,
     \* tokens and a profile
     << Member("token_type", Text(<<"Bearer">>)), Member("expires_in", TooLarge(<<"9", "9", "9", "9", "9", "9", "9", "9", "9", "9", "9">>)),
        Member("access_token", Text(<<"eyJ", ".", "/", "+", "=", Backslash, Backslash>>)),
        Member("refresh_token", Text(<<Backslash, Quote>>)) >>,
     << Member("Token", Text(<<"eyJ">>)) >>
        \o Object("DisplayClaims", Object("xui", <<Member("uhs", Text(<<"9", "2">>))>>)),
     << Member("id", Text(<<"A9">>)), Member("name", Text(<<"K", Quote, "W">>)) >>
        \o Object("skins", <<Member("id", Text(<<"9">>)), Member("state", Text(<<"ACTIVE">>)),
                             Member("url", Text(Url))>>)
        \o Object("capes", <<Member("id", Text(<<"W">>)), Member("alias", Null)>>),
     \* the other way around: the skin's is found
     Object("skins", <<Member("id", Text(<<"9">>)), Member("state", Null)>>)
        \o << Member("id", Text(<<"A9">>)), Member("state", Text(<<"K">>)) >>,
     << >>}

MCKeysFor == [up |-> {"Up", "DPadUp"}, down |-> {"Down", "DPadDown"}, select |-> {"Enter", "A"}]
MCKeys == UNION {MCKeysFor[c] : c \in Commands}
===============================================================================
