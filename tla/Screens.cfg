SPECIFICATION ScreensSpec
CONSTANTS
    Forms <- MCForms
    Tokens <- MCTokens
    Answers <- MCAnswers
    Styles <- MCStyles
    Address <- MCAddress
    Ascii <- MCAscii
    Keys <- MCKeys
    KeysFor <- MCKeysFor
INVARIANTS
    ScreensTypeOK
    Readable
    Correctable
    PatternsShown
    RequestsAreRead
    StringsAreRead
    NumbersAreRead
    PageShowsIssuedCode
    SignOutIsMeant
PROPERTIES
    OncePerPress
    ChosenWasDrawn
