------------------------------- MODULE MainMenu -------------------------------
(***************************************************************************)
(* ShowMainMenu: twenty times a second it draws the three entries, lets    *)
(* the window take in its events, looks at nine keys, and compares with    *)
(* the look before.  Keys move at any time, several between two looks, and *)
(* may be held since before the menu; after a sign out it opens again.     *)
(* While it is closed nobody looks at them.                                *)
(***************************************************************************)
EXTENDS Integers

CONSTANTS
    Keys,       \* virtual keys of keyboard and controller
    KeysFor     \* the keys that mean "up", "down" and "select"

Commands == {"up", "down", "select"}
Steering == {"up", "down"}

ASSUME KeysAssumption == KeysFor \in [Commands -> SUBSET Keys]

VARIABLES
    open,        \* the loop runs
    pressed,     \* system: the keys held, while the menu is open
    wasDown,     \* upWasDown, downWasDown, selectWasDown
    selected,    \* the entry selected, 0 to 2
    drawn,       \* selectedMenuIndex of the last frame
    choice,      \* what the menu returned last; "none" while it is open
    anew,        \* history: commands given since the menu last looked: a first key of
                 \* theirs went down, or was down when the menu opened
    steered      \* history: it saw a command to steer since it opened

menuVars == <<open, pressed, wasDown, selected, drawn, choice, anew, steered>>

Labels == <<"play", "mods", "signout">>

MenuTypeOK ==
    /\ open \in BOOLEAN /\ steered \in BOOLEAN
    /\ pressed \subseteq Keys
    /\ wasDown \subseteq Commands /\ anew \subseteq Commands
    /\ selected \in 0..2 /\ drawn \in 0..2
    /\ choice \in {"none", "play", "signout"}

\* AnyVirtualKeyDown.
IsDown(c) == KeysFor[c] \cap pressed # {}
Held == {c \in Commands : IsDown(c)}

MenuInit ==
    /\ open = FALSE /\ pressed = {}
    /\ wasDown = {} /\ selected = 0 /\ drawn = 0 /\ choice = "none"
    /\ anew = {} /\ steered = FALSE

-----------------------------------------------------------------------------
\* A key goes down or comes up.
KeyMoves(k) ==
    /\ open
    /\ pressed' = IF k \in pressed THEN pressed \ {k} ELSE pressed \cup {k}
    /\ anew' = anew \cup (IF k \notin pressed
                            THEN {c \in Commands : k \in KeysFor[c] /\ ~IsDown(c)} ELSE {})
    /\ UNCHANGED <<open, wasDown, selected, drawn, choice, steered>>

\* Mutant: the entry of the last time is still selected.
OpenWhereLeft ==
    /\ ~open
    /\ \/ /\ open' = TRUE /\ choice' = "none"
          /\ pressed' \in SUBSET Keys
          /\ wasDown' = {} /\ UNCHANGED <<selected, drawn>>
          /\ anew' = Held' /\ steered' = FALSE
       \/ /\ choice' = "play" /\ anew' = {}
          /\ UNCHANGED <<open, pressed, wasDown, selected, drawn, steered>>

\* The menu opens; or it cannot be drawn and falls through to Play.  No key counts as down
\* at the last look, so one that is held already, from the sign-in or from the menu before,
\* acts once in this menu.
Open ==
    /\ ~open
    /\ \/ /\ open' = TRUE /\ choice' = "none"
          /\ pressed' \in SUBSET Keys
          /\ wasDown' = {} /\ selected' = 0 /\ drawn' = 0
          /\ anew' = Held' /\ steered' = FALSE
       \/ /\ choice' = "play" /\ anew' = {}
          /\ UNCHANGED <<open, pressed, wasDown, selected, drawn, steered>>

\* Mutant: a command is taken as long as its key is held.
CommandsWhileHeld == Held

\* The keys that are down now and were not at the last look.
Edges == Held \ wasDown

\* Mutant: up takes one away, and the remainder of a negative number is negative.
MovedBelow ==
    IF "up" \in Edges THEN IF selected = 0 THEN -1 ELSE selected - 1
    ELSE IF "down" \in Edges THEN (selected + 1) % 3
    ELSE selected

\* Where the directions lead; both at once cancel out.
Moved ==
    (selected + (IF "up" \in Edges THEN 2 ELSE 0) + (IF "down" \in Edges THEN 1 ELSE 0)) % 3

\* Mutant: the third entry is where it was when there were two.
ChosenOfTwo(entry) == IF entry = 0 THEN "play" ELSE IF entry = 2 THEN "none" ELSE "signout"

Chosen(entry) == IF entry = 0 THEN "play" ELSE IF entry = 1 THEN "none" ELSE "signout"

\* One turn of the loop: the frame, the window's events, and the look at the keys.
\* Select takes what the directions of the same look have left selected.
Turn ==
    /\ open
    /\ drawn' = selected
    /\ selected' = Moved
    /\ choice' = IF "select" \in Edges THEN Chosen(selected') ELSE "none"
    /\ open' = (choice' = "none")
    /\ IF open' THEN UNCHANGED pressed /\ wasDown' = Held
       ELSE pressed' = {} /\ wasDown' = {}
    /\ anew' = {}
    /\ steered' = (steered \/ Edges \cap Steering # {})

MenuNext == Open \/ Turn \/ \E k \in Keys : KeyMoves(k)

MenuSpec == MenuInit /\ [][MenuNext]_menuVars

-----------------------------------------------------------------------------
(* Properties.                                                             *)

\* One press, one step in a menu: whatever the turns of the loop and the keys' moves
\* between them, a held key steers once and chooses once, and a command that nobody gave
\* since the last look does nothing.  A key that is held when the menu opens counts as
\* given then (App.cpp 1902-1957).
OncePerPress ==
    [][/\ open /\ selected' # selected => anew \cap Steering # {}
       /\ open /\ choice' # "none" => "select" \in anew]_menuVars

\* Who does nothing but select never signs out, also after a menu that was left at
\* that entry: signing out takes a look that saw a direction (App.cpp 1901-1950).
SignOutIsMeant == choice = "signout" => steered

\* What is returned is the entry that was drawn as selected, unless a direction was
\* given since that frame (App.cpp 1411-1426, 1907-1950).
ChosenWasDrawn ==
    [][open /\ choice' # "none" => Labels[drawn' + 1] = choice' \/ anew \cap Steering # {}]_menuVars

-----------------------------------------------------------------------------
(* Inductive strengthening.                                                *)

\* A key that is down and was up at the last look went down since.
EdgeInv == open => Edges \subseteq anew

\* Only a look that saw a direction leaves the first entry.
SteeredInv == open /\ selected # 0 => steered

\* While the loop runs nothing is chosen.
ChoiceInv == open => choice = "none"
=============================================================================
