---------------------------- MODULE MainMenuProofs ----------------------------
(***************************************************************************)
(* The properties of MainMenu for any keys and any meaning of them, by an  *)
(* invariant that ties what the menu remembers of the keys to what the     *)
(* player did.                                                             *)
(***************************************************************************)
EXTENDS MainMenu, TLAPS

MenuInv == MenuTypeOK /\ EdgeInv /\ SteeredInv /\ ChoiceInv /\ SignOutIsMeant

\* One turn of the loop, in the words of the properties.
LEMMA TurnStep ==
    ASSUME MenuTypeOK, Turn
    PROVE  /\ selected' \in 0..2
           /\ selected' # selected => Edges \cap Steering # {}
           /\ choice' \in {"none", "play", "signout"}
           /\ choice' # "none" => "select" \in Edges
           /\ choice' = "signout" => selected' # 0
           /\ choice' # "none" => Labels[selected' + 1] = choice'
<1>1. selected' \in 0..2 /\ (selected' # selected => Edges \cap Steering # {})
  <2>1. selected \in 0..2
    BY DEF MenuTypeOK
  <2>2. CASE "up" \in Edges \/ "down" \in Edges
    BY <2>1, <2>2, Turn DEF Turn, Moved, Steering
  <2>3. CASE "up" \notin Edges /\ "down" \notin Edges
    BY <2>1, <2>3, Turn DEF Turn, Moved
  <2>. QED
    BY <2>2, <2>3
<1>2. /\ choice' \in {"none", "play", "signout"}
      /\ choice' # "none" => "select" \in Edges
      /\ choice' # "none" => choice' = Chosen(selected')
  BY Turn DEF Turn, Chosen
<1>3. /\ choice' = "signout" => selected' # 0
      /\ choice' # "none" => Labels[selected' + 1] = choice'
  <2>1. CASE selected' = 0
    BY <1>2, <2>1 DEF Chosen, Labels
  <2>2. CASE selected' = 1
    BY <1>2, <2>2 DEF Chosen, Labels
  <2>3. CASE selected' = 2
    BY <1>2, <2>3 DEF Chosen, Labels
  <2>. QED
    BY <1>1, <2>1, <2>2, <2>3
<1>. QED
  BY <1>1, <1>2, <1>3

\* The initial states satisfy the invariant.
LEMMA InitMenu == MenuInit => MenuInv
<1>. SUFFICES ASSUME MenuInit
              PROVE  MenuInv
  OBVIOUS
<1>0. 0 \in 0..2
  OBVIOUS
<1>1. MenuTypeOK
  BY <1>0, Zenon DEF MenuInit, MenuTypeOK
<1>2. EdgeInv /\ SteeredInv /\ ChoiceInv /\ SignOutIsMeant
  BY DEF MenuInit, EdgeInv, SteeredInv, ChoiceInv, SignOutIsMeant
<1>. QED
  BY <1>1, <1>2 DEF MenuInv

\* Every step keeps it.
LEMMA StepMenu == MenuInv /\ [MenuNext]_menuVars => MenuInv'
<1>. SUFFICES ASSUME MenuInv, [MenuNext]_menuVars
              PROVE  MenuInv'
  OBVIOUS
<1>. USE DEF MenuInv
<1>1. CASE Open
  <2>0. 0 \in 0..2 /\ Held' \subseteq Commands
    BY DEF Held
  <2>1. MenuTypeOK'
    BY <1>1, <2>0, Zenon DEF Open, MenuTypeOK
  <2>2. EdgeInv'
    BY <1>1 DEF Open, EdgeInv, Edges, Held, IsDown
  <2>3. SteeredInv' /\ ChoiceInv' /\ SignOutIsMeant'
    BY <1>1 DEF Open, SteeredInv, ChoiceInv, SignOutIsMeant
  <2>. QED
    BY <2>1, <2>2, <2>3
<1>2. CASE Turn
  <2>1. MenuTypeOK'
    BY <1>2, TurnStep DEF Turn, MenuTypeOK, Held
  <2>2. EdgeInv'
    BY <1>2 DEF Turn, EdgeInv, Edges, Held, IsDown
  <2>3. selected' # 0 => steered'
    <3>1. CASE selected' # selected
      BY <1>2, <3>1, TurnStep DEF Turn
    <3>2. CASE selected' = selected
      BY <1>2, <3>2 DEF Turn, SteeredInv
    <3>. QED
      BY <3>1, <3>2
  <2>4. SteeredInv' /\ ChoiceInv' /\ SignOutIsMeant'
    BY <1>2, <2>3, TurnStep DEF Turn, SteeredInv, ChoiceInv, SignOutIsMeant
  <2>. QED
    BY <2>1, <2>2, <2>4
<1>3. ASSUME NEW k \in Keys, KeyMoves(k)
      PROVE  MenuInv'
  <2>1. MenuTypeOK'
    BY <1>3 DEF KeyMoves, MenuTypeOK
  <2>2. EdgeInv'
    <3>. SUFFICES ASSUME open', NEW c \in Commands, IsDown(c)', c \notin wasDown'
                  PROVE  c \in anew'
      BY DEF EdgeInv, Edges, Held
    <3>1. open /\ c \notin wasDown
      BY <1>3 DEF KeyMoves
    <3>2. CASE IsDown(c)
      BY <1>3, <3>1, <3>2 DEF KeyMoves, EdgeInv, Edges, Held
    <3>3. CASE ~IsDown(c)
      BY <1>3, <3>1, <3>3 DEF KeyMoves, IsDown
    <3>. QED
      BY <3>2, <3>3
  <2>3. SteeredInv' /\ ChoiceInv' /\ SignOutIsMeant'
    BY <1>3 DEF KeyMoves, SteeredInv, ChoiceInv, SignOutIsMeant
  <2>. QED
    BY <2>1, <2>2, <2>3
<1>4. CASE UNCHANGED menuVars
  BY <1>4 DEF menuVars, MenuTypeOK, EdgeInv, Edges, Held, IsDown, SteeredInv, ChoiceInv, SignOutIsMeant
<1>. QED
  BY <1>1, <1>2, <1>3, <1>4 DEF MenuNext

\* The invariant holds throughout.
THEOREM MenuCorrect == MenuSpec => []MenuInv
  BY InitMenu, StepMenu, PTL DEF MenuSpec

\* Nobody who only selects signs out, whatever keys stand for the commands
\* (App.cpp 1901-1950).
THEOREM SignOutMeant == MenuSpec => []SignOutIsMeant
<1>1. MenuInv => SignOutIsMeant
  BY DEF MenuInv
<1>. QED
  BY <1>1, MenuCorrect, PTL

\* A held key steers and chooses once (App.cpp 1912-1957).
THEOREM OncePerPressCorrect == MenuSpec => OncePerPress
<1>1. ASSUME MenuInv, [MenuNext]_menuVars
      PROVE  [/\ open /\ selected' # selected => anew \cap Steering # {}
              /\ open /\ choice' # "none" => "select" \in anew]_menuVars
  <2>1. CASE Turn
    BY <1>1, <2>1, TurnStep DEF MenuInv, EdgeInv
  <2>2. CASE Open
    BY <2>2 DEF Open
  <2>3. ASSUME NEW k \in Keys, KeyMoves(k), open
        PROVE  selected' = selected /\ choice' = "none"
    BY <1>1, <2>3 DEF KeyMoves, MenuInv, ChoiceInv
  <2>. QED
    BY <1>1, <2>1, <2>2, <2>3 DEF MenuNext
<1>. QED
  BY <1>1, MenuCorrect, PTL DEF MenuSpec, OncePerPress

\* The entry chosen is the one drawn, but for directions given since
\* (App.cpp 1411-1426, 1907-1950).
THEOREM DrawnCorrect == MenuSpec => ChosenWasDrawn
<1>1. ASSUME MenuInv, [MenuNext]_menuVars
      PROVE  [open /\ choice' # "none" =>
                  Labels[drawn' + 1] = choice' \/ anew \cap Steering # {}]_menuVars
  <2>1. CASE Turn
    <3>1. drawn' = selected
      BY <2>1 DEF Turn
    <3>2. CASE selected' = selected
      BY <1>1, <2>1, <3>1, <3>2, TurnStep DEF MenuInv
    <3>3. CASE selected' # selected
      BY <1>1, <2>1, <3>3, TurnStep DEF MenuInv, EdgeInv, Turn
    <3>. QED
      BY <3>2, <3>3
  <2>2. CASE Open
    BY <2>2 DEF Open
  <2>3. ASSUME NEW k \in Keys, KeyMoves(k), open, choice' # "none"
        PROVE  FALSE
    BY <1>1, <2>3 DEF KeyMoves, MenuInv, ChoiceInv
  <2>. QED
    BY <1>1, <2>1, <2>2, <2>3 DEF MenuNext
<1>. QED
  BY <1>1, MenuCorrect, PTL DEF MenuSpec, ChosenWasDrawn
===============================================================================
