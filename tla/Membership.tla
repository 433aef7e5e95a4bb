------------------------------ MODULE Membership ------------------------------
(***************************************************************************)
(* What the launcher promises of accounts, without requests, stages or     *)
(* tokens: who is let in, whose credentials the launcher holds on the      *)
(* console, who has approved the code that is on the screen, and who has   *)
(* been told that he is signed out.                                        *)
(***************************************************************************)
CONSTANTS
    Accounts,   \* Microsoft accounts
    Owners,     \* those that own the game
    None        \* nobody

VARIABLES
    in,         \* the account on the menu or in the game
    held,       \* the account whose credentials the launcher has
    offer,      \* the account that approved the device code
    told        \* the accounts told that they are signed out, until they approve

vars == <<in, held, offer, told>>

Init == in = None /\ held = None /\ offer = None /\ told = {}

\* An account comes into the launcher's hands in one way only: its player
\* approves the code on the screen, and the launcher takes the approval up.
Approve(a) == offer = None /\ offer' = a /\ UNCHANGED <<in, held, told>>

TakeUp(a) ==
    /\ offer = a /\ held = None
    /\ held' = a /\ offer' = None /\ told' = told \ {a}
    /\ UNCHANGED in

\* What is held can be lost before anybody is in, and so can an approval.
Forget ==
    /\ in = None /\ in' = None
    /\ held' \in {held, None} /\ offer' \in {offer, None}
    /\ UNCHANGED told

\* An owner is let in with the credentials held; they need not be kept.
Enter(a) ==
    /\ in = None /\ held = a /\ a \in Owners
    /\ in' = a /\ held' \in {a, None}
    /\ UNCHANGED <<offer, told>>

\* The process ends; or the player signs out, is told so, and nothing is kept.
Leave == in # None /\ in' = None /\ UNCHANGED <<held, offer, told>>

SignOut ==
    /\ in # None
    /\ in' = None /\ held' = None /\ told' = told \cup {in}
    /\ UNCHANGED offer

Next ==
    \/ Forget \/ Leave \/ SignOut
    \/ \E a \in Accounts : Approve(a) \/ TakeUp(a) \/ Enter(a)

Spec == Init /\ [][Next]_vars
=============================================================================
