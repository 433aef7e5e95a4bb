------------------------------- MODULE GlfwShim -------------------------------
(***************************************************************************)
(* The GLFW shim as the game meets it: GlfwContext with the keyboard, the  *)
(* controller and the size of the window, which glfwInit, glfwCreateWindow *)
(* and glfwTerminate touch as well.  The system delivers key events into   *)
(* the CoreWindow's queue, plugs controllers and resizes the window at any *)
(* time; the shim looks when the game polls, or asks.                      *)
(*                                                                         *)
(* Keys are those MapVirtualKeyToGlfw knows.  What a callback is told of a *)
(* key beside the key's state, text, buttons and sticks are left out.      *)
(***************************************************************************)
EXTENDS GlfwContext, Sequences

CONSTANTS
    Keys, Sizes,   \* keys of a keyboard; sizes a window may have
    Rooms,         \* what stands around the console, see Room
    MaxEvents      \* bound: key events that wait in the CoreWindow's queue

\* The keys it has a keyboard for, the sizes its screen asks for, and a controller.
Room == [keys : SUBSET Keys, sizes : SUBSET Sizes \ {{}}, pad : BOOLEAN]

ASSUME RoomsAssumption == Rooms \subseteq Room
ASSUME EventsAssumption == MaxEvents \in Nat

VARIABLES
    room,
    down,            \* system: the keys held down
    queue,           \* system: key events not processed yet, oldest first
    astray,          \* history: keys whose last change made no event for the queue
    keys,            \* g_key_state: the keys taken for pressed
    bounds,          \* system: the bounds of the CoreWindow
    size,            \* g_width, g_height
    sizeCallback,    \* g_fbsize_cb is set
    sizeHeard,       \* history: the size of the last callback or answer
    sizeTold,        \* history: there was one since glfwSetFramebufferSizeCallback
    pad,             \* system: a controller is "in" or "out"
    gameInput,       \* g_gameInput: "untried", "ok" or "failed"
    present,         \* g_gamepad_present
    padCallback,     \* g_joystick_cb is set
    padHeard,        \* history: the controller of the last callback or answer
    padTold          \* history: there was one since glfwSetJoystickCallback

keyboard == <<down, queue, astray, keys>>
sizes == <<bounds, size, sizeCallback, sizeHeard, sizeTold>>
pads == <<pad, gameInput, present, padCallback, padHeard, padTold>>
graphics == <<box, shim, pc, failed, egl, current>>
shimVars == <<graphics, room, keyboard, sizes, pads>>

Event == [key : Keys, up : BOOLEAN, was : BOOLEAN]   \* was: status.WasKeyDown

\* What GlfwContext does not have.
AddedTypeOK ==
    /\ room \in Rooms
    /\ down \subseteq Keys /\ astray \subseteq Keys /\ keys \subseteq Keys
    /\ queue \in Seq(Event) /\ Len(queue) <= MaxEvents
    /\ bounds \in Sizes /\ size \in Sizes /\ sizeHeard \in Sizes
    /\ sizeCallback \in BOOLEAN /\ padCallback \in BOOLEAN
    /\ sizeTold \in BOOLEAN /\ padTold \in BOOLEAN
    /\ pad \in {"in", "out"} /\ present \in {"in", "out"} /\ padHeard \in {"in", "out"}
    /\ gameInput \in {"untried", "ok", "failed"}

ShimTypeOK == TypeOK /\ AddedTypeOK

\* The keys already down when the game starts were pressed in the launcher.
ShimInit ==
    /\ Init
    /\ room \in Rooms
    /\ down \in SUBSET room.keys /\ astray = down /\ keys = {} /\ queue = <<>>
    /\ bounds \in room.sizes /\ size \in room.sizes
    /\ sizeCallback = FALSE /\ sizeHeard = size /\ sizeTold = FALSE
    /\ pad \in {"out"} \cup (IF room.pad THEN {"in"} ELSE {})
    /\ gameInput = "untried" /\ present = "out" /\ padCallback = FALSE
    /\ padHeard = "out" /\ padTold = FALSE

-----------------------------------------------------------------------------
(* The system.                                                             *)

Deliver(k, up, was) ==
    /\ Len(queue) < MaxEvents
    /\ queue' = Append(queue, [key |-> k, up |-> up, was |-> was])
    /\ astray' = astray \ {k}

\* A key goes down, repeats, or comes up.
KeyMoves(k) ==
    /\ k \in room.keys
    /\ \/ k \notin down /\ down' = down \cup {k} /\ Deliver(k, FALSE, FALSE)
       \/ k \in down /\ UNCHANGED down /\ Deliver(k, FALSE, TRUE)
       \/ k \in down /\ down' = down \ {k} /\ Deliver(k, TRUE, TRUE)
    /\ UNCHANGED <<graphics, room, keys, sizes, pads>>

\* While the guide or another app has the focus the CoreWindow hears nothing.
KeyMovesElsewhere(k) ==
    /\ k \in room.keys
    /\ down' = IF k \in down THEN down \ {k} ELSE down \cup {k}
    /\ astray' = astray \cup {k}
    /\ UNCHANGED <<graphics, room, queue, keys, sizes, pads>>

Resize ==
    /\ bounds' \in room.sizes \ {bounds}
    /\ UNCHANGED <<graphics, room, keyboard, size, sizeCallback, sizeHeard, sizeTold, pads>>

Plug ==
    /\ room.pad
    /\ pad' = IF pad = "in" THEN "out" ELSE "in"
    /\ UNCHANGED <<graphics, room, keyboard, sizes, gameInput, present, padCallback, padHeard, padTold>>

-----------------------------------------------------------------------------
(* Keys.                                                                   *)

\* Mutant: only a press leaves a key pressed.
UpdateKeyStatePressOnly(ks, key, action) ==
    IF action = "press" THEN ks \cup {key} ELSE ks \ {key}

UpdateKeyState(ks, key, action) ==
    IF action = "release" THEN ks \ {key} ELSE ks \cup {key}

\* A press of a key that was down is a repeat.
DispatchKeyEvent(ks, event) ==
    UpdateKeyState(ks, event.key,
        IF event.up THEN "release" ELSE IF event.was THEN "repeat" ELSE "press")

\* No later event is about the same key.
IsLast(i, events) == \A j \in DOMAIN events : events[j].key = events[i].key => j <= i

\* The handlers, called for one event after the other: a key that none is about stays
\* as it is, any other is as the last event about it leaves it.
Dispatch(ks, events) ==
    {k \in ks : \A i \in DOMAIN events : events[i].key # k} \cup
    {events[i].key : i \in {j \in DOMAIN events :
        IsLast(j, events) /\ events[j].key \in DispatchKeyEvent(ks, events[j])}}

\* What the handlers make of the events in the queue.
Dispatched == Dispatch(keys, queue)

\* Without handlers the events are processed to no effect.
ProcessEvents ==
    /\ queue' = <<>>
    /\ keys' = IF hooks THEN Dispatched ELSE keys
    /\ UNCHANGED <<down, astray>>

-----------------------------------------------------------------------------
(* The size.                                                               *)

\* g_width and g_height after RefreshWindowMetrics found s there.
RefreshWindowMetrics(s) == {bounds} \cup (IF Faults THEN {s} ELSE {})

\* g_fbsize_cb is called, or an answer given: the game was told s.  Or it was not.
TellSize(s) == sizeHeard' = s /\ sizeTold' = TRUE
TellNoSize == UNCHANGED <<sizeHeard, sizeTold>>

\* Mutant: the poll notes a new size and calls nobody.
RefreshAndTellNobody ==
    /\ size' \in RefreshWindowMetrics(size)
    /\ TellNoSize
    /\ UNCHANGED <<bounds, sizeCallback>>

\* RefreshWindowMetrics(true).
RefreshAndTell ==
    /\ size' \in RefreshWindowMetrics(size)
    /\ IF size' # size /\ sizeCallback THEN TellSize(size') ELSE TellNoSize
    /\ UNCHANGED <<bounds, sizeCallback>>

\* glfwGetWindowSize, glfwGetFramebufferSize: RefreshWindowMetrics(false), which calls
\* nobody, and the answer.
QuerySize ==
    /\ pc = "idle" /\ "context" \in handles
    /\ size' \in RefreshWindowMetrics(size)
    /\ TellSize(size')
    /\ UNCHANGED <<graphics, room, keyboard, bounds, sizeCallback, pads>>

\* glfwSetFramebufferSizeCallback.  glfwSetWindowSizeCallback does the same with
\* g_winsize_cb, which the poll calls too (952) and the creation of a window does not.
SetSizeCallback(set) ==
    /\ pc = "idle" /\ "context" \in handles
    /\ sizeCallback' = set
    /\ sizeTold' = FALSE
    /\ UNCHANGED <<graphics, room, keyboard, bounds, size, sizeHeard, pads>>

-----------------------------------------------------------------------------
(* The controller.                                                         *)

\* GameInputCreate is tried once.
EnsureGameInput ==
    IF gameInput = "untried"
      THEN gameInput' \in {"ok"} \cup (IF Faults THEN {"failed"} ELSE {})
      ELSE UNCHANGED gameInput

\* A controller that cannot be read is not there.
TakeReading ==
    /\ EnsureGameInput
    /\ present' \in IF gameInput' # "ok" THEN {present}
                    ELSE {pad} \cup (IF Faults THEN {"out"} ELSE {})

\* g_joystick_cb is called, or an answer given.  Or not.
TellPad(p) == padHeard' = p /\ padTold' = TRUE
TellNoPad == UNCHANGED <<padHeard, padTold>>

\* Mutant: who goes away is not announced.
PollGameInputGamepadArrivals(fireCallbacks) ==
    /\ TakeReading
    /\ IF present' = "in" /\ present = "out" /\ fireCallbacks /\ padCallback
         THEN TellPad(present') ELSE TellNoPad

PollGameInputGamepad(fireCallbacks) ==
    /\ TakeReading
    /\ IF present' # present /\ fireCallbacks /\ padCallback THEN TellPad(present') ELSE TellNoPad

\* glfwJoystickPresent and the seven others that answer from a reading of their own,
\* which calls nobody.
QueryPad ==
    /\ initialised /\ pc = "idle"
    /\ TakeReading
    /\ TellPad(present')
    /\ UNCHANGED <<graphics, room, keyboard, sizes, pad, padCallback>>

\* A callback that is set takes a reading too, which it is not told.
glfwSetJoystickCallback(set) ==
    /\ initialised /\ pc = "idle"
    /\ padCallback' = set
    /\ padTold' = FALSE /\ UNCHANGED padHeard
    /\ IF set THEN TakeReading ELSE UNCHANGED <<gameInput, present>>
    /\ UNCHANGED <<graphics, room, keyboard, sizes, pad>>

glfwPollEvents ==
    /\ initialised /\ pc = "idle"
    /\ ProcessEvents
    /\ PollGameInputGamepad(TRUE) /\ UNCHANGED <<pad, padCallback>>
    /\ RefreshAndTell
    /\ UNCHANGED <<graphics, room>>

-----------------------------------------------------------------------------
(* The functions that have a part in both.                                 *)

InitShim ==
    /\ glfwInit
    /\ size' \in IF initialised' THEN RefreshWindowMetrics(size) ELSE {size}
    /\ TellNoSize
    /\ UNCHANGED <<room, keyboard, bounds, sizeCallback, pads>>

\* The caller's numbers first, the window's bounds over them.  A window there is
\* gets its callback now, a new one when its context is made.
CreateWindow ==
    /\ glfwCreateWindow
    /\ \E hint \in room.sizes \cup {size} :
        size' \in IF initialised' THEN RefreshWindowMetrics(hint) ELSE {size}
    /\ IF "context" \in handles /\ sizeCallback THEN TellSize(size') ELSE TellNoSize
    /\ UNCHANGED <<room, keyboard, bounds, sizeCallback, pads>>

\* A surface for the window itself, or for a property set that names its size: the
\* first such set takes the bounds as they are.
BuildNativeWindowPropertySet == size' \in {size} \cup RefreshWindowMetrics(size)

CreateSurfaceOfSize ==
    /\ CreateSurface
    /\ BuildNativeWindowPropertySet /\ TellNoSize
    /\ UNCHANGED <<room, keyboard, bounds, sizeCallback, pads>>

CreateContextAndTell ==
    /\ CreateContext
    /\ IF "context" \in handles' /\ sizeCallback THEN TellSize(size) ELSE TellNoSize
    /\ UNCHANGED <<room, keyboard, bounds, size, sizeCallback, pads>>

\* Mutant: g_key_state is left as it is.
TerminateWithKeys ==
    /\ glfwTerminate
    /\ UNCHANGED <<room, keyboard, sizes, pads>>

\* The keys are forgotten; the callbacks and the controller stay.
TerminateShim ==
    /\ glfwTerminate
    /\ keys' = {}
    /\ UNCHANGED <<room, down, queue, astray, sizes, pads>>

\* What does not touch keys, sizes or controllers.
GraphicsOnly ==
    /\ \/ LoadMesaEGL \/ InitializeDisplay \/ ChooseConfig
       \/ \E t \in Threads : MakeContextCurrent(t) \/ ReleaseContext(t)
    /\ UNCHANGED <<room, keyboard, sizes, pads>>

-----------------------------------------------------------------------------
System == Resize \/ Plug \/ \E k \in Keys : KeyMoves(k) \/ KeyMovesElsewhere(k)

ShimNext ==
    \/ System
    \/ InitShim \/ CreateWindow \/ GraphicsOnly \/ CreateSurfaceOfSize \/ CreateContextAndTell
    \/ TerminateShim \/ glfwPollEvents \/ QuerySize \/ QueryPad
    \/ \E set \in BOOLEAN : SetSizeCallback(set) \/ glfwSetJoystickCallback(set)

ShimSpec == ShimInit /\ [][ShimNext]_shimVars

-----------------------------------------------------------------------------
(* Properties.                                                             *)

\* No key hangs and none is dead: once the events on their way are processed the shim
\* takes for pressed what is held, but for keys whose last move happened out of the
\* window's hearing; and without handlers it takes nothing for pressed, since nobody
\* would release it (glfw_uwp.cpp 658-689, 817-875, 1342-1377).
KeysFollow ==
    IF hooks
      THEN \A k \in Keys \ astray : k \in Dispatched <=> k \in down
      ELSE keys = {}

\* The game never draws for a size of yesterday: a game that set its callback and was
\* told a size, in whatever mixture of polls, questions, failed creations and restarts
\* of the library, knows the shim's size as long as it has a window.  A new size that
\* is found without a call of the callback is in the answer, or in the call that a new
\* window brings (glfw_uwp.cpp 933-955, 1396-1437, 1550-1562).
SizeIsKnown == sizeCallback /\ sizeTold /\ "context" \in handles => sizeHeard = size

\* The same of the controller, window or not: a change that one question takes note
\* of, so that no callback follows, was in the answer, and no restart of the library
\* hides one (glfw_uwp.cpp 755-815, 1758-1841).
PadIsKnown == padCallback /\ padTold => padHeard = present

-----------------------------------------------------------------------------
(* Inductive strengthening of KeysFollow.  SizeIsKnown and PadIsKnown are  *)
(* inductive with ContextInv.                                              *)

\* The handlers are set with the window, if at all; until then every event waits.
KeysInv ==
    /\ hooks \/ ~window => \A k \in Keys \ astray : k \in Dispatched <=> k \in down
    /\ ~hooks => keys = {}
    /\ hooks \/ initialised => window
=============================================================================
