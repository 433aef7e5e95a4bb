---------------------------- MODULE GlfwShimProofs ---------------------------
(***************************************************************************)
(* Proofs about GlfwContext, for any threads, any set of consoles and      *)
(* packages, with and without faults, and about GlfwShim: with keyboard,   *)
(* controller and window size added the graphics half is still the one of  *)
(* GlfwContext, the game's knowledge of size and controller does not go    *)
(* stale, and the keys follow; for any rooms, any keys and any length of   *)
(* the queue.                                                              *)
(***************************************************************************)
EXTENDS GlfwShim, SequenceTheorems, TLAPS

-----------------------------------------------------------------------------
(* Types.                                                                  *)

\* The variables have their types when the library is loaded.
LEMMA InitType == Init => TypeOK
BY DEF Init, TypeOK, Stages

\* Every step of the shim and of EGL keeps the types.
LEMMA TypeStep == TypeOK /\ [Next]_vars => TypeOK'
<1> SUFFICES ASSUME TypeOK, [Next]_vars PROVE TypeOK'
  OBVIOUS
<1> USE ThreadsAssumption DEF TypeOK, Stages, Objects
<1>1. CASE glfwInit
  BY <1>1 DEF glfwInit, AcquireCoreWindow, CannotAcquire, SelectGraphicsRuntimeDir
<1>2. CASE glfwCreateWindow
  BY <1>2 DEF glfwCreateWindow, AcquireCoreWindow, CannotAcquire, SelectGraphicsRuntimeDir
<1>3. CASE LoadMesaEGL
  <2>1. Selected \subseteq Runtimes \cup {"exe"}
    BY BoxesAssumption DEF Selected, Box, Runtimes
  <2>2. /\ gles' \in BOOLEAN /\ loaded' \in Runtimes \cup {"exe", "none"}
        /\ pc' \in {"idle", "display"}
        /\ failed' \in Stages \cup {"none", "init"}
    BY <1>3, <2>1 DEF LoadMesaEGL, SelectGraphicsRuntimeDir, GiveUp
  <2>3. UNCHANGED <<box, initialised, window, hooks, handles, boundTo, egl, current>>
    BY <1>3 DEF LoadMesaEGL
  <2> QED  BY <2>2, <2>3
<1>4. CASE InitializeDisplay
  <2>1. /\ handles' \subseteq Objects /\ egl' \subseteq Objects /\ pc' \in {"idle", "config"}
        /\ failed' \in Stages \cup {"none", "init"}
    BY <1>4 DEF InitializeDisplay, GiveUp
  <2>2. UNCHANGED <<box, initialised, window, hooks, gles, loaded, boundTo, current>>
    BY <1>4 DEF InitializeDisplay
  <2> QED  BY <2>1, <2>2
<1>5. CASE ChooseConfig
  BY <1>5 DEF ChooseConfig, GiveUp, shim
<1>6. CASE CreateSurface
  BY <1>6 DEF CreateSurface, GiveUp
<1>7. CASE CreateContext
  BY <1>7 DEF CreateContext, GiveUp
<1>8. CASE glfwTerminate
  BY <1>8 DEF glfwTerminate, AfterRelease, AfterEglTerminate
<1>9. ASSUME NEW t \in Threads, MakeContextCurrent(t) \/ ReleaseContext(t)
      PROVE  TypeOK'
  BY <1>9 DEF MakeContextCurrent, ReleaseContext, AfterRelease
<1>10. CASE UNCHANGED vars
  BY <1>10 DEF vars, shim
<1> QED
  BY <1>1, <1>2, <1>3, <1>4, <1>5, <1>6, <1>7, <1>8, <1>9, <1>10 DEF Next, CreateEglContext

\* Type correctness of the graphics half of the shim (glfw_uwp.cpp 1034-1422).
THEOREM TypeCorrect == Spec => []TypeOK
<1> QED
  BY InitType, TypeStep, PTL DEF Spec

-----------------------------------------------------------------------------
(* Handles, stages and threads.                                            *)

\* Before the first call nothing is made, loaded or bound.
LEMMA InitContext == Init => ContextInv
BY DEF Init, ContextInv, StageInv, HandlesAreLive, BoundInv, Stages, Objects

\* Every step keeps the handles live, the stages in order and the thread known.
LEMMA ContextStep == TypeOK /\ ContextInv /\ [Next]_vars => ContextInv'
<1> SUFFICES ASSUME TypeOK, ContextInv, [Next]_vars PROVE ContextInv'
  OBVIOUS
<1> USE ThreadsAssumption DEF TypeOK, ContextInv, StageInv, HandlesAreLive, BoundInv, Stages, Objects
<1>1. CASE glfwInit
  BY <1>1 DEF glfwInit, AcquireCoreWindow, CannotAcquire, SelectGraphicsRuntimeDir
<1>2. CASE glfwCreateWindow
  <2>1. UNCHANGED <<box, loaded, handles, boundTo, egl, current>> /\ pc = "idle"
    BY <1>2 DEF glfwCreateWindow
  <2>2. pc' \in {"idle", "load"} /\ (pc' = "load" => initialised')
    BY <1>2 DEF glfwCreateWindow, CannotAcquire
  <2>3. pc' = "load" => "context" \notin handles'
    BY <1>2, <2>1 DEF glfwCreateWindow
  <2>4. initialised => initialised'
    BY <1>2 DEF glfwCreateWindow
  <2> QED
    <3>1. StageInv'
      BY <2>1, <2>2, <2>3, <2>4
    <3>2. HandlesAreLive' /\ BoundInv'
      BY <2>1
    <3> QED
      BY <3>1, <3>2
<1>3. CASE LoadMesaEGL
  BY <1>3 DEF LoadMesaEGL, GiveUp
<1>4. CASE InitializeDisplay
  <2>1. /\ UNCHANGED <<box, initialised, gles, loaded, boundTo, current>>
        /\ pc = "display" /\ pc' \in {"idle", "config"}
    BY <1>4 DEF InitializeDisplay, GiveUp
  <2>2. CASE /\ box.display /\ handles' = handles \cup {"display"}
             /\ egl' \in {egl, egl \cup {"display"}}
             /\ pc' = "config" => egl' = egl \cup {"display"}
    BY <2>1, <2>2
  <2>3. CASE /\ ~box.display /\ pc' = "idle"
             /\ handles' = handles \ {"display"} /\ egl' = egl
    BY <2>1, <2>3
  <2> QED
    BY <1>4, <2>2, <2>3 DEF InitializeDisplay, GiveUp
<1>5. CASE ChooseConfig
  BY <1>5 DEF ChooseConfig, GiveUp, shim
<1>6. CASE CreateSurface
  BY <1>6 DEF CreateSurface, GiveUp
<1>7. CASE CreateContext
  BY <1>7 DEF CreateContext, GiveUp
<1>8. CASE glfwTerminate
  BY <1>8 DEF glfwTerminate, AfterRelease, AfterEglTerminate
<1>9. ASSUME NEW t \in Threads, MakeContextCurrent(t) PROVE ContextInv'
  BY <1>9 DEF MakeContextCurrent
<1>10. ASSUME NEW t \in Threads, ReleaseContext(t) PROVE ContextInv'
  <2>1. UNCHANGED <<box, initialised, window, hooks, gles, loaded, handles, pc, failed>> /\ pc = "idle"
    BY <1>10 DEF ReleaseContext
  <2>2. boundTo' = IF boundTo = t THEN NoThread ELSE boundTo
    BY <1>10 DEF ReleaseContext
  <2>3. CASE UNCHANGED <<current, egl>>
    BY <2>1, <2>2, <2>3
  <2>4. CASE /\ "display" \in handles /\ current = t /\ current' = NoThread
             /\ egl' = IF "context" \in handles THEN egl ELSE egl \ {"surface", "context"}
    BY <2>1, <2>2, <2>4
  <2> QED
    BY <1>10, <2>3, <2>4 DEF ReleaseContext, AfterRelease
<1>11. CASE UNCHANGED vars
  BY <1>11 DEF vars, shim
<1> QED
  BY <1>1, <1>2, <1>3, <1>4, <1>5, <1>6, <1>7, <1>8, <1>9, <1>10, <1>11 DEF Next, CreateEglContext

\* The strengthening is an invariant.
LEMMA ContextCorrect == Spec => []ContextInv
<1> QED
  BY InitType, TypeStep, InitContext, ContextStep, PTL DEF Spec

\* No handle of the shim outlives what EGL made for it.
THEOREM HandlesCorrect == Spec => []HandlesAreLive
<1>1. ContextInv => HandlesAreLive  BY DEF ContextInv
<1> QED  BY <1>1, ContextCorrect, PTL

\* glfwGetCurrentContext answers the window to a thread that can draw.
THEOREM CurrentCorrect == Spec => []CurrentIsHeld
<1>1. ContextInv => CurrentIsHeld
  BY ThreadsAssumption
  DEF ContextInv, HandlesAreLive, BoundInv, CurrentIsHeld, glfwGetCurrentContext
<1> QED  BY <1>1, ContextCorrect, PTL

\* glfwTerminate releases whatever earlier creations made or lost track of.
THEOREM TerminateCorrect == Spec => TerminateReleases
<1>1. TypeOK /\ ContextInv /\ [Next]_vars =>
        [initialised /\ ~initialised' => (current' = NoThread => egl' = {})]_vars
  <2> SUFFICES ASSUME TypeOK, ContextInv, Next, initialised, ~initialised', current' = NoThread
               PROVE  egl' = {}
    OBVIOUS
  <2>1. glfwTerminate
    BY DEF Next, TypeOK, glfwInit, glfwCreateWindow, CreateEglContext, LoadMesaEGL,
           InitializeDisplay, ChooseConfig, CreateSurface, CreateContext, MakeContextCurrent,
           ReleaseContext, shim
  <2> QED
    BY <2>1 DEF glfwTerminate, AfterRelease, AfterEglTerminate, ContextInv, HandlesAreLive, Objects
<1> QED
  BY <1>1, InitType, TypeStep, InitContext, ContextStep, PTL DEF Spec, TerminateReleases

-----------------------------------------------------------------------------
(* The composition.                                                        *)

\* A step of the shim is, in the graphics half, a step of GlfwContext or none.
LEMMA ShimStepIsStep == [ShimNext]_shimVars => [Next]_vars
<1> SUFFICES ASSUME [ShimNext]_shimVars PROVE [Next]_vars
  OBVIOUS
<1>1. CASE System
  <2>1. UNCHANGED graphics
    BY <1>1 DEF System, Resize, Plug, KeyMoves, KeyMovesElsewhere
  <2> QED  BY <2>1 DEF graphics, vars
<1>2. CASE InitShim
  BY <1>2 DEF InitShim, Next
<1>3. CASE CreateWindow
  BY <1>3 DEF CreateWindow, Next
<1>4. CASE GraphicsOnly
  BY <1>4 DEF GraphicsOnly, Next, CreateEglContext
<1>5. CASE CreateSurfaceOfSize
  BY <1>5 DEF CreateSurfaceOfSize, Next, CreateEglContext
<1>6. CASE CreateContextAndTell
  BY <1>6 DEF CreateContextAndTell, Next, CreateEglContext
<1>7. CASE TerminateShim
  BY <1>7 DEF TerminateShim, Next
<1>8. CASE \/ glfwPollEvents \/ QuerySize \/ QueryPad
           \/ \E set \in BOOLEAN : SetSizeCallback(set) \/ glfwSetJoystickCallback(set)
           \/ UNCHANGED shimVars
  <2>1. UNCHANGED graphics
    BY <1>8 DEF glfwPollEvents, QuerySize, QueryPad, SetSizeCallback, glfwSetJoystickCallback, shimVars
  <2> QED  BY <2>1 DEF graphics, vars
<1> QED
  BY <1>1, <1>2, <1>3, <1>4, <1>5, <1>6, <1>7, <1>8 DEF ShimNext

\* The whole shim runs its graphics half as GlfwContext says, so that what holds of
\* GlfwContext holds of it.
THEOREM ShimRunsContext == ShimSpec => Spec
<1>1. ShimInit => Init  BY DEF ShimInit
<1> QED  BY <1>1, ShimStepIsStep, PTL DEF ShimSpec, Spec

\* The handles of the whole shim are live.
THEOREM ShimHandlesCorrect == ShimSpec => []HandlesAreLive
<1> QED  BY ShimRunsContext, HandlesCorrect, PTL

\* And glfwTerminate releases everything.
THEOREM ShimTerminateCorrect == ShimSpec => TerminateReleases
<1> QED  BY ShimRunsContext, TerminateCorrect, PTL

-----------------------------------------------------------------------------
(* What the game knows.                                                    *)

\* The size it was told, while it has a window, or that it was told none.
LEMMA SizeStep == ContextInv /\ SizeIsKnown /\ [ShimNext]_shimVars => SizeIsKnown'
<1> SUFFICES ASSUME ContextInv, SizeIsKnown, [ShimNext]_shimVars PROVE SizeIsKnown'
  OBVIOUS
<1> USE DEF SizeIsKnown
<1>1. "context" \in handles => initialised /\ pc \notin Stages
  BY DEF ContextInv, StageInv
<1>2. CASE System
  BY <1>2 DEF System, Resize, Plug, KeyMoves, KeyMovesElsewhere, graphics, shim, sizes
<1>3. CASE InitShim
  BY <1>1, <1>3 DEF InitShim, glfwInit
<1>4. CASE CreateWindow
  <2>1. UNCHANGED <<handles, sizeCallback>>
    BY <1>4 DEF CreateWindow, glfwCreateWindow
  <2>2. "context" \in handles /\ sizeCallback => sizeHeard' = size'
    BY <1>4 DEF CreateWindow, TellSize
  <2> QED  BY <2>1, <2>2
<1>5. CASE GraphicsOnly
  <2>1. "context" \in handles' => "context" \in handles
    BY <1>5 DEF GraphicsOnly, LoadMesaEGL, InitializeDisplay, ChooseConfig, MakeContextCurrent,
                ReleaseContext, shim
  <2> QED  BY <1>5, <2>1 DEF GraphicsOnly, sizes
<1>6. CASE CreateSurfaceOfSize
  <2>1. "context" \notin handles'
    BY <1>1, <1>6 DEF CreateSurfaceOfSize, CreateSurface, Stages
  <2> QED  BY <2>1
<1>7. CASE CreateContextAndTell
  <2>1. UNCHANGED <<size, sizeCallback>>
    BY <1>7 DEF CreateContextAndTell
  <2>2. "context" \in handles' /\ sizeCallback => sizeHeard' = size
    BY <1>7 DEF CreateContextAndTell, TellSize
  <2> QED  BY <2>1, <2>2
<1>8. CASE TerminateShim
  <2>1. "context" \notin handles'
    BY <1>8 DEF TerminateShim, glfwTerminate
  <2> QED  BY <2>1
<1>9. CASE glfwPollEvents
  <2>1. UNCHANGED <<handles, sizeCallback>>
    BY <1>9 DEF glfwPollEvents, RefreshAndTell, graphics, shim
  <2>2. \/ sizeHeard' = size'
        \/ UNCHANGED <<sizeHeard, sizeTold>> /\ (size' = size \/ ~sizeCallback)
    BY <1>9 DEF glfwPollEvents, RefreshAndTell, TellSize, TellNoSize
  <2> QED  BY <2>1, <2>2
<1>10. CASE QuerySize
  BY <1>10 DEF QuerySize, TellSize
<1>11. CASE QueryPad
  BY <1>11 DEF QueryPad, graphics, shim, sizes
<1>12. ASSUME NEW set \in BOOLEAN, SetSizeCallback(set) PROVE SizeIsKnown'
  BY <1>12 DEF SetSizeCallback
<1>13. ASSUME NEW set \in BOOLEAN, glfwSetJoystickCallback(set) PROVE SizeIsKnown'
  BY <1>13 DEF glfwSetJoystickCallback, graphics, shim, sizes
<1>14. CASE UNCHANGED shimVars
  BY <1>14 DEF shimVars, graphics, shim, sizes
<1> QED
  BY <1>2, <1>3, <1>4, <1>5, <1>6, <1>7, <1>8, <1>9, <1>10, <1>11, <1>12, <1>13, <1>14
  DEF ShimNext

\* A game with a window that set its callback and was told a size knows the shim's
\* (glfw_uwp.cpp 933-955, 1396-1437, 1550-1562).
THEOREM SizeCorrect == ShimSpec => []SizeIsKnown
<1>1. ShimInit => SizeIsKnown  BY DEF ShimInit, SizeIsKnown
<1> QED
  BY <1>1, SizeStep, ShimRunsContext, ContextCorrect, PTL DEF ShimSpec

\* A change of the controller is announced, or in the answer of who noticed it.
LEMMA PadStep == PadIsKnown /\ [ShimNext]_shimVars => PadIsKnown'
<1> SUFFICES ASSUME PadIsKnown, [ShimNext]_shimVars PROVE PadIsKnown'
  OBVIOUS
<1> USE DEF PadIsKnown
<1>1. CASE UNCHANGED pads
  BY <1>1 DEF pads
<1>2. CASE Plug
  BY <1>2 DEF Plug
<1>3. CASE glfwPollEvents
  <2>1. UNCHANGED padCallback
    BY <1>3 DEF glfwPollEvents
  <2>2. \/ padHeard' = present'
        \/ UNCHANGED <<padHeard, padTold>> /\ (present' = present \/ ~padCallback)
    BY <1>3 DEF glfwPollEvents, PollGameInputGamepad, TellPad, TellNoPad
  <2> QED  BY <2>1, <2>2
<1>4. CASE QueryPad
  BY <1>4 DEF QueryPad, TellPad
<1>5. ASSUME NEW set \in BOOLEAN, glfwSetJoystickCallback(set) PROVE PadIsKnown'
  BY <1>5 DEF glfwSetJoystickCallback
<1>6. CASE \/ (System /\ ~Plug) \/ InitShim \/ CreateWindow \/ GraphicsOnly \/ CreateSurfaceOfSize
           \/ CreateContextAndTell \/ TerminateShim \/ QuerySize
           \/ \E set \in BOOLEAN : SetSizeCallback(set)
           \/ UNCHANGED shimVars
  <2>1. UNCHANGED pads
    BY <1>6 DEF System, Resize, KeyMoves, KeyMovesElsewhere, InitShim, CreateWindow, GraphicsOnly,
                CreateSurfaceOfSize, CreateContextAndTell, TerminateShim, QuerySize,
                SetSizeCallback, shimVars
  <2> QED  BY <1>1, <2>1
<1> QED
  BY <1>2, <1>3, <1>4, <1>5, <1>6 DEF ShimNext

\* A game that set its callback and was told of the controller knows what the shim
\* knows, over restarts of the library too (glfw_uwp.cpp 755-815, 1758-1841).
THEOREM PadCorrect == ShimSpec => []PadIsKnown
<1>1. ShimInit => PadIsKnown  BY DEF ShimInit, PadIsKnown
<1> QED
  BY <1>1, PadStep, PTL DEF ShimSpec

-----------------------------------------------------------------------------
(* Types.                                                                  *)

\* What stands around a console is made of the constants' keys and sizes.
LEMMA RoomType == ASSUME room \in Rooms PROVE room.keys \subseteq Keys /\ room.sizes \subseteq Sizes
BY RoomsAssumption DEF Room

\* The events name keys of the keyboard.
LEMMA EventKey ==
    ASSUME AddedTypeOK, NEW i \in DOMAIN queue
    PROVE  queue[i] \in Event /\ queue[i].key \in Keys /\ queue[i].up \in BOOLEAN
<1>1. queue \in Seq(Event) /\ i \in 1..Len(queue)
  BY DEF AddedTypeOK
<1>2. queue[i] \in Event
  BY <1>1, ElementOfSeq
<1>. QED
  BY <1>2 DEF Event

\* The handlers press keys of the keyboard only.
LEMMA DispatchedType == ASSUME AddedTypeOK PROVE Dispatched \subseteq Keys
BY EventKey DEF Dispatched, Dispatch, AddedTypeOK

\* One more event leaves the queue of its type and within its bound.
LEMMA DeliverType ==
    ASSUME AddedTypeOK, NEW k \in Keys, NEW up \in BOOLEAN, NEW was \in BOOLEAN,
           Deliver(k, up, was)
    PROVE  queue' \in Seq(Event) /\ Len(queue') <= MaxEvents /\ astray' \subseteq Keys
<1>. DEFINE e == [key |-> k, up |-> up, was |-> was]
<1>1. e \in Event /\ queue \in Seq(Event) /\ queue' = Append(queue, e)
  BY DEF Deliver, Event, AddedTypeOK
<1>2. queue' \in Seq(Event) /\ Len(queue') = Len(queue) + 1 /\ Len(queue) \in Nat
  BY <1>1, AppendProperties
<1>3. Len(queue) < MaxEvents /\ astray' \subseteq Keys
  BY DEF Deliver, AddedTypeOK
<1>. QED
  BY <1>2, <1>3, EventsAssumption

\* What the system does keeps the types.
LEMMA SystemType == ASSUME AddedTypeOK, System PROVE AddedTypeOK'
<1>0. room.keys \subseteq Keys /\ room.sizes \subseteq Sizes
  BY RoomType DEF AddedTypeOK
<1>1. CASE Resize \/ Plug
  BY <1>0, <1>1 DEF Resize, Plug, AddedTypeOK, keyboard, pads, sizes
<1>2. ASSUME NEW k \in Keys, KeyMoves(k) PROVE AddedTypeOK'
  <2>1. queue' \in Seq(Event) /\ Len(queue') <= MaxEvents /\ astray' \subseteq Keys
    BY <1>2, DeliverType DEF KeyMoves
  <2>2. down' \subseteq Keys
    BY <1>2 DEF KeyMoves, AddedTypeOK
  <2>. QED
    BY <1>2, <2>1, <2>2 DEF KeyMoves, AddedTypeOK, sizes, pads
<1>3. ASSUME NEW k \in Keys, KeyMovesElsewhere(k) PROVE AddedTypeOK'
  BY <1>3 DEF KeyMovesElsewhere, AddedTypeOK, sizes, pads
<1>. QED
  BY <1>1, <1>2, <1>3 DEF System

\* A refresh finds the window's bounds, or keeps the size it was given.
LEMMA RefreshType ==
    ASSUME AddedTypeOK, NEW s \in Sizes PROVE RefreshWindowMetrics(s) \subseteq Sizes
BY DEF RefreshWindowMetrics, AddedTypeOK

\* A reading leaves the controller there or not.
LEMMA ReadingType ==
    ASSUME AddedTypeOK, TakeReading
    PROVE  gameInput' \in {"untried", "ok", "failed"} /\ present' \in {"in", "out"}
BY DEF TakeReading, EnsureGameInput, AddedTypeOK

\* And a poll of it tells the game one or the other, or nothing.
LEMMA PollPadType ==
    ASSUME AddedTypeOK, NEW fire, PollGameInputGamepad(fire)
    PROVE  /\ gameInput' \in {"untried", "ok", "failed"} /\ present' \in {"in", "out"}
           /\ padHeard' \in {"in", "out"} /\ padTold' \in BOOLEAN
BY ReadingType DEF PollGameInputGamepad, TellPad, TellNoPad, AddedTypeOK

\* Every step keeps the types.
LEMMA AddedTypeStep == AddedTypeOK /\ [ShimNext]_shimVars => AddedTypeOK'
<1>. SUFFICES ASSUME AddedTypeOK, [ShimNext]_shimVars PROVE AddedTypeOK'
  OBVIOUS
<1>0. /\ size \in Sizes /\ sizeHeard \in Sizes /\ sizeTold \in BOOLEAN
      /\ room.sizes \subseteq Sizes /\ RefreshWindowMetrics(size) \subseteq Sizes
  BY RoomType, RefreshType DEF AddedTypeOK
<1>1. CASE System
  BY <1>1, SystemType
<1>2. CASE InitShim
  <2>1. size' \in Sizes
    BY <1>0, <1>2 DEF InitShim
  <2>. QED
    BY <1>2, <2>1 DEF InitShim, TellNoSize, AddedTypeOK, keyboard, pads
<1>3. CASE CreateWindow
  <2>1. size' \in Sizes
    BY <1>0, <1>3, RefreshType DEF CreateWindow
  <2>2. sizeHeard' \in Sizes /\ sizeTold' \in BOOLEAN
    BY <1>0, <1>3, <2>1 DEF CreateWindow, TellSize, TellNoSize
  <2>. QED
    BY <1>3, <2>1, <2>2 DEF CreateWindow, AddedTypeOK, keyboard, pads
<1>4. CASE GraphicsOnly
  BY <1>4 DEF GraphicsOnly, AddedTypeOK, keyboard, sizes, pads
<1>5. CASE CreateSurfaceOfSize
  <2>1. size' \in Sizes /\ sizeHeard' \in Sizes /\ sizeTold' \in BOOLEAN
    BY <1>0, <1>5 DEF CreateSurfaceOfSize, BuildNativeWindowPropertySet, TellNoSize
  <2>. QED
    BY <1>5, <2>1 DEF CreateSurfaceOfSize, AddedTypeOK, keyboard, pads
<1>6. CASE CreateContextAndTell
  <2>1. sizeHeard' \in Sizes /\ sizeTold' \in BOOLEAN
    BY <1>0, <1>6 DEF CreateContextAndTell, TellSize, TellNoSize
  <2>. QED
    BY <1>6, <2>1 DEF CreateContextAndTell, AddedTypeOK, keyboard, pads
<1>7. CASE TerminateShim
  BY <1>7 DEF TerminateShim, AddedTypeOK, sizes, pads
<1>8. CASE glfwPollEvents
  <2>1. queue' \in Seq(Event) /\ Len(queue') <= MaxEvents
    BY <1>8, EmptySeq, EventsAssumption DEF glfwPollEvents, ProcessEvents
  <2>2. keys' \subseteq Keys
    BY <1>8, DispatchedType DEF glfwPollEvents, ProcessEvents, AddedTypeOK
  <2>3. size' \in Sizes /\ sizeHeard' \in Sizes /\ sizeTold' \in BOOLEAN
    BY <1>0, <1>8 DEF glfwPollEvents, RefreshAndTell, TellSize, TellNoSize
  <2>4. /\ gameInput' \in {"untried", "ok", "failed"} /\ present' \in {"in", "out"}
        /\ padHeard' \in {"in", "out"} /\ padTold' \in BOOLEAN
    BY <1>8, PollPadType DEF glfwPollEvents
  <2>. QED
    BY <1>8, <2>1, <2>2, <2>3, <2>4 DEF glfwPollEvents, ProcessEvents, RefreshAndTell, AddedTypeOK
<1>9. CASE QuerySize
  BY <1>0, <1>9 DEF QuerySize, TellSize, AddedTypeOK, keyboard, pads
<1>10. CASE QueryPad
  BY <1>10, ReadingType DEF QueryPad, TellPad, AddedTypeOK, keyboard, sizes
<1>11. ASSUME NEW set \in BOOLEAN, SetSizeCallback(set) PROVE AddedTypeOK'
  BY <1>11 DEF SetSizeCallback, AddedTypeOK, keyboard, pads
<1>12. ASSUME NEW set \in BOOLEAN, glfwSetJoystickCallback(set) PROVE AddedTypeOK'
  <2>1. /\ gameInput' \in {"untried", "ok", "failed"} /\ present' \in {"in", "out"}
        /\ padHeard' \in {"in", "out"} /\ padTold' \in BOOLEAN
    BY <1>12, ReadingType DEF glfwSetJoystickCallback, AddedTypeOK
  <2>. QED
    BY <1>12, <2>1 DEF glfwSetJoystickCallback, AddedTypeOK, keyboard, sizes
<1>13. CASE UNCHANGED shimVars
  BY <1>13 DEF shimVars, AddedTypeOK, keyboard, sizes, pads
<1>. QED
  BY <1>1, <1>2, <1>3, <1>4, <1>5, <1>6, <1>7, <1>8, <1>9, <1>10, <1>11, <1>12, <1>13 DEF ShimNext

\* What the shim adds to the state of GlfwContext is of its type.
LEMMA AddedTypeCorrect == ShimSpec => []AddedTypeOK
<1>1. ShimInit => AddedTypeOK
  <2>. SUFFICES ASSUME ShimInit PROVE AddedTypeOK
    OBVIOUS
  <2>1. room.keys \subseteq Keys /\ room.sizes \subseteq Sizes
    BY RoomType DEF ShimInit
  <2>2. queue \in Seq(Event) /\ Len(queue) <= MaxEvents
    BY EmptySeq, EventsAssumption DEF ShimInit
  <2>. QED
    BY <2>1, <2>2 DEF ShimInit, AddedTypeOK
<1>. QED
  BY <1>1, AddedTypeStep, PTL DEF ShimSpec

\* Every variable of the shim is of its type (glfw_uwp.cpp 346-370).
THEOREM ShimTypeCorrect == ShimSpec => []ShimTypeOK
<1>1. TypeOK /\ AddedTypeOK => ShimTypeOK
  BY DEF ShimTypeOK
<1>. QED
  BY <1>1, ShimRunsContext, TypeCorrect, AddedTypeCorrect, PTL

-----------------------------------------------------------------------------
(* Keys.                                                                   *)

\* An event leaves its key pressed unless it is a release (glfw_uwp.cpp 668-689).
LEMMA EventLeaves ==
    ASSUME NEW ks, NEW e PROVE e.key \in DispatchKeyEvent(ks, e) <=> ~e.up
BY DEF DispatchKeyEvent, UpdateKeyState

\* What Dispatched says of one key.
LEMMA DispatchedKey ==
    ASSUME NEW k
    PROVE  k \in Dispatched <=>
               \/ k \in keys /\ \A i \in DOMAIN queue : queue[i].key # k
               \/ \E i \in DOMAIN queue : IsLast(i, queue) /\ queue[i].key = k /\ ~queue[i].up
<1>1. k \in Dispatched <=>
          \/ k \in keys /\ \A i \in DOMAIN queue : queue[i].key # k
          \/ \E i \in DOMAIN queue :
                 /\ IsLast(i, queue) /\ queue[i].key \in DispatchKeyEvent(keys, queue[i])
                 /\ queue[i].key = k
  BY DEF Dispatched, Dispatch
<1>. QED
  BY <1>1, EventLeaves

\* One more event decides about its key and about no other.
LEMMA DeliverDecides ==
    ASSUME AddedTypeOK, NEW k \in Keys, NEW up \in BOOLEAN, NEW was \in BOOLEAN,
           Deliver(k, up, was), UNCHANGED keys, NEW key \in Keys
    PROVE  key \in Dispatched' <=> IF key = k THEN ~up ELSE key \in Dispatched
<1>. DEFINE e == [key |-> k, up |-> up, was |-> was]
            n == Len(queue)
<1>1. e \in Event /\ queue \in Seq(Event) /\ queue' = Append(queue, e)
  BY DEF Deliver, Event, AddedTypeOK
<1>2. /\ n \in Nat /\ queue' \in Seq(Event) /\ Len(queue') = n + 1
      /\ \A i \in 1..n : queue'[i] = queue[i]
      /\ queue'[n + 1] = e
  BY <1>1, AppendProperties, LenProperties
<1>3. DOMAIN queue = 1..n /\ DOMAIN queue' = 1..(n + 1)
  BY <1>1, <1>2, LenProperties
<1>4. e.key = k /\ e.up = up
  OBVIOUS
<1>. HIDE DEF e, n
<1>5. key \in Dispatched' <=>
          \/ key \in keys' /\ \A i \in DOMAIN queue' : queue'[i].key # key
          \/ \E i \in DOMAIN queue' : IsLast(i, queue') /\ queue'[i].key = key /\ ~queue'[i].up
  BY EventLeaves DEF Dispatched, Dispatch
<1>6. CASE key = k
  <2>1. IsLast(n + 1, queue')
    BY <1>2, <1>3 DEF IsLast
  <2>2. \A i \in 1..(n + 1) : IsLast(i, queue') /\ queue'[i].key = key => i = n + 1
    <3>. SUFFICES ASSUME NEW i \in 1..(n + 1), IsLast(i, queue'), queue'[i].key = key
                  PROVE  i = n + 1
      OBVIOUS
    <3>1. n + 1 <= i
      BY <1>2, <1>3, <1>4, <1>6 DEF IsLast
    <3>. QED
      BY <1>2, <3>1
  <2>3. n + 1 \in 1..(n + 1)
    BY <1>2
  <2>. QED
    BY <1>2, <1>3, <1>4, <1>5, <1>6, <2>1, <2>2, <2>3
<1>7. CASE key # k
  <2>1. \A i \in 1..(n + 1) : queue'[i].key = key <=> i \in 1..n /\ queue[i].key = key
    BY <1>2, <1>4, <1>7
  <2>2. ASSUME NEW i \in 1..n, queue[i].key = key PROVE IsLast(i, queue') <=> IsLast(i, queue)
    <3>1. queue'[i].key = key /\ n + 1 \in 1..(n + 1) /\ 1..n \subseteq 1..(n + 1)
      BY <1>2, <2>2
    <3>. QED
      BY <1>3, <2>1, <2>2, <3>1 DEF IsLast
  <2>3. 1..n \subseteq 1..(n + 1)
    BY <1>2
  <2>4. (\A i \in DOMAIN queue' : queue'[i].key # key) <=> \A i \in DOMAIN queue : queue[i].key # key
    BY <1>3, <2>1, <2>3
  <2>5. (\E i \in DOMAIN queue' : IsLast(i, queue') /\ queue'[i].key = key /\ ~queue'[i].up)
            <=> \E i \in DOMAIN queue : IsLast(i, queue) /\ queue[i].key = key /\ ~queue[i].up
    BY <1>2, <1>3, <2>1, <2>2, <2>3
  <2>. QED
    BY <1>5, <1>7, <2>4, <2>5, DispatchedKey
<1>. QED
  BY <1>6, <1>7

\* After the queue is emptied the keys are those that are pressed.
LEMMA NoneWaiting == queue = <<>> => Dispatched = keys
BY EmptySeq DEF Dispatched, Dispatch

\* A key that moves is followed, as one more event is.
LEMMA KeyMovesKeeps ==
    ASSUME AddedTypeOK, KeysInv, NEW k \in Keys, KeyMoves(k) PROVE KeysInv'
<1>1. UNCHANGED <<hooks, window, initialised, keys>>
  BY DEF KeyMoves, graphics, shim
<1>2. PICK up \in BOOLEAN, was \in BOOLEAN :
          /\ Deliver(k, up, was)
          /\ down' = IF up THEN down \ {k} ELSE down \cup {k}
  <2>1. CASE k \notin down /\ down' = down \cup {k} /\ Deliver(k, FALSE, FALSE)
    BY <2>1
  <2>2. CASE k \in down /\ UNCHANGED down /\ Deliver(k, FALSE, TRUE)
    BY <2>2
  <2>3. CASE k \in down /\ down' = down \ {k} /\ Deliver(k, TRUE, TRUE)
    BY <2>3
  <2>. QED
    BY <2>1, <2>2, <2>3 DEF KeyMoves
<1>3. astray' = astray \ {k}
  BY <1>2 DEF Deliver
<1>4. ASSUME NEW key \in Keys, key \notin astray', hooks \/ ~window
      PROVE  key \in Dispatched' <=> key \in down'
  <2>1. key \in Dispatched' <=> IF key = k THEN ~up ELSE key \in Dispatched
    BY <1>1, <1>2, DeliverDecides
  <2>2. key # k => (key \in Dispatched <=> key \in down)
    BY <1>3, <1>4 DEF KeysInv
  <2>. QED
    BY <1>2, <2>1, <2>2
<1>. QED
  BY <1>1, <1>4 DEF KeysInv

\* So does every step: the events wait for the handlers, which come with the window.
LEMMA KeysStep == AddedTypeOK /\ KeysInv /\ [ShimNext]_shimVars => KeysInv'
<1>. SUFFICES ASSUME AddedTypeOK, KeysInv, [ShimNext]_shimVars PROVE KeysInv'
  OBVIOUS
<1>1. ASSUME UNCHANGED <<hooks, window, initialised>>, UNCHANGED keyboard PROVE KeysInv'
  BY <1>1 DEF KeysInv, keyboard, Dispatched
<1>2. ASSUME UNCHANGED keyboard, AcquireCoreWindow, initialised' \in BOOLEAN PROVE KeysInv'
  BY <1>2 DEF KeysInv, keyboard, Dispatched, AcquireCoreWindow
<1>3. CASE Resize \/ Plug
  BY <1>1, <1>3 DEF Resize, Plug, graphics, shim
<1>4. ASSUME NEW k \in Keys, KeyMoves(k) PROVE KeysInv'
  BY <1>4, KeyMovesKeeps
<1>5. ASSUME NEW k \in Keys, KeyMovesElsewhere(k) PROVE KeysInv'
  BY <1>5 DEF KeyMovesElsewhere, KeysInv, graphics, shim, Dispatched
<1>6. CASE InitShim
  <2>1. CASE AcquireCoreWindow /\ initialised' = TRUE
    BY <1>2, <1>6, <2>1 DEF InitShim
  <2>2. CASE CannotAcquire /\ UNCHANGED initialised
    BY <1>1, <1>6, <2>2 DEF InitShim, CannotAcquire
  <2>. QED
    BY <1>6, <2>1, <2>2 DEF InitShim, glfwInit
<1>7. CASE CreateWindow
  <2>1. CASE UNCHANGED <<initialised, window, hooks>>
    BY <1>1, <1>7, <2>1 DEF CreateWindow
  <2>2. CASE AcquireCoreWindow /\ initialised' = TRUE
    BY <1>2, <1>7, <2>2 DEF CreateWindow
  <2>. QED
    BY <1>7, <2>1, <2>2 DEF CreateWindow, glfwCreateWindow, CannotAcquire
<1>8. CASE GraphicsOnly \/ CreateSurfaceOfSize \/ CreateContextAndTell
  BY <1>1, <1>8 DEF GraphicsOnly, CreateSurfaceOfSize, CreateContextAndTell, LoadMesaEGL,
     InitializeDisplay, ChooseConfig, CreateSurface, CreateContext, MakeContextCurrent,
     ReleaseContext, shim
<1>9. CASE TerminateShim
  <2>1. /\ hooks' = FALSE /\ initialised' = FALSE /\ keys' = {}
        /\ UNCHANGED <<window, queue, down, astray>>
    BY <1>9 DEF TerminateShim, glfwTerminate
  <2>2. ~window => keys = {}
    BY DEF KeysInv
  <2>. QED
    BY <2>1, <2>2 DEF KeysInv, Dispatched
<1>10. CASE glfwPollEvents
  <2>1. /\ initialised /\ UNCHANGED <<hooks, window, initialised, down, astray>>
        /\ queue' = <<>> /\ keys' = IF hooks THEN Dispatched ELSE keys
    BY <1>10 DEF glfwPollEvents, ProcessEvents, graphics, shim
  <2>2. Dispatched' = keys'
    BY <2>1, EmptySeq DEF Dispatched, Dispatch
  <2>3. window
    BY <2>1 DEF KeysInv
  <2>. QED
    BY <2>1, <2>2, <2>3 DEF KeysInv
<1>11. CASE QuerySize \/ QueryPad
  BY <1>1, <1>11 DEF QuerySize, QueryPad, graphics, shim
<1>12. ASSUME NEW set \in BOOLEAN, SetSizeCallback(set) \/ glfwSetJoystickCallback(set)
       PROVE  KeysInv'
  BY <1>1, <1>12 DEF SetSizeCallback, glfwSetJoystickCallback, graphics, shim
<1>13. CASE UNCHANGED shimVars
  BY <1>1, <1>13 DEF shimVars, graphics, shim
<1>. QED
  BY <1>3, <1>4, <1>5, <1>6, <1>7, <1>8, <1>9, <1>10, <1>11, <1>12, <1>13 DEF ShimNext, System

\* A key is taken for pressed as long as it is held, once the events on their way are
\* processed, and none is without handlers (glfw_uwp.cpp 658-689, 817-875, 1342-1377).
THEOREM KeysCorrect == ShimSpec => []KeysFollow
<1>1. ShimInit => KeysInv
  <2>. SUFFICES ASSUME ShimInit PROVE KeysInv
    OBVIOUS
  <2>1. Dispatched = {}
    BY NoneWaiting DEF ShimInit
  <2>. QED
    BY <2>1 DEF ShimInit, Init, KeysInv
<1>2. KeysInv => KeysFollow
  BY DEF KeysInv, KeysFollow
<1>. QED
  BY <1>1, <1>2, KeysStep, AddedTypeCorrect, PTL DEF ShimSpec
===============================================================================
