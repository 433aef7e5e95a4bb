----------------------------- MODULE GlfwContext ----------------------------
(***************************************************************************)
(* The graphics half of the GLFW shim: which runtime is loaded, how the    *)
(* window gets its EGL display, surface and context, which thread has the  *)
(* context, and what glfwTerminate leaves behind.  Window creation is one  *)
(* step per EGL call that can fail, since a failure keeps what the earlier *)
(* calls made; the other functions are one step each.                      *)
(*                                                                         *)
(* Minecraft calls the shim: all but glfwMakeContextCurrent from the main  *)
(* thread, never two calls at once, MakeContextCurrent only with a window  *)
(* it was given, and glfwTerminate only when the shim knows of no other    *)
(* thread that has the context.  EGL itself is `egl' and `current'; it may *)
(* refuse any call, also to release a context, and an object that is       *)
(* destroyed while it is current is there until it is released.            *)
(***************************************************************************)
EXTENDS Integers

CONSTANTS
    Threads, Main,   \* threads of the game; the one that creates the window
    NoThread,        \* g_eglContextThreadId = 0
    Boxes,           \* consoles with a package installed, see Box
    Faults           \* TRUE if a call on the system or on EGL may fail

Runtimes == {"mesa", "xboxone"}
Configs == {"gl", "gl-ns", "es3", "es3-ns", "es2", "es2-ns"}   \* -ns: no stencil
\* requested: MC_GRAPHICS_RUNTIME, which App::Run takes as it finds it or sets to the
\* console's: a runtime, one of the four words for Mesa ("series"), or another word.
\* packaged: the runtimes whose folder is complete; Mesa lies beside the executable
\* too (build.ps1 384).  exported: libEGL has every export the shim calls critical; if
\* not, the one it lacks is not called while a window is made.  display: the runtime
\* has a default display.  configs: what eglChooseConfig finds on it.
Box == [requested : Runtimes \cup {"series", "other"}, packaged : SUBSET Runtimes,
        exported : BOOLEAN, display : BOOLEAN, configs : SUBSET Configs]

ASSUME ThreadsAssumption == Main \in Threads /\ NoThread \notin Threads
ASSUME BoxesAssumption == Boxes \subseteq Box
ASSUME FaultsAssumption == Faults \in BOOLEAN

VARIABLES
    box,           \* the console and the package
    initialised,   \* g_initialised
    window,        \* g_coreWindow is set
    hooks,         \* g_keyboardHooksInstalled
    gles,          \* g_graphicsRuntimeUsesGles
    loaded,        \* the folder g_opengl32 and g_libEGL came from, or "none"
    handles,       \* which of g_eglDisplay, g_eglSurface, g_eglContext are set
    boundTo,       \* g_eglContextThreadId
    pc,            \* the stage of a glfwCreateWindow under way, or "idle"
    failed,        \* the stage at which the last glfwCreateWindow gave up, or "none"
    egl,           \* EGL: what there is of a display, the window's surface, a context
    current        \* EGL: the thread the context is current on

shim == <<initialised, window, hooks, gles, loaded, handles, boundTo>>
vars == <<box, shim, pc, failed, egl, current>>

-----------------------------------------------------------------------------
Stages == {"load", "display", "config", "surface", "context"}
Objects == {"display", "surface", "context"}

TypeOK ==
    /\ box \in Boxes
    /\ initialised \in BOOLEAN /\ window \in BOOLEAN /\ hooks \in BOOLEAN /\ gles \in BOOLEAN
    /\ handles \subseteq Objects
    /\ loaded \in Runtimes \cup {"exe", "none"}
    /\ boundTo \in Threads \cup {NoThread} /\ current \in Threads \cup {NoThread}
    /\ pc \in Stages \cup {"idle"}
    /\ failed \in Stages \cup {"none", "init"}
    /\ egl \subseteq Objects

Init ==
    /\ box \in Boxes
    /\ initialised = FALSE /\ window = FALSE /\ hooks = FALSE /\ gles = FALSE
    /\ loaded = "none" /\ handles = {}
    /\ boundTo = NoThread /\ pc = "idle" /\ failed = "none"
    /\ egl = {} /\ current = NoThread

-----------------------------------------------------------------------------
(* The window and the runtime.                                             *)

\* The first acquisition installs the keyboard hooks and does not look at the
\* result; later ones return at once.
AcquireCoreWindow ==
    /\ window' = TRUE
    /\ \/ window /\ UNCHANGED hooks
       \/ ~window /\ hooks' = TRUE
       \/ ~window /\ Faults /\ hooks' = FALSE

CannotAcquire == Faults /\ ~window /\ UNCHANGED <<window, hooks>>

\* The four words for Mesa are read as its name.
GraphicsRuntimeName == IF box.requested = "series" THEN "mesa" ELSE box.requested

\* Sets gles, found or not; what is found is Selected.
SelectGraphicsRuntimeDir == gles' = (GraphicsRuntimeName = "xboxone")

\* The runtime's own folder; without one Mesa is looked up beside the executable, the
\* Xbox One runtime nowhere.
Selected ==
    IF GraphicsRuntimeName \in box.packaged THEN {GraphicsRuntimeName}
    ELSE IF GraphicsRuntimeName = "xboxone" THEN {} ELSE {"exe"}

glfwInit ==
    /\ pc = "idle" /\ ~initialised
    /\ SelectGraphicsRuntimeDir
    /\ \/ AcquireCoreWindow /\ initialised' = TRUE
       \/ CannotAcquire /\ UNCHANGED initialised
    /\ UNCHANGED <<box, loaded, handles, boundTo, pc, failed, egl, current>>

-----------------------------------------------------------------------------
(* glfwCreateWindow and CreateEglContext.                                  *)

\* Mutant: the stage is noted after it is left.
GiveUpLate == pc' = "idle" /\ failed' = pc'

GiveUp == pc' = "idle" /\ failed' = pc

glfwCreateWindow ==
    /\ pc = "idle"
    /\ \/ /\ initialised
          /\ UNCHANGED <<initialised, window, hooks, gles>>
          /\ pc' = IF "context" \in handles THEN "idle" ELSE "load"
          /\ failed' = "none"
       \/ /\ ~initialised
          /\ SelectGraphicsRuntimeDir
          /\ \/ AcquireCoreWindow /\ initialised' = TRUE /\ pc' = "load" /\ failed' = "none"
             \/ CannotAcquire /\ UNCHANGED <<initialised, pc>> /\ failed' = "init"
    /\ UNCHANGED <<box, loaded, handles, boundTo, egl, current>>

\* The handles are kept once both libraries are in, also when libEGL turns out to lack
\* an export: the call is given up, the next one finds the handles and goes on.  When
\* no folder was selected the paths are never written: what they hold opens no
\* library, or ends the process, which needs no step.
LoadMesaEGL ==
    /\ pc = "load"
    /\ \/ /\ loaded # "none"
          /\ pc' = "display"
          /\ UNCHANGED <<gles, loaded, failed>>
       \/ /\ loaded = "none"
          /\ SelectGraphicsRuntimeDir
          /\ loaded' \in Selected
          /\ \/ box.exported /\ pc' = "display" /\ UNCHANGED failed
             \/ ~box.exported /\ GiveUp
       \/ /\ loaded = "none"
          /\ SelectGraphicsRuntimeDir
          /\ Faults \/ Selected = {}
          /\ GiveUp
          /\ UNCHANGED loaded
    /\ UNCHANGED <<box, initialised, window, hooks, handles, boundTo, egl, current>>

\* eglGetDisplay, which gives the same answer each time; eglInitialize; eglBindAPI.
InitializeDisplay ==
    /\ pc = "display"
    /\ \/ /\ box.display
          /\ handles' = handles \cup {"display"} /\ egl' = egl \cup {"display"}
          /\ pc' = "config"
          /\ UNCHANGED failed
       \/ /\ box.display /\ Faults
          /\ handles' = handles \cup {"display"} /\ egl' \in {egl, egl \cup {"display"}}
          /\ GiveUp
       \/ /\ ~box.display
          /\ handles' = handles \ {"display"}
          /\ GiveUp
          /\ UNCHANGED egl
    /\ UNCHANGED <<box, initialised, window, hooks, gles, loaded, boundTo, current>>

\* Desktop OpenGL with a stencil buffer, or without.  OpenGL ES 3, or ES 2, or ES 2
\* without stencil; after the last the code goes on to ask for ES 3 without stencil.
ConfigFound ==
    IF gles
      THEN {"es3", "es2"} \cap box.configs # {} \/ {"es2-ns", "es3-ns"} \subseteq box.configs
      ELSE {"gl", "gl-ns"} \cap box.configs # {}

ChooseConfig ==
    /\ pc = "config"
    /\ \/ ConfigFound /\ pc' = "surface" /\ UNCHANGED failed
       \/ ~ConfigFound /\ GiveUp
    /\ UNCHANGED <<box, shim, egl, current>>

\* Four attempts, each of which overwrites g_eglSurface.  The window takes one
\* surface, so that all of them are refused while it has one.
CreateSurface ==
    /\ pc = "surface"
    /\ \/ /\ "surface" \notin egl
          /\ handles' = handles \cup {"surface"} /\ egl' = egl \cup {"surface"}
          /\ pc' = "context"
          /\ UNCHANGED failed
       \/ /\ Faults \/ "surface" \in egl
          /\ handles' = handles \ {"surface"}
          /\ GiveUp
          /\ UNCHANGED egl
    /\ UNCHANGED <<box, initialised, window, hooks, gles, loaded, boundTo, current>>

\* With the version asked for, then without.
CreateContext ==
    /\ pc = "context"
    /\ \/ /\ handles' = handles \cup {"context"} /\ egl' = egl \cup {"context"}
          /\ pc' = "idle"
          /\ UNCHANGED failed
       \/ Faults /\ GiveUp /\ UNCHANGED <<handles, egl>>
    /\ UNCHANGED <<box, initialised, window, hooks, gles, loaded, boundTo, current>>

-----------------------------------------------------------------------------
(* The context and the threads.                                            *)

\* eglMakeCurrent refuses a context that is current on another thread.
MakeContextCurrent(t) ==
    /\ pc = "idle" /\ "context" \in handles
    /\ \/ /\ current \in {t, NoThread}
          /\ current' = t /\ boundTo' = t
       \/ /\ Faults \/ current \notin {t, NoThread}
          /\ UNCHANGED <<current, boundTo>>
    /\ UNCHANGED <<box, initialised, window, hooks, gles, loaded, handles, pc, failed, egl>>

\* Whose context it is once thread t has asked EGL to release its own.
AfterRelease(t) ==
    IF current # t \/ "display" \notin handles THEN {current}
    ELSE {NoThread} \cup (IF Faults THEN {t} ELSE {})

\* glfwMakeContextCurrent(NULL), also by a thread that has no context.  The thread id
\* is cleared whatever EGL answers.  A context that glfwTerminate destroyed goes when
\* it is released.
ReleaseContext(t) ==
    /\ pc = "idle"
    /\ current' \in AfterRelease(t)
    /\ egl' = IF current' # current /\ "context" \notin handles
                THEN egl \ {"surface", "context"} ELSE egl
    /\ boundTo' = IF boundTo = t THEN NoThread ELSE boundTo
    /\ UNCHANGED <<box, initialised, window, hooks, gles, loaded, handles, pc, failed>>

glfwGetCurrentContext(t) == "context" \in handles /\ boundTo = t

\* What eglTerminate leaves: what hangs on the display goes, known to the shim or not,
\* but for the context a thread still has, and its surface.
AfterEglTerminate(thread) == IF thread = NoThread THEN {} ELSE egl \ {"display"}

\* Mutants: g_eglContext is not reset; eglTerminate is not called; the thread id is
\* not reset.
glfwTerminateKeepsContext ==
    /\ pc = "idle" /\ boundTo \in {Main, NoThread}
    /\ current' \in AfterRelease(Main)
    /\ egl' = IF "display" \in handles THEN AfterEglTerminate(current') ELSE egl
    /\ handles' = handles \cap {"context"}
    /\ initialised' = FALSE /\ hooks' = FALSE /\ boundTo' = NoThread
    /\ UNCHANGED <<box, window, gles, loaded, pc, failed>>

glfwTerminateHandlesOnly ==
    /\ pc = "idle" /\ boundTo \in {Main, NoThread}
    /\ current' \in AfterRelease(Main)
    /\ egl' = egl \ ((IF current' = NoThread THEN handles ELSE {}) \cup {"display"})
    /\ handles' = {}
    /\ initialised' = FALSE /\ hooks' = FALSE /\ boundTo' = NoThread
    /\ UNCHANGED <<box, window, gles, loaded, pc, failed>>

glfwTerminateKeepsThread ==
    /\ pc = "idle" /\ boundTo \in {Main, NoThread}
    /\ current' \in AfterRelease(Main)
    /\ egl' = IF "display" \in handles THEN AfterEglTerminate(current') ELSE egl
    /\ handles' = {}
    /\ initialised' = FALSE /\ hooks' = FALSE
    /\ UNCHANGED <<box, window, gles, loaded, boundTo, pc, failed>>

\* The answer to the release is not looked at.  The CoreWindow and the libraries are
\* kept.
glfwTerminate ==
    /\ pc = "idle" /\ boundTo \in {Main, NoThread}
    /\ hooks' = FALSE
    /\ current' \in AfterRelease(Main)
    /\ boundTo' = NoThread
    /\ egl' = IF "display" \in handles THEN AfterEglTerminate(current') ELSE egl
    /\ handles' = {}
    /\ initialised' = FALSE
    /\ UNCHANGED <<box, window, gles, loaded, pc, failed>>

-----------------------------------------------------------------------------
CreateEglContext ==
    LoadMesaEGL \/ InitializeDisplay \/ ChooseConfig \/ CreateSurface \/ CreateContext

Next ==
    \/ glfwInit \/ glfwCreateWindow \/ CreateEglContext \/ glfwTerminate
    \/ \E t \in Threads : MakeContextCurrent(t) \/ ReleaseContext(t)

Spec == Init /\ [][Next]_vars

-----------------------------------------------------------------------------
(* Properties.                                                             *)

\* What the shim draws with exists: after any number of failed creations, refused
\* releases and terminations no handle outlives what EGL made for it, and what EGL has
\* can be got rid of, through the display or by the thread that has the context
\* (glfw_uwp.cpp 1125-1302, 1342-1377, 1629-1652).
HandlesAreLive ==
    /\ "context" \in handles => handles = Objects /\ egl = Objects
    /\ "surface" \in handles => "surface" \in egl
    /\ egl # {} => "display" \in handles \/ current # NoThread

\* glfwGetCurrentContext never answers the window on a thread that cannot draw,
\* through hand-overs, refusals and terminations (glfw_uwp.cpp 1629-1661).  A thread
\* that can draw may be told that it cannot: a refused release is not noticed (1633).
CurrentIsHeld == \A t \in Threads : glfwGetCurrentContext(t) => current = t /\ egl = Objects

\* A window that cannot be made is given up cleanly: whatever failed before,
\* glfwTerminate leaves the CoreWindow without a surface and EGL without a display,
\* unless a thread still has the context that would not be released (glfw_uwp.cpp
\* 1342-1377).  A window that failed for its context can be made no other way.
TerminateReleases ==
    [][initialised /\ ~initialised' => (current' = NoThread => egl' = {})]_vars

\* "If the Xbox One runtime is incomplete [...] the app falls back to the Series/Mesa
\* path at runtime" (docs/BUILDING.md 111-112): no window is lost for want of it.
FallsBackToMesa == failed # "load"

\* "eglChooseConfig ES2 succeeded without stencil buffer" (glfw_uwp.cpp 1217): a
\* window is not given up for want of a config that was found.
FoundConfigIsUsed == failed = "config" => ~gles \/ "es2-ns" \notin box.configs

\* "Keyboard and basic text input work" (README.md 17) whenever the shim is in use.
KeyboardWorks == initialised => hooks

-----------------------------------------------------------------------------
(* Inductive strengthening of the invariants.                              *)

\* What each stage of glfwCreateWindow finds, and what holds between calls.
StageInv ==
    /\ pc \in Stages => initialised /\ "context" \notin handles
    /\ pc \in Stages \ {"load", "display"} => "display" \in handles \cap egl
    /\ pc = "context" => "surface" \in handles /\ current = NoThread
    /\ "context" \in egl /\ current = NoThread => "context" \in handles
    /\ "context" \in handles => initialised
    /\ "display" \in handles => box.display

\* The shim may forget who has the context, or the context itself; it never believes
\* that another thread has it, and has no surface beside a forgotten one.
BoundInv ==
    /\ boundTo # NoThread => boundTo = current /\ "context" \in handles
    /\ current # NoThread => /\ {"surface", "context"} \subseteq egl
                             /\ "surface" \in handles => "context" \in handles

ContextInv == StageInv /\ HandlesAreLive /\ BoundInv
=============================================================================
