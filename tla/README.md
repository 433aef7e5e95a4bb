# A TLA+ model of the Minecraft host for Xbox (UWP)

The repository packages Minecraft: Java Edition as a UWP app. A native host
(`MC.Xbox.exe`, `src/MC.Xbox/App.cpp`) signs the player in, copies the packaged
runtime to LocalState, and runs an embedded JVM; a GLFW replacement
(`src/glfw_shim/glfw_uwp.cpp`) gives the game its window, OpenGL context and
input; a few Java classes patch Fabric Loader and Minecraft itself. This directory
models the parts in which order, failure and restarts matter, checks them with TLC
and proves the core of them with TLAPS.

    cd tla
    tlc -workers 2 -config LauncherAuth.cfg MCLauncherAuth     # a run
    tlapm LauncherAuthProofs.tla                               # a proof

`PROJECT.json` lists the components, the runs, for every checked property a mutation
of the code that breaks it, the source lines behind every definition, the
disagreements found, the hazards and the theorems.

## 1. Inventory

| Component | Source | State | Operations |
|---|---|---|---|
| Sign-in, vault, menu | App.cpp 845-849, 1114-1154, 1865-1958, 1961-2315, 3012-3026 | the refresh token in the Credential Locker; the stage of `ResolveLaunchAuthConfig`; device code, interval and time left; the `LaunchAuthConfig` of `Run` | refresh, device code and its polling, Xbox Live, XSTS, Minecraft login, ownership, profile, save, clear, Play, Sign out |
| Runtime seed | App.cpp 203-386, 2967-2987, 3028-3051 | LocalState: the files with size and time, the trees, `.runtime_seed`; the installed package | the stamp, the check, the copy tree by tree, the security file, the marker |
| Launch host | App.cpp 388-708, 2317-2344, 2527-2890, 3053-3116 | `mc_launch.log`; the tailers and their offsets; the watchdog; the JVM | redirect stdout, start and stop tailers, create the JVM, call `main`, watch, exit; lifecycle events |
| GLFW shim, graphics | glfw_uwp.cpp 436-545, 817-931, 1034-1416, 1629-1661 | CoreWindow, keyboard hooks, libraries, EGL handles, the context's thread | `glfwInit`, `glfwCreateWindow`, `glfwMakeContextCurrent`, `glfwTerminate` |
| GLFW shim, input | glfw_uwp.cpp 558-875, 933-955, 1418-1593, 1758-1841 | key states, the last gamepad state, the window size, should-close, callbacks | polling, key and character handlers, queries |
| Requests, answers, QR code | App.cpp 851-963, 1961-1986, qr_code.h | the texts of a request and its answer; the symbol under construction | escape, find a value, encode, draw the modules |
| Drawing, changelog | App.cpp 1156-1904 | bitmaps and text | draw |
| Patched Fabric classes | patch/*.java | open file systems and their reference counts; the output jar of the remapper | open, close, accept, close the consumer |
| Compatibility mod | compat_mod/ | a map of opened zip file systems | mixins |
| CoreWindow, entry point | App.cpp 2892-2966, 3120-3141 | views and registrations | once at start |
| Build scripts | build*.ps1, scripts/ | files on the developer's machine | build, clean |

How they interact. `App::Run` is one thread that goes through sign-in, seed and
launch in this order. The sign-in gives the launch its `LaunchAuthConfig`; the seed
gives it the files. The launch tells the game, by environment variables and JVM
options, which graphics runtime to use (App.cpp 2744-2759), and the shim makes a
choice of its own from the same variable (glfw_uwp.cpp 436-506). The game calls the shim from its
main thread and moves the context between threads. Log tailers, watchdog, main thread
and the system's event threads meet in one file, `mc_launch.log`. Across launches the
parts meet in LocalState and in the vault.

What is hard here, and the promise that answers it:

* **The app ends between any two steps**, on a console at the player's whim: in the
  middle of a copy, of the marker, of the two-step save of the token. Promised: the
  game starts on a runtime with nothing missing or cut off, and a saved session is never somebody else's.
* **Requests that are refused or get no answer**, sessions that end at the service.
  Promised: a sign-in settles, an owner is let in and nobody else, polling is polite.
* **State that outlives one turn**: the `authConfig` of `Run`'s loop, EGL objects of a
  failed creation, libraries that stay loaded after `glfwTerminate`.
* **Threads**: the GL context, four tailers, a watchdog that reads its parent's frame,
  one log file that everybody opens exclusively.
* **One piece of news, several ways to learn it**: the window's size and the controller
  are noticed by polls, which call back, and by questions, which do not. Promised: the
  game is not left with yesterday's size or controller.
* **Texts without a library**: answers searched by hand, requests escaped by hand, a QR
  code made by hand, which no compiler checks and every service and camera does.

The hazards are listed one by one, at their lines, in `PROJECT.json`, with the
properties that cover them, or why none does.

## 2. Modules

| Module | What it is | Extended by |
|---|---|---|
| `Membership` | what is promised of accounts, without requests or stages | `LauncherAuth` (`INSTANCE`) |
| `LauncherAuth` | sign-in, vault, what the menu decides | `MCLauncherAuth`, `AppSession`, `LauncherAuthProofs` |
| `RuntimeSeed` | LocalState and its marker | `MCRuntimeSeed`, `RuntimeSeedProofs`, `AppSession` (`INSTANCE`) |
| `AppSession` | `LauncherAuth` and `RuntimeSeed` in one process, launch after launch | `AppSessionProofs` |
| `LaunchHost` | tailers, watchdog, end of the app | `MCLaunchHost`, `LaunchHostProofs` |
| `GlfwContext` | runtime selection and EGL context | `MCGlfwContext`, `GlfwShim` |
| `GlfwShim` | `GlfwContext` composed with keyboard, controller, window size | `MCGlfwShim`, `GlfwShimProofs` |
| `Wire` | how requests are written and answers read | `SignInPage`, `WireProofs` |
| `QrCode` | the QR encoder | `SignInPage` |
| `SignInPage` | from a request to the page: `Wire` and `QrCode` together | `Screens` |
| `MainMenu` | the menu's loop over keys and frames | `Screens`, `MainMenuProofs` |
| `Screens` | `SignInPage` and `MainMenu`, which share one thread and one window | `MCScreens`, `ScreensProofs` |

The `MC` modules only give the constants values. An operator whose comment begins with
"Mutant:" is not part of a specification: it is a changed form of the definition after
it, used to see that a property can fail.

### LauncherAuth

`pc` is the stage of `Run` and, within it, of `ResolveLaunchAuthConfig`: `load` a saved
token, `refresh` it, the two vault calls of a save, the five requests of
`BuildMinecraftAuth`, `request` a device code, `sleep` and `poll`, `menu`, `signout`,
`launch`. One action is one request or one vault call, for those are what can fail and
where the process can die. `vault` is on disk; `live` are the sessions the Microsoft
service still honours; `svc` is the service's side of a device code: what the player
answered, the gap it demands between polls and the time since the last one. `out` is
the `LaunchAuthConfig`, which `FetchMinecraftProfile` fills field by field and which no
turn of the loop resets. Accounts stand for tokens, names and ids: the data are what
the properties tell apart. `SleepWithAuthUi` may take longer than asked (`Lags`), never
less. What it is asked for is `interval * 1000`, an `int`: `Slept` and `Lengthened` follow
the product and the sum in 32 bits, so that a service that asks for more than 2147483
seconds may get no wait at all. `forgotten` is history: who signed out and has not signed
in by code since.

### Membership, and LauncherAuth as an implementation of it

`Membership` has four variables: who is `in`, whose credentials are `held`, who approved
the code on the screen (`offer`), and who was `told` that he is signed out. An account gets
into the launcher's hands by an approval that the launcher takes up, and in no other way;
an owner is let in with the credentials held; what is held may be lost before anybody is
in; signing out leaves nothing. `LauncherAuth!Promise` is that module with

| Membership | LauncherAuth |
|---|---|
| `in` | `AccountIn`: the account of `out`, at the menu and in the game |
| `held` | `AccountHeld`: the account of the token that a call works on or, between calls, of the one in the vault |
| `offer` | `Approver`: the account that said yes at the service, while the code lives |
| `told` | `forgotten` |

and `ImplementsMembership` is `Promise!Spec`. It says more than the invariants: no refresh, code,
failed build, kill or sign-out, in any order, turns one account into another. It needs a
vault that does not refuse.

### RuntimeSeed

A package version gives each file a revision, and `Size` and `Time` say what size and
last-write time that revision has in the packages; the time may go back from one version to
the next, as it does when a file is taken from an earlier release. A `local` copy has the
revision of its contents, a time, a size and whether it is whole. `CopyFileIfNeeded`
compares size and time as the code does, so an older file of the same size is not copied:
`ServesFor` names what it cannot tell apart, and `Whole` allows for it.
`Order` is the order of `SeedLocalRuntime`, with the rewriting of `java.security` after the
tree that it is in, and the marker last. Between two steps the process may be killed (also
inside a copy, which leaves a short file, or with `TornCopies` one of full size, and inside
the two text writes, which open with "wb"), and while it is off the package may be updated,
the storage reset, or with `Losses` a tree lost.

`BuildAssumption` is all that is asked of packages, and `build.ps1` does it: it compiles
`MC.Xbox.exe` each time (267), whose stamp therefore differs from one version to the next,
and puts `xbox_security.properties` into the package and in the place of the two security
files (430-433). A package may lack any other file. The patch jar of java.base is one of
them: `build.ps1` wipes the package (291) and has the lines that make the jar commented out
(460-472), `build_cert_fixed.ps1` makes it (443). Without the jar `IsLocalRuntimeSeedCurrent`
never says yes, which `seed_today` shows to contradict README.md:15.
`VersionsAssumption` numbers the versions from 1, since 0 in `seeded` stands for no
seeding.

### LaunchHost

The host thread, the watchdog and one thread per log, each with its stage. A log is
counted in blocks; `files[l]` are the lengths of the files that had that name, since
log4j (`client-uwp.xml`) renames `latest.log` and starts a new one. `WriteLog` is two
steps, for what matters is who else finds the file open in between: `_wfopen_s` shares
it with readers only, and `WriteLog` gives a line up when it fails. `mirrored` is what
reached `mc_launch.log`, `dropped` what was read and lost: the log was busy, or
`LogUtf8Chunk` found nothing to write in it (no code page converts it, or it is line ends
only). The logs of the last launch are deleted without a look at the result, so that any of
them may still be there. `ExitProcess` ends all threads where they are; `StopLogTailers` runs
only after a failed launch, and a thread that does not end in its second goes on by itself. The game is
the environment: it writes, rolls, and its `main` ends or does not.

### GlfwContext

The globals of the shim on one side, EGL on the other: `handles` are the EGL handles
that the shim has, `egl` what exists, `boundTo` is `g_eglContextThreadId`, `current` is
the truth. With `Faults` EGL may refuse any call, the two releases whose answer the shim
ignores among them (1358, 1634): then `boundTo` is cleared and `current` is not, and what
`glfwTerminate` destroys stays until that thread lets go of it (`AfterEglTerminate`). `glfwCreateWindow` is one action per call of `CreateEglContext` that can
fail, since a failure leaves what was already made; the other functions are atomic, as
the game calls the shim from one thread except for the context. A `Box` is a console
with a package: the word in `MC_GRAPHICS_RUNTIME` (a runtime, one of the four words for Mesa,
or another), which runtimes are packaged, whether libEGL has every critical export, what
display and configs the driver has.

### GlfwShim

All of `GlfwContext`, and what the game has from the shim beside it. The system's side:
`down` are the keys held, `queue` the events that wait in the CoreWindow until
`ProcessEvents`, `bounds` the size of the window, `pad` the controller. The shim's side:
`keys` is `g_key_state`, `size` is `g_width` and `g_height`, `present` is
`g_gamepad_present`. `astray` is history: keys that moved while something else had the
focus, which no event tells. `sizeHeard` and `padHeard` are the game's side: what it was last told, by a
callback or an answer, and `sizeTold` and `padTold` that there was such news since the callback
was set. Nothing else changes them, so that a change that the shim notes and nobody hears of
shows.
`Dispatch` is what the handlers make of the events of one poll: each key is as the last event
about it leaves it. `MCGlfwShim` assumes, and TLC evaluates for all queues of up to three
events of two keys, that this is what calling `DispatchKeyEvent` in turn gives.
`glfwInit`, `glfwCreateWindow`, the surface, the context and `glfwTerminate` are the actions of
`GlfwContext` with what they do to the three; `glfwPollEvents`, the queries and the
setting of callbacks are new.

### Wire, QrCode and SignInPage

A text is a sequence of atoms: a character that means something to an escaping or to the
search, a control character by its name, or a word whose letters do not matter. The first half of `Wire` is
the code: `ExtractJsonStringValue`, `ExtractJsonIntValue`, `JsonEscape`,
`FormUrlEncode`, `MakeFormBody`. The second half is the other side and follows the
standards, not the code: how a service reads a form and a JSON string, and the ways in
which it may write an answer. An answer is a flat sequence of members, with a mark where an
inner object ends, for the search knows no levels. The loops of the code are recursive
functions, so that the module can be proved about: `ExtractJsonStringValue` walks from
character to character to the quote that ends a value (`end`) and collects what it passes
(`value`).

`QrCode` is `qr_code.h` with its constants (version 3, level L, mask 0): the data bytes, one step per
byte of `ReedSolomonRemainder`, the function patterns, one step per module of
`drawCodewords`. Its properties read the symbol as ISO/IEC 18004 tells a scanner to, by
the places of the modules and by the roots of the code, and share nothing with the walk and
the division that wrote it.

`SignInPage` sends a form or a body, gets an answer in one of the service's styles, and
makes the page of a device code from it. A `Style` is with blanks or without, with slashes
escaped or not, and with `&`, `+` and quotes written by number (`\u0026`) or not; control
characters are always written by letter or number, as they must be. A reader by the standard
undoes all of these. `ExtractJsonStringValue` (866-870) undoes only what a backslash
leaves as it is: of `\n` it keeps `n`, of `\u0026` it keeps `u0026`. `Heard` is a text
read that way, and `IsPlain` says that nothing in it was written so; the properties say that
the search gives what is heard, which is the text itself where it is plain. User codes are
(`CodesAssumption`).

`AnswersAssumption` says which answers the search can do with (`IsSearchable`): a key is one
word, and no text ends in a searched key alone or behind a quote, since `"user_code"` is also
found in a text. A key may be there several times, as `id` is in a profile with its skins
and capes: the first is found, so that the launcher depends on the order in which the
service writes them. The services are outside the repository; their answers have the keys of
RFC 8628 and of the Xbox and Minecraft services, and values that are no keys. The brackets of
arrays are left out, for the search looks at neither them nor the braces.

### MainMenu and Screens

`Turn` is one turn of `ShowMainMenu`: the frame (`drawn` is what it shows as selected), the
window's events, the look at nine keys (`Held`, as three commands), the directions, then
select. `wasDown` are the three `...WasDown` of the code. `KeyMoves` is the player, any number
of times between two turns; `Open` finds any keys held, or cannot draw and falls through to
Play. `anew` and `steered` are history: the commands given since the last look, and whether
a direction was seen since the menu opened. The three looks start anew with each menu (1902-1904), so a
key that is held when it opens acts in it: Enter held through a sign out chooses Play in the
next menu. The properties are stated of one menu and count such a key as pressed when it
opened. `Screens` has the sign-in page and the menu one
after the other, as `Run` calls them; there is a page or a menu, and a sign out leads back.

### AppSession

`LauncherAuth`, and `RuntimeSeed` with `pc` renamed to `stage` and `local` to `copies`.
`Play` is `MenuPlay` and `Seed!StartApp` in one step; `Prepare` is a step of the seed;
`End` is a kill of both, with what it leaves of the file being written; updates and resets
come while no process is there.

## 3. Runs

| Run | Question | Result |
|---|---|---|
| `auth` | all sign-in properties, with a vault that works | holds, 618 thousand states |
| `auth_sign_out` | is a session really forgotten when the vault may refuse? | violated |
| `auth_offline` | is only an expired session called expired? | violated |
| `seed` | kills, three builds with and without the patch jar, storage resets | holds, 73 thousand states |
| `seed_faults` | failed copies and lost trees, then a clean preparation | holds, 2.2 million states |
| `seed_today` | does a warm launch of the package that `build.ps1` makes skip the copy? | violated |
| `shim` | all failures of EGL and the system, refused releases included, with keyboard, resizes or controller | holds, 1.3 million states |
| `screens` | forms, bodies, answers in all styles, codes up to and over the limit of the symbol; then the menu under any keys | holds, 276 thousand states |
| `context_fallback` | does an incomplete package fall back to Mesa? | violated |
| `context_config` | is a config that was found used? | violated |
| `context_keyboard` | do the keyboard hooks survive a re-initialisation? | violated |
| `launch` | tailers, watchdog, events and the end of the app | holds, 523 thousand states |

The properties, by module:

* `LauncherAuth`: `AdmittedIsVerified` (menu and game only for an owner, name, id and
  token of one account), `SavedSessionIsPlayers`, `SignOutForgets` (across restarts),
  `PolitePolling` (no poll before the service's gap, slow_downs included, as long as its
  milliseconds fit into 32 bits),
  `ExpiredMeansExpired`, the refinement `ImplementsMembership`, and the liveness property
  `SignInSettles`.
* `RuntimeSeed`: `RunsWhole`, `CurrentIsWhole` (the check for a current runtime never vouches
  for less, in the middle of a seeding too), `WarmLaunchCopiesNothing` (once seeded, a package
  is not copied again, also where each launch begins a seeding), `CleanSeedRepairs`,
  `PreparationEnds` (liveness); `WarmLaunchSkips` fails.
* `LaunchHost`: `MirroredInOrder` (no line twice, none out of order, whatever is rolled
  or dropped), `NothingSkipped` (what was read was written, dropped or is in hand),
  `WatchdogInFrame`, and the liveness properties `LaunchEnds`, `LateTailersEnd` (a thread that
  was not done in its second, and that nobody waits for any more, ends) and `TailersKeepUp` (when
  the game pauses, all that is in a log that is not rolled gets mirrored or dropped, unless the
  launch ends first).
* `GlfwContext`: `HandlesAreLive`, `CurrentIsHeld` (the window is given to no thread that
  cannot draw; after a refused release a thread that can may be told that it cannot) and
  `TerminateReleases`, checked in the composition; `FallsBackToMesa`, `FoundConfigIsUsed`,
  `KeyboardWorks` fail.
* `GlfwShim`: `KeysFollow` (once the queue is processed no key hangs and none is dead,
  but for keys that moved out of hearing), `SizeIsKnown` and `PadIsKnown` (whatever
  mixture of polls and questions notices a change, the last callback or answer the game had
  says what the shim holds). A game that looks at its callbacks only may miss what a question
  took note of: the code promises it no more.
* `Wire` and `SignInPage`: `RequestsAreRead` (a service reads what was meant),
  `StringsAreRead` and `NumbersAreRead` (the first member's value is found in every style, less
  the backslashes that the code drops, and what is not there is not found),
  `PageShowsIssuedCode`.
* `MainMenu`: `OncePerPress` (in one menu a held key steers and chooses once, and what nobody
  gave is not done), `SignOutIsMeant` (no sign out without a direction), `ChosenWasDrawn` (what is chosen was
  drawn as selected, but for directions given since).
* `AppSession`: `GameIsOwners` (the game runs for a verified owner, under one account's name, id
  and token), `OwnersRunWhole` (and on a runtime that is whole), `SeedsForOwners` (the runtime's
  files, trees and marker are written only for an owner who chose Play; the logs, `hwnd.txt`
  and the directory of MobileGlues come before the sign-in and are no part of it),
  `ImplementsSeed` (over all of it the
  preparation is `RuntimeSeed`'s). All are proved, and no run repeats those of the two halves.
* `QrCode`: `Readable` (a scanner reads the text), `Correctable` (what is drawn is a word of
  the Reed-Solomon code), `PatternsShown`.

The violated runs are disagreements between the code and what it or the documentation
says; `PROJECT.json` quotes both sides. In short: an offline launch signs the player out
(App.cpp 2040); a vault that refuses a removal is not noticed (1152); the skip check never
passes for the package that `build.ps1` makes (280), although README.md:15 says that warm
launches skip the copy; a package without the Xbox One runtime has no
window on that console, where BUILDING.md promises a fallback (glfw_uwp.cpp 496, 1039);
an ES 2 config without stencil is thrown away (1223); a second `glfwInit` leaves the
keyboard dead (881).

Other weak places have no run of their own; the models have their steps, and the properties
say what they leave out. A copy that fails is not noticed and the marker is written
(App.cpp 309), so that `RunsWhole` needs `~CopyFaults`; a tree that is lost under a right marker
is not missed (262), so that it needs `~Losses`; a copy cut off at its full size (301) passes
for a good one, so that every promise of a whole file needs `~TornCopies`; an older file of the
same size is not copied (303), which `Whole` allows for. A libEGL that lacks a critical export
is refused once and taken by the next `LoadMesaEGL` (glfw_uwp.cpp 1035), which the code says nothing
against.

### Bounds, and why they are enough

* `MCLauncherAuth`: two owners and one guest, so that a session can be confused with
  another owner's and with a non-owner's. Codes live 0 or 7 seconds: with the code's
  five-second default interval and five more per slow_down that is no poll, one, or a
  slow_down before the end. Gaps 0 and 2: a service that asks for no gap, which the code
  takes for one second, and one that asks for less than the default of five that the code takes
  when none is sent; and 2147484, the first whose milliseconds do not fit. Lags 0 and 1.
* `MCRuntimeSeed`: three builds in `seed`, so that a kill in one update meets the next;
  each tree has a file, one changes size, one only contents, one is missing in between; two
  are older in the third build than in the second; the first build has the patch jar and the
  others have none. Two builds and fewer files in `seed_faults`, where any copy may fail.
* `MCLaunchHost`: one log that is never rolled and one that is once, two blocks per
  file, a buffer of two. A file overtaken by a shorter successor, by one of equal
  length and by one that grew past the offset all occur. The other two logs behave like the
  first.
* `MCGlfwContext` and `MCGlfwShim`: two threads. `MCGlfwContext` has every subset of the configs
  that a driver may offer; in `MCGlfwShim` the driver has the first that is asked for, only a
  later one, or none, which is all that the creation depends on. Both have a package without
  the Xbox One runtime, a libEGL without an export, a driver without a display, and two overrides:
  a word for Mesa and an unknown one. Three rooms: one key, or two sizes, or a controller. They are
  checked apart, for no action of the shim reads one of them to decide on another, and each
  meets the whole of `GlfwContext`. `MaxEvents` is 2: a press and its release, a repeat, or the
  release of one press and the next one wait together; a third event is dispatched
  like the second.
* `MCScreens`: every kind of character that an escaping treats by itself, next to
  others and at the end; numbers at both ends of 32 bits; answers with keys inside other values, in
  inner objects and missing. User codes of 8 and 2 characters, of 18, which with the
  address make the 53 bytes that fit, and of 19. Two keys for each command of the menu,
  so that one can be held while the other is pressed; the code has three, and the third is like
  the second.

`CHECK_DEADLOCK FALSE` is in the run of `LaunchHost`, whose app ends; the others
never stop, because the app can be started again or the shim called again.

### Fairness

Weak fairness only, and only of the program: `Resolve` in `LauncherAuth` (the thread of
`Run` is scheduled, a request returns or times out, a sleep ends), `Prepare` in
`RuntimeSeed` (a file operation returns), `Host`, `Watchdog` and each log's
`LogTailerThreadProc` in `LaunchHost`: they are threads, which the system schedules. The
player, the services, the game, kills and updates are under no fairness: `MainEnds` in
particular is the game's, and `LaunchEnds` speaks of what happens once `main` is over. `WaitForTailers` is
bounded by a second per thread in the code, so in the model it can always go on.

## 4. Proofs

`LauncherAuthProofs`, `RuntimeSeedProofs`, `AppSessionProofs`, `LaunchHostProofs`,
`MainMenuProofs`, `GlfwShimProofs`, `WireProofs` and `ScreensProofs` are checked by
`tlapm` for all values of the constants that satisfy the named assumptions: any number of
accounts, lifetimes, gaps, lags, packages, files, logs, blocks, threads, consoles, keys, sizes,
waiting events, forms, tokens and answers, with texts of any length. Every safety property of
the runs is proved, but for the violated ones and three of `Screens` (see below).

| Theorem | States | Along |
|---|---|---|
| `LauncherAuthProofs!TypeCorrect` | `Spec => []TypeOK` | one case per action |
| `AdmissionCorrect` | `[]AdmittedIsVerified`, vault faults included | `VerifiedInv` |
| `PollingCorrect` | `[]PolitePolling` | `PoliteInv` |
| `SavedSessionCorrect`, `SignOutCorrect` | their properties, assuming `~VaultFaults` | `SessionInv` |
| `MembershipCorrect` | `ImplementsMembership`, assuming `~VaultFaults` | `ViewInv`, one case per action |
| `RuntimeSeedProofs!TypeCorrect` | `Spec => []TypeOK`, with every fault | one case per action |
| `WarmLaunchCorrect` | `[]WarmLaunchCopiesNothing`, with every fault | `ProgressInv`, `SeededInv` |
| `CleanSeedCorrect` | `CleanSeedRepairs`, assuming `~TornCopies` | `DatedInv`, `ProgressInv` |
| `CurrentCorrect`, `RunsWholeCorrect` | `[]CurrentIsWhole`, `[]RunsWhole`, assuming `~TornCopies`, `~CopyFaults`, `~Losses` | `DatedInv`, `SeededInv`, `MarkerInv` |
| `LaunchHostProofs!TypeCorrect` | `Spec => []TypeOK` | one case per action, `ReadTakes` for a read |
| `WatchdogCorrect` | `[]WatchdogInFrame` | inductive as it is, one case per action |
| `OrderCorrect` | `[]MirroredInOrder` | `ReadInv`, `PastInv` |
| `SkippedCorrect` | `[]NothingSkipped` | `ReadInv`, `SkipStep` for a step of a log |
| `AppSessionProofs!SessionRunsAuth`, `SessionRunsSeed` | `SessionSpec` implements `LauncherAuth` and `RuntimeSeed` | one case per action |
| `GameIsOwnersCorrect`, `SeedsForOwnersCorrect` | `GameIsOwners`, `SeedsForOwners` | `VerifiedInv`, by `SessionRunsAuth`, and `OneProcess` |
| `PromiseCorrect` | `SessionSpec => []OwnersRunWhole`, assuming `~CopyFaults`, `~TornCopies` and `Seed`'s assumptions on packages | `GameIsOwnersCorrect`, and `RunsWholeCorrect` by `SessionRunsSeed` |
| `MainMenuProofs!MenuCorrect` | `MenuSpec => []MenuInv` | one case per action |
| `SignOutMeant`, `OncePerPressCorrect`, `DrawnCorrect` | the three properties of the menu | `MenuInv`, and `TurnStep` for a turn |
| `GlfwShimProofs!TypeCorrect` | `Spec => []TypeOK` | one case per action |
| `HandlesCorrect`, `CurrentCorrect` | `[]HandlesAreLive`, `[]CurrentIsHeld` | `ContextInv` |
| `TerminateCorrect` | `Spec => TerminateReleases` | `ContextInv` on each step |
| `ShimRunsContext` | `ShimSpec => Spec`: the composition is still a `GlfwContext` | one case per action |
| `ShimHandlesCorrect`, `ShimTerminateCorrect` | two of those properties for the composition | `ShimRunsContext` |
| `ShimTypeCorrect` | `ShimSpec => []ShimTypeOK` | `ShimRunsContext`, and one case per action |
| `SizeCorrect`, `PadCorrect` | `ShimSpec => []SizeIsKnown`, `[]PadIsKnown` | inductive, with `ContextInv` |
| `KeysCorrect` | `ShimSpec => []KeysFollow` | `KeysInv`, `DeliverDecides` for one more event |
| `WireProofs!JsonRoundTrip`, `FormBodyRoundTrip` | a reader by the standards gets what `JsonEscape` and `MakeFormBody` were given | induction over the text |
| `StringsAreFound` | `ExtractJsonStringValue` finds the first member with the key and gives what is `Heard` of its text, and finds none that is not there | `AnswerPlaced`, `KeyIsFound`, `TextIsFound`, `PlainIsHeard` |
| `ScreensProofs!RequestsCorrect` | `ScreensSpec => []RequestsAreRead` | `RequestInv`, the two round trips |
| `StringsCorrect`, `PageCorrect` | `[]StringsAreRead`, `[]PageShowsIssuedCode` | `PageInv`, `StringsAreFound` |
| `PatternsCorrect` | `[]PatternsShown` | `PatternInv` |
| `ScreensHaveMenu`, `ScreensMenuCorrect` | `ScreensSpec => MenuSpec`, and the three properties of the menu | one case per action |
| `ScreensTypeCorrect` | `[]ScreensTypeOK` | one case per action; codewords are bytes |

Why the strengthenings are needed:

* `AdmittedIsVerified` says nothing before the menu. `VerifiedInv` adds that whoever's
  profile is being read has passed the ownership request with the token in hand, and that
  what was returned stays whole until the next turn of the loop.
* `PolitePolling` speaks of the moment of a poll. `PoliteInv` adds that the interval is at
  least the service's gap all along, slow_downs included, and that a poll comes after the
  whole interval.
* `SessionInv` says what may be on disk at each stage, with nothing in use that was
  signed out. Its two theorems assume a vault that does not refuse; `auth_sign_out` shows that the
  assumption cannot be dropped.
* `ContextInv` is `StageInv` (what each stage of a creation finds), `HandlesAreLive` and
  `BoundInv` (the shim may forget which thread has the context, after a release that was
  refused, but never believes in one that has not; and there is one only with a
  context). `HandlesAreLive` alone is not inductive: that a half-made display is known to
  the shim follows from the stage.
* `ViewInv` is `TypeOK`, `VerifiedInv`, `SessionInv` and `CodeInv`. The map to `Membership` sees
  one account held where the code has a vault, a token in hand and a build; `SessionInv`
  makes them one, and `CodeInv` says that only the two stages that poll have a device code, so
  that an approval is taken up once. `VerifiedInv` makes whoever enters the owner
  who is held.
* `RunsWhole` looks at the end of a seeding that may be the tenth, of the third build.
  `DatedInv` says that a file that is not whole can be told by its size, and that a whole one
  has the size and the time of its revision, so that what `CopyFileIfNeeded` passes over
  serves for the packaged file. `ProgressInv` is the loop's: the files of the steps that are
  behind (`Settled`) are as a seeding leaves them (`Placed`), unless a copy failed. `SeededInv` is
  what a seeding that ended leaves until the next package or loss: everything is there, and only
  the security files are ever written again. `MarkerInv` says that the marker of the installed
  build comes from such a seeding, and that the security files are right where the check says
  yes, since no seeding is then under way. `WarmLaunchCorrect` needs no assumption on faults;
  `CleanSeedRepairs` needs copies that are not torn, for a torn one is passed over; the two that
  rely on an earlier seeding also need copies that do not fail, since the code does not look at what
  `CopyFileW` returns and goes on to the marker, and a LocalState that loses nothing, since the
  check looks at few files. Of the packages nothing is assumed but `BuildAssumption`.
* `ReadInv` says of each tailer how far it may have read the file it has open, and when it
  holds a block; the game may write and roll the file between any two steps. `PastInv` is
  `MirroredInOrder` with the next block in it: all that was mirrored is older than what is
  held or read next, across the files of a name, since a file that was rolled is never
  opened again.
* `OneProcess` says that the preparation or the game is there exactly when `Run` has left its
  loop. It carries what `VerifiedInv` says of the account from the sign-in to the
  files and the game.
* `MenuInv` adds that a key that is down and was up at the last look went down since
  (`EdgeInv`), that only a look that saw a direction leaves the first entry (`SteeredInv`), and that
  nothing is chosen while the loop runs (`ChoiceInv`).
* `KeysFollow` says nothing of events that arrive before the first window. `KeysInv` adds that
  they wait for it, and that the handlers come with the window or never do.
* `PatternsShown` speaks of a finished symbol. `PatternInv` says from the first module of the
  walk on that what is reserved is as it was drawn; that the drawing is what the
  standard's pictures show is then a matter of places (`SymbolShowsPatterns`).
* `RequestInv` and `PageInv` say that the text under way is what was written of what is meant.
  The rest is about texts: `Recursion` makes a function of each loop, and what the function
  does at the places of a text follows by induction over the text.
* `StringsAreFound` goes through the answer as it is written: `AnswerPlaced` says where
  its members stand, `KeyIsMembers` that a key between quotes is found in no other place of a
  member (not in a number, not across two members, and in a text only when it ends it, which
  `IsSearchable` excludes), `KeyIsFound` that the search therefore ends at the first member with
  the key, and `TextIsRead` that the loop over the value ends at its quote with what is heard of
  the text in hand. What is heard is the text less the backslashes of what is written by a
  letter or a number; `PlainIsHeard` says that it is the text where nothing is written so.

Induction over the natural numbers is proved from `WFMin`, which takes the set of the
numbers that are left to show; the library's induction theorems take an operator, which
the provers cannot instantiate.

The assumptions about answers and codes (`AnswersAssumption`, `CodesAssumption`),
forms and tokens (`RequestsAssumption`) and `StylesAssumption` are evaluated by TLC in the run
`screens`. They say what texts are and what services send; nothing in them is about the
launcher's code.

Only model-checked are

* `NumbersAreRead`: how many digits make 32 bits is arithmetic of powers of ten over a
  sequence, and the answers of the run have both ends of the range, 2147483647 and -2147483648,
  and a number beyond them;
* `Readable` and `Correctable`: which of 812 places of the walk is the n-th that no pattern
  has, and that the field of 256 elements is one, are computations, which TLC makes and the
  provers do not;
* that `Dispatch` is what the handlers do one by one, a fold over the queue;
* every liveness property (`SignInSettles`, `PreparationEnds`, `LaunchEnds`,
  `LateTailersEnd`, `TailersKeepUp`), since they rest on fairness.

`PollingCorrect` is for intervals of 32 bits, and says something only where the gap in
milliseconds fits too: from 2147484 seconds on the product with 1000 (App.cpp 2260, 1832) wraps, in the
model as in the code, and nothing is said of the wait.

## 5. Not modelled

* Drawing, text and the animation of the sign-in and seeding screens: they read the
  other components and change nothing in them.
* The contents of JVM options, class paths and HTTP bodies.
* Writes that the disk reorders: `RuntimeSeed` has copies cut off at full size
  (`TornCopies`), which `TypeCorrect` and `WarmLaunchCorrect` allow for, but no run switches them
  on, because no whole file is promised then.
* Which export a libEGL lacks: `GlfwContext` has one that lacks an export the shim calls
  critical, but not which; the calls that make a window are taken to be there.
* What an override word does to the app's own choice of `opengl32.dll` (App.cpp 2744-2759, which
  makes a folder of the word): for the two names that `Run` sets by itself (797-843) it is the
  shim's; for other words `GlfwContext` has the shim's half only (glfw_uwp.cpp 443-446, 501), and the two
  may then differ. Nothing in the repository says what another word promises.
* Characters, buttons, sticks, the cursor and should-close of the shim: values
  passed on, or set by one function and read by another. Of the two size callbacks,
  `SetSizeCallback` stands for the framebuffer's; the window's (glfw_uwp.cpp 952) is called
  with the same size just before it, but for the creation of a window (1413), which calls the
  framebuffer's only.
* `FileSystemReference`: its counts are under one monitor, and since it opens by
  path each reference has a file system of its own; whether two of one jar disturb each
  other is decided by the JDK. `OutputConsumerPath` follows the protocol of TinyRemapper,
  which is not in the repository. `ZipFsBypassMixin` is one look-up, open and put, called
  on threads that the repository does not show.
* Answers with null where a string is asked for, and the brackets of arrays: the search finds
  the next string behind a null as the code does, but nothing is promised of that.
* Build scripts: sequential, on another machine; their results are assumptions.

## 6. Plan

Done, in order of importance: `LauncherAuth` and its proofs, `RuntimeSeed`,
`GlfwContext` and its proofs, `LaunchHost`, `Membership` and the refinement with its proof,
`GlfwShim` and its proofs, `Wire`, `QrCode` and `SignInPage`, `MainMenu` and `Screens`,
`AppSession`, then the proofs of `MainMenu`, `AppSession`, `RuntimeSeed` and `LaunchHost`,
the promise of a launch as one theorem, `PromiseCorrect`, and the proofs of `Wire` and
`Screens`. Next:

1. `AppSession` with `LaunchHost` after the seed: the launch runs once per process, and what
   is proved of `LaunchHost` holds of the whole.
2. `MainMenu` in the place of the two actions of `LauncherAuth` that stand for the menu, so
   that a sign out that is meant and a session that is forgotten become one statement.
   `ScreensHaveMenu` is half of the way.
