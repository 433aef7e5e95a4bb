---------------------------- MODULE LauncherAuth ----------------------------
(***************************************************************************)
(* The launcher's sign-in, from App::Run's loop down to the Credential     *)
(* Locker: ResolveLaunchAuthConfig tries the saved Microsoft session, then *)
(* the device-code flow, verifies that the account owns the game, and the  *)
(* menu's answer either leaves the loop (Play) or signs the player out.    *)
(*                                                                         *)
(* One process runs it, so pc says which call it is about to make.  The    *)
(* player, the Microsoft service and the network take steps in between,    *)
(* and the process can be killed before any of them.  Only `vault' is on   *)
(* disk.  A token, a user hash or a profile is abstracted to the account   *)
(* it belongs to.                                                          *)
(***************************************************************************)
EXTENDS Integers

CONSTANTS
    Accounts,     \* Microsoft accounts the player may sign in with
    Owners,       \* those that own Minecraft: Java Edition
    None,         \* the empty string, an empty vault
    Lifetimes,    \* values of expires_in the service may send (seconds)
    Gaps,         \* values of interval (seconds): what the service sends, 5 if it sends none
    Lags,         \* seconds a sleep and the request after it may take longer
    VaultFaults   \* TRUE if a call on the Credential Locker may throw

ASSUME AccountsAssumption == Owners \subseteq Accounts /\ None \notin Accounts
\* Both are int in the code.
MaxInt == 2147483647
IsInt32(n) == n \in Int /\ -MaxInt - 1 <= n /\ n <= MaxInt
ASSUME TimeAssumption == (\A n \in Lifetimes \cup Gaps : IsInt32(n)) /\ Lags \subseteq Nat
ASSUME FaultsAssumption == VaultFaults \in BOOLEAN
\* The states of a device code at the service are not accounts.
ASSUME CodeAssumption == {"none", "pending", "declined"} \cap Accounts = {}

VARIABLES
    vault,      \* durable: the account of the saved refresh token, or None
    live,       \* service: accounts whose saved session it still honours
    svc,        \* service: the device code it issued and how it wants to be polled
    pc,         \* the call the process is about to make; "stopped": no process
    flow,       \* which half of ResolveLaunchAuthConfig runs: "saved" or "device"
    token,      \* account of the Microsoft token in hand
    error,      \* what the saved session's `error' string says
    left,       \* seconds until expiresAt
    interval,   \* seconds between two polls
    out,        \* LaunchAuthConfig authConfig of App::Run
    forgotten   \* history: accounts reported signed out and not approved since

vars == <<vault, live, svc, pc, flow, token, error, left, interval, out, forgotten>>

-----------------------------------------------------------------------------
Maybe == Accounts \cup {None}
NoConfig == [uuid |-> None, username |-> None, accessToken |-> None]
NoCode == [code |-> "none", gap |-> 0, quiet |-> 0]

BuildCalls == {"xbl", "xsts", "login", "entitle", "profile"}
Stages == BuildCalls \cup
    {"stopped", "load", "refresh", "saveRemove", "saveAdd", "clear", "request",
     "sleep", "poll", "menu", "signout", "launch"}
\* The player sees a signed-in name: the menu, or the game started from it.
Admitted == pc \in {"menu", "launch"}

TypeOK ==
    /\ vault \in Maybe
    /\ live \subseteq Accounts
    /\ svc \in [code : {"none", "pending", "declined"} \cup Accounts, gap : Nat, quiet : Nat]
    /\ pc \in Stages
    /\ flow \in {"saved", "device"}
    /\ token \in Maybe
    /\ error \in {"none", "session expired", "no access_token", "build failed"}
    /\ left \in Int
    /\ interval \in Int
    /\ out \in [uuid : Maybe, username : Maybe, accessToken : Maybe]
    /\ forgotten \subseteq Maybe

Init ==
    /\ vault = None /\ live = {} /\ forgotten = {}
    /\ svc = NoCode /\ pc = "stopped" /\ flow = "saved" /\ token = None
    /\ error = "none" /\ left = 0 /\ interval = 0 /\ out = NoConfig

-----------------------------------------------------------------------------
(* The process: start, death, and the two ends of Run's loop.              *)

local == <<svc, flow, token, error, left, interval, out>>

\* Everything but the vault goes with the process, and nobody asks the service
\* about the device code again.
EndProcess ==
    /\ pc' = "stopped"
    /\ svc' = NoCode /\ flow' = "saved" /\ token' = None /\ error' = "none"
    /\ left' = 0 /\ interval' = 0 /\ out' = NoConfig

StartApp ==
    /\ pc = "stopped"
    /\ pc' = "load"
    /\ UNCHANGED <<vault, live, local, forgotten>>

\* The system or the player ends the app, whatever it is doing.
Kill ==
    /\ pc # "stopped"
    /\ EndProcess
    /\ UNCHANGED <<vault, live, forgotten>>

-----------------------------------------------------------------------------
(* The Credential Locker.                                                  *)

\* What the vault may hold after a call that sets it to v: SaveRefreshToken and
\* ClearRefreshToken swallow an exception and leave what was there.
Written(v) == {v} \cup (IF VaultFaults THEN {vault} ELSE {})

\* LoadRefreshToken returns the empty string for no entry and for an exception.
LoadRefreshToken ==
    /\ pc = "load"
    /\ token' \in {vault} \cup (IF VaultFaults THEN {None} ELSE {})
    /\ pc' = IF token' = None THEN "request" ELSE "refresh"
    /\ flow' = IF token' = None THEN "device" ELSE "saved"
    /\ error' = "none"
    /\ UNCHANGED <<vault, live, svc, left, interval, out, forgotten>>

\* SaveRefreshToken is two calls, and the process can die between them.
SaveRemoves ==
    /\ pc = "saveRemove"
    /\ vault' \in Written(None)
    /\ pc' = "saveAdd"
    /\ UNCHANGED <<live, local, forgotten>>

SaveAdds ==
    /\ pc = "saveAdd"
    /\ vault' \in Written(token)
    /\ pc' = "xbl"
    /\ UNCHANGED <<live, local, forgotten>>

\* Mutant: the failed session stays on disk.
ClearRefreshTokenKeepsVault ==
    /\ pc = "clear"
    /\ pc' = "request" /\ flow' = "device" /\ token' = None
    /\ UNCHANGED <<vault, live, svc, error, left, interval, out, forgotten>>

\* After a failed saved session: forget it and ask for a device code.
ClearRefreshToken ==
    /\ pc = "clear"
    /\ vault' \in Written(None)
    /\ pc' = "request" /\ flow' = "device" /\ token' = None
    /\ UNCHANGED <<live, svc, error, left, interval, out, forgotten>>
-----------------------------------------------------------------------------
(* The saved session.                                                      *)

\* Mutant: a session that cannot be refreshed is tried again.
RefreshMicrosoftTokenRetries ==
    /\ pc = "refresh"
    /\ \/ /\ token \in live
          /\ pc' \in {"saveRemove", "xbl"}
          /\ UNCHANGED error
       \/ pc' = "load" /\ error' = "session expired"
    /\ UNCHANGED <<vault, live, svc, flow, token, left, interval, out, forgotten>>

\* Mutant: an answer without an access token goes to the device code at once.
RefreshMicrosoftTokenKeepsSession ==
    /\ pc = "refresh"
    /\ \/ /\ token \in live
          /\ pc' \in {"saveRemove", "xbl"}
          /\ UNCHANGED <<flow, token, error>>
       \/ /\ token \in live
          /\ pc' = "request" /\ flow' = "device" /\ token' = None /\ error' = "no access_token"
       \/ /\ pc' = "clear" /\ error' = "session expired"
          /\ UNCHANGED <<flow, token>>
    /\ UNCHANGED <<vault, live, svc, left, interval, out, forgotten>>

\* RefreshMicrosoftToken.  HttpPostString returns status 0 when the request did
\* not get through, and every status outside 2xx takes the same path.
RefreshMicrosoftToken ==
    /\ pc = "refresh"
    /\ \/ /\ token \in live                    \* 2xx, with or without a new refresh token
          /\ pc' \in {"saveRemove", "xbl"}
          /\ UNCHANGED error
       \/ /\ token \in live                    \* 2xx without an access token
          /\ pc' = "clear" /\ error' = "no access_token"
       \/ /\ pc' = "clear" /\ error' = "session expired"   \* refused, or no network
    /\ UNCHANGED <<vault, live, svc, flow, token, left, interval, out, forgotten>>

-----------------------------------------------------------------------------
(* BuildMinecraftAuth: five requests, any of which can fail.               *)

\* The saved flow logs the error and clears the session; the device flow shows
\* it and lets Run return E_FAIL.
BuildFails ==
    IF flow = "saved"
      THEN /\ pc' = "clear" /\ error' = "build failed"
           /\ UNCHANGED <<svc, flow, token, left, interval>>
      ELSE EndProcess

\* AuthenticateWithXboxLive, AuthorizeWithXsts and LoginToMinecraft trade one
\* token of the account for the next.
ExchangeToken(call, next) ==
    /\ pc = call
    /\ \/ pc' = next /\ UNCHANGED local
       \/ BuildFails /\ (flow = "saved" => UNCHANGED out)
    /\ UNCHANGED <<vault, live, forgotten>>

\* Mutant: an answer that names no game is good enough.
EnsureMinecraftEntitlementTrusts ==
    /\ pc = "entitle"
    /\ pc' = "profile"
    /\ UNCHANGED <<local, vault, live, forgotten>>

\* EnsureMinecraftEntitlement: the answer must name the game.
EnsureMinecraftEntitlement ==
    /\ pc = "entitle"
    /\ \/ token \in Owners /\ pc' = "profile" /\ UNCHANGED local
       \/ BuildFails /\ (flow = "saved" => UNCHANGED out)
    /\ UNCHANGED <<vault, live, forgotten>>

\* FetchMinecraftProfile fills the caller's config before it looks at the fields.
FetchMinecraftProfile ==
    /\ pc = "profile"
    /\ \/ BuildFails /\ (flow = "saved" => UNCHANGED out)
       \/ \E id, name \in {token, None} :
            LET filled == [uuid |-> id, username |-> name, accessToken |-> token] IN
            IF None \in {id, name}
              THEN BuildFails /\ (flow = "saved" => out' = filled)
              ELSE /\ out' = filled
                   /\ pc' = "menu"
                   /\ flow' = "saved" /\ token' = None /\ error' = "none"   \* locals are gone
                   /\ left' = 0 /\ interval' = 0
                   /\ UNCHANGED svc
    /\ UNCHANGED <<vault, live, forgotten>>

-----------------------------------------------------------------------------
(* The device code.                                                        *)

\* The service keeps the gap that it asked for, none if that was not positive.
RequestDeviceCode ==
    /\ pc = "request"
    /\ \/ EndProcess                           \* HTTP error or a field missing
       \/ \E lifetime \in Lifetimes, gap \in Gaps :
            /\ left' = lifetime
            /\ interval' = IF gap > 1 THEN gap ELSE 1
            /\ svc' = [code |-> "pending", gap |-> IF gap > 0 THEN gap ELSE 0, quiet |-> 0]
            /\ pc' = "sleep"
            /\ UNCHANGED <<flow, token, error, out>>
    /\ UNCHANGED <<vault, live, forgotten>>

\* Up to this interval, some 24 days, interval * 1000 is an int.
MaxSleep == 2147483

\* Beyond it the build keeps the low 32 bits of the milliseconds, computed here in halves
\* of 16 bits, and a negative time is not slept at all.
Wrapped(n) ==
    LET low == 1000 * (n % 65536)
        high == (1000 * (n \div 65536) + (low \div 65536)) % 65536
    IN IF high >= 32768 THEN 0 ELSE (high * 65536 + (low % 65536)) \div 1000

\* The seconds that SleepWithAuthUi sleeps for an interval.
Slept(n) == IF 0 <= n /\ n <= MaxSleep THEN n ELSE Wrapped(n)

\* The loop's head and SleepWithAuthUi; the lag also stands for the request, and a turn
\* of the loop takes some time in any case.
SleepWithAuthUi ==
    /\ pc = "sleep"
    /\ left > 0
    /\ \E lag \in Lags :
         LET passed == Slept(interval) + lag
         IN /\ left' = left - (IF passed > 0 THEN passed ELSE 1)
            /\ svc' = [svc EXCEPT !.quiet = @ + passed]
    /\ pc' = "poll"
    /\ UNCHANGED <<vault, live, flow, token, error, interval, out, forgotten>>

\* "Microsoft sign-in expired": ResolveLaunchAuthConfig returns false.
DeviceCodeExpires ==
    /\ pc = "sleep"
    /\ left <= 0
    /\ EndProcess
    /\ UNCHANGED <<vault, live, forgotten>>

\* Mutant: slow_down is taken for authorization_pending.
PollPendingIgnoresSlowDown ==
    /\ pc = "poll"
    /\ svc.code = "pending"
    /\ svc' \in {[svc EXCEPT !.quiet = 0], [svc EXCEPT !.quiet = 0, !.gap = @ + 5]}
    /\ pc' = "sleep"
    /\ UNCHANGED <<vault, live, flow, token, error, left, interval, out, forgotten>>

\* interval += 5, in 32 bits.
Lengthened(n) == IF n <= MaxInt - 5 THEN n + 5 ELSE n - MaxInt + 3 - MaxInt

\* RFC 8628, 3.5: slow_down adds five seconds to the gap the service wants.
PollPending ==
    /\ pc = "poll"
    /\ svc.code = "pending"
    /\ \/ /\ svc' = [svc EXCEPT !.quiet = 0]
          /\ UNCHANGED interval
       \/ /\ svc' = [svc EXCEPT !.quiet = 0, !.gap = @ + 5]
          /\ interval' = Lengthened(interval)
    /\ pc' = "sleep"
    /\ UNCHANGED <<vault, live, flow, token, error, left, out, forgotten>>

\* Mutant: any answer is taken for one with a token.
PollGrantedUnread ==
    /\ pc = "poll"
    /\ svc.code # "none"
    /\ token' = svc.code
    /\ live' = live \cup {svc.code}
    /\ forgotten' = forgotten \ {svc.code}
    /\ svc' = NoCode
    /\ pc' \in {"saveRemove", "xbl"}
    /\ UNCHANGED <<vault, flow, error, left, interval, out>>

\* The answer carries an access token and, with offline_access, a refresh token.
PollGranted ==
    /\ pc = "poll"
    /\ svc.code \in Accounts
    /\ token' = svc.code
    /\ live' = live \cup {svc.code}
    /\ forgotten' = forgotten \ {svc.code}
    /\ svc' = NoCode
    /\ pc' \in {"saveRemove", "xbl"}
    /\ UNCHANGED <<vault, flow, error, left, interval, out>>

\* Declined, expired at the service, no access token, or no network: one failed
\* request ends the sign-in.
PollFailed ==
    /\ pc = "poll"
    /\ EndProcess
    /\ UNCHANGED <<vault, live, forgotten>>

-----------------------------------------------------------------------------
(* What Run does with the menu's answer.                                   *)

MenuPlay ==
    /\ pc = "menu"
    /\ pc' = "launch"
    /\ UNCHANGED <<vault, live, local, forgotten>>

MenuSignOut ==
    /\ pc = "menu"
    /\ pc' = "signout"
    /\ UNCHANGED <<vault, live, local, forgotten>>

\* Mutant: the menu's sign out is only told of.
SignOutKeepsVault ==
    /\ pc = "signout"
    /\ forgotten' = forgotten \cup {out.uuid}
    /\ pc' = "load"
    /\ UNCHANGED <<vault, live, local>>

\* ClearRefreshToken, then the log line, then the next turn of the loop with
\* authConfig as it is.
SignOut ==
    /\ pc = "signout"
    /\ vault' \in Written(None)
    /\ forgotten' = forgotten \cup {out.uuid}
    /\ pc' = "load"
    /\ UNCHANGED <<live, local>>

-----------------------------------------------------------------------------
(* The player and the service.                                             *)

Answer(reply) ==
    /\ svc.code = "pending"
    /\ svc' = [svc EXCEPT !.code = reply]
    /\ UNCHANGED <<vault, live, pc, flow, token, error, left, interval, out, forgotten>>

SessionEnds(a) ==
    /\ a \in live
    /\ live' = live \ {a}
    /\ UNCHANGED <<vault, pc, local, forgotten>>

-----------------------------------------------------------------------------
Build ==
    \/ ExchangeToken("xbl", "xsts") \/ ExchangeToken("xsts", "login")
    \/ ExchangeToken("login", "entitle")
    \/ EnsureMinecraftEntitlement \/ FetchMinecraftProfile

\* Every step the sign-in takes by itself once the app runs.
Resolve ==
    \/ LoadRefreshToken \/ SaveRemoves \/ SaveAdds \/ ClearRefreshToken
    \/ RefreshMicrosoftToken \/ Build \/ RequestDeviceCode \/ SleepWithAuthUi
    \/ DeviceCodeExpires \/ PollPending \/ PollGranted \/ PollFailed \/ SignOut

Next ==
    \/ StartApp \/ Kill \/ Resolve \/ MenuPlay \/ MenuSignOut
    \/ \E reply \in Accounts \cup {"declined"} : Answer(reply)
    \/ \E a \in Accounts : SessionEnds(a)

Spec == Init /\ [][Next]_vars

\* The thread that runs Run is scheduled, and a request or a sleep ends.
FairSpec == Spec /\ WF_vars(Resolve)
-----------------------------------------------------------------------------
(* Properties.                                                             *)

\* ResolveLaunchAuthConfig has returned an account; a call works on its token.
Returned == pc \in {"menu", "signout", "launch"}
Holding == pc \in BuildCalls \cup {"refresh", "saveRemove", "saveAdd"}

\* Nobody reaches the menu or the game but an owner, and the name, the id and
\* the token handed to the JVM are of one account: authConfig outlives a sign
\* out and a half-read profile (App.cpp 2151-2156, 3012-3026).
AdmittedIsVerified ==
    Admitted =>
        /\ out.uuid \in Owners
        /\ out.username = out.uuid
        /\ out.accessToken = out.uuid

\* The session kept on disk is that of the account on screen, or none: a failed
\* session is gone before another account signs in, also when the process dies
\* between the two vault calls of SaveRefreshToken (App.cpp 1114-1154, 2210-2228).
SavedSessionIsPlayers ==
    Admitted => vault \in {None, out.uuid}

\* "Saved Microsoft refresh token cleared by sign out" is true: the account comes
\* back only through a new approval on the device-code page, across restarts
\* (App.cpp 3024-3025).
SignOutForgets ==
    Admitted => out.uuid \notin forgotten

\* The app never polls sooner than the service last asked for, whatever interval it sent
\* and however often it said slow_down, as long as the gap in milliseconds is an int;
\* from 2147484 seconds on the app may not wait at all (App.cpp 1980, 2244-2266).
PolitePolling ==
    pc = "poll" /\ svc.gap < MaxSleep => svc.quiet >= svc.gap

\* "Saved Microsoft session expired." is said only of a session the service no
\* longer honours (App.cpp 2041).
ExpiredMeansExpired ==
    [][error' = "session expired" /\ error # error' => token \notin live]_vars

\* What is seen from outside: who is in, whose credentials the launcher has, who has
\* approved the code on the screen.
AccountIn == IF Returned THEN out.uuid ELSE None
AccountHeld == IF Holding THEN token ELSE vault
Approver == IF svc.code \in Accounts THEN svc.code ELSE None
Promise == INSTANCE Membership WITH
    in <- AccountIn, held <- AccountHeld, offer <- Approver, told <- forgotten

\* Seen from outside, the launcher is Membership: between two approvals on the
\* device-code page nobody enters but the one owner whose credentials it already
\* had, one at a time, and a sign out lets go of the player and of the credentials
\* in one step (App.cpp 1114-1154, 2192-2315, 3012-3026).  Needs a Locker that works.
ImplementsMembership == Promise!Spec

\* A sign-in that starts comes to an end: the menu, the game, or the process
\* over.  The device-code loop is left even if the service says slow_down or
\* authorization_pending for ever.
SignInSettles ==
    pc = "load" ~> pc \in {"menu", "launch", "stopped"}
-----------------------------------------------------------------------------
(* Inductive strengthenings of the invariants.                             *)

VerifiedInv ==
    /\ pc = "profile" => token \in Owners
    /\ Returned => /\ out.uuid \in Owners
                   /\ out.username = out.uuid /\ out.accessToken = out.uuid

PoliteInv ==
    /\ pc \in {"sleep", "poll"} /\ svc.gap < MaxSleep => interval \in svc.gap..(svc.gap + 1)
    /\ pc = "poll" /\ svc.gap < MaxSleep => svc.quiet >= svc.gap

\* Without vault faults: what may be on disk at each stage, and that nothing in
\* use was reported signed out.
SessionInv ==
    /\ pc \in {"request", "sleep", "poll", "saveAdd"} => vault = None
    /\ Holding => token \in Accounts \ forgotten /\ vault \in {None, token}
    /\ Returned => out.uuid \notin forgotten /\ vault \in {None, out.uuid}
    /\ forgotten \subseteq Accounts
    /\ vault \notin forgotten

\* Only the two stages that poll have a device code.
CodeInv == svc.code # "none" => pc \in {"sleep", "poll"}
=============================================================================
