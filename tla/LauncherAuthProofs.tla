-------------------------- MODULE LauncherAuthProofs -------------------------
(***************************************************************************)
(* Proofs about LauncherAuth, for any accounts, owners, lifetimes, gaps    *)
(* and lags.                                                               *)
(***************************************************************************)
EXTENDS LauncherAuth, TLAPS

\* Lags are natural numbers: time only passes.
LEMMA LagIsNat == ASSUME NEW lag \in Lags PROVE lag \in Nat
BY TimeAssumption

-----------------------------------------------------------------------------
(* Types.                                                                  *)

SvcType == [code : {"none", "pending", "declined"} \cup Accounts, gap : Nat, quiet : Nat]

\* What is left of an overflow is no negative time either.
LEMMA WrappedType ==
    ASSUME NEW n \in Int
    PROVE  Wrapped(n) \in Nat
<1>1. n % 65536 \in Nat /\ n \div 65536 \in Int
  BY SMT
<1>2. PICK low \in Nat : low = 1000 * (n % 65536)
  BY SMT, <1>1
<1>3. PICK carry \in Nat, rest \in Nat : carry = low \div 65536 /\ rest = low % 65536
  BY SMT
<1>4. PICK sum \in Int : sum = 1000 * (n \div 65536) + carry
  BY SMT, <1>1
<1>5. PICK high \in Nat : high = sum % 65536
  BY SMT
<1>6. PICK milli \in Nat : milli = high * 65536 + rest
  BY SMT
<1>7. milli \div 1000 \in Nat
  BY SMT
<1>8. Wrapped(n) = IF high >= 32768 THEN 0 ELSE milli \div 1000
  BY SMT, <1>2, <1>3, <1>4, <1>5, <1>6 DEF Wrapped
<1> QED  BY <1>7, <1>8

\* A sleep takes no negative time.
LEMMA SleptType ==
    ASSUME NEW n \in Int
    PROVE  Slept(n) \in Nat
<1>1. CASE 0 <= n /\ n <= MaxSleep
  <2>1. n \in Nat
    BY SMT, <1>1
  <2>2. Slept(n) = n
    BY Zenon, <1>1 DEF Slept
  <2> QED  BY <2>1, <2>2
<1>2. CASE ~(0 <= n /\ n <= MaxSleep)
  BY <1>2, WrappedType, Zenon DEF Slept
<1> QED  BY <1>1, <1>2

\* Up to MaxSleep seconds the sleep is as long as it should be (App.cpp 2260).
LEMMA SleptIsWhole ==
    ASSUME NEW n \in Nat, n <= MaxSleep
    PROVE  Slept(n) = n
BY SMT DEF Slept

\* Ending the process leaves every volatile variable with its initial value.
LEMMA EndProcessType ==
    ASSUME TypeOK, EndProcess, vault' \in Maybe, live' \subseteq Accounts,
           forgotten' \subseteq Maybe
    PROVE  TypeOK'
<1>1. NoCode \in [code : {"none", "pending", "declined"} \cup Accounts, gap : Nat, quiet : Nat]
  BY DEF NoCode
<1>2. NoConfig \in [uuid : Maybe, username : Maybe, accessToken : Maybe]
  BY DEF NoConfig, Maybe
<1>3. None \in Maybe /\ 0 \in Nat /\ 0 \in Int /\ "stopped" \in Stages
  BY DEF Maybe, Stages
<1> QED
  BY <1>1, <1>2, <1>3 DEF TypeOK, EndProcess

\* A failed request of BuildMinecraftAuth keeps the types, if it fills the
\* configuration, if at all, with accounts.
LEMMA BuildFailsType ==
    ASSUME TypeOK, BuildFails, UNCHANGED <<vault, live, forgotten>>,
           flow = "saved" => out' \in [uuid : Maybe, username : Maybe, accessToken : Maybe]
    PROVE  TypeOK'
<1>1. CASE flow = "saved"
  BY <1>1 DEF TypeOK, BuildFails, Stages
<1>2. CASE flow # "saved"
  <2>1. EndProcess  BY <1>2 DEF BuildFails
  <2> QED  BY <2>1, EndProcessType DEF TypeOK
<1> QED  BY <1>1, <1>2

\* Returning from ResolveLaunchAuthConfig with a whole configuration.
LEMMA ReturnType ==
    ASSUME TypeOK, UNCHANGED <<svc, vault, live, forgotten>>,
           out' \in [uuid : Maybe, username : Maybe, accessToken : Maybe],
           pc' = "menu", flow' = "saved", token' = None, error' = "none",
           left' = 0, interval' = 0
    PROVE  TypeOK'
<1>1. None \in Maybe /\ 0 \in Nat /\ 0 \in Int /\ "menu" \in Stages
  BY DEF Maybe, Stages
<1> QED
  BY <1>1 DEF TypeOK

\* Every step of the sign-in, the player and the service keeps the types.
LEMMA TypeStep == TypeOK /\ [Next]_vars => TypeOK'
<1> SUFFICES ASSUME TypeOK, [Next]_vars PROVE TypeOK'
  OBVIOUS
<1>1. CASE StartApp
  BY <1>1 DEF StartApp, TypeOK, local, Stages
<1>2. CASE Kill
  BY <1>2, EndProcessType DEF Kill, TypeOK
<1>3. CASE LoadRefreshToken
  BY <1>3 DEF LoadRefreshToken, TypeOK, Stages, Maybe
<1>4. CASE SaveRemoves
  <2>1. vault' \in Maybe /\ pc' \in Stages
    BY <1>4 DEF SaveRemoves, Written, TypeOK, Stages, Maybe
  <2>2. UNCHANGED <<live, local, forgotten>>
    BY <1>4 DEF SaveRemoves
  <2> QED  BY <2>1, <2>2 DEF TypeOK, local
<1>5. CASE SaveAdds
  BY <1>5 DEF SaveAdds, Written, TypeOK, local, Stages, BuildCalls
<1>6. CASE ClearRefreshToken
  BY <1>6 DEF ClearRefreshToken, Written, TypeOK, Stages, Maybe
<1>7. CASE RefreshMicrosoftToken
  BY <1>7 DEF RefreshMicrosoftToken, TypeOK, Stages, BuildCalls
<1>8. CASE Build
  <2>1. ASSUME NEW call, NEW next \in {"xsts", "login", "entitle"}, ExchangeToken(call, next)
        PROVE  TypeOK'
    BY <2>1, BuildFailsType DEF ExchangeToken, TypeOK, local, Stages, BuildCalls
  <2>2. CASE EnsureMinecraftEntitlement
    BY <2>2, BuildFailsType DEF EnsureMinecraftEntitlement, TypeOK, local, Stages, BuildCalls
  <2>3. CASE FetchMinecraftProfile
    <3>1. CASE BuildFails /\ (flow = "saved" => UNCHANGED out)
      BY <2>3, <3>1, BuildFailsType DEF FetchMinecraftProfile, TypeOK
    <3>2. ASSUME NEW id \in {token, None}, NEW name \in {token, None},
                 LET filled == [uuid |-> id, username |-> name, accessToken |-> token] IN
                 IF None \in {id, name}
                   THEN BuildFails /\ (flow = "saved" => out' = filled)
                   ELSE /\ out' = filled
                        /\ pc' = "menu"
                        /\ flow' = "saved" /\ token' = None /\ error' = "none"
                        /\ left' = 0 /\ interval' = 0
                        /\ UNCHANGED svc
          PROVE  TypeOK'
      <4>1. [uuid |-> id, username |-> name, accessToken |-> token]
                \in [uuid : Maybe, username : Maybe, accessToken : Maybe]
        BY DEF TypeOK, Maybe
      <4>2. UNCHANGED <<vault, live, forgotten>>
        BY <2>3 DEF FetchMinecraftProfile
      <4>3. CASE None \in {id, name}
        BY <3>2, <4>1, <4>2, <4>3, BuildFailsType
      <4>4. CASE None \notin {id, name}
        <5>1. /\ out' = [uuid |-> id, username |-> name, accessToken |-> token]
              /\ pc' = "menu" /\ flow' = "saved" /\ token' = None /\ error' = "none"
              /\ left' = 0 /\ interval' = 0 /\ UNCHANGED svc
          BY <3>2, <4>4
        <5> QED  BY <4>1, <4>2, <5>1, ReturnType
      <4> QED  BY <4>3, <4>4
    <3> QED  BY <2>3, <3>1, <3>2 DEF FetchMinecraftProfile
  <2> QED  BY <1>8, <2>1, <2>2, <2>3 DEF Build
<1>9. CASE RequestDeviceCode
  <2>1. CASE EndProcess
    BY <1>9, <2>1, EndProcessType DEF RequestDeviceCode, TypeOK
  <2>2. ASSUME NEW lifetime \in Lifetimes, NEW gap \in Gaps,
               left' = lifetime, interval' = (IF gap > 1 THEN gap ELSE 1),
               svc' = [code |-> "pending", gap |-> IF gap > 0 THEN gap ELSE 0, quiet |-> 0],
               pc' = "sleep", UNCHANGED <<vault, live, flow, token, error, out, forgotten>>
        PROVE  TypeOK'
    <3>1. lifetime \in Int /\ gap \in Int
      BY TimeAssumption, Zenon DEF IsInt32
    <3>2. svc' \in SvcType /\ left' \in Int /\ interval' \in Int
      BY <2>2, <3>1 DEF SvcType
    <3> QED  BY <2>2, <3>2 DEF TypeOK, Stages, SvcType
  <2> QED  BY <1>9, <2>1, <2>2 DEF RequestDeviceCode
<1>10. CASE SleepWithAuthUi
  <2> PICK lag \in Lags :
        /\ left' = left - (IF Slept(interval) + lag > 0 THEN Slept(interval) + lag ELSE 1)
        /\ svc' = [svc EXCEPT !.quiet = @ + (Slept(interval) + lag)]
    BY <1>10 DEF SleepWithAuthUi
  <2>1. lag \in Nat /\ left \in Int /\ Slept(interval) \in Nat /\ svc \in SvcType
    BY LagIsNat, SleptType DEF TypeOK, SvcType
  <2>2. svc.quiet \in Nat
    BY <2>1 DEF SvcType
  <2>3. svc.quiet + (Slept(interval) + lag) \in Nat /\ left' \in Int
    BY <2>1, <2>2
  <2>4. svc' \in SvcType
    BY <2>1, <2>3 DEF SvcType
  <2> QED  BY <1>10, <2>3, <2>4 DEF SleepWithAuthUi, TypeOK, Stages, SvcType
<1>11. CASE DeviceCodeExpires \/ PollFailed
  BY <1>11, EndProcessType DEF DeviceCodeExpires, PollFailed, TypeOK
<1>12. CASE PollPending
  <2>1. svc \in SvcType /\ interval \in Int
    BY DEF TypeOK, SvcType
  <2>2. svc.gap + 5 \in Nat /\ Lengthened(interval) \in Int
    BY SMT, <2>1 DEF SvcType, Lengthened, MaxInt
  <2>3. svc' \in SvcType /\ interval' \in Int
    <3>1. CASE svc' = [svc EXCEPT !.quiet = 0] /\ UNCHANGED interval
      BY <2>1, <3>1 DEF SvcType
    <3>2. CASE svc' = [svc EXCEPT !.quiet = 0, !.gap = @ + 5] /\ interval' = Lengthened(interval)
      <4>1. [svc EXCEPT !.quiet = 0] \in SvcType /\ [svc EXCEPT !.quiet = 0].gap = svc.gap
        BY <2>1 DEF SvcType
      <4> QED  BY <2>1, <2>2, <3>2, <4>1 DEF SvcType
    <3> QED  BY <1>12, <3>1, <3>2 DEF PollPending
  <2>4. pc' \in Stages /\ UNCHANGED <<vault, live, flow, token, error, left, out, forgotten>>
    BY <1>12 DEF PollPending, Stages
  <2> QED  BY <2>3, <2>4 DEF TypeOK, SvcType
<1>13. CASE PollGranted
  <2>1. NoCode \in [code : {"none", "pending", "declined"} \cup Accounts, gap : Nat, quiet : Nat]
    BY DEF NoCode
  <2>2. pc' \in Stages /\ token' \in Maybe /\ live' \subseteq Accounts /\ forgotten' \subseteq Maybe
    BY <1>13 DEF PollGranted, TypeOK, Stages, BuildCalls, Maybe
  <2>3. svc' = NoCode /\ UNCHANGED <<vault, flow, error, left, interval, out>>
    BY <1>13 DEF PollGranted
  <2> QED  BY <2>1, <2>2, <2>3 DEF TypeOK
<1>14. CASE MenuPlay \/ MenuSignOut
  BY <1>14 DEF MenuPlay, MenuSignOut, TypeOK, local, Stages
<1>15. CASE SignOut
  <2>1. vault' \in Maybe
    BY <1>15 DEF SignOut, Written, TypeOK, Maybe
  <2> QED  BY <1>15, <2>1 DEF SignOut, TypeOK, local, Stages, Maybe
<1>16. ASSUME NEW reply \in Accounts \cup {"declined"}, Answer(reply) PROVE TypeOK'
  BY <1>16 DEF Answer, TypeOK
<1>17. ASSUME NEW a \in Accounts, SessionEnds(a) PROVE TypeOK'
  BY <1>17 DEF SessionEnds, TypeOK, local
<1>18. CASE UNCHANGED vars
  BY <1>18 DEF vars, TypeOK
<1> QED
  BY <1>1, <1>2, <1>3, <1>4, <1>5, <1>6, <1>7, <1>8, <1>9, <1>10, <1>11, <1>12, <1>13,
     <1>14, <1>15, <1>16, <1>17, <1>18 DEF Next, Resolve

\* The variables have their types before the app is started.
LEMMA InitType == Init => TypeOK
<1>1. NoCode \in SvcType
  BY DEF NoCode, SvcType
<1>2. NoConfig \in [uuid : Maybe, username : Maybe, accessToken : Maybe]
  BY DEF NoConfig, Maybe
<1> QED
  BY <1>1, <1>2 DEF Init, TypeOK, SvcType, Maybe, Stages

\* Every variable keeps its type.
THEOREM TypeCorrect == Spec => []TypeOK
BY InitType, TypeStep, PTL DEF Spec

-----------------------------------------------------------------------------
(* Only verified accounts are admitted.                                    *)

\* A step that ends BuildMinecraftAuth without success leaves the menu closed.
LEMMA BuildFailsVerified ==
    ASSUME BuildFails PROVE pc' \in {"clear", "stopped"}
BY DEF BuildFails, EndProcess

\* Ownership is asked for the token in use before its profile is read, and a
\* returned configuration is never changed field by field.
LEMMA VerifiedStep == TypeOK /\ VerifiedInv /\ [Next]_vars => VerifiedInv'
<1> SUFFICES ASSUME TypeOK, VerifiedInv, [Next]_vars PROVE VerifiedInv'
  OBVIOUS
<1> USE DEF VerifiedInv, Returned
<1>1. CASE StartApp
  BY <1>1 DEF StartApp
<1>2. CASE Kill \/ DeviceCodeExpires \/ PollFailed
  BY <1>2 DEF Kill, DeviceCodeExpires, PollFailed, EndProcess
<1>3. CASE LoadRefreshToken \/ ClearRefreshToken \/ RefreshMicrosoftToken \/ PollGranted
  BY <1>3 DEF LoadRefreshToken, ClearRefreshToken, RefreshMicrosoftToken, PollGranted
<1>4. CASE SaveRemoves \/ SaveAdds \/ SignOut
  BY <1>4 DEF SaveRemoves, SaveAdds, SignOut
<1>5. CASE RequestDeviceCode \/ SleepWithAuthUi \/ PollPending
  BY <1>5 DEF RequestDeviceCode, EndProcess, SleepWithAuthUi, PollPending
<1>6. CASE Build
  <2>1. ASSUME NEW call, NEW next \in {"xsts", "login", "entitle"}, ExchangeToken(call, next)
        PROVE  VerifiedInv'
    BY <2>1, BuildFailsVerified DEF ExchangeToken
  <2>2. CASE EnsureMinecraftEntitlement
    BY <2>2, BuildFailsVerified DEF EnsureMinecraftEntitlement, local
  <2>3. CASE FetchMinecraftProfile
    <3>1. CASE pc' \in {"clear", "stopped"}
      BY <3>1
    <3>2. CASE pc' \notin {"clear", "stopped"}
      <4>1. PICK id \in {token, None}, name \in {token, None} :
              /\ None \notin {id, name}
              /\ out' = [uuid |-> id, username |-> name, accessToken |-> token]
              /\ pc' = "menu"
        BY <2>3, <3>2, BuildFailsVerified DEF FetchMinecraftProfile
      <4>2. id = token /\ name = token /\ token \in Owners
        BY <2>3, <4>1 DEF FetchMinecraftProfile
      <4> QED  BY <4>1, <4>2
    <3> QED  BY <3>1, <3>2
  <2> QED  BY <1>6, <2>1, <2>2, <2>3 DEF Build
<1>7. CASE MenuPlay \/ MenuSignOut
  BY <1>7 DEF MenuPlay, MenuSignOut, local
<1>8. ASSUME NEW reply \in Accounts \cup {"declined"}, Answer(reply) PROVE VerifiedInv'
  BY <1>8 DEF Answer
<1>9. ASSUME NEW a \in Accounts, SessionEnds(a) PROVE VerifiedInv'
  BY <1>9 DEF SessionEnds, local
<1>10. CASE UNCHANGED vars
  BY <1>10 DEF vars
<1> QED
  BY <1>1, <1>2, <1>3, <1>4, <1>5, <1>6, <1>7, <1>8, <1>9, <1>10 DEF Next, Resolve

\* The strengthening for AdmittedIsVerified is an invariant.
LEMMA VerifiedCorrect == Spec => []VerifiedInv
<1>1. Init => VerifiedInv
  BY DEF Init, VerifiedInv, Returned
<1> QED
  BY <1>1, VerifiedStep, TypeCorrect, PTL DEF Spec

\* The menu and the game are reached by owners only, with a configuration of one
\* account, also when the Credential Locker fails.
THEOREM AdmissionCorrect == Spec => []AdmittedIsVerified
<1>1. VerifiedInv => AdmittedIsVerified
  BY DEF VerifiedInv, AdmittedIsVerified, Admitted, Returned
<1> QED
  BY <1>1, VerifiedCorrect, PTL
-----------------------------------------------------------------------------
(* The app polls no sooner than the service allows.                        *)

\* The interval the app sleeps is at least the gap the service keeps, also after a
\* slow_down, and a sleep is waited out.
LEMMA PoliteStep == TypeOK /\ PoliteInv /\ [Next]_vars => PoliteInv'
<1> SUFFICES ASSUME TypeOK, PoliteInv, [Next]_vars PROVE PoliteInv'
  OBVIOUS
<1>1. CASE pc' \notin {"sleep", "poll"}
  BY <1>1 DEF PoliteInv
<1>2. CASE RequestDeviceCode
  <2>1. CASE EndProcess
    BY <2>1 DEF EndProcess, PoliteInv
  <2>2. ASSUME NEW gap \in Gaps, interval' = (IF gap > 1 THEN gap ELSE 1),
               svc' = [code |-> "pending", gap |-> IF gap > 0 THEN gap ELSE 0, quiet |-> 0], pc' = "sleep"
        PROVE  PoliteInv'
    <3>1. gap \in Int
      BY TimeAssumption, Zenon DEF IsInt32
    <3>2. svc'.gap = IF gap > 0 THEN gap ELSE 0
      BY <2>2
    <3> QED  BY <2>2, <3>1, <3>2 DEF PoliteInv
  <2> QED  BY <1>2, <2>1, <2>2 DEF RequestDeviceCode
<1>3. CASE SleepWithAuthUi
  <2> PICK lag \in Lags : svc' = [svc EXCEPT !.quiet = @ + (Slept(interval) + lag)]
    BY <1>3 DEF SleepWithAuthUi
  <2>1. lag \in Nat /\ interval \in Int /\ Slept(interval) \in Nat /\ svc \in SvcType
    BY LagIsNat, SleptType DEF TypeOK, SvcType
  <2>2. svc'.gap = svc.gap /\ svc'.quiet = svc.quiet + (Slept(interval) + lag)
        /\ svc.quiet \in Nat /\ svc.gap \in Nat
    BY <2>1 DEF SvcType
  <2>3. interval' = interval /\ pc' = "poll"
        /\ (svc.gap < MaxSleep => interval \in svc.gap..(svc.gap + 1))
    BY <1>3 DEF SleepWithAuthUi, PoliteInv
  <2>4. svc.gap < MaxSleep => Slept(interval) >= svc.gap
    <3>1. SUFFICES ASSUME svc.gap < MaxSleep PROVE Slept(interval) >= svc.gap
      OBVIOUS
    <3>2. interval \in Nat /\ interval <= MaxSleep /\ interval >= svc.gap
      BY SMT, <2>1, <2>2, <2>3, <3>1 DEF MaxSleep
    <3> QED  BY <3>2, SleptIsWhole
  <2>5. svc.gap < MaxSleep => svc'.quiet >= svc.gap
    BY <2>1, <2>2, <2>4
  <2> QED  BY <2>2, <2>3, <2>5 DEF PoliteInv
<1>4. CASE PollPending
  <2>1. /\ svc \in SvcType /\ interval \in Int /\ svc.gap \in Nat
        /\ svc.gap < MaxSleep => interval \in svc.gap..(svc.gap + 1)
    BY <1>4 DEF TypeOK, SvcType, PollPending, PoliteInv
  <2>2. CASE svc' = [svc EXCEPT !.quiet = 0] /\ UNCHANGED interval
    BY <1>4, <2>1, <2>2 DEF SvcType, PollPending, PoliteInv
  <2>3. CASE svc' = [svc EXCEPT !.quiet = 0, !.gap = @ + 5] /\ interval' = Lengthened(interval)
    <3>1. svc'.gap = svc.gap + 5
      BY <2>1, <2>3 DEF SvcType
    <3>2. svc'.gap < MaxSleep => interval' \in svc'.gap..(svc'.gap + 1)
      BY SMT, <2>1, <2>3, <3>1 DEF Lengthened, MaxSleep, MaxInt
    <3> QED  BY <1>4, <2>1, <3>1, <3>2 DEF PollPending, PoliteInv
  <2> QED  BY <1>4, <2>2, <2>3 DEF PollPending
<1>5. ASSUME NEW reply \in Accounts \cup {"declined"}, Answer(reply) PROVE PoliteInv'
  <2>1. svc'.gap = svc.gap /\ svc'.quiet = svc.quiet
    BY <1>5 DEF Answer, TypeOK
  <2> QED  BY <1>5, <2>1 DEF Answer, PoliteInv
<1>6. ASSUME NEW a \in Accounts, SessionEnds(a) PROVE PoliteInv'
  BY <1>6 DEF SessionEnds, local, PoliteInv
<1>7. CASE UNCHANGED vars
  BY <1>7 DEF vars, PoliteInv
<1>8. CASE StartApp \/ Kill \/ DeviceCodeExpires \/ PollFailed \/ LoadRefreshToken
           \/ SaveRemoves \/ SaveAdds \/ ClearRefreshToken \/ RefreshMicrosoftToken
           \/ PollGranted \/ MenuPlay \/ MenuSignOut \/ SignOut
  BY <1>1, <1>8 DEF StartApp, Kill, DeviceCodeExpires, PollFailed, EndProcess,
     LoadRefreshToken, SaveRemoves, SaveAdds, ClearRefreshToken, RefreshMicrosoftToken,
     PollGranted, MenuPlay, MenuSignOut, SignOut
<1>9. CASE Build
  <2>1. ASSUME NEW call, NEW next \in {"xsts", "login", "entitle"}, ExchangeToken(call, next)
        PROVE  PoliteInv'
    BY <1>1, <2>1, BuildFailsVerified DEF ExchangeToken
  <2>2. CASE EnsureMinecraftEntitlement \/ FetchMinecraftProfile
    BY <1>1, <2>2, BuildFailsVerified DEF EnsureMinecraftEntitlement, FetchMinecraftProfile
  <2> QED  BY <1>9, <2>1, <2>2 DEF Build
<1> QED
  BY <1>2, <1>3, <1>4, <1>5, <1>6, <1>7, <1>8, <1>9 DEF Next, Resolve

\* For any intervals of 32 bits and any number of slow_downs, the device-code loop never
\* polls sooner than the service last asked for, as long as that gap is below 2147483
\* seconds, so that its milliseconds fit (App.cpp 1980, 2244-2266).
THEOREM PollingCorrect == Spec => []PolitePolling
<1>1. Init => PoliteInv
  BY DEF Init, NoCode, PoliteInv
<1>2. PoliteInv => PolitePolling
  BY DEF PoliteInv, PolitePolling
<1> QED
  BY <1>1, <1>2, PoliteStep, TypeCorrect, PTL DEF Spec
-----------------------------------------------------------------------------
(* The saved session, when the Credential Locker does what it is asked.    *)

\* A failed build keeps the vault and drops what it was holding.
LEMMA BuildFailsSession ==
    ASSUME SessionInv, BuildFails, UNCHANGED <<vault, forgotten>>
    PROVE  SessionInv'
<1>1. pc' \in {"clear", "stopped"}
  BY BuildFailsVerified
<1> QED
  BY <1>1 DEF SessionInv, Holding, Returned, BuildCalls

\* With a vault that does not refuse, each stage finds on disk what SessionInv says.
LEMMA SessionStep ==
    ASSUME ~VaultFaults
    PROVE  TypeOK /\ VerifiedInv /\ SessionInv /\ [Next]_vars => SessionInv'
<1> SUFFICES ASSUME TypeOK, VerifiedInv, SessionInv, [Next]_vars PROVE SessionInv'
  OBVIOUS
<1>1. None \notin Accounts
  BY AccountsAssumption
<1>2. CASE StartApp
  BY <1>2 DEF StartApp, SessionInv, Holding, Returned, BuildCalls
<1>3. CASE Kill \/ DeviceCodeExpires \/ PollFailed
  BY <1>3 DEF Kill, DeviceCodeExpires, PollFailed, EndProcess, SessionInv, Holding, Returned,
     BuildCalls
<1>4. CASE LoadRefreshToken
  <2>1. token' = vault
    BY <1>4 DEF LoadRefreshToken
  <2>2. CASE vault = None
    BY <1>4, <2>1, <2>2 DEF LoadRefreshToken, SessionInv, Holding, Returned, BuildCalls
  <2>3. CASE vault # None
    <3>1. vault \in Accounts
      BY <2>3 DEF TypeOK, Maybe
    <3> QED
      BY <1>4, <2>1, <2>3, <3>1 DEF LoadRefreshToken, SessionInv, Holding, Returned, BuildCalls
  <2> QED  BY <2>2, <2>3
<1>5. CASE SaveRemoves
  BY <1>1, <1>5 DEF SaveRemoves, Written, local, SessionInv, Holding, Returned, BuildCalls
<1>6. CASE SaveAdds
  BY <1>6 DEF SaveAdds, Written, local, SessionInv, Holding, Returned, BuildCalls
<1>7. CASE ClearRefreshToken
  BY <1>1, <1>7 DEF ClearRefreshToken, Written, SessionInv, Holding, Returned, BuildCalls
<1>8. CASE RefreshMicrosoftToken
  BY <1>8 DEF RefreshMicrosoftToken, SessionInv, Holding, Returned, BuildCalls
<1>9. CASE Build
  <2>1. ASSUME NEW call \in {"xbl", "xsts", "login"}, NEW next \in {"xsts", "login", "entitle"},
               ExchangeToken(call, next)
        PROVE  SessionInv'
    <3>1. CASE pc' = next /\ UNCHANGED local
      BY <2>1, <3>1 DEF ExchangeToken, local, SessionInv, Holding, Returned, BuildCalls
    <3> QED  BY <2>1, <3>1, BuildFailsSession DEF ExchangeToken
  <2>2. CASE EnsureMinecraftEntitlement
    <3>1. CASE pc' = "profile" /\ UNCHANGED local
      BY <2>2, <3>1 DEF EnsureMinecraftEntitlement, local, SessionInv, Holding, Returned,
         BuildCalls
    <3> QED  BY <2>2, <3>1, BuildFailsSession DEF EnsureMinecraftEntitlement
  <2>3. CASE FetchMinecraftProfile
    <3>1. CASE BuildFails
      BY <2>3, <3>1, BuildFailsSession DEF FetchMinecraftProfile
    <3>2. CASE ~BuildFails
      <4>1. PICK id \in {token, None}, name \in {token, None} :
              /\ None \notin {id, name}
              /\ out' = [uuid |-> id, username |-> name, accessToken |-> token]
              /\ pc' = "menu"
        BY <2>3, <3>2 DEF FetchMinecraftProfile
      <4>2. out'.uuid = token /\ pc = "profile" /\ UNCHANGED <<vault, forgotten>>
        BY <2>3, <4>1 DEF FetchMinecraftProfile
      <4> QED
        BY <4>1, <4>2 DEF SessionInv, Holding, Returned, BuildCalls
    <3> QED  BY <3>1, <3>2
  <2> QED  BY <1>9, <2>1, <2>2, <2>3 DEF Build
<1>10. CASE RequestDeviceCode
  BY <1>10 DEF RequestDeviceCode, EndProcess, SessionInv, Holding, Returned, BuildCalls
<1>11. CASE SleepWithAuthUi \/ PollPending
  BY <1>11 DEF SleepWithAuthUi, PollPending, SessionInv, Holding, Returned, BuildCalls
<1>12. CASE PollGranted
  BY <1>12 DEF PollGranted, SessionInv, Holding, Returned, BuildCalls
<1>13. CASE MenuPlay \/ MenuSignOut
  BY <1>13 DEF MenuPlay, MenuSignOut, local, SessionInv, Holding, Returned, BuildCalls
<1>14. CASE SignOut
  <2>1. out.uuid \in Accounts
    BY <1>14, AccountsAssumption DEF SignOut, VerifiedInv, Returned
  <2> QED
    BY <1>1, <1>14, <2>1 DEF SignOut, Written, local, SessionInv, Holding, Returned, BuildCalls
<1>15. ASSUME NEW reply \in Accounts \cup {"declined"}, Answer(reply) PROVE SessionInv'
  BY <1>15 DEF Answer, SessionInv, Holding, Returned
<1>16. ASSUME NEW a \in Accounts, SessionEnds(a) PROVE SessionInv'
  BY <1>16 DEF SessionEnds, local, SessionInv, Holding, Returned
<1>17. CASE UNCHANGED vars
  BY <1>17 DEF vars, SessionInv, Holding, Returned
<1> QED
  BY <1>2, <1>3, <1>4, <1>5, <1>6, <1>7, <1>8, <1>9, <1>10, <1>11, <1>12, <1>13, <1>14,
     <1>15, <1>16, <1>17 DEF Next, Resolve

\* The strengthening for the two properties of the saved session is an invariant.
LEMMA SessionCorrect == ASSUME ~VaultFaults PROVE Spec => []SessionInv
<1>1. Init => SessionInv
  BY AccountsAssumption DEF Init, SessionInv, Holding, Returned, BuildCalls
<1>2. TypeOK /\ VerifiedInv /\ SessionInv /\ [Next]_vars => SessionInv'
  BY SessionStep
<1> QED
  BY <1>1, <1>2, TypeCorrect, VerifiedCorrect, PTL DEF Spec

\* The session on disk is the signed-in account's or none.
THEOREM SavedSessionCorrect == ASSUME ~VaultFaults PROVE Spec => []SavedSessionIsPlayers
<1>1. SessionInv => SavedSessionIsPlayers
  BY DEF SessionInv, SavedSessionIsPlayers, Admitted, Returned
<1>2. Spec => []SessionInv
  BY SessionCorrect
<1> QED
  BY <1>1, <1>2, PTL

\* An account that was signed out comes back only through a new approval.
THEOREM SignOutCorrect == ASSUME ~VaultFaults PROVE Spec => []SignOutForgets
<1>1. SessionInv => SignOutForgets
  BY DEF SessionInv, SignOutForgets, Admitted, Returned
<1>2. Spec => []SessionInv
  BY SessionCorrect
<1> QED
  BY <1>1, <1>2, PTL

-----------------------------------------------------------------------------
(* Membership.  With a Credential Locker that does what it is asked,       *)
(* LauncherAuth implements it: for any accounts, owners, lifetimes and     *)
(* gaps every step of the launcher, the player and the service is a step   *)
(* of Membership or changes nothing there.                                 *)

\* What a refined step may rely on.
ViewInv == TypeOK /\ VerifiedInv /\ SessionInv /\ CodeInv

-----------------------------------------------------------------------------
(* Device codes.                                                           *)

\* A device code is dropped by every step that leaves the two stages.
LEMMA CodeStep == TypeOK /\ CodeInv /\ [Next]_vars => CodeInv'
<1> SUFFICES ASSUME TypeOK, CodeInv, [Next]_vars PROVE CodeInv'
  OBVIOUS
<1> USE DEF CodeInv
<1>1. ASSUME svc' = NoCode PROVE CodeInv'
  BY <1>1 DEF NoCode
<1>2. ASSUME UNCHANGED svc, pc \notin {"sleep", "poll"} PROVE CodeInv'
  BY <1>2
<1>3. ASSUME EndProcess PROVE CodeInv'
  BY <1>1, <1>3 DEF EndProcess
<1>4. ASSUME BuildFails, pc \in BuildCalls PROVE CodeInv'
  BY <1>2, <1>3, <1>4 DEF BuildFails, BuildCalls
<1>5. CASE Kill \/ DeviceCodeExpires \/ PollFailed \/ PollGranted
  BY <1>1, <1>3, <1>5 DEF Kill, DeviceCodeExpires, PollFailed, PollGranted
<1>6. CASE StartApp \/ LoadRefreshToken \/ SaveRemoves \/ SaveAdds \/ ClearRefreshToken
           \/ RefreshMicrosoftToken \/ MenuPlay \/ MenuSignOut \/ SignOut
  BY <1>2, <1>6 DEF StartApp, LoadRefreshToken, SaveRemoves, SaveAdds, ClearRefreshToken,
     RefreshMicrosoftToken, MenuPlay, MenuSignOut, SignOut, local
<1>7. CASE Build
  <2>1. ASSUME NEW call \in BuildCalls, NEW next, ExchangeToken(call, next) PROVE CodeInv'
    BY <1>2, <1>4, <2>1 DEF ExchangeToken, local, BuildCalls
  <2>2. CASE EnsureMinecraftEntitlement
    BY <1>2, <1>4, <2>2 DEF EnsureMinecraftEntitlement, local, BuildCalls
  <2>3. CASE FetchMinecraftProfile
    BY <1>2, <1>4, <2>3 DEF FetchMinecraftProfile, BuildCalls
  <2> QED  BY <1>7, <2>1, <2>2, <2>3 DEF Build, BuildCalls
<1>8. CASE RequestDeviceCode
  BY <1>3, <1>8 DEF RequestDeviceCode
<1>9. CASE SleepWithAuthUi \/ PollPending
  BY <1>9 DEF SleepWithAuthUi, PollPending
<1>10. ASSUME NEW reply \in Accounts \cup {"declined"}, Answer(reply) PROVE CodeInv'
  BY <1>10 DEF Answer
<1>11. ASSUME NEW a \in Accounts, SessionEnds(a) PROVE CodeInv'
  BY <1>11 DEF SessionEnds, local
<1>12. CASE UNCHANGED vars
  BY <1>12 DEF vars
<1> QED
  BY <1>5, <1>6, <1>7, <1>8, <1>9, <1>10, <1>11, <1>12 DEF Next, Resolve

\* The launcher has what a refined step relies on.
LEMMA ViewCorrect == ASSUME ~VaultFaults PROVE Spec => []ViewInv
<1>1. Init => CodeInv
  BY DEF Init, CodeInv, NoCode
<1>2. Spec => []SessionInv
  BY SessionCorrect
<1> QED
  BY <1>1, <1>2, CodeStep, TypeCorrect, VerifiedCorrect, PTL DEF Spec, ViewInv

-----------------------------------------------------------------------------
(* Steps of the launcher as steps of Membership.                           *)

\* Without a device code nobody approves one.
LEMMA NoApprover == ASSUME svc.code \in {"none", "pending", "declined"} PROVE Approver = None
BY CodeAssumption DEF Approver

\* A stage without a device code has no approver.
LEMMA NoApproverElsewhere ==
    ASSUME ViewInv, pc \notin {"sleep", "poll"} PROVE svc.code = "none" /\ Approver = None
BY NoApprover DEF ViewInv, CodeInv

\* What the launcher has of an account outside of the menu can only get less.
LEMMA StageForgets ==
    ASSUME ViewInv, ~Returned, ~Returned', UNCHANGED forgotten,
           AccountHeld' \in {AccountHeld, None}, Approver' \in {Approver, None}
    PROVE  Promise!Forget
BY DEF Promise!Forget, AccountIn

\* What a call works on is what is on disk, if something is.
LEMMA HeldInVault == ASSUME ViewInv, UNCHANGED vault, ~Holding' PROVE AccountHeld' \in {AccountHeld, None}
BY DEF ViewInv, SessionInv, AccountHeld

\* The end of the process leaves the disk.
LEMMA EndRefines ==
    ASSUME ViewInv, EndProcess, UNCHANGED <<vault, forgotten>>
    PROVE  Promise!Leave \/ Promise!Forget
<1>1. ~Returned' /\ ~Holding' /\ Approver' = None
  BY CodeAssumption DEF EndProcess, Returned, Holding, BuildCalls, NoCode, Approver
<1>2. CASE Returned
  <2>1. out.uuid # None
    BY <1>2, AccountsAssumption DEF ViewInv, VerifiedInv
  <2>2. Approver = None
    BY <1>2, NoApproverElsewhere DEF Returned
  <2>3. AccountHeld' = AccountHeld
    BY <1>1, <1>2 DEF AccountHeld, Returned, Holding, BuildCalls
  <2> QED  BY <1>1, <1>2, <2>1, <2>2, <2>3 DEF Promise!Leave, AccountIn
<1>3. CASE ~Returned
  BY <1>1, <1>3, HeldInVault, StageForgets
<1> QED  BY <1>2, <1>3

\* A failed build ends the process or goes on without what it held.
LEMMA BuildFailsRefines ==
    ASSUME ViewInv, BuildFails, pc \in BuildCalls, UNCHANGED <<vault, forgotten>>
    PROVE  Promise!Leave \/ Promise!Forget
<1>1. CASE EndProcess
  BY <1>1, EndRefines
<1>2. CASE pc' = "clear" /\ UNCHANGED svc
  <2>1. ~Returned /\ ~Returned' /\ ~Holding' /\ UNCHANGED Approver
    BY <1>2 DEF Returned, Holding, BuildCalls, Approver
  <2> QED  BY <2>1, HeldInVault, StageForgets
<1> QED  BY <1>1, <1>2 DEF BuildFails

\* Every step of the launcher, the player and the service is one of Membership, or none.
LEMMA RefinementStep ==
    ASSUME ~VaultFaults
    PROVE  ViewInv /\ [Next]_vars => [Promise!Next]_Promise!vars
<1> SUFFICES ASSUME ViewInv, [Next]_vars PROVE [Promise!Next]_Promise!vars
  OBVIOUS
<1>a. ASSUME Promise!Leave \/ Promise!Forget PROVE Promise!Next
  BY <1>a DEF Promise!Next
<1>b. ASSUME UNCHANGED <<AccountIn, AccountHeld, Approver, forgotten>> PROVE UNCHANGED Promise!vars
  BY <1>b DEF Promise!vars
<1>1. CASE StartApp
  BY <1>1, <1>b DEF StartApp, local, AccountIn, AccountHeld, Approver, Returned, Holding, BuildCalls
<1>2. CASE Kill \/ DeviceCodeExpires \/ PollFailed
  BY <1>2, <1>a, EndRefines DEF Kill, DeviceCodeExpires, PollFailed
<1>3. CASE LoadRefreshToken
  <2>1. UNCHANGED AccountHeld
    BY <1>3 DEF LoadRefreshToken, AccountHeld, Holding, BuildCalls
  <2> QED
    BY <1>3, <2>1, <1>b DEF LoadRefreshToken, AccountIn, Approver, Returned
<1>4. CASE SaveRemoves \/ SaveAdds
  BY <1>4, <1>b
  DEF SaveRemoves, SaveAdds, local, AccountIn, AccountHeld, Approver, Returned, Holding, BuildCalls
<1>5. CASE ClearRefreshToken
  <2>1. ~Returned /\ ~Returned' /\ UNCHANGED <<Approver, forgotten>>
    BY <1>5 DEF ClearRefreshToken, Returned, Approver
  <2>2. AccountHeld' = None
    BY <1>5 DEF ClearRefreshToken, Written, AccountHeld, Holding, BuildCalls
  <2> QED  BY <1>a, <2>1, <2>2, StageForgets
<1>6. CASE RefreshMicrosoftToken
  <2>1. ~Returned /\ ~Returned' /\ UNCHANGED <<Approver, forgotten, vault>>
    BY <1>6 DEF RefreshMicrosoftToken, Returned, Approver, BuildCalls
  <2>2. CASE pc' \in {"saveRemove", "xbl"}
    <3>1. UNCHANGED AccountHeld
      BY <1>6, <2>2 DEF RefreshMicrosoftToken, AccountHeld, Holding, BuildCalls
    <3> QED  BY <2>1, <3>1, <1>b DEF AccountIn
  <2>3. CASE pc' = "clear"
    <3>1. ~Holding'  BY <2>3 DEF Holding, BuildCalls
    <3> QED  BY <1>a, <2>1, <3>1, HeldInVault, StageForgets
  <2> QED  BY <1>6, <2>2, <2>3 DEF RefreshMicrosoftToken
<1>7. CASE Build
  <2>1. ASSUME NEW call \in {"xbl", "xsts", "login"}, NEW next \in {"xsts", "login", "entitle"},
               ExchangeToken(call, next)
        PROVE  [Promise!Next]_Promise!vars
    <3>1. CASE pc' = next /\ UNCHANGED local
      BY <2>1, <3>1, <1>b
      DEF ExchangeToken, local, AccountIn, AccountHeld, Approver, Returned, Holding, BuildCalls
    <3>2. CASE BuildFails
      BY <2>1, <3>2, <1>a, BuildFailsRefines DEF ExchangeToken, BuildCalls
    <3> QED  BY <2>1, <3>1, <3>2 DEF ExchangeToken
  <2>2. CASE EnsureMinecraftEntitlement
    <3>1. CASE pc' = "profile" /\ UNCHANGED local
      BY <2>2, <3>1, <1>b DEF EnsureMinecraftEntitlement, local, AccountIn, AccountHeld,
         Approver, Returned, Holding, BuildCalls
    <3>2. CASE BuildFails
      BY <2>2, <3>2, <1>a, BuildFailsRefines DEF EnsureMinecraftEntitlement, BuildCalls
    <3> QED  BY <2>2, <3>1, <3>2 DEF EnsureMinecraftEntitlement
  <2>3. CASE FetchMinecraftProfile
    <3>1. pc = "profile" /\ UNCHANGED <<vault, forgotten>>
      BY <2>3 DEF FetchMinecraftProfile
    <3>2. CASE BuildFails
      BY <3>1, <3>2, <1>a, BuildFailsRefines DEF BuildCalls
    <3>3. CASE ~BuildFails
      <4>1. PICK id \in {token, None}, name \in {token, None} :
              /\ None \notin {id, name}
              /\ out' = [uuid |-> id, username |-> name, accessToken |-> token]
              /\ pc' = "menu" /\ UNCHANGED svc
        BY <2>3, <3>3 DEF FetchMinecraftProfile
      <4>2. AccountIn = None /\ AccountHeld = token /\ UNCHANGED Approver
        BY <3>1, <4>1 DEF AccountIn, AccountHeld, Returned, Holding, BuildCalls, Approver
      <4>3. AccountIn' = token /\ AccountHeld' = vault
        BY <3>1, <4>1 DEF AccountIn, AccountHeld, Returned, Holding, BuildCalls
      <4>4. token \in Owners /\ token \in Accounts /\ vault \in {None, token}
        BY <3>1 DEF ViewInv, VerifiedInv, SessionInv, Holding, BuildCalls
      <4>5. Promise!Enter(token)
        BY <3>1, <4>2, <4>3, <4>4 DEF Promise!Enter
      <4> QED  BY <4>4, <4>5 DEF Promise!Next
    <3> QED  BY <3>2, <3>3
  <2> QED  BY <1>7, <2>1, <2>2, <2>3 DEF Build
<1>8. CASE RequestDeviceCode
  <2>1. CASE EndProcess
    BY <1>8, <2>1, <1>a, EndRefines DEF RequestDeviceCode
  <2>2. CASE pc' = "sleep" /\ svc'.code = "pending"
    <3>1. Approver = None /\ Approver' = None
      <4>1. Approver = None
        BY <1>8, NoApproverElsewhere DEF RequestDeviceCode
      <4>2. svc'.code \notin Accounts
        BY <2>2, CodeAssumption
      <4> QED  BY <4>1, <4>2 DEF Approver
    <3> QED
      BY <1>8, <2>2, <3>1, <1>b
      DEF RequestDeviceCode, AccountIn, AccountHeld, Returned, Holding, BuildCalls
  <2> QED  BY <1>8, <2>1, <2>2 DEF RequestDeviceCode
<1>9. CASE SleepWithAuthUi \/ PollPending
  <2>1. pc \in {"sleep", "poll"} /\ pc' \in {"sleep", "poll"} /\ UNCHANGED <<vault, forgotten>>
    BY <1>9 DEF SleepWithAuthUi, PollPending
  <2>2. svc'.code = svc.code
    BY <1>9 DEF SleepWithAuthUi, PollPending, ViewInv, TypeOK
  <2> QED
    BY <2>1, <2>2, <1>b DEF AccountIn, AccountHeld, Approver, Returned, Holding, BuildCalls
<1>10. CASE PollGranted
  <2> DEFINE a == svc.code
  <2>1. a \in Accounts /\ Approver = a
    BY <1>10 DEF PollGranted, Approver
  <2>2. AccountIn = None /\ AccountIn' = None
    BY <1>10 DEF PollGranted, AccountIn, Returned
  <2>3. AccountHeld = None
    BY <1>10 DEF PollGranted, AccountHeld, Holding, BuildCalls, ViewInv, SessionInv
  <2>4. AccountHeld' = a /\ forgotten' = forgotten \ {a}
    BY <1>10 DEF PollGranted, AccountHeld, Holding, BuildCalls
  <2>5. Approver' = None
    BY <1>10, CodeAssumption DEF PollGranted, Approver, NoCode
  <2>6. Promise!TakeUp(a)
    BY <2>1, <2>2, <2>3, <2>4, <2>5 DEF Promise!TakeUp
  <2> QED  BY <2>1, <2>6 DEF Promise!Next
<1>11. CASE MenuPlay \/ MenuSignOut
  BY <1>11, <1>b DEF MenuPlay, MenuSignOut, local, AccountIn, AccountHeld, Approver, Returned,
     Holding, BuildCalls
<1>12. CASE SignOut
  <2>1. AccountIn = out.uuid /\ AccountIn # None /\ AccountIn' = None
    BY <1>12, AccountsAssumption DEF SignOut, AccountIn, Returned, ViewInv, VerifiedInv
  <2>2. AccountHeld' = None
    BY <1>12 DEF SignOut, Written, AccountHeld, Holding, BuildCalls
  <2>3. UNCHANGED Approver /\ forgotten' = forgotten \cup {out.uuid}
    BY <1>12 DEF SignOut, local, Approver
  <2> QED  BY <2>1, <2>2, <2>3 DEF Promise!SignOut, Promise!Next
<1>13. ASSUME NEW reply \in Accounts \cup {"declined"}, Answer(reply)
       PROVE  [Promise!Next]_Promise!vars
  <2>1. UNCHANGED <<AccountIn, AccountHeld, forgotten>>
    BY <1>13 DEF Answer, AccountIn, AccountHeld, Returned, Holding, BuildCalls
  <2>2. Approver = None
    BY <1>13, NoApprover DEF Answer
  <2>3. svc'.code = reply
    BY <1>13 DEF Answer, ViewInv, TypeOK
  <2>4. CASE reply \in Accounts
    <3>1. Approver' = reply
      BY <2>3, <2>4 DEF Approver
    <3> QED  BY <2>1, <2>2, <2>4, <3>1 DEF Promise!Approve, Promise!Next
  <2>5. CASE reply \notin Accounts
    BY <2>1, <2>2, <2>3, <2>5, <1>b DEF Approver
  <2> QED  BY <2>4, <2>5
<1>14. ASSUME NEW a \in Accounts, SessionEnds(a) PROVE [Promise!Next]_Promise!vars
  BY <1>14, <1>b DEF SessionEnds, local, AccountIn, AccountHeld, Approver, Returned, Holding
<1>15. CASE UNCHANGED vars
  BY <1>15, <1>b DEF vars, AccountIn, AccountHeld, Approver, Returned, Holding
<1> QED
  BY <1>1, <1>2, <1>3, <1>4, <1>5, <1>6, <1>7, <1>8, <1>9, <1>10, <1>11, <1>12, <1>13, <1>14,
     <1>15 DEF Next, Resolve

\* Seen from outside, the launcher is Membership (App.cpp 1114-1154, 2192-2315, 3012-3026).
THEOREM MembershipCorrect == ASSUME ~VaultFaults PROVE Spec => ImplementsMembership
<1>1. Init => Promise!Init
  BY CodeAssumption
  DEF Init, Promise!Init, AccountIn, AccountHeld, Approver, Returned, Holding, BuildCalls, NoCode
<1>2. Spec => []ViewInv
  BY ViewCorrect
<1>3. ViewInv /\ [Next]_vars => [Promise!Next]_Promise!vars
  BY RefinementStep
<1> QED
  BY <1>1, <1>2, <1>3, PTL DEF Spec, ImplementsMembership, Promise!Spec
===============================================================================
