----------------------- MODULE CredentialRefreshProofs -----------------------
(* Proofs about CredentialRefresh, for any number of threads, pairs, calls    *)
(* and rotations.                                                             *)
EXTENDS CredentialRefresh, SequenceTheorems, TLAPS

-----------------------------------------------------------------------------
(* The inductive invariant *)

\* A thread is inside refresh_credentials exactly while it owns the mutex.
MutexInv == \A t \in Threads : pc[t] \in Inside <=> refresh_mutex = t

\* At most one swap: the counters say whether it happened.
SessionInv ==
    /\ generation = IF refreshed THEN 1 ELSE 0
    /\ api_client = generation
    /\ retired_clients = IF refreshed THEN {0} ELSE {}
    /\ \A t \in Threads : seen[t] <= generation

\* How far a refresh got, and what it knows by then.
RefreshInv ==
    \A t \in Threads :
        /\ pc[t] \in {"scrape", "probe", "save", "write", "adopt"} =>
               ~refreshed /\ seen[t] = generation
        /\ pc[t] = "probe" /\ op[t] = "refresh" => candidates[t] # <<>>
        /\ pc[t] \in {"save", "write", "adopt", "listen"} => chosen[t] \in Pairs
        /\ pc[t] = "write" => Persist /\ env = NoPair
        /\ pc[t] = "listen" => refreshed /\ chosen[t] = app_pair

\* What a request in progress took.
RequestOf(t) ==
    /\ client[t] # NoClient => client[t] \in retired_clients \cup {api_client}
    /\ pc[t] = "send" => client[t] # NoClient
    /\ op[t] \in {"url", "get"} /\ pc[t] = "auth" => client[t] # NoClient
    /\ op[t] \in {"url", "get"} /\ pc[t] = "client" => auth[t] = NoPair
    /\ op[t] \in {"url", "get"} /\ pc[t] = "send" => auth[t] # NoPair
    /\ op[t] = "url" /\ pc[t] \in {"lock"} \cup Inside => auth[t] # NoPair
    /\ op[t] \in {"url", "get"} /\ pc[t] = "send" /\ client[t] = api_client => auth[t] = app_pair

RequestInv == \A t \in Threads : RequestOf(t)

\* A rejected getFileUrl signed with the pair of the generation it saw, and a
\* retried one with the pair of the refresh.
AuthOf(t) ==
    /\ attempt[t] = 2 => op[t] = "url" /\ refreshed
    /\ op[t] = "url" /\ auth[t] # NoPair /\ (attempt[t] = 2 \/ seen[t] = generation) =>
           auth[t] = app_pair

AuthInv == \A t \in Threads : AuthOf(t)

\* A pair adopted on a probe's word is the live one until Qobuz rotates.
ProbeInv ==
    /\ probed_at <= rotations \/ probed_at = Never
    /\ refreshed /\ probed_at = rotations => app_pair = live
    /\ \A t \in Threads :
           pc[t] \in {"save", "write", "adopt"} /\ probed_at = rotations => chosen[t] = live

\* .env, when writes that fail are reported.
DiskInv ==
    /\ DurableBeforeAdopt
    /\ \A t \in Threads : pc[t] = "adopt" /\ Persist => env = chosen[t]

IInv == /\ TypeOK /\ MutexInv /\ SessionInv /\ RefreshInv
        /\ RequestInv /\ AuthInv /\ ProbeInv

-----------------------------------------------------------------------------
(* Type correctness *)

\* The helpers an action is made of.
USE DEF Goto, Return, Begin, creds, outside, request, healing, Inside, Status

\* Initially every variable has its type.
LEMMA InitTypeOK == Init => TypeOK
<1> SUFFICES ASSUME Init PROVE TypeOK
  OBVIOUS
<1>1. <<>> \in Seq(Pairs)
  OBVIOUS
<1>2. candidates \in [Threads -> Seq(Pairs)]
  BY <1>1 DEF Init
<1>3. 0 \in 0..MaxRotations /\ 0 \in 0..MaxCalls /\ Never \in 0..Never
  BY BoundAssumption DEF Never
<1>4. /\ pc \in [Threads -> {"idle", "client", "auth", "send", "lock"} \cup Inside]
      /\ op \in [Threads -> Ops \cup {"none"}]
      /\ seen \in [Threads -> Nat]
      /\ client \in [Threads -> Nat \cup {NoClient}]
      /\ auth \in [Threads -> Pairs \cup {NoPair}]
  BY DEF Init
<1>5. /\ attempt \in [Threads -> {1, 2}]
      /\ token \in [Threads -> BOOLEAN]
      /\ chosen \in [Threads -> Pairs \cup {NoPair}]
      /\ notify \in [Threads -> BOOLEAN]
      /\ result \in [Threads -> Status]
      /\ calls \in [Threads -> 0..MaxCalls]
  BY <1>3 DEF Init
<1>6. QED
  BY <1>2, <1>3, <1>4, <1>5 DEF Init, TypeOK

\* Returning from refresh_credentials keeps the types of what it changes.
LEMMA FinishTypes ==
  ASSUME TypeOK, NEW t \in Threads, NEW healed \in BOOLEAN, Finish(t, healed)
  PROVE  /\ refresh_mutex' \in Threads \cup {NoThread}
         /\ pc' \in [Threads -> {"idle", "client", "auth", "send", "lock"} \cup Inside]
         /\ op' \in [Threads -> Ops \cup {"none"}]
         /\ seen' \in [Threads -> Nat]
         /\ client' \in [Threads -> Nat \cup {NoClient}]
         /\ auth' \in [Threads -> Pairs \cup {NoPair}]
         /\ attempt' \in [Threads -> {1, 2}]
         /\ candidates' \in [Threads -> Seq(Pairs)]
         /\ token' \in [Threads -> BOOLEAN]
         /\ chosen' \in [Threads -> Pairs \cup {NoPair}]
         /\ notify' \in [Threads -> BOOLEAN]
         /\ result' \in [Threads -> Status]
         /\ calls' \in [Threads -> 0..MaxCalls]
         /\ probed_at' \in 0..Never
<1>1. <<>> \in Seq(Pairs)
  OBVIOUS
<1>2. candidates' \in [Threads -> Seq(Pairs)]
  BY <1>1 DEF TypeOK, Finish
<1>3. /\ pc' \in [Threads -> {"idle", "client", "auth", "send", "lock"} \cup Inside]
      /\ result' \in [Threads -> Status]
  BY DEF TypeOK, Finish
<1>4. /\ client' \in [Threads -> Nat \cup {NoClient}]
      /\ auth' \in [Threads -> Pairs \cup {NoPair}]
  BY DEF TypeOK, Finish
<1>8. attempt' \in [Threads -> {1, 2}]
  <2>1. attempt' = attempt \/ attempt' = [attempt EXCEPT ![t] = 2]
    BY DEF Finish
  <2>2. QED
    BY <2>1 DEF TypeOK
<1>5. /\ token' \in [Threads -> BOOLEAN]
      /\ chosen' \in [Threads -> Pairs \cup {NoPair}]
      /\ notify' \in [Threads -> BOOLEAN]
  BY DEF TypeOK, Finish
<1>6. op' = op /\ seen' = seen /\ calls' = calls /\ probed_at' = probed_at /\ refresh_mutex' = NoThread
  BY DEF Finish
<1>7. QED
  BY <1>2, <1>3, <1>4, <1>5, <1>6, <1>8 DEF TypeOK

\* Every step of Next keeps every variable in its type.
LEMMA NextTypeOK == TypeOK /\ RefreshInv /\ [Next]_vars => TypeOK'
<1> SUFFICES ASSUME TypeOK, RefreshInv, [Next]_vars PROVE TypeOK'
  OBVIOUS
<1> USE BoundAssumption DEF Never
<1>1. ASSUME NEW t \in Threads, GetTrackFileUrl(t) PROVE TypeOK'
  BY <1>1 DEF TypeOK, GetTrackFileUrl
<1>2. ASSUME NEW t \in Threads, SignedRequest(t) PROVE TypeOK'
  BY <1>2 DEF TypeOK, SignedRequest
<1>3. ASSUME NEW t \in Threads, ApiGet(t) PROVE TypeOK'
  BY <1>3 DEF TypeOK, ApiGet
<1>4. ASSUME NEW t \in Threads, FetchCover(t) PROVE TypeOK'
  BY <1>4 DEF TypeOK, FetchCover
<1>5. ASSUME NEW t \in Threads, RefreshAppCredentials(t) PROVE TypeOK'
  BY <1>5 DEF TypeOK, RefreshAppCredentials
<1>6. ASSUME NEW t \in Threads, Unauthenticated(t) PROVE TypeOK'
  BY <1>6 DEF TypeOK, Unauthenticated
<1>7. ASSUME NEW t \in Threads, TakeClient(t) PROVE TypeOK'
  BY <1>7 DEF TypeOK, TakeClient
<1>8. ASSUME NEW t \in Threads, TakeAuth(t) PROVE TypeOK'
  BY <1>8 DEF TypeOK, TakeAuth
<1>9. ASSUME NEW t \in Threads, SendAccepted(t) PROVE TypeOK'
  BY <1>9 DEF TypeOK, SendAccepted
<1>10. ASSUME NEW t \in Threads, SendFails(t) PROVE TypeOK'
  BY <1>10 DEF TypeOK, SendFails
<1>11. ASSUME NEW t \in Threads, SendRejected(t) PROVE TypeOK'
  BY <1>11 DEF TypeOK, SendRejected
<1>12. ASSUME NEW t \in Threads, RefreshLock(t) PROVE TypeOK'
  BY <1>12 DEF TypeOK, RefreshLock
<1>13. ASSUME NEW t \in Threads, RefreshCheck(t) PROVE TypeOK'
  BY <1>13, FinishTypes DEF TypeOK, RefreshCheck
<1>14. ASSUME NEW t \in Threads, Scrape(t) PROVE TypeOK'
  BY <1>14, BundleAssumption DEF TypeOK, Scrape
<1>15. ASSUME NEW t \in Threads, ScrapeFails(t) PROVE TypeOK'
  BY <1>15, FinishTypes DEF TypeOK, ScrapeFails
<1>16. ASSUME NEW t \in Threads, TakeFirst(t) PROVE TypeOK'
  BY <1>16, HeadTailProperties DEF TypeOK, TakeFirst, RefreshInv
<1>17. ASSUME NEW t \in Threads, ProbeAccepts(t) PROVE TypeOK'
  BY <1>17, HeadTailProperties DEF TypeOK, ProbeAccepts
<1>18. ASSUME NEW t \in Threads, ProbeRejects(t) PROVE TypeOK'
  BY <1>18, HeadTailProperties DEF TypeOK, ProbeRejects
<1>19. ASSUME NEW t \in Threads, ProbesExhausted(t) PROVE TypeOK'
  BY <1>19, FinishTypes DEF TypeOK, ProbesExhausted
<1>20. ASSUME NEW t \in Threads, OpenEnv(t) PROVE TypeOK'
  BY <1>20 DEF TypeOK, OpenEnv
<1>21. ASSUME NEW t \in Threads, OpenEnvFails(t) PROVE TypeOK'
  BY <1>21, FinishTypes DEF TypeOK, OpenEnvFails
<1>22. ASSUME NEW t \in Threads, WriteEnv(t) PROVE TypeOK'
  BY <1>22 DEF TypeOK, WriteEnv
<1>23. ASSUME NEW t \in Threads, WriteEnvFails(t) PROVE TypeOK'
  BY <1>23, FinishTypes DEF TypeOK, WriteEnvFails
<1>24. ASSUME NEW t \in Threads, FlushEnvLost(t) PROVE TypeOK'
  BY <1>24 DEF TypeOK, FlushEnvLost
<1>25. ASSUME NEW t \in Threads, Adopt(t) PROVE TypeOK'
  BY <1>25 DEF TypeOK, Adopt, RefreshInv
<1>26. ASSUME NEW t \in Threads, Listen(t) PROVE TypeOK'
  BY <1>26, FinishTypes DEF TypeOK, Listen, RefreshInv
<1>27. CASE SetCredentialsListener
  BY <1>27 DEF TypeOK, SetCredentialsListener
<1>28. CASE SetAuthToken
  BY <1>28 DEF TypeOK, SetAuthToken
<1>29. CASE Rotate
  BY <1>29 DEF TypeOK, Rotate
<1>30. CASE UNCHANGED vars
  BY <1>30 DEF TypeOK, vars
<1>31. QED
  BY <1>1, <1>2, <1>3, <1>4, <1>5, <1>6, <1>7, <1>8, <1>9, <1>10, <1>11, <1>12, <1>13,
     <1>14, <1>15, <1>16, <1>17, <1>18, <1>19, <1>20, <1>21, <1>22, <1>23, <1>24, <1>25,
     <1>26, <1>27, <1>28, <1>29, <1>30 DEF Next, Start, Continue

-----------------------------------------------------------------------------
(* The invariant is inductive *)

\* RefreshCheck lets the refresh go ahead.
CheckPasses(t) ==
    /\ pc[t] = "check" /\ generation = seen[t] /\ ~refreshed
    /\ Goto(t, "scrape")
    /\ UNCHANGED <<refresh_mutex, request, result, healing, creds, outside, env>>

\* What every return from refresh_credentials has in common.
Returned(t) ==
    /\ pc[t] \in Inside
    /\ refresh_mutex' = NoThread
    /\ op' = op /\ seen' = seen /\ probed_at' = probed_at
    /\ UNCHANGED <<creds, env, live, rotations>>
    /\ \A u \in Threads \ {t} :
           /\ pc'[u] = pc[u] /\ client'[u] = client[u] /\ auth'[u] = auth[u]
           /\ attempt'[u] = attempt[u] /\ candidates'[u] = candidates[u]
           /\ chosen'[u] = chosen[u]
    /\ \/ /\ pc'[t] = "client" /\ op[t] = "url" /\ refreshed
          /\ attempt'[t] = 2 /\ client'[t] = NoClient /\ auth'[t] = NoPair
       \/ /\ pc'[t] = "idle"
          /\ attempt'[t] = attempt[t] /\ client'[t] = client[t] /\ auth'[t] = auth[t]

\* Finish has those effects, if only a refreshed session counts as healed.
LEMMA FinishReturned ==
  ASSUME TypeOK, NEW t \in Threads, NEW healed \in BOOLEAN, Finish(t, healed),
         pc[t] \in Inside, healed => refreshed,
         UNCHANGED <<creds, env, live, rotations>>
  PROVE  Returned(t)
<1>1. /\ refresh_mutex' = NoThread
      /\ op' = op /\ seen' = seen /\ probed_at' = probed_at
  BY DEF Finish
<1>2. \A u \in Threads \ {t} :
         /\ pc'[u] = pc[u] /\ client'[u] = client[u] /\ auth'[u] = auth[u]
         /\ attempt'[u] = attempt[u]
  BY DEF Finish, TypeOK
<1>3. \A u \in Threads \ {t} : candidates'[u] = candidates[u] /\ chosen'[u] = chosen[u]
  BY DEF Finish, TypeOK
<1>4. \/ /\ pc'[t] = "client" /\ op[t] = "url" /\ healed
         /\ attempt'[t] = 2 /\ client'[t] = NoClient /\ auth'[t] = NoPair
      \/ /\ pc'[t] = "idle"
         /\ attempt'[t] = attempt[t] /\ client'[t] = client[t] /\ auth'[t] = auth[t]
  BY DEF Finish, TypeOK
<1>5. QED
  BY <1>1, <1>2, <1>3, <1>4 DEF Returned

\* The check, and each failure or success of a refresh, passes or returns.
LEMMA ContinueReturned ==
  ASSUME TypeOK, SessionInv, RefreshInv, NEW t \in Threads,
         \/ RefreshCheck(t) \/ ScrapeFails(t) \/ ProbesExhausted(t)
         \/ OpenEnvFails(t) \/ WriteEnvFails(t) \/ Listen(t)
  PROVE  CheckPasses(t) \/ Returned(t)
<1>1. CASE RefreshCheck(t)
  <2>1. CASE generation # seen[t] /\ Finish(t, TRUE)
    <3>1. refreshed
      BY <2>1 DEF SessionInv, TypeOK
    <3>2. QED
      BY <1>1, <2>1, <3>1, FinishReturned DEF RefreshCheck
  <2>2. CASE generation = seen[t] /\ refreshed /\ Finish(t, FALSE)
    BY <1>1, <2>2, FinishReturned DEF RefreshCheck
  <2>3. QED
    BY <1>1, <2>1, <2>2 DEF RefreshCheck, CheckPasses
<1>2. CASE ScrapeFails(t)
  BY <1>2, FinishReturned DEF ScrapeFails
<1>3. CASE ProbesExhausted(t)
  BY <1>3, FinishReturned DEF ProbesExhausted
<1>4. CASE OpenEnvFails(t)
  BY <1>4, FinishReturned DEF OpenEnvFails
<1>5. CASE WriteEnvFails(t)
  BY <1>5, FinishReturned DEF WriteEnvFails
<1>6. CASE Listen(t)
  BY <1>6, FinishReturned DEF Listen, RefreshInv
<1>7. QED
  BY <1>1, <1>2, <1>3, <1>4, <1>5, <1>6

\* The mutex has the owner the threads' positions say.
LEMMA NextMutexInv == TypeOK /\ SessionInv /\ RefreshInv /\ MutexInv /\ [Next]_vars => MutexInv'
<1> SUFFICES ASSUME TypeOK, SessionInv, RefreshInv, MutexInv, [Next]_vars PROVE MutexInv'
  OBVIOUS
<1>1. ASSUME NEW t \in Threads, GetTrackFileUrl(t) PROVE MutexInv'
  BY <1>1, ThreadAssumption DEF GetTrackFileUrl, TypeOK, SessionInv, RefreshInv, MutexInv
<1>2. ASSUME NEW t \in Threads, SignedRequest(t) PROVE MutexInv'
  BY <1>2, ThreadAssumption DEF SignedRequest, TypeOK, SessionInv, RefreshInv, MutexInv
<1>3. ASSUME NEW t \in Threads, ApiGet(t) PROVE MutexInv'
  BY <1>3, ThreadAssumption DEF ApiGet, TypeOK, SessionInv, RefreshInv, MutexInv
<1>4. ASSUME NEW t \in Threads, FetchCover(t) PROVE MutexInv'
  BY <1>4, ThreadAssumption DEF FetchCover, TypeOK, SessionInv, RefreshInv, MutexInv
<1>5. ASSUME NEW t \in Threads, RefreshAppCredentials(t) PROVE MutexInv'
  BY <1>5, ThreadAssumption DEF RefreshAppCredentials, TypeOK, SessionInv, RefreshInv,
     MutexInv
<1>6. ASSUME NEW t \in Threads, Unauthenticated(t) PROVE MutexInv'
  BY <1>6, ThreadAssumption DEF Unauthenticated, TypeOK, SessionInv, RefreshInv, MutexInv
<1>7. ASSUME NEW t \in Threads, TakeClient(t) PROVE MutexInv'
  BY <1>7, ThreadAssumption DEF TakeClient, TypeOK, SessionInv, RefreshInv, MutexInv
<1>8. ASSUME NEW t \in Threads, TakeAuth(t) PROVE MutexInv'
  BY <1>8, ThreadAssumption DEF TakeAuth, TypeOK, SessionInv, RefreshInv, MutexInv
<1>9. ASSUME NEW t \in Threads, SendAccepted(t) PROVE MutexInv'
  BY <1>9, ThreadAssumption DEF SendAccepted, TypeOK, SessionInv, RefreshInv, MutexInv
<1>10. ASSUME NEW t \in Threads, SendFails(t) PROVE MutexInv'
  BY <1>10, ThreadAssumption DEF SendFails, TypeOK, SessionInv, RefreshInv, MutexInv
<1>11. ASSUME NEW t \in Threads, SendRejected(t) PROVE MutexInv'
  BY <1>11, ThreadAssumption DEF SendRejected, TypeOK, SessionInv, RefreshInv, MutexInv
<1>12. ASSUME NEW t \in Threads, RefreshLock(t) PROVE MutexInv'
  BY <1>12, ThreadAssumption DEF RefreshLock, TypeOK, SessionInv, RefreshInv, MutexInv
<1>13. ASSUME NEW t \in Threads, CheckPasses(t) PROVE MutexInv'
  BY <1>13, ThreadAssumption DEF CheckPasses, TypeOK, SessionInv, RefreshInv, MutexInv
<1>14. ASSUME NEW t \in Threads, Scrape(t) PROVE MutexInv'
  BY <1>14, ThreadAssumption, BundleAssumption DEF Scrape, TypeOK, SessionInv, RefreshInv,
     MutexInv
<1>15. ASSUME NEW t \in Threads, TakeFirst(t) PROVE MutexInv'
  BY <1>15, ThreadAssumption DEF TakeFirst, TypeOK, SessionInv, RefreshInv, MutexInv
<1>16. ASSUME NEW t \in Threads, ProbeAccepts(t) PROVE MutexInv'
  BY <1>16, ThreadAssumption DEF ProbeAccepts, TypeOK, SessionInv, RefreshInv, MutexInv
<1>17. ASSUME NEW t \in Threads, ProbeRejects(t) PROVE MutexInv'
  BY <1>17, ThreadAssumption DEF ProbeRejects, TypeOK, SessionInv, RefreshInv, MutexInv
<1>18. ASSUME NEW t \in Threads, OpenEnv(t) PROVE MutexInv'
  BY <1>18, ThreadAssumption DEF OpenEnv, TypeOK, SessionInv, RefreshInv, MutexInv
<1>19. ASSUME NEW t \in Threads, WriteEnv(t) PROVE MutexInv'
  BY <1>19, ThreadAssumption DEF WriteEnv, TypeOK, SessionInv, RefreshInv, MutexInv
<1>20. ASSUME NEW t \in Threads, FlushEnvLost(t) PROVE MutexInv'
  BY <1>20, ThreadAssumption DEF FlushEnvLost, TypeOK, SessionInv, RefreshInv, MutexInv
<1>21. ASSUME NEW t \in Threads, Adopt(t) PROVE MutexInv'
  BY <1>21, ThreadAssumption DEF Adopt, TypeOK, SessionInv, RefreshInv, MutexInv
<1>22. ASSUME NEW t \in Threads, Returned(t) PROVE MutexInv'
  BY <1>22, ThreadAssumption DEF Returned, TypeOK, SessionInv, RefreshInv, MutexInv
<1>23. CASE SetCredentialsListener
  BY <1>23, ThreadAssumption DEF SetCredentialsListener, TypeOK, SessionInv, RefreshInv,
     MutexInv
<1>24. CASE SetAuthToken
  BY <1>24, ThreadAssumption DEF SetAuthToken, TypeOK, SessionInv, RefreshInv, MutexInv
<1>25. CASE Rotate
  BY <1>25, ThreadAssumption DEF Rotate, TypeOK, SessionInv, RefreshInv, MutexInv
<1>26. CASE UNCHANGED vars
  BY <1>26 DEF vars, TypeOK, SessionInv, RefreshInv, MutexInv
<1>27. QED
  BY <1>1, <1>2, <1>3, <1>4, <1>5, <1>6, <1>7, <1>8, <1>9, <1>10, <1>11, <1>12, <1>13,
     <1>14, <1>15, <1>16, <1>17, <1>18, <1>19, <1>20, <1>21, <1>22, <1>23, <1>24, <1>25,
     <1>26, ContinueReturned DEF Next, Start, Continue

\* Only the first swap moves the counters.
LEMMA NextSessionInv == TypeOK /\ SessionInv /\ RefreshInv /\ [Next]_vars => SessionInv'
<1> SUFFICES ASSUME TypeOK, SessionInv, RefreshInv, [Next]_vars PROVE SessionInv'
  OBVIOUS
<1>1. ASSUME NEW t \in Threads, GetTrackFileUrl(t) PROVE SessionInv'
  BY <1>1 DEF GetTrackFileUrl, TypeOK, SessionInv, RefreshInv
<1>2. ASSUME NEW t \in Threads, SignedRequest(t) PROVE SessionInv'
  BY <1>2 DEF SignedRequest, TypeOK, SessionInv, RefreshInv
<1>3. ASSUME NEW t \in Threads, ApiGet(t) PROVE SessionInv'
  BY <1>3 DEF ApiGet, TypeOK, SessionInv, RefreshInv
<1>4. ASSUME NEW t \in Threads, FetchCover(t) PROVE SessionInv'
  BY <1>4 DEF FetchCover, TypeOK, SessionInv, RefreshInv
<1>5. ASSUME NEW t \in Threads, RefreshAppCredentials(t) PROVE SessionInv'
  BY <1>5 DEF RefreshAppCredentials, TypeOK, SessionInv, RefreshInv
<1>6. ASSUME NEW t \in Threads, Unauthenticated(t) PROVE SessionInv'
  BY <1>6 DEF Unauthenticated, TypeOK, SessionInv, RefreshInv
<1>7. ASSUME NEW t \in Threads, TakeClient(t) PROVE SessionInv'
  BY <1>7 DEF TakeClient, TypeOK, SessionInv, RefreshInv
<1>8. ASSUME NEW t \in Threads, TakeAuth(t) PROVE SessionInv'
  BY <1>8 DEF TakeAuth, TypeOK, SessionInv, RefreshInv
<1>9. ASSUME NEW t \in Threads, SendAccepted(t) PROVE SessionInv'
  BY <1>9 DEF SendAccepted, TypeOK, SessionInv, RefreshInv
<1>10. ASSUME NEW t \in Threads, SendFails(t) PROVE SessionInv'
  BY <1>10 DEF SendFails, TypeOK, SessionInv, RefreshInv
<1>11. ASSUME NEW t \in Threads, SendRejected(t) PROVE SessionInv'
  BY <1>11 DEF SendRejected, TypeOK, SessionInv, RefreshInv
<1>12. ASSUME NEW t \in Threads, RefreshLock(t) PROVE SessionInv'
  BY <1>12 DEF RefreshLock, TypeOK, SessionInv, RefreshInv
<1>13. ASSUME NEW t \in Threads, CheckPasses(t) PROVE SessionInv'
  BY <1>13 DEF CheckPasses, TypeOK, SessionInv, RefreshInv
<1>14. ASSUME NEW t \in Threads, Scrape(t) PROVE SessionInv'
  BY <1>14, BundleAssumption DEF Scrape, TypeOK, SessionInv, RefreshInv
<1>15. ASSUME NEW t \in Threads, TakeFirst(t) PROVE SessionInv'
  BY <1>15 DEF TakeFirst, TypeOK, SessionInv, RefreshInv
<1>16. ASSUME NEW t \in Threads, ProbeAccepts(t) PROVE SessionInv'
  BY <1>16 DEF ProbeAccepts, TypeOK, SessionInv, RefreshInv
<1>17. ASSUME NEW t \in Threads, ProbeRejects(t) PROVE SessionInv'
  BY <1>17 DEF ProbeRejects, TypeOK, SessionInv, RefreshInv
<1>18. ASSUME NEW t \in Threads, OpenEnv(t) PROVE SessionInv'
  BY <1>18 DEF OpenEnv, TypeOK, SessionInv, RefreshInv
<1>19. ASSUME NEW t \in Threads, WriteEnv(t) PROVE SessionInv'
  BY <1>19 DEF WriteEnv, TypeOK, SessionInv, RefreshInv
<1>20. ASSUME NEW t \in Threads, FlushEnvLost(t) PROVE SessionInv'
  BY <1>20 DEF FlushEnvLost, TypeOK, SessionInv, RefreshInv
<1>21. ASSUME NEW t \in Threads, Adopt(t) PROVE SessionInv'
  BY <1>21 DEF Adopt, TypeOK, SessionInv, RefreshInv
<1>22. ASSUME NEW t \in Threads, Returned(t) PROVE SessionInv'
  BY <1>22 DEF Returned, TypeOK, SessionInv, RefreshInv
<1>23. CASE SetCredentialsListener
  BY <1>23 DEF SetCredentialsListener, TypeOK, SessionInv, RefreshInv
<1>24. CASE SetAuthToken
  BY <1>24 DEF SetAuthToken, TypeOK, SessionInv, RefreshInv
<1>25. CASE Rotate
  BY <1>25 DEF Rotate, TypeOK, SessionInv, RefreshInv
<1>26. CASE UNCHANGED vars
  BY <1>26 DEF vars, TypeOK, SessionInv, RefreshInv
<1>27. QED
  BY <1>1, <1>2, <1>3, <1>4, <1>5, <1>6, <1>7, <1>8, <1>9, <1>10, <1>11, <1>12, <1>13,
     <1>14, <1>15, <1>16, <1>17, <1>18, <1>19, <1>20, <1>21, <1>22, <1>23, <1>24, <1>25,
     <1>26, ContinueReturned DEF Next, Start, Continue

\* A refresh in progress stays the only one.
LEMMA NextRefreshInv == TypeOK /\ SessionInv /\ RefreshInv /\ MutexInv /\ [Next]_vars => RefreshInv'
<1> SUFFICES ASSUME TypeOK, SessionInv, RefreshInv, MutexInv, [Next]_vars PROVE RefreshInv'
  OBVIOUS
<1>1. ASSUME NEW t \in Threads, GetTrackFileUrl(t) PROVE RefreshInv'
  BY <1>1, PairAssumption DEF GetTrackFileUrl, TypeOK, SessionInv, RefreshInv, MutexInv
<1>2. ASSUME NEW t \in Threads, SignedRequest(t) PROVE RefreshInv'
  BY <1>2, PairAssumption DEF SignedRequest, TypeOK, SessionInv, RefreshInv, MutexInv
<1>3. ASSUME NEW t \in Threads, ApiGet(t) PROVE RefreshInv'
  BY <1>3, PairAssumption DEF ApiGet, TypeOK, SessionInv, RefreshInv, MutexInv
<1>4. ASSUME NEW t \in Threads, FetchCover(t) PROVE RefreshInv'
  BY <1>4, PairAssumption DEF FetchCover, TypeOK, SessionInv, RefreshInv, MutexInv
<1>5. ASSUME NEW t \in Threads, RefreshAppCredentials(t) PROVE RefreshInv'
  BY <1>5, PairAssumption DEF RefreshAppCredentials, TypeOK, SessionInv, RefreshInv,
     MutexInv
<1>6. ASSUME NEW t \in Threads, Unauthenticated(t) PROVE RefreshInv'
  BY <1>6, PairAssumption DEF Unauthenticated, TypeOK, SessionInv, RefreshInv, MutexInv
<1>7. ASSUME NEW t \in Threads, TakeClient(t) PROVE RefreshInv'
  BY <1>7, PairAssumption DEF TakeClient, TypeOK, SessionInv, RefreshInv, MutexInv
<1>8. ASSUME NEW t \in Threads, TakeAuth(t) PROVE RefreshInv'
  BY <1>8, PairAssumption DEF TakeAuth, TypeOK, SessionInv, RefreshInv, MutexInv
<1>9. ASSUME NEW t \in Threads, SendAccepted(t) PROVE RefreshInv'
  BY <1>9, PairAssumption DEF SendAccepted, TypeOK, SessionInv, RefreshInv, MutexInv
<1>10. ASSUME NEW t \in Threads, SendFails(t) PROVE RefreshInv'
  BY <1>10, PairAssumption DEF SendFails, TypeOK, SessionInv, RefreshInv, MutexInv
<1>11. ASSUME NEW t \in Threads, SendRejected(t) PROVE RefreshInv'
  BY <1>11, PairAssumption DEF SendRejected, TypeOK, SessionInv, RefreshInv, MutexInv
<1>12. ASSUME NEW t \in Threads, RefreshLock(t) PROVE RefreshInv'
  BY <1>12, PairAssumption DEF RefreshLock, TypeOK, SessionInv, RefreshInv, MutexInv
<1>13. ASSUME NEW t \in Threads, CheckPasses(t) PROVE RefreshInv'
  BY <1>13, PairAssumption DEF CheckPasses, TypeOK, SessionInv, RefreshInv, MutexInv
<1>14. ASSUME NEW t \in Threads, Scrape(t) PROVE RefreshInv'
  BY <1>14, PairAssumption, BundleAssumption DEF Scrape, TypeOK, SessionInv, RefreshInv,
     MutexInv
<1>15. ASSUME NEW t \in Threads, TakeFirst(t) PROVE RefreshInv'
  BY <1>15, PairAssumption DEF TakeFirst, TypeOK, SessionInv, RefreshInv, MutexInv
<1>16. ASSUME NEW t \in Threads, ProbeAccepts(t) PROVE RefreshInv'
  BY <1>16, PairAssumption DEF ProbeAccepts, TypeOK, SessionInv, RefreshInv, MutexInv
<1>17. ASSUME NEW t \in Threads, ProbeRejects(t) PROVE RefreshInv'
  BY <1>17, PairAssumption DEF ProbeRejects, TypeOK, SessionInv, RefreshInv, MutexInv
<1>18. ASSUME NEW t \in Threads, OpenEnv(t) PROVE RefreshInv'
  BY <1>18, PairAssumption DEF OpenEnv, TypeOK, SessionInv, RefreshInv, MutexInv
<1>19. ASSUME NEW t \in Threads, WriteEnv(t) PROVE RefreshInv'
  BY <1>19, PairAssumption DEF WriteEnv, TypeOK, SessionInv, RefreshInv, MutexInv
<1>20. ASSUME NEW t \in Threads, FlushEnvLost(t) PROVE RefreshInv'
  BY <1>20, PairAssumption DEF FlushEnvLost, TypeOK, SessionInv, RefreshInv, MutexInv
<1>21. ASSUME NEW t \in Threads, Adopt(t) PROVE RefreshInv'
  BY <1>21, PairAssumption DEF Adopt, TypeOK, SessionInv, RefreshInv, MutexInv
<1>22. ASSUME NEW t \in Threads, Returned(t) PROVE RefreshInv'
  BY <1>22, PairAssumption DEF Returned, TypeOK, SessionInv, RefreshInv, MutexInv
<1>23. CASE SetCredentialsListener
  BY <1>23, PairAssumption DEF SetCredentialsListener, TypeOK, SessionInv, RefreshInv,
     MutexInv
<1>24. CASE SetAuthToken
  BY <1>24, PairAssumption DEF SetAuthToken, TypeOK, SessionInv, RefreshInv, MutexInv
<1>25. CASE Rotate
  BY <1>25, PairAssumption DEF Rotate, TypeOK, SessionInv, RefreshInv, MutexInv
<1>26. CASE UNCHANGED vars
  BY <1>26 DEF vars, TypeOK, SessionInv, RefreshInv, MutexInv
<1>27. QED
  BY <1>1, <1>2, <1>3, <1>4, <1>5, <1>6, <1>7, <1>8, <1>9, <1>10, <1>11, <1>12, <1>13,
     <1>14, <1>15, <1>16, <1>17, <1>18, <1>19, <1>20, <1>21, <1>22, <1>23, <1>24, <1>25,
     <1>26, ContinueReturned DEF Next, Start, Continue

\* Requests keep the clients and pairs they took.
LEMMA NextRequestInv == TypeOK /\ SessionInv /\ RefreshInv /\ RequestInv /\ [Next]_vars => RequestInv'
<1> SUFFICES ASSUME TypeOK, SessionInv, RefreshInv, RequestInv, [Next]_vars PROVE RequestInv'
  OBVIOUS
<1>1. ASSUME NEW t \in Threads, GetTrackFileUrl(t) PROVE RequestInv'
  BY <1>1, PairAssumption, ClientAssumption DEF GetTrackFileUrl, TypeOK, SessionInv,
     RefreshInv, RequestInv, RequestOf
<1>2. ASSUME NEW t \in Threads, SignedRequest(t) PROVE RequestInv'
  BY <1>2, PairAssumption, ClientAssumption DEF SignedRequest, TypeOK, SessionInv,
     RefreshInv, RequestInv, RequestOf
<1>3. ASSUME NEW t \in Threads, ApiGet(t) PROVE RequestInv'
  BY <1>3, PairAssumption, ClientAssumption DEF ApiGet, TypeOK, SessionInv, RefreshInv,
     RequestInv, RequestOf
<1>4. ASSUME NEW t \in Threads, FetchCover(t) PROVE RequestInv'
  BY <1>4, PairAssumption, ClientAssumption DEF FetchCover, TypeOK, SessionInv, RefreshInv,
     RequestInv, RequestOf
<1>5. ASSUME NEW t \in Threads, RefreshAppCredentials(t) PROVE RequestInv'
  BY <1>5, PairAssumption, ClientAssumption DEF RefreshAppCredentials, TypeOK, SessionInv,
     RefreshInv, RequestInv, RequestOf
<1>6. ASSUME NEW t \in Threads, Unauthenticated(t) PROVE RequestInv'
  BY <1>6, PairAssumption, ClientAssumption DEF Unauthenticated, TypeOK, SessionInv,
     RefreshInv, RequestInv, RequestOf
<1>7. ASSUME NEW t \in Threads, TakeClient(t) PROVE RequestInv'
  BY <1>7, PairAssumption, ClientAssumption DEF TakeClient, TypeOK, SessionInv, RefreshInv,
     RequestInv, RequestOf
<1>8. ASSUME NEW t \in Threads, TakeAuth(t) PROVE RequestInv'
  BY <1>8, PairAssumption, ClientAssumption DEF TakeAuth, TypeOK, SessionInv, RefreshInv,
     RequestInv, RequestOf
<1>9. ASSUME NEW t \in Threads, SendAccepted(t) PROVE RequestInv'
  BY <1>9, PairAssumption, ClientAssumption DEF SendAccepted, TypeOK, SessionInv,
     RefreshInv, RequestInv, RequestOf
<1>10. ASSUME NEW t \in Threads, SendFails(t) PROVE RequestInv'
  BY <1>10, PairAssumption, ClientAssumption DEF SendFails, TypeOK, SessionInv, RefreshInv,
     RequestInv, RequestOf
<1>11. ASSUME NEW t \in Threads, SendRejected(t) PROVE RequestInv'
  BY <1>11, PairAssumption, ClientAssumption DEF SendRejected, TypeOK, SessionInv,
     RefreshInv, RequestInv, RequestOf
<1>12. ASSUME NEW t \in Threads, RefreshLock(t) PROVE RequestInv'
  BY <1>12, PairAssumption, ClientAssumption DEF RefreshLock, TypeOK, SessionInv,
     RefreshInv, RequestInv, RequestOf
<1>13. ASSUME NEW t \in Threads, CheckPasses(t) PROVE RequestInv'
  BY <1>13, PairAssumption, ClientAssumption DEF CheckPasses, TypeOK, SessionInv,
     RefreshInv, RequestInv, RequestOf
<1>14. ASSUME NEW t \in Threads, Scrape(t) PROVE RequestInv'
  BY <1>14, PairAssumption, ClientAssumption, BundleAssumption DEF Scrape, TypeOK,
     SessionInv, RefreshInv, RequestInv, RequestOf
<1>15. ASSUME NEW t \in Threads, TakeFirst(t) PROVE RequestInv'
  BY <1>15, PairAssumption, ClientAssumption DEF TakeFirst, TypeOK, SessionInv, RefreshInv,
     RequestInv, RequestOf
<1>16. ASSUME NEW t \in Threads, ProbeAccepts(t) PROVE RequestInv'
  BY <1>16, PairAssumption, ClientAssumption DEF ProbeAccepts, TypeOK, SessionInv,
     RefreshInv, RequestInv, RequestOf
<1>17. ASSUME NEW t \in Threads, ProbeRejects(t) PROVE RequestInv'
  BY <1>17, PairAssumption, ClientAssumption DEF ProbeRejects, TypeOK, SessionInv,
     RefreshInv, RequestInv, RequestOf
<1>18. ASSUME NEW t \in Threads, OpenEnv(t) PROVE RequestInv'
  BY <1>18, PairAssumption, ClientAssumption DEF OpenEnv, TypeOK, SessionInv, RefreshInv,
     RequestInv, RequestOf
<1>19. ASSUME NEW t \in Threads, WriteEnv(t) PROVE RequestInv'
  BY <1>19, PairAssumption, ClientAssumption DEF WriteEnv, TypeOK, SessionInv, RefreshInv,
     RequestInv, RequestOf
<1>20. ASSUME NEW t \in Threads, FlushEnvLost(t) PROVE RequestInv'
  BY <1>20, PairAssumption, ClientAssumption DEF FlushEnvLost, TypeOK, SessionInv,
     RefreshInv, RequestInv, RequestOf
<1>21. ASSUME NEW t \in Threads, Adopt(t) PROVE RequestInv'
  BY <1>21, PairAssumption, ClientAssumption DEF Adopt, TypeOK, SessionInv, RefreshInv,
     RequestInv, RequestOf
<1>22. ASSUME NEW t \in Threads, Returned(t) PROVE RequestInv'
  <2>1. ASSUME NEW u \in Threads \ {t} PROVE RequestOf(u)'
    BY <1>22, <2>1 DEF Returned, TypeOK, SessionInv, RefreshInv, RequestInv, RequestOf
  <2>2. RequestOf(t)'
    BY <1>22, PairAssumption, ClientAssumption DEF Returned, TypeOK, SessionInv, RefreshInv,
       RequestInv, RequestOf
  <2>3. QED
    BY <2>1, <2>2 DEF RequestInv
<1>23. CASE SetCredentialsListener
  BY <1>23, PairAssumption, ClientAssumption DEF SetCredentialsListener, TypeOK, SessionInv,
     RefreshInv, RequestInv, RequestOf
<1>24. CASE SetAuthToken
  BY <1>24, PairAssumption, ClientAssumption DEF SetAuthToken, TypeOK, SessionInv,
     RefreshInv, RequestInv, RequestOf
<1>25. CASE Rotate
  BY <1>25, PairAssumption, ClientAssumption DEF Rotate, TypeOK, SessionInv, RefreshInv,
     RequestInv, RequestOf
<1>26. CASE UNCHANGED vars
  BY <1>26 DEF vars, TypeOK, SessionInv, RefreshInv, RequestInv, RequestOf
<1>27. QED
  BY <1>1, <1>2, <1>3, <1>4, <1>5, <1>6, <1>7, <1>8, <1>9, <1>10, <1>11, <1>12, <1>13,
     <1>14, <1>15, <1>16, <1>17, <1>18, <1>19, <1>20, <1>21, <1>22, <1>23, <1>24, <1>25,
     <1>26, ContinueReturned DEF Next, Start, Continue

\* A pair that was rejected is the current one until the swap.
LEMMA NextAuthInv == TypeOK /\ SessionInv /\ RefreshInv /\ RequestInv /\ AuthInv /\ [Next]_vars => AuthInv'
<1> SUFFICES ASSUME TypeOK, SessionInv, RefreshInv, RequestInv, AuthInv, [Next]_vars PROVE AuthInv'
  OBVIOUS
<1>1. ASSUME NEW t \in Threads, GetTrackFileUrl(t) PROVE AuthInv'
  BY <1>1, PairAssumption DEF GetTrackFileUrl, TypeOK, SessionInv, RefreshInv, RequestInv,
     AuthInv, RequestOf, AuthOf
<1>2. ASSUME NEW t \in Threads, SignedRequest(t) PROVE AuthInv'
  BY <1>2, PairAssumption DEF SignedRequest, TypeOK, SessionInv, RefreshInv, RequestInv,
     AuthInv, RequestOf, AuthOf
<1>3. ASSUME NEW t \in Threads, ApiGet(t) PROVE AuthInv'
  BY <1>3, PairAssumption DEF ApiGet, TypeOK, SessionInv, RefreshInv, RequestInv, AuthInv,
     RequestOf, AuthOf
<1>4. ASSUME NEW t \in Threads, FetchCover(t) PROVE AuthInv'
  BY <1>4, PairAssumption DEF FetchCover, TypeOK, SessionInv, RefreshInv, RequestInv,
     AuthInv, RequestOf, AuthOf
<1>5. ASSUME NEW t \in Threads, RefreshAppCredentials(t) PROVE AuthInv'
  BY <1>5, PairAssumption DEF RefreshAppCredentials, TypeOK, SessionInv, RefreshInv,
     RequestInv, AuthInv, RequestOf, AuthOf
<1>6. ASSUME NEW t \in Threads, Unauthenticated(t) PROVE AuthInv'
  BY <1>6, PairAssumption DEF Unauthenticated, TypeOK, SessionInv, RefreshInv, RequestInv,
     AuthInv, RequestOf, AuthOf
<1>7. ASSUME NEW t \in Threads, TakeClient(t) PROVE AuthInv'
  BY <1>7, PairAssumption DEF TakeClient, TypeOK, SessionInv, RefreshInv, RequestInv,
     AuthInv, RequestOf, AuthOf
<1>8. ASSUME NEW t \in Threads, TakeAuth(t) PROVE AuthInv'
  BY <1>8, PairAssumption DEF TakeAuth, TypeOK, SessionInv, RefreshInv, RequestInv, AuthInv,
     RequestOf, AuthOf
<1>9. ASSUME NEW t \in Threads, SendAccepted(t) PROVE AuthInv'
  BY <1>9, PairAssumption DEF SendAccepted, TypeOK, SessionInv, RefreshInv, RequestInv,
     AuthInv, RequestOf, AuthOf
<1>10. ASSUME NEW t \in Threads, SendFails(t) PROVE AuthInv'
  BY <1>10, PairAssumption DEF SendFails, TypeOK, SessionInv, RefreshInv, RequestInv,
     AuthInv, RequestOf, AuthOf
<1>11. ASSUME NEW t \in Threads, SendRejected(t) PROVE AuthInv'
  BY <1>11, PairAssumption DEF SendRejected, TypeOK, SessionInv, RefreshInv, RequestInv,
     AuthInv, RequestOf, AuthOf
<1>12. ASSUME NEW t \in Threads, RefreshLock(t) PROVE AuthInv'
  BY <1>12, PairAssumption DEF RefreshLock, TypeOK, SessionInv, RefreshInv, RequestInv,
     AuthInv, RequestOf, AuthOf
<1>13. ASSUME NEW t \in Threads, CheckPasses(t) PROVE AuthInv'
  BY <1>13, PairAssumption DEF CheckPasses, TypeOK, SessionInv, RefreshInv, RequestInv,
     AuthInv, RequestOf, AuthOf
<1>14. ASSUME NEW t \in Threads, Scrape(t) PROVE AuthInv'
  BY <1>14, PairAssumption, BundleAssumption DEF Scrape, TypeOK, SessionInv, RefreshInv,
     RequestInv, AuthInv, RequestOf, AuthOf
<1>15. ASSUME NEW t \in Threads, TakeFirst(t) PROVE AuthInv'
  BY <1>15, PairAssumption DEF TakeFirst, TypeOK, SessionInv, RefreshInv, RequestInv,
     AuthInv, RequestOf, AuthOf
<1>16. ASSUME NEW t \in Threads, ProbeAccepts(t) PROVE AuthInv'
  BY <1>16, PairAssumption DEF ProbeAccepts, TypeOK, SessionInv, RefreshInv, RequestInv,
     AuthInv, RequestOf, AuthOf
<1>17. ASSUME NEW t \in Threads, ProbeRejects(t) PROVE AuthInv'
  BY <1>17, PairAssumption DEF ProbeRejects, TypeOK, SessionInv, RefreshInv, RequestInv,
     AuthInv, RequestOf, AuthOf
<1>18. ASSUME NEW t \in Threads, OpenEnv(t) PROVE AuthInv'
  BY <1>18, PairAssumption DEF OpenEnv, TypeOK, SessionInv, RefreshInv, RequestInv, AuthInv,
     RequestOf, AuthOf
<1>19. ASSUME NEW t \in Threads, WriteEnv(t) PROVE AuthInv'
  BY <1>19, PairAssumption DEF WriteEnv, TypeOK, SessionInv, RefreshInv, RequestInv,
     AuthInv, RequestOf, AuthOf
<1>20. ASSUME NEW t \in Threads, FlushEnvLost(t) PROVE AuthInv'
  BY <1>20, PairAssumption DEF FlushEnvLost, TypeOK, SessionInv, RefreshInv, RequestInv,
     AuthInv, RequestOf, AuthOf
<1>21. ASSUME NEW t \in Threads, Adopt(t) PROVE AuthInv'
  BY <1>21, PairAssumption DEF Adopt, TypeOK, SessionInv, RefreshInv, RequestInv, AuthInv,
     RequestOf, AuthOf
<1>22. ASSUME NEW t \in Threads, Returned(t) PROVE AuthInv'
  <2>1. ASSUME NEW u \in Threads \ {t} PROVE AuthOf(u)'
    BY <1>22, <2>1 DEF Returned, TypeOK, SessionInv, RefreshInv, RequestInv, AuthInv,
       RequestOf, AuthOf
  <2>2. AuthOf(t)'
    BY <1>22, PairAssumption DEF Returned, TypeOK, SessionInv, RefreshInv, RequestInv,
       AuthInv, RequestOf, AuthOf
  <2>3. QED
    BY <2>1, <2>2 DEF AuthInv
<1>23. CASE SetCredentialsListener
  BY <1>23, PairAssumption DEF SetCredentialsListener, TypeOK, SessionInv, RefreshInv,
     RequestInv, AuthInv, RequestOf, AuthOf
<1>24. CASE SetAuthToken
  BY <1>24, PairAssumption DEF SetAuthToken, TypeOK, SessionInv, RefreshInv, RequestInv,
     AuthInv, RequestOf, AuthOf
<1>25. CASE Rotate
  BY <1>25, PairAssumption DEF Rotate, TypeOK, SessionInv, RefreshInv, RequestInv, AuthInv,
     RequestOf, AuthOf
<1>26. CASE UNCHANGED vars
  BY <1>26 DEF vars, TypeOK, SessionInv, RefreshInv, RequestInv, AuthInv, RequestOf, AuthOf
<1>27. QED
  BY <1>1, <1>2, <1>3, <1>4, <1>5, <1>6, <1>7, <1>8, <1>9, <1>10, <1>11, <1>12, <1>13,
     <1>14, <1>15, <1>16, <1>17, <1>18, <1>19, <1>20, <1>21, <1>22, <1>23, <1>24, <1>25,
     <1>26, ContinueReturned DEF Next, Start, Continue

\* A probe's word holds until Qobuz rotates.
LEMMA NextProbeInv == TypeOK /\ SessionInv /\ RefreshInv /\ MutexInv /\ ProbeInv /\ [Next]_vars => ProbeInv'
<1> SUFFICES ASSUME TypeOK, SessionInv, RefreshInv, MutexInv, ProbeInv, [Next]_vars PROVE ProbeInv'
  OBVIOUS
<1>1. ASSUME NEW t \in Threads, GetTrackFileUrl(t) PROVE ProbeInv'
  BY <1>1, BoundAssumption DEF GetTrackFileUrl, TypeOK, SessionInv, RefreshInv, MutexInv,
     ProbeInv, Never
<1>2. ASSUME NEW t \in Threads, SignedRequest(t) PROVE ProbeInv'
  BY <1>2, BoundAssumption DEF SignedRequest, TypeOK, SessionInv, RefreshInv, MutexInv,
     ProbeInv, Never
<1>3. ASSUME NEW t \in Threads, ApiGet(t) PROVE ProbeInv'
  BY <1>3, BoundAssumption DEF ApiGet, TypeOK, SessionInv, RefreshInv, MutexInv, ProbeInv,
     Never
<1>4. ASSUME NEW t \in Threads, FetchCover(t) PROVE ProbeInv'
  BY <1>4, BoundAssumption DEF FetchCover, TypeOK, SessionInv, RefreshInv, MutexInv,
     ProbeInv, Never
<1>5. ASSUME NEW t \in Threads, RefreshAppCredentials(t) PROVE ProbeInv'
  BY <1>5, BoundAssumption DEF RefreshAppCredentials, TypeOK, SessionInv, RefreshInv,
     MutexInv, ProbeInv, Never
<1>6. ASSUME NEW t \in Threads, Unauthenticated(t) PROVE ProbeInv'
  BY <1>6, BoundAssumption DEF Unauthenticated, TypeOK, SessionInv, RefreshInv, MutexInv,
     ProbeInv, Never
<1>7. ASSUME NEW t \in Threads, TakeClient(t) PROVE ProbeInv'
  BY <1>7, BoundAssumption DEF TakeClient, TypeOK, SessionInv, RefreshInv, MutexInv,
     ProbeInv, Never
<1>8. ASSUME NEW t \in Threads, TakeAuth(t) PROVE ProbeInv'
  BY <1>8, BoundAssumption DEF TakeAuth, TypeOK, SessionInv, RefreshInv, MutexInv, ProbeInv,
     Never
<1>9. ASSUME NEW t \in Threads, SendAccepted(t) PROVE ProbeInv'
  BY <1>9, BoundAssumption DEF SendAccepted, TypeOK, SessionInv, RefreshInv, MutexInv,
     ProbeInv, Never
<1>10. ASSUME NEW t \in Threads, SendFails(t) PROVE ProbeInv'
  BY <1>10, BoundAssumption DEF SendFails, TypeOK, SessionInv, RefreshInv, MutexInv,
     ProbeInv, Never
<1>11. ASSUME NEW t \in Threads, SendRejected(t) PROVE ProbeInv'
  BY <1>11, BoundAssumption DEF SendRejected, TypeOK, SessionInv, RefreshInv, MutexInv,
     ProbeInv, Never
<1>12. ASSUME NEW t \in Threads, RefreshLock(t) PROVE ProbeInv'
  BY <1>12, BoundAssumption DEF RefreshLock, TypeOK, SessionInv, RefreshInv, MutexInv,
     ProbeInv, Never
<1>13. ASSUME NEW t \in Threads, CheckPasses(t) PROVE ProbeInv'
  BY <1>13, BoundAssumption DEF CheckPasses, TypeOK, SessionInv, RefreshInv, MutexInv,
     ProbeInv, Never
<1>14. ASSUME NEW t \in Threads, Scrape(t) PROVE ProbeInv'
  BY <1>14, BoundAssumption, BundleAssumption DEF Scrape, TypeOK, SessionInv, RefreshInv,
     MutexInv, ProbeInv, Never
<1>15. ASSUME NEW t \in Threads, TakeFirst(t) PROVE ProbeInv'
  BY <1>15, BoundAssumption DEF TakeFirst, TypeOK, SessionInv, RefreshInv, MutexInv,
     ProbeInv, Never
<1>16. ASSUME NEW t \in Threads, ProbeAccepts(t) PROVE ProbeInv'
  BY <1>16, BoundAssumption DEF ProbeAccepts, TypeOK, SessionInv, RefreshInv, MutexInv,
     ProbeInv, Never
<1>17. ASSUME NEW t \in Threads, ProbeRejects(t) PROVE ProbeInv'
  BY <1>17, BoundAssumption DEF ProbeRejects, TypeOK, SessionInv, RefreshInv, MutexInv,
     ProbeInv, Never
<1>18. ASSUME NEW t \in Threads, OpenEnv(t) PROVE ProbeInv'
  BY <1>18, BoundAssumption DEF OpenEnv, TypeOK, SessionInv, RefreshInv, MutexInv, ProbeInv,
     Never
<1>19. ASSUME NEW t \in Threads, WriteEnv(t) PROVE ProbeInv'
  BY <1>19, BoundAssumption DEF WriteEnv, TypeOK, SessionInv, RefreshInv, MutexInv,
     ProbeInv, Never
<1>20. ASSUME NEW t \in Threads, FlushEnvLost(t) PROVE ProbeInv'
  BY <1>20, BoundAssumption DEF FlushEnvLost, TypeOK, SessionInv, RefreshInv, MutexInv,
     ProbeInv, Never
<1>21. ASSUME NEW t \in Threads, Adopt(t) PROVE ProbeInv'
  BY <1>21, BoundAssumption DEF Adopt, TypeOK, SessionInv, RefreshInv, MutexInv, ProbeInv,
     Never
<1>22. ASSUME NEW t \in Threads, Returned(t) PROVE ProbeInv'
  BY <1>22, BoundAssumption DEF Returned, TypeOK, SessionInv, RefreshInv, MutexInv,
     ProbeInv, Never
<1>23. CASE SetCredentialsListener
  BY <1>23, BoundAssumption DEF SetCredentialsListener, TypeOK, SessionInv, RefreshInv,
     MutexInv, ProbeInv, Never
<1>24. CASE SetAuthToken
  BY <1>24, BoundAssumption DEF SetAuthToken, TypeOK, SessionInv, RefreshInv, MutexInv,
     ProbeInv, Never
<1>25. CASE Rotate
  BY <1>25, BoundAssumption DEF Rotate, TypeOK, SessionInv, RefreshInv, MutexInv, ProbeInv,
     Never
<1>26. CASE UNCHANGED vars
  BY <1>26 DEF vars, TypeOK, SessionInv, RefreshInv, MutexInv, ProbeInv, Never
<1>27. QED
  BY <1>1, <1>2, <1>3, <1>4, <1>5, <1>6, <1>7, <1>8, <1>9, <1>10, <1>11, <1>12, <1>13,
     <1>14, <1>15, <1>16, <1>17, <1>18, <1>19, <1>20, <1>21, <1>22, <1>23, <1>24, <1>25,
     <1>26, ContinueReturned DEF Next, Start, Continue

\* .env is rewritten before the swap only.
LEMMA NextDiskInv ==
  ASSUME "flush" \notin WriteFaults
  PROVE  TypeOK /\ SessionInv /\ RefreshInv /\ MutexInv /\ DiskInv /\ [Next]_vars => DiskInv'
<1> SUFFICES ASSUME TypeOK, SessionInv, RefreshInv, MutexInv, DiskInv, [Next]_vars PROVE DiskInv'
  OBVIOUS
<1>1. ASSUME NEW t \in Threads, GetTrackFileUrl(t) PROVE DiskInv'
  BY <1>1 DEF GetTrackFileUrl, TypeOK, SessionInv, RefreshInv, MutexInv, DiskInv,
     DurableBeforeAdopt
<1>2. ASSUME NEW t \in Threads, SignedRequest(t) PROVE DiskInv'
  BY <1>2 DEF SignedRequest, TypeOK, SessionInv, RefreshInv, MutexInv, DiskInv,
     DurableBeforeAdopt
<1>3. ASSUME NEW t \in Threads, ApiGet(t) PROVE DiskInv'
  BY <1>3 DEF ApiGet, TypeOK, SessionInv, RefreshInv, MutexInv, DiskInv, DurableBeforeAdopt
<1>4. ASSUME NEW t \in Threads, FetchCover(t) PROVE DiskInv'
  BY <1>4 DEF FetchCover, TypeOK, SessionInv, RefreshInv, MutexInv, DiskInv,
     DurableBeforeAdopt
<1>5. ASSUME NEW t \in Threads, RefreshAppCredentials(t) PROVE DiskInv'
  BY <1>5 DEF RefreshAppCredentials, TypeOK, SessionInv, RefreshInv, MutexInv, DiskInv,
     DurableBeforeAdopt
<1>6. ASSUME NEW t \in Threads, Unauthenticated(t) PROVE DiskInv'
  BY <1>6 DEF Unauthenticated, TypeOK, SessionInv, RefreshInv, MutexInv, DiskInv,
     DurableBeforeAdopt
<1>7. ASSUME NEW t \in Threads, TakeClient(t) PROVE DiskInv'
  BY <1>7 DEF TakeClient, TypeOK, SessionInv, RefreshInv, MutexInv, DiskInv,
     DurableBeforeAdopt
<1>8. ASSUME NEW t \in Threads, TakeAuth(t) PROVE DiskInv'
  BY <1>8 DEF TakeAuth, TypeOK, SessionInv, RefreshInv, MutexInv, DiskInv,
     DurableBeforeAdopt
<1>9. ASSUME NEW t \in Threads, SendAccepted(t) PROVE DiskInv'
  BY <1>9 DEF SendAccepted, TypeOK, SessionInv, RefreshInv, MutexInv, DiskInv,
     DurableBeforeAdopt
<1>10. ASSUME NEW t \in Threads, SendFails(t) PROVE DiskInv'
  BY <1>10 DEF SendFails, TypeOK, SessionInv, RefreshInv, MutexInv, DiskInv,
     DurableBeforeAdopt
<1>11. ASSUME NEW t \in Threads, SendRejected(t) PROVE DiskInv'
  BY <1>11 DEF SendRejected, TypeOK, SessionInv, RefreshInv, MutexInv, DiskInv,
     DurableBeforeAdopt
<1>12. ASSUME NEW t \in Threads, RefreshLock(t) PROVE DiskInv'
  BY <1>12 DEF RefreshLock, TypeOK, SessionInv, RefreshInv, MutexInv, DiskInv,
     DurableBeforeAdopt
<1>13. ASSUME NEW t \in Threads, CheckPasses(t) PROVE DiskInv'
  BY <1>13 DEF CheckPasses, TypeOK, SessionInv, RefreshInv, MutexInv, DiskInv,
     DurableBeforeAdopt
<1>14. ASSUME NEW t \in Threads, Scrape(t) PROVE DiskInv'
  BY <1>14, BundleAssumption DEF Scrape, TypeOK, SessionInv, RefreshInv, MutexInv, DiskInv,
     DurableBeforeAdopt
<1>15. ASSUME NEW t \in Threads, TakeFirst(t) PROVE DiskInv'
  BY <1>15 DEF TakeFirst, TypeOK, SessionInv, RefreshInv, MutexInv, DiskInv,
     DurableBeforeAdopt
<1>16. ASSUME NEW t \in Threads, ProbeAccepts(t) PROVE DiskInv'
  BY <1>16 DEF ProbeAccepts, TypeOK, SessionInv, RefreshInv, MutexInv, DiskInv,
     DurableBeforeAdopt
<1>17. ASSUME NEW t \in Threads, ProbeRejects(t) PROVE DiskInv'
  BY <1>17 DEF ProbeRejects, TypeOK, SessionInv, RefreshInv, MutexInv, DiskInv,
     DurableBeforeAdopt
<1>18. ASSUME NEW t \in Threads, OpenEnv(t) PROVE DiskInv'
  BY <1>18 DEF OpenEnv, TypeOK, SessionInv, RefreshInv, MutexInv, DiskInv,
     DurableBeforeAdopt
<1>19. ASSUME NEW t \in Threads, WriteEnv(t) PROVE DiskInv'
  BY <1>19 DEF WriteEnv, TypeOK, SessionInv, RefreshInv, MutexInv, DiskInv,
     DurableBeforeAdopt
<1>20. ASSUME NEW t \in Threads, FlushEnvLost(t) PROVE DiskInv'
  BY <1>20 DEF FlushEnvLost, TypeOK, SessionInv, RefreshInv, MutexInv, DiskInv,
     DurableBeforeAdopt
<1>21. ASSUME NEW t \in Threads, Adopt(t) PROVE DiskInv'
  BY <1>21 DEF Adopt, TypeOK, SessionInv, RefreshInv, MutexInv, DiskInv, DurableBeforeAdopt
<1>22. ASSUME NEW t \in Threads, Returned(t) PROVE DiskInv'
  BY <1>22 DEF Returned, TypeOK, SessionInv, RefreshInv, MutexInv, DiskInv,
     DurableBeforeAdopt
<1>23. CASE SetCredentialsListener
  BY <1>23 DEF SetCredentialsListener, TypeOK, SessionInv, RefreshInv, MutexInv, DiskInv,
     DurableBeforeAdopt
<1>24. CASE SetAuthToken
  BY <1>24 DEF SetAuthToken, TypeOK, SessionInv, RefreshInv, MutexInv, DiskInv,
     DurableBeforeAdopt
<1>25. CASE Rotate
  BY <1>25 DEF Rotate, TypeOK, SessionInv, RefreshInv, MutexInv, DiskInv, DurableBeforeAdopt
<1>26. CASE UNCHANGED vars
  BY <1>26 DEF vars, TypeOK, SessionInv, RefreshInv, MutexInv, DiskInv, DurableBeforeAdopt
<1>27. QED
  BY <1>1, <1>2, <1>3, <1>4, <1>5, <1>6, <1>7, <1>8, <1>9, <1>10, <1>11, <1>12, <1>13,
     <1>14, <1>15, <1>16, <1>17, <1>18, <1>19, <1>20, <1>21, <1>22, <1>23, <1>24, <1>25,
     <1>26, ContinueReturned DEF Next, Start, Continue

-----------------------------------------------------------------------------
(* Theorems *)

\* The invariant holds initially.
LEMMA InitIInv == Init => IInv /\ DiskInv
<1> SUFFICES ASSUME Init PROVE IInv /\ DiskInv
  OBVIOUS
<1>1. TypeOK
  BY InitTypeOK
<1>2. MutexInv /\ SessionInv /\ RefreshInv
  BY ThreadAssumption DEF Init, MutexInv, SessionInv, RefreshInv
<1>3. RequestInv /\ AuthInv
  BY DEF Init, RequestInv, RequestOf, AuthInv, AuthOf
<1>4. ProbeInv /\ DiskInv
  BY BoundAssumption DEF Init, ProbeInv, DiskInv, DurableBeforeAdopt, Never
<1>5. QED
  BY <1>1, <1>2, <1>3, <1>4 DEF IInv

\* Every step keeps it.
LEMMA NextIInv == IInv /\ [Next]_vars => IInv'
  BY NextTypeOK, NextMutexInv, NextSessionInv, NextRefreshInv, NextRequestInv,
     NextAuthInv, NextProbeInv DEF IInv

\* The invariant of the whole protocol, the theorems below follow from it.
THEOREM Invariance == Spec => []IInv
  BY InitIInv, NextIInv, PTL DEF Spec

\* Every variable keeps its type; in particular no refresh adopts the empty
\* pair that a scrape without an accepted candidate leaves.
THEOREM TypeCorrectness == Spec => []TypeOK
  BY Invariance, PTL DEF IInv

\* References from http_client() are never left dangling by a swap.
THEOREM ReferencesAreValid == Spec => []ReferencesStayValid
<1>1. IInv => ReferencesStayValid
  BY DEF IInv, RequestInv, RequestOf, ReferencesStayValid
<1>2. QED
  BY <1>1, Invariance, PTL

\* Credentials are refreshed once per session.
THEOREM RefreshedOnce == Spec => []NoScrapeAfterRefresh
<1>1. IInv => NoScrapeAfterRefresh
  BY DEF IInv, RefreshInv, NoScrapeAfterRefresh
<1>2. QED
  BY <1>1, Invariance, PTL

\* The two separate locks of an attempt never pair a new client with an old
\* signature.
THEOREM SnapshotsAgree == Spec => []CurrentClientCurrentSignature
<1>1. IInv => CurrentClientCurrentSignature
  BY DEF IInv, RequestInv, RequestOf, CurrentClientCurrentSignature
<1>2. QED
  BY <1>1, Invariance, PTL

\* A healed getFileUrl is retried with the accepted pair.
THEOREM HealingIsFinal == Spec => []HealIsFinal
<1>1. IInv => HealIsFinal
  <2> SUFFICES ASSUME IInv, NEW t \in Threads,
                      pc[t] = "send", attempt[t] = 2, probed_at = rotations
               PROVE  auth[t] = live
    BY DEF HealIsFinal
  <2>1. op[t] = "url" /\ refreshed
    BY DEF IInv, AuthInv, AuthOf
  <2>2. auth[t] = app_pair
    BY <2>1 DEF IInv, AuthInv, AuthOf, RequestInv, RequestOf
  <2>3. QED
    BY <2>1, <2>2 DEF IInv, ProbeInv
<1>2. QED
  BY <1>1, Invariance, PTL

\* A call that returns from Finish without being healed signed with the pair
\* that is in memory.
LEMMA FinishUntried ==
  ASSUME IInv, NEW t \in Threads, pc[t] \in Inside, seen[t] = generation,
         NEW u \in Threads, Finish(t, FALSE),
         pc[u] # "idle", pc'[u] = "idle", result'[u] = "sig"
  PROVE  auth[u] = app_pair
<1>1. u = t /\ op[t] = "url"
  BY DEF Finish, IInv, TypeOK
<1>2. auth[t] # NoPair
  BY <1>1 DEF IInv, RequestInv, RequestOf
<1>3. QED
  BY <1>1, <1>2 DEF IInv, AuthInv, AuthOf

\* A signature error is only reported for the pair still in memory.
THEOREM NothingUntried == Spec => NoUntriedPair
<1> DEFINE Reports(u) == pc[u] # "idle" /\ pc'[u] = "idle" /\ result'[u] = "sig"
<1>1. ASSUME IInv, [Next]_vars, NEW u \in Threads, Reports(u)
      PROVE  auth[u] = app_pair
  <2> USE <1>1
  <2>1. ASSUME NEW t \in Threads, Start(t) PROVE FALSE
    BY <2>1 DEF Start, GetTrackFileUrl, SignedRequest, ApiGet, FetchCover,
               RefreshAppCredentials, Unauthenticated, IInv, TypeOK
  <2>2. ASSUME NEW t \in Threads, TakeClient(t) \/ TakeAuth(t) \/ SendAccepted(t) \/ SendFails(t)
        PROVE  FALSE
    BY <2>2 DEF TakeClient, TakeAuth, SendAccepted, SendFails, IInv, TypeOK
  <2>3. ASSUME NEW t \in Threads, SendRejected(t) PROVE auth[u] = app_pair
    <3>1. u = t /\ attempt[t] = 2 /\ op[t] = "url" /\ pc[t] = "send"
      BY <2>3 DEF SendRejected, IInv, TypeOK
    <3>2. QED
      BY <3>1 DEF IInv, AuthInv, AuthOf, RequestInv, RequestOf
  <2>4. ASSUME NEW t \in Threads,
               \/ RefreshLock(t) \/ Scrape(t) \/ TakeFirst(t) \/ ProbeAccepts(t)
               \/ ProbeRejects(t) \/ OpenEnv(t) \/ WriteEnv(t) \/ FlushEnvLost(t) \/ Adopt(t)
        PROVE  FALSE
    BY <2>4 DEF RefreshLock, Scrape, TakeFirst, ProbeAccepts, ProbeRejects, OpenEnv,
               WriteEnv, FlushEnvLost, Adopt, IInv, TypeOK
  <2>5. ASSUME NEW t \in Threads,
               \/ ScrapeFails(t) \/ ProbesExhausted(t) \/ OpenEnvFails(t) \/ WriteEnvFails(t)
        PROVE  auth[u] = app_pair
    <3>1. Finish(t, FALSE) /\ pc[t] \in {"scrape", "probe", "save", "write"}
      BY <2>5 DEF ScrapeFails, ProbesExhausted, OpenEnvFails, WriteEnvFails
    <3>2. seen[t] = generation
      BY <3>1 DEF IInv, RefreshInv
    <3>3. QED
      BY <3>1, <3>2, FinishUntried
  <2>6. ASSUME NEW t \in Threads, Finish(t, TRUE) PROVE FALSE
    BY <2>6 DEF Finish, IInv, TypeOK
  <2>7. ASSUME NEW t \in Threads, RefreshCheck(t) PROVE auth[u] = app_pair
    <3>1. CASE generation # seen[t] /\ Finish(t, TRUE)
      BY <3>1, <2>6
    <3>2. CASE generation = seen[t] /\ refreshed /\ Finish(t, FALSE)
      BY <2>7, <3>2, FinishUntried DEF RefreshCheck
    <3>3. CASE Goto(t, "scrape")
      BY <3>3 DEF IInv, TypeOK
    <3>4. QED
      BY <2>7, <3>1, <3>2, <3>3 DEF RefreshCheck
  <2>8. ASSUME NEW t \in Threads, Listen(t) PROVE FALSE
    BY <2>8, <2>6 DEF Listen
  <2>9. CASE SetCredentialsListener \/ SetAuthToken \/ Rotate \/ UNCHANGED vars
    BY <2>9 DEF SetCredentialsListener, SetAuthToken, Rotate, vars
  <2>10. QED
    BY <2>1, <2>2, <2>3, <2>4, <2>5, <2>7, <2>8, <2>9 DEF Next, Continue
<1>2. IInv /\ [Next]_vars =>
        [\A t \in Threads :
           pc[t] # "idle" /\ pc'[t] = "idle" /\ result'[t] = "sig" => auth[t] = app_pair]_vars
  BY <1>1
<1>3. QED
  BY <1>2, Invariance, PTL DEF Spec, NoUntriedPair

\* When a write that fails is always reported, .env holds the pair in memory as
\* soon as a refresh has landed.
THEOREM Durability ==
  ASSUME "flush" \notin WriteFaults
  PROVE  Spec => []DurableBeforeAdopt
<1>1. IInv /\ DiskInv /\ [Next]_vars => DiskInv'
  BY NextDiskInv DEF IInv
<1>2. DiskInv => DurableBeforeAdopt
  BY DEF DiskInv
<1>3. QED
  BY <1>1, <1>2, Invariance, InitIInv, PTL DEF Spec

\* Every step of the threads is a step of the pipeline, or none.
LEMMA HealStep ==
  ASSUME "flush" \notin WriteFaults
  PROVE  IInv /\ DiskInv /\ [Next]_vars => [Heal!Next]_(Heal!vars)
<1> SUFFICES ASSUME IInv, DiskInv, [Next]_vars PROVE [Heal!Next]_(Heal!vars)
  OBVIOUS
<1> DEFINE Stutter == UNCHANGED <<env, app_pair, host_pair, refreshed>>
<1>1. Stutter => UNCHANGED Heal!vars
  BY DEF Heal!vars
<1>2. ASSUME NEW t \in Threads, Start(t) PROVE Stutter
  BY <1>2 DEF Start, GetTrackFileUrl, SignedRequest, ApiGet, FetchCover,
             RefreshAppCredentials, Unauthenticated
<1>3. ASSUME NEW t \in Threads,
             \/ TakeClient(t) \/ TakeAuth(t) \/ SendAccepted(t) \/ SendFails(t) \/ SendRejected(t)
             \/ RefreshLock(t) \/ RefreshCheck(t) \/ Scrape(t) \/ ScrapeFails(t) \/ TakeFirst(t)
             \/ ProbeAccepts(t) \/ ProbeRejects(t) \/ ProbesExhausted(t)
             \/ OpenEnvFails(t) \/ WriteEnvFails(t) \/ FlushEnvLost(t)
      PROVE  Stutter
  BY <1>3 DEF TakeClient, TakeAuth, SendAccepted, SendFails, SendRejected, RefreshLock,
             RefreshCheck, Scrape, ScrapeFails, TakeFirst, ProbeAccepts, ProbeRejects,
             ProbesExhausted, OpenEnvFails, WriteEnvFails, FlushEnvLost
<1>4. ASSUME NEW t \in Threads, OpenEnv(t) PROVE Stutter \/ Heal!Truncate
  BY <1>4 DEF OpenEnv, Heal!Truncate, IInv, RefreshInv
<1>5. ASSUME NEW t \in Threads, WriteEnv(t) PROVE Heal!Write
  BY <1>5 DEF WriteEnv, Heal!Write, IInv, RefreshInv
<1>6. ASSUME NEW t \in Threads, Adopt(t) PROVE Heal!Swap
  BY <1>6 DEF Adopt, Heal!Swap, IInv, RefreshInv, DiskInv
<1>7. ASSUME NEW t \in Threads, Listen(t) PROVE Stutter \/ Heal!Tell
  BY <1>7 DEF Listen, Heal!Tell, IInv, RefreshInv
<1>8. CASE SetCredentialsListener \/ SetAuthToken \/ Rotate \/ UNCHANGED vars
  BY <1>8, <1>1 DEF SetCredentialsListener, SetAuthToken, Rotate, vars
<1>9. QED
  BY <1>1, <1>2, <1>3, <1>4, <1>5, <1>6, <1>7, <1>8 DEF Next, Continue, Heal!Next

\* The threads implement the pipeline: .env, then memory, then the host, once.
THEOREM Refinement ==
  ASSUME "flush" \notin WriteFaults
  PROVE  Spec => HealsOnce
<1>1. Init => Heal!Init
  BY DEF Init, Heal!Init
<1>2. IInv /\ DiskInv /\ [Next]_vars => DiskInv'
  BY NextDiskInv DEF IInv
<1>3. Spec => []DiskInv
  BY <1>2, Invariance, InitIInv, PTL DEF Spec
<1>4. QED
  BY <1>1, <1>3, HealStep, Invariance, PTL DEF Spec, HealsOnce, Heal!Spec
=============================================================================
