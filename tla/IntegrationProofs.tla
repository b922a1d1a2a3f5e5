--------------------------- MODULE IntegrationProofs ---------------------------
(***************************************************************************)
(* Proofs about Integration, for any set of locks and any number of changes *)
(* at the cloud.                                                           *)
(***************************************************************************)
EXTENDS Integration, TLAPS

\* Outside a setup that polls and the life of an entry there are no coordinators.
NoStrayCoordinators ==
    (entry \in {"not_loaded", "setup_retry", "setup_error"} \/ setup = "fetch")
        => coords = Nothing

\* While the coordinators are made, the cache is what they are made of.
SetupUsesCache ==
    setup = "first_polls" =>
        /\ locks = cache
        /\ ~NoLocks(locks)
        /\ DOMAIN coords \subseteq DOMAIN locks
        /\ \A uuid \in DOMAIN coords : coords[uuid] = locks[uuid]

\* A fetch has one reader: the setup, or the refresh of an entry that is set up.
OneReader ==
    /\ setup # "none" <=> entry = "setup"
    /\ refresh => entry \in {"loaded", "unloading", "failed_unload"}

\* Nothing is fetched before the login.
LoginIsFirst == fetch = "login" => fetched = Nothing

IntegrationInv ==
    /\ IntegrationTypeOK /\ NoStrayCoordinators /\ SetupUsesCache /\ OneReader
    /\ LoginIsFirst /\ TokensAgree

-------------------------------------------------------------------------------
\* An answer that is put together lock by lock is made of the account's locks.
LEMMA WithFinds ==
    ASSUME NEW found, Finds(found), NEW uuid \in Locks, NEW creds \in Credentials
    PROVE  /\ Finds(With(found, uuid, creds))
           /\ DOMAIN With(found, uuid, creds) = DOMAIN found \cup {uuid}
  BY DEF Finds, With, Range

\* Nothing is what a fetch, a cache or a set of coordinators begins as.
LEMMA NothingFinds == Finds(Nothing) /\ NoLocks(Nothing) /\ DOMAIN Nothing = {}
  BY DEF Finds, Nothing, NoLocks, Range

LEMMA InitInv == IntegrationInit => IntegrationInv
  <1> SUFFICES ASSUME IntegrationInit PROVE IntegrationInv
    OBVIOUS
  <1>1. Finds(account) /\ changes \in 0 .. MaxChanges
    BY BoundAssumption DEF IntegrationInit, Finds, Range, Credentials
  <1> QED
    BY <1>1, NothingFinds DEF IntegrationInit, IntegrationInv, IntegrationTypeOK,
      NoStrayCoordinators, SetupUsesCache, OneReader, LoginIsFirst, TokensAgree

\* What the cloud does to the account leaves it an account.
LEMMA CloudInv == IntegrationInv /\ CloudChanges => IntegrationInv'
  <1> SUFFICES ASSUME IntegrationInv, CloudChanges PROVE IntegrationInv'
    OBVIOUS
  <1>1. changes' \in 0 .. MaxChanges
    BY BoundAssumption DEF IntegrationInv, IntegrationTypeOK, CloudChanges
  <1>2. Finds(account')
    <2>1. PICK uuid \in Locks :
            \/ /\ uuid \in DOMAIN account
               /\ \/ account' = With(account, uuid, [account[uuid] EXCEPT !.token = changes'])
                  \/ account' = With(account, uuid, [account[uuid] EXCEPT !.details = changes'])
                  \/ account' = Restrict(account, DOMAIN account \ {uuid})
            \/ /\ uuid \notin DOMAIN account
               /\ account' = With(account, uuid, [token |-> changes', details |-> changes'])
      BY DEF CloudChanges
    <2>2. Finds(account)
      BY DEF IntegrationInv, IntegrationTypeOK
    <2>3. uuid \in DOMAIN account => account[uuid] \in Credentials
      BY <2>2 DEF Finds, Range
    <2>4. uuid \in DOMAIN account =>
            /\ [account[uuid] EXCEPT !.token = changes'] \in Credentials
            /\ [account[uuid] EXCEPT !.details = changes'] \in Credentials
      BY <1>1, <2>3 DEF Credentials
    <2>5. [token |-> changes', details |-> changes'] \in Credentials
      BY <1>1 DEF Credentials
    <2>6. Finds(Restrict(account, DOMAIN account \ {uuid}))
      BY <2>2 DEF Finds, Range, Restrict
    <2>7. \A creds \in Credentials : Finds(With(account, uuid, creds))
      BY <2>2, WithFinds
    <2> QED
      BY <2>1, <2>4, <2>5, <2>6, <2>7
  <1> QED
    BY <1>1, <1>2 DEF IntegrationInv, IntegrationTypeOK, CloudChanges, NoStrayCoordinators,
      SetupUsesCache, OneReader, LoginIsFirst, TokensAgree, setupVars, fetchVars, Finds, NoLocks

\* The fetch touches nothing but itself.
LEMMA FetchInv == IntegrationInv /\ (Login \/ FetchLock \/ FetchRaises) => IntegrationInv'
  <1> SUFFICES ASSUME IntegrationInv, Login \/ FetchLock \/ FetchRaises PROVE IntegrationInv'
    OBVIOUS
  <1> USE DEF IntegrationInv, IntegrationTypeOK, NoStrayCoordinators, SetupUsesCache, OneReader,
              LoginIsFirst, TokensAgree, cloudVars, setupVars, NoLocks
  <1>1. CASE Login
    <2>1. DOMAIN fetched' \subseteq listed'
      BY <1>1, NothingFinds DEF Login
    <2>2. listed' \subseteq Locks
      BY <1>1 DEF Login, Finds
    <2> QED
      BY <1>1, <2>1, <2>2 DEF Login
  <1>2. CASE FetchLock
    <2>1. PICK uuid \in listed \ DOMAIN fetched :
            uuid \in DOMAIN account /\ fetched' = With(fetched, uuid, account[uuid])
      BY <1>2 DEF FetchLock
    <2>2. account[uuid] \in Credentials
      BY <2>1 DEF Finds, Range
    <2>3. uuid \in Locks /\ Finds(fetched)
      OBVIOUS
    <2>4. /\ Finds(With(fetched, uuid, account[uuid]))
          /\ DOMAIN With(fetched, uuid, account[uuid]) = DOMAIN fetched \cup {uuid}
      BY <2>2, <2>3, WithFinds
    <2>5. Finds(fetched') /\ DOMAIN fetched' \subseteq listed
      BY <2>1, <2>4
    <2> QED
      BY <1>2, <2>5 DEF FetchLock
  <1>3. CASE FetchRaises
    BY <1>3 DEF FetchRaises, Finds
  <1> QED
    BY <1>1, <1>2, <1>3

\* A setup that asks the cloud has no coordinators; one that does not uses the cache.
LEMMA SetupInv == IntegrationInv /\ (SetupEntry \/ SetupStep) => IntegrationInv'
  <1> SUFFICES ASSUME IntegrationInv, SetupEntry \/ SetupStep PROVE IntegrationInv'
    OBVIOUS
  <1> USE DEF IntegrationInv, IntegrationTypeOK, NoStrayCoordinators, SetupUsesCache, OneReader,
              LoginIsFirst, TokensAgree, cloudVars, StartFetch, NoFetch, IsUsable, Store
  <1>1. CASE SetupEntry
    <2>1. CASE NeedsFetch
      BY <1>1, <2>1, NothingFinds DEF SetupEntry, NeedsFetch
    <2>2. CASE ~NeedsFetch
      BY <1>1, <2>2, NothingFinds DEF SetupEntry, NeedsFetch, fetchVars
    <2> QED
      BY <2>1, <2>2
  <1>2. CASE SetupFails
    BY <1>2, NothingFinds DEF SetupFails
  <1>3. CASE SetupFetched
    BY <1>3, NothingFinds DEF SetupFetched
  <1>4. CASE FirstPoll
    <2>1. PICK uuid \in DOMAIN locks \ DOMAIN coords :
            coords' = With(coords, uuid, locks[uuid])
      BY <1>4 DEF FirstPoll
    <2>2. uuid \in Locks /\ locks[uuid] \in Credentials /\ Finds(coords)
      BY DEF Finds, Range
    <2>3. Finds(coords') /\ DOMAIN coords' = DOMAIN coords \cup {uuid}
      BY <2>1, <2>2, WithFinds
    <2>4. \A u \in DOMAIN coords' : coords'[u] = locks[u]
      BY <1>4, <2>1, <2>3 DEF FirstPoll, With
    <2> QED
      BY <1>4, <2>3, <2>4 DEF FirstPoll, setupVars, fetchVars
  <1>5. CASE SetupDone
    <2>1. ~NoLocks(coords)
      BY <1>5 DEF SetupDone, NoLocks
    <2>2. CASE background
      BY <1>5, <2>1, <2>2, NothingFinds DEF SetupDone
    <2>3. CASE ~background
      BY <1>5, <2>1, <2>3 DEF SetupDone, fetchVars
    <2> QED
      BY <2>2, <2>3
  <1> QED
    BY <1>1, <1>2, <1>3, <1>4, <1>5 DEF SetupStep

\* The refresh changes the cache and the coordinators together.
LEMMA RefreshInv == IntegrationInv /\ (RefreshRaised \/ RefreshFetched) => IntegrationInv'
  <1> SUFFICES ASSUME IntegrationInv, RefreshRaised \/ RefreshFetched PROVE IntegrationInv'
    OBVIOUS
  <1> USE DEF IntegrationInv, IntegrationTypeOK, NoStrayCoordinators, SetupUsesCache, OneReader,
              LoginIsFirst, TokensAgree, cloudVars, setupVars, NoFetch, Store
  <1>1. CASE RefreshRaised
    BY <1>1, NothingFinds DEF RefreshRaised
  <1>2. CASE RefreshFetched /\ ~IsUsable(fetched)
    BY <1>2, NothingFinds DEF RefreshFetched
  <1>3. CASE RefreshFetched /\ IsUsable(fetched)
    <2>1. /\ cache' = fetched
          /\ coords' = [uuid \in DOMAIN coords |->
                          IF uuid \in DOMAIN fetched /\ IsRefreshed(fetched[uuid], coords[uuid])
                          THEN fetched[uuid] ELSE coords[uuid]]
      BY <1>3 DEF RefreshFetched
    <2>2. Finds(coords') /\ DOMAIN coords' = DOMAIN coords
      BY <2>1 DEF Finds, Range
    <2>3. \A uuid \in DOMAIN coords' \cap DOMAIN cache' :
             coords'[uuid].token = cache'[uuid].token
      BY <2>1, <2>2 DEF IsRefreshed
    <2> QED
      BY <1>3, <2>1, <2>2, <2>3, NothingFinds DEF RefreshFetched, NoLocks
  <1> QED
    BY <1>1, <1>2, <1>3

\* Whoever ends an entry ends its refresh and its coordinators with it.
LEMMA EndInv == IntegrationInv /\ (Unload \/ Unloaded \/ UnloadFails \/ Restart) => IntegrationInv'
  <1> SUFFICES ASSUME IntegrationInv, Unload \/ Unloaded \/ UnloadFails \/ Restart
               PROVE  IntegrationInv'
    OBVIOUS
  <1> USE DEF IntegrationInv, IntegrationTypeOK, NoStrayCoordinators, SetupUsesCache, OneReader,
              LoginIsFirst, TokensAgree, cloudVars, NoFetch
  <1>1. CASE Unload
    BY <1>1 DEF Unload, fetchVars
  <1>2. CASE Unloaded
    BY <1>2, NothingFinds DEF Unloaded
  <1>3. CASE UnloadFails
    BY <1>3 DEF UnloadFails, fetchVars
  <1>4. CASE Restart
    BY <1>4, NothingFinds DEF Restart
  <1> QED
    BY <1>1, <1>2, <1>3, <1>4

LEMMA StepInv == IntegrationInv /\ [IntegrationNext]_ivars => IntegrationInv'
  <1> SUFFICES ASSUME IntegrationInv, [IntegrationNext]_ivars PROVE IntegrationInv'
    OBVIOUS
  <1>1. CASE UNCHANGED ivars
    BY <1>1 DEF ivars, cloudVars, setupVars, fetchVars, IntegrationInv, IntegrationTypeOK,
      NoStrayCoordinators, SetupUsesCache, OneReader, LoginIsFirst, TokensAgree, Finds, NoLocks
  <1> QED
    BY <1>1, CloudInv, FetchInv, SetupInv, RefreshInv, EndInv DEF IntegrationNext

-------------------------------------------------------------------------------
\* The entry, its cache, its coordinators and its fetch fit together, whenever the
\* account changes and Home Assistant unloads or restarts (__init__.py:60-131).
THEOREM IntegrationInvariant == IntegrationSpec => []IntegrationInv
  <1> QED BY InitInv, StepInv, PTL DEF IntegrationSpec

\* Type correctness of setup, refresh and unload.
THEOREM IntegrationTypeCorrect == IntegrationSpec => []IntegrationTypeOK
  <1>1. IntegrationInv => IntegrationTypeOK
    BY DEF IntegrationInv
  <1> QED BY <1>1, IntegrationInvariant, PTL

\* A coordinator never goes on with a token the cache knows to be outdated
\* (__init__.py:112-124).
THEOREM TokensAlwaysAgree == IntegrationSpec => []TokensAgree
  <1>1. IntegrationInv => TokensAgree
    BY DEF IntegrationInv
  <1> QED BY <1>1, IntegrationInvariant, PTL

\* Cached keys are never given up for nothing (__init__.py:76-78, 104-112).
THEOREM KeysAlwaysSurvive == IntegrationSpec => KeysSurvive
  <1>1. IntegrationInv /\ [IntegrationNext]_ivars => [~NoLocks(cache) => ~NoLocks(cache')]_ivars
    BY DEF IntegrationNext, SetupStep, CloudChanges, Login, FetchLock, FetchRaises, SetupEntry,
      SetupFails, SetupFetched, FirstPoll, SetupDone, RefreshRaised, RefreshFetched, Unload,
      Unloaded, UnloadFails, Restart, IsUsable, Store, NoLocks
  <1> QED BY <1>1, IntegrationInvariant, PTL DEF IntegrationSpec, KeysSurvive

\* A lock leaves the cache only if it has left the account's list (cloud.py:96-125).
THEOREM OnlyTheGoneAreForgotten == IntegrationSpec => ForgetsOnlyTheGone
  <1>1. IntegrationInv /\ [IntegrationNext]_ivars =>
          [(DOMAIN cache \ DOMAIN cache') \cap listed = {}]_ivars
    BY DEF IntegrationNext, SetupStep, CloudChanges, Login, FetchLock, FetchRaises, SetupEntry,
      SetupFails, SetupFetched, FirstPoll, SetupDone, RefreshRaised, RefreshFetched, Unload,
      Unloaded, UnloadFails, Restart, FetchDone, Store
  <1> QED BY <1>1, IntegrationInvariant, PTL DEF IntegrationSpec, ForgetsOnlyTheGone
===============================================================================
