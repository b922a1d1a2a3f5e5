------------------------------- MODULE Integration -------------------------------
(***************************************************************************)
(* Setting up, refreshing and unloading the config entry of one Wyze       *)
(* account: async_setup_entry, _refresh_tokens and async_unload_entry, with *)
(* the key fetch of cloud.py.  The coordinators appear as the credentials  *)
(* each of them uses.                                                      *)
(*                                                                         *)
(* The cloud and Home Assistant are external.  The cloud changes while a   *)
(* fetch is under way; Home Assistant starts, retries, unloads and restarts *)
(* when it pleases, and saves an entry's data before it restarts.          *)
(***************************************************************************)
EXTENDS Naturals, Functions

CONSTANTS
    Locks,          \* uuids of locks the account may have
    MaxChanges      \* bound on the changes at the cloud

ASSUME BoundAssumption == MaxChanges \in Nat

VARIABLES
    account,    \* the cloud's locks of the account, with their credentials
    changes,    \* how many changes the cloud has seen
    cache,      \* entry.data["cached_locks"], by uuid
    entry,      \* the entry's state in Home Assistant
    setup,      \* the await async_setup_entry is suspended at, "none" outside it
    locks,      \* its local `locks`
    background, \* its local `refresh_in_background`
    coords,     \* credentials in use, by the coordinators that exist
    refresh,    \* is _refresh_tokens waiting for its fetch?
    fetch,      \* how far the awaited fetch is
    listed,     \* the locks in its device list
    fetched     \* the credentials it has got

cloudVars == <<account, changes>>
setupVars == <<entry, setup, locks, background>>
fetchVars == <<fetch, listed, fetched>>
ivars     == <<cloudVars, cache, setupVars, coords, refresh, fetchVars>>

Nothing == [uuid \in {} |-> 0]
NoLocks(found) == DOMAIN found = {}

\* What the cloud knows of a lock: the pair of id and token, and everything else
\* (nickname, versions, serial, address); each is a version number.
Credentials == [token : 0 .. MaxChanges, details : 0 .. MaxChanges]
Finds(found) == DOMAIN found \subseteq Locks /\ Range(found) \subseteq Credentials

IntegrationInit ==
    /\ \E owned \in SUBSET Locks :
          account = [uuid \in owned |-> [token |-> 0, details |-> 0]]
    /\ changes = 0
    /\ cache = Nothing
    /\ entry = "not_loaded"
    /\ setup = "none"
    /\ locks = Nothing
    /\ background = FALSE
    /\ coords = Nothing
    /\ refresh = FALSE
    /\ fetch = "none"
    /\ listed = {}
    /\ fetched = Nothing

-------------------------------------------------------------------------------
(***************************************************************************)
(* The cloud.                                                              *)
(***************************************************************************)
With(found, uuid, creds) ==
    [u \in DOMAIN found \cup {uuid} |-> IF u = uuid THEN creds ELSE found[u]]

CloudChanges ==
    /\ changes < MaxChanges
    /\ changes' = changes + 1
    /\ \E uuid \in Locks :
          \/ /\ uuid \in DOMAIN account
             /\ \/ account' = With(account, uuid, [account[uuid] EXCEPT !.token = changes'])
                \/ account' = With(account, uuid, [account[uuid] EXCEPT !.details = changes'])
                \/ account' = Restrict(account, DOMAIN account \ {uuid})
          \/ /\ uuid \notin DOMAIN account
             /\ account' = With(account, uuid, [token |-> changes', details |-> changes'])
    /\ UNCHANGED <<cache, setupVars, coords, refresh, fetchVars>>

(***************************************************************************)
(* fetch_locks_blocking, in a thread: log in, list the devices, then ask   *)
(* for the details of one lock after the other.  Any of it may raise, and  *)
(* asking for a lock that has gone meanwhile does.                         *)
(***************************************************************************)
StartFetch == fetch' = "login" /\ listed' = {} /\ fetched' = Nothing
NoFetch    == fetch' = "none" /\ listed' = {} /\ fetched' = Nothing

Login ==
    /\ fetch = "login"
    /\ fetch' = "locks"
    /\ listed' = DOMAIN account
    /\ UNCHANGED <<fetched, cloudVars, cache, setupVars, coords, refresh>>

FetchLock ==
    /\ fetch = "locks"
    /\ \E uuid \in listed \ DOMAIN fetched :
          /\ uuid \in DOMAIN account
          /\ fetched' = With(fetched, uuid, account[uuid])
    /\ UNCHANGED <<fetch, listed, cloudVars, cache, setupVars, coords, refresh>>

FetchRaises ==
    /\ fetch \in {"login", "locks"}
    /\ fetch' = "raised"
    /\ UNCHANGED <<listed, fetched, cloudVars, cache, setupVars, coords, refresh>>

\* A bug: locks without details are left out.
SomeFetched == fetch = "locks"
FetchDone   == fetch = "locks" /\ DOMAIN fetched = listed

\* A bug: an account without locks is taken for an answer.
AnyAnswer(found) == TRUE
IsUsable(found)  == ~NoLocks(found)

-------------------------------------------------------------------------------
(***************************************************************************)
(* async_setup_entry                                                       *)
(***************************************************************************)
\* A bug: the cloud is asked although there are cached keys.
CloudFirst == TRUE
NeedsFetch == NoLocks(cache)

SetupEntry ==
    /\ entry \in {"not_loaded", "setup_retry", "setup_error"}
    /\ entry' = "setup"
    /\ background' = ~NeedsFetch
    /\ IF NeedsFetch
       THEN setup' = "fetch" /\ StartFetch /\ UNCHANGED locks
       ELSE setup' = "first_polls" /\ locks' = cache /\ UNCHANGED fetchVars
    /\ UNCHANGED <<cloudVars, cache, coords, refresh>>

\* _store_cache
Store(found) == cache' = found

\* Only the message of the exception tells a refused login, which ends all
\* attempts, from a cloud that does not answer.
SetupFails ==
    /\ setup = "fetch"
    /\ \/ fetch = "raised" /\ entry' \in {"setup_error", "setup_retry"}
       \/ FetchDone /\ ~IsUsable(fetched) /\ entry' = "setup_retry"
    /\ setup' = "none"
    /\ NoFetch
    /\ UNCHANGED <<locks, background, cloudVars, cache, coords, refresh>>

SetupFetched ==
    /\ setup = "fetch"
    /\ FetchDone
    /\ IsUsable(fetched)
    /\ Store(fetched)
    /\ locks' = fetched
    /\ setup' = "first_polls"
    /\ NoFetch
    /\ UNCHANGED <<entry, background, cloudVars, coords, refresh>>

\* A coordinator and its first poll, which may fail without consequence.
FirstPoll ==
    /\ setup = "first_polls"
    /\ \E uuid \in DOMAIN locks \ DOMAIN coords :
          coords' = With(coords, uuid, locks[uuid])
    /\ UNCHANGED <<setupVars, cloudVars, cache, refresh, fetchVars>>

\* The coordinators are put in hass.data and the platforms set up.
SetupDone ==
    /\ setup = "first_polls"
    /\ DOMAIN coords = DOMAIN locks
    /\ setup' = "none"
    /\ entry' = "loaded"
    /\ refresh' = background
    /\ IF background THEN StartFetch ELSE UNCHANGED fetchVars
    /\ UNCHANGED <<locks, background, cloudVars, cache, coords>>

-------------------------------------------------------------------------------
(***************************************************************************)
(* _refresh_tokens                                                         *)
(***************************************************************************)
RefreshRaised ==
    /\ refresh
    /\ fetch = "raised"
    /\ refresh' = FALSE
    /\ NoFetch
    /\ UNCHANGED <<cloudVars, cache, setupVars, coords>>

\* A bug: the token is not compared.
DetailsChanged(a, b) == a.details # b.details
IsRefreshed(a, b)    == a.token # b.token

RefreshFetched ==
    /\ refresh
    /\ FetchDone
    /\ IF IsUsable(fetched)
       THEN /\ Store(fetched)
            /\ coords' = [uuid \in DOMAIN coords |->
                            IF uuid \in DOMAIN fetched /\ IsRefreshed(fetched[uuid], coords[uuid])
                            THEN fetched[uuid] ELSE coords[uuid]]
       ELSE UNCHANGED <<cache, coords>>
    /\ refresh' = FALSE
    /\ NoFetch
    /\ UNCHANGED <<cloudVars, setupVars>>

-------------------------------------------------------------------------------
(***************************************************************************)
(* async_unload_entry, and the end of Home Assistant.                      *)
(***************************************************************************)
Unload ==
    /\ entry = "loaded"
    /\ entry' = "unloading"
    /\ UNCHANGED <<setup, locks, background, cloudVars, cache, coords, refresh, fetchVars>>

\* The refresh goes on until the platforms are unloaded, and is then cancelled.
Unloaded ==
    /\ entry = "unloading"
    /\ entry' = "not_loaded"
    /\ coords' = Nothing
    /\ refresh' = FALSE
    /\ NoFetch
    /\ UNCHANGED <<setup, locks, background, cloudVars, cache>>

UnloadFails ==
    /\ entry = "unloading"
    /\ entry' = "failed_unload"
    /\ UNCHANGED <<setup, locks, background, cloudVars, cache, coords, refresh, fetchVars>>

Restart ==
    /\ entry # "not_loaded"
    /\ entry' = "not_loaded"
    /\ setup' = "none"
    /\ locks' = Nothing
    /\ background' = FALSE
    /\ coords' = Nothing
    /\ refresh' = FALSE
    /\ NoFetch
    /\ UNCHANGED <<cloudVars, cache>>

SetupStep == SetupFails \/ SetupFetched \/ FirstPoll \/ SetupDone

IntegrationNext ==
    \/ CloudChanges \/ Login \/ FetchLock \/ FetchRaises
    \/ SetupEntry \/ SetupStep
    \/ RefreshRaised \/ RefreshFetched
    \/ Unload \/ Unloaded \/ UnloadFails \/ Restart

IntegrationSpec == IntegrationInit /\ [][IntegrationNext]_ivars

\* A setup that has what it waits for goes on.  The cloud need never answer.
FairIntegration == IntegrationSpec /\ WF_ivars(SetupStep)

-------------------------------------------------------------------------------
IntegrationTypeOK ==
    /\ Finds(account) /\ Finds(cache) /\ Finds(locks) /\ Finds(coords) /\ Finds(fetched)
    /\ changes \in 0 .. MaxChanges
    /\ entry \in {"not_loaded", "setup", "setup_retry", "setup_error", "loaded",
                  "unloading", "failed_unload"}
    /\ setup \in {"none", "fetch", "first_polls"}
    /\ background \in BOOLEAN /\ refresh \in BOOLEAN
    /\ fetch \in {"none", "login", "locks", "raised"}
    /\ listed \subseteq Locks /\ DOMAIN fetched \subseteq listed
    /\ fetch = "none" <=> setup # "fetch" /\ ~refresh
    /\ entry = "loaded" => ~NoLocks(coords)

\* Once keys are cached, setup needs no cloud: it neither fails nor waits for one
\* that does not answer (__init__.py:61-66).
LoadsFromCache ==
    (entry = "setup" /\ ~NoLocks(cache)) ~> (entry \in {"loaded", "not_loaded"})

\* A set of keys is never given up for nothing, however the account and the
\* refresh go (__init__.py:76-78, 104-112).
KeysSurvive == [][~NoLocks(cache) => ~NoLocks(cache')]_ivars

\* A lock is dropped from the cache only if the cloud's list no longer has it: a
\* fetch that got only some of the locks is no fetch (cloud.py:96-125).
ForgetsOnlyTheGone == [][(DOMAIN cache \ DOMAIN cache') \cap listed = {}]_ivars

\* A coordinator never goes on with a token that the cache knows to be outdated,
\* whenever the refresh comes in between (__init__.py:112-124).
TokensAgree ==
    \A uuid \in DOMAIN coords \cap DOMAIN cache : coords[uuid].token = cache[uuid].token
===============================================================================
