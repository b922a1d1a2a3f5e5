--------------------------------- MODULE Probe ---------------------------------
(***************************************************************************)
(* A command-line tool's session with the lock, as far as gatt_dump.py and *)
(* challenge_probe.py share it: connect, make GATT calls one after         *)
(* another, listen, disconnect.  bleak and the lock's link are external.   *)
(***************************************************************************)
EXTENDS Naturals, Sequences

CONSTANTS Table     \* the lock's characteristics in order: uuid and props

VARIABLES
    at,             \* the await the tool is suspended at
    asked,          \* history: the GATT calls of the session
    todo,           \* calls still to make; the first is the one awaited
    outcomes,       \* by call: has it returned or raised?
    link,           \* is the lock connected?
    disconnected,   \* the event
    lost,           \* history: did the lock drop the link before the tool did?
    result          \* nothing, or the value of disconnected_early

probeVars == <<at, asked, todo, outcomes, link, disconnected, lost, result>>

Call(name, uuid) == [call |-> name, uuid |-> uuid]

\* The calls of one kind that the characteristics allow.
CallsOf(name, char) == IF name \in char.props THEN <<Call(name, char.uuid)>> ELSE <<>>

ProbeInit(calls) ==
    /\ at = "connect"
    /\ asked = calls
    /\ todo = calls
    /\ outcomes = [c \in {} |-> "ok"]
    /\ link = FALSE
    /\ disconnected = FALSE
    /\ lost = FALSE
    /\ result = <<>>

\* _on_disconnect.  A bug: it only says so.
OnlyPrinted  == disconnected
OnDisconnect == TRUE

LockDrops ==
    /\ link
    /\ link' = FALSE
    /\ disconnected' = OnDisconnect
    /\ lost' = (lost \/ at \notin {"disconnect", "abort"})
    /\ UNCHANGED <<at, asked, todo, outcomes, result>>

\* Not found, or no connection.
ConnectFails ==
    /\ at = "connect"
    /\ at' = "exit"
    /\ UNCHANGED <<asked, todo, outcomes, link, disconnected, lost, result>>

\* The call awaited returns, which takes a link, or raises.
Returned(outcome) ==
    /\ outcome = "ok" => link
    /\ outcomes' = [c \in DOMAIN outcomes \cup {Head(todo)} |->
                        IF c = Head(todo) THEN outcome ELSE outcomes[c]]

\* wait_for(disconnected.wait(), ...).  A bug: no timeout.
OnlyDisconnected == disconnected
ListeningEnds    == TRUE

(***************************************************************************)
(* The `finally`, on the way of a result or of an exception.  Some backends *)
(* of bleak call _on_disconnect here, too.                                 *)
(***************************************************************************)
Finally(place) ==
    /\ at = place
    /\ at' = "exit"
    /\ link' = FALSE
    /\ disconnected' \in {disconnected, OnDisconnect}
    /\ UNCHANGED <<asked, todo, outcomes, lost>>

Aborted == Finally("abort") /\ UNCHANGED result

\* Ctrl+C cancels the tool wherever it is.  The request to disconnect is under way before
\* it is waited for.  A bug: no `finally`.
NoFinally(place)    == "exit"
AfterCancel(place)  == IF place \in {"call", "listen", "stop"} THEN "abort" ELSE "exit"
Cancelled ==
    /\ at # "exit"
    /\ at' = AfterCancel(at)
    /\ link' = (link /\ at \notin {"disconnect", "abort"})
    /\ result' = <<>>
    /\ UNCHANGED <<asked, todo, outcomes, disconnected, lost>>

-------------------------------------------------------------------------------
\* However a tool ends, Ctrl+C and lost links included, the lock can be connected to
\* again (gatt_dump.py:178-182, challenge_probe.py:118-122).
ProbeReleases == at = "exit" => ~link

\* A link that the lock dropped is reported (gatt_dump.py:105-107,
\* 176, challenge_probe.py:51-53, 130).
DropIsReported == (at = "exit" /\ result # <<>> /\ lost) => result[1]
===============================================================================
