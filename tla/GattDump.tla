-------------------------------- MODULE GattDump --------------------------------
(***************************************************************************)
(* scripts/gatt_dump.py, dump_device: every characteristic of the lock is  *)
(* read and subscribed to, as far as it allows, and entered in the dump    *)
(* whatever fails.  An entry is what became of its calls.                  *)
(***************************************************************************)
EXTENDS Probe, SequencesExt

\* do_read and do_notify.
CallsFor(doRead, doNotify) ==
    FlattenSeq([i \in DOMAIN Table |->
        (IF doRead THEN CallsOf("read", Table[i]) ELSE <<>>)
        \o (IF doNotify THEN CallsOf("notify", Table[i]) ELSE <<>>)])

\* The lock has finitely many characteristics, so there are finitely many calls to make.
GattCalls == [call : {"read", "notify"}, uuid : {Table[i].uuid : i \in DOMAIN Table}]
ASSUME CallsAssumption ==
    \A doRead, doNotify \in BOOLEAN : CallsFor(doRead, doNotify) \in Seq(GattCalls)

GattInit == \E doRead, doNotify \in BOOLEAN : ProbeInit(CallsFor(doRead, doNotify))

\* `disconnected_early`, and the way to the `finally`.
Reports == at' = "disconnect" /\ todo' = <<>> /\ result' = <<disconnected>>

GoesOn(place, calls) == at' = place /\ todo' = calls /\ UNCHANGED result

\* A session without calls has nothing to wait for.
GattConnected ==
    /\ at = "connect"
    /\ link' = TRUE
    /\ IF asked = <<>> THEN Reports ELSE GoesOn("call", asked)
    /\ UNCHANGED <<asked, outcomes, disconnected, lost>>

IsStarted(call, outs) == call.call = "notify" /\ call \in DOMAIN outs /\ outs[call] = "ok"

\* A bug: an error leaves the loop.
GivesUp(calls, outcome)    == IF outcome = "ok" THEN Tail(calls) ELSE <<>>
CallsAfter(calls, outcome) == Tail(calls)

GattCall ==
    /\ at = "call"
    /\ \E outcome \in {"ok", "error"} :
          LET rest == CallsAfter(todo, outcome)
          IN  /\ Returned(outcome)
              /\ IF rest # <<>> THEN GoesOn("call", rest)
                 ELSE IF \E call \in DOMAIN outcomes' : IsStarted(call, outcomes')
                 THEN GoesOn("listen", <<>>)
                 ELSE Reports
    /\ UNCHANGED <<asked, link, disconnected, lost>>

\* Subscriptions end one by one, until the link is gone.
GattListened ==
    /\ at = "listen"
    /\ ListeningEnds
    /\ IF disconnected THEN Reports
       ELSE GoesOn("stop", SelectSeq(asked, LAMBDA call : IsStarted(call, outcomes)))
    /\ UNCHANGED <<asked, outcomes, link, disconnected, lost>>

GattStopped ==
    /\ at = "stop"
    /\ IF disconnected \/ Len(todo) = 1 THEN Reports ELSE GoesOn("stop", Tail(todo))
    /\ UNCHANGED <<asked, outcomes, link, disconnected, lost>>

\* A bug: the event is looked at after the `finally`.
ReadLate(kept) == IF kept = <<>> THEN kept ELSE <<disconnected'>>
Kept(kept)     == kept
GattDisconnected == Finally("disconnect") /\ result' = Kept(result)

GattStep ==
    \/ GattConnected \/ ConnectFails \/ GattCall \/ GattListened \/ GattStopped
    \/ GattDisconnected \/ Aborted

GattNext == GattStep \/ LockDrops \/ Cancelled

GattSpec == GattInit /\ [][GattNext]_probeVars

-------------------------------------------------------------------------------
\* A dump that is returned tells of every call the options ask for whether it returned or
\* raised: no error costs another characteristic its entry, and a lost link none
\* (gatt_dump.py:131-158).
DumpIsComplete ==
    (at = "exit" /\ result # <<>>) => DOMAIN outcomes = ToSet(asked)

\* Why it holds: a call has an outcome or is still to be made, until all have one.
DumpInv ==
    /\ asked \in Seq(GattCalls)
    /\ at = "connect" => DOMAIN outcomes = {}
    /\ at = "call" =>
          /\ todo \in Seq(GattCalls) /\ todo # <<>>
          /\ DOMAIN outcomes \cup ToSet(todo) = ToSet(asked)
    /\ at \in {"listen", "stop"} \/ result # <<>> => DOMAIN outcomes = ToSet(asked)

\* The dump calls a session ended early only if the lock ended it: its own
\* disconnect is not taken for that (gatt_dump.py:105-107, 176-182).
EarlyIsHonest == (at = "exit" /\ result # <<>>) => (result[1] => lost)
===============================================================================
