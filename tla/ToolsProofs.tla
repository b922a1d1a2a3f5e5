------------------------------- MODULE ToolsProofs -------------------------------
(***************************************************************************)
(* The tools, for every table of characteristics, every account and cloud, *)
(* and all that a lock may say: a session gives the link back and reports  *)
(* what it should, frames are found as they were said, and what is         *)
(* written of the cloud's answers is of use and holds no credential.       *)
(***************************************************************************)
EXTENDS Tools, CaptureProofs, FiniteSetTheorems

-------------------------------------------------------------------------------
(***************************************************************************)
(* A dump's session.                                                       *)
(***************************************************************************)
\* In the session, and until its own disconnect is under way.
InSession == {"connect", "call", "listen", "stop"}

\* While the session lasts the event is set exactly if the lock has dropped the link; behind
\* it, what was reported is kept from the tool's own disconnect.
GattInv ==
    /\ at \in InSession \cup {"disconnect", "abort", "exit"}
    /\ lost \in BOOLEAN /\ disconnected \in BOOLEAN
    /\ at \in {"connect", "exit"} => link = FALSE
    /\ at \in InSession => disconnected = lost
    /\ at \in InSession \cup {"abort"} => result = <<>>
    /\ result \in {<<>>, <<lost>>}

\* Before the first call nothing has happened.
LEMMA GattInitInv == GattInit => GattInv
BY DEF GattInit, ProbeInit, GattInv, InSession

\* A session that ends in order reports the event, and goes on to its `finally`.
LEMMA ReportsInv ==
    ASSUME GattInv, at \in InSession, Reports, UNCHANGED <<disconnected, lost>>
    PROVE  GattInv'
BY DEF GattInv, InSession, Reports

\* One that goes on has nothing to report.
LEMMA GoesOnInv ==
    ASSUME GattInv, at \in InSession, NEW next \in InSession \ {"connect"}, NEW calls,
           GoesOn(next, calls), UNCHANGED <<disconnected, lost>>
    PROVE  GattInv'
BY DEF GattInv, InSession, GoesOn

\* Every step of the tool, of the lock and of the user keeps the invariant.
LEMMA GattNextInv == GattInv /\ [GattNext]_probeVars => GattInv'
<1> SUFFICES ASSUME GattInv, [GattNext]_probeVars PROVE GattInv'
  OBVIOUS
<1>1. CASE GattConnected
  <2>1. CASE Reports BY <1>1, <2>1, ReportsInv DEF GattConnected, InSession
  <2>2. CASE GoesOn("call", asked) BY <1>1, <2>2, GoesOnInv DEF GattConnected, InSession
  <2> QED BY <1>1, <2>1, <2>2 DEF GattConnected
<1>2. CASE ConnectFails BY <1>2 DEF ConnectFails, GattInv, InSession
<1>3. CASE GattCall
  <2>1. PICK outcome \in {"ok", "error"} :
            \/ GoesOn("call", CallsAfter(todo, outcome)) \/ GoesOn("listen", <<>>) \/ Reports
    BY <1>3 DEF GattCall
  <2>2. at \in InSession /\ UNCHANGED <<disconnected, lost>> BY <1>3 DEF GattCall, InSession
  <2>3. CASE GoesOn("call", CallsAfter(todo, outcome)) BY <2>2, <2>3, GoesOnInv DEF InSession
  <2>4. CASE GoesOn("listen", <<>>) BY <2>2, <2>4, GoesOnInv DEF InSession
  <2>5. CASE Reports BY <2>2, <2>5, ReportsInv
  <2> QED BY <2>1, <2>3, <2>4, <2>5
<1>4. CASE GattListened
  <2> DEFINE started == SelectSeq(asked, LAMBDA call : IsStarted(call, outcomes))
  <2>1. at \in InSession /\ UNCHANGED <<disconnected, lost>> BY <1>4 DEF GattListened, InSession
  <2>2. Reports \/ GoesOn("stop", started) BY <1>4 DEF GattListened
  <2>3. CASE Reports BY <2>1, <2>3, ReportsInv
  <2>4. CASE GoesOn("stop", started) BY <2>1, <2>4, GoesOnInv DEF InSession
  <2> QED BY <2>2, <2>3, <2>4
<1>5. CASE GattStopped
  <2>1. at \in InSession /\ UNCHANGED <<disconnected, lost>> BY <1>5 DEF GattStopped, InSession
  <2>2. Reports \/ GoesOn("stop", Tail(todo)) BY <1>5 DEF GattStopped
  <2>3. CASE Reports BY <2>1, <2>3, ReportsInv
  <2>4. CASE GoesOn("stop", Tail(todo)) BY <2>1, <2>4, GoesOnInv DEF InSession
  <2> QED BY <2>2, <2>3, <2>4
<1>6. CASE GattDisconnected
  BY <1>6 DEF GattDisconnected, Finally, OnDisconnect, Kept, GattInv, InSession
<1>7. CASE Aborted BY <1>7 DEF Aborted, Finally, OnDisconnect, GattInv, InSession
<1>8. CASE LockDrops BY <1>8 DEF LockDrops, OnDisconnect, GattInv, InSession
<1>9. CASE Cancelled BY <1>9 DEF Cancelled, AfterCancel, GattInv, InSession
<1>10. CASE UNCHANGED probeVars BY <1>10 DEF probeVars, GattInv, InSession
<1> QED
  BY <1>1, <1>2, <1>3, <1>4, <1>5, <1>6, <1>7, <1>8, <1>9, <1>10 DEF GattNext, GattStep

\* The invariant holds of every session.
LEMMA GattAlwaysInv == GattSpec => []GattInv
BY GattInitInv, GattNextInv, PTL DEF GattSpec

\* However a dump ends, by Ctrl+C and with the link lost included, no link is left
\* (gatt_dump.py:178-182).
THEOREM ProbeAlwaysReleases == GattSpec => []ProbeReleases
<1>1. GattInv => ProbeReleases BY DEF GattInv, ProbeReleases
<1> QED BY <1>1, GattAlwaysInv, PTL

\* A dump says that the session ended early if the lock dropped the link, and only then: the
\* tool's own disconnect, which may set the event, comes after the report
\* (gatt_dump.py:105-107, 176-182).
THEOREM EarlyIsAlwaysRight == GattSpec => [](DropIsReported /\ EarlyIsHonest)
<1>1. ASSUME GattInv, at = "exit", result # <<>> PROVE result[1] = lost
  BY <1>1 DEF GattInv
<1>2. GattInv => DropIsReported /\ EarlyIsHonest BY <1>1, Zenon DEF DropIsReported, EarlyIsHonest
<1> QED BY <1>2, GattAlwaysInv, PTL

-------------------------------------------------------------------------------
\* A sequence that is not empty has its head, and what its tail has.
LEMMA SetOfTail ==
  ASSUME NEW S, NEW s \in Seq(S), s # <<>>
  PROVE  Tail(s) \in Seq(S) /\ ToSet(s) = {Head(s)} \cup ToSet(Tail(s))
<1>1. Tail(s) \in Seq(S) /\ Len(s) \in Nat \ {0} /\ Head(s) = s[1]
  OBVIOUS
<1>2. DOMAIN s = 1 .. Len(s) /\ DOMAIN Tail(s) = 1 .. Len(s) - 1
  OBVIOUS
<1>3. ASSUME NEW i \in DOMAIN Tail(s) PROVE Tail(s)[i] = s[i + 1] /\ i + 1 \in DOMAIN s
  BY <1>1, <1>2
<1>4. ASSUME NEW i \in DOMAIN s PROVE i = 1 \/ (i - 1 \in DOMAIN Tail(s) /\ Tail(s)[i - 1] = s[i])
  BY <1>1, <1>2
<1>5. ToSet(s) \subseteq {Head(s)} \cup ToSet(Tail(s))
  BY <1>1, <1>4 DEF ToSet
<1>6. {Head(s)} \cup ToSet(Tail(s)) \subseteq ToSet(s)
  <2>1. 1 \in DOMAIN s BY <1>1, <1>2
  <2> QED BY <1>1, <1>3, <2>1 DEF ToSet
<1> QED BY <1>1, <1>5, <1>6

\* A call that returns or raises is no longer to be made and has its outcome.
LEMMA CallsKeepDumpInv ==
  ASSUME DumpInv, GattInv, GattCall
  PROVE  DumpInv'
<1>1. /\ at = "call" /\ result = <<>> /\ UNCHANGED asked
      /\ todo \in Seq(GattCalls) /\ todo # <<>>
      /\ DOMAIN outcomes \cup ToSet(todo) = ToSet(asked) /\ asked \in Seq(GattCalls)
  BY DEF GattCall, DumpInv, GattInv, InSession
<1>2. /\ DOMAIN outcomes' = DOMAIN outcomes \cup {Head(todo)}
      /\ \/ Tail(todo) # <<>> /\ GoesOn("call", Tail(todo))
         \/ Tail(todo) = <<>> /\ (GoesOn("listen", <<>>) \/ Reports)
  BY DEF GattCall, Returned, CallsAfter
<1>3. Tail(todo) \in Seq(GattCalls) /\ ToSet(todo) = {Head(todo)} \cup ToSet(Tail(todo))
  BY <1>1, SetOfTail
<1>4. DOMAIN outcomes' \cup ToSet(Tail(todo)) = ToSet(asked)
  BY <1>1, <1>2, <1>3
<1>5. CASE Tail(todo) # <<>> /\ GoesOn("call", Tail(todo))
  BY <1>1, <1>3, <1>4, <1>5 DEF DumpInv, GoesOn
<1>6. CASE Tail(todo) = <<>> /\ (GoesOn("listen", <<>>) \/ Reports)
  <2>1. ToSet(Tail(todo)) = {} BY <1>6 DEF ToSet
  <2>2. DOMAIN outcomes' = ToSet(asked) BY <1>4, <2>1
  <2> QED BY <1>1, <1>6, <2>2 DEF DumpInv, GoesOn, Reports
<1> QED BY <1>2, <1>5, <1>6

LEMMA DumpNextInv ==
  ASSUME DumpInv, GattInv, [GattNext]_probeVars
  PROVE  DumpInv'
<1>1. CASE GattConnected
  <2>1. DOMAIN outcomes' = {} /\ UNCHANGED asked BY <1>1 DEF GattConnected, DumpInv
  <2>2. CASE asked = <<>> /\ Reports BY <2>1, <2>2 DEF DumpInv, Reports, ToSet
  <2>3. CASE asked # <<>> /\ GoesOn("call", asked)
    BY <1>1, <2>1, <2>3 DEF GattConnected, DumpInv, GattInv, InSession, GoesOn
  <2> QED BY <1>1, <2>2, <2>3 DEF GattConnected
<1>2. CASE GattCall BY <1>2, CallsKeepDumpInv
<1>3. CASE GattListened \/ GattStopped
  BY <1>3 DEF GattListened, GattStopped, Reports, GoesOn, DumpInv
<1>4. CASE ConnectFails \/ GattDisconnected \/ Aborted \/ Cancelled
  BY <1>4 DEF ConnectFails, GattDisconnected, Aborted, Finally, Kept, Cancelled, AfterCancel,
              DumpInv, GattInv, InSession
<1>5. CASE LockDrops \/ UNCHANGED probeVars BY <1>5 DEF LockDrops, probeVars, DumpInv
<1> QED BY <1>1, <1>2, <1>3, <1>4, <1>5 DEF GattNext, GattStep

LEMMA DumpStarts == GattInit => DumpInv
BY CallsAssumption DEF GattInit, ProbeInit, DumpInv

\* A dump that is returned has an entry for every call the options ask for, in whatever
\* order calls fail and whenever the link is lost (gatt_dump.py:131-158).
THEOREM DumpIsAlwaysComplete == GattSpec => []DumpIsComplete
<1>1. GattInit => DumpInv BY DumpStarts
<1>2. DumpInv /\ GattInv /\ [GattNext]_probeVars => DumpInv' BY DumpNextInv
<1>3. DumpInv => DumpIsComplete BY DEF DumpInv, DumpIsComplete
<1> QED BY <1>1, <1>2, <1>3, GattAlwaysInv, PTL DEF GattSpec

-------------------------------------------------------------------------------
(***************************************************************************)
(* The session of challenge_probe, which reads the event behind its own    *)
(* disconnect.                                                             *)
(***************************************************************************)
\* The event is set if the lock has dropped the link; what is reported is the event.
SessionInv ==
    /\ at \in InSession \cup {"disconnect", "abort", "exit"}
    /\ lost \in BOOLEAN /\ disconnected \in BOOLEAN
    /\ at \in {"connect", "exit"} => link = FALSE
    /\ lost => disconnected
    /\ at # "exit" => result = <<>>
    /\ result \in {<<>>, <<TRUE>>, <<lost>>}

\* The subscriptions and the request are the calls to make, the request behind the others.
SessionCalls == NotifyCalls \cup {Call("write", NUS)}
ToMake(calls) ==
    /\ calls \in Seq(SessionCalls) /\ calls # <<>>
    /\ calls[Len(calls)] = Call("write", NUS)
    /\ \A i \in 1 .. Len(calls) - 1 : calls[i].call = "notify"

\* A call has an outcome or is still to be made, until all have one.
CallsInv ==
    /\ ToMake(asked)
    /\ at = "connect" => todo = asked /\ DOMAIN outcomes = {}
    /\ at = "call" => ToMake(todo) /\ DOMAIN outcomes \cup ToSet(todo) = ToSet(asked)
    /\ at \in {"listen", "stop", "disconnect"} \/ result # <<>> => DOMAIN outcomes = ToSet(asked)

\* All subscriptions first, then the request.
LEMMA ProbeCallsToMake == ToMake(ProbeCalls)
<1>1. PICK s \in Seq(SessionCalls) : s = Subscriptions /\ \A i \in 1 .. Len(s) : s[i].call = "notify"
  <2>1. Subscriptions \in Seq(SessionCalls)
    BY SubscriptionsAssumption DEF SessionCalls
  <2>2. \A i \in 1 .. Len(Subscriptions) : Subscriptions[i] \in NotifyCalls
    BY SubscriptionsAssumption
  <2>3. \A i \in 1 .. Len(Subscriptions) : Subscriptions[i].call = "notify"
    BY <2>2 DEF NotifyCalls
  <2> QED BY <2>1, <2>3
<1>2. PICK w : w = Call("write", NUS)
  OBVIOUS
<1>3. <<w>> \in Seq(SessionCalls) /\ Len(<<w>>) = 1 /\ <<w>>[1] = w
  BY <1>2 DEF SessionCalls
<1>4. PICK t \in Seq(SessionCalls) : t = <<w>> /\ Len(t) = 1 /\ t[1] = w
  BY <1>3
<1>5. /\ s \o t \in Seq(SessionCalls) /\ Len(s \o t) = Len(s) + 1 /\ Len(s) \in Nat
      /\ \A k \in 1 .. Len(s) : (s \o t)[k] = s[k]
      /\ (s \o t)[Len(s) + 1] = w
  BY <1>4, Joined
<1>6. PICK p : p = s \o t
  OBVIOUS
<1>7. /\ p \in Seq(SessionCalls) /\ p # <<>> /\ p[Len(p)] = w
      /\ \A i \in 1 .. Len(p) - 1 : p[i].call = "notify"
  BY <1>1, <1>5, <1>6
<1> QED BY <1>1, <1>2, <1>4, <1>6, <1>7 DEF ToMake, ProbeCalls

LEMMA SessionStarts == ProbeInit(ProbeCalls) => SessionInv /\ CallsInv
BY ProbeCallsToMake DEF ProbeInit, SessionInv, CallsInv, InSession

\* Every step of the tool, of the lock and of the user keeps the session in order.
LEMMA SessionNextInv ==
  ASSUME SessionInv, ChallengeNext \/ UNCHANGED probeVars
  PROVE  SessionInv'
<1>1. CASE ProbeConnected BY <1>1 DEF ProbeConnected, SessionInv, InSession
<1>2. CASE ConnectFails BY <1>2 DEF ConnectFails, SessionInv, InSession
<1>3. CASE ProbeCall
  <2>1. /\ at = "call" /\ at' \in {"call", "listen", "abort"}
        /\ UNCHANGED <<link, disconnected, lost, result>>
    BY <1>3 DEF ProbeCall
  <2> QED BY <2>1 DEF SessionInv, InSession
<1>4. CASE ProbeListened \/ ProbeStopped
  <2>1. /\ at \in {"listen", "stop"} /\ at' \in {"disconnect", "stop"}
        /\ UNCHANGED <<link, disconnected, lost, result>>
    BY <1>4 DEF ProbeListened, ProbeStopped
  <2> QED BY <2>1 DEF SessionInv, InSession
<1>5. CASE ProbeDisconnected
  BY <1>5 DEF ProbeDisconnected, Finally, OnDisconnect, SessionInv, InSession
<1>6. CASE Aborted BY <1>6 DEF Aborted, Finally, OnDisconnect, SessionInv, InSession
<1>7. CASE LockDrops BY <1>7 DEF LockDrops, OnDisconnect, SessionInv, InSession
<1>8. CASE Cancelled BY <1>8 DEF Cancelled, AfterCancel, SessionInv, InSession
<1>9. CASE UNCHANGED probeVars BY <1>9 DEF probeVars, SessionInv, InSession
<1> QED
  BY <1>1, <1>2, <1>3, <1>4, <1>5, <1>6, <1>7, <1>8, <1>9 DEF ChallengeNext, ChallengeStep, Notified

\* A call that returns or raises is no longer to be made; the request is the last one.
LEMMA CallKeepsCalls ==
  ASSUME CallsInv, SessionInv, ProbeCall
  PROVE  CallsInv'
<1>1. /\ at = "call" /\ result = <<>> /\ UNCHANGED <<asked, result>>
      /\ ToMake(asked) /\ ToMake(todo) /\ DOMAIN outcomes \cup ToSet(todo) = ToSet(asked)
  BY DEF ProbeCall, CallsInv, SessionInv
<1>2. /\ DOMAIN outcomes' = DOMAIN outcomes \cup {Head(todo)} /\ todo' = Tail(todo)
      /\ at' \in {"call", "listen", "abort"} /\ (at' = "call" <=> Head(todo).call = "notify")
  BY DEF ProbeCall, Returned
<1>3. PICK t \in Seq(SessionCalls) :
         /\ t = todo /\ t # <<>> /\ t[Len(t)] = Call("write", NUS)
         /\ \A i \in 1 .. Len(t) - 1 : t[i].call = "notify"
  BY <1>1 DEF ToMake
<1>4. Tail(t) \in Seq(SessionCalls) /\ ToSet(t) = {Head(t)} \cup ToSet(Tail(t))
  BY <1>3, SetOfTail
<1>5. DOMAIN outcomes' \cup ToSet(Tail(t)) = ToSet(asked)
  BY <1>1, <1>2, <1>3, <1>4
<1>6. PICK r \in Seq(SessionCalls) : r = Tail(t)
  BY <1>4
<1>7. /\ Len(t) \in Nat \ {0} /\ Len(r) = Len(t) - 1 /\ Head(t) = t[1]
      /\ \A i \in 1 .. Len(r) : r[i] = t[i + 1]
  BY <1>3, <1>6
<1>8. CASE Head(t).call = "notify"
  <2>1. Len(t) # 1
    BY <1>3, <1>7, <1>8 DEF Call
  <2>2. r # <<>> /\ r[Len(r)] = t[Len(t)]
    BY <1>7, <2>1
  <2>3. \A i \in 1 .. Len(r) - 1 : r[i].call = "notify"
    BY <1>3, <1>7
  <2>4. ToMake(todo')
    BY <1>2, <1>3, <1>6, <2>2, <2>3 DEF ToMake
  <2>5. at' = "call" /\ DOMAIN outcomes' \cup ToSet(todo') = ToSet(asked)
    BY <1>2, <1>3, <1>5, <1>8
  <2> QED BY <1>1, <2>4, <2>5 DEF CallsInv
<1>9. CASE Head(t).call # "notify"
  <2>1. Len(t) = 1
    <3>1. 1 \notin 1 .. Len(t) - 1
      BY <1>3, <1>7, <1>9
    <3> QED BY <1>7, <3>1
  <2>2. r = <<>>
    BY <1>7, <2>1
  <2>3. ToSet(Tail(t)) = {}
    BY <1>6, <2>2 DEF ToSet
  <2>4. DOMAIN outcomes' = ToSet(asked)
    BY <1>5, <2>3
  <2>5. at' \in {"listen", "abort"}
    BY <1>2, <1>3, <1>9
  <2> QED BY <1>1, <2>4, <2>5 DEF CallsInv
<1> QED BY <1>8, <1>9

LEMMA SessionNextCalls ==
  ASSUME SessionInv, CallsInv, ChallengeNext \/ UNCHANGED probeVars
  PROVE  CallsInv'
<1>1. CASE ProbeConnected
  <2>1. /\ at' = "call" /\ todo = asked /\ DOMAIN outcomes = {} /\ result = <<>> /\ ToMake(asked)
        /\ UNCHANGED <<asked, todo, outcomes, result>>
    BY <1>1 DEF ProbeConnected, CallsInv, SessionInv
  <2> QED BY <2>1 DEF CallsInv
<1>2. CASE ProbeCall BY <1>2, CallKeepsCalls
<1>3. CASE ProbeListened \/ ProbeStopped \/ ProbeDisconnected
  <2>1. /\ at \in {"listen", "stop", "disconnect"} /\ at' \in {"stop", "disconnect", "exit"}
        /\ UNCHANGED <<asked, outcomes>>
    BY <1>3 DEF ProbeListened, ProbeStopped, ProbeDisconnected, Finally
  <2> QED BY <2>1 DEF CallsInv
<1>4. CASE ConnectFails \/ Aborted \/ Cancelled
  <2>1. /\ at' \in {"exit", "abort"} /\ UNCHANGED <<asked, outcomes>>
        /\ result' = <<>> \/ result' = result
    BY <1>4 DEF ConnectFails, Aborted, Finally, Cancelled, AfterCancel
  <2> QED BY <2>1 DEF CallsInv
<1>5. CASE LockDrops \/ UNCHANGED probeVars BY <1>5 DEF LockDrops, probeVars, CallsInv
<1> QED BY <1>1, <1>2, <1>3, <1>4, <1>5 DEF ChallengeNext, ChallengeStep, Notified

-------------------------------------------------------------------------------
(***************************************************************************)
(* What the challenge probe finds in what the lock says.                   *)
(***************************************************************************)
\* These entries are those of the frames among these values, and this nonce that of the last
\* challenge among them.
EntriesOf(entries, values) ==
    LET said == {n \in DOMAIN values : values[n] \in DOMAIN Reads}
    IN  \E valueOf \in [DOMAIN entries -> said] :
            /\ Range(valueOf) = said
            /\ \A i, j \in DOMAIN entries : i < j => valueOf[i] < valueOf[j]
            /\ \A i \in DOMAIN entries : entries[i] = Reads[values[valueOf[i]]].entry

ChallengesOf(values) ==
    {n \in DOMAIN values : values[n] \in DOMAIN Reads /\ Reads[values[n]].nonce # <<>>}
NonceOfLast(found, values) ==
    \/ ChallengesOf(values) = {} /\ found = <<>>
    \/ \E n \in ChallengesOf(values) : /\ \A m \in ChallengesOf(values) : m <= n
                                       /\ found = Reads[values[n]].nonce

LEMMA FramesAsSaidIs ==
  FramesAsSaid <=> EntriesOf(frames, arrived) /\ NonceOfLast(nonce, arrived)
<1>1. PICK said : said = {n \in DOMAIN arrived : arrived[n] \in DOMAIN Reads}
  OBVIOUS
<1>2. {n \in said : Reads[arrived[n]].nonce # <<>>} = ChallengesOf(arrived)
  BY <1>1 DEF ChallengesOf
<1> QED BY <1>1, <1>2 DEF FramesAsSaid, EntriesOf, NonceOfLast

\* These m numbers are those of R in their order.
InOrder(of, m, R) ==
    /\ of \in [1 .. m -> R] /\ Range(of) = R
    /\ \A i, j \in 1 .. m : i < j => of[i] < of[j]

LEMMA FramesAsSaidThen ==
  ASSUME EntriesOf(frames', arrived'), NonceOfLast(nonce', arrived')
  PROVE  FramesAsSaid'
<1>1. PICK said : said = {n \in DOMAIN arrived' : arrived'[n] \in DOMAIN Reads}
  OBVIOUS
<1>2. {n \in said : Reads[arrived'[n]].nonce # <<>>} = ChallengesOf(arrived')
  BY <1>1 DEF ChallengesOf
<1> QED BY <1>1, <1>2 DEF FramesAsSaid, EntriesOf, NonceOfLast

\* An enumeration in order of some of n goes on with n + 1.
Continues(more, of, m, n) == more[m + 1] = n + 1 /\ \A i \in 1 .. m : more[i] = of[i]
LEMMA EnumerationGrows ==
  ASSUME NEW n \in Nat, NEW m \in Nat, NEW R \in SUBSET (1 .. n), NEW of, InOrder(of, m, R)
  PROVE  \E more : InOrder(more, m + 1, R \cup {n + 1}) /\ Continues(more, of, m, n)
<1>0. of \in [1 .. m -> R] /\ Range(of) = R /\ \A i, j \in 1 .. m : i < j => of[i] < of[j]
  BY DEF InOrder
<1>1. PICK more : more = [i \in 1 .. m + 1 |-> IF i <= m THEN of[i] ELSE n + 1]
  OBVIOUS
<1>2. \A i : i \in 1 .. m + 1 <=> i \in 1 .. m \/ i = m + 1
  OBVIOUS
<1>3. /\ DOMAIN more = 1 .. m + 1 /\ more[m + 1] = n + 1
      /\ \A i \in 1 .. m : more[i] = of[i]
  BY <1>1, <1>2
<1>4. \A i \in 1 .. m : of[i] \in R /\ of[i] \in 1 .. n
  BY <1>0
<1>5. more \in [1 .. m + 1 -> R \cup {n + 1}]
  BY <1>1, <1>2, <1>3, <1>4
<1>6. Range(more) = R \cup {n + 1}
  <2>1. Range(more) = {more[i] : i \in 1 .. m + 1}
    BY <1>3 DEF Range
  <2>2. ASSUME NEW r \in R PROVE r \in Range(more)
    <3>1. PICK i \in 1 .. m : of[i] = r
      BY <1>0 DEF Range
    <3> QED BY <1>2, <1>3, <2>1, <3>1
  <2>3. n + 1 \in Range(more)
    BY <1>2, <1>3, <2>1
  <2>4. ASSUME NEW i \in 1 .. m + 1 PROVE more[i] \in R \cup {n + 1}
    BY <1>5
  <2> QED BY <2>1, <2>2, <2>3, <2>4
<1>7. ASSUME NEW i \in 1 .. m + 1, NEW j \in 1 .. m + 1, i < j PROVE more[i] < more[j]
  <2>1. i \in 1 .. m
    BY <1>7
  <2>2. CASE j \in 1 .. m
    BY <1>0, <1>3, <1>7, <2>1, <2>2
  <2>3. CASE j = m + 1
    BY <1>3, <1>4, <2>1, <2>3
  <2> QED BY <1>2, <2>2, <2>3
<1> QED BY <1>3, <1>5, <1>6, <1>7 DEF InOrder, Continues

\* Nothing is found in nothing.
LEMMA NothingFound == EntriesOf(<<>>, <<>>) /\ NonceOfLast(<<>>, <<>>)
<1>1. {n \in DOMAIN <<>> : <<>>[n] \in DOMAIN Reads} = {} /\ ChallengesOf(<<>>) = {}
  BY DEF ChallengesOf
<1>2. [x \in {} |-> 0] \in [DOMAIN <<>> -> {}] /\ DOMAIN <<>> = {}
  OBVIOUS
<1>3. Range([x \in {} |-> 0]) = {}
  BY DEF Range
<1> QED BY <1>1, <1>2, <1>3 DEF EntriesOf, NonceOfLast

\* Another value is read as one more entry, or none.
LEMMA EntriesGrow ==
  ASSUME NEW V, NEW values \in Seq(V), NEW value \in V, NEW E, NEW entries \in Seq(E),
         value \in DOMAIN Reads => Reads[value].entry \in E,
         EntriesOf(entries, values)
  PROVE  EntriesOf(IF value \in DOMAIN Reads THEN Append(entries, Reads[value].entry) ELSE entries,
                   Append(values, value))
<1>1. PICK R : R = {n \in DOMAIN values : values[n] \in DOMAIN Reads}
  OBVIOUS
<1>2. PICK of \in [DOMAIN entries -> R] :
         /\ Range(of) = R
         /\ \A i, j \in DOMAIN entries : i < j => of[i] < of[j]
         /\ \A i \in DOMAIN entries : entries[i] = Reads[values[of[i]]].entry
  BY <1>1 DEF EntriesOf
<1>3. PICK n \in Nat, m \in Nat : n = Len(values) /\ m = Len(entries)
  OBVIOUS
<1>4. PICK longer : longer = Append(values, value)
  OBVIOUS
<1>5. /\ DOMAIN values = 1 .. n /\ DOMAIN entries = 1 .. m /\ DOMAIN longer = 1 .. n + 1
      /\ \A i \in 1 .. n : longer[i] = values[i]
      /\ longer[n + 1] = value
  BY <1>3, <1>4
<1>6. R \in SUBSET (1 .. n)
  BY <1>1, <1>5
<1>7. PICK R2 : R2 = {i \in DOMAIN longer : longer[i] \in DOMAIN Reads}
  OBVIOUS
<1>8. R2 = IF value \in DOMAIN Reads THEN R \cup {n + 1} ELSE R
  <2>1. \A i : i \in 1 .. n + 1 <=> i \in 1 .. n \/ i = n + 1
    BY <1>3
  <2>2. \A i : i \in R2 <=> i \in R \/ (i = n + 1 /\ value \in DOMAIN Reads)
    BY <1>1, <1>5, <1>7, <2>1
  <2> QED BY <2>2
<1>9. \A i \in 1 .. m : of[i] \in 1 .. n /\ longer[of[i]] = values[of[i]]
  BY <1>2, <1>5, <1>6
<1>10. CASE value \notin DOMAIN Reads
  <2>1. R2 = R /\ \A i \in DOMAIN entries : entries[i] = Reads[longer[of[i]]].entry
    BY <1>2, <1>5, <1>8, <1>9, <1>10
  <2>2. EntriesOf(entries, longer)
    BY <1>2, <1>7, <2>1 DEF EntriesOf
  <2> QED BY <1>4, <1>10, <2>2
<1>11. CASE value \in DOMAIN Reads
  <2>1. PICK more : more = Append(entries, Reads[value].entry)
    OBVIOUS
  <2>2. /\ DOMAIN more = 1 .. m + 1 /\ \A i \in 1 .. m : more[i] = entries[i]
        /\ more[m + 1] = Reads[value].entry
    BY <1>3, <1>11, <2>1
  <2>3. InOrder(of, m, R)
    BY <1>2, <1>5 DEF InOrder
  <2>4. PICK of2 : InOrder(of2, m + 1, R \cup {n + 1}) /\ Continues(of2, of, m, n)
    BY <1>3, <1>6, <2>3, EnumerationGrows
  <2>5. ASSUME NEW i \in 1 .. m + 1 PROVE more[i] = Reads[longer[of2[i]]].entry
    <3>1. CASE i \in 1 .. m
      <4>1. more[i] = entries[i] /\ of2[i] = of[i]
        BY <2>2, <2>4, <3>1 DEF Continues
      <4>2. entries[i] = Reads[values[of[i]]].entry /\ longer[of[i]] = values[of[i]]
        BY <1>2, <1>5, <1>9, <3>1
      <4> QED BY <4>1, <4>2
    <3>2. CASE i = m + 1
      BY <1>5, <2>2, <2>4, <3>2 DEF Continues
    <3> QED BY <1>3, <3>1, <3>2
  <2>6. R2 = R \cup {n + 1}
    BY <1>8, <1>11
  <2>7. /\ of2 \in [DOMAIN more -> R2] /\ Range(of2) = R2
        /\ \A i, j \in DOMAIN more : i < j => of2[i] < of2[j]
        /\ \A i \in DOMAIN more : more[i] = Reads[longer[of2[i]]].entry
    BY <2>2, <2>4, <2>5, <2>6 DEF InOrder
  <2>8. EntriesOf(more, longer)
    BY <1>7, <2>7 DEF EntriesOf
  <2> QED BY <1>4, <1>11, <2>1, <2>8
<1> QED BY <1>10, <1>11

\* The nonce is that of the value if it is a challenge, or the one before.
LEMMA NonceGrows ==
  ASSUME NEW V, NEW values \in Seq(V), NEW value \in V, NEW found, NonceOfLast(found, values)
  PROVE  NonceOfLast(IF value \in DOMAIN Reads /\ Reads[value].nonce # <<>>
                     THEN Reads[value].nonce ELSE found, Append(values, value))
<1>1. PICK n \in Nat : n = Len(values)
  OBVIOUS
<1>2. PICK longer : longer = Append(values, value)
  OBVIOUS
<1>3. /\ DOMAIN values = 1 .. n /\ DOMAIN longer = 1 .. n + 1
      /\ \A i \in 1 .. n : longer[i] = values[i]
      /\ longer[n + 1] = value
  BY <1>1, <1>2
<1>4. \A i : i \in 1 .. n + 1 <=> i \in 1 .. n \/ i = n + 1
  BY <1>1
<1>6. \A i : i \in ChallengesOf(longer) <=>
                i \in ChallengesOf(values)
                \/ (i = n + 1 /\ value \in DOMAIN Reads /\ Reads[value].nonce # <<>>)
  BY <1>3, <1>4 DEF ChallengesOf
<1>7. CASE value \in DOMAIN Reads /\ Reads[value].nonce # <<>>
  <2>1. n + 1 \in ChallengesOf(longer)
    BY <1>6, <1>7
  <2>2. \A m \in ChallengesOf(longer) : m <= n + 1
    <3>1. ChallengesOf(longer) \subseteq 1 .. n + 1
      BY <1>3 DEF ChallengesOf
    <3> QED BY <3>1
  <2>3. NonceOfLast(Reads[value].nonce, longer)
    BY <1>3, <2>1, <2>2 DEF NonceOfLast
  <2> QED BY <1>2, <1>7, <2>3
<1>8. CASE ~(value \in DOMAIN Reads /\ Reads[value].nonce # <<>>)
  <2>1. ChallengesOf(longer) = ChallengesOf(values)
    BY <1>6, <1>8
  <2>2. \A i \in ChallengesOf(values) : longer[i] = values[i]
    BY <1>3 DEF ChallengesOf
  <2>3. NonceOfLast(found, longer)
    BY <2>1, <2>2 DEF NonceOfLast
  <2> QED BY <1>2, <1>8, <2>3
<1> QED BY <1>7, <1>8

\* What the lock has begun to say on a characteristic, and what of it has been put together.
Speaks(uuid) ==
    \/ speaking[uuid] = <<>> /\ buffers[uuid] = <<>>
    \/ \E value \in Says[uuid], n \in Nat \ {0} :
          /\ n * PartLen < Len(value)
          /\ speaking[uuid] = <<value, From(value, n * PartLen + 1)>>
          /\ buffers[uuid] = IF IsFrame(value) THEN Put(value, n) ELSE <<>>

Values  == UNION {Says[uuid] : uuid \in DOMAIN Says}
Entries == {Reads[value].entry : value \in DOMAIN Reads}

FramesInv ==
    /\ DOMAIN speaking = DOMAIN Says /\ DOMAIN buffers = DOMAIN Says
    /\ \A uuid \in DOMAIN Says : Speaks(uuid)
    /\ arrived \in Seq(Values) /\ frames \in Seq(Entries)
    /\ FramesAsSaid

LEMMA FramesStart == ChallengeInit => FramesInv
<1> SUFFICES ASSUME ChallengeInit PROVE FramesInv
  OBVIOUS
<1>1. /\ DOMAIN speaking = DOMAIN Says /\ DOMAIN buffers = DOMAIN Says
      /\ \A uuid \in DOMAIN Says : Speaks(uuid)
  BY DEF ChallengeInit, Speaks
<1>2. <<>> \in Seq(Values) /\ <<>> \in Seq(Entries)
  OBVIOUS
<1>3. arrived \in Seq(Values) /\ frames \in Seq(Entries) /\ FramesAsSaid
  BY <1>2, NothingFound, FramesAsSaidIs DEF ChallengeInit
<1> QED BY <1>1, <1>3 DEF FramesInv

\* Of the p bytes of a value behind the first a, or of fewer at its end: what is left behind
\* them, and what they are put to.
LEMMA NextBytes ==
  ASSUME NEW value \in Seq(Octets), NEW a \in Nat, NEW p \in Nat \ {0}, a < Len(value),
         NEW ahead, ahead = From(value, a + 1)
  PROVE  /\ Slice(ahead, 1, p) = Slice(value, a + 1, a + p)
         /\ a + p < Len(value) =>
               /\ From(ahead, p + 1) = From(value, a + p + 1)
               /\ From(ahead, p + 1) # <<>>
               /\ SubSeq(value, 1, a) \o Slice(value, a + 1, a + p) = SubSeq(value, 1, a + p)
         /\ ~(a + p < Len(value)) =>
               /\ From(ahead, p + 1) = <<>>
               /\ SubSeq(value, 1, a) \o Slice(value, a + 1, a + p) = value
<1>1. PICK m \in Nat : m = Len(value) /\ a < m
  OBVIOUS
<1>2. /\ ahead \in Seq(Octets) /\ Len(ahead) = m - a
      /\ \A i \in 1 .. m - a : ahead[i] = value[a + i]
  <2>1. PICK b \in Nat \ {0} : b = a + 1
    OBVIOUS
  <2>2. b <= Len(value) + 1
    BY <1>1, <2>1
  <2>3. /\ From(value, b) \in Seq(Octets) /\ Len(From(value, b)) = Len(value) - b + 1
        /\ \A i \in 1 .. Len(value) - b + 1 : From(value, b)[i] = value[b + i - 1]
    BY <2>2, FromIs, Zenon
  <2>4. ahead = From(value, b)
    BY <2>1
  <2>5. Len(value) - b + 1 = m - a /\ \A i \in 1 .. m - a : b + i - 1 = a + i
    BY <1>1, <2>1
  <2> QED BY <2>3, <2>4, <2>5
<1>3. PICK e \in Nat : e = (IF a + p < m THEN a + p ELSE m)
  BY <1>1
<1>4. a < e /\ e <= m
  BY <1>1, <1>3
<1>5. PICK next : next = Slice(value, a + 1, a + p)
  OBVIOUS
<1>6. next \in Seq(Octets) /\ Len(next) = e - a /\ \A i \in 1 .. e - a : next[i] = value[a + i]
  <2>1. PICK b \in Nat \ {0}, c \in Int : b = a + 1 /\ c = a + p
    OBVIOUS
  <2>2. /\ Slice(value, b, c) \in Seq(Octets)
        /\ c <= Len(value) /\ b <= c + 1 => Len(Slice(value, b, c)) = c - b + 1
        /\ c >= Len(value) /\ b <= Len(value) + 1 => Len(Slice(value, b, c)) = Len(value) - b + 1
        /\ \A i \in 1 .. Len(Slice(value, b, c)) :
              b + i - 1 <= Len(value) /\ Slice(value, b, c)[i] = value[b + i - 1]
    BY SliceIs, Zenon
  <2>3. next = Slice(value, b, c)
    BY <1>5, <2>1
  <2>4. Len(next) = e - a
    <3>1. c <= m => Len(next) = c - b + 1
      BY <1>1, <2>1, <2>2, <2>3
    <3>2. c >= m => Len(next) = m - b + 1
      BY <1>1, <2>1, <2>2, <2>3
    <3> QED BY <1>1, <1>3, <2>1, <3>1, <3>2
  <2>5. \A i \in 1 .. e - a : b + i - 1 = a + i
    BY <1>1, <2>1
  <2> QED BY <2>2, <2>3, <2>4, <2>5
<1>7. Slice(ahead, 1, p) = next
  <2>1. PICK s : s = Slice(ahead, 1, p)
    OBVIOUS
  <2>2. p \in Int /\ 1 \in Nat \ {0}
    BY <1>1
  <2>3. /\ s \in Seq(Octets)
        /\ p <= Len(ahead) /\ 1 <= p + 1 => Len(s) = p - 1 + 1
        /\ p >= Len(ahead) /\ 1 <= Len(ahead) + 1 => Len(s) = Len(ahead) - 1 + 1
        /\ \A i \in 1 .. Len(s) : 1 + i - 1 <= Len(ahead) /\ s[i] = ahead[1 + i - 1]
    BY <1>2, <2>1, <2>2, SliceIs
  <2>4. Len(s) = e - a
    <3>1. CASE a + p < m
      BY <1>1, <1>2, <1>3, <2>3, <3>1
    <3>2. CASE ~(a + p < m)
      BY <1>1, <1>2, <1>3, <2>3, <3>2
    <3> QED BY <3>1, <3>2
  <2>5. \A i \in 1 .. Len(s) : i \in 1 .. m - a /\ 1 + i - 1 = i
    BY <1>1, <1>3, <1>4, <2>4
  <2>6. \A i \in 1 .. Len(s) : s[i] = next[i]
    BY <1>2, <1>6, <2>3, <2>4, <2>5
  <2>7. s = next
    BY <1>6, <2>3, <2>4, <2>6, SameElements
  <2> QED BY <1>1, <2>1, <2>7
<1>8. PICK before : before = SubSeq(value, 1, a)
  OBVIOUS
<1>9. before \in Seq(Octets) /\ Len(before) = a /\ \A i \in 1 .. a : before[i] = value[i]
  <2>1. a \in 0 .. Len(value) /\ before = SubSeq(value, 1, a)
    BY <1>1, <1>8
  <2> QED BY <2>1, StartIs
<1>10. PICK s : s = before \o next
  OBVIOUS
<1>11. /\ s \in Seq(Octets) /\ Len(s) = e
       /\ \A i \in 1 .. e : s[i] = value[i]
  <2>1. /\ s \in Seq(Octets) /\ Len(s) = Len(before) + Len(next)
        /\ \A k \in 1 .. Len(before) : s[k] = before[k]
        /\ \A k \in 1 .. Len(next) : s[Len(before) + k] = next[k]
    <3>1. before \in Seq(Octets) /\ next \in Seq(Octets)
      BY <1>6, <1>9
    <3> QED BY <1>10, <3>1, Joined
  <2>2. Len(s) = e
    BY <1>1, <1>4, <1>6, <1>9, <2>1
  <2>3. ASSUME NEW i \in 1 .. e PROVE s[i] = value[i]
    <3>1. CASE i <= a
      BY <1>9, <2>1, <3>1
    <3>2. CASE ~(i <= a)
      <4>1. PICK k \in 1 .. e - a : i = a + k
        <5>1. i - a \in 1 .. e - a /\ i = a + (i - a)
          BY <1>1, <1>4, <2>3, <3>2
        <5> QED BY <5>1
      <4>2. s[a + k] = next[k] /\ next[k] = value[a + k]
        BY <1>6, <1>9, <2>1, <4>1
      <4> QED BY <4>1, <4>2
    <3> QED BY <3>1, <3>2
  <2> QED BY <2>1, <2>2, <2>3
<1>12. CASE a + p < m
  <2>1. e = a + p /\ a + p < Len(value)
    BY <1>1, <1>3, <1>12
  <2>2. s = SubSeq(value, 1, e)
    <3>1. e \in 0 .. Len(value)
      BY <1>1, <1>12, <2>1
    <3>2. PICK t : t = SubSeq(value, 1, e)
      OBVIOUS
    <3>3. t \in Seq(Octets) /\ Len(t) = e /\ \A i \in 1 .. e : t[i] = value[i]
      BY <3>1, <3>2, StartIs
    <3>4. s = t
      BY <1>11, <3>3, SameElements
    <3> QED BY <3>1, <3>2, <3>4
  <2>3. PICK r : r = From(ahead, p + 1)
    OBVIOUS
  <2>4. p + 1 \in Nat \ {0} /\ p + 1 <= Len(ahead) + 1
    BY <1>1, <1>2, <1>12
  <2>5. /\ r \in Seq(Octets) /\ Len(r) = Len(ahead) - (p + 1) + 1
        /\ \A i \in 1 .. Len(ahead) - (p + 1) + 1 : r[i] = ahead[p + 1 + i - 1]
    <3>1. ahead \in Seq(Octets)
      BY <1>2
    <3> QED BY <2>3, <2>4, <3>1, FromIs
  <2>6. PICK t : t = From(value, e + 1)
    OBVIOUS
  <2>7. e + 1 \in Nat \ {0} /\ e + 1 <= Len(value) + 1
    BY <1>1, <1>4
  <2>8. /\ t \in Seq(Octets) /\ Len(t) = Len(value) - (e + 1) + 1
        /\ \A i \in 1 .. Len(value) - (e + 1) + 1 : t[i] = value[e + 1 + i - 1]
    BY <2>6, <2>7, FromIs
  <2>9. Len(r) = m - e /\ Len(t) = m - e /\ m - e \in Nat \ {0}
    BY <1>1, <1>2, <1>12, <2>1, <2>5, <2>8
  <2>10. ASSUME NEW i \in 1 .. m - e PROVE r[i] = t[i]
    <3>1. /\ i \in 1 .. Len(ahead) - (p + 1) + 1 /\ i \in 1 .. Len(value) - (e + 1) + 1
          /\ p + 1 + i - 1 = p + i /\ e + 1 + i - 1 = e + i
          /\ p + i \in 1 .. m - a /\ a + (p + i) = e + i
      BY <1>1, <1>2, <1>12, <2>1, <2>10
    <3>2. r[i] = ahead[p + i] /\ t[i] = value[e + i]
      BY <2>5, <2>8, <3>1
    <3>3. ahead[p + i] = value[a + (p + i)]
      BY <1>2, <3>1
    <3> QED BY <3>1, <3>2, <3>3
  <2>11. r = t /\ r # <<>>
    BY <2>5, <2>8, <2>9, <2>10, SameElements
  <2> QED BY <1>5, <1>7, <1>8, <1>10, <2>1, <2>2, <2>3, <2>6, <2>11
<1>13. CASE ~(a + p < m)
  <2>1. e = m /\ ~(a + p < Len(value))
    BY <1>1, <1>3, <1>13
  <2>2. s = value
    BY <1>1, <1>11, <2>1, SameElements
  <2>3. From(ahead, p + 1) = <<>>
    <3>1. PICK r : r = SubSeq(ahead, p + 1, Len(ahead))
      OBVIOUS
    <3>2. p + 1 \in Nat \ {0} /\ Len(ahead) \in Int /\ Len(ahead) <= Len(ahead) /\ ~(p + 1 <= Len(ahead))
      BY <1>1, <1>2, <1>13
    <3>3. r \in Seq(Octets) /\ Len(r) = IF p + 1 <= Len(ahead) THEN Len(ahead) - (p + 1) + 1 ELSE 0
      BY <1>2, <3>1, <3>2, SubSeqProperties
    <3>4. r = <<>>
      BY <3>2, <3>3
    <3> QED BY <3>1, <3>4 DEF From
  <2> QED BY <1>1, <1>5, <1>7, <1>8, <1>10, <2>1, <2>2, <2>3
<1> QED BY <1>12, <1>13
\* The next notification of a value from n of them on.
LEMMA PartsAre ==
  ASSUME NEW value \in Seq(Octets), NEW n \in Nat, n * PartLen < Len(value),
         NEW ahead, ahead = From(value, n * PartLen + 1)
  PROVE  /\ Slice(ahead, 1, PartLen) = Part(value, n)
         /\ (n + 1) * PartLen < Len(value) =>
               /\ From(ahead, PartLen + 1) = From(value, (n + 1) * PartLen + 1)
               /\ From(ahead, PartLen + 1) # <<>>
               /\ Put(value, n) \o Part(value, n) = Put(value, n + 1)
         /\ ~((n + 1) * PartLen < Len(value)) =>
               /\ From(ahead, PartLen + 1) = <<>>
               /\ Put(value, n) \o Part(value, n) = value
<1>1. PICK p \in Nat \ {0}, a \in Nat :
         p = PartLen /\ a = n * PartLen /\ a < Len(value) /\ (n + 1) * PartLen = a + p
  <2>1. PartLen \in Nat \ {0}
    BY PartAssumption
  <2>2. n * PartLen \in Nat /\ (n + 1) * PartLen = n * PartLen + PartLen
    BY <2>1, Product
  <2> QED BY <2>1, <2>2
<1>2. Part(value, n) = Slice(value, a + 1, a + p)
  BY <1>1 DEF Part
<1>3. Put(value, n) = SubSeq(value, 1, a) /\ Put(value, n + 1) = SubSeq(value, 1, a + p)
  BY <1>1 DEF Put
<1>4. ahead = From(value, a + 1) /\ a < Len(value)
  BY <1>1
<1>5. /\ Slice(ahead, 1, p) = Slice(value, a + 1, a + p)
      /\ a + p < Len(value) =>
               /\ From(ahead, p + 1) = From(value, a + p + 1)
               /\ From(ahead, p + 1) # <<>>
               /\ SubSeq(value, 1, a) \o Slice(value, a + 1, a + p) = SubSeq(value, 1, a + p)
      /\ ~(a + p < Len(value)) =>
               /\ From(ahead, p + 1) = <<>>
               /\ SubSeq(value, 1, a) \o Slice(value, a + 1, a + p) = value
  BY <1>4, NextBytes, Zenon
<1> QED BY <1>1, <1>2, <1>3, <1>5

\* A notification as it is made: of what, how far, and what has been put together of it.
IsMade(uuid, value, n, ahead) ==
    /\ n * PartLen < Len(value)
    /\ ahead = From(value, n * PartLen + 1)
    /\ buffers[uuid] = IF IsFrame(value) THEN Put(value, n) ELSE <<>>
    /\ LET rest == From(ahead, PartLen + 1)
       IN  /\ speaking' = [speaking EXCEPT ![uuid] = IF rest = <<>> THEN <<>> ELSE <<value, rest>>]
           /\ arrived' = IF rest = <<>> THEN Append(arrived, value) ELSE arrived
    /\ OnNotify(uuid, Slice(ahead, 1, PartLen))

LEMMA NotifiedIsMade ==
  ASSUME FramesInv, NEW uuid \in DOMAIN Says, Notified(uuid)
  PROVE  \E value \in Says[uuid], n \in Nat : \E ahead : IsMade(uuid, value, n, ahead)
<1>1. Speaks(uuid)
  BY DEF FramesInv
<1>2. PICK value \in IF speaking[uuid] = <<>> THEN Says[uuid] ELSE {speaking[uuid][1]} :
         LET ahead == IF speaking[uuid] = <<>> THEN value ELSE speaking[uuid][2]
             rest  == From(ahead, PartLen + 1)
         IN  /\ speaking' = [speaking EXCEPT ![uuid] = IF rest = <<>> THEN <<>> ELSE <<value, rest>>]
             /\ arrived' = IF rest = <<>> THEN Append(arrived, value) ELSE arrived
             /\ OnNotify(uuid, Slice(ahead, 1, PartLen))
  BY DEF Notified
<1>3. CASE speaking[uuid] = <<>>
  <2>1. value \in Says[uuid] /\ value \in Seq(Octets) /\ value # <<>> /\ buffers[uuid] = <<>>
    <3>1. value \in Says[uuid]
      BY <1>2, <1>3
    <3>2. \A said, rest : <<said, rest>> # <<>>
      OBVIOUS
    <3>3. buffers[uuid] = <<>>
      BY <1>1, <1>3, <3>2, Zenon DEF Speaks
    <3> QED BY <3>1, <3>3, SaysAssumption
  <2>2. 0 * PartLen = 0 /\ 0 * PartLen < Len(value)
    BY <2>1, PartAssumption
  <2>3. From(value, 1) = value
    <3>1. SubSeq(value, 1, Len(value)) = value
      BY <2>1
    <3> QED BY <3>1 DEF From
  <2>4. Put(value, 0) = <<>>
    <3>1. SubSeq(value, 1, 0) = <<>>
      BY <2>1
    <3> QED BY <2>2, <3>1 DEF Put
  <2>5. value = From(value, 0 * PartLen + 1)
    <3>1. 0 * PartLen + 1 = 1
      BY <2>2
    <3> QED BY <2>3, <3>1
  <2>6. IsMade(uuid, value, 0, value)
    BY <1>2, <1>3, <2>1, <2>2, <2>4, <2>5 DEF IsMade
  <2>7. 0 \in Nat
    OBVIOUS
  <2> QED BY <2>1, <2>6, <2>7
<1>4. CASE speaking[uuid] # <<>>
  <2>1. PICK said \in Says[uuid], n \in Nat \ {0} :
           /\ n * PartLen < Len(said)
           /\ speaking[uuid] = <<said, From(said, n * PartLen + 1)>>
           /\ buffers[uuid] = IF IsFrame(said) THEN Put(said, n) ELSE <<>>
    BY <1>1, <1>4 DEF Speaks
  <2>2. value = said /\ speaking[uuid][2] = From(said, n * PartLen + 1)
    BY <1>2, <1>4, <2>1
  <2>3. IsMade(uuid, said, n, From(said, n * PartLen + 1))
    BY <1>2, <1>4, <2>1, <2>2 DEF IsMade
  <2> QED BY <2>1, <2>3
<1> QED BY <1>3, <1>4

\* What is left behind it, and what is parsed then: a frame when it is whole, and nothing else.
IsRead(value, n, rest, buf) ==
    /\ (n + 1) * PartLen < Len(value) =>
          /\ rest = From(value, (n + 1) * PartLen + 1) /\ rest # <<>>
          /\ ~Whole(Parsed(buf))
          /\ IsFrame(value) => ~Parsed(buf).error /\ buf = Put(value, n + 1)
    /\ ~((n + 1) * PartLen < Len(value)) =>
          /\ rest = <<>>
          /\ IsFrame(value) => (Whole(Parsed(buf)) \/ Parsed(buf).error) /\ buf = value
    /\ ~IsFrame(value) => Parsed(buf).error

LEMMA WhatIsParsed ==
  ASSUME NEW uuid \in DOMAIN Says, NEW value \in Says[uuid], NEW n \in Nat, NEW ahead,
         n * PartLen < Len(value), ahead = From(value, n * PartLen + 1),
         buffers[uuid] = IF IsFrame(value) THEN Put(value, n) ELSE <<>>,
         NEW buf, buf = buffers[uuid] \o Slice(ahead, 1, PartLen)
  PROVE  IsRead(value, n, From(ahead, PartLen + 1), buf)
<1>1. value \in Seq(Octets) /\ (IsFrame(value) \/ IsNoise(value))
  BY SaysAssumption
<1>2. /\ Slice(ahead, 1, PartLen) = Part(value, n)
      /\ (n + 1) * PartLen < Len(value) =>
               /\ From(ahead, PartLen + 1) = From(value, (n + 1) * PartLen + 1)
               /\ From(ahead, PartLen + 1) # <<>>
               /\ Put(value, n) \o Part(value, n) = Put(value, n + 1)
      /\ ~((n + 1) * PartLen < Len(value)) =>
               /\ From(ahead, PartLen + 1) = <<>>
               /\ Put(value, n) \o Part(value, n) = value
  BY <1>1, PartsAre
<1>3. CASE IsFrame(value)
  <2>1. buf = Put(value, n) \o Part(value, n)
    BY <1>2, <1>3
  <2>2. ASSUME (n + 1) * PartLen < Len(value)
        PROVE  ~Parsed(buf).error /\ ~Parsed(buf).complete /\ buf = Put(value, n + 1)
    <3>1. buf = Put(value, n + 1)
      BY <1>2, <2>1, <2>2
    <3>2. n + 1 \in 1 .. Len(value)
      <4>1. PICK p \in Nat \ {0}, m \in Nat : p = PartLen /\ m = Len(value)
        BY <1>1, PartAssumption
      <4>2. 1 \in Nat /\ n + 1 \in Nat /\ 1 <= p
        BY <4>1
      <4>3. n + 1 <= (n + 1) * p
        BY <4>1, <4>2
      <4>4. (n + 1) * p < m /\ (n + 1) * p \in Nat
        BY <2>2, <4>1, <4>2, Product
      <4> QED BY <4>1, <4>2, <4>3, <4>4
    <3> QED BY <1>3, <2>2, <3>1, <3>2 DEF IsFrame
  <2>3. ASSUME ~((n + 1) * PartLen < Len(value))
        PROVE  (Whole(Parsed(buf)) \/ Parsed(buf).error) /\ buf = value
    <3>1. buf = value
      BY <1>2, <2>1, <2>3
    <3> QED BY <1>3, <3>1 DEF IsFrame, Whole
  <2> QED BY <1>2, <1>3, <2>2, <2>3 DEF Whole, IsRead
<1>4. CASE ~IsFrame(value)
  <2>1. Part(value, n) \in Seq(Octets)
    <3>1. n * PartLen + 1 \in Nat \ {0} /\ (n + 1) * PartLen \in Int
      BY PartAssumption
    <3> QED BY <1>1, <3>1, SliceIs DEF Part
  <2>2. buf = Part(value, n)
    <3>1. buf = <<>> \o Part(value, n)
      BY <1>2, <1>4
    <3>2. PICK part \in Seq(Octets) : part = Part(value, n)
      BY <2>1
    <3>3. <<>> \o part = part
      BY <3>2
    <3> QED BY <3>1, <3>2, <3>3
  <2>3. n \in 0 .. Len(value)
    <3>1. PICK p \in Nat \ {0}, m \in Nat : p = PartLen /\ m = Len(value)
      BY <1>1, PartAssumption
    <3>2. n <= n * p /\ n * p \in Nat
      BY <3>1
    <3>3. n * p < m
      BY <3>1
    <3> QED BY <3>1, <3>2, <3>3
  <2>4. Parsed(buf).error
    BY <1>1, <1>4, <2>2, <2>3 DEF IsNoise
  <2> QED BY <1>2, <1>4, <2>4 DEF Whole, IsRead
<1> QED BY <1>3, <1>4

\* The entries and the nonce follow what has wholly arrived.
LEMMA FoundAsArrived ==
  ASSUME FramesInv, NEW uuid \in DOMAIN Says, NEW value \in Says[uuid], NEW buf,
         Whole(Parsed(buf)) => IsFrame(value) /\ buf = value /\ arrived' = Append(arrived, value),
         arrived' = arrived \/ (arrived' = Append(arrived, value)
                                /\ (IsFrame(value) => buf = value)
                                /\ (~IsFrame(value) => ~Whole(Parsed(buf)))),
         frames' = IF Whole(Parsed(buf)) THEN Append(frames, EntryOf(Parsed(buf))) ELSE frames,
         nonce' = IF Whole(Parsed(buf)) /\ Nonce(Parsed(buf)) # <<>>
                  THEN Nonce(Parsed(buf)) ELSE nonce
  PROVE  arrived' \in Seq(Values) /\ frames' \in Seq(Entries) /\ FramesAsSaid'
<1>1. /\ arrived \in Seq(Values) /\ frames \in Seq(Entries) /\ value \in Values
      /\ EntriesOf(frames, arrived) /\ NonceOfLast(nonce, arrived)
  BY FramesAsSaidIs DEF FramesInv, Values
<1>2. /\ value \in DOMAIN Reads <=> IsFrame(value) /\ Whole(Parsed(value))
      /\ value \in DOMAIN Reads =>
            /\ Reads[value].entry = EntryOf(Parsed(value))
            /\ Reads[value].nonce = Nonce(Parsed(value))
  <2>1. value \in DOMAIN Reads <=> IsFrame(value) /\ Whole(Parsed(value))
    BY SaysAssumption, Zenon
  <2>2. value \in DOMAIN Reads =>
           Reads[value] = [entry |-> EntryOf(Parsed(value)), nonce |-> Nonce(Parsed(value))]
    BY SaysAssumption, Zenon
  <2> QED BY <2>1, <2>2
<1>3. EntriesOf(frames', arrived') /\ NonceOfLast(nonce', arrived') => FramesAsSaid'
  BY FramesAsSaidThen
<1>4. CASE arrived' = arrived /\ ~Whole(Parsed(buf))
  BY <1>1, <1>3, <1>4
<1>5. CASE arrived' = Append(arrived, value)
  <2>1. value \in DOMAIN Reads => Reads[value].entry \in Entries
    BY DEF Entries
  <2>2. Whole(Parsed(buf)) <=> value \in DOMAIN Reads
    BY <1>2, <1>5
  <2>3. value \in DOMAIN Reads => buf = value
    BY <2>2
  <2>4. frames' = IF value \in DOMAIN Reads THEN Append(frames, Reads[value].entry) ELSE frames
    BY <1>2, <2>2, <2>3
  <2>5. nonce' = IF value \in DOMAIN Reads /\ Reads[value].nonce # <<>>
                 THEN Reads[value].nonce ELSE nonce
    BY <1>2, <2>2, <2>3
  <2>6. EntriesOf(frames', arrived')
    BY <1>1, <1>5, <2>1, <2>4, EntriesGrow
  <2>7. NonceOfLast(nonce', arrived')
    BY <1>1, <1>5, <2>5, NonceGrows
  <2>8. arrived' \in Seq(Values) /\ frames' \in Seq(Entries)
    BY <1>1, <1>5, <2>1, <2>4
  <2> QED BY <1>3, <2>6, <2>7, <2>8
<1> QED BY <1>4, <1>5

\* Whatever the lock has said elsewhere meanwhile.
LEMMA NotifiedKeepsFrames ==
  ASSUME FramesInv, NEW uuid \in DOMAIN Says, Notified(uuid)
  PROVE  FramesInv'
<1>0. PICK value \in Says[uuid], n \in Nat : \E ahead : IsMade(uuid, value, n, ahead)
  BY NotifiedIsMade
<1>1. PICK ahead : IsMade(uuid, value, n, ahead)
  BY <1>0
<1>2. PICK buf : buf = buffers[uuid] \o Slice(ahead, 1, PartLen)
  OBVIOUS
<1>3. PICK rest : rest = From(ahead, PartLen + 1)
  OBVIOUS
<1>4. /\ n * PartLen < Len(value) /\ ahead = From(value, n * PartLen + 1)
      /\ buffers[uuid] = IF IsFrame(value) THEN Put(value, n) ELSE <<>>
      /\ speaking' = [speaking EXCEPT ![uuid] = IF rest = <<>> THEN <<>> ELSE <<value, rest>>]
      /\ arrived' = IF rest = <<>> THEN Append(arrived, value) ELSE arrived
  BY <1>1, <1>3 DEF IsMade
<1>5. /\ buffers' = [buffers EXCEPT ![uuid] =
                        IF Whole(Parsed(buf)) \/ Parsed(buf).error THEN <<>> ELSE buf]
      /\ frames' = IF Whole(Parsed(buf)) THEN Append(frames, EntryOf(Parsed(buf))) ELSE frames
      /\ nonce' = IF Whole(Parsed(buf)) /\ Nonce(Parsed(buf)) # <<>>
                  THEN Nonce(Parsed(buf)) ELSE nonce
  BY <1>1, <1>2 DEF IsMade, OnNotify, BufferOf
<1>6. /\ (n + 1) * PartLen < Len(value) =>
               /\ rest = From(value, (n + 1) * PartLen + 1) /\ rest # <<>>
               /\ ~Whole(Parsed(buf))
               /\ IsFrame(value) => ~Parsed(buf).error /\ buf = Put(value, n + 1)
      /\ ~((n + 1) * PartLen < Len(value)) =>
               /\ rest = <<>>
               /\ IsFrame(value) => /\ Whole(Parsed(buf)) \/ Parsed(buf).error
                                    /\ buf = value
      /\ ~IsFrame(value) => Parsed(buf).error
  <2>1. /\ n * PartLen < Len(value) /\ ahead = From(value, n * PartLen + 1)
        /\ buffers[uuid] = IF IsFrame(value) THEN Put(value, n) ELSE <<>>
    BY <1>4
  <2>2. IsRead(value, n, rest, buf)
    BY <1>2, <1>3, <2>1, WhatIsParsed
  <2> QED BY <2>2 DEF IsRead
<1>7. /\ DOMAIN speaking = DOMAIN Says /\ DOMAIN buffers = DOMAIN Says
      /\ \A other \in DOMAIN Says : Speaks(other)
  BY DEF FramesInv
<1>8. /\ DOMAIN speaking' = DOMAIN Says /\ DOMAIN buffers' = DOMAIN Says
      /\ speaking'[uuid] = IF rest = <<>> THEN <<>> ELSE <<value, rest>>
      /\ buffers'[uuid] = IF Whole(Parsed(buf)) \/ Parsed(buf).error THEN <<>> ELSE buf
      /\ \A other \in DOMAIN Says \ {uuid} :
            speaking'[other] = speaking[other] /\ buffers'[other] = buffers[other]
  BY <1>4, <1>5, <1>7
<1>9. Speaks(uuid)'
  <2>1. CASE (n + 1) * PartLen < Len(value)
    <3>1. /\ speaking'[uuid] = <<value, From(value, (n + 1) * PartLen + 1)>>
          /\ buffers'[uuid] = IF IsFrame(value) THEN Put(value, n + 1) ELSE <<>>
      BY <1>6, <1>8, <2>1
    <3>2. n + 1 \in Nat \ {0}
      OBVIOUS
    <3> QED BY <2>1, <3>1, <3>2 DEF Speaks
  <2>2. CASE ~((n + 1) * PartLen < Len(value))
    <3>1. speaking'[uuid] = <<>> /\ buffers'[uuid] = <<>>
      BY <1>6, <1>8, <2>2
    <3> QED BY <3>1 DEF Speaks
  <2> QED BY <2>1, <2>2
<1>10. ASSUME NEW other \in DOMAIN Says PROVE Speaks(other)'
  <2>1. CASE other = uuid BY <1>9, <2>1
  <2>2. CASE other # uuid BY <1>7, <1>8, <2>2 DEF Speaks
  <2> QED BY <2>1, <2>2
<1>11. arrived' \in Seq(Values) /\ frames' \in Seq(Entries) /\ FramesAsSaid'
  <2>1. Whole(Parsed(buf)) => IsFrame(value) /\ buf = value /\ arrived' = Append(arrived, value)
    BY <1>4, <1>6 DEF Whole
  <2>2. ~IsFrame(value) => ~Whole(Parsed(buf))
    BY <1>6 DEF Whole
  <2>3. \/ arrived' = arrived
        \/ /\ arrived' = Append(arrived, value)
           /\ IsFrame(value) => buf = value
           /\ ~IsFrame(value) => ~Whole(Parsed(buf))
    BY <1>4, <1>6, <2>2
  <2> QED BY <1>5, <2>1, <2>3, FoundAsArrived
<1> QED BY <1>8, <1>10, <1>11 DEF FramesInv

\* Nothing else the tool, the lock or the user does is a notification.
LEMMA FramesNextInv ==
  ASSUME FramesInv, ChallengeNext \/ UNCHANGED challengeVars
  PROVE  FramesInv'
<1>1. CASE \E uuid \in DOMAIN Says : Notified(uuid) BY <1>1, NotifiedKeepsFrames
<1>2. CASE UNCHANGED challengeVars
  <2>1. /\ speaking' = speaking /\ arrived' = arrived /\ buffers' = buffers
        /\ frames' = frames /\ nonce' = nonce
    BY <1>2 DEF challengeVars
  <2> QED BY <2>1 DEF FramesInv, Speaks, FramesAsSaid
<1> QED
  BY <1>1, <1>2 DEF ChallengeNext, ChallengeStep, ProbeConnected, ProbeCall, ProbeListened,
                    ProbeStopped, ProbeDisconnected

-------------------------------------------------------------------------------
(***************************************************************************)
(* The key probe's dump.                                                   *)
(***************************************************************************)
\* A credential of the session is found under its name.
IsSafe(leaf)      == leaf.value \in Sessions => leaf.key \in Credentials /\ leaf.name \in Credentials
AreSafe(bodies)   == \A name \in DOMAIN bodies : \A leaf \in bodies[name] : IsSafe(leaf)
AnswersFor(lock)  == Answers(lock) \cup {Failure}

\* A lock's entry before it is redacted.
IsEntry(device, lock) ==
    /\ device = [sources |-> device.sources, tokens |-> device.tokens,
                 candidates |-> device.candidates]
    /\ AreSafe(device.sources)
    /\ \A spelling \in DOMAIN device.tokens : device.tokens[spelling] \in AnswersFor(lock)
    /\ device.candidates =
          FindCandidates((UNION Range(device.sources)) \cup TokenLeaves(device.tokens))

\* The spellings asked for are the first ones, each of which has its answer.
AskedSoFar ==
    LET spellings == Spellings[Len(devices) + 1]
    IN  /\ IsFiniteSet(DOMAIN results)
        /\ Cardinality(DOMAIN results) < Len(spellings)
        /\ DOMAIN results = {spellings[j] : j \in 1 .. Cardinality(DOMAIN results)}
        /\ \A spelling \in DOMAIN results : results[spelling] \in AnswersFor(Lock)

\* What the cloud said is kept with the lock.
IsKept(said, lock, tokens) ==
    said.uuid = lock.uuid /\ \E spelling \in DOMAIN tokens : tokens[spelling] = said.body

KeyInv ==
    /\ place \in {"login", "code", "list", "device_info", "lock_info", "token", "write", "exit"}
    /\ devices \in Seq(Range(devices)) /\ Len(devices) <= Len(Locks)
    /\ \A i \in DOMAIN devices : IsEntry(devices[i], Locks[i])
    /\ AreSafe(sources)
    /\ place \in {"login", "code", "list"} => devices = <<>>
    /\ place \in {"device_info", "lock_info", "token"} => Len(devices) < Len(Locks)
    /\ IF place = "token" THEN AskedSoFar ELSE DOMAIN results = {}
    /\ \A said \in told :
          \/ \E i \in DOMAIN devices : IsKept(said, Locks[i], devices[i].tokens)
          \/ place = "token" /\ IsKept(said, Lock, results)
    /\ file \in {<<>>, <<[i \in DOMAIN devices |-> Redact(devices[i])]>>}
    /\ file # <<>> => place = "exit"

\* What is appended is the last element.
LEMMA Appended ==
  ASSUME NEW S, NEW s \in Seq(S), NEW x \in S
  PROVE  /\ Append(s, x) \in Seq(S) /\ Len(Append(s, x)) = Len(s) + 1
         /\ Len(s) \in Nat /\ DOMAIN s = 1 .. Len(s) /\ DOMAIN Append(s, x) = 1 .. Len(s) + 1
         /\ Append(s, x)[Len(s) + 1] = x /\ \A i \in 1 .. Len(s) : Append(s, x)[i] = s[i]
OBVIOUS

\* The same of a sequence of whatever elements.
LEMMA AppendIs ==
  ASSUME NEW s, s \in Seq(Range(s)), NEW x
  PROVE  /\ Append(s, x) \in Seq(Range(Append(s, x))) /\ Len(Append(s, x)) = Len(s) + 1
         /\ Len(s) \in Nat /\ DOMAIN s = 1 .. Len(s) /\ DOMAIN Append(s, x) = 1 .. Len(s) + 1
         /\ Append(s, x)[Len(s) + 1] = x /\ \A i \in 1 .. Len(s) : Append(s, x)[i] = s[i]
<1>1. PICK S : S = Range(s) \cup {x}
  OBVIOUS
<1>2. PICK t \in Seq(S) : t = s /\ x \in S
  <2>1. s \in Seq(S) /\ x \in S
    BY <1>1
  <2> QED BY <2>1
<1>3. PICK u : u = Append(t, x)
  OBVIOUS
<1>4. /\ u \in Seq(S) /\ Len(u) = Len(t) + 1 /\ Len(t) \in Nat
      /\ DOMAIN t = 1 .. Len(t) /\ DOMAIN u = 1 .. Len(t) + 1
      /\ u[Len(t) + 1] = x /\ \A i \in 1 .. Len(t) : u[i] = t[i]
  BY <1>2, <1>3, Appended
<1>5. u \in Seq(Range(u))
  <2>1. \A i \in 1 .. Len(u) : u[i] \in Range(u)
    BY <1>4 DEF Range
  <2>2. PICK R : R = Range(u)
    OBVIOUS
  <2>3. u \in Seq(R)
    BY <1>4, <2>1, <2>2
  <2> QED BY <2>2, <2>3
<1> QED BY <1>2, <1>3, <1>4, <1>5

\* A spelling is added if it was not there.
LEMMA SeenIs ==
  ASSUME NEW S, NEW seen \in Seq(S), NEW x \in S, seen # <<>>, IsInjective(seen)
  PROVE  Seen(seen, x) \in Seq(S) /\ Seen(seen, x) # <<>> /\ IsInjective(Seen(seen, x))
<1>1. CASE x \in Range(seen) BY <1>1 DEF Seen
<1>2. CASE x \notin Range(seen)
  <2>1. PICK more : more = Append(seen, x)
    OBVIOUS
  <2>2. /\ more \in Seq(S) /\ Len(seen) \in Nat
        /\ DOMAIN seen = 1 .. Len(seen) /\ DOMAIN more = 1 .. Len(seen) + 1
        /\ more[Len(seen) + 1] = x /\ \A i \in 1 .. Len(seen) : more[i] = seen[i]
    BY <2>1, Appended
  <2>3. \A i \in 1 .. Len(seen) : more[i] # x
    BY <1>2, <2>2 DEF Range
  <2>4. \A i, j \in 1 .. Len(seen) : more[i] = more[j] => i = j
    BY <2>2 DEF IsInjective
  <2>5. \A i : i \in 1 .. Len(seen) + 1 <=> i \in 1 .. Len(seen) \/ i = Len(seen) + 1
    BY <2>2
  <2>6. \A i, j \in DOMAIN more : more[i] = more[j] => i = j
    BY <2>2, <2>3, <2>4, <2>5
  <2>7. more # <<>>
    BY <2>2
  <2>8. IsInjective(more)
    BY <2>6 DEF IsInjective
  <2> QED BY <1>2, <2>1, <2>2, <2>7, <2>8 DEF Seen
<1> QED BY <1>1, <1>2

\* A lock has spellings, and all are different.
LEMMA SpellingsAre ==
  ASSUME NEW i \in DOMAIN Locks
  PROVE  /\ Len(Spellings[i]) \in Nat \ {0} /\ DOMAIN Spellings[i] = 1 .. Len(Spellings[i])
         /\ IsInjective(Spellings[i])
<1>1. PICK mac : mac = Locks[i].mac
  OBVIOUS
<1>2. PICK S : S = {Dotted(mac), <<Last(mac)>>, mac, <<mac[3]>>}
  OBVIOUS
<1>3. PICK s0 \in Seq(S) : s0 = <<Dotted(mac)>> /\ s0 # <<>> /\ IsInjective(s0)
  <2>1. <<Dotted(mac)>> \in Seq(S) /\ <<Dotted(mac)>> # <<>> /\ IsInjective(<<Dotted(mac)>>)
    BY <1>2 DEF IsInjective
  <2> QED BY <2>1
<1>4. PICK s1 \in Seq(S) : s1 = Seen(s0, <<Last(mac)>>) /\ s1 # <<>> /\ IsInjective(s1)
  BY <1>2, <1>3, SeenIs
<1>5. PICK s2 \in Seq(S) : s2 = Seen(s1, mac) /\ s2 # <<>> /\ IsInjective(s2)
  BY <1>2, <1>4, SeenIs
<1>6. PICK s3 \in Seq(S) : s3 = Seen(s2, <<mac[3]>>) /\ s3 # <<>> /\ IsInjective(s3)
  BY <1>2, <1>5, SeenIs
<1>7. UuidCandidates(mac) \in {s2, s3}
  BY <1>3, <1>4, <1>5, <1>6 DEF UuidCandidates
<1>8. Spellings[i] \in {s2, s3}
  BY <1>1, <1>7 DEF Spellings
<1>9. \A s \in {s2, s3} : Len(s) \in Nat \ {0} /\ DOMAIN s = 1 .. Len(s) /\ IsInjective(s)
  BY <1>5, <1>6
<1> QED BY <1>8, <1>9

\* What d holds besides stays.
LEMMA WithIs ==
  ASSUME NEW d, NEW name, NEW entry
  PROVE  /\ DOMAIN With(d, name, entry) = DOMAIN d \cup {name}
         /\ With(d, name, entry)[name] = entry
         /\ \A n \in DOMAIN d \ {name} : With(d, name, entry)[n] = d[n]
BY DEF With

LEMMA NothingIs == DOMAIN Nothing = {}
BY DEF Nothing

\* No body that a call for details may return has a credential in other places.
LEMMA BodiesAreSafe ==
  /\ \A body \in Infos \cup {AnswerLeaves(Failure)} : \A leaf \in body : IsSafe(leaf)
  /\ \A i \in DOMAIN Locks : AreSafe(RawDict(Locks[i]))
<1>1. ASSUME NEW body \in Infos, NEW leaf \in body PROVE IsSafe(leaf)
  BY <1>1, SessionsAssumption DEF IsSafe
<1>2. ASSUME NEW leaf \in AnswerLeaves(Failure) PROVE IsSafe(leaf)
  <2>1. leaf.value = "error"
    BY NothingIs DEF AnswerLeaves, Failure, Answer, Only, LeavesOf, Leaf
  <2> QED BY <2>1, SessionsAssumption DEF IsSafe
<1>3. ASSUME NEW i \in DOMAIN Locks PROVE AreSafe(RawDict(Locks[i]))
  <2>1. Locks[i] \in Range(Locks)
    BY DEF Range
  <2>2. \A leaf \in Locks[i].raw_dict : IsSafe(leaf)
    <3>1. ASSUME NEW leaf \in Locks[i].raw_dict
          PROVE  leaf \in (UNION Infos) \cup (UNION {lock.raw_dict : lock \in Range(Locks)})
      BY <2>1
    <3> QED BY <3>1, SessionsAssumption DEF IsSafe
  <2>3. /\ DOMAIN RawDict(Locks[i]) = {"get_object_list.raw_dict"}
        /\ RawDict(Locks[i])["get_object_list.raw_dict"] = Locks[i].raw_dict
    <3>1. /\ DOMAIN RawDict(Locks[i]) = DOMAIN Nothing \cup {"get_object_list.raw_dict"}
          /\ RawDict(Locks[i])["get_object_list.raw_dict"] = Locks[i].raw_dict
      BY DEF RawDict, With
    <3> QED BY <3>1, NothingIs
  <2> QED BY <2>2, <2>3 DEF AreSafe
<1> QED BY <1>1, <1>2, <1>3

LEMMA KeyStarts == KeyInit => KeyInv
<1> SUFFICES ASSUME KeyInit PROVE KeyInv
  OBVIOUS
<1>1. /\ place = "login" /\ results = Nothing /\ sources = Nothing /\ devices = <<>>
      /\ told = {} /\ file = <<>>
  BY DEF KeyInit
<1>2. devices \in Seq(Range(devices)) /\ Len(devices) <= Len(Locks) /\ DOMAIN devices = {}
  <2>1. PICK R : R = Range(devices)
    OBVIOUS
  <2>2. <<>> \in Seq(R) /\ Len(<<>>) = 0 /\ DOMAIN <<>> = {}
    OBVIOUS
  <2>3. Len(Locks) \in Nat
    BY LocksAssumption
  <2> QED BY <1>1, <2>1, <2>2, <2>3
<1>3. AreSafe(sources)
  BY <1>1, NothingIs DEF AreSafe
<1>4. DOMAIN results = {}
  BY <1>1, NothingIs
<1> QED BY <1>1, <1>2, <1>3, <1>4 DEF KeyInv

\* A step that asks the cloud for no token and ends no entry keeps what is kept.
LEMMA PlaceKeeps ==
  ASSUME KeyInv, place # "token", place # "exit", UNCHANGED <<results, devices, told>>,
         place' \in {"code", "list", "device_info", "lock_info", "token", "write", "exit"},
         AreSafe(sources'),
         place' \in {"code", "list"} => devices = <<>>,
         place' \in {"device_info", "lock_info", "token"} => Len(devices) < Len(Locks),
         \/ file' = file
         \/ place' = "exit" /\ file' = <<[i \in DOMAIN devices |-> Redact(devices[i])]>>
  PROVE  KeyInv'
<1>1. /\ devices \in Seq(Range(devices)) /\ Len(devices) <= Len(Locks)
      /\ \A i \in DOMAIN devices : IsEntry(devices[i], Locks[i])
      /\ DOMAIN results = {} /\ file = <<>>
      /\ \A said \in told : \E i \in DOMAIN devices : IsKept(said, Locks[i], devices[i].tokens)
  BY DEF KeyInv
<1>2. devices' = devices /\ results' = results /\ told' = told
  OBVIOUS
<1>3. devices' \in Seq(Range(devices')) /\ Len(devices') <= Len(Locks)
  BY <1>1, <1>2
<1>4. \A i \in DOMAIN devices' : IsEntry(devices'[i], Locks[i])
  BY <1>1, <1>2
<1>5. IF place' = "token" THEN AskedSoFar' ELSE DOMAIN results' = {}
  <2>1. CASE place' = "token"
    <3>1. Len(devices) + 1 \in DOMAIN Locks
      <4>1. Len(devices) \in Nat /\ Len(Locks) \in Nat /\ DOMAIN Locks = 1 .. Len(Locks)
        BY <1>1, LocksAssumption
      <4> QED BY <2>1, <4>1
    <3>2. PICK spellings : spellings = Spellings[Len(devices) + 1]
      OBVIOUS
    <3>3. Len(spellings) \in Nat \ {0}
      BY <3>1, <3>2, SpellingsAre
    <3>4. IsFiniteSet({}) /\ Cardinality({}) = 0
      BY FS_EmptySet
    <3>5. {spellings[j] : j \in 1 .. 0} = {}
      OBVIOUS
    <3>6. DOMAIN results' = {} /\ Spellings[Len(devices') + 1] = spellings
      BY <1>1, <1>2, <3>2
    <3> QED BY <2>1, <3>3, <3>4, <3>5, <3>6 DEF AskedSoFar
  <2>2. CASE place' # "token" BY <1>1, <1>2, <2>2
  <2> QED BY <2>1, <2>2
<1>6. \A said \in told' : \E i \in DOMAIN devices' : IsKept(said, Locks[i], devices'[i].tokens)
  BY <1>1, <1>2
<1>7. /\ file' \in {<<>>, <<[i \in DOMAIN devices' |-> Redact(devices'[i])]>>}
      /\ file' # <<>> => place' = "exit"
  BY <1>1, <1>2
<1>8. /\ place' \in {"login", "code", "list"} => devices' = <<>>
      /\ place' \in {"device_info", "lock_info", "token"} => Len(devices') < Len(Locks)
  BY <1>2
<1> QED BY <1>3, <1>4, <1>5, <1>6, <1>7, <1>8 DEF KeyInv, IsEntry, IsKept

\* What a call for details returns, or raises, is a source more.
LEMMA DetailsKeep ==
  ASSUME KeyInv, NEW name, NEW next \in {"lock_info", "token"},
         place \in {"device_info", "lock_info"}, Details(name, next)
  PROVE  KeyInv'
<1>1. PICK body \in Infos \cup {AnswerLeaves(Failure)} : sources' = With(sources, name, body)
  BY DEF Details
<1>2. place' = next /\ UNCHANGED <<results, devices, told, file>>
  BY DEF Details, After, Recorded
<1>3. AreSafe(sources) /\ Len(devices) < Len(Locks)
  BY DEF KeyInv
<1>4. AreSafe(sources')
  <2>1. \A leaf \in body : IsSafe(leaf)
    BY BodiesAreSafe
  <2>2. /\ DOMAIN sources' = DOMAIN sources \cup {name} /\ sources'[name] = body
        /\ \A n \in DOMAIN sources \ {name} : sources'[n] = sources[n]
    BY <1>1 DEF With
  <2>3. ASSUME NEW n \in DOMAIN sources', NEW leaf \in sources'[n] PROVE IsSafe(leaf)
    <3>1. CASE n = name BY <2>1, <2>2, <2>3, <3>1
    <3>2. CASE n # name BY <1>3, <2>2, <2>3, <3>2 DEF AreSafe
    <3> QED BY <3>1, <3>2
  <2> QED BY <2>3 DEF AreSafe
<1> QED BY <1>2, <1>3, <1>4, PlaceKeeps

\* The spelling asked for next is new, so no answer takes another's place.
Answered(tokens, n) ==
    LET spellings == Spellings[Len(devices) + 1]
    IN  /\ IsFiniteSet(DOMAIN tokens) /\ Cardinality(DOMAIN tokens) = n
        /\ DOMAIN tokens = {spellings[j] : j \in 1 .. n}
        /\ \A spelling \in DOMAIN tokens : tokens[spelling] \in AnswersFor(Lock)

LEMMA AnswerIsNew ==
  ASSUME KeyInv, place = "token", NEW body \in AnswersFor(Lock), NEW new,
         new = Spellings[Len(devices) + 1][Cardinality(DOMAIN results) + 1],
         NEW tokens, tokens = With(results, new, body)
  PROVE  /\ Cardinality(DOMAIN results) \in Nat
         /\ Answered(tokens, Cardinality(DOMAIN results) + 1)
         /\ new \in DOMAIN tokens /\ tokens[new] = body
         /\ \A spelling \in DOMAIN results :
               spelling \in DOMAIN tokens /\ tokens[spelling] = results[spelling]
<1>1. PICK spellings : spellings = Spellings[Len(devices) + 1]
  OBVIOUS
<1>2. /\ IsFiniteSet(DOMAIN results) /\ Cardinality(DOMAIN results) < Len(spellings)
      /\ DOMAIN results = {spellings[j] : j \in 1 .. Cardinality(DOMAIN results)}
      /\ \A spelling \in DOMAIN results : results[spelling] \in AnswersFor(Lock)
      /\ Len(devices) < Len(Locks) /\ devices \in Seq(Range(devices))
  BY <1>1 DEF KeyInv, AskedSoFar
<1>3. Len(devices) + 1 \in DOMAIN Locks
  <2>1. Len(devices) \in Nat /\ Len(Locks) \in Nat /\ DOMAIN Locks = 1 .. Len(Locks)
    BY <1>2, LocksAssumption
  <2> QED BY <1>2, <2>1
<1>4. /\ Len(spellings) \in Nat \ {0} /\ DOMAIN spellings = 1 .. Len(spellings)
      /\ IsInjective(spellings)
  BY <1>1, <1>3, SpellingsAre
<1>5. PICK n \in Nat : n = Cardinality(DOMAIN results)
  BY <1>2, FS_CardinalityType
<1>6. n + 1 \in DOMAIN spellings /\ 1 .. n \subseteq DOMAIN spellings /\ n + 1 \notin 1 .. n
  BY <1>2, <1>4, <1>5
<1>7. new \notin DOMAIN results
  <2>1. \A j \in 1 .. n : spellings[j] # spellings[n + 1]
    BY <1>4, <1>6 DEF IsInjective
  <2> QED BY <1>1, <1>2, <1>5, <2>1
<1>8. /\ DOMAIN tokens = DOMAIN results \cup {new} /\ tokens[new] = body
      /\ \A spelling \in DOMAIN results : tokens[spelling] = results[spelling]
  BY <1>7 DEF With
<1>9. IsFiniteSet(DOMAIN tokens) /\ Cardinality(DOMAIN tokens) = n + 1
  BY <1>2, <1>5, <1>7, <1>8, FS_AddElement
<1>10. DOMAIN tokens = {spellings[j] : j \in 1 .. n + 1}
  <2>1. \A j : j \in 1 .. n + 1 <=> j \in 1 .. n \/ j = n + 1
    OBVIOUS
  <2> QED BY <1>1, <1>2, <1>5, <1>8, <2>1
<1>11. \A spelling \in DOMAIN tokens : tokens[spelling] \in AnswersFor(Lock)
  BY <1>2, <1>8
<1> QED BY <1>1, <1>5, <1>8, <1>9, <1>10, <1>11 DEF Answered

\* The next spelling is asked for.
LEMMA NextSpellingKeeps ==
  ASSUME KeyInv, place = "token", NEW tokens, NEW n \in Nat, Answered(tokens, n),
         n < Len(Spellings[Len(devices) + 1]),
         NEW said, IsKept(said, Lock, tokens),
         \A spelling \in DOMAIN results :
               spelling \in DOMAIN tokens /\ tokens[spelling] = results[spelling],
         told' = told \cup {said}, results' = tokens, place' = "token",
         UNCHANGED <<sources, devices, file>>
  PROVE  KeyInv'
<1>1. /\ devices' = devices /\ sources' = sources /\ file' = file /\ file = <<>>
      /\ devices \in Seq(Range(devices)) /\ Len(devices) <= Len(Locks)
      /\ Len(devices) < Len(Locks) /\ AreSafe(sources)
      /\ \A i \in DOMAIN devices : IsEntry(devices[i], Locks[i])
      /\ \A s \in told : \/ \E i \in DOMAIN devices : IsKept(s, Locks[i], devices[i].tokens)
                         \/ IsKept(s, Lock, results)
  BY DEF KeyInv
<1>2. Lock' = Lock
  BY <1>1 DEF Lock
<1>3. AskedSoFar'
  <2>1. PICK spellings : spellings = Spellings[Len(devices) + 1]
    OBVIOUS
  <2>2. /\ IsFiniteSet(DOMAIN tokens) /\ Cardinality(DOMAIN tokens) = n
        /\ DOMAIN tokens = {spellings[j] : j \in 1 .. n}
        /\ \A spelling \in DOMAIN tokens : tokens[spelling] \in AnswersFor(Lock)
    BY <2>1 DEF Answered
  <2>3. n < Len(spellings) /\ spellings = Spellings[Len(devices') + 1]
    BY <1>1, <2>1
  <2>4. /\ IsFiniteSet(DOMAIN results') /\ Cardinality(DOMAIN results') < Len(spellings)
        /\ DOMAIN results' = {spellings[j] : j \in 1 .. Cardinality(DOMAIN results')}
        /\ \A spelling \in DOMAIN results' : results'[spelling] \in AnswersFor(Lock)
    BY <2>2, <2>3
  <2> QED BY <1>2, <2>3, <2>4 DEF AskedSoFar
<1>4. ASSUME NEW s \in told'
      PROVE  \/ \E i \in DOMAIN devices : IsKept(s, Locks[i], devices[i].tokens)
             \/ IsKept(s, Lock, tokens)
  BY <1>1, <1>4 DEF IsKept
<1>5. \A s \in told' : \/ \E i \in DOMAIN devices' : IsKept(s, Locks[i], devices'[i].tokens)
                       \/ place' = "token" /\ IsKept(s, Lock', results')
  BY <1>1, <1>2, <1>4
<1>6. /\ devices' \in Seq(Range(devices')) /\ Len(devices') <= Len(Locks)
      /\ Len(devices') < Len(Locks) /\ AreSafe(sources')
      /\ \A i \in DOMAIN devices' : IsEntry(devices'[i], Locks[i])
  BY <1>1
<1> QED BY <1>1, <1>3, <1>5, <1>6 DEF KeyInv, IsKept

\* Its last spelling ends a lock's entry.
LEMMA LastSpellingKeeps ==
  ASSUME KeyInv, place = "token", NEW tokens, NEW n \in Nat, Answered(tokens, n),
         NEW said, IsKept(said, Lock, tokens),
         \A spelling \in DOMAIN results :
               spelling \in DOMAIN tokens /\ tokens[spelling] = results[spelling],
         told' = told \cup {said}, results' = Nothing,
         devices' = Append(devices, DeviceEntry(tokens)), file' = file,
         IF Len(devices') < Len(Locks)
         THEN place' = "device_info" /\ sources' = RawDict(Locks[Len(devices')])
         ELSE place' = "write" /\ sources' = Nothing
  PROVE  KeyInv'
<1>1. /\ file = <<>>
      /\ devices \in Seq(Range(devices))
      /\ Len(devices) < Len(Locks) /\ AreSafe(sources)
      /\ \A i \in DOMAIN devices : IsEntry(devices[i], Locks[i])
      /\ \A s \in told : \/ \E i \in DOMAIN devices : IsKept(s, Locks[i], devices[i].tokens)
                         \/ IsKept(s, Lock, results)
  BY DEF KeyInv
<1>2. PICK k \in Nat : k = Len(devices)
  BY <1>1
<1>3. /\ devices' \in Seq(Range(devices')) /\ Len(devices') = k + 1
      /\ DOMAIN devices = 1 .. k /\ DOMAIN devices' = 1 .. k + 1
      /\ devices'[k + 1] = DeviceEntry(tokens) /\ \A i \in 1 .. k : devices'[i] = devices[i]
  BY <1>1, <1>2, AppendIs
<1>4. Lock = Locks[k + 1] /\ k + 1 <= Len(Locks) /\ k + 1 \in DOMAIN Locks
  <2>1. Len(Locks) \in Nat /\ DOMAIN Locks = 1 .. Len(Locks)
    BY LocksAssumption
  <2> QED BY <1>1, <1>2, <2>1 DEF Lock
<1>5. \A i : i \in 1 .. k + 1 <=> i \in 1 .. k \/ i = k + 1
  BY <1>2
<1>6. PICK device : device = DeviceEntry(tokens)
  OBVIOUS
<1>7. IsEntry(device, Lock)
  <2>1. \A spelling \in DOMAIN tokens : tokens[spelling] \in AnswersFor(Lock)
    BY DEF Answered
  <2>2. /\ device.sources = sources /\ device.tokens = tokens
        /\ device.candidates = FindCandidates((UNION Range(sources)) \cup TokenLeaves(tokens))
        /\ device = [sources |-> device.sources, tokens |-> device.tokens,
                     candidates |-> device.candidates]
    BY <1>6 DEF DeviceEntry
  <2> QED BY <1>1, <2>1, <2>2 DEF IsEntry
<1>8. \A i \in DOMAIN devices' : IsEntry(devices'[i], Locks[i])
  BY <1>1, <1>3, <1>4, <1>5, <1>6, <1>7
<1>9. device.tokens = tokens
  BY <1>6 DEF DeviceEntry
<1>10. ASSUME NEW s \in told'
       PROVE  \E i \in DOMAIN devices' : IsKept(s, Locks[i], devices'[i].tokens)
  <2>1. CASE IsKept(s, Lock, tokens)
    <3>1. k + 1 \in DOMAIN devices' /\ IsKept(s, Locks[k + 1], devices'[k + 1].tokens)
      BY <1>3, <1>4, <1>5, <1>6, <1>9, <2>1
    <3> QED BY <3>1
  <2>2. CASE \E i \in DOMAIN devices : IsKept(s, Locks[i], devices[i].tokens)
    <3>1. PICK i \in DOMAIN devices : IsKept(s, Locks[i], devices[i].tokens)
      BY <2>2
    <3> QED BY <1>3, <1>5, <3>1
  <2>3. IsKept(s, Lock, tokens) \/ \E i \in DOMAIN devices : IsKept(s, Locks[i], devices[i].tokens)
    BY <1>1, <1>10 DEF IsKept
  <2> QED BY <2>1, <2>2, <2>3
<1>11. AreSafe(sources') /\ DOMAIN results' = {}
  <2>1. CASE Len(devices') < Len(Locks)
    <3>1. Len(devices') \in DOMAIN Locks
      BY <1>3, <1>4
    <3> QED BY <2>1, <3>1, BodiesAreSafe, NothingIs
  <2>2. CASE ~(Len(devices') < Len(Locks))
    BY <2>2, NothingIs DEF AreSafe
  <2> QED BY <2>1, <2>2
<1>12. /\ place' \in {"device_info", "write"}
       /\ place' = "device_info" => Len(devices') < Len(Locks)
       /\ Len(devices') <= Len(Locks)
       /\ file' = <<>>
  BY <1>1, <1>3, <1>4
<1> QED BY <1>3, <1>8, <1>10, <1>11, <1>12 DEF KeyInv

\* The lock's next spelling, or its entry in the dump and the next lock.
GoesOnWith(tokens) ==
    IF Cardinality(DOMAIN tokens) < Len(Spellings[Len(devices) + 1])
    THEN results' = tokens /\ place' = "token" /\ UNCHANGED <<sources, devices>>
    ELSE /\ results' = Nothing
         /\ devices' = Append(devices, DeviceEntry(tokens))
         /\ IF Len(devices') < Len(Locks)
            THEN place' = "device_info" /\ sources' = RawDict(Locks[Len(devices')])
            ELSE place' = "write" /\ sources' = Nothing

LEMMA GetTokenKeeps ==
  ASSUME KeyInv, GetToken
  PROVE  KeyInv'
<1>0. PICK body \in AnswersFor(Lock) : \E new, tokens, said :
         /\ new = Spellings[Len(devices) + 1][Cardinality(DOMAIN results) + 1]
         /\ tokens = With(results, new, body) /\ said = [uuid |-> Lock.uuid, body |-> body]
         /\ told' = told \cup {said}
         /\ GoesOnWith(tokens)
  BY DEF GetToken, After, Recorded, AnswersFor, GoesOnWith
<1>1. PICK new, tokens, said :
         /\ new = Spellings[Len(devices) + 1][Cardinality(DOMAIN results) + 1]
         /\ tokens = With(results, new, body) /\ said = [uuid |-> Lock.uuid, body |-> body]
         /\ told' = told \cup {said}
         /\ GoesOnWith(tokens)
  BY <1>0
<1>2. place = "token" /\ file' = file
  BY DEF GetToken
<1>3. PICK n \in Nat :
         /\ Answered(tokens, n) /\ new \in DOMAIN tokens /\ tokens[new] = body
         /\ \A spelling \in DOMAIN results :
               spelling \in DOMAIN tokens /\ tokens[spelling] = results[spelling]
  <2>1. /\ Cardinality(DOMAIN results) \in Nat
        /\ Answered(tokens, Cardinality(DOMAIN results) + 1)
        /\ new \in DOMAIN tokens /\ tokens[new] = body
        /\ \A spelling \in DOMAIN results :
              spelling \in DOMAIN tokens /\ tokens[spelling] = results[spelling]
    BY <1>1, <1>2, AnswerIsNew
  <2>2. Cardinality(DOMAIN results) + 1 \in Nat
    BY <2>1
  <2> QED BY <2>1, <2>2
<1>4. Cardinality(DOMAIN tokens) = n
  BY <1>3 DEF Answered
<1>5. IsKept(said, Lock, tokens)
  BY <1>1, <1>3 DEF IsKept
<1>6. CASE n < Len(Spellings[Len(devices) + 1])
  BY <1>1, <1>2, <1>3, <1>4, <1>5, <1>6, NextSpellingKeeps DEF GoesOnWith
<1>7. CASE ~(n < Len(Spellings[Len(devices) + 1]))
  BY <1>1, <1>2, <1>3, <1>4, <1>5, <1>7, LastSpellingKeeps DEF GoesOnWith
<1> QED BY <1>6, <1>7

\* Every step of the probe keeps the invariant.
LEMMA KeyNextInv == KeyInv /\ [KeyStep]_keyVars => KeyInv'
<1> SUFFICES ASSUME KeyInv, [KeyStep]_keyVars PROVE KeyInv'
  OBVIOUS
<1>1. CASE Login \/ EnterCode
  <2>1. /\ place \in {"login", "code"} /\ place' \in {"list", "code", "exit"}
        /\ UNCHANGED <<results, sources, devices, told, file>>
    BY <1>1 DEF Login, EnterCode
  <2>2. devices = <<>> /\ AreSafe(sources)
    BY <2>1 DEF KeyInv
  <2> QED BY <2>1, <2>2, PlaceKeeps
<1>2. CASE ListDevices
  <2>1. /\ place = "list" /\ devices = <<>> /\ AreSafe(sources)
        /\ UNCHANGED <<results, devices, told, file>>
    BY <1>2 DEF ListDevices, KeyInv
  <2>2. Len(devices) = 0 /\ Len(Locks) \in Nat \ {0} /\ DOMAIN Locks = 1 .. Len(Locks)
    BY <2>1, LocksAssumption
  <2>3. CASE place' = "device_info" /\ sources' = RawDict(Lock)
    <3>1. Lock = Locks[1] /\ 1 \in DOMAIN Locks
      BY <2>2 DEF Lock
    <3>2. AreSafe(sources')
      BY <2>3, <3>1, BodiesAreSafe
    <3> QED BY <2>1, <2>2, <2>3, <3>2, PlaceKeeps
  <2>4. CASE place' = "exit" /\ UNCHANGED sources
    BY <2>1, <2>4, PlaceKeeps
  <2> QED BY <1>2, <2>3, <2>4 DEF ListDevices
<1>3. CASE GetDeviceInfo
  BY <1>3, DetailsKeep DEF GetDeviceInfo
<1>4. CASE GetLockInfo
  BY <1>4, DetailsKeep DEF GetLockInfo
<1>5. CASE GetToken BY <1>5, GetTokenKeeps
<1>6. CASE WriteDump
  <2>1. /\ place = "write" /\ place' = "exit" /\ UNCHANGED <<results, sources, devices, told>>
        /\ file' = <<[i \in DOMAIN devices |-> Redact(devices[i])]>> /\ AreSafe(sources')
    BY <1>6 DEF WriteDump, KeyInv
  <2> QED BY <2>1, PlaceKeeps
<1>7. CASE UNCHANGED keyVars
  <2>1. /\ place' = place /\ results' = results /\ sources' = sources /\ devices' = devices
        /\ told' = told /\ file' = file
    BY <1>7 DEF keyVars
  <2>2. Lock' = Lock
    BY <2>1 DEF Lock
  <2> QED BY <2>1, <2>2 DEF KeyInv, AskedSoFar, IsEntry, IsKept, AreSafe
<1> QED BY <1>1, <1>2, <1>3, <1>4, <1>5, <1>6, <1>7 DEF KeyStep

\* What redact leaves of an entry.
LEMMA RedactIs ==
  ASSUME NEW device, NEW lock, IsEntry(device, lock)
  PROVE  /\ DOMAIN Redact(device).sources = DOMAIN device.sources
         /\ \A name \in DOMAIN device.sources :
               Redact(device).sources[name] = {Redacted(leaf) : leaf \in device.sources[name]}
         /\ DOMAIN Redact(device).tokens = DOMAIN device.tokens
         /\ \A spelling \in DOMAIN device.tokens :
               LET body == device.tokens[spelling]
               IN  Redact(device).tokens[spelling]
                      = Answer(RedactedDict(body.top), RedactedDict(body.token))
         /\ Redact(device).candidates = device.candidates
<1>1. PICK s, t, c : device = [sources |-> s, tokens |-> t, candidates |-> c]
  BY DEF IsEntry
<1>2. device.sources = s /\ device.tokens = t /\ device.candidates = c
  BY <1>1
<1>3. PICK s2, t2 :
         /\ s2 = [source \in DOMAIN s |-> {Redacted(leaf) : leaf \in s[source]}]
         /\ t2 = [spelling \in DOMAIN t |-> Answer(RedactedDict(t[spelling].top),
                                                   RedactedDict(t[spelling].token))]
  OBVIOUS
<1>4. Redact(device) = [device EXCEPT !.sources = s2, !.tokens = t2]
  BY <1>2, <1>3, Zenon DEF Redact
<1>5. PICK r : r = [device EXCEPT !.sources = s2, !.tokens = t2]
  OBVIOUS
<1>6. r.sources = s2 /\ r.tokens = t2 /\ r.candidates = c
  BY <1>1, <1>5
<1> QED BY <1>2, <1>3, <1>4, <1>5, <1>6

\* No answer holds a credential of the session, and one that was decrypted holds the
\* lock's token.
LEMMA AnswersAre ==
  ASSUME NEW lock \in Range(Locks), NEW body \in AnswersFor(lock)
  PROVE  /\ \A key \in DOMAIN body.top : body.top[key] \notin Sessions
         /\ \A key \in DOMAIN body.token : body.token[key] \notin Sessions
         /\ DOMAIN body.token # {} =>
               /\ DOMAIN body.token = {"uuid", "id", "token"}
               /\ body.token["uuid"] = lock.uuid /\ body.token["id"] = lock.id
         /\ "_decrypted_token" \in DOMAIN body.top =>
               body.top["_decrypted_token"] = lock.token /\ DOMAIN body.token # {}
<1>1. /\ {"refused", "error", "null", "encrypted"} \cap Sessions = {}
      /\ {lock.uuid, lock.id, lock.token} \cap Sessions = {}
  BY SessionsAssumption
<1>2. CASE body = Refused
  BY <1>1, <1>2 DEF Refused, Answer, Only, Nothing
<1>3. CASE body = NullToken
  BY <1>1, <1>3 DEF NullToken, Answer, Only, Nothing
<1>4. CASE body = Failure
  BY <1>1, <1>4 DEF Failure, Answer, Only, Nothing
<1>5. ASSUME NEW key \in {"_decrypted_token", "_decrypt_error"}, NEW value, value \notin Sessions,
             key = "_decrypted_token" => value = lock.token, body = Granted(lock, key, value)
      PROVE  /\ \A k \in DOMAIN body.top : body.top[k] \notin Sessions
             /\ \A k \in DOMAIN body.token : body.token[k] \notin Sessions
             /\ DOMAIN body.token = {"uuid", "id", "token"}
             /\ body.token["uuid"] = lock.uuid /\ body.token["id"] = lock.id
             /\ "_decrypted_token" \in DOMAIN body.top =>
                   body.top["_decrypted_token"] = lock.token
  <2>1. /\ body.top = [k \in {key} |-> value]
        /\ body.token = [uuid |-> lock.uuid, id |-> lock.id, token |-> "encrypted"]
    BY <1>5 DEF Granted, Answer, Only
  <2>2. DOMAIN body.top = {key} /\ body.top[key] = value
    BY <2>1
  <2>3. /\ DOMAIN body.token = {"uuid", "id", "token"}
        /\ body.token["uuid"] = lock.uuid /\ body.token["id"] = lock.id
        /\ body.token["token"] = "encrypted"
    BY <2>1
  <2> QED BY <1>1, <1>5, <2>2, <2>3
<1>6. CASE body = Granted(lock, "_decrypted_token", lock.token)
  <2>1. lock.token \notin Sessions
    BY <1>1
  <2> QED BY <1>5, <1>6, <2>1
<1>7. CASE body = Granted(lock, "_decrypt_error", "error")
  <2>1. "error" \notin Sessions
    BY <1>1
  <2> QED BY <1>5, <1>7, <2>1
<1> QED BY <1>2, <1>3, <1>4, <1>6, <1>7 DEF AnswersFor, Answers

\* A leaf of a dict has its key for its name, and the value there.
LEMMA LeavesAre ==
  ASSUME NEW dict, NEW leaf
  PROVE  leaf \in LeavesOf(dict) <=>
            \E key \in DOMAIN dict : /\ leaf = Leaf(key, key, dict[key])
                                     /\ leaf.key = key /\ leaf.name = key /\ leaf.value = dict[key]
BY DEF LeavesOf, Leaf

\* What is found in answers is none of the session's, redacted or not.
LEMMA TokenLeavesAre ==
  ASSUME NEW lock \in Range(Locks), NEW body \in AnswersFor(lock), NEW leaf,
         leaf \in AnswerLeaves(body)
         \/ leaf \in AnswerLeaves(Answer(RedactedDict(body.top), RedactedDict(body.token)))
  PROVE  leaf.value \notin Sessions
<1>1. /\ \A key \in DOMAIN body.top : body.top[key] \notin Sessions
      /\ \A key \in DOMAIN body.token : body.token[key] \notin Sessions
  BY AnswersAre
<1>2. REDACTED \notin Sessions
  BY SessionsAssumption DEF REDACTED
<1>3. ASSUME NEW dict, \A key \in DOMAIN dict : dict[key] \notin Sessions,
             leaf \in LeavesOf(dict) \/ leaf \in LeavesOf(RedactedDict(dict))
      PROVE  leaf.value \notin Sessions
  <2>1. CASE leaf \in LeavesOf(dict)
    BY <1>3, <2>1, LeavesAre
  <2>2. CASE leaf \in LeavesOf(RedactedDict(dict))
    <3>1. PICK key \in DOMAIN RedactedDict(dict) : leaf.value = RedactedDict(dict)[key]
      BY <2>2, LeavesAre
    <3>2. leaf.value = REDACTED \/ (key \in DOMAIN dict /\ leaf.value = dict[key])
      BY <3>1 DEF RedactedDict
    <3> QED BY <1>2, <1>3, <3>2
  <2> QED BY <1>3, <2>1, <2>2
<1>4. \/ leaf \in LeavesOf(body.top) \/ leaf \in LeavesOf(RedactedDict(body.top))
      \/ leaf \in LeavesOf(body.token) \/ leaf \in LeavesOf(RedactedDict(body.token))
  BY DEF AnswerLeaves, Answer
<1> QED BY <1>1, <1>3, <1>4

\* The dump is the entries, redacted.
LEMMA FileIs ==
  ASSUME KeyInv, file # <<>>
  PROVE  /\ DOMAIN file[1] = DOMAIN devices
         /\ \A i \in DOMAIN devices : file[1][i] = Redact(devices[i])
         /\ \A i \in DOMAIN devices :
               IsEntry(devices[i], Locks[i]) /\ i \in DOMAIN Locks /\ Locks[i] \in Range(Locks)
         /\ \A said \in told : \E i \in DOMAIN devices : IsKept(said, Locks[i], devices[i].tokens)
<1>1. file = <<[i \in DOMAIN devices |-> Redact(devices[i])]>> /\ place = "exit"
  BY DEF KeyInv
<1>2. PICK written : written = [i \in DOMAIN devices |-> Redact(devices[i])]
  OBVIOUS
<1>3. file[1] = written
  BY <1>1, <1>2
<1>4. /\ devices \in Seq(Range(devices)) /\ Len(devices) <= Len(Locks)
      /\ \A i \in DOMAIN devices : IsEntry(devices[i], Locks[i])
  BY DEF KeyInv
<1>5. \A i \in DOMAIN devices : i \in DOMAIN Locks
  <2>1. /\ Len(Locks) \in Nat /\ DOMAIN Locks = 1 .. Len(Locks)
        /\ Len(devices) \in Nat /\ DOMAIN devices = 1 .. Len(devices)
    BY <1>4, LocksAssumption
  <2> QED BY <1>4, <2>1
<1>6. \A i \in DOMAIN devices : Locks[i] \in Range(Locks)
  BY <1>5 DEF Range
<1>7. \A said \in told : \E i \in DOMAIN devices : IsKept(said, Locks[i], devices[i].tokens)
  BY <1>1 DEF KeyInv
<1> QED BY <1>2, <1>3, <1>4, <1>5, <1>6, <1>7

LEMMA KeyRedacted == KeyInv => DumpIsRedacted
<1> SUFFICES ASSUME KeyInv, file # <<>>, NEW d \in Range(file[1]),
                    NEW leaf \in (UNION Range(d.sources)) \cup TokenLeaves(d.tokens) \cup d.candidates
             PROVE  leaf.value \notin Sessions
  BY DEF DumpIsRedacted
<1>1. PICK i \in DOMAIN devices : d = Redact(devices[i])
  BY FileIs DEF Range
<1>2. PICK device, lock : device = devices[i] /\ lock = Locks[i]
  OBVIOUS
<1>3. IsEntry(device, lock) /\ lock \in Range(Locks) /\ d = Redact(device)
  BY <1>1, <1>2, FileIs
<1>4. /\ DOMAIN d.sources = DOMAIN device.sources /\ DOMAIN d.tokens = DOMAIN device.tokens
      /\ \A name \in DOMAIN device.sources :
            d.sources[name] = {Redacted(l) : l \in device.sources[name]}
      /\ \A spelling \in DOMAIN device.tokens :
            d.tokens[spelling] = Answer(RedactedDict(device.tokens[spelling].top),
                                        RedactedDict(device.tokens[spelling].token))
      /\ d.candidates = device.candidates
  BY <1>3, RedactIs
<1>5. /\ AreSafe(device.sources)
      /\ \A spelling \in DOMAIN device.tokens : device.tokens[spelling] \in AnswersFor(lock)
      /\ device.candidates =
            FindCandidates((UNION Range(device.sources)) \cup TokenLeaves(device.tokens))
  BY <1>3 DEF IsEntry
<1>6. REDACTED \notin Sessions
  BY SessionsAssumption DEF REDACTED
<1>7. CASE leaf \in UNION Range(d.sources)
  <2>1. PICK name \in DOMAIN d.sources : leaf \in d.sources[name]
    BY <1>7 DEF Range
  <2>2. PICK l \in device.sources[name] : leaf = Redacted(l)
    BY <1>4, <2>1
  <2>3. IsSafe(l)
    BY <1>4, <1>5, <2>1 DEF AreSafe
  <2> QED BY <1>6, <2>2, <2>3 DEF Redacted, IsSafe, Leaf
<1>8. CASE leaf \in TokenLeaves(d.tokens)
  <2>1. PICK spelling \in DOMAIN d.tokens : leaf \in AnswerLeaves(d.tokens[spelling])
    BY <1>8 DEF TokenLeaves
  <2>2. PICK body \in AnswersFor(lock) : body = device.tokens[spelling]
    BY <1>4, <1>5, <2>1
  <2>3. leaf \in AnswerLeaves(Answer(RedactedDict(body.top), RedactedDict(body.token)))
    BY <1>4, <2>1, <2>2
  <2> QED BY <1>3, <2>3, TokenLeavesAre
<1>9. CASE leaf \in d.candidates
  <2>1. PICK l \in (UNION Range(device.sources)) \cup TokenLeaves(device.tokens) : leaf = Shown(l)
    BY <1>4, <1>5, <1>9 DEF FindCandidates
  <2>2. CASE l \in UNION Range(device.sources)
    <3>1. PICK name \in DOMAIN device.sources : l \in device.sources[name]
      BY <2>2 DEF Range
    <3>2. IsSafe(l)
      BY <1>5, <3>1 DEF AreSafe
    <3> QED BY <1>6, <2>1, <3>2 DEF Shown, IsSafe, Leaf
  <2>3. CASE l \in TokenLeaves(device.tokens)
    <3>1. PICK spelling \in DOMAIN device.tokens : l \in AnswerLeaves(device.tokens[spelling])
      BY <2>3 DEF TokenLeaves
    <3>2. l.value \notin Sessions
      BY <1>3, <1>5, <3>1, TokenLeavesAre
    <3> QED BY <1>6, <2>1, <3>2 DEF Shown, Leaf
  <2> QED BY <2>1, <2>2, <2>3
<1> QED BY <1>7, <1>8, <1>9

\* What load_token may meet of a lock's answer in the dump: the token is named as before.
IsOf(e, body, lock) ==
    /\ "_decrypted_token" \in DOMAIN e.top <=> "_decrypted_token" \in DOMAIN body.top
    /\ DOMAIN e.token # {} => e.token["uuid"] = lock.uuid /\ e.token["id"] = lock.id
    /\ "_decrypted_token" \in DOMAIN e.top =>
          e.top["_decrypted_token"] = lock.token /\ DOMAIN e.token # {}

LEMMA RedactedAnswer ==
  ASSUME NEW lock \in Range(Locks), NEW body \in AnswersFor(lock), NEW e,
         e = Answer(RedactedDict(body.top), RedactedDict(body.token))
  PROVE  IsOf(e, body, lock)
<1>1. /\ DOMAIN body.token # {} =>
            /\ DOMAIN body.token = {"uuid", "id", "token"}
            /\ body.token["uuid"] = lock.uuid /\ body.token["id"] = lock.id
      /\ "_decrypted_token" \in DOMAIN body.top =>
            body.top["_decrypted_token"] = lock.token /\ DOMAIN body.token # {}
  BY AnswersAre
<1>2. e.top = RedactedDict(body.top) /\ e.token = RedactedDict(body.token)
  BY DEF Answer
<1>3. ASSUME NEW dict
      PROVE  /\ DOMAIN RedactedDict(dict) = DOMAIN dict
             /\ \A key \in DOMAIN dict : key \notin Credentials => RedactedDict(dict)[key] = dict[key]
  BY DEF RedactedDict
<1>4. "uuid" \notin Credentials /\ "id" \notin Credentials /\ "_decrypted_token" \notin Credentials
  BY NamesAssumption
<1>5. DOMAIN e.top = DOMAIN body.top /\ DOMAIN e.token = DOMAIN body.token
  BY <1>2, <1>3
<1>6. ASSUME DOMAIN e.token # {} PROVE e.token["uuid"] = lock.uuid /\ e.token["id"] = lock.id
  <2>1. "uuid" \in DOMAIN body.token /\ "id" \in DOMAIN body.token
    BY <1>1, <1>5, <1>6
  <2> QED BY <1>1, <1>2, <1>3, <1>4, <1>5, <1>6, <2>1
<1>7. ASSUME "_decrypted_token" \in DOMAIN e.top
      PROVE  e.top["_decrypted_token"] = lock.token /\ DOMAIN e.token # {}
  BY <1>1, <1>2, <1>3, <1>4, <1>5, <1>7
<1> QED BY <1>5, <1>6, <1>7 DEF IsOf

\* The tokens of the dump, and whose they are.
LEMMA EntriesAre ==
  ASSUME KeyInv, file # <<>>, NEW e \in UNION {Range(file[1][i].tokens) : i \in DOMAIN file[1]}
  PROVE  \E i \in DOMAIN devices : \E body \in AnswersFor(Locks[i]) :
            e = Answer(RedactedDict(body.top), RedactedDict(body.token))
<1>1. PICK i \in DOMAIN file[1] : e \in Range(file[1][i].tokens)
  OBVIOUS
<1>2. i \in DOMAIN devices /\ IsEntry(devices[i], Locks[i]) /\ file[1][i] = Redact(devices[i])
  BY <1>1, FileIs
<1>3. PICK device, lock : device = devices[i] /\ lock = Locks[i]
  OBVIOUS
<1>4. /\ DOMAIN Redact(device).tokens = DOMAIN device.tokens
      /\ \A spelling \in DOMAIN device.tokens :
            Redact(device).tokens[spelling] = Answer(RedactedDict(device.tokens[spelling].top),
                                                     RedactedDict(device.tokens[spelling].token))
  BY <1>2, <1>3, RedactIs
<1>5. PICK spelling \in DOMAIN device.tokens : e = Redact(device).tokens[spelling]
  BY <1>1, <1>2, <1>3, <1>4 DEF Range
<1>6. device.tokens[spelling] \in AnswersFor(lock)
  BY <1>2, <1>3, <1>5 DEF IsEntry
<1> QED BY <1>2, <1>3, <1>4, <1>5, <1>6

LEMMA KeyUsable == KeyInv => TokensUsable
<1> SUFFICES ASSUME KeyInv, file # <<>>, NEW lock \in Range(Locks)
             PROVE  LET loaded   == LoadToken(file[1], lock.uuid)
                        flagged  == UNION {device.candidates : device \in Range(file[1])}
                        obtained == \E t \in told : /\ t.uuid = lock.uuid
                                                    /\ "_decrypted_token" \in DOMAIN t.body.top
                    IN  /\ loaded \subseteq {<<lock.id, lock.token>>, <<"KeyError">>,
                                             <<"AttributeError">>}
                        /\ obtained => /\ <<lock.id, lock.token>> \in loaded
                                       /\ \E found \in flagged : found.value = lock.token
  BY DEF TokensUsable
<1>1. PICK entries : entries = UNION {Range(file[1][i].tokens) : i \in DOMAIN file[1]}
  OBVIOUS
<1>2. PICK loaded :
         loaded = {<<"AttributeError">> : e \in {e \in entries : "token" \in DOMAIN e.top}}
                  \cup {IF "_decrypted_token" \in DOMAIN e.top
                        THEN <<e.token["id"], e.top["_decrypted_token"]>>
                        ELSE <<"KeyError">> :
                           e \in {e \in entries : DOMAIN e.token # {} /\ e.token["uuid"] = lock.uuid}}
  OBVIOUS
<1>3. loaded = LoadToken(file[1], lock.uuid)
  BY <1>1, <1>2 DEF LoadToken, IsTheLock
<1>4. ASSUME NEW i \in DOMAIN devices, NEW body \in AnswersFor(Locks[i]), NEW e,
             e = Answer(RedactedDict(body.top), RedactedDict(body.token))
      PROVE  IsOf(e, body, Locks[i])
  <2>1. Locks[i] \in Range(Locks)
    BY FileIs
  <2> QED BY <1>4, <2>1, RedactedAnswer
<1>5. ASSUME NEW i \in DOMAIN devices, Locks[i].uuid = lock.uuid
      PROVE  Locks[i].id = lock.id /\ Locks[i].token = lock.token
  <2>1. Locks[i] \in Range(Locks)
    BY FileIs
  <2> QED BY <1>5, <2>1, LocksAssumption
<1>6. loaded \subseteq {<<lock.id, lock.token>>, <<"KeyError">>, <<"AttributeError">>}
  <2>1. ASSUME NEW e \in entries, DOMAIN e.token # {}, e.token["uuid"] = lock.uuid,
               "_decrypted_token" \in DOMAIN e.top
        PROVE  <<e.token["id"], e.top["_decrypted_token"]>> = <<lock.id, lock.token>>
    <3>1. PICK i \in DOMAIN devices : \E body \in AnswersFor(Locks[i]) :
             e = Answer(RedactedDict(body.top), RedactedDict(body.token))
      BY <1>1, EntriesAre
    <3>2. PICK body \in AnswersFor(Locks[i]) : IsOf(e, body, Locks[i])
      BY <1>4, <3>1
    <3>3. /\ e.token["uuid"] = Locks[i].uuid /\ e.token["id"] = Locks[i].id
          /\ e.top["_decrypted_token"] = Locks[i].token
      BY <2>1, <3>2 DEF IsOf
    <3> QED BY <1>5, <2>1, <3>3
  <2>2. ASSUME NEW x \in loaded
        PROVE  x \in {<<lock.id, lock.token>>, <<"KeyError">>, <<"AttributeError">>}
    <3>1. CASE x = <<"AttributeError">> BY <3>1
    <3>2. CASE x # <<"AttributeError">>
      <4>1. PICK e \in entries :
               /\ DOMAIN e.token # {} /\ e.token["uuid"] = lock.uuid
               /\ x = IF "_decrypted_token" \in DOMAIN e.top
                      THEN <<e.token["id"], e.top["_decrypted_token"]>>
                      ELSE <<"KeyError">>
        BY <1>2, <3>2
      <4> QED BY <2>1, <4>1
    <3> QED BY <3>1, <3>2
  <2> QED BY <2>2
<1>7. ASSUME NEW t \in told, t.uuid = lock.uuid, "_decrypted_token" \in DOMAIN t.body.top
      PROVE  /\ <<lock.id, lock.token>> \in loaded
             /\ \E found \in UNION {device.candidates : device \in Range(file[1])} :
                   found.value = lock.token
  <2>1. PICK i \in DOMAIN devices : IsKept(t, Locks[i], devices[i].tokens)
    BY FileIs
  <2>2. PICK device : device = devices[i]
    OBVIOUS
  <2>3. PICK spelling \in DOMAIN device.tokens : device.tokens[spelling] = t.body
    BY <2>1, <2>2 DEF IsKept
  <2>4. /\ Locks[i].uuid = lock.uuid /\ Locks[i].id = lock.id /\ Locks[i].token = lock.token
    BY <1>5, <1>7, <2>1 DEF IsKept
  <2>5. IsEntry(device, Locks[i]) /\ i \in DOMAIN file[1] /\ file[1][i] = Redact(device)
        /\ Locks[i] \in Range(Locks)
    BY <2>2, FileIs
  <2>6. t.body \in AnswersFor(Locks[i])
    BY <2>3, <2>5 DEF IsEntry
  <2>7. PICK e : e = Answer(RedactedDict(t.body.top), RedactedDict(t.body.token))
    OBVIOUS
  <2>8. e \in entries
    <3>1. /\ DOMAIN Redact(device).tokens = DOMAIN device.tokens
          /\ Redact(device).tokens[spelling] = e
      BY <2>3, <2>5, <2>7, RedactIs
    <3>2. e \in Range(file[1][i].tokens)
      BY <2>3, <2>5, <3>1 DEF Range
    <3> QED BY <1>1, <2>5, <3>2
  <2>9. /\ "_decrypted_token" \in DOMAIN e.top /\ DOMAIN e.token # {}
        /\ e.token["uuid"] = lock.uuid /\ e.token["id"] = lock.id
        /\ e.top["_decrypted_token"] = lock.token
    <3>1. IsOf(e, t.body, Locks[i])
      BY <1>4, <2>6, <2>7
    <3> QED BY <1>7, <2>4, <3>1 DEF IsOf
  <2>10. <<lock.id, lock.token>> \in loaded
    BY <1>2, <2>8, <2>9
  <2>11. PICK leaf : leaf = Leaf("_decrypted_token", "_decrypted_token", lock.token)
    OBVIOUS
  <2>12. leaf \in TokenLeaves(device.tokens)
    <3>1. t.body.top["_decrypted_token"] = lock.token
      BY <1>7, <2>4, <2>5, <2>6, AnswersAre
    <3>2. leaf \in LeavesOf(t.body.top)
      BY <1>7, <2>11, <3>1 DEF LeavesOf
    <3>3. leaf \in AnswerLeaves(device.tokens[spelling])
      BY <2>3, <3>2 DEF AnswerLeaves
    <3> QED BY <3>3 DEF TokenLeaves
  <2>13. leaf.name = "_decrypted_token" /\ leaf.value = lock.token
    BY <2>11 DEF Leaf
  <2>14. Shown(leaf) = leaf
    BY <2>13, NamesAssumption DEF Shown
  <2>15. leaf \in device.candidates
    <3>1. leaf \in FindCandidates((UNION Range(device.sources)) \cup TokenLeaves(device.tokens))
      BY <2>12, <2>13, <2>14 DEF FindCandidates
    <3> QED BY <2>5, <3>1 DEF IsEntry
  <2>16. leaf \in Redact(device).candidates /\ Redact(device) \in Range(file[1])
    BY <2>5, <2>15, RedactIs DEF Range
  <2> QED BY <2>10, <2>13, <2>16
<1> QED BY <1>3, <1>6, <1>7

\* The dump that key_probe writes holds no credential of the session, in whichever answer,
\* however deep, and in whatever order calls fail (key_probe.py:160-213, 346-348).
THEOREM DumpIsAlwaysRedacted == KeySpec => []DumpIsRedacted
<1> QED BY KeyStarts, KeyNextInv, KeyRedacted, PTL DEF KeySpec

\* For every number of locks and spellings of a uuid: the dump keeps each token that was
\* decrypted, flags it, and load_token finds it by its lock's uuid and no other lock's
\* (key_probe.py:92-157, 284-311, actuate.py:29-34).
THEOREM TokensAlwaysUsable == KeySpec => []TokensUsable
<1> QED BY KeyStarts, KeyNextInv, KeyUsable, PTL DEF KeySpec

-------------------------------------------------------------------------------
(***************************************************************************)
(* All tools.                                                              *)
(***************************************************************************)
\* Only the tool that runs changes its variables; those of the others are as at their start.
SessionOfTool == IF tool = "gatt_dump" THEN GattInv /\ DumpInv ELSE SessionInv /\ CallsInv
ToolsInv == CaptureInv /\ SessionOfTool /\ FramesInv /\ KeyInv

LEMMA ToolsStart == ToolsInit => ToolsInv
<1> SUFFICES ASSUME ToolsInit PROVE ToolsInv
  OBVIOUS
<1>1. CaptureInv /\ FramesInv /\ KeyInv
  BY CaptureStarts, FramesStart, KeyStarts DEF ToolsInit
<1>2. CASE tool = "gatt_dump"
  <2>1. GattInv /\ DumpInv
    BY <1>2, GattInitInv, DumpStarts DEF ToolsInit
  <2> QED BY <1>1, <1>2, <2>1 DEF ToolsInv, SessionOfTool
<1>3. CASE tool # "gatt_dump"
  <2>1. SessionInv /\ CallsInv
    BY <1>3, SessionStarts DEF ToolsInit
  <2> QED BY <1>1, <1>3, <2>1 DEF ToolsInv, SessionOfTool
<1> QED BY <1>2, <1>3

LEMMA CaptureNextInv == CaptureInv /\ [CaptureNext]_captureVars => CaptureInv'
BY StartKeeps, ContinueKeeps, CaptureStutters DEF CaptureNext

\* A session that is not going on keeps its invariant, as does gatt_dump's that is.
LEMMA SessionKeeps ==
  ASSUME SessionOfTool, tool' = tool,
         \/ UNCHANGED probeVars
         \/ tool = "gatt_dump" /\ GattNext
         \/ tool = "challenge_probe" /\ ChallengeNext
  PROVE  SessionOfTool'
<1>1. CASE tool = "gatt_dump"
  <2>1. GattInv /\ DumpInv
    BY <1>1 DEF SessionOfTool
  <2>2. GattNext \/ UNCHANGED probeVars
    BY <1>1
  <2>3. GattInv' /\ DumpInv'
    BY <2>1, <2>2, GattNextInv, DumpNextInv
  <2> QED BY <1>1, <2>3 DEF SessionOfTool
<1>2. CASE tool # "gatt_dump"
  <2>1. SessionInv /\ CallsInv
    BY <1>2 DEF SessionOfTool
  <2>2. ChallengeNext \/ UNCHANGED probeVars
    BY <1>2
  <2>3. SessionInv' /\ CallsInv'
    BY <2>1, <2>2, SessionNextInv, SessionNextCalls
  <2> QED BY <1>2, <2>3 DEF SessionOfTool
<1> QED BY <1>1, <1>2

LEMMA ToolsNextInv == ToolsInv /\ [ToolsNext]_toolsVars => ToolsInv'
<1> SUFFICES ASSUME ToolsInv, [ToolsNext]_toolsVars PROVE ToolsInv'
  OBVIOUS
<1>1. /\ tool' = tool
      /\ CaptureNext \/ UNCHANGED captureVars
      /\ KeyStep \/ UNCHANGED keyVars
      /\ ChallengeNext \/ UNCHANGED challengeVars
      /\ \/ UNCHANGED probeVars
         \/ tool = "gatt_dump" /\ GattNext
         \/ tool = "challenge_probe" /\ ChallengeNext
  <2>1. CASE Captures BY <2>1 DEF Captures, Runs
  <2>2. CASE Dumps BY <2>2 DEF Dumps, Runs
  <2>3. CASE Challenges BY <2>3 DEF Challenges, Runs
  <2>4. CASE Keys BY <2>4 DEF Keys, Runs
  <2>5. CASE UNCHANGED toolsVars BY <2>5 DEF toolsVars
  <2> QED BY <2>1, <2>2, <2>3, <2>4, <2>5 DEF ToolsNext
<1>2. CaptureInv' BY <1>1, CaptureNextInv DEF ToolsInv
<1>3. KeyInv' BY <1>1, KeyNextInv DEF ToolsInv
<1>4. FramesInv' BY <1>1, FramesNextInv DEF ToolsInv
<1>5. SessionOfTool' BY <1>1, SessionKeeps DEF ToolsInv
<1> QED BY <1>2, <1>3, <1>4, <1>5 DEF ToolsInv

\* The invariant holds of every run of every tool.
LEMMA ToolsAlwaysInv == ToolsSpec => []ToolsInv
BY ToolsStart, ToolsNextInv, PTL DEF ToolsSpec

\* The challenge probe finds the frames that have arrived, each as it was built and in
\* order, and the nonce of the last challenge, on whatever characteristics the lock
\* interleaves them, with whatever else, and in parts of whatever size
\* (challenge_probe.py:60-90).
THEOREM FramesAlwaysAsSaid == ToolsSpec => []FramesAsSaid
<1>1. ToolsInv => FramesAsSaid BY DEF ToolsInv, FramesInv
<1> QED BY <1>1, ToolsAlwaysInv, PTL

\* A tool that reports says that the session ended early if the lock dropped the link, and
\* gatt_dump only then (gatt_dump.py:105-107, 176-182, challenge_probe.py:118-130).
THEOREM EarlyIsRightOfAll == ToolsSpec => []EarlyIsRight
<1>1. ASSUME SessionOfTool, tool = "gatt_dump" PROVE EarlyIsRight
  <2>1. GattInv
    BY <1>1 DEF SessionOfTool
  <2>2. ASSUME at = "exit", result # <<>> PROVE result[1] = lost
    BY <2>1, <2>2 DEF GattInv
  <2>3. DropIsReported /\ EarlyIsHonest
    BY <2>2, Zenon DEF DropIsReported, EarlyIsHonest
  <2> QED BY <2>3 DEF EarlyIsRight
<1>2. ASSUME SessionOfTool, tool # "gatt_dump" PROVE EarlyIsRight
  <2>1. SessionInv
    BY <1>2 DEF SessionOfTool
  <2>2. ASSUME at = "exit", result # <<>>, lost PROVE result[1] = TRUE
    <3>1. result[1] = TRUE \/ result[1] = lost
      <4>1. result \in {<<>>, <<TRUE>>, <<lost>>}
        BY <2>1 DEF SessionInv
      <4>2. result = <<TRUE>> \/ result = <<lost>>
        BY <4>1, <2>2
      <4>3. CASE result = <<TRUE>>
        BY <4>3
      <4>4. CASE result = <<lost>>
        BY <4>4
      <4> QED BY <4>2, <4>3, <4>4
    <3>2. lost = TRUE
      BY <2>1, <2>2 DEF SessionInv
    <3> QED BY <3>1, <3>2
  <2>3. DropIsReported
    BY <2>2, Zenon DEF DropIsReported
  <2> QED BY <1>2, <2>3 DEF EarlyIsRight
<1>3. ToolsInv => EarlyIsRight BY <1>1, <1>2 DEF ToolsInv
<1> QED BY <1>3, ToolsAlwaysInv, PTL

\* However a tool ends no link is left, and one that reports has made every call it was to
\* make; and what holds of each of the other tools by itself holds of the four together
\* (gatt_dump.py:131-158, 178-182, challenge_probe.py:92-122).
THEOREM ToolsAlwaysRight ==
  ToolsSpec => [](ProbeReleases /\ DumpIsComplete /\ MessagesAsSent /\ DumpIsRedacted /\ TokensUsable)
<1>1. SessionOfTool => ProbeReleases /\ DumpIsComplete
  <2>1. GattInv /\ DumpInv => ProbeReleases /\ DumpIsComplete
    BY DEF GattInv, DumpInv, ProbeReleases, DumpIsComplete
  <2>2. SessionInv /\ CallsInv => ProbeReleases /\ DumpIsComplete
    BY DEF SessionInv, CallsInv, ProbeReleases, DumpIsComplete
  <2> QED BY <2>1, <2>2 DEF SessionOfTool
<1>2. ToolsInv =>
         ProbeReleases /\ DumpIsComplete /\ MessagesAsSent /\ DumpIsRedacted /\ TokensUsable
  BY <1>1, KeyRedacted, KeyUsable DEF ToolsInv, CaptureInv
<1> QED BY <1>2, ToolsAlwaysInv, PTL
===============================================================================
