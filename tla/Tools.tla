--------------------------------- MODULE Tools ---------------------------------
(***************************************************************************)
(* The command-line tools that look at the lock, at its cloud and at a     *)
(* capture.  Each is a program of its own: a behaviour is one run of one   *)
(* of them, in which the variables of the others keep their values.        *)
(***************************************************************************)
EXTENDS Capture, GattDump, ChallengeProbe, KeyProbe

VARIABLES tool      \* the one that runs

toolsVars == <<tool, captureVars, probeVars, challengeVars, keyVars>>

ToolsInit ==
    /\ tool \in {"parse_snoop", "gatt_dump", "challenge_probe", "key_probe"}
    /\ IF tool = "gatt_dump" THEN GattInit ELSE ProbeInit(ProbeCalls)
    /\ ChallengeInit
    /\ KeyInit
    /\ CaptureInit
    /\ tool # "parse_snoop" => snap = 65535

Runs(name) == tool = name /\ UNCHANGED tool

Captures == Runs("parse_snoop") /\ CaptureNext /\ UNCHANGED <<probeVars, challengeVars, keyVars>>

Dumps     == Runs("gatt_dump") /\ GattNext /\ UNCHANGED <<captureVars, challengeVars, keyVars>>
DumpsStep == Runs("gatt_dump") /\ GattStep /\ UNCHANGED <<captureVars, challengeVars, keyVars>>

Challenges     == Runs("challenge_probe") /\ ChallengeNext /\ UNCHANGED <<captureVars, keyVars>>
ChallengesStep == Runs("challenge_probe") /\ ChallengeStep /\ UNCHANGED <<captureVars, keyVars>>

Keys == Runs("key_probe") /\ KeyStep /\ UNCHANGED <<captureVars, probeVars, challengeVars>>

ToolsNext == Captures \/ Dumps \/ Challenges \/ Keys

\* A tool's own coroutine goes on: calls of bleak and of the cloud return or raise, timers end,
\* and a prompt is answered.  Nothing makes the lock drop the link or speak.
ToolsFairness == WF_toolsVars(DumpsStep) /\ WF_toolsVars(ChallengesStep) /\ WF_toolsVars(Keys)

ToolsSpec == ToolsInit /\ [][ToolsNext]_toolsVars /\ ToolsFairness

-------------------------------------------------------------------------------
\* Nobody need stop it: a session ends, though the lock keeps the link and says nothing
\* (gatt_dump.py:160-174, challenge_probe.py:109-117).
ProbeEnds == (tool \in {"gatt_dump", "challenge_probe"}) ~> (at = "exit")

\* A tool that reports says that the session ended early if the lock dropped the link, and
\* gatt_dump only then: it reads the event before its own disconnect, challenge_probe
\* afterwards (gatt_dump.py:105-107, 176-182, challenge_probe.py:118-130).
EarlyIsRight == DropIsReported /\ (tool = "gatt_dump" => EarlyIsHonest)
===============================================================================
