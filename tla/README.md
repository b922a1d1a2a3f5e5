# Formal model of wyze-lock-classic-local

TLA+ models, TLC configurations and TLAPS proofs for the Home Assistant integration in
`src/custom_components/wyze_lock_classic_local/` (called the *package* below), which drives a
Wyze Lock YD.LO1 over Bluetooth Low Energy. `src/src/wyze_lock_classic_local/` holds the same
`device.py` and `protocol.py`; line numbers refer to the package.

## 1. Inventory

| Component | Source | State | Operations | What makes it correct |
|---|---|---|---|---|
| Lock and BLE link (external) | used by `device.py` | connection, subscriptions, frames under way, the session's progress, bolt, throw under way | handles hello, request, ACK, answer; repeats a challenge; throws; link loss; moves by others | assumed, see section 3 |
| Handshake | `device.py:162-227` | `answered`, two events, `new_state`, fire-and-forget send tasks, the await it is suspended at | coroutine steps, `on_nus`, `on_state`, `send` tasks, timeouts | frames in order and once; a position is returned only after an accepted order, and was real; it ends |
| Transport | `device.py:56-160, 229-234` | attempt number, the link it holds | `async_set`, `async_get_state`, `async_read_status`, retry, backoff, disconnect, cancellation | the link is always released; one order per attempt; the promise of a call; every call ends |
| Codec | `protocol.py` | none; the receive buffer `rx` lives in `on_nus` (`device.py:164-182`) | pack/parse L1 and L2, CRC, challenge answer, decoding of state, battery, door | a frame is handled once, whole and unmixed; position and magic are not confused |
| Coordinator | `coordinator.py` | `data`, `creds`, the device object, the poll's schedule | poll, set, credential swap | no call takes back what was shown while it had the link; what is shown comes to agree with the bolt |
| Entities | `lock.py`, `sensor.py`, `binary_sensor.py` | none of their own | availability and values | unknown is shown as unavailable |
| Setup, key cache, token refresh, unload | `__init__.py` | cached locks of the config entry, `hass.data`, the background task | setup, refresh, unload | comes up from the cache; cache, coordinators and cloud agree in the end |
| Cloud bootstrap | `cloud.py` | none | login, 2FA login, key fetch | all locks or an exception |
| Config flow | `config_flow.py` | flow context, `_creds` | bluetooth, user and 2FA steps | one entry per account, one prompt |
| Capture analysis | `scripts/parse_snoop.py` | `pending`, the PDUs in parts, by connection and direction | record by record: start, continue, complete a PDU; describe a frame | a message is reported once, whole, unmixed, in order, and named after the right characteristic |
| Discovery dump | `scripts/gatt_dump.py` | calls to make, what became of each, the `disconnected` event | connect, read and subscribe one by one, listen, unsubscribe, disconnect | the dump has an entry for everything; the link is given back; a lost link is reported, and only that |
| Challenge probe | `scripts/challenge_probe.py` | the same, and `pending`, `frames`, `challenge` | subscribe, write the request, listen; `_on_notify` | frames of several characteristics are kept apart; it ends |
| Key probe | `tools/key_probe.py` | `sources` of a lock, `results` of its token, `dump` | login, calls for each lock, redaction, writing | one failing call costs nothing else; no session credential in the dump |
| Actuation tool | `scripts/actuate.py` | none | takes a token from the key probe's dump, makes one call | the token is the named lock's |

How they interact: an entity calls its coordinator; the coordinator calls one `WyzeLockClassic`
object per operation, concurrently with its own poll, on Home Assistant's single event loop; a
call connects (at most one central at a time is accepted by the lock), runs its work and
disconnects, up to four times; the handshake is driven from three sides, its own coroutine, two
notification callbacks and the send tasks; setup creates coordinators from cached keys and a
background task swaps keys under them.

The hard behaviours are all in how these interleave: a challenge repeated while its answer is
under way, notifications older than the order they seem to confirm, tasks that outlive the
coroutine that created them, a link lost while two waits are pending, an attempt that fails after
the lock has accepted its order, a throw that outlives the call that ordered it, a status read that goes on without its
link while a command gets it, cancellation at any await. `PROJECT.json` lists each with its line under "hazards".

## 2. Plan

| Step | Modules | State |
|---|---|---|
| 1 | `Protocol`, `LockPeripheral`, `Handshake`: one handshake against lock and link | done, proved |
| 2 | `DeviceCall` (promise), `Device`: calls, attempts, reads, cancellation; `Device` implements `DeviceCall` | done, proved |
| 3 | `FrameChannel` (promise), `Reassembly`: the receive buffer; `Reassembly` implements `FrameChannel` | done, proved |
| 4 | `Coordinator`: one poll and several commands at a time over abstracted calls; what the entities show | done, proved |
| 5 | `Integration`: setup from cache or cloud, background refresh and credential swap, unload, reload, restart | done, proved |
| 6 | `ConfigFlow` with the cloud's login: discovery, user step, 2FA step | done, proved |
| 7 | `Codec`: frames, TLVs, CRC and challenge answer byte by byte; `Capture`: the L2CAP reassembly of `scripts/parse_snoop.py`; `Snoop`: its reading of frames | done, `Capture` proved, `Codec` and `Snoop` model-checked |
| 8 | `Probe`, `GattDump`, `ChallengeProbe`, `KeyProbe`, composed with `Capture` in `Tools`: the command-line tools | done, proved |
| 9 | what a dump's notifications bring in | not modelled (section 6) |

## 3. Modules

`EXTENDS` forms one chain, so that each module can be checked and proved about alone:

    Protocol <- LockPeripheral <- Handshake <- Device <- MCDevice
                                      ^           ^
                           HandshakeProofs <- DeviceProofs          Device implements DeviceCall
    Reassembly <- MCReassembly                                      Reassembly implements FrameChannel
    Reassembly <- ReassemblyProofs
    Coordinator <- MCCoordinator,  Integration <- MCIntegration,  ConfigFlow <- MCConfigFlow
    CoordinatorProofs,             IntegrationProofs,             ConfigFlowProofs
    Slices <- Capture                     <--+
    Probe <- GattDump                     <--+-- Tools <- MCTools
    Probe, Slices <- ChallengeProbe       <--+     ^
    KeyProbe                              <--+     |
    Capture <- CaptureProofs <- ToolsProofs -------+
    Capture, Codec <- Snoop,  Codec <- ChallengeFrames,  KeyProbe <- JsonTrees      all three <- MCTools

**Protocol** is the data of `protocol.py` as far as behaviour depends on it. A frame is its kind;
the answer also has the magic the lock recovers from it: the target's for the lock's own
credential, noise for an outdated one. A state value is its status byte, or `Malformed` when it
is no whole number of AES blocks. A malformed credential is one AES or `to_bytes` refuses.

**LockPeripheral** is external: the firmware as `_handshake` relies on it, and the link as bleak
offers it. `Faults` selects what may go wrong (lost links, failing GATT calls, damaged
notifications, repeated challenges, a jammed motor, moves by others, short timers, cancellation);
nothing else in the models is a fault switch. `orders` and `seen` are history: how many answers
the lock accepted, and where the bolt has been, since the call began; `wire` is what was written
on this connection.

**Handshake** is `_handshake`. An asyncio step runs from one `await` to the next, so `awaiting`
names the await the coroutine is suspended at, and each action is what runs from there to the
following one. The callbacks `on_nus` and `on_state` (`OnChallenge`, `OnResult`, `OnIgnored`,
`OnState`) and the tasks they create (`RunSendTask`) run between these steps. `answered`,
`gotResult`, `gotState` and `newState` are the function's locals; `tasks` holds the send tasks not
yet run. Leaving the function is `awaiting = "disconnect"` with `result` for the value or the
exception: a position, `ble_error` (`BleakError`, `TimeoutError` or `WyzeLockError`),
`decode_error` (`ValueError` or `IndexError`), `cancelled`.

**Device** is the class: `Call` begins `async_set`, `async_read_status` or `async_get_state`, one
at a time; `Connect` to `Disconnect` is one attempt, with the handshake or the reads as `work`;
`BackoffOver` is the pause after an attempt, the last one included; `CancelWork` and
`CancelApart` deliver `CancelledError` inside and outside the `try ... finally`. Retried failed
connections and failed work share `backoff`, as both branches sleep the same time. `_resolve` is
part of `Connect` and `ConnectError`: the coordinator always passes a device, and with an address
its failures are retried alike. A disconnect that was requested is taken to take effect even if the
task waiting for it is cancelled, since bleak sends the request before it waits.

**DeviceCall** states what a caller is promised, without connections, frames or attempts in
progress: see its header. `Device!PromiseKept` is the refinement, with
`phase <- IF awaiting = "idle" THEN "idle" ELSE "running"` and all other variables by name.

**Reassembly** is the buffer `rx` and `parse_l1`, byte by byte: a byte is the frame it was sent
in and its place, so that a header, a length and a checksum can be told from parts of other frames.
The CRC is taken to detect every mixture a loss can produce. In `Handshake` the same component
is one fault: with `"lose"`, `OnIgnored` discards any NUS frame, which covers every frame that
`Reassembly` can swallow.

**Coordinator** is `coordinator.py` for one lock: the poll and any number of commands, each a call of
`device.py`, meet at `link` and at `data`. A call is cut down to what calls can do to each
other: `Connect` (`link`), `Order` (`throw`), the samples of the bolt, with the number of its moves for a date, `AttemptFails`, and the
three ways to end. A poll takes its sample in `ReadState` and goes on to the battery and the door (`ReadBattery`,
`ReadDoor`), each an await of its own whose failure is swallowed (`device.py:130-141`); from then on its attempt cannot fail for want of
a link. A command is notified of the bolt (`Notified`, in `Turn` and `OthersTurn`), also of moves before its order, or reads the state itself (`FallsBack`).
`LinkLost` frees the lock at any point of a call, which goes on with what it has: the link is lost, or the disconnect has taken
effect while `_safe_disconnect` is still awaited (`device.py:95-100`). So others may connect, order and return between a sample
and its publication. That the link is free is the lock's view; the call notices at its next read or order, or at its timeout. Home Assistant's
`DataUpdateCoordinator` is external: at most one poll at a time, because its refreshes are
serialised; a failed poll leaves `data` and clears `success`; `async_set_updated_data` sets both.
What a poll reads beside the bolt is a
`Readings`, decoded by `Decoded`; a read that failed and a door that is not calibrated are both `None`.
`Available` and `Shows` are the lock entity's, `BatteryAvailable` to `DoorShows` those of the battery and the door. Swapping
the device object (`coordinator.py:44-47`) is in `Integration`; a call in progress keeps its own.

**Integration** is `__init__.py` with the fetch of `cloud.py`. `setup` is the await that
`async_setup_entry` is suspended at, `fetch` how far the thread is that it or `_refresh_tokens`
waits for; `SetupEntry`, `SetupFetched`, `FirstPoll`, `SetupDone` and `SetupFails` are its steps,
`RefreshFetched` and `RefreshRaised` those of the background task. A coordinator is the credentials
it uses; credentials are versions, the token's and that of everything else, so that what
`update_credentials` compares can be told from what it does not. External: the cloud, which changes during
a fetch; the life of a config entry (retry, error, unload, a failed unload, restart with
the entry's data saved). A cancelled refresh's thread may run on, but nobody gets its answer.

**ConfigFlow** is `config_flow.py` with the login of `cloud.py`, for several flows at a time: `at`
is the form shown or the login awaited. External: the flow manager (an id is given to one flow in progress
at a time, a new entry replaces one with its id, a flow gets one form at a time) and
`wyzeapy` (what `login` does with and without two-factor authentication, see `cloud.py:52-57` and
`tools/key_probe.py:237-241`).

**Codec** is `protocol.py` byte by byte, the same file in the package and in the standalone copy:
`PackL1` and `ParseL1` with the CRC, `PackL2` and `ParseL2` with the TLVs, `BuildChallengeRequest` and
`BuildLockUnlock` with its trailer, `BuildAck`, `ExtractChallenge`, `AnswerChallenge`. AES is external, any bijection for each key; a
`ValueError` of `parse_l1` is a record with `error`.

**Capture** is `att_messages` of `scripts/parse_snoop.py` reading a capture of several connections. A stream is a connection and a
direction; `pending` is the dictionary of PDUs in parts, `messages` what it has yielded; `sent` and `left` are what was sent. It is a module
without the codec's bit operations and recursion, so that it can be proved about; **Slices** has Python's slices for both. The records are taken as they are made, which is the same
as reading the finished file, since the generators never look ahead. External: the controllers, which
cut a PDU into fragments and interleave the streams; no record is missing from the capture, but
each may have been cut to its snap length.

**Snoop**, with `Codec`, is the rest of that script: `Described` is what `describe_frame` tells of a value. `LoadHandleMap` and `Name` give a message its characteristic
from a dump of `gatt_dump.py`, whose handles are those of declarations or of values, depending on the backend.

**Probe** is what the sessions of `gatt_dump.py` and `challenge_probe.py` have in common. `at` is the await: `connect`,
`call` (the first of `todo`), `listen`, `stop`, and the `finally` twice, as `disconnect` behind a result and as `abort`
behind an exception. `LockDrops` sets the event at any time; `Cancelled` is Ctrl+C at any await. External: bleak, whose
calls return only with a link, and some backends of which call `_on_disconnect` on the tool's own disconnect as well
(`Finally`).

**GattDump** is `dump_device`: `CallsFor` are the reads and subscriptions its two options ask for, `outcomes` the entries of the
dump. **ChallengeProbe** is `probe`: the lock speaks on each characteristic in notifications of at most `PartLen` bytes,
`OnNotify` is the callback on the bytes themselves. What it calls is a parameter: `Parsed` is `parse_l1`, `EntryOf` and `Nonce` what becomes
of a whole frame. `MCTools` gives them `Codec`'s `ParseL1` and the two operators of **ChallengeFrames**, which is those lines of `_on_notify`; so the
session and its buffers can be proved about without the codec's recursion. What the lock says on a characteristic is a frame, whole or
damaged, or no frame (`SaysAssumption`).

**KeyProbe** is one run of `key_probe.py`. A JSON document is its leaves: `redact` looks only at the last key above one, and `find_candidates` only
at the end of its path, which a list gives an index (`"token[0]"`). That going through a document gives just that is checked
apart: **JsonTrees** has `walk` and `redact` as they recur, and TLC evaluates `RedactedLeafByLeaf` on all documents of two levels over a few keys and on
those of the run. A name is what
the regular expressions make of it, one of `Suspicious` or `Credentials`; a spelling of a uuid is the parts of the mac and the dots
that it has. `GetToken` is one turn of the loop over the spellings and, behind the last, what follows without an await: the lock's
entry in the dump. `LoadToken` is `load_token` of `actuate.py` on the file. External: the cloud, which answers, refuses, or fails at
each call.

**Tools** composes the four: a behaviour is one run of one tool. They meet in what they use of each other: the codec, and the dumps
that `parse_snoop.py` and `actuate.py` read.

### Timers

A timer of 10 or 6 seconds does not race with an exchange of milliseconds, nor with a throw of one
to two seconds (`src/PROTOCOL.md:145-146`). `MayExpire` lets a wait time out only when the event has
not come and nothing that could bring it is under way; with the fault `"slow"` it may time out at
any moment, even when the event is already set, which asyncio allows. `Handshake_faulty` and
`Device_faulty` include `"slow"`. `MayResume` applies the same rule to one pause: the last, of 2.4 seconds,
outlasts a throw; the shorter ones may or may not.

## 4. Runs

| Run | Surroundings | Shows |
|---|---|---|
| `Handshake_faulty` | all faults, all credentials, fair event loop | `WireOrder`, `ReturnNeedsOrder`, `ReturnWasSeen`, `HandshakeEnds`, types |
| `Handshake_succeeds` | repeated challenges only, valid credential, fair event loop and lock | `HandshakeSucceeds` |
| `Device_faulty` | all faults, all credentials, fair calls | `LinkReleased`, `OneOrderPerAttempt`, types; `CallEnds`; `PromiseKept`: `Device` implements `DeviceCall` |
| `Device_target` | lost links, failing GATT calls, damaged notifications, repeated challenges, all credentials | `SetReturnsTarget`, `ExtrasAreBestEffort` |
| `Reassembly` | up to two lost notifications, nonces that look like a frame start | `ChannelKept`, `NothingIgnored`, `ResyncsSoon`, types |
| `Coordinator` | a poll and a command with retries, links lost and failures at any point, moves by others, fair poll | `NeverOlder`, `ExtrasFromLastPoll`, `CatchesUp`, types |
| `Integration` | two locks, a cloud that changes, fails or is silent, restarts | `TokensAgree`, `LoadsFromCache`, `KeysSurvive`, `ForgetsOnlyTheGone`, types |
| `ConfigFlow` | three flows, an address typed in two ways, outages, 2FA switched at any time | `OneEntryPerAccount`, `NoSecondSetup`, `EntryIsVerified` |
| `Tools` | `parse_snoop.py`: three interleaved streams, records cut to a snap length | `MessagesAsSent`, `DescribedAsSent`, `CrcIsRemainder` |
| | `gatt_dump.py`, `challenge_probe.py`: failing calls, lost links, Ctrl+C, values on two characteristics | `ProbeReleases`, `EarlyIsRight`, `DumpIsComplete`, `FramesAsSaid`, `ProbeEnds` |
| | `key_probe.py`: two locks, any call failing, any answer to each spelling | `DumpIsRedacted`, `TokensUsable`, `ListedIsDumped` |
| `Device_escape`, `Device_confirmed`, `ConfigFlow_code` | as few faults as it takes | the three disagreements below |

**Bounds.** `Attempts = 4` is the code's own `_ATTEMPTS`. Calls follow each other without limit,
so failed calls whose throw is still to come are followed by every kind of call. `MaxQueue` (1 in `Device_faulty`, 2 or 3 elsewhere)
limits how many notifications may be undelivered before the lock repeats a challenge or a foreign
move adds another; one repeat is enough for a second challenge to race the first, two let a
result be overtaken by both kinds. Everything else is finite by itself. `MaxFrames = 5` and
`MaxLosses = 2` let both losses fall into the same or into different frames and leave two frames to
recover with, and one to see it; `ResyncsSoon` fails with one frame less, so its bound is exact. Frame
lengths are those of the handshake (8, 14 and 29 bytes) at the smallest ATT payload of 20.
In `Coordinator` two attempts stand for four, since
a call may also fail for good at any attempt, and one command for any number: a command and the poll already meet in every order, and
the safety properties are proved for more. The one battery level is 0, the one a test for truth would miss. Two moves are enough to bring a position that a retry could
remember out of date (`Outlives` breaks `NeverOlder`); an order for where the bolt is already needs none. The bolt begins
locked, as nothing tells its two positions apart. In `Integration` two locks are one more than it takes to fetch some and not others, and
two changes let the account move on during setup and again during the refresh. In
`ConfigFlow` two flows can meet at an account while a third, a discovery, waits; the flows are
symmetric, which is sound as that run has no liveness property. In `Tools` a fragment has 27 bytes, the
smallest ACL buffer there is, so that a PDU of the handshake has one or two; two PDUs on a stream are a first and
a next, a start while nothing waits and one while a cut PDU does; three streams differ from each other in connection,
in direction or in both. The snap lengths keep everything, cut only full fragments, and leave less than an L2CAP header.
`DescribedAsSent` and `CrcIsRemainder` look at the last value of each stream, since every value is the last one in some state. Among the frames is one whose last TLV ends beyond
the body. Writes to descriptors are not: a dump with the handles of values has them named after the characteristic before. The lock of `gatt_dump.py` has a characteristic for each set of properties that matters: readable,
both, neither, notifying. `MaxSays = 3` lets frames of two notifications each alternate on two characteristics, with a value that is no frame among
them and two challenges of which the later counts. Of the two locks of `key_probe.py` one has a mac with dots, and so three spellings, the other one
spelling. The numbers are the models' only
bounds: setups, refreshes, polls, commands and flows follow each other without limit.
`Handshake_succeeds` ends with the handshake, `Reassembly` when its bounds are used up and `Tools` with its tool, so these three do not
check for deadlock; the others do.

**Fairness.** `LoopFairness` is weak fairness of the coroutine, of the callbacks and of the send
tasks: asyncio runs what is ready, and a timer that is armed fires. `FairDevice` asks for it
only of the call's own steps, which includes that bleak's connect, read and disconnect return
or raise; nothing is asked of the lock, the link or the callbacks, since the timeouts alone end the
waits. `HandshakeSucceeds` adds a lock that answers and a motor that turns. Cancellation, faults and
new calls are never fair. `CoordinatorFairness` says that a motor turns or jams (`Turn`), that the poll's timer
fires (`PollStarts`), that a poll whose link is gone fails its attempt, and one that has all its reads returns (`PollNotices`, `PollReturns`), and that a
lock is in reach time and again: strong fairness of the poll's
`Connect`, `ReadState`, `ReadBattery` and `ReadDoor`, as each of them may be disabled for a while by a command that holds
the link, by a link that is lost or by an attempt that fails. `FairIntegration` asks only that a setup that has what it waits for
goes on; the cloud may stay silent for ever. `ToolsFairness` is weak fairness of a tool's own steps:
bleak's and the cloud's calls return or raise, the timers of 15 and 30 seconds fire, prompts are answered; nothing is asked of the lock, of the link or of Ctrl+C, which is not
modelled for `key_probe.py`, where it loses the dump. `ConfigFlow` has no fairness.

`const.py:17` says that "a lock/unlock also refreshes it immediately"; that is meant of commands that succeed. One
that raises refreshes nothing, even if the bolt obeyed it, and the entity shows the old position until
the next poll. Nor does a refresh last in every
case. A poll that has read the state and then loses its link goes on without it: failing battery and door reads are
swallowed (`device.py:133-140`), and the lock is free. A command may connect, turn the bolt and publish its position meanwhile;
then the poll publishes the position from before, and the entity shows it until the next poll, up to 300 seconds later. Nothing compares
the two, nor keeps polls and commands apart, so that the date of what is shown may well decrease: `PollReturns` behind `ReadState`,
`LinkLost` and `CommandReturns` is a behaviour of the model. `CatchesUp` is what holds of all these.

`NeverOlder` allows for the last case alone: what came on show after a call's link was lost may be newer than the
call's result. It is not allowed to take back anything else: what was on show when the call's attempt connected, with whatever was
published before, during its pauses or at its earlier attempts, and what others publish while it holds the link, which are samples
taken before it.

`disconnected_early` of `challenge_probe.py` is read after the tool's own disconnect (`challenge_probe.py:118-130`), while `gatt_dump.py:176` reads it
before: on a backend that calls the callback on both, the former is always true. So `EarlyIsRight` says of both tools that a lost link is reported, and
of `gatt_dump.py` alone that nothing else is.

`load_token` raises `AttributeError` at an answer whose token is null and `KeyError` at a token of the lock that was not decrypted, if it meets one before the
good one (`actuate.py:31-33`); `TokensUsable` allows for these, and says that what it returns is right.

**Disagreements with the documentation, and one bug.**
- `ConfirmedNewState`: `async_set` promises "the confirmed new state" (`device.py:152-153`).
  `on_state` listens from the start, so somebody else's move before the answer sets `got_state`, and
  that older position is returned while the throw just ordered has still to come.
  `Device_target` shows that a foreign move is needed for that.
- `AlwaysWyzeLockError`: `_with_client` "always raises WyzeLockError on final failure"
  (`device.py:85`), but a value that cannot be decrypted raises `ValueError` through both `except`
  clauses, at the first attempt. For the same reason a battery or door value that cannot be decrypted
  costs the state already read, where `device.py:125-126` says "if either read fails, state is still
  returned"; `Device_target`, without such values, shows `ExtrasAreBestEffort` otherwise.
- `OnlyWrongCodesRefused` (bug): with a code, `_authenticate` calls `login` again (`cloud.py:56`), which
  raises for every account that needs a code, before the code is used; the form then says that the code was
  not accepted (`strings.json:24`). `tools/key_probe.py:237-241` catches the exception and goes on.

## 5. Proofs

TLAPS proves, for every set of faults, every queue bound, every set of credentials and any number
of attempts, commands, locks, changes, flows, addresses, frames and lengths, up to the hypotheses named:

| Module | Theorem | Establishes |
|---|---|---|
| `HandshakeProofs` | `HandshakeTypeCorrect`, `WireIsOrdered`, `ReturnFollowsOrder`, `ReturnIsHonest` | the four invariants of `Handshake_faulty` |
| `DeviceProofs` | `DeviceTypeCorrect`, `LinkIsReleased`, `OrdersAreBounded` | the three invariants of `Device_faulty` |
| `DeviceProofs` | `DevicePromise` | `DeviceSpec => PromiseKept`, the refinement |
| `DeviceProofs` | `SetReturnsItsTarget` | `SetReturnsTarget` of `Device_target`, under `Undisturbed` |
| `DeviceProofs` | `ExtrasCostNothing` | `ExtrasAreBestEffort` of `Device_target`, without values that cannot be decrypted |
| `ReassemblyProofs` | `ReassemblyTypeCorrect`, `NothingIsIgnored` | the invariants of `Reassembly` about the buffer and about frames without a loss |
| `ReassemblyProofs` | `ResyncsAreSoon` | `ResyncsSoon`, under `FramesAreShort` |
| `ReassemblyProofs` | `ChannelIsKept` | `ReassemblySpec => ChannelKept`, the refinement |
| `CoordinatorProofs` | `CoordinatorTypeCorrect`, `ExtrasAreKept`, `NeverGoesBack` | the safety properties of `Coordinator` |
| `IntegrationProofs` | `IntegrationTypeCorrect`, `TokensAlwaysAgree`, `KeysAlwaysSurvive`, `OnlyTheGoneAreForgotten` | the safety properties of `Integration` |
| `ConfigFlowProofs` | `AccountsHaveOneEntry`, `NothingIsReplaced`, `EntriesAreVerified`, `ConfigFlowTypeCorrect` | the safety properties of `ConfigFlow`, and the types of its flows and entries |
| `CaptureProofs` | `CaptureInvariant`, `CaptureAlwaysRight` | `MessagesAsSent` of `Tools`, for any PDUs on any number of streams |
| `ToolsProofs` | `ProbeAlwaysReleases`, `EarlyIsAlwaysRight`, `DumpIsAlwaysComplete` | what `Tools` checks of a dump's link, its report and its entries, of `GattDump` by itself |
| `ToolsProofs` | `DumpIsAlwaysRedacted`, `TokensAlwaysUsable` | the safety properties of `KeyProbe` |
| `ToolsProofs` | `FramesAlwaysAsSaid`, `EarlyIsRightOfAll`, `ToolsAlwaysRight` | all safety properties of the `Tools` run but the two of `Snoop`, of the composition |

Assumptions: `FaultsAssumption`, `QueueAssumption`, `TokenAssumption`, `AttemptsAssumption`,
`CoordinatorAssumption`, `BoundAssumption`, `FlowAssumption` (types of the constants; at least one attempt; commands
are not called "poll" or "nobody", and no address is the domain's id), `NothingAssumption` (`None` is no
data), `LengthAssumption`, `LookAssumption` and `BoundsAssumption` (types), `MtuAssumption` (a notification has room
for a frame's header of 8 bytes; ATT's least payload is 20), `AclAssumption` (a fragment has room for the L2CAP header of 4 bytes; the
smallest buffer of a controller for LE has 27), `TrafficAssumption` (a PDU's length fits in its header), `SnapAssumption` and `PartAssumption` (types),
`CallsAssumption` and `SubscriptionsAssumption` (the calls of a session are a sequence of calls:
they are concatenated by recursion over the lock's table, which the provers cannot follow), `SaysAssumption` (what the lock says is whole frames, which `parse_l1` tells from their
beginnings, damaged ones, or bytes each notification of which it refuses; `Reads` is what `_on_notify` makes of the whole ones), `LocksAssumption` (there is a lock, a
mac has a part, and devices with one uuid are one lock), `NamesAssumption` (no expression for credentials matches the names of a token) and
`SessionsAssumption`: the session's credentials are found only under names that `REDACT_KEY` matches, and are no lock's uuid, id or token. `redact` tests the key, `find_candidates` the end of
the path, which in a list has an index, so the assumption speaks of both; they differ in the anchored `^password$`, which does not match
`password[0]`. TLC evaluates all of them on the runs' values.

Three theorems have a hypothesis, and each of these is needed. `Undisturbed` says that nobody else turns the bolt, the
motor turns, timers outlast a throw and no call is cancelled: with a foreign move `ConfirmedNewState` is
violated, and a throw that a call leaves behind, because its timer was short, its motor jammed or it was cancelled, can turn the bolt during the
next call. TLC finds `SetReturnsTarget` violated when any one of these four is added to the faults of `Device_target`.
Everything else may go wrong: lost links, failing calls, notifications lost, damaged and repeated. `ExtrasCostNothing` excludes values that cannot be
decrypted, which cost the state (section 4). `FramesAreShort` asks that no frame has more than `Mtu + 16` bytes, the handshake's have at
most 29 at 20: TLC finds `ResyncsSoon` violated with frames of one byte more, as a gap then takes a third frame to fill.

*Handshake.* `WireOrder` alone is not inductive: what may still be written depends on
where the coroutine is and which tasks are left, and a task may only exist if a challenge was seen,
which may only exist if the request was written. `WireHistory` says all of that: six legal histories,
three legal task lists, and which go together. `ResultEvidence` follows an order from the
lock's acceptance through the notification and the event to the return; `StateEvidence` does the same
for a position that was seen. `DownIsEmpty` and `EndsAreMarked` tie link and coroutine together.
The proof goes part by part over the lock's steps (`PeripheralWire`, `PeripheralEvidence`,
`PeripheralState`), the coroutine's, the callbacks' and the tasks'.

*Device.* The handshake's lemmas are reused for its steps; they are stated for the parts they
need, not for `HandshakeSpec`, because between connections the handshake's own invariant
`ReturnNeedsOrder` does not hold for reads. What the loop adds: `ApartIsFresh` (nothing of one
attempt reaches the next), `ReadsAreQuiet` (a read gives the lock nothing to answer), `OrdersBounded`
(an attempt whose session the lock has not yet seen answered leaves room for one order) and
`AnswersAreMeant` (every answer under way has the call's own target). The
refinement proof classifies the steps of lock and bolt (`PeripheralBolt`: no order, an order
accepted, the bolt turns) and maps them to `Order`, `Obey`, `Turn` or a stutter, and the steps of the
loop to `Begin`, `Return` or a stutter.

That a set returns its target (`TargetInv`) rests on three facts that hold across calls. A throw still to come goes
where this call sends the bolt, or where the bolt is already (`ThrowsAreMeant`): an earlier call that failed can only have left a throw
behind if its own time ran out, which the timers exclude, so between calls no throw changes anything. So every state notification that can still
be decoded, and the fallback's read, has the target (`NewsIsArrival`), and what ends an attempt other than by a retry ends it at the
target (`EndIsArrival`). `StateIsKept` is what a status read is doing once it has the state: it can only be left with it.

*Reassembly.* A frame is cut into notifications whose last may be short; `AirIsGapless` says that those under way are the end of
everything sent, each followed by the next, so there is one byte that comes next (`NextByte`). `BufferIsPast` and `HandledIsPast` order
the buffer and the handled frames before it. Handling a frame is then a step of `FrameChannel`, because a buffer whose
length and checksum fit holds the frame that its first byte belongs to, which is newer than all that was handled. `NothingLost` is the exact state without a loss: the buffer
is what has arrived of the current frame (`InStep`). With losses and without lookalikes there are two more states, `Lagging` and `Skipping`.
The resynchronisation needs to know how much a lagging buffer already holds:
a frame with a gap is filled up by the next two, since it has at least its own first notification (`Mtu` bytes) and each frame brings a header's 8 bytes at least; hence the
bound `Mtu + 2 * 8` of `FramesAreShort`. A buffer that has its length is emptied, and with it goes the rest of the notification that
filled it (`device.py:182`), so the frame behind it is skipped up to its end, and the one after it is in step again.

*Coordinator.* `NeverOlder` needs to know why a result is not older than what was shown while its call had the link
(`SamplesInOrder`): as long as a call has the link, nobody else takes a sample, so its own is no older than any other call's, nor than what
they publish; when the link is lost, `shown` keeps the date up to which that is so. `SamplesAreHeld` adds that a call without a
connection has no sample left from an earlier attempt, and that one that returns has one. `ThrowHasRoom` keeps the moves in their bound: an order
for the other position is a move to come. `NothingCarried` says that before the first good poll there is nothing
to carry over.

*Integration.* `TokensAgree` survives setup because the locks a setup works on are the cache's
(`SetupUsesCache`), and the refresh because it writes the cache and swaps the tokens in one step. That only one
of setup and refresh reads the fetch is `OneReader`; that there are no coordinators
outside setup and a loaded entry is `NoStrayCoordinators`; and that nothing is fetched before
the list is there is `LoginIsFirst`.

*Config flow.* An account's entry and the flow at it are kept apart by the unique id: a flow beyond the
user form owns its id alone (`UniqueIds`), which is that of the address it verifies (`VerifiesOwn`), and no entry
has it (`UniqueEntries`).

*Discovery dump.* While the session lasts, the event is set exactly if the lock has dropped the link; behind it, `GattInv` keeps what was reported
apart from the event, which the tool's own disconnect may still set. `DumpInv` says that at any time a call has an outcome or is still to be made, and
that nothing is left to be made when the tool goes on to listen or to report.

*Challenge probe.* `SessionInv` and `CallsInv` are the same for its session, where the event may also be the tool's own, and the calls end with the request.
`FramesInv` has two parts. `Speaks` says of each characteristic that its buffer is what has arrived of the value under way there, or nothing while
that value is no frame, and that the rest is still to come; no other characteristic's notifications touch it, since buffers are kept by uuid.
`EntriesOf` and `NonceOfLast` say that the entries so far are an increasing enumeration of the frames among what has
arrived, and the nonce is the last challenge's. A notification that is not a value's last changes the first part only; the last one makes the buffer the value (`NextBytes`,
`WhatIsParsed`), so the enumeration grows by it or, if it is no frame, stays (`EntriesGrow`, `NonceGrows`).

*Key probe.* `KeyInv` says that the cloud's answers so far hold credentials only under names that are redacted, that an entry of the dump was made of one
lock's answers, and that every answer is kept in the lock's entry or among those at hand. The last is where the spellings matter: an answer is stored under
its spelling, so a spelling asked for twice would overwrite the first (`SpellingsAre`: `uuid_candidates` lists each once). `DumpIsRedacted` then follows leaf by leaf
through `Redact` and `FindCandidates`, and `TokensUsable` because neither touches an entry's uuid, id or token (`RedactedAnswer`).

*Composition.* `ToolsInv` joins these with `CaptureInv`. `SessionOfTool` is the session of the tool that runs, as the two probes share its variables; every other part
is kept by one tool and left alone by the rest.

*Capture.* `LeftIsRest` says that the fragments still to come are the end of the last PDU of the stream, and that one was made at least.
`PendingIsMade` ties the dictionary to them: a stream in the middle of a PDU has an entry, with the PDU's channel and length, and its buffer is what `Gathered`
says: the bytes made so far without the header, or, once a record was cut, fewer. That a cut loses its PDU and nothing else
is not obvious, as `att_messages` goes on appending later fragments behind the gap: what is missing can never be made up for, so the
PDU's last fragment leaves the buffer waiting (`GatherEnds`), and the next start replaces it. A snap length that cuts the L2CAP header of every
record, `HeaderIsCut`, is apart: nothing is ever pending. `MessagesAsSent` gives for every message the number of its PDU, an increasing enumeration of those to be
reported, which the end of a PDU extends by one or leaves (`MessagesGrow`). Below that are lemmas about slices and division: fragments are consecutive pieces
of the PDU's bytes, all full but for the last (`FragmentsAre`).

Only model-checked: the liveness properties (`HandshakeEnds`, `HandshakeSucceeds`, `CallEnds`,
`CatchesUp`, `LoadsFromCache`, `ProbeEnds`, `ListedIsDumped`), which need fairness; and the two safety properties of `Codec` and `Snoop`,
`DescribedAsSent` and `CrcIsRemainder`: TLVs are recursive and the CRC needs bit operations, both out of the prover's reach. `RedactedLeafByLeaf`, an induction over documents, is evaluated
on the documents named above. The third property of `Device_target`'s kind, `ConfirmedNewState`, and the other two of the runs that expect a violation are false.

## 6. Not modelled

AES is a bijection. In the handshake the bytes of a frame, the battery's percentage and the door's
position are abstracted to what the handshake, the reads and the entities depend on. Timestamps in a state
value are never used by the package.
Of the cloud, HTTP, request signing and decryption of keys; of the entities, names, icons and units; of the config
flow, the forms' wording and Home Assistant's translation of it. The byte order of an address in
`cloud.py`'s details is data without effect on what is modelled. A second prompt that discovery can
raise is listed as a hazard only. Of `parse_snoop.py`, the file's header, the filter, the printing and
the warning about truncation. Of `gatt_dump.py`, the scan, the report, and what notifications bring into the dump. Of `key_probe.py`, the
report and the regular expressions themselves; of `actuate.py`, its arguments, and its one call, which is `Device`'s. The standalone copy of
`device.py` is the package's file, line by line, and is described by the same modules.
