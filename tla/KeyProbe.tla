-------------------------------- MODULE KeyProbe --------------------------------
(***************************************************************************)
(* tools/key_probe.py: one session with the cloud, which asks for all it   *)
(* has on each lock of a model, flags what may be a key, and writes a dump *)
(* without the session's credentials; and load_token of scripts/actuate.py *)
(* which takes a lock's token from that dump.  The cloud is external.      *)
(*                                                                         *)
(* Of a JSON document only the leaves matter, and what they are found     *)
(* under: the last key, which redact is given, and the end of the path,     *)
(* which find_candidates looks at and to which lists add an index.          *)
(***************************************************************************)
EXTENDS Naturals, SequencesExt, Functions, FiniteSets

CONSTANTS
    Locks,          \* the matching devices in order: mac as its parts, uuid, id, token, raw_dict
    Infos,          \* what the two calls for details may return: sets of leaves
    Suspicious,     \* names that SUSPICIOUS_KEY finds
    Credentials,    \* names that REDACT_KEY finds
    Sessions,       \* values of the session's credentials
    Blobs           \* values that look like hex or base64 blobs

ASSUME LocksAssumption ==
    /\ Locks \in Seq(Range(Locks)) /\ Locks # <<>>
    /\ \A lock \in Range(Locks) : lock.mac \in Seq(Range(lock.mac)) /\ lock.mac # <<>>
    /\ \A lock, other \in Range(Locks) :
          lock.uuid = other.uuid => lock.id = other.id /\ lock.token = other.token

\* The names of a token are none that REDACT_KEY finds; the session's credentials are nowhere
\* else, and are none of a lock's.
ASSUME NamesAssumption == {"uuid", "id", "token", "_decrypted_token"} \cap Credentials = {}
ASSUME SessionsAssumption ==
    /\ \A leaf \in (UNION Infos) \cup (UNION {lock.raw_dict : lock \in Range(Locks)}) :
          leaf.value \in Sessions => leaf.key \in Credentials /\ leaf.name \in Credentials
    /\ \A lock \in Range(Locks) : {lock.uuid, lock.id, lock.token} \cap Sessions = {}
    /\ {"redacted", "error", "refused", "null", "encrypted"} \cap Sessions = {}

VARIABLES
    place,          \* the await, or the prompt, the probe is at
    results,        \* of probe_ble_token for the lock at hand, by spelling of its uuid
    sources,        \* of the lock at hand
    devices,        \* of the dump: the locks done with
    told,           \* history: what the cloud said of each lock's token
    file            \* nothing, or the dump as written

keyVars == <<place, results, sources, devices, told, file>>

REDACTED == "redacted"
Nothing  == [name \in {} |-> {}]

\* d[name] = entry
With(d, name, entry) == [n \in DOMAIN d \cup {name} |-> IF n = name THEN entry ELSE d[n]]

Leaf(key, name, value) == [key |-> key, name |-> name, value |-> value]
LeavesOf(dict) == {Leaf(key, key, dict[key]) : key \in DOMAIN dict}

-------------------------------------------------------------------------------
\* Every spelling once, in the order of the code.  Dots and parts make a spelling.
Dotted(mac) == [i \in 1 .. 2 * Len(mac) - 1 |-> IF i % 2 = 1 THEN mac[(i + 1) \div 2] ELSE "."]

Seen(seen, spelling) == IF spelling \in Range(seen) THEN seen ELSE Append(seen, spelling)
UuidCandidates(mac) ==
    LET seen == Seen(Seen(<<Dotted(mac)>>, <<Last(mac)>>), mac)
    IN  IF Len(mac) > 2 THEN Seen(seen, <<mac[3]>>) ELSE seen

Spellings == [i \in DOMAIN Locks |-> UuidCandidates(Locks[i].mac)]

(***************************************************************************)
(* What the cloud says of a spelling, with what the probe makes of it: the  *)
(* entries on top, and those under "token".  A token can be decrypted or     *)
(* not; a refusal may name a token that is null.                            *)
(***************************************************************************)
Answer(top, token) == [top |-> top, token |-> token]
Only(key, value)   == [k \in {key} |-> value]

Refused   == Answer(Only("ErrNo", "refused"), Nothing)
NullToken == Answer(Only("token", "null"), Nothing)
Granted(lock, key, value) ==
    Answer(Only(key, value), [uuid |-> lock.uuid, id |-> lock.id, token |-> "encrypted"])

Answers(lock) ==
    {Refused, NullToken, Granted(lock, "_decrypted_token", lock.token),
     Granted(lock, "_decrypt_error", "error")}

\* Whatever is raised is recorded in place of the answer.
Failure == Answer(Only("_probe_error", "error"), Nothing)

AnswerLeaves(answer) == LeavesOf(answer.top) \cup LeavesOf(answer.token)
TokenLeaves(tokens)  == UNION {AnswerLeaves(tokens[spelling]) : spelling \in DOMAIN tokens}

-------------------------------------------------------------------------------
Redacted(leaf) ==
    IF leaf.key \in Credentials THEN Leaf(leaf.key, leaf.name, REDACTED) ELSE leaf
RedactedDict(dict) == [key \in DOMAIN dict |-> IF key \in Credentials THEN REDACTED ELSE dict[key]]

\* Candidates have no key that redact looks for.
Redact(device) ==
    [device EXCEPT
        !.sources = [source \in DOMAIN @ |-> {Redacted(leaf) : leaf \in @[source]}],
        !.tokens  = [spelling \in DOMAIN @ |-> Answer(RedactedDict(@[spelling].top),
                                                     RedactedDict(@[spelling].token))]]

\* A bug: left to redact, which does not look behind the keys of candidates.
AsFound(leaf) == leaf
Shown(leaf) ==
    IF leaf.name \in Credentials THEN Leaf(leaf.key, leaf.name, REDACTED) ELSE leaf

FindCandidates(leaves) ==
    {Shown(leaf) : leaf \in {l \in leaves : \/ l.name \in Suspicious \cup {"_decrypted_token"}
                                          \/ l.value \in Blobs}}

-------------------------------------------------------------------------------
KeyInit ==
    /\ place = "login"
    /\ results = Nothing
    /\ sources = Nothing
    /\ devices = <<>>
    /\ told = {}
    /\ file = <<>>

\* authenticate, from the environment or the prompts, and with a code if one is asked for; any
\* refusal ends the probe.
Login ==
    /\ place = "login"
    /\ place' \in {"list", "code", "exit"}
    /\ UNCHANGED <<results, sources, devices, told, file>>

EnterCode ==
    /\ place = "code"
    /\ place' \in {"list", "exit"}
    /\ UNCHANGED <<results, sources, devices, told, file>>

\* get_object_list; without a match the probe ends.
Lock          == Locks[Len(devices) + 1]
RawDict(lock) == With(Nothing, "get_object_list.raw_dict", lock.raw_dict)

ListDevices ==
    /\ place = "list"
    /\ \/ place' = "device_info" /\ sources' = RawDict(Lock)
       \/ place' = "exit" /\ UNCHANGED sources
    /\ UNCHANGED <<results, devices, told, file>>

\* A bug: errors are not recorded, but raised.
Raised(next)   == "exit"
Recorded(next) == next

After(failed, next) == IF failed THEN Recorded(next) ELSE next

\* A call for details returns or raises.
Details(name, next) ==
    /\ \E body \in Infos \cup {AnswerLeaves(Failure)} :
          /\ sources' = With(sources, name, body)
          /\ place' = After(body = AnswerLeaves(Failure), next)
    /\ UNCHANGED <<results, devices, told, file>>

GetDeviceInfo == place = "device_info" /\ Details("get_device_Info", "lock_info")
GetLockInfo   == place = "lock_info" /\ Details("lock/v1/info", "token")

\* The lock's entry in the dump.
DeviceEntry(tokens) ==
    [sources |-> sources, tokens |-> tokens,
     candidates |-> FindCandidates((UNION Range(sources)) \cup TokenLeaves(tokens))]

\* probe_ble_token asks for one spelling after the other; behind the last the lock is done with.
GetToken ==
    /\ place = "token"
    /\ \E body \in Answers(Lock) \cup {Failure} :
          LET spellings == Spellings[Len(devices) + 1]
              tokens    == With(results, spellings[Cardinality(DOMAIN results) + 1], body)
          IN  /\ told' = told \cup {[uuid |-> Lock.uuid, body |-> body]}
              /\ IF Cardinality(DOMAIN tokens) < Len(spellings)
                 THEN /\ results' = tokens
                      /\ place' = After(body = Failure, "token")
                      /\ UNCHANGED <<sources, devices>>
                 ELSE /\ results' = Nothing
                      /\ devices' = Append(devices, DeviceEntry(tokens))
                      /\ IF Len(devices') < Len(Locks)
                         THEN /\ place' = After(body = Failure, "device_info")
                              /\ sources' = RawDict(Locks[Len(devices')])
                         ELSE /\ place' = After(body = Failure, "write")
                              /\ sources' = Nothing
    /\ UNCHANGED file

\* The end of main.
WriteDump ==
    /\ place = "write"
    /\ place' = "exit"
    /\ file' = <<[i \in DOMAIN devices |-> Redact(devices[i])]>>
    /\ UNCHANGED <<results, sources, devices, told>>

KeyStep ==
    \/ Login \/ EnterCode \/ ListDevices \/ GetDeviceInfo \/ GetLockInfo \/ GetToken \/ WriteDump

KeySpec == KeyInit /\ [][KeyStep]_keyVars

-------------------------------------------------------------------------------
\* actuate.py's load_token: what it may return of the dump, in which a lock's entries come in
\* any order; a KeyError comes of a token that was not decrypted, an
\* AttributeError of one that is null.
\* A bug: the first token there is.
AnyLock(token, uuid)   == TRUE
IsTheLock(token, uuid) == token["uuid"] = uuid

LoadToken(dump, uuid) ==
    LET entries == UNION {Range(dump[i].tokens) : i \in DOMAIN dump}
    IN  {<<"AttributeError">> : e \in {e \in entries : "token" \in DOMAIN e.top}}
        \cup {IF "_decrypted_token" \in DOMAIN e.top
              THEN <<e.token["id"], e.top["_decrypted_token"]>>
              ELSE <<"KeyError">> :
                 e \in {e \in entries : DOMAIN e.token # {} /\ IsTheLock(e.token, uuid)}}

\* What is written holds no credential of the session, wherever the cloud puts it: neither
\* in a source nor in what is flagged there (key_probe.py:160-213, 346-348).
DumpIsRedacted ==
    file # <<>> => \A device \in Range(file[1]) :
        \A leaf \in (UNION Range(device.sources)) \cup TokenLeaves(device.tokens)
                   \cup device.candidates :
            leaf.value \notin Sessions

\* The dump is of use: a token that was decrypted is flagged, and actuate.py can find it by
\* the lock's uuid, with the lock's id; it never takes another lock's (key_probe.py:
\* 92-157, actuate.py:29-34).
TokensUsable ==
    file # <<>> => \A lock \in Range(Locks) :
        LET loaded   == LoadToken(file[1], lock.uuid)
            flagged  == UNION {device.candidates : device \in Range(file[1])}
            obtained == \E t \in told : t.uuid = lock.uuid /\ "_decrypted_token" \in DOMAIN t.body.top
        IN  /\ loaded \subseteq {<<lock.id, lock.token>>, <<"KeyError">>, <<"AttributeError">>}
            /\ obtained => /\ <<lock.id, lock.token>> \in loaded
                           /\ \E found \in flagged : found.value = lock.token

\* Once the locks are known, whatever calls for one of them fail, the dump is written
\* (key_probe.py:284-311).
ListedIsDumped == place = "device_info" ~> file # <<>>
===============================================================================
