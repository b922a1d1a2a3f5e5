---------------------------- MODULE ConfigFlowProofs ----------------------------
(***************************************************************************)
(* Proofs about ConfigFlow, for any number of flows, any addresses, and    *)
(* whatever the cloud and the user do meanwhile.                           *)
(***************************************************************************)
EXTENDS ConfigFlow, TLAPS

\* No two flows have the same id.
UniqueIds ==
    \A f, g \in Flows : f # g /\ flows[f].uid # "none" => flows[f].uid # flows[g].uid

Verifying == {"login", "2fa", "code"}

\* A flow that verifies credentials has their id, and no entry has it.
VerifiesOwn ==
    \A f \in Flows : flows[f].at \in Verifying =>
        /\ flows[f].typed \in Typed
        /\ flows[f].uid = Lower[flows[f].typed]
        /\ \A e \in entries : e.uid # flows[f].uid

UniqueEntries == \A d, e \in entries : d.uid = e.uid => d = e

ConfigFlowInv ==
    ConfigFlowTypeOK /\ UniqueIds /\ VerifiesOwn /\ UniqueEntries /\ EntryIsVerified

-------------------------------------------------------------------------------
LEMMA NoFlowType == NoFlow \in FlowRecords /\ NoFlow.at = "none" /\ NoFlow.uid = "none"
  BY DEF NoFlow, FlowRecords

LEMMA FlowInitInv == ConfigFlowInit => ConfigFlowInv
  <1> SUFFICES ASSUME ConfigFlowInit PROVE ConfigFlowInv
    OBVIOUS
  <1>1. \A f \in Flows : flows[f] = NoFlow
    BY DEF ConfigFlowInit
  <1>2. ConfigFlowTypeOK
    BY <1>1, NoFlowType DEF ConfigFlowInit, ConfigFlowTypeOK
  <1> QED
    BY <1>1, <1>2, NoFlowType
       DEF ConfigFlowInit, ConfigFlowInv, UniqueIds, VerifiesOwn, UniqueEntries, EntryIsVerified,
           Verifying

\* The cloud lets only the right password in.
LEMMA OnlyRightLogin ==
    ASSUME NEW flow, "ok" \in LoginOutcomes(flow) PROVE flow.right
  BY DEF LoginOutcomes

\* A flow changes, entries do not: it has an id of its own or none, and verifies only
\* credentials without an entry.
LEMMA OneFlowChanges ==
    ASSUME ConfigFlowInv, NEW f \in Flows, NEW flow \in FlowRecords, Becomes(f, flow),
           flow.at = "none" => flow = NoFlow,
           flow.uid # "none" => ~InProgress(f, flow.uid),
           flow.at \in Verifying =>
               /\ flow.typed \in Typed
               /\ flow.uid = Lower[flow.typed]
               /\ \A e \in entries' : e.uid # flow.uid,
           \A g \in Flows \ {f} : flows[g].at \in Verifying =>
               \A e \in entries' : e.uid # flows[g].uid,
           entries' \subseteq Entries, UniqueEntries', EntryIsVerified',
           UNCHANGED twoFactor
    PROVE  ConfigFlowInv'
  <1> USE DEF ConfigFlowInv, ConfigFlowTypeOK
  <1>1. /\ flows' \in [Flows -> FlowRecords]
        /\ flows'[f] = flow
        /\ \A g \in Flows \ {f} : flows'[g] = flows[g]
    BY DEF Becomes
  <1>2. ConfigFlowTypeOK'
    BY <1>1
  <1>3. UniqueIds'
    BY <1>1 DEF UniqueIds, InProgress
  <1>4. VerifiesOwn'
    BY <1>1 DEF VerifiesOwn
  <1> QED
    BY <1>2, <1>3, <1>4

\* A flow that verifies may show another form; it keeps its id.
LEMMA FormInv ==
    ASSUME ConfigFlowInv, NEW f \in Flows, flows[f].at \in Verifying,
           NEW step \in {"user", "2fa", "code"}, NEW codeRight \in BOOLEAN,
           NEW error \in {"none", "cannot_connect", "invalid_2fa"},
           Becomes(f, [Form(flows[f], step, error) EXCEPT !.codeRight = codeRight]),
           UNCHANGED <<entries, twoFactor>>
    PROVE  ConfigFlowInv'
  <1> DEFINE flow == [Form(flows[f], step, error) EXCEPT !.codeRight = codeRight]
  <1>1. flows[f] \in FlowRecords
    BY DEF ConfigFlowInv, ConfigFlowTypeOK
  <1>2. /\ flow \in FlowRecords
        /\ flow.at = step /\ flow.uid = flows[f].uid /\ flow.typed = flows[f].typed
    BY <1>1 DEF Form, FlowRecords
  <1>3. flow.uid # "none" => ~InProgress(f, flow.uid)
    BY <1>2 DEF InProgress, ConfigFlowInv, UniqueIds
  <1>4. /\ flow.typed \in Typed
        /\ flow.uid = Lower[flow.typed]
        /\ \A e \in entries' : e.uid # flow.uid
    BY <1>2 DEF ConfigFlowInv, VerifiesOwn
  <1>5. \A g \in Flows \ {f} : flows[g].at \in Verifying =>
          \A e \in entries' : e.uid # flows[g].uid
    BY DEF ConfigFlowInv, VerifiesOwn
  <1>6. entries' \subseteq Entries /\ UniqueEntries' /\ EntryIsVerified'
    BY DEF ConfigFlowInv, ConfigFlowTypeOK, UniqueEntries, EntryIsVerified
  <1>7. flow.at # "none" /\ Becomes(f, flow)
    BY <1>2
  <1> HIDE DEF flow
  <1> QED
    BY <1>2, <1>3, <1>4, <1>5, <1>6, <1>7, OneFlowChanges

\* Credentials that were let in become the account's only entry.
LEMMA CreateInv ==
    ASSUME ConfigFlowInv, NEW f \in Flows, flows[f].at \in Verifying, flows[f].right,
           Create(f, "ok"), UNCHANGED twoFactor
    PROVE  ConfigFlowInv'
  <1> DEFINE new == [uid |-> flows[f].uid, typed |-> flows[f].typed, right |-> flows[f].right,
                     verified |-> TRUE]
  <1>1. /\ flows[f].typed \in Typed
        /\ flows[f].uid = Lower[flows[f].typed]
        /\ \A e \in entries : e.uid # flows[f].uid
    BY DEF ConfigFlowInv, VerifiesOwn
  <1>2. entries' = entries \cup {new} /\ Becomes(f, NoFlow)
    BY <1>1 DEF Create
  <1>3. flows[f].uid \in Emails /\ flows[f].uid # "none"
    BY <1>1, FlowAssumption DEF Emails
  <1>4. /\ new \in Entries /\ new.uid = flows[f].uid
        /\ new.verified /\ new.right /\ new.uid = Lower[new.typed]
    <2>1. flows[f].right \in BOOLEAN
      BY DEF ConfigFlowInv, ConfigFlowTypeOK, FlowRecords
    <2> QED
      BY <1>1, <1>3, <2>1 DEF Entries
  <1> HIDE DEF new
  <1>5. entries' \subseteq Entries /\ UniqueEntries' /\ EntryIsVerified'
    <2>1. entries' \subseteq Entries
      BY <1>2, <1>4 DEF ConfigFlowInv, ConfigFlowTypeOK
    <2>2. UniqueEntries'
      BY <1>1, <1>2, <1>4 DEF ConfigFlowInv, UniqueEntries
    <2>3. EntryIsVerified'
      BY <1>2, <1>4 DEF ConfigFlowInv, EntryIsVerified
    <2> QED
      BY <2>1, <2>2, <2>3
  <1>6. \A g \in Flows \ {f} : flows[g].at \in Verifying =>
          \A e \in entries' : e.uid # flows[g].uid
    BY <1>2, <1>3, <1>4 DEF ConfigFlowInv, UniqueIds, VerifiesOwn
  <1> QED
    BY <1>2, <1>5, <1>6, NoFlowType, OneFlowChanges DEF Verifying

\* One flow's steps.
LEMMA FlowInv ==
    ASSUME ConfigFlowInv, NEW f \in Flows,
           \/ Discover(f) \/ UserStarts(f) \/ LoginEnds(f) \/ CodeEnds(f) \/ Close(f)
           \/ \E typed \in Typed, right \in BOOLEAN : Submit(f, typed, right)
           \/ \E right \in BOOLEAN : SubmitCode(f, right)
    PROVE  ConfigFlowInv'
  <1>1. /\ entries \subseteq Entries /\ UniqueEntries /\ EntryIsVerified
        /\ flows[f] \in FlowRecords
        /\ \A g \in Flows : flows[g].at \in Verifying => \A e \in entries : e.uid # flows[g].uid
    BY DEF ConfigFlowInv, ConfigFlowTypeOK, VerifiesOwn
  <1>2. ASSUME NEW flow \in FlowRecords, Becomes(f, flow), UNCHANGED <<entries, twoFactor>>,
               flow.at = "none" => flow = NoFlow,
               flow.uid # "none" => ~InProgress(f, flow.uid),
               flow.at \in Verifying =>
                   /\ flow.typed \in Typed
                   /\ flow.uid = Lower[flow.typed]
                   /\ \A e \in entries : e.uid # flow.uid
        PROVE  ConfigFlowInv'
    <2>1. UniqueEntries' /\ EntryIsVerified'
      BY <1>1, <1>2 DEF UniqueEntries, EntryIsVerified
    <2> QED
      BY <1>1, <1>2, <2>1, OneFlowChanges
  <1>3. CASE Discover(f)
    <2> DEFINE flow == [NoFlow EXCEPT !.at = "user", !.uid = DOMAIN_ID]
    <2>1. flow \in FlowRecords /\ flow.at = "user" /\ flow.uid = DOMAIN_ID
      BY DEF NoFlow, FlowRecords
    <2>2. Becomes(f, flow) /\ UNCHANGED <<entries, twoFactor>> /\ ~InProgress(f, DOMAIN_ID)
      BY <1>3 DEF Discover
    <2> HIDE DEF flow
    <2> QED
      BY <1>2, <2>1, <2>2 DEF Verifying
  <1>4. CASE UserStarts(f)
    <2> DEFINE flow == [NoFlow EXCEPT !.at = "user"]
    <2>1. flow \in FlowRecords /\ flow.at = "user" /\ flow.uid = "none"
      BY DEF NoFlow, FlowRecords
    <2>2. Becomes(f, flow) /\ UNCHANGED <<entries, twoFactor>>
      BY <1>4 DEF UserStarts
    <2> HIDE DEF flow
    <2> QED
      BY <1>2, <2>1, <2>2 DEF Verifying
  <1>5. CASE Close(f)
    BY <1>2, <1>5, NoFlowType DEF Close, Verifying
  <1>6. ASSUME NEW typed \in Typed, NEW right \in BOOLEAN, Submit(f, typed, right)
        PROVE  ConfigFlowInv'
    <2> DEFINE uid  == UniqueId(typed)
               flow == [NoFlow EXCEPT !.at = "login", !.uid = uid, !.typed = typed,
                                      !.right = right]
    <2>1. flow \in FlowRecords /\ flow.at = "login" /\ flow.uid = uid /\ flow.typed = typed
      BY DEF NoFlow, FlowRecords, UniqueId, Emails
    <2>2. /\ Becomes(f, IF InProgress(f, uid) \/ IsConfigured(uid) THEN NoFlow ELSE flow)
          /\ UNCHANGED <<entries, twoFactor>>
      BY <1>6 DEF Submit
    <2> HIDE DEF flow
    <2>3. CASE InProgress(f, uid) \/ IsConfigured(uid)
      BY <1>2, <2>2, <2>3, NoFlowType DEF Verifying
    <2>4. CASE ~InProgress(f, uid) /\ ~IsConfigured(uid)
      <3>1. uid = Lower[typed] /\ \A e \in entries : e.uid # uid
        BY <2>4 DEF IsConfigured, UniqueId
      <3>2. Becomes(f, flow)
        BY <2>2, <2>4
      <3> HIDE DEF uid
      <3> QED
        BY <1>2, <2>1, <2>2, <2>4, <3>1, <3>2
    <2> QED
      BY <2>3, <2>4
  <1>7. CASE LoginEnds(f)
    <2>1. flows[f].at \in Verifying /\ UNCHANGED twoFactor
      BY <1>7 DEF LoginEnds, Verifying
    <2>2. \/ Create(f, "ok") /\ flows[f].right
          \/ \E step \in {"user", "2fa"}, error \in {"none", "cannot_connect"} :
                Becomes(f, Form(flows[f], step, error)) /\ UNCHANGED entries
      BY <1>7, OnlyRightLogin DEF LoginEnds, IsVerified
    <2>3. \A step, error :
            Form(flows[f], step, error)
              = [Form(flows[f], step, error) EXCEPT !.codeRight = flows[f].codeRight]
      BY <1>1 DEF Form, FlowRecords
    <2>4. flows[f].codeRight \in BOOLEAN
      BY <1>1 DEF FlowRecords
    <2>5. CASE Create(f, "ok") /\ flows[f].right
      BY <2>1, <2>5, CreateInv
    <2>6. ASSUME NEW step \in {"user", "2fa"}, NEW error \in {"none", "cannot_connect"},
                 Becomes(f, Form(flows[f], step, error)), UNCHANGED entries
          PROVE  ConfigFlowInv'
      <3>1. Becomes(f, [Form(flows[f], step, error) EXCEPT !.codeRight = flows[f].codeRight])
        BY <2>3, <2>6
      <3> QED
        BY <2>1, <2>4, <2>6, <3>1, FormInv
    <2> QED
      BY <2>2, <2>5, <2>6
  <1>8. ASSUME NEW right \in BOOLEAN, SubmitCode(f, right) PROVE ConfigFlowInv'
    BY <1>8, FormInv DEF SubmitCode, Verifying
  <1>9. CASE CodeEnds(f)
    <2>1. flows[f].at \in Verifying /\ UNCHANGED twoFactor
      BY <1>9 DEF CodeEnds, Verifying
    <2>2. \/ Create(f, "ok") /\ flows[f].right
          \/ Becomes(f, Form(flows[f], "2fa", "invalid_2fa")) /\ UNCHANGED entries
      BY <1>9, OnlyRightLogin DEF CodeEnds, CodeOutcomes, IsVerified
    <2>3. Form(flows[f], "2fa", "invalid_2fa")
            = [Form(flows[f], "2fa", "invalid_2fa") EXCEPT !.codeRight = flows[f].codeRight]
      BY <1>1 DEF Form, FlowRecords
    <2>4. flows[f].codeRight \in BOOLEAN
      BY <1>1 DEF FlowRecords
    <2> QED
      BY <2>1, <2>2, <2>3, <2>4, CreateInv, FormInv
  <1> QED
    BY <1>3, <1>4, <1>5, <1>6, <1>7, <1>8, <1>9

LEMMA FlowStepInv == ConfigFlowInv /\ [ConfigFlowNext]_fvars => ConfigFlowInv'
  <1> SUFFICES ASSUME ConfigFlowInv, [ConfigFlowNext]_fvars PROVE ConfigFlowInv'
    OBVIOUS
  <1> USE DEF ConfigFlowInv, ConfigFlowTypeOK, UniqueIds, VerifiesOwn, UniqueEntries,
              EntryIsVerified
  <1>1. CASE Remove
    BY <1>1 DEF Remove
  <1>2. CASE Toggle
    BY <1>2 DEF Toggle
  <1>3. CASE UNCHANGED fvars
    BY <1>3 DEF fvars
  <1> QED
    BY <1>1, <1>2, <1>3, FlowInv DEF ConfigFlowNext

-------------------------------------------------------------------------------
\* Flows, ids and entries fit together, however many flows run side by side.
THEOREM ConfigFlowInvariant == ConfigFlowSpec => []ConfigFlowInv
  <1> QED BY FlowInitInv, FlowStepInv, PTL DEF ConfigFlowSpec

\* Flows and entries are what config_flow.py can make of them: a form or login has an address,
\* and no flow is left half-way (config_flow.py:32-97).
THEOREM ConfigFlowTypeCorrect == ConfigFlowSpec => []ConfigFlowTypeOK
  <1>1. ConfigFlowInv => ConfigFlowTypeOK
    BY DEF ConfigFlowInv
  <1> QED BY <1>1, ConfigFlowInvariant, PTL

\* An account has one entry, however its address is typed (config_flow.py:60-61).
THEOREM AccountsHaveOneEntry == ConfigFlowSpec => []OneEntryPerAccount
  <1>1. ConfigFlowInv => OneEntryPerAccount
    BY DEF ConfigFlowInv, OneEntryPerAccount, UniqueEntries, EntryIsVerified
  <1> QED BY <1>1, ConfigFlowInvariant, PTL

\* An entry in use is never replaced (config_flow.py:60-61).
THEOREM NothingIsReplaced == ConfigFlowSpec => []NoSecondSetup
  <1>1. ConfigFlowInv => NoSecondSetup
    <2> SUFFICES ASSUME ConfigFlowInv PROVE NoSecondSetup
      OBVIOUS
    <2>1. \A f \in Flows : flows[f].at \in Verifying => flows[f].uid # "none"
      BY FlowAssumption DEF ConfigFlowInv, VerifiesOwn, Emails
    <2> QED
      BY <2>1 DEF ConfigFlowInv, NoSecondSetup, UniqueIds, VerifiesOwn, EntryIsVerified, Verifying
  <1> QED BY <1>1, ConfigFlowInvariant, PTL

\* An entry holds credentials the cloud let in (config_flow.py:59-77, 94-97).
THEOREM EntriesAreVerified == ConfigFlowSpec => []EntryIsVerified
  <1>1. ConfigFlowInv => EntryIsVerified
    BY DEF ConfigFlowInv
  <1> QED BY <1>1, ConfigFlowInvariant, PTL
===============================================================================
