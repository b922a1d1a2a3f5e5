-------------------------------- MODULE ConfigFlow --------------------------------
(***************************************************************************)
(* WyzeLockClassicConfigFlow: several flows of one Home Assistant, begun   *)
(* by discovered locks or by the user, with the login of cloud.py.         *)
(*                                                                         *)
(* Home Assistant's flow manager is external: it gives a flow an id only   *)
(* if no other flow in progress has it, replaces an entry that has the id  *)
(* of a new one, and passes a flow one form at a time.  So is wyzeapy: a   *)
(* login of an account with two-factor authentication raises, and only     *)
(* then is there something for login_with_2fa to complete.                 *)
(***************************************************************************)
CONSTANTS
    Flows,          \* flows in progress at a time
    Typed,          \* e-mail addresses as users type them
    Lower,          \* what str.lower makes of them
    Surprises       \* what else happens: "outage" of the cloud, "toggle" of 2FA

Emails == {Lower[t] : t \in Typed}
DOMAIN_ID == "wyze_lock_classic_local"

ASSUME FlowAssumption ==
    /\ DOMAIN Lower = Typed
    /\ Emails \cap {DOMAIN_ID, "none"} = {}
    /\ Surprises \subseteq {"outage", "toggle"}

VARIABLES
    flows,      \* by flow: the step it is at and what it has been told
    entries,    \* the config entries of the domain
    twoFactor   \* accounts with two-factor authentication

fvars == <<flows, entries, twoFactor>>

(***************************************************************************)
(* at:       the form that is shown ("user", "2fa"), or the login that is   *)
(*           awaited ("login", "code"); "none" for no flow                 *)
(* uid:      its unique id                                                 *)
(* typed, right: self._creds, and whether the password is right            *)
(* codeRight: whether the code entered last is right                       *)
(* error:    what the form says                                            *)
(***************************************************************************)
NoFlow == [at |-> "none", uid |-> "none", typed |-> "none", right |-> FALSE,
           codeRight |-> FALSE, error |-> "none"]

FlowRecords ==
    [at : {"none", "user", "login", "2fa", "code"}, uid : Emails \cup {DOMAIN_ID, "none"},
     typed : Typed \cup {"none"}, right : BOOLEAN, codeRight : BOOLEAN,
     error : {"none", "cannot_connect", "invalid_2fa"}]

\* An entry: its unique id, its credentials (an address, and a password that is right or
\* not), and whether the cloud let them in.
Entries == [uid : Emails, typed : Typed, right : BOOLEAN, verified : BOOLEAN]

ConfigFlowInit ==
    /\ flows = [f \in Flows |-> NoFlow]
    /\ entries = {}
    /\ twoFactor \in SUBSET Emails

Becomes(f, flow) == flows' = [flows EXCEPT ![f] = flow]
Form(flow, step, error) == [flow EXCEPT !.at = step, !.error = error]

\* async_set_unique_id aborts a flow whose id another one has.
InProgress(f, uid) == \E g \in Flows \ {f} : flows[g].uid = uid

\* A bug: an account that is set up is not noticed.
NotNoticed(uid)   == FALSE
IsConfigured(uid) == \E e \in entries : e.uid = uid

\* A bug: the address is taken as it was typed.
AsTyped(typed)  == typed
UniqueId(typed) == Lower[typed]

-------------------------------------------------------------------------------
\* async_step_bluetooth: a lock is discovered and its flow shows the form at once.
Discover(f) ==
    /\ flows[f].at = "none"
    /\ entries = {}
    /\ ~InProgress(f, DOMAIN_ID)
    /\ Becomes(f, [NoFlow EXCEPT !.at = "user", !.uid = DOMAIN_ID])
    /\ UNCHANGED <<entries, twoFactor>>

\* async_step_user without input: the user adds the integration.
UserStarts(f) ==
    /\ flows[f].at = "none"
    /\ Becomes(f, [NoFlow EXCEPT !.at = "user"])
    /\ UNCHANGED <<entries, twoFactor>>

\* async_step_user with input: up to the login, or to the end of the flow.
Submit(f, typed, right) ==
    /\ flows[f].at = "user"
    /\ Becomes(f, IF InProgress(f, UniqueId(typed)) \/ IsConfigured(UniqueId(typed))
                  THEN NoFlow
                  ELSE [NoFlow EXCEPT !.at = "login", !.uid = UniqueId(typed),
                                      !.typed = typed, !.right = right])
    /\ UNCHANGED <<entries, twoFactor>>

\* _authenticate without a code: what client.login may do.
LoginOutcomes(flow) ==
    LET answer == IF ~flow.right THEN "error"
                  ELSE IF Lower[flow.typed] \in twoFactor THEN "2fa" ELSE "ok"
    IN  {answer} \cup (IF "outage" \in Surprises THEN {"error"} ELSE {})

\* With a code: client.login is called first, and only if it returns the code is
\* tried.  It returns for an account that no longer has two-factor authentication;
\* what login_with_2fa does then is up to wyzeapy.
CodeOutcomes(flow) ==
    IF "ok" \in LoginOutcomes(flow) THEN {"ok", "error"} ELSE {"error"}

\* A bug: credentials that lack their second factor are good enough.
GoodEnough(outcome) == outcome \in {"ok", "2fa"}
IsVerified(outcome) == outcome = "ok"

\* _create: Home Assistant replaces an entry with the same id.
Create(f, outcome) ==
    /\ entries' = {e \in entries : e.uid # flows[f].uid} \cup
                    {[uid |-> flows[f].uid, typed |-> flows[f].typed,
                      right |-> flows[f].right, verified |-> outcome = "ok"]}
    /\ Becomes(f, NoFlow)

\* The login of async_step_user ends.
LoginEnds(f) ==
    /\ flows[f].at = "login"
    /\ \E outcome \in LoginOutcomes(flows[f]) :
          \/ IsVerified(outcome) /\ Create(f, outcome)
          \/ /\ outcome = "2fa"
             /\ Becomes(f, Form(flows[f], "2fa", "none"))
             /\ UNCHANGED entries
          \/ /\ outcome = "error"
             /\ Becomes(f, Form(flows[f], "user", "cannot_connect"))
             /\ UNCHANGED entries
    /\ UNCHANGED twoFactor

\* async_step_2fa with input.
SubmitCode(f, right) ==
    /\ flows[f].at = "2fa"
    /\ Becomes(f, [Form(flows[f], "code", "none") EXCEPT !.codeRight = right])
    /\ UNCHANGED <<entries, twoFactor>>

\* The login of async_step_2fa ends.
CodeEnds(f) ==
    /\ flows[f].at = "code"
    /\ \E outcome \in CodeOutcomes(flows[f]) :
          \/ IsVerified(outcome) /\ Create(f, outcome)
          \/ /\ outcome = "error"
             /\ Becomes(f, Form(flows[f], "2fa", "invalid_2fa"))
             /\ UNCHANGED entries
    /\ UNCHANGED twoFactor

-------------------------------------------------------------------------------
(***************************************************************************)
(* The user closes a flow, removes an entry, or changes the account.       *)
(***************************************************************************)
Close(f) ==
    /\ flows[f].at # "none"
    /\ Becomes(f, NoFlow)
    /\ UNCHANGED <<entries, twoFactor>>

Remove ==
    /\ \E e \in entries : entries' = entries \ {e}
    /\ UNCHANGED <<flows, twoFactor>>

Toggle ==
    /\ "toggle" \in Surprises
    /\ \E e \in Emails :
          twoFactor' = IF e \in twoFactor THEN twoFactor \ {e} ELSE twoFactor \cup {e}
    /\ UNCHANGED <<flows, entries>>

ConfigFlowNext ==
    \/ \E f \in Flows :
          \/ Discover(f) \/ UserStarts(f) \/ LoginEnds(f) \/ CodeEnds(f) \/ Close(f)
          \/ \E typed \in Typed, right \in BOOLEAN : Submit(f, typed, right)
          \/ \E right \in BOOLEAN : SubmitCode(f, right)
    \/ Remove \/ Toggle

ConfigFlowSpec == ConfigFlowInit /\ [][ConfigFlowNext]_fvars

-------------------------------------------------------------------------------
ConfigFlowTypeOK ==
    /\ flows \in [Flows -> FlowRecords]
    /\ \A f \in Flows : flows[f].at = "none" => flows[f] = NoFlow
    /\ entries \subseteq Entries
    /\ twoFactor \subseteq Emails

\* However an address is typed, and whichever flows run side by side, an account has
\* one entry (config_flow.py:60-61).
OneEntryPerAccount ==
    \A d, e \in entries : Lower[d.typed] = Lower[e.typed] => d = e

\* No flow asks the cloud about an account that is set up or that another flow is
\* setting up: an entry in use is never replaced (config_flow.py:60-61).
NoSecondSetup ==
    \A f \in Flows : flows[f].at \in {"login", "2fa", "code"} =>
        /\ \A e \in entries : Lower[e.typed] # Lower[flows[f].typed]
        /\ \A g \in Flows \ {f} : flows[g].uid # flows[f].uid

\* An entry holds the credentials the cloud let in, address and password as they were
\* verified, under their own id, though a form may lie between the input and the entry
\* (config_flow.py:59-77, 83-97, 104-105).
EntryIsVerified ==
    \A e \in entries : e.verified /\ e.right /\ e.uid = Lower[e.typed]

\* "That verification code was not accepted." is said of codes that are wrong
\* (strings.json: config.error.invalid_2fa).
OnlyWrongCodesRefused ==
    \A f \in Flows : flows[f].error = "invalid_2fa" => ~flows[f].codeRight
===============================================================================
