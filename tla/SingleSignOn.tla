---------------------------- MODULE SingleSignOn ----------------------------
(***************************************************************************)
(* One identity provider, its configuration, tests and policy, the logins  *)
(* that come through it and an account that it provisions                  *)
(* (services/sso.py, api/v1/sso.py).                                       *)
(*                                                                         *)
(* A callback consumes its protocol state and commits, then waits for the  *)
(* provider with the row that it has read (objects do not expire on        *)
(* commit), reads mappings and account, and commits.  Discovery waits too, *)
(* and what enables the provider or enforces it reads before it commits.   *)
(* Everything else is one step.  Claims, keys, certificates and the        *)
(* break-glass conditions are left out; deleting a provider too.           *)
(***************************************************************************)
EXTENDS Naturals

CONSTANTS
    States,         \* protocol states that may be created
    Callbacks,      \* callbacks that may be under way
    MaxChanges,     \* bound on the changes of the configuration and of the mappings
    None

VARIABLES
    idp,        \* the provider: configuration and mappings by their number
    policy,     \* sso_policies, of which the provider is the selected one or not
    protocol,   \* sso_protocol_states
    callback,   \* what each callback under way has read
    request,    \* what an administrator's request under way has read
    account,    \* the mappings that the provisioned account's access comes from
    proved,     \* history: the configuration and mappings that the recorded test went through
    crossed     \* history: what was recorded, of the provider and of the access, had read
                \*   a provider that has changed since

vars == <<idp, policy, protocol, callback, request, account, proved, crossed>>

Provider == [config : 0 .. MaxChanges, mapping : 0 .. MaxChanges,
             validated : BOOLEAN, tested : BOOLEAN, enabled : BOOLEAN]

NoMapping == [linked |-> FALSE, from |-> None]

TypeOK ==
    /\ idp \in Provider
    /\ policy \in [mode : {"disabled", "optional", "enforced"}, selected : BOOLEAN]
    /\ protocol \in [States -> {"none", "login", "test", "consumed"}]
    /\ account \in [linked : BOOLEAN, from : (0 .. MaxChanges) \cup {None}]

(* create_provider                                                         *)
Init ==
    /\ idp = [config |-> 0, mapping |-> 0, validated |-> FALSE, tested |-> FALSE, enabled |-> FALSE]
    /\ policy = [mode |-> "disabled", selected |-> FALSE]
    /\ protocol = [s \in States |-> "none"]
    /\ callback = [c \in Callbacks |-> None] /\ request = None
    /\ account = NoMapping
    /\ proved = None /\ crossed = [provider |-> FALSE, access |-> FALSE]

Version(p) == <<p.config, p.mapping>>

----------------------------------------------------------------------------
(* The configuration.                                                      *)

Changeable == idp.config + idp.mapping < MaxChanges

(* Another issuer or client; validated stays if only the secret, the next  *)
(* certificate or the encryption of assertions changes.                    *)
update_provider(validated) ==
    /\ Changeable /\ (validated => idp.validated)
    /\ idp' = [idp EXCEPT !.config = @ + 1, !.validated = validated,
                          !.tested = FALSE, !.enabled = FALSE]
    /\ crossed' = [crossed EXCEPT !.provider = FALSE]
    /\ UNCHANGED <<policy, protocol, callback, request, account, proved>>

(* Mutant of import_provider_metadata: the recorded test is kept.          *)
import_provider_metadata_Kept ==
    /\ Changeable
    /\ idp' = [idp EXCEPT !.config = @ + 1, !.validated = TRUE, !.enabled = FALSE]
    /\ crossed' = [crossed EXCEPT !.provider = FALSE]
    /\ UNCHANGED <<policy, protocol, callback, request, account, proved>>

(* New metadata are validated as they are imported.                        *)
import_provider_metadata ==
    /\ Changeable
    /\ idp' = [idp EXCEPT !.config = @ + 1, !.validated = TRUE,
                          !.tested = FALSE, !.enabled = FALSE]
    /\ crossed' = [crossed EXCEPT !.provider = FALSE]
    /\ UNCHANGED <<policy, protocol, callback, request, account, proved>>

Baseline == [account EXCEPT !.from = None]

(* With reconcile_provider_jit_users.                                      *)
replace_group_mappings ==
    /\ Changeable
    /\ idp' = [idp EXCEPT !.mapping = @ + 1, !.tested = FALSE, !.enabled = FALSE]
    /\ account' = Baseline
    /\ crossed' = [provider |-> FALSE, access |-> FALSE]
    /\ UNCHANGED <<policy, protocol, callback, request, proved>>

(* What a request reads before it waits, or before it commits.             *)
Reads(kind) == request = None /\ request' = [kind |-> kind, idp |-> idp]

validate_oidc_discovery ==
    /\ Reads("validate")
    /\ UNCHANGED <<idp, policy, protocol, callback, account, proved, crossed>>

set_provider_enabled ==
    /\ idp.validated /\ idp.tested /\ Reads("enable")
    /\ UNCHANGED <<idp, policy, protocol, callback, account, proved, crossed>>

enforcement_readiness ==
    /\ idp.validated /\ idp.tested /\ idp.enabled /\ Reads("enforce")
    /\ UNCHANGED <<idp, policy, protocol, callback, account, proved, crossed>>

Commits ==
    /\ request # None /\ request' = None
    /\ CASE request.kind = "validate" -> idp' = [idp EXCEPT !.validated = TRUE] /\ UNCHANGED policy
         [] request.kind = "enable"   -> idp' = [idp EXCEPT !.enabled = TRUE] /\ UNCHANGED policy
         [] request.kind = "enforce"  -> policy' = [mode |-> "enforced", selected |-> TRUE] /\ UNCHANGED idp
    /\ crossed' = [crossed EXCEPT !.provider = @ \/ Version(request.idp) # Version(idp)]
    /\ UNCHANGED <<protocol, callback, account, proved>>

request_fails ==
    /\ request # None /\ request' = None
    /\ UNCHANGED <<idp, policy, protocol, callback, account, proved, crossed>>

disable_provider ==
    /\ ~(policy.mode = "enforced" /\ policy.selected)
    /\ idp' = [idp EXCEPT !.enabled = FALSE]
    /\ UNCHANGED <<policy, protocol, callback, request, account, proved, crossed>>

update_policy(mode, selected) ==
    /\ policy' = [mode |-> mode, selected |-> selected]
    /\ UNCHANGED <<idp, protocol, callback, request, account, proved, crossed>>

----------------------------------------------------------------------------
(* Logins.                                                                 *)

_public_provider == idp.enabled /\ policy.mode # "disabled" /\ (policy.mode = "enforced" => policy.selected)

start_login(s) ==
    /\ protocol[s] = "none" /\ _public_provider
    /\ protocol' = [protocol EXCEPT ![s] = "login"]
    /\ UNCHANGED <<idp, policy, callback, request, account, proved, crossed>>

start_test_login(s) ==
    /\ protocol[s] = "none" /\ idp.validated
    /\ protocol' = [protocol EXCEPT ![s] = "test"]
    /\ UNCHANGED <<idp, policy, callback, request, account, proved, crossed>>

consume_protocol_state(s) == protocol' = [protocol EXCEPT ![s] = "consumed"]

oidc_callback(c, s) ==
    /\ callback[c] = None /\ protocol[s] \in {"login", "test"}
    /\ consume_protocol_state(s)
    /\ callback' = [callback EXCEPT ![c] =
          IF protocol[s] = "login" /\ ~_public_provider THEN None
          ELSE [purpose |-> protocol[s], idp |-> idp, mapping |-> None]]
    /\ UNCHANGED <<idp, policy, request, account, proved, crossed>>

(* The state has expired, or the exchange or the claims are refused.       *)
callback_fails(c) ==
    /\ callback[c] # None /\ callback' = [callback EXCEPT ![c] = None]
    /\ UNCHANGED <<idp, policy, protocol, request, account, proved, crossed>>

(* The provider has answered to the configuration that was read: account   *)
(* and mappings are read now.                                              *)
resolve_sso_user(c) ==
    /\ callback[c] # None /\ callback[c].mapping = None
    /\ callback' = [callback EXCEPT ![c].mapping = idp.mapping]
    /\ UNCHANGED <<idp, policy, protocol, request, account, proved, crossed>>

TestPassed(c) == callback[c].purpose = "test"

(* The session is opened.  The tester is a local administrator, a login is   *)
(* that of the provisioned account.                                        *)
_finish_login(c) ==
    /\ callback[c] # None /\ callback[c].mapping # None
    /\ account' = IF callback[c].purpose = "login"
                  THEN [linked |-> TRUE, from |-> callback[c].mapping] ELSE account
    /\ LET seen == <<callback[c].idp.config, callback[c].mapping>>
           test == TestPassed(c)
       IN  /\ idp' = IF test THEN [idp EXCEPT !.tested = TRUE] ELSE idp
           /\ proved' = IF test THEN seen ELSE proved
           /\ crossed' = [provider |-> crossed.provider \/ (test /\ seen # Version(idp)),
                          access   |-> crossed.access \/ (~test /\ seen[2] # idp.mapping)]
    /\ callback' = [callback EXCEPT ![c] = None]
    /\ UNCHANGED <<policy, protocol, request>>

----------------------------------------------------------------------------
Next ==
    \/ (\E v \in BOOLEAN : update_provider(v)) \/ import_provider_metadata
    \/ replace_group_mappings
    \/ validate_oidc_discovery \/ set_provider_enabled \/ enforcement_readiness
    \/ Commits \/ request_fails \/ disable_provider
    \/ \E mode \in {"disabled", "optional"}, selected \in BOOLEAN : update_policy(mode, selected)
    \/ \E s \in States :
          \/ start_login(s) \/ start_test_login(s)
          \/ \E c \in Callbacks : oidc_callback(c, s)
    \/ \E c \in Callbacks : callback_fails(c) \/ resolve_sso_user(c) \/ _finish_login(c)

Spec == Init /\ [][Next]_vars

----------------------------------------------------------------------------
(* "Validation does not prove the browser login, claims, callback URL,     *)
(* group mapping": a provider that is enabled has passed a test of its     *)
(* present configuration and mappings, and the access of a provisioned     *)
(* account never outlives the mappings that gave it; unless the request    *)
(* that enabled it, the test or the login had read what has changed since. *)
SignOnIsCurrent ==
    /\ idp.enabled => (idp.tested /\ proved = Version(idp)) \/ crossed.provider
    /\ account.from # None => account.from = idp.mapping \/ crossed.access
=============================================================================
