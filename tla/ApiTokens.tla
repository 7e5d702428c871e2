----------------------------- MODULE ApiTokens ------------------------------
(***************************************************************************)
(* The tokens that act for service accounts and users, and the role that   *)
(* is granted to them (api/v1/authorization.py, services/authorization.py).*)
(*                                                                         *)
(* A token is good while nothing has raised the version of its principal.  *)
(* A handler reads the rows, and writes what it has computed from them when*)
(* it commits; at most two are under way.  Expiry, address restrictions,   *)
(* scopes, names and step-up authentication are left out; a principal that *)
(* is a user has no status here (module UserSessions ends its sessions).   *)
(***************************************************************************)
EXTENDS Naturals

CONSTANTS
    Principals,     \* service accounts, and users with personal tokens
    Services,       \* those that are service accounts
    ApiTokenIds,
    Handlers,       \* handlers that may be under way
    MaxHandlers,    \* bound on the handlers
    None

VARIABLES
    version,    \* auth_version of each principal
    suspended,  \* service accounts that are suspended
    granted,    \* principals that have been granted the custom role
    role,       \* the custom role: its permissions by their number, or None
    token,      \* the token rows
    handler,    \* what each handler under way has read
    handled,    \* how many there have been
    authority,  \* history: how often the status or the permissions of each principal have changed
    raced       \* history: principals of whom two handlers were under way together

vars == <<version, suspended, granted, role, token, handler, handled, authority, raced>>

NoToken == [of |-> None, live |-> FALSE, version |-> 0, first |-> None, at |-> 0]

TypeOK ==
    /\ version \in [Principals -> Nat] /\ authority \in [Principals -> Nat]
    /\ suspended \subseteq Services /\ granted \subseteq Principals /\ raced \subseteq Principals
    /\ role \in Nat \cup {None}
    /\ \A t \in ApiTokenIds : /\ token[t].of \in Principals \cup {None}
                              /\ token[t].first \in ApiTokenIds \cup {None}
                              /\ token[t].live \in BOOLEAN

(* create_service_account, create_role                                     *)
Init ==
    /\ version = [p \in Principals |-> 1]
    /\ suspended = {} /\ granted = {} /\ role = 0
    /\ token = [t \in ApiTokenIds |-> NoToken]
    /\ handler = [h \in Handlers |-> None] /\ handled = 0
    /\ authority = [p \in Principals |-> 0]
    /\ raced = {}

----------------------------------------------------------------------------
(* What a token may be used for.                                           *)

authenticate_api_token(t) ==
    /\ token[t].live /\ token[t].of \notin suspended
    /\ version[token[t].of] = token[t].version

----------------------------------------------------------------------------
(* A handler starts by reading.                                            *)

Others(h) == {k \in Handlers \ {h} : handler[k] # None}

Begins(h, kind, p, t) ==
    /\ handler[h] = None /\ handled < MaxHandlers
    /\ handled' = handled + 1
    /\ handler' = [handler EXCEPT ![h] =
          [kind |-> kind, of |-> p, token |-> t, version |-> version, granted |-> granted,
           tokens |-> token, at |-> authority, beside |-> Others(h) # {}]]
    /\ UNCHANGED <<version, suspended, granted, role, token, authority, raced>>

_issue_token(h, p) == p \notin suspended /\ Begins(h, "issue", p, None)

_rotate_token(h, t) == token[t].live /\ Begins(h, "rotate", token[t].of, t)

revoke_service_token(h, t) == token[t].of # None /\ Begins(h, "revoke", token[t].of, t)

update_service_account(h, p) ==
    p \in Services /\ \E kind \in {"suspend", "activate"} : Begins(h, kind, p, None)

create_grant(h, p) == role # None /\ p \notin granted /\ Begins(h, "grant", p, None)

delete_grant(h, p) == p \in granted /\ Begins(h, "ungrant", p, None)

update_role(h) == role # None /\ Begins(h, "update_role", None, None)

delete_role(h) == role # None /\ Begins(h, "delete_role", None, None)

----------------------------------------------------------------------------
(* And commits.                                                            *)

(* Mutant of _after_grant_change: the version is not raised.               *)
_after_grant_change_Kept(r, ps) == version

(* Also _invalidate_role_principals: the version that was read, and one.   *)
_after_grant_change(r, ps) == [p \in Principals |-> IF p \in ps THEN r.version[p] + 1 ELSE version[p]]

Affected(r) ==
    CASE r.kind \in {"update_role", "delete_role"} -> r.granted
      [] OTHER -> {r.of}

AltersAuthority(r) == r.kind \in {"suspend", "activate", "grant", "ungrant", "update_role", "delete_role"}

(* The rows of the tokens: suspension revokes those it has read.           *)
NewToken(r, first) == [of |-> r.of, live |-> TRUE, version |-> r.version[r.of], first |-> first,
                       at |-> r.at[r.of]]

Tokens(r) ==
    LET free == {t \in ApiTokenIds : token[t].of = None}
        ended(ts) == [t \in ApiTokenIds |-> IF t \in ts THEN [token[t] EXCEPT !.live = FALSE] ELSE token[t]]
    IN  CASE r.kind = "issue"   -> {[token EXCEPT ![t] = NewToken(r, t)] : t \in free}
          [] r.kind = "rotate"  -> {[ended({r.token}) EXCEPT ![t] = NewToken(r, token[r.token].first)] : t \in free}
          [] r.kind = "revoke"  -> {ended({r.token})}
          [] r.kind = "suspend" -> {ended({t \in ApiTokenIds : r.tokens[t].of = r.of /\ r.tokens[t].live})}
          [] OTHER -> {token}

Commits(h) ==
    /\ handler[h] # None
    /\ LET r == handler[h]
           of == Affected(r)
       IN  /\ token' \in Tokens(r)
           /\ version' = IF AltersAuthority(r) THEN _after_grant_change(r, of) ELSE version
           /\ suspended' = CASE r.kind = "suspend"  -> suspended \cup {r.of}
                             [] r.kind = "activate" -> suspended \ {r.of}
                             [] OTHER -> suspended
           /\ r.kind = "grant" => role # None
           /\ granted' = CASE r.kind = "grant"       -> granted \cup {r.of}
                           [] r.kind = "ungrant"     -> granted \ {r.of}
                           [] r.kind = "delete_role" -> {}
                           [] OTHER -> granted
           /\ r.kind = "update_role" => role # None
           /\ role' = CASE r.kind = "update_role" -> role + 1
                        [] r.kind = "delete_role" -> None
                        [] OTHER -> role
           /\ authority' = [p \in Principals |->
                 IF AltersAuthority(r) /\ p \in of \cup (IF r.kind \in {"update_role", "delete_role"} THEN granted ELSE {})
                 THEN authority[p] + 1 ELSE authority[p]]
           /\ raced' = IF r.beside \/ Others(h) # {} THEN raced \cup of \cup granted ELSE raced
    /\ handler' = [k \in Handlers |-> IF k = h THEN None
                                      ELSE IF handler[k] # None THEN [handler[k] EXCEPT !.beside = TRUE]
                                      ELSE None]
    /\ UNCHANGED handled

Fails(h) ==
    /\ handler[h] # None /\ handler' = [handler EXCEPT ![h] = None]
    /\ UNCHANGED <<version, suspended, granted, role, token, handled, authority, raced>>

Next ==
    \E h \in Handlers :
        \/ \E p \in Principals : \/ _issue_token(h, p) \/ update_service_account(h, p)
                                 \/ create_grant(h, p) \/ delete_grant(h, p)
        \/ \E t \in ApiTokenIds : _rotate_token(h, t) \/ revoke_service_token(h, t)
        \/ update_role(h) \/ delete_role(h) \/ Commits(h) \/ Fails(h)

Spec == Init /\ [][Next]_vars

----------------------------------------------------------------------------
(* A token that works was issued after every change of its principal's     *)
(* status, grants and role, and is the only one that works of those that   *)
(* it was rotated from, unless handlers that concern the principal overlap.*)
TokensFollowAuthority ==
    \A t \in ApiTokenIds : token[t].of # None /\ authenticate_api_token(t) /\ token[t].of \notin raced =>
        /\ token[t].at = authority[token[t].of]
        /\ \A s \in ApiTokenIds \ {t} : token[s].first = token[t].first => ~authenticate_api_token(s)
=============================================================================
