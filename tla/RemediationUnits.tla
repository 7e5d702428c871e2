-------------------------- MODULE RemediationUnits --------------------------
(***************************************************************************)
(* Remediation units (services/risk.py, api/v1/risk.py): findings that are *)
(* fixed together, grouped by an exact key, added by hand, or suggested by *)
(* likeness and then reviewed.                                             *)
(*                                                                         *)
(* A request reads in one step and writes in a later one.  A membership is *)
(* a triple of a unit, a finding and the basis of the match; a unit is its *)
(* exact key.  Title, owner and status of a unit decide nothing here.      *)
(***************************************************************************)
EXTENDS Naturals

CONSTANTS
    Grouping,       \* findings
    Keys,           \* exact keys: a CVE, a package, a product, a remediation text
    KeysOf(_),      \* the exact keys of a finding
    MaxEdits        \* bound: requests

VARIABLES
    units,          \* the units that exist
    members,        \* <<unit, finding, basis>>
    suggested,      \* the status of every suggestion, "none" if there is none
    edits,          \* what the requests in progress are to write
    asked,          \* requests so far
    contested       \* suggestions of which two reviews overlapped

vars == <<units, members, suggested, edits, asked, contested>>

Pairs == Keys \X Grouping

Init ==
    /\ units = {} /\ members = {} /\ suggested = [p \in Pairs |-> "none"]
    /\ edits = {} /\ asked = 0 /\ contested = {}

db == [units |-> units, members |-> members, suggested |-> suggested]

Paired(d) == {<<m[1], m[2]>> : m \in d.members}

(* The rows that a request adds for the pairs that have none.              *)
Adding(d, pairs, basis) ==
    d.members \cup {<<p[1], p[2], basis>> : p \in pairs \ Paired(d)}

create_unit(d, k, fs) ==
    [d EXCEPT !.units = @ \cup {k}, !.members = Adding(d, {k} \X fs, "manual")]

(* Only exact keys, and the units that they lack.                          *)
auto_group_findings(d, fs) ==
    LET pairs == UNION {KeysOf(f) \X {f} : f \in fs}
    IN [d EXCEPT !.units = @ \cup {p[1] : p \in pairs}, !.members = Adding(d, pairs, "exact")]

add_membership(d, k, f) == [d EXCEPT !.members = Adding(d, {<<k, f>>}, "manual")]

remove_membership(d, k, f) ==
    [d EXCEPT !.members = {m \in @ : <<m[1], m[2]>> # <<k, f>>}]

(* Neither members nor what has been suggested before, whatever the answer *)
(* was.                                                                    *)
suggest_fuzzy_memberships(d, k, fs) ==
    [d EXCEPT !.suggested = [p \in Pairs |->
        IF p \in ({k} \X fs) \ Paired(d) /\ @[p] = "none" THEN "pending" ELSE @[p]]]

(* Mutant of Reviewable: a review may be reviewed.                         *)
Reviewable_Always(d) == {p \in Pairs : d.suggested[p] # "none"}

Reviewable(d) == {p \in Pairs : d.suggested[p] = "pending"}

review_suggestion(d, p, accept) ==
    [d EXCEPT !.suggested[p] = IF accept THEN "accepted" ELSE "rejected",
              !.members = IF accept THEN Adding(d, {p}, "reviewed") ELSE @]

Edits(d) ==
    {create_unit(d, k, fs) : k \in Keys \ d.units, fs \in SUBSET Grouping}
    \cup {auto_group_findings(d, fs) : fs \in SUBSET Grouping}
    \cup {add_membership(d, k, f) : k \in d.units, f \in Grouping}
    \cup {remove_membership(d, p[1], p[2]) : p \in Paired(d)}
    \cup {suggest_fuzzy_memberships(d, k, fs) : k \in d.units, fs \in SUBSET Grouping}
    \cup {review_suggestion(d, p, accept) : p \in Reviewable(d), accept \in BOOLEAN}

----------------------------------------------------------------------------
Begin ==
    /\ asked < MaxEdits /\ asked' = asked + 1
    /\ \E new \in Edits(db) \ {db} : edits' = edits \cup {[read |-> db, new |-> new]}
    /\ UNCHANGED <<units, members, suggested, contested>>

(* The unique keys of units, memberships and suggestions: who inserts what *)
(* is there by now fails as a whole.                                       *)
Conflicts(e) ==
    \/ (e.new.units \ e.read.units) \cap units # {}
    \/ (Paired(e.new) \ Paired(e.read)) \cap Paired(db) # {}
    \/ \E p \in Pairs :
          e.read.suggested[p] = "none" /\ e.new.suggested[p] # "none" /\ suggested[p] # "none"

Reviews(e) == {p \in Pairs : e.read.suggested[p] = "pending" /\ e.new.suggested[p] # "pending"}

Commit(e) ==
    /\ edits' = edits \ {e}
    /\ IF Conflicts(e) THEN UNCHANGED <<units, members, suggested, contested>>
       ELSE /\ units' = units \cup e.new.units
            /\ members' = (members \ (e.read.members \ e.new.members))
                             \cup (e.new.members \ e.read.members)
            /\ suggested' = [p \in Pairs |->
                  IF e.new.suggested[p] = e.read.suggested[p] THEN suggested[p]
                  ELSE e.new.suggested[p]]
            /\ contested' = contested \cup {p \in Reviews(e) : suggested[p] # "pending"}
    /\ UNCHANGED asked

Next == Begin \/ \E e \in edits : Commit(e)

Spec == Init /\ [][Next]_vars

----------------------------------------------------------------------------
(* A likeness alone groups nothing (docs/explainable-risk.md): a finding   *)
(* that is in a unit because of a suggestion is there by an acceptance that*)
(* stands.  Two reviews that overlap may leave a rejected one in the unit: *)
(* the status of the suggestion is checked without a lock.                 *)
RejectedStaysOut ==
    \A m \in members : m[3] = "reviewed" =>
        \/ suggested[<<m[1], m[2]>>] = "accepted"
        \/ <<m[1], m[2]>> \in contested
=============================================================================
