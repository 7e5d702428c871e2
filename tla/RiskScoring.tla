----------------------------- MODULE RiskScoring -----------------------------
(***************************************************************************)
(* The explainable score of findings: the versions of an organization's    *)
(* risk profile (services/risk.py, api/v1/risk.py), the threat-intelligence*)
(* feeds that enrich findings (services/intelligence.py), and whatever else*)
(* changes what a score is computed from (api/v1/asset_context.py,         *)
(* services/findings.py, api/v1/findings.py).                              *)
(*                                                                         *)
(* A transaction reads in one step and writes in a later one; an UPDATE    *)
(* names only the columns that the transaction changed, so two of them may *)
(* both get through.  One CVE is followed.  A factor is TRUE or FALSE, and *)
(* a score is the profile and the factors that it was computed from: equal *)
(* hashes of the input document are equal scores.                          *)
(***************************************************************************)
EXTENDS Naturals, FiniteSetsExt

CONSTANTS
    Findings,
    WithCve,         \* those that reference the CVE
    MaxVersion,      \* bound: versions of the profile
    MaxTransactions, \* bound
    None

Feeds == {"nvd", "kev", "epss"}

VARIABLES
    versions,     \* versions 1..versions of the profile exist
    default,      \* the versions that are marked as the default
    exposed,      \* the context of the asset: is_internet_exposed, criticality
    intel,        \* what is stored of the CVE: its CVSS, is_kev, EPSS over the threshold
    health,       \* FeedHealth.status
    rows,         \* the findings
    alerts,       \* cve_added_to_kev events of a finding
    txs,          \* what the transactions in progress are to write
    begun,        \* transactions so far
    raced         \* findings written by a transaction whose reads were stale, and not scored since

vars == <<versions, default, exposed, intel, health, rows, alerts, txs, begun, raced>>

db == [versions |-> versions, default |-> default, exposed |-> exposed,
       intel |-> intel, health |-> health, rows |-> rows, alerts |-> alerts]

Init ==
    /\ versions = 1 /\ default = {1} /\ exposed = FALSE
    /\ intel = [feed \in Feeds |-> FALSE]
    /\ health = [feed \in Feeds |-> "never_synced"]
    /\ rows = [f \in Findings |-> None] /\ alerts = [f \in Findings |-> 0]
    /\ txs = {} /\ begun = 0 /\ raced = {}

Present(d) == {f \in Findings : d.rows[f] # None}
Enriched(d) == Present(d) \cap WithCve

----------------------------------------------------------------------------
(* Scores.  d is the database as a transaction sees it.                    *)

default_profile(d) == Max(d.default)

_score_inputs(d, f) == [factors |-> d.rows[f].factors, exposed |-> d.exposed]

Score(d, f, profile) == [profile |-> profile, inputs |-> _score_inputs(d, f)]

(* Mutant of score_finding: the hash leaves the profile out.               *)
score_finding_AnyProfile(d, f, profile) ==
    IF d.rows[f].score # None /\ d.rows[f].score.inputs = _score_inputs(d, f)
    THEN d.rows[f]
    ELSE [d.rows[f] EXCEPT !.score = Score(d, f, profile)]

(* The score of equal inputs is kept, unless a new snapshot is forced: the *)
(* kept score and the new one are equal.                                   *)
score_finding(d, f, profile) == [d.rows[f] EXCEPT !.score = Score(d, f, profile)]

(* Each of fs with the factors that d now holds of it.                     *)
Rescored(d, fs, profile) ==
    [d EXCEPT !.rows = [f \in Findings |-> IF f \in fs THEN score_finding(d, f, profile) ELSE @[f]]]

----------------------------------------------------------------------------
(* Requests and tasks: what each makes of the database that it has read.   *)

(* Publishing a version, which becomes the default or does not.            *)
create_profile_version(d, make_default) ==
    LET v == d.versions + 1
        e == [d EXCEPT !.versions = v, !.default = IF make_default THEN {v} ELSE @]
    IN IF make_default THEN Rescored(e, Present(d), v) ELSE e

activate_profile(d, v) == Rescored([d EXCEPT !.default = {v}], Present(d), v)

recalculate_score(d, f) == Rescored(d, {f}, default_profile(d))

(* A scan reports the finding, with or without a CVSS score of its own,    *)
(* and in whatever severity the scanner now gives it.                      *)
ingest_findings(d, f, severe, cvss) ==
    LET seen == [severe |-> severe, nvd |-> cvss]
        new == [severe |-> severe, nvd |-> cvss, kev |-> FALSE, epss |-> FALSE, valid |-> FALSE]
        row == IF d.rows[f] = None THEN [factors |-> new, score |-> None]
               ELSE [d.rows[f] EXCEPT !.factors = [c \in DOMAIN @ |->
                       IF c \in DOMAIN seen THEN seen[c] ELSE @[c]]]
        e == [d EXCEPT !.rows[f] = row]
    IN Rescored(e, {f}, default_profile(d))

(* An operator's verdict on the finding.                                   *)
update_finding(d, f, valid) ==
    Rescored([d EXCEPT !.rows[f].factors.valid = valid], {f}, default_profile(d))

(* The asset's criticality or exposure.                                    *)
update_asset_context(d, value) ==
    LET e == [d EXCEPT !.exposed = value] IN Rescored(e, Present(e), default_profile(e))

(* Known exploitation and EPSS follow what is stored; a CVSS score is only *)
(* filled in where the scanner gave none.                                  *)
Enrich(d, f) ==
    LET old == d.rows[f].factors
    IN  [d.rows[f] EXCEPT !.factors = [old EXCEPT !.kev = d.intel.kev, !.epss = d.intel.epss,
                                                  !.nvd = old.nvd \/ d.intel.nvd]]

apply_enrichment(d, kev_added) ==
    LET e == [d EXCEPT !.rows = [f \in Findings |-> IF f \in Enriched(d) THEN Enrich(d, f) ELSE @[f]]]
        alerted == {f \in Enriched(d) : kev_added /\ ~d.rows[f].factors.kev}
        a == [e EXCEPT !.alerts = [f \in Findings |-> IF f \in alerted THEN @[f] + 1 ELSE @[f]]]
    IN Rescored(a, Enriched(d), default_profile(d))

ingest_nvd(d) == apply_enrichment([d EXCEPT !.intel.nvd = TRUE], FALSE)

(* An entry that leaves the catalogue is not looked for.                   *)
ingest_kev(d) == apply_enrichment([d EXCEPT !.intel.kev = TRUE], ~d.intel.kev)

ingest_epss(d, over) == apply_enrichment([d EXCEPT !.intel.epss = over], FALSE)

(* At once, after retries, or not at all.                                  *)
fetch_with_retry == {"ok", "degraded", "failed"}

_record_feed_health(d, feed, status) == [d EXCEPT !.health[feed] = status]

Synced(d, feed) ==
    CASE feed = "nvd" -> {ingest_nvd(d)}
      [] feed = "kev" -> {ingest_kev(d)}
      [] feed = "epss" -> {ingest_epss(d, over) : over \in BOOLEAN}

(* A transaction reads, and keeps what it will write.                      *)
Starts(new) ==
    /\ begun < MaxTransactions /\ begun' = begun + 1
    /\ txs' = txs \cup {[read |-> db, new |-> new, id |-> begun']}
    /\ UNCHANGED <<versions, default, exposed, intel, health, rows, alerts, raced>>

_sync(feed) ==
    \/ Starts(_record_feed_health(db, feed, "failed"))
    \/ \E status \in fetch_with_retry \ {"failed"}, e \in Synced(db, feed) :
          Starts(_record_feed_health(e, feed, status))

Begin ==
    \/ versions < MaxVersion /\ \E b \in BOOLEAN : Starts(create_profile_version(db, b))
    \/ \E v \in 1..versions : Starts(activate_profile(db, v))
    \/ \E f \in Present(db) : Starts(recalculate_score(db, f))
    \/ \E f \in Findings, s \in BOOLEAN, c \in BOOLEAN : Starts(ingest_findings(db, f, s, c))
    \/ \E f \in Present(db), b \in BOOLEAN : Starts(update_finding(db, f, b))
    \/ \E b \in BOOLEAN : Starts(update_asset_context(db, b))
    \/ \E feed \in Feeds : _sync(feed)

----------------------------------------------------------------------------
(* An UPDATE leaves the columns alone that have not changed.               *)
Merge(now, read, new) ==
    [c \in DOMAIN now |-> IF new[c] = read[c] THEN now[c] ELSE new[c]]

MergeRow(now, read, new) ==
    IF new = read THEN now
    ELSE IF now = None THEN new
    ELSE [factors |-> Merge(now.factors, read.factors, new.factors),
          score |-> IF new.score = read.score THEN now.score ELSE new.score]

(* The marks of the versions that the transaction has read or created.     *)
MergeDefault(now, read, new) == (now \ (read \ new)) \cup (new \ read)

(* Two transactions that insert the same version or finding: the second    *)
(* fails on the unique key and changes nothing.                            *)
Conflicts(t) ==
    \/ t.new.versions # t.read.versions /\ versions # t.read.versions
    \/ \E f \in Findings : t.read.rows[f] = None /\ t.new.rows[f] # None /\ rows[f] # None

Stale(t, f) ==
    \/ rows[f] # t.read.rows[f]
    \/ default # t.read.default \/ exposed # t.read.exposed

Written(t) == {f \in Findings : t.new.rows[f] # t.read.rows[f]}

(* What others rely on and t changes: it concerns every finding.           *)
Concerns(t) ==
    IF t.new.default # t.read.default \/ t.new.exposed # t.read.exposed
    THEN Findings ELSE Written(t)

Commit(t) ==
    /\ txs' = txs \ {t}
    /\ IF Conflicts(t)
       THEN UNCHANGED <<versions, default, exposed, intel, health, rows, alerts, raced>>
       ELSE /\ versions' = IF t.new.versions = t.read.versions THEN versions ELSE t.new.versions
            /\ default' = MergeDefault(default, t.read.default, t.new.default)
            /\ exposed' = IF t.new.exposed = t.read.exposed THEN exposed ELSE t.new.exposed
            /\ intel' = Merge(intel, t.read.intel, t.new.intel)
            /\ health' = Merge(health, t.read.health, t.new.health)
            /\ rows' = [f \in Findings |->
                          MergeRow(rows[f], t.read.rows[f], t.new.rows[f])]
            /\ alerts' = [f \in Findings |-> alerts[f] + (t.new.alerts[f] - t.read.alerts[f])]
            /\ raced' = (raced \ Written(t)) \cup {f \in Concerns(t) : Stale(t, f)}
    /\ UNCHANGED begun

Next == Begin \/ \E t \in txs : Commit(t)

Spec == Init /\ [][Next]_vars

----------------------------------------------------------------------------
(* Whatever scans, feeds, operators and new versions of the profile change,*)
(* a finding's score is that of its present factors under the default      *)
(* profile, unless a transaction wrote it that rested on a stale read and  *)
(* nothing has scored the finding since.                                   *)
ScoreIsCurrent ==
    \A f \in Present(db) \ raced : rows[f].score = Score(db, f, default_profile(db))

=============================================================================
