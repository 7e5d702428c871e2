--------------------------- MODULE Reconciliation ---------------------------
(***************************************************************************)
(* Inventory reconciliation (dash/backend/app/services/reconciliation.py), *)
(* the connector task that feeds it (services/passive_inventory.py), its   *)
(* decisions (api/v1/passive_inventory.py) and the ingestion of scanned    *)
(* hosts (services/ingest.py), for one site.                               *)
(*                                                                         *)
(* An observation of a source record is merged into the asset that shares  *)
(* an immutable identifier with it, waits for a decision, or becomes an    *)
(* asset.  A merge keeps a snapshot, by which it can be split.  Times are  *)
(* those of the observations; one run gives all of its observations the    *)
(* same.  A rejection looks at the other candidates before it commits;     *)
(* everything else is one step.  The materialized lifecycle states follow  *)
(* from the times and are left out.                                        *)
(***************************************************************************)
EXTENDS FiniteSets, Naturals, TLC

CONSTANTS
    Assets, Observations,   \* numbered in the order they come
    Sources,
    Macs,           \* immutable identifiers, of weight 95
    Names,          \* identifiers of weights 75 to 85
    Addresses,      \* identifiers of weight 60
    MaxTime,        \* times of the observations
    MaxScans,       \* bound on the hosts that scans report
    Rejecters,      \* rejections in progress
    None

VARIABLES
    assets,     \* the assets there are
    ids,        \* per asset and identifier, last_seen_at; 0 is no identifier
    seen,       \* last_seen_at of the assets
    obs,        \* the observations
    link,       \* AssetSourceLink, by source record
    cand,       \* the candidates, by observation and asset
    rejecting,  \* rejections: the candidate, and whether an asset is created
    scans,
    before,     \* ids, seen and link before each merge
    touched,    \* merges whose asset or source record has changed since
    crossed     \* observations of which two rejections overlapped

rows == <<assets, ids, seen, obs, link, cand>>
vars == <<rows, rejecting, scans, before, touched, crossed>>

Identifiers == Macs \cup Names \cup Addresses
Scanned == MaxTime + 1      \* a scan sees what it sees now

NoLink == [asset |-> None, ids |-> {}, last |-> 0]
NoSnapshot == [matched |-> None, link |-> NoLink, added |-> {}, prior |-> <<>>, seen |-> 0]
NoCandidate == [status |-> "none", conflict |-> FALSE, snapshot |-> NoSnapshot]
NoReject == [o |-> None, a |-> None, creates |-> FALSE]

Has(a) == {i \in Identifiers : ids[a][i] # 0}

Init ==
    /\ assets = {} /\ ids = [a \in Assets |-> [i \in Identifiers |-> 0]]
    /\ seen = [a \in Assets |-> 0]
    /\ obs = [o \in Observations |-> [source |-> None, ids |-> {}, at |-> 0, matched |-> None]]
    /\ link = [r \in Sources |-> NoLink]
    /\ cand = [o \in Observations |-> [a \in Assets |-> NoCandidate]]
    /\ rejecting = [d \in Rejecters |-> NoReject] /\ scans = 0
    /\ before = [o \in Observations |-> [a \in Assets |-> [ids |-> <<>>, seen |-> 0, link |-> NoLink]]]
    /\ touched = {} /\ crossed = {}

Arrived == {o \in Observations : obs[o].source # None}

Pending(o) == {a \in Assets : cand[o][a].status = "pending"}

Merged == {c \in Observations \X Assets : cand[c[1]][c[2]].status \in {"auto", "approved"}}

Later(s, t) == IF s >= t THEN s ELSE t

----------------------------------------------------------------------------
(* Pieces of the steps.                                                    *)

(* The next of what is numbered.                                          *)
New(there, all, x) == x \notin there /\ \A y \in all : y < x => y \in there

(* score_asset.                                                            *)
High(I, a) == I \cap Has(a) \cap Macs # {}
Review(I, a) == I \cap Has(a) \cap (Macs \cup Names) # {}
Conflict(I, a) == I \cap Macs # {} /\ Has(a) \cap Macs # {} /\ ~High(I, a)

(* What a merge has changed no longer stands as it was left.               *)
touch ==
    touched' = {c \in Merged \cap (touched \cup
        {d \in Observations \X Assets :
            \/ ids'[d[2]] # ids[d[2]] \/ seen'[d[2]] # seen[d[2]]
            \/ obs[d[1]].source # None /\ link'[obs[d[1]].source] # link[obs[d[1]].source]}) :
                cand'[c[1]][c[2]].status = cand[c[1]][c[2]].status}

Linked(ob, a) ==
    [link EXCEPT ![ob.source] =
        [asset |-> a, ids |-> ob.ids,
         last |-> IF @ = NoLink THEN ob.at ELSE Later(@.last, ob.at)]]

(* _create_asset_from_observation; fresh: without the link there was.      *)
create(o, ob, a, fresh) ==
    /\ New(assets, Assets, a) /\ assets' = assets \cup {a}
    /\ ids' = [ids EXCEPT ![a] = [i \in Identifiers |-> IF i \in ob.ids THEN ob.at ELSE 0]]
    /\ seen' = [seen EXCEPT ![a] = ob.at]
    /\ obs' = [obs EXCEPT ![o] = [ob EXCEPT !.matched = a]]
    /\ link' = IF fresh THEN [link EXCEPT ![ob.source] = [asset |-> a, ids |-> ob.ids, last |-> ob.at]]
               ELSE Linked(ob, a)

(* Mutant of Snapshot: identifiers that were seen again are not kept.      *)
Snapshot_Added(ob, a) ==
    [matched |-> ob.matched, link |-> link[ob.source], added |-> ob.ids \ Has(a),
     prior |-> [i \in {} |-> 0], seen |-> seen[a]]

Snapshot(ob, a) ==
    [matched |-> ob.matched, link |-> link[ob.source], added |-> ob.ids \ Has(a),
     prior |-> [i \in {j \in ob.ids \cap Has(a) : ids[a][j] < ob.at} |-> ids[a][i]],
     seen |-> seen[a]]

merge(o, ob, a) ==
    /\ ids' = [ids EXCEPT ![a] = [i \in Identifiers |->
                  IF i \in ob.ids THEN Later(@[i], ob.at) ELSE @[i]]]
    /\ seen' = [seen EXCEPT ![a] = Later(@, ob.at)]
    /\ link' = Linked(ob, a)
    /\ obs' = [obs EXCEPT ![o] = [ob EXCEPT !.matched = a]]
    /\ before' = [before EXCEPT ![o][a] = [ids |-> ids[a], seen |-> seen[a], link |-> link[ob.source]]]
    /\ UNCHANGED assets

----------------------------------------------------------------------------
(* reconcile_observation: one of the records of a connector run.           *)
collect(o, ob) ==
    LET scored == {a \in assets : Review(ob.ids, a)}
        sure == {a \in scored : High(ob.ids, a) /\ ~Conflict(ob.ids, a)}
        found(a) == [status |-> "pending", snapshot |-> NoSnapshot, conflict |->
                        Conflict(ob.ids, a) \/ (Cardinality(sure) > 1 /\ High(ob.ids, a))]
        all == [a \in Assets |-> IF a \in scored THEN found(a) ELSE NoCandidate]
    IN  /\ New(Arrived, Observations, o)
        /\ IF Cardinality(sure) = 1
           THEN \E a \in sure :
                   /\ merge(o, ob, a)
                   /\ cand' = [cand EXCEPT ![o] = [all EXCEPT
                         ![a].status = "auto", ![a].snapshot = Snapshot(ob, a)]]
           ELSE /\ cand' = [cand EXCEPT ![o] = all]
                /\ IF scored = {} THEN \E a \in Assets : create(o, ob, a, FALSE)
                   ELSE obs' = [obs EXCEPT ![o] = ob] /\ UNCHANGED <<assets, ids, seen, link>>
                /\ UNCHANGED before
        /\ touch /\ UNCHANGED <<rejecting, scans, crossed>>

(* merge_candidate, of what the asset is by now.                           *)
approve(o, a) ==
    /\ a \in Pending(o) /\ ~cand[o][a].conflict
    /\ ~Conflict(obs[o].ids, a) /\ Review(obs[o].ids, a)
    /\ merge(o, obs[o], a)
    /\ cand' = [cand EXCEPT ![o][a].status = "approved", ![o][a].snapshot = Snapshot(obs[o], a)]
    /\ touch /\ UNCHANGED <<rejecting, scans, crossed>>

reject_begin(d, o, a) ==
    /\ rejecting[d] = NoReject /\ a \in Pending(o)
    /\ rejecting' = [rejecting EXCEPT ![d] =
          [o |-> o, a |-> a, creates |-> Pending(o) = {a} /\ obs[o].matched = None]]
    /\ crossed' = IF \E e \in Rejecters : rejecting[e].o = o THEN crossed \cup {o} ELSE crossed
    /\ UNCHANGED <<rows, scans, before, touched>>

rejected(o, a) == \E b \in Assets : create(o, obs[o], b, FALSE)

reject_candidate(d) ==
    LET o == rejecting[d].o
        a == rejecting[d].a
    IN  /\ rejecting[d] # NoReject /\ rejecting' = [rejecting EXCEPT ![d] = NoReject]
        /\ cand' = [cand EXCEPT ![o][a].status = "rejected"]
        /\ IF rejecting[d].creates THEN rejected(o, a)
           ELSE UNCHANGED <<assets, ids, seen, obs, link>>
        /\ touch /\ UNCHANGED <<scans, before, crossed>>

Unmerged(o, a) ==
    LET s == cand[o][a].snapshot IN
    [i \in Identifiers |->
        IF ids[a][i] # obs[o].at THEN ids[a][i]
        ELSE IF i \in s.added THEN 0
        ELSE IF i \in DOMAIN s.prior THEN s.prior[i] ELSE ids[a][i]]

split_candidate(o, a) ==
    LET s == cand[o][a].snapshot
        r == obs[o].source
        ids1 == [ids EXCEPT ![a] = Unmerged(o, a)]
        seen1 == [seen EXCEPT ![a] = IF @ = Later(s.seen, obs[o].at) THEN s.seen ELSE @]
    IN  /\ <<o, a>> \in Merged /\ obs[o].matched = a
        /\ cand' = [cand EXCEPT ![o][a].status = "split"]
        /\ IF s.link # NoLink
           THEN /\ link' = [link EXCEPT ![r] = s.link]
                /\ obs' = [obs EXCEPT ![o].matched = s.matched]
                /\ ids' = ids1 /\ seen' = seen1 /\ UNCHANGED assets
           ELSE \E b \in Assets :
                /\ New(assets, Assets, b) /\ assets' = assets \cup {b}
                /\ ids' = [ids1 EXCEPT ![b] =
                      [i \in Identifiers |-> IF i \in obs[o].ids THEN obs[o].at ELSE 0]]
                /\ seen' = [seen1 EXCEPT ![b] = obs[o].at]
                /\ obs' = [obs EXCEPT ![o].matched = b]
                /\ link' = [link EXCEPT ![r] = [asset |-> b, ids |-> obs[o].ids, last |-> obs[o].at]]
        /\ touch /\ UNCHANGED <<rejecting, scans, before, crossed>>

(* _ingest_host: by address, then by MAC; a host that shows neither a      *)
(* service nor a MAC is no new asset.                                      *)
ingest_host(i, m) ==
    LET shown == {i, m} \ {None}
        by(x) == {a \in assets : x # None /\ ids[a][x] # 0}
        found == IF by(i) # {} THEN by(i) ELSE by(m)
    IN  /\ scans < MaxScans /\ scans' = scans + 1
        /\ \E a \in Assets :
              /\ IF found # {} THEN a \in found ELSE New(assets, Assets, a)
              /\ assets' = assets \cup {a}
              /\ ids' = [ids EXCEPT ![a] = [x \in Identifiers |-> IF x \in shown THEN Scanned ELSE @[x]]]
              /\ seen' = [seen EXCEPT ![a] = Scanned]
        /\ UNCHANGED <<obs, link, cand, rejecting, before, crossed>> /\ touch

----------------------------------------------------------------------------
Next ==
    \/ \E o \in Observations, r \in Sources, I \in SUBSET Identifiers \ {{}}, t \in 1 .. MaxTime :
          collect(o, [source |-> r, ids |-> I, at |-> t, matched |-> None])
    \/ \E o \in Observations, a \in Assets :
          \/ approve(o, a) \/ split_candidate(o, a)
          \/ \E d \in Rejecters : reject_begin(d, o, a)
    \/ \E d \in Rejecters : reject_candidate(d)
    \/ \E i \in Addresses, m \in Macs \cup {None} : ingest_host(i, m)

Spec == Init /\ [][Next]_vars

Symmetry == Permutations(Sources) \cup Permutations(Macs) \cup Permutations(Rejecters)

----------------------------------------------------------------------------
(* "Every merge is reversible": a split that comes before anything else has*)
(* touched the asset or the source record leaves the asset as it was.      *)
SplitRestores ==
    [][\A c \in Merged \ touched :
          cand'[c[1]][c[2]].status = "split" =>
              LET was == before[c[1]][c[2]] IN
              /\ ids'[c[2]] = was.ids /\ seen'[c[2]] = was.seen
              /\ was.link # NoLink => link'[obs[c[1]].source] = was.link
              /\ was.link = NoLink => link'[obs[c[1]].source].asset # c[2]]_vars
=============================================================================
