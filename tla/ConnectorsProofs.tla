--------------------------- MODULE ConnectorsProofs ---------------------------
(***************************************************************************)
(* The parts of the inventory that MCInventory puts together: a connector, *)
(* the groups and owners of assets, the records that are collected, and    *)
(* the reading of a source.                                                *)
(*                                                                         *)
(* First a connector, for any number of requests, runs and changes.        *)
(* A configuration counts as tested when the row says so, and the row is   *)
(* written by requests that read an earlier one.  What keeps the two       *)
(* together is that a change and a test that overlap know of each other    *)
(* (Met): so a test that ends is of the present configuration or of one    *)
(* whose change it has met (TestRead), and a change that takes the row for *)
(* untested, and therefore leaves that column alone, is right about it     *)
(* unless it has met a test (ReadUntested).                                *)
(***************************************************************************)
EXTENDS MCInventory, FiniteSetTheorems, WellFoundedInduction, TLAPS

Row == [conf : Nat, tested : BOOLEAN, enabled : BOOLEAN]

Request == [does : {"configure", "update", "test", "queue"}, row : Row,
            key : Keys \cup {None}, met : BOOLEAN]

TypeOK ==
    /\ conn \in Row
    /\ req \in [Requests -> Request \cup {NoRequest}]
    /\ exec \in [Runs -> Nat \cup {None}]

Met == \A p \in Does("test"), q \in Does("configure") : req[q].met

TestRead == \A p \in Does("test") : conn.conf = req[p].row.conf \/ conn.conf \in fit

ReadUntested ==
    \A q \in Does("configure") : ~req[q].met /\ ~req[q].row.tested => ~conn.tested

TestedIsFit == conn.tested => conn.conf \in fit

IInv == TypeOK /\ Met /\ TestRead /\ ReadUntested /\ TestedIsFit /\ CollectedIsTested

(* A connector that was just created was never tested.                     *)
LEMMA InitIInv == Init => IInv
<1> SUFFICES ASSUME Init PROVE IInv
  OBVIOUS
<1>1. \A p \in Requests : req[p] = NoRequest
  BY DEF Init
<1>2. Does("test") = {} /\ Does("configure") = {}
  BY <1>1 DEF Does, NoRequest
<1>3. TypeOK
  BY DEF Init, TypeOK, Row
<1> QED BY <1>2, <1>3 DEF IInv, Met, TestRead, ReadUntested, TestedIsFit, CollectedIsTested, Init

(* Of a request under way the kind tells that it has read a row.           *)
LEMMA UnderWay ==
  ASSUME TypeOK, NEW p \in Requests, req[p] # NoRequest
  PROVE  req[p] \in Request
BY DEF TypeOK

(* A request that begins has read the row as it is.                        *)
LEMMA BeginStep ==
  ASSUME IInv, NEW p \in Requests, NEW kind \in {"configure", "update", "test", "queue"},
         NEW k \in Keys \cup {None}, begin(p, kind, k)
  PROVE  IInv'
<1> DEFINE found == IF kind = "test" THEN conn ELSE [conn EXCEPT !.conf = 0]
           mine == [does |-> kind, row |-> found, key |-> k,
                    met |-> kind = "configure" /\ Does("test") # {}]
<1>1. found \in Row /\ found.tested = conn.tested /\ (kind = "test" => found.conf = conn.conf)
  BY DEF IInv, TypeOK, Row
<1> HIDE DEF found
<1>2. mine \in Request
  BY <1>1 DEF Request
<1>3. \A q \in Requests :
        /\ q = p => req'[q] = mine
        /\ q # p => \/ req'[q] = req[q] /\ ~(kind = "test" /\ q \in Does("configure"))
                    \/ /\ kind = "test" /\ q \in Does("configure")
                       /\ req'[q] = [req[q] EXCEPT !.met = TRUE]
  BY DEF begin, found
<1>4. \A q \in Does("configure") : req[q] \in Request
  BY UnderWay DEF IInv, Does, NoRequest
<1>5. \A q \in Does("configure") : /\ [req[q] EXCEPT !.met = TRUE] \in Request
                                   /\ [req[q] EXCEPT !.met = TRUE].does = "configure"
                                   /\ [req[q] EXCEPT !.met = TRUE].met
                                   /\ [req[q] EXCEPT !.met = TRUE].row = req[q].row
  BY <1>4 DEF Request, Does
<1>6. UNCHANGED <<conn, runs, tasks, exec, fit>> /\ p \notin Does("test") /\ p \notin Does("configure")
  BY DEF begin, Does, NoRequest
<1> HIDE DEF mine
<1>7. /\ mine.does = kind /\ mine.row = found
      /\ kind = "configure" => (mine.met <=> Does("test") # {})
  BY Zenon DEF mine
<1>8. req' \in [Requests -> Request \cup {NoRequest}]
  <2>1. ASSUME NEW q \in Requests PROVE req'[q] \in Request \cup {NoRequest}
    <3>1. req[q] \in Request \cup {NoRequest}
      BY DEF IInv, TypeOK
    <3>2. CASE q = p
      BY <1>2, <1>3, <3>2
    <3>3. CASE q # p /\ req'[q] = req[q]
      BY <3>1, <3>3
    <3>4. CASE kind = "test" /\ q \in Does("configure") /\ req'[q] = [req[q] EXCEPT !.met = TRUE]
      BY <1>5, <3>4
    <3> QED BY <1>3, <3>2, <3>3, <3>4
  <2>2. \E f : req' = [q \in Requests |-> f[q]]
    <3> DEFINE f == [q \in Requests |->
          IF q = p THEN mine
          ELSE IF kind = "test" /\ q \in Does("configure") THEN [req[q] EXCEPT !.met = TRUE]
          ELSE req[q]]
    <3>1. req' = [q \in Requests |-> f[q]]
      BY DEF begin, mine, found
    <3> QED BY <3>1
  <2> QED BY <2>1, <2>2
<1>9. TypeOK'
  BY <1>6, <1>8 DEF IInv, TypeOK
<1>10. \A q \in Does("test")' : (q \in Does("test") /\ req'[q] = req[q]) \/ (q = p /\ kind = "test")
  BY <1>3, <1>5, <1>7 DEF Does
<1>11. \A q \in Does("configure")' :
         \/ q \in Does("configure") /\ req'[q] = req[q] /\ kind # "test"
         \/ q \in Does("configure") /\ req'[q].met /\ kind = "test"
         \/ q = p /\ kind = "configure"
  BY <1>3, <1>5, <1>7 DEF Does
<1>12. Met'
  BY <1>3, <1>7, <1>10, <1>11 DEF IInv, Met
<1>13. TestRead'
  BY <1>1, <1>3, <1>6, <1>7, <1>10 DEF IInv, TestRead
<1>14. ReadUntested'
  BY <1>1, <1>3, <1>6, <1>7, <1>11 DEF IInv, ReadUntested
<1> QED BY <1>6, <1>9, <1>12, <1>13, <1>14 DEF IInv, TestedIsFit, CollectedIsTested

(* When a request has ended, those that are left are as they were.         *)
LEMMA EndsRequest ==
  ASSUME IInv, NEW p \in Requests, ends(p)
  PROVE  /\ req' \in [Requests -> Request \cup {NoRequest}]
         /\ \A kind \in {"configure", "test"} :
              Does(kind)' = Does(kind) \ {p} /\ \A q \in Does(kind)' : req'[q] = req[q]
         /\ Met'
<1>1. req' \in [Requests -> Request \cup {NoRequest}]
  BY DEF IInv, TypeOK, ends
<1>2. \A q \in Requests : req'[q] = IF q = p THEN NoRequest ELSE req[q]
  BY DEF IInv, TypeOK, ends
<1>3. \A kind \in {"configure", "test"} :
        Does(kind)' = Does(kind) \ {p} /\ \A q \in Does(kind)' : req'[q] = req[q]
  BY <1>2 DEF Does, NoRequest
<1>4. Met'
  BY <1>3 DEF IInv, Met
<1> QED BY <1>1, <1>3, <1>4

(* A change of the configuration counts its test as none, if it has read   *)
(* that there was one.                                                     *)
LEMMA ConfigureStep ==
  ASSUME IInv, NEW p \in Requests, configure(p)
  PROVE  IInv'
<1> DEFINE row == req[p].row
<1>1. row \in Row /\ req[p].met \in BOOLEAN /\ p \in Does("configure")
  BY UnderWay DEF configure, Does, NoRequest, IInv, Request
<1>2. /\ conn' = [conf |-> conn.conf + 1,
                  tested |-> IF row.tested = FALSE THEN conn.tested ELSE FALSE,
                  enabled |-> IF row.enabled = FALSE THEN conn.enabled ELSE FALSE]
      /\ fit' = IF req[p].met THEN fit \cup {conn.conf + 1} ELSE fit
      /\ exec' = exec /\ ends(p)
  BY DEF configure, Configured, Column
<1> HIDE DEF row
<1>3. conn' \in Row /\ conn'.conf = conn.conf + 1 /\ (conn'.tested => conn.tested /\ ~row.tested)
  <2>1. /\ conn.conf + 1 \in Nat
        /\ (IF row.tested = FALSE THEN conn.tested ELSE FALSE) \in BOOLEAN
        /\ (IF row.enabled = FALSE THEN conn.enabled ELSE FALSE) \in BOOLEAN
    <3>1. conn.conf \in Nat /\ conn.tested \in BOOLEAN /\ conn.enabled \in BOOLEAN
      BY DEF IInv, TypeOK, Row
    <3>2. conn.conf + 1 \in Nat
      BY <3>1
    <3> QED BY Zenon, <3>1, <3>2
  <2>2. /\ conn'.tested = (IF row.tested = FALSE THEN conn.tested ELSE FALSE)
        /\ conn'.conf = conn.conf + 1
    <3> DEFINE c == conn.conf + 1
               t == IF row.tested = FALSE THEN conn.tested ELSE FALSE
               e == IF row.enabled = FALSE THEN conn.enabled ELSE FALSE
    <3>1. conn' = [conf |-> c, tested |-> t, enabled |-> e]
      BY <1>2
    <3> HIDE DEF c, t, e
    <3>2. conn'.tested = t /\ conn'.conf = c
      BY Zenon, <3>1
    <3> QED BY <3>2 DEF c, t
  <2>3. conn' \in Row
    BY Zenon, <1>2, <2>1 DEF Row
  <2>4. row.tested \in BOOLEAN
    BY <1>1 DEF Row
  <2> QED BY <2>2, <2>3, <2>4
<1>4. fit \subseteq fit' /\ (req[p].met => conn'.conf \in fit')
  BY <1>2, <1>3
<1>5. TypeOK'
  BY <1>2, <1>3, EndsRequest DEF IInv, TypeOK
<1>6. TestRead'
  <2> SUFFICES ASSUME NEW q \in Does("test")' PROVE conn'.conf \in fit'
    BY DEF TestRead
  <2>1. q \in Does("test")
    BY <1>2, EndsRequest
  <2> QED BY <1>1, <1>4, <2>1 DEF IInv, Met
<1>7. ReadUntested'
  <2> SUFFICES ASSUME NEW q \in Does("configure")', ~req'[q].met, ~req'[q].row.tested PROVE ~conn'.tested
    BY DEF ReadUntested
  <2>1. q \in Does("configure") /\ req'[q] = req[q]
    BY <1>2, EndsRequest
  <2> QED BY <1>3, <2>1 DEF IInv, ReadUntested
<1>8. TestedIsFit'
  BY <1>1, <1>3, <1>4 DEF IInv, ReadUntested, TestedIsFit, row
<1>9. CollectedIsTested'
  BY <1>2, <1>4 DEF IInv, CollectedIsTested
<1> QED BY <1>2, <1>5, <1>6, <1>7, <1>8, <1>9, EndsRequest DEF IInv

(* A test that ends is of the present configuration, or of one whose       *)
(* change it has met.                                                      *)
LEMMA TestStep ==
  ASSUME IInv, NEW p \in Requests, NEW good \in BOOLEAN, test_connector(p, good)
  PROVE  IInv'
<1> DEFINE row == req[p].row
<1>1. row \in Row /\ p \in Does("test")
  BY UnderWay DEF test_connector, Does, NoRequest, IInv, Request
<1>2. /\ conn' = IF good THEN [conn EXCEPT !.tested = TRUE]
                 ELSE [conn EXCEPT !.tested = IF row.tested = FALSE THEN @ ELSE FALSE,
                                   !.enabled = IF row.enabled = FALSE THEN @ ELSE FALSE]
      /\ fit' = IF good THEN fit \cup {row.conf} ELSE fit
      /\ exec' = exec /\ ends(p)
  BY DEF test_connector, Column
<1> HIDE DEF row
<1>3. conn' \in Row /\ conn'.conf = conn.conf /\ (~good /\ conn'.tested => conn.tested)
  BY <1>1, <1>2 DEF IInv, TypeOK, Row
<1>4. fit \subseteq fit' /\ (good => row.conf \in fit')
  BY <1>2
<1>5. TypeOK'
  BY <1>2, <1>3, EndsRequest DEF IInv, TypeOK
<1>6. TestRead'
  <2> SUFFICES ASSUME NEW q \in Does("test")' PROVE conn'.conf = req'[q].row.conf \/ conn'.conf \in fit'
    BY DEF TestRead
  <2>1. q \in Does("test") /\ req'[q] = req[q]
    BY <1>2, EndsRequest
  <2> QED BY <1>3, <1>4, <2>1 DEF IInv, TestRead
<1>7. ReadUntested'
  <2> SUFFICES ASSUME NEW q \in Does("configure")', ~req'[q].met, ~req'[q].row.tested PROVE ~conn'.tested
    BY DEF ReadUntested
  <2>1. q \in Does("configure") /\ req'[q] = req[q]
    BY <1>2, EndsRequest
  <2>2. req[q].met
    BY <1>1, <2>1 DEF IInv, Met
  <2> QED BY <2>1, <2>2
<1>8. TestedIsFit'
  BY <1>1, <1>3, <1>4 DEF IInv, TestRead, TestedIsFit, row
<1>9. CollectedIsTested'
  BY <1>2, <1>4 DEF IInv, CollectedIsTested
<1> QED BY <1>2, <1>5, <1>6, <1>7, <1>8, <1>9, EndsRequest DEF IInv

(* Whatever leaves the configuration, its test and what is fit alone.      *)
LEMMA OtherStep ==
  ASSUME IInv, conn' \in Row, conn'.conf = conn.conf, conn'.tested = conn.tested, fit' = fit,
         req' = req \/ (\E p \in Requests : ends(p)), exec' \in [Runs -> Nat \cup {None}],
         \A r \in Runs : exec'[r] \in {exec[r], None} \/ (conn.tested /\ exec'[r] = conn.conf)
  PROVE  IInv'
<1>1. /\ req' \in [Requests -> Request \cup {NoRequest}]
      /\ \A kind \in {"configure", "test"} :
           Does(kind)' \subseteq Does(kind) /\ \A q \in Does(kind)' : req'[q] = req[q]
      /\ Met'
  <2>1. CASE req' = req
    BY <2>1 DEF IInv, TypeOK, Met, Does
  <2>2. CASE \E p \in Requests : ends(p)
    BY <2>2, EndsRequest
  <2> QED BY <2>1, <2>2
<1>2. TypeOK'
  BY <1>1 DEF TypeOK
<1>3. TestRead' /\ ReadUntested'
  BY <1>1 DEF IInv, TestRead, ReadUntested
<1>4. TestedIsFit' /\ CollectedIsTested'
  BY DEF IInv, TestedIsFit, CollectedIsTested
<1> QED BY <1>1, <1>2, <1>3, <1>4 DEF IInv

(* Every step keeps the invariant: one case per action.                    *)
LEMMA NextIInv == IInv /\ [Next]_vars => IInv'
<1> SUFFICES ASSUME IInv, [Next]_vars PROVE IInv'
  OBVIOUS
<1>0. /\ conn \in Row /\ exec \in [Runs -> Nat \cup {None}]
      /\ conn.conf \in Nat
  BY DEF IInv, TypeOK, Row
<1>1. ASSUME NEW p \in Requests, NEW kind \in {"configure", "update", "test"}, begin(p, kind, None) PROVE IInv'
  BY <1>1, BeginStep
<1>2. ASSUME NEW p \in Requests, NEW k \in Keys, begin(p, "queue", k) PROVE IInv'
  BY <1>2, BeginStep
<1>3. ASSUME NEW p \in Requests, configure(p) PROVE IInv'
  BY <1>3, ConfigureStep
<1>4. ASSUME NEW p \in Requests, fails(p) PROVE IInv'
  BY <1>0, <1>4, OtherStep DEF fails
<1>5. ASSUME NEW p \in Requests, queue_connector_run(p) PROVE IInv'
  BY <1>0, <1>5, OtherStep DEF queue_connector_run
<1>6. ASSUME NEW p \in Requests, NEW on \in BOOLEAN, set_enabled(p, on) PROVE IInv'
  <2>1. req[p].row \in Row
    BY <1>6, UnderWay DEF set_enabled, Does, NoRequest, IInv, Request
  <2>2. conn' = [conn EXCEPT !.enabled = IF req[p].row.enabled = on THEN conn.enabled ELSE on]
    BY <1>6 DEF set_enabled, Column
  <2>3. conn' \in Row /\ conn'.conf = conn.conf /\ conn'.tested = conn.tested
    BY <1>0, <2>2 DEF Row
  <2> QED BY <1>0, <1>6, <2>3, OtherStep DEF set_enabled
<1>7. ASSUME NEW p \in Requests, NEW good \in BOOLEAN, test_connector(p, good) PROVE IInv'
  BY <1>7, TestStep
<1>8. ASSUME NEW t \in Slots, schedule_due_connectors(t) PROVE IInv'
  BY <1>0, <1>8, OtherStep DEF schedule_due_connectors
<1>9. ASSUME NEW r \in Runs, execute_begin(r) PROVE IInv'
  <2>1. /\ exec' = [exec EXCEPT ![r] = conn.conf]
        /\ conn.tested /\ UNCHANGED <<conn, req, fit>>
    BY <1>9 DEF execute_begin
  <2>2. /\ exec' \in [Runs -> Nat \cup {None}]
        /\ \A s \in Runs : exec'[s] = exec[s] \/ exec'[s] = conn.conf
    BY <1>0, <2>1
  <2> QED BY <1>0, <2>1, <2>2, OtherStep
<1>10. ASSUME NEW r \in Runs, execute_fails(r) \/ execute_connector_task(r) PROVE IInv'
  <2>1. exec' = [exec EXCEPT ![r] = None] /\ UNCHANGED <<conn, req, fit>>
    BY <1>10 DEF execute_fails, execute_connector_task
  <2>2. /\ exec' \in [Runs -> Nat \cup {None}]
        /\ \A s \in Runs : exec'[s] \in {exec[s], None}
    BY <1>0, <2>1
  <2> QED BY <1>0, <2>1, <2>2, OtherStep
<1>11. CASE UNCHANGED vars
  BY <1>0, <1>11, OtherStep DEF vars
<1> QED BY <1>1, <1>2, <1>3, <1>4, <1>5, <1>6, <1>7, <1>8, <1>9, <1>10, <1>11 DEF Next

(* The inductive invariant holds in every state of every run.              *)
THEOREM Invariance == Spec => []IInv
BY InitIInv, NextIInv, PTL DEF Spec

(* Row, requests and runs stay well formed.                                *)
THEOREM ConnectorsTypeCorrect == Spec => []TypeOK
<1>1. IInv => TypeOK
  BY DEF IInv
<1> QED BY <1>1, Invariance, PTL

(***************************************************************************)
(* A source is collected from only by a configuration that a test found    *)
(* good, or whose change has overlapped a test, however many changes, tests*)
(* and runs are under way.                                                 *)
(***************************************************************************)
THEOREM ConnectorsCollectedIsTested == Spec => []CollectedIsTested
<1>1. IInv => CollectedIsTested
  BY DEF IInv
<1> QED BY <1>1, Invariance, PTL
----------------------------------------------------------------------------
(***************************************************************************)
(* Groups and owners, for any number of assets, groups, sites and          *)
(* priorities.                                                             *)
(*                                                                         *)
(* The members of a dynamic group are those that its rule asks for, except *)
(* of assets whose last writer refreshed nothing (MembersMatch); the       *)
(* newest snapshot of an asset names the owner that it resolves to, unless *)
(* a tie leaves that open (OwnerRecorded). A request keeps both, because   *)
(* it derives anew what it gives another source, within one transaction.   *)
(***************************************************************************)

AssetRow(r) == r = [exists |-> r.exists, tag |-> r.tag, field |-> r.field, owned |-> r.owned]

GroupRow(r) ==
    /\ r = [exists |-> r.exists, dynamic |-> r.dynamic, site |-> r.site, enabled |-> r.enabled,
            owned |-> r.owned, priority |-> r.priority, rule |-> r.rule]
    /\ r.rule \in {"tag", "field"} /\ (r.enabled => r.exists)

Rows(d) ==
    /\ d = [asset |-> d.asset, group |-> d.group, members |-> d.members,
            fallback |-> d.fallback, last |-> d.last]
    /\ d.asset = [a \in Grouped |-> d.asset[a]] /\ \A a \in Grouped : AssetRow(d.asset[a])
    /\ d.group = [g \in Groups |-> d.group[g]] /\ \A g \in Groups : GroupRow(d.group[g])
    /\ d.last = [a \in Grouped |-> d.last[a]]

MembersMatch(d, stale) ==
    \A g \in X!Dynamic(d), a \in Grouped \ stale : <<g, a>> \in d.members <=> X!Matches(d, g, a)

OwnerRecorded(d, a) ==
    /\ ~d.asset[a].exists => d.last[a] = None
    /\ d.last[a] # None /\ ~X!Tied(d, a) => d.last[a] = X!resolve_ownership(d, a)

ContextInv ==
    /\ Rows(db)
    /\ MembersMatch(db, unrefreshed)
    /\ \A a \in Grouped : OwnerRecorded(db, a)

(* Nothing there, nothing derived.                                         *)
LEMMA InitContext == X!Init => ContextInv
<1> SUFFICES ASSUME X!Init PROVE ContextInv
  OBVIOUS
<1>1. Rows(db)
  BY DEF X!Init, Rows, AssetRow, GroupRow, X!NoAsset, X!NoGroup
<1>2. X!Dynamic(db) = {}
  BY DEF X!Init, X!Dynamic, X!NoGroup
<1>3. \A a \in Grouped : db.last[a] = None
  BY DEF X!Init
<1> QED BY <1>1, <1>2, <1>3 DEF ContextInv, MembersMatch, OwnerRecorded

(* What the owner of an asset is resolved from.                            *)
SameOwner(d, e, a) ==
    /\ e.asset[a].owned = d.asset[a].owned /\ e.fallback = d.fallback
    /\ X!Owning(e, a) = X!Owning(d, a)
    /\ \A g \in X!Owning(d, a) : e.group[g].priority = d.group[g].priority

(* Such an asset has the same owner, and a tie where it had one.           *)
LEMMA SameSource ==
  ASSUME NEW d, NEW e, NEW a, SameOwner(d, e, a)
  PROVE  X!resolve_ownership(e, a) = X!resolve_ownership(d, a) /\ (X!Tied(e, a) <=> X!Tied(d, a))
<1>1. X!Highest(e, a) = X!Highest(d, a)
  BY DEF SameOwner, X!Highest
<1> QED BY <1>1 DEF SameOwner, X!resolve_ownership, X!Tied

(* Memberships derived anew.                                               *)
Rederived(d, pairs, e) ==
    /\ Rows(e) /\ e.asset = d.asset /\ e.group = d.group /\ e.fallback = d.fallback /\ e.last = d.last
    /\ \A g, a : <<g, a>> \in e.members <=>
          IF <<g, a>> \in pairs THEN X!Matches(d, g, a) ELSE <<g, a>> \in d.members

(* X!Evaluated derives the pairs that it is given anew, and no others.     *)
LEMMA EvaluatedRows ==
  ASSUME NEW d, Rows(d), NEW pairs, NEW e, e = X!Evaluated(d, pairs)
  PROVE  Rederived(d, pairs, e)
<1>1. e = [asset |-> d.asset, group |-> d.group, fallback |-> d.fallback, last |-> d.last,
           members |-> (d.members \ pairs) \cup {p \in pairs : X!Matches(d, p[1], p[2])}]
  BY DEF Rows, X!Evaluated
<1>2. Rows(e)
  BY <1>1 DEF Rows
<1> QED BY <1>1, <1>2 DEF Rederived

(* Assets and groups decide which pairs match.                             *)
LEMMA SameRules ==
  ASSUME NEW d, NEW e, e.asset = d.asset, e.group = d.group
  PROVE  X!Dynamic(e) = X!Dynamic(d) /\ \A g, a : X!Matches(e, g, a) <=> X!Matches(d, g, a)
BY DEF X!Dynamic, X!Matches, X!InScope

(* A request that leaves the source of an asset as it was, or resolves it. *)
Untouched(d, a) ==
    d.asset[a].exists = db.asset[a].exists /\ d.last[a] = db.last[a] /\ SameOwner(db, d, a)

(* A request refreshes the assets that it changes: what it records is the  *)
(* owner that they have now, and elsewhere neither members nor owners have *)
(* another source.                                                         *)
LEMMA RequestStep ==
  ASSUME ContextInv, NEW d, NEW as, NEW refreshed, X!Request(d, as, refreshed), Rows(d),
         MembersMatch(d, unrefreshed \ refreshed),
         \A a \in Grouped : \/ a \in as /\ d.asset[a].exists
                            \/ d.last[a] = None
                            \/ Untouched(d, a)
  PROVE  ContextInv'
<1>1. PICK e : e = X!record_ownership_snapshot(d, as)
  OBVIOUS
<1>2. db' = e /\ unrefreshed' = unrefreshed \ refreshed
  BY <1>1 DEF X!Request
<1>3. e = [asset |-> d.asset, group |-> d.group, members |-> d.members, fallback |-> d.fallback,
           last |-> [a \in Grouped |-> IF a \in as /\ d.asset[a].exists
                                       THEN X!resolve_ownership(d, a) ELSE d.last[a]]]
  BY <1>1 DEF Rows, X!record_ownership_snapshot
<1>4. Rows(e)
  BY <1>3 DEF Rows
<1>5. MembersMatch(e, unrefreshed \ refreshed)
  <2>1. e.asset = d.asset /\ e.group = d.group /\ e.members = d.members
    BY <1>3
  <2> QED BY <2>1, SameRules DEF MembersMatch
<1>6. ASSUME NEW a \in Grouped PROVE OwnerRecorded(e, a)
  <2>1. e.asset = d.asset /\ e.group = d.group /\ e.members = d.members /\ e.fallback = d.fallback
    BY <1>3
  <2>2. X!Owning(e, a) = X!Owning(d, a)
    BY <2>1 DEF X!Owning
  <2>3. X!resolve_ownership(e, a) = X!resolve_ownership(d, a) /\ (X!Tied(e, a) <=> X!Tied(d, a))
    BY <2>1, <2>2, SameSource DEF SameOwner
  <2>4. e.last[a] = IF a \in as /\ d.asset[a].exists THEN X!resolve_ownership(d, a) ELSE d.last[a]
    BY <1>3, <1>6
  <2>5. CASE a \in as /\ d.asset[a].exists
    BY <2>1, <2>3, <2>4, <2>5 DEF OwnerRecorded
  <2>6. CASE d.last[a] = None /\ ~(a \in as /\ d.asset[a].exists)
    BY <2>4, <2>6 DEF OwnerRecorded
  <2>7. CASE Untouched(d, a) /\ ~(a \in as /\ d.asset[a].exists)
    <3>1. X!resolve_ownership(d, a) = X!resolve_ownership(db, a) /\ (X!Tied(d, a) <=> X!Tied(db, a))
      BY <2>7, SameSource DEF Untouched
    <3>2. d.asset[a].exists = db.asset[a].exists /\ e.last[a] = db.last[a]
      BY <2>4, <2>7 DEF Untouched
    <3>3. OwnerRecorded(db, a)
      BY <1>6 DEF ContextInv
    <3> QED BY <2>1, <2>3, <3>1, <3>2, <3>3 DEF OwnerRecorded
  <2> QED BY <1>6, <2>5, <2>6, <2>7
<1>7. Rows(e) /\ MembersMatch(e, unrefreshed') /\ \A a \in Grouped : OwnerRecorded(e, a)
  BY <1>2, <1>4, <1>5, <1>6
<1>8. ContextInv'
  BY <1>2, <1>7 DEF ContextInv
<1> QED BY <1>8

(* Facts of an asset have changed, and its groups are refreshed.           *)
LEMMA ReassessStep ==
  ASSUME ContextInv, NEW a \in Grouped, NEW row, AssetRow(row), row.exists, X!Reassess(a, row)
  PROVE  ContextInv'
<1>1. PICK c : c = [db EXCEPT !.asset[a] = row]
  OBVIOUS
<1>2. PICK d : d = X!Evaluated(c, X!Dynamic(c) \X {a})
  OBVIOUS
<1>3. X!Request(d, {a}, {a})
  BY <1>1, <1>2 DEF X!Reassess, X!refresh_dynamic_memberships_for_asset
<1>4. Rows(db) /\ MembersMatch(db, unrefreshed)
  BY DEF ContextInv
<1>5. /\ c = [asset |-> c.asset, group |-> db.group, members |-> db.members,
              fallback |-> db.fallback, last |-> db.last]
      /\ c.asset = [b \in Grouped |-> IF b = a THEN row ELSE db.asset[b]]
  BY <1>1, <1>4 DEF Rows
<1>6. Rows(c)
  BY <1>4, <1>5 DEF Rows
<1>7. Rederived(c, X!Dynamic(c) \X {a}, d)
  BY <1>2, <1>6, EvaluatedRows
<1>8. X!Dynamic(c) = X!Dynamic(db)
  BY <1>5 DEF X!Dynamic
<1>9. \A g \in Groups, b \in Grouped \ {a} : X!Matches(c, g, b) <=> X!Matches(db, g, b)
  BY <1>5 DEF X!Matches, X!InScope
<1>10. /\ Rows(d) /\ d.asset = c.asset /\ d.group = db.group /\ d.fallback = db.fallback /\ d.last = db.last
       /\ \A g, b : <<g, b>> \in d.members <=>
             IF g \in X!Dynamic(db) /\ b = a THEN X!Matches(c, g, b) ELSE <<g, b>> \in db.members
  BY <1>5, <1>7, <1>8 DEF Rederived
<1>11. X!Dynamic(d) = X!Dynamic(db) /\ \A g, b : X!Matches(d, g, b) <=> X!Matches(c, g, b)
  BY <1>5, <1>8, <1>10, SameRules
<1>12. MembersMatch(d, unrefreshed \ {a})
  <2> SUFFICES ASSUME NEW g \in X!Dynamic(db), NEW b \in Grouped \ (unrefreshed \ {a})
               PROVE  <<g, b>> \in d.members <=> X!Matches(c, g, b)
    BY <1>11 DEF MembersMatch
  <2>1. CASE b = a
    BY <1>10, <2>1
  <2>2. CASE b # a
    <3>1. <<g, b>> \in db.members <=> X!Matches(db, g, b)
      BY <1>4, <2>2 DEF MembersMatch
    <3>2. g \in Groups
      BY DEF X!Dynamic
    <3> QED BY <1>9, <1>10, <2>2, <3>1, <3>2
  <2> QED BY <2>1, <2>2
<1>13. \A b \in Grouped \ {a} : Untouched(d, b)
  BY <1>5, <1>10 DEF Untouched, SameOwner, X!Owning
<1>14. d.asset[a].exists
  BY <1>5, <1>10
<1> QED BY <1>3, <1>10, <1>12, <1>13, <1>14, RequestStep

(* A group has changed, and its members are derived anew where its rule    *)
(* asks for others.                                                        *)
Regrouped(g, row, e) ==
    \E d : /\ d = [db EXCEPT !.group[g] = row]
           /\ \/ e = X!Evaluated(d, {g} \X Grouped)
              \/ /\ e = d
                 /\ row.exists /\ row.dynamic =>
                       /\ db.group[g].exists /\ db.group[g].dynamic
                       /\ row.site = db.group[g].site /\ row.rule = db.group[g].rule
                       /\ row.enabled = db.group[g].enabled

(* A group is given another row, and the owners of its members are         *)
(* recorded.                                                               *)
LEMMA GroupStep ==
  ASSUME ContextInv, NEW g \in Groups, NEW row, GroupRow(row), NEW e, Regrouped(g, row, e),
         NEW as, X!Request(e, as, {}),
         \A a \in Grouped \ as : <<g, a>> \notin e.members /\ (<<g, a>> \in db.members => ~db.group[g].enabled)
  PROVE  ContextInv'
<1>1. PICK d : /\ d = [db EXCEPT !.group[g] = row]
               /\ \/ e = X!Evaluated(d, {g} \X Grouped)
                  \/ /\ e = d
                     /\ row.exists /\ row.dynamic =>
                           /\ db.group[g].exists /\ db.group[g].dynamic
                           /\ row.site = db.group[g].site /\ row.rule = db.group[g].rule
                           /\ row.enabled = db.group[g].enabled
  BY DEF Regrouped
<1>2. Rows(db) /\ MembersMatch(db, unrefreshed)
  BY DEF ContextInv
<1>3. /\ d = [asset |-> db.asset, group |-> d.group, members |-> db.members,
              fallback |-> db.fallback, last |-> db.last]
      /\ d.group = [h \in Groups |-> IF h = g THEN row ELSE db.group[h]]
  BY <1>1, <1>2 DEF Rows
<1>4. Rows(d)
  BY <1>2, <1>3 DEF Rows
<1>5. /\ Rows(e) /\ e.asset = db.asset /\ e.group = d.group /\ e.fallback = db.fallback /\ e.last = db.last
      /\ \A h, a : h # g => (<<h, a>> \in e.members <=> <<h, a>> \in db.members)
  <2>1. CASE e = d
    BY <1>3, <1>4, <2>1
  <2>2. CASE e = X!Evaluated(d, {g} \X Grouped)
    <3>1. Rederived(d, {g} \X Grouped, e)
      BY <1>4, <2>2, EvaluatedRows
    <3> QED BY <1>3, <3>1 DEF Rederived
  <2> QED BY <1>1, <2>1, <2>2
<1>6. /\ \A h \in Groups \ {g} : h \in X!Dynamic(e) <=> h \in X!Dynamic(db)
      /\ \A h \in Groups \ {g} : \A a : X!Matches(e, h, a) <=> X!Matches(db, h, a)
      /\ \A a : X!Matches(e, g, a) <=> X!Matches(d, g, a)
  BY <1>3, <1>5 DEF X!Dynamic, X!Matches, X!InScope
<1>7. ASSUME g \in X!Dynamic(e), NEW a \in Grouped \ unrefreshed
      PROVE  <<g, a>> \in e.members <=> X!Matches(e, g, a)
  <2>1. CASE e = X!Evaluated(d, {g} \X Grouped)
    <3>1. Rederived(d, {g} \X Grouped, e)
      BY <1>4, <2>1, EvaluatedRows
    <3> QED BY <1>6, <3>1 DEF Rederived
  <2>2. CASE e = d /\ (row.exists /\ row.dynamic =>
                         /\ db.group[g].exists /\ db.group[g].dynamic
                         /\ row.site = db.group[g].site /\ row.rule = db.group[g].rule
                         /\ row.enabled = db.group[g].enabled)
    <3>1. row.exists /\ row.dynamic
      BY <1>3, <1>5, <1>7 DEF X!Dynamic
    <3>2. g \in X!Dynamic(db)
      BY <2>2, <3>1 DEF X!Dynamic
    <3>3. X!Matches(e, g, a) <=> X!Matches(db, g, a)
      BY <1>3, <1>5, <2>2, <3>1 DEF X!Matches, X!InScope
    <3>4. <<g, a>> \in db.members <=> X!Matches(db, g, a)
      BY <1>2, <3>2 DEF MembersMatch
    <3> QED BY <1>3, <2>2, <3>3, <3>4
  <2> QED BY <1>1, <2>1, <2>2
<1>8. MembersMatch(e, unrefreshed \ {})
  <2> SUFFICES ASSUME NEW h \in X!Dynamic(e), NEW a \in Grouped \ unrefreshed
               PROVE  <<h, a>> \in e.members <=> X!Matches(e, h, a)
    BY DEF MembersMatch
  <2>1. h \in Groups
    BY DEF X!Dynamic
  <2>2. CASE h # g
    <3>1. h \in X!Dynamic(db) /\ (X!Matches(e, h, a) <=> X!Matches(db, h, a))
      BY <1>6, <2>1, <2>2
    <3>2. <<h, a>> \in db.members <=> X!Matches(db, h, a)
      BY <1>2, <3>1 DEF MembersMatch
    <3>3. <<h, a>> \in e.members <=> <<h, a>> \in db.members
      BY <1>5, <2>1, <2>2
    <3> QED BY <3>1, <3>2, <3>3
  <2> QED BY <1>7, <2>2
<1>9. ASSUME NEW a \in Grouped \ as PROVE Untouched(e, a)
  <2>1. g \notin X!Owning(e, a) /\ g \notin X!Owning(db, a)
    BY <1>9 DEF X!Owning
  <2>2. \A h \in Groups \ {g} : e.group[h] = db.group[h]
    BY <1>3, <1>5
  <2>3. \A h \in Groups \ {g} : h \in X!Owning(e, a) <=> h \in X!Owning(db, a)
    BY <1>5, <2>2 DEF X!Owning
  <2>4. X!Owning(e, a) = X!Owning(db, a)
    BY <2>1, <2>3 DEF X!Owning
  <2>5. \A h \in X!Owning(db, a) : h \in Groups \ {g}
    BY <2>1 DEF X!Owning
  <2>6. SameOwner(db, e, a)
    BY <1>5, <2>2, <2>4, <2>5 DEF SameOwner
  <2> QED BY <1>5, <2>6 DEF Untouched
<1>10. ASSUME NEW a \in Grouped, ~e.asset[a].exists PROVE e.last[a] = None
  BY <1>5, <1>10 DEF ContextInv, OwnerRecorded
<1> QED BY <1>5, <1>8, <1>9, <1>10, RequestStep

(* The owner of the site or of the department.                             *)
LEMMA FallbackStep ==
  ASSUME ContextInv, NEW f, X!Request([db EXCEPT !.fallback = f], Grouped, {})
  PROVE  ContextInv'
<1>1. PICK d : d = [db EXCEPT !.fallback = f]
  OBVIOUS
<1>2. Rows(db) /\ MembersMatch(db, unrefreshed) /\ X!Request(d, Grouped, {})
  BY <1>1 DEF ContextInv
<1>3. d = [asset |-> db.asset, group |-> db.group, members |-> db.members, fallback |-> f, last |-> db.last]
  BY <1>1, <1>2 DEF Rows
<1>4. Rows(d)
  BY <1>2, <1>3 DEF Rows
<1>5. MembersMatch(d, unrefreshed \ {})
  BY <1>2, <1>3, SameRules DEF MembersMatch
<1>6. \A a \in Grouped : d.asset[a].exists \/ d.last[a] = None
  BY <1>3 DEF ContextInv, OwnerRecorded
<1> QED BY <1>2, <1>4, <1>5, <1>6, RequestStep

(* Members of a static group are what requests make them.                  *)
LEMMA StaticStep ==
  ASSUME ContextInv, NEW g \in Groups, ~db.group[g].dynamic, NEW a \in Grouped, NEW ms,
         \A h, b : <<h, b>> # <<g, a>> => (<<h, b>> \in ms <=> <<h, b>> \in db.members),
         db.asset[a].exists \/ db.last[a] = None,
         X!Request([db EXCEPT !.members = ms], {a}, {})
  PROVE  ContextInv'
<1>1. PICK d : d = [db EXCEPT !.members = ms]
  OBVIOUS
<1>2. Rows(db) /\ MembersMatch(db, unrefreshed) /\ X!Request(d, {a}, {})
  BY <1>1 DEF ContextInv
<1>3. d = [asset |-> db.asset, group |-> db.group, members |-> ms, fallback |-> db.fallback, last |-> db.last]
  BY <1>1, <1>2 DEF Rows
<1>4. Rows(d)
  BY <1>2, <1>3 DEF Rows
<1>5. MembersMatch(d, unrefreshed \ {})
  <2>1. X!Dynamic(d) = X!Dynamic(db) /\ g \notin X!Dynamic(db) /\ \A h, b : X!Matches(d, h, b) <=> X!Matches(db, h, b)
    BY <1>3, SameRules DEF X!Dynamic
  <2> QED BY <1>2, <1>3, <2>1 DEF MembersMatch
<1>6. \A b \in Grouped \ {a} : Untouched(d, b)
  BY <1>3 DEF Untouched, SameOwner, X!Owning
<1>7. d.asset[a].exists \/ d.last[a] = None
  BY <1>3
<1> QED BY <1>2, <1>4, <1>5, <1>6, <1>7, RequestStep

(* A group goes with its members.                                          *)
LEMMA DeleteGroupStep ==
  ASSUME ContextInv, NEW g \in Groups, X!delete_group(g)
  PROVE  ContextInv'
<1>1. PICK d : d = [db EXCEPT !.group[g] = X!NoGroup, !.members = {p \in @ : p[1] # g}]
  OBVIOUS
<1>2. Rows(db) /\ MembersMatch(db, unrefreshed) /\ X!Request(d, X!Members(db, g), {})
  BY <1>1 DEF ContextInv, X!delete_group
<1>3. /\ d = [asset |-> db.asset, group |-> d.group, members |-> {p \in db.members : p[1] # g},
              fallback |-> db.fallback, last |-> db.last]
      /\ d.group = [h \in Groups |-> IF h = g THEN X!NoGroup ELSE db.group[h]]
  BY <1>1, <1>2 DEF Rows
<1>4. \A h, a : <<h, a>> \in d.members <=> h # g /\ <<h, a>> \in db.members
  BY <1>3
<1>5. Rows(d)
  <2>1. GroupRow(X!NoGroup)
    BY DEF GroupRow, X!NoGroup
  <2> QED BY <1>2, <1>3, <2>1 DEF Rows
<1>6. g \notin X!Dynamic(d) /\ X!Dynamic(d) \subseteq X!Dynamic(db)
  BY <1>3 DEF X!Dynamic, X!NoGroup
<1>7. \A h \in Groups \ {g} : \A a : X!Matches(d, h, a) <=> X!Matches(db, h, a)
  BY <1>3 DEF X!Matches, X!InScope
<1>8. MembersMatch(d, unrefreshed \ {})
  BY <1>2, <1>4, <1>6, <1>7 DEF MembersMatch, X!Dynamic
<1>9. ASSUME NEW a \in Grouped \ X!Members(db, g) PROVE Untouched(d, a)
  <2>1. <<g, a>> \notin db.members
    BY <1>9 DEF X!Members
  <2>2. X!Owning(d, a) = X!Owning(db, a) /\ g \notin X!Owning(db, a)
    BY <1>3, <1>4, <2>1 DEF X!Owning
  <2> QED BY <1>3, <2>2 DEF Untouched, SameOwner, X!Owning
<1>10. \A a \in Grouped : d.asset[a].exists \/ d.last[a] = None
  BY <1>3 DEF ContextInv, OwnerRecorded
<1> QED BY <1>2, <1>5, <1>8, <1>9, <1>10, RequestStep

(* An asset goes from its groups and leaves no snapshot.                   *)
LEMMA DeleteAssetStep ==
  ASSUME ContextInv, NEW a \in Grouped, X!delete_asset(a)
  PROVE  ContextInv'
<1>1. PICK d : d = [db EXCEPT !.asset[a] = X!NoAsset, !.members = {p \in @ : p[2] # a}, !.last[a] = None]
  OBVIOUS
<1>2. Rows(db) /\ MembersMatch(db, unrefreshed) /\ X!Request(d, {}, {a})
  BY <1>1 DEF ContextInv, X!delete_asset
<1>3. /\ d = [asset |-> d.asset, group |-> db.group, members |-> {p \in db.members : p[2] # a},
              fallback |-> db.fallback, last |-> d.last]
      /\ d.asset = [b \in Grouped |-> IF b = a THEN X!NoAsset ELSE db.asset[b]]
      /\ d.last = [b \in Grouped |-> IF b = a THEN None ELSE db.last[b]]
  BY <1>1, <1>2 DEF Rows
<1>4. \A h, b : <<h, b>> \in d.members <=> b # a /\ <<h, b>> \in db.members
  BY <1>3
<1>5. Rows(d)
  <2>1. AssetRow(X!NoAsset)
    BY DEF AssetRow, X!NoAsset
  <2> QED BY <1>2, <1>3, <2>1 DEF Rows
<1>6. /\ X!Dynamic(d) = X!Dynamic(db)
      /\ \A h, b : b # a /\ b \in Grouped => (X!Matches(d, h, b) <=> X!Matches(db, h, b))
      /\ \A h : ~X!Matches(d, h, a)
  BY <1>3 DEF X!Dynamic, X!Matches, X!InScope, X!NoAsset
<1>7. MembersMatch(d, unrefreshed \ {a})
  <2> SUFFICES ASSUME NEW h \in X!Dynamic(db), NEW b \in Grouped, b \notin unrefreshed \ {a}
               PROVE  <<h, b>> \in d.members <=> X!Matches(d, h, b)
    BY <1>6 DEF MembersMatch
  <2>1. CASE b = a
    BY <1>4, <1>6, <2>1
  <2>2. CASE b # a
    BY <1>2, <1>4, <1>6, <2>2 DEF MembersMatch
  <2> QED BY <2>1, <2>2
<1>8. \A b \in Grouped \ {a} : Untouched(d, b)
  BY <1>3, <1>4 DEF Untouched, SameOwner, X!Owning
<1>9. d.last[a] = None
  BY <1>3
<1> QED BY <1>2, <1>5, <1>7, <1>8, <1>9, RequestStep

(* A tag goes from all assets.                                             *)
LEMMA DeleteTagStep ==
  ASSUME ContextInv, X!delete_tag
  PROVE  ContextInv'
<1>1. PICK as : as = {a \in Grouped : db.asset[a].tag}
  OBVIOUS
<1>2. PICK c : c = [db EXCEPT !.asset = [a \in Grouped |-> [@[a] EXCEPT !.tag = FALSE]]]
  OBVIOUS
<1>3. PICK d : d = X!Evaluated(c, X!Dynamic(c) \X as)
  OBVIOUS
<1>4. Rows(db) /\ MembersMatch(db, unrefreshed) /\ X!Request(d, as, as)
  BY <1>1, <1>2, <1>3 DEF ContextInv, X!delete_tag
<1>5. /\ c = [asset |-> c.asset, group |-> db.group, members |-> db.members,
              fallback |-> db.fallback, last |-> db.last]
      /\ c.asset = [a \in Grouped |-> [db.asset[a] EXCEPT !.tag = FALSE]]
  BY <1>2, <1>4 DEF Rows
<1>6. ASSUME NEW a \in Grouped
      PROVE  /\ AssetRow(c.asset[a]) /\ ~c.asset[a].tag
             /\ c.asset[a].exists = db.asset[a].exists /\ c.asset[a].field = db.asset[a].field
             /\ c.asset[a].owned = db.asset[a].owned
  <2>1. AssetRow(db.asset[a])
    BY <1>4, <1>6 DEF Rows
  <2>2. c.asset[a] = [db.asset[a] EXCEPT !.tag = FALSE]
    BY <1>5, <1>6
  <2>3. c.asset[a] = [exists |-> db.asset[a].exists, tag |-> FALSE,
                      field |-> db.asset[a].field, owned |-> db.asset[a].owned]
    BY <2>1, <2>2 DEF AssetRow
  <2> QED BY <2>3 DEF AssetRow
<1>7. Rows(c)
  <2>1. c.asset = [a \in Grouped |-> c.asset[a]]
    BY <1>5
  <2>2. /\ c = [asset |-> c.asset, group |-> c.group, members |-> c.members,
                fallback |-> c.fallback, last |-> c.last]
        /\ c.group = db.group /\ c.last = db.last
    BY <1>5
  <2> QED BY <1>4, <1>6, <2>1, <2>2 DEF Rows
<1>16. c.group = db.group /\ c.members = db.members /\ c.fallback = db.fallback /\ c.last = db.last
  BY <1>5
<1>8. Rederived(c, X!Dynamic(c) \X as, d)
  BY <1>3, <1>7, EvaluatedRows
<1>9. X!Dynamic(c) = X!Dynamic(db)
  BY <1>5 DEF X!Dynamic
<1>10. \A g \in Groups, a \in Grouped \ as : X!Matches(c, g, a) <=> X!Matches(db, g, a)
  <2> SUFFICES ASSUME NEW g \in Groups, NEW a \in Grouped \ as
               PROVE  X!Matches(c, g, a) <=> X!Matches(db, g, a)
    OBVIOUS
  <2>1. db.group[g].rule \in {"tag", "field"} /\ ~db.asset[a].tag
    BY <1>1, <1>4 DEF Rows, GroupRow
  <2>2. c.asset[a].exists = db.asset[a].exists /\ c.asset[a].field = db.asset[a].field /\ ~c.asset[a].tag
    BY <1>6
  <2> QED BY <1>5, <2>1, <2>2 DEF X!Matches, X!InScope
<1>11. /\ Rows(d) /\ d.asset = c.asset /\ d.group = db.group /\ d.fallback = db.fallback /\ d.last = db.last
       /\ \A g, a : <<g, a>> \in d.members <=>
             IF g \in X!Dynamic(db) /\ a \in as THEN X!Matches(c, g, a) ELSE <<g, a>> \in db.members
  BY <1>8, <1>9, <1>16 DEF Rederived
<1>12. X!Dynamic(d) = X!Dynamic(db) /\ \A g, a : X!Matches(d, g, a) <=> X!Matches(c, g, a)
  BY <1>9, <1>11, <1>16, SameRules
<1>13. MembersMatch(d, unrefreshed \ as)
  <2> SUFFICES ASSUME NEW g \in X!Dynamic(db), NEW a \in Grouped, a \notin unrefreshed \ as
               PROVE  <<g, a>> \in d.members <=> X!Matches(c, g, a)
    BY <1>12 DEF MembersMatch
  <2>1. CASE a \in as
    BY <1>11, <2>1
  <2>2. CASE a \notin as
    <3>1. <<g, a>> \in db.members <=> X!Matches(db, g, a)
      BY <1>4, <2>2 DEF MembersMatch
    <3>2. g \in Groups
      BY DEF X!Dynamic
    <3> QED BY <1>10, <1>11, <2>2, <3>1, <3>2
  <2> QED BY <2>1, <2>2
<1>14. \A a \in Grouped \ as : Untouched(d, a)
  BY <1>6, <1>11 DEF Untouched, SameOwner, X!Owning
<1>15. \A a \in Grouped : d.asset[a].exists \/ d.last[a] = None
  BY <1>6, <1>11 DEF ContextInv, OwnerRecorded
<1> QED BY <1>4, <1>11, <1>13, <1>14, <1>15, RequestStep

(* What refreshes nothing is remembered.                                   *)
LEMMA UnrefreshedStep ==
  ASSUME ContextInv, NEW a \in Grouped, NEW row, AssetRow(row), X!Unrefreshed(a, row),
         row.exists, row.owned = db.asset[a].owned \/ ~db.asset[a].exists
  PROVE  ContextInv'
<1>1. PICK d : d = [db EXCEPT !.asset[a] = row]
  OBVIOUS
<1>2. Rows(db) /\ MembersMatch(db, unrefreshed) /\ db' = d /\ unrefreshed' = unrefreshed \cup {a}
  BY <1>1 DEF ContextInv, X!Unrefreshed
<1>3. /\ d = [asset |-> d.asset, group |-> db.group, members |-> db.members,
              fallback |-> db.fallback, last |-> db.last]
      /\ d.asset = [b \in Grouped |-> IF b = a THEN row ELSE db.asset[b]]
  BY <1>1, <1>2 DEF Rows
<1>4. Rows(d)
  BY <1>2, <1>3 DEF Rows
<1>5. MembersMatch(d, unrefreshed \cup {a})
  <2>2. d.members = db.members
    BY <1>3
  <2>1. X!Dynamic(d) = X!Dynamic(db) /\ \A g, b : b # a /\ b \in Grouped => (X!Matches(d, g, b) <=> X!Matches(db, g, b))
    BY <1>3 DEF X!Dynamic, X!Matches, X!InScope
  <2> QED BY <1>2, <2>1, <2>2 DEF MembersMatch, X!Dynamic
<1>6. ASSUME NEW b \in Grouped PROVE OwnerRecorded(d, b)
  <2>1. OwnerRecorded(db, b)
    BY <1>6 DEF ContextInv
  <2>2. CASE db.last[b] = None
    BY <1>3, <1>6, <2>2 DEF OwnerRecorded
  <2>3. CASE db.last[b] # None
    <3>1. SameOwner(db, d, b)
      BY <1>3, <1>6, <2>1, <2>3 DEF SameOwner, X!Owning, OwnerRecorded
    <3>2. X!resolve_ownership(d, b) = X!resolve_ownership(db, b) /\ (X!Tied(d, b) <=> X!Tied(db, b))
      BY <3>1, SameSource
    <3> QED BY <1>3, <1>6, <2>1, <2>3, <3>2 DEF OwnerRecorded
  <2> QED BY <2>2, <2>3
<1> QED BY <1>2, <1>4, <1>5, <1>6 DEF ContextInv

(* A group is created, changed or evaluated.                               *)
LEMMA GroupRequests ==
  ASSUME ContextInv, NEW g \in Groups, X!create_group(g) \/ X!update_group(g) \/ X!evaluate_group(g)
  PROVE  ContextInv'
<1>0. Rows(db) /\ GroupRow(db.group[g])
  BY DEF ContextInv, Rows
<1>1. CASE X!create_group(g)
  <2>1. PICK dynamic, enabled, owned \in BOOLEAN, site \in Sites \cup {None}, p \in Priorities, rule \in {"tag", "field"} :
          LET r == [exists |-> TRUE, dynamic |-> dynamic, site |-> site, enabled |-> enabled,
                    owned |-> owned, priority |-> p, rule |-> IF dynamic THEN rule ELSE "tag"]
          IN /\ X!validate_group_tie(g, r)
             /\ LET c == [db EXCEPT !.group[g] = r]
                    n == IF r.dynamic THEN X!materialize_dynamic_group(c, g) ELSE c
                IN  X!Request(n, X!Members(n, g), {})
    BY <1>1, Zenon DEF X!create_group
  <2> DEFINE r == [exists |-> TRUE, dynamic |-> dynamic, site |-> site, enabled |-> enabled,
                   owned |-> owned, priority |-> p, rule |-> IF dynamic THEN rule ELSE "tag"]
  <2>6. PICK row : row = r
    OBVIOUS
  <2>7. PICK d, e : /\ d = [db EXCEPT !.group[g] = row]
                    /\ e = IF row.dynamic THEN X!materialize_dynamic_group(d, g) ELSE d
    OBVIOUS
  <2>8. X!Request(e, X!Members(e, g), {})
    BY <2>1, <2>6, <2>7, Zenon
  <2>2. ~db.group[g].enabled
    BY <1>0, <1>1 DEF X!create_group, GroupRow
  <2>3. GroupRow(row)
    BY <2>6 DEF GroupRow
  <2>4. Regrouped(g, row, e)
    BY <2>7 DEF Regrouped, X!materialize_dynamic_group
  <2>5. \A a \in Grouped \ X!Members(e, g) : <<g, a>> \notin e.members
    BY DEF X!Members
  <2> QED BY <2>2, <2>3, <2>4, <2>5, <2>8, GroupStep
<1>2. CASE X!update_group(g)
  <2>1. PICK row, d, e :
          /\ row \in X!Changed(db.group[g])
          /\ d = [db EXCEPT !.group[g] = row]
          /\ e = IF row.dynamic /\ \E c \in {"rule", "site", "enabled"} : row[c] # db.group[g][c]
                 THEN X!materialize_dynamic_group(d, g) ELSE d
          /\ X!Request(e, X!Resolves(e, g), {})
    BY <1>2, Zenon DEF X!update_group
  <2>2. db.group[g].exists
    BY <1>2 DEF X!update_group
  <2>3. GroupRow(row) /\ row.exists = db.group[g].exists /\ row.dynamic = db.group[g].dynamic
    BY <1>0, <2>1, <2>2 DEF GroupRow, X!Changed
  <2>4. Regrouped(g, row, e)
    BY <2>1, <2>2, <2>3 DEF Regrouped, X!materialize_dynamic_group
  <2>5. \A a \in Grouped \ X!Resolves(e, g) : <<g, a>> \notin e.members /\ <<g, a>> \notin db.members
    BY DEF X!Resolves, X!Members
  <2> QED BY <2>1, <2>3, <2>4, <2>5, GroupStep
<1>3. CASE X!evaluate_group(g)
  <2>1. PICK e : e = X!materialize_dynamic_group(db, g) /\ X!Request(e, X!Resolves(e, g), {})
    BY <1>3 DEF X!evaluate_group
  <2>2. db = [db EXCEPT !.group[g] = db.group[g]]
    BY <1>0 DEF Rows
  <2>3. Regrouped(g, db.group[g], e)
    BY <2>1, <2>2 DEF Regrouped, X!materialize_dynamic_group
  <2>4. \A a \in Grouped \ X!Resolves(e, g) : <<g, a>> \notin e.members /\ <<g, a>> \notin db.members
    BY DEF X!Resolves, X!Members
  <2> QED BY <1>0, <2>1, <2>3, <2>4, GroupStep
<1> QED BY <1>1, <1>2, <1>3

(* Facts of an asset are changed by whom refreshes its groups, or is       *)
(* remembered.                                                             *)
LEMMA AssetRequests ==
  ASSUME ContextInv, NEW a \in Grouped,
         \/ X!update_asset_context(a) \/ X!add_asset_tag(a) \/ X!delete_asset_tag(a) \/ X!_ingest_host(a)
         \/ X!_create_asset_from_observation(a) \/ X!ingest_inventory(a)
  PROVE  ContextInv'
<1>0. AssetRow(db.asset[a])
  BY DEF ContextInv, Rows
<1>1. CASE X!update_asset_context(a)
  <2>1. PICK f, o \in BOOLEAN : X!Reassess(a, [db.asset[a] EXCEPT !.field = f, !.owned = o])
    BY <1>1 DEF X!update_asset_context
  <2>2. PICK row : row = [db.asset[a] EXCEPT !.field = f, !.owned = o]
    OBVIOUS
  <2>3. AssetRow(row) /\ row.exists
    BY <1>0, <1>1, <2>2 DEF AssetRow, X!update_asset_context
  <2> QED BY <2>1, <2>2, <2>3, ReassessStep
<1>2. CASE X!add_asset_tag(a) \/ X!delete_asset_tag(a)
  <2>1. PICK v \in BOOLEAN : X!Reassess(a, [db.asset[a] EXCEPT !.tag = v])
    BY <1>2 DEF X!add_asset_tag, X!delete_asset_tag
  <2>2. PICK row : row = [db.asset[a] EXCEPT !.tag = v]
    OBVIOUS
  <2>3. AssetRow(row) /\ row.exists
    BY <1>0, <1>2, <2>2 DEF AssetRow, X!add_asset_tag, X!delete_asset_tag
  <2> QED BY <2>1, <2>2, <2>3, ReassessStep
<1>3. CASE X!_ingest_host(a)
  <2>1. PICK f \in BOOLEAN : X!Reassess(a, [db.asset[a] EXCEPT !.exists = TRUE, !.field = f])
    BY <1>3 DEF X!_ingest_host
  <2>2. PICK row : row = [db.asset[a] EXCEPT !.exists = TRUE, !.field = f]
    OBVIOUS
  <2>3. AssetRow(row) /\ row.exists
    BY <1>0, <2>2 DEF AssetRow
  <2> QED BY <2>1, <2>2, <2>3, ReassessStep
<1>4. CASE X!_create_asset_from_observation(a)
  <2>1. PICK f \in BOOLEAN : ~db.asset[a].exists /\ X!Unrefreshed(a, [X!NoAsset EXCEPT !.exists = TRUE, !.field = f])
    BY <1>4 DEF X!_create_asset_from_observation
  <2>2. PICK row : row = [X!NoAsset EXCEPT !.exists = TRUE, !.field = f]
    OBVIOUS
  <2>3. AssetRow(row) /\ row.exists
    BY <2>2 DEF AssetRow, X!NoAsset
  <2> QED BY <2>1, <2>2, <2>3, UnrefreshedStep
<1>5. CASE X!ingest_inventory(a)
  <2>1. X!Unrefreshed(a, [db.asset[a] EXCEPT !.field = ~@])
    BY <1>5 DEF X!ingest_inventory
  <2>2. PICK row : row = [db.asset[a] EXCEPT !.field = ~@]
    OBVIOUS
  <2>3. AssetRow(row) /\ row.exists /\ row.owned = db.asset[a].owned
    BY <1>0, <1>5, <2>2 DEF AssetRow, X!ingest_inventory
  <2> QED BY <2>1, <2>2, <2>3, UnrefreshedStep
<1> QED BY <1>1, <1>2, <1>3, <1>4, <1>5

(***************************************************************************)
(* The rows that are derived from groups, tags, sites and owners follow    *)
(* them, for any number of assets, groups, sites and priorities: members   *)
(* of dynamic groups, where the last writer of the asset refreshes them,   *)
(* and the newest snapshot of each asset's owner, unless a tie keeps it    *)
(* from being resolved.                                                    *)
(***************************************************************************)
THEOREM ConnectorsDerivedRowsFollow == X!Spec => []DerivedRowsFollow
<1>1. ContextInv /\ [X!Next]_(X!vars) => ContextInv'
  <2> SUFFICES ASSUME ContextInv, [X!Next]_(X!vars) PROVE ContextInv'
    OBVIOUS
  <2>1. ASSUME NEW a \in Grouped, X!delete_asset(a) PROVE ContextInv'
    BY <2>1, DeleteAssetStep
  <2>2. ASSUME NEW g \in Groups, X!delete_group(g) PROVE ContextInv'
    BY <2>2, DeleteGroupStep
  <2>3. ASSUME NEW g \in Groups, NEW a \in Grouped, X!add_group_members(g, a) PROVE ContextInv'
    <3>1. PICK ms : ms = db.members \cup {<<g, a>>}
      OBVIOUS
    <3>2. X!Request([db EXCEPT !.members = ms], {a}, {})
      BY <2>3, <3>1 DEF X!add_group_members
    <3>3. db.asset[a].exists /\ ~db.group[g].dynamic
      BY <2>3 DEF X!add_group_members
    <3>4. \A h, b : <<h, b>> # <<g, a>> => (<<h, b>> \in ms <=> <<h, b>> \in db.members)
      BY <3>1
    <3> QED BY <3>2, <3>3, <3>4, StaticStep
  <2>4. ASSUME NEW g \in Groups, NEW a \in Grouped, X!remove_group_members(g, a) PROVE ContextInv'
    <3>1. PICK ms : ms = db.members \ {<<g, a>>}
      OBVIOUS
    <3>2. X!Request([db EXCEPT !.members = ms], {a}, {}) /\ ~db.group[g].dynamic
      BY <2>4, <3>1 DEF X!remove_group_members
    <3>3. db.asset[a].exists \/ db.last[a] = None
      BY DEF ContextInv, OwnerRecorded
    <3>4. \A h, b : <<h, b>> # <<g, a>> => (<<h, b>> \in ms <=> <<h, b>> \in db.members)
      BY <3>1
    <3> QED BY <3>2, <3>3, <3>4, StaticStep
  <2>5. ASSUME X!update_site \/ X!upsert_department_owner \/ X!delete_department_owner PROVE ContextInv'
    <3>1. \E f : X!Request([db EXCEPT !.fallback = f], Grouped, {})
      <4>1. CASE X!update_site
        <5>1. PICK f : f = [db.fallback EXCEPT !.site = ~@]
          OBVIOUS
        <5>2. [db EXCEPT !.fallback = f] = [db EXCEPT !.fallback.site = ~@]
          BY <5>1
        <5> QED BY <4>1, <5>2 DEF X!update_site
      <4>2. CASE X!upsert_department_owner
        <5>1. PICK f : f = [db.fallback EXCEPT !.department = TRUE]
          OBVIOUS
        <5>2. [db EXCEPT !.fallback = f] = [db EXCEPT !.fallback.department = TRUE]
          BY <5>1
        <5> QED BY <4>2, <5>2 DEF X!upsert_department_owner
      <4>3. CASE X!delete_department_owner
        <5>1. PICK f : f = [db.fallback EXCEPT !.department = FALSE]
          OBVIOUS
        <5>2. [db EXCEPT !.fallback = f] = [db EXCEPT !.fallback.department = FALSE]
          BY <5>1
        <5> QED BY <4>3, <5>2 DEF X!delete_department_owner
      <4> QED BY <2>5, <4>1, <4>2, <4>3
    <3> QED BY <3>1, FallbackStep
  <2>6. CASE UNCHANGED X!vars
    <3>1. PICK d, u : d = db /\ u = unrefreshed
      OBVIOUS
    <3>2. db' = d /\ unrefreshed' = u
      BY <2>6, <3>1 DEF X!vars
    <3>3. Rows(d) /\ MembersMatch(d, u) /\ \A a \in Grouped : OwnerRecorded(d, a)
      BY <3>1 DEF ContextInv
    <3> QED BY <3>2, <3>3 DEF ContextInv
  <2> QED BY <2>1, <2>2, <2>3, <2>4, <2>5, <2>6, GroupRequests, AssetRequests, DeleteTagStep DEF X!Next
<1>2. ContextInv => DerivedRowsFollow
  BY DEF ContextInv, MembersMatch, OwnerRecorded, DerivedRowsFollow, X!DerivedRowsFollow
<1> QED BY InitContext, <1>1, <1>2, PTL DEF X!Spec
----------------------------------------------------------------------------
(***************************************************************************)
(* Records, for any number of assets, sources, identifiers and rejections  *)
(* under way.                                                              *)
(*                                                                         *)
(* A merge writes times into rows of identifiers that others write too, so *)
(* a split can only take back what nobody has written since. Restorable    *)
(* says what the snapshot of a merge knows while nothing has touched the   *)
(* asset: which identifiers the merge added, which of those that were      *)
(* there it made younger and how old they were, and that the asset now is  *)
(* what it was with the observation merged into it. From this a split      *)
(* computes what was.                                                      *)
(***************************************************************************)

ObservationRow(ob) ==
    /\ ob = [source |-> ob.source, ids |-> ob.ids, at |-> ob.at, matched |-> ob.matched]
    /\ ob.source \in Sources \cup {None} /\ ob.ids \subseteq R!Identifiers /\ ob.at \in Nat

SnapshotRow(s) == s.seen \in Nat /\ \A i \in DOMAIN s.prior : s.prior[i] \in Nat

CandidateRow(c) ==
    /\ c = [status |-> c.status, conflict |-> c.conflict, snapshot |-> c.snapshot]
    /\ SnapshotRow(c.snapshot)

RecordsTyped ==
    /\ assets \subseteq Assets
    /\ ids \in [Assets -> [R!Identifiers -> Nat]] /\ seen \in [Assets -> Nat]
    /\ obs = [o \in Observations |-> obs[o]] /\ \A o \in Observations : ObservationRow(obs[o])
    /\ link = [r \in Sources |-> link[r]]
    /\ cand = [o \in Observations |-> [a \in Assets |-> cand[o][a]]]
    /\ \A o \in Observations, a \in Assets : CandidateRow(cand[o][a])
    /\ before = [o \in Observations |-> [a \in Assets |-> before[o][a]]]
    /\ rejecting = [d \in Rejecters |-> rejecting[d]]

Considered ==
    /\ \A o \in Observations, a \in Assets :
          cand[o][a].status # "none" => obs[o].source # None /\ a \in assets
    /\ \A d \in Rejecters : rejecting[d] # R!NoReject =>
          /\ rejecting[d].o \in Observations /\ rejecting[d].a \in assets
          /\ obs[rejecting[d].o].source # None

(* The snapshot s of what was, and what is, of the observation ob.         *)
Restorable(s, was, ob, is, at) ==
    /\ was.ids \in [R!Identifiers -> Nat] /\ was.seen \in Nat
    /\ s.link = was.link /\ s.seen = was.seen
    /\ s.added = {i \in ob.ids : was.ids[i] = 0}
    /\ DOMAIN s.prior = {i \in ob.ids : was.ids[i] # 0 /\ was.ids[i] < ob.at}
    /\ \A i \in DOMAIN s.prior : s.prior[i] = was.ids[i]
    /\ is = [i \in R!Identifiers |-> IF i \in ob.ids THEN R!Later(was.ids[i], ob.at) ELSE was.ids[i]]
    /\ at = R!Later(was.seen, ob.at)

RestorableMerge(o, a) == Restorable(cand[o][a].snapshot, before[o][a], obs[o], ids[a], seen[a])

Snapshots ==
    \A o \in Observations, a \in Assets :
        <<o, a>> \in R!Merged \ touched => RestorableMerge(o, a)

RecordsInv == RecordsTyped /\ Considered /\ Snapshots

(* There is no snapshot before a merge, and of what is there one is taken. *)
LEMMA NoSnapshotRow == SnapshotRow(R!NoSnapshot)
BY DEF SnapshotRow, R!NoSnapshot

(* A snapshot holds times.                                                 *)
LEMMA SnapshotTyped ==
  ASSUME RecordsInv, NEW a \in Assets, NEW ob
  PROVE  SnapshotRow(R!Snapshot(ob, a))
<1>1. /\ R!Snapshot(ob, a).seen = seen[a]
      /\ R!Snapshot(ob, a).prior = [i \in {j \in ob.ids \cap R!Has(a) : ids[a][j] < ob.at} |-> ids[a][i]]
  BY DEF R!Snapshot
<1>2. ids[a] \in [R!Identifiers -> Nat] /\ seen[a] \in Nat /\ R!Has(a) \subseteq R!Identifiers
  BY DEF RecordsInv, RecordsTyped, R!Has
<1> QED BY <1>1, <1>2 DEF SnapshotRow

(* Nothing is there yet.                                                   *)
LEMMA InitRecords == R!Init => RecordsInv
<1> SUFFICES ASSUME R!Init PROVE RecordsInv
  OBVIOUS
<1>1. RecordsTyped
  BY NoSnapshotRow DEF R!Init, RecordsTyped, ObservationRow, CandidateRow, R!NoCandidate
<1>2. \A o \in Observations, a \in Assets : cand[o][a].status = "none"
  BY DEF R!Init, R!NoCandidate
<1>3. Considered
  BY <1>2 DEF R!Init, Considered
<1>4. Snapshots
  BY <1>2 DEF Snapshots, R!Merged
<1> QED BY <1>1, <1>3, <1>4 DEF RecordsInv

(* Undoing gives what was.                                                 *)
LEMMA Undone ==
  ASSUME RecordsInv, NEW o \in Observations, NEW a \in Assets, RestorableMerge(o, a)
  PROVE  /\ R!Unmerged(o, a) = before[o][a].ids
         /\ seen[a] = R!Later(cand[o][a].snapshot.seen, obs[o].at)
         /\ cand[o][a].snapshot.seen = before[o][a].seen
         /\ cand[o][a].snapshot.link = before[o][a].link
<1>1. PICK s, was, ob : s = cand[o][a].snapshot /\ was = before[o][a] /\ ob = obs[o]
  OBVIOUS
<1>2. Restorable(s, was, ob, ids[a], seen[a])
  BY <1>1 DEF RestorableMerge
<1>3. ob.ids \subseteq R!Identifiers /\ ob.at \in Nat
  BY <1>1 DEF RecordsInv, RecordsTyped, ObservationRow
<1>4. ASSUME NEW i \in R!Identifiers
      PROVE  (IF ids[a][i] # ob.at THEN ids[a][i]
              ELSE IF i \in s.added THEN 0
              ELSE IF i \in DOMAIN s.prior THEN s.prior[i] ELSE ids[a][i]) = was.ids[i]
  <2>1. ids[a][i] = IF i \in ob.ids THEN R!Later(was.ids[i], ob.at) ELSE was.ids[i]
    BY <1>2, <1>4 DEF Restorable
  <2>2. was.ids[i] \in Nat
    BY <1>2, <1>4 DEF Restorable
  <2>3. i \in s.added <=> i \in ob.ids /\ was.ids[i] = 0
    BY <1>2 DEF Restorable
  <2>4. i \in DOMAIN s.prior <=> i \in ob.ids /\ was.ids[i] # 0 /\ was.ids[i] < ob.at
    BY <1>2 DEF Restorable
  <2>5. i \in DOMAIN s.prior => s.prior[i] = was.ids[i]
    BY <1>2 DEF Restorable
  <2>6. PICK w, t, p : w = was.ids[i] /\ t = ob.at /\ p = s.prior[i]
    OBVIOUS
  <2> QED BY <1>3, <2>1, <2>2, <2>3, <2>4, <2>5, <2>6 DEF R!Later
<1>5. R!Unmerged(o, a) =
        [i \in R!Identifiers |->
           IF ids[a][i] # ob.at THEN ids[a][i]
           ELSE IF i \in s.added THEN 0
           ELSE IF i \in DOMAIN s.prior THEN s.prior[i] ELSE ids[a][i]]
  BY <1>1 DEF R!Unmerged
<1>6. R!Unmerged(o, a) = [i \in R!Identifiers |-> was.ids[i]]
  BY <1>4, <1>5
<1>7. was.ids = [i \in R!Identifiers |-> was.ids[i]]
  BY <1>2 DEF Restorable
<1>8. seen[a] = R!Later(s.seen, ob.at) /\ s.seen = was.seen /\ s.link = was.link
  BY <1>2 DEF Restorable
<1> QED BY <1>1, <1>6, <1>7, <1>8

(* A merge keeps what it needs to be undone.                               *)
LEMMA MergeRestorable ==
  ASSUME RecordsInv, NEW o \in Observations, NEW a \in Assets, NEW ob, ObservationRow(ob),
         R!merge(o, ob, a), cand'[o][a].snapshot = R!Snapshot(ob, a)
  PROVE  RestorableMerge(o, a)'
<1>1. /\ ids \in [Assets -> [R!Identifiers -> Nat]] /\ seen \in [Assets -> Nat]
      /\ obs = [p \in Observations |-> obs[p]]
      /\ before = [p \in Observations |-> [b \in Assets |-> before[p][b]]]
      /\ ob.ids \subseteq R!Identifiers /\ ob.at \in Nat
  BY DEF RecordsInv, RecordsTyped, ObservationRow
<1>2. PICK was : was = [ids |-> ids[a], seen |-> seen[a], link |-> link[ob.source]]
  OBVIOUS
<1>3. before'[o][a] = was
  BY <1>1, <1>2 DEF R!merge
<1>4. PICK s : s = R!Snapshot(ob, a)
  OBVIOUS
<1>5. /\ was.ids = ids[a] /\ was.seen = seen[a] /\ was.link = link[ob.source]
  BY <1>2
<1>6. /\ s.link = link[ob.source] /\ s.seen = seen[a] /\ s.added = ob.ids \ R!Has(a)
      /\ s.prior = [i \in {j \in ob.ids \cap R!Has(a) : ids[a][j] < ob.at} |-> ids[a][i]]
  BY <1>4 DEF R!Snapshot
<1>7. obs'[o].ids = ob.ids /\ obs'[o].at = ob.at
  <2>1. obs'[o] = [ob EXCEPT !.matched = a]
    BY <1>1 DEF R!merge
  <2>2. ob = [source |-> ob.source, ids |-> ob.ids, at |-> ob.at, matched |-> ob.matched]
    BY DEF ObservationRow
  <2> QED BY <2>1, <2>2
<1>8. /\ ids'[a] = [i \in R!Identifiers |-> IF i \in ob.ids THEN R!Later(was.ids[i], ob.at) ELSE was.ids[i]]
      /\ seen'[a] = R!Later(was.seen, ob.at)
  BY <1>1, <1>5 DEF R!merge
<1>9. was.ids \in [R!Identifiers -> Nat] /\ was.seen \in Nat
  BY <1>1, <1>5
<1>10. s.added = {i \in ob.ids : was.ids[i] = 0}
  BY <1>1, <1>5, <1>6 DEF R!Has
<1>11. DOMAIN s.prior = {i \in ob.ids : was.ids[i] # 0 /\ was.ids[i] < ob.at}
  BY <1>1, <1>5, <1>6 DEF R!Has
<1>12. \A i \in DOMAIN s.prior : s.prior[i] = was.ids[i]
  BY <1>5, <1>6
<1>13. Restorable(s, was, ob, ids'[a], seen'[a])
  BY <1>5, <1>6, <1>8, <1>9, <1>10, <1>11, <1>12 DEF Restorable
<1>14. PICK n : n = obs'[o]
  OBVIOUS
<1>15. Restorable(s, was, n, ids'[a], seen'[a])
  BY <1>7, <1>13, <1>14 DEF Restorable
<1> QED BY <1>3, <1>4, <1>14, <1>15 DEF RestorableMerge

(* What touches nothing of a merge leaves it restorable.                   *)
LEMMA StaysRestorable ==
  ASSUME RecordsInv, NEW o \in Observations, NEW a \in Assets, <<o, a>> \in R!Merged' \ touched',
         R!touch, cand'[o][a] = cand[o][a], before'[o][a] = before[o][a],
         obs'[o].ids = obs[o].ids, obs'[o].at = obs[o].at
  PROVE  RestorableMerge(o, a)'
<1>1. <<o, a>> \in R!Merged
  BY DEF R!Merged
<1>2. <<o, a>> \notin touched /\ ids'[a] = ids[a] /\ seen'[a] = seen[a]
  BY <1>1 DEF R!touch
<1>3. RestorableMerge(o, a)
  BY <1>1, <1>2 DEF RecordsInv, Snapshots
<1>4. ASSUME NEW s, NEW was, NEW x, NEW y, NEW is, NEW at, x.ids = y.ids, x.at = y.at, Restorable(s, was, x, is, at)
      PROVE  Restorable(s, was, y, is, at)
  BY <1>4 DEF Restorable
<1>5. Restorable(cand[o][a].snapshot, before[o][a], obs'[o], ids[a], seen[a])
  BY <1>3, <1>4 DEF RestorableMerge
<1> QED BY <1>2, <1>5 DEF RestorableMerge

(* Rows of a kind stay so.                                                 *)
LEMMA CreateTyped ==
  ASSUME RecordsInv, NEW o \in Observations, NEW ob, ObservationRow(ob), NEW a \in Assets, NEW fresh,
         R!create(o, ob, a, fresh)
  PROVE  /\ a \notin assets /\ assets' = assets \cup {a}
         /\ ids' \in [Assets -> [R!Identifiers -> Nat]] /\ seen' \in [Assets -> Nat]
         /\ obs' = [p \in Observations |-> obs'[p]] /\ \A p \in Observations : ObservationRow(obs'[p])
         /\ \A p \in Observations \ {o} : obs'[p] = obs[p]
         /\ obs'[o].source = ob.source /\ obs'[o].ids = ob.ids /\ obs'[o].at = ob.at
         /\ link' = [r \in Sources |-> link'[r]]
<1>1. /\ ids \in [Assets -> [R!Identifiers -> Nat]] /\ seen \in [Assets -> Nat]
      /\ obs = [p \in Observations |-> obs[p]] /\ link = [r \in Sources |-> link[r]]
      /\ \A p \in Observations : ObservationRow(obs[p])
      /\ ob.at \in Nat
      /\ ob = [source |-> ob.source, ids |-> ob.ids, at |-> ob.at, matched |-> ob.matched]
  BY DEF RecordsInv, RecordsTyped, ObservationRow
<1>2. a \notin assets /\ assets' = assets \cup {a}
  BY DEF R!create, R!New
<1>3. ids' \in [Assets -> [R!Identifiers -> Nat]] /\ seen' \in [Assets -> Nat]
  BY <1>1 DEF R!create
<1>4. PICK n : n = [ob EXCEPT !.matched = a]
  OBVIOUS
<1>5. ObservationRow(n) /\ n.source = ob.source /\ n.ids = ob.ids /\ n.at = ob.at
  BY <1>1, <1>4 DEF ObservationRow
<1>6. obs' = [p \in Observations |-> IF p = o THEN n ELSE obs[p]]
  BY <1>1, <1>4 DEF R!create
<1>7. link' = [r \in Sources |-> link'[r]]
  BY <1>1 DEF R!create, R!Linked
<1> QED BY <1>1, <1>2, <1>3, <1>5, <1>6, <1>7

(* A merge keeps the rows well formed, and writes no other observation.    *)
LEMMA MergeTyped ==
  ASSUME RecordsInv, NEW o \in Observations, NEW ob, ObservationRow(ob), NEW a \in Assets,
         R!merge(o, ob, a)
  PROVE  /\ assets' = assets
         /\ ids' \in [Assets -> [R!Identifiers -> Nat]] /\ seen' \in [Assets -> Nat]
         /\ obs' = [p \in Observations |-> obs'[p]] /\ \A p \in Observations : ObservationRow(obs'[p])
         /\ \A p \in Observations \ {o} : obs'[p] = obs[p]
         /\ obs'[o].source = ob.source /\ obs'[o].ids = ob.ids /\ obs'[o].at = ob.at
         /\ link' = [r \in Sources |-> link'[r]]
         /\ before' = [p \in Observations |-> [b \in Assets |-> before'[p][b]]]
         /\ \A p \in Observations, b \in Assets : <<p, b>> # <<o, a>> => before'[p][b] = before[p][b]
<1>1. /\ ids \in [Assets -> [R!Identifiers -> Nat]] /\ seen \in [Assets -> Nat]
      /\ obs = [p \in Observations |-> obs[p]] /\ link = [r \in Sources |-> link[r]]
      /\ \A p \in Observations : ObservationRow(obs[p])
      /\ before = [p \in Observations |-> [b \in Assets |-> before[p][b]]]
      /\ ob.at \in Nat
      /\ ob = [source |-> ob.source, ids |-> ob.ids, at |-> ob.at, matched |-> ob.matched]
  BY DEF RecordsInv, RecordsTyped, ObservationRow
<1>2. assets' = assets
  BY DEF R!merge
<1>3. ids' \in [Assets -> [R!Identifiers -> Nat]] /\ seen' \in [Assets -> Nat]
  BY <1>1 DEF R!merge, R!Later
<1>4. PICK n : n = [ob EXCEPT !.matched = a]
  OBVIOUS
<1>5. ObservationRow(n) /\ n.source = ob.source /\ n.ids = ob.ids /\ n.at = ob.at
  BY <1>1, <1>4 DEF ObservationRow
<1>6. obs' = [p \in Observations |-> IF p = o THEN n ELSE obs[p]]
  BY <1>1, <1>4 DEF R!merge
<1>7. link' = [r \in Sources |-> link'[r]]
  BY <1>1 DEF R!merge, R!Linked
<1>8. PICK w : w = [ids |-> ids[a], seen |-> seen[a], link |-> link[ob.source]]
  OBVIOUS
<1>9. before' = [before EXCEPT ![o][a] = w]
  BY <1>8 DEF R!merge
<1>10. /\ before' = [p \in Observations |-> [b \in Assets |-> before'[p][b]]]
       /\ \A p \in Observations, b \in Assets : <<p, b>> # <<o, a>> => before'[p][b] = before[p][b]
  BY <1>1, <1>9
<1> QED BY <1>1, <1>2, <1>3, <1>5, <1>6, <1>7, <1>10

(* One candidate is given another status, and perhaps a snapshot.          *)
Judged(o, a, c) == cand' = [cand EXCEPT ![o][a] = c]

OthersAsTheyWere(o, a) ==
    \A p \in Observations, b \in Assets : <<p, b>> # <<o, a>> => cand'[p][b] = cand[p][b]

CandidatesTyped ==
    /\ cand = [p \in Observations |-> [b \in Assets |-> cand[p][b]]]
    /\ \A p \in Observations, b \in Assets : CandidateRow(cand[p][b])

(* A judgement writes one candidate only.                                  *)
LEMMA CandidateTyped ==
  ASSUME RecordsInv, NEW o \in Observations, NEW a \in Assets, NEW c, CandidateRow(c),
         Judged(o, a, c)
  PROVE  CandidatesTyped' /\ cand'[o][a] = c /\ OthersAsTheyWere(o, a)
<1>1. /\ cand = [p \in Observations |-> [b \in Assets |-> cand[p][b]]]
      /\ \A p \in Observations, b \in Assets : CandidateRow(cand[p][b])
  BY DEF RecordsInv, RecordsTyped
<1>2. /\ cand' = [p \in Observations |-> [b \in Assets |-> cand'[p][b]]]
      /\ cand'[o][a] = c
      /\ \A p \in Observations, b \in Assets : <<p, b>> # <<o, a>> => cand'[p][b] = cand[p][b]
  BY <1>1 DEF Judged
<1> QED BY <1>1, <1>2 DEF CandidatesTyped, OthersAsTheyWere

(* What is merged and not touched after a step, if all but one candidate   *)
(* are as they were.                                                       *)
LEMMA SnapshotsStay ==
  ASSUME RecordsInv, R!touch, NEW o \in Observations, NEW a \in Assets,
         \A p \in Observations, b \in Assets : <<p, b>> # <<o, a>> =>
             cand'[p][b] = cand[p][b] /\ before'[p][b] = before[p][b],
         \A p \in Observations : obs'[p].ids = obs[p].ids /\ obs'[p].at = obs[p].at,
         cand'[o][a].status \in {"auto", "approved"} => RestorableMerge(o, a)'
  PROVE  Snapshots'
<1>1. ASSUME NEW p \in Observations, NEW b \in Assets, <<p, b>> \in R!Merged' \ touched', <<p, b>> # <<o, a>>
      PROVE  RestorableMerge(p, b)'
  BY <1>1, StaysRestorable
<1>2. <<o, a>> \in R!Merged' => RestorableMerge(o, a)'
  BY DEF R!Merged
<1> QED BY <1>1, <1>2 DEF Snapshots

(* An approval merges into the candidate, and takes the snapshot first.    *)
LEMMA ApproveStep ==
  ASSUME RecordsInv, NEW o \in Observations, NEW a \in Assets, R!approve(o, a)
  PROVE  RecordsInv' /\ OthersAsTheyWere(o, a) /\ cand'[o][a].status = "approved"
<1>1. PICK c : c = [cand[o][a] EXCEPT !.status = "approved", !.snapshot = R!Snapshot(obs[o], a)]
  OBVIOUS
<1>2. CandidateRow(cand[o][a]) /\ ObservationRow(obs[o]) /\ cand[o][a].status = "pending"
  BY DEF RecordsInv, RecordsTyped, R!approve, R!Pending
<1>3. CandidateRow(c) /\ c.status = "approved" /\ c.snapshot = R!Snapshot(obs[o], a)
  BY <1>1, <1>2, SnapshotTyped DEF CandidateRow
<1>4. Judged(o, a, c)
  BY <1>1 DEF R!approve, RecordsInv, RecordsTyped, Judged
<1>5. /\ cand' = [p \in Observations |-> [b \in Assets |-> cand'[p][b]]]
      /\ \A p \in Observations, b \in Assets : CandidateRow(cand'[p][b])
      /\ cand'[o][a] = c
      /\ \A p \in Observations, b \in Assets : <<p, b>> # <<o, a>> => cand'[p][b] = cand[p][b]
  BY <1>3, <1>4, CandidateTyped DEF CandidatesTyped, OthersAsTheyWere
<1>6. R!merge(o, obs[o], a) /\ R!touch /\ rejecting' = rejecting
  BY DEF R!approve
<1>7. /\ assets' = assets
      /\ ids' \in [Assets -> [R!Identifiers -> Nat]] /\ seen' \in [Assets -> Nat]
      /\ obs' = [p \in Observations |-> obs'[p]] /\ \A p \in Observations : ObservationRow(obs'[p])
      /\ \A p \in Observations : obs'[p].source = obs[p].source /\ obs'[p].ids = obs[p].ids /\ obs'[p].at = obs[p].at
      /\ link' = [r \in Sources |-> link'[r]]
      /\ before' = [p \in Observations |-> [b \in Assets |-> before'[p][b]]]
      /\ \A p \in Observations, b \in Assets : <<p, b>> # <<o, a>> => before'[p][b] = before[p][b]
  BY <1>2, <1>6, MergeTyped
<1>8. RecordsTyped'
  BY <1>5, <1>6, <1>7 DEF RecordsInv, RecordsTyped
<1>9. Considered'
  <2>1. \A p \in Observations, b \in Assets : cand'[p][b].status # "none" => cand[p][b].status # "none"
    BY <1>2, <1>5
  <2> QED BY <1>6, <1>7, <2>1 DEF RecordsInv, Considered
<1>10. RestorableMerge(o, a)'
  BY <1>2, <1>3, <1>5, <1>6, MergeRestorable
<1>11. Snapshots'
  BY <1>5, <1>6, <1>7, <1>10, SnapshotsStay
<1> QED BY <1>3, <1>5, <1>8, <1>9, <1>11 DEF RecordsInv, OthersAsTheyWere

(* A record comes: of its observation nothing was known.                   *)
LEMMA CollectStep ==
  ASSUME RecordsInv, NEW o \in Observations, NEW r \in Sources,
         NEW J \in SUBSET R!Identifiers, NEW t \in 1 .. MaxTime,
         R!collect(o, [source |-> r, ids |-> J, at |-> t, matched |-> None])
  PROVE  RecordsInv' /\ \A a \in Assets : cand[o][a].status = "none"
<1>1. PICK ob : ob = [source |-> r, ids |-> J, at |-> t, matched |-> None]
  OBVIOUS
<1>2. ObservationRow(ob) /\ ob.source # None
  BY <1>1, RecordConstants DEF ObservationRow
<1> DEFINE scored == {a \in assets : R!Review(ob.ids, a)}
           sure == {a \in scored : R!High(ob.ids, a) /\ ~R!Conflict(ob.ids, a)}
           found(a) == [status |-> "pending", snapshot |-> R!NoSnapshot, conflict |->
                          R!Conflict(ob.ids, a) \/ (R!Cardinality(sure) > 1 /\ R!High(ob.ids, a))]
           row == [a \in Assets |-> IF a \in scored THEN found(a) ELSE R!NoCandidate]
<1>3. R!collect(o, ob)
  BY <1>1
<1>4. /\ R!New(R!Arrived, Observations, o)
      /\ IF R!Cardinality(sure) = 1
         THEN \E a \in sure :
                 /\ R!merge(o, ob, a)
                 /\ cand' = [cand EXCEPT ![o] = [row EXCEPT
                       ![a].status = "auto", ![a].snapshot = R!Snapshot(ob, a)]]
         ELSE /\ cand' = [cand EXCEPT ![o] = row]
              /\ IF scored = {} THEN \E a \in Assets : R!create(o, ob, a, FALSE)
                 ELSE obs' = [obs EXCEPT ![o] = ob] /\ UNCHANGED <<assets, ids, seen, link>>
              /\ UNCHANGED before
      /\ R!touch /\ UNCHANGED <<rejecting, scans, overlapped>>
  BY <1>3, Zenon DEF R!collect
<1>5. /\ row = [a \in Assets |-> row[a]]
      /\ \A a \in Assets : /\ CandidateRow(row[a]) /\ row[a].status \in {"none", "pending"}
                           /\ row[a].status = "pending" => a \in assets
  BY NoSnapshotRow DEF CandidateRow, R!NoCandidate
<1>6. sure \subseteq assets /\ assets \subseteq Assets
  BY DEF RecordsInv, RecordsTyped
<1> HIDE DEF scored, sure, row
<1>7. obs[o].source = None /\ \A a \in Assets : cand[o][a].status = "none"
  BY <1>4 DEF R!New, R!Arrived, RecordsInv, Considered
<1>8. /\ cand = [p \in Observations |-> [a \in Assets |-> cand[p][a]]]
      /\ before = [p \in Observations |-> [a \in Assets |-> before[p][a]]]
      /\ obs = [p \in Observations |-> obs[p]] /\ \A p \in Observations : ObservationRow(obs[p])
      /\ rejecting = [d \in Rejecters |-> rejecting[d]]
      /\ \A p \in Observations, a \in Assets : CandidateRow(cand[p][a])
  BY DEF RecordsInv, RecordsTyped
<1> DEFINE Facts(new) ==
        /\ assets' \subseteq Assets /\ assets \subseteq assets'
        /\ ids' \in [Assets -> [R!Identifiers -> Nat]] /\ seen' \in [Assets -> Nat]
        /\ obs' = [p \in Observations |-> obs'[p]] /\ \A p \in Observations : ObservationRow(obs'[p])
        /\ \A p \in Observations \ {o} : obs'[p] = obs[p]
        /\ obs'[o].source = ob.source
        /\ link' = [q \in Sources |-> link'[q]]
        /\ before' = [p \in Observations |-> [a \in Assets |-> before'[p][a]]]
        /\ \A p \in Observations \ {o}, a \in Assets : before'[p][a] = before[p][a]
        /\ cand' = [cand EXCEPT ![o] = new]
        /\ new = [a \in Assets |-> new[a]]
        /\ \A a \in Assets :
              /\ CandidateRow(new[a]) /\ new[a].status \in {"none", "pending", "auto"}
              /\ new[a].status # "none" => a \in assets
              /\ new[a].status = "auto" => RestorableMerge(o, a)'
<1>9. \E new : Facts(new)
  <2>1. CASE R!Cardinality(sure) = 1
    <3>1. PICK a \in sure : /\ R!merge(o, ob, a)
                            /\ cand' = [cand EXCEPT ![o] = [row EXCEPT
                                  ![a].status = "auto", ![a].snapshot = R!Snapshot(ob, a)]]
      BY <1>4, <2>1
    <3>2. a \in Assets /\ a \in assets
      BY <1>6
    <3>3. PICK new : new = [row EXCEPT ![a].status = "auto", ![a].snapshot = R!Snapshot(ob, a)]
      OBVIOUS
    <3>4. PICK c : c = [row[a] EXCEPT !.status = "auto", !.snapshot = R!Snapshot(ob, a)]
      OBVIOUS
    <3>14. CandidateRow(row[a])
      BY <1>5, <3>2
    <3>5. CandidateRow(c) /\ c.status = "auto" /\ c.snapshot = R!Snapshot(ob, a)
      BY <3>2, <3>4, <3>14, SnapshotTyped DEF CandidateRow
    <3>6. new = [row EXCEPT ![a] = c]
      BY <1>5, <3>2, <3>3, <3>4
    <3>7. new = [b \in Assets |-> IF b = a THEN c ELSE row[b]]
      BY <1>5, <3>2, <3>6
    <3>8. cand' = [cand EXCEPT ![o] = new]
      BY <3>1, <3>3
    <3>9. cand'[o] = new /\ new[a] = c
      BY <1>8, <3>2, <3>7, <3>8
    <3>10. RestorableMerge(o, a)'
      BY <1>2, <3>1, <3>2, <3>5, <3>9, MergeRestorable
    <3>11. new = [b \in Assets |-> new[b]]
      BY <3>7
    <3>12. \A b \in Assets :
              /\ CandidateRow(new[b]) /\ new[b].status \in {"none", "pending", "auto"}
              /\ new[b].status # "none" => b \in assets
              /\ new[b].status = "auto" => RestorableMerge(o, b)'
      BY <1>5, <3>2, <3>5, <3>7, <3>10
    <3>13. /\ assets' = assets
           /\ ids' \in [Assets -> [R!Identifiers -> Nat]] /\ seen' \in [Assets -> Nat]
           /\ obs' = [p \in Observations |-> obs'[p]] /\ \A p \in Observations : ObservationRow(obs'[p])
           /\ \A p \in Observations \ {o} : obs'[p] = obs[p]
           /\ obs'[o].source = ob.source
           /\ link' = [q \in Sources |-> link'[q]]
           /\ before' = [p \in Observations |-> [b \in Assets |-> before'[p][b]]]
           /\ \A p \in Observations \ {o}, b \in Assets : before'[p][b] = before[p][b]
      BY <1>2, <3>1, <3>2, MergeTyped
    <3> QED BY <1>6, <3>8, <3>11, <3>12, <3>13
  <2>2. CASE R!Cardinality(sure) # 1
    <3>1. /\ cand' = [cand EXCEPT ![o] = row] /\ before' = before
          /\ \/ \E a \in Assets : R!create(o, ob, a, FALSE)
             \/ obs' = [obs EXCEPT ![o] = ob] /\ UNCHANGED <<assets, ids, seen, link>>
      BY <1>4, <2>2
    <3>2. \A b \in Assets :
              /\ CandidateRow(row[b]) /\ row[b].status \in {"none", "pending", "auto"}
              /\ row[b].status # "none" => b \in assets
              /\ row[b].status = "auto" => RestorableMerge(o, b)'
      BY <1>5
    <3>3. /\ assets' \subseteq Assets /\ assets \subseteq assets'
          /\ ids' \in [Assets -> [R!Identifiers -> Nat]] /\ seen' \in [Assets -> Nat]
          /\ obs' = [p \in Observations |-> obs'[p]] /\ \A p \in Observations : ObservationRow(obs'[p])
          /\ \A p \in Observations \ {o} : obs'[p] = obs[p]
          /\ obs'[o].source = ob.source
          /\ link' = [q \in Sources |-> link'[q]]
      <4>1. CASE \E a \in Assets : R!create(o, ob, a, FALSE)
        BY <1>2, <1>6, <4>1, CreateTyped
      <4>2. CASE obs' = [obs EXCEPT ![o] = ob] /\ UNCHANGED <<assets, ids, seen, link>>
        <5>1. obs' = [p \in Observations |-> IF p = o THEN ob ELSE obs[p]]
          BY <1>8, <4>2
        <5>2. /\ assets \subseteq Assets /\ link = [q \in Sources |-> link[q]]
              /\ ids \in [Assets -> [R!Identifiers -> Nat]] /\ seen \in [Assets -> Nat]
          BY DEF RecordsInv, RecordsTyped
        <5> QED BY <1>2, <1>8, <4>2, <5>1, <5>2
      <4> QED BY <3>1, <4>1, <4>2
    <3>4. /\ before' = [p \in Observations |-> [a \in Assets |-> before'[p][a]]]
          /\ \A p \in Observations \ {o}, a \in Assets : before'[p][a] = before[p][a]
      BY <1>8, <3>1
    <3>5. PICK new : new = row
      OBVIOUS
    <3>6. cand' = [cand EXCEPT ![o] = new] /\ new = [a \in Assets |-> new[a]]
      BY <1>5, <3>1, <3>5
    <3>7. Facts(new)
      BY <3>2, <3>3, <3>4, <3>5, <3>6
    <3> QED BY <3>7
  <2> QED BY <2>1, <2>2
<1>10. PICK new : Facts(new)
  BY <1>9
<1>11. cand' = [p \in Observations |-> IF p = o THEN new ELSE cand[p]]
  BY <1>8, <1>10
<1>15. new = [a \in Assets |-> new[a]]
  BY <1>10
<1>16. \A a \in Assets : new[a].status # "none" => a \in assets
  BY <1>10
<1>17. assets \subseteq assets' /\ obs'[o].source # None /\ \A p \in Observations \ {o} : obs'[p] = obs[p]
  BY <1>2, <1>10
<1>12. RecordsTyped'
  <2>1. cand' = [p \in Observations |-> [a \in Assets |-> cand'[p][a]]]
    <3>1. \A p \in Observations : cand'[p] = [a \in Assets |-> cand'[p][a]]
      BY <1>8, <1>11, <1>15
    <3> QED BY <1>11, <3>1
  <2>2. \A p \in Observations, a \in Assets : CandidateRow(cand'[p][a])
    BY <1>8, <1>10, <1>11
  <2> QED BY <1>4, <1>8, <1>10, <2>1, <2>2 DEF RecordsTyped
<1>13. Considered'
  <2>1. \A p \in Observations, a \in Assets :
          cand'[p][a].status # "none" => obs'[p].source # None /\ a \in assets'
    <3> SUFFICES ASSUME NEW p \in Observations, NEW a \in Assets, cand'[p][a].status # "none"
                 PROVE  obs'[p].source # None /\ a \in assets'
      OBVIOUS
    <3>1. CASE p = o
      BY <1>11, <1>16, <1>17, <3>1
    <3>2. CASE p # o
      BY <1>11, <1>17, <3>2 DEF RecordsInv, Considered
    <3> QED BY <3>1, <3>2
  <2>2. \A d \in Rejecters : rejecting'[d] # R!NoReject =>
          /\ rejecting'[d].o \in Observations /\ rejecting'[d].a \in assets'
          /\ obs'[rejecting'[d].o].source # None
    BY <1>4, <1>17 DEF RecordsInv, Considered
  <2> QED BY <2>1, <2>2 DEF Considered
<1>14. Snapshots'
  <2>1. ASSUME NEW p \in Observations \ {o}, NEW a \in Assets, <<p, a>> \in R!Merged' \ touched'
        PROVE  RestorableMerge(p, a)'
    BY <1>4, <1>10, <1>11, <2>1, StaysRestorable
  <2>2. ASSUME NEW a \in Assets, <<o, a>> \in R!Merged' PROVE RestorableMerge(o, a)'
    <3>1. cand'[o][a].status \in {"auto", "approved"}
      BY <2>2 DEF R!Merged
    <3> QED BY <1>10, <1>11, <3>1
  <2> QED BY <2>1, <2>2 DEF Snapshots
<1> QED BY <1>7, <1>12, <1>13, <1>14 DEF RecordsInv

(* A rejection looks first, and changes nothing.                           *)
LEMMA RejectBeginStep ==
  ASSUME RecordsInv, NEW d \in Rejecters, NEW o \in Observations, NEW a \in Assets, R!reject_begin(d, o, a)
  PROVE  RecordsInv' /\ cand' = cand
<1>1. /\ UNCHANGED <<assets, ids, seen, obs, link, cand, before, touched>>
      /\ cand[o][a].status = "pending"
      /\ rejecting' = [rejecting EXCEPT ![d] =
            [o |-> o, a |-> a, creates |-> R!Pending(o) = {a} /\ obs[o].matched = None]]
  BY DEF R!reject_begin, R!rows, R!Pending
<1>2. RecordsTyped'
  BY <1>1 DEF RecordsInv, RecordsTyped
<1>3. obs[o].source # None /\ a \in assets
  BY <1>1 DEF RecordsInv, Considered
<1>4. \A e \in Rejecters : \/ rejecting'[e] = rejecting[e]
                           \/ rejecting'[e].o = o /\ rejecting'[e].a = a
  BY <1>1 DEF RecordsInv, RecordsTyped
<1>5. Considered'
  BY <1>1, <1>3, <1>4 DEF RecordsInv, Considered
<1>6. Snapshots'
  BY <1>1 DEF RecordsInv, Snapshots, R!Merged, RestorableMerge, Restorable
<1> QED BY <1>1, <1>2, <1>5, <1>6 DEF RecordsInv

(* What the step of a request on one candidate keeps.                      *)
LEMMA OtherCandidates ==
  ASSUME RecordsInv, NEW o \in Observations, NEW a \in Assets, cand[o][a].status # "none" \/ a \in assets,
         obs[o].source # None, R!touch, before' = before,
         CandidatesTyped', OthersAsTheyWere(o, a), cand'[o][a].status \in {"rejected", "split"},
         assets' \subseteq Assets, assets \subseteq assets',
         ids' \in [Assets -> [R!Identifiers -> Nat]], seen' \in [Assets -> Nat],
         obs' = [p \in Observations |-> obs'[p]], \A p \in Observations : ObservationRow(obs'[p]),
         \A p \in Observations :
            obs'[p].source = obs[p].source /\ obs'[p].ids = obs[p].ids /\ obs'[p].at = obs[p].at,
         link' = [r \in Sources |-> link'[r]], rejecting' = [e \in Rejecters |-> rejecting'[e]],
         \A e \in Rejecters : rejecting'[e] \in {rejecting[e], R!NoReject}
  PROVE  RecordsInv'
<1>1. RecordsTyped'
  BY DEF RecordsInv, RecordsTyped, CandidatesTyped
<1>2. a \in assets
  BY DEF RecordsInv, Considered
<1>3. Considered'
  <2>1. \A p \in Observations, b \in Assets :
          cand'[p][b].status # "none" => obs'[p].source # None /\ b \in assets'
    <3> SUFFICES ASSUME NEW p \in Observations, NEW b \in Assets, cand'[p][b].status # "none"
                 PROVE  obs'[p].source # None /\ b \in assets'
      OBVIOUS
    <3>1. CASE <<p, b>> = <<o, a>>
      BY <1>2, <3>1
    <3>2. CASE <<p, b>> # <<o, a>>
      <4>1. cand[p][b].status # "none"
        BY <3>2 DEF OthersAsTheyWere
      <4> QED BY <4>1 DEF RecordsInv, Considered
    <3> QED BY <3>1, <3>2
  <2>2. \A e \in Rejecters : rejecting'[e] # R!NoReject =>
          /\ rejecting'[e].o \in Observations /\ rejecting'[e].a \in assets'
          /\ obs'[rejecting'[e].o].source # None
    <3>1. \A e \in Rejecters : rejecting[e] # R!NoReject =>
            /\ rejecting[e].o \in Observations /\ rejecting[e].a \in assets
            /\ obs[rejecting[e].o].source # None
      BY DEF RecordsInv, Considered
    <3> QED BY <3>1
  <2> QED BY <2>1, <2>2 DEF Considered
<1>4. ASSUME NEW p \in Observations, NEW b \in Assets, <<p, b>> \in R!Merged' \ touched'
      PROVE  RestorableMerge(p, b)'
  <2>1. <<p, b>> # <<o, a>>
    BY <1>4 DEF R!Merged
  <2> QED BY <1>4, <2>1, StaysRestorable DEF OthersAsTheyWere
<1>5. Snapshots'
  BY <1>4 DEF Snapshots
<1> QED BY <1>1, <1>3, <1>5 DEF RecordsInv

(* A rejection may create an asset; no candidate but the rejected changes. *)
LEMMA RejectStep ==
  ASSUME RecordsInv, NEW d \in Rejecters, R!reject_candidate(d)
  PROVE  /\ RecordsInv'
         /\ \A o \in Observations, a \in Assets : cand'[o][a] = cand[o][a] \/ cand'[o][a].status = "rejected"
<1>1. PICK o, a : o = rejecting[d].o /\ a = rejecting[d].a
  OBVIOUS
<1>2. /\ o \in Observations /\ a \in assets /\ a \in Assets /\ obs[o].source # None
      /\ CandidateRow(cand[o][a]) /\ ObservationRow(obs[o])
  BY <1>1 DEF R!reject_candidate, RecordsInv, Considered, RecordsTyped
<1>3. /\ rejecting' = [rejecting EXCEPT ![d] = R!NoReject]
      /\ cand' = [cand EXCEPT ![o][a].status = "rejected"]
      /\ \/ \E b \in Assets : R!create(o, obs[o], b, FALSE)
         \/ UNCHANGED <<assets, ids, seen, obs, link>>
      /\ R!touch /\ before' = before
  BY <1>1 DEF R!reject_candidate, R!rejected
<1>4. PICK c : c = [cand[o][a] EXCEPT !.status = "rejected"]
  OBVIOUS
<1>5. CandidateRow(c) /\ c.status = "rejected"
  BY <1>2, <1>4 DEF CandidateRow
<1>6. Judged(o, a, c)
  BY <1>3, <1>4 DEF Judged, RecordsInv, RecordsTyped
<1>7. CandidatesTyped' /\ cand'[o][a] = c /\ OthersAsTheyWere(o, a)
  BY <1>2, <1>5, <1>6, CandidateTyped
<1>8. /\ assets' \subseteq Assets /\ assets \subseteq assets'
      /\ ids' \in [Assets -> [R!Identifiers -> Nat]] /\ seen' \in [Assets -> Nat]
      /\ obs' = [p \in Observations |-> obs'[p]] /\ \A p \in Observations : ObservationRow(obs'[p])
      /\ \A p \in Observations : obs'[p].source = obs[p].source /\ obs'[p].ids = obs[p].ids /\ obs'[p].at = obs[p].at
      /\ link' = [r \in Sources |-> link'[r]]
  <2>1. CASE UNCHANGED <<assets, ids, seen, obs, link>>
    BY <2>1 DEF RecordsInv, RecordsTyped
  <2>2. CASE \E b \in Assets : R!create(o, obs[o], b, FALSE)
    <3>1. assets \subseteq Assets
      BY DEF RecordsInv, RecordsTyped
    <3>2. PICK b \in Assets : R!create(o, obs[o], b, FALSE)
      BY <2>2
    <3>3. PICK ob : ob = obs[o]
      OBVIOUS
    <3>4. ObservationRow(ob) /\ R!create(o, ob, b, FALSE)
      BY <1>2, <3>2, <3>3
    <3>5. /\ assets' = assets \cup {b}
          /\ ids' \in [Assets -> [R!Identifiers -> Nat]] /\ seen' \in [Assets -> Nat]
          /\ obs' = [p \in Observations |-> obs'[p]] /\ \A p \in Observations : ObservationRow(obs'[p])
          /\ \A p \in Observations \ {o} : obs'[p] = obs[p]
          /\ obs'[o].source = ob.source /\ obs'[o].ids = ob.ids /\ obs'[o].at = ob.at
          /\ link' = [r \in Sources |-> link'[r]]
      BY <1>2, <3>4, CreateTyped
    <3> QED BY <3>1, <3>3, <3>5
  <2> QED BY <1>3, <2>1, <2>2
<1>9. /\ rejecting' = [e \in Rejecters |-> rejecting'[e]]
      /\ \A e \in Rejecters : rejecting'[e] \in {rejecting[e], R!NoReject}
  BY <1>3 DEF RecordsInv, RecordsTyped
<1>10. RecordsInv'
  BY <1>2, <1>3, <1>5, <1>7, <1>8, <1>9, OtherCandidates
<1>11. \A p \in Observations, b \in Assets : cand'[p][b] = cand[p][b] \/ cand'[p][b].status = "rejected"
  BY <1>5, <1>7 DEF OthersAsTheyWere
<1> QED BY <1>10, <1>11

Restores(o, a) ==
    LET was == before[o][a] IN
    /\ ids'[a] = was.ids /\ seen'[a] = was.seen
    /\ was.link # R!NoLink => link'[obs[o].source] = was.link
    /\ was.link = R!NoLink => link'[obs[o].source].asset # a

(* A split restores what its snapshot holds, and touches the rest.         *)
LEMMA SplitStep ==
  ASSUME RecordsInv, NEW o \in Observations, NEW a \in Assets, R!split_candidate(o, a)
  PROVE  /\ RecordsInv' /\ OthersAsTheyWere(o, a)
         /\ <<o, a>> \notin touched => Restores(o, a)
<1>1. PICK s, r, ids1, seen1 :
        /\ s = cand[o][a].snapshot /\ r = obs[o].source
        /\ ids1 = [ids EXCEPT ![a] = R!Unmerged(o, a)]
        /\ seen1 = [seen EXCEPT ![a] = IF @ = R!Later(s.seen, obs[o].at) THEN s.seen ELSE @]
  OBVIOUS
<1>2. /\ <<o, a>> \in R!Merged /\ cand' = [cand EXCEPT ![o][a].status = "split"]
      /\ R!touch /\ UNCHANGED <<rejecting, before>>
      /\ \/ /\ s.link # R!NoLink
            /\ link' = [link EXCEPT ![r] = s.link]
            /\ obs' = [obs EXCEPT ![o].matched = s.matched]
            /\ ids' = ids1 /\ seen' = seen1 /\ UNCHANGED assets
         \/ /\ s.link = R!NoLink
            /\ \E b \in Assets :
                /\ R!New(assets, Assets, b) /\ assets' = assets \cup {b}
                /\ ids' = [ids1 EXCEPT ![b] =
                      [i \in R!Identifiers |-> IF i \in obs[o].ids THEN obs[o].at ELSE 0]]
                /\ seen' = [seen1 EXCEPT ![b] = obs[o].at]
                /\ obs' = [obs EXCEPT ![o].matched = b]
                /\ link' = [link EXCEPT ![r] = [asset |-> b, ids |-> obs[o].ids, last |-> obs[o].at]]
  BY <1>1 DEF R!split_candidate
<1>3. cand[o][a].status \in {"auto", "approved"}
  BY <1>2 DEF R!Merged
<1>4. r # None /\ r \in Sources /\ a \in assets /\ obs[o].source # None
  BY <1>1, <1>3 DEF RecordsInv, Considered, RecordsTyped, ObservationRow
<1>5. PICK ob, is : ob = obs[o] /\ is = R!Unmerged(o, a)
  OBVIOUS
<1>6. /\ ids \in [Assets -> [R!Identifiers -> Nat]] /\ seen \in [Assets -> Nat] /\ assets \subseteq Assets
      /\ obs = [p \in Observations |-> obs[p]] /\ link = [q \in Sources |-> link[q]]
      /\ \A p \in Observations : ObservationRow(obs[p])
      /\ ob = [source |-> ob.source, ids |-> ob.ids, at |-> ob.at, matched |-> ob.matched]
      /\ ob.at \in Nat /\ ob.ids \subseteq R!Identifiers /\ ob.source \in Sources \cup {None}
  BY <1>5 DEF RecordsInv, RecordsTyped, ObservationRow
<1>7. SnapshotRow(s) /\ CandidateRow(cand[o][a])
  BY <1>1 DEF RecordsInv, RecordsTyped, CandidateRow
<1>8. is \in [R!Identifiers -> Nat]
  <2>1. is = [i \in R!Identifiers |->
                IF ids[a][i] # ob.at THEN ids[a][i]
                ELSE IF i \in s.added THEN 0
                ELSE IF i \in DOMAIN s.prior THEN s.prior[i] ELSE ids[a][i]]
    BY <1>1, <1>5 DEF R!Unmerged
  <2>2. ids[a] \in [R!Identifiers -> Nat]
    BY <1>6
  <2> QED BY <1>7, <2>1, <2>2 DEF SnapshotRow
<1>9. /\ ids1 = [b \in Assets |-> IF b = a THEN is ELSE ids[b]]
      /\ seen1 = [b \in Assets |-> IF b = a THEN (IF seen[a] = R!Later(s.seen, ob.at) THEN s.seen ELSE seen[a])
                                   ELSE seen[b]]
  BY <1>1, <1>5, <1>6
<1>10. ids1 \in [Assets -> [R!Identifiers -> Nat]] /\ seen1 \in [Assets -> Nat]
  BY <1>6, <1>7, <1>8, <1>9 DEF SnapshotRow
<1> DEFINE SplitTo(to, l, more) ==
          /\ obs' = [obs EXCEPT ![o].matched = to] /\ link' = [link EXCEPT ![r] = l]
          /\ assets' = assets \cup more /\ more \subseteq Assets \ assets
          /\ ids' \in [Assets -> [R!Identifiers -> Nat]] /\ seen' \in [Assets -> Nat]
          /\ ids'[a] = is /\ seen'[a] = seen1[a]
          /\ s.link # R!NoLink => l = s.link
          /\ s.link = R!NoLink => l.asset # a
<1>25. \E to, l, more : SplitTo(to, l, more)
  <2>1. CASE /\ s.link # R!NoLink
             /\ link' = [link EXCEPT ![r] = s.link]
             /\ obs' = [obs EXCEPT ![o].matched = s.matched]
             /\ ids' = ids1 /\ seen' = seen1 /\ UNCHANGED assets
    <3>1. ids'[a] = is /\ seen'[a] = seen1[a]
      BY <1>9, <2>1
    <3>2. assets' = assets \cup {}
      BY <2>1
    <3>3. SplitTo(s.matched, s.link, {})
      BY <1>10, <2>1, <3>1, <3>2
    <3> HIDE DEF SplitTo
    <3> QED BY <3>3
  <2>2. CASE /\ s.link = R!NoLink
             /\ \E b \in Assets :
                /\ R!New(assets, Assets, b) /\ assets' = assets \cup {b}
                /\ ids' = [ids1 EXCEPT ![b] =
                      [i \in R!Identifiers |-> IF i \in obs[o].ids THEN obs[o].at ELSE 0]]
                /\ seen' = [seen1 EXCEPT ![b] = obs[o].at]
                /\ obs' = [obs EXCEPT ![o].matched = b]
                /\ link' = [link EXCEPT ![r] = [asset |-> b, ids |-> obs[o].ids, last |-> obs[o].at]]
    <3>1. PICK b \in Assets :
                /\ b \notin assets /\ assets' = assets \cup {b}
                /\ ids' = [ids1 EXCEPT ![b] =
                      [i \in R!Identifiers |-> IF i \in ob.ids THEN ob.at ELSE 0]]
                /\ seen' = [seen1 EXCEPT ![b] = ob.at]
                /\ obs' = [obs EXCEPT ![o].matched = b]
                /\ link' = [link EXCEPT ![r] = [asset |-> b, ids |-> ob.ids, last |-> ob.at]]
      BY <1>5, <2>2 DEF R!New
    <3>2. b # a
      BY <1>4, <3>1
    <3>3. ids' \in [Assets -> [R!Identifiers -> Nat]] /\ seen' \in [Assets -> Nat]
      BY <1>6, <1>10, <3>1
    <3>4. ids'[a] = is /\ seen'[a] = seen1[a]
      BY <1>9, <3>1, <3>2
    <3>5. PICK l : l = [asset |-> b, ids |-> ob.ids, last |-> ob.at]
      OBVIOUS
    <3>6. l.asset = b
      BY <3>5
    <3>7. link' = [link EXCEPT ![r] = l]
      BY <3>1, <3>5
    <3>8. assets' = assets \cup {b} /\ {b} \subseteq Assets \ assets
      BY <3>1
    <3>9. SplitTo(b, l, {b})
      BY <2>2, <3>1, <3>2, <3>3, <3>4, <3>6, <3>7, <3>8
    <3> HIDE DEF SplitTo
    <3> QED BY <3>9
  <2> HIDE DEF SplitTo
  <2> QED BY <1>2, <2>1, <2>2
<1>11. PICK to, l, more : SplitTo(to, l, more)
  BY <1>25, Zenon
<1>12. PICK c : c = [cand[o][a] EXCEPT !.status = "split"]
  OBVIOUS
<1>13. CandidateRow(c) /\ c.status = "split"
  BY <1>7, <1>12 DEF CandidateRow
<1>14. Judged(o, a, c)
  BY <1>2, <1>12 DEF Judged, RecordsInv, RecordsTyped
<1>15. CandidatesTyped' /\ cand'[o][a] = c /\ OthersAsTheyWere(o, a)
  BY <1>13, <1>14, CandidateTyped
<1>16. PICK n : n = [ob EXCEPT !.matched = to]
  OBVIOUS
<1>17. ObservationRow(n) /\ n.source = ob.source /\ n.ids = ob.ids /\ n.at = ob.at
  BY <1>6, <1>16 DEF ObservationRow
<1>18. obs' = [p \in Observations |-> IF p = o THEN n ELSE obs[p]]
  BY <1>5, <1>6, <1>11, <1>16
<1>19. /\ obs' = [p \in Observations |-> obs'[p]] /\ \A p \in Observations : ObservationRow(obs'[p])
       /\ \A p \in Observations : obs'[p].source = obs[p].source /\ obs'[p].ids = obs[p].ids /\ obs'[p].at = obs[p].at
  BY <1>5, <1>6, <1>17, <1>18
<1>20. link' = [q \in Sources |-> IF q = r THEN l ELSE link[q]]
  BY <1>6, <1>11
<1>21. /\ assets' \subseteq Assets /\ assets \subseteq assets'
       /\ ids' \in [Assets -> [R!Identifiers -> Nat]] /\ seen' \in [Assets -> Nat]
  BY <1>6, <1>11
<1>22. /\ rejecting' = [e \in Rejecters |-> rejecting'[e]]
       /\ \A e \in Rejecters : rejecting'[e] \in {rejecting[e], R!NoReject}
       /\ link' = [q \in Sources |-> link'[q]]
  BY <1>2, <1>20 DEF RecordsInv, RecordsTyped
<1>23. RecordsInv'
  BY <1>2, <1>4, <1>13, <1>15, <1>19, <1>21, <1>22, OtherCandidates
<1>24. ASSUME <<o, a>> \notin touched PROVE Restores(o, a)
  <2>1. RestorableMerge(o, a)
    BY <1>2, <1>24 DEF RecordsInv, Snapshots
  <2>2. /\ R!Unmerged(o, a) = before[o][a].ids
        /\ seen[a] = R!Later(cand[o][a].snapshot.seen, obs[o].at)
        /\ cand[o][a].snapshot.seen = before[o][a].seen
        /\ cand[o][a].snapshot.link = before[o][a].link
    BY <2>1, Undone
  <2>3. PICK was : was = before[o][a]
    OBVIOUS
  <2>4. is = was.ids /\ s.link = was.link
    BY <1>1, <1>5, <2>2, <2>3
  <2>5. seen1[a] = was.seen
    BY <1>1, <1>5, <1>9, <2>2, <2>3
  <2>6. link'[obs[o].source] = l
    BY <1>1, <1>4, <1>20
  <2> QED BY <1>11, <2>3, <2>4, <2>5, <2>6 DEF Restores
<1> QED BY <1>15, <1>23, <1>24

(* A scan sees an asset, and touches what was merged into it.              *)
LEMMA ScanStep ==
  ASSUME RecordsInv, NEW i \in Addresses, NEW m \in Macs \cup {None}, R!ingest_host(i, m)
  PROVE  RecordsInv' /\ cand' = cand
<1>1. PICK a, shown :
        /\ a \in Assets
        /\ assets' = assets \cup {a}
        /\ ids' = [ids EXCEPT ![a] = [x \in R!Identifiers |-> IF x \in shown THEN R!Scanned ELSE @[x]]]
        /\ seen' = [seen EXCEPT ![a] = R!Scanned]
        /\ UNCHANGED <<obs, link, cand, rejecting, before>> /\ R!touch
  BY DEF R!ingest_host
<1>2. R!Scanned \in Nat
  BY RecordConstants DEF R!Scanned
<1>3. ids' \in [Assets -> [R!Identifiers -> Nat]] /\ seen' \in [Assets -> Nat]
  BY <1>1, <1>2 DEF RecordsInv, RecordsTyped
<1>4. RecordsTyped'
  BY <1>1, <1>3 DEF RecordsInv, RecordsTyped
<1>5. Considered'
  BY <1>1 DEF RecordsInv, Considered
<1>6. Snapshots'
  BY <1>1, StaysRestorable DEF Snapshots
<1> QED BY <1>1, <1>4, <1>5, <1>6 DEF RecordsInv

(***************************************************************************)
(* merge_candidate and split_candidate: the first split of a merge that    *)
(* nothing has touched since restores the asset and the source record, for *)
(* any number of assets, records, identifiers and rejections under way.    *)
(* Times are natural numbers, and "none" is not the name of a source.      *)
(***************************************************************************)
THEOREM ConnectorsSplitRestores == R!Spec => SplitRestores
<1> DEFINE Fulfilled ==
      \A c \in R!Merged \ touched :
          cand'[c[1]][c[2]].status = "split" =>
              LET was == before[c[1]][c[2]] IN
              /\ ids'[c[2]] = was.ids /\ seen'[c[2]] = was.seen
              /\ was.link # R!NoLink => link'[obs[c[1]].source] = was.link
              /\ was.link = R!NoLink => link'[obs[c[1]].source].asset # c[2]
<1>1. RecordsInv /\ [R!Next]_(R!vars) => RecordsInv' /\ [Fulfilled]_(R!vars)
  <2> SUFFICES ASSUME RecordsInv, [R!Next]_(R!vars) PROVE RecordsInv' /\ [Fulfilled]_(R!vars)
    OBVIOUS
  <2>0. ASSUME \A o \in Observations, a \in Assets :
                  /\ cand[o][a].status \in {"auto", "approved"} => cand'[o][a].status # "split" \/ Restores(o, a)
                                                                     \/ <<o, a>> \in touched
        PROVE  Fulfilled
    BY <2>0 DEF R!Merged, Restores
  <2> HIDE DEF Fulfilled
  <2>1. CASE UNCHANGED R!vars
    <3>1. UNCHANGED <<assets, ids, seen, obs, link, cand, rejecting, before, touched>>
      BY <2>1 DEF R!vars, R!rows
    <3>2. RecordsTyped' /\ Considered' /\ Snapshots'
      BY <3>1 DEF RecordsInv, RecordsTyped, Considered, Snapshots, R!Merged, RestorableMerge, Restorable
    <3> QED BY <2>1, <3>2 DEF RecordsInv
  <2>2. ASSUME NEW o \in Observations, NEW r \in Sources, NEW J \in SUBSET R!Identifiers \ {{}}, NEW t \in 1 .. MaxTime,
               R!collect(o, [source |-> r, ids |-> J, at |-> t, matched |-> None])
        PROVE  RecordsInv' /\ Fulfilled
    <3>1. RecordsInv' /\ \A a \in Assets : cand[o][a].status = "none"
      BY <2>2, CollectStep
    <3>2. \A p \in Observations \ {o}, a \in Assets : cand'[p][a] = cand[p][a]
      BY <2>2 DEF R!collect, RecordsInv, RecordsTyped
    <3> QED BY <2>0, <3>1, <3>2
  <2>3. ASSUME NEW o \in Observations, NEW a \in Assets, R!approve(o, a) PROVE RecordsInv' /\ Fulfilled
    BY <2>0, <2>3, ApproveStep DEF OthersAsTheyWere
  <2>4. ASSUME NEW o \in Observations, NEW a \in Assets, R!split_candidate(o, a) PROVE RecordsInv' /\ Fulfilled
    BY <2>0, <2>4, SplitStep DEF OthersAsTheyWere
  <2>5. ASSUME NEW o \in Observations, NEW a \in Assets, NEW d \in Rejecters, R!reject_begin(d, o, a)
        PROVE  RecordsInv' /\ Fulfilled
    BY <2>0, <2>5, RejectBeginStep
  <2>6. ASSUME NEW d \in Rejecters, R!reject_candidate(d) PROVE RecordsInv' /\ Fulfilled
    BY <2>0, <2>6, RejectStep
  <2>7. ASSUME NEW i \in Addresses, NEW m \in Macs \cup {None}, R!ingest_host(i, m) PROVE RecordsInv' /\ Fulfilled
    BY <2>0, <2>7, ScanStep
  <2> QED BY <2>1, <2>2, <2>3, <2>4, <2>5, <2>6, <2>7 DEF R!Next
<1>2. R!Spec => [][Fulfilled]_(R!vars)
  <2> HIDE DEF Fulfilled
  <2> QED BY InitRecords, <1>1, PTL DEF R!Spec
<1> QED BY <1>2 DEF SplitRestores, R!SplitRestores
----------------------------------------------------------------------------
(***************************************************************************)
(* The reading of a source, for any number of records, adapters and        *)
(* changes of the source.                                                  *)
(*                                                                         *)
(* A read goes past a record when it takes a page that the record would    *)
(* have been on, or comes to a later part. Kept says that what a read has  *)
(* gone past is observed, if the source has held it all along; of a list   *)
(* read by offsets this needs that nothing is removed, so that the place   *)
(* of a record in the list only grows. A read that is finished has gone    *)
(* past all.                                                               *)
(***************************************************************************)

AdapterRow(ad) ==
    /\ ad.by \in {"whole", "token", "offset", "cursor"} /\ ad.parts \in {1, 2}
    /\ ad.by = "cursor" => ad.parts = 1

PartOf(r) == IF I!adapter.parts = 2 THEN (r % 2) + 1 ELSE 1

Reached(part, at, r) ==
    \/ I!adapter.by = "token" /\ r <= at
    \/ I!adapter.by = "offset" /\ I!Place(I!Of(part), r) <= at

Passed(rd, r) == PartOf(r) < rd.part \/ (PartOf(r) = rd.part /\ Reached(rd.part, rd.at, r))

Kept(rd) ==
    /\ rd.part \in Nat \ {0} /\ rd.at \in Nat
    /\ \/ I!adapter.by = "offset" /\ removed
       \/ \A r \in steady : Passed(rd, r) => r \in rd.got

ReadingInv ==
    /\ AdapterRow(I!adapter)
    /\ source \subseteq Records /\ steady \subseteq source /\ removed \in BOOLEAN
    /\ collection = [status |-> collection.status, cursor |-> collection.cursor]
    /\ I!adapter.by # "cursor" => collection.cursor = 0 /\ (reading # None => Kept(reading))

Covers(a) ==
    /\ a.next \in Nat /\ a.more \in BOOLEAN
    /\ \A r \in I!Of(reading.part) :
          (a.more => Reached(reading.part, a.next, r))
             => Reached(reading.part, reading.at, r) \/ r \in a.records

(* Every adapter has one or two parts, and a way to page.                  *)
LEMMA AdapterRows == \A n \in DOMAIN I!Adapters : AdapterRow(I!Adapters[n])
BY DEF AdapterRow, I!Adapters, I!aws, I!google_cloud, I!azure, I!entra, I!active_directory, I!dns, I!proxmox,
       I!xcpng, I!vcenter, I!unifi, I!dhcp, I!generic_api

(* Counting.                                                               *)
LEMMA SameCount == \A S : I!Cardinality(S) = Cardinality(S)
BY DEF I!Cardinality, Cardinality

(* Records are finitely many, and part of them is fewer.                   *)
LEMMA Counts ==
  ASSUME NEW S, S \subseteq Records
  PROVE  /\ I!Cardinality(S) \in Nat
         /\ \A T : T \subseteq S => I!Cardinality(T) \in Nat /\ I!Cardinality(T) <= I!Cardinality(S)
         /\ \A T : T \subseteq S /\ I!Cardinality(T) = I!Cardinality(S) => T = S
         /\ S # {} => I!Cardinality(S) > 0
<1>1. IsFiniteSet(S)
  BY FS_Subset, ReadingConstants
<1>2. Cardinality(S) \in Nat
  BY <1>1, FS_CardinalityType
<1>3. \A T : T \subseteq S => Cardinality(T) \in Nat /\ Cardinality(T) <= Cardinality(S)
  <2> SUFFICES ASSUME NEW T, T \subseteq S PROVE Cardinality(T) \in Nat /\ Cardinality(T) <= Cardinality(S)
    OBVIOUS
  <2>1. IsFiniteSet(T) /\ Cardinality(T) <= Cardinality(S)
    BY <1>1, FS_Subset
  <2> QED BY <2>1, FS_CardinalityType
<1>4. \A T : T \subseteq S /\ Cardinality(T) = Cardinality(S) => T = S
  BY <1>1, FS_Subset
<1>5. S # {} => Cardinality(S) > 0
  BY <1>1, <1>2, FS_EmptySet
<1> QED BY <1>2, <1>3, <1>4, <1>5, SameCount

(* The places of records.                                                  *)
LEMMA Places ==
  ASSUME NEW S, S \subseteq Records
  PROVE  /\ \A r \in S : I!Place(S, r) \in Nat \ {0} /\ I!Place(S, r) <= I!Cardinality(S)
         /\ \A r, q \in S : r < q => I!Place(S, r) < I!Place(S, q)
         /\ \A T, r : T \subseteq S => I!Place(T, r) <= I!Place(S, r)
<1>1. S \subseteq Nat
  BY ReadingConstants
<1>2. ASSUME NEW r \in S PROVE I!Place(S, r) \in Nat \ {0} /\ I!Place(S, r) <= I!Cardinality(S)
  <2> DEFINE B == {x \in S : x <= r}
  <2>1. r \in B /\ B \subseteq S /\ B \subseteq Records
    <3>1. r \in Nat
      BY <1>1, <1>2
    <3>2. r <= r
      BY ONLY <3>1
    <3> QED BY <1>2, <3>2
  <2>2. I!Place(S, r) = I!Cardinality(B)
    BY DEF I!Place
  <2> HIDE DEF B
  <2>3. I!Cardinality(B) \in Nat /\ I!Cardinality(B) > 0
    BY <2>1, Counts
  <2>4. I!Cardinality(B) <= I!Cardinality(S)
    BY <2>1, Counts
  <2> QED BY <2>2, <2>3, <2>4
<1>3. ASSUME NEW r \in S, NEW q \in S, r < q PROVE I!Place(S, r) < I!Place(S, q)
  <2> DEFINE B == {x \in S : x <= r}
             C == {x \in S : x <= q}
  <2>1. B \subseteq C /\ B # C /\ C \subseteq Records
    <3>1. q \in C /\ q \notin B
      <4>1. r \in Nat /\ q \in Nat
        BY <1>1, <1>3
      <4>2. q <= q /\ ~(q <= r)
        BY ONLY <1>3, <4>1
      <4> QED BY <1>3, <4>2
    <3>2. ASSUME NEW x \in B PROVE x \in C
      <4>1. x \in S /\ x \in Nat /\ r \in Nat /\ q \in Nat /\ x <= r
        BY <1>1, <1>3
      <4>2. x <= q
        BY ONLY <1>3, <4>1
      <4> QED BY <4>1, <4>2
    <3> QED BY <3>1, <3>2
  <2>2. I!Place(S, r) = I!Cardinality(B) /\ I!Place(S, q) = I!Cardinality(C)
    BY DEF I!Place
  <2> HIDE DEF B, C
  <2>3. I!Cardinality(C) \in Nat /\ I!Cardinality(B) \in Nat /\ I!Cardinality(B) <= I!Cardinality(C)
    BY <2>1, Counts
  <2>4. I!Cardinality(B) # I!Cardinality(C)
    BY <2>1, Counts
  <2> QED BY <2>2, <2>3, <2>4
<1>4. ASSUME NEW T, NEW r, T \subseteq S PROVE I!Place(T, r) <= I!Place(S, r)
  <2> DEFINE B == {x \in T : x <= r}
             C == {x \in S : x <= r}
  <2>1. B \subseteq C /\ C \subseteq Records
    BY <1>4
  <2>2. I!Place(T, r) = I!Cardinality(B) /\ I!Place(S, r) = I!Cardinality(C)
    BY DEF I!Place
  <2> HIDE DEF B, C
  <2> QED BY <2>1, <2>2, Counts
<1> QED BY <1>2, <1>3, <1>4

(* A page holds no more than PageSize records: their places are so many.   *)
LEMMA PageBound ==
  ASSUME NEW S, S \subseteq Records, NEW at \in Nat
  PROVE  /\ I!Cardinality(I!Page(S, at)) \in Nat
         /\ I!Cardinality(I!Page(S, at)) <= PageSize
<1> DEFINE P == I!Page(S, at)
           T == (at + 1) .. (at + PageSize)
           f == [r \in P |-> I!Place(S, r)]
<1>1. PageSize \in Nat \ {0}
  BY ReadingConstants
<1>2. IsFiniteSet(T) /\ Cardinality(T) = PageSize
  <2>1. at + 1 \in Int /\ at + PageSize \in Int /\ ~(at + 1 > at + PageSize)
    BY <1>1
  <2>2. (at + PageSize) - (at + 1) + 1 = PageSize
    BY <1>1
  <2> QED BY <2>1, <2>2, FS_Interval
<1>3. P \subseteq S
  BY DEF I!Page
<1>4. \A r \in P : I!Place(S, r) \in T
  <2> SUFFICES ASSUME NEW r \in P PROVE I!Place(S, r) \in T
    OBVIOUS
  <2>1. I!Place(S, r) \in Nat
    BY <1>3, Places
  <2>2. at < I!Place(S, r) /\ I!Place(S, r) <= at + PageSize
    BY DEF I!Page
  <2> QED BY <1>1, <2>1, <2>2
<1>5. \A r, q \in P : I!Place(S, r) = I!Place(S, q) => r = q
  <2> SUFFICES ASSUME NEW r \in P, NEW q \in P, r # q PROVE I!Place(S, r) # I!Place(S, q)
    OBVIOUS
  <2>1. r \in S /\ q \in S
    BY <1>3
  <2>2. r \in Nat /\ q \in Nat
    BY <2>1, ReadingConstants
  <2>3. r < q \/ q < r
    BY ONLY <2>2, r # q
  <2>4. I!Place(S, r) \in Nat /\ I!Place(S, q) \in Nat
    BY <2>1, Places
  <2>5. I!Place(S, r) < I!Place(S, q) \/ I!Place(S, q) < I!Place(S, r)
    BY <2>1, <2>3, Places
  <2> QED BY <2>4, <2>5
<1> HIDE DEF P, T
<1>6. f \in Injection(P, T)
  BY <1>4, <1>5 DEF Injection, IsInjective
<1>7. Cardinality(P) <= PageSize
  BY <1>2, <1>6, FS_Injection, Zenon
<1>8. I!Cardinality(P) \in Nat
  BY <1>3, Counts
<1> QED BY <1>7, <1>8, SameCount DEF P

(* Of some records one is the last.                                        *)
LEMMA Last ==
  ASSUME NEW S, S \subseteq Records, S # {}
  PROVE  I!Max(S) \in S /\ \A y \in S : I!Max(S) >= y
<1> DEFINE Above(x) == {y \in S : y > x}
           Uppers == {Above(x) : x \in S}
           N == Records
<1>1. IsFiniteSet(N) /\ S \subseteq N
  BY ReadingConstants
<1>2. Uppers \subseteq FiniteSubsetsOf(N) /\ Uppers # {}
  <2>1. Uppers \subseteq SUBSET N /\ Uppers # {}
    BY <1>1
  <2> QED BY <1>1, <2>1, FS_FiniteSubsetsOfFinite, Zenon
<1>3. IsWellFoundedOn(StrictSubsetOrdering(N), FiniteSubsetsOf(N))
  BY <1>1, FS_StrictSubsetOrderingWellFounded
<1>4. PICK U \in Uppers : \A W \in Uppers : ~ (<<W, U>> \in StrictSubsetOrdering(N))
  <2> HIDE DEF Uppers, N
  <2> QED BY <1>2, <1>3, WFMin
<1>5. PICK x \in S : U = Above(x)
  OBVIOUS
<1>6. ASSUME NEW y \in S, y > x PROVE FALSE
  <2>1. Above(y) \subseteq Above(x) /\ Above(y) # Above(x)
    <3>1. S \subseteq Int /\ x \in Int /\ y \in Int
      BY ReadingConstants
    <3>2. \A z \in S : z > y => z > x
      BY ONLY <1>6, <3>1
    <3>3. y \in Above(x) /\ y \notin Above(y)
      BY <1>6, <3>1
    <3> QED BY <3>2, <3>3, Zenon
  <2>2. <<Above(y), Above(x)>> \in StrictSubsetOrdering(N)
    BY <1>1, <2>1 DEF StrictSubsetOrdering
  <2>3. Above(y) \in Uppers
    OBVIOUS
  <2> HIDE DEF Above, Uppers
  <2> QED BY <1>4, <1>5, <2>2, <2>3
<1>7. \A y \in S : x >= y
  BY <1>6, ReadingConstants
<1> HIDE DEF Above, Uppers, N
<1> QED BY <1>7 DEF I!Max

(* The records of a part are among those of the source.                    *)
LEMMA PartRecords ==
  ASSUME ReadingInv, NEW part
  PROVE  I!Of(part) \subseteq Records /\ I!Of(part) \subseteq Nat \ {0}
<1>1. I!Of(part) \subseteq Records
  BY DEF ReadingInv, I!Of
<1>2. Records \subseteq Nat \ {0}
  BY ReadingConstants
<1> QED BY <1>1, <1>2

(* A record is of the part that PartOf says.                               *)
LEMMA PartIs ==
  ASSUME ReadingInv, NEW r \in source, NEW part \in Nat \ {0},
         part <= I!adapter.parts
  PROVE  PartOf(r) = part <=> r \in I!Of(part)
<1>1. r \in Nat
  BY ReadingConstants DEF ReadingInv
<1>2. r % 2 \in Nat /\ I!adapter.parts \in {1, 2}
  BY <1>1 DEF ReadingInv, AdapterRow
<1>3. CASE I!adapter.parts = 2
  <2>1. PartOf(r) = (r % 2) + 1 /\ (r \in I!Of(part) <=> r % 2 = part - 1)
    BY <1>3 DEF PartOf, I!Of
  <2> QED BY <1>2, <2>1
<1>4. CASE I!adapter.parts = 1
  <2>1. PartOf(r) = 1 /\ r \in I!Of(part)
    BY <1>4 DEF PartOf, I!Of
  <2> QED BY <1>4, <2>1
<1> QED BY <1>2, <1>3, <1>4

(* By tokens: the page holds all up to its last, or all that is left.      *)
LEMMA TokenCovers ==
  ASSUME ReadingInv, reading # None, Kept(reading), I!adapter.by = "token"
  PROVE  Covers(I!_instance_page(reading.part, reading.at))
<1> DEFINE left == I!After(reading.part, reading.at)
           page == I!Page(left, 0)
           a == I!_instance_page(reading.part, reading.at)
<1>1. /\ a.records = page /\ a.more = (I!Cardinality(left) > PageSize)
      /\ a.next = IF page = {} THEN reading.at ELSE I!Max(page)
  BY DEF I!_instance_page
<1>2. left \subseteq I!Of(reading.part) /\ left \subseteq Records /\ left \subseteq Nat
  BY PartRecords DEF I!After
<1>3. \A r \in I!Of(reading.part) : r <= reading.at \/ r \in left
  BY PartRecords DEF I!After, Kept
<1>4. \A r \in left : r \in page <=> I!Place(left, r) <= PageSize
  <2>1. \A r \in left : I!Place(left, r) \in Nat \ {0}
    BY <1>2, Places
  <2> HIDE DEF left
  <2> QED BY <2>1, ReadingConstants DEF I!Page
<1>5. page \subseteq left
  BY DEF I!Page
<1>6. page # {} => I!Max(page) \in page
  BY <1>2, <1>5, Last
<1> HIDE DEF left, page, a
<1>7. a.next \in Nat /\ a.more \in BOOLEAN
  <2>1. a.next \in Nat
    BY <1>1, <1>2, <1>5, <1>6 DEF Kept
  <2>2. (I!Cardinality(left) > PageSize) \in BOOLEAN
    OBVIOUS
  <2> QED BY <1>1, <2>1, <2>2
<1>8. ASSUME NEW r \in left, a.more => r <= a.next PROVE r \in page \/ r <= reading.at
  <2>1. CASE ~a.more
    <3>1. I!Place(left, r) \in Nat /\ I!Place(left, r) <= I!Cardinality(left)
      BY <1>2, Places
    <3>2. I!Cardinality(left) \in Nat /\ PageSize \in Nat
      BY <1>2, Counts, ReadingConstants
    <3>3. I!Cardinality(left) <= PageSize
      <4>1. ~(I!Cardinality(left) > PageSize)
        BY <1>1, <2>1
      <4> QED BY ONLY <3>2, <4>1
    <3>4. I!Place(left, r) <= PageSize
      BY <3>1, <3>2, <3>3
    <3> QED BY <1>4, <3>4
  <2>2. CASE a.more /\ page = {}
    BY <1>1, <1>8, <2>2
  <2>3. CASE a.more /\ page # {}
    <3>1. I!Max(page) \in left /\ r <= I!Max(page) /\ I!Place(left, I!Max(page)) <= PageSize
      BY <1>1, <1>4, <1>5, <1>6, <1>8, <2>3
    <3>2. r \in Nat /\ I!Max(page) \in Nat
      BY <1>2, <3>1
    <3>3. r = I!Max(page) \/ r < I!Max(page)
      BY <3>1, <3>2
    <3>4. I!Place(left, r) \in Nat /\ I!Place(left, I!Max(page)) \in Nat
      BY <1>2, <3>1, Places
    <3>5. I!Place(left, r) = I!Place(left, I!Max(page)) \/ I!Place(left, r) < I!Place(left, I!Max(page))
      <4>1. CASE r = I!Max(page)
        BY <4>1
      <4>2. CASE r < I!Max(page)
        <5>1. \A q \in left : r < q => I!Place(left, r) < I!Place(left, q)
          BY <1>2, Places
        <5> QED BY <3>1, <4>2, <5>1
      <4> QED BY <3>3, <4>1, <4>2
    <3>6. I!Place(left, r) <= PageSize
      BY <3>1, <3>4, <3>5, ReadingConstants
    <3> QED BY <1>4, <3>6
  <2> QED BY <1>7, <2>1, <2>2, <2>3
<1>9. ASSUME NEW r \in I!Of(reading.part), a.more => Reached(reading.part, a.next, r)
      PROVE  Reached(reading.part, reading.at, r) \/ r \in a.records
  <2>1. a.more => r <= a.next
    BY <1>9 DEF Reached
  <2>2. r \in page \/ r <= reading.at
    BY <1>3, <1>8, <2>1
  <2> QED BY <1>1, <2>2 DEF Reached
<1> QED BY <1>7, <1>9 DEF Covers, a

(* By offsets: the page takes the offset no further than its records go.   *)
LEMMA OffsetCovers ==
  ASSUME ReadingInv, reading # None, Kept(reading), I!adapter.by = "offset"
  PROVE  Covers(I!_network_pages(reading.part, reading.at))
<1> DEFINE list == I!Of(reading.part)
           page == I!Page(list, reading.at)
           total == I!Cardinality(list)
           next == reading.at + I!Cardinality(page)
           a == I!_network_pages(reading.part, reading.at)
<1>1. a.records = page /\ a.next = next /\ a.more = ~(next >= total)
  BY DEF I!_network_pages, I!Exhausted
<1>2. list \subseteq Records
  BY PartRecords
<1>3. reading.at \in Nat /\ PageSize \in Nat
  BY ReadingConstants DEF Kept
<1>4. I!Cardinality(page) \in Nat /\ I!Cardinality(page) <= PageSize
  BY <1>2, <1>3, PageBound
<1>5. total \in Nat
  BY <1>2, Counts
<1>6. \A r \in list : I!Place(list, r) \in Nat /\ I!Place(list, r) <= total
  BY <1>2, Places
<1>7. \A r \in list : reading.at < I!Place(list, r) /\ I!Place(list, r) <= reading.at + PageSize
                       => r \in page
  BY DEF I!Page
<1> HIDE DEF list, page, total
<1>8. next \in Nat /\ next <= reading.at + PageSize
  BY <1>3, <1>4
<1> HIDE DEF next, a
<1>9. ASSUME NEW r \in list, a.more => Reached(reading.part, a.next, r)
      PROVE  Reached(reading.part, reading.at, r) \/ r \in a.records
  <2>1. I!Place(list, r) <= next
    <3>1. CASE a.more
      BY <1>1, <1>9, <3>1 DEF Reached, list
    <3>2. CASE ~a.more
      <4>1. next >= total
        BY <1>1, <3>2
      <4> QED BY <1>5, <1>6, <1>8, <4>1
    <3> QED BY <3>1, <3>2
  <2>2. I!Place(list, r) <= reading.at + PageSize
    BY <1>3, <1>6, <1>8, <2>1
  <2>3. I!Place(list, r) <= reading.at \/ r \in page
    BY <1>3, <1>6, <1>7, <2>2
  <2> QED BY <1>1, <2>3 DEF Reached, list
<1> QED BY <1>1, <1>8, <1>9 DEF Covers, a, list

(* An answer leaves out no record of its part that it goes past.           *)
LEMMA AnswerCovers ==
  ASSUME ReadingInv, reading # None, Kept(reading), I!adapter.by # "cursor"
  PROVE  Covers(I!Answer)
<1>1. CASE I!adapter.by = "whole"
  <2>1. I!Answer = I!Whole(reading.part)
    BY <1>1 DEF I!Answer
  <2> QED BY <2>1 DEF Covers, I!Whole
<1>2. CASE I!adapter.by = "token"
  <2>1. I!Answer = I!_instance_page(reading.part, reading.at)
    BY <1>2 DEF I!Answer
  <2> QED BY <1>2, <2>1, TokenCovers
<1>3. CASE I!adapter.by = "offset"
  <2>1. I!Answer = I!_network_pages(reading.part, reading.at)
    BY <1>3 DEF I!Answer
  <2> QED BY <1>3, <2>1, OffsetCovers
<1> QED BY <1>1, <1>2, <1>3 DEF ReadingInv, AdapterRow
(* A run that was just made has the empty cursor and reads nothing.        *)
LEMMA InitReading == I!Init => ReadingInv
<1> SUFFICES ASSUME I!Init PROVE ReadingInv
  OBVIOUS
<1>1. AdapterRow(I!adapter)
  BY AdapterRows, ReadingConstants DEF I!Init, I!adapter
<1> QED BY <1>1 DEF ReadingInv, I!Init, I!NewRun

(* A source that changes under a read gains nothing that was passed by:    *)
(* places only grow while nothing is removed.                              *)
LEMMA ChangesStep ==
  ASSUME ReadingInv, NEW s \in SUBSET Records, I!changes(s)
  PROVE  ReadingInv'
<1>1. /\ source' = s /\ steady' = steady \cap s /\ removed' = (removed \/ ~(source \subseteq s))
      /\ UNCHANGED <<name, collection, reading>>
  BY DEF I!changes
<1>2. I!adapter' = I!adapter
  BY <1>1 DEF I!adapter
<1>3. AdapterRow(I!adapter')
  BY <1>2 DEF ReadingInv
<1>4. ASSUME I!adapter.by # "cursor", reading # None PROVE Kept(reading)'
  <2>1. Kept(reading)
    BY <1>4 DEF ReadingInv
  <2>2. CASE I!adapter.by = "offset" /\ removed'
    BY <1>1, <1>2, <2>1, <2>2 DEF Kept
  <2>3. CASE ~(I!adapter.by = "offset" /\ removed')
    <3>1. \A r \in steady : Passed(reading, r) => r \in reading.got
      BY <1>1, <2>1, <2>3 DEF Kept
    <3>2. ASSUME NEW r \in steady', Passed(reading, r)' PROVE Passed(reading, r)
      <4>1. PartOf(r)' = PartOf(r)
        BY <1>2 DEF PartOf
      <4>2. CASE I!adapter.by # "offset"
        BY <1>1, <1>2, <3>2, <4>1, <4>2 DEF Passed, Reached
      <4>3. CASE I!adapter.by = "offset"
        <5> DEFINE old == {x \in source : I!adapter.parts = 2 => x % 2 = reading.part - 1}
                   new == {x \in s : I!adapter.parts = 2 => x % 2 = reading.part - 1}
        <5>1. I!Of(reading.part) = old /\ I!Of(reading.part)' = new
          BY <1>1, <1>2 DEF I!Of
        <5>2. source \subseteq s
          BY <1>1, <2>3, <4>3 DEF ReadingInv
        <5>3. old \subseteq new /\ new \subseteq Records
          BY <5>2
        <5> HIDE DEF old, new
        <5>4. I!Place(old, r) <= I!Place(new, r)
          BY <5>3, Places
        <5>5. I!Place(old, r) \in Nat /\ I!Place(new, r) \in Nat
          <6>1. {x \in old : x <= r} \subseteq Records /\ {x \in new : x <= r} \subseteq Records
            BY <5>3
          <6> QED BY <6>1, Counts DEF I!Place
        <5>6. reading.at \in Nat
          BY <2>1 DEF Kept
        <5>7. Reached(reading.part, reading.at, r)' => I!Place(new, r) <= reading.at
          BY <1>1, <1>2, <4>3, <5>1 DEF Reached, I!Place
        <5>8. I!Place(new, r) <= reading.at => Reached(reading.part, reading.at, r)
          BY <4>3, <5>1, <5>4, <5>5, <5>6 DEF Reached
        <5> QED BY <1>1, <3>2, <4>1, <5>7, <5>8 DEF Passed
      <4> QED BY <4>2, <4>3
    <3>3. \A r \in steady' : Passed(reading, r)' => r \in reading.got
      BY <1>1, <3>1, <3>2
    <3> QED BY <1>1, <2>1, <3>3 DEF Kept
  <2> QED BY <2>2, <2>3
<1>5. source' \subseteq Records /\ steady' \subseteq source' /\ removed' \in BOOLEAN
  BY <1>1
<1> QED BY <1>1, <1>2, <1>3, <1>4, <1>5 DEF ReadingInv

(* A read begins with nothing passed.                                      *)
LEMMA BeginsStep ==
  ASSUME ReadingInv, I!begins
  PROVE  ReadingInv'
<1>1. /\ reading' = [part |-> 1, at |-> collection.cursor, got |-> {}, count |-> 0, twice |-> FALSE]
      /\ steady' = source /\ removed' = FALSE /\ UNCHANGED <<name, source, collection>>
  BY DEF I!begins
<1>2. I!adapter' = I!adapter
  BY <1>1 DEF I!adapter
<1>3. ASSUME I!adapter.by # "cursor" PROVE Kept(reading)'
  <2>1. reading'.part = 1 /\ reading'.at = 0
    BY <1>1, <1>3 DEF ReadingInv
  <2>2. ASSUME NEW r \in steady' PROVE ~Passed(reading, r)'
    <3>1. r \in source
      BY <1>1
    <3>2. r \in Nat \ {0}
      BY <3>1, ReadingConstants DEF ReadingInv
    <3>3. PartOf(r)' \in Nat \ {0}
      BY <3>2 DEF PartOf
    <3>4. PartOf(r)' = 1 => r \in I!Of(1)
      BY <1>2, <3>1, PartIs DEF PartOf, ReadingInv, AdapterRow
    <3>5. I!Of(1)' = I!Of(1)
      BY <1>1, <1>2 DEF I!Of
    <3>6. PartOf(r)' = 1 => I!Place(I!Of(1), r) \in Nat \ {0}
      BY <3>4, PartRecords, Places
    <3>7. PartOf(r)' = 1 => ~Reached(1, 0, r)'
      BY <3>2, <3>5, <3>6 DEF Reached, I!Place
    <3> QED BY <2>1, <3>3, <3>7 DEF Passed
  <2> QED BY <2>1, <2>2 DEF Kept
<1> QED BY <1>1, <1>2, <1>3 DEF ReadingInv

(* A page that is read covers what it goes past.                           *)
LEMMA ReadsStep ==
  ASSUME ReadingInv, I!reads
  PROVE  ReadingInv'
<1> DEFINE a == I!Answer
<1>1. /\ reading # None /\ ~(reading.part > I!adapter.parts)
      /\ reading'.part = IF a.more THEN reading.part ELSE reading.part + 1
      /\ reading'.at = IF a.more \/ I!adapter.by = "cursor" THEN a.next ELSE 0
      /\ reading'.got = reading.got \cup a.records
      /\ UNCHANGED <<name, source, collection, steady, removed>>
  BY DEF I!reads, I!Finished
<1>2. I!adapter' = I!adapter
  BY <1>1 DEF I!adapter
<1>3. ASSUME I!adapter.by # "cursor" PROVE Kept(reading)'
  <2>1. Kept(reading)
    BY <1>1, <1>3 DEF ReadingInv
  <2>2. Covers(a)
    BY <1>1, <1>3, <2>1, AnswerCovers
  <2> HIDE DEF a
  <2>3. reading.part \in Nat \ {0} /\ reading.part <= I!adapter.parts
    BY <1>1, <2>1 DEF Kept, ReadingInv, AdapterRow
  <2>4. reading'.part \in Nat \ {0} /\ reading'.at \in Nat
    BY <1>1, <1>3, <2>2, <2>3 DEF Covers
  <2>5. ASSUME NEW r \in steady, Passed(reading', r) PROVE Passed(reading, r) \/ r \in a.records
    <3>1. r \in source /\ r \in Nat \ {0}
      BY ReadingConstants DEF ReadingInv
    <3>2. PartOf(r) \in Nat \ {0} /\ (PartOf(r) = reading.part <=> r \in I!Of(reading.part))
      BY <2>3, <3>1, PartIs DEF PartOf
    <3>3. CASE a.more
      <4>1. PartOf(r) < reading.part
              \/ (PartOf(r) = reading.part /\ Reached(reading.part, a.next, r))
        BY <1>1, <2>5, <3>3 DEF Passed
      <4> QED BY <2>2, <3>2, <3>3, <4>1 DEF Passed, Covers
    <3>4. CASE ~a.more
      <4>1. PartOf(r) < reading.part + 1
              \/ (PartOf(r) = reading.part + 1 /\ Reached(reading.part + 1, 0, r))
        BY <1>1, <1>3, <2>5, <3>4 DEF Passed
      <4>2. ASSUME PartOf(r) = reading.part + 1 PROVE ~Reached(reading.part + 1, 0, r)
        <5>1. PartOf(r) <= I!adapter.parts
          BY <3>1 DEF PartOf, ReadingInv, AdapterRow
        <5>2. r \in I!Of(reading.part + 1)
          BY <2>3, <3>1, <4>2, <5>1, PartIs
        <5>3. I!Place(I!Of(reading.part + 1), r) \in Nat \ {0}
          BY <5>2, PartRecords, Places
        <5> QED BY <3>1, <5>3 DEF Reached
      <4>3. PartOf(r) < reading.part \/ PartOf(r) = reading.part
        BY <2>3, <3>2, <4>1, <4>2
      <4> QED BY <2>2, <3>2, <3>4, <4>3 DEF Passed, Covers
    <3> QED BY <2>2, <3>3, <3>4 DEF Covers
  <2>6. \A r : Passed(reading, r)' = Passed(reading', r)
    <3>1. \A part : I!Of(part)' = I!Of(part)
      BY <1>1, <1>2 DEF I!Of
    <3> QED BY <1>1, <1>2, <3>1 DEF Passed, PartOf, Reached, I!Place
  <2>7. CASE I!adapter.by = "offset" /\ removed
    BY <1>1, <1>2, <2>4, <2>7 DEF Kept
  <2>8. CASE \A r \in steady : Passed(reading, r) => r \in reading.got
    <3>1. \A r \in steady' : Passed(reading, r)' => r \in reading'.got
      BY <1>1, <2>5, <2>6, <2>8
    <3> QED BY <2>4, <3>1 DEF Kept
  <2> QED BY <2>1, <2>7, <2>8 DEF Kept
<1> QED BY <1>1, <1>2, <1>3 DEF ReadingInv

(* The steps that end a read, or make the next run.                        *)
LEMMA EndsStep ==
  ASSUME ReadingInv,
         I!enqueue_run \/ I!collected \/ (\E closed \in BOOLEAN : I!fails(closed)) \/ I!worker_dies
  PROVE  ReadingInv'
<1>1. /\ reading' = None /\ UNCHANGED <<name, source, steady, removed>>
      /\ collection' = [status |-> collection'.status, cursor |-> collection'.cursor]
      /\ I!adapter.by # "cursor" => collection'.cursor = collection.cursor \/ collection'.cursor = 0
  BY DEF I!enqueue_run, I!NewRun, I!collected, I!fails, I!worker_dies, ReadingInv
<1>2. I!adapter' = I!adapter
  BY <1>1 DEF I!adapter
<1> QED BY <1>1, <1>2 DEF ReadingInv

(* ReadingInv holds of every behaviour of the reading.                     *)
LEMMA ReadingInvariant == I!Spec => []ReadingInv
<1>1. ReadingInv /\ [I!Next]_(I!vars) => ReadingInv'
  <2> SUFFICES ASSUME ReadingInv, [I!Next]_(I!vars) PROVE ReadingInv'
    OBVIOUS
  <2>1. CASE UNCHANGED I!vars
    <3>1. UNCHANGED <<name, source, collection, reading, steady, removed>>
      BY <2>1 DEF I!vars
    <3>2. I!adapter' = I!adapter
      BY <3>1 DEF I!adapter
    <3> QED BY <3>1, <3>2 DEF ReadingInv, Kept, Passed, PartOf, Reached, I!Of, I!Place
  <2>2. CASE \E s \in SUBSET Records : I!changes(s)
    BY <2>2, ChangesStep
  <2>3. CASE I!begins
    BY <2>3, BeginsStep
  <2>4. CASE I!reads
    BY <2>4, ReadsStep
  <2>5. CASE I!enqueue_run \/ I!collected \/ (\E closed \in BOOLEAN : I!fails(closed)) \/ I!worker_dies
    BY <2>5, EndsStep
  <2> QED BY <2>1, <2>2, <2>3, <2>4, <2>5 DEF I!Next, I!Steps
<1> QED BY <1>1, InitReading, PTL DEF I!Spec

(* Property SuccessIsComplete: a run that succeeds has observed every      *)
(* record that its source held all along, and leaves no session open.      *)
THEOREM ConnectorsSuccessIsComplete == I!Spec => SuccessIsComplete
<1>1. ReadingInv /\ [I!Next]_(I!vars) =>
        [I!collected => /\ \/ steady \ Hidden \subseteq stored'
                           \/ I!adapter.by = "offset" /\ removed
                           \/ I!adapter.by = "cursor"
                        /\ session' = "none"]_(I!vars)
  <2> SUFFICES ASSUME ReadingInv, I!collected, I!adapter.by # "cursor",
                      ~(I!adapter.by = "offset" /\ removed)
               PROVE  steady \ Hidden \subseteq stored'
    BY DEF I!collected
  <2>1. /\ reading # None /\ reading.part > I!adapter.parts
        /\ stored' = stored \cup (reading.got \ Hidden)
    BY DEF I!collected, I!Finished, I!Observed
  <2>2. Kept(reading)
    BY <2>1 DEF ReadingInv
  <2>3. ASSUME NEW r \in steady PROVE r \in reading.got
    <3>1. r \in Nat
      BY ReadingConstants DEF ReadingInv
    <3>2. PartOf(r) \in Nat /\ PartOf(r) <= I!adapter.parts /\ I!adapter.parts \in Nat
      BY <3>1 DEF PartOf, ReadingInv, AdapterRow
    <3>3. Passed(reading, r)
      BY <2>1, <2>2, <3>2 DEF Passed, Kept
    <3> QED BY <2>2, <3>3 DEF Kept
  <2> QED BY <2>1, <2>3
<1>2. I!Spec => [][I!Next]_(I!vars)
  BY PTL DEF I!Spec
<1> QED BY <1>1, <1>2, ReadingInvariant, PTL DEF SuccessIsComplete, I!SuccessIsComplete
=============================================================================
