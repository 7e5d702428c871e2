-------------------------- MODULE InventoryReading --------------------------
(***************************************************************************)
(* How a collection reads its source (services/inventory_*.py): the read   *)
(* of each adapter, which may take several requests while the source       *)
(* changes, and the run that stores what was read or nothing               *)
(* (execute_connector_task, services/passive_inventory.py).                *)
(*                                                                         *)
(* Module Connectors says when a run may start; here one run at a time is  *)
(* followed.  A record is a number, by which the source orders it; what    *)
(* its fields must look like, credentials, addresses and timeouts are left *)
(* out: a request that fails or is refused for them is `fails`.            *)
(***************************************************************************)
EXTENDS FiniteSets, FiniteSetsExt, Naturals

CONSTANTS
    Connected,      \* the adapters that are looked at, by name
    Records,        \* records that a source may hold, numbered
    Hidden,         \* those that are read but not observed
    PageSize,
    Limit,          \* record_limit
    None

VARIABLES
    name,       \* the adapter
    source,     \* the records that the source holds
    run,        \* the connector run: status and cursor
    reading,    \* the read under way
    session,    \* "open" while the provider keeps a session of the read
    stored,     \* the records of which an observation is stored
    steady,     \* history: records that the source has held since the read began
    removed     \* history: the source has lost a record since then

vars == <<name, source, run, reading, session, stored, steady, removed>>

----------------------------------------------------------------------------
(* The adapters.  `parts` are the regions, projects, zones or collections  *)
(* that one read goes through, `by` is how it pages, `unique` that records *)
(* found twice are refused, `session` that a session is to be closed.      *)

aws == [parts |-> 2, by |-> "token", unique |-> TRUE, session |-> FALSE]
google_cloud == [parts |-> 2, by |-> "token", unique |-> TRUE, session |-> FALSE]
azure == [parts |-> 2, by |-> "token", unique |-> TRUE, session |-> FALSE]
entra == [parts |-> 1, by |-> "token", unique |-> FALSE, session |-> FALSE]
active_directory == [parts |-> 1, by |-> "token", unique |-> FALSE, session |-> TRUE]
dns == [parts |-> 2, by |-> "whole", unique |-> FALSE, session |-> FALSE]
proxmox == [parts |-> 2, by |-> "whole", unique |-> TRUE, session |-> FALSE]
xcpng == [parts |-> 2, by |-> "whole", unique |-> TRUE, session |-> FALSE]
vcenter == [parts |-> 2, by |-> "whole", unique |-> TRUE, session |-> TRUE]
unifi == [parts |-> 2, by |-> "offset", unique |-> TRUE, session |-> FALSE]
dhcp == [parts |-> 1, by |-> "cursor", unique |-> FALSE, session |-> FALSE]
generic_api == [parts |-> 1, by |-> "cursor", unique |-> FALSE, session |-> FALSE]

Adapters ==
    [aws |-> aws, google_cloud |-> google_cloud, azure |-> azure, entra |-> entra,
     active_directory |-> active_directory, dns |-> dns, proxmox |-> proxmox, xcpng |-> xcpng,
     vcenter |-> vcenter, unifi |-> unifi, dhcp |-> dhcp, generic_api |-> generic_api]

adapter == Adapters[name]

TypeOK ==
    /\ name \in Connected
    /\ run \in [status : {"queued", "failed", "succeeded"}, cursor : Records \cup {0}]
    /\ session \in {"none", "open"}
    /\ stored \cup steady \subseteq Records /\ removed \in BOOLEAN

(* enqueue_run: a run has the empty cursor.                                *)
NewRun == [status |-> "queued", cursor |-> 0]

Init ==
    /\ name \in Connected /\ source \in SUBSET Records
    /\ run = NewRun /\ reading = None /\ session = "none"
    /\ stored = {} /\ steady = {} /\ removed = FALSE

----------------------------------------------------------------------------
(* The source.                                                             *)

changes(s) ==
    /\ Cardinality(s \ source) + Cardinality(source \ s) = 1
    /\ source' = s /\ steady' = steady \cap s
    /\ removed' = (removed \/ ~(source \subseteq s))
    /\ UNCHANGED <<name, run, reading, session, stored>>

(* Records of a part, and the place of one of them in the source's order.  *)
Of(part) == {r \in source : adapter.parts = 2 => r % 2 = part - 1}

Place(list, r) == Cardinality({x \in list : x <= r})

(* An answer: its records, the place to go on from, whether there is more, *)
(* and whether the adapter accepts it as a page.                           *)
Whole(part) == [records |-> Of(part), next |-> 0, more |-> FALSE, valid |-> TRUE]

(* The records after a place; a provider's token, or a lease's address.    *)
After(part, at) == {r \in Of(part) : r > at}

Page(list, at) == {r \in list : at < Place(list, r) /\ Place(list, r) <= at + PageSize}

_instance_page(part, at) ==
    LET left == After(part, at)
        page == Page(left, 0)
    IN  [records |-> page, next |-> IF page = {} THEN at ELSE Max(page),
         more |-> Cardinality(left) > PageSize, valid |-> TRUE]

(* Mutant of Exhausted: the read stops one page early.                     *)
Exhausted_Page(offset, total) == offset + PageSize >= total

Exhausted(offset, total) == offset >= total

(* The provider counts: a page of a list that shrank below the offset is   *)
(* refused, a list that ends at it ends the read.                          *)
_network_pages(part, at) ==
    LET list == Of(part)
        page == Page(list, at)
        next == at + Cardinality(page)
        total == Cardinality(list)
    IN  [records |-> page, next |-> next, more |-> ~Exhausted(next, total),
         valid |-> total >= next /\ total <= Limit /\ (Exhausted(next, total) \/ page # {})]

(* One page, and the cursor of a full one.                                 *)
_page(at) ==
    LET page == Page(After(1, at), 0)
    IN  [records |-> page, more |-> FALSE, valid |-> TRUE,
         next |-> IF Cardinality(page) = PageSize THEN Max(page) ELSE 0]

Answer ==
    CASE adapter.by = "whole"  -> Whole(reading.part)
      [] adapter.by = "token"  -> _instance_page(reading.part, reading.at)
      [] adapter.by = "offset" -> _network_pages(reading.part, reading.at)
      [] adapter.by = "cursor" -> _page(reading.at)

----------------------------------------------------------------------------
(* The run.                                                                *)

enqueue_run ==
    /\ run.status # "queued" /\ reading = None
    /\ run' = NewRun
    /\ UNCHANGED <<name, source, reading, session, stored, steady, removed>>

(* A run that has succeeded is not collected again; one that has failed is *)
(* attempted again.                                                        *)
begins ==
    /\ run.status \in {"queued", "failed"} /\ reading = None
    /\ reading' = [part |-> 1, at |-> run.cursor, got |-> {}, count |-> 0, twice |-> FALSE]
    /\ session' = IF adapter.session THEN "open" ELSE session
    /\ steady' = source /\ removed' = FALSE
    /\ UNCHANGED <<name, source, run, stored>>

Finished == reading # None /\ reading.part > adapter.parts

reads ==
    /\ reading # None /\ ~Finished
    /\ Answer.valid /\ reading.count + Cardinality(Answer.records) <= Limit
    /\ reading' = [part  |-> IF Answer.more THEN reading.part ELSE reading.part + 1,
                   at    |-> IF Answer.more \/ adapter.by = "cursor" THEN Answer.next ELSE 0,
                   got   |-> reading.got \cup Answer.records,
                   count |-> reading.count + Cardinality(Answer.records),
                   twice |-> reading.twice \/ reading.got \cap Answer.records # {}]
    /\ UNCHANGED <<name, source, run, session, stored, steady, removed>>

Observed == reading.got \ Hidden

(* The session is closed before anything is stored; an observation of the  *)
(* run that is already there is not added again.                           *)
collected ==
    /\ Finished /\ (adapter.unique => ~reading.twice)
    /\ stored' = stored \cup Observed
    /\ run' = [status |-> "succeeded", cursor |-> IF adapter.by = "cursor" THEN reading.at ELSE 0]
    /\ session' = "none" /\ reading' = None
    /\ UNCHANGED <<name, source, steady, removed>>

(* A request is refused or a page is, or a session cannot be closed: the   *)
(* savepoint is rolled back; closing is tried.                             *)
fails(closed) ==
    /\ reading # None
    /\ reading' = None /\ run' = [run EXCEPT !.status = "failed"]
    /\ session' = IF closed THEN "none" ELSE session
    /\ UNCHANGED <<name, source, stored, steady, removed>>

(* The worker dies: nothing is closed, the transaction is rolled back.     *)
worker_dies ==
    /\ reading # None /\ reading' = None
    /\ UNCHANGED <<name, source, run, session, stored, steady, removed>>

Steps == enqueue_run \/ begins \/ reads \/ collected

Next ==
    \/ \E s \in SUBSET Records : changes(s)
    \/ Steps \/ (\E closed \in BOOLEAN : fails(closed)) \/ worker_dies

Spec == Init /\ [][Next]_vars

(* Runs are scheduled again and again, and not every read of a source that *)
(* answers can fail.                                                       *)
FairSpec == Spec /\ WF_vars(enqueue_run) /\ WF_vars(begins) /\ SF_vars(reads) /\ SF_vars(collected)

----------------------------------------------------------------------------
(* A run that succeeds has observed every record that the source held all  *)
(* along, whatever came and went meanwhile, with two exceptions: a list    *)
(* read by offsets from which a record was removed, and an adapter that    *)
(* reads one page of a run; and it leaves no session open.                 *)
SuccessIsComplete ==
    [][collected => /\ \/ steady \ Hidden \subseteq stored'
                       \/ adapter.by = "offset" /\ removed
                       \/ adapter.by = "cursor"
                    /\ session' = "none"]_vars

(* docs/security-review-checklist.md: the DHCP source "bounds and advances *)
(* cursors": a record that stays in the source is observed at last.        *)
CursorAdvances == \A r \in Records \ Hidden : <>[](r \in source) => <>(r \in stored)
=============================================================================
