---------------------------- MODULE MCInventory ----------------------------
(***************************************************************************)
(* Inventory for TLC: a connector, the reading of a source, the records    *)
(* that are collected, and the groups and owners of assets.  No two of     *)
(* them share state here, so a behaviour follows one of them.              *)
(***************************************************************************)
EXTENDS Connectors, FiniteSets

CONSTANTS Assets, Observations, Sources, Macs, Names, Addresses, MaxTime, MaxScans, Rejecters
CONSTANTS Grouped, Groups, Sites, Priorities
CONSTANTS Connected, Records, Hidden, PageSize, Limit

VARIABLES assets, ids, seen, obs, link, cand, rejecting, scans, before, touched, overlapped
VARIABLES db, unrefreshed
VARIABLES name, source, collection, reading, session, stored, steady, removed
VARIABLE follows    \* the part that is followed

R == INSTANCE Reconciliation WITH crossed <- overlapped
X == INSTANCE AssetContext WITH Assets <- Grouped
I == INSTANCE InventoryReading WITH run <- collection

(* Times are numbers, and "none" is not the name of a source.              *)
ASSUME RecordConstants == MaxTime \in Nat /\ None \notin Sources

(* Adapters are those of the module; finitely many records are numbered.   *)
ASSUME ReadingConstants ==
    /\ PageSize \in Nat \ {0} /\ Connected \subseteq DOMAIN I!Adapters
    /\ Records \subseteq Nat \ {0} /\ IsFiniteSet(Records)

recordVars ==
    <<assets, ids, seen, obs, link, cand, rejecting, scans, before, touched, overlapped>>

contextVars == <<db, unrefreshed>>

readingVars == <<name, source, collection, reading, session, stored, steady, removed>>

MCInit ==
    /\ Init /\ R!Init /\ X!Init /\ I!Init
    /\ follows \in {"connector", "records", "context", "reading"}
    /\ follows # "reading" => name = "aws" /\ source = {}

MCNext ==
    \/ follows = "connector" /\ Next /\ UNCHANGED <<recordVars, contextVars, readingVars, follows>>
    \/ follows = "records" /\ R!Next /\ UNCHANGED <<vars, contextVars, readingVars, follows>>
    \/ follows = "context" /\ X!Next /\ UNCHANGED <<vars, recordVars, readingVars, follows>>
    \/ follows = "reading" /\ I!Next /\ UNCHANGED <<vars, recordVars, contextVars, follows>>

MCSpec == MCInit /\ [][MCNext]_<<vars, recordVars, contextVars, readingVars, follows>>

SuccessIsComplete == I!SuccessIsComplete
SplitRestores == R!SplitRestores
DerivedRowsFollow == X!DerivedRowsFollow
=============================================================================
