-------------------------- MODULE PublishedViews --------------------------
(***************************************************************************)
(* What the semantic store promises to the queries that read it, and        *)
(* nothing of how it keeps it: a view is either unpublished or shows one    *)
(* whole repository state together with at most one whole enrichment        *)
(* snapshot, and only a publication, an enrichment or the deletion of a     *)
(* standalone repository changes what a view shows.  Garbage collection     *)
(* does not appear here: it must be invisible.                              *)
(*                                                                         *)
(* docs/VISION.md:1196, "A partially updated workspace must never be        *)
(* exposed as a coherent result."                                           *)
(***************************************************************************)
CONSTANTS
    Views,       \* the names under which analyses are published
    Standalone,  \* the views of single repositories, which can be deleted
    States,      \* analyzed repository states
    Snapshots,   \* content-addressed enrichment payloads
    None         \* no value

VARIABLE
    visible      \* what a query of each view reads

(* What a view can show. *)
Shown == [state : States, snapshot : Snapshots \cup {None}]

Init == visible = [v \in Views |-> None]

(* A base publication shows its state; the enrichment selected before it    *)
(* stays visible or is dropped because its analyzer no longer applies.      *)
Publish(v, s) ==
    \E x \in Snapshots \cup {None} :
        /\ x # None => visible[v] # None /\ visible[v].snapshot = x
        /\ visible' = [visible EXCEPT ![v] = [state |-> s, snapshot |-> x]]

(* An enrichment replaces the snapshot of a published view as one step. *)
Enrich(v, x) ==
    /\ visible[v] # None
    /\ visible' = [visible EXCEPT ![v].snapshot = x]

(* The view of a deleted repository is unpublished. *)
Withdraw(v) ==
    /\ v \in Standalone
    /\ visible' = [visible EXCEPT ![v] = None]

Next == \E v \in Views : \/ \E s \in States : Publish(v, s)
                         \/ \E x \in Snapshots \cup {None} : Enrich(v, x)
                         \/ Withdraw(v)

Spec == Init /\ [][Next]_visible
=============================================================================
