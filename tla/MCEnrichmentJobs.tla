--------------------------- MODULE MCEnrichmentJobs ---------------------------
(***************************************************************************)
(* Model-checking instances of EnrichmentJobs.                             *)
(***************************************************************************)
EXTENDS EnrichmentJobs

(* The analyzer applies to every content, or to all but those of one        *)
(* meaning, whatever their layout.                                          *)
AlwaysActive == {}
InactiveSomewhere == {[meaning |-> m, layout |-> l] :
                        m \in {CHOOSE m \in Meanings : TRUE}, l \in Layouts}
=============================================================================
