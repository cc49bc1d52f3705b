----------------------------- MODULE PoiServices -----------------------------
(***************************************************************************)
(* Facilities are fetched and searched for at two levels: answers of the   *)
(* provider, shared by all processes, and the searches of one analysis     *)
(* that are built from them.  A behaviour is one of the two; the search    *)
(* sees of a fetch what get_or_fetch returns to it.                        *)
(***************************************************************************)
EXTENDS PoiFetch, PoiSearch

VARIABLE level

vars == <<level, fetchVars, searchVars>>

Init ==
    /\ level \in {"fetch", "search"}
    /\ FetchInit /\ SearchInit
    \* A search looks neither at what is stored nor at the clients: one state of
    \* theirs stands for any.
    /\ level = "search" => /\ age = [k \in Keys |-> None]
                           /\ \A p \in Processes : ~client[p].halted

Next ==
    \/ level = "fetch" /\ FetchNext /\ UNCHANGED <<level, searchVars>>
    \/ level = "search" /\ SearchNext /\ UNCHANGED <<level, fetchVars>>

Spec == Init /\ [][Next]_vars
==============================================================================
