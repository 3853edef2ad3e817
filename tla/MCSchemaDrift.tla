--------------------------- MODULE MCSchemaDrift ---------------------------
(* Bodies of get_games: whole, with a game that has no rating, and with a  *)
(* root of another type.                                                   *)
EXTENDS SchemaDriftRegistry, TLC

CONSTANTS p1, p2, s1, s2

Rated == [appID |-> "integer", rating |-> "integer"]
Unrated == [appID |-> "integer"]
Listing(games) == [json |-> TRUE, root |-> "object", listed |-> TRUE, games |-> games]
Full == Listing(<<Rated, Rated, Rated, Rated>>)
Sparse == Listing(<<Rated, Rated, Rated, Unrated>>)
List == [Listing(<<>>) EXCEPT !.root = "array", !.listed = FALSE]

Anonymous == Listing(<<[rating |-> "integer"]>>)
Renamed == Listing(<<[appID |-> "string", rating |-> "number"]>>)
Broken == [List EXCEPT !.json = FALSE, !.root = "none"]

(* The cases of tests/test_schema_drift_registry.py and of                 *)
(* tests/test_yandex_schema_drift_contracts.py, which the run has no room  *)
(* for.                                                                    *)
ASSUME TestedCases ==
    /\ ContractEvents(Full) = {} /\ ContractEvents(Listing(<<>>)) = {}
    /\ ContractEvents(Anonymous) = {Event("required_field_missing", "appID")}
    /\ ContractEvents(Renamed) = {Event("contract_type_mismatch", "appID")}
    /\ TemporalEvents(Full, Sparse) = {Event("missingness_changed", "rating")}
    /\ TemporalEvents(Full, Renamed) =
          {Event("type_changed", "appID"), Event("type_changed", "rating")}
    /\ TemporalEvents(Listing(<<Unrated>>), Listing(<<Rated>>)) =
          {Event("new_field", "rating")}
    /\ DOMAIN Fields(Broken) = {}

Bodies == {Full, List}
Processes == {p1, p2}
OneProcess == {p1}
Scopes == {s1, s2}
UpToASecond == {0, 1, 2}
HalfSeconds == {1}
Symmetry == Permutations(Processes) \cup Permutations(Scopes)
=============================================================================
