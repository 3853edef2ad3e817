------------------------ MODULE MCObservationStores ------------------------
(* Responses that meet in the tables: two listings of one developer, a     *)
(* developer that changes, a response that lists a game twice before it    *)
(* lists another one, and a page, which knows no developer.                *)
EXTENDS ObservationStores, TLC

CONSTANTS p1, p2, l1, l2, d1, d2, n1, n2, m1

Unknown == [developer |-> None, published |-> None, version |-> None,
            metrics |-> <<>>, media |-> None]
Named == [Unknown EXCEPT !.developer = [id |-> d1, name |-> n1], !.published = 2,
                         !.metrics = [votes |-> 5], !.media = m1]
Moved == [Unknown EXCEPT !.developer = [id |-> d2, name |-> None], !.published = 1]
Renamed == [Unknown EXCEPT !.developer = [id |-> d1, name |-> n2]]
Visited == [Unknown EXCEPT !.version = 1, !.metrics = [rating |-> 8]]

Of(listing, facts) == [listing |-> listing, facts |-> facts]
Listed(games) == [kind |-> Catalogue, games |-> games]
Responses ==
    {Listed(<<Of(l1, Named), Of(l2, Renamed)>>),
     Listed(<<Of(l1, Moved)>>),
     Listed(<<Of(l1, Renamed), Of(l1, Named), Of(l2, Moved)>>),
     [kind |-> Page, games |-> <<Of(l1, Visited)>>]}

Processes == {p1, p2}
Listings == {l1, l2}
Developers == {d1, d2}
WholeSeconds == {0, 2, 4}
Symmetry == Permutations(Processes)
=============================================================================
