--------------------------- MODULE MCExperiments ---------------------------
(* Sixteen runs of three pages: 1 to 8 form two blocks of four, an hour     *)
(* apart, 9 to 12 are the daily feeds and 13 to 16 the daily searches of    *)
(* four checkpoints; two listings.                                          *)
EXTENDS CadenceAudit

CONSTANTS l1, l2, q1

PageDepths == <<1, 2, 3>>
Runs == 1..16
PersistentRuns == {2, 3, 5, 8}

Page(games, more) == [games |-> games, more |-> more, sound |-> TRUE]
Organic(app) == [app |-> app, sponsored |-> FALSE]
Advert(app) == [app |-> app, sponsored |-> TRUE]

(* A feed whose first page has everything organic, one that holds its games *)
(* back behind adverts and ends early, one that grows page by page, and one *)
(* whose collection broke off.                                              *)
Feeds == [
    full |-> <<Page(<<Organic(1), Organic(2), Organic(3)>>, TRUE),
               Page(<<Advert(4), Organic(1)>>, TRUE), Page(<< >>, TRUE)>>,
    late |-> <<Page(<<Advert(3), Organic(5)>>, TRUE), Page(<<Organic(3), Organic(6)>>, FALSE)>>,
    slow |-> <<Page(<<Organic(1)>>, TRUE), Page(<<Organic(1), Organic(2)>>, TRUE),
               Page(<<Organic(3)>>, TRUE)>>,
    torn |-> <<Page(<<Organic(1)>>, TRUE)>>]

Checks == <<1380, 2820, 4260, 5690>>
Started(r) == CASE r <= 4 -> r [] r \in 5..8 -> 60 + r
                [] r \in 9..12 -> Checks[r - 8] - 60 [] OTHER -> Checks[r - 12] - 50

Stored(r, feed, running, session) ==
    [kind |-> IF r <= 12 THEN "feed" ELSE "search", query |-> q1, context |-> "clean",
     declared |-> TRUE, status |-> IF running THEN "running" ELSE "completed",
     profile |-> IF r \in PersistentRuns THEN "persistent" ELSE "clean",
     session |-> IF r \notin PersistentRuns THEN "none" ELSE IF r > 4 THEN session ELSE "s1",
     provenance |-> TRUE, started |-> Started(r), completed |-> Started(r) + 1,
     pages |-> Feeds[feed]]

(* All runs show the full feed but those of one set, which show another.    *)
MCArchives ==
    {[r \in Runs |-> Stored(r, IF r \in odd THEN f ELSE "full", FALSE, "s1")] :
        odd \in {{1}, {2, 3}, {1, 2, 5, 6, 10, 14}}, f \in {"late", "slow"}}
    \cup {[r \in Runs |-> Stored(r, IF r > 8 THEN "torn" ELSE "full", FALSE, "s1")]}
    \cup {[r \in Runs |-> Stored(r, IF r \in {3, 7, 12} THEN f ELSE "full", r = 1, s)] :
        <<f, s>> \in {<<"full", "s1">>, <<"full", "s2">>, <<"torn", "s1">>}}

MCTrials == {<<1, 4, 6>>, <<6, 2, 4, 1>>}
MCBlocks == {<< <<1, 2, 3, 4>>, <<5, 6, 7, 8>> >>, << <<8, 5, 6, 7>>, <<4, 1, 2, 3>> >>}

MCManifests == {[checkpoints |-> Checks, feed |-> <<9, 10, 11, 12>>,
                 search |-> <<{13}, {14}, {15}, {16}>>]}

Observed(n, i, value, sound) ==
    [id |-> n, at |-> Checks[i] - 60 + n, retrieved |-> Checks[i] - 30 + n,
     value |-> value, sound |-> sound]
Still == {Observed(1, i, 7, TRUE) : i \in 1..4}
Daily == {Observed(1, i, i, TRUE) : i \in 1..4}
Once == {Observed(1, i, i \div 4, TRUE) : i \in 1..4}

(* The rating count moves daily; media and updates do, and the count once;  *)
(* one listing has no media; nothing was observed.                          *)
MCHistories ==
    {[s \in Series |-> IF s[2] = "rating_count" THEN Daily ELSE Still],
     [s \in Series |-> CASE s[2] = "yandex_games_rating" -> Still
                         [] s[2] = "rating_count" -> Once [] OTHER -> Daily],
     [s \in Series |-> IF s = <<l1, "media_manifest">> THEN {} ELSE Once],
     [s \in Series |-> {}]}

(* Late observations of the second day: a newer one, an unsound one, and    *)
(* one retrieved only after the checkpoint.                                 *)
MCBackfills ==
    {<< <<l1, "yandex_games_rating">>, Observed(2, 2, 8, TRUE)>>,
     << <<l2, "game_page_update">>, Observed(3, 2, 7, FALSE)>>,
     << <<l2, "game_page_update">>, Observed(40, 2, 9, TRUE)>>}

(* The statistics count, the code sorts: the middle of the sorted values or *)
(* the mean of the two middle ones, and linear interpolation between the    *)
(* two values nearest to a quarter or to three quarters of the way.         *)
ASSUME CountingIsSorting ==
    \A n \in 1..5 : \A list \in [1..n -> {0, 4, 8, 12}] :
        LET sorted == SortSeq(list, <) IN
        /\ Median(list) = (sorted[(n + 1) \div 2] + sorted[n \div 2 + 1]) \div 2
        /\ \A q \in {1, 3} :
              LET position == (n - 1) * q
                  low == sorted[position \div 4 + 1]
                  high == sorted[Min({position \div 4 + 2, n})] IN
              Quartile(list, q) = low + ((high - low) * (position % 4)) \div 4
=============================================================================
