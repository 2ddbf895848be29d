------------------------------ MODULE MCSummaries ------------------------------
(* Summaries of two users, one of whom has left project q, over four days: week *)
(* 1 straddles the year end, week 2 a month end, and day 4 is a weekend.        *)
EXTENDS Summaries

CONSTANTS ann, bob, p, q, normal, travel, perdiem

MCMembersOf == [r \in Projects |-> IF r = p THEN {ann, bob} ELSE {ann}]
MCProjectOf == [i \in Items |-> IF i = travel THEN q ELSE p]
MCPresetOf  == [i \in Items |->
                   IF i = normal THEN "normal" ELSE IF i = travel THEN "travel" ELSE "day"]
MCWeekOf    == <<1, 1, 2, 2>>
MCMonthOf   == <<1, 2, 2, 3>>
MCYearOf    == <<1, 2, 2>>
=============================================================================
