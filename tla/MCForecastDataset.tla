-------------------------- MODULE MCForecastDataset --------------------------
(* TLC instance of ForecastDataset.  Days 1 and 2 train, 3 validates and 4 *)
(* tests.  A day file holds the flows of its slots, the latest first; in   *)
(* days 1 and 4 every slot is empty, benign or under attack.  A row with a *)
(* date of another day may be among them, or more rows of the test day.    *)
EXTENDS ForecastDataset, SequencesExt

MCDays == 1 .. 4
MCDayRole == <<"train", "train", "validation", "test">>
(* A row of the first slot or of the last is in no block.                  *)
MCStarts == [train |-> 1, validation |-> 3, test |-> 4, end |-> 4]

Flow(day, date, slot, kind) ==
    [day |-> day, date |-> date, slot |-> slot, attack |-> kind = "attack"]

DayFile(day, pattern) ==
    LET busy == {i \in DOMAIN pattern : pattern[i] # "none"}
    IN  [i \in 1 .. Cardinality(busy) |->
            LET p == SetToSortSeq(busy, LAMBDA a, b : a > b)[i]
            IN  Flow(day, day, p - 1, pattern[p])]

Patterns(kinds, n) == [1 .. n -> kinds] \ {[i \in 1 .. n |-> "none"]}

(* Rows of the test day that are not in order of time, enough of them for  *)
(* windows in each block of the single-day experiment.                     *)
Busy == <<Flow(4, 4, 2, "benign"), Flow(4, 4, 1, "attack"), Flow(4, 4, 3, "attack"),
          Flow(4, 4, 3, "benign"), Flow(4, 4, 3, "attack"), Flow(4, 4, 4, "benign"),
          Flow(4, 4, 4, "attack"), Flow(4, 4, 4, "benign")>>

Strays == {<<>>, <<Flow(1, 2, 4, "attack")>>, <<Flow(4, 3, 1, "attack")>>}

TestPatterns ==
    Patterns({"none", "attack"}, 5)
        \cup {<<"benign", "none", "none", "none", "none">>}

Days(first, middle, tested) ==
    DayFile(1, first) \o middle \o DayFile(2, <<"attack", "benign", "attack">>)
        \o DayFile(3, <<"none", "benign", "attack", "none", "benign">>)
        \o DayFile(4, tested)

MCCaptures ==
    {Days(first, stray, tested) :
        first \in Patterns({"none", "benign", "attack"}, 4),
        stray \in Strays, tested \in TestPatterns}
    \cup {Days(<<"benign", "none", "attack", "benign">>, stray, tested) :
        stray \in {Busy, Append(Busy, Flow(4, 4, 5, "benign"))},
        tested \in TestPatterns}
==============================================================================
