------------------------------- MODULE Lists -------------------------------
EXTENDS Naturals, Sequences

\* The members of a list that are in a set, in the order of the list.
Keep(list, set) ==
  LET kept[n \in 0..Len(list)] ==
        IF n = 0 THEN <<>>
        ELSE IF list[n] \in set THEN Append(kept[n - 1], list[n])
        ELSE kept[n - 1]
  IN  kept[Len(list)]
=============================================================================
