--------------------------------- MODULE Lists ---------------------------------
(***************************************************************************)
(* What the code does with lists of names in a loop, as functions          *)
(* recursive along the list.                                               *)
(***************************************************************************)
EXTENDS Naturals, FiniteSets, SequencesExt

IsList(value) == value \in Seq(ToSet(value))

\* MUTANT: a list replaces the one before it.
Overwritten(current, new) == new

\* Each entry that is not there yet is appended.
Appended(current, new) ==
  LET list[i \in 0..Len(new)] ==
        IF i = 0 THEN current
        ELSE IF Contains(list[i - 1], new[i]) THEN list[i - 1] ELSE Append(list[i - 1], new[i])
  IN list[Len(new)]

\* The members of S in the order of the list
Among(list, S) ==
  LET among[i \in 0..Len(list)] ==
        IF i = 0 THEN <<>>
        ELSE IF list[i] \in S THEN Append(among[i - 1], list[i]) ELSE among[i - 1]
  IN among[Len(list)]

\* sorted: the numbers of S, smallest first
Ascending(S) ==
  LET list[i \in 0..Cardinality(S)] ==
        IF i = 0 THEN <<>>
        ELSE LET sofar == list[i - 1] IN Append(sofar, Min(S \ ToSet(sofar)))
  IN list[Cardinality(S)]
=============================================================================
