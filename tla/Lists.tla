------------------------------- MODULE Lists -------------------------------
(***************************************************************************)
(* Loops over lists that the modules of the detector share, each as the    *)
(* function that gives what the loop has after so many turns: a proof      *)
(* follows them turn by turn.                                              *)
(***************************************************************************)
EXTENDS Integers, Sequences

\* A loop that pushes the entries at some places back.
KeptAfter(list, places) ==
    LET kept[n \in Nat] ==
          IF n = 0 THEN <<>>
          ELSE IF n \in places THEN Append(kept[n - 1], list[n]) ELSE kept[n - 1]
    IN  kept

Kept(list, places) == KeptAfter(list, places)[Len(list)]

\* A loop that adds the numbers of a list.
SumAfter(numbers) ==
    LET sum[n \in 0..Len(numbers)] ==
          IF n = 0 THEN 0 ELSE sum[n - 1] + numbers[n]
    IN  sum

Total(numbers) == SumAfter(numbers)[Len(numbers)]

\* A loop that writes the lists of a list one after another.
ConcatenatedAfter(lists) ==
    LET joined[n \in 0..Len(lists)] ==
          IF n = 0 THEN <<>> ELSE joined[n - 1] \o lists[n]
    IN  joined

Concatenated(lists) == ConcatenatedAfter(lists)[Len(lists)]

=============================================================================
