------------------------------ MODULE TopoSort ------------------------------
(***************************************************************************)
(* yang:topo_sort, the sort on lists of pairs <<x, y>>, "x before y", that *)
(* orders groupings (and plugins).                                         *)
(*                                                                         *)
(* A round of topo_iterate takes the left-hand sides that are on no right- *)
(* hand side and drops their pairs; the rounds are actions of Groupings.   *)
(***************************************************************************)
EXTENDS Integers, Sequences, Functions

Lhs(pairs) == [i \in DOMAIN pairs |-> pairs[i][1]]
Rhs(pairs) == [i \in DOMAIN pairs |-> pairs[i][2]]

(* What a list comprehension keeps: the elements of s at the places I.     *)
Chosen(s, I) ==
  LET upto[k \in 0..Len(s)] ==
        IF k = 0 THEN <<>>
        ELSE IF k \in I THEN Append(upto[k - 1], s[k]) ELSE upto[k - 1]
  IN  upto[Len(s)]

(* topo_subtract                                                           *)
Subtract(s, t) == Chosen(s, {i \in DOMAIN s : s[i] \notin Range(t)})

(* The elements of s in the order of their first occurrence.               *)
FirstOccurrences(s) ==
  Chosen(s, {i \in DOMAIN s : \A j \in 1..(i - 1) : s[j] # s[i]})

(* topo_remove_duplicates: the last occurrence stays.                      *)
LastOccurrences(s) ==
  Chosen(s, {i \in DOMAIN s : \A j \in (i + 1)..Len(s) : s[j] # s[i]})

(* topo_all                                                                *)
All(pairs) == Lhs(pairs) \o Rhs(pairs)

(* What a round takes.                                                     *)
Taken(pairs) == Subtract(Lhs(pairs), Rhs(pairs))

(* topo_remove_pairs for what the round takes.                             *)
Left(pairs) ==
  Chosen(pairs, {i \in DOMAIN pairs : pairs[i][1] \in Range(Rhs(pairs))})
=============================================================================
