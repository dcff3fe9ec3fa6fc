--------------------------- MODULE InsertionOrder ---------------------------
(***************************************************************************)
(* The order of the keys of a Python dictionary, kept as the set of pairs  *)
(* <<j, k>> such that j comes before k.  Deleting keys, adding one at the  *)
(* end and OrderedDict.move_to_end are operators on such a set, and a loop *)
(* over the dictionary that stops at the first match is First.             *)
(***************************************************************************)

\* r orders the keys S: every nonempty set of them has one that comes first.
IsOrder(r, S) ==
    /\ r \subseteq S \X S
    /\ \A k \in S : <<k, k>> \notin r
    /\ \A M \in SUBSET S :
          M # {} => \E k \in M : \A j \in M \ {k} : <<k, j>> \in r /\ <<j, k>> \notin r

\* The first of the keys M, which are some of those r orders.
First(M, r) == CHOOSE k \in M : \A j \in M \ {k} : <<k, j>> \in r

\* The keys that come before k.
Before(k, M, r) == {j \in M : <<j, k>> \in r}

\* The order of the keys S once the others are deleted.
Kept(r, S) == r \cap (S \X S)

\* The order of the keys S and k once k was added at the end, or moved there.
ToEnd(r, S, k) == Kept(r, S \ {k}) \cup ((S \ {k}) \X {k})

=============================================================================
