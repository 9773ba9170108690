---------------------------- MODULE KeyedStore -----------------------------
(***************************************************************************)
(* What a user of aq_map and of AQHashTable relies on: a partial function  *)
(* from keys to values that insert, emplace and erase change at one key.   *)
(***************************************************************************)
CONSTANTS Keys, Vals
VARIABLE contents

Init == contents = <<>>
\* emplace keeps what is there, insert_or_assign replaces it.
Emplace(k, v) == k \notin DOMAIN contents /\ contents' = [x \in DOMAIN contents \cup {k} |->
                                                          IF x = k THEN v ELSE contents[x]]
Assign(k, v) == k \in DOMAIN contents /\ contents' = [contents EXCEPT ![k] = v]
Erase(k) == k \in DOMAIN contents /\ contents' = [x \in DOMAIN contents \ {k} |-> contents[x]]
Clear == contents' = <<>>
Next == \/ \E k \in Keys : Erase(k) \/ \E v \in Vals : Emplace(k, v) \/ Assign(k, v)
        \/ Clear
Spec == Init /\ [][Next]_contents
=============================================================================
