------------------------------ MODULE LRUStore ------------------------------
(***************************************************************************)
(* What the cache promises, without its list, its counter, its mutex and   *)
(* its loop: "entries are evicted in least-recently-used order when the    *)
(* total cached size exceeds the configured capacity", and a Set keeps the *)
(* entry it inserts.  Recency is a relation: newer[k] is the set of stored *)
(* keys used since k was last used.  What a lookup finds is visible, so a  *)
(* lookup that does not count as a use shows as well.                      *)
(***************************************************************************)
EXTENDS Integers, Functions

CONSTANTS Keys, Data, Size, MaxBytes, Nil

VARIABLES
    content,    \* key -> data, or Nil
    newer,      \* key -> the stored keys used since it was
    answer      \* the key and what the latest lookup of it found, or Nil

Init ==
    /\ content = [k \in Keys |-> Nil]
    /\ newer = [k \in Keys |-> {}]
    /\ answer = Nil

Stored == {k \in Keys : content[k] # Nil}

(* The recency of every key once k has been used: k is newer than all.     *)
Touched(k) ==
    [j \in Keys |-> IF j = k \/ j \notin Stored THEN {} ELSE newer[j] \cup {k}]

(* A lookup finds what is stored, which is a use of it, or nothing.        *)
Find(k) ==
    /\ answer' = [key |-> k, found |-> content[k]]
    /\ newer' = IF k \in Stored THEN Touched(k) ELSE newer
    /\ UNCHANGED content

(* The bytes of the keys in S when their data is as c says.                *)
Bytes(c, S) == SumFunction([j \in S |-> Size[c[j]]])

(* k's data becomes d and k the newest key.  Of the others, those are kept *)
(* that fit together with every key newer than they are.                   *)
Put(k, d) ==
    LET c == [content EXCEPT ![k] = d]
        n == Touched(k)
        keep == {k} \cup {j \in Stored : Bytes(c, n[j] \cup {j}) <= MaxBytes}
    IN  /\ content' = [j \in Keys |-> IF j \in keep THEN c[j] ELSE Nil]
        /\ newer' = [j \in Keys |-> IF j \in keep THEN n[j] ELSE {}]
        /\ UNCHANGED answer

Next ==
    \/ \E k \in Keys : Find(k)
    \/ \E k \in Keys, d \in Data : Put(k, d)

Spec == Init /\ [][Next]_<<content, newer, answer>>
=============================================================================
