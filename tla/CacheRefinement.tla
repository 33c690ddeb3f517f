-------------------------- MODULE CacheRefinement --------------------------
(***************************************************************************)
(* The cache implements the LRU store.  An entry that the running Set is   *)
(* still to evict is already gone for the abstract store, so Set's first   *)
(* step is the abstract Put and every turn of its loop a stutter.  What    *)
(* Get returns is recorded in a history variable, which decides nothing.   *)
(***************************************************************************)
EXTENDS Cache

ASSUME NilDataAssumption == Nil \notin Data

VARIABLE answer     \* the key and what the latest Get of it returned, or Nil

InitAnswer == Init /\ answer = Nil

(* A Get returns the data of the key's element, or Nil.                    *)
GetAnswer(k) ==
    /\ Get(k)
    /\ answer' = [key |-> k, found |-> IF items[k] = Nil THEN Nil ELSE items[k].data]

NextAnswer ==
    \/ \E k \in Keys : GetAnswer(k)
    \/ /\ \/ \E c \in Callers, k \in Keys, d \in Data : Set(c, k, d)
          \/ \E c \in Callers : EvictBack(c) \/ SetReturn(c)
       /\ UNCHANGED answer

SpecAnswer == InitAnswer /\ [][NextAnswer]_<<vars, answer>>

(* A caller inside Set keeps running; nobody is obliged to call.           *)
FairSpecAnswer == SpecAnswer /\ WF_vars(\E c \in Callers : EvictBack(c) \/ SetReturn(c))

(* The keys listed from the front of s up to k.                            *)
UpTo(s, k) == {s[i].k : i \in {i \in DOMAIN s : \E j \in DOMAIN s : i <= j /\ s[j].k = k}}

(* The bytes of the keys in S, as the map has them.                        *)
BytesOf(S) == SumFunction([k \in S |-> Size[items[k].data]])

(* The keys that are left when the running Set (if any) has returned.      *)
Kept == {k \in Keys : /\ items[k] # Nil
                      /\ lru[1].k = k \/ BytesOf(UpTo(lru, k)) <= MaxBytes}

ContentKept == [k \in Keys |-> IF k \in Kept THEN items[k].data ELSE Nil]

NewerKept == [k \in Keys |-> IF k \in Kept THEN UpTo(lru, k) \ {k} ELSE {}]

LRU == INSTANCE LRUStore WITH content <- ContentKept, newer <- NewerKept

(* Every behaviour of the cache is one of the LRU store: only the least    *)
(* recently used entries go, only when they do not fit, never the newest;  *)
(* a hit and a replacement both count as a use.                            *)
ImplementsLRU == LRU!Spec
=============================================================================
