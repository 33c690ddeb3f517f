------------------------------- MODULE Cache -------------------------------
(***************************************************************************)
(* The LRU store of rendered tracks, src/internal/cache/cache.go: a map    *)
(* from keys to list elements, a recency list (front = most recently       *)
(* used), a byte counter and one mutex around every operation.             *)
(*                                                                         *)
(* A key stands for a (source path, track index) pair and a member of Data *)
(* for a rendered WAV, of which only the length, Size[d], is told apart.   *)
(* A list element is the entry it holds.  An operation that keeps the      *)
(* mutex across no loop is one step; Set is one step per turn of its       *)
(* eviction loop, so that what the loop leaves behind at each turn shows.  *)
(***************************************************************************)
EXTENDS Integers, SequencesExt

CONSTANTS
    Callers,    \* the goroutines that call the cache
    Keys,
    Data,
    Size,       \* Size[d]: the bytes of d
    MaxBytes,
    Free,       \* mu: nobody holds the mutex
    Nil         \* items: the key has no element

Entry == [k : Keys, data : Data]

ASSUME SizeAssumption == Size \in [Data -> Nat]
ASSUME MaxBytesAssumption == MaxBytes \in Int
ASSUME FreeAssumption == Free \notin Callers
ASSUME NilAssumption == Nil \notin Entry

VARIABLES
    mu,         \* the caller that holds the mutex, or Free
    used,       \* the byte counter
    items,      \* key -> list element, or Nil
    lru         \* the recency list, most recently used first

vars == <<mu, used, items, lru>>

Init ==
    /\ mu = Free
    /\ used = 0
    /\ items = [k \in Keys |-> Nil]
    /\ lru = << >>

-----------------------------------------------------------------------------

\* list.Remove: s without the element e.
Without(s, e) == RemoveAt(s, CHOOSE i \in DOMAIN s : s[i] = e)

\* A Get that leaves the order of the list alone (a mutation of Get).
GetNoPromote(k) == mu = Free /\ UNCHANGED vars

(* Get: a hit moves the element to the front, a miss changes nothing.      *)
Get(k) ==
    /\ mu = Free
    /\ lru' = IF items[k] = Nil THEN lru ELSE Cons(items[k], Without(lru, items[k]))
    /\ UNCHANGED <<mu, used, items>>

\* A Set that forgets to unlink the element it replaces (a mutation of Set).
SetKeepOld(c, k, d) ==
    /\ mu = Free
    /\ mu' = c
    /\ lru' = Cons([k |-> k, data |-> d], lru)
    /\ items' = [items EXCEPT ![k] = [k |-> k, data |-> d]]
    /\ used' = used + Size[d]

\* A Set that takes the old bytes off and never adds the new (a mutation of Set).
SetForgetNew(c, k, d) ==
    /\ mu = Free
    /\ mu' = c
    /\ lru' = Cons([k |-> k, data |-> d],
                   IF items[k] = Nil THEN lru ELSE Without(lru, items[k]))
    /\ items' = [items EXCEPT ![k] = [k |-> k, data |-> d]]
    /\ used' = IF items[k] = Nil THEN used ELSE used - Size[items[k].data]

\* A Set that double-counts the bytes of the element it replaces.
SetDoubleCount(c, k, d) ==
    /\ mu = Free
    /\ mu' = c
    /\ lru' = Cons([k |-> k, data |-> d],
                   IF items[k] = Nil THEN lru ELSE Without(lru, items[k]))
    /\ items' = [items EXCEPT ![k] = [k |-> k, data |-> d]]
    /\ used' = used + Size[d]

(* Set, up to its loop: the mutex is taken, an existing element of k is    *)
(* unlinked and its bytes are taken off, the new entry goes to the front.  *)
Set(c, k, d) ==
    LET old == items[k]
        new == [k |-> k, data |-> d]
    IN  /\ mu = Free
        /\ mu' = c
        /\ lru' = Cons(new, IF old = Nil THEN lru ELSE Without(lru, old))
        /\ items' = [items EXCEPT ![k] = new]
        /\ used' = (IF old = Nil THEN used ELSE used - Size[old.data]) + Size[d]

\* A loop that stops while two entries are over capacity (a mutation).
OverCapacityKeepTwo == used > MaxBytes /\ Len(lru) > 2

(* The condition of Set's loop: the entry just inserted is never evicted.  *)
OverCapacity == used > MaxBytes /\ Len(lru) > 1

\* An eviction that takes the bytes off twice (a mutation of EvictBack).
EvictDoubleCount(c) ==
    /\ mu = c
    /\ OverCapacity
    /\ used' = used - 2 * Size[Last(lru).data]
    /\ lru' = Front(lru)
    /\ items' = [items EXCEPT ![Last(lru).k] = Nil]
    /\ UNCHANGED mu

\* An eviction that leaves the map entry behind (a mutation of EvictBack).
EvictListOnly(c) ==
    /\ mu = c
    /\ OverCapacity
    /\ used' = used - Size[Last(lru).data]
    /\ lru' = Front(lru)
    /\ UNCHANGED <<mu, items>>

(* One turn of Set's loop: the least recently used entry goes.             *)
EvictBack(c) ==
    /\ mu = c
    /\ OverCapacity
    /\ used' = used - Size[Last(lru).data]
    /\ lru' = Front(lru)
    /\ items' = [items EXCEPT ![Last(lru).k] = Nil]
    /\ UNCHANGED mu

\* A Set that returns with the mutex held (a mutation of SetReturn).
SetReturnLocked(c) == mu = c /\ ~OverCapacity /\ UNCHANGED vars

(* Set returns: the deferred unlock.                                       *)
SetReturn(c) ==
    /\ mu = c
    /\ ~OverCapacity
    /\ mu' = Free
    /\ UNCHANGED <<used, items, lru>>

Next ==
    \/ \E k \in Keys : Get(k)
    \/ \E c \in Callers, k \in Keys, d \in Data : Set(c, k, d)
    \/ \E c \in Callers : EvictBack(c) \/ SetReturn(c)

Spec == Init /\ [][Next]_vars

-----------------------------------------------------------------------------

(* The state stays within its types; the counter never goes negative.      *)
TypeOK ==
    /\ mu \in Callers \cup {Free}
    /\ used \in Nat
    /\ items \in [Keys -> Entry \cup {Nil}]
    /\ lru \in Seq(Entry)

(* The map and the list describe the same entries, at every turn of the    *)
(* loop as well as between calls: a key has an element exactly when the    *)
(* list holds it, the element is that of the key, and no key is listed     *)
(* twice.                                                                  *)
MapListAgree ==
    /\ \A k \in Keys : items[k] # Nil => /\ items[k].k = k
                                         /\ \E i \in DOMAIN lru : lru[i] = items[k]
    /\ \A i \in DOMAIN lru : items[lru[i].k] = lru[i]
    /\ \A i, j \in DOMAIN lru : lru[i].k = lru[j].k => i = j

(* t is the sum of the sizes of the entries of s, p the partial sums that  *)
(* show it.  The sum is stated by its partial sums, not by a recursion, so *)
(* that it can be proved about.                                            *)
PartialSums(s, t, p) ==
    /\ p[0] = 0
    /\ p[Len(s)] = t
    /\ \A i \in 1..Len(s) : p[i] = p[i - 1] + Size[s[i].data]

(* The counter is the sum of the sizes of the listed entries, whatever     *)
(* sequence of replacements and evictions led here: no entry's bytes are   *)
(* counted twice or kept after it is gone.                                 *)
UsedIsTotal == \E p \in [0..Len(lru) -> 0..used] : PartialSums(lru, used, p)

(* Between calls the store is within its capacity or holds one entry only: *)
(* a Set never returns with an entry that its loop should have evicted.    *)
WithinCapacity == mu = Free => used <= MaxBytes \/ Len(lru) <= 1

(* A Set ends: the mutex is always released again.                         *)
LockReleased == []<>(mu = Free)
=============================================================================
