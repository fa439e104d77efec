----------------------------- MODULE HashTable -----------------------------
(***************************************************************************)
(* The chained hash table of lib/kernel/hash.c.  Its buckets are lists, by *)
(* ListsAreSequences sequences; the table grows and shrinks with the number*)
(* of its elements, unless there is no memory for the new buckets.         *)
(***************************************************************************)
EXTENDS Integers, Sequences, SequencesExt

CONSTANTS HashElem,
          KeyOf(_),             \* what less compares
          HashOf(_),            \* hash of a key
          MIN_BUCKETS,          \* 4: buckets at first and at least
          BEST_ELEMS_PER_BUCKET \* 2

ASSUME HashTableAssumption ==
    MIN_BUCKETS \in Nat \ {0} /\ BEST_ELEMS_PER_BUCKET \in Nat \ {0}

VARIABLES buckets, elem_cnt

hashVars == <<buckets, elem_cnt>>
table == [buckets |-> buckets, elem_cnt |-> elem_cnt]

Empty(bucket_cnt) == [i \in 0..(bucket_cnt - 1) |-> <<>>]
HashInit == buckets = Empty(MIN_BUCKETS) /\ elem_cnt = 0

-----------------------------------------------------------------------------

\* bucket_cnt is a power of two, so that & (bucket_cnt - 1) takes the rest.
find_bucket(h, e) == HashOf(KeyOf(e)) % Cardinality(DOMAIN h.buckets)

\* The elements of a bucket that are equal to e; find_elem returns the first.
Equal(h, e) == SelectSeq(h.buckets[find_bucket(h, e)], LAMBDA n : KeyOf(n) = KeyOf(e))
find_elem(h, e) == IF Equal(h, e) = <<>> THEN {} ELSE {Equal(h, e)[1]}

insert_elem(h, i, e) == [buckets |-> [h.buckets EXCEPT ![i] = <<e>> \o @], elem_cnt |-> h.elem_cnt + 1]

remove_elem(h, e) ==
    [buckets |-> [i \in DOMAIN h.buckets |-> SelectSeq(h.buckets[i], LAMBDA n : n # e)],
     elem_cnt |-> h.elem_cnt - 1]

\* The largest power of two that is not larger than n: turning off the lowest bit of n
\* again and again leaves its highest.
PowerOf2(n) == CHOOSE p \in {2 ^ k : k \in 0..n} : p <= n /\ n < 2 * p

BestCount(h) ==
    LET best == h.elem_cnt \div BEST_ELEMS_PER_BUCKET
    IN  PowerOf2(IF best < MIN_BUCKETS THEN MIN_BUCKETS ELSE best)

AllElements(h) == FoldLeft(LAMBDA s, i : s \o h.buckets[i - 1], <<>>, [i \in 1..Cardinality(DOMAIN h.buckets) |-> i])

\* Mutant: elements stay in buckets of the old number.
rehash_Stale(h, memory) ==
    LET count == BestCount(h)
        move(g, e) == [g EXCEPT !.buckets[find_bucket(h, e) % count] = <<e>> \o @]
    IN  IF count = Cardinality(DOMAIN h.buckets) \/ ~memory THEN h
        ELSE FoldLeft(move, [h EXCEPT !.buckets = Empty(count)], AllElements(h))

\* Every element is moved to the front of its new bucket.
rehash(h, memory) ==
    LET count == BestCount(h)
        move(g, e) == [g EXCEPT !.buckets[find_bucket(g, e)] = <<e>> \o @]
    IN  IF count = Cardinality(DOMAIN h.buckets) \/ ~memory THEN h
        ELSE FoldLeft(move, [h EXCEPT !.buckets = Empty(count)], AllElements(h))

\* hash_first, and hash_next until it returns null: the place is the element in its bucket.
hash_next(h, place) ==
    LET later == {i \in DOMAIN h.buckets : i > place[1] /\ h.buckets[i] # <<>>}
    IN  IF place[2] < Len(h.buckets[place[1]]) THEN <<place[1], place[2] + 1>>
        ELSE IF later = {} THEN <<>> ELSE <<CHOOSE i \in later : \A j \in later : i <= j, 1>>

Iterated(h) ==
    LET place[n \in Nat] ==
            IF n = 0 THEN <<0, 0>>
            ELSE IF place[n - 1] = <<>> THEN <<>> ELSE hash_next(h, place[n - 1])
        count == CHOOSE n \in 0..Cardinality(HashElem) : place[n + 1] = <<>>
    IN  [n \in 1..count |-> h.buckets[place[n][1]][place[n][2]]]

-----------------------------------------------------------------------------

hash_insert(h, e, memory) ==
    rehash(IF find_elem(h, e) = {} THEN insert_elem(h, find_bucket(h, e), e) ELSE h, memory)

hash_replace(h, e, memory) ==
    LET old == find_elem(h, e)
        without == IF old = {} THEN h ELSE remove_elem(h, CHOOSE n \in old : TRUE)
    IN  rehash(insert_elem(without, find_bucket(h, e), e), memory)

hash_delete(h, e, memory) ==
    LET found == find_elem(h, e)
    IN  IF found = {} THEN h ELSE rehash(remove_elem(h, CHOOSE n \in found : TRUE), memory)

hash_clear(h) == [buckets |-> [i \in DOMAIN h.buckets |-> <<>>], elem_cnt |-> 0]

Hashed(h) == buckets' = h.buckets /\ elem_cnt' = h.elem_cnt

\* An element is handed over that is not in the table; one is looked for by any equal one.
HashNext ==
    \/ \E e \in HashElem, memory \in BOOLEAN :
          \/ /\ \A i \in DOMAIN buckets : e \notin ToSet(buckets[i])
             /\ Hashed(hash_insert(table, e, memory)) \/ Hashed(hash_replace(table, e, memory))
          \/ Hashed(hash_delete(table, e, memory))
    \/ Hashed(hash_clear(table))

-----------------------------------------------------------------------------
(* What hash.h promises: a table is a set of elements of different keys.   *)

Members(h) == UNION {ToSet(h.buckets[i]) : i \in DOMAIN h.buckets}
SameKey(S, e) == {n \in S : KeyOf(n) = KeyOf(e)}

\* The table is the set S: an iteration meets each of its elements once, hash_size is
\* their number, and looking for a key finds the element that has it.
IsTable(h, S) ==
    /\ Members(h) = S /\ h.elem_cnt = Cardinality(S)
    /\ Len(Iterated(h)) = Cardinality(S) /\ ToSet(Iterated(h)) = S
    /\ \A e \in HashElem : find_elem(h, e) = SameKey(S, e)

\* However often the table grew or shrank, or failed to for want of memory, inserting adds
\* the element unless its key is there, replacing puts it in the place of the one with its
\* key, deleting takes that out, and every other element can still be found.
TableIsSet ==
    LET S == Members(table)
    IN  /\ IsTable(table, S)
        /\ \A e \in HashElem, memory \in BOOLEAN :
              /\ e \notin S =>
                    /\ IsTable(hash_insert(table, e, memory), IF SameKey(S, e) = {} THEN S \cup {e} ELSE S)
                    /\ IsTable(hash_replace(table, e, memory), (S \ SameKey(S, e)) \cup {e})
              /\ IsTable(hash_delete(table, e, memory), S \ SameKey(S, e))
=============================================================================
