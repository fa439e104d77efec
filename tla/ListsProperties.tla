-------------------------- MODULE ListsProperties --------------------------
(***************************************************************************)
(* What list.h promises: a list is a sequence of elements, and each call   *)
(* changes the sequences as its comment says and nothing else.             *)
(***************************************************************************)
EXTENDS Lists

Seqs(h) == [l \in List |-> Visited(h, l)]
seq == Seqs(heap)

\* Read backwards a list has the same elements as read forwards.
Backward(h, l) ==
    Visited([next |-> [h.prev EXCEPT ![Head1(l)] = h.prev[Tail1(l)]], prev |-> h.next], l)
Linked(h) == \A l \in List : Backward(h, l) = Reverse(Visited(h, l))

Gives(h, s) == Linked(h) /\ Seqs(h) = s
Place(l, i) == (seq[l] \o <<Tail1(l)>>)[i]
Indices(l) == 1..(Len(seq[l]) + 1)
Ascending(s) == \A i, j \in DOMAIN s : i < j => value[s[i]] <= value[s[j]]

InsertedRight ==
    \A l \in List, e \in {x \in Elem : ~Member(x)} :
        \A i \in Indices(l) :
            Gives(insert(heap, Place(l, i), e), [seq EXCEPT ![l] = InsertAt(@, i, e)])

RemovedRight ==
    \A l \in List : \A i \in DOMAIN seq[l] :
        Gives(remove(heap, seq[l][i]), [seq EXCEPT ![l] = RemoveAt(@, i)])

\* Part i..j - 1 of m is where place k of l was, and nowhere else.
PartMoves(l, m, i, j, k) ==
    LET moved == SubSeq(seq[m], i, j - 1)
        others == [seq EXCEPT ![m] = SubSeq(@, 1, i - 1) \o SubSeq(@, j, Len(@))]
        at == IF l = m /\ k >= j THEN k - Len(moved) ELSE k
    IN  Gives(splice(heap, Place(l, k), Place(m, i), Place(m, j)),
              [others EXCEPT ![l] = SubSeq(@, 1, at - 1) \o moved \o SubSeq(@, at, Len(@))])

SplicedRight ==
    \A l, m \in List : \A i, j \in Indices(m), k \in Indices(l) :
        i <= j /\ (l = m => k \notin i..(j - 1)) => PartMoves(l, m, i, j, k)

ReversedRight == \A l \in List : Gives(reverse(heap, l), [seq EXCEPT ![l] = Reverse(@)])

OrderedInsertRight ==
    \A l \in List, e \in {x \in Elem : ~Member(x)} :
        Ascending(seq[l]) =>
            LET s == Visited(insert_ordered(heap, l, e), l)
            IN  Ascending(s) /\ s \in {InsertAt(seq[l], i, e) : i \in Indices(l)}

\* The elements at the indices in I, in their order.
Chosen(s, I) == SelectSeq(s, LAMBDA n : \E i \in I : s[i] = n)

FilteredRight ==
    \A l \in List, m \in List :
        LET kept == {i \in DOMAIN seq[l] : i = 1 \/ value[seq[l][i]] # value[seq[l][i - 1]]}
        IN  l # m =>
              Gives(unique(heap, l, m),
                    [seq EXCEPT ![l] = Chosen(@, kept), ![m] = @ \o Chosen(seq[l], DOMAIN seq[l] \ kept)])

\* n is the first of the elements of l that are extreme in the order.
IsFirst(n, l, order(_, _)) ==
    IF seq[l] = <<>> THEN n = Tail1(l)
    ELSE \E i \in DOMAIN seq[l] :
            /\ n = seq[l][i]
            /\ \A j \in DOMAIN seq[l] : order(value[n], value[seq[l][j]])
            /\ \A j \in 1..(i - 1) : value[seq[l][j]] # value[n]

\* t holds what s holds, in ascending order, and equal elements as s has them.
IsStableSort(t, s) ==
    /\ Len(t) = Len(s) /\ Ascending(t)
    /\ \A i, j \in DOMAIN s : i < j /\ value[s[i]] <= value[s[j]] =>
          \E k, m \in DOMAIN t : k < m /\ t[k] = s[i] /\ t[m] = s[j]

\* Lists are sequences, whatever was done to them before and in whatever order: each has the
\* same elements forwards and backwards, each call changes the links of up to six elements, of
\* which some may still have links of a list they were in, and leaves every other element
\* where it is; sorting in place loses none on the way.
ListsAreSequences ==
    /\ Linked(heap)
    /\ sort = Idle => InsertedRight /\ RemovedRight /\ SplicedRight /\ ReversedRight
    /\ sort # Idle => ToSet(seq[sort.list]) = ToSet(sort.given)

\* The calls that compare elements choose the right ones; a list that was sorted is in order
\* and has equal elements in the order in which it was handed over.
OrderIsRight ==
    /\ sort = Idle =>
          /\ OrderedInsertRight /\ FilteredRight
          /\ \A l \in List :
                /\ IsFirst(list_max(l), l, LAMBDA x, y : x >= y)
                /\ IsFirst(list_min(l), l, LAMBDA x, y : x <= y)
    /\ sort.at = "done" => IsStableSort(seq[sort.list], sort.given)
=============================================================================
