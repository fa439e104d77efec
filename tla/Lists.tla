------------------------------- MODULE Lists -------------------------------
(***************************************************************************)
(* Doubly linked lists with a head and a tail element each, as             *)
(* lib/kernel/list.c keeps them: the links of all elements are one heap,   *)
(* and an element that was removed keeps the links it had.  The kernel's   *)
(* queues (ready list, waiters, open inodes, blocks, buckets) are these.   *)
(***************************************************************************)
EXTENDS Integers, Sequences, SequencesExt

CONSTANTS List, Elem,
          Keys          \* values that elements are compared by

VARIABLES next, prev,   \* links
          value,        \* key of each element: less compares these
          sort          \* locals of list_sort while it runs

listVars == <<next, prev, value, sort>>
heap == [next |-> next, prev |-> prev]

Head1(l) == <<l, "head">>
Tail1(l) == <<l, "tail">>
Null     == <<"null", "null">>
Nodes    == Elem \cup {Head1(l) : l \in List} \cup {Tail1(l) : l \in List}
less(a, b) == value[a] < value[b]

ASSUME ListsAssumption ==
    /\ IsFiniteSet(Elem)
    /\ Elem \cap ({Null} \cup {Head1(l) : l \in List} \cup {Tail1(l) : l \in List}) = {}

Idle == [at |-> "idle"]

\* list_init of every list; elements have never been in one.
ListsInit ==
    /\ next = [n \in Nodes |-> IF n \in Elem \/ n[2] = "tail" THEN Null ELSE Tail1(n[1])]
    /\ prev = [n \in Nodes |-> IF n \in Elem \/ n[2] = "head" THEN Null ELSE Head1(n[1])]
    /\ value \in [Elem -> Keys] /\ sort = Idle

-----------------------------------------------------------------------------
(* The list as a loop from list_begin to list_end meets it                  *)

Visited(h, l) ==
    LET at[i \in 0..Cardinality(Elem)] ==
            IF i = 0 THEN h.next[Head1(l)] ELSE IF at[i - 1] \in Elem THEN h.next[at[i - 1]] ELSE at[i - 1]
        met == {i \in 0..Cardinality(Elem) : at[i] \in Elem}
    IN  [i \in 1..Cardinality(met) |-> at[i - 1]]

Member(e) == \E l \in List : e \in ToSet(Visited(heap, l))

-----------------------------------------------------------------------------
(* What is done to the links                                                *)

insert(h, before, e) ==
    [next |-> [h.next EXCEPT ![e] = before, ![h.prev[before]] = e],
     prev |-> [h.prev EXCEPT ![e] = h.prev[before], ![before] = e]]

remove(h, e) ==
    [next |-> [h.next EXCEPT ![h.prev[e]] = h.next[e]],
     prev |-> [h.prev EXCEPT ![h.next[e]] = h.prev[e]]]

\* Mutant: the last element is looked up when the part is already cut out.
splice_LateLast(h, before, first, end) ==
    IF first = end THEN h
    ELSE LET cut == [next |-> [h.next EXCEPT ![h.prev[first]] = end],
                     prev |-> [h.prev EXCEPT ![end] = h.prev[first]]]
             last == cut.prev[end]
         IN  [next |-> [cut.next EXCEPT ![last] = before, ![cut.prev[before]] = first],
              prev |-> [cut.prev EXCEPT ![first] = cut.prev[before], ![before] = last]]

\* first up to and without end go before another element: last is the one before end.
splice(h, before, first, end) ==
    IF first = end THEN h
    ELSE LET last == h.prev[end]
             cut == [next |-> [h.next EXCEPT ![h.prev[first]] = end],
                     prev |-> [h.prev EXCEPT ![end] = h.prev[first]]]
         IN  [next |-> [cut.next EXCEPT ![last] = before, ![cut.prev[before]] = first],
              prev |-> [cut.prev EXCEPT ![first] = cut.prev[before], ![before] = last]]

\* Every element's links are swapped, then what head and tail point to, then what those
\* elements have for head and tail.
reverse(h, l) ==
    LET swapped == ToSet(Visited(h, l))
        first == h.next[Head1(l)]
        last == h.prev[Tail1(l)]
        turned == [next |-> [n \in Nodes |-> IF n \in swapped THEN h.prev[n] ELSE h.next[n]],
                   prev |-> [n \in Nodes |-> IF n \in swapped THEN h.next[n] ELSE h.prev[n]]]
    IN  IF swapped = {} THEN h
        ELSE [next |-> [turned.next EXCEPT ![Head1(l)] = last, ![first] = turned.prev[last]],
              prev |-> [turned.prev EXCEPT ![Tail1(l)] = first, ![last] = turned.next[first]]]

insert_ordered(h, l, e) ==
    LET s == Visited(h, l)
        i == SelectInSeq(s, LAMBDA n : less(e, n))
    IN  insert(h, IF i = 0 THEN Tail1(l) ELSE s[i], e)

\* Of neighbours that are equal the first stays, the others go to dups.
unique(h, l, dups) ==
    LET all == Visited(h, l)
        step(s, n) == IF ~less(s.elem, n) /\ ~less(n, s.elem)
                      THEN [s EXCEPT !.heap = insert(remove(@, n), Tail1(dups), n)]
                      ELSE [s EXCEPT !.elem = n]
        after[i \in 1..Len(all)] == IF i = 1 THEN [heap |-> h, elem |-> all[1]] ELSE step(after[i - 1], all[i])
    IN  IF all = <<>> THEN h ELSE after[Len(all)].heap

list_max(l) ==
    LET s == Visited(heap, l)
    IN  IF s = <<>> THEN Tail1(l) ELSE FoldLeft(LAMBDA m, n : IF less(m, n) THEN n ELSE m, s[1], Tail(s))
list_min(l) ==
    LET s == Visited(heap, l)
    IN  IF s = <<>> THEN Tail1(l) ELSE FoldLeft(LAMBDA m, n : IF less(n, m) THEN n ELSE m, s[1], Tail(s))

-----------------------------------------------------------------------------
(* Calls                                                                    *)

Places(l) == ToSet(Visited(heap, l)) \cup {Tail1(l)}
Call(h) == sort = Idle /\ next' = h.next /\ prev' = h.prev /\ UNCHANGED <<value, sort>>

\* list_push_front and list_push_back are this, before the first place and the last.
list_insert(l, e) == ~Member(e) /\ \E before \in Places(l) : Call(insert(heap, before, e))
list_insert_ordered(l, e) == ~Member(e) /\ Call(insert_ordered(heap, l, e))
list_remove(e) == Member(e) /\ Call(remove(heap, e))
list_reverse(l) == Call(reverse(heap, l))
list_unique(l, dups) == l # dups /\ Call(unique(heap, l, dups))

\* A part of list m goes to another list, or to another place of m outside that part.
list_splice(l, m) ==
    LET s == Visited(heap, m) \o <<Tail1(m)>>
    IN  \E i, j \in DOMAIN s, before \in Places(l) :
            /\ i <= j /\ before \notin {s[k] : k \in i..(j - 1)}
            /\ Call(splice(heap, before, s[i], s[j]))

-----------------------------------------------------------------------------
(* list_sort, one step of its loops after the other.  given is the list as  *)
(* it was handed over.                                                      *)

find_end_of_run(l, a) ==
    LET s == Visited(heap, l)
        from == SelectInSeq(s, LAMBDA n : n = a)
        ends == {i \in (from + 1)..Len(s) : less(s[i], s[i - 1])}
    IN  IF ends = {} THEN Tail1(l) ELSE s[CHOOSE i \in ends : \A j \in ends : i <= j]

list_sort(l) ==
    /\ sort = Idle
    /\ sort' = [at |-> "run", list |-> l, a0 |-> next[Head1(l)], runs |-> 0, given |-> Visited(heap, l)]
    /\ UNCHANGED <<next, prev, value>>

\* Two runs are found; at the end of a pass there is another one unless there was one run.
FindRuns ==
    LET l == sort.list
        a1b0 == find_end_of_run(l, sort.a0)
        again == [at |-> "run", list |-> l, a0 |-> next[Head1(l)], runs |-> 0, given |-> sort.given]
    IN  /\ sort.at = "run"
        /\ sort' = IF sort.a0 = Tail1(l) \/ a1b0 = Tail1(l)
                   THEN IF sort.runs + (IF sort.a0 = Tail1(l) THEN 0 ELSE 1) > 1 THEN again
                        ELSE [at |-> "done", list |-> l, given |-> sort.given]
                   ELSE [at |-> "merge", list |-> l, a0 |-> sort.a0, a1b0 |-> a1b0, given |-> sort.given,
                         b1 |-> find_end_of_run(l, a1b0), runs |-> sort.runs + 1]
        /\ UNCHANGED <<next, prev, value>>

\* inplace_merge: the first element of the second run stays behind a0, or goes before it.
Merge ==
    /\ sort.at = "merge"
    /\ IF sort.a0 = sort.a1b0 \/ sort.a1b0 = sort.b1
       THEN /\ sort' = [at |-> "run", list |-> sort.list, a0 |-> sort.b1, runs |-> sort.runs, given |-> sort.given]
            /\ UNCHANGED <<next, prev>>
       ELSE IF ~less(sort.a1b0, sort.a0)
       THEN sort' = [sort EXCEPT !.a0 = next[@]] /\ UNCHANGED <<next, prev>>
       ELSE /\ sort' = [sort EXCEPT !.a1b0 = next[@]]
            /\ LET h == splice(heap, sort.a0, sort.a1b0, next[sort.a1b0])
               IN  next' = h.next /\ prev' = h.prev
    /\ UNCHANGED value

SortReturns == sort.at = "done" /\ sort' = Idle /\ UNCHANGED <<next, prev, value>>

ListsNext ==
    \/ FindRuns \/ Merge \/ SortReturns
    \/ \E e \in Elem : list_remove(e)
    \/ \E l \in List :
          \/ list_reverse(l) \/ list_sort(l)
          \/ \E e \in Elem : list_insert(l, e) \/ list_insert_ordered(l, e)
          \/ \E m \in List : list_unique(l, m) \/ list_splice(l, m)

ListsSpec == ListsInit /\ [][ListsNext]_listVars
=============================================================================
