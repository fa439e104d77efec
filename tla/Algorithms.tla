----------------------------- MODULE Algorithms -----------------------------
(***************************************************************************)
(* The pure functions of lib/: heap sort and binary search (stdlib.c), the *)
(* division of long words by short ones (arithmetic.c), copying and        *)
(* cutting of strings (string.c), and bitmaps (kernel/bitmap.c).  Memory   *)
(* is a function from addresses to bytes; a string ends at the first 0.    *)
(***************************************************************************)
EXTENDS Integers, Sequences, SequencesExt

CONSTANTS Bits,         \* of a short word, a power of two: 32
          ELEM_BITS     \* of an element of a bitmap: 32

b == 2 ^ Bits
Long(n) == n % (b * b)  \* an unsigned long word
Signed(n) == IF n < (b * b) \div 2 THEN n ELSE n - b * b

-----------------------------------------------------------------------------
(* Division                                                                 *)

\* Halving the width, x is shifted left wherever its upper half is empty.
nlz(x) ==
    LET step(s, shift) == IF s.x < 2 ^ (Bits - shift) THEN [n |-> s.n + shift, x |-> s.x * 2 ^ shift] ELSE s
        shifts == SelectSeq([i \in 1..Bits |-> Bits \div (2 ^ i)], LAMBDA k : k > 0)
    IN  FoldLeft(step, [n |-> 0, x |-> x], shifts).n

\* The instruction traps (here: -1) when the quotient is no short word.
divl(n, d) == IF d = 0 \/ n \div d >= b THEN -1 ELSE n \div d

\* Mutant: the estimate of the quotient is not corrected.
udiv64_Estimate(n, d) ==
    LET s == nlz(d \div b)
    IN  IF d < b THEN divl(b * ((n \div b) % d) + (n % b), d) + b * ((n \div b) \div d)
        ELSE IF n < d THEN 0
        ELSE divl(n \div 2, Long(d * 2 ^ s) \div b) \div 2 ^ (Bits - 1 - s)

udiv64(n, d) ==
    IF d < b THEN divl(b * ((n \div b) % d) + (n % b), d) + b * ((n \div b) \div d)
    ELSE IF n < d THEN 0
    ELSE LET s == nlz(d \div b)
             q == divl(n \div 2, Long(d * 2 ^ s) \div b) \div 2 ^ (Bits - 1 - s)
         IN  IF Long(n - (q - 1) * d) < d THEN q - 1 ELSE q

umod64(n, d) == (n - d * udiv64(n, d)) % b

sdiv64(n, d) ==
    LET abs(k) == IF k < 0 THEN 0 - k ELSE k
        q == udiv64(abs(n), abs(d))
    IN  Signed(Long(IF (n < 0) = (d < 0) THEN q ELSE 0 - q))

-----------------------------------------------------------------------------
(* Sorting and searching.  Arrays are sequences; indices count from 1.      *)

do_swap(a, i, j) == [a EXCEPT ![i] = a[j], ![j] = a[i]]

\* One round of heapify: where the largest of i and its children is.
Largest(a, i, cnt) ==
    LET left  == IF 2 * i <= cnt /\ a[2 * i] > a[i] THEN 2 * i ELSE i
    IN  IF 2 * i + 1 <= cnt /\ a[2 * i + 1] > a[left] THEN 2 * i + 1 ELSE left

heapify(a, i, cnt) ==
    LET round[k \in 0..cnt] ==
            IF k = 0 THEN [a |-> a, i |-> i]
            ELSE LET r == round[k - 1]
                     max == Largest(r.a, r.i, cnt)
                 IN  [a |-> do_swap(r.a, r.i, max), i |-> max]
    IN  round[cnt].a

\* The heap is built from the middle down, then its largest goes to the end, cnt - 1 times.
heap_sort(a) ==
    LET cnt == Len(a)
        built == FoldLeft(LAMBDA x, k : heapify(x, cnt \div 2 + 1 - k, cnt), a, [k \in 1..(cnt \div 2) |-> k])
        takeMax(x, k) == heapify(do_swap(x, 1, cnt + 1 - k), 1, cnt - k)
    IN  FoldLeft(takeMax, built, [k \in 1..(cnt - 1) |-> k])

\* first and last as offsets, last exclusive; 0 when the key is not there.
binary_search(key, a) ==
    LET round[k \in 0..Len(a)] ==
            IF k = 0 THEN [first |-> 0, last |-> Len(a)]
            ELSE LET r == round[k - 1]
                     middle == r.first + (r.last - r.first) \div 2
                 IN  IF r.first >= r.last \/ a[middle + 1] = key THEN r
                     ELSE IF key < a[middle + 1] THEN [r EXCEPT !.last = middle]
                     ELSE [r EXCEPT !.first = middle + 1]
        end == round[Len(a)]
    IN  IF end.first < end.last THEN end.first + (end.last - end.first) \div 2 + 1 ELSE 0

-----------------------------------------------------------------------------
(* Strings                                                                  *)

Copy(m, dst, src, order) == FoldLeft(LAMBDA x, i : [x EXCEPT ![dst + i] = x[src + i]], m, order)
Up(size) == [i \in 1..size |-> i - 1]

memcpy(m, dst, src, size) == Copy(m, dst, src, Up(size))
memmove(m, dst, src, size) == Copy(m, dst, src, IF dst < src THEN Up(size) ELSE Reverse(Up(size)))

\* The first address from s on at which Test holds.
From(m, s, Test(_)) == CHOOSE a \in DOMAIN m : a >= s /\ Test(m[a]) /\ \A c \in s..(a - 1) : ~Test(m[c])
strlen(m, s) == From(m, s, LAMBDA c : c = 0) - s
Lesser(x, y) == IF x < y THEN x ELSE y
strnlen(m, s, maxlen) ==
    CHOOSE n \in 0..maxlen : (n = maxlen \/ m[s + n] = 0) /\ \A k \in 0..(n - 1) : m[s + k] # 0

strlcpy(m, dst, src, size) ==
    LET n == Lesser(strlen(m, src), size - 1)
    IN  IF size = 0 THEN m ELSE [memcpy(m, dst, src, n) EXCEPT ![dst + n] = 0]

strlcat(m, dst, src, size) ==
    LET at == strlen(m, dst)
        n == Lesser(strlen(m, src), size - at - 1)
    IN  IF size = 0 \/ at >= size THEN m ELSE [memcpy(m, dst + at, src, n) EXCEPT ![dst + at + n] = 0]

\* Leading spaces are skipped; at most size - 1 characters are copied.
strlcpy_first_word(m, dst, src, size, space) ==
    LET word == From(m, src, LAMBDA c : c # space)
        n == Lesser(From(m, word, LAMBDA c : c \in {0, space}) - word, size - 1)
    IN  IF size = 0 THEN m ELSE [memcpy(m, dst, word, n) EXCEPT ![dst + n] = 0]

\* One call of strtok_r: token is where the next token starts, if there is one.
strtok_r(m, s, delimiters) ==
    LET start == From(m, s, LAMBDA c : c \notin delimiters)
        end == From(m, start, LAMBDA c : c \in delimiters \cup {0})
    IN  IF m[start] = 0 THEN [m |-> m, token |-> {}, save |-> start]
        ELSE [m |-> [m EXCEPT ![end] = 0], token |-> {start}, save |-> IF m[end] = 0 THEN end ELSE end + 1]

\* strtok_r called until no token remains: the strings it returned.
Tokens(m, s, delimiters) ==
    LET call[k \in 0..Cardinality(DOMAIN m)] ==
            IF k = 0 THEN [m |-> m, token |-> {}, save |-> s] ELSE strtok_r(call[k - 1].m, call[k - 1].save, delimiters)
        calls == SelectSeq([k \in 1..Cardinality(DOMAIN m) |-> call[k]], LAMBDA r : r.token # {})
        text(r) == LET t == CHOOSE t \in r.token : TRUE IN [i \in 1..strlen(r.m, t) |-> r.m[t + i - 1]]
    IN  [k \in DOMAIN calls |-> text(calls[k])]

\* The place of a byte or none, as a set.
Least(places) == {a \in places : \A c \in places : a <= c}

\* -1, 0 or 1 for the first of the offsets at which two blocks differ.
Difference(m, a_, b_, offsets) ==
    LET first == Least({i \in offsets : m[a_ + i] # m[b_ + i]})
    IN  IF first = {} THEN 0 ELSE IF \E i \in first : m[a_ + i] > m[b_ + i] THEN 1 ELSE -1

memcmp(m, a_, b_, size) == Difference(m, a_, b_, 0..(size - 1))
strcmp(m, a_, b_) == Difference(m, a_, b_, 0..Lesser(strlen(m, a_), strlen(m, b_)))
memchr(m, block, ch, size) == Least({a \in block..(block + size - 1) : m[a] = ch})
strchr(m, string, c) == LET a == From(m, string, LAMBDA x : x \in {c, 0}) IN IF m[a] = c THEN {a} ELSE {}
strrchr(m, string, c) ==
    LET places == {a \in string..(string + strlen(m, string) - 1) : m[a] = c}
    IN  {a \in places : \A x \in places : x <= a}
strcspn(m, string, stop) == From(m, string, LAMBDA c : c = 0 \/ strchr(m, stop, c) # {}) - string
strpbrk(m, string, stop) ==
    LET a == string + strcspn(m, string, stop) IN IF m[a] = 0 THEN {} ELSE {a}
strspn(m, string, skip) == From(m, string, LAMBDA c : c = 0 \/ strchr(m, skip, c) = {}) - string

strstr(m, haystack, needle) ==
    LET h == strlen(m, haystack)  n == strlen(m, needle)
        found == {i \in 0..(h - n) : \A k \in 0..(n - 1) : m[haystack + i + k] = m[needle + k]}
    IN  {haystack + i : i \in Least(found)}

\* The number a text begins with, and the values it had on the way.  9 to 13 and 32 are white space.
atoi(s) ==
    LET IsDigit(c) == c \in 48..57
        sign == CHOOSE i \in 1..(Len(s) + 1) : /\ i > Len(s) \/ s[i] \notin {32} \cup 9..13
                                              /\ \A j \in 1..(i - 1) : s[j] \in {32} \cup 9..13
        negative == sign <= Len(s) /\ s[sign] = 45
        first == IF sign <= Len(s) /\ s[sign] \in {43, 45} THEN sign + 1 ELSE sign
        digits == SelectSeq([i \in DOMAIN s |-> i], LAMBDA i : i >= first /\ \A j \in first..i : IsDigit(s[j]))
        values == FoldLeft(LAMBDA v, i : Append(v, Last(v) * 10 - (s[i] - 48)), <<0>>, digits)
    IN  IF negative THEN values ELSE Append(values, 0 - Last(values))

-----------------------------------------------------------------------------
(* Bitmaps.  The bits lie ELEM_BITS to an element; the elements count from 0. *)

BITMAP_ERROR == -1
elem_idx(bit) == bit \div ELEM_BITS
bit_mask(bit) == 2 ^ (bit % ELEM_BITS)
ElemCnt(bit_cnt) == (bit_cnt + ELEM_BITS - 1) \div ELEM_BITS

bitmap_test(bm, idx) == (bm.bits[elem_idx(idx)] \div bit_mask(idx)) % 2 = 1
bitmap_mark(bm, idx) ==
    IF bitmap_test(bm, idx) THEN bm ELSE [bm EXCEPT !.bits[elem_idx(idx)] = @ + bit_mask(idx)]
bitmap_reset(bm, idx) ==
    IF bitmap_test(bm, idx) THEN [bm EXCEPT !.bits[elem_idx(idx)] = @ - bit_mask(idx)] ELSE bm
bitmap_flip(bm, idx) == IF bitmap_test(bm, idx) THEN bitmap_reset(bm, idx) ELSE bitmap_mark(bm, idx)
bitmap_set(bm, idx, value) == IF value THEN bitmap_mark(bm, idx) ELSE bitmap_reset(bm, idx)

bitmap_set_multiple(bm, start, cnt, value) ==
    FoldLeft(LAMBDA x, i : bitmap_set(x, start + i, value), bm, Up(cnt))
bitmap_create(bit_cnt) ==
    bitmap_set_multiple([bit_cnt |-> bit_cnt, bits |-> [i \in 0..(ElemCnt(bit_cnt) - 1) |-> 0]], 0, bit_cnt, FALSE)
bitmap_count(bm, start, cnt, value) ==
    Cardinality({i \in start..(start + cnt - 1) : bitmap_test(bm, i) = value})
bitmap_contains(bm, start, cnt, value) == \E i \in start..(start + cnt - 1) : bitmap_test(bm, i) = value

\* A group as long as the bitmap, or longer, leaves one place or none to look at.
bitmap_scan(bm, start, cnt, value) ==
    LET groups == {i \in start..(bm.bit_cnt - cnt) : ~bitmap_contains(bm, i, cnt, ~value)}
    IN  IF groups = {} THEN BITMAP_ERROR ELSE CHOOSE i \in groups : \A j \in groups : i <= j
bitmap_scan_and_flip(bm, start, cnt, value) ==
    LET idx == bitmap_scan(bm, start, cnt, value)
    IN  [idx |-> idx, bm |-> IF idx = BITMAP_ERROR THEN bm ELSE bitmap_set_multiple(bm, idx, cnt, ~value)]

\* Whole elements are read; what the last one holds behind the last bit is masked off.
last_mask(bm) == IF bm.bit_cnt % ELEM_BITS = 0 THEN 2 ^ ELEM_BITS ELSE 2 ^ (bm.bit_cnt % ELEM_BITS)
bitmap_read(bm, file) ==
    IF bm.bit_cnt = 0 THEN bm
    ELSE LET last == ElemCnt(bm.bit_cnt) - 1
         IN  [bm EXCEPT !.bits = [i \in DOMAIN bm.bits |-> IF i = last THEN file[i] % last_mask(bm) ELSE file[i]]]
=============================================================================
