----------------------------- MODULE AtomicFile -----------------------------
(***************************************************************************)
(* What the readers and writers of a file are promised: an operation takes *)
(* effect at one moment between its call and its return.  A read gets what *)
(* the file holds at that moment, a write replaces its part of the file.   *)
(* The file does not grow: what lies behind its end is cut off.            *)
(***************************************************************************)
EXTENDS Integers, Sequences

CONSTANTS Thread, Length, Requests, NoRequest, MayStop  \* MayStop: an operation
                                \* may stop before its end, for want of memory

VARIABLES
    content,    \* the bytes of the file
    state,      \* "idle", "pending" or "done"
    asked,      \* the request of each thread
    count,      \* how many bytes a done operation has moved
    got         \* the bytes a done read returns

fileVars == <<content, state, asked, count, got>>

FileInit ==
    /\ content = [i \in 0..Length - 1 |-> 0]
    /\ state = [t \in Thread |-> "idle"]
    /\ asked = [t \in Thread |-> NoRequest]
    /\ count = [t \in Thread |-> 0]
    /\ got = [t \in Thread |-> <<>>]

\* The part of the request that lies within the file.
Most(r) ==
    CASE r.offset >= Length          -> 0
      [] r.offset + r.size <= Length -> r.size
      [] OTHER                       -> Length - r.offset

Ask(t) ==
    /\ state[t] = "idle"
    /\ state' = [state EXCEPT ![t] = "pending"]
    /\ \E r \in Requests : asked' = [asked EXCEPT ![t] = r]
    /\ UNCHANGED <<content, count, got>>

Do(t) ==
    /\ state[t] = "pending"
    /\ \E n \in IF MayStop THEN 0..Most(asked[t]) ELSE {Most(asked[t])} :
         LET r == asked[t] IN
         /\ count' = [count EXCEPT ![t] = n]
         /\ IF r.kind = "read"
            THEN /\ got' = [got EXCEPT ![t] =
                              [i \in 1..n |-> content[r.offset + i - 1]]]
                 /\ UNCHANGED content
            ELSE /\ content' = [i \in 0..Length - 1 |->
                                  IF r.offset <= i /\ i < r.offset + n
                                  THEN r.byte ELSE content[i]]
                 /\ UNCHANGED got
    /\ state' = [state EXCEPT ![t] = "done"]
    /\ UNCHANGED asked

Return(t) ==
    /\ state[t] = "done"
    /\ state' = [state EXCEPT ![t] = "idle"]
    /\ count' = [count EXCEPT ![t] = 0]
    /\ got' = [got EXCEPT ![t] = <<>>]
    /\ asked' = [asked EXCEPT ![t] = NoRequest]
    /\ UNCHANGED content

FileNext == \E t \in Thread : Ask(t) \/ Do(t) \/ Return(t)

FileSpec == FileInit /\ [][FileNext]_fileVars
=============================================================================
