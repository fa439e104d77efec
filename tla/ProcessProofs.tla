--------------------------- MODULE ProcessProofs ---------------------------
(***************************************************************************)
(* Proofs about Process.  First what holds whatever the programs wait for: *)
(* the state is well formed, start_process only touches the arguments of a *)
(* parent that is still inside process_execute, and process_execute tells  *)
(* the truth.  Then, for programs that wait once for each of their         *)
(* children (Once), what the entries of the list are good for: they are    *)
(* kept and freed when they should be, statuses are delivered, pointers    *)
(* stay current, nothing panics, and Process implements ProcessLife.       *)
(***************************************************************************)
EXTENDS ProcessProperties, TLAPS

\* The actions that hold a slot number use a slot of the list.
HoldPC == {"fill", "sema", "wait_down", "wait_read", "wait_free", "print"}

PositionOK == \A t \in Thread : pc[t] \in HoldPC => position[t] \in Slot

\* The initial thread never runs start_process.
MainOK == pc[Main] \notin StartPC

TypeInv == ProcessTypeOK /\ PositionOK /\ MainOK

\* What sema_down and sema_up leave is a semaphore.
LEMMA SemaMoves ==
    ASSUME NEW T, NEW sema \in SemaOf(T), NEW t \in T
    PROVE  /\ SemaQueue(sema, t) \in SemaOf(T) /\ SemaUp(sema) \in SemaOf(T)
           /\ sema.value > 0 => SemaTake(sema) \in SemaOf(T)
<1>1. SemaQueue(sema, t) \in SemaOf(T)
  BY DEF SemaQueue, SemaOf
<1>2. SemaUp(sema) \in SemaOf(T)
  BY DEF SemaUp, SemaOf
<1>3. ASSUME sema.value > 0 PROVE SemaTake(sema) \in SemaOf(T)
  BY <1>3 DEF SemaTake, SemaOf
<1> QED BY <1>1, <1>2, <1>3

-----------------------------------------------------------------------------
\* The state stays well formed (PositionOK is what makes the types inductive:
\* an action may only read the entry its position names).
LEMMA TypeInit == Init => TypeInv
<1> SUFFICES ASSUME Init PROVE TypeInv
  OBVIOUS
<1>1. /\ sema_init(0) \in SemaOf(Thread)
      /\ TID_ERROR \in Int /\ NoThread \notin Thread
  BY PListAssumption DEF TID_ERROR, NoThread, Thread, Main, Process, sema_init, SemaOf
<1>2. PListTypeOK
  BY <1>1 DEF Init, plist_init, PListTypeOK, Entry
<1>3. ProcessTypeOK
  BY <1>1, <1>2, PListAssumption DEF Init, ProcessTypeOK, AllPC, Slot
<1>4. PositionOK
  BY DEF Init, PositionOK, HoldPC
<1>5. MainOK
  BY DEF Init, MainOK, StartPC, LoadPC, Thread
<1> QED BY <1>3, <1>4, <1>5 DEF TypeInv

\* Replacing an entry by an entry yields a list again, and so does every
\* assignment the code makes to a field of one.
LEMMA EntryUpdate ==
    ASSUME NEW tbl \in [Slot -> Entry], NEW s \in Slot, NEW e \in Entry
    PROVE  [tbl EXCEPT ![s] = e] \in [Slot -> Entry]
OBVIOUS

LEMMA FieldUpdate ==
    ASSUME NEW e \in Entry, NEW b \in BOOLEAN
    PROVE  /\ [e EXCEPT !.free = b] \in Entry
           /\ [e EXCEPT !.alive = b] \in Entry
           /\ [e EXCEPT !.parent_alive = b] \in Entry
           /\ [e EXCEPT !.ready = b] \in Entry
           /\ \A t \in Process : [e EXCEPT !.id = t] \in Entry
           /\ \A p \in Thread \cup {NoThread} : [e EXCEPT !.parent_id = p] \in Entry
           /\ \A v \in Int : [e EXCEPT !.exit_status = v] \in Entry
           /\ \A sema \in SemaOf(Thread) : [e EXCEPT !.p_sema = sema] \in Entry
BY DEF Entry

\* Each operation on the list yields a list of entries.
LEMMA ClaimSlotType ==
    ASSUME PListTypeOK, NEW s \in Slot, NEW t \in Process, ClaimSlot(s, t)
    PROVE  list' \in [Slot -> Entry]
<1> DEFINE e1 == [list[s] EXCEPT !.free = FALSE]
           e2 == [e1 EXCEPT !.alive = TRUE]
           e3 == [e2 EXCEPT !.id = t]
<1>1. list \in [Slot -> Entry]
  BY DEF PListTypeOK
<1>2. e1 \in Entry
  BY <1>1, FieldUpdate
<1>3. e2 \in Entry
  <2> HIDE DEF e1
  <2> QED BY <1>2, FieldUpdate
<1>4. e3 \in Entry
  <2> HIDE DEF e2
  <2> QED BY <1>3, FieldUpdate
<1>5. list' = [list EXCEPT ![s] = e3]
  BY <1>1 DEF ClaimSlot
<1> HIDE DEF e3
<1> QED BY <1>1, <1>4, <1>5, EntryUpdate

LEMMA FillSlotType ==
    ASSUME PListTypeOK, NEW s \in Slot, NEW p \in Thread \cup {NoThread},
           FillSlot(s, p)
    PROVE  list' \in [Slot -> Entry]
<1> DEFINE b == plist_check_if_parent_alive(p)
           e1 == [list[s] EXCEPT !.parent_id = p]
           e2 == [e1 EXCEPT !.parent_alive = b]
           e3 == [e2 EXCEPT !.exit_status = -1]
<1>1. list \in [Slot -> Entry]
  BY DEF PListTypeOK
<1>2. e1 \in Entry
  BY <1>1, FieldUpdate
<1>3. e2 \in Entry
  <2>1. b \in BOOLEAN
    BY DEF plist_check_if_parent_alive
  <2> HIDE DEF e1, b
  <2> QED BY <1>2, <2>1, FieldUpdate
<1>4. e3 \in Entry
  <2> DEFINE minus == -1
  <2>1. minus \in Int
    OBVIOUS
  <2> HIDE DEF e2, minus
  <2>2. [e2 EXCEPT !.exit_status = minus] \in Entry
    BY <1>3, <2>1, FieldUpdate
  <2> QED BY <2>2 DEF minus
<1>5. list' = [list EXCEPT ![s] = e3]
  BY <1>1 DEF FillSlot
<1> HIDE DEF e3
<1> QED BY <1>1, <1>4, <1>5, EntryUpdate

LEMMA InitSlotSemaType ==
    ASSUME PListTypeOK, NEW s \in Slot, InitSlotSema(s)
    PROVE  list' \in [Slot -> Entry]
<1> DEFINE e1 == [list[s] EXCEPT !.p_sema = sema_init(0)]
           e2 == [e1 EXCEPT !.ready = TRUE]
<1>1. list \in [Slot -> Entry]
  BY DEF PListTypeOK
<1>2. sema_init(0) \in SemaOf(Thread)
  BY DEF sema_init, SemaOf
<1>3. e1 \in Entry
  BY <1>1, <1>2, FieldUpdate
<1>4. e2 \in Entry
  <2> HIDE DEF e1
  <2> QED BY <1>3, FieldUpdate
<1>5. list' = [list EXCEPT ![s] = e2]
  BY <1>1 DEF InitSlotSema
<1> HIDE DEF e2
<1> QED BY <1>1, <1>4, <1>5, EntryUpdate

LEMMA FieldOfSlotType ==
    ASSUME PListTypeOK, NEW s \in Slot
    PROVE  /\ \A b \in BOOLEAN : /\ [list EXCEPT ![s].free = b] \in [Slot -> Entry]
                                 /\ [list EXCEPT ![s].alive = b] \in [Slot -> Entry]
           /\ \A v \in Int : [list EXCEPT ![s].exit_status = v] \in [Slot -> Entry]
           /\ \A sema \in SemaOf(Thread) :
                [list EXCEPT ![s].p_sema = sema] \in [Slot -> Entry]
<1>1. list \in [Slot -> Entry] /\ list[s] \in Entry
  BY DEF PListTypeOK
<1>2. \A e \in Entry : [list EXCEPT ![s] = e] \in [Slot -> Entry]
  BY <1>1, EntryUpdate
<1> QED BY <1>1, <1>2, FieldUpdate

LEMMA KillChildrenType ==
    ASSUME NEW tbl \in [Slot -> Entry], NEW id
    PROVE  plist_kill_children(tbl, id) \in [Slot -> Entry]
<1> SUFFICES ASSUME NEW s \in Slot, tbl[s].parent_id = id
             PROVE  [tbl[s] EXCEPT !.parent_alive = FALSE,
                                   !.free = @ \/ ~tbl[s].alive] \in Entry
  BY DEF plist_kill_children
<1> DEFINE e1 == [tbl[s] EXCEPT !.parent_alive = FALSE]
           b == e1.free \/ ~tbl[s].alive
<1>1. e1 \in Entry
  BY FieldUpdate
<1>2. [e1 EXCEPT !.free = b] \in Entry
  <2>1. b \in BOOLEAN
    OBVIOUS
  <2> HIDE DEF e1, b
  <2> QED BY <1>1, <2>1, FieldUpdate
<1> QED BY <1>2

LEMMA RemoveEntryType ==
    ASSUME PListTypeOK, NEW s \in Slot, RemoveEntry(s)
    PROVE  list' \in [Slot -> Entry]
<1> DEFINE dead == [list EXCEPT ![s].alive = FALSE]
           kept == \E r \in Slot : IsProcess(r, list[s].parent_id) /\ dead[r].alive
           freed == [dead EXCEPT ![s].free = @ \/ ~kept]
           rest == plist_kill_children(freed, list[s].id)
<1>1. dead \in [Slot -> Entry]
  BY FieldOfSlotType
<1>2. freed \in [Slot -> Entry]
  <2> DEFINE b == dead[s].free \/ ~kept
  <2>1. b \in BOOLEAN /\ dead[s] \in Entry
    BY <1>1
  <2>2. [dead[s] EXCEPT !.free = b] \in Entry
    <3> HIDE DEF b, dead
    <3> QED BY <2>1, FieldUpdate
  <2>3. freed = [dead EXCEPT ![s] = [dead[s] EXCEPT !.free = b]]
    OBVIOUS
  <2> HIDE DEF freed, dead, b
  <2> QED BY <1>1, <2>2, <2>3, EntryUpdate
<1>3. rest \in [Slot -> Entry]
  <2> HIDE DEF freed
  <2> QED BY <1>2, KillChildrenType
<1>4. list' = [rest EXCEPT ![s] = [rest[s] EXCEPT !.p_sema = SemaUp(rest[s].p_sema)]]
  BY DEF RemoveEntry
<1> HIDE DEF rest
<1>5. SemaUp(rest[s].p_sema) \in SemaOf(Thread)
  <2>1. rest[s].p_sema \in SemaOf(Thread)
    BY <1>3 DEF Entry
  <2> QED BY <2>1 DEF SemaUp, SemaOf
<1>6. [rest[s] EXCEPT !.p_sema = SemaUp(rest[s].p_sema)] \in Entry
  BY <1>3, <1>5, FieldUpdate
<1> QED BY <1>3, <1>4, <1>6, EntryUpdate

\* Every place an action goes to is one of AllPC.
LEMMA Places ==
    /\ {"user", "exec_down", "exec_return", "dead", "panic",
        "load", "insert", "scan", "fill", "sema", "report", "raise",
        "find", "wait_down", "wait_read", "wait_free",
        "set_status", "cleanup", "print", "remove"} \subseteq AllPC
    /\ StartPC = {"load", "insert", "scan", "fill", "sema", "report", "raise"}
BY DEF AllPC, StartPC, LoadPC, WaitPC, ExitPC

\* A step of t from one place to another keeps pc and position in order, if it
\* sets the position where the next place needs one.
Moved ==
    /\ pc' \in [Thread -> AllPC]
    /\ position' \in [Thread -> 0..PLIST_SIZE]
    /\ PositionOK'
    /\ MainOK'

LEMMA MoveOK ==
    ASSUME TypeInv, NEW t \in Thread, NEW there \in AllPC, Goto(t, there),
           t = Main => there \notin StartPC,
           \/ position' = position /\ (there \in HoldPC => pc[t] \in HoldPC)
           \/ \E s \in 0..PLIST_SIZE : /\ position' = [position EXCEPT ![t] = s]
                                       /\ there \in HoldPC => s \in Slot
    PROVE  Moved
<1> USE DEF TypeInv, ProcessTypeOK
<1>1. pc' = [pc EXCEPT ![t] = there]
  BY DEF Goto
<1>2. pc' \in [Thread -> AllPC]
  BY <1>1
<1>3. position' \in [Thread -> 0..PLIST_SIZE]
  OBVIOUS
<1>4. PositionOK'
  BY <1>1 DEF PositionOK, HoldPC
<1>5. MainOK'
  BY <1>1 DEF MainOK, Thread
<1> QED BY <1>2, <1>3, <1>4, <1>5 DEF Moved

\* Every action keeps the state well formed.
LEMMA TypeNext == TypeInv /\ [Next]_vars => TypeInv'
<1> SUFFICES ASSUME TypeInv, [Next]_vars PROVE TypeInv'
  OBVIOUS
<1>c. /\ TID_ERROR \in Int /\ NoThread \in Int /\ Process \subseteq Thread
      /\ Process \subseteq Int /\ Main \in Thread /\ Main \notin Process
      /\ Slot \subseteq 0..PLIST_SIZE /\ 0 \in 0..PLIST_SIZE
  BY PListAssumption DEF TID_ERROR, NoThread, Thread, Main, Process, Slot
<1>p. \A t \in Process \cup {Main} : t \in Thread /\ (pc[t] \in StartPC => t \in Process)
  BY DEF TypeInv, MainOK, Thread
<1>1. ASSUME NEW t \in Thread, ExecuteFails(t) PROVE TypeInv'
  <2>1. PICK there \in {"find", "user"} : Goto(t, there)
    BY <1>1 DEF ExecuteFails, AfterExecute
  <2>2. Moved
    <3>1. pc[t] = "user" /\ position' = position
      BY <1>1 DEF ExecuteFails, At
    <3> QED BY <2>1, <3>1, <1>p, Places, MoveOK DEF HoldPC
  <2> QED
    BY <1>1, <2>2, <1>c DEF ExecuteFails, Moved, TypeInv, ProcessTypeOK,
         PListTypeOK, plistVars, callVars, exitVars, waitVars
<1>2. ASSUME NEW t \in Thread, Execute(t) PROVE TypeInv'
  <2>1. /\ pc[t] = "user" /\ position' = position
        /\ next_tid \in Process /\ next_tid' = next_tid + 1
        /\ pc' = [pc EXCEPT ![t] = "exec_down", ![next_tid] = "load"]
    BY <1>2 DEF Execute, At
  <2>2. Moved
    BY <2>1, <1>c, Places DEF Moved, TypeInv, ProcessTypeOK, PositionOK, HoldPC,
         MainOK
  <2>3. next_tid' \in 3..MaxTid + 1
    BY <2>1, PListAssumption DEF Process
  <2>4. arguments' \in [Thread -> [success : BOOLEAN, sema : SemaOf(Thread)]]
    BY <1>2 DEF Execute, TypeInv, ProcessTypeOK, sema_init, SemaOf
  <2>5. child' \in [Thread -> Int] /\ parent' \in [Thread -> Thread \cup {NoThread}]
    BY <1>2, <1>c DEF Execute, TypeInv, ProcessTypeOK
  <2> QED
    BY <1>2, <2>2, <2>3, <2>4, <2>5 DEF Execute, Moved, TypeInv, ProcessTypeOK,
         PListTypeOK, plistVars, callVars, exitVars, waitVars
<1>3. ASSUME NEW t \in Thread, Load(t) PROVE TypeInv'
  <2>1. PICK there \in {"insert", "report"} : Goto(t, there)
    BY <1>3 DEF Load
  <2>2. Moved
    <3>1. pc[t] = "load" /\ position' = position
      BY <1>3 DEF Load, At
    <3>2. t # Main
      BY <3>1, Places DEF TypeInv, MainOK
    <3> QED BY <2>1, <3>1, <3>2, Places, MoveOK DEF HoldPC
  <2> QED
    BY <1>3, <2>2 DEF Load, Moved, TypeInv, ProcessTypeOK, PListTypeOK, plistVars,
         callVars, exitVars, waitVars
<1>4. ASSUME NEW t \in Thread, InsertLock(t) PROVE TypeInv'
  <2>1. pc[t] = "insert" /\ Goto(t, "scan") /\ position' = [position EXCEPT ![t] = 0]
    BY <1>4 DEF InsertLock, At
  <2>2. Moved
    BY <2>1, <1>c, <1>p, Places, MoveOK DEF HoldPC
  <2> QED
    BY <1>4, <2>2 DEF InsertLock, Moved, TypeInv, ProcessTypeOK, PListTypeOK,
         plistVars, callVars, exitVars, waitVars
<1>5. ASSUME NEW t \in Thread, InsertScan(t) PROVE TypeInv'
  <2>1. pc[t] = "scan" /\ position[t] \in Slot /\ t \in Process
    BY <1>5, <1>p, Places DEF InsertScan, At, Thread
  <2>2. CASE ClaimSlot(position[t], t) /\ Goto(t, "fill") /\ position' = position
    <3>1. Moved
      BY <2>1, <2>2, Places DEF Moved, Goto, TypeInv, ProcessTypeOK, PositionOK,
           HoldPC, MainOK
    <3>2. list' \in [Slot -> Entry]
      BY <2>1, <2>2, ClaimSlotType DEF TypeInv, ProcessTypeOK
    <3> QED
      BY <1>5, <3>1, <3>2 DEF InsertScan, Moved, TypeInv, ProcessTypeOK,
           PListTypeOK, plistVars, callVars, exitVars, waitVars
  <2>3. CASE position' = [position EXCEPT ![t] = @ + 1] /\ UNCHANGED <<list, pc>>
    <3>1. Moved
      BY <2>1, <2>3, PListAssumption
         DEF Moved, TypeInv, ProcessTypeOK, PositionOK, HoldPC, MainOK, Slot
    <3> QED
      BY <1>5, <2>3, <3>1 DEF InsertScan, Moved, TypeInv, ProcessTypeOK,
           PListTypeOK, plistVars, callVars, exitVars, waitVars
  <2> QED
    BY <1>5, <2>2, <2>3 DEF InsertScan
<1>6. ASSUME NEW t \in Thread, InsertFull(t) PROVE TypeInv'
  <2>1. pc[t] = "scan" /\ Goto(t, "report") /\ position' = position
    BY <1>6 DEF InsertFull, At
  <2>2. Moved
    <3>1. t # Main
      BY <2>1, Places DEF TypeInv, MainOK
    <3> QED BY <2>1, <3>1, Places, MoveOK DEF HoldPC
  <2> QED
    BY <1>6, <2>2, <1>c DEF InsertFull, Moved, TypeInv, ProcessTypeOK, PListTypeOK,
         plistVars, callVars, exitVars, waitVars
<1>7. ASSUME NEW t \in Thread, InsertFill(t) PROVE TypeInv'
  <2>1. pc[t] = "fill" /\ Goto(t, "sema") /\ position' = position
    BY <1>7 DEF InsertFill, At
  <2>2. Moved
    <3>1. t # Main
      BY <2>1, Places DEF TypeInv, MainOK
    <3> QED BY <2>1, <3>1, Places, MoveOK DEF HoldPC
  <2>3. list' \in [Slot -> Entry]
    BY <1>7, FillSlotType DEF InsertFill, At, TypeInv, ProcessTypeOK, PositionOK,
         HoldPC
  <2> QED
    BY <1>7, <2>2, <2>3 DEF InsertFill, Moved, TypeInv, ProcessTypeOK, PListTypeOK,
         plistVars, callVars, exitVars, waitVars
<1>8. ASSUME NEW t \in Thread, InsertSema(t) PROVE TypeInv'
  <2>1. pc[t] = "sema" /\ Goto(t, "report") /\ position' = position
    BY <1>8 DEF InsertSema, At
  <2>2. Moved
    <3>1. t # Main
      BY <2>1, Places DEF TypeInv, MainOK
    <3> QED BY <2>1, <3>1, Places, MoveOK DEF HoldPC
  <2>3. list' \in [Slot -> Entry]
    BY <1>8, InitSlotSemaType DEF InsertSema, At, TypeInv, ProcessTypeOK,
         PositionOK, HoldPC
  <2> QED
    BY <1>8, <2>2, <2>3, <1>c DEF InsertSema, Moved, TypeInv, ProcessTypeOK,
         PListTypeOK, plistVars, callVars, exitVars, waitVars
<1>9. ASSUME NEW t \in Thread, Report(t) PROVE TypeInv'
  <2>1. pc[t] = "report" /\ Goto(t, "raise") /\ position' = position
    BY <1>9 DEF Report, At
  <2>2. Moved
    <3>1. t # Main
      BY <2>1, Places DEF TypeInv, MainOK
    <3> QED BY <2>1, <3>1, Places, MoveOK DEF HoldPC
  <2>3. arguments' \in [Thread -> [success : BOOLEAN, sema : SemaOf(Thread)]]
    BY <1>9 DEF Report, TypeInv, ProcessTypeOK
  <2> QED
    BY <1>9, <2>2, <2>3 DEF Report, Moved, TypeInv, ProcessTypeOK, PListTypeOK,
         plistVars, callVars, exitVars, waitVars
<1>10. ASSUME NEW t \in Thread, Raise(t) PROVE TypeInv'
  <2>1. PICK there \in {"user", "cleanup"} : Goto(t, there)
    BY <1>10 DEF Raise
  <2>2. Moved
    <3>1. pc[t] = "raise" /\ position' = position
      BY <1>10 DEF Raise, At
    <3>2. t # Main
      BY <3>1, Places DEF TypeInv, MainOK
    <3> QED BY <2>1, <3>1, <3>2, Places, MoveOK DEF HoldPC
  <2>3. arguments' \in [Thread -> [success : BOOLEAN, sema : SemaOf(Thread)]]
    BY <1>10, SemaMoves DEF Raise, TypeInv, ProcessTypeOK
  <2> QED
    BY <1>10, <2>2, <2>3 DEF Raise, Moved, TypeInv, ProcessTypeOK, PListTypeOK,
         plistVars, callVars, exitVars, waitVars
<1>11. ASSUME NEW t \in Thread, ExecDown(t) PROVE TypeInv'
  <2> DEFINE sema == arguments[t].sema
  <2>1. pc[t] = "exec_down" /\ position' = position /\ sema \in SemaOf(Thread)
    BY <1>11 DEF ExecDown, At, TypeInv, ProcessTypeOK
  <2>2. Moved
    <3>1. CASE pc' = pc
      BY <2>1, <3>1 DEF Moved, TypeInv, ProcessTypeOK, PositionOK, HoldPC, MainOK
    <3>2. CASE Goto(t, "exec_return")
      BY <2>1, <3>2, Places, MoveOK DEF HoldPC
    <3> QED BY <1>11, <3>1, <3>2 DEF ExecDown
  <2>3. /\ SemaQueue(sema, t) \in SemaOf(Thread)
        /\ sema.value > 0 => SemaTake(sema) \in SemaOf(Thread)
    BY <2>1, SemaMoves
  <2>4. arguments' \in [Thread -> [success : BOOLEAN, sema : SemaOf(Thread)]]
    BY <1>11, <2>3 DEF ExecDown, TypeInv, ProcessTypeOK
  <2> QED
    BY <1>11, <2>2, <2>4 DEF ExecDown, Moved, TypeInv, ProcessTypeOK, PListTypeOK,
         plistVars, callVars, exitVars, waitVars
<1>12. ASSUME NEW t \in Thread, ExecReturn(t) PROVE TypeInv'
  <2>1. PICK there \in {"find", "user"} : Goto(t, there)
    BY <1>12 DEF ExecReturn, AfterExecute
  <2>2. Moved
    <3>1. pc[t] = "exec_return" /\ position' = position
      BY <1>12 DEF ExecReturn, At
    <3> QED BY <2>1, <3>1, <1>p, Places, MoveOK DEF HoldPC
  <2> QED
    BY <1>12, <2>2, <1>c DEF ExecReturn, Moved, TypeInv, ProcessTypeOK, PListTypeOK,
         plistVars, callVars, exitVars, waitVars
<1>13. ASSUME NEW t \in Thread, Wait(t) PROVE TypeInv'
  <2>1. pc[t] = "user" /\ Goto(t, "find") /\ position' = position
    BY <1>13 DEF Wait, At
  <2>2. Moved
    BY <2>1, Places, MoveOK DEF HoldPC
  <2>3. WaitTargets(t) \subseteq Int
    BY <1>c, ProcessAssumption DEF WaitTargets, Children
  <2>4. child' \in [Thread -> Int]
    BY <1>13, <2>3 DEF Wait, TypeInv, ProcessTypeOK
  <2> QED
    BY <1>13, <2>2, <2>4 DEF Wait, Moved, TypeInv, ProcessTypeOK, PListTypeOK,
         plistVars, callVars, exitVars, waitVars
<1>14. ASSUME NEW t \in Thread, WaitNotFound(t) PROVE TypeInv'
  <2>1. pc[t] = "find" /\ Goto(t, "user") /\ position' = position
    BY <1>14 DEF WaitNotFound, At
  <2>2. Moved
    BY <2>1, Places, MoveOK DEF HoldPC
  <2>3. answers' \in [Thread -> SUBSET Int]
    BY <1>14 DEF WaitNotFound, Answer, TypeInv, ProcessTypeOK
  <2> QED
    BY <1>14, <2>2, <2>3 DEF WaitNotFound, Moved, TypeInv, ProcessTypeOK,
         PListTypeOK, plistVars, callVars, exitVars, waitVars
<1>15. ASSUME NEW t \in Thread, WaitFind(t) PROVE TypeInv'
  <2>1. pc[t] = "find" /\ Goto(t, "wait_down")
    BY <1>15 DEF WaitFind, At
  <2>0. PICK s \in Slot : position' = [position EXCEPT ![t] = s]
    BY <1>15 DEF WaitFind
  <2>2. Moved
    BY <2>1, <2>0, <1>c, <1>p, Places, MoveOK
  <2> QED
    BY <1>15, <2>2 DEF WaitFind, Moved, TypeInv, ProcessTypeOK, PListTypeOK,
         plistVars, callVars, exitVars, waitVars
<1>16. ASSUME NEW t \in Thread, WaitDown(t) PROVE TypeInv'
  <2> DEFINE sema == list[position[t]].p_sema
  <2>1. /\ pc[t] = "wait_down" /\ position' = position
        /\ position[t] \in Slot /\ sema \in SemaOf(Thread)
    BY <1>16 DEF WaitDown, At, Entry, TypeInv, ProcessTypeOK, PListTypeOK,
         PositionOK, HoldPC
  <2>2. Moved
    <3>1. CASE pc' = pc
      BY <2>1, <3>1 DEF Moved, TypeInv, ProcessTypeOK, PositionOK, HoldPC, MainOK
    <3>2. CASE \E there \in {"panic", "wait_read"} : Goto(t, there)
      BY <2>1, <3>2, Places, MoveOK DEF HoldPC
    <3> QED BY <1>16, <3>1, <3>2 DEF WaitDown
  <2>3. /\ SemaQueue(sema, t) \in SemaOf(Thread)
        /\ sema.value > 0 => SemaTake(sema) \in SemaOf(Thread)
    BY <2>1, SemaMoves
  <2>4. \A new \in SemaOf(Thread) :
          [list EXCEPT ![position[t]].p_sema = new] \in [Slot -> Entry]
    BY <2>1, FieldOfSlotType DEF TypeInv, ProcessTypeOK
  <2>5. list' \in [Slot -> Entry]
    BY <1>16, <2>3, <2>4 DEF WaitDown, TypeInv, ProcessTypeOK, PListTypeOK
  <2> QED
    BY <1>16, <2>2, <2>5 DEF WaitDown, Moved, TypeInv, ProcessTypeOK, PListTypeOK,
         plistVars, callVars, exitVars, waitVars
<1>17. ASSUME NEW t \in Thread, WaitRead(t) PROVE TypeInv'
  <2>1. pc[t] = "wait_read" /\ Goto(t, "wait_free") /\ position' = position
    BY <1>17 DEF WaitRead, At
  <2>2. Moved
    BY <2>1, Places, MoveOK DEF HoldPC
  <2>3. seen' \in [Thread -> Int]
    BY <1>17, <2>1 DEF WaitRead, Entry, TypeInv, ProcessTypeOK, PListTypeOK,
         PositionOK, HoldPC
  <2> QED
    BY <1>17, <2>2, <2>3 DEF WaitRead, Moved, TypeInv, ProcessTypeOK, PListTypeOK,
         plistVars, callVars, exitVars, waitVars
<1>18. ASSUME NEW t \in Thread, WaitFree(t) PROVE TypeInv'
  <2>1. pc[t] = "wait_free" /\ Goto(t, "user") /\ position' = position
    BY <1>18 DEF WaitFree, At
  <2>2. Moved
    BY <2>1, Places, MoveOK DEF HoldPC
  <2>3. list' \in [Slot -> Entry]
    BY <1>18, FieldOfSlotType DEF WaitFree, At, TypeInv, ProcessTypeOK, PositionOK,
         HoldPC
  <2>4. answers' \in [Thread -> SUBSET Int]
    BY <1>18 DEF WaitFree, Answer, TypeInv, ProcessTypeOK
  <2> QED
    BY <1>18, <2>2, <2>3, <2>4 DEF WaitFree, Moved, TypeInv, ProcessTypeOK,
         PListTypeOK, plistVars, callVars, exitVars, waitVars
<1>19. ASSUME NEW t \in Thread, Exit(t) PROVE TypeInv'
  <2>1. pc[t] = "user" /\ Goto(t, "set_status") /\ position' = position
    BY <1>19 DEF Exit, At
  <2>2. Moved
    BY <2>1, Places, MoveOK DEF HoldPC
  <2>3. exit_arg' \in [Thread -> Int]
    BY <1>19, ProcessAssumption DEF Exit, TypeInv, ProcessTypeOK
  <2> QED
    BY <1>19, <2>2, <2>3 DEF Exit, Moved, TypeInv, ProcessTypeOK, PListTypeOK,
         plistVars, callVars, exitVars, waitVars
<1>20. ASSUME NEW t \in Thread, Kill(t) PROVE TypeInv'
  <2>1. pc[t] = "user" /\ Goto(t, "cleanup") /\ position' = position
    BY <1>20 DEF Kill, At
  <2>2. Moved
    BY <2>1, Places, MoveOK DEF HoldPC
  <2> QED
    BY <1>20, <2>2 DEF Kill, Moved, TypeInv, ProcessTypeOK, PListTypeOK, plistVars,
         callVars, exitVars, waitVars
<1>21. ASSUME NEW t \in Thread, SetStatus(t) PROVE TypeInv'
  <2>1. pc[t] = "set_status" /\ Goto(t, "cleanup") /\ position' = position
    BY <1>21 DEF SetStatus, At
  <2>2. Moved
    BY <2>1, Places, MoveOK DEF HoldPC
  <2>3. list' \in [Slot -> Entry]
    <3>1. exit_arg[t] \in Int
      BY DEF TypeInv, ProcessTypeOK
    <3>2. \A s \in Slot : [list EXCEPT ![s].exit_status = exit_arg[t]] \in [Slot -> Entry]
      BY <3>1, FieldOfSlotType DEF TypeInv, ProcessTypeOK
    <3> QED BY <1>21, <3>2 DEF SetStatus, plist_change_exit_status,
                              TypeInv, ProcessTypeOK, PListTypeOK
  <2> QED
    BY <1>21, <2>2, <2>3 DEF SetStatus, Moved, TypeInv, ProcessTypeOK, PListTypeOK,
         plistVars, callVars, exitVars, waitVars
<1>22. ASSUME NEW t \in Thread, CleanupFind(t) PROVE TypeInv'
  <2>1. pc[t] = "cleanup" /\ printed' \in [Thread -> SUBSET Int]
    BY <1>22 DEF CleanupFind, At, TypeInv, ProcessTypeOK
  <2>2. Moved
    <3>1. CASE Goto(t, "remove") /\ position' = position
      BY <2>1, <3>1, Places, MoveOK DEF HoldPC
    <3>2. CASE /\ Goto(t, "print")
               /\ \E s \in Slot : position' = [position EXCEPT ![t] = s]
      BY <3>2, <1>c, Places, MoveOK
    <3> QED BY <1>22, <3>1, <3>2 DEF CleanupFind
  <2> QED
    BY <1>22, <2>2, <2>1 DEF CleanupFind, Moved, TypeInv, ProcessTypeOK,
         PListTypeOK, plistVars, callVars, exitVars, waitVars
<1>23. ASSUME NEW t \in Thread, CleanupPrint(t) PROVE TypeInv'
  <2>1. pc[t] = "print" /\ Goto(t, "remove") /\ position' = position
    BY <1>23 DEF CleanupPrint, At
  <2>2. Moved
    BY <2>1, Places, MoveOK DEF HoldPC
  <2>3. printed' \in [Thread -> SUBSET Int]
    BY <1>23, <2>1 DEF CleanupPrint, Entry, TypeInv, ProcessTypeOK, PListTypeOK,
                      PositionOK, HoldPC
  <2> QED
    BY <1>23, <2>2, <2>3 DEF CleanupPrint, Moved, TypeInv, ProcessTypeOK,
         PListTypeOK, plistVars, callVars, exitVars, waitVars
<1>24. ASSUME NEW t \in Thread, Remove(t) PROVE TypeInv'
  <2>1. pc[t] = "remove" /\ Goto(t, "dead") /\ position' = position
    BY <1>24 DEF Remove, At
  <2>2. Moved
    BY <2>1, Places, MoveOK DEF HoldPC
  <2>3. list' \in [Slot -> Entry]
    <3>1. \A s \in Slot : RemoveEntry(s) => list' \in [Slot -> Entry]
      BY RemoveEntryType DEF TypeInv, ProcessTypeOK
    <3> QED BY <1>24, <3>1 DEF Remove, TypeInv, ProcessTypeOK, PListTypeOK
  <2> QED
    BY <1>24, <2>2, <2>3 DEF Remove, Moved, TypeInv, ProcessTypeOK, PListTypeOK,
         plistVars, callVars, exitVars, waitVars
<1>25. CASE UNCHANGED vars
  BY <1>25 DEF vars, MainOK, PositionOK, TypeInv, ProcessTypeOK, PListTypeOK,
       plistVars, callVars, exitVars, waitVars
<1> QED
  BY <1>1, <1>2, <1>3, <1>4, <1>5, <1>6, <1>7, <1>8, <1>9, <1>10, <1>11, <1>12,
       <1>13, <1>14, <1>15, <1>16, <1>17, <1>18, <1>19, <1>20, <1>21, <1>22, <1>23,
       <1>24, <1>25 DEF Next, KernelStep, ProgramStep, Halted
-----------------------------------------------------------------------------
\* The state of the process system is well formed at all times.
THEOREM TypeCorrect == Spec => []ProcessTypeOK
<1>1. TypeInv => ProcessTypeOK
  BY DEF TypeInv
<1> QED BY TypeInit, TypeNext, <1>1, PTL DEF Spec

-----------------------------------------------------------------------------
\* The inductive invariant behind ArgumentsInUse: while a child is in
\* start_process its parent is in the sema_down of the process_execute that
\* made it, and no unit has been put into that semaphore yet; the threads from
\* next_tid on do not exist.
StartInv ==
    \A c \in Process : pc[c] \in StartPC =>
        /\ parent[c] \in Thread
        /\ pc[parent[c]] = "exec_down"
        /\ child[parent[c]] = c
        /\ arguments[parent[c]].sema.value = 0

UnbornInv == \A c \in Process : c >= next_tid => pc[c] = "unborn"

ExecInv == StartInv /\ UnbornInv

LEMMA ExecInit == Init => ExecInv
<1> SUFFICES ASSUME Init PROVE ExecInv
  OBVIOUS
<1>1. \A c \in Process : c \in Thread /\ pc[c] = "unborn"
  BY DEF Init, Process, Main, Thread
<1> QED BY <1>1, Places DEF ExecInv, StartInv, UnbornInv

\* A step of one thread that is not creating, starting or waiting for a child
\* keeps it, if it does not touch what a parent in its sema_down relies on.
LEMMA OtherStep ==
    ASSUME TypeInv, ExecInv, NEW t \in Thread, NEW there,
           pc' = [pc EXCEPT ![t] = there],
           pc[t] \notin {"exec_down", "unborn"},
           there \in StartPC => pc[t] \in StartPC,
           next_tid' = next_tid, parent' = parent,
           \A p \in Thread : pc[p] = "exec_down" =>
               /\ child'[p] = child[p]
               /\ arguments'[p].sema.value = arguments[p].sema.value
    PROVE  ExecInv'
<1>1. pc \in [Thread -> AllPC] /\ Process \subseteq Thread
  BY DEF TypeInv, ProcessTypeOK, Thread
<1>2. StartInv'
  <2> SUFFICES ASSUME NEW c \in Process, pc'[c] \in StartPC
               PROVE  /\ parent[c] \in Thread
                      /\ pc'[parent[c]] = "exec_down"
                      /\ child'[parent[c]] = c
                      /\ arguments'[parent[c]].sema.value = 0
    BY DEF StartInv
  <2>1. pc[c] \in StartPC
    BY <1>1
  <2>2. /\ parent[c] \in Thread /\ pc[parent[c]] = "exec_down"
        /\ child[parent[c]] = c /\ arguments[parent[c]].sema.value = 0
    BY <2>1 DEF ExecInv, StartInv
  <2> QED BY <1>1, <2>2
<1>3. UnbornInv'
  BY <1>1 DEF ExecInv, UnbornInv
<1> QED BY <1>2, <1>3 DEF ExecInv

\* Every action keeps it.
LEMMA ExecNext == TypeInv /\ ExecInv /\ [Next]_vars => ExecInv'
<1> SUFFICES ASSUME TypeInv, ExecInv, [Next]_vars PROVE ExecInv'
  OBVIOUS
<1> USE DEF plistVars, callVars, exitVars, waitVars
<1>t. /\ pc \in [Thread -> AllPC] /\ child \in [Thread -> Int]
      /\ arguments \in [Thread -> [success : BOOLEAN, sema : SemaOf(Thread)]]
      /\ parent \in [Thread -> Thread \cup {NoThread}]
      /\ Process \subseteq Thread
  BY DEF TypeInv, ProcessTypeOK, Thread
<1>1. ASSUME NEW t \in Thread, ExecuteFails(t) PROVE ExecInv'
  <2>1. /\ pc[t] = "user"
        /\ \E there \in {"find", "user"} : pc' = [pc EXCEPT ![t] = there]
    BY <1>1, <1>t DEF ExecuteFails, At, Goto, AfterExecute
  <2>2. /\ next_tid' = next_tid /\ parent' = parent
        /\ \A p \in Thread : pc[p] = "exec_down" =>
             /\ child'[p] = child[p]
             /\ arguments'[p].sema.value = arguments[p].sema.value
    BY <1>1, <2>1, <1>t DEF ExecuteFails
  <2> QED BY <2>1, <2>2, Places, OtherStep
<1>2. ASSUME NEW t \in Thread, Load(t) PROVE ExecInv'
  <2>1. /\ pc[t] = "load"
        /\ \E there \in {"insert", "report"} : pc' = [pc EXCEPT ![t] = there]
    BY <1>2, <1>t DEF Load, At, Goto
  <2>2. /\ next_tid' = next_tid /\ parent' = parent
        /\ \A p \in Thread : pc[p] = "exec_down" =>
             /\ child'[p] = child[p]
             /\ arguments'[p].sema.value = arguments[p].sema.value
    BY <1>2, <2>1, <1>t DEF Load
  <2> QED BY <2>1, <2>2, Places, OtherStep
<1>3. ASSUME NEW t \in Thread, InsertLock(t) PROVE ExecInv'
  <2>1. /\ pc[t] = "insert"
        /\ \E there \in {"scan"} : pc' = [pc EXCEPT ![t] = there]
    BY <1>3, <1>t DEF InsertLock, At, Goto
  <2>2. /\ next_tid' = next_tid /\ parent' = parent
        /\ \A p \in Thread : pc[p] = "exec_down" =>
             /\ child'[p] = child[p]
             /\ arguments'[p].sema.value = arguments[p].sema.value
    BY <1>3, <2>1, <1>t DEF InsertLock
  <2> QED BY <2>1, <2>2, Places, OtherStep
<1>4. ASSUME NEW t \in Thread, InsertScan(t) PROVE ExecInv'
  <2>1. /\ pc[t] = "scan"
        /\ \E there \in {"scan", "fill"} : pc' = [pc EXCEPT ![t] = there]
    BY <1>4, <1>t DEF InsertScan, At, Goto
  <2>2. /\ next_tid' = next_tid /\ parent' = parent
        /\ \A p \in Thread : pc[p] = "exec_down" =>
             /\ child'[p] = child[p]
             /\ arguments'[p].sema.value = arguments[p].sema.value
    BY <1>4, <2>1, <1>t DEF InsertScan
  <2> QED BY <2>1, <2>2, Places, OtherStep
<1>5. ASSUME NEW t \in Thread, InsertFull(t) PROVE ExecInv'
  <2>1. /\ pc[t] = "scan"
        /\ \E there \in {"report"} : pc' = [pc EXCEPT ![t] = there]
    BY <1>5, <1>t DEF InsertFull, At, Goto
  <2>2. /\ next_tid' = next_tid /\ parent' = parent
        /\ \A p \in Thread : pc[p] = "exec_down" =>
             /\ child'[p] = child[p]
             /\ arguments'[p].sema.value = arguments[p].sema.value
    BY <1>5, <2>1, <1>t DEF InsertFull
  <2> QED BY <2>1, <2>2, Places, OtherStep
<1>6. ASSUME NEW t \in Thread, InsertFill(t) PROVE ExecInv'
  <2>1. /\ pc[t] = "fill"
        /\ \E there \in {"sema"} : pc' = [pc EXCEPT ![t] = there]
    BY <1>6, <1>t DEF InsertFill, At, Goto
  <2>2. /\ next_tid' = next_tid /\ parent' = parent
        /\ \A p \in Thread : pc[p] = "exec_down" =>
             /\ child'[p] = child[p]
             /\ arguments'[p].sema.value = arguments[p].sema.value
    BY <1>6, <2>1, <1>t DEF InsertFill
  <2> QED BY <2>1, <2>2, Places, OtherStep
<1>7. ASSUME NEW t \in Thread, InsertSema(t) PROVE ExecInv'
  <2>1. /\ pc[t] = "sema"
        /\ \E there \in {"report"} : pc' = [pc EXCEPT ![t] = there]
    BY <1>7, <1>t DEF InsertSema, At, Goto
  <2>2. /\ next_tid' = next_tid /\ parent' = parent
        /\ \A p \in Thread : pc[p] = "exec_down" =>
             /\ child'[p] = child[p]
             /\ arguments'[p].sema.value = arguments[p].sema.value
    BY <1>7, <2>1, <1>t DEF InsertSema
  <2> QED BY <2>1, <2>2, Places, OtherStep
<1>8. ASSUME NEW t \in Thread, Report(t) PROVE ExecInv'
  <2>1. /\ pc[t] = "report"
        /\ \E there \in {"raise"} : pc' = [pc EXCEPT ![t] = there]
    BY <1>8, <1>t DEF Report, At, Goto
  <2>2. /\ next_tid' = next_tid /\ parent' = parent
        /\ \A p \in Thread : pc[p] = "exec_down" =>
             /\ child'[p] = child[p]
             /\ arguments'[p].sema.value = arguments[p].sema.value
    BY <1>8, <2>1, <1>t DEF Report
  <2> QED BY <2>1, <2>2, Places, OtherStep
<1>9. ASSUME NEW t \in Thread, ExecReturn(t) PROVE ExecInv'
  <2>1. /\ pc[t] = "exec_return"
        /\ \E there \in {"find", "user"} : pc' = [pc EXCEPT ![t] = there]
    BY <1>9, <1>t DEF ExecReturn, At, Goto, AfterExecute
  <2>2. /\ next_tid' = next_tid /\ parent' = parent
        /\ \A p \in Thread : pc[p] = "exec_down" =>
             /\ child'[p] = child[p]
             /\ arguments'[p].sema.value = arguments[p].sema.value
    BY <1>9, <2>1, <1>t DEF ExecReturn
  <2> QED BY <2>1, <2>2, Places, OtherStep
<1>10. ASSUME NEW t \in Thread, Wait(t) PROVE ExecInv'
  <2>1. /\ pc[t] = "user"
        /\ \E there \in {"find"} : pc' = [pc EXCEPT ![t] = there]
    BY <1>10, <1>t DEF Wait, At, Goto
  <2>2. /\ next_tid' = next_tid /\ parent' = parent
        /\ \A p \in Thread : pc[p] = "exec_down" =>
             /\ child'[p] = child[p]
             /\ arguments'[p].sema.value = arguments[p].sema.value
    BY <1>10, <2>1, <1>t DEF Wait
  <2> QED BY <2>1, <2>2, Places, OtherStep
<1>11. ASSUME NEW t \in Thread, WaitNotFound(t) PROVE ExecInv'
  <2>1. /\ pc[t] = "find"
        /\ \E there \in {"user"} : pc' = [pc EXCEPT ![t] = there]
    BY <1>11, <1>t DEF WaitNotFound, At, Goto
  <2>2. /\ next_tid' = next_tid /\ parent' = parent
        /\ \A p \in Thread : pc[p] = "exec_down" =>
             /\ child'[p] = child[p]
             /\ arguments'[p].sema.value = arguments[p].sema.value
    BY <1>11, <2>1, <1>t DEF WaitNotFound
  <2> QED BY <2>1, <2>2, Places, OtherStep
<1>12. ASSUME NEW t \in Thread, WaitFind(t) PROVE ExecInv'
  <2>1. /\ pc[t] = "find"
        /\ \E there \in {"wait_down"} : pc' = [pc EXCEPT ![t] = there]
    BY <1>12, <1>t DEF WaitFind, At, Goto
  <2>2. /\ next_tid' = next_tid /\ parent' = parent
        /\ \A p \in Thread : pc[p] = "exec_down" =>
             /\ child'[p] = child[p]
             /\ arguments'[p].sema.value = arguments[p].sema.value
    BY <1>12, <2>1, <1>t DEF WaitFind
  <2> QED BY <2>1, <2>2, Places, OtherStep
<1>13. ASSUME NEW t \in Thread, WaitDown(t) PROVE ExecInv'
  <2>1. /\ pc[t] = "wait_down"
        /\ \E there \in {"wait_down", "panic", "wait_read"} : pc' = [pc EXCEPT ![t] = there]
    BY <1>13, <1>t DEF WaitDown, At, Goto
  <2>2. /\ next_tid' = next_tid /\ parent' = parent
        /\ \A p \in Thread : pc[p] = "exec_down" =>
             /\ child'[p] = child[p]
             /\ arguments'[p].sema.value = arguments[p].sema.value
    BY <1>13, <2>1, <1>t DEF WaitDown
  <2> QED BY <2>1, <2>2, Places, OtherStep
<1>14. ASSUME NEW t \in Thread, WaitRead(t) PROVE ExecInv'
  <2>1. /\ pc[t] = "wait_read"
        /\ \E there \in {"wait_free"} : pc' = [pc EXCEPT ![t] = there]
    BY <1>14, <1>t DEF WaitRead, At, Goto
  <2>2. /\ next_tid' = next_tid /\ parent' = parent
        /\ \A p \in Thread : pc[p] = "exec_down" =>
             /\ child'[p] = child[p]
             /\ arguments'[p].sema.value = arguments[p].sema.value
    BY <1>14, <2>1, <1>t DEF WaitRead
  <2> QED BY <2>1, <2>2, Places, OtherStep
<1>15. ASSUME NEW t \in Thread, WaitFree(t) PROVE ExecInv'
  <2>1. /\ pc[t] = "wait_free"
        /\ \E there \in {"user"} : pc' = [pc EXCEPT ![t] = there]
    BY <1>15, <1>t DEF WaitFree, At, Goto
  <2>2. /\ next_tid' = next_tid /\ parent' = parent
        /\ \A p \in Thread : pc[p] = "exec_down" =>
             /\ child'[p] = child[p]
             /\ arguments'[p].sema.value = arguments[p].sema.value
    BY <1>15, <2>1, <1>t DEF WaitFree
  <2> QED BY <2>1, <2>2, Places, OtherStep
<1>16. ASSUME NEW t \in Thread, Exit(t) PROVE ExecInv'
  <2>1. /\ pc[t] = "user"
        /\ \E there \in {"set_status"} : pc' = [pc EXCEPT ![t] = there]
    BY <1>16, <1>t DEF Exit, At, Goto
  <2>2. /\ next_tid' = next_tid /\ parent' = parent
        /\ \A p \in Thread : pc[p] = "exec_down" =>
             /\ child'[p] = child[p]
             /\ arguments'[p].sema.value = arguments[p].sema.value
    BY <1>16, <2>1, <1>t DEF Exit
  <2> QED BY <2>1, <2>2, Places, OtherStep
<1>17. ASSUME NEW t \in Thread, Kill(t) PROVE ExecInv'
  <2>1. /\ pc[t] = "user"
        /\ \E there \in {"cleanup"} : pc' = [pc EXCEPT ![t] = there]
    BY <1>17, <1>t DEF Kill, At, Goto
  <2>2. /\ next_tid' = next_tid /\ parent' = parent
        /\ \A p \in Thread : pc[p] = "exec_down" =>
             /\ child'[p] = child[p]
             /\ arguments'[p].sema.value = arguments[p].sema.value
    BY <1>17, <2>1, <1>t DEF Kill
  <2> QED BY <2>1, <2>2, Places, OtherStep
<1>18. ASSUME NEW t \in Thread, SetStatus(t) PROVE ExecInv'
  <2>1. /\ pc[t] = "set_status"
        /\ \E there \in {"cleanup"} : pc' = [pc EXCEPT ![t] = there]
    BY <1>18, <1>t DEF SetStatus, At, Goto
  <2>2. /\ next_tid' = next_tid /\ parent' = parent
        /\ \A p \in Thread : pc[p] = "exec_down" =>
             /\ child'[p] = child[p]
             /\ arguments'[p].sema.value = arguments[p].sema.value
    BY <1>18, <2>1, <1>t DEF SetStatus
  <2> QED BY <2>1, <2>2, Places, OtherStep
<1>19. ASSUME NEW t \in Thread, CleanupFind(t) PROVE ExecInv'
  <2>1. /\ pc[t] = "cleanup"
        /\ \E there \in {"remove", "print"} : pc' = [pc EXCEPT ![t] = there]
    BY <1>19, <1>t DEF CleanupFind, At, Goto
  <2>2. /\ next_tid' = next_tid /\ parent' = parent
        /\ \A p \in Thread : pc[p] = "exec_down" =>
             /\ child'[p] = child[p]
             /\ arguments'[p].sema.value = arguments[p].sema.value
    BY <1>19, <2>1, <1>t DEF CleanupFind
  <2> QED BY <2>1, <2>2, Places, OtherStep
<1>20. ASSUME NEW t \in Thread, CleanupPrint(t) PROVE ExecInv'
  <2>1. /\ pc[t] = "print"
        /\ \E there \in {"remove"} : pc' = [pc EXCEPT ![t] = there]
    BY <1>20, <1>t DEF CleanupPrint, At, Goto
  <2>2. /\ next_tid' = next_tid /\ parent' = parent
        /\ \A p \in Thread : pc[p] = "exec_down" =>
             /\ child'[p] = child[p]
             /\ arguments'[p].sema.value = arguments[p].sema.value
    BY <1>20, <2>1, <1>t DEF CleanupPrint
  <2> QED BY <2>1, <2>2, Places, OtherStep
<1>21. ASSUME NEW t \in Thread, Remove(t) PROVE ExecInv'
  <2>1. /\ pc[t] = "remove"
        /\ \E there \in {"dead"} : pc' = [pc EXCEPT ![t] = there]
    BY <1>21, <1>t DEF Remove, At, Goto
  <2>2. /\ next_tid' = next_tid /\ parent' = parent
        /\ \A p \in Thread : pc[p] = "exec_down" =>
             /\ child'[p] = child[p]
             /\ arguments'[p].sema.value = arguments[p].sema.value
    BY <1>21, <2>1, <1>t DEF Remove
  <2> QED BY <2>1, <2>2, Places, OtherStep
<1>22. ASSUME NEW t \in Thread, Execute(t) PROVE ExecInv'
  <2>1. /\ pc[t] = "user" /\ next_tid \in Process
        /\ child' = [child EXCEPT ![t] = next_tid]
        /\ parent' = [parent EXCEPT ![next_tid] = t]
        /\ pc' = [pc EXCEPT ![t] = "exec_down", ![next_tid] = "load"]
        /\ next_tid' = next_tid + 1
        /\ arguments' = [arguments EXCEPT
                           ![t] = [success |-> FALSE, sema |-> sema_init(0)]]
    BY <1>22 DEF Execute, At
  <2>2. pc[next_tid] = "unborn" /\ next_tid \in Int
    BY <2>1 DEF ExecInv, UnbornInv, Process
  <2>3. StartInv'
    <3> SUFFICES ASSUME NEW c \in Process, pc'[c] \in StartPC
                 PROVE  /\ parent'[c] \in Thread
                        /\ pc'[parent'[c]] = "exec_down"
                        /\ child'[parent'[c]] = c
                        /\ arguments'[parent'[c]].sema.value = 0
      BY DEF StartInv
    <3>1. CASE c = next_tid
      BY <2>1, <2>2, <3>1, <1>t DEF sema_init
    <3>2. CASE c # next_tid
      <4>1. pc[c] \in StartPC /\ parent'[c] = parent[c]
        BY <2>1, <3>2, <1>t, Places
      <4>2. /\ parent[c] \in Thread /\ pc[parent[c]] = "exec_down"
            /\ child[parent[c]] = c /\ arguments[parent[c]].sema.value = 0
        BY <4>1 DEF ExecInv, StartInv
      <4>3. parent[c] # t /\ parent[c] # next_tid
        BY <4>2, <2>1, <2>2
      <4> QED BY <2>1, <4>1, <4>2, <4>3, <1>t
    <3> QED BY <3>1, <3>2
  <2>4. UnbornInv'
    <3> SUFFICES ASSUME NEW c \in Process, c >= next_tid + 1
                 PROVE  pc'[c] = "unborn"
      BY <2>1 DEF UnbornInv
    <3>1. c # next_tid /\ pc[c] = "unborn"
      BY <2>2 DEF ExecInv, UnbornInv, Process
    <3> QED BY <2>1, <3>1, <1>t
  <2> QED BY <2>3, <2>4 DEF ExecInv
<1>23. ASSUME NEW t \in Thread, Raise(t) PROVE ExecInv'
  <2>1. PICK there \in {"user", "cleanup"} : pc' = [pc EXCEPT ![t] = there]
    BY <1>23 DEF Raise, Goto
  <2>2. /\ pc[t] = "raise" /\ UNCHANGED <<next_tid, parent, child>>
        /\ arguments' = [arguments EXCEPT ![parent[t]].sema = SemaUp(@)]
    BY <1>23 DEF Raise, At
  <2>3. t \in Process /\ parent[t] \in Thread /\ child[parent[t]] = t
    <3>1. t # Main
      BY <2>2, Places DEF TypeInv, MainOK
    <3> QED BY <2>2, <3>1, Places DEF ExecInv, StartInv, Thread
  <2>4. StartInv'
    <3> SUFFICES ASSUME NEW c \in Process, pc'[c] \in StartPC
                 PROVE  /\ parent[c] \in Thread
                        /\ pc'[parent[c]] = "exec_down"
                        /\ child[parent[c]] = c
                        /\ arguments'[parent[c]].sema.value = 0
      BY <2>2 DEF StartInv
    <3>1. c # t /\ pc[c] \in StartPC
      BY <2>1, <1>t, Places
    <3>2. /\ parent[c] \in Thread /\ pc[parent[c]] = "exec_down"
          /\ child[parent[c]] = c /\ arguments[parent[c]].sema.value = 0
      BY <3>1 DEF ExecInv, StartInv
    <3>3. parent[c] # parent[t] /\ parent[c] # t
      BY <2>2, <2>3, <3>1, <3>2
    <3> QED BY <2>1, <2>2, <3>2, <3>3, <1>t
  <2>5. UnbornInv'
    BY <2>1, <2>2, <1>t DEF ExecInv, UnbornInv
  <2> QED BY <2>4, <2>5 DEF ExecInv
<1>24. ASSUME NEW t \in Thread, ExecDown(t) PROVE ExecInv'
  <2>1. pc[t] = "exec_down" /\ UNCHANGED <<next_tid, parent, child>>
    BY <1>24 DEF ExecDown, At
  <2>2. CASE /\ arguments[t].sema.value = 0
             /\ arguments' = [arguments EXCEPT ![t].sema = SemaQueue(@, t)]
             /\ pc' = pc
    <3>1. \A p \in Thread : arguments'[p].sema.value = arguments[p].sema.value
      BY <2>2, <1>t DEF SemaQueue, SemaOf
    <3> QED BY <2>1, <2>2, <3>1 DEF ExecInv, StartInv, UnbornInv
  <2>3. CASE /\ arguments[t].sema.value > 0
             /\ arguments' = [arguments EXCEPT ![t].sema = SemaTake(@)]
             /\ pc' = [pc EXCEPT ![t] = "exec_return"]
    <3>1. StartInv'
      <4> SUFFICES ASSUME NEW c \in Process, pc'[c] \in StartPC
                   PROVE  /\ parent[c] \in Thread
                          /\ pc'[parent[c]] = "exec_down"
                          /\ child[parent[c]] = c
                          /\ arguments'[parent[c]].sema.value = 0
        BY <2>1 DEF StartInv
      <4>1. pc[c] \in StartPC
        BY <2>3, <1>t, Places
      <4>2. /\ parent[c] \in Thread /\ pc[parent[c]] = "exec_down"
            /\ child[parent[c]] = c /\ arguments[parent[c]].sema.value = 0
        BY <4>1 DEF ExecInv, StartInv
      <4>3. parent[c] # t
        BY <2>3, <4>2
      <4> QED BY <2>3, <4>2, <4>3, <1>t
    <3>2. UnbornInv'
      BY <2>1, <2>3, <1>t DEF ExecInv, UnbornInv
    <3> QED BY <3>1, <3>2 DEF ExecInv
  <2> QED BY <1>24, <2>2, <2>3 DEF ExecDown, Goto
<1>25. CASE UNCHANGED vars
  BY <1>25 DEF vars, ExecInv, StartInv, UnbornInv
<1> QED
  BY <1>1, <1>2, <1>3, <1>4, <1>5, <1>6, <1>7, <1>8, <1>9, <1>10, <1>11, <1>12,
     <1>13, <1>14, <1>15, <1>16, <1>17, <1>18, <1>19, <1>20, <1>21, <1>22, <1>23,
     <1>24, <1>25 DEF Next, KernelStep, ProgramStep, Halted

\* The child never uses the arguments on its parent's stack after the parent
\* has left process_execute, whatever programs execute, wait for or do.
THEOREM ArgumentsSafe == Spec => []ArgumentsInUse
<1>1. ExecInv => ArgumentsInUse
  BY DEF ExecInv, StartInv, ArgumentsInUse
<1> QED
  BY TypeInit, TypeNext, ExecInit, ExecNext, <1>1, PTL DEF Spec

-----------------------------------------------------------------------------
(* The entries of the list, whatever programs wait for.                    *)

\* Where a thread holds p_list_lock from one step to the next.
InsertPC == {"scan", "fill", "sema"}

LockInv == \A t \in Thread : pc[t] \in InsertPC <=> p_list_lock = t

\* Which threads have been started, by whom, and which have been loaded.
BirthInv ==
    \A c \in Process :
        /\ pc[c] \in {"unborn", "load"} => ~success[c]
        /\ pc[c] \in {"insert", "scan", "fill", "sema", "user", "exec_down",
                      "exec_return", "set_status"} \cup WaitPC => success[c]
        /\ pc[c] = "unborn" => parent[c] = NoThread
        /\ pc[c] # "unborn" =>
             /\ parent[c] \in Thread \ {c}
             /\ pc[parent[c]] \notin StartPC \cup {"unborn"}
             /\ parent[c] # Main => success[parent[c]]

\* Only a loaded process that has claimed an entry is in the list, and once.
ListedInv ==
    \A s \in Slot : list[s].id # NoThread =>
        /\ success[list[s].id]
        /\ pc[list[s].id] \notin {"unborn", "load", "insert", "scan"}
        /\ \A r \in Slot : list[r].id = list[s].id => r = s

HoldInv == \A c \in Process : pc[c] \in {"fill", "sema"} => list[position[c]].id = c

\* What a parent inside process_execute is about to be told.
CallInv ==
    \A p \in Thread : pc[p] \in {"exec_down", "exec_return"} =>
        /\ child[p] \in Process
        /\ parent[child[p]] = p
        /\ pc[child[p]] # "unborn"
        /\ pc[p] = "exec_return" => pc[child[p]] \notin StartPC
        /\ pc[child[p]] \notin LoadPC \cup {"report"} =>
             arguments[p].success = success[child[p]]

EnterInv == LockInv /\ BirthInv /\ ListedInv /\ HoldInv /\ CallInv

-----------------------------------------------------------------------------
(* The entries of the list, when programs wait once for each child.        *)

\* The parent of c has taken the unit that the end of c put into its semaphore.
Taken(c) ==
    /\ pc[parent[c]] \in {"wait_read", "wait_free"}
    /\ child[parent[c]] = c

EntryOK(s) ==
    LET e == list[s]
        c == list[s].id
    IN  /\ c = NoThread => e.free /\ ~e.alive
        /\ c # NoThread =>
             /\ e.alive <=> pc[c] # "dead"
             /\ e.alive => ~e.free
             /\ pc[c] # "fill" => e.parent_id = parent[c]
             /\ pc[c] \notin {"fill", "sema"} => e.ready
             /\ pc[c] \notin {"fill", "sema", "dead"} => e.p_sema.value = 0
             /\ pc[c] \notin {"fill", "set_status"} => e.exit_status = exit_arg[c]
             /\ pc[c] = "dead" /\ ~e.free => Awaited(c)
             /\ Awaited(c) =>
                  /\ ~e.free
                  /\ e.p_sema.value = IF Taken(c) THEN 0 ELSE 1

\* The processes whose entry somebody may still look for.
Kept(c) ==
    /\ success[c]
    /\ pc[c] \notin {"insert", "scan"}
    /\ pc[c] = "dead" => /\ answers[c] = {}
                         /\ parent[c] = Main \/ pc[parent[c]] # "dead"

KeptInv == \A c \in Process : Kept(c) => ~NotListed(c)

StatusOK(c) ==
    /\ pc[c] \notin ExitPC \cup {"dead"} => exit_arg[c] = -1
    /\ pc[c] \notin {"remove", "dead"} => printed[c] = {}
    /\ success[c] /\ pc[c] \in {"remove", "dead"} => printed[c] = {exit_arg[c]}
    /\ answers[c] # {} =>
         /\ answers[c] = {exit_arg[c]}
         /\ pc[c] = "dead" /\ success[c]

StatusInv == \A c \in Process : StatusOK(c)

\* What a thread inside process_wait or process_cleanup relies on.
WaitOK(p) ==
    /\ pc[p] \in WaitPC =>
         \/ child[p] \in Children(p) \ Reaped
         \/ p = Main /\ pc[p] = "find" /\ child[p] = TID_ERROR
    /\ pc[p] \in {"wait_down", "wait_read", "wait_free"} =>
         list[position[p]].id = child[p]
    /\ pc[p] \in {"wait_read", "wait_free"} => pc[child[p]] = "dead"
    /\ pc[p] = "wait_free" => seen[p] = exit_arg[child[p]]
    /\ pc[p] = "print" => list[position[p]].id = p
    /\ pc[p] \in {"exec_down", "exec_return"} => answers[child[p]] = {}

WaitInv == \A p \in Thread : WaitOK(p)

\* The initial thread waits for each of its children at once, and when one has
\* begun to exit nothing else runs until it has been waited for.
RootInv ==
    \A c \in Children(Main) \ Reaped :
        /\ pc[Main] \in {"exec_down", "exec_return"} \cup WaitPC
        /\ child[Main] = c
        /\ pc[c] \in ExitPC \cup {"dead"} =>
             \A u \in Process \ {c} : pc[u] \in {"unborn", "dead"}

EntryInv == \A s \in Slot : EntryOK(s)

ListInv == EntryInv /\ KeptInv /\ StatusInv /\ WaitInv /\ RootInv
-----------------------------------------------------------------------------
\* The facts about the constants and the types that the proofs below share.
LEMMA Basics ==
    /\ Main \in Thread /\ Process \subseteq Thread /\ Main \notin Process
    /\ Thread = {Main} \cup Process
    /\ NoThread \notin Thread /\ TID_ERROR \notin Thread \cup {NoThread}
    /\ Process \subseteq Int /\ NoThread \in Int /\ Main \in Int
BY PListAssumption DEF TID_ERROR, NoThread, Thread, Main, Process

LEMMA Types ==
    ASSUME TypeInv
    PROVE  /\ pc \in [Thread -> AllPC]
           /\ parent \in [Thread -> Thread \cup {NoThread}]
           /\ success \in [Thread -> BOOLEAN]
           /\ child \in [Thread -> Int]
           /\ position \in [Thread -> 0..PLIST_SIZE]
           /\ arguments \in [Thread -> [success : BOOLEAN, sema : SemaOf(Thread)]]
           /\ list \in [Slot -> Entry]
           /\ \A s \in Slot : list[s].id \in Process \cup {NoThread}
           /\ p_list_lock \in Thread \cup {NoThread}
           /\ \A t \in Process : pc[t] \in HoldPC => position[t] \in Slot
           /\ pc[Main] \notin StartPC
           /\ exit_arg \in [Thread -> Int] /\ seen \in [Thread -> Int]
           /\ printed \in [Thread -> SUBSET Int] /\ answers \in [Thread -> SUBSET Int]
BY Basics DEF TypeInv, ProcessTypeOK, PListTypeOK, PositionOK, MainOK, Entry

\* With one entry for each id, plist_get_process finds the entry with the id.
LEMMA FindsIt ==
    ASSUME ListedInv, NEW id, id # NoThread, NEW s \in Slot
    PROVE  IsProcess(s, id) <=> list[s].id = id
<1>1. ASSUME list[s].id = id, NEW r \in 0..s - 1 PROVE list[r].id # id
  <2>1. r \in Slot /\ r # s
    BY PListAssumption DEF Slot
  <2> QED BY <1>1, <2>1 DEF ListedInv
<1> QED BY <1>1 DEF IsProcess

-----------------------------------------------------------------------------
\* Most steps of t concern only t, once it has left start_process and is not
\* inside process_execute.
OutPC == {"user", "panic", "dead"} \cup WaitPC \cup ExitPC

Quiet(t) ==
    /\ parent' = parent /\ success' = success /\ arguments' = arguments
    /\ p_list_lock' = p_list_lock
    /\ \A s \in Slot : list'[s].id = list[s].id
    /\ pc[t] \in OutPC \ {"dead", "panic"} /\ pc'[t] \in OutPC
    /\ pc[t] \in ExitPC => pc'[t] \in {"cleanup", "print", "remove", "dead"}
    /\ \A u \in Thread \ {t} :
         pc'[u] = pc[u] /\ position'[u] = position[u] /\ child'[u] = child[u]

LEMMA OutPlaces ==
    /\ OutPC \cap (StartPC \cup {"unborn", "exec_down", "exec_return"}) = {}
    /\ OutPC = {"user", "panic", "dead", "find", "wait_down", "wait_read",
                "wait_free", "set_status", "cleanup", "print", "remove"}
    /\ StartPC = {"load", "insert", "scan", "fill", "sema", "report", "raise"}
    /\ LoadPC = {"load", "insert", "scan", "fill", "sema"}
    /\ InsertPC = {"scan", "fill", "sema"}
    /\ WaitPC = {"find", "wait_down", "wait_read", "wait_free"}
    /\ ExitPC = {"set_status", "cleanup", "print", "remove"}
BY DEF OutPC, StartPC, LoadPC, WaitPC, ExitPC, InsertPC

LEMMA EnterQuiet ==
    ASSUME TypeInv, ExecInv, EnterInv, NEW t \in Thread, Quiet(t)
    PROVE  EnterInv'
<1>1. LockInv'
  BY OutPlaces DEF Quiet, EnterInv, LockInv
<1>2. BirthInv'
  <2> SUFFICES ASSUME NEW c \in Process
               PROVE  /\ pc'[c] \in {"unborn", "load"} => ~success[c]
                      /\ pc'[c] \in {"insert", "scan", "fill", "sema", "user", "exec_down",
                                     "exec_return", "set_status"} \cup WaitPC => success[c]
                      /\ pc'[c] = "unborn" => parent[c] = NoThread
                      /\ pc'[c] # "unborn" =>
                           /\ parent[c] \in Thread \ {c}
                           /\ pc'[parent[c]] \notin StartPC \cup {"unborn"}
                           /\ parent[c] # Main => success[parent[c]]
    BY DEF Quiet, BirthInv
  <2>1. c \in Thread
    BY Basics
  <2>2. CASE c = t
    BY <2>1, <2>2, OutPlaces DEF Quiet, EnterInv, BirthInv
  <2>3. CASE c # t
    BY <2>1, <2>3, OutPlaces DEF Quiet, EnterInv, BirthInv
  <2> QED BY <2>2, <2>3
<1>3. ListedInv'
  <2> SUFFICES ASSUME NEW s \in Slot, list[s].id # NoThread
               PROVE  /\ success[list[s].id]
                      /\ pc'[list[s].id] \notin {"unborn", "load", "insert", "scan"}
                      /\ \A r \in Slot : list[r].id = list[s].id => r = s
    BY DEF Quiet, ListedInv
  <2>1. list[s].id \in Thread
    BY Basics, Types
  <2> QED BY <2>1, OutPlaces DEF Quiet, EnterInv, ListedInv
<1>4. HoldInv'
  <2> SUFFICES ASSUME NEW c \in Process, pc'[c] \in {"fill", "sema"}
               PROVE  list'[position'[c]].id = c
    BY DEF HoldInv
  <2>1. c \in Thread /\ c # t
    BY Basics, OutPlaces DEF Quiet
  <2>2. pc[c] \in {"fill", "sema"} /\ position'[c] = position[c] /\ position[c] \in Slot
    BY <2>1, Types DEF Quiet, HoldPC
  <2> QED BY <2>2 DEF Quiet, EnterInv, HoldInv
<1>5. CallInv'
  <2> SUFFICES ASSUME NEW p \in Thread, pc'[p] \in {"exec_down", "exec_return"}
               PROVE  /\ child'[p] \in Process
                      /\ parent[child'[p]] = p
                      /\ pc'[child'[p]] # "unborn"
                      /\ pc'[p] = "exec_return" => pc'[child'[p]] \notin StartPC
                      /\ pc'[child'[p]] \notin LoadPC \cup {"report"} =>
                           arguments[p].success = success[child'[p]]
    BY DEF Quiet, CallInv
  <2>1. p # t
    BY OutPlaces DEF Quiet
  <2>2. pc'[p] = pc[p] /\ child'[p] = child[p]
    BY <2>1 DEF Quiet
  <2>3. /\ child[p] \in Process /\ parent[child[p]] = p
        /\ pc[child[p]] # "unborn"
        /\ pc[p] = "exec_return" => pc[child[p]] \notin StartPC
        /\ pc[child[p]] \notin LoadPC \cup {"report"} =>
             arguments[p].success = success[child[p]]
    BY <2>2 DEF EnterInv, CallInv
  <2>4. CASE child[p] = t
    BY <2>2, <2>3, <2>4, OutPlaces DEF Quiet
  <2>5. CASE child[p] # t
    BY <2>2, <2>3, <2>5, Basics DEF Quiet
  <2> QED BY <2>4, <2>5
<1> QED BY <1>1, <1>2, <1>3, <1>4, <1>5 DEF EnterInv
\* RemoveEntry leaves the ids alone.
LEMMA RemoveKeepsIds ==
    ASSUME TypeInv, NEW s \in Slot, RemoveEntry(s)
    PROVE  \A r \in Slot : list'[r].id = list[r].id
<1> DEFINE dead == [list EXCEPT ![s].alive = FALSE]
           kept == \E r \in Slot : IsProcess(r, list[s].parent_id) /\ dead[r].alive
           freed == [dead EXCEPT ![s].free = @ \/ ~kept]
           rest == plist_kill_children(freed, list[s].id)
<1>1. list \in [Slot -> Entry]
  BY Types
<1>2. dead \in [Slot -> Entry] /\ \A r \in Slot : dead[r].id = list[r].id
  BY <1>1 DEF Entry
<1>3. DOMAIN freed = Slot /\ \A r \in Slot : freed[r].id = list[r].id
  <2> HIDE DEF dead, kept
  <2> QED BY <1>2 DEF Entry
<1>4. DOMAIN rest = Slot /\ \A r \in Slot : rest[r].id = list[r].id
  <2> HIDE DEF freed
  <2> QED BY <1>3 DEF plist_kill_children
<1>5. list' = [rest EXCEPT ![s].p_sema = SemaUp(@)]
  BY DEF RemoveEntry
<1> HIDE DEF rest
<1> QED BY <1>4, <1>5

\* The steps a thread takes in process_wait, process_exit and
\* process_cleanup, and what a program chooses, are such steps.
QuietStep(t) ==
    \/ ExecuteFails(t) \/ Wait(t) \/ Exit(t) \/ Kill(t)
    \/ WaitNotFound(t) \/ WaitFind(t) \/ WaitDown(t) \/ WaitRead(t) \/ WaitFree(t)
    \/ SetStatus(t) \/ CleanupFind(t) \/ CleanupPrint(t) \/ Remove(t)

LEMMA QuietSteps ==
    ASSUME TypeInv, NEW t \in Thread, QuietStep(t)
    PROVE  Quiet(t)
<1>t. /\ pc \in [Thread -> AllPC] /\ child \in [Thread -> Int]
      /\ position \in [Thread -> 0..PLIST_SIZE] /\ list \in [Slot -> Entry]
  BY Types
<1> USE DEF plistVars, callVars, exitVars, waitVars, Goto, At
<1>1. CASE ExecuteFails(t) \/ Wait(t) \/ Exit(t) \/ Kill(t)
  <2>1. pc[t] = "user" /\ \E there \in {"find", "user", "set_status", "cleanup"} :
                             pc' = [pc EXCEPT ![t] = there]
    BY <1>1 DEF ExecuteFails, Wait, Exit, Kill, AfterExecute
  <2>2. /\ UNCHANGED <<parent, success, arguments, p_list_lock, list, position>>
        /\ child' = child \/ \E c : child' = [child EXCEPT ![t] = c]
    BY <1>1 DEF ExecuteFails, Wait, Exit, Kill
  <2> QED BY <2>1, <2>2, <1>t, OutPlaces DEF Quiet
<1>2. CASE WaitNotFound(t) \/ WaitFind(t) \/ WaitRead(t)
  <2>1. /\ pc[t] \in {"find", "wait_read"}
        /\ \E there \in {"user", "wait_down", "wait_free"} : pc' = [pc EXCEPT ![t] = there]
    BY <1>2 DEF WaitNotFound, WaitFind, WaitRead
  <2>2. /\ UNCHANGED <<parent, success, arguments, p_list_lock, list, child>>
        /\ position' = position \/ \E s \in Slot : position' = [position EXCEPT ![t] = s]
    BY <1>2 DEF WaitNotFound, WaitFind, WaitRead
  <2> QED BY <2>1, <2>2, <1>t, OutPlaces DEF Quiet
<1>3. CASE WaitDown(t) \/ WaitFree(t)
  <2>1. /\ pc[t] \in {"wait_down", "wait_free"}
        /\ pc' = pc \/ \E there \in {"panic", "wait_read", "user"} : pc' = [pc EXCEPT ![t] = there]
    BY <1>3 DEF WaitDown, WaitFree
  <2>2. UNCHANGED <<parent, success, arguments, p_list_lock, child, position>>
    BY <1>3 DEF WaitDown, WaitFree
  <2>3. \A s \in Slot : list'[s].id = list[s].id
    BY <1>3, <1>t DEF WaitDown, WaitFree, Entry
  <2> QED BY <2>1, <2>2, <2>3, <1>t, OutPlaces DEF Quiet
<1>4. CASE SetStatus(t)
  <2>1. /\ pc[t] = "set_status" /\ pc' = [pc EXCEPT ![t] = "cleanup"]
        /\ UNCHANGED <<parent, success, arguments, p_list_lock, child, position>>
    BY <1>4 DEF SetStatus
  <2>2. \A s \in Slot : list'[s].id = list[s].id
    BY <1>4, <1>t DEF SetStatus, plist_change_exit_status, Entry
  <2> QED BY <2>1, <2>2, <1>t, OutPlaces DEF Quiet
<1>5. CASE CleanupFind(t) \/ CleanupPrint(t)
  <2>1. /\ pc[t] \in {"cleanup", "print"}
        /\ \E there \in {"remove", "print"} : pc' = [pc EXCEPT ![t] = there]
    BY <1>5 DEF CleanupFind, CleanupPrint
  <2>2. /\ UNCHANGED <<parent, success, arguments, p_list_lock, list, child>>
        /\ position' = position \/ \E s \in Slot : position' = [position EXCEPT ![t] = s]
    BY <1>5 DEF CleanupFind, CleanupPrint
  <2> QED BY <2>1, <2>2, <1>t, OutPlaces DEF Quiet
<1>6. CASE Remove(t)
  <2>1. /\ pc[t] = "remove" /\ pc' = [pc EXCEPT ![t] = "dead"]
        /\ UNCHANGED <<parent, success, arguments, p_list_lock, child, position>>
    BY <1>6 DEF Remove
  <2>2. \A s \in Slot : list'[s].id = list[s].id
    BY <1>6, RemoveKeepsIds DEF Remove
  <2> QED BY <2>1, <2>2, <1>t, OutPlaces DEF Quiet
<1> QED
  BY <1>1, <1>2, <1>3, <1>4, <1>5, <1>6 DEF QuietStep

-----------------------------------------------------------------------------
\* A step of t in start_process that leaves the entries' ids alone.
Starting(t) ==
    /\ parent' = parent /\ child' = child
    /\ \A s \in Slot : list'[s].id = list[s].id
    /\ \A u \in Thread \ {t} :
         /\ pc'[u] = pc[u] /\ position'[u] = position[u] /\ success'[u] = success[u]
         /\ p_list_lock' = u <=> p_list_lock = u
         /\ u # parent[t] => arguments'[u].success = arguments[u].success
    /\ pc[t] \in StartPC
    /\ pc'[t] \notin {"unborn", "load", "exec_down", "exec_return", "set_status"} \cup WaitPC
    /\ pc'[t] \in InsertPC <=> p_list_lock' = t
    /\ pc'[t] \in {"insert", "scan", "fill", "sema", "user"} => success'[t]
    /\ \/ NotListed(t)
       \/ success'[t] /\ pc'[t] \notin {"insert", "scan"}
    /\ pc'[t] \in {"fill", "sema"} => position'[t] \in Slot /\ list[position'[t]].id = t
    /\ pc'[t] \notin LoadPC \cup {"report"} => arguments'[parent[t]].success = success'[t]

LEMMA EnterStarting ==
    ASSUME TypeInv, ExecInv, EnterInv, NEW t \in Process, Starting(t)
    PROVE  EnterInv'
<1>1. LockInv'
  BY OutPlaces DEF Starting, EnterInv, LockInv
<1>2. BirthInv'
  <2> SUFFICES ASSUME NEW c \in Process
               PROVE  /\ pc'[c] \in {"unborn", "load"} => ~success'[c]
                      /\ pc'[c] \in {"insert", "scan", "fill", "sema", "user", "exec_down",
                                     "exec_return", "set_status"} \cup WaitPC => success'[c]
                      /\ pc'[c] = "unborn" => parent[c] = NoThread
                      /\ pc'[c] # "unborn" =>
                           /\ parent[c] \in Thread \ {c}
                           /\ pc'[parent[c]] \notin StartPC \cup {"unborn"}
                           /\ parent[c] # Main => success'[parent[c]]
    BY DEF Starting, BirthInv
  <2>1. c \in Thread
    BY Basics
  <2>2. CASE c = t
    <3>1. /\ parent[c] \in Thread \ {c}
          /\ pc[parent[c]] \notin StartPC \cup {"unborn"}
          /\ parent[c] # Main => success[parent[c]]
      BY <2>2, OutPlaces DEF Starting, EnterInv, BirthInv
    <3> QED BY <2>1, <2>2, <3>1, OutPlaces DEF Starting
  <2>3. CASE c # t
    <3>1. pc[c] # "unborn" => /\ parent[c] \in Thread \ {c}
                              /\ parent[c] # t
                              /\ pc[parent[c]] \notin StartPC \cup {"unborn"}
                              /\ parent[c] # Main => success[parent[c]]
      BY OutPlaces DEF Starting, EnterInv, BirthInv
    <3> QED BY <2>1, <2>3, <3>1, OutPlaces DEF Starting, EnterInv, BirthInv
  <2> QED BY <2>2, <2>3
<1>3. ListedInv'
  <2> SUFFICES ASSUME NEW s \in Slot, list[s].id # NoThread
               PROVE  /\ success'[list[s].id]
                      /\ pc'[list[s].id] \notin {"unborn", "load", "insert", "scan"}
                      /\ \A r \in Slot : list[r].id = list[s].id => r = s
    BY DEF Starting, ListedInv
  <2>1. list[s].id \in Thread
    BY Basics, Types
  <2> QED BY <2>1, OutPlaces DEF Starting, NotListed, EnterInv, ListedInv
<1>4. HoldInv'
  <2> SUFFICES ASSUME NEW c \in Process, pc'[c] \in {"fill", "sema"}
               PROVE  list'[position'[c]].id = c
    BY DEF HoldInv
  <2>1. p_list_lock' = t \/ c # t
    BY <1>1, Basics, OutPlaces DEF LockInv
  <2>2. CASE c = t
    BY <2>2 DEF Starting
  <2>3. CASE c # t
    <3>1. pc[c] \in {"fill", "sema"} /\ position'[c] = position[c] /\ position[c] \in Slot
      BY <2>3, Basics, Types DEF Starting, HoldPC
    <3> QED BY <3>1 DEF Starting, EnterInv, HoldInv
  <2> QED BY <2>2, <2>3
<1>5. CallInv'
  <2> SUFFICES ASSUME NEW p \in Thread, pc'[p] \in {"exec_down", "exec_return"}
               PROVE  /\ child[p] \in Process
                      /\ parent[child[p]] = p
                      /\ pc'[child[p]] # "unborn"
                      /\ pc'[p] = "exec_return" => pc'[child[p]] \notin StartPC
                      /\ pc'[child[p]] \notin LoadPC \cup {"report"} =>
                           arguments'[p].success = success'[child[p]]
    BY DEF Starting, CallInv
  <2>1. p # t /\ pc'[p] = pc[p]
    BY DEF Starting
  <2>2. /\ child[p] \in Process /\ parent[child[p]] = p
        /\ pc[child[p]] # "unborn"
        /\ pc[p] = "exec_return" => pc[child[p]] \notin StartPC
        /\ pc[child[p]] \notin LoadPC \cup {"report"} =>
             arguments[p].success = success[child[p]]
    BY <2>1 DEF EnterInv, CallInv
  <2>3. CASE child[p] = t
    BY <2>1, <2>2, <2>3, OutPlaces DEF Starting
  <2>4. CASE child[p] # t
    <3>1. p # parent[t]
      BY <2>4, OutPlaces DEF Starting, ExecInv, StartInv
    <3> QED BY <2>1, <2>2, <2>4, <3>1, Basics DEF Starting
  <2> QED BY <2>3, <2>4
<1> QED BY <1>1, <1>2, <1>3, <1>4, <1>5 DEF EnterInv

StartStep(t) ==
    \/ Load(t) \/ InsertLock(t) \/ (InsertScan(t) /\ pc'[t] = "scan") \/ InsertFull(t)
    \/ InsertFill(t) \/ InsertSema(t) \/ Report(t) \/ Raise(t)

LEMMA StartSteps ==
    ASSUME TypeInv, ExecInv, EnterInv, NEW t \in Thread, StartStep(t)
    PROVE  t \in Process /\ Starting(t)
<1>t. /\ pc \in [Thread -> AllPC] /\ child \in [Thread -> Int]
      /\ position \in [Thread -> 0..PLIST_SIZE] /\ list \in [Slot -> Entry]
      /\ success \in [Thread -> BOOLEAN]
      /\ arguments \in [Thread -> [success : BOOLEAN, sema : SemaOf(Thread)]]
      /\ p_list_lock \in Thread \cup {NoThread}
  BY Types
<1>p. ASSUME pc[t] \in StartPC
      PROVE  /\ t \in Process /\ parent[t] \in Thread
             /\ pc[t] # "load" => (pc[t] \in {"insert", "scan", "fill", "sema"} => success[t])
             /\ pc[t] \in {"load", "insert", "scan"} => NotListed(t)
             /\ ~success[t] => NotListed(t)
             /\ pc[t] \in {"fill", "sema"} => position[t] \in Slot /\ list[position[t]].id = t
             /\ pc[t] \in InsertPC <=> p_list_lock = t
  <2>1. t \in Process
    BY <1>p, Types, Basics
  <2>2. parent[t] \in Thread
    BY <1>p, <2>1 DEF ExecInv, StartInv
  <2>3. t # NoThread
    BY Basics
  <2>4. pc[t] \in {"load", "insert", "scan"} \/ ~success[t] => NotListed(t)
    BY <2>1, <2>3 DEF NotListed, EnterInv, ListedInv
  <2>5. pc[t] \in {"fill", "sema"} => position[t] \in Slot /\ list[position[t]].id = t
    BY <2>1, Types DEF HoldPC, EnterInv, HoldInv
  <2>6. pc[t] \in {"insert", "scan", "fill", "sema"} => success[t]
    BY <2>1 DEF EnterInv, BirthInv
  <2> QED BY <2>1, <2>2, <2>4, <2>5, <2>6 DEF EnterInv, LockInv
<1> USE DEF plistVars, callVars, exitVars, waitVars, Goto, At
<1>1. CASE Load(t)
  <2>1. /\ pc[t] = "load" /\ UNCHANGED <<parent, child, list, position, p_list_lock, arguments>>
        /\ \E ok \in BOOLEAN : /\ success' = [success EXCEPT ![t] = ok]
                               /\ pc' = [pc EXCEPT ![t] = IF ok THEN "insert" ELSE "report"]
    BY <1>1 DEF Load
  <2> QED BY <2>1, <1>p, <1>t, OutPlaces DEF Starting
<1>2. CASE InsertLock(t)
  <2>1. /\ pc[t] = "insert" /\ UNCHANGED <<parent, child, list, success, arguments>>
        /\ p_list_lock = NoThread /\ p_list_lock' = t
        /\ position' = [position EXCEPT ![t] = 0] /\ pc' = [pc EXCEPT ![t] = "scan"]
    BY <1>2 DEF InsertLock, LockFree
  <2> QED BY <2>1, <1>p, <1>t, OutPlaces, Basics DEF Starting
<1>3. CASE InsertScan(t) /\ pc'[t] = "scan"
  <2>1. /\ pc[t] = "scan" /\ UNCHANGED <<parent, child, list, success, arguments, p_list_lock, pc>>
        /\ \A u \in Thread \ {t} : position'[u] = position[u]
    BY <1>3, <1>t DEF InsertScan
  <2> QED BY <2>1, <1>p, <1>t, OutPlaces DEF Starting
<1>4. CASE InsertFull(t)
  <2>1. /\ pc[t] = "scan" /\ UNCHANGED <<parent, child, list, position, arguments>>
        /\ p_list_lock' = NoThread /\ success' = [success EXCEPT ![t] = FALSE]
        /\ pc' = [pc EXCEPT ![t] = "report"]
    BY <1>4 DEF InsertFull
  <2>2. p_list_lock = t
    BY <2>1, <1>p, OutPlaces
  <2> QED BY <2>1, <2>2, <1>p, <1>t, OutPlaces, Basics DEF Starting
<1>5. CASE InsertFill(t)
  <2>1. /\ pc[t] = "fill" /\ UNCHANGED <<parent, child, position, success, arguments, p_list_lock>>
        /\ pc' = [pc EXCEPT ![t] = "sema"]
    BY <1>5 DEF InsertFill
  <2>2. \A s \in Slot : list'[s].id = list[s].id
    BY <1>5, <1>t DEF InsertFill, FillSlot, Entry
  <2> QED BY <2>1, <2>2, <1>p, <1>t, OutPlaces DEF Starting
<1>6. CASE InsertSema(t)
  <2>1. /\ pc[t] = "sema" /\ UNCHANGED <<parent, child, position, success, arguments>>
        /\ p_list_lock' = NoThread /\ pc' = [pc EXCEPT ![t] = "report"]
    BY <1>6 DEF InsertSema
  <2>2. \A s \in Slot : list'[s].id = list[s].id
    BY <1>6, <1>t DEF InsertSema, InitSlotSema, Entry
  <2>3. p_list_lock = t
    BY <2>1, <1>p, OutPlaces
  <2> QED BY <2>1, <2>2, <2>3, <1>p, <1>t, OutPlaces, Basics DEF Starting
<1>7. CASE Report(t)
  <2>1. /\ pc[t] = "report" /\ UNCHANGED <<parent, child, list, position, success, p_list_lock>>
        /\ arguments' = [arguments EXCEPT ![parent[t]].success = success[t]]
        /\ pc' = [pc EXCEPT ![t] = "raise"]
    BY <1>7 DEF Report
  <2>2. /\ parent[t] \in Thread /\ arguments'[parent[t]].success = success[t]
        /\ \A u \in Thread : u # parent[t] => arguments'[u] = arguments[u]
    BY <2>1, <1>p, <1>t, OutPlaces
  <2> QED BY <2>1, <2>2, <1>p, <1>t, OutPlaces DEF Starting
<1>8. CASE Raise(t)
  <2>1. /\ pc[t] = "raise" /\ UNCHANGED <<parent, child, list, position, success, p_list_lock>>
        /\ arguments' = [arguments EXCEPT ![parent[t]].sema = SemaUp(@)]
        /\ pc' = [pc EXCEPT ![t] = IF success[t] THEN "user" ELSE "cleanup"]
    BY <1>8 DEF Raise
  <2>2. \A u \in Thread : arguments'[u].success = arguments[u].success
    BY <2>1, <1>t
  <2>3. /\ pc[parent[t]] = "exec_down" /\ child[parent[t]] = t /\ parent[t] \in Thread
    BY <2>1, <1>p, OutPlaces DEF ExecInv, StartInv
  <2>4. arguments[parent[t]].success = success[t]
    BY <2>1, <2>3, OutPlaces DEF EnterInv, CallInv
  <2> QED BY <2>1, <2>2, <2>3, <2>4, <1>p, <1>t, OutPlaces DEF Starting
<1> QED
  BY <1>1, <1>2, <1>3, <1>4, <1>5, <1>6, <1>7, <1>8 DEF StartStep

-----------------------------------------------------------------------------
\* The other steps: t claims an entry, or is in its own process_execute.
Claiming(t) ==
    /\ pc[t] = "scan" /\ position[t] \in Slot /\ list[position[t]].free
    /\ pc' = [pc EXCEPT ![t] = "fill"]
    /\ ClaimSlot(position[t], t)
    /\ UNCHANGED <<p_list_lock, position, blocked, next_tid, callVars, exitVars, waitVars>>

LEMMA ScanSteps ==
    ASSUME TypeInv, NEW t \in Thread, InsertScan(t)
    PROVE  Claiming(t) \/ StartStep(t)
<1>1. pc[t] = "scan" /\ pc \in [Thread -> AllPC]
  BY Types DEF InsertScan, At
<1>2. CASE pc' = pc
  BY <1>1, <1>2 DEF StartStep
<1>3. CASE pc' # pc
  BY <1>1, <1>3 DEF InsertScan, Goto, Claiming
<1> QED BY <1>2, <1>3

LEMMA EnterClaiming ==
    ASSUME TypeInv, ExecInv, EnterInv, NEW t \in Thread, Claiming(t)
    PROVE  EnterInv'
<1>t. /\ pc \in [Thread -> AllPC] /\ list \in [Slot -> Entry]
      /\ p_list_lock \in Thread \cup {NoThread}
  BY Types
<1>1. /\ UNCHANGED <<p_list_lock, position, parent, success, child, arguments>>
      /\ pc[t] = "scan" /\ pc'[t] = "fill"
      /\ \A u \in Thread \ {t} : pc'[u] = pc[u]
  BY <1>t DEF Claiming, callVars
<1>2. t \in Process /\ t # NoThread
  BY <1>1, Types, Basics, OutPlaces
<1>3. /\ position[t] \in Slot /\ list'[position[t]].id = t
      /\ \A s \in Slot \ {position[t]} : list'[s].id = list[s].id
  BY <1>t DEF Claiming, ClaimSlot, Entry
<1>4. success[t] /\ \A s \in Slot : list[s].id # t
  BY <1>1, <1>2 DEF EnterInv, BirthInv, ListedInv
<1>5. LockInv'
  BY <1>1, OutPlaces DEF EnterInv, LockInv
<1>6. BirthInv'
  <2> SUFFICES ASSUME NEW c \in Process
               PROVE  /\ pc'[c] \in {"unborn", "load"} => ~success[c]
                      /\ pc'[c] \in {"insert", "scan", "fill", "sema", "user", "exec_down",
                                     "exec_return", "set_status"} \cup WaitPC => success[c]
                      /\ pc'[c] = "unborn" => parent[c] = NoThread
                      /\ pc'[c] # "unborn" =>
                           /\ parent[c] \in Thread \ {c}
                           /\ pc'[parent[c]] \notin StartPC \cup {"unborn"}
                           /\ parent[c] # Main => success[parent[c]]
    BY <1>1 DEF BirthInv
  <2>1. c \in Thread
    BY Basics
  <2>2. pc[c] # "unborn" => /\ parent[c] \in Thread \ {c}
                            /\ parent[c] # t
                            /\ pc[parent[c]] \notin StartPC \cup {"unborn"}
                            /\ parent[c] # Main => success[parent[c]]
    BY <1>1, OutPlaces DEF EnterInv, BirthInv
  <2>3. CASE c = t
    BY <1>1, <1>4, <2>1, <2>2, <2>3, OutPlaces
  <2>4. CASE c # t
    BY <1>1, <2>1, <2>2, <2>4, OutPlaces DEF EnterInv, BirthInv
  <2> QED BY <2>3, <2>4
<1>7. ListedInv'
  <2> SUFFICES ASSUME NEW s \in Slot, list'[s].id # NoThread
               PROVE  /\ success[list'[s].id]
                      /\ pc'[list'[s].id] \notin {"unborn", "load", "insert", "scan"}
                      /\ \A r \in Slot : list'[r].id = list'[s].id => r = s
    BY <1>1 DEF ListedInv
  <2>1. CASE s = position[t]
    BY <1>1, <1>3, <1>4, <2>1
  <2>2. CASE s # position[t]
    <3>1. list'[s].id = list[s].id /\ list[s].id \in Thread \ {t}
      BY <1>3, <1>4, <2>2, Types, Basics
    <3> QED BY <1>1, <1>3, <1>4, <3>1 DEF EnterInv, ListedInv
  <2> QED BY <2>1, <2>2
<1>8. HoldInv'
  <2> SUFFICES ASSUME NEW c \in Process, pc'[c] \in {"fill", "sema"}
               PROVE  list'[position[c]].id = c
    BY <1>1 DEF HoldInv
  <2>1. c = t
    <3>1. c \in Thread /\ pc'[c] \in InsertPC /\ pc'[t] \in InsertPC
      BY <1>1, Basics, OutPlaces
    <3> QED BY <1>5, <3>1 DEF LockInv
  <2> QED BY <2>1, <1>3
<1>9. CallInv'
  <2> SUFFICES ASSUME NEW p \in Thread, pc'[p] \in {"exec_down", "exec_return"}
               PROVE  /\ child[p] \in Process
                      /\ parent[child[p]] = p
                      /\ pc'[child[p]] # "unborn"
                      /\ pc'[p] = "exec_return" => pc'[child[p]] \notin StartPC
                      /\ pc'[child[p]] \notin LoadPC \cup {"report"} =>
                           arguments[p].success = success[child[p]]
    BY <1>1 DEF CallInv
  <2>1. /\ pc'[p] = pc[p] /\ child[p] \in Process /\ child[p] \in Thread
        /\ parent[child[p]] = p
        /\ pc[child[p]] # "unborn"
        /\ pc[p] = "exec_return" => pc[child[p]] \notin StartPC
        /\ pc[child[p]] \notin LoadPC \cup {"report"} =>
             arguments[p].success = success[child[p]]
    BY <1>1, Basics DEF EnterInv, CallInv
  <2> QED BY <1>1, <2>1, OutPlaces
<1> QED BY <1>5, <1>6, <1>7, <1>8, <1>9 DEF EnterInv

LEMMA EnterExecute ==
    ASSUME TypeInv, ExecInv, EnterInv, NEW t \in Thread, Execute(t)
    PROVE  EnterInv'
<1> DEFINE c == next_tid
<1>t. /\ pc \in [Thread -> AllPC] /\ child \in [Thread -> Int]
      /\ parent \in [Thread -> Thread \cup {NoThread}]
      /\ p_list_lock \in Thread \cup {NoThread}
      /\ arguments \in [Thread -> [success : BOOLEAN, sema : SemaOf(Thread)]]
  BY Types
<1>1. /\ UNCHANGED <<list, p_list_lock, position, success>>
      /\ pc[t] = "user" /\ c \in Process
      /\ pc' = [pc EXCEPT ![t] = "exec_down", ![c] = "load"]
      /\ parent' = [parent EXCEPT ![c] = t] /\ child' = [child EXCEPT ![t] = c]
  BY DEF Execute, At, plistVars
<1>2. c \in Thread /\ c # t /\ c # NoThread /\ pc[c] = "unborn"
  <2>1. c >= c
    BY <1>1, Basics
  <2>2. pc[c] = "unborn"
    BY <2>1, <1>1 DEF ExecInv, UnbornInv
  <2> QED BY <2>2, <1>1, Basics
<1> HIDE DEF c
<1>3. /\ pc'[t] = "exec_down" /\ pc'[c] = "load" /\ parent'[c] = t /\ child'[t] = c
      /\ \A u \in Thread \ {t, c} : pc'[u] = pc[u]
      /\ \A u \in Thread \ {c} : parent'[u] = parent[u]
      /\ \A u \in Thread \ {t} : child'[u] = child[u]
  BY <1>1, <1>2, <1>t
<1>4. \A u \in Thread \ {t} : arguments'[u] = arguments[u]
  BY <1>t DEF Execute
<1>5. LockInv'
  <2> SUFFICES ASSUME NEW u \in Thread PROVE pc'[u] \in InsertPC <=> p_list_lock = u
    BY <1>1 DEF LockInv
  <2>1. pc[u] \in InsertPC <=> p_list_lock = u
    BY DEF EnterInv, LockInv
  <2>2. CASE u = t
    BY <1>1, <1>3, <2>1, <2>2, OutPlaces
  <2>3. CASE u = c
    BY <1>2, <1>3, <2>1, <2>3, OutPlaces
  <2>4. CASE u \notin {t, c}
    BY <1>3, <2>1, <2>4
  <2> QED BY <2>2, <2>3, <2>4
<1>6. BirthInv'
  <2> SUFFICES ASSUME NEW d \in Process
               PROVE  /\ pc'[d] \in {"unborn", "load"} => ~success[d]
                      /\ pc'[d] \in {"insert", "scan", "fill", "sema", "user", "exec_down",
                                     "exec_return", "set_status"} \cup WaitPC => success[d]
                      /\ pc'[d] = "unborn" => parent'[d] = NoThread
                      /\ pc'[d] # "unborn" =>
                           /\ parent'[d] \in Thread \ {d}
                           /\ pc'[parent'[d]] \notin StartPC \cup {"unborn"}
                           /\ parent'[d] # Main => success[parent'[d]]
    BY <1>1 DEF BirthInv
  <2>1. d \in Thread
    BY Basics
  <2>2. t # Main => success[t]
    <3>1. t # Main => t \in Process
      BY Basics
    <3> QED BY <3>1, <1>1 DEF EnterInv, BirthInv
  <2>3. CASE d = c
    BY <1>1, <1>2, <1>3, <2>2, <2>3, OutPlaces DEF EnterInv, BirthInv
  <2>4. CASE d # c
    <3>1. pc[d] # "unborn" => /\ parent[d] \in Thread \ {d}
                              /\ parent[d] # c
                              /\ pc[parent[d]] \notin StartPC \cup {"unborn"}
                              /\ parent[d] # Main => success[parent[d]]
      BY <1>2 DEF EnterInv, BirthInv
    <3>2. d = t => success[d]
      BY <2>2, Basics
    <3>3. pc'[d] = "unborn" <=> pc[d] = "unborn"
      BY <1>1, <1>3, <2>1, <2>4
    <3>4. pc'[d] # "unborn" => pc'[parent[d]] \notin StartPC \cup {"unborn"}
      BY <3>1, <3>3, <1>3, OutPlaces
    <3>5. parent'[d] = parent[d] /\ (pc[d] = "unborn" => parent[d] = NoThread)
      BY <1>3, <2>1, <2>4 DEF EnterInv, BirthInv
    <3>6. CASE d = t
      BY <1>1, <1>3, <2>4, <3>1, <3>2, <3>3, <3>4, <3>5, <3>6
    <3>7. CASE d # t
      <4>1. pc'[d] = pc[d]
        BY <1>3, <2>1, <2>4, <3>7
      <4>2. /\ pc[d] \in {"unborn", "load"} => ~success[d]
            /\ pc[d] \in {"insert", "scan", "fill", "sema", "user", "exec_down",
                          "exec_return", "set_status"} \cup WaitPC => success[d]
        BY DEF EnterInv, BirthInv
      <4> QED BY <4>1, <4>2, <3>1, <3>3, <3>4, <3>5
    <3> QED BY <3>6, <3>7
  <2> QED BY <2>3, <2>4
<1>7. ListedInv'
  <2> SUFFICES ASSUME NEW s \in Slot, list[s].id # NoThread
               PROVE  /\ success[list[s].id]
                      /\ pc'[list[s].id] \notin {"unborn", "load", "insert", "scan"}
                      /\ \A r \in Slot : list[r].id = list[s].id => r = s
    BY <1>1 DEF ListedInv
  <2>1. list[s].id \in Thread /\ list[s].id # c
    BY <1>2, Types, Basics DEF EnterInv, ListedInv
  <2> QED BY <1>3, <2>1 DEF EnterInv, ListedInv
<1>8. HoldInv'
  BY <1>1, <1>2, <1>3, Basics DEF EnterInv, HoldInv
<1>9. CallInv'
  <2> SUFFICES ASSUME NEW p \in Thread, pc'[p] \in {"exec_down", "exec_return"}
               PROVE  /\ child'[p] \in Process
                      /\ parent'[child'[p]] = p
                      /\ pc'[child'[p]] # "unborn"
                      /\ pc'[p] = "exec_return" => pc'[child'[p]] \notin StartPC
                      /\ pc'[child'[p]] \notin LoadPC \cup {"report"} =>
                           arguments'[p].success = success[child'[p]]
    BY <1>1 DEF CallInv
  <2>1. CASE p = t
    BY <1>1, <1>3, <2>1, OutPlaces
  <2>2. CASE p # t
    <3>1. p # c /\ pc'[p] = pc[p] /\ child'[p] = child[p]
      BY <1>2, <1>3, <2>2
    <3>2. /\ child[p] \in Process /\ parent[child[p]] = p
          /\ pc[child[p]] # "unborn"
          /\ pc[p] = "exec_return" => pc[child[p]] \notin StartPC
          /\ pc[child[p]] \notin LoadPC \cup {"report"} =>
               arguments[p].success = success[child[p]]
      BY <3>1 DEF EnterInv, CallInv
    <3>3. child[p] \in Thread /\ child[p] # c
      BY <3>2, <1>2, Basics
    <3>4. CASE child[p] = t
      BY <1>1, <1>3, <1>4, <2>2, <3>1, <3>2, <3>3, <3>4, OutPlaces
    <3>5. CASE child[p] # t
      BY <1>3, <1>4, <2>2, <3>1, <3>2, <3>3, <3>5
    <3> QED BY <3>4, <3>5
  <2> QED BY <2>1, <2>2
<1> QED BY <1>5, <1>6, <1>7, <1>8, <1>9 DEF EnterInv

\* t goes on inside process_execute, or leaves it.
LEMMA EnterReturn ==
    ASSUME TypeInv, ExecInv, EnterInv, NEW t \in Thread, ExecDown(t) \/ ExecReturn(t)
    PROVE  EnterInv'
<1>t. /\ pc \in [Thread -> AllPC] /\ child \in [Thread -> Int]
      /\ arguments \in [Thread -> [success : BOOLEAN, sema : SemaOf(Thread)]]
      /\ p_list_lock \in Thread \cup {NoThread}
  BY Types
<1>1. /\ UNCHANGED <<list, p_list_lock, position, success, parent>>
      /\ pc[t] \in {"exec_down", "exec_return"}
      /\ pc'[t] \in {"exec_down", "exec_return", "find", "user"}
      /\ \A u \in Thread \ {t} : pc'[u] = pc[u] /\ child'[u] = child[u]
      /\ \A u \in Thread : arguments'[u].success = arguments[u].success
  <2>1. CASE ExecDown(t)
    <3>1. arguments' = [arguments EXCEPT ![t].sema = SemaQueue(@, t)]
            \/ arguments' = [arguments EXCEPT ![t].sema = SemaTake(@)]
      BY <2>1 DEF ExecDown
    <3>2. \A u \in Thread : arguments'[u].success = arguments[u].success
      BY <3>1, <1>t
    <3> QED BY <2>1, <3>2, <1>t DEF ExecDown, At, Goto, plistVars
  <2>2. CASE ExecReturn(t)
    BY <2>2, <1>t DEF ExecReturn, At, Goto, plistVars, AfterExecute
  <2> QED BY <2>1, <2>2
<1>2. pc'[t] \in {"exec_down", "exec_return"} =>
        /\ child'[t] = child[t]
        /\ pc'[t] = "exec_return" => pc[child[t]] \notin StartPC
  <2>1. CASE ExecDown(t)
    <3>1. pc[t] = "exec_down" /\ child' = child
          /\ (pc'[t] = "exec_return" => arguments[t].sema.value > 0)
      BY <2>1, <1>t DEF ExecDown, At, Goto
    <3>2. child[t] \in Process /\ parent[child[t]] = t
      BY <3>1 DEF EnterInv, CallInv
    <3>3. pc[child[t]] \in StartPC => arguments[t].sema.value = 0
      BY <3>2 DEF ExecInv, StartInv
    <3> QED BY <3>1, <3>3
  <2>2. CASE ExecReturn(t)
    BY <2>2, <1>t DEF ExecReturn, At, Goto, AfterExecute
  <2> QED BY <2>1, <2>2
<1>3. LockInv'
  BY <1>1, OutPlaces DEF EnterInv, LockInv
<1>4. BirthInv'
  <2> SUFFICES ASSUME NEW c \in Process
               PROVE  /\ pc'[c] \in {"unborn", "load"} => ~success[c]
                      /\ pc'[c] \in {"insert", "scan", "fill", "sema", "user", "exec_down",
                                     "exec_return", "set_status"} \cup WaitPC => success[c]
                      /\ pc'[c] = "unborn" => parent[c] = NoThread
                      /\ pc'[c] # "unborn" =>
                           /\ parent[c] \in Thread \ {c}
                           /\ pc'[parent[c]] \notin StartPC \cup {"unborn"}
                           /\ parent[c] # Main => success[parent[c]]
    BY <1>1 DEF BirthInv
  <2>1. c \in Thread
    BY Basics
  <2>2. CASE c = t
    BY <1>1, <2>1, <2>2, OutPlaces DEF EnterInv, BirthInv
  <2>3. CASE c # t
    BY <1>1, <2>1, <2>3, OutPlaces DEF EnterInv, BirthInv
  <2> QED BY <2>2, <2>3
<1>5. ListedInv'
  <2> SUFFICES ASSUME NEW s \in Slot, list[s].id # NoThread
               PROVE  /\ success[list[s].id]
                      /\ pc'[list[s].id] \notin {"unborn", "load", "insert", "scan"}
                      /\ \A r \in Slot : list[r].id = list[s].id => r = s
    BY <1>1 DEF ListedInv
  <2>1. list[s].id \in Thread
    BY Types, Basics
  <2> QED BY <1>1, <2>1 DEF EnterInv, ListedInv
<1>6. HoldInv'
  BY <1>1, Basics DEF EnterInv, HoldInv
<1>7. CallInv'
  <2> SUFFICES ASSUME NEW p \in Thread, pc'[p] \in {"exec_down", "exec_return"}
               PROVE  /\ child'[p] \in Process
                      /\ parent[child'[p]] = p
                      /\ pc'[child'[p]] # "unborn"
                      /\ pc'[p] = "exec_return" => pc'[child'[p]] \notin StartPC
                      /\ pc'[child'[p]] \notin LoadPC \cup {"report"} =>
                           arguments'[p].success = success[child'[p]]
    BY <1>1 DEF CallInv
  <2>1. pc[p] \in {"exec_down", "exec_return"} /\ child'[p] = child[p]
        /\ (pc'[p] = "exec_return" => pc[child[p]] \notin StartPC)
    <3>1. CASE p = t
      BY <1>1, <1>2, <3>1
    <3>2. CASE p # t
      BY <1>1, <3>2 DEF EnterInv, CallInv
    <3> QED BY <3>1, <3>2
  <2>2. /\ child[p] \in Process /\ child[p] \in Thread
        /\ parent[child[p]] = p
        /\ pc[child[p]] # "unborn"
        /\ pc[child[p]] \notin LoadPC \cup {"report"} =>
             arguments[p].success = success[child[p]]
    BY <2>1, Basics DEF EnterInv, CallInv
  <2>3. CASE child[p] = t
    BY <1>1, <2>1, <2>2, <2>3, OutPlaces
  <2>4. CASE child[p] # t
    BY <1>1, <2>1, <2>2, <2>4, OutPlaces
  <2> QED BY <2>3, <2>4
<1> QED BY <1>3, <1>4, <1>5, <1>6, <1>7 DEF EnterInv

LEMMA EnterInit == Init => EnterInv
<1> SUFFICES ASSUME Init PROVE EnterInv
  OBVIOUS
<1>1. /\ \A t \in Thread : pc[t] \in {"user", "unborn"} /\ ~success[t] /\ parent[t] = NoThread
      /\ \A t \in Process : pc[t] = "unborn"
      /\ p_list_lock = NoThread
      /\ \A s \in Slot : list[s].id = NoThread
  BY Basics DEF Init, plist_init
<1> QED
  BY <1>1, Basics, OutPlaces DEF EnterInv, LockInv, BirthInv, ListedInv, HoldInv, CallInv

LEMMA EnterNext == TypeInv /\ ExecInv /\ EnterInv /\ [Next]_vars => EnterInv'
<1> SUFFICES ASSUME TypeInv, ExecInv, EnterInv, [Next]_vars PROVE EnterInv'
  OBVIOUS
<1>1. ASSUME NEW t \in Thread, KernelStep(t) \/ ProgramStep(t) PROVE EnterInv'
  <2>1. CASE QuietStep(t)
    BY <2>1, QuietSteps, EnterQuiet
  <2>2. CASE StartStep(t)
    BY <2>2, StartSteps, EnterStarting
  <2>3. CASE InsertScan(t)
    <3>1. Claiming(t) \/ StartStep(t)
      BY <2>3, ScanSteps
    <3> QED BY <2>2, <3>1, EnterClaiming
  <2>4. CASE Execute(t)
    BY <2>4, EnterExecute
  <2>5. CASE ExecDown(t) \/ ExecReturn(t)
    BY <2>5, EnterReturn
  <2> QED
    BY <1>1, <2>1, <2>2, <2>3, <2>4, <2>5 DEF KernelStep, ProgramStep, QuietStep, StartStep
<1>2. CASE UNCHANGED vars
  BY <1>2 DEF vars, plistVars, callVars, EnterInv, LockInv, BirthInv, ListedInv,
              HoldInv, CallInv
<1> QED
  BY <1>1, <1>2 DEF Next, Halted

\* What holds at all times, whatever programs wait for.
LEMMA EnterAlways == Spec => [](TypeInv /\ ExecInv /\ EnterInv)
BY TypeInit, TypeNext, ExecInit, ExecNext, EnterInit, EnterNext, PTL DEF Spec

\* process_execute tells its caller whether the child was loaded and entered
\* in the list, and never before that is settled; a child that failed is not in
\* the list.  This needs nothing of what programs wait for.
THEOREM ExecuteIsTruthful == Spec => []ExecuteTellsTruth
<1>1. ASSUME TypeInv, EnterInv PROVE ExecuteTellsTruth
  <2>1. ASSUME NEW p \in Thread, pc[p] = "exec_return"
        PROVE  /\ pc[child[p]] \notin StartPC
               /\ arguments[p].success = success[child[p]]
    BY <1>1, <2>1, OutPlaces DEF EnterInv, CallInv
  <2>2. ASSUME NEW c \in Process, ~success[c] PROVE NotListed(c)
    BY <1>1, <2>2, Basics DEF EnterInv, ListedInv, NotListed
  <2> QED BY <2>1, <2>2 DEF ExecuteTellsTruth
<1> QED BY <1>1, EnterAlways, PTL

-----------------------------------------------------------------------------
\* What the steps have in common when programs wait once for each child.
Once == WaitPolicy = "once" /\ InitStays

AllInv == TypeInv /\ ExecInv /\ EnterInv /\ ListInv

\* A step of t leaves alone what the other threads and entries depend on.
Local(t) ==
    /\ \A u \in Thread \ {t} :
         /\ success'[u] = success[u] /\ exit_arg'[u] = exit_arg[u]
         /\ printed'[u] = printed[u] /\ child'[u] = child[u]
         /\ position'[u] = position[u] /\ seen'[u] = seen[u]
         /\ pc[u] # "unborn" => pc'[u] = pc[u] /\ parent'[u] = parent[u]
         /\ pc[u] = "unborn" =>
              \/ pc'[u] = "unborn"
              \/ pc'[u] = "load" /\ pc[t] = "user" /\ pc'[t] = "exec_down"
    /\ parent'[t] = parent[t]
    /\ pc[t] \notin {"unborn", "dead"} /\ pc'[t] # "unborn"
    /\ success'[t] = success[t] \/ pc[t] \in {"load", "scan"}
    /\ \A c \in Process : \/ answers'[c] = answers[c]
                          \/ /\ parent[c] = t /\ pc[c] = "dead" /\ success[c]
                             /\ answers'[c] = {exit_arg[c]}
    /\ \A s \in Slot : list[s].id \in Process =>
                         (Kept(list[s].id) => list'[s].id = list[s].id)

\* What t itself relies on after the step.
Own(t) ==
    /\ t \in Process => StatusOK(t)'
    /\ WaitOK(t)'
    /\ pc'[t] \notin {"insert", "scan"} /\ success'[t] =>
         \/ success[t] /\ pc[t] \notin {"insert", "scan"}
         \/ \E s \in Slot : list'[s].id = t

\* How the initial thread and the processes it started go on.
RootMove(t) ==
    /\ t = Main =>
         \/ /\ pc'[Main] \in {"exec_down", "exec_return"} \cup WaitPC
            /\ child'[Main] = child[Main]
         \/ Children(Main) \ Reaped = {}
         \/ child[Main] \in Reaped'
    /\ pc'[t] \in ExitPC \cup {"dead"} /\ success'[t] /\ parent[t] = Main =>
         \/ pc[t] \in ExitPC
         \/ \A u \in Process \ {t} : pc[u] \in {"unborn", "dead"}
    /\ success'[t] => success[t] \/ pc[t] = "load"

LEMMA KeptStays ==
    ASSUME AllInv, NEW t \in Thread, Local(t), Own(t)
    PROVE  KeptInv'
<1> SUFFICES ASSUME NEW c \in Process, Kept(c)', NotListed(c)' PROVE FALSE
  BY DEF KeptInv
<1>1. c \in Thread /\ success'[c] /\ pc'[c] \notin {"insert", "scan"}
      /\ (pc'[c] = "dead" => /\ answers'[c] = {}
                             /\ parent'[c] = Main \/ pc'[parent'[c]] # "dead")
  BY Basics DEF Kept
<1>2. \A s \in Slot : list'[s].id # c
  BY DEF NotListed
<1>3. success[c] /\ pc[c] \notin {"insert", "scan"}
  <2>1. CASE c = t
    BY <1>1, <1>2, <2>1 DEF Own
  <2>2. CASE c # t
    BY <1>1, <2>2 DEF Local, AllInv, EnterInv, BirthInv
  <2> QED BY <2>1, <2>2
<1>4. ASSUME pc[c] = "dead" PROVE answers[c] = {} /\ (parent[c] = Main \/ pc[parent[c]] # "dead")
  <2>1. c # t /\ pc'[c] = "dead" /\ parent'[c] = parent[c] /\ parent[c] \in Thread
    BY <1>1, <1>4 DEF Local, AllInv, EnterInv, BirthInv
  <2>2. answers[c] = {}
    BY <1>1, <2>1 DEF Local
  <2>3. pc[parent[c]] = "dead" => pc'[parent[c]] = "dead"
    BY <2>1 DEF Local
  <2> QED BY <1>1, <2>1, <2>2, <2>3
<1>5. Kept(c)
  BY <1>3, <1>4 DEF Kept
<1>6. PICK s \in Slot : list[s].id = c
  BY <1>5 DEF AllInv, ListInv, KeptInv, NotListed
<1> QED BY <1>2, <1>5, <1>6 DEF Local

LEMMA StatusStays ==
    ASSUME AllInv, NEW t \in Thread, Local(t), Own(t)
    PROVE  StatusInv'
<1> SUFFICES ASSUME NEW c \in Process, c # t PROVE StatusOK(c)'
  BY DEF Own, StatusInv
<1>1. c \in Thread /\ StatusOK(c)
  BY Basics DEF AllInv, ListInv, StatusInv
<1>2. /\ success'[c] = success[c] /\ exit_arg'[c] = exit_arg[c] /\ printed'[c] = printed[c]
      /\ pc[c] # "unborn" => pc'[c] = pc[c]
      /\ pc[c] = "unborn" => pc'[c] \in {"unborn", "load"}
      /\ \/ answers'[c] = answers[c]
         \/ pc[c] = "dead" /\ success[c] /\ answers'[c] = {exit_arg[c]}
  BY <1>1 DEF Local
<1>3. CASE pc[c] = "unborn"
  BY <1>1, <1>2, <1>3, OutPlaces DEF StatusOK
<1>4. CASE pc[c] # "unborn"
  BY <1>1, <1>2, <1>4, OutPlaces DEF StatusOK
<1> QED BY <1>3, <1>4

\* A thread that waits is waiting for a child whose entry is kept.
LEMMA WaitedKept ==
    ASSUME AllInv, NEW p \in Thread, pc[p] \in WaitPC, child[p] \in Children(p) \ Reaped
    PROVE  /\ child[p] \in Process /\ Kept(child[p])
           /\ pc[child[p]] \notin StartPC \cup {"unborn"}
<1> DEFINE c == child[p]
<1>1. c \in Process /\ parent[c] = p /\ success[c] /\ answers[c] = {}
  BY DEF Children, Reaped
<1>2. pc[c] \notin StartPC
  BY <1>1, OutPlaces DEF AllInv, ExecInv, StartInv
<1>3. pc[c] # "unborn"
  BY <1>1 DEF AllInv, EnterInv, BirthInv
<1>4. pc[c] \notin {"insert", "scan"} /\ pc[p] # "dead"
  BY <1>2, OutPlaces
<1> QED BY <1>1, <1>2, <1>3, <1>4 DEF Kept

LEMMA WaitStays ==
    ASSUME AllInv, NEW t \in Thread, Local(t), Own(t)
    PROVE  WaitInv'
<1> SUFFICES ASSUME NEW p \in Thread, p # t PROVE WaitOK(p)'
  BY DEF Own, WaitInv
<1>1. /\ child'[p] = child[p] /\ position'[p] = position[p] /\ seen'[p] = seen[p]
      /\ pc'[p] \in WaitPC \cup {"print"} => pc'[p] = pc[p]
  BY OutPlaces DEF Local
<1>2. WaitOK(p)
  BY DEF AllInv, ListInv, WaitInv
<1>3. CASE pc'[p] = "print"
  <2>1. pc[p] = "print" /\ list[position[p]].id = p
    BY <1>1, <1>2, <1>3 DEF WaitOK
  <2>2. p \in Process /\ position[p] \in Slot
    <3>1. position[p] \in Slot
      BY <2>1 DEF HoldPC, AllInv, TypeInv, PositionOK
    <3>2. p # NoThread
      BY Basics
    <3> QED BY <3>1, <3>2, <2>1, Types DEF AllInv
  <2>3. success[p] /\ Kept(p)
    BY <2>1, <2>2, Basics DEF AllInv, EnterInv, ListedInv, Kept
  <2>4. list'[position[p]].id = p
    BY <2>1, <2>2, <2>3 DEF Local
  <2> QED BY <1>1, <1>3, <2>4, OutPlaces DEF WaitOK
<1>4. CASE pc'[p] \in WaitPC
  <2>1. pc[p] = pc'[p]
    BY <1>1, <1>4
  <2>2. CASE child[p] \in Children(p) \ Reaped
    <3> DEFINE c == child[p]
    <3>1. c \in Process /\ Kept(c) /\ pc[c] \notin StartPC \cup {"unborn"} /\ c \in Thread
      BY <1>4, <2>1, <2>2, WaitedKept, Basics
    <3>2. parent[c] = p /\ success[c] /\ answers[c] = {}
      BY <2>2 DEF Children, Reaped
    <3>3. /\ parent'[c] = p /\ success'[c] /\ answers'[c] = {}
          /\ pc[c] = "dead" => pc'[c] = "dead" /\ exit_arg'[c] = exit_arg[c]
      <4>1. answers'[c] = {}
        BY <3>1, <3>2 DEF Local
      <4>2. CASE c = t
        BY <3>1, <3>2, <4>1, <4>2, OutPlaces DEF Local
      <4>3. CASE c # t
        BY <3>1, <3>2, <4>1, <4>3 DEF Local
      <4> QED BY <4>2, <4>3
    <3>4. c \in Children(p)' /\ c \notin Reaped'
      BY <3>1, <3>3 DEF Children, Reaped
    <3>5. pc[p] # "find" => /\ position[p] \in Slot /\ list[position[p]].id = c
                            /\ list'[position[p]].id = c
      <4>1. pc[p] # "find" => position[p] \in Slot /\ list[position[p]].id = c
        BY <1>2, <1>4, <2>1, OutPlaces DEF WaitOK, HoldPC, AllInv, TypeInv, PositionOK
      <4> QED BY <4>1, <3>1 DEF Local
    <3>6. /\ pc[p] \in {"wait_read", "wait_free"} => pc[c] = "dead"
          /\ pc[p] = "wait_free" => seen[p] = exit_arg[c]
      BY <1>2 DEF WaitOK
    <3> QED BY <1>1, <1>4, <2>1, <3>3, <3>4, <3>5, <3>6, OutPlaces DEF WaitOK
  <2>3. CASE p = Main /\ pc[p] = "find" /\ child[p] = TID_ERROR
    BY <1>1, <2>1, <2>3 DEF WaitOK
  <2> QED BY <1>2, <1>4, <2>1, <2>2, <2>3 DEF WaitOK
<1>5. CASE pc'[p] \in {"exec_down", "exec_return"}
  <2>1. pc[p] = pc'[p]
    BY <1>5 DEF Local
  <2>2. child[p] \in Process /\ parent[child[p]] = p
    BY <1>5, <2>1 DEF AllInv, EnterInv, CallInv
  <2>3. answers'[child[p]] = {}
    BY <1>2, <1>5, <2>1, <2>2 DEF Local, WaitOK
  <2> QED BY <1>1, <1>5, <2>3, OutPlaces DEF WaitOK
<1>6. CASE pc'[p] \notin WaitPC \cup {"print", "exec_down", "exec_return"}
  BY <1>6, OutPlaces DEF WaitOK
<1> QED BY <1>3, <1>4, <1>5, <1>6

LEMMA RootStays ==
    ASSUME AllInv, NEW t \in Thread, Local(t), RootMove(t)
    PROVE  RootInv'
<1> SUFFICES ASSUME NEW c \in Process, c \in Children(Main)', c \notin Reaped'
             PROVE  /\ pc'[Main] \in {"exec_down", "exec_return"} \cup WaitPC
                    /\ child'[Main] = c
                    /\ pc'[c] \in ExitPC \cup {"dead"} =>
                         \A u \in Process \ {c} : pc'[u] \in {"unborn", "dead"}
  BY DEF RootInv, Children
<1>1. parent'[c] = Main /\ success'[c] /\ answers'[c] = {} /\ c \in Thread /\ c # Main
  BY Basics DEF Children, Reaped
<1>2. answers[c] = {}
  BY <1>1 DEF Local
<1>3. parent[c] = Main /\ pc[c] # "unborn" /\ (success[c] \/ (c = t /\ pc[t] = "load"))
  <2>1. CASE c = t
    BY <1>1, <2>1 DEF Local, RootMove
  <2>2. CASE c # t
    BY <1>1, <2>2 DEF Local, AllInv, EnterInv, BirthInv
  <2> QED BY <2>1, <2>2
<1>4. /\ pc[Main] \in {"exec_down", "exec_return"} \cup WaitPC
      /\ child[Main] = c
      /\ pc[c] \in ExitPC \cup {"dead"} =>
           \A u \in Process \ {c} : pc[u] \in {"unborn", "dead"}
  <2>1. CASE success[c]
    BY <1>2, <1>3, <2>1 DEF AllInv, ListInv, RootInv, Children, Reaped
  <2>2. CASE pc[c] = "load"
    BY <1>3, <2>2, OutPlaces DEF AllInv, ExecInv, StartInv
  <2> QED BY <1>3, <2>1, <2>2
<1>5. /\ pc'[Main] \in {"exec_down", "exec_return"} \cup WaitPC
      /\ child'[Main] = c
  <2>1. CASE t = Main
    <3>1. c \in Children(Main) \ Reaped
      BY <1>1, <1>2, <1>3, <2>1 DEF Children, Reaped
    <3>2. child[Main] \notin Reaped'
      BY <1>4
    <3> QED BY <1>4, <2>1, <3>1, <3>2 DEF RootMove
  <2>2. CASE t # Main
    <3>1. pc[Main] # "unborn"
      BY <1>4, OutPlaces
    <3> QED BY <1>4, <2>2, <3>1, Basics DEF Local
  <2> QED BY <2>1, <2>2
<1>6. ASSUME pc'[c] \in ExitPC \cup {"dead"}, NEW u \in Process \ {c}
      PROVE  pc'[u] \in {"unborn", "dead"}
  <2>1. u \in Thread
    BY Basics
  <2>2. CASE c = t
    <3>1. pc[c] \in ExitPC \/ pc[u] \in {"unborn", "dead"}
      BY <1>1, <1>3, <1>6, <2>2 DEF RootMove
    <3>2. pc[u] \in {"unborn", "dead"} /\ t # Main
      BY <1>1, <1>4, <2>2, <3>1
    <3>3. pc'[u] = pc[u] \/ pc'[u] = "unborn" \/ pc'[t] = "exec_down"
      BY <2>1, <2>2 DEF Local
    <3>4. pc'[t] # "exec_down"
      BY <1>6, <2>2, OutPlaces
    <3> QED BY <3>2, <3>3, <3>4
  <2>3. CASE c # t
    <3>1. pc[c] \in ExitPC \cup {"dead"} /\ pc[u] \in {"unborn", "dead"}
      BY <1>1, <1>3, <1>4, <1>6, <2>1, <2>3 DEF Local
    <3>2. pc[t] # "user"
      <4>1. t = Main \/ t \in Process \ {c}
        BY <2>3, Basics
      <4> QED BY <1>4, <3>1, <4>1, OutPlaces
    <3>3. u # t
      BY <3>1, <1>4, <2>3, Basics DEF Local
    <3> QED BY <2>1, <3>1, <3>2, <3>3 DEF Local
  <2> QED BY <2>2, <2>3
<1> QED BY <1>5, <1>6

-----------------------------------------------------------------------------
\* Nothing that the entry s records of its process changes.
SameEntry(s) ==
    /\ list'[s].id = list[s].id /\ list'[s].free = list[s].free
    /\ list'[s].alive = list[s].alive /\ list'[s].parent_id = list[s].parent_id
    /\ list'[s].ready = list[s].ready /\ list'[s].exit_status = list[s].exit_status
    /\ list'[s].p_sema.value = list[s].p_sema.value

SameFor(c) ==
    /\ parent'[c] = parent[c] /\ success'[c] = success[c]
    /\ \A pl \in {"fill", "sema", "dead"} : pc'[c] = pl <=> pc[c] = pl
    /\ pc'[c] \notin {"fill", "set_status"} =>
         /\ pc[c] \notin {"fill", "set_status"}
         /\ exit_arg'[c] = exit_arg[c]
    /\ pc[c] = "dead" /\ parent[c] # Main =>
         /\ answers'[c] = answers[c]
         /\ pc'[parent[c]] = "dead" <=> pc[parent[c]] = "dead"
         /\ Taken(c)' <=> Taken(c)

LEMMA EntrySame ==
    ASSUME TypeInv, NEW s \in Slot, EntryOK(s), SameEntry(s),
           \A c \in Process : list[s].id = c => SameFor(c)
    PROVE  EntryOK(s)'
<1>1. CASE list[s].id = NoThread
  BY <1>1 DEF EntryOK, SameEntry
<1>2. ASSUME NEW c \in Process, list[s].id = c PROVE EntryOK(s)'
  <2>1. SameFor(c) /\ list'[s].id = c /\ c # NoThread
    BY <1>2, Basics DEF SameEntry
  <2>2. (c \in Reaped <=> answers[c] # {}) /\ (c \in Reaped' <=> answers'[c] # {})
    BY DEF Reaped
  <2>3. pc[c] = "dead" => (Awaited(c)' <=> Awaited(c))
    BY <2>1, <2>2 DEF SameFor, Awaited
  <2>4. /\ Awaited(c) => pc[c] = "dead" /\ parent[c] # Main
        /\ Awaited(c)' => pc'[c] = "dead"
    BY DEF Awaited
  <2>5. /\ list[s].alive <=> pc[c] # "dead"
        /\ list[s].alive => ~list[s].free
        /\ pc[c] # "fill" => list[s].parent_id = parent[c]
        /\ pc[c] \notin {"fill", "sema"} => list[s].ready
        /\ pc[c] \notin {"fill", "sema", "dead"} => list[s].p_sema.value = 0
        /\ pc[c] \notin {"fill", "set_status"} => list[s].exit_status = exit_arg[c]
        /\ pc[c] = "dead" /\ ~list[s].free => Awaited(c)
        /\ Awaited(c) =>
             /\ ~list[s].free
             /\ list[s].p_sema.value = IF Taken(c) THEN 0 ELSE 1
    BY <1>2, <2>1 DEF EntryOK
  <2>6. /\ list'[s].alive <=> pc'[c] # "dead"
        /\ list'[s].alive => ~list'[s].free
        /\ pc'[c] # "fill" => list'[s].parent_id = parent'[c]
        /\ pc'[c] \notin {"fill", "sema"} => list'[s].ready
        /\ pc'[c] \notin {"fill", "sema", "dead"} => list'[s].p_sema.value = 0
        /\ pc'[c] \notin {"fill", "set_status"} => list'[s].exit_status = exit_arg'[c]
        /\ pc'[c] = "dead" /\ ~list'[s].free => Awaited(c)'
        /\ Awaited(c)' =>
             /\ ~list'[s].free
             /\ list'[s].p_sema.value = IF Taken(c)' THEN 0 ELSE 1
    BY <2>1, <2>3, <2>4, <2>5 DEF SameEntry, SameFor
  <2> QED BY <2>1, <2>6 DEF EntryOK
<1> QED BY <1>1, <1>2, Types

\* What t does to its own entry and to those of its children, when it does
\* nothing to them.
Steady(t) ==
    /\ \A pl \in {"fill", "sema", "dead"} : pc'[t] = pl <=> pc[t] = pl
    /\ pc'[t] \notin {"fill", "set_status"} =>
         /\ pc[t] \notin {"fill", "set_status"}
         /\ exit_arg'[t] = exit_arg[t]
    /\ pc'[t] \in {"wait_read", "wait_free"} <=> pc[t] \in {"wait_read", "wait_free"}
    /\ pc[t] \in {"wait_read", "wait_free"} => child'[t] = child[t]

LEMMA SteadySame ==
    ASSUME AllInv, NEW t \in Thread, Local(t), Steady(t), answers' = answers,
           NEW s \in Slot, NEW c \in Process, list[s].id = c
    PROVE  SameFor(c)
<1>1. /\ c \in Thread /\ success[c]
      /\ pc[c] \notin {"unborn", "load", "insert", "scan"}
  BY Basics DEF AllInv, EnterInv, ListedInv
<1>2. parent[c] \in Thread /\ pc[parent[c]] # "unborn"
  BY <1>1 DEF AllInv, EnterInv, BirthInv
<1>3. /\ parent'[c] = parent[c] /\ success'[c] = success[c]
      /\ \A pl \in {"fill", "sema", "dead"} : pc'[c] = pl <=> pc[c] = pl
      /\ pc'[c] \notin {"fill", "set_status"} =>
           /\ pc[c] \notin {"fill", "set_status"}
           /\ exit_arg'[c] = exit_arg[c]
  <2>1. CASE c = t
    BY <1>1, <2>1 DEF Local, Steady
  <2>2. CASE c # t
    BY <1>1, <2>2 DEF Local
  <2> QED BY <2>1, <2>2
<1>4. /\ pc'[parent[c]] = "dead" <=> pc[parent[c]] = "dead"
      /\ pc'[parent[c]] \in {"wait_read", "wait_free"}
           <=> pc[parent[c]] \in {"wait_read", "wait_free"}
      /\ pc[parent[c]] \in {"wait_read", "wait_free"} => child'[parent[c]] = child[parent[c]]
  <2>1. CASE parent[c] = t
    BY <2>1 DEF Steady
  <2>2. CASE parent[c] # t
    BY <1>2, <2>2 DEF Local
  <2> QED BY <2>1, <2>2
<1> QED BY <1>3, <1>4 DEF SameFor, Taken

\* A step that does nothing to the entries keeps all of it.
LEMMA PlainStep ==
    ASSUME AllInv, NEW t \in Thread, Local(t), Own(t), RootMove(t), Steady(t),
           answers' = answers, \A s \in Slot : SameEntry(s)
    PROVE  ListInv'
<1>1. EntryInv'
  <2> SUFFICES ASSUME NEW s \in Slot PROVE EntryOK(s)'
    BY DEF EntryInv
  <2>1. \A c \in Process : list[s].id = c => SameFor(c)
    BY SteadySame
  <2> QED BY <2>1, EntrySame DEF AllInv, ListInv, EntryInv
<1> QED BY <1>1, KeptStays, StatusStays, WaitStays, RootStays DEF ListInv

-----------------------------------------------------------------------------
\* The steps that do nothing to the entries, but for the threads that queue.
Only(t) ==
    /\ parent' = parent /\ answers' = answers
    /\ \A u \in Thread \ {t} :
         /\ pc'[u] = pc[u] /\ success'[u] = success[u] /\ exit_arg'[u] = exit_arg[u]
         /\ printed'[u] = printed[u] /\ child'[u] = child[u]
         /\ position'[u] = position[u] /\ seen'[u] = seen[u]
    /\ pc[t] \notin {"unborn", "dead"} /\ pc'[t] # "unborn"
    /\ success'[t] = success[t] \/ pc[t] \in {"load", "scan"}
    /\ \A s \in Slot : SameEntry(s)

LEMMA OnlyStep ==
    ASSUME AllInv, NEW t \in Thread, Only(t), Own(t), RootMove(t), Steady(t)
    PROVE  ListInv'
<1>1. Local(t)
  <2>1. \A u \in Thread : parent'[u] = parent[u] /\ answers'[u] = answers[u]
    BY DEF Only
  <2>2. \A s \in Slot : list'[s].id = list[s].id
    BY DEF Only, SameEntry
  <2>3. \A c \in Process : c \in Thread
    BY Basics
  <2>4. ASSUME NEW u \in Thread \ {t}
        PROVE  /\ success'[u] = success[u] /\ exit_arg'[u] = exit_arg[u]
               /\ printed'[u] = printed[u] /\ child'[u] = child[u]
               /\ position'[u] = position[u] /\ seen'[u] = seen[u]
               /\ pc'[u] = pc[u] /\ parent'[u] = parent[u]
    BY <2>1 DEF Only
  <2>5. /\ pc[t] \notin {"unborn", "dead"} /\ pc'[t] # "unborn"
        /\ success'[t] = success[t] \/ pc[t] \in {"load", "scan"}
    BY DEF Only
  <2> QED BY <2>1, <2>2, <2>3, <2>4, <2>5 DEF Local
<1> QED BY <1>1, PlainStep DEF Only

LEMMA SameList ==
    ASSUME list' = list
    PROVE  \A s \in Slot : SameEntry(s)
BY DEF SameEntry

LEMMA ListLoad ==
    ASSUME AllInv, NEW t \in Thread,
           \/ Load(t) \/ InsertLock(t) \/ (InsertScan(t) /\ pc'[t] = "scan")
           \/ InsertFull(t) \/ Report(t) \/ Raise(t)
    PROVE  ListInv'
<1>t. /\ pc \in [Thread -> AllPC] /\ success \in [Thread -> BOOLEAN]
      /\ position \in [Thread -> 0..PLIST_SIZE]
  BY Types DEF AllInv
<1> USE DEF plistVars, callVars, exitVars, waitVars, Goto, At
<1>1. /\ UNCHANGED <<parent, answers, list, exit_arg, printed, child, seen>>
      /\ pc[t] \in {"load", "insert", "scan", "report", "raise"}
      /\ pc'[t] \in {"insert", "scan", "report", "raise", "user", "cleanup"}
      /\ \A u \in Thread \ {t} : /\ pc'[u] = pc[u] /\ success'[u] = success[u]
                                 /\ position'[u] = position[u]
  BY <1>t DEF Load, InsertLock, InsertScan, InsertFull, Report, Raise
<1>2. /\ success'[t] = success[t] \/ pc[t] \in {"load", "scan"}
      /\ success'[t] => success[t] \/ pc[t] = "load"
      /\ success'[t] => pc'[t] # "cleanup"
      /\ success'[t] /\ pc'[t] \notin {"insert", "scan"} =>
           success[t] /\ pc[t] \notin {"insert", "scan"}
  BY <1>t DEF Load, InsertLock, InsertScan, InsertFull, Report, Raise
<1>3. t \in Process /\ t # Main /\ StatusOK(t)
  <2>1. t # Main
    BY <1>1, Types, OutPlaces DEF AllInv
  <2> QED BY <2>1, Basics DEF AllInv, ListInv, StatusInv
<1>4. Only(t)
  BY <1>1, <1>2, SameList DEF Only
<1>5. StatusOK(t)'
  BY <1>1, <1>2, <1>3, OutPlaces DEF StatusOK
<1>6. Own(t)
  BY <1>1, <1>2, <1>5, OutPlaces DEF Own, WaitOK
<1>7. RootMove(t)
  BY <1>1, <1>2, <1>3, OutPlaces DEF RootMove
<1>8. Steady(t)
  BY <1>1 DEF Steady
<1> QED BY <1>4, <1>6, <1>7, <1>8, OnlyStep

\* When the initial thread is not waiting for a child, it has none to wait for.
LEMMA NoRoots ==
    ASSUME AllInv, pc[Main] \notin {"exec_down", "exec_return"} \cup WaitPC
    PROVE  Children(Main) \ Reaped = {}
BY DEF AllInv, ListInv, RootInv

LEMMA ListCall ==
    ASSUME AllInv, NEW t \in Thread, ExecuteFails(t) \/ ExecDown(t) \/ ExecReturn(t)
    PROVE  ListInv'
<1>t. /\ pc \in [Thread -> AllPC] /\ child \in [Thread -> Int]
  BY Types DEF AllInv
<1> USE DEF plistVars, callVars, exitVars, waitVars, Goto, At
<1>1. /\ UNCHANGED <<parent, answers, list, exit_arg, printed, seen, success, position>>
      /\ pc[t] \in {"user", "exec_down", "exec_return"}
      /\ pc'[t] \in {"user", "find", "exec_down", "exec_return"}
      /\ \A u \in Thread \ {t} : pc'[u] = pc[u] /\ child'[u] = child[u]
  BY <1>t DEF ExecuteFails, ExecDown, ExecReturn, AfterExecute
<1>2. /\ pc'[t] = "find" => t = Main
      /\ pc[t] = "user" => child'[t] = TID_ERROR
      /\ pc[t] = "exec_down" => child'[t] = child[t] /\ pc'[t] \in {"exec_down", "exec_return"}
      /\ pc[t] = "exec_return" =>
           /\ pc'[t] \in {"user", "find"}
           /\ child'[t] = IF arguments[t].success THEN child[t] ELSE TID_ERROR
      /\ pc'[t] \in {"exec_down", "exec_return"} => pc[t] = "exec_down"
      /\ t = Main => pc'[t] # "user"
  BY <1>1, <1>t DEF ExecuteFails, ExecDown, ExecReturn, AfterExecute
<1>3. pc[t] \in {"exec_down", "exec_return"} =>
        /\ child[t] \in Process /\ parent[child[t]] = t /\ answers[child[t]] = {}
  BY DEF AllInv, EnterInv, CallInv, ListInv, WaitInv, WaitOK
<1>4. pc[t] = "exec_return" => arguments[t].success = success[child[t]]
  BY OutPlaces DEF AllInv, EnterInv, CallInv
<1>5. Only(t)
  BY <1>1, SameList DEF Only
<1>6. t \in Process => StatusOK(t)'
  <2>1. t \in Process => StatusOK(t)
    BY DEF AllInv, ListInv, StatusInv
  <2> QED BY <2>1, <1>1, OutPlaces DEF StatusOK
<1>7. WaitOK(t)'
  <2>1. CASE pc'[t] \in {"exec_down", "exec_return"}
    BY <1>1, <1>2, <1>3, <2>1, OutPlaces DEF WaitOK
  <2>2. CASE pc'[t] = "user"
    BY <2>2, OutPlaces DEF WaitOK
  <2>3. CASE pc'[t] = "find"
    <3>1. t = Main
      BY <1>2, <2>3
    <3>2. CASE child'[t] = TID_ERROR
      BY <2>3, <3>1, <3>2, OutPlaces DEF WaitOK
    <3>3. CASE child'[t] # TID_ERROR
      <4>1. pc[t] = "exec_return" /\ child'[t] = child[t] /\ success[child[t]]
        BY <1>1, <1>2, <1>4, <2>3, <3>3
      <4>2. child'[t] \in Children(t)' /\ child'[t] \notin Reaped'
        BY <1>1, <1>3, <4>1 DEF Children, Reaped
      <4> QED BY <2>3, <4>2, OutPlaces DEF WaitOK
    <3> QED BY <3>2, <3>3
  <2> QED BY <1>1, <2>1, <2>2, <2>3
<1>8. Own(t)
  BY <1>1, <1>6, <1>7 DEF Own
<1>9. RootMove(t)
  <2>1. ASSUME t = Main
        PROVE  \/ /\ pc'[Main] \in {"exec_down", "exec_return"} \cup WaitPC
                  /\ child'[Main] = child[Main]
               \/ Children(Main) \ Reaped = {}
    <3>1. CASE pc[t] = "user"
      BY <2>1, <3>1, NoRoots, OutPlaces
    <3>2. CASE pc[t] = "exec_down"
      BY <2>1, <3>2, <1>2
    <3>3. CASE pc[t] = "exec_return" /\ success[child[t]]
      BY <2>1, <3>3, <1>1, <1>2, <1>4, OutPlaces
    <3>4. CASE pc[t] = "exec_return" /\ ~success[child[t]]
      BY <2>1, <3>4 DEF AllInv, ListInv, RootInv, Children
    <3> QED BY <1>1, <3>1, <3>2, <3>3, <3>4
  <2> QED BY <1>1, <2>1, OutPlaces DEF RootMove
<1>10. Steady(t)
  BY <1>1 DEF Steady
<1> QED BY <1>5, <1>8, <1>9, <1>10, OnlyStep

\* The entry of the child that a thread waits for is there to be found.
LEMMA WaitedListed ==
    ASSUME AllInv, NEW p \in Thread, pc[p] \in WaitPC, child[p] # TID_ERROR
    PROVE  /\ child[p] \in Process /\ parent[child[p]] = p /\ success[child[p]]
           /\ answers[child[p]] = {}
           /\ child[p] \in Children(p) \ Reaped
           /\ pc[child[p]] \notin StartPC \cup {"unborn"}
           /\ ~NotListed(child[p])
<1>1. child[p] \in Children(p) \ Reaped
  BY DEF AllInv, ListInv, WaitInv, WaitOK
<1>2. child[p] \in Process /\ Kept(child[p]) /\ pc[child[p]] \notin StartPC \cup {"unborn"}
  BY <1>1, WaitedKept
<1>3. ~NotListed(child[p])
  BY <1>2 DEF AllInv, ListInv, KeptInv
<1> QED BY <1>1, <1>2, <1>3 DEF Children, Reaped

\* The entry a thread points to is the one it looked for.
LEMMA HeldEntry ==
    ASSUME AllInv, NEW p \in Thread, pc[p] \in {"wait_down", "wait_read", "wait_free"}
    PROVE  /\ position[p] \in Slot /\ child[p] # TID_ERROR
           /\ list[position[p]].id = child[p] /\ list[position[p]] \in Entry
           /\ EntryOK(position[p]) /\ child[p] # NoThread
<1>1. position[p] \in Slot
  BY DEF HoldPC, AllInv, TypeInv, PositionOK
<1>2. WaitOK(p)
  BY DEF AllInv, ListInv, WaitInv
<1>3. list[position[p]].id = child[p] /\ child[p] # TID_ERROR
  BY <1>2, <1>1, Types, Basics DEF WaitOK, AllInv
<1>4. child[p] # NoThread
  BY <1>2, OutPlaces, Basics DEF WaitOK, Children
<1> QED BY <1>1, <1>3, <1>4, Types DEF AllInv, ListInv, EntryInv

LEMMA ListWait ==
    ASSUME Once, AllInv, NEW t \in Thread,
           Wait(t) \/ WaitNotFound(t) \/ WaitFind(t) \/ WaitRead(t)
    PROVE  ListInv'
<1>t. /\ pc \in [Thread -> AllPC] /\ child \in [Thread -> Int] /\ seen \in [Thread -> Int]
      /\ position \in [Thread -> 0..PLIST_SIZE]
      /\ answers \in [Thread -> SUBSET Int]
  BY Types DEF AllInv
<1> USE DEF plistVars, callVars, exitVars, waitVars, Goto, At
<1>1. ASSUME WaitNotFound(t) PROVE child[t] = TID_ERROR /\ answers' = answers /\ t = Main
  <2>1. pc[t] = "find" /\ NotListed(child[t]) /\ Answer(t, -1)
    BY <1>1 DEF WaitNotFound
  <2>2. child[t] = TID_ERROR
    BY <2>1, WaitedListed, OutPlaces
  <2>3. child[t] \notin Children(t)
    BY <2>2, Basics DEF Children
  <2>4. answers' = [c \in Thread |-> answers[c]]
    BY <2>1, <2>3 DEF Answer
  <2>5. t = Main
    BY <2>1, <2>3, OutPlaces DEF AllInv, ListInv, WaitInv, WaitOK
  <2> QED BY <2>2, <2>4, <2>5, <1>t
<1>2. answers' = answers
  BY <1>1 DEF Wait, WaitFind, WaitRead
<1>3. /\ UNCHANGED <<parent, list, exit_arg, printed, success>>
      /\ pc[t] \in {"user", "find", "wait_read"}
      /\ pc'[t] \in {"user", "find", "wait_down", "wait_free"}
      /\ \A u \in Thread \ {t} : pc'[u] = pc[u] /\ child'[u] = child[u]
                                 /\ position'[u] = position[u] /\ seen'[u] = seen[u]
  BY <1>t DEF Wait, WaitNotFound, WaitFind, WaitRead
<1>4. Only(t)
  BY <1>2, <1>3, SameList DEF Only
<1>5. t \in Process => StatusOK(t)'
  <2>1. t \in Process => StatusOK(t)
    BY DEF AllInv, ListInv, StatusInv
  <2> QED BY <2>1, <1>2, <1>3, OutPlaces DEF StatusOK
<1>6. \A c \in Process : c \in Children(t) \ Reaped => c \in Children(t)' /\ c \notin Reaped'
  BY <1>2, <1>3 DEF Children, Reaped
<1>7. WaitOK(t)'
  <2>1. CASE Wait(t)
    <3>1. pc'[t] = "find" /\ \E c \in WaitTargets(t) : child' = [child EXCEPT ![t] = c]
      BY <2>1, <1>t DEF Wait
    <3>2. child'[t] \in Process /\ child'[t] \in Children(t) \ Reaped
      BY <3>1, <1>t DEF WaitTargets, Once, Children
    <3> QED BY <3>1, <3>2, <1>6, OutPlaces DEF WaitOK
  <2>2. CASE WaitNotFound(t)
    <3>1. pc'[t] = "user"
      BY <2>2, <1>t DEF WaitNotFound
    <3> QED BY <3>1, OutPlaces DEF WaitOK
  <2>3. CASE WaitFind(t)
    <3>1. /\ pc[t] = "find" /\ pc'[t] = "wait_down" /\ child' = child
          /\ position'[t] \in Slot /\ list[position'[t]].id = child[t]
      BY <2>3, <1>t DEF WaitFind, IsProcess
    <3>2. child[t] # TID_ERROR
      BY <3>1, Types, Basics DEF AllInv
    <3>3. child[t] \in Process /\ child[t] \in Children(t) \ Reaped
      BY <3>1, <3>2, WaitedListed, OutPlaces
    <3> QED BY <3>1, <3>3, <1>3, <1>6, OutPlaces DEF WaitOK
  <2>4. CASE WaitRead(t)
    <3>1. /\ pc[t] = "wait_read" /\ pc'[t] = "wait_free" /\ child' = child /\ position' = position
          /\ seen'[t] = list[position[t]].exit_status
      BY <2>4, <1>t DEF WaitRead
    <3>2. /\ list[position[t]].id = child[t] /\ EntryOK(position[t]) /\ child[t] # TID_ERROR
          /\ child[t] # NoThread
      BY <3>1, HeldEntry
    <3>3. child[t] \in Process /\ child[t] \in Children(t) \ Reaped /\ child[t] \in Thread
      BY <3>1, <3>2, WaitedListed, OutPlaces, Basics
    <3>4. pc[child[t]] = "dead"
      BY <3>1 DEF AllInv, ListInv, WaitInv, WaitOK
    <3>5. list[position[t]].exit_status = exit_arg[child[t]]
      BY <3>2, <3>4 DEF EntryOK
    <3>6. pc'[child[t]] = "dead"
      BY <3>1, <3>3, <3>4, <1>3
    <3> QED BY <3>1, <3>2, <3>3, <3>5, <3>6, <1>3, <1>6, OutPlaces DEF WaitOK
  <2> QED BY <2>1, <2>2, <2>3, <2>4
<1>8. Own(t)
  BY <1>3, <1>5, <1>7 DEF Own
<1>9. RootMove(t)
  <2>1. ASSUME t = Main
        PROVE  \/ /\ pc'[Main] \in {"exec_down", "exec_return"} \cup WaitPC
                  /\ child'[Main] = child[Main]
               \/ Children(Main) \ Reaped = {}
    <3>1. CASE Wait(t)
      BY <2>1, <3>1 DEF Wait
    <3>2. CASE WaitNotFound(t)
      <4>1. child[Main] = TID_ERROR
        BY <2>1, <3>2, <1>1
      <4> QED BY <4>1, Basics DEF AllInv, ListInv, RootInv, Children
    <3>3. CASE WaitFind(t) \/ WaitRead(t)
      BY <2>1, <3>3, <1>t, OutPlaces DEF WaitFind, WaitRead
    <3> QED BY <3>1, <3>2, <3>3
  <2> QED BY <1>3, <2>1, OutPlaces DEF RootMove
<1>10. Steady(t)
  <2>1. pc'[t] \in {"wait_read", "wait_free"} <=> pc[t] \in {"wait_read", "wait_free"}
    BY <1>t DEF Wait, WaitNotFound, WaitFind, WaitRead
  <2>2. pc[t] = "wait_read" => child' = child
    BY <1>t DEF Wait, WaitNotFound, WaitFind, WaitRead
  <2> QED BY <1>3, <2>1, <2>2 DEF Steady
<1> QED BY <1>4, <1>8, <1>9, <1>10, OnlyStep

LEMMA ListExit ==
    ASSUME Once, AllInv, NEW t \in Thread,
           Exit(t) \/ Kill(t) \/ CleanupFind(t) \/ CleanupPrint(t)
    PROVE  ListInv'
<1>t. /\ pc \in [Thread -> AllPC] /\ position \in [Thread -> 0..PLIST_SIZE]
      /\ exit_arg \in [Thread -> Int] /\ printed \in [Thread -> SUBSET Int]
  BY Types DEF AllInv
<1> USE DEF plistVars, callVars, exitVars, waitVars, Goto, At
<1>1. /\ UNCHANGED <<parent, answers, list, success, child, seen>>
      /\ pc[t] \in {"user", "cleanup", "print"}
      /\ pc'[t] \in {"set_status", "cleanup", "print", "remove"}
      /\ \A u \in Thread \ {t} : /\ pc'[u] = pc[u] /\ exit_arg'[u] = exit_arg[u]
                                 /\ printed'[u] = printed[u] /\ position'[u] = position[u]
      /\ pc'[t] # "set_status" => exit_arg'[t] = exit_arg[t]
      /\ pc[t] = "user" => printed'[t] = printed[t] /\ pc'[t] \in {"set_status", "cleanup"}
  BY <1>t DEF Exit, Kill, CleanupFind, CleanupPrint
<1>2. Only(t)
  BY <1>1, SameList DEF Only
<1>3. t \in Process => StatusOK(t)'
  <2> SUFFICES ASSUME t \in Process PROVE StatusOK(t)'
    OBVIOUS
  <2>1. StatusOK(t)
    BY DEF AllInv, ListInv, StatusInv
  <2>2. CASE pc[t] = "user"
    BY <2>1, <2>2, <1>1, OutPlaces DEF StatusOK
  <2>3. CASE CleanupFind(t)
    <3>1. /\ pc[t] = "cleanup" /\ exit_arg' = exit_arg
          /\ \/ NotListed(t) /\ pc'[t] = "remove"
             \/ printed' = printed /\ pc'[t] = "print"
      BY <2>3, <1>t DEF CleanupFind
    <3>2. NotListed(t) => ~success[t]
      BY <3>1 DEF AllInv, ListInv, KeptInv, Kept
    <3> QED BY <2>1, <3>1, <3>2, <1>1, OutPlaces DEF StatusOK
  <2>4. CASE CleanupPrint(t)
    <3>1. /\ pc[t] = "print" /\ pc'[t] = "remove" /\ exit_arg' = exit_arg
          /\ printed'[t] = printed[t] \cup {list[position[t]].exit_status}
      BY <2>4, <1>t DEF CleanupPrint
    <3>2. position[t] \in Slot /\ list[position[t]].id = t /\ t # NoThread
      BY <3>1, Basics DEF HoldPC, AllInv, TypeInv, PositionOK, ListInv, WaitInv, WaitOK
    <3>3. list[position[t]].exit_status = exit_arg[t]
      BY <3>1, <3>2 DEF AllInv, ListInv, EntryInv, EntryOK
    <3>4. printed'[t] = {exit_arg[t]}
      BY <2>1, <3>1, <3>3, OutPlaces DEF StatusOK
    <3> QED BY <2>1, <3>1, <3>4, <1>1, OutPlaces DEF StatusOK
  <2> QED BY <2>2, <2>3, <2>4, <1>t DEF Exit, Kill
<1>4. WaitOK(t)'
  <2>1. CASE pc'[t] # "print"
    BY <2>1, <1>1, OutPlaces DEF WaitOK
  <2>2. CASE pc'[t] = "print"
    <3>1. CleanupFind(t)
      BY <2>2, <1>t DEF Exit, Kill, CleanupFind, CleanupPrint
    <3>2. list'[position'[t]].id = t
      BY <2>2, <3>1, <1>t DEF CleanupFind, IsProcess
    <3> QED BY <2>2, <3>2, OutPlaces DEF WaitOK
  <2> QED BY <2>1, <2>2
<1>5. Own(t)
  BY <1>1, <1>3, <1>4 DEF Own
<1>6. RootMove(t)
  <2>1. ASSUME t = Main PROVE Children(Main) \ Reaped = {}
    BY <2>1, <1>1, NoRoots, OutPlaces
  <2>2. ASSUME parent[t] = Main
        PROVE  pc[t] \in ExitPC \/ \A u \in Process \ {t} : pc[u] \in {"unborn", "dead"}
    <3>1. CASE pc[t] = "user"
      BY <2>2, <3>1 DEF Exit, Kill, CleanupFind, CleanupPrint, MayExit, Once
    <3>2. CASE pc[t] # "user"
      BY <3>2, <1>1, OutPlaces
    <3> QED BY <3>1, <3>2
  <2> QED BY <1>1, <2>1, <2>2, OutPlaces DEF RootMove
<1>7. Steady(t)
  BY <1>1 DEF Steady
<1> QED BY <1>2, <1>5, <1>6, <1>7, OnlyStep

-----------------------------------------------------------------------------
\* process_wait's sema_down: the caller queues, or takes the unit that the end
\* of its child has put there.  It never finds a semaphore not yet initialised.
LEMMA ListWaitDown ==
    ASSUME Once, AllInv, NEW t \in Thread, WaitDown(t)
    PROVE  ListInv'
<1> DEFINE s == position[t]
           c == child[t]
<1>t. /\ pc \in [Thread -> AllPC] /\ list \in [Slot -> Entry]
  BY Types DEF AllInv
<1>1. pc[t] = "wait_down"
  BY DEF WaitDown, At
<1>2. s \in Slot /\ list[s].id = c /\ EntryOK(s) /\ c # NoThread /\ c # TID_ERROR
  BY <1>1, HeldEntry
<1>3. /\ c \in Process /\ c \in Thread /\ parent[c] = t /\ success[c] /\ answers[c] = {}
      /\ c \in Children(t) \ Reaped /\ pc[c] \notin StartPC \cup {"unborn"}
  BY <1>1, <1>2, WaitedListed, OutPlaces, Basics
<1>4. list[s].ready /\ list[s].p_sema.value \in Nat
  BY <1>2, <1>3, <1>t, OutPlaces DEF EntryOK, Entry, SemaOf
<1>5. c # t
  BY <1>3 DEF AllInv, EnterInv, BirthInv
<1>6. /\ UNCHANGED <<parent, answers, success, child, seen, position, exit_arg, printed>>
      /\ \A u \in Thread \ {t} : pc'[u] = pc[u]
      /\ pc'[t] \in {"wait_down", "wait_read"}
      /\ \A r \in Slot : /\ list'[r].id = list[r].id
                         /\ r # s => list'[r] = list[r]
      /\ pc'[t] = "wait_down" => \A r \in Slot : SameEntry(r)
      /\ pc'[t] = "wait_read" => /\ list[s].p_sema.value > 0
                                 /\ list' = [list EXCEPT ![s].p_sema = SemaTake(@)]
  <2>1. UNCHANGED <<parent, answers, success, child, seen, position, exit_arg, printed>>
    BY DEF WaitDown, callVars, exitVars, waitVars
  <2>2. CASE /\ list[s].p_sema.value = 0
             /\ list' = [list EXCEPT ![s].p_sema = SemaQueue(@, t)] /\ pc' = pc
    <3>1. \A r \in Slot : SameEntry(r) /\ (r # s => list'[r] = list[r])
      BY <1>2, <1>t, <2>2 DEF SameEntry, SemaQueue, Entry, SemaOf
    <3> QED BY <1>1, <2>1, <2>2, <3>1 DEF SameEntry
  <2>3. CASE /\ list[s].p_sema.value > 0
             /\ list' = [list EXCEPT ![s].p_sema = SemaTake(@)]
             /\ pc' = [pc EXCEPT ![t] = "wait_read"]
    <3>1. \A r \in Slot : list'[r].id = list[r].id /\ (r # s => list'[r] = list[r])
      BY <1>2, <1>t, <2>3 DEF Entry
    <3>2. pc'[t] = "wait_read" /\ \A u \in Thread \ {t} : pc'[u] = pc[u]
      BY <1>t, <2>3
    <3> QED BY <2>1, <2>3, <3>1, <3>2
  <2> QED BY <1>4, <2>2, <2>3 DEF WaitDown, Goto
<1>7. t \in Process => StatusOK(t)'
  <2>1. t \in Process => StatusOK(t)
    BY DEF AllInv, ListInv, StatusInv
  <2> QED BY <2>1, <1>1, <1>6, OutPlaces DEF StatusOK
<1>8. pc'[t] = "wait_read" => pc[c] = "dead"
  BY <1>2, <1>3, <1>6, OutPlaces DEF EntryOK
<1>9. WaitOK(t)'
  <2>1. c \in Children(t)' /\ c \notin Reaped'
    BY <1>3, <1>6 DEF Children, Reaped
  <2>2. pc'[c] = pc[c] /\ list'[position'[t]].id = c /\ child'[t] = c
    BY <1>2, <1>3, <1>5, <1>6
  <2> QED BY <1>6, <1>8, <2>1, <2>2, OutPlaces DEF WaitOK
<1>10. Own(t)
  BY <1>1, <1>6, <1>7, <1>9 DEF Own
<1>11. RootMove(t)
  BY <1>1, <1>6, OutPlaces DEF RootMove
<1>12. CASE pc'[t] = "wait_down"
  <2>1. Only(t)
    BY <1>1, <1>6, <1>12 DEF Only
  <2>2. Steady(t)
    BY <1>1, <1>6, <1>12 DEF Steady
  <2> QED BY <2>1, <2>2, <1>10, <1>11, OnlyStep
<1>13. CASE pc'[t] = "wait_read"
  <2>1. Local(t)
    <3>1. \A u \in Thread : parent'[u] = parent[u] /\ answers'[u] = answers[u]
                            /\ success'[u] = success[u] /\ child'[u] = child[u]
                            /\ seen'[u] = seen[u] /\ position'[u] = position[u]
                            /\ exit_arg'[u] = exit_arg[u] /\ printed'[u] = printed[u]
      BY <1>6
    <3>2. /\ \A u \in Thread \ {t} : pc'[u] = pc[u]
          /\ \A r \in Slot : list'[r].id = list[r].id
      BY <1>6
    <3> QED BY <1>1, <1>13, <3>1, <3>2, Basics DEF Local
  <2>2. ASSUME NEW r \in Slot PROVE EntryOK(r)'
    <3>1. CASE r = s
      <4>1. ~Taken(c) /\ (Awaited(c) => list[s].p_sema.value = 1)
        BY <1>1, <1>2, <1>3 DEF EntryOK, Taken
      <4>2. /\ list'[s].p_sema.value = list[s].p_sema.value - 1
            /\ list'[s].id = c /\ list'[s].free = list[s].free
            /\ list'[s].alive = list[s].alive /\ list'[s].parent_id = list[s].parent_id
            /\ list'[s].ready = list[s].ready /\ list'[s].exit_status = list[s].exit_status
        BY <1>2, <1>6, <1>13, <1>t DEF SemaTake, Entry, SemaOf
      <4>3. /\ pc'[c] = "dead" /\ pc[c] = "dead" /\ parent'[c] = parent[c]
            /\ exit_arg'[c] = exit_arg[c]
        BY <1>3, <1>5, <1>6, <1>8, <1>13
      <4>4. ASSUME NEW d \in Process, d = c PROVE EntryOK(r)'
        <5>1. Taken(d)'
          BY <1>3, <1>6, <1>13, <4>4 DEF Taken
        <5>2. Awaited(d)' <=> Awaited(d)
          <6>1. d \in Reaped' <=> d \in Reaped
            BY <1>6 DEF Reaped
          <6>2. pc'[t] # "dead" /\ pc[t] # "dead"
            BY <1>1, <1>13
          <6> QED BY <1>3, <1>6, <4>3, <4>4, <6>1, <6>2 DEF Awaited
        <5>3. /\ ~list[s].alive
              /\ list[s].parent_id = parent[d] /\ list[s].ready
              /\ list[s].exit_status = exit_arg[d]
              /\ Awaited(d) <=> ~list[s].free
          BY <1>2, <4>3, <4>4 DEF EntryOK
        <5>4. /\ list'[s].id = d /\ pc'[d] = "dead" /\ parent'[d] = parent[d]
              /\ exit_arg'[d] = exit_arg[d] /\ d # NoThread
          BY <1>2, <4>2, <4>3, <4>4
        <5>5. Awaited(d)' => list'[s].p_sema.value = 0
          BY <4>1, <4>2, <4>4, <5>2
        <5>6. /\ list'[r].id = d /\ ~list'[r].alive /\ list'[r].parent_id = parent'[d]
              /\ list'[r].ready /\ list'[r].exit_status = exit_arg'[d]
              /\ Awaited(d)' <=> ~list'[r].free
              /\ Awaited(d)' => list'[r].p_sema.value = 0
          BY <3>1, <4>2, <5>2, <5>3, <5>4, <5>5
        <5> QED BY <5>1, <5>4, <5>6 DEF EntryOK
      <4> QED BY <1>3, <4>4
    <3>2. CASE r # s
      <4>1. ASSUME NEW d \in Process, list[r].id = d PROVE SameFor(d)
        <5>1. d # c /\ d \in Thread /\ pc[d] # "unborn" /\ d # NoThread
          BY <1>2, <3>2, <4>1, Basics DEF AllInv, EnterInv, ListedInv
        <5>2. parent[d] \in Thread
          BY <5>1 DEF AllInv, EnterInv, BirthInv
        <5>3. Taken(d)' <=> Taken(d)
          <6>1. CASE parent[d] = t
            BY <1>1, <1>6, <5>1, <6>1 DEF Taken
          <6>2. CASE parent[d] # t
            BY <1>6, <5>2, <6>2 DEF Taken
          <6> QED BY <6>1, <6>2
        <5>4. pc'[parent[d]] = "dead" <=> pc[parent[d]] = "dead"
          BY <1>1, <1>6, <1>13, <5>2
        <5>5. \/ pc'[d] = pc[d]
              \/ pc'[d] = "wait_read" /\ pc[d] = "wait_down"
          BY <1>1, <1>6, <1>13, <5>1
        <5> QED BY <1>6, <5>3, <5>4, <5>5 DEF SameFor
      <4>2. SameEntry(r)
        BY <1>6, <3>2 DEF SameEntry
      <4> QED BY <4>1, <4>2, EntrySame DEF AllInv, ListInv, EntryInv
    <3> QED BY <3>1, <3>2
  <2> QED BY <2>1, <2>2, <1>10, <1>11, KeptStays, StatusStays, WaitStays, RootStays
           DEF ListInv, EntryInv
<1> QED BY <1>6, <1>12, <1>13

-----------------------------------------------------------------------------
\* The steps that change one entry leave the others as they are.
LEMMA OtherEntry ==
    ASSUME AllInv, NEW t \in Thread, Local(t), NEW r \in Slot, SameEntry(r),
           list[r].id # t,
           \A d \in Process : list[r].id = d =>
               /\ answers'[d] = answers[d]
               /\ parent[d] = t /\ t # Main =>
                    /\ pc'[t] = "dead" <=> pc[t] = "dead"
                    /\ Taken(d)' <=> Taken(d)
    PROVE  EntryOK(r)'
<1>1. ASSUME NEW d \in Process, list[r].id = d PROVE SameFor(d)
  <2>1. d # t /\ d \in Thread /\ pc[d] # "unborn" /\ d # NoThread
    BY <1>1, Basics DEF AllInv, EnterInv, ListedInv
  <2>2. /\ pc'[d] = pc[d] /\ parent'[d] = parent[d] /\ success'[d] = success[d]
        /\ exit_arg'[d] = exit_arg[d]
    BY <2>1 DEF Local
  <2>3. parent[d] \in Thread /\ pc[parent[d]] # "unborn"
    BY <2>1 DEF AllInv, EnterInv, BirthInv
  <2>4. parent[d] # Main => /\ pc'[parent[d]] = "dead" <=> pc[parent[d]] = "dead"
                            /\ Taken(d)' <=> Taken(d)
    <3>1. CASE parent[d] = t
      BY <1>1, <3>1
    <3>2. CASE parent[d] # t
      <4>1. pc'[parent[d]] = pc[parent[d]] /\ child'[parent[d]] = child[parent[d]]
        BY <2>3, <3>2 DEF Local
      <4> QED BY <2>2, <4>1 DEF Taken
    <3> QED BY <3>1, <3>2
  <2> QED BY <1>1, <2>2, <2>4 DEF SameFor
<1> QED BY <1>1, EntrySame DEF AllInv, ListInv, EntryInv

\* One entry changed, and it is right again.
LEMMA OneEntry ==
    ASSUME AllInv, NEW t \in Thread, Local(t), Own(t), RootMove(t), EntryInv'
    PROVE  ListInv'
BY KeptStays, StatusStays, WaitStays, RootStays DEF ListInv

\* What a thread in plist_insert knows of the slot it holds.
LEMMA FillingEntry ==
    ASSUME AllInv, NEW t \in Thread, pc[t] \in {"fill", "sema"}
    PROVE  /\ t \in Process /\ t # NoThread /\ position[t] \in Slot
           /\ list[position[t]].id = t /\ list[position[t]].alive
           /\ ~list[position[t]].free
           /\ pc[t] = "sema" => list[position[t]].parent_id = parent[t]
           /\ pc[t] = "sema" => list[position[t]].exit_status = exit_arg[t]
           /\ exit_arg[t] = -1 /\ printed[t] = {} /\ answers[t] = {} /\ success[t]
           /\ parent[t] \in Thread
           /\ \A r \in Slot \ {position[t]} : list[r].id # t
<1>1. t \in Process /\ t # NoThread
  BY Types, Basics, OutPlaces DEF AllInv
<1>2. position[t] \in Slot /\ list[position[t]].id = t
  BY <1>1 DEF HoldPC, AllInv, TypeInv, PositionOK, EnterInv, HoldInv
<1>3. EntryOK(position[t])
  BY <1>2 DEF AllInv, ListInv, EntryInv
<1>4. StatusOK(t) /\ success[t] /\ parent[t] \in Thread
  BY <1>1 DEF AllInv, ListInv, StatusInv, EnterInv, BirthInv
<1>5. \A r \in Slot \ {position[t]} : list[r].id # t
  BY <1>1, <1>2 DEF AllInv, EnterInv, ListedInv
<1> QED BY <1>1, <1>2, <1>3, <1>4, <1>5, OutPlaces DEF EntryOK, StatusOK

LEMMA ListFill ==
    ASSUME AllInv, NEW t \in Thread, InsertFill(t) \/ InsertSema(t)
    PROVE  ListInv'
<1>t. /\ pc \in [Thread -> AllPC] /\ list \in [Slot -> Entry]
  BY Types DEF AllInv
<1>1. /\ UNCHANGED <<parent, answers, success, child, seen, position, exit_arg, printed>>
      /\ \/ pc[t] = "fill" /\ pc'[t] = "sema"
         \/ pc[t] = "sema" /\ pc'[t] = "report"
      /\ \A u \in Thread \ {t} : pc'[u] = pc[u]
  BY <1>t DEF InsertFill, InsertSema, At, Goto, callVars, exitVars, waitVars
<1>2. PICK s \in Slot : s = position[t]
  BY <1>1, FillingEntry
<1>3. /\ t \in Process /\ t # NoThread
      /\ list[s].id = t /\ list[s].alive /\ ~list[s].free
      /\ pc[t] = "sema" => list[s].parent_id = parent[t]
      /\ pc[t] = "sema" => list[s].exit_status = exit_arg[t]
      /\ exit_arg[t] = -1 /\ printed[t] = {} /\ answers[t] = {} /\ success[t]
      /\ parent[t] \in Thread
      /\ \A r \in Slot \ {s} : list[r].id # t
  BY <1>1, <1>2, FillingEntry
<1>4. /\ \A r \in Slot : list'[r].id = list[r].id /\ (r # s => list'[r] = list[r])
      /\ list'[s].alive = list[s].alive /\ list'[s].free = list[s].free
      /\ list'[s].parent_id = parent[t]
      /\ list'[s].exit_status = exit_arg[t]
      /\ pc'[t] = "report" => list'[s].ready /\ list'[s].p_sema.value = 0
  <2>1. CASE InsertFill(t)
    <3>1. FillSlot(s, parent[t]) /\ pc'[t] = "sema"
      BY <2>1, <1>2, <1>t DEF InsertFill, Goto
    <3> QED BY <3>1, <1>3, <1>t DEF FillSlot, Entry
  <2>2. CASE InsertSema(t)
    <3>1. InitSlotSema(s) /\ pc[t] = "sema"
      BY <2>2, <1>2 DEF InsertSema, At
    <3> QED BY <3>1, <1>3, <1>t DEF InitSlotSema, Entry, sema_init
  <2> QED BY <2>1, <2>2
<1>5. Local(t)
  <2>1. \A u \in Thread : parent'[u] = parent[u] /\ answers'[u] = answers[u]
                          /\ success'[u] = success[u] /\ child'[u] = child[u]
                          /\ seen'[u] = seen[u] /\ position'[u] = position[u]
                          /\ exit_arg'[u] = exit_arg[u] /\ printed'[u] = printed[u]
    BY <1>1
  <2>2. /\ \A u \in Thread \ {t} : pc'[u] = pc[u]
        /\ \A r \in Slot : list'[r].id = list[r].id
        /\ pc[t] \notin {"unborn", "dead"} /\ pc'[t] # "unborn"
    BY <1>1, <1>4
  <2> QED BY <2>1, <2>2, Basics DEF Local
<1>6. Own(t)
  BY <1>1, <1>3, OutPlaces DEF Own, StatusOK, WaitOK
<1>7. RootMove(t)
  BY <1>1, <1>3, Basics, OutPlaces DEF RootMove
<1>8. EntryInv'
  <2> SUFFICES ASSUME NEW r \in Slot PROVE EntryOK(r)'
    BY DEF EntryInv
  <2>1. CASE r = s
    <3>1. ~Awaited(t)'
      BY <1>1 DEF Awaited
    <3>2. /\ list'[r].id = t /\ list'[r].alive /\ ~list'[r].free
          /\ list'[r].parent_id = parent'[t] /\ list'[r].exit_status = exit_arg'[t]
          /\ pc'[t] = "report" => list'[r].ready /\ list'[r].p_sema.value = 0
      BY <1>1, <1>3, <1>4, <2>1
    <3>3. pc'[t] \in {"sema", "report"}
      BY <1>1
    <3> QED BY <1>3, <3>1, <3>2, <3>3 DEF EntryOK
  <2>2. CASE r # s
    <3>1. SameEntry(r) /\ list[r].id # t
      BY <1>3, <1>4, <2>2 DEF SameEntry
    <3>2. \A d \in Process : (~Taken(d)' /\ ~Taken(d)) \/ parent[d] # t
      BY <1>1 DEF Taken
    <3> QED BY <1>1, <1>5, <3>1, <3>2, OtherEntry
  <2> QED BY <2>1, <2>2
<1> QED BY <1>5, <1>6, <1>7, <1>8, OneEntry

\* plist_change_exit_status finds the entry of its caller, which has one.
LEMMA ListSetStatus ==
    ASSUME AllInv, NEW t \in Thread, SetStatus(t)
    PROVE  ListInv'
<1>t. /\ pc \in [Thread -> AllPC] /\ list \in [Slot -> Entry] /\ exit_arg \in [Thread -> Int]
  BY Types DEF AllInv
<1>1. /\ UNCHANGED <<parent, answers, success, child, seen, position, exit_arg, printed>>
      /\ pc[t] = "set_status" /\ pc'[t] = "cleanup"
      /\ \A u \in Thread \ {t} : pc'[u] = pc[u]
      /\ plist_change_exit_status(t, exit_arg[t])
  BY <1>t DEF SetStatus, At, Goto, callVars, exitVars, waitVars
<1>2. t = Main \/ t \in Process
  BY Basics
<1>3. /\ \A r \in Slot : /\ list'[r].id = list[r].id
                         /\ SameEntry(r) \/ list[r].id = t
      /\ \A r \in Slot : list[r].id = t =>
           /\ list'[r].free = list[r].free /\ list'[r].alive = list[r].alive
           /\ list'[r].parent_id = list[r].parent_id /\ list'[r].ready = list[r].ready
           /\ list'[r].p_sema = list[r].p_sema
           /\ list'[r].exit_status = exit_arg[t]
  <2>1. CASE NotListed(t) /\ list' = list
    BY <2>1 DEF NotListed, SameEntry
  <2>2. ASSUME NEW s \in Slot, IsProcess(s, t), list' = [list EXCEPT ![s].exit_status = exit_arg[t]]
        PROVE  <1>3
    <3>1. list[s].id = t /\ t # NoThread
      BY <2>2, Basics DEF IsProcess
    <3>2. \A r \in Slot : list[r].id = t => r = s
      BY <3>1 DEF AllInv, EnterInv, ListedInv
    <3>3. \A r \in Slot : r # s => list'[r] = list[r]
      BY <2>2, <1>t
    <3>4. /\ list'[s].id = list[s].id
          /\ list'[s].free = list[s].free /\ list'[s].alive = list[s].alive
          /\ list'[s].parent_id = list[s].parent_id /\ list'[s].ready = list[s].ready
          /\ list'[s].p_sema = list[s].p_sema
          /\ list'[s].exit_status = exit_arg[t]
      BY <2>2, <1>t DEF Entry
    <3> QED BY <3>1, <3>2, <3>3, <3>4 DEF SameEntry
  <2> QED BY <1>1, <2>1, <2>2 DEF plist_change_exit_status
<1>4. Local(t)
  <2>1. \A u \in Thread : parent'[u] = parent[u] /\ answers'[u] = answers[u]
                          /\ success'[u] = success[u] /\ child'[u] = child[u]
                          /\ seen'[u] = seen[u] /\ position'[u] = position[u]
                          /\ exit_arg'[u] = exit_arg[u] /\ printed'[u] = printed[u]
    BY <1>1
  <2>2. /\ \A u \in Thread \ {t} : pc'[u] = pc[u]
        /\ \A r \in Slot : list'[r].id = list[r].id
        /\ pc[t] \notin {"unborn", "dead"} /\ pc'[t] # "unborn"
    BY <1>1, <1>3
  <2> QED BY <2>1, <2>2, Basics DEF Local
<1>5. Own(t)
  <2>1. t \in Process => StatusOK(t)
    BY DEF AllInv, ListInv, StatusInv
  <2> QED BY <1>1, <2>1, OutPlaces DEF Own, StatusOK, WaitOK
<1>6. RootMove(t)
  BY <1>1, NoRoots, OutPlaces DEF RootMove
<1>7. EntryInv'
  <2> SUFFICES ASSUME NEW r \in Slot PROVE EntryOK(r)'
    BY DEF EntryInv
  <2>0. EntryOK(r)
    BY DEF AllInv, ListInv, EntryInv
  <2>1. CASE list[r].id = t
    <3>1. t # NoThread /\ ~Awaited(t)'
      BY <1>1, Basics DEF Awaited
    <3>2. /\ list[r].alive /\ ~list[r].free
          /\ list[r].parent_id = parent[t] /\ list[r].ready /\ list[r].p_sema.value = 0
      BY <1>1, <2>0, <2>1, <3>1 DEF EntryOK
    <3>3. /\ list'[r].id = t /\ list'[r].alive /\ ~list'[r].free
          /\ list'[r].parent_id = parent'[t] /\ list'[r].exit_status = exit_arg'[t]
          /\ list'[r].ready /\ list'[r].p_sema.value = 0
      BY <1>1, <1>3, <2>1, <3>2
    <3> QED BY <1>1, <3>1, <3>3 DEF EntryOK
  <2>2. CASE list[r].id # t
    <3>1. SameEntry(r)
      BY <1>3, <2>2
    <3>2. \A d \in Process : (~Taken(d)' /\ ~Taken(d)) \/ parent[d] # t
      BY <1>1 DEF Taken
    <3> QED BY <1>1, <1>4, <2>2, <3>1, <3>2, OtherEntry
  <2> QED BY <2>1, <2>2
<1> QED BY <1>4, <1>5, <1>6, <1>7, OneEntry

\* process_wait frees the entry of the child whose status it returns.
LEMMA ListWaitFree ==
    ASSUME AllInv, NEW t \in Thread, WaitFree(t)
    PROVE  ListInv'
<1>t. /\ pc \in [Thread -> AllPC] /\ list \in [Slot -> Entry]
      /\ answers \in [Thread -> SUBSET Int]
  BY Types DEF AllInv
<1>1. /\ UNCHANGED <<parent, success, child, seen, position, exit_arg, printed>>
      /\ pc[t] = "wait_free" /\ pc'[t] = "user"
      /\ \A u \in Thread \ {t} : pc'[u] = pc[u]
  BY <1>t DEF WaitFree, At, Goto, callVars, exitVars, waitVars
<1>2. PICK c \in Process, s \in Slot : c = child[t] /\ s = position[t]
  BY <1>1, HeldEntry, WaitedListed, OutPlaces
<1>3. /\ list[s].id = c /\ EntryOK(s) /\ c # NoThread /\ c # TID_ERROR /\ c \in Thread
      /\ parent[c] = t /\ success[c] /\ answers[c] = {} /\ c \in Children(t)
      /\ pc[c] = "dead" /\ seen[t] = exit_arg[c] /\ c # t
  <2>1. list[s].id = c /\ EntryOK(s) /\ c # NoThread /\ c # TID_ERROR /\ c \in Thread
    BY <1>1, <1>2, HeldEntry, Basics
  <2>2. parent[c] = t /\ success[c] /\ answers[c] = {} /\ c \in Children(t)
    BY <1>1, <1>2, <2>1, WaitedListed, OutPlaces
  <2>3. pc[c] = "dead" /\ seen[t] = exit_arg[c]
    BY <1>1, <1>2 DEF AllInv, ListInv, WaitInv, WaitOK
  <2> QED BY <1>1, <2>1, <2>2, <2>3
<1>4. /\ answers'[c] = {exit_arg[c]}
      /\ \A u \in Thread \ {c} : answers'[u] = answers[u]
  BY <1>2, <1>3, <1>t DEF WaitFree, Answer
<1>5. /\ \A r \in Slot : list'[r].id = list[r].id /\ (r # s => list'[r] = list[r])
      /\ list'[s].free
      /\ list'[s].alive = list[s].alive /\ list'[s].parent_id = list[s].parent_id
      /\ list'[s].ready = list[s].ready /\ list'[s].exit_status = list[s].exit_status
  <2>1. list' = [list EXCEPT ![s].free = TRUE]
    BY <1>2 DEF WaitFree
  <2> QED BY <2>1, <1>t DEF Entry
<1>6. Local(t)
  <2>1. \A u \in Thread : parent'[u] = parent[u]
                          /\ success'[u] = success[u] /\ child'[u] = child[u]
                          /\ seen'[u] = seen[u] /\ position'[u] = position[u]
                          /\ exit_arg'[u] = exit_arg[u] /\ printed'[u] = printed[u]
    BY <1>1
  <2>2. /\ \A u \in Thread \ {t} : pc'[u] = pc[u]
        /\ \A r \in Slot : list'[r].id = list[r].id
        /\ pc[t] \notin {"unborn", "dead"} /\ pc'[t] # "unborn"
    BY <1>1, <1>5
  <2> QED BY <1>3, <1>4, <2>1, <2>2, Basics DEF Local
<1>7. Own(t)
  <2>1. t \in Process => StatusOK(t)
    BY DEF AllInv, ListInv, StatusInv
  <2> QED BY <1>1, <1>3, <1>4, <2>1, OutPlaces DEF Own, StatusOK, WaitOK
<1>8. RootMove(t)
  <2>1. c \in Reaped' /\ child[t] = c
    BY <1>2, <1>4 DEF Reaped
  <2> QED BY <1>1, <2>1, OutPlaces DEF RootMove
<1>9. EntryInv'
  <2> SUFFICES ASSUME NEW r \in Slot PROVE EntryOK(r)'
    BY DEF EntryInv
  <2>1. CASE r = s
    <3>1. c \in Reaped'
      BY <1>4 DEF Reaped
    <3>2. ~Awaited(c)'
      BY <3>1 DEF Awaited
    <3>3. /\ ~list[s].alive /\ list[s].parent_id = parent[c]
          /\ list[s].ready /\ list[s].exit_status = exit_arg[c]
      BY <1>3 DEF EntryOK
    <3>4. /\ list'[r].id = c /\ ~list'[r].alive /\ list'[r].free
          /\ list'[r].parent_id = parent'[c] /\ list'[r].exit_status = exit_arg'[c]
          /\ list'[r].ready
      BY <1>1, <1>3, <1>5, <2>1, <3>3
    <3>5. pc'[c] = "dead"
      BY <1>1, <1>3
    <3> QED BY <1>3, <3>2, <3>4, <3>5 DEF EntryOK
  <2>2. CASE r # s /\ list[r].id # t
    <3>1. SameEntry(r)
      BY <1>5, <2>2 DEF SameEntry
    <3>2. \A d \in Process : list[r].id = d => d # c /\ d \in Thread
      BY <1>3, <2>2, Basics DEF AllInv, EnterInv, ListedInv
    <3>3. \A d \in Process : list[r].id = d /\ parent[d] = t => ~Taken(d)' /\ ~Taken(d)
      BY <1>1, <1>2, <3>2 DEF Taken
    <3>4. \A d \in Process : list[r].id = d => answers'[d] = answers[d]
      BY <1>4, <3>2
    <3>5. pc'[t] = "dead" <=> pc[t] = "dead"
      BY <1>1
    <3> QED BY <1>6, <2>2, <3>1, <3>3, <3>4, <3>5, OtherEntry
  <2>3. CASE r # s /\ list[r].id = t
    <3>1. SameEntry(r)
      BY <1>5, <2>3 DEF SameEntry
    <3>2. SameFor(t)
      BY <1>1 DEF SameFor
    <3> QED BY <2>3, <3>1, <3>2, EntrySame DEF AllInv, ListInv, EntryInv
  <2> QED BY <2>1, <2>2, <2>3
<1> QED BY <1>6, <1>7, <1>8, <1>9, OneEntry

\* plist_insert takes over a free entry: the process it belonged to is gone,
\* and nobody will ask for its status any more.
LEMMA FreeNotKept ==
    ASSUME AllInv, NEW t \in Process, pc[t] = "scan", NEW s \in Slot, list[s].free,
           NEW d \in Process, list[s].id = d
    PROVE  ~Kept(d)
<1> SUFFICES ASSUME Kept(d) PROVE FALSE
  OBVIOUS
<1>1. d # NoThread /\ EntryOK(s)
  BY Basics DEF AllInv, ListInv, EntryInv
<1>2. pc[d] = "dead" /\ ~Awaited(d)
  BY <1>1 DEF EntryOK
<1>3. success[d] /\ answers[d] = {} /\ (parent[d] = Main \/ pc[parent[d]] # "dead")
  BY <1>2 DEF Kept
<1>4. parent[d] = Main
  BY <1>2, <1>3 DEF Awaited, Reaped
<1>5. d \in Children(Main) \ Reaped
  BY <1>3, <1>4 DEF Children, Reaped
<1>6. t # d
  BY <1>2
<1>7. pc[t] \in {"unborn", "dead"}
  BY <1>2, <1>5, <1>6 DEF AllInv, ListInv, RootInv
<1> QED BY <1>7

LEMMA ListClaim ==
    ASSUME AllInv, NEW t \in Thread, Claiming(t)
    PROVE  ListInv'
<1>t. /\ pc \in [Thread -> AllPC] /\ list \in [Slot -> Entry]
  BY Types DEF AllInv
<1>1. /\ UNCHANGED <<parent, answers, success, child, seen, position, exit_arg, printed>>
      /\ pc[t] = "scan" /\ pc'[t] = "fill"
      /\ \A u \in Thread \ {t} : pc'[u] = pc[u]
  BY <1>t DEF Claiming, callVars, exitVars, waitVars
<1>2. PICK s \in Slot : s = position[t] /\ list[s].free /\ ClaimSlot(s, t)
  BY DEF Claiming
<1>3. t \in Process /\ t # Main /\ t # NoThread
  BY <1>1, Types, Basics, OutPlaces DEF AllInv
<1>4. /\ \A r \in Slot : r # s => list'[r] = list[r]
      /\ list'[s].id = t /\ list'[s].alive /\ ~list'[s].free
  BY <1>2, <1>t DEF ClaimSlot, Entry
<1>5. success[t] /\ StatusOK(t) /\ \A r \in Slot : list[r].id # t
  BY <1>1, <1>3 DEF AllInv, EnterInv, BirthInv, ListedInv, ListInv, StatusInv
<1>6. \A d \in Process : list[s].id = d => ~Kept(d)
  BY <1>1, <1>2, <1>3, FreeNotKept
<1>7. Local(t)
  <2>1. \A u \in Thread : parent'[u] = parent[u] /\ answers'[u] = answers[u]
                          /\ success'[u] = success[u] /\ child'[u] = child[u]
                          /\ seen'[u] = seen[u] /\ position'[u] = position[u]
                          /\ exit_arg'[u] = exit_arg[u] /\ printed'[u] = printed[u]
    BY <1>1
  <2>2. \A r \in Slot : list[r].id \in Process =>
                          (Kept(list[r].id) => list'[r].id = list[r].id)
    BY <1>4, <1>6
  <2>3. /\ \A u \in Thread \ {t} : pc'[u] = pc[u]
        /\ pc[t] \notin {"unborn", "dead"} /\ pc'[t] # "unborn"
    BY <1>1
  <2> QED BY <2>1, <2>2, <2>3, Basics DEF Local
<1>8. Own(t)
  BY <1>1, <1>4, <1>5, OutPlaces DEF Own, StatusOK, WaitOK
<1>9. RootMove(t)
  BY <1>1, <1>3, <1>5, OutPlaces DEF RootMove
<1>10. EntryInv'
  <2> SUFFICES ASSUME NEW r \in Slot PROVE EntryOK(r)'
    BY DEF EntryInv
  <2>1. CASE r = s
    <3>1. ~Awaited(t)'
      BY <1>1 DEF Awaited
    <3>2. list'[r].id = t /\ list'[r].alive /\ ~list'[r].free
      BY <1>4, <2>1
    <3> QED BY <1>1, <1>3, <3>1, <3>2 DEF EntryOK
  <2>2. CASE r # s
    <3>1. SameEntry(r) /\ list[r].id # t
      BY <1>4, <1>5, <2>2 DEF SameEntry
    <3>2. \A d \in Process : (~Taken(d)' /\ ~Taken(d)) \/ parent[d] # t
      BY <1>1 DEF Taken
    <3> QED BY <1>1, <1>7, <3>1, <3>2, OtherEntry
  <2> QED BY <2>1, <2>2
<1> QED BY <1>7, <1>8, <1>9, <1>10, OneEntry

LEMMA ListExecute ==
    ASSUME AllInv, NEW t \in Thread, Execute(t)
    PROVE  ListInv'
<1>t. /\ pc \in [Thread -> AllPC] /\ child \in [Thread -> Int]
      /\ parent \in [Thread -> Thread \cup {NoThread}]
  BY Types DEF AllInv
<1>1. /\ UNCHANGED <<list, success, answers, seen, position, exit_arg, printed>>
      /\ pc[t] = "user" /\ next_tid \in Process
  BY DEF Execute, At, plistVars, exitVars, waitVars
<1>2. PICK c \in Process : c = next_tid
  BY <1>1
<1>3. c \in Thread /\ c # t /\ pc[c] = "unborn"
  <2>1. c >= next_tid
    BY <1>2, Basics
  <2>2. pc[c] = "unborn"
    BY <2>1 DEF AllInv, ExecInv, UnbornInv
  <2> QED BY <2>2, <1>1, Basics
<1>4. /\ pc'[t] = "exec_down" /\ pc'[c] = "load" /\ parent'[c] = t /\ child'[t] = c
      /\ \A u \in Thread \ {t, c} : pc'[u] = pc[u]
      /\ \A u \in Thread \ {c} : parent'[u] = parent[u]
      /\ \A u \in Thread \ {t} : child'[u] = child[u]
  BY <1>2, <1>3, <1>t DEF Execute
<1>5. ~success[c] /\ StatusOK(c) /\ answers[c] = {}
  BY <1>3 DEF AllInv, EnterInv, BirthInv, ListInv, StatusInv, StatusOK
<1>6. Local(t)
  <2>1. \A u \in Thread : answers'[u] = answers[u] /\ success'[u] = success[u]
                          /\ seen'[u] = seen[u] /\ position'[u] = position[u]
                          /\ exit_arg'[u] = exit_arg[u] /\ printed'[u] = printed[u]
    BY <1>1
  <2>2. \A s \in Slot : list'[s].id = list[s].id
    BY <1>1
  <2>3. ASSUME NEW u \in Thread \ {t}
        PROVE  /\ child'[u] = child[u]
               /\ pc[u] # "unborn" => pc'[u] = pc[u] /\ parent'[u] = parent[u]
               /\ pc[u] = "unborn" =>
                    \/ pc'[u] = "unborn"
                    \/ pc'[u] = "load" /\ pc[t] = "user" /\ pc'[t] = "exec_down"
    BY <1>1, <1>3, <1>4
  <2>4. /\ parent'[t] = parent[t]
        /\ pc[t] \notin {"unborn", "dead"} /\ pc'[t] # "unborn"
    BY <1>1, <1>3, <1>4
  <2> QED BY <2>1, <2>2, <2>3, <2>4, Basics DEF Local
<1>7. Own(t)
  <2>1. t \in Process => StatusOK(t)
    BY DEF AllInv, ListInv, StatusInv
  <2>2. WaitOK(t)'
    BY <1>1, <1>4, <1>5, OutPlaces DEF WaitOK
  <2>3. t \in Process => StatusOK(t)'
    BY <1>1, <1>4, <2>1, OutPlaces DEF StatusOK
  <2> QED BY <1>1, <1>4, <2>2, <2>3 DEF Own
<1>8. RootMove(t)
  BY <1>1, <1>4, NoRoots, OutPlaces DEF RootMove
<1>9. Steady(t)
  BY <1>1, <1>4 DEF Steady
<1>10. answers' = answers /\ \A s \in Slot : SameEntry(s)
  BY <1>1, SameList
<1> QED BY <1>6, <1>7, <1>8, <1>9, <1>10, PlainStep

-----------------------------------------------------------------------------
\* What plist_remove of the entry s of t leaves in each entry.
LEMMA RemoveEffect ==
    ASSUME TypeInv, NEW s \in Slot, NEW t \in Process, list[s].id = t,
           list[s].parent_id # t, NEW kept \in BOOLEAN,
           kept <=> \E r \in Slot : /\ IsProcess(r, list[s].parent_id)
                                    /\ r # s /\ list[r].alive,
           RemoveEntry(s)
    PROVE  /\ \A r \in Slot :
                /\ list'[r].id = list[r].id /\ list'[r].parent_id = list[r].parent_id
                /\ list'[r].ready = list[r].ready
                /\ list'[r].exit_status = list[r].exit_status
           /\ ~list'[s].alive /\ list'[s].free = (list[s].free \/ ~kept)
           /\ list'[s].p_sema.value = list[s].p_sema.value + 1
           /\ \A r \in Slot \ {s} :
                /\ list'[r].alive = list[r].alive
                /\ list'[r].p_sema = list[r].p_sema
                /\ list'[r].free = (list[r].free \/ (list[r].parent_id = t /\ ~list[r].alive))
<1> DEFINE dead == [list EXCEPT ![s].alive = FALSE]
           keeps == \E r \in Slot : IsProcess(r, list[s].parent_id) /\ dead[r].alive
           freed == [dead EXCEPT ![s].free = @ \/ ~keeps]
           rest == plist_kill_children(freed, t)
<1>t. list \in [Slot -> Entry] /\ list[s].p_sema \in SemaOf(Thread)
  BY Types DEF Entry
<1>1. /\ DOMAIN dead = Slot
      /\ \A r \in Slot : /\ dead[r].id = list[r].id /\ dead[r].parent_id = list[r].parent_id
                         /\ dead[r].ready = list[r].ready
                         /\ dead[r].exit_status = list[r].exit_status
                         /\ dead[r].p_sema = list[r].p_sema /\ dead[r].free = list[r].free
                         /\ dead[r].alive = (r # s /\ list[r].alive)
      /\ dead \in [Slot -> Entry]
  BY <1>t DEF Entry
<1> HIDE DEF dead
<1>2. keeps <=> kept
  BY <1>1
<1> HIDE DEF keeps
<1>3. /\ freed \in [Slot -> Entry]
      /\ \A r \in Slot \ {s} : freed[r] = dead[r]
      /\ freed[s].id = list[s].id /\ freed[s].parent_id = list[s].parent_id
      /\ freed[s].ready = list[s].ready
      /\ freed[s].exit_status = list[s].exit_status
      /\ freed[s].p_sema = list[s].p_sema
      /\ ~freed[s].alive
      /\ freed[s].free = (list[s].free \/ ~kept)
  <2> DEFINE b == dead[s].free \/ ~keeps
             e == [dead[s] EXCEPT !.free = b]
  <2>1. b \in BOOLEAN /\ dead[s] \in Entry
    BY <1>1
  <2>2. freed = [dead EXCEPT ![s] = e]
    OBVIOUS
  <2>3. b = (list[s].free \/ ~kept)
    BY <1>1, <1>2
  <2> HIDE DEF b, freed
  <2>4. e \in Entry
    BY <2>1, FieldUpdate
  <2>5. /\ e.id = dead[s].id /\ e.parent_id = dead[s].parent_id
        /\ e.ready = dead[s].ready /\ e.exit_status = dead[s].exit_status
        /\ e.p_sema = dead[s].p_sema /\ e.alive = dead[s].alive /\ e.free = b
    BY <2>1 DEF Entry
  <2> HIDE DEF e
  <2>6. freed[s] = e /\ freed \in [Slot -> Entry]
        /\ \A r \in Slot \ {s} : freed[r] = dead[r]
    BY <1>1, <2>2, <2>4
  <2> QED BY <1>1, <2>3, <2>5, <2>6
<1> HIDE DEF freed
<1>4. /\ rest \in [Slot -> Entry]
      /\ \A r \in Slot :
           /\ rest[r].id = freed[r].id /\ rest[r].parent_id = freed[r].parent_id
           /\ rest[r].ready = freed[r].ready
           /\ rest[r].exit_status = freed[r].exit_status
           /\ rest[r].p_sema = freed[r].p_sema
           /\ rest[r].alive = freed[r].alive
           /\ rest[r].free = (freed[r].free \/ (freed[r].parent_id = t /\ ~freed[r].alive))
  <2>1. rest \in [Slot -> Entry]
    BY <1>3, KillChildrenType
  <2>2. ASSUME NEW r \in Slot
        PROVE  /\ rest[r].id = freed[r].id /\ rest[r].parent_id = freed[r].parent_id
               /\ rest[r].ready = freed[r].ready
               /\ rest[r].exit_status = freed[r].exit_status
               /\ rest[r].p_sema = freed[r].p_sema
               /\ rest[r].alive = freed[r].alive
               /\ rest[r].free = (freed[r].free \/ (freed[r].parent_id = t /\ ~freed[r].alive))
    <3>1. freed[r] \in Entry
      BY <1>3
    <3>2. CASE freed[r].parent_id = t
      <4>1. rest[r] = [freed[r] EXCEPT !.parent_alive = FALSE,
                                       !.free = @ \/ ~freed[r].alive]
        BY <3>2 DEF plist_kill_children
      <4> HIDE DEF rest
      <4> QED BY <3>1, <3>2, <4>1 DEF Entry
    <3>3. CASE freed[r].parent_id # t
      <4>1. rest[r] = freed[r]
        BY <3>3 DEF plist_kill_children
      <4> HIDE DEF rest
      <4>2. freed[r].free \in BOOLEAN
        BY <3>1 DEF Entry
      <4> QED BY <3>3, <4>1, <4>2
    <3> QED BY <3>2, <3>3
  <2> HIDE DEF rest
  <2> QED BY <2>1, <2>2
<1>5. list' = [rest EXCEPT ![s].p_sema = SemaUp(@)]
  BY DEF RemoveEntry, rest, freed, keeps, dead
<1> HIDE DEF rest
<1>6. /\ \A r \in Slot \ {s} : list'[r] = rest[r]
      /\ list'[s].p_sema = SemaUp(rest[s].p_sema)
      /\ list'[s].id = rest[s].id /\ list'[s].parent_id = rest[s].parent_id
      /\ list'[s].ready = rest[s].ready
      /\ list'[s].exit_status = rest[s].exit_status
      /\ list'[s].alive = rest[s].alive /\ list'[s].free = rest[s].free
  BY <1>4, <1>5 DEF Entry
<1>7. list'[s].p_sema.value = list[s].p_sema.value + 1
  BY <1>t, <1>3, <1>4, <1>6 DEF SemaUp, SemaOf
<1>8. /\ ~list'[s].alive
      /\ list'[s].free = (list[s].free \/ ~kept)
  BY <1>3, <1>4, <1>6
<1>9. ASSUME NEW r \in Slot
      PROVE  /\ list'[r].id = list[r].id /\ list'[r].parent_id = list[r].parent_id
             /\ list'[r].ready = list[r].ready
             /\ list'[r].exit_status = list[r].exit_status
             /\ r # s => /\ list'[r].alive = list[r].alive
                         /\ list'[r].p_sema = list[r].p_sema
                         /\ list'[r].free = (list[r].free \/ (list[r].parent_id = t /\ ~list[r].alive))
  <2>1. CASE r = s
    BY <1>3, <1>4, <1>6, <2>1
  <2>2. CASE r # s
    <3>1. list'[r] = rest[r] /\ freed[r] = dead[r] /\ list[r].alive \in BOOLEAN
      BY <1>3, <1>6, <2>2, <1>t DEF Entry
    <3> QED BY <1>1, <1>4, <2>2, <3>1
  <2> QED BY <2>1, <2>2
<1> QED BY <1>7, <1>8, <1>9

\* The parent of a process is alive exactly if its entry is.
LEMMA ParentAlive ==
    ASSUME AllInv, NEW t \in Process, pc[t] = "remove", LockFree,
           NEW s \in Slot, list[s].id = t
    PROVE  (\E r \in Slot : /\ IsProcess(r, list[s].parent_id)
                            /\ r # s /\ list[r].alive)
             <=> parent[t] # Main /\ pc[parent[t]] # "dead"
<1>1. t # NoThread /\ EntryOK(s) /\ EntryInv /\ ListedInv
  BY Basics DEF AllInv, ListInv, EntryInv, EnterInv
<1>2. list[s].parent_id = parent[t]
  BY <1>1 DEF EntryOK
<1>3. PICK q \in Thread : q = parent[t]
  BY DEF AllInv, EnterInv, BirthInv
<1>4. /\ q # t /\ q # NoThread
      /\ pc[q] \notin StartPC \cup {"unborn"}
      /\ q # Main => success[q]
  BY <1>3, Basics DEF AllInv, EnterInv, BirthInv
<1>5. ASSUME NEW r \in Slot, IsProcess(r, q), list[r].alive
      PROVE  q # Main /\ pc[q] # "dead"
  <2>1. list[r].id = q /\ EntryOK(r)
    BY <1>1, <1>5 DEF IsProcess, EntryInv
  <2>2. q \in Process
    BY <2>1, <1>4, Types DEF AllInv
  <2> QED BY <1>4, <1>5, <2>1, <2>2, Basics DEF EntryOK
<1>6. ASSUME q # Main, pc[q] # "dead"
      PROVE  \E r \in Slot : IsProcess(r, q) /\ r # s /\ list[r].alive
  <2>1. q \in Process /\ Kept(q)
    BY <1>4, <1>6, Basics, OutPlaces DEF Kept
  <2>2. PICK r \in Slot : list[r].id = q
    BY <2>1 DEF AllInv, ListInv, KeptInv, NotListed
  <2>3. EntryOK(r) /\ IsProcess(r, q) /\ r # s
    BY <1>1, <1>4, <2>2, FindsIt DEF EntryInv
  <2> QED BY <1>4, <1>6, <2>2, <2>3 DEF EntryOK
<1> QED BY <1>2, <1>3, <1>5, <1>6

\* plist_remove leaves the entry of the thread that ends, for as long as its
\* parent lives, and frees those of its children that have ended.
LEMMA RemoveListed ==
    ASSUME AllInv, NEW t \in Process, pc[t] = "remove", LockFree,
           NEW s \in Slot, list[s].id = t, RemoveEntry(s),
           Local(t), answers' = answers, pc'[t] = "dead", exit_arg' = exit_arg,
           success' = success, parent' = parent
    PROVE  EntryInv'
<1> DEFINE kept == parent[t] # Main /\ pc[parent[t]] # "dead"
<1>1. /\ t # NoThread /\ EntryOK(s) /\ EntryInv /\ ListedInv /\ TypeInv /\ StatusOK(t)
      /\ success[t] /\ t \in Thread
  BY Basics DEF AllInv, ListInv, EntryInv, EnterInv, StatusInv, ListedInv
<1>2. /\ list[s].parent_id = parent[t] /\ list[s].alive /\ ~list[s].free
      /\ list[s].ready /\ list[s].p_sema.value = 0
      /\ list[s].exit_status = exit_arg[t]
      /\ answers[t] = {}
  BY <1>1 DEF EntryOK, StatusOK
<1>3. parent[t] \in Thread \ {t}
  BY DEF AllInv, EnterInv, BirthInv
<1>4. /\ \A r \in Slot :
           /\ list'[r].id = list[r].id /\ list'[r].parent_id = list[r].parent_id
           /\ list'[r].ready = list[r].ready
           /\ list'[r].exit_status = list[r].exit_status
      /\ ~list'[s].alive /\ list'[s].free = (list[s].free \/ ~kept)
      /\ list'[s].p_sema.value = list[s].p_sema.value + 1
      /\ \A r \in Slot \ {s} :
           /\ list'[r].alive = list[r].alive
           /\ list'[r].p_sema = list[r].p_sema
           /\ list'[r].free = (list[r].free \/ (list[r].parent_id = t /\ ~list[r].alive))
  <2>1. kept \in BOOLEAN /\ list[s].parent_id # t
    BY <1>2, <1>3
  <2>2. kept <=> \E r \in Slot : /\ IsProcess(r, list[s].parent_id)
                                 /\ r # s /\ list[r].alive
    BY ParentAlive
  <2> HIDE DEF kept
  <2> QED BY <1>1, <2>1, <2>2, RemoveEffect
<1>5. \A u \in Thread : pc[u] # "fill"
  BY Basics, OutPlaces DEF AllInv, EnterInv, LockInv, LockFree
<1> SUFFICES ASSUME NEW r \in Slot PROVE EntryOK(r)'
  BY DEF EntryInv
<1>6. CASE r = s
  <2>1. Awaited(t)' <=> kept
    <3>1. t \in Reaped' <=> answers[t] # {}
      BY DEF Reaped
    <3>2. pc'[parent[t]] = "dead" <=> pc[parent[t]] = "dead"
      BY <1>3 DEF Local, AllInv, EnterInv, BirthInv
    <3> QED BY <1>1, <1>2, <3>1, <3>2 DEF Awaited
  <2>2. ~Taken(t)'
    <3>1. ~Taken(t)
      BY <1>3, OutPlaces DEF Taken, AllInv, ListInv, WaitInv, WaitOK
    <3>2. /\ child'[parent[t]] = child[parent[t]]
          /\ pc'[parent[t]] \in {"wait_read", "wait_free"} => pc'[parent[t]] = pc[parent[t]]
      BY <1>3 DEF Local
    <3> QED BY <3>1, <3>2 DEF Taken
  <2>3. /\ list'[s].id = t /\ ~list'[s].alive /\ list'[s].free = ~kept
        /\ list'[s].parent_id = parent'[t] /\ list'[s].ready
        /\ list'[s].exit_status = exit_arg'[t] /\ list'[s].p_sema.value = 1
    BY <1>1, <1>2, <1>4
  <2> QED BY <1>1, <1>6, <2>1, <2>2, <2>3 DEF EntryOK
<1>7. CASE r # s /\ list[r].id = NoThread
  <2>1. list[r].free /\ ~list[r].alive
    BY <1>1, <1>7 DEF EntryInv, EntryOK
  <2>2. list'[r].id = NoThread /\ list'[r].free /\ ~list'[r].alive
    BY <1>4, <1>7, <2>1
  <2> QED BY <2>2 DEF EntryOK
<1>8. ASSUME r # s, NEW c \in Process, list[r].id = c PROVE EntryOK(r)'
  <2>1. /\ c # NoThread /\ c # t /\ c \in Thread /\ EntryOK(r) /\ pc[c] # "unborn"
        /\ list[r] \in Entry
    BY <1>1, <1>8, Basics, Types DEF EntryInv, ListedInv
  <2>2. /\ list[r].alive <=> pc[c] # "dead"
        /\ list[r].parent_id = parent[c]
        /\ pc'[c] = pc[c]
        /\ parent[c] \in Thread /\ pc[parent[c]] # "unborn"
    BY <1>5, <1>8, <2>1 DEF EntryOK, Local, AllInv, EnterInv, BirthInv
  <2>3. CASE parent[c] = t /\ pc[c] = "dead"
    <3>1. ~Awaited(c)'
      BY <2>3 DEF Awaited
    <3>2. list[r].ready /\ list[r].exit_status = exit_arg[c] /\ ~list[r].alive
      BY <1>8, <2>1, <2>2, <2>3 DEF EntryOK
    <3>3. /\ list'[r].id = c /\ ~list'[r].alive /\ list'[r].free
          /\ list'[r].parent_id = parent'[c] /\ list'[r].ready
          /\ list'[r].exit_status = exit_arg'[c] /\ pc'[c] = "dead"
      BY <1>4, <1>8, <2>2, <2>3, <3>2
    <3> QED BY <2>1, <3>1, <3>3 DEF EntryOK
  <2>4. CASE parent[c] # t \/ pc[c] # "dead"
    <3>1. SameEntry(r)
      <4>1. list[r].free \in BOOLEAN /\ ~(list[r].parent_id = t /\ ~list[r].alive)
        BY <2>1, <2>2, <2>4 DEF Entry
      <4> QED BY <1>4, <1>8, <4>1 DEF SameEntry
    <3>2. pc[c] = "dead" => /\ pc'[parent[c]] = pc[parent[c]]
                            /\ child'[parent[c]] = child[parent[c]]
      BY <2>2, <2>4 DEF Local
    <3>3. SameFor(c)
      BY <2>2, <3>2 DEF SameFor, Taken
    <3> QED BY <1>1, <1>8, <2>1, <3>1, <3>3, EntrySame
  <2> QED BY <2>3, <2>4
<1> QED BY <1>1, <1>6, <1>7, <1>8, Types

LEMMA ListRemove ==
    ASSUME AllInv, NEW t \in Thread, Remove(t)
    PROVE  ListInv'
<1>t. pc \in [Thread -> AllPC]
  BY Types DEF AllInv
<1>1. /\ UNCHANGED <<parent, answers, success, child, seen, position, exit_arg, printed>>
      /\ pc[t] = "remove" /\ pc'[t] = "dead" /\ LockFree
      /\ \A u \in Thread \ {t} : pc'[u] = pc[u]
      /\ \/ NotListed(t) /\ list' = list
         \/ \E s \in Slot : IsProcess(s, t) /\ RemoveEntry(s)
  BY <1>t DEF Remove, At, Goto, callVars, exitVars, waitVars
<1>2. \A s \in Slot : list'[s].id = list[s].id
  BY <1>1, RemoveKeepsIds DEF AllInv
<1>3. Local(t)
  <2>1. \A u \in Thread : parent'[u] = parent[u] /\ answers'[u] = answers[u]
                          /\ success'[u] = success[u] /\ child'[u] = child[u]
                          /\ seen'[u] = seen[u] /\ position'[u] = position[u]
                          /\ exit_arg'[u] = exit_arg[u] /\ printed'[u] = printed[u]
    BY <1>1
  <2>2. /\ \A u \in Thread \ {t} : pc'[u] = pc[u]
        /\ pc[t] \notin {"unborn", "dead"} /\ pc'[t] # "unborn"
    BY <1>1
  <2> QED BY <1>2, <2>1, <2>2, Basics DEF Local
<1>4. Own(t)
  <2>1. t \in Process => StatusOK(t)
    BY DEF AllInv, ListInv, StatusInv
  <2> QED BY <1>1, <2>1, OutPlaces DEF Own, StatusOK, WaitOK
<1>5. RootMove(t)
  BY <1>1, NoRoots, OutPlaces DEF RootMove
<1>6. EntryInv'
  <2>1. CASE NotListed(t) /\ list' = list
    <3>1. t = Main \/ ~success[t]
      BY <1>1, <2>1, Basics DEF AllInv, ListInv, KeptInv, Kept
    <3> SUFFICES ASSUME NEW r \in Slot PROVE EntryOK(r)'
      BY DEF EntryInv
    <3>2. SameEntry(r) /\ list[r].id # t
      BY <2>1, SameList DEF NotListed
    <3>3. ASSUME NEW d \in Process, list[r].id = d, parent[d] = t PROVE t = Main
      <4>1. d # NoThread /\ pc[d] # "unborn"
        BY <3>3, Basics DEF AllInv, EnterInv, ListedInv
      <4> QED BY <3>1, <3>3, <4>1 DEF AllInv, EnterInv, BirthInv
    <3>4. \A d \in Process : answers'[d] = answers[d]
      BY <1>1
    <3> QED BY <1>3, <3>2, <3>3, <3>4, OtherEntry
  <2>2. ASSUME NEW s \in Slot, IsProcess(s, t), RemoveEntry(s) PROVE EntryInv'
    <3>1. list[s].id = t /\ t \in Process
      BY <2>2, Types, Basics DEF IsProcess, AllInv
    <3> QED BY <1>1, <1>3, <2>2, <3>1, RemoveListed
  <2> QED BY <1>1, <2>1, <2>2
<1> QED BY <1>3, <1>4, <1>5, <1>6, OneEntry

-----------------------------------------------------------------------------
LEMMA ListInit == Init => ListInv
<1> SUFFICES ASSUME Init PROVE ListInv
  OBVIOUS
<1>1. /\ \A t \in Thread : /\ pc[t] \in {"user", "unborn"} /\ ~success[t]
                           /\ exit_arg[t] = -1 /\ printed[t] = {} /\ answers[t] = {}
      /\ \A s \in Slot : list[s].id = NoThread /\ list[s].free /\ ~list[s].alive
  BY Basics DEF Init, plist_init
<1>2. EntryInv
  BY <1>1 DEF EntryInv, EntryOK
<1>3. KeptInv /\ RootInv
  BY <1>1, Basics DEF KeptInv, Kept, RootInv, Children
<1>4. StatusInv /\ WaitInv
  BY <1>1, Basics, OutPlaces DEF StatusInv, StatusOK, WaitInv, WaitOK
<1> QED BY <1>2, <1>3, <1>4 DEF ListInv

LEMMA ListStutter == AllInv /\ UNCHANGED vars => ListInv'
<1> SUFFICES ASSUME AllInv, UNCHANGED vars PROVE ListInv'
  OBVIOUS
<1>1. UNCHANGED <<list, pc, success, parent, child, position, seen, answers,
                  exit_arg, printed>>
  BY DEF vars, plistVars, callVars, exitVars, waitVars
<1>2. \A c \in Process : (Awaited(c)' <=> Awaited(c)) /\ (Taken(c)' <=> Taken(c))
  BY <1>1 DEF Awaited, Taken, Reaped
<1>3. \A s \in Slot : list[s].id # NoThread => list[s].id \in Process
  BY Types DEF AllInv
<1>4. EntryInv'
  BY <1>1, <1>2, <1>3 DEF EntryInv, EntryOK, AllInv, ListInv
<1>5. KeptInv' /\ StatusInv'
  BY <1>1 DEF KeptInv, Kept, NotListed, StatusInv, StatusOK, AllInv, ListInv
<1>6. WaitInv' /\ RootInv'
  BY <1>1 DEF WaitInv, WaitOK, RootInv, Children, Reaped, AllInv, ListInv
<1> QED BY <1>4, <1>5, <1>6 DEF ListInv

LEMMA ListNext == Once /\ AllInv /\ [Next]_vars => ListInv'
<1> SUFFICES ASSUME Once, AllInv, [Next]_vars PROVE ListInv'
  OBVIOUS
<1>1. ASSUME NEW t \in Thread, KernelStep(t) PROVE ListInv'
  <2>1. CASE InsertScan(t)
    <3>1. Claiming(t) \/ StartStep(t)
      BY <2>1, ScanSteps DEF AllInv
    <3>2. CASE Claiming(t)
      BY <3>2, ListClaim
    <3>3. CASE pc'[t] = "scan"
      BY <2>1, <3>3, ListLoad
    <3>4. CASE pc'[t] = "fill"
      <4>1. Claiming(t)
        <5>1. pc \in [Thread -> AllPC] /\ pc[t] = "scan"
          BY <2>1, Types DEF AllInv, InsertScan, At
        <5> QED BY <2>1, <3>4, <5>1 DEF InsertScan, Claiming, Goto
      <4> QED BY <4>1, ListClaim
    <3>5. pc'[t] \in {"scan", "fill"}
      <4>1. pc \in [Thread -> AllPC] /\ pc[t] = "scan"
        BY <2>1, Types DEF AllInv, InsertScan, At
      <4> QED BY <2>1, <4>1 DEF InsertScan, Goto
    <3> QED BY <3>3, <3>4, <3>5
  <2>2. CASE Load(t) \/ InsertLock(t) \/ InsertFull(t) \/ Report(t) \/ Raise(t)
    BY <2>2, ListLoad
  <2>3. CASE InsertFill(t) \/ InsertSema(t)
    BY <2>3, ListFill
  <2>4. CASE ExecDown(t) \/ ExecReturn(t)
    BY <2>4, ListCall
  <2>5. CASE WaitNotFound(t) \/ WaitFind(t) \/ WaitRead(t)
    BY <2>5, ListWait
  <2>6. CASE WaitDown(t)
    BY <2>6, ListWaitDown
  <2>7. CASE WaitFree(t)
    BY <2>7, ListWaitFree
  <2>8. CASE SetStatus(t)
    BY <2>8, ListSetStatus
  <2>9. CASE CleanupFind(t) \/ CleanupPrint(t)
    BY <2>9, ListExit
  <2>10. CASE Remove(t)
    BY <2>10, ListRemove
  <2> QED
    BY <1>1, <2>1, <2>2, <2>3, <2>4, <2>5, <2>6, <2>7, <2>8, <2>9, <2>10 DEF KernelStep
<1>2. ASSUME NEW t \in Thread, ProgramStep(t) PROVE ListInv'
  BY <1>2, ListExecute, ListCall, ListWait, ListExit DEF ProgramStep
<1> QED BY <1>1, <1>2, ListStutter DEF Next, Halted

LEMMA ListAlways == Once => (Spec => []AllInv)
<1> SUFFICES ASSUME Once PROVE Spec => []AllInv
  OBVIOUS
<1>1. Init => AllInv
  BY TypeInit, ExecInit, EnterInit, ListInit DEF AllInv
<1>2. AllInv /\ [Next]_vars => AllInv'
  BY TypeNext, ExecNext, EnterNext, ListNext DEF AllInv
<1> QED BY <1>1, <1>2, PTL DEF Spec

\* An entry of the process list lives exactly as long as somebody needs it: a
\* running process keeps its own, one that has exited keeps it with its status
\* and one unit in its semaphore until the living parent has asked for it, and no other
\* entry is in use.  This is so when each program waits once for each of its
\* children and the program that the kernel starts ends last.
THEOREM EntriesAreKept == Once => (Spec => []EntriesKept)
<1> SUFFICES ASSUME Once PROVE Spec => []EntriesKept
  OBVIOUS
<1>1. ASSUME AllInv PROVE EntriesKept
  <2>1. \A s \in Slot : EntryOK(s) /\ list[s].id \in Process \cup {NoThread}
    BY <1>1, Types DEF AllInv, ListInv, EntryInv
  <2>2. ASSUME NEW t \in Process, Registered(t)
        PROVE  /\ ~NotListed(t)
               /\ \A s \in Slot : list[s].id = t =>
                    /\ ~list[s].free /\ list[s].alive
                    /\ list[s].parent_id = parent[t]
    <3>1. Kept(t) /\ t # NoThread
      BY <2>2, Basics, OutPlaces DEF Registered, Kept
    <3> QED BY <1>1, <2>1, <2>2, <3>1, OutPlaces
            DEF AllInv, ListInv, KeptInv, EntryOK, Registered
  <2>3. ASSUME NEW c \in Process, Awaited(c)
        PROVE  \E s \in Slot :
                 /\ list[s].id = c
                 /\ ~list[s].free /\ ~list[s].alive
                 /\ list[s].exit_status = exit_arg[c]
                 /\ \/ list[s].p_sema.value = 1
                    \/ /\ pc[parent[c]] \in {"wait_read", "wait_free"}
                       /\ child[parent[c]] = c
    <3>1. Kept(c) /\ c # NoThread /\ pc[c] = "dead"
      BY <2>3, Basics DEF Awaited, Kept, Reaped
    <3>2. PICK s \in Slot : list[s].id = c
      BY <1>1, <3>1 DEF AllInv, ListInv, KeptInv, NotListed
    <3>3. /\ ~list[s].free /\ ~list[s].alive
          /\ list[s].exit_status = exit_arg[c]
          /\ list[s].p_sema.value = IF Taken(c) THEN 0 ELSE 1
      BY <2>1, <2>3, <3>1, <3>2 DEF EntryOK
    <3> QED BY <3>2, <3>3 DEF Taken
  <2>4. ASSUME NEW s \in Slot, ~list[s].free
        PROVE  \/ Registered(list[s].id)
               \/ pc[list[s].id] \in {"fill", "sema"}
               \/ Awaited(list[s].id)
    <3>1. list[s].id \in Process /\ list[s].id # NoThread
      BY <2>1, <2>4 DEF EntryOK
    <3>2. /\ success[list[s].id]
          /\ pc[list[s].id] \notin {"unborn", "load", "insert", "scan"}
      BY <1>1, <3>1 DEF AllInv, EnterInv, ListedInv
    <3>3. pc[list[s].id] = "dead" => Awaited(list[s].id)
      BY <2>1, <2>4, <3>1 DEF EntryOK
    <3> QED BY <3>1, <3>2, <3>3, Basics, OutPlaces DEF Registered
  <2> QED BY <2>2, <2>3, <2>4 DEF EntriesKept, LiveKeepsEntry, ZombieKept, NoEntryLeaks
<1> QED BY <1>1, ListAlways, PTL

\* Whatever process_wait tells a parent about its child is the status the child
\* passed to exit, -1 if it was killed, and the child is gone and has printed
\* that same status by then.
THEOREM StatusIsDelivered == Once => (Spec => []StatusDelivered)
<1> SUFFICES ASSUME Once PROVE Spec => []StatusDelivered
  OBVIOUS
<1>1. AllInv => StatusDelivered
  BY DEF AllInv, ListInv, StatusInv, StatusOK, StatusDelivered
<1> QED BY <1>1, ListAlways, PTL

\* The pointers into the list that process_wait and process_cleanup use without
\* p_list_lock still point to the entries they were obtained for.
THEOREM PointersStayCurrent == Once => (Spec => []PointersCurrent)
<1> SUFFICES ASSUME Once PROVE Spec => []PointersCurrent
  OBVIOUS
<1>1. AllInv => PointersCurrent
  BY DEF AllInv, ListInv, WaitInv, WaitOK, PointersCurrent, Holds
<1> QED BY <1>1, ListAlways, PTL

-----------------------------------------------------------------------------
(* The process system implements ProcessLife.                              *)

\* A process that ProcessLife does not know yet, or never will.
Unmade(c) == ~success[c] \/ pc[c] \in LoadPC \cup {"unborn"}

\* The life of c, read off the threads alone: what the list shows of it.
LifeOf(c) ==
    IF Unmade(c) THEN "none"
    ELSE IF pc[c] # "dead" THEN "running"
    ELSE IF answers[c] = {} /\ (parent[c] = Main \/ pc[parent[c]] # "dead")
         THEN "zombie" ELSE "gone"

ListShowsLife == \A c \in Process : LifeState(c) = LifeOf(c)

LEMMA LifeNow == AllInv => ListShowsLife
<1> SUFFICES ASSUME AllInv, NEW c \in Process PROVE LifeState(c) = LifeOf(c)
  BY DEF ListShowsLife
<1>1. ASSUME ~Unmade(c), pc[c] = "dead", parent[c] # Main
      PROVE  (\E s \in Slot : list[s].id = c /\ ~list[s].free)
               <=> answers[c] = {} /\ pc[parent[c]] # "dead"
  <2>1. success[c] /\ c # NoThread
    BY <1>1, Basics DEF Unmade
  <2>2. Awaited(c) <=> answers[c] = {} /\ pc[parent[c]] # "dead"
    BY <1>1, <2>1 DEF Awaited, Reaped
  <2>3. ASSUME NEW s \in Slot, list[s].id = c PROVE ~list[s].free <=> Awaited(c)
    <3>1. EntryOK(s)
      BY DEF AllInv, ListInv, EntryInv
    <3> QED BY <1>1, <2>1, <2>3, <3>1 DEF EntryOK
  <2>4. Awaited(c) => \E s \in Slot : list[s].id = c
    BY <1>1, <2>1, <2>2 DEF Kept, AllInv, ListInv, KeptInv, NotListed
  <2> QED BY <2>2, <2>3, <2>4
<1> QED BY <1>1 DEF LifeState, LifeOf, Unmade

LEMMA LifeThen == AllInv' => ListShowsLife'
BY LifeNow, PTL

\* A step of t changes nothing that ProcessLife knows.
Moves(t) ==
    /\ \A u \in Thread \ {t} :
         /\ success'[u] = success[u] /\ exit_arg'[u] = exit_arg[u]
         /\ pc[u] # "unborn" => pc'[u] = pc[u] /\ parent'[u] = parent[u]
         /\ pc[u] = "unborn" => pc'[u] \in {"unborn", "load"}
    /\ answers' = answers /\ parent'[t] = parent[t]
    /\ pc[t] \notin {"unborn", "dead"}
    /\ pc'[t] = "dead" => t = Main \/ ~success[t]
    /\ Unmade(t)' <=> Unmade(t)

SameLife(c) ==
    /\ LifeOf(c)' = LifeOf(c) /\ answers'[c] = answers[c]
    /\ LifeOf(c) # "none" => parent'[c] = parent[c]
    /\ LifeOf(c) \in {"zombie", "gone"} => exit_arg'[c] = exit_arg[c]

LEMMA OthersMove ==
    ASSUME AllInv, NEW t \in Thread, NEW c \in Process, c # t,
           success'[c] = success[c], exit_arg'[c] = exit_arg[c],
           answers'[c] = answers[c],
           pc[c] # "unborn" => pc'[c] = pc[c] /\ parent'[c] = parent[c],
           pc[c] = "unborn" => pc'[c] \in {"unborn", "load"},
           pc[c] = "dead" /\ success[c] /\ parent[c] # Main =>
             (pc'[parent[c]] = "dead" <=> pc[parent[c]] = "dead")
    PROVE  SameLife(c)
<1>1. c \in Thread
  BY Basics
<1>2. CASE pc[c] = "unborn"
  <2>1. Unmade(c) /\ Unmade(c)'
    BY <1>2, OutPlaces DEF Unmade
  <2> QED BY <2>1 DEF SameLife, LifeOf
<1>3. CASE pc[c] # "unborn"
  <2>1. (Unmade(c)' <=> Unmade(c)) /\ pc'[c] = pc[c] /\ parent'[c] = parent[c]
    BY <1>3 DEF Unmade
  <2>2. Unmade(c) \/ success[c]
    BY DEF Unmade
  <2> QED BY <2>1, <2>2 DEF SameLife, LifeOf
<1> QED BY <1>2, <1>3

LEMMA MovesKeep ==
    ASSUME AllInv, NEW t \in Thread, Moves(t), NEW c \in Process
    PROVE  SameLife(c)
<1>1. c \in Thread
  BY Basics
<1>2. CASE c = t
  <2>1. pc'[c] = "dead" => Unmade(c)
    BY <1>2, Basics DEF Moves, Unmade
  <2> QED BY <1>2, <2>1 DEF Moves, SameLife, LifeOf
<1>3. CASE c # t
  <2>1. ASSUME pc[c] = "dead", success[c], parent[c] # Main
        PROVE  pc'[parent[c]] = "dead" <=> pc[parent[c]] = "dead"
    <3>1. parent[c] \in Thread /\ success[parent[c]] /\ pc[parent[c]] # "unborn"
      BY <2>1 DEF AllInv, EnterInv, BirthInv
    <3> QED BY <2>1, <3>1 DEF Moves
  <2> QED BY <1>1, <1>3, <2>1, OthersMove DEF Moves
<1> QED BY <1>2, <1>3

LEMMA LifeStutters ==
    ASSUME ListShowsLife, ListShowsLife', \A c \in Process : SameLife(c)
    PROVE  UNCHANGED Life!lifeVars
<1>1. \A c \in Process : LifeState(c)' = LifeState(c) /\ LifeState(c) = LifeOf(c)
  BY DEF ListShowsLife, SameLife
<1> QED BY <1>1 DEF Life!lifeVars, SameLife

\* Which steps these are.
LEMMA StartMoves ==
    ASSUME AllInv, NEW t \in Thread,
           \/ Load(t) \/ InsertLock(t) \/ InsertScan(t) \/ InsertFull(t)
           \/ InsertFill(t) \/ Report(t) \/ Raise(t)
    PROVE  Moves(t)
<1>t. /\ pc \in [Thread -> AllPC] /\ success \in [Thread -> BOOLEAN]
  BY Types DEF AllInv
<1>1. /\ UNCHANGED <<parent, answers, exit_arg>>
      /\ pc[t] \in {"load", "insert", "scan", "fill", "report", "raise"}
      /\ \A u \in Thread \ {t} : pc'[u] = pc[u] /\ success'[u] = success[u]
      /\ pc'[t] # "dead"
  BY <1>t DEF Load, InsertLock, InsertScan, InsertFull, InsertFill, Report, Raise,
              At, Goto, callVars, exitVars, waitVars
<1>2. Unmade(t)' <=> Unmade(t)
  <2>1. CASE Load(t)
    BY <1>t, <2>1, OutPlaces DEF Load, At, Goto, Unmade
  <2>2. CASE InsertLock(t) \/ InsertScan(t) \/ InsertFill(t)
    BY <1>t, <2>2, OutPlaces DEF InsertLock, InsertScan, InsertFill, At, Goto, callVars, Unmade
  <2>3. CASE InsertFull(t)
    BY <1>t, <2>3, OutPlaces DEF InsertFull, At, Goto, Unmade
  <2>4. CASE Report(t) \/ Raise(t)
    BY <1>t, <2>4, OutPlaces DEF Report, Raise, At, Goto, callVars, Unmade
  <2> QED BY <2>1, <2>2, <2>3, <2>4
<1> QED BY <1>1, <1>2 DEF Moves

LEMMA QuietMoves ==
    ASSUME Once, AllInv, NEW t \in Thread,
           \/ ExecuteFails(t) \/ ExecDown(t) \/ ExecReturn(t)
           \/ Wait(t) \/ WaitNotFound(t) \/ WaitFind(t) \/ WaitDown(t) \/ WaitRead(t)
           \/ Exit(t) \/ Kill(t) \/ SetStatus(t) \/ CleanupFind(t) \/ CleanupPrint(t)
    PROVE  Moves(t)
<1>t. /\ pc \in [Thread -> AllPC] /\ exit_arg \in [Thread -> Int]
  BY Types DEF AllInv
<1> DEFINE still == {"user", "exec_down", "exec_return", "find", "wait_down", "wait_read",
                     "wait_free", "panic", "set_status", "cleanup", "print", "remove"}
<1>1. /\ UNCHANGED <<parent, success>>
      /\ pc[t] \in still /\ pc'[t] \in still
      /\ \A u \in Thread \ {t} : pc'[u] = pc[u] /\ exit_arg'[u] = exit_arg[u]
  <2>1. CASE ExecuteFails(t) \/ ExecDown(t) \/ ExecReturn(t)
    BY <1>t, <2>1 DEF ExecuteFails, ExecDown, ExecReturn, At, Goto, AfterExecute, exitVars
  <2>2. CASE Wait(t) \/ WaitNotFound(t) \/ WaitFind(t) \/ WaitDown(t) \/ WaitRead(t)
    BY <1>t, <2>2 DEF Wait, WaitNotFound, WaitFind, WaitDown, WaitRead, At, Goto,
                      callVars, exitVars
  <2>3. CASE Exit(t) \/ Kill(t) \/ SetStatus(t) \/ CleanupFind(t) \/ CleanupPrint(t)
    BY <1>t, <2>3 DEF Exit, Kill, SetStatus, CleanupFind, CleanupPrint, At, Goto,
                      callVars, exitVars
  <2> QED BY <2>1, <2>2, <2>3
<1>2. answers' = answers
  <2>1. CASE WaitNotFound(t)
    <3>1. child[t] = TID_ERROR
      BY <2>1, WaitedListed, OutPlaces DEF WaitNotFound, At
    <3>2. answers' = [c \in Thread |-> answers[c]] /\ answers = [c \in Thread |-> answers[c]]
      BY <2>1, <3>1, Types, Basics DEF WaitNotFound, Answer, AllInv
    <3> QED BY <3>2
  <2> QED BY <2>1 DEF ExecuteFails, ExecDown, ExecReturn, Wait, WaitFind, WaitDown,
            WaitRead, Exit, Kill, SetStatus, CleanupFind, CleanupPrint, waitVars
<1>3. Unmade(t)' <=> Unmade(t)
  BY <1>1, OutPlaces DEF Unmade
<1> QED BY <1>1, <1>2, <1>3 DEF Moves

LEMMA ExecuteMoves ==
    ASSUME AllInv, NEW t \in Thread, Execute(t)
    PROVE  Moves(t)
<1>t. /\ pc \in [Thread -> AllPC] /\ parent \in [Thread -> Thread \cup {NoThread}]
  BY Types DEF AllInv
<1>1. /\ UNCHANGED <<answers, success, exit_arg>>
      /\ pc[t] = "user" /\ next_tid \in Process
  BY DEF Execute, At, exitVars, waitVars
<1>2. PICK c \in Process : c = next_tid
  BY <1>1
<1>3. c \in Thread /\ c # t /\ pc[c] = "unborn"
  <2>1. c >= next_tid
    BY <1>2, Basics
  <2>2. pc[c] = "unborn"
    BY <2>1 DEF AllInv, ExecInv, UnbornInv
  <2> QED BY <2>2, <1>1, Basics
<1>4. /\ pc'[t] = "exec_down" /\ pc'[c] = "load" /\ parent'[t] = parent[t]
      /\ \A u \in Thread \ {t, c} : pc'[u] = pc[u]
      /\ \A u \in Thread \ {c} : parent'[u] = parent[u]
  BY <1>2, <1>3, <1>t DEF Execute
<1>5. Unmade(t)' <=> Unmade(t)
  BY <1>1, <1>4, OutPlaces DEF Unmade
<1>6. ASSUME NEW u \in Thread \ {t}
      PROVE  /\ pc[u] # "unborn" => pc'[u] = pc[u] /\ parent'[u] = parent[u]
             /\ pc[u] = "unborn" => pc'[u] \in {"unborn", "load"}
  BY <1>3, <1>4
<1> QED BY <1>1, <1>4, <1>5, <1>6 DEF Moves

\* plist_insert completes the entry: the process is running.
LEMMA SemaStarts ==
    ASSUME AllInv, ListShowsLife, ListShowsLife', NEW t \in Thread, InsertSema(t)
    PROVE  \E p \in Process \cup {Main}, c \in Process : Life!Start(p, c)
<1>t. pc \in [Thread -> AllPC]
  BY Types DEF AllInv
<1>1. /\ UNCHANGED <<parent, answers, success, exit_arg>>
      /\ pc[t] = "sema" /\ pc'[t] = "report"
      /\ \A u \in Thread \ {t} : pc'[u] = pc[u]
  BY <1>t DEF InsertSema, At, Goto, callVars, exitVars, waitVars
<1>2. t \in Process /\ success[t]
  BY <1>1, FillingEntry
<1>3. PICK p \in Process \cup {Main} : p = parent[t]
  BY <1>1, <1>2, FillingEntry, Basics
<1>4. LifeOf(t) = "none" /\ LifeOf(t)' = "running"
  BY <1>1, <1>2, OutPlaces DEF LifeOf, Unmade
<1>5. p = Main \/ LifeOf(p) = "running"
  <2>1. pc[p] = "exec_down" /\ (p # Main => success[p])
    BY <1>1, <1>2, <1>3, OutPlaces DEF AllInv, ExecInv, StartInv, EnterInv, BirthInv
  <2> QED BY <2>1, OutPlaces DEF LifeOf, Unmade
<1>6. ASSUME NEW c \in Process \ {t} PROVE SameLife(c)
  <2>1. pc'[c] = pc[c]
    BY <1>1, Basics
  <2>2. pc[c] = "dead" /\ success[c] /\ parent[c] # Main =>
          (pc'[parent[c]] = "dead" <=> pc[parent[c]] = "dead")
    <3>1. pc[c] = "dead" => parent[c] \in Thread
      BY DEF AllInv, EnterInv, BirthInv
    <3> QED BY <1>1, <3>1
  <2> QED BY <1>1, <2>1, <2>2, OthersMove
<1>7. \A c \in Process : LifeState(c) = LifeOf(c) /\ LifeState(c)' = LifeOf(c)'
  BY DEF ListShowsLife
<1> DEFINE st == [c \in Process |-> LifeState(c)]
           pa == [c \in Process |-> IF LifeState(c) = "none" THEN Main ELSE parent[c]]
           co == [c \in Process |-> IF LifeState(c) \in {"zombie", "gone"}
                                    THEN {exit_arg[c]} ELSE {}]
           to == [c \in Process |-> answers[c]]
<1>8. st[t] = "none" /\ (p = Main \/ (p \in Process /\ st[p] = "running"))
  BY <1>2, <1>3, <1>4, <1>5, <1>7
<1>9. st' = [st EXCEPT ![t] = "running"]
  BY <1>2, <1>4, <1>6, <1>7 DEF SameLife
<1>10. pa' = [pa EXCEPT ![t] = p]
  <2>1. LifeState(t)' # "none" /\ parent'[t] = p
    BY <1>1, <1>2, <1>3, <1>4, <1>7
  <2>2. \A c \in Process \ {t} : /\ LifeState(c)' = LifeState(c)
                                /\ parent'[c] = parent[c]
    BY <1>1, <1>6, <1>7 DEF SameLife
  <2> QED BY <1>2, <2>1, <2>2
<1>11. co' = co /\ to' = to
  BY <1>1, <1>2, <1>4, <1>6, <1>7 DEF SameLife
<1>12. Life!Start(p, t)
  BY <1>8, <1>9, <1>10, <1>11 DEF Life!Start, Life!CanAsk
<1> QED BY <1>2, <1>12

\* process_wait frees the entry and returns the status: the parent is told.
LEMMA FreeTells ==
    ASSUME AllInv, ListShowsLife, ListShowsLife', NEW t \in Thread, WaitFree(t)
    PROVE  \E c \in Process : Life!Tell(c)
<1>t. pc \in [Thread -> AllPC] /\ answers \in [Thread -> SUBSET Int]
  BY Types DEF AllInv
<1>1. /\ UNCHANGED <<parent, success, exit_arg, child>>
      /\ pc[t] = "wait_free" /\ pc'[t] = "user"
      /\ \A u \in Thread \ {t} : pc'[u] = pc[u]
  BY <1>t DEF WaitFree, At, Goto, callVars, exitVars
<1>2. PICK c \in Process : c = child[t]
  BY <1>1, HeldEntry, WaitedListed, OutPlaces
<1>3. /\ c \in Thread /\ c # t /\ parent[c] = t /\ success[c] /\ answers[c] = {}
      /\ pc[c] = "dead" /\ seen[t] = exit_arg[c] /\ c \in Children(t)
      /\ t # Main => success[t] /\ t \in Process
  <2>1. c # TID_ERROR /\ c \in Thread
    BY <1>1, <1>2, HeldEntry, Basics
  <2>2. parent[c] = t /\ success[c] /\ answers[c] = {} /\ c \in Children(t)
    BY <1>1, <1>2, <2>1, WaitedListed, OutPlaces
  <2>3. pc[c] = "dead" /\ seen[t] = exit_arg[c]
    BY <1>1, <1>2 DEF AllInv, ListInv, WaitInv, WaitOK
  <2>4. t # Main => t \in Process /\ success[t]
    BY <1>1, Basics, OutPlaces DEF AllInv, EnterInv, BirthInv
  <2> QED BY <1>1, <2>1, <2>2, <2>3, <2>4
<1>4. /\ answers'[c] = {exit_arg[c]}
      /\ \A u \in Thread \ {c} : answers'[u] = answers[u]
  BY <1>2, <1>3, <1>t DEF WaitFree, Answer
<1>5. pc'[c] = "dead" /\ LifeOf(c) = "zombie" /\ LifeOf(c)' = "gone"
  <2>1. pc'[c] = "dead"
    BY <1>1, <1>3
  <2>2. ~Unmade(c) /\ ~Unmade(c)'
    BY <1>1, <1>3, <2>1, OutPlaces DEF Unmade
  <2> QED BY <1>1, <1>3, <1>4, <2>1, <2>2 DEF LifeOf
<1>6. t = Main \/ (t \in Process /\ LifeOf(t) = "running")
  BY <1>1, <1>3, OutPlaces DEF LifeOf, Unmade
<1>7. ASSUME NEW d \in Process \ {c} PROVE SameLife(d)
  <2>1. d \in Thread /\ answers'[d] = answers[d]
    BY <1>4, Basics
  <2>2. CASE d = t
    BY <1>1, <2>1, <2>2, OutPlaces DEF SameLife, LifeOf, Unmade
  <2>3. CASE d # t
    <3>1. pc[d] = "dead" => parent[d] \in Thread
      BY DEF AllInv, EnterInv, BirthInv
    <3>2. pc[d] = "dead" => (pc'[parent[d]] = "dead" <=> pc[parent[d]] = "dead")
      BY <1>1, <3>1
    <3> QED BY <1>1, <2>1, <2>3, <3>2, OthersMove
  <2> QED BY <2>2, <2>3
<1>8. \A d \in Process : LifeState(d) = LifeOf(d) /\ LifeState(d)' = LifeOf(d)'
  BY DEF ListShowsLife
<1> DEFINE st == [d \in Process |-> LifeState(d)]
           pa == [d \in Process |-> IF LifeState(d) = "none" THEN Main ELSE parent[d]]
           co == [d \in Process |-> IF LifeState(d) \in {"zombie", "gone"}
                                    THEN {exit_arg[d]} ELSE {}]
           to == [d \in Process |-> answers[d]]
<1>9. /\ st[c] = "zombie" /\ pa[c] = t /\ co[c] = {exit_arg[c]}
      /\ t = Main \/ (t \in Process /\ st[t] = "running")
  BY <1>3, <1>5, <1>6, <1>8
<1>10. st' = [st EXCEPT ![c] = "gone"]
  BY <1>5, <1>7, <1>8 DEF SameLife
<1>11. pa' = pa
  BY <1>1, <1>5, <1>7, <1>8 DEF SameLife
<1>12. co' = co
  BY <1>1, <1>5, <1>7, <1>8 DEF SameLife
<1>13. to' = [to EXCEPT ![c] = co[c]]
  BY <1>4, <1>7, <1>9 DEF SameLife
<1>14. Life!Tell(c)
  BY <1>9, <1>10, <1>11, <1>12, <1>13 DEF Life!Tell, Life!CanAsk
<1> QED BY <1>14

\* plist_remove ends the life of a process; the initial thread, and a thread
\* whose start failed, have none to end.
LEMMA RemoveMoves ==
    ASSUME AllInv, NEW t \in Thread, Remove(t), t = Main \/ ~success[t]
    PROVE  Moves(t)
<1>t. pc \in [Thread -> AllPC]
  BY Types DEF AllInv
<1>1. /\ UNCHANGED <<parent, answers, success, exit_arg>>
      /\ pc[t] = "remove" /\ pc'[t] = "dead"
      /\ \A u \in Thread \ {t} : pc'[u] = pc[u]
  BY <1>t DEF Remove, At, Goto, callVars, exitVars, waitVars
<1>2. Unmade(t)' <=> Unmade(t)
  BY <1>1, OutPlaces DEF Unmade
<1> QED BY <1>1, <1>2 DEF Moves

LEMMA RemoveExits ==
    ASSUME AllInv, ListShowsLife, ListShowsLife', NEW t \in Process, Remove(t), success[t],
           exit_arg[t] \in Status \cup {-1}
    PROVE  Life!Exit(t)
<1>t. pc \in [Thread -> AllPC] /\ t \in Thread
  BY Types, Basics DEF AllInv
<1>1. /\ UNCHANGED <<parent, answers, success, exit_arg>>
      /\ pc[t] = "remove" /\ pc'[t] = "dead"
      /\ \A u \in Thread \ {t} : pc'[u] = pc[u]
  BY <1>t DEF Remove, At, Goto, callVars, exitVars, waitVars
<1>2. PICK p \in Thread : p = parent[t]
  BY <1>1 DEF AllInv, EnterInv, BirthInv
<1>3. /\ p # t /\ pc[p] \notin StartPC \cup {"unborn"} /\ (p # Main => success[p])
      /\ answers[t] = {}
  BY <1>1, <1>2 DEF AllInv, EnterInv, BirthInv, ListInv, StatusInv, StatusOK
<1>4. LifeOf(t) = "running" /\ ~Unmade(t)'
  BY <1>1, <1>t, OutPlaces DEF LifeOf, Unmade
<1>5. (p = Main \/ (p \in Process /\ LifeOf(p) = "running")) <=> (p = Main \/ pc[p] # "dead")
  BY <1>3, Basics, OutPlaces DEF LifeOf, Unmade
<1>6. LifeOf(t)' = IF p = Main \/ pc[p] # "dead" THEN "zombie" ELSE "gone"
  <2>1. pc'[p] = pc[p] /\ parent'[t] = p /\ answers'[t] = {}
    BY <1>1, <1>2, <1>3
  <2> QED BY <1>1, <1>4, <2>1 DEF LifeOf
<1>7. ASSUME NEW d \in Process, d # t, LifeOf(d) = "none" \/ parent[d] # t \/ LifeOf(d) # "zombie"
      PROVE  SameLife(d)
  <2>1. d \in Thread /\ pc'[d] = pc[d] /\ (Unmade(d)' <=> Unmade(d))
    BY <1>1, <1>7, Basics DEF Unmade
  <2>2. CASE LifeOf(d) = "none"
    BY <1>1, <2>1, <2>2 DEF SameLife, LifeOf
  <2>3. CASE LifeOf(d) = "running"
    BY <1>1, <2>1, <2>3 DEF SameLife, LifeOf
  <2>4. CASE LifeOf(d) = "gone"
    <3>1. pc[parent[d]] = "dead" => pc'[parent[d]] = "dead"
      <4>1. pc[d] = "dead"
        BY <2>4 DEF LifeOf
      <4>2. parent[d] \in Thread
        BY <4>1 DEF AllInv, EnterInv, BirthInv
      <4> QED BY <1>1, <4>2
    <3> QED BY <1>1, <2>1, <2>4, <3>1 DEF SameLife, LifeOf
  <2>5. CASE LifeOf(d) = "zombie" /\ parent[d] # t
    <3>1. pc[d] = "dead"
      BY <2>5 DEF LifeOf
    <3>2. parent[d] \in Thread
      BY <3>1 DEF AllInv, EnterInv, BirthInv
    <3>3. pc'[parent[d]] = pc[parent[d]]
      BY <1>1, <2>5, <3>2
    <3> QED BY <1>1, <2>1, <2>5, <3>3 DEF SameLife, LifeOf
  <2>6. LifeOf(d) \in {"none", "running", "zombie", "gone"}
    BY DEF LifeOf
  <2> QED BY <1>7, <2>2, <2>3, <2>4, <2>5, <2>6
<1>8. ASSUME NEW d \in Process, d # t, LifeOf(d) = "zombie", parent[d] = t
      PROVE  LifeOf(d)' = "gone"
  <2>1. ~Unmade(d) /\ pc[d] = "dead"
    BY <1>8 DEF LifeOf
  <2>2. ~Unmade(d)' /\ pc'[d] = "dead" /\ parent'[d] = t /\ t # Main
    BY <1>1, <1>8, <2>1, Basics DEF Unmade
  <2> QED BY <1>1, <2>2 DEF LifeOf
<1>9. \A d \in Process : LifeState(d) = LifeOf(d) /\ LifeState(d)' = LifeOf(d)'
  BY DEF ListShowsLife
<1> DEFINE st == [d \in Process |-> LifeState(d)]
           pa == [d \in Process |-> IF LifeState(d) = "none" THEN Main ELSE parent[d]]
           co == [d \in Process |-> IF LifeState(d) \in {"zombie", "gone"}
                                    THEN {exit_arg[d]} ELSE {}]
           to == [d \in Process |-> answers[d]]
           asks == p = Main \/ (p \in Process /\ st[p] = "running")
<1>10. st[t] = "running" /\ pa[t] = p
  BY <1>2, <1>4, <1>9
<1>11. st' = [d \in Process |->
                IF d = t THEN IF asks THEN "zombie" ELSE "gone"
                ELSE IF pa[d] = t /\ st[d] = "zombie" THEN "gone" ELSE st[d]]
  <2>1. LifeState(t)' = IF asks THEN "zombie" ELSE "gone"
    BY <1>5, <1>6, <1>9
  <2>2. ASSUME NEW d \in Process, d # t
        PROVE  LifeState(d)' = IF pa[d] = t /\ st[d] = "zombie" THEN "gone" ELSE st[d]
    <3>1. CASE LifeOf(d) = "zombie" /\ parent[d] = t
      BY <1>8, <1>9, <2>2, <3>1
    <3>2. CASE LifeOf(d) # "zombie" \/ parent[d] # t
      BY <1>7, <1>9, <2>2, <3>2 DEF SameLife
    <3> QED BY <3>1, <3>2
  <2> HIDE DEF asks
  <2> QED BY <2>1, <2>2
<1>12. pa' = pa
  <2>1. \A d \in Process : LifeState(d)' = "none" <=> LifeState(d) = "none"
    BY <1>4, <1>6, <1>7, <1>8, <1>9 DEF SameLife
  <2> QED BY <1>1, <2>1
<1>13. co' = [co EXCEPT ![t] = {exit_arg[t]}]
  <2>1. \A d \in Process \ {t} :
          LifeState(d)' \in {"zombie", "gone"} <=> LifeState(d) \in {"zombie", "gone"}
    BY <1>7, <1>8, <1>9 DEF SameLife
  <2>2. LifeState(t)' \in {"zombie", "gone"}
    BY <1>6, <1>9
  <2> QED BY <1>1, <2>1, <2>2
<1>14. to' = to
  BY <1>1
<1> QED BY <1>10, <1>11, <1>12, <1>13, <1>14 DEF Life!Exit, Life!CanAsk

\* The statuses there are: those that programs pass to exit, and -1.
CodeInv == \A t \in Thread : exit_arg[t] \in Status \cup {-1}

LEMMA CodeNext == CodeInv /\ TypeInv /\ [Next]_vars => CodeInv'
<1> SUFFICES ASSUME CodeInv, TypeInv, [Next]_vars PROVE CodeInv'
  OBVIOUS
<1>1. ASSUME NEW t \in Thread, KernelStep(t) PROVE exit_arg' = exit_arg
  <2>1. CASE \/ Load(t) \/ InsertLock(t) \/ InsertScan(t) \/ InsertFull(t)
             \/ InsertFill(t) \/ InsertSema(t) \/ Report(t) \/ Raise(t)
             \/ ExecDown(t) \/ ExecReturn(t)
    BY <2>1 DEF Load, InsertLock, InsertScan, InsertFull, InsertFill, InsertSema,
                Report, Raise, ExecDown, ExecReturn, exitVars
  <2>2. CASE \/ WaitNotFound(t) \/ WaitFind(t) \/ WaitDown(t) \/ WaitRead(t)
             \/ WaitFree(t) \/ SetStatus(t) \/ CleanupFind(t) \/ CleanupPrint(t)
             \/ Remove(t)
    BY <2>2 DEF WaitNotFound, WaitFind, WaitDown, WaitRead, WaitFree, SetStatus,
                CleanupFind, CleanupPrint, Remove, exitVars
  <2> QED BY <1>1, <2>1, <2>2 DEF KernelStep
<1>2. ASSUME NEW t \in Thread, ProgramStep(t)
      PROVE  exit_arg' = exit_arg \/ \E v \in Status : exit_arg' = [exit_arg EXCEPT ![t] = v]
  BY <1>2 DEF ProgramStep, Execute, ExecuteFails, Wait, Exit, Kill, exitVars
<1>3. CASE UNCHANGED vars
  BY <1>3 DEF vars, exitVars, CodeInv
<1>4. exit_arg' = exit_arg => CodeInv'
  BY DEF CodeInv
<1>5. ASSUME NEW t \in Thread, NEW v \in Status, exit_arg' = [exit_arg EXCEPT ![t] = v]
      PROVE  CodeInv'
  <2>1. exit_arg \in [Thread -> Int]
    BY Types
  <2>2. \A u \in Thread : exit_arg'[u] = exit_arg[u] \/ exit_arg'[u] = v
    BY <1>5, <2>1
  <2> QED BY <2>2 DEF CodeInv
<1> QED BY <1>1, <1>2, <1>3, <1>4, <1>5 DEF Next, Halted

LEMMA LifeStep ==
    Once /\ AllInv /\ CodeInv /\ ListShowsLife /\ ListShowsLife' /\ [Next]_vars
      => [Life!LifeNext]_(Life!lifeVars)
<1> SUFFICES ASSUME Once, AllInv, CodeInv, ListShowsLife, ListShowsLife', [Next]_vars
             PROVE  Life!LifeNext \/ UNCHANGED Life!lifeVars
  OBVIOUS
<1>1. ASSUME NEW t \in Thread, Moves(t) PROVE UNCHANGED Life!lifeVars
  BY <1>1, MovesKeep, LifeStutters
<1>2. ASSUME NEW t \in Thread, KernelStep(t) PROVE Life!LifeNext \/ UNCHANGED Life!lifeVars
  <2>1. CASE \/ Load(t) \/ InsertLock(t) \/ InsertScan(t) \/ InsertFull(t)
             \/ InsertFill(t) \/ Report(t) \/ Raise(t)
    BY <1>1, <2>1, StartMoves
  <2>2. CASE \/ ExecDown(t) \/ ExecReturn(t)
             \/ WaitNotFound(t) \/ WaitFind(t) \/ WaitDown(t) \/ WaitRead(t)
             \/ SetStatus(t) \/ CleanupFind(t) \/ CleanupPrint(t)
    BY <1>1, <2>2, QuietMoves
  <2>3. CASE InsertSema(t)
    BY <2>3, SemaStarts DEF Life!LifeNext
  <2>4. CASE WaitFree(t)
    BY <2>4, FreeTells DEF Life!LifeNext
  <2>5. CASE Remove(t) /\ (t = Main \/ ~success[t])
    BY <1>1, <2>5, RemoveMoves
  <2>6. CASE Remove(t) /\ t # Main /\ success[t]
    <3>1. t \in Process /\ exit_arg[t] \in Status \cup {-1}
      BY <2>6, Basics DEF CodeInv
    <3>2. Life!Exit(t)
      BY <2>6, <3>1, RemoveExits
    <3> QED BY <3>1, <3>2 DEF Life!LifeNext
  <2> QED BY <1>2, <2>1, <2>2, <2>3, <2>4, <2>5, <2>6 DEF KernelStep
<1>3. ASSUME NEW t \in Thread, ProgramStep(t) PROVE UNCHANGED Life!lifeVars
  BY <1>1, <1>3, ExecuteMoves, QuietMoves DEF ProgramStep
<1>4. ASSUME UNCHANGED vars PROVE UNCHANGED Life!lifeVars
  <2>1. UNCHANGED <<list, pc, success, parent, answers, exit_arg>>
    BY <1>4 DEF vars, plistVars, callVars, exitVars, waitVars
  <2>2. \A c \in Process : LifeState(c)' = LifeState(c)
    BY <2>1 DEF LifeState
  <2> QED BY <2>1, <2>2 DEF Life!lifeVars
<1> QED BY <1>2, <1>3, <1>4 DEF Next, Halted

\* The process system with its list, locks, semaphores and threads implements
\* ProcessLife: what programs can learn of each other's lives, they could learn
\* from a system where starting, exiting and being told a status are single steps.
THEOREM ImplementsProcessLife == Once => (Spec => ImplementsLife)
<1> SUFFICES ASSUME Once PROVE Spec => ImplementsLife
  OBVIOUS
<1>1. Init => CodeInv
  BY DEF Init, CodeInv
<1>2. Init => Life!LifeInit
  <2> SUFFICES ASSUME Init PROVE Life!LifeInit
    OBVIOUS
  <2>1. \A c \in Process : ~success[c] /\ answers[c] = {}
    BY Basics DEF Init
  <2>2. \A c \in Process : LifeState(c) = "none"
    BY <2>1 DEF LifeState
  <2> QED BY <2>1, <2>2 DEF Life!LifeInit
<1>3. [Next]_vars /\ AllInv /\ AllInv' /\ CodeInv => [Life!LifeNext]_(Life!lifeVars)
  BY LifeStep, LifeNow, LifeThen
<1>4. AllInv => TypeInv
  BY DEF AllInv
<1> QED BY <1>1, <1>2, <1>3, <1>4, CodeNext, ListAlways, PTL
        DEF Spec, ImplementsLife, Life!LifeSpec

-----------------------------------------------------------------------------
\* process_wait never queues on a semaphore that was not initialised, where the
\* assertions of list_push_back would stop the kernel: the entry that plist_insert is
\* still filling in is not one a program may wait for yet.
THEOREM ProcessesNeverPanic == Once => (Spec => []~Panicked)
<1> SUFFICES ASSUME Once PROVE Spec => []~Panicked
  OBVIOUS
<1>1. Init => ~Panicked
  BY Basics DEF Init, Panicked
<1>2. AllInv /\ ~Panicked /\ [Next]_vars => ~Panicked'
  <2> SUFFICES ASSUME AllInv, ~Panicked, [Next]_vars PROVE ~Panicked'
    OBVIOUS
  <2>1. ASSUME NEW t \in Thread, NEW there, pc' = [pc EXCEPT ![t] = there], there # "panic"
        PROVE  ~Panicked'
    <3>1. pc \in [Thread -> AllPC]
      BY Types DEF AllInv
    <3>2. \A u \in Thread : pc'[u] = pc[u] \/ pc'[u] = there
      BY <2>1, <3>1
    <3> QED BY <2>1, <3>2 DEF Panicked
  <2>2. pc' = pc => ~Panicked'
    BY DEF Panicked
  <2>3. ASSUME NEW t \in Thread, KernelStep(t) PROVE ~Panicked'
    <3>1. CASE Load(t) \/ InsertLock(t) \/ InsertScan(t) \/ InsertFull(t)
               \/ InsertFill(t) \/ InsertSema(t) \/ Report(t) \/ Raise(t)
      BY <2>1, <2>2, <3>1 DEF Load, InsertLock, InsertScan, InsertFull, InsertFill,
           InsertSema, Report, Raise, Goto
    <3>2. CASE ExecDown(t) \/ ExecReturn(t) \/ WaitNotFound(t) \/ WaitFind(t)
               \/ WaitRead(t) \/ WaitFree(t) \/ SetStatus(t) \/ CleanupFind(t)
               \/ CleanupPrint(t) \/ Remove(t)
      BY <2>1, <2>2, <3>2 DEF ExecDown, ExecReturn, AfterExecute, WaitNotFound, WaitFind,
           WaitRead, WaitFree, SetStatus, CleanupFind, CleanupPrint, Remove, Goto
    <3>3. CASE WaitDown(t)
      <4>1. pc[t] = "wait_down"
        BY <3>3 DEF WaitDown, At
      <4>2. /\ EntryOK(position[t]) /\ list[position[t]].id = child[t]
            /\ child[t] # NoThread /\ child[t] # TID_ERROR
        BY <4>1, HeldEntry
      <4>3. pc[child[t]] \notin {"fill", "sema"}
        BY <4>1, <4>2, WaitedListed, OutPlaces
      <4>4. list[position[t]].ready
        BY <4>2, <4>3 DEF EntryOK
      <4> QED BY <2>1, <2>2, <3>3, <4>4 DEF WaitDown, Goto
    <3> QED BY <2>3, <3>1, <3>2, <3>3 DEF KernelStep
  <2>4. ASSUME NEW t \in Thread, Execute(t) PROVE ~Panicked'
    <3>1. /\ pc \in [Thread -> AllPC]
          /\ pc' = [pc EXCEPT ![t] = "exec_down", ![next_tid] = "load"]
      BY <2>4, Types DEF AllInv, Execute
    <3>2. \A u \in Thread : pc'[u] \in {pc[u], "exec_down", "load"}
      BY <3>1
    <3> QED BY <3>2 DEF Panicked
  <2>5. ASSUME NEW t \in Thread, ProgramStep(t) PROVE ~Panicked'
    BY <2>1, <2>4, <2>5 DEF ProgramStep, ExecuteFails, AfterExecute, Wait, Exit, Kill, Goto
  <2>6. CASE UNCHANGED vars
    BY <2>2, <2>6 DEF vars
  <2> QED BY <2>3, <2>5, <2>6 DEF Next, Halted
<1> QED BY <1>1, <1>2, ListAlways, PTL DEF Spec
=============================================================================
