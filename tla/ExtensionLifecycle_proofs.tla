---------------------- MODULE ExtensionLifecycle_proofs ----------------------
(* Theorems of ExtensionLifecycle, for any number of versions, archives,    *)
(* processes, commands and mishaps.                                         *)
EXTENDS ExtensionLifecycle, TLAPS

LEMMA TypeInit == Init => TypeOK
  BY LifecycleAssumption DEF Init, TypeOK, Nothing, Trees

(* Every command but a removal has a receipt to write, and a removal never *)
(* comes to a step that writes one.                                        *)
RemoveSteps == {"quarantine", "unreceipt", "unseal", "discard", "restore"}

DueInv ==
    \A p \in Procs :
        task[p] # None =>
            IF task[p].op = "remove" THEN task[p].at \in RemoveSteps ELSE task[p].due \in Receipt

(* A command begins with a well-formed task.                               *)
LEMMA TypeBegin ==
  ASSUME TypeOK, NEW p \in Procs, NEW op \in Ops, NEW v \in Versions,
         NEW b \in Builds \cup {None}, NEW at \in Steps, NEW due \in Receipt \cup {None},
         Begin(p, op, v, b, at, due)
  PROVE  TypeOK'
<1> USE LifecycleAssumption
<1>1. <<tree[v], Core(receipt[v])>> \in Trees \X Cores
  BY DEF TypeOK, Core, Cores, Receipt
<1>2. NewTask(op, v, b, at, due) \in Task
  BY <1>1 DEF NewTask, Task, Trees
<1>3. task' \in [Procs -> Task \cup {None}]
  BY <1>2 DEF TypeOK, Begin
<1>4. cache' \in [Procs -> [Versions -> Receipt \cup {None}]]
  BY DEF TypeOK, Begin, Uncached, Nothing
<1>5. commands' \in 0 .. Commands
  BY DEF TypeOK, Begin
<1> QED
  BY <1>3, <1>4, <1>5 DEF TypeOK, Begin, Sweeps

(* The helpers that move a task on, end it, or age a seal, keep the types.  *)
LEMMA GotoTyped ==
  ASSUME TypeOK, NEW p \in Procs, task[p] # None, NEW s \in Steps, Goto(p, s)
  PROVE  task' \in [Procs -> Task \cup {None}] /\ lock' = lock
<1>1. task[p] \in Task
  BY DEF TypeOK
<1>2. [task[p] EXCEPT !.at = s] \in Task
  BY <1>1 DEF Task
<1>3. task' = [task EXCEPT ![p] = [task[p] EXCEPT !.at = s]]
  BY <1>1 DEF Goto, TypeOK
<1> QED
  BY <1>2, <1>3 DEF Goto, TypeOK

LEMMA FinishTyped ==
  ASSUME TypeOK, NEW p \in Procs, Finish(p)
  PROVE  task' \in [Procs -> Task \cup {None}] /\ lock' = None
  BY DEF Finish, TypeOK

(* What they leave of the tasks.                                           *)
LEMMA GotoKeeps ==
  ASSUME TypeOK, NEW p \in Procs, task[p] # None, NEW s \in Steps, Goto(p, s)
  PROVE  /\ \A q \in Procs \ {p} : task'[q] = task[q]
         /\ task'[p] \in Task
         /\ task'[p].at = s
         /\ task'[p].op = task[p].op
         /\ task'[p].v = task[p].v
         /\ task'[p].b = task[p].b
         /\ task'[p].due = task[p].due
         /\ task'[p].kept = task[p].kept
         /\ task'[p].was = task[p].was
<1>1. task[p] \in Task
  BY DEF TypeOK
<1>2. task' = [task EXCEPT ![p] = [task[p] EXCEPT !.at = s]]
  BY <1>1 DEF Goto, TypeOK
<1>3. [task[p] EXCEPT !.at = s] \in Task
  BY <1>1 DEF Task
<1>4. task'[p] = [task[p] EXCEPT !.at = s] /\ \A q \in Procs \ {p} : task'[q] = task[q]
  BY <1>2 DEF TypeOK
<1> QED
  BY <1>1, <1>3, <1>4 DEF Task

LEMMA FinishKeeps ==
  ASSUME TypeOK, NEW p \in Procs, Finish(p)
  PROVE  task'[p] = None /\ \A q \in Procs \ {p} : task'[q] = task[q]
  BY DEF Finish, TypeOK

LEMMA UndoTyped ==
  ASSUME TypeOK, NEW p \in Procs, task[p] # None, Undo(p)
  PROVE  task' \in [Procs -> Task \cup {None}] /\ lock' \in {lock, None}
  BY GotoTyped, FinishTyped DEF Undo, Steps

LEMMA MishapTyped == TypeOK /\ Mishap => mishaps' \in 0 .. Mishaps
  BY LifecycleAssumption DEF TypeOK, Mishap

LEMMA AgedTyped ==
  /\ \A s \in Seal \cup {None} : Aged(s) \in Seal \cup {None}
  /\ \A r \in Receipt \cup {None} : AgedReceipt(r) \in Receipt \cup {None}
<1>1. \A s \in Seal : [s EXCEPT !.fits = FALSE] \in Seal
  BY DEF Seal
<1>2. \A s \in Seal \cup {None} : Aged(s) \in Seal \cup {None}
  BY <1>1 DEF Aged
<1>3. \A r \in Receipt : r.sealed \in Seal \cup {None}
  BY DEF Receipt
<1>4. \A r \in Receipt, s \in Seal \cup {None} : [r EXCEPT !.sealed = s] \in Receipt
  BY DEF Receipt
<1>5. \A r \in Receipt : [r EXCEPT !.sealed = Aged(r.sealed)] \in Receipt
  BY <1>2, <1>3, <1>4
<1> QED
  BY <1>2, <1>5 DEF AgedReceipt

LEMMA TouchTyped ==
  ASSUME TypeOK, NEW v \in Versions, TouchSeals(v)
  PROVE  /\ seal' \in [Versions -> Seal \cup {None}]
         /\ receipt' \in [Versions -> Receipt \cup {None}]
  BY AgedTyped DEF TouchSeals, TypeOK

(* A receipt whose enabled bit is set is a receipt.                        *)
LEMMA EnablingTyped ==
  ASSUME TypeOK, NEW v \in Versions, receipt[v] # None
  PROVE  [receipt[v] EXCEPT !.enabled = TRUE] \in Receipt
<1>1. receipt[v] \in Receipt
  BY DEF TypeOK
<1> QED
  BY <1>1 DEF Receipt

LEMMA TypeStep == TypeOK /\ DueInv /\ [Next]_vars => TypeOK'
<1> SUFFICES ASSUME TypeOK, DueInv, [Next]_vars PROVE TypeOK'
  OBVIOUS
<1> USE LifecycleAssumption
<1>1. ASSUME NEW p \in Procs, NEW v \in Versions, NEW b \in Builds, BeginInstall(p, v, b)
      PROVE  TypeOK'
  BY <1>1, TypeBegin DEF BeginInstall, Disabled, Receipt, Ops, Steps
<1>2. ASSUME NEW p \in Procs, NEW v \in Versions, NEW b \in Builds, BeginRepair(p, v, b)
      PROVE  TypeOK'
  BY <1>2, TypeBegin DEF BeginRepair, Disabled, Receipt, Ops, Steps
<1>3. ASSUME NEW p \in Procs, NEW v \in Versions, BeginRemove(p, v)
      PROVE  TypeOK'
  BY <1>3, TypeBegin DEF BeginRemove, Ops, Steps
<1>4. ASSUME NEW p \in Procs, NEW v \in Versions, BeginEnable(p, v)
      PROVE  TypeOK'
  BY <1>4, TypeBegin, EnablingTyped DEF BeginEnable, CanEnable, Valid, Ops, Steps
<1>5. ASSUME NEW p \in Procs, NEW v \in Versions, BeginEnableOnly(p, v)
      PROVE  TypeOK'
  BY <1>5, TypeBegin, EnablingTyped DEF BeginEnableOnly, CanEnableOnly, Valid, Ops, Steps
<1>6. ASSUME NEW p \in Procs, NEW v \in Versions, BeginDisable(p, v)
      PROVE  TypeOK'
  BY <1>6, TypeBegin DEF BeginDisable, CanDisable, Disabled, TypeOK, Receipt, Ops, Steps
<1>7. ASSUME NEW p \in Procs, NEW v \in Versions, BeginVerify(p, v)
      PROVE  TypeOK'
  BY <1>7, TypeBegin DEF BeginVerify, CanVerify, Valid, TypeOK, Ops, Steps
<1>8. ASSUME NEW p \in Procs, NEW v \in Versions, BeginResolve(p, v)
      PROVE  TypeOK'
  <2>1. receipt[v] \in Receipt \cup {None}
    BY DEF TypeOK
  <2> QED
    BY <1>8, <2>1, TypeBegin DEF BeginResolve, Ops, Steps
<1>9. ASSUME NEW p \in Procs, NEW v \in Versions, ResolveSealed(p, v)
      PROVE  TypeOK'
  BY <1>9 DEF ResolveSealed, TypeOK
<1>10. ASSUME NEW p \in Procs, NEW v \in Versions, ResolveCached(p, v)
      PROVE  TypeOK'
  <2>1. /\ cache' \in [Procs -> [Versions -> Receipt \cup {None}]]
        /\ session' \in [Procs -> [Versions -> Receipt \cup {None}]]
    <3>1. CASE Revalidates(p, v)
      <4>1. [session[p] EXCEPT ![v] = cache[p][v]] \in [Versions -> Receipt \cup {None}]
        BY DEF TypeOK
      <4>2. session' = [session EXCEPT ![p] = [session[p] EXCEPT ![v] = cache[p][v]]] /\ cache' = cache
        BY <1>10, <3>1 DEF ResolveCached
      <4> QED
        BY <4>1, <4>2 DEF TypeOK
    <3>2. CASE ~Revalidates(p, v)
      <4>1. [cache[p] EXCEPT ![v] = None] \in [Versions -> Receipt \cup {None}]
        BY DEF TypeOK
      <4>2. cache' = [cache EXCEPT ![p] = [cache[p] EXCEPT ![v] = None]] /\ session' = session
        BY <1>10, <3>2 DEF ResolveCached
      <4> QED
        BY <4>1, <4>2 DEF TypeOK
    <3> QED
      BY <3>1, <3>2
  <2> QED
    BY <1>10, <2>1 DEF ResolveCached, TypeOK
<1>11. ASSUME NEW p \in Procs, NEW v \in Versions, NEW op \in Ops, NEW b \in Builds, Refuse(p, op, v, b)
      PROVE  TypeOK'
  BY <1>11 DEF Refuse, Sweeps, Uncached, Nothing, TypeOK
<1>12. ASSUME NEW p \in Procs, NEW v \in Versions, NEW op \in Ops, MeetBusy(p, op, v)
      PROVE  TypeOK'
  BY <1>12 DEF MeetBusy, Uncached, Nothing, TypeOK
<1>13. ASSUME NEW p \in Procs, NEW v \in Versions, DropSession(p, v)
      PROVE  TypeOK'
  BY <1>13 DEF DropSession, TypeOK
<1>14. ASSUME NEW p \in Procs, NEW v \in Versions, DropCached(p, v)
      PROVE  TypeOK'
  BY <1>14 DEF DropCached, TypeOK
<1>15. ASSUME NEW p \in Procs, Stage(p)
      PROVE  TypeOK'
  <2>1. litter' \subseteq {"staging", "trash"}
    BY <1>15 DEF Stage, TypeOK
  <2>3. mishaps' \in 0 .. Mishaps
    <3>1. mishaps' = mishaps \/ Mishap
      BY <1>15 DEF Stage
    <3> QED
      BY <3>1, MishapTyped DEF TypeOK
  <2>2. task' \in [Procs -> Task \cup {None}] /\ lock' \in {lock, None}
    BY <1>15, GotoTyped, UndoTyped DEF Stage, At, Steps
  <2> QED
    BY <1>15, <2>1, <2>2, <2>3 DEF Stage, TypeOK
<1>16. ASSUME NEW p \in Procs, Publish(p)
      PROVE  TypeOK'
  <2>1. task[p] \in Task
    BY <1>16 DEF Publish, At, TypeOK
  <2>2. task[p].b \in Trees /\ task[p].v \in Versions
    BY <2>1 DEF Task, Trees
  <2> QED
    BY <1>16, <2>2, GotoTyped, FinishTyped, UndoTyped DEF Publish, At, Mishap, Steps, TypeOK
<1>17. ASSUME NEW p \in Procs, Link(p)
      PROVE  TypeOK'
  <2>1. task[p] \in Task
    BY <1>17 DEF Link, At, TypeOK
  <2>2. task[p].due \in Receipt \cup {None}
    BY <2>1 DEF Task
  <2>3. task' \in [Procs -> Task \cup {None}] /\ lock' = lock
    BY <1>17, GotoTyped DEF Link, At, Steps
  <2>4. mishaps' \in 0 .. Mishaps
    BY <1>17 DEF Link, Mishap, TypeOK
  <2>5. receipt' \in [Versions -> Receipt \cup {None}]
    <3>1. receipt' \in {receipt, [receipt EXCEPT ![task[p].v] = task[p].due]}
      BY <1>17 DEF Link
    <3> QED
      BY <2>2, <3>1 DEF TypeOK
  <2> QED
    BY <1>17, <2>3, <2>4, <2>5 DEF Link, TypeOK
<1>18. ASSUME NEW p \in Procs, WriteSeal(p)
      PROVE  TypeOK'
  <2>1. task[p] \in Task /\ task[p].op # "remove"
    BY <1>18 DEF WriteSeal, At, TypeOK, DueInv, RemoveSteps
  <2>2. task[p].due \in Receipt /\ task[p].v \in Versions
    BY <1>18, <2>1 DEF WriteSeal, At, DueInv, Task
  <2> DEFINE new == [of |-> task[p].due.of, enabled |-> task[p].due.enabled, fits |-> TRUE]
  <2>3. new \in Seal
    BY <2>2 DEF Receipt, Seal
  <2>4. PICK s \in {new, None} :
           /\ seal' = [seal EXCEPT ![task[p].v] = s]
           /\ task' = [task EXCEPT ![p].at = "commit", ![p].due.sealed = s]
    BY <1>18 DEF WriteSeal
  <2>5. [task[p].due EXCEPT !.sealed = s] \in Receipt
    BY <2>2, <2>3 DEF Receipt
  <2> DEFINE t == [task[p] EXCEPT !.at = "commit", !.due = [task[p].due EXCEPT !.sealed = s]]
  <2>6. t \in Task
    BY <2>1, <2>5 DEF Task, Steps
  <2>7. task' = [task EXCEPT ![p] = t]
    BY <2>1, <2>4 DEF TypeOK, Task
  <2>8. seal' \in [Versions -> Seal \cup {None}]
    BY <2>2, <2>3, <2>4 DEF TypeOK
  <2> QED
    BY <1>18, <2>6, <2>7, <2>8 DEF WriteSeal, TypeOK
<1>19. ASSUME NEW p \in Procs, Commit(p)
      PROVE  TypeOK'
  <2>1. task[p] \in Task
    BY <1>19 DEF Commit, At, TypeOK
  <2>2. task[p].due \in Receipt \cup {None} /\ task[p].v \in Versions
    BY <2>1 DEF Task
  <2> QED
    BY <1>19, <2>2, GotoTyped, FinishTyped DEF Commit, At, Lease, Steps, TypeOK
<1>20. ASSUME NEW p \in Procs, CommitFails(p)
      PROVE  TypeOK'
  <2>1. task[p] \in Task
    BY <1>20 DEF CommitFails, At, TypeOK
  <2>2. task[p].v \in Versions
    BY <2>1 DEF Task
  <2>3. task' \in [Procs -> Task \cup {None}] /\ lock' \in {lock, None}
    BY <1>20, GotoTyped, FinishTyped DEF CommitFails, At, Steps
  <2>4. /\ cache' \in [Procs -> [Versions -> Receipt \cup {None}]]
        /\ session' \in [Procs -> [Versions -> Receipt \cup {None}]]
    <3>1. CASE task[p].op = "resolve"
      <4> DEFINE r == receipt[task[p].v]
                 c == [cache[p] EXCEPT ![task[p].v] = r]
                 h == [session[p] EXCEPT ![task[p].v] = r]
      <4>1. c \in [Versions -> Receipt \cup {None}] /\ h \in [Versions -> Receipt \cup {None}]
        BY <2>2 DEF TypeOK
      <4>2. cache' = [cache EXCEPT ![p] = c] /\ session' = [session EXCEPT ![p] = h]
        BY <1>20, <3>1 DEF CommitFails, Lease
      <4> QED
        BY <4>1, <4>2 DEF TypeOK
    <3>2. CASE task[p].op # "resolve"
      BY <1>20, <3>2 DEF CommitFails, TypeOK
    <3> QED
      BY <3>1, <3>2
  <2> QED
    BY <1>20, <2>3, <2>4 DEF CommitFails, Mishap, TypeOK
<1>21. ASSUME NEW p \in Procs, Unseal(p)
      PROVE  TypeOK'
  BY <1>21, GotoTyped, FinishTyped DEF Unseal, At, Steps, TypeOK
<1>22. ASSUME NEW p \in Procs, Rollback(p)
      PROVE  TypeOK'
  BY <1>22, GotoTyped DEF Rollback, At, Steps, Trees, TypeOK
<1>23. ASSUME NEW p \in Procs, RollbackFails(p)
      PROVE  TypeOK'
  BY <1>23, FinishTyped DEF RollbackFails, Mishap, TypeOK
<1>24. ASSUME NEW p \in Procs, SweepRollback(p)
      PROVE  TypeOK'
  BY <1>24, UndoTyped DEF SweepRollback, At, TypeOK
<1>25. ASSUME NEW p \in Procs, Restore(p)
      PROVE  TypeOK'
  <2>1. task[p] \in Task
    BY <1>25 DEF Restore, At, TypeOK
  <2>2. task[p].kept \in Trees
    BY <2>1 DEF Task
  <2> QED
    BY <1>25, <2>2, FinishTyped DEF Restore, TypeOK
<1>26. ASSUME NEW p \in Procs, RestoreFails(p)
      PROVE  TypeOK'
  BY <1>26, FinishTyped DEF RestoreFails, Mishap, TypeOK
<1>27. ASSUME NEW p \in Procs, Quarantine(p)
      PROVE  TypeOK'
  <2>1. task[p] \in Task
    BY <1>27 DEF Quarantine, At, TypeOK
  <2>2. task[p].v \in Versions /\ tree[task[p].v] \in Trees
    BY <2>1 DEF Task, TypeOK
  <2>3. CASE Mishap
    BY <1>27, <2>3, FinishTyped DEF Quarantine, Mishap, TypeOK
  <2>4. CASE ~Mishap
    <3> DEFINE at == IF task[p].op = "remove" THEN "unreceipt" ELSE "stage"
               t == [task[p] EXCEPT !.kept = tree[task[p].v], !.at = at]
    <3>1. t \in Task
      BY <2>1, <2>2 DEF Task, Steps
    <3>2. task' = [task EXCEPT ![p] = t]
      BY <1>27, <2>1, <2>4 DEF Quarantine, TypeOK, Task
    <3>3. /\ seal' \in [Versions -> Seal \cup {None}]
          /\ receipt' \in [Versions -> Receipt \cup {None}]
      BY <1>27, <2>2, <2>4, TouchTyped DEF Quarantine
    <3>4. tree' \in [Versions -> Trees] /\ litter' \subseteq {"staging", "trash"}
      BY <1>27, <2>2, <2>4 DEF Quarantine, TypeOK, Trees
    <3> QED
      BY <1>27, <2>4, <3>1, <3>2, <3>3, <3>4 DEF Quarantine, TypeOK
  <2> QED
    BY <2>3, <2>4
<1>28. ASSUME NEW p \in Procs, Unreceipt(p)
      PROVE  TypeOK'
  <2>1. task' \in [Procs -> Task \cup {None}] /\ lock' \in Procs \cup {None}
    BY <1>28, GotoTyped, FinishTyped DEF Unreceipt, At, Steps, TypeOK
  <2>2. receipt' \in [Versions -> Receipt \cup {None}]
    BY <1>28 DEF Unreceipt, TypeOK
  <2> QED
    BY <1>28, <2>1, <2>2 DEF Unreceipt, Mishap, TypeOK
<1>29. ASSUME NEW p \in Procs, Discard(p)
      PROVE  TypeOK'
  <2>1. litter' \subseteq {"staging", "trash"}
    BY <1>29 DEF Discard, TypeOK
  <2>2. mishaps' \in 0 .. Mishaps
    <3>1. mishaps' = mishaps \/ Mishap
      BY <1>29 DEF Discard
    <3> QED
      BY <3>1, MishapTyped DEF TypeOK
  <2> QED
    BY <1>29, <2>1, <2>2, FinishTyped DEF Discard, TypeOK
<1>30. ASSUME NEW p \in Procs, Crash(p)
      PROVE  TypeOK'
  <2>1. task[p] \in Task
    BY <1>30 DEF Crash, TypeOK
  <2>2. task[p].v \in Versions
    BY <2>1 DEF Task
  <2> QED
    BY <1>30, <2>2 DEF Crash, Mishap, Nothing, TypeOK
<1>31. ASSUME NEW v \in Versions, Damage(v)
      PROVE  TypeOK'
  BY <1>31, TouchTyped DEF Damage, Mishap, Trees, TypeOK
<1>32. CASE UNCHANGED vars
  BY <1>32 DEF vars, TypeOK
<1> QED
  BY <1>1, <1>2, <1>3, <1>4, <1>5, <1>6, <1>7, <1>8, <1>9, <1>10, <1>11, <1>12, <1>13, <1>14, <1>15, <1>16, <1>17, <1>18, <1>19, <1>20, <1>21, <1>22, <1>23, <1>24, <1>25, <1>26, <1>27, <1>28, <1>29, <1>30, <1>31, <1>32 DEF Next

(* The commands that move files of a version, and those that only judge    *)
(* them and write receipt and seal.                                        *)
MoveOps == {"install", "repair", "remove"}
ReadOps == {"enable", "enable_only", "verify", "resolve"}

LockInv == \A p \in Procs : task[p] # None => lock = p

(* Which steps belong to which commands.                                   *)
StepsInv ==
    \A p \in Procs :
        task[p] # None =>
            /\ task[p].op \in ReadOps => task[p].at \in {"seal", "commit"}
            /\ task[p].op = "disable" => task[p].at \in {"commit", "unseal", "discard"}
            /\ task[p].at = "seal" => task[p].op \in ReadOps

(* The version an enabling receipt is written for has no enabled rival.    *)
AloneInv ==
    ~reserved =>
        \A p \in Procs :
            task[p] # None =>
                /\ task[p].op # "enable_only"
                /\ task[p].due # None /\ task[p].due.enabled =>
                       \A w \in Versions \ {task[p].v} : ~Enabled(w)

(* A version that is moved has no lease, one that is judged keeps what the *)
(* judgement was about.                                                    *)
TaskInv ==
    \A p \in Procs :
        task[p] # None =>
            /\ task[p].op \in MoveOps =>
                   \A q \in Procs : cache[q][task[p].v] = None /\ session[q][task[p].v] = None
            /\ task[p].op \in ReadOps =>
                   /\ tree[task[p].v] = task[p].due.of
                   /\ receipt[task[p].v] # None
                   /\ receipt[task[p].v].of = task[p].due.of
            /\ task[p].op = "resolve" => receipt[task[p].v].enabled /\ task[p].due.enabled

Fits(v) == seal[v] # None /\ seal[v].fits

(* A fitting seal names the bytes that are there; there is none for a tree *)
(* that came in under the task, and no tree at all between two moves.      *)
SealInv ==
    /\ \A v \in Versions : Fits(v) => tree[v] = seal[v].of
    /\ \A p \in Procs :
          task[p] # None =>
              /\ task[p].at \in {"stage", "publish", "sweep", "restore", "unreceipt"} =>
                     tree[task[p].v] = None
              /\ task[p].at \in {"link", "rollback"} => ~Fits(task[p].v)
              /\ task[p].at = "commit" /\ task[p].op = "repair" /\ task[p].was[1] # task[p].b =>
                     ~Fits(task[p].v)

-----------------------------------------------------------------------------
(* Under the lock there is one task.  A step of it ends it or moves it to  *)
(* another step with the same command, version and receipt to write.       *)

Ends(p) == lock' = None /\ \A q \in Procs : task'[q] = None

Moves(p, s) ==
    /\ lock' = lock
    /\ \A q \in Procs \ {p} : task'[q] = None
    /\ task'[p] \in Task
    /\ task'[p] # None
    /\ task'[p].at = s
    /\ task'[p].op = task[p].op
    /\ task'[p].v = task[p].v
    /\ task'[p].b = task[p].b
    /\ task'[p].was = task[p].was
    /\ task'[p].due = None <=> task[p].due = None
    /\ task[p].due # None =>
           /\ task'[p].due.of = task[p].due.of
           /\ task'[p].due.enabled = task[p].due.enabled

LEMMA GotoMoves ==
  ASSUME TypeOK, LockInv, NEW p \in Procs, task[p] # None, NEW s \in Steps, Goto(p, s)
  PROVE  Moves(p, s)
  BY GotoKeeps, NoneAssumption DEF Goto, Moves, LockInv

LEMMA FinishEnds ==
  ASSUME TypeOK, LockInv, NEW p \in Procs, task[p] # None, Finish(p)
  PROVE  Ends(p)
  BY FinishKeeps DEF Finish, Ends, LockInv

LEMMA UndoMoves ==
  ASSUME TypeOK, LockInv, NEW p \in Procs, task[p] # None, Undo(p)
  PROVE  Ends(p) \/ Moves(p, "restore")
  BY GotoMoves, FinishEnds DEF Undo, Steps

LEMMA CrashEnds ==
  ASSUME TypeOK, LockInv, NEW p \in Procs, Crash(p)
  PROVE  Ends(p)
  BY DEF Crash, Ends, LockInv, TypeOK

LEMMA WriteSealMoves ==
  ASSUME TypeOK, LockInv, DueInv, NEW p \in Procs, WriteSeal(p)
  PROVE  Moves(p, "commit")
<1>1. task[p] \in Task /\ task[p].op # "remove" /\ task[p] # None
  BY DEF WriteSeal, At, TypeOK, DueInv, RemoveSteps
<1>2. task[p].due \in Receipt
  BY <1>1 DEF DueInv
<1> DEFINE new == [of |-> task[p].due.of, enabled |-> task[p].due.enabled, fits |-> TRUE]
<1>3. PICK s \in {new, None} : task' = [task EXCEPT ![p].at = "commit", ![p].due.sealed = s]
  BY DEF WriteSeal
<1> DEFINE d == [task[p].due EXCEPT !.sealed = s]
           t == [task[p] EXCEPT !.at = "commit", !.due = d]
<1>4. new \in Seal
  BY <1>2 DEF Seal, Receipt
<1>5. d \in Receipt /\ d.of = task[p].due.of /\ d.enabled = task[p].due.enabled
  BY <1>2, <1>4 DEF Receipt
<1>6. t \in Task /\ t.at = "commit" /\ t.op = task[p].op /\ t.v = task[p].v /\ t.b = task[p].b
      /\ t.was = task[p].was /\ t.due = d
  BY <1>1, <1>5 DEF Task, Steps
<1>7. task'[p] = t /\ \A q \in Procs \ {p} : task'[q] = task[q]
  BY <1>1, <1>3 DEF TypeOK, Task
<1>8. \A q \in Procs \ {p} : task'[q] = None
  BY <1>1, <1>7 DEF LockInv
<1>9. lock' = lock
  BY DEF WriteSeal
<1> HIDE DEF d, t
<1> QED
  BY <1>2, <1>5, <1>6, <1>7, <1>8, <1>9, NoneAssumption DEF Moves

LEMMA QuarantineMoves ==
  ASSUME TypeOK, LockInv, NEW p \in Procs, Quarantine(p)
  PROVE  \/ Ends(p) /\ UNCHANGED <<tree, receipt, seal>>
         \/ /\ Moves(p, IF task[p].op = "remove" THEN "unreceipt" ELSE "stage")
            /\ tree' = [tree EXCEPT ![task[p].v] = None]
            /\ TouchSeals(task[p].v)
<1>1. task[p] \in Task /\ task[p] # None
  BY DEF Quarantine, At, TypeOK
<1>2. CASE Mishap /\ Finish(p) /\ UNCHANGED <<tree, receipt, seal, litter>>
  BY <1>1, <1>2, FinishEnds
<1>3. CASE ~(Mishap /\ Finish(p) /\ UNCHANGED <<tree, receipt, seal, litter>>)
  <2> DEFINE at == IF task[p].op = "remove" THEN "unreceipt" ELSE "stage"
             t == [task[p] EXCEPT !.kept = tree[task[p].v], !.at = at]
  <2>1. tree[task[p].v] \in Trees
    BY <1>1 DEF TypeOK, Task
  <2>2. t \in Task /\ t.at = at /\ t.op = task[p].op /\ t.v = task[p].v /\ t.b = task[p].b
        /\ t.was = task[p].was /\ t.due = task[p].due
    BY <1>1, <2>1 DEF Task, Steps
  <2>3. task' = [task EXCEPT ![p].kept = tree[task[p].v], ![p].at = at] /\ lock' = lock
    BY <1>3 DEF Quarantine
  <2>4. task'[p] = t /\ \A q \in Procs \ {p} : task'[q] = task[q]
    BY <1>1, <2>3 DEF TypeOK, Task
  <2>5. \A q \in Procs \ {p} : task'[q] = None
    BY <1>1, <2>4 DEF LockInv
  <2> HIDE DEF t, at
  <2>6. Moves(p, at)
    BY <1>1, <2>2, <2>3, <2>4, <2>5, NoneAssumption DEF Moves
  <2> QED
    BY <1>3, <2>6 DEF Quarantine, at
<1> QED
  BY <1>2, <1>3

LEMMA BeginsTask ==
  ASSUME TypeOK, LockInv, NEW p \in Procs, NEW op \in Ops, NEW v \in Versions,
         NEW b \in Builds \cup {None}, NEW at \in Steps, NEW due \in Receipt \cup {None},
         Begin(p, op, v, b, at, due)
  PROVE  /\ lock' = p
         /\ \A q \in Procs : task[q] = None
         /\ \A q \in Procs \ {p} : task'[q] = None
         /\ task'[p] # None
         /\ task'[p].op = op /\ task'[p].v = v /\ task'[p].b = b
         /\ task'[p].at = at /\ task'[p].due = due
         /\ task'[p].was[1] = tree[v]
<1>1. <<tree[v], Core(receipt[v])>> \in Trees \X Cores
  BY DEF TypeOK, Core, Cores, Receipt
<1>2. NewTask(op, v, b, at, due) \in Task
  BY <1>1, LifecycleAssumption DEF NewTask, Task, Trees
<1>3. task'[p] = NewTask(op, v, b, at, due) /\ \A q \in Procs \ {p} : task'[q] = task[q]
  BY DEF Begin, TypeOK
<1>4. \A q \in Procs : task[q] = None
  BY LifecycleAssumption DEF Begin, Idle, LockInv
<1>5. lock' = p
  BY DEF Begin
<1> QED
  BY <1>2, <1>3, <1>4, <1>5, NoneAssumption DEF NewTask

(* What the begin of a command has to respect.                             *)
LEMMA BeginTasks ==
  ASSUME TypeOK, LockInv, NEW p \in Procs, NEW op \in Ops, NEW v \in Versions,
         NEW b \in Builds \cup {None}, NEW at \in Steps, NEW due \in Receipt \cup {None},
         Begin(p, op, v, b, at, due),
         IF op = "remove" THEN at \in RemoveSteps ELSE due \in Receipt,
         op \in ReadOps <=> at = "seal",
         op = "disable" => at = "commit"
  PROVE  LockInv' /\ DueInv' /\ StepsInv'
<1>1. /\ lock' = p
      /\ \A q \in Procs \ {p} : task'[q] = None
      /\ task'[p].op = op /\ task'[p].at = at /\ task'[p].due = due
  BY BeginsTask
<1> QED
  BY <1>1 DEF LockInv, DueInv, StepsInv, ReadOps

(* Where each step of a command leads.                                     *)
LEMMA StageGoes ==
  ASSUME TypeOK, LockInv, DueInv, NEW p \in Procs, Stage(p)
  PROVE  /\ task[p] \in Task /\ task[p] # None /\ task[p].at = "stage"
         /\ Ends(p) \/ Moves(p, "publish") \/ Moves(p, "restore")
<1>1. task[p] \in Task /\ task[p] # None /\ task[p].at = "stage"
  BY DEF Stage, At, TypeOK
<1>2. Ends(p) \/ Moves(p, "publish") \/ Moves(p, "restore")
  BY <1>1, GotoMoves, FinishEnds, UndoMoves DEF Stage, At, Steps
<1> QED
  BY <1>1, <1>2

LEMMA PublishGoes ==
  ASSUME TypeOK, LockInv, DueInv, NEW p \in Procs, Publish(p)
  PROVE  /\ task[p] \in Task /\ task[p] # None /\ task[p].at = "publish"
         /\ Ends(p) \/ Moves(p, IF task[p].op = "install" THEN "link" ELSE "commit") \/ Moves(p, "restore")
<1>1. task[p] \in Task /\ task[p] # None /\ task[p].at = "publish"
  BY DEF Publish, At, TypeOK
<1>2. Ends(p) \/ Moves(p, IF task[p].op = "install" THEN "link" ELSE "commit") \/ Moves(p, "restore")
  BY <1>1, GotoMoves, FinishEnds, UndoMoves DEF Publish, At, Steps
<1> QED
  BY <1>1, <1>2

LEMMA LinkGoes ==
  ASSUME TypeOK, LockInv, DueInv, NEW p \in Procs, Link(p)
  PROVE  /\ task[p] \in Task /\ task[p] # None /\ task[p].at = "link"
         /\ Moves(p, "unseal") \/ Moves(p, "rollback")
<1>1. task[p] \in Task /\ task[p] # None /\ task[p].at = "link"
  BY DEF Link, At, TypeOK
<1>2. Moves(p, "unseal") \/ Moves(p, "rollback")
  BY <1>1, GotoMoves, FinishEnds, UndoMoves DEF Link, At, Steps
<1> QED
  BY <1>1, <1>2

LEMMA WriteSealGoes ==
  ASSUME TypeOK, LockInv, DueInv, NEW p \in Procs, WriteSeal(p)
  PROVE  /\ task[p] \in Task /\ task[p] # None /\ task[p].at = "seal"
         /\ Moves(p, "commit")
<1>1. task[p] \in Task /\ task[p] # None /\ task[p].at = "seal"
  BY DEF WriteSeal, At, TypeOK
<1>2. Moves(p, "commit")
  BY <1>1, WriteSealMoves DEF WriteSeal, At, Steps
<1> QED
  BY <1>1, <1>2

LEMMA CommitGoes ==
  ASSUME TypeOK, LockInv, DueInv, NEW p \in Procs, Commit(p)
  PROVE  /\ task[p] \in Task /\ task[p] # None /\ task[p].at = "commit"
         /\ Ends(p) \/ (task[p].op \notin ReadOps /\ Moves(p, "unseal"))
<1>1. task[p] \in Task /\ task[p] # None /\ task[p].at = "commit"
  BY DEF Commit, At, TypeOK
<1>2. Ends(p) \/ (task[p].op \notin ReadOps /\ Moves(p, "unseal"))
  <2>1. CASE task[p].op \in {"install", "repair", "disable"}
    <3>1. Goto(p, "unseal")
      BY <2>1 DEF Commit
    <3> QED
      BY <1>1, <2>1, <3>1, GotoMoves DEF Steps, ReadOps
  <2>2. CASE ~(task[p].op \in {"install", "repair", "disable"})
    <3>1. Finish(p)
      BY <2>2 DEF Commit
    <3> QED
      BY <1>1, <3>1, FinishEnds
  <2> QED
    BY <2>1, <2>2
<1> QED
  BY <1>1, <1>2

LEMMA CommitFailsGoes ==
  ASSUME TypeOK, LockInv, DueInv, NEW p \in Procs, CommitFails(p)
  PROVE  /\ task[p] \in Task /\ task[p] # None /\ task[p].at = "commit"
         /\ Ends(p) \/ (task[p].op = "repair" /\ task[p].was[1] # task[p].b /\ Moves(p, "rollback"))
<1>1. task[p] \in Task /\ task[p] # None /\ task[p].at = "commit"
  BY DEF CommitFails, At, TypeOK
<1>2. Ends(p) \/ (task[p].op = "repair" /\ task[p].was[1] # task[p].b /\ Moves(p, "rollback"))
  <2>1. CASE task[p].op = "repair" /\ task[p].was[1] # task[p].b
    <3>1. Goto(p, "rollback")
      BY <2>1 DEF CommitFails
    <3> QED
      BY <1>1, <2>1, <3>1, GotoMoves DEF Steps
  <2>2. CASE ~(task[p].op = "repair" /\ task[p].was[1] # task[p].b)
    <3>1. Finish(p)
      BY <2>2 DEF CommitFails
    <3> QED
      BY <1>1, <3>1, FinishEnds
  <2> QED
    BY <2>1, <2>2
<1> QED
  BY <1>1, <1>2

LEMMA UnsealGoes ==
  ASSUME TypeOK, LockInv, DueInv, NEW p \in Procs, Unseal(p)
  PROVE  /\ task[p] \in Task /\ task[p] # None /\ task[p].at = "unseal"
         /\ Ends(p) \/ Moves(p, "discard")
<1>1. task[p] \in Task /\ task[p] # None /\ task[p].at = "unseal"
  BY DEF Unseal, At, TypeOK
<1>2. Ends(p) \/ Moves(p, "discard")
  BY <1>1, GotoMoves, FinishEnds, UndoMoves DEF Unseal, At, Steps
<1> QED
  BY <1>1, <1>2

LEMMA RollbackGoes ==
  ASSUME TypeOK, LockInv, DueInv, NEW p \in Procs, Rollback(p)
  PROVE  /\ task[p] \in Task /\ task[p] # None /\ task[p].at = "rollback"
         /\ Moves(p, "sweep")
<1>1. task[p] \in Task /\ task[p] # None /\ task[p].at = "rollback"
  BY DEF Rollback, At, TypeOK
<1>2. Moves(p, "sweep")
  BY <1>1, GotoMoves, FinishEnds, UndoMoves DEF Rollback, At, Steps
<1> QED
  BY <1>1, <1>2

LEMMA RollbackFailsGoes ==
  ASSUME TypeOK, LockInv, DueInv, NEW p \in Procs, RollbackFails(p)
  PROVE  /\ task[p] \in Task /\ task[p] # None /\ task[p].at = "rollback"
         /\ Ends(p)
<1>1. task[p] \in Task /\ task[p] # None /\ task[p].at = "rollback"
  BY DEF RollbackFails, At, TypeOK
<1>2. Ends(p)
  BY <1>1, FinishEnds DEF RollbackFails
<1> QED
  BY <1>1, <1>2

LEMMA SweepRollbackGoes ==
  ASSUME TypeOK, LockInv, DueInv, NEW p \in Procs, SweepRollback(p)
  PROVE  /\ task[p] \in Task /\ task[p] # None /\ task[p].at = "sweep"
         /\ Ends(p) \/ Moves(p, "restore")
<1>1. task[p] \in Task /\ task[p] # None /\ task[p].at = "sweep"
  BY DEF SweepRollback, At, TypeOK
<1>2. Ends(p) \/ Moves(p, "restore")
  BY <1>1, GotoMoves, FinishEnds, UndoMoves DEF SweepRollback, At, Steps
<1> QED
  BY <1>1, <1>2

LEMMA RestoreGoes ==
  ASSUME TypeOK, LockInv, DueInv, NEW p \in Procs, Restore(p)
  PROVE  /\ task[p] \in Task /\ task[p] # None /\ task[p].at = "restore"
         /\ Ends(p)
<1>1. task[p] \in Task /\ task[p] # None /\ task[p].at = "restore"
  BY DEF Restore, At, TypeOK
<1>2. Ends(p)
  BY <1>1, FinishEnds DEF Restore
<1> QED
  BY <1>1, <1>2

LEMMA RestoreFailsGoes ==
  ASSUME TypeOK, LockInv, DueInv, NEW p \in Procs, RestoreFails(p)
  PROVE  /\ task[p] \in Task /\ task[p] # None /\ task[p].at = "restore"
         /\ Ends(p)
<1>1. task[p] \in Task /\ task[p] # None /\ task[p].at = "restore"
  BY DEF RestoreFails, At, TypeOK
<1>2. Ends(p)
  BY <1>1, FinishEnds DEF RestoreFails
<1> QED
  BY <1>1, <1>2

LEMMA QuarantineGoes ==
  ASSUME TypeOK, LockInv, DueInv, NEW p \in Procs, Quarantine(p)
  PROVE  /\ task[p] \in Task /\ task[p] # None /\ task[p].at = "quarantine"
         /\ Ends(p) \/ Moves(p, IF task[p].op = "remove" THEN "unreceipt" ELSE "stage")
<1>1. task[p] \in Task /\ task[p] # None /\ task[p].at = "quarantine"
  BY DEF Quarantine, At, TypeOK
<1>2. Ends(p) \/ Moves(p, IF task[p].op = "remove" THEN "unreceipt" ELSE "stage")
  BY <1>1, QuarantineMoves DEF Quarantine, At, Steps
<1> QED
  BY <1>1, <1>2

LEMMA UnreceiptGoes ==
  ASSUME TypeOK, LockInv, DueInv, NEW p \in Procs, Unreceipt(p)
  PROVE  /\ task[p] \in Task /\ task[p] # None /\ task[p].at = "unreceipt"
         /\ Ends(p) \/ Moves(p, "unseal") \/ Moves(p, "restore")
<1>1. task[p] \in Task /\ task[p] # None /\ task[p].at = "unreceipt"
  BY DEF Unreceipt, At, TypeOK
<1>2. Ends(p) \/ Moves(p, "unseal") \/ Moves(p, "restore")
  BY <1>1, GotoMoves, FinishEnds, UndoMoves DEF Unreceipt, At, Steps
<1> QED
  BY <1>1, <1>2

LEMMA DiscardGoes ==
  ASSUME TypeOK, LockInv, DueInv, NEW p \in Procs, Discard(p)
  PROVE  /\ task[p] \in Task /\ task[p] # None /\ task[p].at = "discard"
         /\ Ends(p)
<1>1. task[p] \in Task /\ task[p] # None /\ task[p].at = "discard"
  BY DEF Discard, At, TypeOK
<1>2. Ends(p)
  BY <1>1, FinishEnds DEF Discard
<1> QED
  BY <1>1, <1>2

LEMMA TasksStep ==
  ASSUME TypeOK, LockInv, DueInv, StepsInv, [Next]_vars
  PROVE  LockInv' /\ DueInv' /\ StepsInv'
<1>1. ASSUME NEW p \in Procs, NEW v \in Versions, NEW b \in Builds, BeginInstall(p, v, b)
      PROVE  LockInv' /\ DueInv' /\ StepsInv'
  BY <1>1, BeginTasks, LifecycleAssumption DEF BeginInstall, Disabled, Receipt, Ops, Steps, MoveOps, ReadOps, RemoveSteps
<1>2. ASSUME NEW p \in Procs, NEW v \in Versions, NEW b \in Builds, BeginRepair(p, v, b)
      PROVE  LockInv' /\ DueInv' /\ StepsInv'
  BY ZenonT(60), <1>2, BeginTasks, LifecycleAssumption DEF BeginRepair, Disabled, Receipt, Ops, Steps, MoveOps, ReadOps, RemoveSteps
<1>3. ASSUME NEW p \in Procs, NEW v \in Versions, BeginRemove(p, v)
      PROVE  LockInv' /\ DueInv' /\ StepsInv'
  BY <1>3, BeginTasks DEF BeginRemove, Ops, Steps, ReadOps, RemoveSteps
<1>4. ASSUME NEW p \in Procs, NEW v \in Versions, BeginEnable(p, v)
      PROVE  LockInv' /\ DueInv' /\ StepsInv'
  BY <1>4, BeginTasks, EnablingTyped DEF BeginEnable, CanEnable, Valid, Ops, Steps, ReadOps, RemoveSteps
<1>5. ASSUME NEW p \in Procs, NEW v \in Versions, BeginEnableOnly(p, v)
      PROVE  LockInv' /\ DueInv' /\ StepsInv'
  BY <1>5, BeginTasks, EnablingTyped DEF BeginEnableOnly, CanEnableOnly, Valid, Ops, Steps, ReadOps, RemoveSteps
<1>6. ASSUME NEW p \in Procs, NEW v \in Versions, BeginDisable(p, v)
      PROVE  LockInv' /\ DueInv' /\ StepsInv'
  <2>1. Disabled(receipt[v].of) \in Receipt
    BY <1>6 DEF BeginDisable, CanDisable, Disabled, Receipt, TypeOK
  <2> QED
    BY <1>6, <2>1, BeginTasks DEF BeginDisable, Ops, Steps, ReadOps, RemoveSteps
<1>7. ASSUME NEW p \in Procs, NEW v \in Versions, BeginVerify(p, v)
      PROVE  LockInv' /\ DueInv' /\ StepsInv'
  <2>1. receipt[v] \in Receipt
    BY <1>7 DEF BeginVerify, CanVerify, Valid, TypeOK
  <2> QED
    BY <1>7, <2>1, BeginTasks DEF BeginVerify, Ops, Steps, ReadOps, RemoveSteps
<1>8. ASSUME NEW p \in Procs, NEW v \in Versions, BeginResolve(p, v)
      PROVE  LockInv' /\ DueInv' /\ StepsInv'
  <2>1. receipt[v] \in Receipt
    BY <1>8 DEF BeginResolve, CanResolve, Enabled, TypeOK
  <2> QED
    BY <1>8, <2>1, BeginTasks DEF BeginResolve, Ops, Steps, ReadOps, RemoveSteps
<1>9. ASSUME NEW p \in Procs, NEW v \in Versions, ResolveSealed(p, v)
      PROVE  LockInv' /\ DueInv' /\ StepsInv'
  BY <1>9 DEF ResolveSealed, LockInv, DueInv, StepsInv
<1>10. ASSUME NEW p \in Procs, NEW v \in Versions, ResolveCached(p, v)
      PROVE  LockInv' /\ DueInv' /\ StepsInv'
  BY <1>10 DEF ResolveCached, LockInv, DueInv, StepsInv
<1>11. ASSUME NEW p \in Procs, NEW op \in Ops, NEW v \in Versions, NEW b \in Builds, Refuse(p, op, v, b)
      PROVE  LockInv' /\ DueInv' /\ StepsInv'
  BY <1>11 DEF Refuse, LockInv, DueInv, StepsInv
<1>12. ASSUME NEW p \in Procs, NEW op \in Ops, NEW v \in Versions, MeetBusy(p, op, v)
      PROVE  LockInv' /\ DueInv' /\ StepsInv'
  BY <1>12 DEF MeetBusy, LockInv, DueInv, StepsInv
<1>13. ASSUME NEW p \in Procs, NEW v \in Versions, DropSession(p, v)
      PROVE  LockInv' /\ DueInv' /\ StepsInv'
  BY <1>13 DEF DropSession, LockInv, DueInv, StepsInv
<1>14. ASSUME NEW p \in Procs, NEW v \in Versions, DropCached(p, v)
      PROVE  LockInv' /\ DueInv' /\ StepsInv'
  BY <1>14 DEF DropCached, LockInv, DueInv, StepsInv
<1>15. ASSUME NEW p \in Procs, Stage(p)
      PROVE  LockInv' /\ DueInv' /\ StepsInv'
  BY <1>15, StageGoes DEF Ends, Moves, Task, Steps, ReadOps, RemoveSteps, LockInv, DueInv, StepsInv
<1>16. ASSUME NEW p \in Procs, Publish(p)
      PROVE  LockInv' /\ DueInv' /\ StepsInv'
  BY <1>16, PublishGoes DEF Ends, Moves, Task, Steps, ReadOps, RemoveSteps, LockInv, DueInv, StepsInv
<1>17. ASSUME NEW p \in Procs, Link(p)
      PROVE  LockInv' /\ DueInv' /\ StepsInv'
  BY <1>17, LinkGoes DEF Ends, Moves, Task, Steps, ReadOps, RemoveSteps, LockInv, DueInv, StepsInv
<1>18. ASSUME NEW p \in Procs, WriteSeal(p)
      PROVE  LockInv' /\ DueInv' /\ StepsInv'
  BY <1>18, WriteSealGoes DEF Ends, Moves, Task, Steps, ReadOps, RemoveSteps, LockInv, DueInv, StepsInv
<1>19. ASSUME NEW p \in Procs, Commit(p)
      PROVE  LockInv' /\ DueInv' /\ StepsInv'
  BY <1>19, CommitGoes DEF Ends, Moves, Task, Steps, ReadOps, RemoveSteps, LockInv, DueInv, StepsInv
<1>20. ASSUME NEW p \in Procs, CommitFails(p)
      PROVE  LockInv' /\ DueInv' /\ StepsInv'
  BY <1>20, CommitFailsGoes DEF Ends, Moves, Task, Steps, ReadOps, RemoveSteps, LockInv, DueInv, StepsInv
<1>21. ASSUME NEW p \in Procs, Unseal(p)
      PROVE  LockInv' /\ DueInv' /\ StepsInv'
  BY <1>21, UnsealGoes DEF Ends, Moves, Task, Steps, ReadOps, RemoveSteps, LockInv, DueInv, StepsInv
<1>22. ASSUME NEW p \in Procs, Rollback(p)
      PROVE  LockInv' /\ DueInv' /\ StepsInv'
  BY <1>22, RollbackGoes DEF Ends, Moves, Task, Steps, ReadOps, RemoveSteps, LockInv, DueInv, StepsInv
<1>23. ASSUME NEW p \in Procs, RollbackFails(p)
      PROVE  LockInv' /\ DueInv' /\ StepsInv'
  BY <1>23, RollbackFailsGoes DEF Ends, Moves, Task, Steps, ReadOps, RemoveSteps, LockInv, DueInv, StepsInv
<1>24. ASSUME NEW p \in Procs, SweepRollback(p)
      PROVE  LockInv' /\ DueInv' /\ StepsInv'
  BY <1>24, SweepRollbackGoes DEF Ends, Moves, Task, Steps, ReadOps, RemoveSteps, LockInv, DueInv, StepsInv
<1>25. ASSUME NEW p \in Procs, Restore(p)
      PROVE  LockInv' /\ DueInv' /\ StepsInv'
  BY <1>25, RestoreGoes DEF Ends, Moves, Task, Steps, ReadOps, RemoveSteps, LockInv, DueInv, StepsInv
<1>26. ASSUME NEW p \in Procs, RestoreFails(p)
      PROVE  LockInv' /\ DueInv' /\ StepsInv'
  BY <1>26, RestoreFailsGoes DEF Ends, Moves, Task, Steps, ReadOps, RemoveSteps, LockInv, DueInv, StepsInv
<1>27. ASSUME NEW p \in Procs, Quarantine(p)
      PROVE  LockInv' /\ DueInv' /\ StepsInv'
  BY <1>27, QuarantineGoes DEF Ends, Moves, Task, Steps, ReadOps, RemoveSteps, LockInv, DueInv, StepsInv
<1>28. ASSUME NEW p \in Procs, Unreceipt(p)
      PROVE  LockInv' /\ DueInv' /\ StepsInv'
  BY <1>28, UnreceiptGoes DEF Ends, Moves, Task, Steps, ReadOps, RemoveSteps, LockInv, DueInv, StepsInv
<1>29. ASSUME NEW p \in Procs, Discard(p)
      PROVE  LockInv' /\ DueInv' /\ StepsInv'
  BY <1>29, DiscardGoes DEF Ends, Moves, Task, Steps, ReadOps, RemoveSteps, LockInv, DueInv, StepsInv
<1>30. ASSUME NEW p \in Procs, Crash(p)
      PROVE  LockInv' /\ DueInv' /\ StepsInv'
  BY <1>30, CrashEnds DEF Crash, Ends, LockInv, DueInv, StepsInv
<1>31. ASSUME NEW v \in Versions, Damage(v)
      PROVE  LockInv' /\ DueInv' /\ StepsInv'
  BY <1>31 DEF Damage, LockInv, DueInv, StepsInv
<1>32. CASE UNCHANGED vars
  BY <1>32 DEF vars, LockInv, DueInv, StepsInv
<1> QED
  BY <1>1, <1>2, <1>3, <1>4, <1>5, <1>6, <1>7, <1>8, <1>9, <1>10, <1>11, <1>12, <1>13, <1>14, <1>15, <1>16, <1>17, <1>18, <1>19, <1>20, <1>21, <1>22, <1>23, <1>24, <1>25, <1>26, <1>27, <1>28, <1>29, <1>30, <1>31, <1>32 DEF Next

-----------------------------------------------------------------------------
(* At most one enabled version.                                            *)

LEMMA AloneBegin ==
  ASSUME TypeOK, LockInv, OneEnabled, NEW p \in Procs, NEW op \in Ops, NEW v \in Versions,
         NEW b \in Builds \cup {None}, NEW at \in Steps, NEW due \in Receipt \cup {None},
         Begin(p, op, v, b, at, due),
         ~reserved /\ due # None /\ due.enabled => \A w \in Versions \ {v} : ~Enabled(w)
  PROVE  OneEnabled' /\ AloneInv'
<1>1. /\ \A q \in Procs \ {p} : task'[q] = None
      /\ task'[p].op = op /\ task'[p].v = v /\ task'[p].due = due
  BY BeginsTask
<1>2. receipt' = receipt /\ reserved' = reserved /\ (~reserved => op # "enable_only")
  BY DEF Begin, Issued
<1> QED
  BY <1>1, <1>2 DEF OneEnabled, AloneInv, Enabled

(* A step of the task may enable the version it is about, no other.        *)
LEMMA AloneMove ==
  ASSUME TypeOK, LockInv, OneEnabled, AloneInv, NEW p \in Procs, task[p] \in Task, task[p] # None,
         Ends(p) \/ \E s \in Steps : Moves(p, s),
         reserved' = reserved,
         \A w \in Versions :
             Enabled(w)' => \/ Enabled(w)
                            \/ w = task[p].v /\ task[p].due # None /\ task[p].due.enabled
  PROVE  OneEnabled' /\ AloneInv'
<1>1. SUFFICES ASSUME ~reserved PROVE OneEnabled' /\ AloneInv'
  BY DEF OneEnabled, AloneInv
<1> DEFINE enabling == task[p].due # None /\ task[p].due.enabled
<1>2. enabling => \A w \in Versions \ {task[p].v} : ~Enabled(w)
  BY <1>1 DEF AloneInv
<1>3. OneEnabled'
  BY <1>1, <1>2 DEF OneEnabled
<1>4. AloneInv'
  BY <1>1, <1>2 DEF AloneInv, Ends, Moves
<1> QED
  BY <1>3, <1>4

LEMMA AgedKeeps ==
  ASSUME TypeOK, NEW v \in Versions, TouchSeals(v)
  PROVE  \A w \in Versions :
             /\ Enabled(w)' => Enabled(w)
             /\ receipt[w] # None => /\ receipt'[w] # None
                                     /\ receipt'[w].of = receipt[w].of
                                     /\ receipt'[w].enabled = receipt[w].enabled
             /\ Fits(w)' => Fits(w) /\ w # v /\ seal'[w] = seal[w]
<1>1. \A w \in Versions : receipt[w] \in Receipt \cup {None} /\ seal[w] \in Seal \cup {None}
  BY DEF TypeOK
<1>2. \A r \in Receipt : AgedReceipt(r) \in Receipt /\ AgedReceipt(r).of = r.of /\ AgedReceipt(r).enabled = r.enabled
  <2> SUFFICES ASSUME NEW r \in Receipt
               PROVE  AgedReceipt(r) \in Receipt /\ AgedReceipt(r).of = r.of /\ AgedReceipt(r).enabled = r.enabled
    OBVIOUS
  <2>1. Aged(r.sealed) \in Seal \cup {None}
    BY AgedTyped DEF Receipt
  <2>2. AgedReceipt(r) = [r EXCEPT !.sealed = Aged(r.sealed)]
    BY NoneAssumption DEF AgedReceipt
  <2> QED
    BY <2>1, <2>2 DEF Receipt
<1>3. AgedReceipt(None) = None
  BY DEF AgedReceipt
<1>4. \A s \in Seal \cup {None} : Aged(s) # None => Aged(s).fits = FALSE
  BY DEF Aged, Seal
<1>5. /\ receipt'[v] = AgedReceipt(receipt[v]) /\ \A w \in Versions \ {v} : receipt'[w] = receipt[w]
      /\ seal'[v] = Aged(seal[v]) /\ \A w \in Versions \ {v} : seal'[w] = seal[w]
  BY DEF TouchSeals, TypeOK
<1> QED
  BY <1>1, <1>2, <1>3, <1>4, <1>5, NoneAssumption DEF Enabled, Fits

LEMMA AloneStep ==
  ASSUME TypeOK, LockInv, DueInv, OneEnabled, AloneInv, [Next]_vars
  PROVE  OneEnabled' /\ AloneInv'
<1>1. ASSUME NEW p \in Procs, NEW v \in Versions, NEW b \in Builds, BeginInstall(p, v, b)
      PROVE  OneEnabled' /\ AloneInv'
  BY <1>1, AloneBegin DEF BeginInstall, Disabled, Receipt, Ops, Steps
<1>2. ASSUME NEW p \in Procs, NEW v \in Versions, NEW b \in Builds, BeginRepair(p, v, b)
      PROVE  OneEnabled' /\ AloneInv'
  BY <1>2, AloneBegin DEF BeginRepair, Disabled, Receipt, Ops, Steps
<1>3. ASSUME NEW p \in Procs, NEW v \in Versions, BeginRemove(p, v)
      PROVE  OneEnabled' /\ AloneInv'
  BY <1>3, AloneBegin DEF BeginRemove, Ops, Steps
<1>4. ASSUME NEW p \in Procs, NEW v \in Versions, BeginEnable(p, v)
      PROVE  OneEnabled' /\ AloneInv'
  BY <1>4, AloneBegin, EnablingTyped DEF BeginEnable, CanEnable, Blocked, Valid, Ops, Steps
<1>5. ASSUME NEW p \in Procs, NEW v \in Versions, BeginEnableOnly(p, v)
      PROVE  OneEnabled' /\ AloneInv'
  <2>1. [receipt[v] EXCEPT !.enabled = TRUE] \in Receipt
    BY <1>5, EnablingTyped DEF BeginEnableOnly, CanEnableOnly, Valid
  <2>2. reserved
    BY <1>5 DEF BeginEnableOnly, Begin, Issued
  <2> QED
    BY <1>5, <2>1, <2>2, AloneBegin DEF BeginEnableOnly, Ops, Steps
<1>6. ASSUME NEW p \in Procs, NEW v \in Versions, BeginDisable(p, v)
      PROVE  OneEnabled' /\ AloneInv'
  <2>1. Disabled(receipt[v].of) \in Receipt /\ ~Disabled(receipt[v].of).enabled
    BY <1>6 DEF BeginDisable, CanDisable, Disabled, Receipt, TypeOK
  <2> QED
    BY <1>6, <2>1, AloneBegin DEF BeginDisable, Ops, Steps
<1>7. ASSUME NEW p \in Procs, NEW v \in Versions, BeginVerify(p, v)
      PROVE  OneEnabled' /\ AloneInv'
  <2>1. receipt[v] \in Receipt
    BY <1>7 DEF BeginVerify, CanVerify, Valid, TypeOK
  <2>2. ~reserved /\ receipt[v].enabled => \A w \in Versions \ {v} : ~Enabled(w)
    BY <2>1, NoneAssumption DEF OneEnabled, Enabled
  <2> QED
    BY <1>7, <2>1, <2>2, AloneBegin DEF BeginVerify, Ops, Steps
<1>8. ASSUME NEW p \in Procs, NEW v \in Versions, BeginResolve(p, v)
      PROVE  OneEnabled' /\ AloneInv'
  <2>1. receipt[v] \in Receipt
    BY <1>8 DEF BeginResolve, CanResolve, Enabled, TypeOK
  <2>2. ~reserved /\ receipt[v].enabled => \A w \in Versions \ {v} : ~Enabled(w)
    BY <2>1, NoneAssumption DEF OneEnabled, Enabled
  <2> QED
    BY <1>8, <2>1, <2>2, AloneBegin DEF BeginResolve, Ops, Steps
<1>9. ASSUME NEW p \in Procs, NEW v \in Versions, ResolveSealed(p, v)
      PROVE  OneEnabled' /\ AloneInv'
  BY <1>9 DEF ResolveSealed, OneEnabled, AloneInv, Enabled
<1>10. ASSUME NEW p \in Procs, NEW v \in Versions, ResolveCached(p, v)
      PROVE  OneEnabled' /\ AloneInv'
  BY <1>10 DEF ResolveCached, OneEnabled, AloneInv, Enabled
<1>11. ASSUME NEW p \in Procs, NEW op \in Ops, NEW v \in Versions, NEW b \in Builds, Refuse(p, op, v, b)
      PROVE  OneEnabled' /\ AloneInv'
  BY <1>11 DEF Refuse, OneEnabled, AloneInv, Enabled
<1>12. ASSUME NEW p \in Procs, NEW op \in Ops, NEW v \in Versions, MeetBusy(p, op, v)
      PROVE  OneEnabled' /\ AloneInv'
  BY <1>12 DEF MeetBusy, OneEnabled, AloneInv, Enabled
<1>13. ASSUME NEW p \in Procs, NEW v \in Versions, DropSession(p, v)
      PROVE  OneEnabled' /\ AloneInv'
  BY <1>13 DEF DropSession, OneEnabled, AloneInv, Enabled
<1>14. ASSUME NEW p \in Procs, NEW v \in Versions, DropCached(p, v)
      PROVE  OneEnabled' /\ AloneInv'
  BY <1>14 DEF DropCached, OneEnabled, AloneInv, Enabled
<1>15. ASSUME NEW p \in Procs, Stage(p)
      PROVE  OneEnabled' /\ AloneInv'
  <2>1. receipt' = receipt /\ reserved' = reserved
    BY <1>15 DEF Stage
  <2> QED
    BY <1>15, <2>1, StageGoes, AloneMove DEF Enabled, Steps
<1>16. ASSUME NEW p \in Procs, Publish(p)
      PROVE  OneEnabled' /\ AloneInv'
  <2>1. receipt' = receipt /\ reserved' = reserved
    BY <1>16 DEF Publish
  <2> QED
    BY <1>16, <2>1, PublishGoes, AloneMove DEF Enabled, Steps
<1>17. ASSUME NEW p \in Procs, Link(p)
      PROVE  OneEnabled' /\ AloneInv'
  <2>1. task[p] \in Task /\ task[p] # None /\ (Ends(p) \/ \E s \in Steps : Moves(p, s))
    BY <1>17, LinkGoes DEF Steps
  <2>2. /\ receipt'[task[p].v] \in {receipt[task[p].v], task[p].due}
        /\ \A w \in Versions \ {task[p].v} : receipt'[w] = receipt[w]
    BY <1>17, <2>1 DEF Link, TypeOK, Task
  <2>3. reserved' = reserved
    BY <1>17 DEF Link
  <2> QED
    BY <2>1, <2>2, <2>3, AloneMove DEF Enabled
<1>18. ASSUME NEW p \in Procs, WriteSeal(p)
      PROVE  OneEnabled' /\ AloneInv'
  <2>1. receipt' = receipt /\ reserved' = reserved
    BY <1>18 DEF WriteSeal
  <2> QED
    BY <1>18, <2>1, WriteSealGoes, AloneMove DEF Enabled, Steps
<1>19. ASSUME NEW p \in Procs, Commit(p)
      PROVE  OneEnabled' /\ AloneInv'
  <2>1. task[p] \in Task /\ task[p] # None /\ (Ends(p) \/ \E s \in Steps : Moves(p, s))
    BY <1>19, CommitGoes DEF Steps
  <2>2. /\ receipt'[task[p].v] \in {receipt[task[p].v], task[p].due}
        /\ \A w \in Versions \ {task[p].v} : receipt'[w] = receipt[w]
    BY <1>19, <2>1 DEF Commit, TypeOK, Task
  <2>3. reserved' = reserved
    BY <1>19 DEF Commit
  <2> QED
    BY <2>1, <2>2, <2>3, AloneMove DEF Enabled
<1>20. ASSUME NEW p \in Procs, CommitFails(p)
      PROVE  OneEnabled' /\ AloneInv'
  <2>1. receipt' = receipt /\ reserved' = reserved
    BY <1>20 DEF CommitFails
  <2> QED
    BY <1>20, <2>1, CommitFailsGoes, AloneMove DEF Enabled, Steps
<1>21. ASSUME NEW p \in Procs, Unseal(p)
      PROVE  OneEnabled' /\ AloneInv'
  <2>1. receipt' = receipt /\ reserved' = reserved
    BY <1>21 DEF Unseal
  <2> QED
    BY <1>21, <2>1, UnsealGoes, AloneMove DEF Enabled, Steps
<1>22. ASSUME NEW p \in Procs, Rollback(p)
      PROVE  OneEnabled' /\ AloneInv'
  <2>1. receipt' = receipt /\ reserved' = reserved
    BY <1>22 DEF Rollback
  <2> QED
    BY <1>22, <2>1, RollbackGoes, AloneMove DEF Enabled, Steps
<1>23. ASSUME NEW p \in Procs, RollbackFails(p)
      PROVE  OneEnabled' /\ AloneInv'
  <2>1. receipt' = receipt /\ reserved' = reserved
    BY <1>23 DEF RollbackFails
  <2> QED
    BY <1>23, <2>1, RollbackFailsGoes, AloneMove DEF Enabled, Steps
<1>24. ASSUME NEW p \in Procs, SweepRollback(p)
      PROVE  OneEnabled' /\ AloneInv'
  <2>1. receipt' = receipt /\ reserved' = reserved
    BY <1>24 DEF SweepRollback
  <2> QED
    BY <1>24, <2>1, SweepRollbackGoes, AloneMove DEF Enabled, Steps
<1>25. ASSUME NEW p \in Procs, Restore(p)
      PROVE  OneEnabled' /\ AloneInv'
  <2>1. receipt' = receipt /\ reserved' = reserved
    BY <1>25 DEF Restore
  <2> QED
    BY <1>25, <2>1, RestoreGoes, AloneMove DEF Enabled, Steps
<1>26. ASSUME NEW p \in Procs, RestoreFails(p)
      PROVE  OneEnabled' /\ AloneInv'
  <2>1. receipt' = receipt /\ reserved' = reserved
    BY <1>26 DEF RestoreFails
  <2> QED
    BY <1>26, <2>1, RestoreFailsGoes, AloneMove DEF Enabled, Steps
<1>27. ASSUME NEW p \in Procs, Quarantine(p)
      PROVE  OneEnabled' /\ AloneInv'
  <2>1. task[p] \in Task /\ task[p] # None /\ (Ends(p) \/ \E s \in Steps : Moves(p, s))
    BY <1>27, QuarantineGoes DEF Steps
  <2>2. \A w \in Versions : Enabled(w)' => Enabled(w)
    <3>1. CASE receipt' = receipt
      BY <3>1 DEF Enabled
    <3>2. CASE TouchSeals(task[p].v)
      BY <2>1, <3>2, AgedKeeps DEF Task
    <3> QED
      BY <1>27, <3>1, <3>2 DEF Quarantine
  <2>3. reserved' = reserved
    BY <1>27 DEF Quarantine
  <2> QED
    BY <2>1, <2>2, <2>3, AloneMove
<1>28. ASSUME NEW p \in Procs, Unreceipt(p)
      PROVE  OneEnabled' /\ AloneInv'
  <2>1. task[p] \in Task /\ task[p] # None /\ (Ends(p) \/ \E s \in Steps : Moves(p, s))
    BY <1>28, UnreceiptGoes DEF Steps
  <2>2. /\ receipt'[task[p].v] \in {receipt[task[p].v], None}
        /\ \A w \in Versions \ {task[p].v} : receipt'[w] = receipt[w]
    BY <1>28, <2>1 DEF Unreceipt, TypeOK, Task
  <2>3. reserved' = reserved
    BY <1>28 DEF Unreceipt
  <2> QED
    BY <2>1, <2>2, <2>3, AloneMove DEF Enabled
<1>29. ASSUME NEW p \in Procs, Discard(p)
      PROVE  OneEnabled' /\ AloneInv'
  <2>1. receipt' = receipt /\ reserved' = reserved
    BY <1>29 DEF Discard
  <2> QED
    BY <1>29, <2>1, DiscardGoes, AloneMove DEF Enabled, Steps
<1>30. ASSUME NEW p \in Procs, Crash(p)
      PROVE  OneEnabled' /\ AloneInv'
  <2>1. task[p] # None /\ task[p] \in Task /\ receipt' = receipt /\ reserved' = reserved
    BY <1>30 DEF Crash, TypeOK
  <2> QED
    BY <1>30, <2>1, CrashEnds, AloneMove DEF Enabled, Steps
<1>31. ASSUME NEW v \in Versions, Damage(v)
      PROVE  OneEnabled' /\ AloneInv'
  <2>1. \A w \in Versions : Enabled(w)' => Enabled(w)
    BY <1>31, AgedKeeps DEF Damage
  <2>2. task' = task /\ reserved' = reserved
    BY <1>31 DEF Damage
  <2> QED
    BY <2>1, <2>2 DEF OneEnabled, AloneInv
<1>32. CASE UNCHANGED vars
  BY <1>32 DEF vars, OneEnabled, AloneInv, Enabled
<1> QED
  BY <1>1, <1>2, <1>3, <1>4, <1>5, <1>6, <1>7, <1>8, <1>9, <1>10, <1>11, <1>12, <1>13, <1>14, <1>15, <1>16, <1>17, <1>18, <1>19, <1>20, <1>21, <1>22, <1>23, <1>24, <1>25, <1>26, <1>27, <1>28, <1>29, <1>30, <1>31, <1>32 DEF Next

-----------------------------------------------------------------------------
(* The leases and the seals.                                               *)

(* A cache that a command drops entries of, whichever.                     *)
LEMMA UncachedShrinks ==
  ASSUME TypeOK, NEW p \in Procs, NEW op, NEW v \in Versions
  PROVE  \A q \in Procs, w \in Versions : Uncached(p, op, v)[q][w] \in {None, cache[q][w]}
  BY DEF Uncached, Nothing, TypeOK

Shrinks ==
    \A q \in Procs, w \in Versions :
        cache'[q][w] \in {None, cache[q][w]} /\ session'[q][w] \in {None, session[q][w]}

(* Nothing is lost by giving leases back.                                  *)
LEMMA LeaseStill ==
  ASSUME TypeOK, LeaseIntact, TaskInv, SealInv, Shrinks, UNCHANGED <<task, tree, receipt, seal>>
  PROVE  LeaseIntact' /\ TaskInv' /\ SealInv'
<1>1. LeaseIntact'
  BY DEF LeaseIntact, Shrinks
<1>2. TaskInv'
  <2> SUFFICES ASSUME NEW p \in Procs, task[p] # None, task[p].op \in MoveOps, task[p].v \in Versions,
                      NEW q \in Procs
               PROVE  cache'[q][task[p].v] = None /\ session'[q][task[p].v] = None
    BY DEF TaskInv, TypeOK, Task
  <2> QED
    BY DEF TaskInv, Shrinks
<1>3. SealInv'
  BY DEF SealInv, Fits
<1> QED
  BY <1>1, <1>2, <1>3

LEMMA LeaseEnd ==
  ASSUME LeaseIntact, SealInv, NEW p \in Procs, Ends(p), Shrinks, UNCHANGED <<tree, receipt, seal>>
  PROVE  LeaseIntact' /\ TaskInv' /\ SealInv'
  BY NoneAssumption DEF LeaseIntact, TaskInv, SealInv, Shrinks, Fits, Ends

(* A version without a tree has no lease and no fitting seal.              *)
LEMMA NoTreeNoLease ==
  ASSUME TypeOK, LeaseIntact, NEW v \in Versions, tree[v] = None
  PROVE  \A q \in Procs : cache[q][v] = None /\ session[q][v] = None
  BY LifecycleAssumption DEF TypeOK, LeaseIntact, Receipt

LEMMA NoTreeNoFit ==
  ASSUME TypeOK, SealInv, NEW v \in Versions, tree[v] = None
  PROVE  ~Fits(v)
  BY LifecycleAssumption DEF TypeOK, SealInv, Fits, Seal

LEMMA LeaseBegin ==
  ASSUME TypeOK, LockInv, LeaseIntact, SealInv, NEW p \in Procs, NEW op \in Ops, NEW v \in Versions,
         NEW b \in Builds \cup {None}, NEW at \in {"stage", "commit", "quarantine", "seal"},
         NEW due \in Receipt \cup {None},
         Begin(p, op, v, b, at, due),
         op \in MoveOps => \A q \in Procs : Uncached(p, op, v)[q][v] = None /\ session[q][v] = None,
         op \in ReadOps => tree[v] = due.of /\ receipt[v] # None /\ receipt[v].of = due.of,
         op = "resolve" => receipt[v].enabled /\ due.enabled,
         at = "stage" => tree[v] = None,
         at = "commit" /\ op = "repair" => tree[v] = b
  PROVE  LeaseIntact' /\ TaskInv' /\ SealInv'
<1>1. /\ \A q \in Procs \ {p} : task'[q] = None
      /\ task'[p].op = op /\ task'[p].v = v /\ task'[p].b = b
      /\ task'[p].at = at /\ task'[p].due = due
      /\ task'[p].was[1] = tree[v]
  BY BeginsTask DEF Steps
<1>2. cache' = Uncached(p, op, v) /\ UNCHANGED <<tree, receipt, seal, session>>
  BY DEF Begin
<1>3. LeaseIntact'
  BY <1>2, UncachedShrinks DEF LeaseIntact
<1>4. TaskInv'
  BY <1>1, <1>2 DEF TaskInv
<1>5. SealInv'
  BY <1>1, <1>2 DEF SealInv, Fits
<1> QED
  BY <1>3, <1>4, <1>5

(* A step that moves files of a version without leases.                    *)
LEMMA LeaseMove ==
  ASSUME LeaseIntact, TaskInv, NEW p \in Procs, task[p] \in Task, task[p] # None,
         task[p].op \notin ReadOps,
         Ends(p) \/ \E s \in Steps : Moves(p, s),
         cache' = cache, session' = session,
         task[p].op \in MoveOps \/ tree' = tree,
         \A w \in Versions \ {task[p].v} : tree'[w] = tree[w]
  PROVE  LeaseIntact' /\ TaskInv'
<1>1. LeaseIntact'
  BY DEF LeaseIntact, TaskInv, Task
<1>2. TaskInv'
  BY DEF TaskInv, Ends, Moves, ReadOps, MoveOps
<1> QED
  BY <1>1, <1>2

LEMMA LeaseStep ==
  ASSUME TypeOK, LockInv, DueInv, StepsInv, LeaseIntact, TaskInv, SealInv, [Next]_vars
  PROVE  LeaseIntact' /\ TaskInv' /\ SealInv'
<1>1. ASSUME NEW p \in Procs, NEW v \in Versions, NEW b \in Builds, BeginInstall(p, v, b)
      PROVE  LeaseIntact' /\ TaskInv' /\ SealInv'
  <2>1. \A q \in Procs : Uncached(p, "install", v)[q][v] = None /\ session[q][v] = None
    BY <1>1, NoTreeNoLease, UncachedShrinks DEF BeginInstall, CanInstall
  <2>2. Disabled(b) \in Receipt
    BY DEF Disabled, Receipt
  <2> QED
    BY <1>1, <2>1, <2>2, LeaseBegin DEF BeginInstall, CanInstall, Ops, ReadOps
<1>2. ASSUME NEW p \in Procs, NEW v \in Versions, NEW b \in Builds, BeginRepair(p, v, b)
      PROVE  LeaseIntact' /\ TaskInv' /\ SealInv'
  <2>1. \A q \in Procs : Uncached(p, "repair", v)[q][v] = None /\ session[q][v] = None
    BY <1>2, NoTreeNoLease, UncachedShrinks DEF BeginRepair, CanRepair, InUse
  <2>2. Disabled(b) \in Receipt
    BY DEF Disabled, Receipt
  <2> QED
    BY <1>2, <2>1, <2>2, LeaseBegin DEF BeginRepair, Ops, ReadOps
<1>3. ASSUME NEW p \in Procs, NEW v \in Versions, BeginRemove(p, v)
      PROVE  LeaseIntact' /\ TaskInv' /\ SealInv'
  <2>1. \A q \in Procs : Uncached(p, "remove", v)[q][v] = None /\ session[q][v] = None
    BY <1>3 DEF BeginRemove, CanRemove, InUse
  <2> QED
    BY <1>3, <2>1, LeaseBegin DEF BeginRemove, Ops, ReadOps
<1>4. ASSUME NEW p \in Procs, NEW v \in Versions, BeginEnable(p, v)
      PROVE  LeaseIntact' /\ TaskInv' /\ SealInv'
  <2> DEFINE due == [receipt[v] EXCEPT !.enabled = TRUE]
  <2>1. receipt[v] \in Receipt /\ receipt[v] # None /\ tree[v] = receipt[v].of
    BY <1>4 DEF BeginEnable, CanEnable, Valid, TypeOK
  <2>2. due \in Receipt /\ due.of = receipt[v].of
    BY <2>1 DEF Receipt
  <2>3. Begin(p, "enable", v, None, "seal", due)
    BY <1>4 DEF BeginEnable
  <2> HIDE DEF due
  <2> QED
    BY <2>1, <2>2, <2>3, LeaseBegin DEF Ops, MoveOps
<1>5. ASSUME NEW p \in Procs, NEW v \in Versions, BeginEnableOnly(p, v)
      PROVE  LeaseIntact' /\ TaskInv' /\ SealInv'
  <2> DEFINE due == [receipt[v] EXCEPT !.enabled = TRUE]
  <2>1. receipt[v] \in Receipt /\ receipt[v] # None /\ tree[v] = receipt[v].of
    BY <1>5 DEF BeginEnableOnly, CanEnableOnly, Valid, TypeOK
  <2>2. due \in Receipt /\ due.of = receipt[v].of
    BY <2>1 DEF Receipt
  <2>3. Begin(p, "enable_only", v, None, "seal", due)
    BY <1>5 DEF BeginEnableOnly
  <2> HIDE DEF due
  <2> QED
    BY <2>1, <2>2, <2>3, LeaseBegin DEF Ops, MoveOps
<1>6. ASSUME NEW p \in Procs, NEW v \in Versions, BeginDisable(p, v)
      PROVE  LeaseIntact' /\ TaskInv' /\ SealInv'
  <2>1. Disabled(receipt[v].of) \in Receipt
    BY <1>6 DEF BeginDisable, CanDisable, Disabled, Receipt, TypeOK
  <2> QED
    BY <1>6, <2>1, LeaseBegin DEF BeginDisable, Ops, ReadOps, MoveOps
<1>7. ASSUME NEW p \in Procs, NEW v \in Versions, BeginVerify(p, v)
      PROVE  LeaseIntact' /\ TaskInv' /\ SealInv'
  <2>1. receipt[v] \in Receipt /\ receipt[v] # None /\ tree[v] = receipt[v].of
    BY <1>7 DEF BeginVerify, CanVerify, Valid, TypeOK
  <2> QED
    BY <1>7, <2>1, LeaseBegin DEF BeginVerify, CanVerify, Valid, Ops, MoveOps
<1>8. ASSUME NEW p \in Procs, NEW v \in Versions, BeginResolve(p, v)
      PROVE  LeaseIntact' /\ TaskInv' /\ SealInv'
  <2>1. receipt[v] \in Receipt /\ receipt[v] # None /\ tree[v] = receipt[v].of
    BY <1>8 DEF BeginResolve, CanResolve, Enabled, Valid, TypeOK
  <2> QED
    BY <1>8, <2>1, LeaseBegin DEF BeginResolve, CanResolve, Enabled, Valid, Ops, MoveOps
<1>9. ASSUME NEW p \in Procs, NEW v \in Versions, ResolveSealed(p, v)
      PROVE  LeaseIntact' /\ TaskInv' /\ SealInv'
  <2>1. receipt[v] \in Receipt /\ receipt[v].of = tree[v]
    BY <1>9, NoneAssumption DEF ResolveSealed, CanResolve, Enabled, Sealed, SealInv, Fits, TypeOK
  <2>2. /\ \A q \in Procs, w \in Versions : cache'[q][w] \in {cache[q][w], IF w = v THEN receipt[v] ELSE None}
        /\ \A q \in Procs, w \in Versions : session'[q][w] \in {session[q][w], IF w = v THEN receipt[v] ELSE None}
    BY <1>9 DEF ResolveSealed, TypeOK
  <2>3. task' = task /\ UNCHANGED <<tree, receipt, seal>> /\ \A q \in Procs : task[q] = None
    BY <1>9, LifecycleAssumption DEF ResolveSealed, Idle, LockInv
  <2> QED
    BY <2>1, <2>2, <2>3 DEF LeaseIntact, TaskInv, SealInv, Fits
<1>10. ASSUME NEW p \in Procs, NEW v \in Versions, ResolveCached(p, v)
      PROVE  LeaseIntact' /\ TaskInv' /\ SealInv'
  <2>1. \A q \in Procs, w \in Versions : cache'[q][w] \in {cache[q][w], None}
    BY SMTT(30), <1>10 DEF ResolveCached, TypeOK
  <2>2. \A q \in Procs, w \in Versions : session'[q][w] \in {session[q][w], IF w = v THEN cache[p][v] ELSE None}
    BY SMTT(30), <1>10 DEF ResolveCached, TypeOK
  <2>3. task' = task /\ UNCHANGED <<tree, receipt, seal>> /\ \A q \in Procs : task[q] = None
    BY <1>10, LifecycleAssumption DEF ResolveCached, Idle, LockInv
  <2> QED
    BY <2>1, <2>2, <2>3 DEF LeaseIntact, TaskInv, SealInv, Fits
<1>11. ASSUME NEW p \in Procs, NEW op \in Ops, NEW v \in Versions, NEW b \in Builds, Refuse(p, op, v, b)
      PROVE  LeaseIntact' /\ TaskInv' /\ SealInv'
  <2>1. Shrinks
    BY <1>11, UncachedShrinks DEF Refuse, Shrinks
  <2> QED
    BY <1>11, <2>1, LeaseStill DEF Refuse
<1>12. ASSUME NEW p \in Procs, NEW op \in Ops, NEW v \in Versions, MeetBusy(p, op, v)
      PROVE  LeaseIntact' /\ TaskInv' /\ SealInv'
  <2>1. Shrinks
    <3>1. CASE op = "resolve"
      BY <1>12, <3>1 DEF MeetBusy, Shrinks, TypeOK
    <3>2. CASE op # "resolve"
      BY <1>12, <3>2, UncachedShrinks DEF MeetBusy, Shrinks
    <3> QED
      BY <3>1, <3>2
  <2> QED
    BY <1>12, <2>1, LeaseStill DEF MeetBusy
<1>13. ASSUME NEW p \in Procs, NEW v \in Versions, DropSession(p, v)
      PROVE  LeaseIntact' /\ TaskInv' /\ SealInv'
  <2>1. Shrinks
    BY <1>13 DEF DropSession, Shrinks, TypeOK
  <2> QED
    BY <1>13, <2>1, LeaseStill DEF DropSession
<1>14. ASSUME NEW p \in Procs, NEW v \in Versions, DropCached(p, v)
      PROVE  LeaseIntact' /\ TaskInv' /\ SealInv'
  <2>1. Shrinks
    BY <1>14 DEF DropCached, Shrinks, TypeOK
  <2> QED
    BY <1>14, <2>1, LeaseStill DEF DropCached
<1>15. ASSUME NEW p \in Procs, Stage(p)
      PROVE  LeaseIntact' /\ TaskInv' /\ SealInv'
  <2>1. task[p] \in Task /\ task[p] # None /\ (Ends(p) \/ \E s \in Steps : Moves(p, s))
    BY <1>15, StageGoes DEF Steps
  <2>2. task[p].op \notin ReadOps /\ tree' = tree
    BY <1>15, <2>1, StageGoes DEF Stage, StepsInv, ReadOps
  <2>3. UNCHANGED <<cache, session>> /\ \A w \in Versions \ {task[p].v} : tree'[w] = tree[w]
    BY <1>15 DEF Stage
  <2>4. SealInv'
    BY <1>15, <2>1, StageGoes DEF Stage, SealInv, Fits, Ends, Moves, Task, TypeOK
  <2> QED
    BY <2>1, <2>2, <2>3, <2>4, LeaseMove
<1>16. ASSUME NEW p \in Procs, Publish(p)
      PROVE  LeaseIntact' /\ TaskInv' /\ SealInv'
  <2>1. task[p] \in Task /\ task[p] # None /\ (Ends(p) \/ \E s \in Steps : Moves(p, s))
    BY <1>16, PublishGoes DEF Steps
  <2>2. task[p].op \notin ReadOps /\ task[p].op \in MoveOps
    BY <1>16, <2>1, PublishGoes DEF StepsInv, Task, Ops, ReadOps, MoveOps
  <2>3. UNCHANGED <<cache, session>> /\ \A w \in Versions \ {task[p].v} : tree'[w] = tree[w]
    BY <1>16, <2>1 DEF Publish, TypeOK
  <2>4. SealInv'
    <3>1. ~Fits(task[p].v)
      BY <2>1, PublishGoes, <1>16, NoTreeNoFit DEF SealInv, Task
    <3>2. seal' = seal
      BY <1>16 DEF Publish
    <3>5. tree' = tree \/ Ends(p) \/ Moves(p, IF task[p].op = "install" THEN "link" ELSE "commit")
      BY <1>16, <2>1, GotoMoves, FinishEnds DEF Publish, Steps
    <3>6. tree[task[p].v] = None
      BY <1>16, <2>1, PublishGoes DEF SealInv
    <3>3. \A w \in Versions : Fits(w)' => tree'[w] = seal'[w].of
      BY <2>3, <3>1, <3>2 DEF SealInv, Fits
    <3>4. ~(seal'[task[p].v] # None /\ seal'[task[p].v].fits)
      BY <3>1, <3>2 DEF Fits
    <3> QED
      BY <1>16, <2>1, <3>2, <3>3, <3>4, <3>5, <3>6, PublishGoes DEF SealInv, Fits, Ends, Moves
  <2> QED
    BY <2>1, <2>2, <2>3, <2>4, LeaseMove
<1>17. ASSUME NEW p \in Procs, Link(p)
      PROVE  LeaseIntact' /\ TaskInv' /\ SealInv'
  <2>1. task[p] \in Task /\ task[p] # None /\ (Ends(p) \/ \E s \in Steps : Moves(p, s))
    BY <1>17, LinkGoes DEF Steps
  <2>2. task[p].op \notin ReadOps /\ tree' = tree
    BY <1>17, <2>1, LinkGoes DEF Link, StepsInv, ReadOps
  <2>3. UNCHANGED <<cache, session>> /\ \A w \in Versions \ {task[p].v} : tree'[w] = tree[w]
    BY <1>17 DEF Link
  <2>4. SealInv'
    BY <1>17, <2>1, LinkGoes DEF Link, SealInv, Fits, Ends, Moves, Task, TypeOK
  <2> QED
    BY <2>1, <2>2, <2>3, <2>4, LeaseMove
<1>18. ASSUME NEW p \in Procs, WriteSeal(p)
      PROVE  LeaseIntact' /\ TaskInv' /\ SealInv'
  <2>1. task[p] \in Task /\ task[p] # None /\ task[p].at = "seal" /\ Moves(p, "commit")
    BY <1>18, WriteSealGoes
  <2>2. task[p].op \in ReadOps /\ task[p].due \in Receipt /\ task[p].due # None
    BY <2>1, NoneAssumption DEF StepsInv, DueInv, ReadOps
  <2>3. UNCHANGED <<tree, receipt, cache, session>>
    BY <1>18 DEF WriteSeal
  <2>4. LeaseIntact'
    BY <2>3 DEF LeaseIntact
  <2>5. TaskInv'
    BY <2>1, <2>2, <2>3 DEF TaskInv, Moves
  <2>6. \A w \in Versions : Fits(w)' => tree[w] = seal'[w].of
    <3>1. \A w \in Versions \ {task[p].v} : seal'[w] = seal[w]
      BY <1>18, <2>1 DEF WriteSeal, TypeOK
    <3>2. seal'[task[p].v] # None => seal'[task[p].v].of = task[p].due.of
      BY <1>18, <2>1 DEF WriteSeal, TypeOK, Task
    <3>3. tree[task[p].v] = task[p].due.of
      BY <2>1, <2>2 DEF TaskInv
    <3> QED
      BY <3>1, <3>2, <3>3 DEF SealInv, Fits
  <2>7. SealInv'
    BY <2>1, <2>2, <2>3, <2>6 DEF SealInv, Fits, Moves, ReadOps
  <2> QED
    BY <2>4, <2>5, <2>7
<1>19. ASSUME NEW p \in Procs, Commit(p)
      PROVE  LeaseIntact' /\ TaskInv' /\ SealInv'
  <2>1. task[p] \in Task /\ task[p] # None /\ task[p].at = "commit" /\ task[p].v \in Versions
    BY <1>19, CommitGoes DEF Task
  <2> DEFINE v == task[p].v
             r == task[p].due
             leases == task[p].op \in {"enable", "resolve"}
  <2>2. /\ \A q \in Procs, w \in Versions : cache'[q][w] \in {cache[q][w], IF leases /\ w = v THEN r ELSE None}
        /\ \A q \in Procs, w \in Versions : session'[q][w] \in {session[q][w], IF leases /\ w = v THEN r ELSE None}
    BY <1>19, <2>1 DEF Commit, Lease, TypeOK
  <2>3. leases => tree[v] = r.of
    BY <2>1 DEF TaskInv, ReadOps
  <2>4. tree' = tree /\ seal' = seal
    BY <1>19 DEF Commit
  <2>5. LeaseIntact'
    BY <2>1, <2>2, <2>3, <2>4 DEF LeaseIntact
  <2>6. Ends(p) \/ (task[p].op \notin ReadOps /\ Moves(p, "unseal"))
    BY <1>19, CommitGoes
  <2>7. TaskInv'
    <3>1. CASE Ends(p)
      BY <3>1 DEF TaskInv, Ends
    <3>2. CASE ~Ends(p)
      BY <2>1, <2>2, <2>6, <3>2 DEF TaskInv, Moves, ReadOps, MoveOps
    <3> QED
      BY <3>1, <3>2
  <2>8. SealInv'
    <3>1. CASE Ends(p)
      BY <2>4, <3>1 DEF SealInv, Fits, Ends
    <3>2. CASE ~Ends(p)
      BY <2>1, <2>4, <2>6, <3>2 DEF SealInv, Fits, Moves
    <3> QED
      BY <3>1, <3>2
  <2> QED
    BY <2>5, <2>7, <2>8
<1>20. ASSUME NEW p \in Procs, CommitFails(p)
      PROVE  LeaseIntact' /\ TaskInv' /\ SealInv'
  <2>1. task[p] \in Task /\ task[p] # None /\ task[p].at = "commit" /\ task[p].v \in Versions
    BY <1>20, CommitFailsGoes DEF Task
  <2> DEFINE v == task[p].v
             r == receipt[task[p].v]
             leases == task[p].op \in {"enable", "resolve"}
  <2>2. /\ \A q \in Procs, w \in Versions : cache'[q][w] \in {cache[q][w], IF leases /\ w = v THEN r ELSE None}
        /\ \A q \in Procs, w \in Versions : session'[q][w] \in {session[q][w], IF leases /\ w = v THEN r ELSE None}
    <3>1. CASE task[p].op = "resolve"
      <4> DEFINE c == [cache[p] EXCEPT ![v] = r]
                 h == [session[p] EXCEPT ![v] = r]
      <4>1. cache' = [cache EXCEPT ![p] = c] /\ session' = [session EXCEPT ![p] = h]
        BY <1>20, <3>1 DEF CommitFails, Lease
      <4>2. \A w \in Versions : /\ c[w] \in {cache[p][w], IF w = v THEN r ELSE None}
                                /\ h[w] \in {session[p][w], IF w = v THEN r ELSE None}
        BY <2>1 DEF TypeOK
      <4> HIDE DEF c, h
      <4> QED
        BY <3>1, <4>1, <4>2 DEF TypeOK
    <3>2. CASE task[p].op # "resolve"
      BY <1>20, <3>2 DEF CommitFails
    <3> QED
      BY <3>1, <3>2
  <2>3. leases => tree[v] = r.of
    BY <2>1 DEF TaskInv, ReadOps
  <2>4. tree' = tree /\ seal' = seal
    BY <1>20 DEF CommitFails
  <2>5. LeaseIntact'
    BY <2>1, <2>2, <2>3, <2>4 DEF LeaseIntact
  <2>6. Ends(p) \/ (task[p].op = "repair" /\ task[p].was[1] # task[p].b /\ Moves(p, "rollback"))
    BY <1>20, CommitFailsGoes
  <2>7. TaskInv'
    <3>1. CASE Ends(p)
      BY <3>1 DEF TaskInv, Ends
    <3>2. CASE ~Ends(p)
      BY <2>1, <2>2, <2>6, <3>2 DEF TaskInv, Moves, ReadOps, MoveOps
    <3> QED
      BY <3>1, <3>2
  <2>8. SealInv'
    <3>1. CASE Ends(p)
      BY <2>4, <3>1 DEF SealInv, Fits, Ends
    <3>2. CASE ~Ends(p)
      BY <2>1, <2>4, <2>6, <3>2 DEF SealInv, Fits, Moves
    <3> QED
      BY <3>1, <3>2
  <2> QED
    BY <2>5, <2>7, <2>8
<1>21. ASSUME NEW p \in Procs, Unseal(p)
      PROVE  LeaseIntact' /\ TaskInv' /\ SealInv'
  <2>1. task[p] \in Task /\ task[p] # None /\ (Ends(p) \/ \E s \in Steps : Moves(p, s))
    BY <1>21, UnsealGoes DEF Steps
  <2>2. task[p].op \notin ReadOps /\ tree' = tree
    BY <1>21, <2>1, UnsealGoes DEF Unseal, StepsInv, ReadOps
  <2>3. UNCHANGED <<cache, session>> /\ \A w \in Versions \ {task[p].v} : tree'[w] = tree[w]
    BY <1>21 DEF Unseal
  <2>4. tree' = tree /\ receipt' = receipt /\ seal'[task[p].v] = None
        /\ \A w \in Versions \ {task[p].v} : seal'[w] = seal[w]
    BY <1>21, <2>1 DEF Unseal, TypeOK, Task
  <2>5. \A w \in Versions : Fits(w)' => Fits(w) /\ tree'[w] = seal'[w].of
    BY <2>4 DEF SealInv, Fits
  <2>6. SealInv'
    <3>1. CASE Ends(p)
      BY <2>5, <3>1 DEF SealInv, Fits, Ends
    <3>2. CASE Moves(p, "discard")
      BY <2>1, <2>5, <3>2 DEF SealInv, Fits, Moves
    <3> QED
      BY <1>21, <3>1, <3>2, UnsealGoes
  <2> QED
    BY <2>1, <2>2, <2>3, <2>6, LeaseMove
<1>22. ASSUME NEW p \in Procs, Rollback(p)
      PROVE  LeaseIntact' /\ TaskInv' /\ SealInv'
  <2>1. task[p] \in Task /\ task[p] # None /\ (Ends(p) \/ \E s \in Steps : Moves(p, s))
    BY <1>22, RollbackGoes DEF Steps
  <2>2. task[p].op \notin ReadOps /\ task[p].op \in MoveOps
    BY <1>22, <2>1, RollbackGoes DEF StepsInv, Task, Ops, ReadOps, MoveOps
  <2>3. UNCHANGED <<cache, session>> /\ \A w \in Versions \ {task[p].v} : tree'[w] = tree[w]
    BY <1>22, <2>1 DEF Rollback, TypeOK
  <2>4. SealInv'
    <3>1. ~Fits(task[p].v)
      BY <2>1, RollbackGoes, <1>22, NoTreeNoFit DEF SealInv, Task
    <3>2. seal' = seal /\ tree'[task[p].v] = None
      BY <1>22, <2>1 DEF Rollback, Task, TypeOK
    <3>3. \A w \in Versions : Fits(w)' => tree'[w] = seal'[w].of
      BY <2>3, <3>1, <3>2 DEF SealInv, Fits
    <3>4. ~(seal'[task[p].v] # None /\ seal'[task[p].v].fits)
      BY <3>1, <3>2 DEF Fits
    <3> QED
      BY <1>22, <2>1, <3>2, <3>3, <3>4, RollbackGoes DEF SealInv, Fits, Ends, Moves
  <2> QED
    BY <2>1, <2>2, <2>3, <2>4, LeaseMove
<1>23. ASSUME NEW p \in Procs, RollbackFails(p)
      PROVE  LeaseIntact' /\ TaskInv' /\ SealInv'
  <2>1. task[p] \in Task /\ task[p] # None /\ (Ends(p) \/ \E s \in Steps : Moves(p, s))
    BY <1>23, RollbackFailsGoes DEF Steps
  <2>2. task[p].op \notin ReadOps /\ tree' = tree
    BY <1>23, <2>1, RollbackFailsGoes DEF RollbackFails, StepsInv, ReadOps
  <2>3. UNCHANGED <<cache, session>> /\ \A w \in Versions \ {task[p].v} : tree'[w] = tree[w]
    BY <1>23 DEF RollbackFails
  <2>4. SealInv'
    BY <1>23, <2>1, RollbackFailsGoes DEF RollbackFails, SealInv, Fits, Ends, Moves, Task, TypeOK
  <2> QED
    BY <2>1, <2>2, <2>3, <2>4, LeaseMove
<1>24. ASSUME NEW p \in Procs, SweepRollback(p)
      PROVE  LeaseIntact' /\ TaskInv' /\ SealInv'
  <2>1. task[p] \in Task /\ task[p] # None /\ (Ends(p) \/ \E s \in Steps : Moves(p, s))
    BY <1>24, SweepRollbackGoes DEF Steps
  <2>2. task[p].op \notin ReadOps /\ tree' = tree
    BY <1>24, <2>1, SweepRollbackGoes DEF SweepRollback, StepsInv, ReadOps
  <2>3. UNCHANGED <<cache, session>> /\ \A w \in Versions \ {task[p].v} : tree'[w] = tree[w]
    BY <1>24 DEF SweepRollback
  <2>4. SealInv'
    BY <1>24, <2>1, SweepRollbackGoes DEF SweepRollback, SealInv, Fits, Ends, Moves, Task, TypeOK
  <2> QED
    BY <2>1, <2>2, <2>3, <2>4, LeaseMove
<1>25. ASSUME NEW p \in Procs, Restore(p)
      PROVE  LeaseIntact' /\ TaskInv' /\ SealInv'
  <2>1. task[p] \in Task /\ task[p] # None /\ (Ends(p) \/ \E s \in Steps : Moves(p, s))
    BY <1>25, RestoreGoes DEF Steps
  <2>2. task[p].op \notin ReadOps /\ task[p].op \in MoveOps
    BY <1>25, <2>1, RestoreGoes DEF StepsInv, Task, Ops, ReadOps, MoveOps
  <2>3. UNCHANGED <<cache, session>> /\ \A w \in Versions \ {task[p].v} : tree'[w] = tree[w]
    BY <1>25, <2>1 DEF Restore, TypeOK
  <2>4. SealInv'
    <3>1. ~Fits(task[p].v)
      BY <2>1, RestoreGoes, <1>25, NoTreeNoFit DEF SealInv, Task
    <3>2. seal' = seal
      BY <1>25, <2>1 DEF Restore, Task, TypeOK
    <3>3. \A w \in Versions : Fits(w)' => tree'[w] = seal'[w].of
      BY <2>3, <3>1, <3>2 DEF SealInv, Fits
    <3>4. ~(seal'[task[p].v] # None /\ seal'[task[p].v].fits)
      BY <3>1, <3>2 DEF Fits
    <3> QED
      BY <1>25, <2>1, <3>2, <3>3, <3>4, RestoreGoes DEF SealInv, Fits, Ends, Moves
  <2> QED
    BY <2>1, <2>2, <2>3, <2>4, LeaseMove
<1>26. ASSUME NEW p \in Procs, RestoreFails(p)
      PROVE  LeaseIntact' /\ TaskInv' /\ SealInv'
  <2>1. task[p] \in Task /\ task[p] # None /\ (Ends(p) \/ \E s \in Steps : Moves(p, s))
    BY <1>26, RestoreFailsGoes DEF Steps
  <2>2. task[p].op \notin ReadOps /\ tree' = tree
    BY <1>26, <2>1, RestoreFailsGoes DEF RestoreFails, StepsInv, ReadOps
  <2>3. UNCHANGED <<cache, session>> /\ \A w \in Versions \ {task[p].v} : tree'[w] = tree[w]
    BY <1>26 DEF RestoreFails
  <2>4. SealInv'
    BY <1>26, <2>1, RestoreFailsGoes DEF RestoreFails, SealInv, Fits, Ends, Moves, Task, TypeOK
  <2> QED
    BY <2>1, <2>2, <2>3, <2>4, LeaseMove
<1>27. ASSUME NEW p \in Procs, Quarantine(p)
      PROVE  LeaseIntact' /\ TaskInv' /\ SealInv'
  <2>1. task[p] \in Task /\ task[p] # None /\ (Ends(p) \/ \E s \in Steps : Moves(p, s))
    BY <1>27, QuarantineGoes DEF Steps
  <2>2. task[p].op \notin ReadOps /\ task[p].op \in MoveOps
    BY <1>27, <2>1, QuarantineGoes DEF StepsInv, Task, Ops, ReadOps, MoveOps
  <2>3. UNCHANGED <<cache, session>> /\ \A w \in Versions \ {task[p].v} : tree'[w] = tree[w]
    BY <1>27, <2>1 DEF Quarantine, TypeOK
  <2>4. SealInv'
    <3>1. CASE Ends(p) /\ UNCHANGED <<tree, receipt, seal>>
      BY <3>1 DEF SealInv, Fits, Ends
    <3>2. CASE /\ Moves(p, IF task[p].op = "remove" THEN "unreceipt" ELSE "stage")
               /\ tree' = [tree EXCEPT ![task[p].v] = None]
               /\ TouchSeals(task[p].v)
      <4>1. \A w \in Versions : Fits(w)' => Fits(w) /\ w # task[p].v /\ seal'[w] = seal[w]
        BY <2>1, <3>2, AgedKeeps DEF Task
      <4>2. tree'[task[p].v] = None
        BY <2>1, <3>2 DEF Task, TypeOK
      <4> QED
        BY <2>3, <3>2, <4>1, <4>2 DEF SealInv, Moves
    <3> QED
      BY <1>27, <3>1, <3>2, QuarantineMoves
  <2> QED
    BY <2>1, <2>2, <2>3, <2>4, LeaseMove
<1>28. ASSUME NEW p \in Procs, Unreceipt(p)
      PROVE  LeaseIntact' /\ TaskInv' /\ SealInv'
  <2>1. task[p] \in Task /\ task[p] # None /\ (Ends(p) \/ \E s \in Steps : Moves(p, s))
    BY <1>28, UnreceiptGoes DEF Steps
  <2>2. task[p].op \notin ReadOps /\ tree' = tree
    BY <1>28, <2>1, UnreceiptGoes DEF Unreceipt, StepsInv, ReadOps
  <2>3. UNCHANGED <<cache, session>> /\ \A w \in Versions \ {task[p].v} : tree'[w] = tree[w]
    BY <1>28 DEF Unreceipt
  <2>4. SealInv'
    BY <1>28, <2>1, UnreceiptGoes DEF Unreceipt, SealInv, Fits, Ends, Moves, Task, TypeOK
  <2> QED
    BY <2>1, <2>2, <2>3, <2>4, LeaseMove
<1>29. ASSUME NEW p \in Procs, Discard(p)
      PROVE  LeaseIntact' /\ TaskInv' /\ SealInv'
  <2>1. task[p] \in Task /\ task[p] # None /\ (Ends(p) \/ \E s \in Steps : Moves(p, s))
    BY <1>29, DiscardGoes DEF Steps
  <2>2. task[p].op \notin ReadOps /\ tree' = tree
    BY <1>29, <2>1, DiscardGoes DEF Discard, StepsInv, ReadOps
  <2>3. UNCHANGED <<cache, session>> /\ \A w \in Versions \ {task[p].v} : tree'[w] = tree[w]
    BY <1>29 DEF Discard
  <2>4. SealInv'
    BY <1>29, <2>1, DiscardGoes DEF Discard, SealInv, Fits, Ends, Moves, Task, TypeOK
  <2> QED
    BY <2>1, <2>2, <2>3, <2>4, LeaseMove
<1>30. ASSUME NEW p \in Procs, Crash(p)
      PROVE  LeaseIntact' /\ TaskInv' /\ SealInv'
  <2>1. Ends(p) /\ UNCHANGED <<tree, receipt, seal>>
    BY <1>30, CrashEnds DEF Crash
  <2>2. Shrinks
    BY <1>30 DEF Crash, Shrinks, Nothing, TypeOK
  <2> QED
    BY <2>1, <2>2, LeaseEnd
<1>31. ASSUME NEW v \in Versions, Damage(v)
      PROVE  LeaseIntact' /\ TaskInv' /\ SealInv'
  <2>1. \A q \in Procs : cache[q][v] = None /\ session[q][v] = None
    BY <1>31 DEF Damage, InUse
  <2>2. /\ \A q \in Procs : task[q] # None => task[q].v # v
        /\ UNCHANGED <<task, cache, session>>
        /\ \A w \in Versions \ {v} : tree'[w] = tree[w] /\ receipt'[w] = receipt[w] /\ seal'[w] = seal[w]
    BY <1>31 DEF Damage, TouchSeals, TypeOK
  <2>3. ~Fits(v)'
    BY <1>31, AgedKeeps DEF Damage
  <2>4. \A q \in Procs : task[q] # None => task[q].v \in Versions
    BY DEF TypeOK, Task
  <2>5. LeaseIntact'
    BY <2>1, <2>2 DEF LeaseIntact
  <2>6. TaskInv'
    BY <2>2, <2>4 DEF TaskInv
  <2>7. SealInv'
    BY <2>2, <2>3, <2>4 DEF SealInv, Fits
  <2> QED
    BY <2>5, <2>6, <2>7
<1>32. CASE UNCHANGED vars
  BY <1>32 DEF vars, LeaseIntact, TaskInv, SealInv, Fits
<1> QED
  BY <1>1, <1>2, <1>3, <1>4, <1>5, <1>6, <1>7, <1>8, <1>9, <1>10, <1>11, <1>12, <1>13, <1>14, <1>15, <1>16, <1>17, <1>18, <1>19, <1>20, <1>21, <1>22, <1>23, <1>24, <1>25, <1>26, <1>27, <1>28, <1>29, <1>30, <1>31, <1>32 DEF Next

-----------------------------------------------------------------------------
(* New sessions.                                                           *)

NewRunsEnabled ==
    \A q \in Procs, w \in Versions : session'[q][w] \notin {None, session[q][w]} => Enabled(w)'

LEMMA RunsStep ==
  ASSUME TypeOK, LockInv, DueInv, TaskInv, [Next]_vars
  PROVE  NewRunsEnabled
<1>1. ASSUME NEW p \in Procs, NEW v \in Versions, NEW b \in Builds, BeginInstall(p, v, b)
      PROVE  NewRunsEnabled
  BY <1>1 DEF BeginInstall, Begin, NewRunsEnabled
<1>2. ASSUME NEW p \in Procs, NEW v \in Versions, NEW b \in Builds, BeginRepair(p, v, b)
      PROVE  NewRunsEnabled
  BY <1>2 DEF BeginRepair, Begin, NewRunsEnabled
<1>3. ASSUME NEW p \in Procs, NEW v \in Versions, BeginRemove(p, v)
      PROVE  NewRunsEnabled
  BY <1>3 DEF BeginRemove, Begin, NewRunsEnabled
<1>4. ASSUME NEW p \in Procs, NEW v \in Versions, BeginEnable(p, v)
      PROVE  NewRunsEnabled
  BY <1>4 DEF BeginEnable, Begin, NewRunsEnabled
<1>5. ASSUME NEW p \in Procs, NEW v \in Versions, BeginEnableOnly(p, v)
      PROVE  NewRunsEnabled
  BY <1>5 DEF BeginEnableOnly, Begin, NewRunsEnabled
<1>6. ASSUME NEW p \in Procs, NEW v \in Versions, BeginDisable(p, v)
      PROVE  NewRunsEnabled
  BY <1>6 DEF BeginDisable, Begin, NewRunsEnabled
<1>7. ASSUME NEW p \in Procs, NEW v \in Versions, BeginVerify(p, v)
      PROVE  NewRunsEnabled
  BY <1>7 DEF BeginVerify, Begin, NewRunsEnabled
<1>8. ASSUME NEW p \in Procs, NEW v \in Versions, BeginResolve(p, v)
      PROVE  NewRunsEnabled
  BY <1>8 DEF BeginResolve, Begin, NewRunsEnabled
<1>9. ASSUME NEW p \in Procs, NEW v \in Versions, ResolveSealed(p, v)
      PROVE  NewRunsEnabled
  <2>1. \A q \in Procs, w \in Versions : q # p \/ w # v => session'[q][w] = session[q][w]
    BY <1>9 DEF ResolveSealed, TypeOK
  <2>2. Enabled(v) /\ receipt' = receipt
    BY <1>9 DEF ResolveSealed, CanResolve
  <2> QED
    BY <2>1, <2>2 DEF NewRunsEnabled, Enabled
<1>10. ASSUME NEW p \in Procs, NEW v \in Versions, ResolveCached(p, v)
      PROVE  NewRunsEnabled
  <2>1. CASE Revalidates(p, v)
    <3>1. \A q \in Procs, w \in Versions : q # p \/ w # v => session'[q][w] = session[q][w]
      BY <1>10, <2>1 DEF ResolveCached, TypeOK
    <3>2. Enabled(v) /\ receipt' = receipt
      BY <1>10, <2>1 DEF ResolveCached, Revalidates
    <3> QED
      BY <3>1, <3>2 DEF NewRunsEnabled, Enabled
  <2>2. CASE ~Revalidates(p, v)
    BY <1>10, <2>2 DEF ResolveCached, NewRunsEnabled
  <2> QED
    BY <2>1, <2>2
<1>11. ASSUME NEW p \in Procs, NEW op \in Ops, NEW v \in Versions, NEW b \in Builds, Refuse(p, op, v, b)
      PROVE  NewRunsEnabled
  BY <1>11 DEF Refuse, NewRunsEnabled
<1>12. ASSUME NEW p \in Procs, NEW op \in Ops, NEW v \in Versions, MeetBusy(p, op, v)
      PROVE  NewRunsEnabled
  BY <1>12 DEF MeetBusy, NewRunsEnabled
<1>13. ASSUME NEW p \in Procs, NEW v \in Versions, DropSession(p, v)
      PROVE  NewRunsEnabled
  BY <1>13 DEF DropSession, NewRunsEnabled, TypeOK
<1>14. ASSUME NEW p \in Procs, NEW v \in Versions, DropCached(p, v)
      PROVE  NewRunsEnabled
  BY <1>14 DEF DropCached, NewRunsEnabled
<1>15. ASSUME NEW p \in Procs, Stage(p)
      PROVE  NewRunsEnabled
  BY <1>15 DEF Stage, NewRunsEnabled
<1>16. ASSUME NEW p \in Procs, Publish(p)
      PROVE  NewRunsEnabled
  BY <1>16 DEF Publish, NewRunsEnabled
<1>17. ASSUME NEW p \in Procs, Link(p)
      PROVE  NewRunsEnabled
  BY <1>17 DEF Link, NewRunsEnabled
<1>18. ASSUME NEW p \in Procs, WriteSeal(p)
      PROVE  NewRunsEnabled
  BY <1>18 DEF WriteSeal, NewRunsEnabled
<1>19. ASSUME NEW p \in Procs, Commit(p)
      PROVE  NewRunsEnabled
  <2>1. task[p] \in Task /\ task[p] # None /\ task[p].v \in Versions
    BY <1>19, CommitGoes DEF Task
  <2>2. CASE task[p].op = "resolve"
    <3>1. \A q \in Procs, w \in Versions : q # p \/ w # task[p].v => session'[q][w] = session[q][w]
      BY <1>19, <2>1, <2>2 DEF Commit, Lease, TypeOK
    <3>2. task[p].due \in Receipt /\ task[p].due.enabled /\ Enabled(task[p].v)
      BY <2>1, <2>2 DEF DueInv, TaskInv, ReadOps, Enabled
    <3>3. receipt'[task[p].v] = task[p].due
      BY <1>19, <2>1 DEF Commit, TypeOK
    <3> QED
      BY <3>1, <3>2, <3>3, NoneAssumption DEF NewRunsEnabled, Enabled
  <2>3. CASE task[p].op # "resolve"
    BY <1>19, <2>3 DEF Commit, Lease, NewRunsEnabled
  <2> QED
    BY <2>2, <2>3
<1>20. ASSUME NEW p \in Procs, CommitFails(p)
      PROVE  NewRunsEnabled
  <2>1. task[p] \in Task /\ task[p] # None /\ task[p].v \in Versions
    BY <1>20, CommitFailsGoes DEF Task
  <2>2. CASE task[p].op = "resolve"
    <3>1. \A q \in Procs, w \in Versions : q # p \/ w # task[p].v => session'[q][w] = session[q][w]
      BY <1>20, <2>1, <2>2 DEF CommitFails, Lease, TypeOK
    <3>2. task[p].due \in Receipt /\ task[p].due.enabled /\ Enabled(task[p].v)
      BY <2>1, <2>2 DEF DueInv, TaskInv, ReadOps, Enabled
    <3>3. receipt' = receipt
      BY <1>20, <2>1 DEF CommitFails, TypeOK
    <3> QED
      BY <3>1, <3>2, <3>3, NoneAssumption DEF NewRunsEnabled, Enabled
  <2>3. CASE task[p].op # "resolve"
    BY <1>20, <2>3 DEF CommitFails, Lease, NewRunsEnabled
  <2> QED
    BY <2>2, <2>3
<1>21. ASSUME NEW p \in Procs, Unseal(p)
      PROVE  NewRunsEnabled
  BY <1>21 DEF Unseal, NewRunsEnabled
<1>22. ASSUME NEW p \in Procs, Rollback(p)
      PROVE  NewRunsEnabled
  BY <1>22 DEF Rollback, NewRunsEnabled
<1>23. ASSUME NEW p \in Procs, RollbackFails(p)
      PROVE  NewRunsEnabled
  BY <1>23 DEF RollbackFails, NewRunsEnabled
<1>24. ASSUME NEW p \in Procs, SweepRollback(p)
      PROVE  NewRunsEnabled
  BY <1>24 DEF SweepRollback, NewRunsEnabled
<1>25. ASSUME NEW p \in Procs, Restore(p)
      PROVE  NewRunsEnabled
  BY <1>25 DEF Restore, NewRunsEnabled
<1>26. ASSUME NEW p \in Procs, RestoreFails(p)
      PROVE  NewRunsEnabled
  BY <1>26 DEF RestoreFails, NewRunsEnabled
<1>27. ASSUME NEW p \in Procs, Quarantine(p)
      PROVE  NewRunsEnabled
  BY <1>27 DEF Quarantine, NewRunsEnabled
<1>28. ASSUME NEW p \in Procs, Unreceipt(p)
      PROVE  NewRunsEnabled
  BY <1>28 DEF Unreceipt, NewRunsEnabled
<1>29. ASSUME NEW p \in Procs, Discard(p)
      PROVE  NewRunsEnabled
  BY <1>29 DEF Discard, NewRunsEnabled
<1>30. ASSUME NEW p \in Procs, Crash(p)
      PROVE  NewRunsEnabled
  BY <1>30 DEF Crash, Nothing, NewRunsEnabled, TypeOK
<1>31. ASSUME NEW v \in Versions, Damage(v)
      PROVE  NewRunsEnabled
  BY <1>31 DEF Damage, NewRunsEnabled
<1>32. CASE UNCHANGED vars
  BY <1>32 DEF vars, NewRunsEnabled
<1> QED
  BY <1>1, <1>2, <1>3, <1>4, <1>5, <1>6, <1>7, <1>8, <1>9, <1>10, <1>11, <1>12, <1>13, <1>14, <1>15, <1>16, <1>17, <1>18, <1>19, <1>20, <1>21, <1>22, <1>23, <1>24, <1>25, <1>26, <1>27, <1>28, <1>29, <1>30, <1>31, <1>32 DEF Next

-----------------------------------------------------------------------------
(* The inductive invariant.                                                *)
IInv ==
    /\ TypeOK /\ LockInv /\ DueInv /\ StepsInv
    /\ OneEnabled /\ AloneInv
    /\ LeaseIntact /\ TaskInv /\ SealInv

LEMMA IInvInit == Init => IInv
<1> SUFFICES ASSUME Init PROVE IInv
  OBVIOUS
<1>1. TypeOK
  BY TypeInit
<1>2. LockInv /\ DueInv /\ StepsInv /\ AloneInv /\ TaskInv
  BY DEF Init, LockInv, DueInv, StepsInv, AloneInv, TaskInv
<1>3. OneEnabled /\ LeaseIntact /\ SealInv
  BY DEF Init, Nothing, OneEnabled, Enabled, LeaseIntact, SealInv, Fits
<1> QED
  BY <1>1, <1>2, <1>3 DEF IInv

LEMMA IInvStep == IInv /\ [Next]_vars => IInv'
  BY TypeStep, TasksStep, AloneStep, LeaseStep DEF IInv

LEMMA IInvCorrect == Spec => []IInv
  BY IInvInit, IInvStep, PTL DEF Spec

(* Every state the commands, the crashes and the damage lead to is one the *)
(* files can be in: lifecycle.rs keeps the parts of a version apart.        *)
THEOREM TypeCorrect == Spec => []TypeOK
<1>1. IInv => TypeOK
  BY DEF IInv
<1> QED
  BY <1>1, IInvCorrect, PTL

(* However commands are interrupted, no second version of an ID that is not *)
(* reserved gets enabled: ensure_no_other_enabled_version is enough.        *)
THEOREM OneEnabledCorrect == Spec => []OneEnabled
<1>1. IInv => OneEnabled
  BY DEF IInv
<1> QED
  BY <1>1, IInvCorrect, PTL

(* A lease, cached or held by a session, keeps naming the bytes on disk:    *)
(* the usage lock that remove and repair try, and the seal that spares the  *)
(* hashing, are enough for that.                                           *)
THEOREM LeaseIntactCorrect == Spec => []LeaseIntact
<1>1. IInv => LeaseIntact
  BY DEF IInv
<1> QED
  BY <1>1, IInvCorrect, PTL

(* A session only starts on a version that is enabled at that moment, even  *)
(* from a lease cached before another process disabled it.                 *)
THEOREM OnlyEnabledRunsCorrect == Spec => OnlyEnabledRuns
<1>1. IInv /\ [Next]_vars =>
        [\A p \in Procs, v \in Versions :
           session'[p][v] \notin {None, session[p][v]} => Enabled(v)']_vars
  BY RunsStep DEF IInv, NewRunsEnabled
<1> QED
  BY <1>1, IInvCorrect, PTL DEF Spec, OnlyEnabledRuns

-----------------------------------------------------------------------------
(* All or nothing.  How far a command t has come at a step: the tree x of  *)
(* its version is as it was found, away, or as the command promises, the   *)
(* receipt r is the old or the promised one, that of an install that takes *)
(* its tree back perhaps too, and the tree it may have to bring back is    *)
(* the one it has kept.                                                    *)
Linked(t, r) == t.op = "install" /\ t.was[2] = None /\ r = Goal(t)[2]
Midway(t, at, kept, x, r) ==
    /\ at \in {"quarantine", "seal"} => x = t.was[1]
    /\ at \in {"stage", "publish", "sweep", "restore", "unreceipt"} => x = None
    /\ at \in {"link", "rollback", "commit", "unseal", "discard"} => x = Goal(t)[1]
    /\ \/ r = IF at \in {"unseal", "discard"} THEN Goal(t)[2] ELSE t.was[2]
       \/ at \in {"rollback", "sweep"} /\ Linked(t, r)
    /\ t.op = "install" => t.was[1] = None
    /\ at \in {"stage", "publish", "link", "rollback", "sweep", "restore", "unreceipt"} =>
           kept = t.was[1]
    /\ at = "commit" => kept = t.was[1] \/ Goal(t)[1] = t.was[1]
    /\ t.op # "remove" => Core(t.due) = Goal(t)[2]
    /\ at \in {"stage", "publish", "link", "rollback"} => t.op \in {"install", "repair"}
    /\ at = "link" => t.op = "install"
    /\ at = "commit" => t.op \notin {"install", "remove"}
    /\ at = "seal" => t.op \in ReadOps
    /\ at = "quarantine" => t.op \in {"repair", "remove"}
    /\ at = "unreceipt" => t.op = "remove"

MidwayInv ==
    \A p \in Procs :
        LET t == task[p]
        IN  t # None => Midway(t, t.at, t.kept, tree[t.v], Core(receipt[t.v]))

(* What a step leaves when the command returns with it.                    *)
Whole(p) ==
    LET t == task[p]
        left == <<tree'[t.v], Core(receipt'[t.v])>>
    IN  left \in {t.was, Goal(t)} \/ HalfDone(t, left)
Returns ==
    \A p \in Procs :
        lock = p /\ lock' # p /\ ~Crash(p) /\ ~RollbackFails(p) /\ ~RestoreFails(p) => Whole(p)

LEMMA GoalIs ==
  ASSUME NEW t \in Task
  PROVE  /\ Goal(t) = <<Goal(t)[1], Goal(t)[2]>> /\ t.was = <<t.was[1], t.was[2]>>
         /\ t.op \in {"install", "repair"} =>
                Goal(t)[1] = t.b /\ Goal(t)[2] = [of |-> t.b, enabled |-> FALSE]
         /\ t.op = "remove" => Goal(t)[1] = None /\ Goal(t)[2] = None
         /\ t.op \in ReadOps \cup {"disable"} => Goal(t)[1] = t.was[1]
         /\ t.op \in {"enable", "enable_only"} /\ t.was[2] \in [of : Builds, enabled : BOOLEAN] =>
                Goal(t)[2] = [of |-> t.was[2].of, enabled |-> TRUE]
         /\ t.op = "disable" /\ t.was[2] \in [of : Builds, enabled : BOOLEAN] =>
                Goal(t)[2] = [of |-> t.was[2].of, enabled |-> FALSE]
         /\ t.op \in {"verify", "resolve"} => Goal(t)[2] = t.was[2]
<1> DEFINE on == [t.was[2] EXCEPT !.enabled = TRUE]
           off == [t.was[2] EXCEPT !.enabled = FALSE]
<1>1. t.op \in Ops /\ t.was \in Trees \X Cores
  BY DEF Task
<1>2. ASSUME t.op \in {"install", "repair"}
      PROVE  Goal(t) = <<t.b, [of |-> t.b, enabled |-> FALSE]>>
  BY <1>2 DEF Goal
<1>3. ASSUME t.op = "remove" PROVE Goal(t) = <<None, None>>
  BY <1>3 DEF Goal
<1>4. ASSUME t.op \in {"enable", "enable_only"} PROVE Goal(t) = <<t.was[1], on>>
  BY <1>4 DEF Goal
<1>5. ASSUME t.op = "disable" PROVE Goal(t) = <<t.was[1], off>>
  BY <1>5 DEF Goal
<1>6. ASSUME t.op \in {"verify", "resolve"} PROVE Goal(t) = t.was
  BY <1>6 DEF Goal
<1>7. ASSUME t.was[2] \in [of : Builds, enabled : BOOLEAN]
      PROVE  /\ on = [of |-> t.was[2].of, enabled |-> TRUE]
             /\ off = [of |-> t.was[2].of, enabled |-> FALSE]
  <2>1. /\ on \in [of : Builds, enabled : BOOLEAN] /\ on.of = t.was[2].of /\ on.enabled = TRUE
        /\ off \in [of : Builds, enabled : BOOLEAN] /\ off.of = t.was[2].of /\ off.enabled = FALSE
    BY <1>7
  <2> HIDE DEF on, off
  <2> QED
    BY <2>1
<1> HIDE DEF on, off
<1>8. t.was = <<t.was[1], t.was[2]>>
  BY <1>1
<1>9. Goal(t) = <<Goal(t)[1], Goal(t)[2]>>
  BY <1>1, <1>2, <1>3, <1>4, <1>5, <1>6, <1>8 DEF Ops
<1>10. t.op \in ReadOps \cup {"disable"} => Goal(t)[1] = t.was[1]
  BY <1>4, <1>5, <1>6 DEF ReadOps
<1>11. ASSUME t.was[2] \in [of : Builds, enabled : BOOLEAN]
       PROVE  /\ t.op \in {"enable", "enable_only"} =>
                     Goal(t)[2] = [of |-> t.was[2].of, enabled |-> TRUE]
              /\ t.op = "disable" => Goal(t)[2] = [of |-> t.was[2].of, enabled |-> FALSE]
  <2>1. ASSUME t.op \in {"enable", "enable_only"} PROVE Goal(t)[2] = on
    BY <1>4, <2>1
  <2>2. ASSUME t.op = "disable" PROVE Goal(t)[2] = off
    BY <1>5, <2>2
  <2>3. on = [of |-> t.was[2].of, enabled |-> TRUE] /\ off = [of |-> t.was[2].of, enabled |-> FALSE]
    BY <1>7, <1>11
  <2> QED
    BY Zenon, <2>1, <2>2, <2>3
<1> QED
  BY <1>2, <1>3, <1>6, <1>8, <1>9, <1>10, <1>11

LEMMA TouchCore ==
  ASSUME TypeOK, NEW v \in Versions, TouchSeals(v)
  PROVE  \A w \in Versions : Core(receipt'[w]) = Core(receipt[w])
<1>1. \A w \in Versions : receipt[w] # None =>
          /\ receipt'[w] # None
          /\ receipt'[w].of = receipt[w].of /\ receipt'[w].enabled = receipt[w].enabled
  BY AgedKeeps
<1>2. \A w \in Versions : receipt[w] = None => receipt'[w] = None
  BY DEF TouchSeals, TypeOK, AgedReceipt
<1> QED
  BY <1>1, <1>2 DEF Core

(* A step of the task moves it on, or the command returns.                 *)
LEMMA MovesOn ==
  ASSUME TypeOK, LockInv, NEW p \in Procs, task[p] \in Task, task[p] # None, NEW s, Moves(p, s),
         Midway(task[p], s, task'[p].kept, tree'[task[p].v], Core(receipt'[task[p].v]))
  PROVE  MidwayInv' /\ Returns
<1> DEFINE t == task[p]
           u == task'[p]
<1>1. /\ u.at = s /\ u.op = t.op /\ u.v = t.v /\ u.b = t.b /\ u.was = t.was
      /\ \A q \in Procs \ {p} : task'[q] = None
      /\ lock' = lock
  BY DEF Moves
<1>2. Goal(u) = Goal(t)
  BY <1>1 DEF Goal
<1>3. Core(u.due) = Core(t.due)
  BY DEF Moves, Core
<1> HIDE DEF t, u
<1>4. Midway(u, u.at, u.kept, tree'[u.v], Core(receipt'[u.v]))
  BY <1>1, <1>2, <1>3 DEF Midway, Linked, t, u
<1>5. MidwayInv'
  BY <1>1, <1>4 DEF MidwayInv, u
<1>6. Returns
  BY <1>1, LifecycleAssumption DEF Returns
<1> QED
  BY <1>5, <1>6

LEMMA EndsOn ==
  ASSUME LockInv, NEW p \in Procs, task[p] # None, Ends(p),
         Whole(p) \/ Crash(p) \/ RollbackFails(p) \/ RestoreFails(p)
  PROVE  MidwayInv' /\ Returns
<1>1. lock = p /\ \A q \in Procs : task'[q] = None
  BY DEF LockInv, Ends
<1>2. MidwayInv'
  BY <1>1 DEF MidwayInv
<1> QED
  BY <1>1, <1>2 DEF Returns

LEMMA UndoKeeps ==
  ASSUME TypeOK, LockInv, NEW p \in Procs, task[p] # None, Undo(p)
  PROVE  \/ Ends(p) /\ task[p].kept = None
         \/ Moves(p, "restore") /\ task'[p].kept = task[p].kept /\ task[p].kept # None
<1>1. CASE task[p].kept = None
  BY <1>1, FinishEnds DEF Undo
<1>2. CASE task[p].kept # None
  BY <1>2, GotoMoves, GotoKeeps DEF Undo, Steps
<1> QED
  BY <1>1, <1>2

LEMMA GotoOn ==
  ASSUME TypeOK, LockInv, NEW p \in Procs, task[p] \in Task, task[p] # None, NEW s \in Steps, Goto(p, s),
         Midway(task[p], s, task[p].kept, tree'[task[p].v], Core(receipt'[task[p].v]))
  PROVE  MidwayInv' /\ Returns
<1>1. Moves(p, s) /\ task'[p].kept = task[p].kept
  BY GotoMoves, GotoKeeps
<1> QED
  BY <1>1, MovesOn

LEMMA FinishOn ==
  ASSUME TypeOK, LockInv, NEW p \in Procs, task[p] # None, Finish(p), Whole(p)
  PROVE  MidwayInv' /\ Returns
  BY FinishEnds, EndsOn

(* A command takes nothing but its own cache along when it begins.         *)
Starts(op, v, b, at, due) ==
    \A t \in Task :
        t.op = op /\ t.b = b /\ t.due = due /\ t.was = <<tree[v], Core(receipt[v])>> =>
            Midway(t, at, None, tree[v], Core(receipt[v]))

LEMMA BeginOn ==
  ASSUME TypeOK, LockInv, NEW p \in Procs, NEW op \in Ops, NEW v \in Versions,
         NEW b \in Builds \cup {None}, NEW at \in Steps, NEW due \in Receipt \cup {None},
         Begin(p, op, v, b, at, due), Starts(op, v, b, at, due)
  PROVE  MidwayInv' /\ Returns
<1>1. <<tree[v], Core(receipt[v])>> \in Trees \X Cores
  BY DEF TypeOK, Core, Cores, Receipt
<1> DEFINE t == NewTask(op, v, b, at, due)
<1>2. /\ t \in Task /\ t.op = op /\ t.v = v /\ t.b = b /\ t.at = at /\ t.due = due
      /\ t.kept = None /\ t.was = <<tree[v], Core(receipt[v])>>
  BY <1>1, LifecycleAssumption DEF NewTask, Task, Trees
<1>3. /\ \A q \in Procs \ {p} : task'[q] = None
      /\ lock = None /\ tree' = tree /\ receipt' = receipt
  BY BeginsTask DEF Begin, Idle
<1>4. task'[p] = t
  BY DEF Begin, TypeOK
<1> HIDE DEF t
<1>5. Midway(t, t.at, t.kept, tree[t.v], Core(receipt[t.v]))
  BY <1>2 DEF Starts
<1>6. MidwayInv'
  BY <1>3, <1>4, <1>5 DEF MidwayInv
<1>7. Returns
  BY <1>3, LifecycleAssumption DEF Returns
<1> QED
  BY <1>6, <1>7

LEMMA StillOn ==
  ASSUME MidwayInv, UNCHANGED <<tree, receipt, task, lock>>
  PROVE  MidwayInv' /\ Returns
<1>1. \A p \in Procs : task'[p] = task[p]
  OBVIOUS
<1>2. MidwayInv'
  BY <1>1 DEF MidwayInv
<1>3. Returns
  BY DEF Returns
<1> QED
  BY <1>2, <1>3

LEMMA MidwayAt ==
  ASSUME TypeOK, MidwayInv, NEW p \in Procs, task[p] # None
  PROVE  /\ task[p] \in Task /\ task[p].v \in Versions
         /\ Midway(task[p], task[p].at, task[p].kept, tree[task[p].v], Core(receipt[task[p].v]))
  BY DEF MidwayInv, TypeOK, Task

LEMMA WholeOld ==
  ASSUME NEW p \in Procs, task[p] \in Task, tree'[task[p].v] = task[p].was[1],
         Core(receipt'[task[p].v]) = task[p].was[2]
  PROVE  Whole(p)
  BY GoalIs DEF Whole

LEMMA WholeNew ==
  ASSUME NEW p \in Procs, task[p] \in Task, tree'[task[p].v] = Goal(task[p])[1],
         Core(receipt'[task[p].v]) = Goal(task[p])[2]
  PROVE  Whole(p)
  BY GoalIs DEF Whole

(* The receipts the commands write.                                        *)
LEMMA CoreDisabled ==
  ASSUME NEW b \in Builds
  PROVE  /\ Disabled(b) \in Receipt
         /\ Core(Disabled(b)) = [of |-> b, enabled |-> FALSE]
<1>1. Disabled(b) \in Receipt /\ Disabled(b).of = b /\ Disabled(b).enabled = FALSE
  BY DEF Disabled, Receipt
<1> QED
  BY <1>1, NoneAssumption DEF Core

LEMMA CoreEnabling ==
  ASSUME TypeOK, NEW v \in Versions, receipt[v] # None
  PROVE  /\ receipt[v].of \in Builds
         /\ Core(receipt[v]) \in [of : Builds, enabled : BOOLEAN]
         /\ Core(receipt[v]).of = receipt[v].of
         /\ Core([receipt[v] EXCEPT !.enabled = TRUE]) = [of |-> receipt[v].of, enabled |-> TRUE]
<1> DEFINE r == [receipt[v] EXCEPT !.enabled = TRUE]
<1>1. receipt[v] \in Receipt
  BY DEF TypeOK
<1>2. r \in Receipt /\ r.of = receipt[v].of /\ r.enabled = TRUE
  BY <1>1 DEF Receipt
<1>3. Core(receipt[v]) \in [of : Builds, enabled : BOOLEAN] /\ Core(receipt[v]).of = receipt[v].of
  BY <1>1 DEF Core, Receipt
<1> HIDE DEF r
<1>4. Core(r) = [of |-> r.of, enabled |-> r.enabled]
  BY <1>2, NoneAssumption DEF Core
<1>5. Core(r) = [of |-> receipt[v].of, enabled |-> TRUE]
  BY <1>2, <1>4
<1>6. receipt[v].of \in Builds
  BY <1>1 DEF Receipt
<1> QED
  BY <1>3, <1>5, <1>6 DEF r

(* The undo of a command that has not got its new tree in.                 *)
LEMMA UndoOn ==
  ASSUME TypeOK, LockInv, MidwayInv, NEW p \in Procs, task[p] # None,
         task[p].at \in {"stage", "publish", "sweep"}, Undo(p), UNCHANGED <<tree, receipt>>
  PROVE  MidwayInv' /\ Returns
<1>1. /\ task[p] \in Task
      /\ tree[task[p].v] = None /\ task[p].kept = task[p].was[1]
      /\ \/ Core(receipt[task[p].v]) = task[p].was[2]
         \/ Linked(task[p], Core(receipt[task[p].v]))
      /\ task[p].op = "install" => task[p].was[1] = None
      /\ task[p].op # "remove" => Core(task[p].due) = Goal(task[p])[2]
  BY MidwayAt DEF Midway
<1>2. CASE Ends(p) /\ task[p].kept = None
  <2>1. CASE Core(receipt[task[p].v]) = task[p].was[2]
    BY <1>1, <1>2, <2>1, WholeOld, EndsOn
  <2>2. CASE Linked(task[p], Core(receipt[task[p].v]))
    <3>1. task[p].was = <<None, None>>
      BY <1>1, <2>2, GoalIs DEF Linked
    <3>2. Whole(p)
      BY <1>1, <2>2, <3>1 DEF Whole, HalfDone, Linked
    <3> QED
      BY <1>2, <3>2, EndsOn
  <2> QED
    BY <1>1, <2>1, <2>2
<1>3. CASE Moves(p, "restore") /\ task'[p].kept = task[p].kept /\ task[p].kept # None
  <2>1. Midway(task[p], "restore", task'[p].kept, tree'[task[p].v], Core(receipt'[task[p].v]))
    BY <1>1, <1>3 DEF Midway, Linked
  <2> QED
    BY <1>1, <1>3, <2>1, MovesOn
<1> QED
  BY <1>2, <1>3, UndoKeeps

LEMMA QuarantineKeeps ==
  ASSUME TypeOK, LockInv, NEW p \in Procs, Quarantine(p)
  PROVE  \/ Ends(p) /\ UNCHANGED <<tree, receipt>>
         \/ /\ Moves(p, IF task[p].op = "remove" THEN "unreceipt" ELSE "stage")
            /\ task'[p].kept = tree[task[p].v]
            /\ tree'[task[p].v] = None
            /\ TouchSeals(task[p].v)
<1>1. task[p] \in Task /\ task[p] # None /\ task[p].v \in Versions
  BY DEF Quarantine, At, TypeOK, Task
<1>2. CASE Mishap /\ Finish(p) /\ UNCHANGED <<tree, receipt, seal, litter>>
  BY <1>1, <1>2, FinishEnds
<1>3. CASE ~(Mishap /\ Finish(p) /\ UNCHANGED <<tree, receipt, seal, litter>>)
  <2> DEFINE at == IF task[p].op = "remove" THEN "unreceipt" ELSE "stage"
             t == [task[p] EXCEPT !.kept = tree[task[p].v], !.at = at]
  <2>1. task' = [task EXCEPT ![p].kept = tree[task[p].v], ![p].at = at]
    BY <1>3 DEF Quarantine
  <2>2. task'[p] = t /\ t.kept = tree[task[p].v] /\ t.at = at
    BY <1>1, <2>1 DEF TypeOK, Task
  <2>3. task'[p] # None
    <3>1. t \in Task
      BY <1>1 DEF TypeOK, Task, Steps
    <3> QED
      BY <2>2, <3>1, NoneAssumption
  <2>4. ~Ends(p)
    BY <2>3 DEF Ends
  <2>5. /\ Moves(p, at) /\ tree' = [tree EXCEPT ![task[p].v] = None] /\ TouchSeals(task[p].v)
    BY <2>4, QuarantineMoves
  <2> QED
    BY <1>1, <2>2, <2>5 DEF TypeOK
<1> QED
  BY <1>2, <1>3

LEMMA MidwayStep ==
  ASSUME TypeOK, LockInv, DueInv, StepsInv, MidwayInv, [Next]_vars
  PROVE  MidwayInv' /\ Returns
<1> USE LifecycleAssumption
<1>1. ASSUME NEW p \in Procs, NEW v \in Versions, NEW b \in Builds, BeginInstall(p, v, b)
      PROVE  MidwayInv' /\ Returns
  <2>1. tree[v] = None
    BY <1>1 DEF BeginInstall, CanInstall
  <2>2. Starts("install", v, b, "stage", Disabled(b))
    <3> SUFFICES ASSUME NEW t \in Task, t.op = "install", t.b = b, t.due = Disabled(b),
                        t.was = <<tree[v], Core(receipt[v])>>
                 PROVE  Midway(t, "stage", None, tree[v], Core(receipt[v]))
      BY DEF Starts
    <3>1. t.was[1] = tree[v] /\ t.was[2] = Core(receipt[v])
      OBVIOUS
    <3>2. Core(t.due) = Goal(t)[2]
      BY <2>1, <3>1, GoalIs, CoreDisabled DEF ReadOps
    <3> QED
      BY <2>1, <3>1, <3>2 DEF Midway, ReadOps
  <2>3. Begin(p, "install", v, b, "stage", Disabled(b))
    BY <1>1 DEF BeginInstall
  <2>4. "install" \in Ops /\ "stage" \in Steps
    BY DEF Ops, Steps
  <2>5. Disabled(b) \in Receipt \cup {None}
    BY CoreDisabled
  <2> QED
    BY <2>2, <2>3, <2>4, <2>5, BeginOn
<1>2. ASSUME NEW p \in Procs, NEW v \in Versions, NEW b \in Builds, BeginRepair(p, v, b)
      PROVE  MidwayInv' /\ Returns
  <2> DEFINE at == IF tree[v] = None THEN "stage" ELSE IF tree[v] = b THEN "commit" ELSE "quarantine"
  <2>1. Starts("repair", v, b, at, Disabled(b))
    <3> SUFFICES ASSUME NEW t \in Task, t.op = "repair", t.b = b, t.due = Disabled(b),
                        t.was = <<tree[v], Core(receipt[v])>>
                 PROVE  Midway(t, at, None, tree[v], Core(receipt[v]))
      BY DEF Starts
    <3>1. Goal(t)[1] = b /\ Core(t.due) = Goal(t)[2]
      BY GoalIs, CoreDisabled
    <3>2. CASE tree[v] = None
      BY <3>1, <3>2 DEF Midway
    <3>3. CASE tree[v] # None /\ tree[v] = b
      BY <3>1, <3>3 DEF Midway
    <3>4. CASE tree[v] # None /\ tree[v] # b
      BY <3>1, <3>4 DEF Midway
    <3> QED
      BY <3>2, <3>3, <3>4
  <2>2. Begin(p, "repair", v, b, at, Disabled(b))
    BY <1>2 DEF BeginRepair
  <2>3. at \in Steps /\ "repair" \in Ops
    BY DEF Steps, Ops
  <2>4. Disabled(b) \in Receipt \cup {None}
    BY CoreDisabled
  <2> HIDE DEF at
  <2> QED
    BY <2>1, <2>2, <2>3, <2>4, BeginOn
<1>3. ASSUME NEW p \in Procs, NEW v \in Versions, BeginRemove(p, v)
      PROVE  MidwayInv' /\ Returns
  <2>1. None \in Receipt \cup {None}
    OBVIOUS
  <2>2. Starts("remove", v, None, "quarantine", None)
    <3> SUFFICES ASSUME NEW t \in Task, t.op = "remove", t.b = None, t.due = None,
                        t.was = <<tree[v], Core(receipt[v])>>
                 PROVE  Midway(t, "quarantine", None, tree[v], Core(receipt[v]))
      BY DEF Starts
    <3>1. t.was[1] = tree[v] /\ t.was[2] = Core(receipt[v])
      OBVIOUS
    <3>2. t.was[1] = tree[v]
      BY <2>1, <3>1, GoalIs
    <3> QED
      BY <2>1, <3>1, <3>2 DEF Midway, ReadOps
  <2>3. Begin(p, "remove", v, None, "quarantine", None)
    BY <1>3 DEF BeginRemove
  <2>4. "remove" \in Ops /\ "quarantine" \in Steps
    BY DEF Ops, Steps
  <2>5. None \in Receipt \cup {None}
    BY <2>1
  <2> QED
    BY <2>2, <2>3, <2>4, <2>5, BeginOn
<1>4. ASSUME NEW p \in Procs, NEW v \in Versions, BeginEnable(p, v)
      PROVE  MidwayInv' /\ Returns
  <2>1. receipt[v] # None
    BY <1>4 DEF BeginEnable, CanEnable, Valid
  <2>2. Starts("enable", v, None, "seal", [receipt[v] EXCEPT !.enabled = TRUE])
    <3> SUFFICES ASSUME NEW t \in Task, t.op = "enable", t.b = None, t.due = [receipt[v] EXCEPT !.enabled = TRUE],
                        t.was = <<tree[v], Core(receipt[v])>>
                 PROVE  Midway(t, "seal", None, tree[v], Core(receipt[v]))
      BY DEF Starts
    <3>1. t.was[1] = tree[v] /\ t.was[2] = Core(receipt[v])
      OBVIOUS
    <3>2. Core(t.due) = Goal(t)[2]
      <4>1. t.was[2] \in [of : Builds, enabled : BOOLEAN] /\ t.was[2].of = receipt[v].of
        BY <2>1, <3>1, CoreEnabling
      <4>2. Goal(t)[2] = [of |-> t.was[2].of, enabled |-> TRUE]
        BY <4>1, GoalIs DEF ReadOps
      <4>3. Core(t.due) = [of |-> receipt[v].of, enabled |-> TRUE]
        BY <2>1, CoreEnabling
      <4> QED
        BY <4>1, <4>2, <4>3
    <3> QED
      BY <2>1, <3>1, <3>2 DEF Midway, ReadOps
  <2>3. Begin(p, "enable", v, None, "seal", [receipt[v] EXCEPT !.enabled = TRUE])
    BY <1>4 DEF BeginEnable
  <2>4. "enable" \in Ops /\ "seal" \in Steps
    BY DEF Ops, Steps
  <2>5. [receipt[v] EXCEPT !.enabled = TRUE] \in Receipt \cup {None}
    BY <2>1, EnablingTyped
  <2> QED
    BY <2>2, <2>3, <2>4, <2>5, BeginOn
<1>5. ASSUME NEW p \in Procs, NEW v \in Versions, BeginEnableOnly(p, v)
      PROVE  MidwayInv' /\ Returns
  <2>1. receipt[v] # None
    BY <1>5 DEF BeginEnableOnly, CanEnableOnly, Valid
  <2>2. Starts("enable_only", v, None, "seal", [receipt[v] EXCEPT !.enabled = TRUE])
    <3> SUFFICES ASSUME NEW t \in Task, t.op = "enable_only", t.b = None, t.due = [receipt[v] EXCEPT !.enabled = TRUE],
                        t.was = <<tree[v], Core(receipt[v])>>
                 PROVE  Midway(t, "seal", None, tree[v], Core(receipt[v]))
      BY DEF Starts
    <3>1. t.was[1] = tree[v] /\ t.was[2] = Core(receipt[v])
      OBVIOUS
    <3>2. Core(t.due) = Goal(t)[2]
      <4>1. t.was[2] \in [of : Builds, enabled : BOOLEAN] /\ t.was[2].of = receipt[v].of
        BY <2>1, <3>1, CoreEnabling
      <4>2. Goal(t)[2] = [of |-> t.was[2].of, enabled |-> TRUE]
        BY <4>1, GoalIs DEF ReadOps
      <4>3. Core(t.due) = [of |-> receipt[v].of, enabled |-> TRUE]
        BY <2>1, CoreEnabling
      <4> QED
        BY <4>1, <4>2, <4>3
    <3> QED
      BY <2>1, <3>1, <3>2 DEF Midway, ReadOps
  <2>3. Begin(p, "enable_only", v, None, "seal", [receipt[v] EXCEPT !.enabled = TRUE])
    BY <1>5 DEF BeginEnableOnly
  <2>4. "enable_only" \in Ops /\ "seal" \in Steps
    BY DEF Ops, Steps
  <2>5. [receipt[v] EXCEPT !.enabled = TRUE] \in Receipt \cup {None}
    BY <2>1, EnablingTyped
  <2> QED
    BY <2>2, <2>3, <2>4, <2>5, BeginOn
<1>6. ASSUME NEW p \in Procs, NEW v \in Versions, BeginDisable(p, v)
      PROVE  MidwayInv' /\ Returns
  <2>1. receipt[v] # None
    BY <1>6 DEF BeginDisable, CanDisable
  <2>2. Starts("disable", v, None, "commit", Disabled(receipt[v].of))
    <3> SUFFICES ASSUME NEW t \in Task, t.op = "disable", t.b = None, t.due = Disabled(receipt[v].of),
                        t.was = <<tree[v], Core(receipt[v])>>
                 PROVE  Midway(t, "commit", None, tree[v], Core(receipt[v]))
      BY DEF Starts
    <3>1. t.was[1] = tree[v] /\ t.was[2] = Core(receipt[v])
      OBVIOUS
    <3>2. Core(t.due) = Goal(t)[2] /\ Goal(t)[1] = t.was[1]
      <4>1. t.was[2] \in [of : Builds, enabled : BOOLEAN] /\ t.was[2].of = receipt[v].of
        BY <2>1, <3>1, CoreEnabling
      <4>2. Goal(t)[2] = [of |-> t.was[2].of, enabled |-> FALSE] /\ Goal(t)[1] = t.was[1]
        BY <4>1, GoalIs DEF ReadOps
      <4>3. Core(t.due) = [of |-> receipt[v].of, enabled |-> FALSE]
        BY <2>1, CoreEnabling, CoreDisabled
      <4> QED
        BY <4>1, <4>2, <4>3
    <3> QED
      BY <2>1, <3>1, <3>2 DEF Midway, ReadOps
  <2>3. Begin(p, "disable", v, None, "commit", Disabled(receipt[v].of))
    BY <1>6 DEF BeginDisable
  <2>4. "disable" \in Ops /\ "commit" \in Steps
    BY DEF Ops, Steps
  <2>5. Disabled(receipt[v].of) \in Receipt \cup {None}
    BY <2>1, CoreEnabling, CoreDisabled
  <2> QED
    BY <2>2, <2>3, <2>4, <2>5, BeginOn
<1>7. ASSUME NEW p \in Procs, NEW v \in Versions, BeginVerify(p, v)
      PROVE  MidwayInv' /\ Returns
  <2>1. receipt[v] \in Receipt \cup {None}
    BY DEF TypeOK
  <2>2. Starts("verify", v, None, "seal", receipt[v])
    <3> SUFFICES ASSUME NEW t \in Task, t.op = "verify", t.b = None, t.due = receipt[v],
                        t.was = <<tree[v], Core(receipt[v])>>
                 PROVE  Midway(t, "seal", None, tree[v], Core(receipt[v]))
      BY DEF Starts
    <3>1. t.was[1] = tree[v] /\ t.was[2] = Core(receipt[v])
      OBVIOUS
    <3>2. Core(t.due) = Goal(t)[2]
      BY <2>1, <3>1, GoalIs
    <3> QED
      BY <2>1, <3>1, <3>2 DEF Midway, ReadOps
  <2>3. Begin(p, "verify", v, None, "seal", receipt[v])
    BY <1>7 DEF BeginVerify
  <2>4. "verify" \in Ops /\ "seal" \in Steps
    BY DEF Ops, Steps
  <2>5. receipt[v] \in Receipt \cup {None}
    BY <2>1
  <2> QED
    BY <2>2, <2>3, <2>4, <2>5, BeginOn
<1>8. ASSUME NEW p \in Procs, NEW v \in Versions, BeginResolve(p, v)
      PROVE  MidwayInv' /\ Returns
  <2>1. receipt[v] \in Receipt \cup {None}
    BY DEF TypeOK
  <2>2. Starts("resolve", v, None, "seal", receipt[v])
    <3> SUFFICES ASSUME NEW t \in Task, t.op = "resolve", t.b = None, t.due = receipt[v],
                        t.was = <<tree[v], Core(receipt[v])>>
                 PROVE  Midway(t, "seal", None, tree[v], Core(receipt[v]))
      BY DEF Starts
    <3>1. t.was[1] = tree[v] /\ t.was[2] = Core(receipt[v])
      OBVIOUS
    <3>2. Core(t.due) = Goal(t)[2]
      BY <2>1, <3>1, GoalIs
    <3> QED
      BY <2>1, <3>1, <3>2 DEF Midway, ReadOps
  <2>3. Begin(p, "resolve", v, None, "seal", receipt[v])
    BY <1>8 DEF BeginResolve
  <2>4. "resolve" \in Ops /\ "seal" \in Steps
    BY DEF Ops, Steps
  <2>5. receipt[v] \in Receipt \cup {None}
    BY <2>1
  <2> QED
    BY <2>2, <2>3, <2>4, <2>5, BeginOn
<1>9. ASSUME NEW p \in Procs, NEW v \in Versions, ResolveSealed(p, v)
      PROVE  MidwayInv' /\ Returns
  BY <1>9, StillOn DEF ResolveSealed
<1>10. ASSUME NEW p \in Procs, NEW v \in Versions, ResolveCached(p, v)
      PROVE  MidwayInv' /\ Returns
  BY <1>10, StillOn DEF ResolveCached
<1>11. ASSUME NEW p \in Procs, NEW v \in Versions, NEW op \in Ops, NEW b \in Builds, Refuse(p, op, v, b)
      PROVE  MidwayInv' /\ Returns
  BY <1>11, StillOn DEF Refuse
<1>12. ASSUME NEW p \in Procs, NEW v \in Versions, NEW op \in Ops, MeetBusy(p, op, v)
      PROVE  MidwayInv' /\ Returns
  BY <1>12, StillOn DEF MeetBusy
<1>13. ASSUME NEW p \in Procs, NEW v \in Versions, DropSession(p, v)
      PROVE  MidwayInv' /\ Returns
  BY <1>13, StillOn DEF DropSession
<1>14. ASSUME NEW p \in Procs, NEW v \in Versions, DropCached(p, v)
      PROVE  MidwayInv' /\ Returns
  BY <1>14, StillOn DEF DropCached
<1>15. ASSUME NEW p \in Procs, Stage(p)
      PROVE  MidwayInv' /\ Returns
  <2> DEFINE t == task[p]
             v == task[p].v
  <2>0. task[p] # None /\ t.at = "stage"
    BY <1>15 DEF Stage, At
  <2>1. t \in Task /\ v \in Versions /\ Midway(t, "stage", t.kept, tree[v], Core(receipt[v]))
    BY <2>0, MidwayAt
  <2>2. UNCHANGED <<tree, receipt>>
    BY <1>15 DEF Stage
  <2>3. CASE Undo(p)
    BY <2>0, <2>2, <2>3, UndoOn
  <2>4. CASE Goto(p, "publish")
    <3>1. Midway(t, "publish", t.kept, tree'[v], Core(receipt'[v]))
      BY <2>1, <2>2 DEF Midway
    <3> QED
      BY <2>0, <2>1, <2>4, <3>1, GotoOn DEF Steps
  <2> QED
    BY <1>15, <2>3, <2>4 DEF Stage
<1>16. ASSUME NEW p \in Procs, Publish(p)
      PROVE  MidwayInv' /\ Returns
  <2> DEFINE t == task[p]
             v == task[p].v
  <2>0. task[p] # None /\ t.at = "publish"
    BY <1>16 DEF Publish, At
  <2>1. t \in Task /\ v \in Versions /\ Midway(t, "publish", t.kept, tree[v], Core(receipt[v]))
    BY <2>0, MidwayAt
  <2>2. receipt' = receipt
    BY <1>16 DEF Publish
  <2> DEFINE s == IF t.op = "install" THEN "link" ELSE "commit"
  <2>3. CASE Undo(p) /\ tree' = tree
    BY <2>0, <2>2, <2>3, UndoOn
  <2>4. CASE Goto(p, s) /\ tree' = [tree EXCEPT ![v] = t.b]
    <3>1. tree'[v] = t.b /\ Goal(t)[1] = t.b
      BY <2>1, <2>4, GoalIs DEF Midway, TypeOK
    <3>2. Midway(t, s, t.kept, tree'[v], Core(receipt'[v]))
      BY <2>1, <2>2, <3>1 DEF Midway
    <3> QED
      BY <2>0, <2>1, <2>4, <3>2, GotoOn DEF Steps
  <2>5. CASE Finish(p) /\ tree' = [tree EXCEPT ![v] = t.b]
    <3>1. tree'[v] = t.b /\ Core(receipt'[v]) = t.was[2] /\ t.op \in {"install", "repair"}
      BY <2>1, <2>2, <2>5 DEF Midway, TypeOK
    <3>2. Whole(p)
      BY <3>1 DEF Whole, HalfDone
    <3> QED
      BY <2>0, <2>5, <3>2, FinishOn
  <2> QED
    BY <1>16, <2>3, <2>4, <2>5 DEF Publish
<1>17. ASSUME NEW p \in Procs, Link(p)
      PROVE  MidwayInv' /\ Returns
  <2> DEFINE t == task[p]
             v == task[p].v
  <2>0. task[p] # None /\ t.at = "link"
    BY <1>17 DEF Link, At
  <2>1. t \in Task /\ v \in Versions /\ Midway(t, "link", t.kept, tree[v], Core(receipt[v]))
    BY <2>0, MidwayAt
  <2>2. tree' = tree
    BY <1>17 DEF Link
  <2>3. CASE Goto(p, "unseal") /\ receipt' = [receipt EXCEPT ![v] = t.due]
    <3>1. receipt'[v] = t.due
      BY <2>1, <2>3 DEF TypeOK
    <3>2. Midway(t, "unseal", t.kept, tree'[v], Core(receipt'[v]))
      BY <2>1, <2>2, <3>1 DEF Midway
    <3> QED
      BY <2>0, <2>1, <2>3, <3>2, GotoOn DEF Steps
  <2>4. CASE Goto(p, "rollback") /\ receipt' = receipt
    <3>1. Midway(t, "rollback", t.kept, tree'[v], Core(receipt'[v]))
      BY <2>1, <2>2, <2>4 DEF Midway
    <3> QED
      BY <2>0, <2>1, <2>4, <3>1, GotoOn DEF Steps
  <2>5. CASE Goto(p, "rollback") /\ receipt[v] = None /\ receipt' = [receipt EXCEPT ![v] = t.due]
    <3>1. receipt'[v] = t.due
      BY <2>1, <2>5 DEF TypeOK
    <3>2. Core(receipt[v]) = None /\ t.was[2] = None /\ t.op = "install"
      BY <2>1, <2>5 DEF Midway, Core
    <3>3. Midway(t, "rollback", t.kept, tree'[v], Core(receipt'[v]))
      BY <2>1, <2>2, <3>1, <3>2 DEF Midway, Linked
    <3> QED
      BY <2>0, <2>1, <2>5, <3>3, GotoOn DEF Steps
  <2> QED
    BY <1>17, <2>3, <2>4, <2>5 DEF Link
<1>18. ASSUME NEW p \in Procs, WriteSeal(p)
      PROVE  MidwayInv' /\ Returns
  <2> DEFINE t == task[p]
             v == task[p].v
  <2>0. task[p] # None /\ t.at = "seal"
    BY <1>18 DEF WriteSeal, At
  <2>1. t \in Task /\ v \in Versions /\ Midway(t, "seal", t.kept, tree[v], Core(receipt[v]))
    BY <2>0, MidwayAt
  <2>2. UNCHANGED <<tree, receipt>> /\ Moves(p, "commit")
    BY <1>18, WriteSealMoves DEF WriteSeal
  <2>3. Goal(t)[1] = t.was[1] /\ t.op \notin {"install", "remove"}
    BY <2>1, GoalIs DEF Midway, ReadOps
  <2>4. Midway(t, "commit", task'[p].kept, tree'[v], Core(receipt'[v]))
    BY <2>1, <2>2, <2>3 DEF Midway
  <2> QED
    BY <2>0, <2>1, <2>2, <2>4, MovesOn
<1>19. ASSUME NEW p \in Procs, Commit(p)
      PROVE  MidwayInv' /\ Returns
  <2> DEFINE t == task[p]
             v == task[p].v
  <2>0. task[p] # None /\ t.at = "commit"
    BY <1>19 DEF Commit, At
  <2>1. t \in Task /\ v \in Versions /\ Midway(t, "commit", t.kept, tree[v], Core(receipt[v]))
    BY <2>0, MidwayAt
  <2>2. tree' = tree /\ receipt'[v] = t.due
    BY <1>19, <2>1 DEF Commit, TypeOK
  <2>3. tree[v] = Goal(t)[1] /\ Core(t.due) = Goal(t)[2]
    BY <2>1 DEF Midway
  <2>4. CASE Goto(p, "unseal")
    <3>1. Midway(t, "unseal", t.kept, tree'[v], Core(receipt'[v]))
      BY <2>1, <2>2, <2>3 DEF Midway
    <3> QED
      BY <2>0, <2>1, <2>4, <3>1, GotoOn DEF Steps
  <2>5. CASE Finish(p)
    BY <2>0, <2>1, <2>2, <2>3, <2>5, WholeNew, FinishOn
  <2> QED
    BY <1>19, <2>4, <2>5 DEF Commit
<1>20. ASSUME NEW p \in Procs, CommitFails(p)
      PROVE  MidwayInv' /\ Returns
  <2> DEFINE t == task[p]
             v == task[p].v
  <2>0. task[p] # None /\ t.at = "commit"
    BY <1>20 DEF CommitFails, At
  <2>1. t \in Task /\ v \in Versions /\ Midway(t, "commit", t.kept, tree[v], Core(receipt[v]))
    BY <2>0, MidwayAt
  <2>2. UNCHANGED <<tree, receipt>>
    BY <1>20 DEF CommitFails
  <2>3. CASE t.op = "repair" /\ t.was[1] # t.b
    <3>1. Goto(p, "rollback")
      BY <1>20, <2>3 DEF CommitFails
    <3>2. Goal(t)[1] = t.b
      BY <2>1, <2>3, GoalIs
    <3>3. Midway(t, "rollback", t.kept, tree'[v], Core(receipt'[v]))
      BY <2>1, <2>2, <2>3, <3>2 DEF Midway
    <3> QED
      BY <2>0, <2>1, <3>1, <3>3, GotoOn DEF Steps
  <2>4. CASE ~(t.op = "repair" /\ t.was[1] # t.b)
    <3>1. Finish(p)
      BY <1>20, <2>4 DEF CommitFails
    <3>2. tree[v] = Goal(t)[1] /\ Core(receipt[v]) = t.was[2] /\ t.op \notin {"install", "remove"}
      BY <2>1 DEF Midway
    <3>3. t.op \in ReadOps \cup {"disable", "repair"}
      BY <2>1, <3>2 DEF Task, Ops, ReadOps
    <3>4. Goal(t)[1] = t.was[1]
      BY <2>1, <2>4, <3>3, GoalIs
    <3> QED
      BY <2>0, <2>1, <2>2, <3>1, <3>2, <3>4, WholeOld, FinishOn
  <2> QED
    BY <2>3, <2>4
<1>21. ASSUME NEW p \in Procs, Unseal(p)
      PROVE  MidwayInv' /\ Returns
  <2> DEFINE t == task[p]
             v == task[p].v
  <2>0. task[p] # None /\ t.at = "unseal"
    BY <1>21 DEF Unseal, At
  <2>1. t \in Task /\ v \in Versions /\ Midway(t, "unseal", t.kept, tree[v], Core(receipt[v]))
    BY <2>0, MidwayAt
  <2>2. UNCHANGED <<tree, receipt>>
    BY <1>21 DEF Unseal
  <2>3. tree[v] = Goal(t)[1] /\ Core(receipt[v]) = Goal(t)[2]
    BY <2>1 DEF Midway
  <2>4. CASE Goto(p, "discard")
    <3>1. Midway(t, "discard", t.kept, tree'[v], Core(receipt'[v]))
      BY <2>1, <2>2 DEF Midway
    <3> QED
      BY <2>0, <2>1, <2>4, <3>1, GotoOn DEF Steps
  <2>5. CASE Finish(p)
    BY <2>0, <2>1, <2>2, <2>3, <2>5, WholeNew, FinishOn
  <2> QED
    BY <1>21, <2>4, <2>5 DEF Unseal
<1>22. ASSUME NEW p \in Procs, Rollback(p)
      PROVE  MidwayInv' /\ Returns
  <2> DEFINE t == task[p]
             v == task[p].v
  <2>0. task[p] # None /\ t.at = "rollback"
    BY <1>22 DEF Rollback, At
  <2>1. t \in Task /\ v \in Versions /\ Midway(t, "rollback", t.kept, tree[v], Core(receipt[v]))
    BY <2>0, MidwayAt
  <2>2. Goto(p, "sweep") /\ receipt' = receipt /\ tree'[v] = None
    BY <1>22, <2>1 DEF Rollback, TypeOK
  <2>3. Midway(t, "sweep", t.kept, tree'[v], Core(receipt'[v]))
    BY <2>1, <2>2 DEF Midway
  <2> QED
    BY <2>0, <2>1, <2>2, <2>3, GotoOn DEF Steps
<1>23. ASSUME NEW p \in Procs, RollbackFails(p)
      PROVE  MidwayInv' /\ Returns
  <2>1. task[p] # None /\ Ends(p)
    BY <1>23, RollbackFailsGoes DEF RollbackFails
  <2> QED
    BY <1>23, <2>1, EndsOn
<1>24. ASSUME NEW p \in Procs, SweepRollback(p)
      PROVE  MidwayInv' /\ Returns
  <2> DEFINE t == task[p]
             v == task[p].v
  <2>0. task[p] # None /\ t.at = "sweep"
    BY <1>24 DEF SweepRollback, At
  <2>1. t \in Task /\ v \in Versions /\ Midway(t, "sweep", t.kept, tree[v], Core(receipt[v]))
    BY <2>0, MidwayAt
  <2>2. UNCHANGED <<tree, receipt>> /\ Undo(p)
    BY <1>24 DEF SweepRollback
  <2> QED
    BY <2>0, <2>2, UndoOn
<1>25. ASSUME NEW p \in Procs, Restore(p)
      PROVE  MidwayInv' /\ Returns
  <2> DEFINE t == task[p]
             v == task[p].v
  <2>0. task[p] # None /\ t.at = "restore"
    BY <1>25 DEF Restore, At
  <2>1. t \in Task /\ v \in Versions /\ Midway(t, "restore", t.kept, tree[v], Core(receipt[v]))
    BY <2>0, MidwayAt
  <2>2. Finish(p) /\ receipt' = receipt /\ tree'[v] = t.kept
    BY <1>25, <2>1 DEF Restore, TypeOK
  <2>3. t.kept = t.was[1] /\ Core(receipt[v]) = t.was[2]
    BY <2>1 DEF Midway
  <2> QED
    BY <2>0, <2>1, <2>2, <2>3, WholeOld, FinishOn
<1>26. ASSUME NEW p \in Procs, RestoreFails(p)
      PROVE  MidwayInv' /\ Returns
  <2>1. task[p] # None /\ Ends(p)
    BY <1>26, RestoreFailsGoes DEF RestoreFails
  <2> QED
    BY <1>26, <2>1, EndsOn
<1>27. ASSUME NEW p \in Procs, Quarantine(p)
      PROVE  MidwayInv' /\ Returns
  <2> DEFINE t == task[p]
             v == task[p].v
  <2>0. task[p] # None /\ t.at = "quarantine"
    BY <1>27 DEF Quarantine, At
  <2>1. t \in Task /\ v \in Versions /\ Midway(t, "quarantine", t.kept, tree[v], Core(receipt[v]))
    BY <2>0, MidwayAt
  <2>2. tree[v] = t.was[1] /\ Core(receipt[v]) = t.was[2]
    BY <2>1 DEF Midway
  <2>3. CASE Ends(p) /\ UNCHANGED <<tree, receipt>>
    BY <2>0, <2>1, <2>2, <2>3, WholeOld, EndsOn
  <2> DEFINE s == IF t.op = "remove" THEN "unreceipt" ELSE "stage"
  <2>4. CASE Moves(p, s) /\ task'[p].kept = tree[v] /\ tree'[v] = None /\ TouchSeals(v)
    <3>1. Core(receipt'[v]) = Core(receipt[v])
      BY <2>1, <2>4, TouchCore
    <3>2. Midway(t, s, task'[p].kept, tree'[v], Core(receipt'[v]))
      BY <2>1, <2>2, <2>4, <3>1 DEF Midway
    <3> QED
      BY <2>0, <2>1, <2>4, <3>2, MovesOn
  <2> QED
    BY <1>27, <2>3, <2>4, QuarantineKeeps
<1>28. ASSUME NEW p \in Procs, Unreceipt(p)
      PROVE  MidwayInv' /\ Returns
  <2> DEFINE t == task[p]
             v == task[p].v
  <2>0. task[p] # None /\ t.at = "unreceipt"
    BY <1>28 DEF Unreceipt, At
  <2>1. t \in Task /\ v \in Versions /\ Midway(t, "unreceipt", t.kept, tree[v], Core(receipt[v]))
    BY <2>0, MidwayAt
  <2>2. tree' = tree
    BY <1>28 DEF Unreceipt
  <2>3. CASE Goto(p, "unseal") /\ receipt' = [receipt EXCEPT ![v] = None]
    <3>1. receipt'[v] = None /\ Core(None) = None
      BY <2>1, <2>3 DEF TypeOK, Core
    <3>2. Goal(t)[1] = None /\ Goal(t)[2] = None
      BY <2>1, GoalIs DEF Midway
    <3>3. Midway(t, "unseal", t.kept, tree'[v], Core(receipt'[v]))
      BY <2>1, <2>2, <3>1, <3>2 DEF Midway
    <3> QED
      BY <2>0, <2>1, <2>3, <3>3, GotoOn DEF Steps
  <2>4. CASE Goto(p, "restore") /\ receipt' = receipt
    <3>1. Midway(t, "restore", t.kept, tree'[v], Core(receipt'[v]))
      BY <2>1, <2>2, <2>4 DEF Midway
    <3> QED
      BY <2>0, <2>1, <2>4, <3>1, GotoOn DEF Steps
  <2>5. CASE Finish(p) /\ receipt' = receipt
    <3>1. Whole(p)
      BY <2>1, <2>2, <2>5 DEF Midway, Whole, HalfDone
    <3> QED
      BY <2>0, <2>5, <3>1, FinishOn
  <2> QED
    BY <1>28, <2>3, <2>4, <2>5 DEF Unreceipt
<1>29. ASSUME NEW p \in Procs, Discard(p)
      PROVE  MidwayInv' /\ Returns
  <2> DEFINE t == task[p]
             v == task[p].v
  <2>0. task[p] # None /\ t.at = "discard"
    BY <1>29 DEF Discard, At
  <2>1. t \in Task /\ v \in Versions /\ Midway(t, "discard", t.kept, tree[v], Core(receipt[v]))
    BY <2>0, MidwayAt
  <2>2. UNCHANGED <<tree, receipt>> /\ Finish(p)
    BY <1>29 DEF Discard
  <2>3. tree[v] = Goal(t)[1] /\ Core(receipt[v]) = Goal(t)[2]
    BY <2>1 DEF Midway
  <2> QED
    BY <2>0, <2>1, <2>2, <2>3, WholeNew, FinishOn
<1>30. ASSUME NEW p \in Procs, Crash(p)
      PROVE  MidwayInv' /\ Returns
  <2>1. task[p] # None /\ Ends(p)
    BY <1>30, CrashEnds DEF Crash
  <2> QED
    BY <1>30, <2>1, EndsOn
<1>31. ASSUME NEW v \in Versions, Damage(v)
      PROVE  MidwayInv' /\ Returns
  <2>1. /\ \A q \in Procs : task[q] # None => task[q].v # v
        /\ UNCHANGED <<task, lock>>
        /\ \A w \in Versions \ {v} : tree'[w] = tree[w]
        /\ TouchSeals(v)
    BY <1>31 DEF Damage, TypeOK
  <2>2. \A w \in Versions : Core(receipt'[w]) = Core(receipt[w])
    BY <2>1, TouchCore
  <2>3. \A q \in Procs : task[q] # None => task[q].v \in Versions
    BY DEF TypeOK, Task
  <2>4. MidwayInv'
    BY <2>1, <2>2, <2>3 DEF MidwayInv
  <2>5. Returns
    BY <2>1 DEF Returns
  <2> QED
    BY <2>4, <2>5
<1>32. CASE UNCHANGED vars
  BY <1>32, StillOn DEF vars
<1> QED
  BY <1>1, <1>2, <1>3, <1>4, <1>5, <1>6, <1>7, <1>8, <1>9, <1>10, <1>11, <1>12, <1>13, <1>14, <1>15, <1>16, <1>17, <1>18, <1>19, <1>20, <1>21, <1>22, <1>23, <1>24, <1>25, <1>26, <1>27, <1>28, <1>29, <1>30, <1>31, <1>32 DEF Next

(* A command that returns, with a result or an error, leaves tree and       *)
(* receipt as it found them or as it promises, wherever one of its file     *)
(* operations failed, or one of three halves.  The rollback and restore    *)
(* guards of lifecycle.rs cover every way out of install, repair, remove,  *)
(* enable and disable but the failure of the undo itself and, which is     *)
(* what the halves are, that between the publishing rename and the writing *)
(* of the receipt, that of the partial file of a receipt that was linked,  *)
(* and that of the look for the receipt of a quarantined tree.             *)
THEOREM AllOrNothingCorrect == Spec => AllOrNothing
<1>1. Init => MidwayInv
  BY DEF Init, MidwayInv
<1>2. IInv /\ MidwayInv /\ [Next]_vars => MidwayInv' /\ Returns
  BY MidwayStep DEF IInv
<1>3. IInv /\ MidwayInv /\ [Next]_vars =>
        [\A p \in Procs :
           lock = p /\ lock' # p /\ ~Crash(p) /\ ~RollbackFails(p) /\ ~RestoreFails(p) =>
               LET t == task[p]
                   left == <<tree'[t.v], Core(receipt'[t.v])>>
               IN  left \in {t.was, Goal(t)} \/ HalfDone(t, left)]_vars
  BY <1>2 DEF Returns, Whole
<1> QED
  BY <1>1, <1>2, <1>3, IInvCorrect, PTL DEF Spec, AllOrNothing

=============================================================================
