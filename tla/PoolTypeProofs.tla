--------------------------- MODULE PoolTypeProofs ---------------------------
(***************************************************************************)
(* The state of Pool keeps its shape, for any number of workers,           *)
(* connections, sessions, commands, closers and terminals and for every    *)
(* environment.  TypeOK is not inductive by itself: what a reconciliation  *)
(* or a request refers to must exist (LinkInv, TaskInv).                   *)
(***************************************************************************)
EXTENDS Pool, TLAPS

\* Which entries refer to which: a record exists from its creation on, and
\* requests and reconciliations only name records that exist.
LinkInv ==
    /\ \A s \in Session : state[s] # "Absent" => sink[s] \in Conn
    /\ \A s \in Session : creator[s] # "none" => state[s] # "Absent"
    /\ \A r \in Command : submit[r] # "none" =>
          cmd[r].session \in Session /\ state[cmd[r].session] # "Absent"
    /\ \A k \in Closer : closer[k] # "none" =>
          target[k] \in Session /\ state[target[k]] # "Absent"
    /\ \A w \in Worker : worker_sessions[w] # None => state[worker_sessions[w]] # "Absent"
    /\ \A r \in inflight \cup running : submit[r] # "none"

\* A reconciliation names its worker, holds no closers before its second
\* critical section, and belongs to a read loop or to a handler that is
\* "dropping".
TaskInv ==
    /\ \A k \in Task : task[k].pc # "none" => task[k].worker \in Worker
    /\ \A k \in Task : task[k].pc \in {"none", "routing", "drop1", "drop2"} => task[k].wake = {}
    /\ \A s \in Session : task[s].pc # "none" => creator[s] = "dropping"
    /\ \A r \in Command : task[r].pc # "none" => submit[r] = "dropping"

BaseInv == TypeOK /\ LinkInv /\ TaskInv

-----------------------------------------------------------------------------
\* The pieces a reconciliation record is made of.
LEMMA ReconcileType ==
    ASSUME NEW pc \in TaskPc, NEW w \in Worker \cup {None}, NEW pending \in SUBSET Command,
           NEW cause \in ExitCause, NEW wake \in SUBSET Closer
    PROVE  Reconcile(pc, w, pending, cause, wake) \in TaskState
  BY DEF Reconcile, TaskState

\* The reconciliation of a worker drop that has just begun.
LEMMA DropTaskType ==
    ASSUME NEW w \in Worker PROVE DropTask(w) \in TaskState
  BY DEF DropTask, Reconcile, TaskState, TaskPc, ExitCause, ResultCause

\* No reconciliation.
LEMMA NoTaskType == NoTask \in TaskState
  BY DEF NoTask, Reconcile, TaskState, TaskPc, ExitCause, ResultCause

\* A wait for a terminal's channel.
LEMMA RouteTaskType ==
    ASSUME NEW w \in Worker PROVE RouteTask(w) \in TaskState
  BY DEF RouteTask, Reconcile, TaskState, TaskPc, ExitCause, ResultCause

\* A reconciliation under way names a worker and only commands and closers.
LEMMA TaskFields ==
    ASSUME TypeOK, NEW k \in Task
    PROVE  /\ task[k].pc \in TaskPc
           /\ task[k].worker \in Worker \cup {None}
           /\ task[k].pending \in SUBSET Command
           /\ task[k].cause \in ExitCause
           /\ task[k].wake \in SUBSET Closer
  BY DEF TypeOK, TaskState

\* What an update of one reconciliation leaves alone, and what it puts there.
LEMMA TaskUpdate ==
    ASSUME TypeOK, NEW k \in Task, NEW rec, task' = [task EXCEPT ![k] = rec]
    PROVE  /\ task'[k] = rec
           /\ \A j \in Task : j # k => task'[j] = task[j]
  BY DEF TypeOK

\* The fields of a record are what it was built from.
LEMMA ReconcileFields ==
    ASSUME NEW pc, NEW w, NEW pending, NEW cause, NEW wake
    PROVE  /\ Reconcile(pc, w, pending, cause, wake).pc = pc
           /\ Reconcile(pc, w, pending, cause, wake).worker = w
           /\ Reconcile(pc, w, pending, cause, wake).wake = wake
  BY DEF Reconcile

\* A worker drop that has just begun holds no closers.
LEMMA DropTaskFields ==
    ASSUME NEW w
    PROVE  DropTask(w).pc = "drop1" /\ DropTask(w).worker = w /\ DropTask(w).wake = {}
  BY DEF DropTask, Reconcile

\* Nor does a task that is not under way.
LEMMA NoTaskFields == NoTask.pc = "none" /\ NoTask.wake = {}
  BY DEF NoTask, Reconcile

\* Nor does a wait for a terminal's channel.
LEMMA RouteTaskFields ==
    ASSUME NEW w
    PROVE  RouteTask(w).pc = "routing" /\ RouteTask(w).worker = w /\ RouteTask(w).wake = {}
  BY DEF RouteTask, Reconcile

\* A read loop, a create handler and a submit handler are never the same task.
LEMMA TaskKinds ==
    /\ \A c \in Conn : c \in Task /\ c \notin Session /\ c \notin Command
    /\ \A s \in Session : s \in Task /\ s \notin Conn /\ s \notin Command
    /\ \A r \in Command : r \in Task /\ r \notin Conn /\ r \notin Session
  BY PoolAssumption DEF Task

\* Routing a terminal's output changes nothing but the read loop's own task.
LEMMA RouteChanges ==
    ASSUME NEW c \in Conn, RouteWaits(c) \/ RouteReturns(c)
    PROVE  /\ c \in Task
           /\ \/ task[c].pc = "none" /\ task' = [task EXCEPT ![c] = RouteTask(WorkerOf[c])]
              \/ task[c].pc = "routing" /\ task' = [task EXCEPT ![c] = NoTask]
           /\ UNCHANGED <<poolVars, recVars, runtimeVars, creator, closer, target, woken,
                          submit, cmd, canceller, attached, loop, farVars>>
  BY TaskKinds DEF RouteWaits, RouteReturns, Selecting

\* The worker of a session whose record exists.
LEMMA SessionWorkerType ==
    ASSUME TypeOK, LinkInv, NEW s \in Session, state[s] # "Absent"
    PROVE  SessionWorker(s) \in Worker
  BY PoolAssumption DEF LinkInv, SessionWorker

-----------------------------------------------------------------------------
\* The initial state has its shape, and refers to nothing.
LEMMA BaseInit == ASSUME Init PROVE BaseInv
  <1>1. TypeOK
    BY NoTaskType DEF Init, TypeOK, HandleState, SessionState, CreatorPc, CloserPc, SubmitPc,
       Mode, RemoteState
  <1>2. LinkInv
    BY DEF Init, LinkInv
  <1>3. TaskInv
    BY NoTaskFields, TaskKinds DEF Init, TaskInv
  <1> QED
    BY <1>1, <1>2, <1>3 DEF BaseInv

\* Every step keeps the shape of the state.
LEMMA TypeNext == ASSUME TypeOK, LinkInv, TaskInv, [Next]_vars PROVE TypeOK'
  <1> USE DEF poolVars, recVars, runtimeVars, taskVars, farVars
  <1> USE PoolAssumption
  <1>1. ASSUME NEW c \in Conn, Register(c) PROVE TypeOK'
    BY <1>1 DEF Register, TypeOK
  <1>2. ASSUME NEW c \in Conn, Disconnect(c) PROVE TypeOK'
    BY <1>2 DEF Disconnect, TypeOK
  <1>3. ASSUME NEW c \in Conn, LoopEnds(c) PROVE TypeOK'
    <2>1. DropTask(WorkerOf[c]) \in TaskState
      BY DropTaskType, PoolAssumption
    <2>2. task' \in [Task -> TaskState]
      BY <1>3, <2>1 DEF LoopEnds, TypeOK, Task
    <2> QED
      BY <1>3, <2>2 DEF LoopEnds, TypeOK
  <1>4. ASSUME NEW c \in Conn, NEW s \in Session, NEW error \in BOOLEAN, SessionReady(c, s,
               error)
        PROVE  TypeOK'
    BY <1>4 DEF SessionReady, RemoteState, SessionState, Unfinished, Finished, TypeOK
  <1>5. ASSUME NEW c \in Conn, NEW s \in Session, NEW error \in BOOLEAN,
               NEW reusable \in BOOLEAN, SessionClosed(c, s, error, reusable)
        PROVE  TypeOK'
    <2>1. Reconcile("finish", WorkerOf[c], InflightOf(s),
                        IF state[s] = "Closing" /\ ~error THEN "Cancelled" ELSE "WorkerError",
                        closed[s]) \in TaskState
      <3>1. "finish" \in TaskPc /\ WorkerOf[c] \in Worker \cup {None}
        BY DEF TaskPc
      <3>2. InflightOf(s) \in SUBSET Command
        BY DEF TypeOK, InflightOf
      <3>3. (IF state[s] = "Closing" /\ ~error THEN "Cancelled" ELSE "WorkerError") \in ExitCause
        BY DEF ExitCause, ResultCause
      <3>4. closed[s] \in SUBSET Closer
        BY DEF TypeOK
      <3> QED
        BY ONLY <3>1, <3>2, <3>3, <3>4, ReconcileType
    <2>2. task' \in [Task -> TaskState]
      BY <1>5, <2>1 DEF SessionClosed, TypeOK, Task
    <2>3. /\ state \in [Session -> SessionState]
          /\ opened \in [Session -> {"none", "pending", "ok", "err"}]
          /\ terminal \in [Session -> Terminal \cup {None}]
          /\ closed \in [Session -> SUBSET Closer]
          /\ worker_sessions \in [Worker -> Session \cup {None}]
          /\ idle \in [Conn -> Nat]
          /\ inflight \subseteq Command
          /\ remote \in [Session -> RemoteState]
          /\ running \subseteq Command
      BY DEF TypeOK
    <2>4. state' \in [Session -> SessionState]
      BY <1>5, <2>3 DEF SessionClosed, SessionState, Unfinished, Finished
    <2>5. opened' \in [Session -> {"none", "pending", "ok", "err"}]
      BY <1>5, <2>3 DEF SessionClosed
    <2>6. terminal' \in [Session -> Terminal \cup {None}]
      BY <1>5, <2>3 DEF SessionClosed
    <2>7. closed' \in [Session -> SUBSET Closer]
      BY <1>5, <2>3 DEF SessionClosed
    <2>8. worker_sessions' \in [Worker -> Session \cup {None}]
      BY <1>5, <2>3 DEF SessionClosed
    <2>9. idle' \in [Conn -> Nat]
      BY <1>5, <2>3 DEF SessionClosed
    <2>10. inflight' \subseteq Command
      BY <1>5, <2>3 DEF SessionClosed, InflightOf
    <2>11. remote' \in [Session -> RemoteState]
      BY <1>5, <2>3 DEF SessionClosed, RemoteState
    <2>12. running' \subseteq Command
      BY <1>5, <2>3 DEF SessionClosed
    <2> QED
      BY <1>5, <2>2, <2>3, <2>4, <2>5, <2>6, <2>7, <2>8, <2>9, <2>10, <2>11, <2>12
         DEF SessionClosed, TypeOK
  <1>6. ASSUME NEW c \in Conn, NEW r \in Command, SpoolFails(c, r) PROVE TypeOK'
    BY <1>6 DEF SpoolFails, TypeOK
  <1>7. ASSUME NEW c \in Conn, NEW r \in Command, NEW cause \in Reports, Result(c, r, cause)
        PROVE  TypeOK'
    <2>1. Reconcile("result", WorkerOf[c], {r}, cause, {}) \in TaskState
      BY ReconcileType, PoolAssumption DEF TaskPc, ExitCause
    <2>2. task' \in [Task -> TaskState]
      BY <1>7, <2>1 DEF Result, CountsDown, TypeOK, Task
    <2>3. stateful_count' \in [Session -> Nat]
      <3>1. cmd[r].session \in Session
        BY <1>7 DEF Result, LinkInv
      <3>2. stateful_count[cmd[r].session] \in Nat
        BY <3>1 DEF TypeOK
      <3> DEFINE n == IF CountsDown(r) THEN stateful_count[cmd[r].session] - 1
                      ELSE stateful_count[cmd[r].session]
      <3>3. n \in Nat
        BY <3>2 DEF CountsDown
      <3>4. stateful_count' = [stateful_count EXCEPT ![cmd[r].session] = n]
        BY <1>7 DEF Result
      <3> HIDE DEF n
      <3> QED
        BY <3>3, <3>4 DEF TypeOK
    <2> QED
      BY <1>7, <2>2, <2>3 DEF Result, CountsDown, TypeOK
  <1>8. ASSUME NEW w \in Worker, Keepalive(w) PROVE TypeOK'
    BY <1>8 DEF Keepalive, Evict, TypeOK
  <1>9. ASSUME NEW k \in Task, DropTakesInflight(k) PROVE TypeOK'
    <2>1. Reconcile("drop2", task[k].worker, {x \in inflight : OnWorker(x, task[k].worker)},
                        "Normal", {}) \in TaskState
      BY TaskFields, ReconcileType DEF TypeOK, TaskPc, ExitCause, ResultCause
    <2>2. task' \in [Task -> TaskState]
      BY <1>9, <2>1 DEF DropTakesInflight, TypeOK, Task
    <2>3. inflight' \subseteq Command
      BY <1>9 DEF DropTakesInflight, TypeOK
    <2> QED
      BY <1>9, <2>2, <2>3 DEF DropTakesInflight, TypeOK
  <1>10. ASSUME NEW k \in Task, DropForgetsWorker(k) PROVE TypeOK'
    <2>1. ASSUME NEW cause \in ProbeSays
          PROVE  Reconcile("finish", task[k].worker, task[k].pending, cause,
                           Waiters(worker_sessions[task[k].worker])) \in TaskState
      <3>1. worker_sessions[task[k].worker] \in Session \cup {None}
        BY <1>10 DEF DropForgetsWorker, TypeOK, TaskState, TaskInv
      <3> QED
        BY <2>1, <3>1, TaskFields, ReconcileType, PoolAssumption
           DEF TypeOK, TaskPc, ExitCause, Waiters
    <2>2. task' \in [Task -> TaskState]
      BY <1>10, <2>1 DEF DropForgetsWorker, FailSession, Waiters, TypeOK
    <2>3. /\ idle \in [Conn -> Nat]
          /\ worker_sessions \in [Worker -> Session \cup {None}]
          /\ liveness \in [Worker -> Conn \cup {None}]
          /\ state \in [Session -> SessionState]
          /\ terminal \in [Session -> Terminal \cup {None}]
          /\ opened \in [Session -> {"none", "pending", "ok", "err"}]
          /\ closed \in [Session -> SUBSET Closer]
      BY DEF TypeOK
    <2>4. idle' \in [Conn -> Nat]
      BY <1>10, <2>3 DEF DropForgetsWorker, FailSession
    <2>5. worker_sessions' \in [Worker -> Session \cup {None}]
      BY <1>10, <2>3 DEF DropForgetsWorker, FailSession
    <2>6. liveness' \in [Worker -> Conn \cup {None}]
      BY <1>10, <2>3 DEF DropForgetsWorker, FailSession
    <2>7. state' \in [Session -> SessionState]
      BY <1>10, <2>3 DEF DropForgetsWorker, FailSession, SessionState, Unfinished, Finished
    <2>8. terminal' \in [Session -> Terminal \cup {None}]
      BY <1>10, <2>3 DEF DropForgetsWorker, FailSession
    <2>9. opened' \in [Session -> {"none", "pending", "ok", "err"}]
      BY <1>10, <2>3 DEF DropForgetsWorker, FailSession
    <2>10. closed' \in [Session -> SUBSET Closer]
      BY <1>10, <2>3 DEF DropForgetsWorker, FailSession
    <2> QED
      BY <1>10, <2>2, <2>3, <2>4, <2>5, <2>6, <2>7, <2>8, <2>9, <2>10
         DEF DropForgetsWorker, FailSession, Waiters, TypeOK
  <1>11. ASSUME NEW k \in Task, TaskEnds(k) PROVE TypeOK'
    <2>1. NoTask \in TaskState
      BY NoTaskType
    <2>2. task' \in [Task -> TaskState]
      BY <1>11, <2>1 DEF TaskEnds, HandlerReturns, TypeOK, Task
    <2>3. creator' \in [Session -> CreatorPc]
      BY <1>11 DEF TaskEnds, HandlerReturns, CreatorPc, TypeOK
    <2>4. submit' \in [Command -> SubmitPc]
      BY <1>11 DEF TaskEnds, HandlerReturns, SubmitPc, TypeOK
    <2>5. send_lock' \in [Session -> Command \cup Closer \cup {None}]
      BY <1>11 DEF TaskEnds, HandlerReturns, TypeOK
    <2>6. woken' \subseteq Closer
      BY <1>11, TaskFields DEF TaskEnds, TypeOK
    <2> QED
      BY <1>11, <2>2, <2>3, <2>4, <2>5, <2>6 DEF TaskEnds, HandlerReturns, TypeOK
  <1>12. ASSUME NEW k \in Task, NEW r \in Command, FinishHandle(k, r) PROVE TypeOK'
    <2>1. Reconcile(task[k].pc, task[k].worker, task[k].pending \ {r},
                        task[k].cause, task[k].wake) \in TaskState
      BY TaskFields, ReconcileType
    <2>2. task' \in [Task -> TaskState]
      BY <1>12, <2>1 DEF FinishHandle, StillRunning, TypeOK, Task
    <2>3. handles' \in [Command -> HandleState]
      BY <1>12, TaskFields
         DEF FinishHandle, StillRunning, Outcome, HandleState, ExitCause, TypeOK
    <2> QED
      BY <1>12, <2>2, <2>3 DEF FinishHandle, StillRunning, TypeOK
  <1>13. ASSUME NEW s \in Session, NEW p \in Profile, CreateSession(s, p) PROVE TypeOK'
    BY <1>13 DEF CreateSession, Available, SessionState, Unfinished, CreatorPc, TypeOK
  <1>14. ASSUME NEW s \in Session, SendOpen(s) PROVE TypeOK'
    BY <1>14 DEF SendOpen, DeliverOpen, CreatorPc, RemoteState, TypeOK
  <1>15. ASSUME NEW s \in Session, SendOpenFails(s) PROVE TypeOK'
    <2>1. DropTask(SessionWorker(s)) \in TaskState
      BY <1>15, DropTaskType, SessionWorkerType DEF SendOpenFails, LinkInv
    <2>2. task' \in [Task -> TaskState]
      BY <1>15, <2>1 DEF SendOpenFails, DeliverOpen, TypeOK, Task
    <2>3. creator' \in [Session -> CreatorPc]
      BY <1>15 DEF SendOpenFails, DeliverOpen, CreatorPc, TypeOK
    <2>4. remote' \in [Session -> RemoteState]
      BY <1>15 DEF SendOpenFails, DeliverOpen, RemoteState, TypeOK
    <2> QED
      BY <1>15, <2>2, <2>3, <2>4 DEF SendOpenFails, DeliverOpen, TypeOK
  <1>16. ASSUME NEW s \in Session, CreateReturns(s) PROVE TypeOK'
    BY <1>16 DEF CreateReturns, CreatorPc, TypeOK
  <1>17. ASSUME NEW s \in Session, CreateTimesOut(s) PROVE TypeOK'
    BY <1>17 DEF CreateTimesOut, CreatorPc, TypeOK
  <1>18. ASSUME NEW s \in Session, CreateGivesUp(s) PROVE TypeOK'
    BY <1>18, ZenonT(40) DEF CreateGivesUp, Evict, CreatorPc, TypeOK
  <1>19. ASSUME NEW s \in Session, RetireSession(s) PROVE TypeOK'
    BY <1>19 DEF RetireSession, SessionState, TypeOK
  <1>20. ASSUME NEW s \in Session, AbandonCreate(s) PROVE TypeOK'
    <2>1. NoTask \in TaskState
      BY NoTaskType
    <2>2. task' \in [Task -> TaskState]
      BY <1>20, <2>1 DEF AbandonCreate, TypeOK, Task
    <2>3. creator' \in [Session -> CreatorPc]
      BY <1>20 DEF AbandonCreate, CreatorPc, TypeOK
    <2>4. woken' \subseteq Closer
      BY <1>20, TaskFields DEF AbandonCreate, TypeOK, Task
    <2>5. remote' \in [Session -> RemoteState]
      BY <1>20 DEF AbandonCreate, DeliverOpen, RemoteState, TypeOK
    <2>6. close_sent' \in [Session -> BOOLEAN]
      BY <1>20 DEF AbandonCreate, TypeOK
    <2> QED
      BY <1>20, <2>2, <2>3, <2>4, <2>5, <2>6 DEF AbandonCreate, TypeOK
  <1>21. ASSUME NEW t \in Terminal, NEW s \in Session, AttachTerminal(t, s) PROVE TypeOK'
    BY <1>21 DEF AttachTerminal, TypeOK
  <1>22. ASSUME NEW r \in Command, NEW s \in Session, NEW mode \in Mode, Submit(r, s, mode)
         PROVE  TypeOK'
    BY <1>22 DEF Submit, SubmitPc, TypeOK
  <1>23. ASSUME NEW r \in Command, SubmitLocks(r) PROVE TypeOK'
    <2>1. submit' \in [Command -> SubmitPc]
      BY <1>23 DEF SubmitLocks, LockFree, SubmitPc, TypeOK
    <2>2. send_lock' \in [Session -> Command \cup Closer \cup {None}]
      BY <1>23 DEF SubmitLocks, LockFree, TypeOK
    <2> QED
      BY <1>23, <2>1, <2>2 DEF SubmitLocks, LockFree, TypeOK
  <1>24. ASSUME NEW r \in Command, SubmitSetupFails(r) PROVE TypeOK'
    BY <1>24 DEF SubmitSetupFails, SubmitPc, TypeOK
  <1>25. ASSUME NEW r \in Command, SubmitRegisters(r) PROVE TypeOK'
    <2>1. /\ submit \in [Command -> SubmitPc]
          /\ inflight \subseteq Command
          /\ handles \in [Command -> HandleState]
          /\ stateful_count \in [Session -> Nat]
          /\ send_lock \in [Session -> Command \cup Closer \cup {None}]
      BY DEF TypeOK
    <2>2. submit' \in [Command -> SubmitPc]
      BY <1>25, <2>1 DEF SubmitRegisters, SubmitPc
    <2>3. inflight' \subseteq Command
      BY <1>25, <2>1 DEF SubmitRegisters
    <2>4. handles' \in [Command -> HandleState]
      BY <1>25, <2>1 DEF SubmitRegisters, HandleState
    <2>5. stateful_count' \in [Session -> Nat]
      BY <1>25, <2>1 DEF SubmitRegisters
    <2>6. send_lock' \in [Session -> Command \cup Closer \cup {None}]
      BY <1>25, <2>1 DEF SubmitRegisters
    <2> QED
      BY <1>25, <2>1, <2>2, <2>3, <2>4, <2>5, <2>6 DEF SubmitRegisters, TypeOK
  <1>26. ASSUME NEW r \in Command, SendRun(r) PROVE TypeOK'
    BY <1>26 DEF SendRun, DeliverRun, SubmitPc, TypeOK
  <1>27. ASSUME NEW r \in Command, SendRunFails(r) PROVE TypeOK'
    <2>1. DropTask(SessionWorker(cmd[r].session)) \in TaskState
      BY <1>27, DropTaskType, SessionWorkerType DEF SendRunFails, LinkInv
    <2>2. task' \in [Task -> TaskState]
      BY <1>27, <2>1 DEF SendRunFails, DeliverRun, TypeOK, Task
    <2>3. submit' \in [Command -> SubmitPc]
      BY <1>27 DEF SendRunFails, DeliverRun, SubmitPc, TypeOK
    <2>4. running' \subseteq Command
      BY <1>27 DEF SendRunFails, DeliverRun, TypeOK
    <2> QED
      BY <1>27, <2>2, <2>3, <2>4 DEF SendRunFails, DeliverRun, TypeOK
  <1>28. ASSUME NEW r \in Command, Cancel(r) PROVE TypeOK'
    BY <1>28 DEF Cancel, TypeOK
  <1>29. ASSUME NEW r \in Command, CancelSends(r) PROVE TypeOK'
    BY <1>29 DEF CancelSends, TypeOK
  <1>30. ASSUME NEW r \in Command, PurgeHandle(r) PROVE TypeOK'
    BY <1>30 DEF PurgeHandle, HandleState, TypeOK
  <1>31. ASSUME NEW r \in Command, AbandonSubmit(r) PROVE TypeOK'
    <2>1. NoTask \in TaskState
      BY NoTaskType
    <2>2. task' \in [Task -> TaskState]
      BY <1>31, <2>1 DEF AbandonSubmit, TypeOK, Task
    <2>3. submit' \in [Command -> SubmitPc]
      BY <1>31 DEF AbandonSubmit, SubmitPc, TypeOK
    <2>4. send_lock' \in [Session -> Command \cup Closer \cup {None}]
      BY <1>31 DEF AbandonSubmit, TypeOK
    <2>5. woken' \subseteq Closer
      BY <1>31, TaskFields DEF AbandonSubmit, TypeOK, Task
    <2>6. running' \subseteq Command
      BY <1>31 DEF AbandonSubmit, DeliverRun, TypeOK
    <2> QED
      BY <1>31, <2>2, <2>3, <2>4, <2>5, <2>6 DEF AbandonSubmit, TypeOK
  <1>32. ASSUME NEW k \in Closer, NEW s \in Session, Close(k, s) PROVE TypeOK'
    BY <1>32 DEF Close, CloserPc, TypeOK
  <1>33. ASSUME NEW k \in Closer, CloseLocks(k) PROVE TypeOK'
    <2>1. /\ closer \in [Closer -> CloserPc]
          /\ state \in [Session -> SessionState]
          /\ closed \in [Session -> SUBSET Closer]
          /\ send_lock \in [Session -> Command \cup Closer \cup {None}]
      BY DEF TypeOK
    <2>2. closer' \in [Closer -> CloserPc]
      BY <1>33, <2>1 DEF CloseLocks, LockFree, CloserPc
    <2>3. state' \in [Session -> SessionState]
      BY <1>33, <2>1 DEF CloseLocks, LockFree, SessionState, Unfinished, Finished
    <2>4. closed' \in [Session -> SUBSET Closer]
      BY <1>33, <2>1 DEF CloseLocks, LockFree
    <2>5. send_lock' \in [Session -> Command \cup Closer \cup {None}]
      BY <1>33, <2>1 DEF CloseLocks, LockFree
    <2> QED
      BY <1>33, <2>1, <2>2, <2>3, <2>4, <2>5 DEF CloseLocks, LockFree, TypeOK
  <1>34. ASSUME NEW k \in Closer, SendClose(k) PROVE TypeOK'
    BY <1>34 DEF SendClose, CloserPc, TypeOK
  <1>35. ASSUME NEW k \in Closer, SendCloseFails(k) PROVE TypeOK'
    BY <1>35 DEF SendCloseFails, Evict, CloserPc, TypeOK
  <1>36. ASSUME NEW k \in Closer, CloseReturns(k) PROVE TypeOK'
    BY <1>36 DEF CloseReturns, CloserPc, TypeOK
  <1>37. ASSUME NEW k \in Closer, CloseTimesOut(k) PROVE TypeOK'
    BY <1>37 DEF CloseTimesOut, Evict, CloserPc, TypeOK
  <1>38. ASSUME NEW k \in Closer, AbandonClose(k) PROVE TypeOK'
    BY <1>38, ZenonT(40) DEF AbandonClose, CloserPc, TypeOK
  <1>39. ASSUME NEW t \in Terminal, DetachTerminal(t) PROVE TypeOK'
    BY <1>39 DEF DetachTerminal, TypeOK
  <1>40. ASSUME UNCHANGED vars PROVE TypeOK'
    BY <1>40 DEF vars, TypeOK
  <1>41. ASSUME NEW c \in Conn, RouteWaits(c) \/ RouteReturns(c) PROVE TypeOK'
    <2>1. task' \in [Task -> TaskState]
      BY <1>41, RouteChanges, RouteTaskType, NoTaskType DEF TypeOK
    <2> QED
      BY <1>41, <2>1, RouteChanges DEF TypeOK
  <1> QED
    BY <1>1, <1>2, <1>3, <1>4, <1>5, <1>6, <1>7, <1>8, <1>9, <1>10, <1>11, <1>12, <1>13,
       <1>14, <1>15, <1>16, <1>17, <1>18, <1>19, <1>20, <1>21, <1>22, <1>23, <1>24, <1>25,
       <1>26, <1>27, <1>28, <1>29, <1>30, <1>31, <1>32, <1>33, <1>34, <1>35, <1>36, <1>37,
       <1>38, <1>39, <1>40, <1>41 DEF Next, ConnStep, TaskStep, SessionStep, CommandStep,
       CloserStep, Quiescent

\* Every step keeps requests and maps pointing at records that exist.
LEMMA LinkNext == ASSUME TypeOK, LinkInv, TaskInv, [Next]_vars PROVE LinkInv'
  <1> USE DEF poolVars, recVars, runtimeVars, taskVars, farVars
  <1>1. ASSUME NEW c \in Conn, Register(c) PROVE LinkInv'
    BY <1>1, PoolAssumption DEF Register, LinkInv, TypeOK
  <1>2. ASSUME NEW c \in Conn, Disconnect(c) PROVE LinkInv'
    BY <1>2, PoolAssumption DEF Disconnect, LinkInv, TypeOK
  <1>3. ASSUME NEW c \in Conn, LoopEnds(c) PROVE LinkInv'
    BY <1>3, PoolAssumption DEF LoopEnds, LinkInv, TypeOK
  <1>4. ASSUME NEW c \in Conn, NEW s \in Session, NEW error \in BOOLEAN, SessionReady(c, s,
               error)
        PROVE  LinkInv'
    BY <1>4, PoolAssumption DEF SessionReady, LinkInv, TypeOK
  <1>5. ASSUME NEW c \in Conn, NEW s \in Session, NEW error \in BOOLEAN,
               NEW reusable \in BOOLEAN, SessionClosed(c, s, error, reusable)
        PROVE  LinkInv'
    <2>1. \A z \in Session : /\ state[z] # "Absent" => state'[z] # "Absent"
                             /\ state'[z] # "Absent" => z = s \/ state[z] # "Absent"
      BY <1>5 DEF SessionClosed, TypeOK
    <2>2. /\ \A w \in Worker : worker_sessions'[w] \in {None, worker_sessions[w]}
          /\ \A w \in Worker : worker_sessions[w] \in Session \cup {None}
      BY <1>5, PoolAssumption DEF SessionClosed, TypeOK
    <2>3. inflight' \cup running' \subseteq inflight \cup running
      BY <1>5 DEF SessionClosed
    <2> QED
      BY <1>5, <2>1, <2>2, <2>3 DEF SessionClosed, LinkInv
  <1>6. ASSUME NEW c \in Conn, NEW r \in Command, SpoolFails(c, r) PROVE LinkInv'
    BY <1>6, PoolAssumption DEF SpoolFails, LinkInv, TypeOK
  <1>7. ASSUME NEW c \in Conn, NEW r \in Command, NEW cause \in Reports, Result(c, r, cause)
        PROVE  LinkInv'
    BY <1>7, PoolAssumption DEF Result, CountsDown, LinkInv, TypeOK
  <1>8. ASSUME NEW w \in Worker, Keepalive(w) PROVE LinkInv'
    BY <1>8, PoolAssumption DEF Keepalive, Evict, LinkInv, TypeOK
  <1>9. ASSUME NEW k \in Task, DropTakesInflight(k) PROVE LinkInv'
    BY <1>9, PoolAssumption DEF DropTakesInflight, LinkInv, TypeOK
  <1>10. ASSUME NEW k \in Task, DropForgetsWorker(k) PROVE LinkInv'
    <2>1. worker_sessions[task[k].worker] \in Session \cup {None}
      BY <1>10 DEF DropForgetsWorker, TaskInv, TypeOK
    <2>2. \A z \in Session : state'[z] = "Absent" <=> state[z] = "Absent"
      BY <1>10, <2>1 DEF DropForgetsWorker, FailSession, LinkInv, TaskInv, TypeOK
    <2>3. \A w \in Worker : worker_sessions'[w] \in {None, worker_sessions[w]}
      BY <1>10 DEF DropForgetsWorker, TypeOK
    <2>4. \A w \in Worker : worker_sessions[w] \in Session \cup {None}
      BY DEF TypeOK
    <2> QED
      BY <1>10, <2>2, <2>3, <2>4 DEF DropForgetsWorker, LinkInv
  <1>11. ASSUME NEW k \in Task, TaskEnds(k) PROVE LinkInv'
    <2>1. k \in Session => creator[k] = "dropping"
      BY <1>11 DEF TaskEnds, TaskInv
    <2>2. k \in Command => submit[k] = "dropping"
      BY <1>11 DEF TaskEnds, TaskInv
    <2>3. \A z \in Session : creator'[z] # "none" => creator[z] # "none"
      BY <1>11, <2>1 DEF TaskEnds, HandlerReturns, TypeOK
    <2>4. \A z \in Command : submit'[z] # "none" <=> submit[z] # "none"
      BY <1>11, <2>2 DEF TaskEnds, HandlerReturns, TypeOK
    <2>5. inflight \cup running \subseteq Command
      BY DEF TypeOK
    <2> QED
      BY <1>11, <2>3, <2>4, <2>5 DEF TaskEnds, LinkInv
  <1>12. ASSUME NEW k \in Task, NEW r \in Command, FinishHandle(k, r) PROVE LinkInv'
    BY <1>12, PoolAssumption DEF FinishHandle, StillRunning, LinkInv, TypeOK
  <1>13. ASSUME NEW s \in Session, NEW p \in Profile, CreateSession(s, p) PROVE LinkInv'
    BY <1>13, PoolAssumption DEF CreateSession, Available, LinkInv, TypeOK
  <1>14. ASSUME NEW s \in Session, SendOpen(s) PROVE LinkInv'
    BY <1>14, PoolAssumption DEF SendOpen, DeliverOpen, LinkInv, TypeOK
  <1>15. ASSUME NEW s \in Session, SendOpenFails(s) PROVE LinkInv'
    BY <1>15, PoolAssumption DEF SendOpenFails, DeliverOpen, SessionWorker, LinkInv, TypeOK
  <1>16. ASSUME NEW s \in Session, CreateReturns(s) PROVE LinkInv'
    BY <1>16, PoolAssumption DEF CreateReturns, LinkInv, TypeOK
  <1>17. ASSUME NEW s \in Session, CreateTimesOut(s) PROVE LinkInv'
    BY <1>17, PoolAssumption DEF CreateTimesOut, LinkInv, TypeOK
  <1>18. ASSUME NEW s \in Session, CreateGivesUp(s) PROVE LinkInv'
    BY <1>18, PoolAssumption DEF CreateGivesUp, Evict, LinkInv, TypeOK
  <1>19. ASSUME NEW s \in Session, RetireSession(s) PROVE LinkInv'
    BY <1>19, PoolAssumption DEF RetireSession, Finished, LinkInv, TypeOK
  <1>20. ASSUME NEW s \in Session, AbandonCreate(s) PROVE LinkInv'
    BY <1>20, PoolAssumption DEF AbandonCreate, LinkInv, TypeOK
  <1>21. ASSUME NEW t \in Terminal, NEW s \in Session, AttachTerminal(t, s) PROVE LinkInv'
    BY <1>21, PoolAssumption DEF AttachTerminal, LinkInv, TypeOK
  <1>22. ASSUME NEW r \in Command, NEW s \in Session, NEW mode \in Mode, Submit(r, s, mode)
         PROVE  LinkInv'
    BY <1>22, PoolAssumption DEF Submit, LinkInv, TypeOK
  <1>23. ASSUME NEW r \in Command, SubmitLocks(r) PROVE LinkInv'
    BY <1>23, PoolAssumption DEF SubmitLocks, LockFree, LinkInv, TypeOK
  <1>24. ASSUME NEW r \in Command, SubmitSetupFails(r) PROVE LinkInv'
    BY <1>24, PoolAssumption DEF SubmitSetupFails, LinkInv, TypeOK
  <1>25. ASSUME NEW r \in Command, SubmitRegisters(r) PROVE LinkInv'
    BY <1>25, PoolAssumption DEF SubmitRegisters, LinkInv, TypeOK
  <1>26. ASSUME NEW r \in Command, SendRun(r) PROVE LinkInv'
    BY <1>26, PoolAssumption DEF SendRun, DeliverRun, LinkInv, TypeOK
  <1>27. ASSUME NEW r \in Command, SendRunFails(r) PROVE LinkInv'
    BY <1>27, PoolAssumption DEF SendRunFails, DeliverRun, SessionWorker, LinkInv, TypeOK
  <1>28. ASSUME NEW r \in Command, Cancel(r) PROVE LinkInv'
    BY <1>28, PoolAssumption DEF Cancel, LinkInv, TypeOK
  <1>29. ASSUME NEW r \in Command, CancelSends(r) PROVE LinkInv'
    BY <1>29, PoolAssumption DEF CancelSends, LinkInv, TypeOK
  <1>30. ASSUME NEW r \in Command, PurgeHandle(r) PROVE LinkInv'
    BY <1>30, PoolAssumption DEF PurgeHandle, LinkInv, TypeOK
  <1>31. ASSUME NEW r \in Command, AbandonSubmit(r) PROVE LinkInv'
    BY <1>31, PoolAssumption DEF AbandonSubmit, DeliverRun, LinkInv, TypeOK
  <1>32. ASSUME NEW k \in Closer, NEW s \in Session, Close(k, s) PROVE LinkInv'
    BY <1>32, PoolAssumption DEF Close, StillIdle, LinkInv, TypeOK
  <1>33. ASSUME NEW k \in Closer, CloseLocks(k) PROVE LinkInv'
    BY <1>33, PoolAssumption DEF CloseLocks, LockFree, LinkInv, TypeOK
  <1>34. ASSUME NEW k \in Closer, SendClose(k) PROVE LinkInv'
    BY <1>34, PoolAssumption DEF SendClose, LinkInv, TypeOK
  <1>35. ASSUME NEW k \in Closer, SendCloseFails(k) PROVE LinkInv'
    BY <1>35, PoolAssumption DEF SendCloseFails, Evict, LinkInv, TypeOK
  <1>36. ASSUME NEW k \in Closer, CloseReturns(k) PROVE LinkInv'
    BY <1>36, PoolAssumption DEF CloseReturns, LinkInv, TypeOK
  <1>37. ASSUME NEW k \in Closer, CloseTimesOut(k) PROVE LinkInv'
    BY <1>37, PoolAssumption DEF CloseTimesOut, Evict, LinkInv, TypeOK
  <1>38. ASSUME NEW k \in Closer, AbandonClose(k) PROVE LinkInv'
    BY <1>38, PoolAssumption DEF AbandonClose, LinkInv, TypeOK
  <1>39. ASSUME NEW t \in Terminal, DetachTerminal(t) PROVE LinkInv'
    BY <1>39, PoolAssumption DEF DetachTerminal, LinkInv, TypeOK
  <1>40. ASSUME UNCHANGED vars PROVE LinkInv'
    BY <1>40 DEF vars, LinkInv, TypeOK
  <1>41. ASSUME NEW c \in Conn, RouteWaits(c) \/ RouteReturns(c) PROVE LinkInv'
    BY <1>41, RouteChanges DEF LinkInv
  <1> QED
    BY <1>1, <1>2, <1>3, <1>4, <1>5, <1>6, <1>7, <1>8, <1>9, <1>10, <1>11, <1>12, <1>13,
       <1>14, <1>15, <1>16, <1>17, <1>18, <1>19, <1>20, <1>21, <1>22, <1>23, <1>24, <1>25,
       <1>26, <1>27, <1>28, <1>29, <1>30, <1>31, <1>32, <1>33, <1>34, <1>35, <1>36, <1>37,
       <1>38, <1>39, <1>40, <1>41 DEF Next, ConnStep, TaskStep, SessionStep,
       CommandStep, CloserStep, Quiescent

\* Every step keeps reconciliations with their owners.
LEMMA TaskNext == ASSUME TypeOK, LinkInv, TaskInv, [Next]_vars PROVE TaskInv'
  <1> USE DEF poolVars, recVars, runtimeVars, taskVars, farVars
  <1>1. ASSUME NEW c \in Conn, Register(c) PROVE TaskInv'
    BY <1>1 DEF Register, TaskInv, TypeOK
  <1>2. ASSUME NEW c \in Conn, Disconnect(c) PROVE TaskInv'
    BY <1>2 DEF Disconnect, TaskInv, TypeOK
  <1>3. ASSUME NEW c \in Conn, LoopEnds(c) PROVE TaskInv'
    <2>1. /\ task' = [task EXCEPT ![c] =
                     DropTask(WorkerOf[c])]
          /\ UNCHANGED <<creator, submit>>
      BY <1>3 DEF LoopEnds, Selecting
    <2>2. c \in Task
      BY <1>3, TaskKinds
    <2>3. /\ task'[c] =
                     DropTask(WorkerOf[c])
          /\ \A j \in Task : j # c => task'[j] = task[j]
      BY <2>1, <2>2, TaskUpdate
    <2> QED
      BY <1>3, <2>1, <2>2, <2>3, DropTaskFields, TaskKinds, PoolAssumption DEF TaskInv
  <1>4. ASSUME NEW c \in Conn, NEW s \in Session, NEW error \in BOOLEAN, SessionReady(c, s,
               error)
        PROVE  TaskInv'
    BY <1>4 DEF SessionReady, TaskInv, TypeOK
  <1>5. ASSUME NEW c \in Conn, NEW s \in Session, NEW error \in BOOLEAN,
               NEW reusable \in BOOLEAN, SessionClosed(c, s, error, reusable)
        PROVE  TaskInv'
    <2>1. CASE state[s] = "Swept"
      BY <1>5, <2>1 DEF SessionClosed, TaskInv
    <2>2. CASE state[s] # "Swept"
      <3>1. c \in Task /\ UNCHANGED <<creator, submit>>
        BY <1>5, TaskKinds DEF SessionClosed
      <3> DEFINE rec == Reconcile("finish", WorkerOf[c], InflightOf(s),
                                  IF state[s] = "Closing" /\ ~error
                                  THEN "Cancelled" ELSE "WorkerError",
                                  closed[s])
      <3>2. /\ task' = [task EXCEPT ![c] = rec]
            /\ rec.pc = "finish" /\ rec.worker = WorkerOf[c]
        BY <1>5, <2>2, ReconcileFields DEF SessionClosed
      <3> HIDE DEF rec
      <3>3. task'[c] = rec /\ \A j \in Task : j # c => task'[j] = task[j]
        BY <3>1, <3>2, TaskUpdate
      <3> QED
        BY <3>1, <3>2, <3>3, TaskKinds, PoolAssumption DEF TaskInv
    <2> QED
      BY <2>1, <2>2
  <1>6. ASSUME NEW c \in Conn, NEW r \in Command, SpoolFails(c, r) PROVE TaskInv'
    BY <1>6 DEF SpoolFails, TaskInv, TypeOK
  <1>7. ASSUME NEW c \in Conn, NEW r \in Command, NEW cause \in Reports, Result(c, r, cause)
        PROVE  TaskInv'
    <2>1. CASE handles[r] = "Purged"
      BY <1>7, <2>1 DEF Result, TaskInv
    <2>2. CASE handles[r] # "Purged"
      <3>1. c \in Task /\ UNCHANGED <<creator, submit>>
        BY <1>7, TaskKinds DEF Result
      <3> DEFINE rec == Reconcile("result", WorkerOf[c], {r}, cause, {})
      <3>2. /\ task' = [task EXCEPT ![c] = rec]
            /\ rec.pc = "result" /\ rec.worker = WorkerOf[c]
        BY <1>7, <2>2, ReconcileFields DEF Result
      <3> HIDE DEF rec
      <3>3. task'[c] = rec /\ \A j \in Task : j # c => task'[j] = task[j]
        BY <3>1, <3>2, TaskUpdate
      <3> QED
        BY <3>1, <3>2, <3>3, TaskKinds, PoolAssumption DEF TaskInv
    <2> QED
      BY <2>1, <2>2
  <1>8. ASSUME NEW w \in Worker, Keepalive(w) PROVE TaskInv'
    BY <1>8 DEF Keepalive, Evict, TaskInv, TypeOK
  <1>9. ASSUME NEW k \in Task, DropTakesInflight(k) PROVE TaskInv'
    <2>1. /\ task' = [task EXCEPT ![k] =
                     Reconcile("drop2", task[k].worker,
                               {r \in inflight : OnWorker(r, task[k].worker)}, "Normal", {})]
          /\ UNCHANGED <<creator, submit>>
      BY <1>9 DEF DropTakesInflight, Selecting
    <2>2. k \in Task
      BY <1>9, TaskKinds
    <2>3. /\ task'[k] =
                     Reconcile("drop2", task[k].worker,
                               {r \in inflight : OnWorker(r, task[k].worker)}, "Normal", {})
          /\ \A j \in Task : j # k => task'[j] = task[j]
      BY <2>1, <2>2, TaskUpdate
    <2> QED
      BY <2>1, <2>2, <2>3, <1>9, ReconcileFields, TaskKinds, PoolAssumption
         DEF TaskInv, DropTakesInflight
  <1>10. ASSUME NEW k \in Task, DropForgetsWorker(k) PROVE TaskInv'
    <2>1. k \in Task /\ task[k].pc = "drop2" /\ UNCHANGED <<creator, submit>>
      BY <1>10 DEF DropForgetsWorker
    <2> DEFINE id == worker_sessions[task[k].worker]
               rec(cause) == Reconcile("finish", task[k].worker, task[k].pending, cause,
                  Waiters(id))
    <2>2. PICK cause \in ProbeSays : task' = [task EXCEPT ![k] = rec(cause)]
      BY <1>10 DEF DropForgetsWorker
    <2>3. rec(cause).pc = "finish" /\ rec(cause).worker = task[k].worker
      BY ReconcileFields
    <2> HIDE DEF rec
    <2>4. task'[k] = rec(cause) /\ \A j \in Task : j # k => task'[j] = task[j]
      BY <2>1, <2>2, TaskUpdate
    <2> QED
      BY <2>1, <2>3, <2>4, TaskKinds DEF TaskInv
  <1>11. ASSUME NEW k \in Task, TaskEnds(k) PROVE TaskInv'
    <2>1. k \in Task /\ task' = [task EXCEPT ![k] = NoTask]
      BY <1>11, TaskKinds DEF TaskEnds
    <2>2. task'[k] = NoTask /\ \A j \in Task : j # k => task'[j] = task[j]
      BY <2>1, TaskUpdate
    <2> QED
      BY <1>11, <2>1, <2>2, NoTaskFields, TaskKinds
         DEF TaskEnds, HandlerReturns, TaskInv, TypeOK
  <1>12. ASSUME NEW k \in Task, NEW r \in Command, FinishHandle(k, r) PROVE TaskInv'
    <2>1. /\ task' = [task EXCEPT ![k] =
                     Reconcile(task[k].pc, task[k].worker, task[k].pending \ {r},
                               task[k].cause, task[k].wake)]
          /\ UNCHANGED <<creator, submit>>
      BY <1>12 DEF FinishHandle, Selecting
    <2>2. k \in Task
      BY <1>12, TaskKinds
    <2>3. /\ task'[k] =
                     Reconcile(task[k].pc, task[k].worker, task[k].pending \ {r},
                               task[k].cause, task[k].wake)
          /\ \A j \in Task : j # k => task'[j] = task[j]
      BY <2>1, <2>2, TaskUpdate
    <2> QED
      BY <1>12, <2>1, <2>2, <2>3, ReconcileFields, TaskKinds, PoolAssumption
         DEF TaskInv, FinishHandle
  <1>13. ASSUME NEW s \in Session, NEW p \in Profile, CreateSession(s, p) PROVE TaskInv'
    BY <1>13 DEF CreateSession, Available, LinkInv, TaskInv, TypeOK
  <1>14. ASSUME NEW s \in Session, SendOpen(s) PROVE TaskInv'
    BY <1>14 DEF SendOpen, DeliverOpen, TaskInv, TypeOK
  <1>15. ASSUME NEW s \in Session, SendOpenFails(s) PROVE TaskInv'
    <2>1. /\ s \in Task
          /\ task' = [task EXCEPT ![s] = DropTask(SessionWorker(s))]
          /\ SessionWorker(s) \in Worker
      BY <1>15, TaskKinds, SessionWorkerType DEF SendOpenFails, LinkInv
    <2>2. /\ task'[s] = DropTask(SessionWorker(s))
          /\ \A j \in Task : j # s => task'[j] = task[j]
      BY <2>1, TaskUpdate
    <2> QED
      BY <1>15, <2>1, <2>2, DropTaskFields, TaskKinds DEF SendOpenFails, TaskInv, TypeOK
  <1>16. ASSUME NEW s \in Session, CreateReturns(s) PROVE TaskInv'
    BY <1>16 DEF CreateReturns, TaskInv, TypeOK
  <1>17. ASSUME NEW s \in Session, CreateTimesOut(s) PROVE TaskInv'
    BY <1>17 DEF CreateTimesOut, TaskInv, TypeOK
  <1>18. ASSUME NEW s \in Session, CreateGivesUp(s) PROVE TaskInv'
    BY <1>18 DEF CreateGivesUp, Evict, TaskInv, TypeOK
  <1>19. ASSUME NEW s \in Session, RetireSession(s) PROVE TaskInv'
    BY <1>19 DEF RetireSession, TaskInv, TypeOK
  <1>20. ASSUME NEW s \in Session, AbandonCreate(s) PROVE TaskInv'
    <2>1. s \in Task /\ task' = [task EXCEPT ![s] = NoTask]
      BY <1>20, TaskKinds DEF AbandonCreate
    <2>2. task'[s] = NoTask /\ \A j \in Task : j # s => task'[j] = task[j]
      BY <2>1, TaskUpdate
    <2> QED
      BY <1>20, <2>1, <2>2, NoTaskFields, TaskKinds
         DEF AbandonCreate, HandlerReturns, TaskInv, TypeOK
  <1>21. ASSUME NEW t \in Terminal, NEW s \in Session, AttachTerminal(t, s) PROVE TaskInv'
    BY <1>21 DEF AttachTerminal, TaskInv, TypeOK
  <1>22. ASSUME NEW r \in Command, NEW s \in Session, NEW mode \in Mode, Submit(r, s, mode)
         PROVE  TaskInv'
    BY <1>22 DEF Submit, TaskInv, TypeOK
  <1>23. ASSUME NEW r \in Command, SubmitLocks(r) PROVE TaskInv'
    BY <1>23 DEF SubmitLocks, LockFree, TaskInv, TypeOK
  <1>24. ASSUME NEW r \in Command, SubmitSetupFails(r) PROVE TaskInv'
    BY <1>24 DEF SubmitSetupFails, TaskInv, TypeOK
  <1>25. ASSUME NEW r \in Command, SubmitRegisters(r) PROVE TaskInv'
    BY <1>25 DEF SubmitRegisters, TaskInv, TypeOK
  <1>26. ASSUME NEW r \in Command, SendRun(r) PROVE TaskInv'
    BY <1>26 DEF SendRun, DeliverRun, TaskInv, TypeOK
  <1>27. ASSUME NEW r \in Command, SendRunFails(r) PROVE TaskInv'
    <2>1. /\ r \in Task
          /\ task' = [task EXCEPT ![r] = DropTask(SessionWorker(cmd[r].session))]
          /\ SessionWorker(cmd[r].session) \in Worker
      BY <1>27, TaskKinds, SessionWorkerType DEF SendRunFails, LinkInv
    <2>2. /\ task'[r] = DropTask(SessionWorker(cmd[r].session))
          /\ \A j \in Task : j # r => task'[j] = task[j]
      BY <2>1, TaskUpdate
    <2> QED
      BY <1>27, <2>1, <2>2, DropTaskFields, TaskKinds DEF SendRunFails, TaskInv, TypeOK
  <1>28. ASSUME NEW r \in Command, Cancel(r) PROVE TaskInv'
    BY <1>28 DEF Cancel, TaskInv, TypeOK
  <1>29. ASSUME NEW r \in Command, CancelSends(r) PROVE TaskInv'
    BY <1>29 DEF CancelSends, TaskInv, TypeOK
  <1>30. ASSUME NEW r \in Command, PurgeHandle(r) PROVE TaskInv'
    BY <1>30 DEF PurgeHandle, TaskInv, TypeOK
  <1>31. ASSUME NEW r \in Command, AbandonSubmit(r) PROVE TaskInv'
    <2>1. r \in Task /\ task' = [task EXCEPT ![r] = NoTask]
      BY <1>31, TaskKinds DEF AbandonSubmit
    <2>2. task'[r] = NoTask /\ \A j \in Task : j # r => task'[j] = task[j]
      BY <2>1, TaskUpdate
    <2> QED
      BY <1>31, <2>1, <2>2, NoTaskFields, TaskKinds
         DEF AbandonSubmit, HandlerReturns, TaskInv, TypeOK
  <1>32. ASSUME NEW k \in Closer, NEW s \in Session, Close(k, s) PROVE TaskInv'
    BY <1>32 DEF Close, TaskInv, TypeOK
  <1>33. ASSUME NEW k \in Closer, CloseLocks(k) PROVE TaskInv'
    BY <1>33 DEF CloseLocks, LockFree, TaskInv, TypeOK
  <1>34. ASSUME NEW k \in Closer, SendClose(k) PROVE TaskInv'
    BY <1>34 DEF SendClose, TaskInv, TypeOK
  <1>35. ASSUME NEW k \in Closer, SendCloseFails(k) PROVE TaskInv'
    BY <1>35 DEF SendCloseFails, Evict, TaskInv, TypeOK
  <1>36. ASSUME NEW k \in Closer, CloseReturns(k) PROVE TaskInv'
    BY <1>36 DEF CloseReturns, TaskInv, TypeOK
  <1>37. ASSUME NEW k \in Closer, CloseTimesOut(k) PROVE TaskInv'
    BY <1>37 DEF CloseTimesOut, Evict, TaskInv, TypeOK
  <1>38. ASSUME NEW k \in Closer, AbandonClose(k) PROVE TaskInv'
    BY <1>38 DEF AbandonClose, TaskInv, TypeOK
  <1>39. ASSUME NEW t \in Terminal, DetachTerminal(t) PROVE TaskInv'
    BY <1>39 DEF DetachTerminal, TaskInv, TypeOK
  <1>40. ASSUME UNCHANGED vars PROVE TaskInv'
    BY <1>40 DEF vars, TaskInv, TypeOK
  <1>41. ASSUME NEW c \in Conn, RouteWaits(c) \/ RouteReturns(c) PROVE TaskInv'
    <2>1. UNCHANGED <<creator, submit>> /\ c \in Task
      BY <1>41, RouteChanges
    <2>2. CASE task' = [task EXCEPT ![c] = RouteTask(WorkerOf[c])]
      <3> DEFINE rec == RouteTask(WorkerOf[c])
      <3>1. rec.pc = "routing" /\ rec.worker \in Worker /\ rec.wake = {}
        BY RouteTaskFields, PoolAssumption
      <3>2. task' = [task EXCEPT ![c] = rec]
        BY <2>2
      <3> HIDE DEF rec
      <3>3. task'[c] = rec /\ \A j \in Task : j # c => task'[j] = task[j]
        BY <2>1, <3>2, TaskUpdate
      <3> QED
        BY <2>1, <3>1, <3>3, TaskKinds DEF TaskInv
    <2>3. CASE task' = [task EXCEPT ![c] = NoTask]
      <3>1. task'[c] = NoTask /\ \A j \in Task : j # c => task'[j] = task[j]
        BY <2>1, <2>3, TaskUpdate
      <3> QED
        BY <2>1, <3>1, NoTaskFields, TaskKinds DEF TaskInv
    <2> QED
      BY <1>41, <2>2, <2>3, RouteChanges
  <1> QED
    BY <1>1, <1>2, <1>3, <1>4, <1>5, <1>6, <1>7, <1>8, <1>9, <1>10, <1>11, <1>12, <1>13,
       <1>14, <1>15, <1>16, <1>17, <1>18, <1>19, <1>20, <1>21, <1>22, <1>23, <1>24, <1>25,
       <1>26, <1>27, <1>28, <1>29, <1>30, <1>31, <1>32, <1>33, <1>34, <1>35, <1>36, <1>37,
       <1>38, <1>39, <1>40, <1>41 DEF Next, ConnStep, TaskStep, SessionStep,
       CommandStep, CloserStep, Quiescent

\* The three together are inductive.
LEMMA BaseNext == ASSUME BaseInv, [Next]_vars PROVE BaseInv'
  BY TypeNext, LinkNext, TaskNext DEF BaseInv

\* In every behaviour requests and reconciliations refer to what exists.
THEOREM BaseCorrect == Spec => []BaseInv
  <1>1. Init => BaseInv
    BY BaseInit
  <1>2. BaseInv /\ [Next]_vars => BaseInv'
    BY BaseNext
  <1> QED
    BY <1>1, <1>2, PTL DEF Spec

\* The type invariant of the pool holds in every behaviour.
THEOREM TypeCorrect == Spec => []TypeOK
  <1>1. BaseInv => TypeOK
    BY DEF BaseInv
  <1> QED
    BY <1>1, BaseCorrect, PTL
=============================================================================
