----------------------------- MODULE PoolProofs -----------------------------
(***************************************************************************)
(* The safety theorems of Pool, for any number of workers, connections,    *)
(* sessions, commands, closers and terminals and for every environment,    *)
(* overlapping registrations and abandoned requests included.              *)
(***************************************************************************)
EXTENDS PoolTypeProofs, FiniteSetTheorems

\* The submit handler's progress: nothing is registered before "sending",
\* nothing runs before it was sent.
SubmitInv ==
    /\ \A r \in Command : submit[r] \in {"none", "locking", "setup"} =>
          r \notin inflight \cup running /\ handles[r] = "Absent"
    /\ \A r \in Command : submit[r] = "sending" => r \notin running

\* Who holds a send lock, and what a sent SessionClose implies.
SendLockInv ==
    /\ \A r \in Command : submit[r] \in {"setup", "sending", "dropping"} =>
          send_lock[cmd[r].session] = r
    /\ \A k \in Closer : closer[k] = "sending" =>
          send_lock[target[k]] = k /\ state[target[k]] \notin {"Opening", "Active"}
    /\ \A r \in Command : submit[r] \in {"locking", "setup", "sending", "dropping"} =>
          creator[cmd[r].session] = "created"
    /\ \A r \in Command : submit[r] = "sending" => ~close_sent[cmd[r].session]
    /\ \A s \in Session : creator[s] = "created" => state[s] # "Opening"
    /\ \A s \in Session : close_sent[s] =>
          creator[s] \in {"failed", "abandoned"} \/ state[s] \notin {"Absent", "Opening", "Active"}

\* The stateful count bounds the stateful commands that may still touch the
\* shell: a worker drop removes inflight entries without counting down.
CountInv ==
    \A s \in Session : Cardinality(StatefulBusy(s)) <= stateful_count[s]

\* The reservation, and what it excludes.
TerminalInv ==
    /\ \A t \in Terminal : attached[t] # None => state[attached[t]] # "Absent"
    /\ \A s \in Session : terminal[s] # None =>
          state[s] \in {"Active", "Closing"} /\ StatefulBusy(s) = {}
    /\ \A t \in Terminal : \A s \in Session :
          attached[t] = s /\ state[s] \in Unfinished => terminal[s] = t

\* The inductive invariant.
SafeInv ==
    /\ BaseInv
    /\ SubmitInv
    /\ SendLockInv
    /\ CountInv
    /\ TerminalInv
    /\ ClosersRemembered

-----------------------------------------------------------------------------
\* Every step keeps the submit handlers' progress.
LEMMA SubmitNext == ASSUME TypeOK, LinkInv, TaskInv, SubmitInv, [Next]_vars PROVE SubmitInv'
  <1> USE DEF poolVars, recVars, runtimeVars, taskVars, farVars
  <1>1. ASSUME NEW c \in Conn, Register(c) PROVE SubmitInv'
    BY <1>1 DEF Register, SubmitInv, TypeOK
  <1>2. ASSUME NEW c \in Conn, Disconnect(c) PROVE SubmitInv'
    BY <1>2 DEF Disconnect, SubmitInv, TypeOK
  <1>3. ASSUME NEW c \in Conn, LoopEnds(c) PROVE SubmitInv'
    BY <1>3 DEF LoopEnds, SubmitInv, TypeOK
  <1>4. ASSUME NEW c \in Conn, NEW s \in Session, NEW error \in BOOLEAN, SessionReady(c, s,
               error)
        PROVE  SubmitInv'
    BY <1>4 DEF SessionReady, SubmitInv, TypeOK
  <1>5. ASSUME NEW c \in Conn, NEW s \in Session, NEW error \in BOOLEAN,
               NEW reusable \in BOOLEAN, SessionClosed(c, s, error, reusable)
        PROVE  SubmitInv'
    BY <1>5 DEF SessionClosed, SubmitInv, TypeOK
  <1>6. ASSUME NEW c \in Conn, NEW r \in Command, SpoolFails(c, r) PROVE SubmitInv'
    BY <1>6 DEF SpoolFails, SubmitInv, TypeOK
  <1>7. ASSUME NEW c \in Conn, NEW r \in Command, NEW cause \in Reports, Result(c, r, cause)
        PROVE  SubmitInv'
    BY <1>7 DEF Result, CountsDown, SubmitInv, TypeOK
  <1>8. ASSUME NEW w \in Worker, Keepalive(w) PROVE SubmitInv'
    BY <1>8 DEF Keepalive, Evict, SubmitInv, TypeOK
  <1>9. ASSUME NEW k \in Task, DropTakesInflight(k) PROVE SubmitInv'
    BY <1>9 DEF DropTakesInflight, SubmitInv, TypeOK
  <1>10. ASSUME NEW k \in Task, DropForgetsWorker(k) PROVE SubmitInv'
    BY <1>10 DEF DropForgetsWorker, FailSession, Waiters, SubmitInv, TypeOK
  <1>11. ASSUME NEW k \in Task, TaskEnds(k) PROVE SubmitInv'
    BY <1>11 DEF TaskEnds, HandlerReturns, TaskInv, SubmitInv, TypeOK
  <1>12. ASSUME NEW k \in Task, NEW r \in Command, FinishHandle(k, r) PROVE SubmitInv'
    BY <1>12 DEF FinishHandle, StillRunning, SubmitInv, TypeOK
  <1>13. ASSUME NEW s \in Session, NEW p \in Profile, CreateSession(s, p) PROVE SubmitInv'
    BY <1>13 DEF CreateSession, Available, SubmitInv, TypeOK
  <1>14. ASSUME NEW s \in Session, SendOpen(s) PROVE SubmitInv'
    BY <1>14 DEF SendOpen, DeliverOpen, SubmitInv, TypeOK
  <1>15. ASSUME NEW s \in Session, SendOpenFails(s) PROVE SubmitInv'
    BY <1>15 DEF SendOpenFails, DeliverOpen, SubmitInv, TypeOK
  <1>16. ASSUME NEW s \in Session, CreateReturns(s) PROVE SubmitInv'
    BY <1>16 DEF CreateReturns, SubmitInv, TypeOK
  <1>17. ASSUME NEW s \in Session, CreateTimesOut(s) PROVE SubmitInv'
    BY <1>17 DEF CreateTimesOut, SubmitInv, TypeOK
  <1>18. ASSUME NEW s \in Session, CreateGivesUp(s) PROVE SubmitInv'
    BY <1>18 DEF CreateGivesUp, Evict, SubmitInv, TypeOK
  <1>19. ASSUME NEW s \in Session, RetireSession(s) PROVE SubmitInv'
    BY <1>19 DEF RetireSession, SubmitInv, TypeOK
  <1>20. ASSUME NEW s \in Session, AbandonCreate(s) PROVE SubmitInv'
    BY <1>20 DEF AbandonCreate, SubmitInv, TypeOK
  <1>21. ASSUME NEW t \in Terminal, NEW s \in Session, AttachTerminal(t, s) PROVE SubmitInv'
    BY <1>21 DEF AttachTerminal, SubmitInv, TypeOK
  <1>22. ASSUME NEW r \in Command, NEW s \in Session, NEW mode \in Mode, Submit(r, s, mode)
         PROVE  SubmitInv'
    BY <1>22 DEF Submit, SubmitInv, TypeOK
  <1>23. ASSUME NEW r \in Command, SubmitLocks(r) PROVE SubmitInv'
    BY <1>23 DEF SubmitLocks, LockFree, SubmitInv, TypeOK
  <1>24. ASSUME NEW r \in Command, SubmitSetupFails(r) PROVE SubmitInv'
    BY <1>24 DEF SubmitSetupFails, SubmitInv, TypeOK
  <1>25. ASSUME NEW r \in Command, SubmitRegisters(r) PROVE SubmitInv'
    BY <1>25 DEF SubmitRegisters, Accepts, SubmitInv, TypeOK
  <1>26. ASSUME NEW r \in Command, SendRun(r) PROVE SubmitInv'
    BY <1>26 DEF SendRun, DeliverRun, SubmitInv, TypeOK
  <1>27. ASSUME NEW r \in Command, SendRunFails(r) PROVE SubmitInv'
    BY <1>27 DEF SendRunFails, DeliverRun, SubmitInv, TypeOK
  <1>28. ASSUME NEW r \in Command, Cancel(r) PROVE SubmitInv'
    BY <1>28 DEF Cancel, SubmitInv, TypeOK
  <1>29. ASSUME NEW r \in Command, CancelSends(r) PROVE SubmitInv'
    BY <1>29 DEF CancelSends, SubmitInv, TypeOK
  <1>30. ASSUME NEW r \in Command, PurgeHandle(r) PROVE SubmitInv'
    BY <1>30 DEF PurgeHandle, ExitCause, ResultCause, DropCause, SubmitInv, TypeOK
  <1>31. ASSUME NEW r \in Command, AbandonSubmit(r) PROVE SubmitInv'
    BY <1>31 DEF AbandonSubmit, DeliverRun, SubmitInv, TypeOK
  <1>32. ASSUME NEW k \in Closer, NEW s \in Session, Close(k, s) PROVE SubmitInv'
    BY <1>32 DEF Close, SubmitInv, TypeOK
  <1>33. ASSUME NEW k \in Closer, CloseLocks(k) PROVE SubmitInv'
    BY <1>33 DEF CloseLocks, LockFree, SubmitInv, TypeOK
  <1>34. ASSUME NEW k \in Closer, SendClose(k) PROVE SubmitInv'
    BY <1>34 DEF SendClose, SubmitInv, TypeOK
  <1>35. ASSUME NEW k \in Closer, SendCloseFails(k) PROVE SubmitInv'
    BY <1>35 DEF SendCloseFails, Evict, SubmitInv, TypeOK
  <1>36. ASSUME NEW k \in Closer, CloseReturns(k) PROVE SubmitInv'
    BY <1>36 DEF CloseReturns, SubmitInv, TypeOK
  <1>37. ASSUME NEW k \in Closer, CloseTimesOut(k) PROVE SubmitInv'
    BY <1>37 DEF CloseTimesOut, Evict, SubmitInv, TypeOK
  <1>38. ASSUME NEW k \in Closer, AbandonClose(k) PROVE SubmitInv'
    BY <1>38 DEF AbandonClose, SubmitInv, TypeOK
  <1>39. ASSUME NEW t \in Terminal, DetachTerminal(t) PROVE SubmitInv'
    BY <1>39 DEF DetachTerminal, SubmitInv, TypeOK
  <1>40. ASSUME UNCHANGED vars PROVE SubmitInv'
    BY <1>40 DEF vars, SubmitInv, TypeOK
  <1>41. ASSUME NEW c \in Conn, RouteWaits(c) \/ RouteReturns(c) PROVE SubmitInv'
    BY <1>41, RouteChanges DEF SubmitInv
  <1> QED
    BY <1>1, <1>2, <1>3, <1>4, <1>5, <1>6, <1>7, <1>8, <1>9, <1>10, <1>11, <1>12, <1>13,
       <1>14, <1>15, <1>16, <1>17, <1>18, <1>19, <1>20, <1>21, <1>22, <1>23, <1>24, <1>25,
       <1>26, <1>27, <1>28, <1>29, <1>30, <1>31, <1>32, <1>33, <1>34, <1>35, <1>36, <1>37,
       <1>38, <1>39, <1>40, <1>41 DEF Next, ConnStep, TaskStep, SessionStep,
       CommandStep, CloserStep, Quiescent

\* Every step keeps the send locks with their holders.
LEMMA SendLockNext ==
    ASSUME TypeOK, LinkInv, TaskInv, SendLockInv, [Next]_vars
    PROVE  SendLockInv'
  <1> USE DEF poolVars, recVars, runtimeVars, taskVars, farVars
  <1>1. ASSUME NEW c \in Conn, Register(c) PROVE SendLockInv'
    BY <1>1, PoolAssumption DEF Register, SendLockInv, TypeOK, LinkInv
  <1>2. ASSUME NEW c \in Conn, Disconnect(c) PROVE SendLockInv'
    BY <1>2, PoolAssumption DEF Disconnect, SendLockInv, TypeOK, LinkInv
  <1>3. ASSUME NEW c \in Conn, LoopEnds(c) PROVE SendLockInv'
    BY <1>3, PoolAssumption DEF LoopEnds, SendLockInv, TypeOK, LinkInv
  <1>4. ASSUME NEW c \in Conn, NEW s \in Session, NEW error \in BOOLEAN, SessionReady(c, s,
               error)
        PROVE  SendLockInv'
    BY <1>4, PoolAssumption DEF SessionReady, SendLockInv, TypeOK, LinkInv
  <1>5. ASSUME NEW c \in Conn, NEW s \in Session, NEW error \in BOOLEAN,
               NEW reusable \in BOOLEAN, SessionClosed(c, s, error, reusable)
        PROVE  SendLockInv'
    BY <1>5, PoolAssumption DEF SessionClosed, SendLockInv, TypeOK, LinkInv
  <1>6. ASSUME NEW c \in Conn, NEW r \in Command, SpoolFails(c, r) PROVE SendLockInv'
    BY <1>6, PoolAssumption DEF SpoolFails, SendLockInv, TypeOK, LinkInv
  <1>7. ASSUME NEW c \in Conn, NEW r \in Command, NEW cause \in Reports, Result(c, r, cause)
        PROVE  SendLockInv'
    BY <1>7, PoolAssumption DEF Result, CountsDown, SendLockInv, TypeOK, LinkInv
  <1>8. ASSUME NEW w \in Worker, Keepalive(w) PROVE SendLockInv'
    BY <1>8, PoolAssumption DEF Keepalive, Evict, SendLockInv, TypeOK, LinkInv
  <1>9. ASSUME NEW k \in Task, DropTakesInflight(k) PROVE SendLockInv'
    BY <1>9, PoolAssumption DEF DropTakesInflight, SendLockInv, TypeOK, LinkInv
  <1>10. ASSUME NEW k \in Task, DropForgetsWorker(k) PROVE SendLockInv'
    BY <1>10, PoolAssumption
       DEF DropForgetsWorker, FailSession, Waiters, SendLockInv, TypeOK, LinkInv
  <1>11. ASSUME NEW k \in Task, TaskEnds(k) PROVE SendLockInv'
    BY <1>11, PoolAssumption
       DEF TaskEnds, HandlerReturns, TaskInv, SendLockInv, TypeOK, LinkInv
  <1>12. ASSUME NEW k \in Task, NEW r \in Command, FinishHandle(k, r) PROVE SendLockInv'
    BY <1>12, PoolAssumption DEF FinishHandle, StillRunning, SendLockInv, TypeOK, LinkInv
  <1>13. ASSUME NEW s \in Session, NEW p \in Profile, CreateSession(s, p) PROVE SendLockInv'
    BY <1>13, PoolAssumption DEF CreateSession, Available, SendLockInv, TypeOK, LinkInv
  <1>14. ASSUME NEW s \in Session, SendOpen(s) PROVE SendLockInv'
    BY <1>14, PoolAssumption DEF SendOpen, DeliverOpen, SendLockInv, TypeOK, LinkInv
  <1>15. ASSUME NEW s \in Session, SendOpenFails(s) PROVE SendLockInv'
    BY <1>15, PoolAssumption DEF SendOpenFails, DeliverOpen, SendLockInv, TypeOK, LinkInv
  <1>16. ASSUME NEW s \in Session, CreateReturns(s) PROVE SendLockInv'
    BY <1>16, PoolAssumption DEF CreateReturns, SendLockInv, TypeOK, LinkInv
  <1>17. ASSUME NEW s \in Session, CreateTimesOut(s) PROVE SendLockInv'
    BY <1>17, PoolAssumption DEF CreateTimesOut, SendLockInv, TypeOK, LinkInv
  <1>18. ASSUME NEW s \in Session, CreateGivesUp(s) PROVE SendLockInv'
    BY <1>18, PoolAssumption DEF CreateGivesUp, Evict, SendLockInv, TypeOK, LinkInv
  <1>19. ASSUME NEW s \in Session, RetireSession(s) PROVE SendLockInv'
    BY <1>19, PoolAssumption DEF RetireSession, Finished, SendLockInv, TypeOK, LinkInv
  <1>20. ASSUME NEW s \in Session, AbandonCreate(s) PROVE SendLockInv'
    BY <1>20, PoolAssumption DEF AbandonCreate, DeliverOpen, SendLockInv, TypeOK, LinkInv
  <1>21. ASSUME NEW t \in Terminal, NEW s \in Session, AttachTerminal(t, s) PROVE SendLockInv'
    BY <1>21, PoolAssumption DEF AttachTerminal, SendLockInv, TypeOK, LinkInv
  <1>22. ASSUME NEW r \in Command, NEW s \in Session, NEW mode \in Mode, Submit(r, s, mode)
         PROVE  SendLockInv'
    BY <1>22, PoolAssumption DEF Submit, SendLockInv, TypeOK, LinkInv
  <1>23. ASSUME NEW r \in Command, SubmitLocks(r) PROVE SendLockInv'
    BY <1>23, PoolAssumption DEF SubmitLocks, LockFree, Accepts, SendLockInv, TypeOK, LinkInv
  <1>24. ASSUME NEW r \in Command, SubmitSetupFails(r) PROVE SendLockInv'
    BY <1>24, PoolAssumption DEF SubmitSetupFails, SendLockInv, TypeOK, LinkInv
  <1>25. ASSUME NEW r \in Command, SubmitRegisters(r) PROVE SendLockInv'
    <2>1. CASE Accepts(cmd[r].session, cmd[r].mode)
      BY <1>25, <2>1, PoolAssumption
         DEF SubmitRegisters, Accepts, SendLockInv, TypeOK, LinkInv
    <2>2. CASE ~Accepts(cmd[r].session, cmd[r].mode)
      BY <1>25, <2>2, PoolAssumption DEF SubmitRegisters, SendLockInv, TypeOK, LinkInv
    <2> QED
      BY <2>1, <2>2
  <1>26. ASSUME NEW r \in Command, SendRun(r) PROVE SendLockInv'
    BY <1>26, PoolAssumption DEF SendRun, DeliverRun, SendLockInv, TypeOK, LinkInv
  <1>27. ASSUME NEW r \in Command, SendRunFails(r) PROVE SendLockInv'
    BY <1>27, PoolAssumption DEF SendRunFails, DeliverRun, SendLockInv, TypeOK, LinkInv
  <1>28. ASSUME NEW r \in Command, Cancel(r) PROVE SendLockInv'
    BY <1>28, PoolAssumption DEF Cancel, SendLockInv, TypeOK, LinkInv
  <1>29. ASSUME NEW r \in Command, CancelSends(r) PROVE SendLockInv'
    BY <1>29, PoolAssumption DEF CancelSends, SendLockInv, TypeOK, LinkInv
  <1>30. ASSUME NEW r \in Command, PurgeHandle(r) PROVE SendLockInv'
    BY <1>30, PoolAssumption DEF PurgeHandle, SendLockInv, TypeOK, LinkInv
  <1>31. ASSUME NEW r \in Command, AbandonSubmit(r) PROVE SendLockInv'
    BY <1>31, PoolAssumption DEF AbandonSubmit, SendLockInv, TypeOK, LinkInv
  <1>32. ASSUME NEW k \in Closer, NEW s \in Session, Close(k, s) PROVE SendLockInv'
    BY <1>32, PoolAssumption DEF Close, SendLockInv, TypeOK, LinkInv
  <1>33. ASSUME NEW k \in Closer, CloseLocks(k) PROVE SendLockInv'
    <2>1. target[k] \in Session /\ send_lock[target[k]] = None /\ state[target[k]] # "Absent"
      BY <1>33 DEF CloseLocks, LockFree, LinkInv
    <2>2. /\ \A z \in Session : z # target[k] =>
                state'[z] = state[z] /\ send_lock'[z] = send_lock[z]
          /\ \A j \in Closer : j # k => closer'[j] = closer[j]
      BY <1>33, <2>1 DEF CloseLocks, LockFree, TypeOK
    <2>3. /\ state'[target[k]] \in {state[target[k]], "Closing"}
          /\ send_lock'[target[k]] \in {None, k}
          /\ closer'[k] = "sending" =>
                send_lock'[target[k]] = k /\ state'[target[k]] = "Closing"
      BY <1>33, <2>1 DEF CloseLocks, LockFree, TypeOK
    <2>4. UNCHANGED <<target, submit, cmd, creator, close_sent>>
      BY <1>33 DEF CloseLocks, LockFree
    <2>5. /\ \A j \in Closer : closer[j] # "none" => target[j] \in Session
          /\ \A r \in Command : submit[r] # "none" => cmd[r].session \in Session
      BY DEF LinkInv
    <2>6. None \notin Command \cup Closer /\ Closer \cap Command = {}
      BY PoolAssumption
    <2> QED
      BY <2>1, <2>2, <2>3, <2>4, <2>5, <2>6 DEF SendLockInv
  <1>34. ASSUME NEW k \in Closer, SendClose(k) PROVE SendLockInv'
    BY <1>34, PoolAssumption DEF SendClose, SendLockInv, TypeOK, LinkInv
  <1>35. ASSUME NEW k \in Closer, SendCloseFails(k) PROVE SendLockInv'
    BY <1>35, PoolAssumption DEF SendCloseFails, Evict, SendLockInv, TypeOK, LinkInv
  <1>36. ASSUME NEW k \in Closer, CloseReturns(k) PROVE SendLockInv'
    BY <1>36, PoolAssumption DEF CloseReturns, SendLockInv, TypeOK, LinkInv
  <1>37. ASSUME NEW k \in Closer, CloseTimesOut(k) PROVE SendLockInv'
    BY <1>37, PoolAssumption DEF CloseTimesOut, Evict, SendLockInv, TypeOK, LinkInv
  <1>38. ASSUME NEW k \in Closer, AbandonClose(k) PROVE SendLockInv'
    BY <1>38, PoolAssumption DEF AbandonClose, SendLockInv, TypeOK, LinkInv
  <1>39. ASSUME NEW t \in Terminal, DetachTerminal(t) PROVE SendLockInv'
    BY <1>39, PoolAssumption DEF DetachTerminal, SendLockInv, TypeOK, LinkInv
  <1>40. ASSUME UNCHANGED vars PROVE SendLockInv'
    BY <1>40 DEF vars, SendLockInv, TypeOK, LinkInv
  <1>41. ASSUME NEW c \in Conn, RouteWaits(c) \/ RouteReturns(c) PROVE SendLockInv'
    BY <1>41, RouteChanges DEF SendLockInv
  <1> QED
    BY <1>1, <1>2, <1>3, <1>4, <1>5, <1>6, <1>7, <1>8, <1>9, <1>10, <1>11, <1>12, <1>13,
       <1>14, <1>15, <1>16, <1>17, <1>18, <1>19, <1>20, <1>21, <1>22, <1>23, <1>24, <1>25,
       <1>26, <1>27, <1>28, <1>29, <1>30, <1>31, <1>32, <1>33, <1>34, <1>35, <1>36, <1>37,
       <1>38, <1>39, <1>40, <1>41 DEF Next, ConnStep, TaskStep, SessionStep,
       CommandStep, CloserStep, Quiescent

-----------------------------------------------------------------------------
\* Except for a registration and a Result, a step leaves the counts alone and
\* makes no stateful command busy.
BusyKept ==
    /\ UNCHANGED stateful_count
    /\ \A s \in Session : StatefulBusy(s)' \subseteq StatefulBusy(s)

\* The busy commands are finitely many, so subsets of them are no larger.
LEMMA BusyFinite ==
    ASSUME NEW s, NEW B \in SUBSET StatefulBusy(s)
    PROVE  /\ IsFiniteSet(StatefulBusy(s)) /\ Cardinality(StatefulBusy(s)) \in Nat
           /\ IsFiniteSet(B) /\ Cardinality(B) \in Nat
           /\ Cardinality(B) <= Cardinality(StatefulBusy(s))
  <1>1. IsFiniteSet(StatefulBusy(s))
    BY PoolAssumption, FS_Subset DEF StatefulBusy
  <1> QED
    BY <1>1, FS_Subset, FS_CardinalityType

\* Such a step keeps the count a bound.
LEMMA CountKept ==
    ASSUME TypeOK, CountInv, BusyKept
    PROVE  CountInv'
  <1> SUFFICES ASSUME NEW s \in Session
               PROVE  Cardinality(StatefulBusy(s)') <= stateful_count'[s]
    BY DEF CountInv
  <1>1. StatefulBusy(s)' \in SUBSET StatefulBusy(s) /\ stateful_count'[s] = stateful_count[s]
    BY DEF BusyKept
  <1>2. Cardinality(StatefulBusy(s)) <= stateful_count[s] /\ stateful_count[s] \in Nat
    BY DEF CountInv, TypeOK
  <1> QED
    BY <1>1, <1>2, BusyFinite

\* Only a registration makes a stateful command busy.
LEMMA BusyNext ==
    ASSUME TypeOK, LinkInv, TaskInv, [Next]_vars
    PROVE  \/ BusyKept
           \/ \E r \in Command : SubmitRegisters(r)
           \/ \E c \in Conn, r \in Command, cause \in Reports : Result(c, r, cause)
  <1> USE DEF poolVars, recVars, runtimeVars, taskVars, farVars
  <1>1. ASSUME NEW c \in Conn, Register(c) PROVE BusyKept
    BY <1>1 DEF Register, BusyKept, StatefulBusy, TypeOK
  <1>2. ASSUME NEW c \in Conn, Disconnect(c) PROVE BusyKept
    BY <1>2 DEF Disconnect, BusyKept, StatefulBusy, TypeOK
  <1>3. ASSUME NEW c \in Conn, LoopEnds(c) PROVE BusyKept
    BY <1>3 DEF LoopEnds, BusyKept, StatefulBusy, TypeOK
  <1>4. ASSUME NEW c \in Conn, NEW s \in Session, NEW error \in BOOLEAN, SessionReady(c, s,
               error)
        PROVE  BusyKept
    BY <1>4 DEF SessionReady, BusyKept, StatefulBusy, TypeOK
  <1>5. ASSUME NEW c \in Conn, NEW s \in Session, NEW error \in BOOLEAN,
               NEW reusable \in BOOLEAN, SessionClosed(c, s, error, reusable)
        PROVE  BusyKept
    BY <1>5 DEF SessionClosed, BusyKept, StatefulBusy, TypeOK
  <1>6. ASSUME NEW c \in Conn, NEW r \in Command, SpoolFails(c, r) PROVE BusyKept
    BY <1>6 DEF SpoolFails, BusyKept, StatefulBusy, TypeOK
  <1>7. ASSUME NEW w \in Worker, Keepalive(w) PROVE BusyKept
    BY <1>7 DEF Keepalive, Evict, BusyKept, StatefulBusy, TypeOK
  <1>8. ASSUME NEW k \in Task, DropTakesInflight(k) PROVE BusyKept
    BY <1>8 DEF DropTakesInflight, BusyKept, StatefulBusy, TypeOK
  <1>9. ASSUME NEW k \in Task, DropForgetsWorker(k) PROVE BusyKept
    BY <1>9 DEF DropForgetsWorker, FailSession, Waiters, BusyKept, StatefulBusy, TypeOK
  <1>10. ASSUME NEW k \in Task, TaskEnds(k) PROVE BusyKept
    BY <1>10 DEF TaskEnds, HandlerReturns, BusyKept, StatefulBusy, TypeOK, TaskInv
  <1>11. ASSUME NEW k \in Task, NEW r \in Command, FinishHandle(k, r) PROVE BusyKept
    BY <1>11 DEF FinishHandle, StillRunning, BusyKept, StatefulBusy, TypeOK
  <1>12. ASSUME NEW s \in Session, NEW p \in Profile, CreateSession(s, p) PROVE BusyKept
    BY <1>12 DEF CreateSession, Available, BusyKept, StatefulBusy, TypeOK
  <1>13. ASSUME NEW s \in Session, SendOpen(s) PROVE BusyKept
    BY <1>13 DEF SendOpen, DeliverOpen, BusyKept, StatefulBusy, TypeOK
  <1>14. ASSUME NEW s \in Session, SendOpenFails(s) PROVE BusyKept
    BY <1>14 DEF SendOpenFails, DeliverOpen, BusyKept, StatefulBusy, TypeOK
  <1>15. ASSUME NEW s \in Session, CreateReturns(s) PROVE BusyKept
    BY <1>15 DEF CreateReturns, BusyKept, StatefulBusy, TypeOK
  <1>16. ASSUME NEW s \in Session, CreateTimesOut(s) PROVE BusyKept
    BY <1>16 DEF CreateTimesOut, BusyKept, StatefulBusy, TypeOK
  <1>17. ASSUME NEW s \in Session, CreateGivesUp(s) PROVE BusyKept
    BY <1>17 DEF CreateGivesUp, Evict, BusyKept, StatefulBusy, TypeOK
  <1>18. ASSUME NEW s \in Session, RetireSession(s) PROVE BusyKept
    BY <1>18 DEF RetireSession, BusyKept, StatefulBusy, TypeOK
  <1>19. ASSUME NEW s \in Session, AbandonCreate(s) PROVE BusyKept
    BY <1>19 DEF AbandonCreate, BusyKept, StatefulBusy, TypeOK
  <1>20. ASSUME NEW t \in Terminal, NEW s \in Session, AttachTerminal(t, s) PROVE BusyKept
    BY <1>20 DEF AttachTerminal, BusyKept, StatefulBusy, TypeOK
  <1>21. ASSUME NEW r \in Command, NEW s \in Session, NEW mode \in Mode, Submit(r, s, mode)
         PROVE  BusyKept
    BY <1>21 DEF Submit, BusyKept, StatefulBusy, TypeOK, LinkInv
  <1>22. ASSUME NEW r \in Command, SubmitLocks(r) PROVE BusyKept
    BY <1>22 DEF SubmitLocks, LockFree, BusyKept, StatefulBusy, TypeOK
  <1>23. ASSUME NEW r \in Command, SubmitSetupFails(r) PROVE BusyKept
    BY <1>23 DEF SubmitSetupFails, BusyKept, StatefulBusy, TypeOK
  <1>24. ASSUME NEW r \in Command, SendRun(r) PROVE BusyKept
    BY <1>24 DEF SendRun, DeliverRun, BusyKept, StatefulBusy, TypeOK
  <1>25. ASSUME NEW r \in Command, SendRunFails(r) PROVE BusyKept
    BY <1>25 DEF SendRunFails, DeliverRun, BusyKept, StatefulBusy, TypeOK
  <1>26. ASSUME NEW r \in Command, Cancel(r) PROVE BusyKept
    BY <1>26 DEF Cancel, BusyKept, StatefulBusy, TypeOK
  <1>27. ASSUME NEW r \in Command, CancelSends(r) PROVE BusyKept
    BY <1>27 DEF CancelSends, BusyKept, StatefulBusy, TypeOK
  <1>28. ASSUME NEW r \in Command, PurgeHandle(r) PROVE BusyKept
    BY <1>28 DEF PurgeHandle, BusyKept, StatefulBusy, TypeOK
  <1>29. ASSUME NEW r \in Command, AbandonSubmit(r) PROVE BusyKept
    BY <1>29 DEF AbandonSubmit, DeliverRun, BusyKept, StatefulBusy, TypeOK
  <1>30. ASSUME NEW k \in Closer, NEW s \in Session, Close(k, s) PROVE BusyKept
    BY <1>30 DEF Close, BusyKept, StatefulBusy, TypeOK
  <1>31. ASSUME NEW k \in Closer, CloseLocks(k) PROVE BusyKept
    BY <1>31 DEF CloseLocks, LockFree, BusyKept, StatefulBusy, TypeOK
  <1>32. ASSUME NEW k \in Closer, SendClose(k) PROVE BusyKept
    BY <1>32 DEF SendClose, BusyKept, StatefulBusy, TypeOK
  <1>33. ASSUME NEW k \in Closer, SendCloseFails(k) PROVE BusyKept
    BY <1>33 DEF SendCloseFails, Evict, BusyKept, StatefulBusy, TypeOK
  <1>34. ASSUME NEW k \in Closer, CloseReturns(k) PROVE BusyKept
    BY <1>34 DEF CloseReturns, BusyKept, StatefulBusy, TypeOK
  <1>35. ASSUME NEW k \in Closer, CloseTimesOut(k) PROVE BusyKept
    BY <1>35 DEF CloseTimesOut, Evict, BusyKept, StatefulBusy, TypeOK
  <1>36. ASSUME NEW k \in Closer, AbandonClose(k) PROVE BusyKept
    BY <1>36 DEF AbandonClose, BusyKept, StatefulBusy, TypeOK
  <1>37. ASSUME NEW t \in Terminal, DetachTerminal(t) PROVE BusyKept
    BY <1>37 DEF DetachTerminal, BusyKept, StatefulBusy, TypeOK
  <1>38. ASSUME UNCHANGED vars PROVE BusyKept
    BY <1>38 DEF vars, BusyKept, StatefulBusy
  <1>41. ASSUME NEW c \in Conn, RouteWaits(c) \/ RouteReturns(c) PROVE BusyKept
    BY <1>41, RouteChanges DEF BusyKept, StatefulBusy
  <1> QED
    BY <1>1, <1>2, <1>3, <1>4, <1>5, <1>6, <1>7, <1>8, <1>9, <1>10, <1>11, <1>12, <1>13,
       <1>14, <1>15, <1>16, <1>17, <1>18, <1>19, <1>20, <1>21, <1>22, <1>23, <1>24, <1>25,
       <1>26, <1>27, <1>28, <1>29, <1>30, <1>31, <1>32, <1>33, <1>34, <1>35, <1>36, <1>37,
       <1>38, <1>41 DEF Next, ConnStep, TaskStep, SessionStep,
       CommandStep, CloserStep, Quiescent

\* A Result ends the command it reports, and counts down only for that command.
LEMMA ResultBusy ==
    ASSUME TypeOK, SubmitInv, NEW c \in Conn, NEW r \in Command, NEW cause \in Reports,
           Result(c, r, cause), NEW s \in Session
    PROVE  /\ StatefulBusy(s)' \in SUBSET StatefulBusy(s)
           /\ r \notin StatefulBusy(s)'
           /\ \/ stateful_count'[s] = stateful_count[s]
              \/ stateful_count'[s] = stateful_count[s] - 1 /\ r \in StatefulBusy(s)
  BY DEF Result, CountsDown, StatefulBusy, SubmitInv, TypeOK

\* Every step keeps the count a bound: a registration counts up for the command
\* it makes busy, a Result counts down at most once, for the command it ends.
LEMMA CountNext ==
    ASSUME TypeOK, LinkInv, TaskInv, SubmitInv, CountInv, [Next]_vars
    PROVE  CountInv'
  <1>1. CASE BusyKept
    BY <1>1, CountKept
  <1>2. ASSUME NEW r \in Command, SubmitRegisters(r) PROVE CountInv'
    <2>1. CASE ~Accepts(cmd[r].session, cmd[r].mode)
      <3>1. BusyKept
        BY <1>2, <2>1 DEF SubmitRegisters, BusyKept, StatefulBusy, TypeOK, farVars
      <3> QED
        BY <3>1, CountKept
    <2>2. CASE Accepts(cmd[r].session, cmd[r].mode)
      <3> SUFFICES ASSUME NEW s \in Session
                   PROVE  Cardinality(StatefulBusy(s)') <= stateful_count'[s]
        BY DEF CountInv
      <3>1. /\ Cardinality(StatefulBusy(s)) <= stateful_count[s] /\ stateful_count[s] \in Nat
            /\ IsFiniteSet(StatefulBusy(s)) /\ Cardinality(StatefulBusy(s)) \in Nat
        BY BusyFinite DEF CountInv, TypeOK
      <3>2. CASE s = cmd[r].session /\ cmd[r].mode = "Stateful"
        <4>1. StatefulBusy(s)' \subseteq StatefulBusy(s) \cup {r}
          BY <1>2, <2>2 DEF SubmitRegisters, StatefulBusy, TypeOK, farVars
        <4>2. stateful_count'[s] = stateful_count[s] + 1
          BY <1>2, <2>2, <3>2 DEF SubmitRegisters, TypeOK
        <4>3. /\ IsFiniteSet(StatefulBusy(s) \cup {r})
              /\ Cardinality(StatefulBusy(s) \cup {r}) <= Cardinality(StatefulBusy(s)) + 1
          <5>1. Cardinality(StatefulBusy(s) \cup {r}) =
                  IF r \in StatefulBusy(s) THEN Cardinality(StatefulBusy(s))
                                           ELSE Cardinality(StatefulBusy(s)) + 1
            BY <3>1, FS_AddElement
          <5>2. IsFiniteSet(StatefulBusy(s) \cup {r})
            BY <3>1, FS_AddElement
          <5> QED
            BY <3>1, <5>1, <5>2
        <4>4. /\ Cardinality(StatefulBusy(s)') <= Cardinality(StatefulBusy(s) \cup {r})
              /\ Cardinality(StatefulBusy(s)') \in Nat
              /\ Cardinality(StatefulBusy(s) \cup {r}) \in Nat
          BY <4>1, <4>3, FS_Subset, FS_CardinalityType
        <4> QED
          BY <3>1, <4>2, <4>3, <4>4
      <3>3. CASE ~(s = cmd[r].session /\ cmd[r].mode = "Stateful")
        <4>1. StatefulBusy(s)' \in SUBSET StatefulBusy(s)
          BY <1>2, <2>2, <3>3 DEF SubmitRegisters, StatefulBusy, TypeOK, farVars
        <4>2. stateful_count'[s] = stateful_count[s]
          BY <1>2, <2>2, <3>3 DEF SubmitRegisters, TypeOK
        <4> QED
          BY <3>1, <4>1, <4>2, BusyFinite
      <3> QED
        BY <3>2, <3>3
    <2> QED
      BY <2>1, <2>2
  <1>3. ASSUME NEW c \in Conn, NEW r \in Command, NEW cause \in Reports, Result(c, r, cause)
        PROVE  CountInv'
    <2> SUFFICES ASSUME NEW s \in Session
                 PROVE  Cardinality(StatefulBusy(s)') <= stateful_count'[s]
      BY DEF CountInv
    <2>1. /\ Cardinality(StatefulBusy(s)) <= stateful_count[s] /\ stateful_count[s] \in Nat
          /\ IsFiniteSet(StatefulBusy(s)) /\ Cardinality(StatefulBusy(s)) \in Nat
      BY BusyFinite DEF CountInv, TypeOK
    <2>2. StatefulBusy(s)' \in SUBSET StatefulBusy(s) /\ r \notin StatefulBusy(s)'
      BY <1>3, ResultBusy
    <2>3. CASE stateful_count'[s] = stateful_count[s]
      BY <2>1, <2>2, <2>3, BusyFinite
    <2>4. CASE stateful_count'[s] # stateful_count[s]
      <3>1. /\ stateful_count'[s] = stateful_count[s] - 1
            /\ r \in StatefulBusy(s)
        BY <1>3, <2>4, ResultBusy
      <3>2. /\ StatefulBusy(s)' \in SUBSET (StatefulBusy(s) \ {r})
            /\ IsFiniteSet(StatefulBusy(s) \ {r})
            /\ Cardinality(StatefulBusy(s) \ {r}) = Cardinality(StatefulBusy(s)) - 1
        BY <2>1, <2>2, <3>1, FS_RemoveElement
      <3>3. /\ Cardinality(StatefulBusy(s)') <= Cardinality(StatefulBusy(s) \ {r})
            /\ Cardinality(StatefulBusy(s)') \in Nat
            /\ Cardinality(StatefulBusy(s) \ {r}) \in Nat
        BY <3>2, FS_Subset, FS_CardinalityType
      <3> QED
        BY <2>1, <3>1, <3>2, <3>3
    <2> QED
      BY <2>3, <2>4
  <1> QED
    BY <1>1, <1>2, <1>3, BusyNext

\* A session that finishes gives up its reservation.
LEMMA TerminalKept ==
    ASSUME TypeOK, TerminalInv, UNCHANGED attached,
           \A z \in Session : StatefulBusy(z)' \subseteq StatefulBusy(z),
           \A z \in Session : \/ state'[z] = state[z] /\ terminal'[z] = terminal[z]
                              \/ state'[z] \in Finished /\ terminal'[z] = None
    PROVE  TerminalInv'
  <1>1. \A t \in Terminal : attached[t] \in Session \cup {None}
    BY DEF TypeOK
  <1> QED
    BY <1>1 DEF TerminalInv, Unfinished, Finished

\* Every step keeps the reservation exclusive.
LEMMA TerminalNext ==
    ASSUME TypeOK, LinkInv, TaskInv, SubmitInv, CountInv, TerminalInv, [Next]_vars
    PROVE  TerminalInv'
  <1> USE DEF poolVars, recVars, runtimeVars, taskVars, farVars
  <1>0. \/ \A s \in Session : StatefulBusy(s)' \subseteq StatefulBusy(s)
        \/ \E r \in Command : SubmitRegisters(r)
    BY BusyNext, ResultBusy DEF BusyKept
  <1>1. ASSUME NEW c \in Conn, Register(c),
              \A z \in Session : StatefulBusy(z)' \subseteq StatefulBusy(z)
        PROVE  TerminalInv'
    BY <1>1, PoolAssumption DEF Register, TerminalInv, TypeOK, Unfinished
  <1>2. ASSUME NEW c \in Conn, Disconnect(c),
              \A z \in Session : StatefulBusy(z)' \subseteq StatefulBusy(z)
        PROVE  TerminalInv'
    BY <1>2, PoolAssumption DEF Disconnect, TerminalInv, TypeOK, Unfinished
  <1>3. ASSUME NEW c \in Conn, LoopEnds(c),
              \A z \in Session : StatefulBusy(z)' \subseteq StatefulBusy(z)
        PROVE  TerminalInv'
    BY <1>3, PoolAssumption DEF LoopEnds, TerminalInv, TypeOK, Unfinished
  <1>4. ASSUME NEW c \in Conn, NEW s \in Session, NEW error \in BOOLEAN, SessionReady(c, s,
     error),
              \A z \in Session : StatefulBusy(z)' \subseteq StatefulBusy(z)
        PROVE  TerminalInv'
    BY <1>4, PoolAssumption DEF SessionReady, TerminalInv, TypeOK, Unfinished
  <1>5. ASSUME NEW c \in Conn, NEW s \in Session, NEW error \in BOOLEAN,
     NEW reusable \in BOOLEAN, SessionClosed(c, s, error, reusable),
              \A z \in Session : StatefulBusy(z)' \subseteq StatefulBusy(z)
        PROVE  TerminalInv'
    <2>1. UNCHANGED attached
      BY <1>5 DEF SessionClosed
    <2>2. \A z \in Session : \/ state'[z] = state[z] /\ terminal'[z] = terminal[z]
                             \/ state'[z] \in Finished /\ terminal'[z] = None
      BY <1>5 DEF SessionClosed, Finished, TypeOK
    <2> QED
      BY <1>5, <2>1, <2>2, TerminalKept
  <1>6. ASSUME NEW c \in Conn, NEW r \in Command, SpoolFails(c, r),
              \A z \in Session : StatefulBusy(z)' \subseteq StatefulBusy(z)
        PROVE  TerminalInv'
    BY <1>6, PoolAssumption DEF SpoolFails, TerminalInv, TypeOK, Unfinished
  <1>7. ASSUME NEW c \in Conn, NEW r \in Command, NEW cause \in Reports, Result(c, r, cause),
              \A z \in Session : StatefulBusy(z)' \subseteq StatefulBusy(z)
        PROVE  TerminalInv'
    BY <1>7, PoolAssumption DEF Result, CountsDown, TerminalInv, TypeOK, Unfinished
  <1>8. ASSUME NEW w \in Worker, Keepalive(w),
              \A z \in Session : StatefulBusy(z)' \subseteq StatefulBusy(z)
        PROVE  TerminalInv'
    BY <1>8, PoolAssumption DEF Keepalive, Evict, TerminalInv, TypeOK, Unfinished
  <1>9. ASSUME NEW k \in Task, DropTakesInflight(k),
              \A z \in Session : StatefulBusy(z)' \subseteq StatefulBusy(z)
        PROVE  TerminalInv'
    BY <1>9, PoolAssumption DEF DropTakesInflight, TerminalInv, TypeOK, Unfinished
  <1>10. ASSUME NEW k \in Task, DropForgetsWorker(k),
              \A z \in Session : StatefulBusy(z)' \subseteq StatefulBusy(z)
        PROVE  TerminalInv'
    <2>1. UNCHANGED attached /\ worker_sessions[task[k].worker] \in Session \cup {None}
      BY <1>10 DEF DropForgetsWorker, TaskInv, TypeOK
    <2>2. \A z \in Session : \/ state'[z] = state[z] /\ terminal'[z] = terminal[z]
                             \/ state'[z] \in Finished /\ terminal'[z] = None
      BY <1>10, <2>1 DEF DropForgetsWorker, FailSession, Finished, TypeOK
    <2> QED
      BY <1>10, <2>1, <2>2, TerminalKept
  <1>11. ASSUME NEW k \in Task, TaskEnds(k),
              \A z \in Session : StatefulBusy(z)' \subseteq StatefulBusy(z)
        PROVE  TerminalInv'
    BY <1>11, PoolAssumption DEF TaskEnds, HandlerReturns, TerminalInv, TypeOK, Unfinished
  <1>12. ASSUME NEW k \in Task, NEW r \in Command, FinishHandle(k, r),
              \A z \in Session : StatefulBusy(z)' \subseteq StatefulBusy(z)
        PROVE  TerminalInv'
    BY <1>12, PoolAssumption DEF FinishHandle, StillRunning, TerminalInv, TypeOK, Unfinished
  <1>13. ASSUME NEW s \in Session, NEW p \in Profile, CreateSession(s, p),
              \A z \in Session : StatefulBusy(z)' \subseteq StatefulBusy(z)
        PROVE  TerminalInv'
    BY <1>13, PoolAssumption DEF CreateSession, Available, TerminalInv, TypeOK, Unfinished
  <1>14. ASSUME NEW s \in Session, SendOpen(s),
              \A z \in Session : StatefulBusy(z)' \subseteq StatefulBusy(z)
        PROVE  TerminalInv'
    BY <1>14, PoolAssumption DEF SendOpen, DeliverOpen, TerminalInv, TypeOK, Unfinished
  <1>15. ASSUME NEW s \in Session, SendOpenFails(s),
              \A z \in Session : StatefulBusy(z)' \subseteq StatefulBusy(z)
        PROVE  TerminalInv'
    BY <1>15, PoolAssumption DEF SendOpenFails, DeliverOpen, TerminalInv, TypeOK, Unfinished
  <1>16. ASSUME NEW s \in Session, CreateReturns(s),
              \A z \in Session : StatefulBusy(z)' \subseteq StatefulBusy(z)
        PROVE  TerminalInv'
    BY <1>16, PoolAssumption DEF CreateReturns, TerminalInv, TypeOK, Unfinished
  <1>17. ASSUME NEW s \in Session, CreateTimesOut(s),
              \A z \in Session : StatefulBusy(z)' \subseteq StatefulBusy(z)
        PROVE  TerminalInv'
    BY <1>17, PoolAssumption DEF CreateTimesOut, TerminalInv, TypeOK, Unfinished
  <1>18. ASSUME NEW s \in Session, CreateGivesUp(s),
              \A z \in Session : StatefulBusy(z)' \subseteq StatefulBusy(z)
        PROVE  TerminalInv'
    BY <1>18, PoolAssumption DEF CreateGivesUp, Evict, TerminalInv, TypeOK, Unfinished
  <1>19. ASSUME NEW s \in Session, RetireSession(s),
              \A z \in Session : StatefulBusy(z)' \subseteq StatefulBusy(z)
        PROVE  TerminalInv'
    BY <1>19, PoolAssumption DEF RetireSession, Finished, TerminalInv, TypeOK, Unfinished
  <1>20. ASSUME NEW s \in Session, AbandonCreate(s),
              \A z \in Session : StatefulBusy(z)' \subseteq StatefulBusy(z)
        PROVE  TerminalInv'
    BY <1>20, PoolAssumption DEF AbandonCreate, TerminalInv, TypeOK, Unfinished
  <1>21. ASSUME NEW t \in Terminal, NEW s \in Session, AttachTerminal(t, s),
              \A z \in Session : StatefulBusy(z)' \subseteq StatefulBusy(z)
        PROVE  TerminalInv'
    <2>1. stateful_count[s] = 0 /\ terminal[s] = None /\ state[s] = "Active" /\ t # None
      BY <1>21, PoolAssumption DEF AttachTerminal
    <2>2. StatefulBusy(s) = {}
      <3>1. Cardinality(StatefulBusy(s)) = 0 /\ IsFiniteSet(StatefulBusy(s))
        BY <2>1, BusyFinite DEF CountInv
      <3> QED
        BY <3>1, FS_EmptySet
    <2>3. /\ terminal'[s] = t /\ attached'[t] = s /\ UNCHANGED state
          /\ \A z \in Session : z # s => terminal'[z] = terminal[z]
          /\ \A x \in Terminal : x # t => attached'[x] = attached[x]
      BY <1>21 DEF AttachTerminal, TypeOK
    <2>4. \A x \in Terminal : attached[x] # s
      BY <2>1, PoolAssumption DEF TerminalInv, Unfinished
    <2> QED
      BY <1>21, <2>1, <2>2, <2>3, <2>4 DEF TerminalInv
  <1>22. ASSUME NEW r \in Command, NEW s \in Session, NEW mode \in Mode, Submit(r, s, mode),
              \A z \in Session : StatefulBusy(z)' \subseteq StatefulBusy(z)
        PROVE  TerminalInv'
    BY <1>22, PoolAssumption DEF Submit, TerminalInv, TypeOK, Unfinished
  <1>23. ASSUME NEW r \in Command, SubmitLocks(r),
              \A z \in Session : StatefulBusy(z)' \subseteq StatefulBusy(z)
        PROVE  TerminalInv'
    BY <1>23, PoolAssumption DEF SubmitLocks, LockFree, TerminalInv, TypeOK, Unfinished
  <1>24. ASSUME NEW r \in Command, SubmitSetupFails(r),
              \A z \in Session : StatefulBusy(z)' \subseteq StatefulBusy(z)
        PROVE  TerminalInv'
    BY <1>24, PoolAssumption DEF SubmitSetupFails, TerminalInv, TypeOK, Unfinished
  <1>25. ASSUME NEW r \in Command, SendRun(r),
              \A z \in Session : StatefulBusy(z)' \subseteq StatefulBusy(z)
        PROVE  TerminalInv'
    BY <1>25, PoolAssumption DEF SendRun, DeliverRun, TerminalInv, TypeOK, Unfinished
  <1>26. ASSUME NEW r \in Command, SendRunFails(r),
              \A z \in Session : StatefulBusy(z)' \subseteq StatefulBusy(z)
        PROVE  TerminalInv'
    BY <1>26, PoolAssumption DEF SendRunFails, DeliverRun, TerminalInv, TypeOK, Unfinished
  <1>27. ASSUME NEW r \in Command, Cancel(r),
              \A z \in Session : StatefulBusy(z)' \subseteq StatefulBusy(z)
        PROVE  TerminalInv'
    BY <1>27, PoolAssumption DEF Cancel, TerminalInv, TypeOK, Unfinished
  <1>28. ASSUME NEW r \in Command, CancelSends(r),
              \A z \in Session : StatefulBusy(z)' \subseteq StatefulBusy(z)
        PROVE  TerminalInv'
    BY <1>28, PoolAssumption DEF CancelSends, TerminalInv, TypeOK, Unfinished
  <1>29. ASSUME NEW r \in Command, PurgeHandle(r),
              \A z \in Session : StatefulBusy(z)' \subseteq StatefulBusy(z)
        PROVE  TerminalInv'
    BY <1>29, PoolAssumption DEF PurgeHandle, TerminalInv, TypeOK, Unfinished
  <1>30. ASSUME NEW r \in Command, AbandonSubmit(r),
              \A z \in Session : StatefulBusy(z)' \subseteq StatefulBusy(z)
        PROVE  TerminalInv'
    BY <1>30, PoolAssumption DEF AbandonSubmit, TerminalInv, TypeOK, Unfinished
  <1>31. ASSUME NEW k \in Closer, NEW s \in Session, Close(k, s),
              \A z \in Session : StatefulBusy(z)' \subseteq StatefulBusy(z)
        PROVE  TerminalInv'
    BY <1>31, PoolAssumption DEF Close, TerminalInv, TypeOK, Unfinished
  <1>32. ASSUME NEW k \in Closer, CloseLocks(k),
              \A z \in Session : StatefulBusy(z)' \subseteq StatefulBusy(z)
        PROVE  TerminalInv'
    BY <1>32, PoolAssumption DEF CloseLocks, LockFree, TerminalInv, TypeOK, Unfinished
  <1>33. ASSUME NEW k \in Closer, SendClose(k),
              \A z \in Session : StatefulBusy(z)' \subseteq StatefulBusy(z)
        PROVE  TerminalInv'
    BY <1>33, PoolAssumption DEF SendClose, TerminalInv, TypeOK, Unfinished
  <1>34. ASSUME NEW k \in Closer, SendCloseFails(k),
              \A z \in Session : StatefulBusy(z)' \subseteq StatefulBusy(z)
        PROVE  TerminalInv'
    BY <1>34, PoolAssumption DEF SendCloseFails, Evict, TerminalInv, TypeOK, Unfinished
  <1>35. ASSUME NEW k \in Closer, CloseReturns(k),
              \A z \in Session : StatefulBusy(z)' \subseteq StatefulBusy(z)
        PROVE  TerminalInv'
    BY <1>35, PoolAssumption DEF CloseReturns, TerminalInv, TypeOK, Unfinished
  <1>36. ASSUME NEW k \in Closer, CloseTimesOut(k),
              \A z \in Session : StatefulBusy(z)' \subseteq StatefulBusy(z)
        PROVE  TerminalInv'
    BY <1>36, PoolAssumption DEF CloseTimesOut, Evict, TerminalInv, TypeOK, Unfinished
  <1>37. ASSUME NEW k \in Closer, AbandonClose(k),
              \A z \in Session : StatefulBusy(z)' \subseteq StatefulBusy(z)
        PROVE  TerminalInv'
    BY <1>37, PoolAssumption DEF AbandonClose, TerminalInv, TypeOK, Unfinished
  <1>38. ASSUME NEW t \in Terminal, DetachTerminal(t),
              \A z \in Session : StatefulBusy(z)' \subseteq StatefulBusy(z)
        PROVE  TerminalInv'
    BY <1>38, PoolAssumption DEF DetachTerminal, TerminalInv, TypeOK, Unfinished
  <1>39. ASSUME NEW r \in Command, SubmitRegisters(r) PROVE TerminalInv'
    <2>1. UNCHANGED <<state, terminal, attached>>
      BY <1>39 DEF SubmitRegisters
    <2>2. \A z \in Session : terminal[z] # None => StatefulBusy(z)' \subseteq StatefulBusy(z)
      BY <1>39 DEF SubmitRegisters, Accepts, StatefulBusy, TypeOK
    <2> QED
      BY <2>1, <2>2 DEF TerminalInv
  <1>40. ASSUME UNCHANGED vars PROVE TerminalInv'
    BY <1>40 DEF vars, TerminalInv, StatefulBusy
  <1>41. ASSUME NEW c \in Conn, RouteWaits(c) \/ RouteReturns(c) PROVE TerminalInv'
    BY <1>41, RouteChanges DEF TerminalInv, StatefulBusy
  <1> QED
    BY <1>0, <1>1, <1>2, <1>3, <1>4, <1>5, <1>6, <1>7, <1>8, <1>9, <1>10, <1>11, <1>12,
       <1>13, <1>14, <1>15, <1>16, <1>17, <1>18, <1>19, <1>20, <1>21, <1>22, <1>23, <1>24,
       <1>25, <1>26, <1>27, <1>28, <1>29, <1>30, <1>31, <1>32, <1>33, <1>34, <1>35, <1>36,
       <1>37, <1>38, <1>39, <1>40, <1>41 DEF Next, ConnStep, TaskStep, SessionStep,
       CommandStep, CloserStep, Quiescent

-----------------------------------------------------------------------------
\* A step that replaces one reconciliation forgets no closer as long as the new
\* one, or woken, takes over the closers of the old one and of every session
\* that leaves Closing.
LEMMA ClosersKept ==
    ASSUME TypeOK, LinkInv, ClosersRemembered, UNCHANGED <<closer, target>>,
           NEW j \in Task, NEW rec, task' = [task EXCEPT ![j] = rec],
           woken \subseteq woken', task[j].wake \subseteq rec.wake \cup woken',
           \A s \in Session : state[s] = "Closing" =>
              \/ state'[s] = "Closing" /\ closed'[s] = closed[s]
              \/ closed[s] \subseteq rec.wake
    PROVE  ClosersRemembered'
  <1>1. task'[j] = rec /\ \A i \in Task : i # j => task'[i] = task[i]
    BY TaskUpdate
  <1>2. \A k \in Closer : closer[k] \in {"sending", "waiting"} => target[k] \in Session
    BY DEF LinkInv
  <1> QED
    BY <1>1, <1>2 DEF ClosersRemembered

\* Every step keeps every waiting closer remembered.
LEMMA ClosersNext ==
    ASSUME TypeOK, LinkInv, TaskInv, ClosersRemembered, [Next]_vars
    PROVE  ClosersRemembered'
  <1> USE DEF poolVars, recVars, runtimeVars, taskVars, farVars
  <1>1. ASSUME NEW c \in Conn, Register(c) PROVE ClosersRemembered'
    BY <1>1 DEF Register, ClosersRemembered, TypeOK, LinkInv
  <1>2. ASSUME NEW c \in Conn, Disconnect(c) PROVE ClosersRemembered'
    BY <1>2 DEF Disconnect, ClosersRemembered, TypeOK, LinkInv
  <1>3. ASSUME NEW c \in Conn, LoopEnds(c) PROVE ClosersRemembered'
    <2> DEFINE rec == DropTask(WorkerOf[c])
    <2>1. /\ c \in Task /\ task' = [task EXCEPT ![c] = rec]
          /\ UNCHANGED <<closer, target, woken, state, closed>>
      BY <1>3, TaskKinds DEF LoopEnds
    <2>2. task[c].wake \subseteq rec.wake
      BY <1>3, TaskKinds DEF LoopEnds, Selecting, TaskInv
    <2> HIDE DEF rec
    <2> QED
      BY <2>1, <2>2, ClosersKept
  <1>4. ASSUME NEW c \in Conn, NEW s \in Session, NEW error \in BOOLEAN, SessionReady(c, s,
               error)
        PROVE  ClosersRemembered'
    BY <1>4 DEF SessionReady, ClosersRemembered, TypeOK, LinkInv
  <1>5. ASSUME NEW c \in Conn, NEW s \in Session, NEW error \in BOOLEAN,
               NEW reusable \in BOOLEAN, SessionClosed(c, s, error, reusable)
        PROVE  ClosersRemembered'
    <2>1. CASE state[s] = "Swept"
      BY <1>5, <2>1 DEF SessionClosed, ClosersRemembered
    <2>2. CASE state[s] # "Swept"
      <3> DEFINE rec == Reconcile("finish", WorkerOf[c], InflightOf(s),
                                  IF state[s] = "Closing" /\ ~error
                                  THEN "Cancelled" ELSE "WorkerError",
                                  closed[s])
      <3>1. /\ c \in Task /\ task' = [task EXCEPT ![c] = rec]
            /\ UNCHANGED <<closer, target, woken>>
        BY <1>5, <2>2, TaskKinds DEF SessionClosed
      <3>2. task[c].wake \subseteq rec.wake
        BY <1>5, TaskKinds DEF SessionClosed, Selecting, TaskInv
      <3>3. closed[s] \subseteq rec.wake
        BY ReconcileFields
      <3>4. \A z \in Session : z # s => state'[z] = state[z] /\ closed'[z] = closed[z]
        BY <1>5, <2>2 DEF SessionClosed, TypeOK
      <3> HIDE DEF rec
      <3> QED
        BY <3>1, <3>2, <3>3, <3>4, ClosersKept
    <2> QED
      BY <2>1, <2>2
  <1>6. ASSUME NEW c \in Conn, NEW r \in Command, SpoolFails(c, r) PROVE ClosersRemembered'
    BY <1>6 DEF SpoolFails, ClosersRemembered, TypeOK, LinkInv
  <1>7. ASSUME NEW c \in Conn, NEW r \in Command, NEW cause \in Reports, Result(c, r, cause)
        PROVE  ClosersRemembered'
    <2>1. CASE handles[r] = "Purged"
      BY <1>7, <2>1 DEF Result, ClosersRemembered
    <2>2. CASE handles[r] # "Purged"
      <3> DEFINE rec == Reconcile("result", WorkerOf[c], {r}, cause, {})
      <3>1. /\ c \in Task /\ task' = [task EXCEPT ![c] = rec]
            /\ UNCHANGED <<closer, target, woken, state, closed>>
        BY <1>7, <2>2, TaskKinds DEF Result
      <3>2. task[c].wake \subseteq rec.wake
        BY <1>7, TaskKinds DEF Result, Selecting, TaskInv
      <3> HIDE DEF rec
      <3> QED
        BY <3>1, <3>2, ClosersKept
    <2> QED
      BY <2>1, <2>2
  <1>8. ASSUME NEW w \in Worker, Keepalive(w) PROVE ClosersRemembered'
    BY <1>8 DEF Keepalive, Evict, ClosersRemembered, TypeOK, LinkInv
  <1>9. ASSUME NEW k \in Task, DropTakesInflight(k) PROVE ClosersRemembered'
    <2> DEFINE rec == Reconcile("drop2", task[k].worker,
                   {r \in inflight : OnWorker(r, task[k].worker)}, "Normal", {})
    <2>1. /\ k \in Task /\ task' = [task EXCEPT ![k] = rec]
          /\ UNCHANGED <<closer, target, woken, state, closed>>
      BY <1>9, TaskKinds DEF DropTakesInflight
    <2>2. task[k].wake \subseteq rec.wake
      BY <1>9, ReconcileFields DEF DropTakesInflight, Selecting, TaskInv
    <2> HIDE DEF rec
    <2> QED
      BY <2>1, <2>2, ClosersKept
  <1>10. ASSUME NEW k \in Task, DropForgetsWorker(k) PROVE ClosersRemembered'
    <2> DEFINE id == worker_sessions[task[k].worker]
               rec(cause) == Reconcile("finish", task[k].worker, task[k].pending, cause,
                  Waiters(id))
    <2>1. PICK cause \in ProbeSays : task' = [task EXCEPT ![k] = rec(cause)]
      BY <1>10 DEF DropForgetsWorker
    <2>2. rec(cause).wake = Waiters(id)
      BY ReconcileFields
    <2>3. /\ task[k].wake = {}
          /\ id \in Session \cup {None}
          /\ UNCHANGED <<closer, target, woken>>
      BY <1>10 DEF DropForgetsWorker, TaskInv, TypeOK
    <2>4. \A z \in Session : z # id => state'[z] = state[z] /\ closed'[z] = closed[z]
      BY <1>10, <2>3 DEF DropForgetsWorker, FailSession, TypeOK
    <2>5. \A z \in Session : \/ state'[z] = state[z] /\ closed'[z] = closed[z]
                             \/ closed[z] \subseteq rec(cause).wake
      BY <2>2, <2>4, PoolAssumption DEF Waiters
    <2> HIDE DEF rec
    <2> QED
      BY <1>10, <2>1, <2>3, <2>5, ClosersKept
  <1>11. ASSUME NEW k \in Task, TaskEnds(k) PROVE ClosersRemembered'
    <2>1. /\ task' = [task EXCEPT ![k] = NoTask]
          /\ woken' = woken \cup task[k].wake
          /\ UNCHANGED <<closer, target, state, closed>>
      BY <1>11 DEF TaskEnds
    <2> QED
      BY <1>11, <2>1, ClosersKept
  <1>12. ASSUME NEW k \in Task, NEW r \in Command, FinishHandle(k, r) PROVE ClosersRemembered'
    <2> DEFINE rec == Reconcile(task[k].pc, task[k].worker, task[k].pending \ {r},
                   task[k].cause, task[k].wake)
    <2>1. /\ k \in Task /\ task' = [task EXCEPT ![k] = rec]
          /\ UNCHANGED <<closer, target, woken, state, closed>>
      BY <1>12, TaskKinds DEF FinishHandle
    <2>2. task[k].wake \subseteq rec.wake
      BY ReconcileFields
    <2> HIDE DEF rec
    <2> QED
      BY <2>1, <2>2, ClosersKept
  <1>13. ASSUME NEW s \in Session, NEW p \in Profile, CreateSession(s, p)
         PROVE  ClosersRemembered'
    BY <1>13 DEF CreateSession, Available, ClosersRemembered, TypeOK, LinkInv
  <1>14. ASSUME NEW s \in Session, SendOpen(s) PROVE ClosersRemembered'
    BY <1>14 DEF SendOpen, DeliverOpen, ClosersRemembered, TypeOK, LinkInv
  <1>15. ASSUME NEW s \in Session, SendOpenFails(s) PROVE ClosersRemembered'
    <2> DEFINE rec == DropTask(SessionWorker(s))
    <2>1. /\ s \in Task /\ task' = [task EXCEPT ![s] = rec]
          /\ UNCHANGED <<closer, target, woken, state, closed>>
      BY <1>15, TaskKinds DEF SendOpenFails
    <2>2. task[s].wake \subseteq rec.wake
      BY <1>15, TaskKinds DEF SendOpenFails, Selecting, TaskInv, TaskPc, TypeOK
    <2> HIDE DEF rec
    <2> QED
      BY <2>1, <2>2, ClosersKept
  <1>16. ASSUME NEW s \in Session, CreateReturns(s) PROVE ClosersRemembered'
    BY <1>16 DEF CreateReturns, ClosersRemembered, TypeOK, LinkInv
  <1>17. ASSUME NEW s \in Session, CreateTimesOut(s) PROVE ClosersRemembered'
    BY <1>17 DEF CreateTimesOut, ClosersRemembered, TypeOK, LinkInv
  <1>18. ASSUME NEW s \in Session, CreateGivesUp(s) PROVE ClosersRemembered'
    BY <1>18 DEF CreateGivesUp, Evict, ClosersRemembered, TypeOK, LinkInv
  <1>19. ASSUME NEW s \in Session, RetireSession(s) PROVE ClosersRemembered'
    BY <1>19 DEF RetireSession, Finished, ClosersRemembered, TypeOK, LinkInv
  <1>20. ASSUME NEW s \in Session, AbandonCreate(s) PROVE ClosersRemembered'
    BY <1>20 DEF AbandonCreate, ClosersRemembered, TypeOK, LinkInv
  <1>21. ASSUME NEW t \in Terminal, NEW s \in Session, AttachTerminal(t, s)
         PROVE  ClosersRemembered'
    BY <1>21 DEF AttachTerminal, ClosersRemembered, TypeOK, LinkInv
  <1>22. ASSUME NEW r \in Command, NEW s \in Session, NEW mode \in Mode, Submit(r, s, mode)
         PROVE  ClosersRemembered'
    BY <1>22 DEF Submit, ClosersRemembered, TypeOK, LinkInv
  <1>23. ASSUME NEW r \in Command, SubmitLocks(r) PROVE ClosersRemembered'
    BY <1>23 DEF SubmitLocks, LockFree, ClosersRemembered, TypeOK, LinkInv
  <1>24. ASSUME NEW r \in Command, SubmitSetupFails(r) PROVE ClosersRemembered'
    BY <1>24 DEF SubmitSetupFails, ClosersRemembered, TypeOK, LinkInv
  <1>25. ASSUME NEW r \in Command, SubmitRegisters(r) PROVE ClosersRemembered'
    BY <1>25 DEF SubmitRegisters, ClosersRemembered, TypeOK, LinkInv
  <1>26. ASSUME NEW r \in Command, SendRun(r) PROVE ClosersRemembered'
    BY <1>26 DEF SendRun, DeliverRun, ClosersRemembered, TypeOK, LinkInv
  <1>27. ASSUME NEW r \in Command, SendRunFails(r) PROVE ClosersRemembered'
    <2> DEFINE rec == DropTask(SessionWorker(cmd[r].session))
    <2>1. /\ r \in Task /\ task' = [task EXCEPT ![r] = rec]
          /\ UNCHANGED <<closer, target, woken, state, closed>>
      BY <1>27, TaskKinds DEF SendRunFails
    <2>2. task[r].wake \subseteq rec.wake
      BY <1>27, TaskKinds DEF SendRunFails, TaskInv, TaskPc
    <2> HIDE DEF rec
    <2> QED
      BY <2>1, <2>2, ClosersKept
  <1>28. ASSUME NEW r \in Command, Cancel(r) PROVE ClosersRemembered'
    BY <1>28 DEF Cancel, ClosersRemembered, TypeOK, LinkInv
  <1>29. ASSUME NEW r \in Command, CancelSends(r) PROVE ClosersRemembered'
    BY <1>29 DEF CancelSends, ClosersRemembered, TypeOK, LinkInv
  <1>30. ASSUME NEW r \in Command, PurgeHandle(r) PROVE ClosersRemembered'
    BY <1>30 DEF PurgeHandle, ClosersRemembered, TypeOK, LinkInv
  <1>31. ASSUME NEW r \in Command, AbandonSubmit(r) PROVE ClosersRemembered'
    BY <1>31 DEF AbandonSubmit, ClosersRemembered, TypeOK, LinkInv
  <1>32. ASSUME NEW k \in Closer, NEW s \in Session, Close(k, s) PROVE ClosersRemembered'
    BY <1>32 DEF Close, ClosersRemembered, TypeOK, LinkInv
  <1>33. ASSUME NEW k \in Closer, CloseLocks(k) PROVE ClosersRemembered'
    <2>1. target[k] \in Session
      BY <1>33 DEF CloseLocks, LockFree, LinkInv
    <2>2. /\ closed'[target[k]] \in {closed[target[k]], closed[target[k]] \cup {k}}
          /\ closer'[k] \in {"waiting", "sending"} =>
                k \in closed'[target[k]] /\ state'[target[k]] = "Closing"
          /\ state[target[k]] = "Closing" => state'[target[k]] = "Closing"
      BY <1>33, <2>1 DEF CloseLocks, LockFree, TypeOK
    <2>3. /\ \A z \in Session : z # target[k] => closed'[z] = closed[z] /\ state'[z] = state[z]
          /\ \A j \in Closer : j # k => closer'[j] = closer[j]
      BY <1>33, <2>1 DEF CloseLocks, LockFree, TypeOK
    <2>4. UNCHANGED <<target, woken, task>>
      BY <1>33 DEF CloseLocks, LockFree
    <2>5. \A j \in Closer : closer[j] \in {"waiting", "sending"} => target[j] \in Session
      BY DEF LinkInv
    <2> QED
      BY <2>1, <2>2, <2>3, <2>4, <2>5 DEF ClosersRemembered
  <1>34. ASSUME NEW k \in Closer, SendClose(k) PROVE ClosersRemembered'
    BY <1>34 DEF SendClose, ClosersRemembered, TypeOK, LinkInv
  <1>35. ASSUME NEW k \in Closer, SendCloseFails(k) PROVE ClosersRemembered'
    BY <1>35 DEF SendCloseFails, Evict, ClosersRemembered, TypeOK, LinkInv
  <1>36. ASSUME NEW k \in Closer, CloseReturns(k) PROVE ClosersRemembered'
    BY <1>36 DEF CloseReturns, ClosersRemembered, TypeOK, LinkInv
  <1>37. ASSUME NEW k \in Closer, CloseTimesOut(k) PROVE ClosersRemembered'
    BY <1>37 DEF CloseTimesOut, Evict, ClosersRemembered, TypeOK, LinkInv
  <1>38. ASSUME NEW k \in Closer, AbandonClose(k) PROVE ClosersRemembered'
    BY <1>38 DEF AbandonClose, ClosersRemembered, TypeOK, LinkInv
  <1>39. ASSUME NEW t \in Terminal, DetachTerminal(t) PROVE ClosersRemembered'
    BY <1>39 DEF DetachTerminal, ClosersRemembered, TypeOK, LinkInv
  <1>40. ASSUME UNCHANGED vars PROVE ClosersRemembered'
    BY <1>40 DEF vars, ClosersRemembered, TypeOK, LinkInv
  <1>41. ASSUME NEW c \in Conn, RouteWaits(c) \/ RouteReturns(c) PROVE ClosersRemembered'
    <2>1. CASE task[c].pc = "none" /\ task' = [task EXCEPT ![c] = RouteTask(WorkerOf[c])]
      <3> DEFINE rec == RouteTask(WorkerOf[c])
      <3>1. task[c].wake \subseteq rec.wake
        BY <1>41, <2>1, RouteChanges DEF TaskInv
      <3>2. task' = [task EXCEPT ![c] = rec]
        BY <2>1
      <3> HIDE DEF rec
      <3> QED
        BY <1>41, <3>1, <3>2, RouteChanges, ClosersKept
    <2>2. CASE task[c].pc = "routing" /\ task' = [task EXCEPT ![c] = NoTask]
      <3> DEFINE rec == NoTask
      <3>1. task[c].wake \subseteq rec.wake
        BY <1>41, <2>2, RouteChanges DEF TaskInv
      <3>2. task' = [task EXCEPT ![c] = rec]
        BY <2>2
      <3> HIDE DEF rec
      <3> QED
        BY <1>41, <3>1, <3>2, RouteChanges, ClosersKept
    <2> QED
      BY <1>41, <2>1, <2>2, RouteChanges
  <1> QED
    BY <1>1, <1>2, <1>3, <1>4, <1>5, <1>6, <1>7, <1>8, <1>9, <1>10, <1>11, <1>12, <1>13,
       <1>14, <1>15, <1>16, <1>17, <1>18, <1>19, <1>20, <1>21, <1>22, <1>23, <1>24, <1>25,
       <1>26, <1>27, <1>28, <1>29, <1>30, <1>31, <1>32, <1>33, <1>34, <1>35, <1>36, <1>37,
       <1>38, <1>39, <1>40, <1>41 DEF Next, ConnStep, TaskStep, SessionStep,
       CommandStep, CloserStep, Quiescent

-----------------------------------------------------------------------------
\* The initial state satisfies the invariant.
LEMMA SafeInit == ASSUME Init PROVE SafeInv
  <1>1. BaseInv /\ SubmitInv /\ SendLockInv /\ ClosersRemembered
    BY BaseInit DEF Init, SubmitInv, SendLockInv, ClosersRemembered
  <1>2. \A s \in Session : StatefulBusy(s) = {}
    BY <1>1 DEF Init, StatefulBusy
  <1>3. CountInv
    <2>1. \A s \in Session : stateful_count[s] = 0
      BY DEF Init
    <2>2. \A s \in Session : Cardinality(StatefulBusy(s)) = 0
      BY <1>2, FS_EmptySet
    <2> QED
      BY <2>1, <2>2 DEF CountInv
  <1>4. TerminalInv
    BY <1>2, PoolAssumption DEF Init, TerminalInv, Unfinished
  <1> QED
    BY <1>1, <1>3, <1>4 DEF SafeInv

\* And every step preserves it.
LEMMA SafeNext == ASSUME SafeInv, [Next]_vars PROVE SafeInv'
  BY BaseNext, SubmitNext, SendLockNext, CountNext, TerminalNext, ClosersNext
     DEF SafeInv, BaseInv

\* The inductive invariant holds in every behaviour of the pool.
THEOREM SafeCorrect == Spec => []SafeInv
  <1>1. Init => SafeInv
    BY SafeInit
  <1>2. SafeInv /\ [Next]_vars => SafeInv'
    BY SafeNext
  <1> QED
    BY <1>1, <1>2, PTL DEF Spec

\* A client that attached to an unfinished session has its terminal for itself:
\* no second terminal, and no stateful command that could still reach the shell,
\* although a worker drop leaves the stateful count too high (attach_terminal,
\* submit_session_command, complete_request).
THEOREM TerminalIsExclusive == Spec => []TerminalExclusive
  <1>1. SafeInv => TerminalExclusive
    BY PoolAssumption DEF SafeInv, TerminalInv, TerminalExclusive
  <1> QED
    BY <1>1, SafeCorrect, PTL

\* A closer that waits for SessionClosed is always held by a record or by a task
\* that will wake it (close_session_inner, session_closed, handle_worker_drop).
THEOREM NoCloserForgotten == Spec => []ClosersRemembered
  <1>1. SafeInv => ClosersRemembered
    BY DEF SafeInv
  <1> QED
    BY <1>1, SafeCorrect, PTL

\* Only a send of SessionRun, under the send lock, hands a command to a worker.
LEMMA RunStep == ASSUME TypeOK, SendLockInv, [Next]_vars PROVE RunsOnlyBeforeClose
  <1> USE DEF poolVars, recVars, runtimeVars, taskVars, farVars
  <1>1. ASSUME NEW c \in Conn, Register(c) PROVE RunsOnlyBeforeClose
    BY <1>1 DEF Register, RunsOnlyBeforeClose, SendLockInv
  <1>2. ASSUME NEW c \in Conn, Disconnect(c) PROVE RunsOnlyBeforeClose
    BY <1>2 DEF Disconnect, RunsOnlyBeforeClose, SendLockInv
  <1>3. ASSUME NEW c \in Conn, LoopEnds(c) PROVE RunsOnlyBeforeClose
    BY <1>3 DEF LoopEnds, RunsOnlyBeforeClose, SendLockInv
  <1>4. ASSUME NEW c \in Conn, NEW s \in Session, NEW error \in BOOLEAN, SessionReady(c, s,
               error)
        PROVE  RunsOnlyBeforeClose
    BY <1>4 DEF SessionReady, RunsOnlyBeforeClose, SendLockInv
  <1>5. ASSUME NEW c \in Conn, NEW s \in Session, NEW error \in BOOLEAN,
               NEW reusable \in BOOLEAN, SessionClosed(c, s, error, reusable)
        PROVE  RunsOnlyBeforeClose
    BY <1>5 DEF SessionClosed, RunsOnlyBeforeClose, SendLockInv
  <1>6. ASSUME NEW c \in Conn, NEW r \in Command, SpoolFails(c, r) PROVE RunsOnlyBeforeClose
    BY <1>6 DEF SpoolFails, RunsOnlyBeforeClose, SendLockInv
  <1>7. ASSUME NEW c \in Conn, NEW r \in Command, NEW cause \in Reports, Result(c, r, cause)
        PROVE  RunsOnlyBeforeClose
    BY <1>7 DEF Result, CountsDown, RunsOnlyBeforeClose, SendLockInv
  <1>8. ASSUME NEW w \in Worker, Keepalive(w) PROVE RunsOnlyBeforeClose
    BY <1>8 DEF Keepalive, Evict, RunsOnlyBeforeClose, SendLockInv
  <1>9. ASSUME NEW k \in Task, DropTakesInflight(k) PROVE RunsOnlyBeforeClose
    BY <1>9 DEF DropTakesInflight, RunsOnlyBeforeClose, SendLockInv
  <1>10. ASSUME NEW k \in Task, DropForgetsWorker(k) PROVE RunsOnlyBeforeClose
    BY <1>10 DEF DropForgetsWorker, FailSession, Waiters, RunsOnlyBeforeClose, SendLockInv
  <1>11. ASSUME NEW k \in Task, TaskEnds(k) PROVE RunsOnlyBeforeClose
    BY <1>11 DEF TaskEnds, HandlerReturns, RunsOnlyBeforeClose, SendLockInv
  <1>12. ASSUME NEW k \in Task, NEW r \in Command, FinishHandle(k, r)
         PROVE  RunsOnlyBeforeClose
    BY <1>12 DEF FinishHandle, StillRunning, RunsOnlyBeforeClose, SendLockInv
  <1>13. ASSUME NEW s \in Session, NEW p \in Profile, CreateSession(s, p)
         PROVE  RunsOnlyBeforeClose
    BY <1>13 DEF CreateSession, Available, RunsOnlyBeforeClose, SendLockInv
  <1>14. ASSUME NEW s \in Session, SendOpen(s) PROVE RunsOnlyBeforeClose
    BY <1>14 DEF SendOpen, DeliverOpen, RunsOnlyBeforeClose, SendLockInv
  <1>15. ASSUME NEW s \in Session, SendOpenFails(s) PROVE RunsOnlyBeforeClose
    BY <1>15 DEF SendOpenFails, DeliverOpen, RunsOnlyBeforeClose, SendLockInv
  <1>16. ASSUME NEW s \in Session, CreateReturns(s) PROVE RunsOnlyBeforeClose
    BY <1>16 DEF CreateReturns, RunsOnlyBeforeClose, SendLockInv
  <1>17. ASSUME NEW s \in Session, CreateTimesOut(s) PROVE RunsOnlyBeforeClose
    BY <1>17 DEF CreateTimesOut, RunsOnlyBeforeClose, SendLockInv
  <1>18. ASSUME NEW s \in Session, CreateGivesUp(s) PROVE RunsOnlyBeforeClose
    BY <1>18 DEF CreateGivesUp, Evict, RunsOnlyBeforeClose, SendLockInv
  <1>19. ASSUME NEW s \in Session, RetireSession(s) PROVE RunsOnlyBeforeClose
    BY <1>19 DEF RetireSession, RunsOnlyBeforeClose, SendLockInv
  <1>20. ASSUME NEW s \in Session, AbandonCreate(s) PROVE RunsOnlyBeforeClose
    BY <1>20 DEF AbandonCreate, RunsOnlyBeforeClose, SendLockInv
  <1>21. ASSUME NEW t \in Terminal, NEW s \in Session, AttachTerminal(t, s)
         PROVE  RunsOnlyBeforeClose
    BY <1>21 DEF AttachTerminal, RunsOnlyBeforeClose, SendLockInv
  <1>22. ASSUME NEW r \in Command, NEW s \in Session, NEW mode \in Mode, Submit(r, s, mode)
         PROVE  RunsOnlyBeforeClose
    BY <1>22 DEF Submit, RunsOnlyBeforeClose, SendLockInv
  <1>23. ASSUME NEW r \in Command, SubmitLocks(r) PROVE RunsOnlyBeforeClose
    BY <1>23 DEF SubmitLocks, LockFree, RunsOnlyBeforeClose, SendLockInv
  <1>24. ASSUME NEW r \in Command, SubmitSetupFails(r) PROVE RunsOnlyBeforeClose
    BY <1>24 DEF SubmitSetupFails, RunsOnlyBeforeClose, SendLockInv
  <1>25. ASSUME NEW r \in Command, SubmitRegisters(r) PROVE RunsOnlyBeforeClose
    BY <1>25 DEF SubmitRegisters, RunsOnlyBeforeClose, SendLockInv
  <1>26. ASSUME NEW r \in Command, SendRun(r) PROVE RunsOnlyBeforeClose
    BY <1>26 DEF SendRun, DeliverRun, RunsOnlyBeforeClose, SendLockInv
  <1>27. ASSUME NEW r \in Command, SendRunFails(r) PROVE RunsOnlyBeforeClose
    BY <1>27 DEF SendRunFails, DeliverRun, RunsOnlyBeforeClose, SendLockInv
  <1>28. ASSUME NEW r \in Command, Cancel(r) PROVE RunsOnlyBeforeClose
    BY <1>28 DEF Cancel, RunsOnlyBeforeClose, SendLockInv
  <1>29. ASSUME NEW r \in Command, CancelSends(r) PROVE RunsOnlyBeforeClose
    BY <1>29 DEF CancelSends, RunsOnlyBeforeClose, SendLockInv
  <1>30. ASSUME NEW r \in Command, PurgeHandle(r) PROVE RunsOnlyBeforeClose
    BY <1>30 DEF PurgeHandle, RunsOnlyBeforeClose, SendLockInv
  <1>31. ASSUME NEW r \in Command, AbandonSubmit(r) PROVE RunsOnlyBeforeClose
    BY <1>31 DEF AbandonSubmit, DeliverRun, RunsOnlyBeforeClose, SendLockInv
  <1>32. ASSUME NEW k \in Closer, NEW s \in Session, Close(k, s) PROVE RunsOnlyBeforeClose
    BY <1>32 DEF Close, RunsOnlyBeforeClose, SendLockInv
  <1>33. ASSUME NEW k \in Closer, CloseLocks(k) PROVE RunsOnlyBeforeClose
    BY <1>33 DEF CloseLocks, LockFree, RunsOnlyBeforeClose, SendLockInv
  <1>34. ASSUME NEW k \in Closer, SendClose(k) PROVE RunsOnlyBeforeClose
    BY <1>34 DEF SendClose, RunsOnlyBeforeClose, SendLockInv
  <1>35. ASSUME NEW k \in Closer, SendCloseFails(k) PROVE RunsOnlyBeforeClose
    BY <1>35 DEF SendCloseFails, Evict, RunsOnlyBeforeClose, SendLockInv
  <1>36. ASSUME NEW k \in Closer, CloseReturns(k) PROVE RunsOnlyBeforeClose
    BY <1>36 DEF CloseReturns, RunsOnlyBeforeClose, SendLockInv
  <1>37. ASSUME NEW k \in Closer, CloseTimesOut(k) PROVE RunsOnlyBeforeClose
    BY <1>37 DEF CloseTimesOut, Evict, RunsOnlyBeforeClose, SendLockInv
  <1>38. ASSUME NEW k \in Closer, AbandonClose(k) PROVE RunsOnlyBeforeClose
    BY <1>38 DEF AbandonClose, RunsOnlyBeforeClose, SendLockInv
  <1>39. ASSUME NEW t \in Terminal, DetachTerminal(t) PROVE RunsOnlyBeforeClose
    BY <1>39 DEF DetachTerminal, RunsOnlyBeforeClose, SendLockInv
  <1>40. ASSUME UNCHANGED vars PROVE RunsOnlyBeforeClose
    BY <1>40 DEF vars, RunsOnlyBeforeClose, SendLockInv
  <1>41. ASSUME NEW c \in Conn, RouteWaits(c) \/ RouteReturns(c) PROVE RunsOnlyBeforeClose
    BY <1>41, RouteChanges DEF RunsOnlyBeforeClose
  <1> QED
    BY <1>1, <1>2, <1>3, <1>4, <1>5, <1>6, <1>7, <1>8, <1>9, <1>10, <1>11, <1>12, <1>13,
       <1>14, <1>15, <1>16, <1>17, <1>18, <1>19, <1>20, <1>21, <1>22, <1>23, <1>24, <1>25,
       <1>26, <1>27, <1>28, <1>29, <1>30, <1>31, <1>32, <1>33, <1>34, <1>35, <1>36, <1>37,
       <1>38, <1>39, <1>40, <1>41 DEF Next, ConnStep, TaskStep, SessionStep,
       CommandStep, CloserStep, Quiescent

\* No command reaches the worker after the SessionClose of its session: the send
\* lock and the second check of submit_session_command order the two frames.
THEOREM RunsPrecedeClose == Spec => RunBeforeClose
  <1>1. SafeInv /\ [Next]_vars => [RunsOnlyBeforeClose]_vars
    BY RunStep DEF SafeInv, BaseInv
  <1> QED
    BY <1>1, SafeCorrect, PTL DEF Spec, RunBeforeClose

\* No step changes an outcome, however late a frame or a second drop comes.
LEMMA OutcomeStep ==
    ASSUME TypeOK, LinkInv, SubmitInv, TaskInv, [Next]_vars
    PROVE  KeepsOutcomes
  <1> USE DEF poolVars, recVars, runtimeVars, taskVars, farVars
  <1>1. ASSUME NEW c \in Conn, Register(c) PROVE KeepsOutcomes
    BY <1>1 DEF Register, KeepsOutcomes, Finished, TypeOK
  <1>2. ASSUME NEW c \in Conn, Disconnect(c) PROVE KeepsOutcomes
    BY <1>2 DEF Disconnect, KeepsOutcomes, Finished, TypeOK
  <1>3. ASSUME NEW c \in Conn, LoopEnds(c) PROVE KeepsOutcomes
    BY <1>3 DEF LoopEnds, KeepsOutcomes, Finished, TypeOK
  <1>4. ASSUME NEW c \in Conn, NEW s \in Session, NEW error \in BOOLEAN, SessionReady(c, s,
               error)
        PROVE  KeepsOutcomes
    BY <1>4 DEF SessionReady, KeepsOutcomes, Finished, TypeOK
  <1>5. ASSUME NEW c \in Conn, NEW s \in Session, NEW error \in BOOLEAN,
               NEW reusable \in BOOLEAN, SessionClosed(c, s, error, reusable)
        PROVE  KeepsOutcomes
    BY <1>5 DEF SessionClosed, KeepsOutcomes, Finished, TypeOK
  <1>6. ASSUME NEW c \in Conn, NEW r \in Command, SpoolFails(c, r) PROVE KeepsOutcomes
    BY <1>6 DEF SpoolFails, KeepsOutcomes, Finished, TypeOK
  <1>7. ASSUME NEW c \in Conn, NEW r \in Command, NEW cause \in Reports, Result(c, r, cause)
        PROVE  KeepsOutcomes
    BY <1>7 DEF Result, CountsDown, KeepsOutcomes, Finished, TypeOK
  <1>8. ASSUME NEW w \in Worker, Keepalive(w) PROVE KeepsOutcomes
    BY <1>8 DEF Keepalive, Evict, KeepsOutcomes, Finished, TypeOK
  <1>9. ASSUME NEW k \in Task, DropTakesInflight(k) PROVE KeepsOutcomes
    BY <1>9 DEF DropTakesInflight, KeepsOutcomes, Finished, TypeOK
  <1>10. ASSUME NEW k \in Task, DropForgetsWorker(k) PROVE KeepsOutcomes
    BY <1>10
       DEF DropForgetsWorker, FailSession, Waiters, TaskInv, KeepsOutcomes, Finished, TypeOK
  <1>11. ASSUME NEW k \in Task, TaskEnds(k) PROVE KeepsOutcomes
    BY <1>11 DEF TaskEnds, HandlerReturns, KeepsOutcomes, Finished, TypeOK
  <1>12. ASSUME NEW k \in Task, NEW r \in Command, FinishHandle(k, r) PROVE KeepsOutcomes
    BY <1>12
       DEF FinishHandle, StillRunning, ExitCause, ResultCause, DropCause, KeepsOutcomes,
           Finished, TypeOK
  <1>13. ASSUME NEW s \in Session, NEW p \in Profile, CreateSession(s, p) PROVE KeepsOutcomes
    BY <1>13 DEF CreateSession, Available, KeepsOutcomes, Finished, TypeOK
  <1>14. ASSUME NEW s \in Session, SendOpen(s) PROVE KeepsOutcomes
    BY <1>14 DEF SendOpen, DeliverOpen, KeepsOutcomes, Finished, TypeOK
  <1>15. ASSUME NEW s \in Session, SendOpenFails(s) PROVE KeepsOutcomes
    BY <1>15 DEF SendOpenFails, DeliverOpen, KeepsOutcomes, Finished, TypeOK
  <1>16. ASSUME NEW s \in Session, CreateReturns(s) PROVE KeepsOutcomes
    BY <1>16 DEF CreateReturns, KeepsOutcomes, Finished, TypeOK
  <1>17. ASSUME NEW s \in Session, CreateTimesOut(s) PROVE KeepsOutcomes
    BY <1>17 DEF CreateTimesOut, KeepsOutcomes, Finished, TypeOK
  <1>18. ASSUME NEW s \in Session, CreateGivesUp(s) PROVE KeepsOutcomes
    BY <1>18 DEF CreateGivesUp, Evict, KeepsOutcomes, Finished, TypeOK
  <1>19. ASSUME NEW s \in Session, RetireSession(s) PROVE KeepsOutcomes
    BY <1>19 DEF RetireSession, KeepsOutcomes, Finished, TypeOK
  <1>20. ASSUME NEW s \in Session, AbandonCreate(s) PROVE KeepsOutcomes
    BY <1>20 DEF AbandonCreate, KeepsOutcomes, Finished, TypeOK
  <1>21. ASSUME NEW t \in Terminal, NEW s \in Session, AttachTerminal(t, s)
         PROVE  KeepsOutcomes
    BY <1>21 DEF AttachTerminal, KeepsOutcomes, Finished, TypeOK
  <1>22. ASSUME NEW r \in Command, NEW s \in Session, NEW mode \in Mode, Submit(r, s, mode)
         PROVE  KeepsOutcomes
    BY <1>22 DEF Submit, KeepsOutcomes, Finished, TypeOK
  <1>23. ASSUME NEW r \in Command, SubmitLocks(r) PROVE KeepsOutcomes
    BY <1>23 DEF SubmitLocks, LockFree, KeepsOutcomes, Finished, TypeOK
  <1>24. ASSUME NEW r \in Command, SubmitSetupFails(r) PROVE KeepsOutcomes
    BY <1>24 DEF SubmitSetupFails, KeepsOutcomes, Finished, TypeOK
  <1>25. ASSUME NEW r \in Command, SubmitRegisters(r) PROVE KeepsOutcomes
    BY <1>25
       DEF SubmitRegisters, SubmitInv, Accepts, ExitCause, ResultCause, DropCause,
           KeepsOutcomes, Finished, TypeOK
  <1>26. ASSUME NEW r \in Command, SendRun(r) PROVE KeepsOutcomes
    BY <1>26 DEF SendRun, DeliverRun, KeepsOutcomes, Finished, TypeOK
  <1>27. ASSUME NEW r \in Command, SendRunFails(r) PROVE KeepsOutcomes
    BY <1>27 DEF SendRunFails, DeliverRun, KeepsOutcomes, Finished, TypeOK
  <1>28. ASSUME NEW r \in Command, Cancel(r) PROVE KeepsOutcomes
    BY <1>28 DEF Cancel, KeepsOutcomes, Finished, TypeOK
  <1>29. ASSUME NEW r \in Command, CancelSends(r) PROVE KeepsOutcomes
    BY <1>29 DEF CancelSends, KeepsOutcomes, Finished, TypeOK
  <1>30. ASSUME NEW r \in Command, PurgeHandle(r) PROVE KeepsOutcomes
    BY <1>30 DEF PurgeHandle, KeepsOutcomes, Finished, TypeOK
  <1>31. ASSUME NEW r \in Command, AbandonSubmit(r) PROVE KeepsOutcomes
    BY <1>31 DEF AbandonSubmit, KeepsOutcomes, Finished, TypeOK
  <1>32. ASSUME NEW k \in Closer, NEW s \in Session, Close(k, s) PROVE KeepsOutcomes
    BY <1>32 DEF Close, KeepsOutcomes, Finished, TypeOK
  <1>33. ASSUME NEW k \in Closer, CloseLocks(k) PROVE KeepsOutcomes
    BY <1>33 DEF CloseLocks, LockFree, KeepsOutcomes, Finished, TypeOK
  <1>34. ASSUME NEW k \in Closer, SendClose(k) PROVE KeepsOutcomes
    BY <1>34 DEF SendClose, KeepsOutcomes, Finished, TypeOK
  <1>35. ASSUME NEW k \in Closer, SendCloseFails(k) PROVE KeepsOutcomes
    BY <1>35 DEF SendCloseFails, Evict, KeepsOutcomes, Finished, TypeOK
  <1>36. ASSUME NEW k \in Closer, CloseReturns(k) PROVE KeepsOutcomes
    BY <1>36 DEF CloseReturns, KeepsOutcomes, Finished, TypeOK
  <1>37. ASSUME NEW k \in Closer, CloseTimesOut(k) PROVE KeepsOutcomes
    BY <1>37 DEF CloseTimesOut, Evict, KeepsOutcomes, Finished, TypeOK
  <1>38. ASSUME NEW k \in Closer, AbandonClose(k) PROVE KeepsOutcomes
    BY <1>38 DEF AbandonClose, KeepsOutcomes, Finished, TypeOK
  <1>39. ASSUME NEW t \in Terminal, DetachTerminal(t) PROVE KeepsOutcomes
    BY <1>39 DEF DetachTerminal, KeepsOutcomes, Finished, TypeOK
  <1>40. ASSUME UNCHANGED vars PROVE KeepsOutcomes
    BY <1>40 DEF vars, KeepsOutcomes, Finished, TypeOK
  <1>41. ASSUME NEW c \in Conn, RouteWaits(c) \/ RouteReturns(c) PROVE KeepsOutcomes
    BY <1>41, RouteChanges DEF KeepsOutcomes, Finished, TypeOK
  <1> QED
    BY <1>1, <1>2, <1>3, <1>4, <1>5, <1>6, <1>7, <1>8, <1>9, <1>10, <1>11, <1>12, <1>13,
       <1>14, <1>15, <1>16, <1>17, <1>18, <1>19, <1>20, <1>21, <1>22, <1>23, <1>24, <1>25,
       <1>26, <1>27, <1>28, <1>29, <1>30, <1>31, <1>32, <1>33, <1>34, <1>35, <1>36, <1>37,
       <1>38, <1>39, <1>40, <1>41 DEF Next, ConnStep, TaskStep, SessionStep,
       CommandStep, CloserStep, Quiescent

\* A handle's outcome and the end of a session are final (complete_request,
\* handle_worker_drop, session_ready, session_closed, run_sweeper).
THEOREM OutcomesAreFinal == Spec => OutcomesFinal
  <1>1. SafeInv /\ [Next]_vars => [KeepsOutcomes]_vars
    BY OutcomeStep DEF SafeInv, BaseInv
  <1> QED
    BY <1>1, SafeCorrect, PTL DEF Spec, OutcomesFinal
=============================================================================
