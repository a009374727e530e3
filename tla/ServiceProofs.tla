--------------------------- MODULE ServiceProofs ----------------------------
(***************************************************************************)
(* Pool implements SessionService, for any number of workers, connections, *)
(* sessions, commands, closers and terminals and for every environment.    *)
(***************************************************************************)
EXTENDS PoolProofs

\* A session has a connection only from its creation on.
SinkInv == \A s \in Session : sink[s] # None => state[s] # "Absent"

\* What an action must leave alone to be invisible.
Seen == <<state, handles, cmd, attached>>

ServiceStep == [Service!Next]_(Service!vars)

\* An action that changes nothing the client sees is a stuttering step.
LEMMA Invisible == ASSUME UNCHANGED Seen PROVE ServiceStep
  BY DEF Seen, ServiceStep, Service!vars, AcceptedAs

\* The steps of connections and the frames of a worker that change nothing the client
\* sees.
LEMMA InvisibleConn ==
    ASSUME NEW c \in Conn,
           \/ Register(c) \/ Disconnect(c) \/ LoopEnds(c) \/ RouteWaits(c) \/ RouteReturns(c)
           \/ \E r \in Command : SpoolFails(c, r) \/ \E cause \in Reports : Result(c, r, cause)
    PROVE  UNCHANGED Seen
  BY DEF Seen, Register, Disconnect, LoopEnds, RouteWaits, RouteReturns, SpoolFails, Result,
         poolVars, recVars, runtimeVars, taskVars

\* Neither do the sends, returns and timeouts of create_session.
LEMMA InvisibleSession ==
    ASSUME NEW s \in Session,
           \/ SendOpen(s) \/ SendOpenFails(s) \/ CreateReturns(s) \/ CreateTimesOut(s)
           \/ CreateGivesUp(s) \/ AbandonCreate(s)
    PROVE  UNCHANGED Seen
  BY DEF Seen, SendOpen, SendOpenFails, CreateReturns, CreateTimesOut, CreateGivesUp,
         AbandonCreate, poolVars, recVars

\* Nor the steps of a submission before and after its registration, and cancels.
LEMMA InvisibleCommand ==
    ASSUME NEW r \in Command,
           \/ SubmitLocks(r) \/ SubmitSetupFails(r) \/ SendRun(r) \/ SendRunFails(r)
           \/ Cancel(r) \/ CancelSends(r) \/ AbandonSubmit(r)
    PROVE  UNCHANGED Seen
  BY DEF Seen, SubmitLocks, SubmitSetupFails, SendRun, SendRunFails, Cancel, CancelSends,
         AbandonSubmit, poolVars, recVars

\* Nor the steps of a release apart from the one that takes the session out of service.
LEMMA InvisibleCloser ==
    ASSUME NEW k \in Closer,
           \/ \E s \in Session : Close(k, s)
           \/ SendClose(k) \/ SendCloseFails(k) \/ CloseReturns(k) \/ CloseTimesOut(k)
           \/ AbandonClose(k)
    PROVE  UNCHANGED Seen
  BY DEF Seen, Close, SendClose, SendCloseFails, CloseReturns, CloseTimesOut, AbandonClose,
         poolVars, recVars

\* A step that changes the state of one session and nothing else the client sees.
LEMMA PhaseStep ==
    ASSUME TypeOK, NEW s \in Session, NEW to,
           state' = [state EXCEPT ![s] = to],
           UNCHANGED <<handles, cmd, attached>>,
           \/ state[s] = "Absent" /\ to = "Opening"
           \/ state[s] = "Opening" /\ to = "Active"
           \/ state[s] \in {"Opening", "Active"} /\ to = "Closing"
           \/ state[s] \in Unfinished \cup Finished /\ to \in Finished
           \/ state[s] \in Finished /\ to = "Swept"
           \/ to = state[s]
    PROVE  ServiceStep
  <1>1. UNCHANGED <<handles, AcceptedAs, attached>>
    BY DEF AcceptedAs
  <1>2. CASE to = state[s]
    <2>1. state' = state
      BY <1>2 DEF TypeOK
    <2> QED
      BY <1>1, <2>1 DEF ServiceStep, Service!vars
  <1>3. CASE to # state[s]
    BY <1>1, <1>3 DEF ServiceStep, Service!Next, Service!Open, Service!Start,
                      Service!Release, Service!End, Service!Forget, Service!Moves,
                      Service!Live, Service!Ended, Unfinished, Finished
  <1> QED
    BY <1>2, <1>3

\* The frames and tasks that move a session.
LEMMA SessionMoves ==
    ASSUME SafeInv, SinkInv, NEW s \in Session,
           \/ \E c \in Conn, error \in BOOLEAN :
                 \/ SessionReady(c, s, error)
                 \/ \E reusable \in BOOLEAN : SessionClosed(c, s, error, reusable)
           \/ \E p \in Profile : CreateSession(s, p)
           \/ RetireSession(s)
    PROVE  ServiceStep
  <1> USE DEF SafeInv, BaseInv
  <1>0. state[s] \in SessionState
    BY DEF TypeOK
  <1>1. ASSUME NEW c \in Conn, NEW error \in BOOLEAN, SessionReady(c, s, error)
        PROVE  ServiceStep
    <2> DEFINE to == IF state[s] # "Opening" THEN state[s]
                     ELSE IF error THEN "Failed" ELSE "Active"
    <2>1. state' = [state EXCEPT ![s] = to] /\ UNCHANGED <<handles, cmd, attached>>
      BY <1>1 DEF SessionReady, poolVars, taskVars
    <2>2. \/ to = state[s]
          \/ state[s] = "Opening" /\ to = "Active"
          \/ state[s] \in Unfinished \cup Finished /\ to \in Finished
      BY DEF Unfinished, Finished
    <2> HIDE DEF to
    <2> QED
      BY <2>1, <2>2, PhaseStep
  <1>2. ASSUME NEW c \in Conn, NEW error \in BOOLEAN, NEW reusable \in BOOLEAN,
               SessionClosed(c, s, error, reusable)
        PROVE  ServiceStep
    <2>1. CASE state[s] = "Swept"
      BY <1>2, <2>1, Invisible DEF SessionClosed, poolVars, Seen
    <2>2. CASE state[s] # "Swept"
      <3> DEFINE to == IF error THEN "Failed" ELSE "Closed"
      <3>1. state' = [state EXCEPT ![s] = to] /\ UNCHANGED <<handles, cmd, attached>>
        BY <1>2, <2>2 DEF SessionClosed
      <3>2. sink[s] # None
        BY <1>2, PoolAssumption DEF SessionClosed
      <3>3. state[s] \in Unfinished \cup Finished /\ to \in Finished
        BY <1>0, <2>2, <3>2 DEF SinkInv, SessionState, Unfinished, Finished
      <3> HIDE DEF to
      <3> QED
        BY <3>1, <3>3, PhaseStep
    <2> QED
      BY <2>1, <2>2
  <1>3. ASSUME NEW p \in Profile, CreateSession(s, p) PROVE ServiceStep
    <2>1. state[s] = "Absent" /\ state' = [state EXCEPT ![s] = "Opening"]
          /\ UNCHANGED <<handles, cmd, attached>>
      BY <1>3 DEF CreateSession
    <2> QED
      BY <2>1, PhaseStep
  <1>4. CASE RetireSession(s)
    <2>1. state[s] \in Finished /\ state' = [state EXCEPT ![s] = "Swept"]
          /\ UNCHANGED <<handles, cmd, attached>>
      BY <1>4 DEF RetireSession, poolVars, taskVars
    <2> QED
      BY <2>1, PhaseStep
  <1> QED
    BY <1>1, <1>2, <1>3, <1>4

\* Releasing a session.
LEMMA SessionReleased ==
    ASSUME SafeInv, NEW k \in Closer, CloseLocks(k)
    PROVE  ServiceStep
  <1>1. target[k] \in Session
    BY DEF SafeInv, BaseInv, LinkInv, CloseLocks
  <1>2. CASE state' = state
    BY <1>2, Invisible DEF CloseLocks, poolVars, Seen
  <1>3. CASE /\ state[target[k]] \in {"Opening", "Active"}
             /\ state' = [state EXCEPT ![target[k]] = "Closing"]
    <2>1. UNCHANGED <<handles, cmd, attached>>
      BY DEF CloseLocks, poolVars
    <2> QED
      BY <1>1, <1>3, <2>1, PhaseStep DEF SafeInv, BaseInv
  <1> QED
    BY <1>2, <1>3 DEF CloseLocks

\* Losing the worker of a session.
LEMMA WorkerForgotten ==
    ASSUME SafeInv, NEW k \in Task, DropForgetsWorker(k)
    PROVE  ServiceStep
  <1> DEFINE id == worker_sessions[task[k].worker]
  <1>0. TypeOK /\ task[k].worker \in Worker
    BY DEF SafeInv, BaseInv, TaskInv, DropForgetsWorker
  <1>1. UNCHANGED <<handles, cmd, attached>>
    BY DEF DropForgetsWorker
  <1>2. CASE state' = state
    BY <1>1, <1>2, Invisible DEF Seen
  <1>3. CASE id # None /\ state[id] # "Swept" /\ state' = [state EXCEPT ![id] = "Failed"]
    <2>1. id \in Session
      BY <1>0, <1>3 DEF TypeOK
    <2>2. state[id] # "Absent"
      BY <1>0, <1>3 DEF SafeInv, BaseInv, LinkInv
    <2>3. state[id] \in Unfinished \cup Finished /\ "Failed" \in Finished
      BY <1>0, <1>3, <2>1, <2>2 DEF TypeOK, SessionState, Unfinished, Finished
    <2> HIDE DEF id
    <2> QED
      BY <1>0, <1>1, <1>3, <2>1, <2>3, PhaseStep
  <1> QED
    BY <1>2, <1>3 DEF DropForgetsWorker, FailSession

\* Handles.
LEMMA HandleMoves ==
    ASSUME SafeInv, NEW r \in Command,
           \/ \E k \in Task : FinishHandle(k, r)
           \/ PurgeHandle(r)
    PROVE  ServiceStep
  <1>0. TypeOK
    BY DEF SafeInv, BaseInv
  <1>1. ASSUME NEW k \in Task, FinishHandle(k, r) PROVE ServiceStep
    <2>1. CASE handles[r] = "Running"
      <3>1. Outcome(k, r) \in ExitCause
        BY <1>0, TaskFields DEF Outcome, ExitCause
      <3>2. /\ handles' = [handles EXCEPT ![r] = Outcome(k, r)]
            /\ UNCHANGED <<state, cmd, attached>>
        BY <1>1, <2>1 DEF FinishHandle, StillRunning, recVars
      <3>3. Outcome(k, r) # "Absent"
        BY <3>1 DEF ExitCause, ResultCause, DropCause
      <3>4. AcceptedAs' = AcceptedAs
        BY <1>0, <2>1, <3>2, <3>3 DEF AcceptedAs, TypeOK
      <3> QED
        BY <2>1, <3>1, <3>2, <3>4 DEF ServiceStep, Service!Next, Service!Finish
    <2>2. CASE handles[r] # "Running"
      BY <1>1, <2>2, Invisible DEF FinishHandle, StillRunning, recVars, Seen
    <2> QED
      BY <2>1, <2>2
  <1>2. CASE PurgeHandle(r)
    <2>1. /\ handles[r] \in ExitCause
          /\ handles' = [handles EXCEPT ![r] = "Purged"]
          /\ UNCHANGED <<state, cmd, attached>>
      BY <1>2 DEF PurgeHandle, recVars, taskVars
    <2>2. AcceptedAs' = AcceptedAs
      BY <1>0, <2>1 DEF AcceptedAs, TypeOK, ExitCause, ResultCause, DropCause
    <2> QED
      BY <2>1, <2>2 DEF ServiceStep, Service!Next, Service!Purge
  <1> QED
    BY <1>1, <1>2

\* A request is not seen before it is accepted, and is accepted by an active session
\* whose shell is free if the command needs it.
LEMMA RequestMoves ==
    ASSUME SafeInv, NEW r \in Command,
           \/ \E s \in Session, mode \in Mode : Submit(r, s, mode)
           \/ SubmitRegisters(r)
    PROVE  ServiceStep
  <1>0. TypeOK /\ LinkInv /\ SubmitInv /\ TerminalInv
    BY DEF SafeInv, BaseInv
  <1>1. ASSUME NEW s \in Session, NEW mode \in Mode, Submit(r, s, mode) PROVE ServiceStep
    <2>1. handles[r] = "Absent" /\ UNCHANGED <<state, handles, attached>>
      BY <1>0, <1>1 DEF Submit, SubmitInv, poolVars, recVars
    <2>2. AcceptedAs' = AcceptedAs
      BY <1>0, <1>1, <2>1 DEF Submit, AcceptedAs, TypeOK
    <2> QED
      BY <2>1, <2>2 DEF ServiceStep, Service!vars
  <1>2. CASE SubmitRegisters(r)
    <2>1. CASE ~Accepts(cmd[r].session, cmd[r].mode)
      BY <1>2, <2>1, Invisible DEF SubmitRegisters, Seen
    <2>2. CASE Accepts(cmd[r].session, cmd[r].mode)
      <3>1. /\ handles[r] = "Absent"
            /\ handles' = [handles EXCEPT ![r] = "Running"]
            /\ UNCHANGED <<state, cmd, attached>>
        BY <1>0, <1>2, <2>2 DEF SubmitRegisters, SubmitInv
      <3>2. cmd[r] \in Service!Request
        <4>1. cmd[r].session \in Session
          BY <1>0, <1>2 DEF SubmitRegisters, LinkInv
        <4>2. cmd[r] \in [session : Session \cup {None}, mode : Mode]
          BY <1>0 DEF TypeOK
        <4> QED
          BY <4>1, <4>2 DEF Service!Request, Mode
      <3>3. AcceptedAs' = [AcceptedAs EXCEPT ![r] = cmd[r]]
        BY <1>0, <3>1 DEF AcceptedAs, TypeOK
      <3>4. state[cmd[r].session] = "Active"
        BY <2>2 DEF Accepts
      <3>5. cmd[r].mode = "Stateful" => \A t \in Terminal : attached[t] # cmd[r].session
        <4>1. SUFFICES ASSUME cmd[r].mode = "Stateful", NEW t \in Terminal,
                              attached[t] = cmd[r].session
                       PROVE  FALSE
          OBVIOUS
        <4>2. terminal[cmd[r].session] = None /\ None \notin Terminal
          BY <2>2, <4>1, PoolAssumption DEF Accepts
        <4>3. cmd[r].session \in Session
          BY <3>2 DEF Service!Request
        <4> QED
          BY <1>0, <3>4, <4>1, <4>2, <4>3 DEF TerminalInv, Unfinished
      <3>6. Service!Accept(r, cmd[r])
        BY <3>1, <3>3, <3>4, <3>5 DEF Service!Accept
      <3> QED
        BY <3>2, <3>6 DEF ServiceStep, Service!Next
    <2> QED
      BY <2>1, <2>2
  <1> QED
    BY <1>1, <1>2

\* Terminals.
LEMMA TerminalMoves ==
    ASSUME SafeInv, NEW t \in Terminal,
           (\E s \in Session : AttachTerminal(t, s)) \/ DetachTerminal(t)
    PROVE  ServiceStep
  <1>0. TypeOK /\ TerminalInv
    BY DEF SafeInv, BaseInv
  <1>1. ASSUME NEW s \in Session, AttachTerminal(t, s) PROVE ServiceStep
    <2>1. \A u \in Terminal : attached[u] # s
      BY <1>0, <1>1, PoolAssumption DEF AttachTerminal, TerminalInv, Unfinished
    <2>2. UNCHANGED <<state, handles, AcceptedAs>>
      BY <1>1 DEF AttachTerminal, AcceptedAs, poolVars
    <2>3. Service!Attach(t, s)
      BY <1>1, <2>1, <2>2 DEF AttachTerminal, Service!Attach
    <2> QED
      BY <2>3 DEF ServiceStep, Service!Next
  <1>2. CASE DetachTerminal(t)
    <2>1. UNCHANGED <<state, handles, AcceptedAs>>
      BY <1>2 DEF DetachTerminal, AcceptedAs, poolVars
    <2>2. Service!Detach(t)
      BY <1>2, <2>1 DEF DetachTerminal, Service!Detach
    <2> QED
      BY <2>2 DEF ServiceStep, Service!Next
  <1> QED
    BY <1>1, <1>2

-----------------------------------------------------------------------------
\* A session that has a connection was created, and a created one stays so.
LEMMA SinkNext == ASSUME SafeInv, SinkInv, [Next]_vars PROVE SinkInv'
  <1>0. TypeOK /\ TaskInv /\ LinkInv
    BY DEF SafeInv, BaseInv
  <1> USE DEF SinkInv, poolVars, recVars, runtimeVars, taskVars
  <1>1. ASSUME NEW c \in Conn, ConnStep(c) PROVE SinkInv'
    <2>1. CASE Register(c) \/ Disconnect(c) \/ LoopEnds(c) \/ RouteWaits(c) \/ RouteReturns(c)
      BY <2>1 DEF Register, Disconnect, LoopEnds, RouteWaits, RouteReturns
    <2>2. ASSUME NEW s \in Session, NEW error \in BOOLEAN, SessionReady(c, s, error)
          PROVE  SinkInv'
      BY <1>0, <2>2 DEF SessionReady, TypeOK
    <2>3. ASSUME NEW s \in Session, NEW error \in BOOLEAN, NEW reusable \in BOOLEAN,
                 SessionClosed(c, s, error, reusable)
          PROVE  SinkInv'
      BY <1>0, <2>3 DEF SessionClosed, TypeOK
    <2>4. ASSUME NEW r \in Command, NEW cause \in Reports,
                 Result(c, r, cause)
          PROVE  SinkInv'
      BY <2>4 DEF Result
    <2>5. ASSUME NEW r \in Command, SpoolFails(c, r) PROVE SinkInv'
      BY <2>5 DEF SpoolFails
    <2> QED
      BY <1>1, <2>1, <2>2, <2>3, <2>4, <2>5 DEF ConnStep
  <1>2. ASSUME NEW w \in Worker, Keepalive(w) PROVE SinkInv'
    BY <1>2 DEF Keepalive
  <1>3. ASSUME NEW k \in Task, TaskStep(k) PROVE SinkInv'
    BY <1>0, <1>3 DEF TaskStep, DropTakesInflight, DropForgetsWorker, FailSession, TaskEnds,
                      FinishHandle, TypeOK
  <1>4. ASSUME NEW s \in Session, SessionStep(s) PROVE SinkInv'
    BY <1>0, <1>4 DEF SessionStep, CreateSession, SendOpen, SendOpenFails, CreateReturns,
                      CreateTimesOut, CreateGivesUp, RetireSession, AbandonCreate,
                      AttachTerminal, TypeOK
  <1>5. ASSUME NEW r \in Command, CommandStep(r) PROVE SinkInv'
    BY <1>5 DEF CommandStep, Submit, SubmitLocks, SubmitSetupFails, SubmitRegisters, SendRun,
                SendRunFails, Cancel, CancelSends, PurgeHandle, AbandonSubmit
  <1>6. ASSUME NEW k \in Closer, CloserStep(k) PROVE SinkInv'
    BY <1>0, <1>6 DEF CloserStep, Close, CloseLocks, SendClose, SendCloseFails, CloseReturns,
                      CloseTimesOut, AbandonClose, TypeOK
  <1>7. ASSUME NEW t \in Terminal, DetachTerminal(t) PROVE SinkInv'
    BY <1>7 DEF DetachTerminal
  <1>8. CASE UNCHANGED vars
    BY <1>8 DEF vars
  <1> QED
    BY <1>1, <1>2, <1>3, <1>4, <1>5, <1>6, <1>7, <1>8 DEF Next, Quiescent

\* Every step of the pool is a step of the service or invisible.
LEMMA StepRefines == ASSUME SafeInv, SinkInv, [Next]_vars PROVE ServiceStep
  <1>1. ASSUME NEW c \in Conn, ConnStep(c) PROVE ServiceStep
    BY <1>1, InvisibleConn, Invisible, SessionMoves DEF ConnStep
  <1>2. ASSUME NEW w \in Worker, Keepalive(w) PROVE ServiceStep
    BY <1>2, Invisible DEF Keepalive, Seen, poolVars, recVars, taskVars
  <1>3. ASSUME NEW k \in Task, TaskStep(k) PROVE ServiceStep
    <2>1. CASE DropTakesInflight(k) \/ TaskEnds(k)
      BY <2>1, Invisible DEF DropTakesInflight, TaskEnds, Seen, poolVars, recVars
    <2>2. CASE DropForgetsWorker(k)
      BY <2>2, WorkerForgotten
    <2>3. ASSUME NEW r \in Command, FinishHandle(k, r) PROVE ServiceStep
      BY <2>3, HandleMoves
    <2> QED
      BY <1>3, <2>1, <2>2, <2>3 DEF TaskStep
  <1>4. ASSUME NEW s \in Session, SessionStep(s) PROVE ServiceStep
    BY <1>4, InvisibleSession, Invisible, SessionMoves, TerminalMoves DEF SessionStep
  <1>5. ASSUME NEW r \in Command, CommandStep(r) PROVE ServiceStep
    BY <1>5, InvisibleCommand, Invisible, RequestMoves, HandleMoves DEF CommandStep
  <1>6. ASSUME NEW k \in Closer, CloserStep(k) PROVE ServiceStep
    BY <1>6, InvisibleCloser, Invisible, SessionReleased DEF CloserStep
  <1>7. ASSUME NEW t \in Terminal, DetachTerminal(t) PROVE ServiceStep
    BY <1>7, TerminalMoves
  <1>8. CASE UNCHANGED vars
    BY <1>8, Invisible DEF vars, Seen, poolVars, recVars, taskVars
  <1> QED
    BY <1>1, <1>2, <1>3, <1>4, <1>5, <1>6, <1>7, <1>8 DEF Next, Quiescent

\* The pool implements the session service: every behaviour of the pool, with any
\* interleaving of read loops, handlers, drops and abandoned requests, is one the API
\* promises.
THEOREM PoolImplementsService == Spec => ImplementsService
  <1>1. Init => Service!Init
    BY DEF Init, Service!Init, AcceptedAs
  <1>2. Init => SinkInv
    BY DEF Init, SinkInv
  <1>3. SafeInv /\ SinkInv /\ [Next]_vars => SinkInv' /\ [Service!Next]_(Service!vars)
    BY SinkNext, StepRefines DEF ServiceStep
  <1> QED
    BY <1>1, <1>2, <1>3, SafeCorrect, PTL DEF Spec, ImplementsService, Service!Spec
=============================================================================
