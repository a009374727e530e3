-------------------------------- MODULE Pool --------------------------------
(***************************************************************************)
(* The worker pool of the shiitake server                                  *)
(* (shiitake-server/src/pool/mod.rs): workers connect and register, a      *)
(* session takes one idle worker, commands and a terminal share the        *)
(* session, and the worker comes back when the session closes.             *)
(*                                                                         *)
(* Every action is one critical section of the pool's mutex, or one await  *)
(* (a send, a timeout, a wake-up) between two of them.  The tasks that     *)
(* interleave are the read loop of every worker connection, the HTTP       *)
(* handlers (create, close, submit, cancel, attach), the sweeper and the   *)
(* keepalive.                                                              *)
(*                                                                         *)
(* Time is abstracted: a timeout may fire whenever its wait is pending and *)
(* a TTL may have elapsed whenever the sweeper looks.  The FIFO order of   *)
(* the idle queue is abstracted to a bag: any entry of the profile may be  *)
(* the first one.                                                          *)
(***************************************************************************)
EXTENDS Naturals, FiniteSets

CONSTANTS
    Worker,     \* worker ids, stable across reconnects
    Conn,       \* WebSocket connections, each used once
    WorkerOf,   \* [Conn -> Worker]: the worker that makes the connection
    Profile,    \* worker profiles
    ProfileOf,  \* [Worker -> Profile]: the profile the worker reports on Hello
    Session,    \* session ids, never reused
    Command,    \* command handle ids, never reused
    Closer,     \* calls of close_session_inner
    Sweep,      \* those of them made by the sweeper, with its idle gate
    Terminal,   \* terminal attachments
    Reports,    \* how the workers' Results classify, a subset of ResultCause
    ProbeSays,  \* what the OOM probe may answer, {"WorkerDied"} without one
    Env,        \* what the environment may do, a subset of EnvBehaviours
    None        \* no worker, connection, session, terminal or lock holder

(***************************************************************************)
(* overlap:      a worker may register again while a task of the server    *)
(*               still handles its previous connection;                    *)
(* abandon:      an HTTP client may hang up, which drops the future of its *)
(*               handler at whatever await it has reached;                 *)
(* early_cancel: a client that listed the session's commands may cancel    *)
(*               one whose submission has not returned yet.                *)
(***************************************************************************)
EnvBehaviours == {"overlap", "abandon", "early_cancel"}

\* classify: how a ResultFrame becomes an exit cause.
ResultCause == {"Normal", "Signal", "Cancelled", "WorkerError"}
DropCause == {"WorkerDied", "OomContainer"}
ExitCause == ResultCause \cup DropCause \cup {"OutputError"}

ASSUME PoolAssumption ==
    /\ WorkerOf \in [Conn -> Worker]
    /\ ProfileOf \in [Worker -> Profile]
    /\ Sweep \subseteq Closer
    /\ Env \subseteq EnvBehaviours
    /\ Reports \subseteq ResultCause
    /\ ProbeSays \subseteq DropCause /\ ProbeSays # {}
    /\ None \notin Worker \cup Conn \cup Session \cup Terminal \cup Command \cup Closer
    /\ Conn \cap Session = {} /\ Conn \cap Command = {} /\ Session \cap Command = {}
    /\ Closer \cap Command = {}
    /\ IsFiniteSet(Command)

VARIABLES
    \* PoolState
    idle,               \* [Conn -> Nat]: entries of the idle queue
    inflight,           \* commands with an entry in the inflight map
    handles,            \* [Command -> HandleState]
    liveness,           \* [Worker -> Conn or None]: the registered connection
    worker_sessions,    \* [Worker -> Session or None]
    \* SessionRecord
    state,              \* [Session -> SessionState]
    sink,               \* [Session -> Conn or None]: also fixes the worker id
    opened,             \* [Session -> {"none", "pending", "ok", "err"}]: oneshot
    closed,             \* [Session -> SUBSET Closer]: oneshots of the closers
    terminal,           \* [Session -> Terminal or None]: the reserved channel
    stateful_count,     \* [Session -> Nat]
    send_lock,          \* [Session -> Command, Closer or None]: who holds it
    \* HandleRuntime
    cancel_requested,   \* SUBSET Command
    spool_failed,       \* SUBSET Command
    \* tasks
    creator,            \* [Session -> CreatorPc]
    closer,             \* [Closer -> CloserPc]
    target,             \* [Closer -> Session or None]
    woken,              \* closers whose oneshot fired or lost its sender
    submit,             \* [Command -> SubmitPc]
    cmd,                \* [Command -> [session, mode]]
    canceller,          \* [Command -> {"none", "sending", "sent"}]
    attached,           \* [Terminal -> Session or None]: the client's attachment
    loop,               \* [Conn -> {"new", "reading", "ended"}]: read loops
    task,               \* [Task -> TaskState]: reconciliation under way
    \* connections and the worker at their far end
    up,                 \* [Conn -> BOOLEAN]: the worker still holds the socket
    evict,              \* [Conn -> BOOLEAN]: permit of the shutdown Notify
    remote,             \* [Session -> RemoteState]: the worker's view of it
    running,            \* commands the worker accepted and has not reported
    told,               \* commands whose Cancel reached the worker in time
    close_sent          \* [Session -> BOOLEAN]: a SessionClose was put on the wire

poolVars == <<idle, inflight, handles, liveness, worker_sessions>>
recVars == <<state, sink, opened, closed, terminal, stateful_count, send_lock>>
runtimeVars == <<cancel_requested, spool_failed>>
taskVars == <<creator, closer, target, woken, submit, cmd, canceller, attached, loop, task>>
farVars == <<up, evict, remote, running, told, close_sent>>
vars == <<poolVars, recVars, runtimeVars, taskVars, farVars>>

-----------------------------------------------------------------------------
Unfinished == {"Opening", "Active", "Closing"}
Finished == {"Closed", "Failed"}
\* "Absent" before the record is inserted, "Swept" after retention removed it.
SessionState == {"Absent", "Swept"} \cup Unfinished \cup Finished

\* A handle that is neither running nor gone is terminal, with this exit cause.
HandleState == {"Absent", "Running", "Purged"} \cup ExitCause

CreatorPc == {"none", "sending", "waiting", "closing", "dropping", "created",
              "failed", "abandoned"}
CloserPc == {"none", "locking", "sending", "waiting", "done"}
SubmitPc == {"none", "locking", "setup", "sending", "dropping", "done", "failed"}
Mode == {"Stateful", "Parallel"}
RemoteState == {"none", "open", "failed", "ready", "closed"}

(***************************************************************************)
(* A task that reconciles what a worker left behind: a read loop, or a     *)
(* create or submit handler whose send failed.  "drop1" and "drop2" are    *)
(* the two critical sections of handle_worker_drop; "result" and "finish"  *)
(* fill in the handles of pending, one at a time, then wake the closers.   *)
(* "routing" is a read loop that waits for room in a terminal's channel.   *)
(***************************************************************************)
Task == Conn \cup Session \cup Command
TaskPc == {"none", "routing", "drop1", "drop2", "result", "finish"}
Reconcile(pc, w, pending, cause, wake) ==
    [pc |-> pc, worker |-> w, pending |-> pending, cause |-> cause, wake |-> wake]
NoTask == Reconcile("none", None, {}, "Normal", {})
DropTask(w) == Reconcile("drop1", w, {}, "Normal", {})
RouteTask(w) == Reconcile("routing", w, {}, "Normal", {})

SessionWorker(s) == WorkerOf[sink[s]]
\* The worker id of an inflight entry is that of its session's record.
OnWorker(r, w) == SessionWorker(cmd[r].session) = w
InflightOf(s) == {r \in inflight : cmd[r].session = s}
IdleEntries(w) == {c \in Conn : WorkerOf[c] = w /\ idle[c] > 0}
\* The read loop of c sits in its select!, ready for a frame or the permit.
Selecting(c) == loop[c] = "reading" /\ task[c].pc = "none"

Init ==
    /\ idle = [c \in Conn |-> 0]
    /\ inflight = {}
    /\ handles = [r \in Command |-> "Absent"]
    /\ liveness = [w \in Worker |-> None]
    /\ worker_sessions = [w \in Worker |-> None]
    /\ state = [s \in Session |-> "Absent"]
    /\ sink = [s \in Session |-> None]
    /\ opened = [s \in Session |-> "none"]
    /\ closed = [s \in Session |-> {}]
    /\ terminal = [s \in Session |-> None]
    /\ stateful_count = [s \in Session |-> 0]
    /\ send_lock = [s \in Session |-> None]
    /\ cancel_requested = {}
    /\ spool_failed = {}
    /\ creator = [s \in Session |-> "none"]
    /\ closer = [k \in Closer |-> "none"]
    /\ target = [k \in Closer |-> None]
    /\ woken = {}
    /\ submit = [r \in Command |-> "none"]
    /\ cmd = [r \in Command |-> [session |-> None, mode |-> "Parallel"]]
    /\ canceller = [r \in Command |-> "none"]
    /\ attached = [t \in Terminal |-> None]
    /\ loop = [c \in Conn |-> "new"]
    /\ task = [k \in Task |-> NoTask]
    /\ up = [c \in Conn |-> FALSE]
    /\ evict = [c \in Conn |-> FALSE]
    /\ remote = [s \in Session |-> "none"]
    /\ running = {}
    /\ told = {}
    /\ close_sent = [s \in Session |-> FALSE]

-----------------------------------------------------------------------------
(* Connections: register_and_run, keepalive and the network.               *)

\* No task of the server is still at work for an earlier connection of w.
NoOverlap(w) ==
    /\ \A c \in Conn : WorkerOf[c] = w => loop[c] # "reading"
    /\ \A k \in Task : task[k].worker = w => task[k].pc \notin {"drop1", "drop2"}
    /\ \A s \in Session : creator[s] = "sending" => SessionWorker(s) # w
    /\ \A r \in Command : submit[r] = "sending" => ~OnWorker(r, w)

\* A worker Hellos on a new connection after it lost the previous one.  A
\* second registration of a live id is refused, and the worker tries again.
Register(c) ==
    LET w == WorkerOf[c] IN
    /\ loop[c] = "new"
    /\ \A d \in Conn : WorkerOf[d] = w => ~up[d]
    /\ "overlap" \in Env \/ NoOverlap(w)
    /\ liveness[w] = None
    /\ idle' = [idle EXCEPT ![c] = @ + 1]
    /\ liveness' = [liveness EXCEPT ![w] = c]
    /\ loop' = [loop EXCEPT ![c] = "reading"]
    /\ up' = [up EXCEPT ![c] = TRUE]
    /\ UNCHANGED <<inflight, handles, worker_sessions, recVars, runtimeVars, creator,
                   closer, target, woken, submit, cmd, canceller, attached, task, evict,
                   remote, running, told, close_sent>>

\* The socket dies, the worker process exits, or its lease lapses.
Disconnect(c) ==
    /\ up[c]
    /\ up' = [up EXCEPT ![c] = FALSE]
    /\ UNCHANGED <<poolVars, recVars, runtimeVars, taskVars, evict, remote, running,
                   told, close_sent>>

\* The read loop sees the end of the stream, or takes the shutdown permit.
LoopEnds(c) ==
    /\ Selecting(c)
    /\ ~up[c] \/ evict[c]
    /\ loop' = [loop EXCEPT ![c] = "ended"]
    /\ task' = [task EXCEPT ![c] = DropTask(WorkerOf[c])]
    /\ evict' = [evict EXCEPT ![c] = FALSE]
    /\ UNCHANGED <<poolVars, recVars, runtimeVars, creator, closer, target, woken, submit, cmd,
                   canceller, attached, up, remote, running, told, close_sent>>

\* Mutant of Evict: nobody is notified.
EvictNobody(w) == UNCHANGED evict

\* evict_worker: leave a permit in the shutdown Notify of whichever connection
\* is registered under the id now.  A loop that has ended never looks at it.
Evict(w) ==
    evict' = IF liveness[w] # None /\ loop[liveness[w]] = "reading"
             THEN [evict EXCEPT ![liveness[w]] = TRUE]
             ELSE evict

\* A worker among those the keepalive pings was silent, or the ping failed.
Keepalive(w) ==
    /\ liveness[w] # None
    /\ \/ IdleEntries(w) # {}
       \/ \E r \in inflight : OnWorker(r, w)
       \/ worker_sessions[w] # None /\ state[worker_sessions[w]] # "Swept"
    /\ Evict(w)
    /\ UNCHANGED <<poolVars, recVars, runtimeVars, taskVars, up, remote, running, told,
                   close_sent>>

-----------------------------------------------------------------------------
(* handle_worker_drop, and the completion of handles.                      *)

\* First critical section: take the worker's inflight entries.
DropTakesInflight(k) ==
    /\ task[k].pc = "drop1"
    /\ LET pending == {r \in inflight : OnWorker(r, task[k].worker)} IN
       /\ inflight' = inflight \ pending
       /\ task' = [task EXCEPT ![k] =
                     Reconcile("drop2", task[k].worker, pending, "Normal", {})]
    /\ UNCHANGED <<idle, handles, liveness, worker_sessions, recVars, runtimeVars,
                   creator, closer, target, woken, submit, cmd, canceller, attached, loop,
                   farVars>>

\* The session the worker holds, if its record is still there, fails.
FailSession(id) ==
    IF id # None /\ state[id] # "Swept"
    THEN /\ state' = [state EXCEPT ![id] = "Failed"]
         /\ terminal' = [terminal EXCEPT ![id] = None]
         /\ opened' = [opened EXCEPT ![id] = IF @ = "pending" THEN "err" ELSE @]
         /\ closed' = [closed EXCEPT ![id] = {}]
    ELSE UNCHANGED <<state, terminal, opened, closed>>

\* Mutant of Waiters: a worker drop wakes no closer.
NoWaiters(id) == {}

\* The closers that a worker drop takes from the session's record.
Waiters(id) == IF id = None THEN {} ELSE closed[id]

\* Second critical section: forget the worker and fail its session, then ask
\* the OOM probe what became of the pending commands.
DropForgetsWorker(k) ==
    LET w == task[k].worker
        id == worker_sessions[w]
    IN
    /\ task[k].pc = "drop2"
    /\ idle' = [c \in Conn |-> IF WorkerOf[c] = w THEN 0 ELSE idle[c]]
    /\ worker_sessions' = [worker_sessions EXCEPT ![w] = None]
    /\ liveness' = [liveness EXCEPT ![w] = None]
    /\ FailSession(id)
    /\ \E cause \in ProbeSays :
          task' = [task EXCEPT ![k] =
                     Reconcile("finish", w, task[k].pending, cause, Waiters(id))]
    /\ UNCHANGED <<inflight, handles, sink, stateful_count, send_lock, runtimeVars,
                   creator, closer, target, woken, submit, cmd, canceller, attached, loop,
                   farVars>>

\* What a running handle ends as: a Result whose output was lost is an error.
Outcome(k, r) ==
    IF task[k].pc = "result" /\ r \in spool_failed THEN "OutputError" ELSE task[k].cause

\* Mutant of StillRunning: a late outcome replaces an earlier one.
NotPurged(r) == handles[r] # "Purged"

StillRunning(r) == handles[r] = "Running"

\* Fill in one pending handle, unless another outcome was there first.
FinishHandle(k, r) ==
    /\ task[k].pc \in {"result", "finish"}
    /\ r \in task[k].pending
    /\ handles' = IF StillRunning(r)
                  THEN [handles EXCEPT ![r] = Outcome(k, r)]
                  ELSE handles
    /\ task' = [task EXCEPT ![k] =
                  Reconcile(task[k].pc, task[k].worker, task[k].pending \ {r},
                            task[k].cause, task[k].wake)]
    /\ UNCHANGED <<idle, inflight, liveness, worker_sessions, recVars, runtimeVars,
                   creator, closer, target, woken, submit, cmd, canceller, attached, loop,
                   farVars>>

\* Mutant of HandlerReturns: the send lock is never released.
HandlerKeepsLock(k) ==
    /\ creator' = IF k \in Session THEN [creator EXCEPT ![k] = "failed"] ELSE creator
    /\ submit' = IF k \in Command THEN [submit EXCEPT ![k] = "failed"] ELSE submit
    /\ UNCHANGED send_lock

\* A create or submit handler that called handle_worker_drop returns its error.
HandlerReturns(k) ==
    /\ creator' = IF k \in Session THEN [creator EXCEPT ![k] = "failed"] ELSE creator
    /\ submit' = IF k \in Command THEN [submit EXCEPT ![k] = "failed"] ELSE submit
    /\ send_lock' = IF k \in Command
                    THEN [send_lock EXCEPT ![cmd[k].session] = None]
                    ELSE send_lock

\* Mutant of AllFilled: the task ends before its handles are filled in.
Impatient(k) == TRUE

AllFilled(k) == task[k].pending = {}

\* Every pending handle is filled in: wake the closers, and go on.
TaskEnds(k) ==
    /\ task[k].pc \in {"result", "finish"}
    /\ AllFilled(k)
    /\ woken' = woken \cup task[k].wake
    /\ task' = [task EXCEPT ![k] = NoTask]
    /\ HandlerReturns(k)
    /\ UNCHANGED <<poolVars, state, sink, opened, closed, terminal, stateful_count,
                   runtimeVars, closer, target, cmd, canceller, attached, loop, farVars>>

-----------------------------------------------------------------------------
(* create_session.                                                         *)

\* Mutant of Available: any registered worker of the profile will do.
Registered(c, p) == liveness[WorkerOf[c]] = c /\ ProfileOf[WorkerOf[c]] = p

Available(c, p) == idle[c] > 0 /\ ProfileOf[WorkerOf[c]] = p

\* Reserve an idle worker of the profile, if the profile is known.
CreateSession(s, p) ==
    /\ state[s] = "Absent"
    /\ \E w \in Worker : liveness[w] # None /\ ProfileOf[w] = p
    /\ \E c \in Conn :
          /\ Available(c, p)
          /\ idle' = [idle EXCEPT ![c] = @ - 1]
          /\ worker_sessions' = [worker_sessions EXCEPT ![WorkerOf[c]] = s]
          /\ sink' = [sink EXCEPT ![s] = c]
    /\ state' = [state EXCEPT ![s] = "Opening"]
    /\ opened' = [opened EXCEPT ![s] = "pending"]
    /\ creator' = [creator EXCEPT ![s] = "sending"]
    /\ UNCHANGED <<inflight, handles, liveness, closed, terminal, stateful_count,
                   send_lock, runtimeVars, closer, target, woken, submit, cmd, canceller,
                   attached, loop, task, farVars>>

\* SessionOpen reaches the worker, unless the peer is gone.
DeliverOpen(s) ==
    remote' = IF up[sink[s]] THEN [remote EXCEPT ![s] = "open"] ELSE remote

\* The socket accepts SessionOpen.
SendOpen(s) ==
    /\ creator[s] = "sending"
    /\ creator' = [creator EXCEPT ![s] = "waiting"]
    /\ DeliverOpen(s)
    /\ UNCHANGED <<poolVars, recVars, runtimeVars, closer, target, woken, submit, cmd,
                   canceller, attached, loop, task, up, evict, running, told,
                   close_sent>>

\* The send fails, or takes 10 s and may still get through: the handler runs
\* handle_worker_drop itself, while the read loop of the connection goes on.
SendOpenFails(s) ==
    /\ creator[s] = "sending"
    /\ creator' = [creator EXCEPT ![s] = "dropping"]
    /\ task' = [task EXCEPT ![s] = DropTask(SessionWorker(s))]
    /\ DeliverOpen(s) \/ UNCHANGED remote
    /\ UNCHANGED <<poolVars, recVars, runtimeVars, closer, target, woken, submit, cmd,
                   canceller, attached, loop, up, evict, running, told, close_sent>>

\* The oneshot fired; created_session_snapshot has the last word.
CreateReturns(s) ==
    LET w == SessionWorker(s) IN
    /\ creator[s] = "waiting"
    /\ opened[s] \in {"ok", "err"}
    /\ creator' = [creator EXCEPT ![s] =
                     IF /\ opened[s] = "ok"
                        /\ state[s] = "Active"
                        /\ liveness[w] # None
                        /\ worker_sessions[w] = s
                     THEN "created" ELSE "failed"]
    /\ UNCHANGED <<poolVars, recVars, runtimeVars, closer, target, woken, submit, cmd,
                   canceller, attached, loop, task, farVars>>

\* No SessionReady within 10 s.
CreateTimesOut(s) ==
    /\ creator[s] = "waiting"
    /\ opened[s] = "pending"
    /\ creator' = [creator EXCEPT ![s] = "closing"]
    /\ UNCHANGED <<poolVars, recVars, runtimeVars, closer, target, woken, submit, cmd,
                   canceller, attached, loop, task, farVars>>

\* Send SessionClose, whatever comes of it, and evict the worker.
CreateGivesUp(s) ==
    /\ creator[s] = "closing"
    /\ creator' = [creator EXCEPT ![s] = "failed"]
    /\ \E sent \in BOOLEAN : close_sent' = [close_sent EXCEPT ![s] = @ \/ sent]
    /\ Evict(SessionWorker(s))
    /\ UNCHANGED <<poolVars, recVars, runtimeVars, closer, target, woken, submit, cmd,
                   canceller, attached, loop, task, up, remote, running, told>>

-----------------------------------------------------------------------------
(* Frames from the worker, handled by the read loop of its connection.     *)

\* session_ready: the shell started, or could not.
SessionReady(c, s, error) ==
    /\ Selecting(c)
    /\ sink[s] = c
    /\ remote[s] = "open"
    /\ remote' = [remote EXCEPT ![s] = IF error THEN "failed" ELSE "ready"]
    /\ state' = [state EXCEPT ![s] =
                   IF @ # "Opening" THEN @ ELSE IF error THEN "Failed" ELSE "Active"]
    /\ opened' = [opened EXCEPT ![s] =
                    IF @ # "pending" THEN @ ELSE IF error THEN "err" ELSE "ok"]
    /\ UNCHANGED <<poolVars, sink, closed, terminal, stateful_count, send_lock,
                   runtimeVars, taskVars, up, evict, running, told, close_sent>>

\* Mutant of Readvertises: a worker that was dropped comes back.
ReadvertisesDropped(w, reusable) == reusable

Readvertises(w, reusable) == reusable /\ liveness[w] # None

\* session_closed: the shell is gone and the sandbox is reset, or is not.  The
\* record gives up its waiters and its terminal, the worker its session.
SessionClosed(c, s, error, reusable) ==
    LET w == WorkerOf[c] IN
    /\ Selecting(c)
    /\ sink[s] = c
    /\ \/ remote[s] = "ready"
       \/ remote[s] = "failed" /\ error
    /\ remote' = [remote EXCEPT ![s] = "closed"]
    /\ running' = {r \in running : cmd[r].session # s}
    /\ \/ /\ state[s] = "Swept"
          /\ UNCHANGED <<poolVars, state, opened, closed, terminal, task>>
       \/ /\ state[s] # "Swept"
          /\ state' = [state EXCEPT ![s] = IF error THEN "Failed" ELSE "Closed"]
          /\ opened' = [opened EXCEPT ![s] = IF @ = "pending" THEN "err" ELSE @]
          /\ terminal' = [terminal EXCEPT ![s] = None]
          /\ closed' = [closed EXCEPT ![s] = {}]
          /\ worker_sessions' = [worker_sessions EXCEPT ![w] = None]
          /\ idle' = IF Readvertises(w, reusable)
                     THEN [idle EXCEPT ![c] = @ + 1]
                     ELSE idle
          /\ inflight' = inflight \ InflightOf(s)
          /\ task' = [task EXCEPT ![c] =
                        Reconcile("finish", w, InflightOf(s),
                                  IF state[s] = "Closing" /\ ~error
                                  THEN "Cancelled" ELSE "WorkerError",
                                  closed[s])]
          /\ UNCHANGED <<handles, liveness>>
    /\ UNCHANGED <<sink, stateful_count, send_lock, runtimeVars, creator, closer, target, woken,
                   submit, cmd, canceller, attached, loop, up, evict, told, close_sent>>

\* Mutant of CountsDown: every Result counts down, without saturating.
CountsAnyway(r) == r \in inflight

\* The Result of a stateful command counts down, saturating at zero.
CountsDown(r) ==
    LET s == cmd[r].session IN
    r \in inflight /\ cmd[r].mode = "Stateful" /\ state[s] # "Swept" /\ stateful_count[s] > 0

\* complete_request: free the inflight slot, then fill in the handle.  The
\* worker reports a command as cancelled only if it was told to cancel it.
Result(c, r, cause) ==
    LET s == cmd[r].session IN
    /\ Selecting(c)
    /\ r \in running
    /\ sink[s] = c
    /\ cause = "Cancelled" => r \in told
    /\ running' = running \ {r}
    /\ inflight' = inflight \ {r}
    /\ stateful_count' = [stateful_count EXCEPT ![s] = IF CountsDown(r) THEN @ - 1 ELSE @]
    /\ task' = IF handles[r] = "Purged" THEN task
               ELSE [task EXCEPT ![c] =
                       Reconcile("result", WorkerOf[c], {r}, cause, {})]
    /\ UNCHANGED <<idle, handles, liveness, worker_sessions, state, sink, opened, closed,
                   terminal, send_lock, runtimeVars, creator, closer, target, woken, submit,
                   cmd, canceller, attached, loop, up, evict, remote, told, close_sent>>

\* route_output cannot spool a chunk of an inflight command's output.
SpoolFails(c, r) ==
    /\ Selecting(c)
    /\ r \in running \cap inflight
    /\ OnWorker(r, WorkerOf[c])
    /\ spool_failed' = spool_failed \cup {r}
    /\ UNCHANGED <<poolVars, recVars, cancel_requested, taskVars, farVars>>

\* route_output: the session has a terminal, whose channel is full.
RouteWaits(c) ==
    LET s == worker_sessions[WorkerOf[c]] IN
    /\ Selecting(c)
    /\ s # None
    /\ sink[s] = c /\ remote[s] = "ready"
    /\ state[s] # "Swept" /\ terminal[s] # None
    /\ task' = [task EXCEPT ![c] = RouteTask(WorkerOf[c])]
    /\ UNCHANGED <<poolVars, recVars, runtimeVars, creator, closer, target, woken, submit, cmd,
                   canceller, attached, loop, farVars>>

\* The terminal's handler has taken a chunk from the channel, or has dropped it.
RouteReturns(c) ==
    /\ task[c].pc = "routing"
    /\ task' = [task EXCEPT ![c] = NoTask]
    /\ UNCHANGED <<poolVars, recVars, runtimeVars, creator, closer, target, woken, submit, cmd,
                   canceller, attached, loop, farVars>>

\* A client is still attached to the terminal that the read loop of c waits for.
HeldByTerminal(c) ==
    /\ c \in Conn /\ task[c].pc = "routing"
    /\ \E t \in Terminal, s \in Session : attached[t] = s /\ sink[s] = c

-----------------------------------------------------------------------------
(* submit_session_command.  A client knows a session once its create       *)
(* returned.                                                               *)

\* Mutant of Accepts: a stateful command runs beside a terminal.
AcceptsBesideTerminal(s, mode) == state[s] = "Active"

Accepts(s, mode) ==
    /\ state[s] = "Active"
    /\ mode = "Stateful" => terminal[s] = None

Submit(r, s, mode) ==
    /\ submit[r] = "none"
    /\ creator[s] = "created"
    /\ submit' = [submit EXCEPT ![r] = "locking"]
    /\ cmd' = [cmd EXCEPT ![r] = [session |-> s, mode |-> mode]]
    /\ UNCHANGED <<poolVars, recVars, runtimeVars, creator, closer, target, woken, canceller,
                   attached, loop, task, farVars>>

\* Mutant of LockFree: nobody waits for the send lock.
LockIgnored(s) == TRUE

LockFree(s) == send_lock[s] = None

\* Take the send lock and check the session for the first time.
SubmitLocks(r) ==
    LET s == cmd[r].session IN
    /\ submit[r] = "locking"
    /\ LockFree(s)
    /\ \/ /\ Accepts(s, cmd[r].mode)
          /\ submit' = [submit EXCEPT ![r] = "setup"]
          /\ send_lock' = [send_lock EXCEPT ![s] = r]
       \/ /\ ~Accepts(s, cmd[r].mode)
          /\ submit' = [submit EXCEPT ![r] = "failed"]
          /\ UNCHANGED send_lock
    /\ UNCHANGED <<poolVars, state, sink, opened, closed, terminal, stateful_count,
                   runtimeVars, creator, closer, target, woken, cmd, canceller, attached, loop,
                   task, farVars>>

\* The capture files cannot be created.
SubmitSetupFails(r) ==
    /\ submit[r] = "setup"
    /\ submit' = [submit EXCEPT ![r] = "failed"]
    /\ send_lock' = [send_lock EXCEPT ![cmd[r].session] = None]
    /\ UNCHANGED <<poolVars, state, sink, opened, closed, terminal, stateful_count,
                   runtimeVars, creator, closer, target, woken, cmd, canceller, attached, loop,
                   task, farVars>>

\* Check again under the pool lock and insert the handle and inflight entries.
SubmitRegisters(r) ==
    LET s == cmd[r].session IN
    /\ submit[r] = "setup"
    /\ \/ /\ Accepts(s, cmd[r].mode)
          /\ submit' = [submit EXCEPT ![r] = "sending"]
          /\ inflight' = inflight \cup {r}
          /\ handles' = [handles EXCEPT ![r] = "Running"]
          /\ stateful_count' = [stateful_count EXCEPT ![s] =
                                  IF cmd[r].mode = "Stateful" THEN @ + 1 ELSE @]
          /\ UNCHANGED send_lock
       \/ /\ ~Accepts(s, cmd[r].mode)
          /\ submit' = [submit EXCEPT ![r] = "failed"]
          /\ send_lock' = [send_lock EXCEPT ![s] = None]
          /\ UNCHANGED <<inflight, handles, stateful_count>>
    /\ UNCHANGED <<idle, liveness, worker_sessions, state, sink, opened, closed, terminal,
                   runtimeVars, creator, closer, target, woken, cmd, canceller, attached, loop,
                   task, farVars>>

\* SessionRun reaches the worker, which takes it if it serves the session.
DeliverRun(r) ==
    LET s == cmd[r].session IN
    running' = IF up[sink[s]] /\ remote[s] = "ready" THEN running \cup {r} ELSE running

\* The socket accepts SessionRun.
SendRun(r) ==
    LET s == cmd[r].session IN
    /\ submit[r] = "sending"
    /\ submit' = [submit EXCEPT ![r] = "done"]
    /\ send_lock' = [send_lock EXCEPT ![s] = None]
    /\ DeliverRun(r)
    /\ UNCHANGED <<poolVars, state, sink, opened, closed, terminal, stateful_count,
                   runtimeVars, creator, closer, target, woken, cmd, canceller, attached, loop,
                   task, up, evict, remote, told, close_sent>>

\* The send fails, or takes 10 s and may still get through:
\* handle_worker_drop, with the send lock held.
SendRunFails(r) ==
    /\ submit[r] = "sending"
    /\ submit' = [submit EXCEPT ![r] = "dropping"]
    /\ task' = [task EXCEPT ![r] = DropTask(SessionWorker(cmd[r].session))]
    /\ DeliverRun(r) \/ UNCHANGED running
    /\ UNCHANGED <<poolVars, recVars, runtimeVars, creator, closer, target, woken, cmd,
                   canceller, attached, loop, up, evict, remote, told, close_sent>>

-----------------------------------------------------------------------------
(* cancel.                                                                 *)

\* Only the first cancel of a running handle sends anything.
Cancel(r) ==
    /\ handles[r] = "Running"
    /\ r \notin cancel_requested
    /\ submit[r] = "done" \/ "early_cancel" \in Env
    /\ cancel_requested' = cancel_requested \cup {r}
    /\ canceller' = [canceller EXCEPT ![r] = "sending"]
    /\ UNCHANGED <<poolVars, recVars, spool_failed, creator, closer, target, woken, submit, cmd,
                   attached, loop, task, farVars>>

\* Mutant of CancelArrives: stateful commands are not told.
CancelSkipsStateful(r) == r \in inflight \cap running /\ cmd[r].mode = "Parallel"

\* The worker ignores a Cancel for a command it does not know.
CancelArrives(r) == r \in inflight \cap running /\ up[sink[cmd[r].session]]

\* Send Cancel on the sink of the inflight entry, without the send lock.
CancelSends(r) ==
    /\ canceller[r] = "sending"
    /\ canceller' = [canceller EXCEPT ![r] = "sent"]
    /\ told' = IF CancelArrives(r) THEN told \cup {r} ELSE told
    /\ UNCHANGED <<poolVars, recVars, runtimeVars, creator, closer, target, woken, submit, cmd,
                   attached, loop, task, up, evict, remote, running, close_sent>>

-----------------------------------------------------------------------------
(* close_session and the sweeper's idle gate.                              *)

\* The sweeper closes sessions it finds idle; a client those it created.
StillIdle(s) ==
    /\ state[s] = "Active"
    /\ terminal[s] = None
    /\ InflightOf(s) = {}

Close(k, s) ==
    /\ closer[k] = "none"
    /\ IF k \in Sweep THEN StillIdle(s) ELSE creator[s] = "created"
    /\ closer' = [closer EXCEPT ![k] = "locking"]
    /\ target' = [target EXCEPT ![k] = s]
    /\ UNCHANGED <<poolVars, recVars, runtimeVars, creator, woken, submit, cmd, canceller,
                   attached, loop, task, farVars>>

\* With the send lock held: the idle gate again, then the first closer marks
\* the session Closing and sends, the later ones only wait.
CloseLocks(k) ==
    LET s == target[k] IN
    /\ closer[k] = "locking"
    /\ LockFree(s)
    /\ \/ /\ state[s] \notin Unfinished \/ (k \in Sweep /\ ~StillIdle(s))
          /\ closer' = [closer EXCEPT ![k] = "done"]
          /\ UNCHANGED <<state, closed, send_lock>>
       \/ /\ state[s] = "Closing"
          /\ k \notin Sweep
          /\ closer' = [closer EXCEPT ![k] = "waiting"]
          /\ closed' = [closed EXCEPT ![s] = @ \cup {k}]
          /\ UNCHANGED <<state, send_lock>>
       \/ /\ state[s] \in {"Opening", "Active"}
          /\ k \in Sweep => StillIdle(s)
          /\ closer' = [closer EXCEPT ![k] = "sending"]
          /\ state' = [state EXCEPT ![s] = "Closing"]
          /\ closed' = [closed EXCEPT ![s] = @ \cup {k}]
          /\ send_lock' = [send_lock EXCEPT ![s] = k]
    /\ UNCHANGED <<poolVars, sink, opened, terminal, stateful_count, runtimeVars, creator,
                   target, woken, submit, cmd, canceller, attached, loop, task, farVars>>

\* SessionClose is accepted by the socket.
SendClose(k) ==
    /\ closer[k] = "sending"
    /\ closer' = [closer EXCEPT ![k] = "waiting"]
    /\ send_lock' = [send_lock EXCEPT ![target[k]] = None]
    /\ close_sent' = [close_sent EXCEPT ![target[k]] = TRUE]
    /\ UNCHANGED <<poolVars, state, sink, opened, closed, terminal, stateful_count,
                   runtimeVars, creator, target, woken, submit, cmd, canceller, attached, loop,
                   task, up, evict, remote, running, told>>

\* The send fails, or takes 10 s and may still get through: evict the worker
\* and return the error.
SendCloseFails(k) ==
    /\ closer[k] = "sending"
    /\ closer' = [closer EXCEPT ![k] = "done"]
    /\ send_lock' = [send_lock EXCEPT ![target[k]] = None]
    /\ \E sent \in BOOLEAN :
          close_sent' = [close_sent EXCEPT ![target[k]] = @ \/ sent]
    /\ Evict(SessionWorker(target[k]))
    /\ UNCHANGED <<poolVars, state, sink, opened, closed, terminal, stateful_count,
                   runtimeVars, creator, target, woken, submit, cmd, canceller, attached,
                   loop, task, up, remote, running, told>>

CloseReturns(k) ==
    /\ closer[k] = "waiting"
    /\ k \in woken
    /\ closer' = [closer EXCEPT ![k] = "done"]
    /\ UNCHANGED <<poolVars, recVars, runtimeVars, creator, target, woken, submit, cmd,
                   canceller, attached, loop, task, farVars>>

\* No SessionClosed within 15 s.
CloseTimesOut(k) ==
    /\ closer[k] = "waiting"
    /\ k \notin woken
    /\ closer' = [closer EXCEPT ![k] = "done"]
    /\ Evict(SessionWorker(target[k]))
    /\ UNCHANGED <<poolVars, recVars, runtimeVars, creator, target, woken, submit, cmd,
                   canceller, attached, loop, task, up, remote, running, told,
                   close_sent>>

-----------------------------------------------------------------------------
(* Terminals and retention.                                                *)

\* attach_terminal: no second terminal, and none beside a stateful command.
AttachTerminal(t, s) ==
    /\ attached[t] = None
    /\ creator[s] = "created"
    /\ state[s] = "Active"
    /\ terminal[s] = None
    /\ stateful_count[s] = 0
    /\ terminal' = [terminal EXCEPT ![s] = t]
    /\ attached' = [attached EXCEPT ![t] = s]
    /\ UNCHANGED <<poolVars, state, sink, opened, closed, stateful_count, send_lock,
                   runtimeVars, creator, closer, target, woken, submit, cmd, canceller,
                   loop, task, farVars>>

\* detach_terminal_if: the client leaves, possibly long after the session gave
\* the reservation to another one.
DetachTerminal(t) ==
    LET s == attached[t] IN
    /\ s # None
    /\ attached' = [attached EXCEPT ![t] = None]
    /\ terminal' = IF terminal[s] = t THEN [terminal EXCEPT ![s] = None] ELSE terminal
    /\ UNCHANGED <<poolVars, state, sink, opened, closed, stateful_count, send_lock,
                   runtimeVars, creator, closer, target, woken, submit, cmd, canceller,
                   loop, task, farVars>>

\* The sweeper purges a terminal handle, and a finished session's record.
PurgeHandle(r) ==
    /\ handles[r] \in ExitCause
    /\ handles' = [handles EXCEPT ![r] = "Purged"]
    /\ UNCHANGED <<idle, inflight, liveness, worker_sessions, recVars, runtimeVars,
                   taskVars, farVars>>

RetireSession(s) ==
    /\ state[s] \in Finished
    /\ state' = [state EXCEPT ![s] = "Swept"]
    /\ UNCHANGED <<poolVars, sink, opened, closed, terminal, stateful_count, send_lock,
                   runtimeVars, taskVars, farVars>>

-----------------------------------------------------------------------------
(* An HTTP client hangs up: its handler's future is dropped at an await,   *)
(* with the locks, receivers and pending work it owned.  A frame it was    *)
(* sending is lost, or sits in the socket's buffer and still gets through. *)

AbandonCreate(s) ==
    /\ "abandon" \in Env
    /\ creator[s] \in {"sending", "waiting", "closing", "dropping"}
    /\ creator' = [creator EXCEPT ![s] = "abandoned"]
    /\ task' = [task EXCEPT ![s] = NoTask]
    /\ woken' = woken \cup task[s].wake
    /\ UNCHANGED remote \/ (creator[s] = "sending" /\ DeliverOpen(s))
    /\ \E sent \in BOOLEAN :
          close_sent' = [close_sent EXCEPT ![s] = @ \/ (creator[s] = "closing" /\ sent)]
    /\ UNCHANGED <<poolVars, recVars, runtimeVars, closer, target, submit, cmd,
                   canceller, attached, loop, up, evict, running, told>>

AbandonSubmit(r) ==
    LET s == cmd[r].session IN
    /\ "abandon" \in Env
    /\ submit[r] \in {"locking", "setup", "sending", "dropping"}
    /\ submit' = [submit EXCEPT ![r] = "failed"]
    /\ send_lock' = [send_lock EXCEPT ![s] = IF @ = r THEN None ELSE @]
    /\ task' = [task EXCEPT ![r] = NoTask]
    /\ woken' = woken \cup task[r].wake
    /\ UNCHANGED running \/ (submit[r] = "sending" /\ DeliverRun(r))
    /\ UNCHANGED <<poolVars, state, sink, opened, closed, terminal, stateful_count,
                   runtimeVars, creator, closer, target, cmd, canceller, attached, loop,
                   up, evict, remote, told, close_sent>>

AbandonClose(k) ==
    LET s == target[k] IN
    /\ "abandon" \in Env
    /\ k \notin Sweep
    /\ closer[k] \in {"locking", "sending", "waiting"}
    /\ closer' = [closer EXCEPT ![k] = "done"]
    /\ send_lock' = [send_lock EXCEPT ![s] = IF @ = k THEN None ELSE @]
    /\ \E sent \in BOOLEAN :
          close_sent' = [close_sent EXCEPT ![s] = @ \/ (closer[k] = "sending" /\ sent)]
    /\ UNCHANGED <<poolVars, state, sink, opened, closed, terminal, stateful_count,
                   runtimeVars, creator, target, woken, submit, cmd, canceller, attached,
                   loop, task, up, evict, remote, running, told>>

-----------------------------------------------------------------------------
\* Nothing is under way: no handler, read loop or reconciliation.
Quiescent ==
    /\ \A c \in Conn : loop[c] # "reading"
    /\ \A k \in Task : task[k].pc = "none"
    /\ \A s \in Session : creator[s] \in {"none", "created", "failed", "abandoned"}
    /\ \A k \in Closer : closer[k] \in {"none", "done"}
    /\ \A r \in Command : submit[r] \in {"none", "done", "failed"}
    /\ UNCHANGED vars

ConnStep(c) ==
    \/ Register(c) \/ Disconnect(c) \/ LoopEnds(c) \/ RouteWaits(c) \/ RouteReturns(c)
    \/ \E s \in Session, error \in BOOLEAN :
          \/ SessionReady(c, s, error)
          \/ \E reusable \in BOOLEAN : SessionClosed(c, s, error, reusable)
    \/ \E r \in Command : SpoolFails(c, r) \/ \E cause \in Reports : Result(c, r, cause)

TaskStep(k) ==
    \/ DropTakesInflight(k) \/ DropForgetsWorker(k) \/ TaskEnds(k)
    \/ \E r \in Command : FinishHandle(k, r)

SessionStep(s) ==
    \/ \E p \in Profile : CreateSession(s, p)
    \/ SendOpen(s) \/ SendOpenFails(s) \/ CreateReturns(s) \/ CreateTimesOut(s)
    \/ CreateGivesUp(s) \/ RetireSession(s) \/ AbandonCreate(s)
    \/ \E t \in Terminal : AttachTerminal(t, s)

CommandStep(r) ==
    \/ \E s \in Session, mode \in Mode : Submit(r, s, mode)
    \/ SubmitLocks(r) \/ SubmitSetupFails(r) \/ SubmitRegisters(r) \/ SendRun(r)
    \/ SendRunFails(r) \/ Cancel(r) \/ CancelSends(r) \/ PurgeHandle(r)
    \/ AbandonSubmit(r)

CloserStep(k) ==
    \/ \E s \in Session : Close(k, s)
    \/ CloseLocks(k) \/ SendClose(k) \/ SendCloseFails(k) \/ CloseReturns(k)
    \/ CloseTimesOut(k) \/ AbandonClose(k)

Next ==
    \/ \E c \in Conn : ConnStep(c)
    \/ \E w \in Worker : Keepalive(w)
    \/ \E k \in Task : TaskStep(k)
    \/ \E s \in Session : SessionStep(s)
    \/ \E r \in Command : CommandStep(r)
    \/ \E k \in Closer : CloserStep(k)
    \/ \E t \in Terminal : DetachTerminal(t)
    \/ Quiescent

Spec == Init /\ [][Next]_vars

(***************************************************************************)
(* What the server's runtime guarantees: a task that can go on does, a     *)
(* send returns or times out, a wait ends in its wake-up or its timeout,   *)
(* and select! takes one of its ready branches at random.  For the send    *)
(* lock weak fairness is enough: a request takes it once.  A send to a     *)
(* terminal's channel has no timeout: it returns once the receiver is      *)
(* dropped.  Nothing is assumed of workers, clients (which may stay        *)
(* attached and never read), the sweeper or the keepalive.                 *)
(***************************************************************************)
Fairness ==
    /\ \A c \in Conn : SF_vars(LoopEnds(c)) /\ SF_vars(RouteReturns(c) /\ ~HeldByTerminal(c))
    /\ \A k \in Task : WF_vars(TaskStep(k))
    /\ \A s \in Session :
          WF_vars(SendOpen(s) \/ SendOpenFails(s) \/ CreateReturns(s) \/ CreateTimesOut(s)
                     \/ CreateGivesUp(s))
    /\ \A r \in Command :
          WF_vars(SubmitLocks(r) \/ SubmitSetupFails(r) \/ SubmitRegisters(r) \/ SendRun(r)
                     \/ SendRunFails(r))
    /\ \A k \in Closer :
          WF_vars(CloseLocks(k) \/ SendClose(k) \/ SendCloseFails(k) \/ CloseReturns(k)
                     \/ CloseTimesOut(k))

FairSpec == Spec /\ Fairness

-----------------------------------------------------------------------------
(* Properties.                                                             *)

TaskState == [pc : TaskPc, worker : Worker \cup {None}, pending : SUBSET Command,
              cause : ExitCause, wake : SUBSET Closer]

\* The shape of the pool's state, of its tasks and of the far ends.
TypeOK ==
    /\ idle \in [Conn -> Nat]
    /\ inflight \subseteq Command
    /\ handles \in [Command -> HandleState]
    /\ liveness \in [Worker -> Conn \cup {None}]
    /\ worker_sessions \in [Worker -> Session \cup {None}]
    /\ state \in [Session -> SessionState]
    /\ sink \in [Session -> Conn \cup {None}]
    /\ opened \in [Session -> {"none", "pending", "ok", "err"}]
    /\ closed \in [Session -> SUBSET Closer]
    /\ terminal \in [Session -> Terminal \cup {None}]
    /\ stateful_count \in [Session -> Nat]
    /\ send_lock \in [Session -> Command \cup Closer \cup {None}]
    /\ cancel_requested \subseteq Command
    /\ spool_failed \subseteq Command
    /\ creator \in [Session -> CreatorPc]
    /\ closer \in [Closer -> CloserPc]
    /\ target \in [Closer -> Session \cup {None}]
    /\ woken \subseteq Closer
    /\ submit \in [Command -> SubmitPc]
    /\ cmd \in [Command -> [session : Session \cup {None}, mode : Mode]]
    /\ canceller \in [Command -> {"none", "sending", "sent"}]
    /\ attached \in [Terminal -> Session \cup {None}]
    /\ loop \in [Conn -> {"new", "reading", "ended"}]
    /\ task \in [Task -> TaskState]
    /\ up \in [Conn -> BOOLEAN]
    /\ evict \in [Conn -> BOOLEAN]
    /\ remote \in [Session -> RemoteState]
    /\ running \subseteq Command
    /\ told \subseteq Command
    /\ close_sent \in [Session -> BOOLEAN]

\* Stateful commands of s that are registered, on the wire or at the worker.
StatefulBusy(s) ==
    {r \in Command : /\ cmd[r].session = s
                     /\ cmd[r].mode = "Stateful"
                     /\ r \in inflight \cup running \/ submit[r] = "sending"}

\* A terminal has the shell of an unfinished session for itself: the client
\* that attached holds the reservation until it detaches, so there is no second
\* one, and no stateful command is inflight, about to be sent or still running
\* at the worker, not even one whose inflight entry a worker drop has already
\* taken (attach_terminal, detach_terminal_if, submit_session_command).
TerminalExclusive ==
    \A t \in Terminal : \A s \in Session :
        attached[t] = s /\ state[s] \in Unfinished =>
            terminal[s] = t /\ StatefulBusy(s) = {}

\* A closer that waits for SessionClosed is never forgotten: its oneshot has
\* fired, or the session's record still holds it, or the task that took it from
\* the record is about to fire it (close_session_inner, session_closed,
\* handle_worker_drop).
ClosersRemembered ==
    \A k \in Closer : closer[k] \in {"sending", "waiting"} =>
        \/ k \in woken
        \/ k \in closed[target[k]] /\ state[target[k]] = "Closing"
        \/ \E j \in Task : k \in task[j].wake

\* No two unfinished sessions are on the same worker ("The HTTP server allocates
\* one worker to each session", README.md:3).
OneSessionPerWorker ==
    \A s, z \in Session : state[s] \in Unfinished /\ state[z] \in Unfinished /\ s # z =>
        SessionWorker(s) # SessionWorker(z)

\* A worker is leased to at most one session: unfinished sessions are on
\* distinct workers, none of which is in the idle queue, and the idle queue
\* never holds a worker twice (create_session, session_closed,
\* register_and_run).
ExclusiveLease ==
    /\ OneSessionPerWorker
    /\ \A s \in Session : state[s] \in Unfinished => IdleEntries(SessionWorker(s)) = {}
    /\ \A c, d \in Conn : idle[c] > 0 /\ idle[d] > 0 /\ WorkerOf[c] = WorkerOf[d] =>
          c = d /\ idle[c] = 1

\* The maps that lead from a lost connection to what it leaves behind agree:
\* an unfinished session is the one its worker's entry names and its connection
\* is the registered one, and every idle entry is of a registered connection.
\* Otherwise no worker drop would ever fail the session.
SessionsReachable ==
    /\ \A s \in Session : state[s] \in Unfinished =>
          /\ worker_sessions[SessionWorker(s)] = s
          /\ liveness[SessionWorker(s)] = sink[s]
    /\ \A c \in Conn : idle[c] > 0 => liveness[WorkerOf[c]] = c

\* A running handle is never lost: it has an inflight entry, for a Result, a
\* SessionClosed or a worker drop to find, or a task that took the entry is
\* about to fill the handle in.
RunningTracked ==
    \A r \in Command : handles[r] = "Running" =>
        \/ r \in inflight
        \/ \E k \in Task : r \in task[k].pending

\* What a step may put on the wire, and what it may do to an outcome.
RunsOnlyBeforeClose == \A r \in running' \ running : ~close_sent[cmd[r].session]

KeepsOutcomes ==
    /\ \A r \in Command :
          /\ handles[r] \in ExitCause => handles'[r] \in {handles[r], "Purged"}
          /\ handles[r] = "Purged" => handles'[r] = "Purged"
    /\ \A s \in Session :
          /\ state[s] \in Finished => state'[s] \in Finished \cup {"Swept"}
          /\ state[s] = "Swept" => state'[s] = "Swept"

\* The send lock orders SessionRun before SessionClose: no command reaches the
\* worker after the SessionClose of its session (the comment on send_lock).
RunBeforeClose == [][RunsOnlyBeforeClose]_vars

\* Outcomes are final: a terminal handle keeps its cause until it is purged, a
\* purged one never comes back, and a finished session never runs again, however
\* late a Result, a SessionReady or a second worker drop comes.
OutcomesFinal == [][KeepsOutcomes]_vars

\* A cancel that was sent is known to the worker that runs the command: the
\* request is remembered and never repeated, so it must not be lost.
CancelReaches ==
    \A r \in inflight \cap running :
        canceller[r] = "sent" /\ up[sink[cmd[r].session]] => r \in told

\* Releasing a session never hangs, unless a client that stays attached to its
\* terminal and does not read holds the worker's read loop for good: where no closer
\* hangs up, it leaves Closing even if the worker never answers, because a closer that
\* gives up evicts the worker and the read loop's drop fails the session
\* (close_session_inner, evict_worker, route_output).
ReleaseCompletes ==
    \A s \in Session :
        []<>~HeldByTerminal(sink[s]) => (state[s] = "Closing" ~> state[s] \notin Unfinished)

\* Every create, submit and close call returns, whatever the worker does.
RequestsReturn ==
    /\ \A s \in Session : creator[s] = "sending" ~> creator[s] \in {"created", "failed"}
    /\ \A r \in Command : submit[r] = "locking" ~> submit[r] \in {"done", "failed"}
    /\ \A k \in Closer : closer[k] = "locking" ~> closer[k] = "done"

\* What a client sees of the pool: the sessions' states, the handles and who is
\* attached to which shell.
AcceptedAs == [r \in Command |-> IF handles[r] = "Absent" THEN None ELSE cmd[r]]
Service == INSTANCE SessionService WITH
    Outcomes <- ExitCause, phase <- state, outcome <- handles, request <- AcceptedAs,
    shell <- attached

\* The pool implements the session API's promise: whatever read loops, handlers, drops,
\* sweeper and clients that hang up do to each other, a client sees only steps of
\* SessionService.  In particular, no command is accepted by a session that is not
\* active at that moment, none beside an attached terminal if it is stateful, no
\* second terminal is attached, and no outcome is ever replaced.
ImplementsService == Service!Spec
=============================================================================
