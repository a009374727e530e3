# A verification project for shiitake

Shiitake runs shell sessions in a pool of resident worker containers. An HTTP
server leases one worker to each session, relays commands and a terminal to it
over a WebSocket, and takes the worker back when the session closes and its
sandbox has been reset. This directory holds TLA+ models of that machinery, the
TLC configurations that check them and TLAPS proofs about them.

`PROJECT.json` lists the runs, the source lines behind every definition, the
hazards and which property covers each, and the theorems.

## The system

| Component | State it keeps | Operations | What makes it hard |
|---|---|---|---|
| Session pool, `shiitake-server/src/pool/mod.rs` | idle queue, inflight map, handles, liveness and worker-to-session maps, session records with their locks and oneshots | register, create, submit, cancel, attach, release, evict, worker drop, keepalive, sweeper | one mutex, but every operation awaits between critical sections; sockets fail between any two steps; handlers' futures may be dropped |
| Legacy exec and PTY APIs, the same file and `http/exec.rs`, `http/pty.rs` | the same idle queue, handles, the PTYs' channels | dispatch, poll, kill, pin, release | share the pool with the sessions; name workers by id |
| Terminal streaming, `http/sessions.rs`, `route_output`, the terminal's part of `run_session` | a reservation, a bounded backlog, two sockets, a PTY | attach, relay, ping, detach | back-pressure reaches from the client to the shell and passes the read loop that handles everything else |
| Worker lifecycle, `run` and `serve_session` in `shiitake-worker/src/client.rs` | served counter, the round's outcome | connect, handshake, work, reset, report, reconnect, exit | the connection may die, loudly or silently, in every phase; a dirty sandbox must never be offered again |
| Sandbox, `reset.rs` and `account.rs` in `shiitake-worker/src` | processes, IPC objects, scratch files, `/etc/passwd`, homes, the ledger of accounts | ensure, sweep, clear, clean up | what the work left behind runs on while the reset removes it; each step may fail |
| Session on a worker, `run_session` and its tasks in `client.rs` | queue, running map, the shell's marker, current directory and variables, event channel | start, cancel, interrupt, abort, tail, report, close | several tasks per command, one bounded channel, one shell, a file tailed while it is written |
| Keepalive and lease | last pong, last frame | ping, evict; let go after silence | both sides must give up a dead connection, and not a live one |
| Sweeper | last activity and last poll times | purge, release idle sessions | acts on snapshots taken earlier |
| Wire protocol, captures, OOM probe, metrics, clients | little or none | codecs and I/O | |

The HTTP handlers call the pool. The pool and a worker exchange frames over one
socket: `Hello`/`HelloAck`, `SessionOpen`/`SessionReady`, `SessionRun`/`Result`,
`Execute`/`Result`, `PtyOpen`/`PtyExit`, `Cancel`, `SessionClose`/`SessionClosed`,
pings, and binary output chunks. One read loop per connection handles what the
worker sends. A failed send makes the *handler* of a session run
`handle_worker_drop`, beside the read loop which will run it too.

What has to hold: a worker has one user at a time and only with a clean sandbox; a
session and its commands always come to an end that never changes afterwards;
requests return and releases complete whatever the worker does; commands start in
order, are answered once, and a cancel is effective; a terminal's bytes arrive in
order and without gaps, and a client that stops reading holds nobody up for ever.

## The modules

| Module | Models | Extended by |
|---|---|---|
| `SessionService` | abstract: what the session API promises | instantiated by `Pool` |
| `Pool` | the session pool | `MCPool`, `PoolTypeProofs`, `PoolProofs`, `ServiceProofs`, `PoolEnvProofs` |
| `Exec` | dispatch, PTYs and the sweeper on the shared idle queue | `MCExec`, `ExecProofs` |
| `Terminal` | the terminal's stream from shell to client and back | `MCTerminal`, `TerminalProofs` |
| `Sandbox` | what work leaves in a container, the reset and the accounts | `WorkerLifecycle` |
| `WorkerLifecycle` | one worker process, composed with its `Sandbox` | `MCWorker`, `WorkerProofs` |
| `WorkerSession` | one session on a worker | `MCSession`, `SessionProofs` |

### SessionService and its refinement

`SessionService` knows sessions with a phase, commands with an outcome and the
request they were accepted with, and who is attached to which shell; no worker,
connection, lock, frame or timeout. A session moves forward through its phases and
ends once; `End` allows the *kind* of end to be reported anew (a `SessionClosed` may
follow a drop). A command is accepted only by an active session, a stateful one only
while nobody is attached; it finishes once and is purged only then. `Pool` defines
the mapping in `Service`: `phase` is `state`, `outcome` is `handles`, `request` is
the command's record from its registration on (`AcceptedAs`), `shell` is `attached`.
`ImplementsService` is `Service!Spec`; TLC checks it in `pool_session` and
`PoolImplementsService` proves it.

### Pool

An action is one critical section of the pool's mutex or one await between two
of them. A request is a small program with its own counter: `creator[s]`,
`submit[r]`, `closer[k]`, `canceller[r]`; the read loop of a connection is
`loop[c]`. `create_session` is `CreateSession`, then `SendOpen` or
`SendOpenFails`, then `CreateReturns`, `CreateTimesOut` or `CreateGivesUp`;
`submit_session_command` is `Submit`, `SubmitLocks`, `SubmitSetupFails` or
`SubmitRegisters`, `SendRun` or `SendRunFails`; `close_session_inner` is `Close`,
`CloseLocks`, `SendClose` or `SendCloseFails`, `CloseReturns` or `CloseTimesOut`.
`handle_worker_drop` runs inside a read loop or inside a handler whose send
failed: `task[k]` is that run, with its two critical sections
(`DropTakesInflight`, `DropForgetsWorker`), one `FinishHandle` per pending
handle, and `TaskEnds`, which wakes the closers. The frames a worker sends are
`SessionReady`, `SessionClosed`, `Result` and `SpoolFails` (an output chunk that
cannot be written). `RouteWaits` and `RouteReturns` are the read loop inside
`route_output`, which waits for room in the terminal's channel and meanwhile takes
neither a frame nor the eviction permit. The far end is reduced to what it may send: `remote[s]`,
`running`, `told`.

Abstractions: time (a timeout may fire whenever its wait is pending, a TTL may
have elapsed whenever the sweeper looks), the order of the idle queue (a bag per
profile), output bytes, and the command's text, directory and variables.

`Env` names three behaviours of the surroundings that a run may switch on:
`overlap` (a worker registers again while a task of the server still handles its
previous connection), `abandon` (an HTTP client hangs up and its handler's future
is dropped at an await) and `early_cancel` (a client that listed a command
cancels it before its submission has returned).

### Exec

The idle queue is a bag of connections (`Pushed`, `Popped`), so that any entry may be
the next one: what is shown does not depend on the queue's order. `dispatch` pops an
entry, makes the capture files, registers the handle and sends the `Execute`; the PTY handler pins
one, opens, splices, hangs up, waits for the exit and releases; a session appears as
a holder that takes an entry and brings it back with its `SessionClosed`. The
sweeper is `SweepSnapshot`, `SweepLooks`, `SweepActs`, with time between them, so
that it acts on a status that may be stale. The frames in both directions are
queues, and `far[w]` is the worker: idle, running or resetting, with the frame it
works for; it ignores what `next_execute`, `run_command`, `run_pty` and the reset
ignore. A report carries the frame of its work. `Env`: `overlap` and `abandon` as in
`Pool`, `hasty` (the worker may need more than the 5 s that the PTY handler waits
after its `PtyClose`) and `disk` (the capture files of a dispatch cannot be created, and
it puts its entry back).

### Terminal

Every hop is there with a capacity: the PTY's input (`PtyCap`), the two directions
of the worker's socket (`WireCap`), the channel to the handler (`Backlog`, 64 in
the code), and the client's socket, which accepts or not. The handler is in its
`select!` or in one of its sends; the send to the client is bounded by
`max_silence`, the send to the worker is not. `route_output` looks the channel up
once and then waits in it, inside the read loop. `run_session` sends output inline,
as the code does. Output and input are numbered units; the shell's marker,
parallel commands and the reset are left to the other modules. A client is `here`,
`stalled` or `gone`.

### WorkerLifecycle and Sandbox

`pc` is the phase of `serve_session`, or sleeping and exited in `run`. The server
is its effect on the connection: `Offer`, `Dispatch`, `LinkFails` (with a FIN, or
silently), `SilenceEnds`, and `ReleaseEarly`, the pty handler's release of a worker
that has not reported within 5 s of the `PtyClose`. What is then sent too early,
`run_pty` and the reset's loop ignore (`IgnoreWork`). What kind of work is on its way is
chosen when the worker takes it. `held` says that the loop of the
work is inside a wait that nothing bounds (`LoopHeld`, `LoopGoesOn`): a write to the
program's terminal, a send to the server, the end of a process that was killed. Two
history variables: `early`, the server released the worker on this connection before
its report, and `report_failed`, a report of this process ended in a send error.

`Sandbox` has the processes that outlive their command: they fork, write, create IPC
objects, die and are waited for at any time, during the reset too. `reset` is
`SweepList` (reap, list) and `SweepKill` in turn until nothing is left or the deadline
has passed (`SweepGivesUp`), then `RemoveIpc`, one `ClearPath` per directory, and the
accounts (`CleanAccounts`). A SysV table that cannot be read counts as empty
(`TableUnreadable`), for the removal and for the verification. A listing of `/proc` may miss a process that is forked
meanwhile, but is empty only when there is none. Signals take effect later, or never
(`dying`). `ensure` appends a line, provisions a home and notes both in the ledger,
each of which may fail (`io_errors`). A worker that is not pid 1 skips the sweep
(`Pid1s`). `/etc/passwd` is a set of lines, each with its newline.

### WorkerSession

The loop of `run_session` alternates between starting what may start
(`scheduling`) and its `select!` (`selecting`). A command has a task
(`run_session_job` or `watch_stateful_job`), one tail standing for its two
(`tail_capture`), and a process or a script in the shell. The tasks post
`Output`, `Done`, `Cancelled`, `Interrupt` and `Abort` to the bounded channel
`events`. A stateful script leaves `files` behind, which the command may have
spoilt, and prints its marker to the PTY; a Ctrl-C may flush the marker. The
shell's directory and variables are the last stateful command whose snapshot
was taken (`current`), and `inherits` records what each command started with. A turn
of the loop ends in `scheduling`, where it may stay for as long as what it sent or wrote
is not taken. What a background process
writes after its command is done reaches the channel as `TailNoise` and keeps the
tail from its end.

## The runs

| Run | Instance | Shows |
|---|---|---|
| `pool_session` | 1 connection, 1 session, 1 command, an HTTP closer and a sweeper, 2 terminals, `abandon` | `TypeOK`, `TerminalExclusive`, `ClosersRemembered`, `CancelReaches`, `RunBeforeClose`, `OutcomesFinal`, `ImplementsService` |
| `pool_lease` | 1 worker over 2 connections, 2 sessions, 1 closer | `ExclusiveLease`, `SessionsReachable` |
| `pool_live` | 1 connection, 1 session, 1 command, 1 closer, 1 terminal, fairness | `RunningTracked`, `ReleaseCompletes`, `RequestsReturn` |
| `exec` | 1 connection, 1 command, 2 PTY clients, sessions, `abandon`, `disk`, fairness | `TypeOK`, `HeldOnce`, `NoLeak`, `NoLostWork`, `OwnShell`, `PurgesFinished`, `PtyReleased`, `HandleEnds` |
| `terminal` | 2 clients in turn, 2 units each way, every buffer of size 1 | `TypeOK`, `OutputInOrder`, `InputInOrder`, `ReservationOwned` |
| `terminal_live` | 1 client, 2 units of output, fairness | `AttachmentEnds`, `EvictionTaken` |
| `worker_life` | a quota of 2, a lease, at most 3 pieces of work, 2 processes, 1 IPC object, 1 path, 1 account and none of the image's, fairness | `TypeOK`, `CleanReuse`, `AccountsUndone`, `QuotaRespected`, `NothingSwallowed`, `LetsGo` |
| `session_jobs` | 3 commands of any mode, limit 2, channel of 2, 1 chunk of output | `TypeOK`, `StartsInOrder`, `AnsweredOnce`, `InterruptsOwn`, `OutputBeforeResult` |
| `session_live` | 2 commands, limit 2, channel of 2, background output only, fairness | `CancelEnds`, `QueueMoves` |

Three runs show where the code and what is said of it part; each is expected to end
in a violation, and PROJECT.json quotes the line it contradicts.

| Run | What happens |
|---|---|
| `pool_overlap` | A handler's worker drop lets the worker register again while the old read loop lives. A late `SessionClosed` makes a second idle entry; two sessions share the worker (`OneSessionPerWorker`). |
| `session_tail` | The tail meets the end of the file, the command writes and finishes, the tail sees it is done and stops (`OutputComplete`). |
| `terminal_stuck` | The terminal's handler waits to send input into a full socket, the worker at its other end waits to send output, and the read loop that would take it waits for room in the handler's channel. The client's silence is never looked at. An eviction does not help: the read loop is waiting itself or, if it has gone, the handler's own clone of the sink keeps the socket open (`SilentClientDetached`). |

### Why the bounds are enough

The pool's operations meet through one session record, one worker id and one
connection, so the races need few participants: two connections of one worker
for a stale drop, two sessions for a double lease, two closers for a forgotten
one (an HTTP closer and the sweeper), two terminals for a late detach. One
command suffices for the hazards between submit, cancel, release and drop; the
counts of several stateful commands are covered by the proof. `pool_lease` leaves
commands out because a lease does not depend on them, and assumes no overlap of a
registration with tasks of an older connection: `pool_overlap` shows what happens
otherwise.

In `exec` two PTY clients let one meet what the other left on the connection, beside
a command and any number of sessions. One connection keeps the liveness check
within minutes; over several connections the safety properties are proved, with the
conditions the proofs name.

In `terminal` two units pass and fill every buffer of one frame, so that each hop can
be full behind each other one, and the second client can attach while the first
one's units are still under way. `terminal_live` needs no input of its own: a resize
is a frame for the worker like any other. `KeepTimeout` is the number of unanswered
pings, one here.

In `worker_life` the first of two pieces of work leaves a container that has to be
reset for the second one, and the second one reaches the quota; a third is taken only
by a process whose report failed. Beyond that `served` is only compared with the
quota. Two processes let one fork while the other is killed. The image has no account
of its own in the run, so that its lines are the theorem's (`AccountsAreUndone`, for
any image). The
behaviours without a lease differ in nothing but `ConnectionOver`, which they enable
less often, so the safety properties are covered; `LetsGo` needs the lease.

In `session_jobs` three commands fill the limit of two and exceed it, and allow a
command in front of and one behind the stateful one; a channel of two can hold an
event and its successor, and be full. In `session_live` a command has no output of
its own, which would only add chunks that are read; the background output after its
end is what may hold its tail, and the channel, for ever.

In `pool_live` one terminal can hold the read loop at any time after the session is
ready, also while it closes. Handlers whose clients hang up are not in this run
(`Env` is empty): `ReleaseCompletes` is about closers that wait, and one whose client
leaves evicts nobody.

### Fairness

`Pool!FairSpec`: every handler, read loop and reconciliation goes on when it can,
and every bounded wait ends, since each has a `tokio::time::timeout` (10 s or
15 s). For `send_lock` weak fairness is enough, because every request takes it once. The
end of the read loop is strongly fair, since the loop is in its `select!` time and again.
It leaves
`route_output` once the terminal's handler is gone, but need not while a client is
attached (`HeldByTerminal`); `ReleaseCompletes` supposes that this does not last for
ever. Nothing is assumed of workers and clients.

`Exec!FairSpec`: the server's tasks go on, the worker reads its socket, kills what it
must and resets. A broken connection may stay unnoticed until the keepalive evicts
it; nothing is assumed of clients and of the length of commands. `run_keepalive`
does not ping a pinned worker, so that only the handler's own timeout ends a PTY
whose worker went silently. The handler need not leave its splice loop, whose sends
have no timeout, nor get its `PtyClose` out while the worker still runs the shell
(`StuckOnWorker`): `PtyReleased` starts when the handler has left the loop and excepts
a `PtyClose` that is stuck for good. A worker that has the `PtyClose` in its socket and
does not get to it within the 5 s is one of `hasty`, which the run leaves out.

`Terminal!FairSpec`: tasks go on; each branch of a `select!` that is ready time and
again is taken, since tokio polls them in random order, and a channel's waiters are
FIFO, hence the strong fairness. Nothing is assumed of the client, the shell or the
network.

`WorkerLifecycle!FairSpec`: the process reads its socket, its timers fire (the
deadline of the sweep among them), its reset and its sends end, those on a dead
connection because TCP gives up. Work need not end, the processes it leaves need not
die, and a loop that is held need not go on. A loop that does go on, however often it
is held again, comes to the end of its connection or of its lease, because what is
left to read and to write is finite by then: hence the strong fairness of `WorkLost`,
which is enabled only while the loop is not held. `LetsGo` excepts a loop that is held
for good.

`WorkerSession!FairSpec`: tasks go on, a `select!` branch that is ready time and
again is taken, and there is always another turn because the server pings a worker
that has a session. Commands need not end, the processes they are told to kill need
not die, what they leave behind may write for ever, and a write of the loop may wait
for ever, so that its `Schedule` has no fairness (`WritesEnd`). tokio's channel gives its room to its senders in the order they asked for
it, hence the strong fairness of tasks and tails. Each of the premises of `CancelEnds`
and `QueueMoves` names one such wait, and each is necessary: TLC refutes the property
without it.

Deadlock is checked in the runs of `Pool`, `WorkerLifecycle` and `WorkerSession`;
`Quiescent` and `Ended` are the states in which they may rest. The ids of `Exec` and
the one session of `Terminal` are used up in the end, so their runs do not check it.

## The proofs

The theorems about `Pool` hold for any number of workers, connections, sessions,
closers and terminals and any finite set of commands.

| Theorem | Says | For |
|---|---|---|
| `TypeCorrect` | `Spec => []TypeOK` | every `Env` |
| `TerminalIsExclusive` | `Spec => []TerminalExclusive` | every `Env` |
| `NoCloserForgotten` | `Spec => []ClosersRemembered` | every `Env` |
| `RunsPrecedeClose` | `Spec => RunBeforeClose` | every `Env` |
| `OutcomesAreFinal` | `Spec => OutcomesFinal` | every `Env` |
| `PoolImplementsService` | `Spec => Service!Spec` | every `Env` |
| `LeasesAreExclusive` | `Spec => []ExclusiveLease` | `Env` without `overlap` |
| `SessionsAreReachable` | `Spec => []SessionsReachable` | `Env` without `overlap` |
| `RunningIsTracked` | `Spec => []RunningTracked` | `Env` without `abandon` |
| `CancelsReach` | `Spec => []CancelReaches` | `Env` without `early_cancel` |

The three conditions are necessary: each of the properties fails with the behaviour
it excludes (see the known limits).

`TypeOK` is not inductive: a request or a reconciliation may only name records
that exist (`LinkInv`, `TaskInv`); `BaseInv` is their conjunction. The safety
invariant `SafeInv` adds four parts. `SubmitInv`: nothing is registered before a
submission reaches its send, nothing runs before it is sent. `SendLockInv`: who
holds a send lock, and that a sent `SessionClose` means the session is past
`Active`, or its creation failed, so that no submission can be holding the lock.
`CountInv`: `stateful_count` is an upper bound of the stateful commands that may
still touch the shell; a worker drop takes inflight entries without counting
down, so equality would be false. `TerminalInv`: a reservation exists only in
`Active` and `Closing` and excludes stateful commands; it is `CountInv` that lets
`attach_terminal` rely on the counter. `ClosersRemembered` is inductive beside
them. The two action properties follow from a step lemma each.

`ServiceProofs` maps every action to a step of the service or to a stuttering step,
by what it changes of the four mapped variables; it needs `SafeInv`, for the guard on
stateful commands, and `SinkInv`: a session that has a connection was created.

`PoolEnvProofs` has the theorems with a condition on `Env`. Leases: `RegisteredInv` says that the liveness entry of a worker is one of its
own connections, that no loop reads on another one, and that every idle entry is of the
registered connection, once; `HolderInv` that a worker with a session is registered and
not idle, that an unfinished session is its worker's, and so is every session that the
registered connection carries until the worker has closed it. The last part is what a
late `SessionClosed` needs. Without `overlap`, a registration finds nothing of the
worker's older connections left, which is where both would break otherwise.

Handles and cancels: `PendingInv` says that a task has no pending handles before its first
critical section, so that taking over what is in flight loses none of an earlier list;
`TrackInv` adds `RunningTracked` itself. An abandoned handler would drop its list.
`CancelInv` says that a cancel is only sent once its submission is done, that is after
the `SessionRun`, and that commands in flight are on a connection that was registered,
which never comes back once it is down.

`WorkerProofs` proves, for every set of quotas and leases, every bound and every set of
processes, objects, paths and accounts:

| Theorem | Says |
|---|---|
| `WorkerTypes` | `Spec => []TypeOK` |
| `NoWorkSwallowed` | `Spec => []NothingSwallowed` |
| `ReuseIsClean` | `Spec => []CleanReuse` |
| `AccountsAreUndone` | `Spec => []AccountsUndone` |
| `QuotaIsRespected` | `Spec => []QuotaRespected` |

`TypeInv` adds to the types that work which runs leaves room for its count
(`BoundInv`) and, for a connection without an early release, that the server dispatches
only to a worker that has reported, once per report (`OfferInv`).
`BoxInv` follows the reset: past the sweep no process is left unless an error was
noted, past the IPC step no object, and of the paths only those still to do
(`ResetInv`); outside of a round the container is clean, or a report failed
(`DirtInv`); clean but for the IPC objects of a table that could not be read. That no process is left matters at every later step, because it is the
processes that could undo them. `AccountsInv` ties the lines, the homes and the ledger
together: the file has the image's lines and the ledger's, and the homes are those of
the ledger, unless an error was met; and the ledger is empty outside of a round.
`QuotaInv` says that a quota is reached only by a process that is exiting.

`SessionProofs` proves, for any number of commands, any limit, any capacity of the
channel and any amount of output:

| Theorem | Says |
|---|---|
| `SessionTyped` | `Spec => []TypeOK` |
| `SessionOrder` | `Spec => []StartsInOrder` |
| `SessionAnswers` | `Spec => []AnsweredOnce` |
| `SessionInterrupts` | `Spec => []InterruptsOwn` |
| `SessionOutput` | `Spec => []OutputBeforeResult` |

One inductive invariant, `SInv`, carries all five. `QueueInv`: the queue is in order of
arrival and everything that has started arrived before it. `ShellInv`: while the loop
runs, the stateful command among the running ones is the one that has the shell, nothing
that started is behind it, and the directory and variables are at least as new as each
stateful command that ran; this gives `StartsInOrder`, together with `InheritInv`, which
keeps what a command was started with. `TaskInv` ties a command's task to its tail and to
the running map: the task waits for the tail unless it has aborted it. `EventInv` says
what an event in the channel tells of its command: a last event (`Done`, `Cancelled`, `Abort`)
means that task and tail have ended and the loop has not yet forgotten the command, and
an interrupt that the command still has the shell; `FinalInv`, that nothing of a command
follows its last event. From these two comes `OutputBeforeResult`, since a `Result` is
sent only for a last event or for a command that never started. `ResultInv` is
`AnsweredOnce` for a loop that runs, `ToldInv` traces every cancel back to one that
arrived, and `NoticeInv` bounds the unread output by what the command has written.

`ExecProofs` proves, for any number of workers, connections, commands and PTY clients,
with and without sessions:

| Theorem | Says | For |
|---|---|---|
| `ExecTyped` | `Spec => []TypeOK` | every `Env` |
| `ExecHeldOnce` | `Spec => []HeldOnce` | every `Env` |
| `ExecNoLeak` | `Spec => []NoLeak` | every `Env` |
| `ExecPurges` | `Spec => PurgesFinished` | every `Env` |
| `ExecNoLostWork` | `Spec => []NoLostWork` | `Orderly` |
| `ExecOwnShell` | `Spec => []OwnShell` | `Orderly` |

`Orderly` excludes `overlap` and `hasty`, and `disk` for workers that connect more than
once; each of the three exclusions is necessary (see the known limits), and nothing else
is asked of the environment.

`BaseInv` is `TypeOK` with what the handlers' counters say of the handles
(`DispatchInv`, `PinInv`), that a handle which the sweeper's snapshot shows finished is
still finished or purged (`SweepInv`, the reason why a stale snapshot does no harm), and
that a busy worker has work (`JobInv`). `HolderInv` says per connection that it is in the
queue once or has one holder (`OneHolder`), that one which was never registered is
nowhere (`NewInv`), and that a connection is in `liveness` from its registration to the
second section of its drop (`LiveInv`), so that a second registration of the worker
cannot find it there. `LeakInv` is `NoLeak` per connection. These hold even for
registrations that overlap, because an entry keeps its own connection.

`OrderInv` follows the work. `UpInv`: a worker's socket is held by one connection, which
the server reads. `CurrentInv`: of the connections of a registered worker only the
registered one is in use; this is where a stale entry would break the proof. `FrameInv`:
a command, or its `Result`, is found only on the connection its dispatch took. `SendingInv` covers a dispatch between its
registration and its send, `PtyInv` the channel of a pinned worker, which no other
handler's release may close. `WorkInv` is the heart of it: on a live connection the work
that its holder has sent and not seen the end of, and no other work, is on its way to the
worker, in its hands or reported back, in one of these places only. Whoever puts an entry
back has seen the report, which the worker sends after its reset, so that the next holder
finds the worker quiet (`Quiet`).

`TerminalProofs` proves, for any number of clients, any capacity of each buffer, any
limit of the keepalive and any amount of output and input:

| Theorem | Says |
|---|---|
| `TerminalTyped` | `Spec => []TypeOK` |
| `TerminalReserved` | `Spec => []ReservationOwned` |
| `TerminalOutput` | `Spec => []OutputInOrder` |
| `TerminalInput` | `Spec => []InputInOrder` |
| `TerminalInvariant` | `Spec => []TInv`, from which the four follow |

`TInv` has six parts. `ShapeInv` adds to the types what a task at a given point holds: a
handler that sends to the worker has input or a resize, `run_session` before a send has
output, an answer or its last frame, the read loop routes output only. `OwnerInv` adds to
`ReservationOwned` that a reservation ends with its session and that at most one
attachment exists, also after the reservation was taken away; without it two handlers
could mix their input. `NewInv`: a client that has not come yet has left nothing in its
channel, so that it starts on an empty line. `LinkInv`: a broken socket carries nothing
more to the worker.

`OutputInv` sees the stream as one line of hops: delivered, with the handler, in its
channel, with the read loop (together `Mine`), on the socket, with `run_session`
(together `Coming`). The units on one hop are all lower than those behind it (`Below`),
the units of a client have no gap (`Convex`), and neither have those beyond the read loop;
for the client that has the reservation there is none between the two and the line
reaches up to the newest unit (`JoinedTo`). For a client that lost its reservation only
the part up to the read loop keeps going, which is why `Mine` and `Coming` are described
apart. Each step moves a unit from one hop to the next, cuts the line off at one end (a
frame that is dropped because nobody is attached, a worker that is gone with what it
held), or adds the next unit; that what was delivered stays a run of consecutive units
follows because the unit delivered next is the least one that was not. `OutputInOrder`
is read off by putting the six runs of frames together (`UnitsConcat`) and taking the
least unit (`LeastUnit`).

`InputInv` is the same for the other direction, and simpler because the shell reads
everything from the first unit on: what it read and what the PTY holds are the units up
to `Taken`, `run_session` writes `Taken + 1`, and while the socket holds and the session
runs the others are, in order, with `run_session`, on the socket or with the one client.

The assumptions are those of the modules: `PoolAssumption` (the kinds of ids are
disjoint, every connection belongs to a worker, the set of commands is finite),
`SandboxAssumption`, `WorkerAssumption`, `SessionAssumption`, `ExecAssumption` and
`TerminalAssumption` (capacities are positive). TLC
evaluates them in every run. The inductive invariants were themselves checked with TLC on
small instances before they were proved, those of `Exec` over two connections of a
worker.

Only model-checked: the liveness properties, with the `ENABLED` that fairness brings in,
which are out of the prover's reach. Every other property of a passing run is a theorem.

## Known limits of the code

Behaviours that the models show and that the passing runs exclude by `Env`, by a
history variable or by a case of the property:

- A command registered between the two critical sections of `handle_worker_drop` stays
  in flight when its `SessionRun` still goes out into the dying connection, and its
  handle stays `Running` (`pool/mod.rs:838`; the comment at `:984` expects a drop to
  fill it in).
- A client that lists a command and cancels it before its submission has returned can
  have its `Cancel` sent before the `SessionRun`; the worker ignores it and the pool
  never repeats it (`pool/mod.rs:1164`). This is `early_cancel`; `CancelReaches` fails.
- A client that hangs up during create leaves the session in `Opening`, which the
  sweeper does not look at (`pool/mod.rs:627`). A client that hangs up while its handler
  runs a worker drop leaves handles `Running` (`:902`), and one that hangs up while its
  dispatch has a worker in hand leaks the worker (`:1005`), the case `NoLeak` names.
- A report that ends in a send error makes the worker reconnect, although its reset may
  have failed or been skipped (`client.rs:446`); `report_failed` marks such a process.
- A worker that needs more than 5 s to hang up and to reset is released by the PTY
  handler meanwhile, and ignores its next user's frames (`http/pty.rs:174`), although
  the worker's side expects that "the server frees the pinned worker only once it is
  clean" (`client.rs:452`). This is `hasty` in `Exec`, where `OwnShell` fails, and
  `early` in `WorkerLifecycle`, the one case in which `NothingSwallowed` lets work be
  thrown away.
- The loop of a piece of work may be held where nothing bounds the wait and neither the
  socket nor the lease is looked at: `run_pty` and `run_session` write the terminal's
  input inline (`client.rs:736`, `:1087`) to a program that need not read it, and send
  output inline (`:720`, `:990`); `run_command`, after a lost connection, waits for a
  process that SIGKILL may not end (`:564`). `LetsGo`, `CancelEnds` and `QueueMoves`
  except a wait that never ends.
- Once a command is done nothing looks at its cancel any more, and its tails wait for
  the end of its output (`client.rs:1176`, `:1313`). A background process that inherited
  the redirect and goes on writing keeps them from it, so that the command is never
  reported and a cancel never answered. `CancelEnds` names this case.
- The PTY handler's sends in its splice loop and of its `PtyClose` have no timeout
  (`http/pty.rs:116`, `:122`, `:143`, `:173`), and `run_keepalive` does not ping a pinned
  worker: with a worker held as above the handler never sees that its client left.
  `PtyReleased` is about a handler that gets past these sends.
- `route_output` waits for the terminal's handler inside the read loop
  (`pool/mod.rs:1394`). As long as a client that is stuck stays attached (the run
  `terminal_stuck`) the loop takes neither the `SessionClosed` nor an eviction, and a
  release of the session does not complete. `ReleaseCompletes` names this case.
- A `/proc/sysvipc` table that cannot be read counts as empty, both for the removal and
  for the verification after it (`reset.rs:292`): the reset succeeds and the worker is
  used again with the objects of that table. `CleanReuse` excepts them.
- An image whose `/etc/passwd` does not end in a newline gets the first line that
  `ensure` appends joined to its last one (`account.rs:79`), which `cleanup` then does not
  recognise. The model's file is a set of lines.
- A dispatch that cannot create its capture files puts its entry back without a look at
  whether the connection still lives (`pool/mod.rs:1020`). If the worker was dropped and
  has registered again meanwhile, the stale entry is a second one under its id: a PTY
  pinned on it takes over, and then closes, the output channel of a PTY on the live
  connection, whose worker is released while it still serves. This is `disk` with two
  connections; `NoLostWork` and `OwnShell` fail.
- With `overlap`, a release or a drop meant for an old connection reaches the new one:
  the run `pool_overlap` for sessions, and `NoLostWork` fails in `Exec`.
- `cleanup` is best effort: a home or a passwd line whose removal failed stays, and a
  rewrite of `/etc/passwd` that fails after the truncation loses lines of the image
  (`account.rs:148`). `AccountsUndone` names the failed step.

## Not modelled

- Clocks and the values of timeouts and TTLs: a timer may fire whenever it is armed.
- The chunk codec and the frames' JSON, public ids, capture files and HTTP ranges,
  the syntax of passwd lines, cgroup readings: sequential code without shared state.
  `ShellCompletion::feed` is one action of `WorkerSession`, not its byte automaton.
- The symlink-safe directory walk behind `clear_dir_contents`: one step per path.
- Metrics, telemetry, health, authentication, configuration and the client libraries.
- Several profiles at once, in the runs: a profile only selects a part of the queue.

PROJECT.json gives the reason for each component.

## Plan

1. `Pool`, `WorkerLifecycle`, `WorkerSession`, their runs, the type and main safety
   theorems of the first two. (Done.)
2. `SessionService` and the refinement; the sandbox with its reset and accounts,
   composed with the worker; the terminal's stream; dispatch and PTYs on the shared
   queue; the lease, handle and worker theorems. (Done.)
3. Proofs about `WorkerSession` and `Exec`: every invariant their runs check, and
   `PurgesFinished`. (Done.)
4. Proofs about `Terminal`: every invariant its runs check. (Done.)
