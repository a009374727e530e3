--------------------------- MODULE WorkerLifecycle --------------------------
(***************************************************************************)
(* The life of one resident worker process                                 *)
(* (shiitake-worker/src/client.rs, run and serve_session): it connects,    *)
(* says Hello, serves one piece of work after another on the connection,   *)
(* resets its sandbox between them, and exits for a fresh container when   *)
(* the sandbox cannot be trusted any more.                                 *)
(*                                                                         *)
(* The server appears by what it does to the connection: it acknowledges,  *)
(* dispatches work to a worker it holds idle, goes silent or goes away.    *)
(* What the work leaves in the container, and the reset that removes it,   *)
(* are the steps of Sandbox, which this module composes with the process.  *)
(***************************************************************************)
EXTENDS Integers, Sandbox

CONSTANTS
    RestartAfters,  \* values of SHIITAKE_RESTART_AFTER, 0 for never
    Leases,         \* subset of BOOLEAN: is SHIITAKE_LEASE_TIMEOUT set
    MaxServed       \* bound of the served counter where nothing else bounds it

ASSUME WorkerAssumption ==
    /\ RestartAfters \subseteq Nat
    /\ Leases \subseteq BOOLEAN
    /\ MaxServed \in Nat \ {0}
    /\ \A n \in RestartAfters : n <= MaxServed

VARIABLES
    restart_after,  \* ClientConfig: the quota
    lease,          \* ClientConfig: is there a lease
    pc,             \* where the process is
    work,           \* the Work of the current round
    served,         \* pieces of work since the process started
    exiting,        \* the quota is reached
    reset_failed,   \* the reset of this round failed
    held,           \* the work's loop waits for something that may never come
    link,           \* the connection, as the network has it
    inbox,          \* work on its way to the worker, which looks at its kind then
    offered,        \* the server has this connection in its idle queue
    early,          \* history: it was put there, since the Hello, before a report
    report_failed   \* history: a report of this process ended in a send error

config == <<restart_after, lease>>
round == <<work, served, exiting, reset_failed, held>>
net == <<link, inbox, offered, early>>
vars == <<config, pc, round, net, report_failed, sandboxVars>>

Work == {"Execute", "Pty", "Session"}
Pc == {"connecting", "greeting", "idle", "running", "resetting", "reporting", "closing",
       "sleeping", "exited"}
\* Up, partitioned without a FIN having reached the worker, or closed.
Link == {"none", "up", "silent", "gone"}
Dead == {"silent", "gone"}

Init ==
    /\ restart_after \in RestartAfters
    /\ lease \in Leases
    /\ pc = "connecting"
    /\ work = "none"
    /\ served = 0
    /\ exiting = FALSE
    /\ reset_failed = FALSE
    /\ held = FALSE
    /\ SandboxInit
    /\ link = "none"
    /\ inbox = "none"
    /\ offered = FALSE
    /\ early = FALSE
    /\ report_failed = FALSE

-----------------------------------------------------------------------------
(* The server and the network.                                             *)

\* register_and_run acknowledges the Hello and queues the connection as idle.
\* (The frame is read by HelloAcked.)
Offer ==
    /\ link = "up"
    /\ pc = "greeting"
    /\ ~offered /\ inbox = "none"
    /\ offered' = TRUE
    /\ UNCHANGED <<config, pc, round, sandboxVars, link, inbox, early, report_failed>>

\* dispatch, acquire_pinned and create_session take the worker out of the idle
\* queue and send it work.  (A second frame behind an unread one, which takes an
\* early release, is left out.)
Dispatch ==
    /\ link = "up"
    /\ offered /\ inbox = "none"
    /\ offered' = FALSE
    /\ inbox' = "work"
    /\ UNCHANGED <<config, pc, round, sandboxVars, link, early, report_failed>>

\* The client of a PTY has left, and no PtyExit came within 5 s of the PtyClose: the
\* pty handler releases the worker all the same, whatever it is doing.
ReleaseEarly ==
    /\ link = "up"
    /\ pc \in {"running", "resetting", "reporting"}
    /\ work = "Pty"
    /\ ~early
    /\ offered' = TRUE
    /\ early' = TRUE
    /\ UNCHANGED <<config, pc, round, sandboxVars, link, inbox, report_failed>>

\* The server or the network fails, with or without a FIN for the worker, and
\* the server's worker drop takes the connection out of the queue.  Nothing is sent on it
\* any more, so that an early release has no effect on it any more either.
LinkFails(l) ==
    /\ link = "up"
    /\ link' = l
    /\ inbox' = "none"
    /\ offered' = FALSE
    /\ early' = FALSE
    /\ UNCHANGED <<config, pc, round, sandboxVars, report_failed>>

\* TCP finds out about a partition at last.
SilenceEnds ==
    /\ link = "silent"
    /\ link' = "gone"
    /\ UNCHANGED <<config, pc, round, sandboxVars, inbox, offered, early, report_failed>>

-----------------------------------------------------------------------------
(* run and serve_session.                                                  *)

\* Mutant of ConnectionOver: the lease is never checked.
OnlyClosed == link = "gone"

\* The socket is closed, or nothing was heard from the server for the lease.
ConnectionOver == link = "gone" \/ (link = "silent" /\ lease)

\* The worker lets go of its connection.
HangUp == link' = "none" /\ inbox' = "none" /\ offered' = FALSE /\ early' = FALSE

\* serve_session returned Closed or an error: sleep, then connect again.
Reconnect == pc' = "sleeping" /\ HangUp

\* serve_session returned anything else: run returns, the process exits, and its
\* container ends with it.
Exit == pc' = "exited" /\ HangUp /\ FreshContainer

\* connect_async and the Hello succeed, or fail within their timeout.
Connect ==
    /\ pc = "connecting"
    /\ \/ /\ pc' = "greeting"
          /\ link' = "up"
          /\ UNCHANGED <<inbox, offered, early>>
       \/ Reconnect
    /\ UNCHANGED <<config, round, sandboxVars, report_failed>>

\* A matching HelloAck makes the connection usable.
HelloAcked ==
    /\ pc = "greeting"
    /\ offered \/ inbox # "none"
    /\ pc' = "idle"
    /\ UNCHANGED <<config, round, sandboxVars, net, report_failed>>

\* No HelloAck in 10 s, another frame, or the end of the connection.
GreetingFails ==
    /\ pc = "greeting"
    /\ Reconnect
    /\ UNCHANGED <<config, round, sandboxVars, report_failed>>

\* next_execute: the next piece of work.  The bound ends a run that no quota ends.
TakeWork ==
    /\ pc = "idle"
    /\ inbox # "none"
    /\ served < MaxServed
    /\ pc' = "running"
    /\ work' \in Work
    /\ inbox' = "none"
    /\ UNCHANGED <<config, served, exiting, reset_failed, held, link, offered, early>>
    /\ UNCHANGED <<report_failed, sandboxVars>>

\* run_pty and the reset's loop read work that the server should not have sent yet,
\* and ignore it.
IgnoreWork ==
    /\ pc \in {"running", "resetting"}
    /\ inbox # "none" /\ ~held
    /\ inbox' = "none"
    /\ UNCHANGED <<config, pc, round, link, offered, early, report_failed, sandboxVars>>

\* next_execute: the connection closed, or nothing was heard for the lease.
IdleEnds ==
    /\ pc = "idle"
    /\ ConnectionOver
    /\ Reconnect
    /\ UNCHANGED <<config, round, sandboxVars, report_failed>>

\* Mutant of QuotaReached: one piece of work too many.
QuotaExceeded(n) == restart_after # 0 /\ n > restart_after

QuotaReached(n) == restart_after # 0 /\ n >= restart_after

\* Mutant of CountServed: the pieces of work left are counted, from zero down.
CountDown == served - 1

CountServed == served + 1

\* Mutant of WorkDone: the report goes out before the reset.
WorkDoneReported ==
    /\ pc = "running" /\ ~held
    /\ served' = CountServed
    /\ exiting' = QuotaReached(CountServed)
    /\ reset_failed' = FALSE
    /\ pc' = IF exiting' THEN "reporting" ELSE "resetting"
    /\ offered' = (link = "up")
    /\ IF exiting' THEN UNCHANGED sweep ELSE ResetStarts
    /\ UNCHANGED <<config, work, held, pid1, box, link, inbox, early, report_failed>>

\* run_command, run_pty or run_session is done: count it, and skip the reset
\* if the process is about to exit.
WorkDone ==
    /\ pc = "running" /\ ~held
    /\ served' = CountServed
    /\ exiting' = QuotaReached(CountServed)
    /\ reset_failed' = FALSE
    /\ pc' = IF exiting' THEN "reporting" ELSE "resetting"
    /\ IF exiting' THEN UNCHANGED sweep ELSE ResetStarts
    /\ UNCHANGED <<config, work, held, pid1, box, net, report_failed>>

\* The work's loop waits where it looks neither at the socket nor at the lease, and
\* nothing bounds the wait: run_pty and run_session for a program to read its input
\* (write_input), for the server to read their output or for the shell's exit, and
\* run_command, once it has cancelled the command, for its end (exec::run).
LoopHeld ==
    /\ pc = "running" /\ ~held
    /\ work \in {"Pty", "Session"} \/ ConnectionOver
    /\ held' = TRUE
    /\ UNCHANGED <<config, pc, work, served, exiting, reset_failed, net, report_failed,
                   sandboxVars>>

LoopGoesOn ==
    /\ held
    /\ held' = FALSE
    /\ UNCHANGED <<config, pc, work, served, exiting, reset_failed, net, report_failed,
                   sandboxVars>>

\* The connection died under it, or the lease lapsed: LostMidCommand.
LostMidCommand ==
    /\ pc = "running" /\ ~held
    /\ ConnectionOver
    /\ Exit
    /\ UNCHANGED <<config, round, report_failed>>

\* run_command kills the command; run_pty and run_session hang up the shell.
CommandLost == work = "Execute" /\ LostMidCommand
PtyLost == work = "Pty" /\ LostMidCommand
SessionLost == work = "Session" /\ LostMidCommand

WorkLost == CommandLost \/ PtyLost \/ SessionLost

\* run_command, run_pty and run_session name the account of their drop_to, once or
\* once per command.
NameAccount ==
    /\ pc = "running"
    /\ \E a \in Account, create_home \in BOOLEAN : Ensure(a, create_home)
    /\ UNCHANGED <<config, pc, round, net, report_failed>>

\* What the work has started goes on, for as long as the container lives.
ProcessStep ==
    /\ pc # "exited"
    /\ ProcStep(pc = "running")
    /\ UNCHANGED <<config, pc, round, net, report_failed>>

\* The reset runs to its end, whatever becomes of the connection meanwhile.
Resetting ==
    /\ pc = "resetting"
    /\ ResetStep
    /\ UNCHANGED <<config, pc, round, net, report_failed>>

ResetLate ==
    /\ pc = "resetting"
    /\ DeadlinePasses
    /\ UNCHANGED <<config, pc, round, net, report_failed>>

ResetEnds ==
    /\ pc = "resetting"
    /\ \E kept \in SUBSET homes : CleanAccounts(kept)
    /\ pc' = "reporting"
    /\ reset_failed' = first_err
    /\ UNCHANGED <<config, work, served, exiting, held, net, report_failed>>

\* The send of the Result, PtyExit or SessionClosed returns; on a dead connection
\* the report is lost.  The server puts the worker back into its idle queue,
\* except after a SessionClosed that is not reusable.  A PtyExit that finds the worker
\* released already goes to the PTY that has it by then, if any, and releases it again.
Report ==
    /\ pc = "reporting"
    /\ pc' = IF exiting \/ reset_failed THEN "closing" ELSE "idle"
    /\ \/ offered' = (link = "up" /\ (work = "Session" => ~reset_failed /\ ~exiting))
       \/ early /\ UNCHANGED offered
    /\ work' = "none"
    /\ UNCHANGED <<config, served, exiting, reset_failed, held, sandboxVars, link, inbox, early,
                   report_failed>>

\* RestartQuotaReached or ResetFailed: close the socket and exit.  The server
\* may have dispatched to the worker again meanwhile.
CloseAndExit ==
    /\ pc = "closing"
    /\ Exit
    /\ UNCHANGED <<config, round, report_failed>>

\* The send on the dead socket returns an error, rather than disappear in the
\* kernel's buffer: serve_session returns Closed.
ReportFails ==
    /\ pc = "reporting"
    /\ link = "gone"
    /\ Reconnect
    /\ work' = "none"
    /\ report_failed' = TRUE
    /\ exiting' = FALSE /\ reset_failed' = FALSE
    /\ UNCHANGED <<config, served, held, sandboxVars>>

Sleep ==
    /\ pc = "sleeping"
    /\ pc' = "connecting"
    /\ UNCHANGED <<config, round, sandboxVars, net, report_failed>>

\* The orchestrator starts the process again in a fresh container.
Restart ==
    /\ pc = "exited"
    /\ pc' = "connecting"
    /\ work' = "none"
    /\ served' = 0
    /\ exiting' = FALSE
    /\ reset_failed' = FALSE
    /\ report_failed' = FALSE
    /\ UNCHANGED <<config, held, net, sandboxVars>>

Next ==
    \/ Offer \/ Dispatch \/ (\E l \in Dead : LinkFails(l))
    \/ ReleaseEarly \/ SilenceEnds
    \/ Connect \/ HelloAcked \/ GreetingFails \/ TakeWork \/ IgnoreWork \/ IdleEnds
    \/ LoopHeld \/ LoopGoesOn
    \/ WorkDone \/ WorkLost \/ NameAccount \/ ProcessStep
    \/ Resetting \/ ResetLate \/ ResetEnds
    \/ Report \/ CloseAndExit \/ ReportFails \/ Sleep \/ Restart

Spec == Init /\ [][Next]_vars

\* What the process itself does next, but for its work.
Turn ==
    \/ Connect \/ GreetingFails \/ IdleEnds \/ Sleep
    \/ Resetting \/ ResetEnds \/ Report \/ ReportFails \/ CloseAndExit

\* The process goes on: it reads what the socket has to say, its timers fire and its
\* reset ends; a report on a dead connection is sent, or fails once TCP gives up.  How
\* long work takes is not assumed, and nothing says that a loop that is held ever goes
\* on.  One that does, time and again, gets to the end of the connection or of the
\* lease, since what is left to read and to write by then is finite.
FairSpec ==
    /\ Spec
    /\ WF_vars(Turn) /\ WF_vars(ResetLate) /\ SF_vars(WorkLost)

-----------------------------------------------------------------------------
(* Properties.                                                             *)

\* The shape of the worker's state.
TypeOK ==
    /\ restart_after \in RestartAfters
    /\ lease \in BOOLEAN
    /\ pc \in Pc
    /\ work \in Work \cup {"none"}
    /\ served \in 0..MaxServed
    /\ exiting \in BOOLEAN
    /\ reset_failed \in BOOLEAN
    /\ held \in BOOLEAN
    /\ SandboxTypeOK
    /\ link \in Link
    /\ inbox \in {"none", "work"}
    /\ offered \in BOOLEAN
    /\ early \in BOOLEAN
    /\ report_failed \in BOOLEAN

\* Whenever the worker waits for work, on whichever connection, its container holds
\* no process, no scratch file and no IPC object of earlier work, unless a report
\* ended in a send error; and what may be left of the IPC objects is in a table that
\* could not be read (run and serve_session: LostMidCommand, ResetFailed and
\* RestartQuotaReached all exit; reset: "returning Err if the sandbox can no longer
\* be trusted as clean"; ipc_ids: Err(_) => Vec::new()).
CleanReuse == pc = "idle" /\ pid1 => Clean \/ report_failed

\* Whenever the worker waits for work, every account it named has been forgotten by
\* the ledger, and its line and its home are gone, unless the very step that makes
\* or removes them has failed; the image's own lines are all there ("Everything
\* created here is undone by the between-session reset", account.rs).
AccountsUndone ==
    pc = "idle" /\ ~report_failed =>
        /\ ledger = {}
        /\ passwd = Baked \/ "passwd" \in io_errors
        /\ homes = {} \/ "home" \in io_errors

\* The process serves at most restart_after pieces of work (restart_after in
\* ClientConfig), over however many connections, unless a report ended in a send
\* error.
QuotaRespected == restart_after # 0 /\ ~report_failed => served <= restart_after

\* On a connection on which the server has never released the worker before its
\* report, no dispatched work is thrown away: none is on its way while the work's loop
\* or the reset's, which ignore it, reads the socket (serve_session, phases 2 to 4).
\* The pty handler does release it early, 5 s after a PtyClose: that is early.
NothingSwallowed == inbox # "none" /\ ~early => pc \in {"greeting", "idle", "closing"}

\* With a lease, the worker lets go of every dead connection, even one that no
\* FIN ever closes, in whichever phase it dies, unless the work's loop is held for
\* good where it looks neither at the socket nor at the lease.
LetsGo == []<>~held => ((lease /\ link \in Dead) ~> link = "none")
=============================================================================
